---------------------------- MODULE AdminConsole ----------------------------
(* The page of one platform administrator (admin/page.tsx): two tables whose *)
(* switches show a change before it is stored, a drawer about a workspace    *)
(* with a letter to its owner, and announcements to every user.              *)
EXTENDS FiniteSets, Naturals

CONSTANTS Spaces, Folk, Me,      \* Tenant rows, User rows; this administrator is one of these
          NoEntry, Owns,           \* the workspaces that go with a user when he is deleted
          Errands,               \* requests of the page under way
          MaxWishes, MaxConsoleFaults    \* bounds: what the user does; failures, lost answers, other administrators

ASSUME AdminConsoleAssumption ==
    /\ Me \in Folk /\ Spaces \cap Folk = {} /\ NoEntry \notin Spaces \cup Folk /\ Owns \in [Folk -> SUBSET Spaces]
    /\ IsFiniteSet(Errands) /\ MaxWishes \in Nat /\ MaxConsoleFaults \in Nat

Entries == Spaces \cup Folk
Desks == {"tenants", "users"}
RowsOf(t) == IF t = "tenants" THEN Spaces ELSE Folk
DeskOf(r) == IF r \in Spaces THEN "tenants" ELSE "users"
\* on: suspended, or administrator.  grade: on a paid plan, or verified.
Entry == [on : BOOLEAN, grade : BOOLEAN]
Gone == [on |-> FALSE]

VARIABLES
    recs,             \* Tenant.isSuspended and plan; User.isSuperAdmin and emailVerifiedAt
    desk,             \* tenants and users as shown: a row, or Gone
    turning, sought,  \* tenantsLoading and usersLoading; tenantSearch and userSearch, as the rows that match
    errand,           \* requests
    opened,           \* selectedTenant with drawerOpen
    query,            \* the question asked
    letter,           \* the drawer's form: typed, being sent, and whose result it shows
    bulletin,         \* the announcement: typed, being sent
    letters, posts,   \* mails sent: by the drawer since its form was filled, to each user by announcements
    \* history
    sure,             \* desks whose last request for the list was alone and for what is sought now
    raced,            \* rows changed by two at once, while the list was read, or with their answer lost
    blurred, misheard,     \* the drawer was opened while a change, a letter was under way; over a table in doubt
    bulletins, unknown,    \* announcements written; answers to letters and to announcements that were lost
    wishes, consoleFaults
tableVars == <<desk, turning, sought, sure>>
mailVars == <<letter, bulletin, letters, posts, misheard, bulletins, unknown>>
consoleVars == <<recs, tableVars, errand, opened, query, mailVars, raced, blurred, wishes, consoleFaults>>

NoErrand == [kind |-> "none", pc |-> "idle", row |-> NoEntry, field |-> "on", value |-> FALSE, seek |-> {},
             list |-> [r \in Entries |-> Gone], drawn |-> FALSE, to |-> {}]
NoPick == [open |-> FALSE, row |-> NoEntry, shows |-> Gone]
NoQuery == [kind |-> "none", row |-> NoEntry, drawn |-> FALSE]

ConsoleInit ==
    /\ recs = [r \in Entries |-> [on |-> r = Me, grade |-> r = Me]]
    /\ desk = [r \in Entries |-> Gone] /\ turning = Desks /\ sought = Entries
    /\ errand = [k \in Errands |-> NoErrand]
    /\ opened = NoPick /\ query = NoQuery
    /\ letter = [typed |-> FALSE, to |-> NoEntry, says |-> NoEntry] /\ letters = 0
    /\ bulletin = [typed |-> FALSE, sending |-> FALSE] /\ posts = [p \in Folk |-> 0]
    /\ sure = {} /\ raced = {} /\ blurred = FALSE /\ misheard = FALSE
    /\ bulletins = 0 /\ unknown = [letter |-> 0, bulletin |-> 0] /\ wishes = 0 /\ consoleFaults = 0

Wish == wishes < MaxWishes /\ wishes' = wishes + 1
Upset == consoleFaults < MaxConsoleFaults /\ consoleFaults' = consoleFaults + 1
OnShow(r) == desk[r] # Gone
Stands(r) == recs[r] # Gone
RowsAsked(t) == {k \in Errands : errand[k].kind = "list" /\ errand[k].row = t}
Changing(t) == {k \in Errands : errand[k].kind \in {"put", "verify", "delete"} /\ DeskOf(errand[k].row) = t}
Barred == ~Stands(Me) \/ ~recs[Me].on    \* SuperAdminGuard asks the row
Spare(k) == errand[k].kind = "none"
Clear == query.kind = "none"
OnDesk(r) == Clear /\ ~opened.open /\ OnShow(r) /\ DeskOf(r) \notin turning
InDrawer == Clear /\ opened.open

----------------------------------------------------------------------------
(* The tables.  Every keystroke in a search box asks for the list.           *)

\* The list is asked for, with the search as the page had it when its handler was made.
FetchRows(k, t, seek) ==
    /\ errand' = [errand EXCEPT ![k] = [NoErrand EXCEPT !.kind = "list", !.pc = "sent", !.row = t, !.seek = seek]]
    /\ turning' = turning \cup {t}
    /\ sure' = IF RowsAsked(t) = {} /\ seek = sought' \cap RowsOf(t) THEN sure \cup {t} ELSE sure \ {t}
    /\ raced' = raced \cup {errand[j].row : j \in Changing(t) \ {k}}
    /\ UNCHANGED desk

FirstRows(k, t) ==
    /\ Spare(k) /\ t \in turning /\ RowsAsked(t) = {}
    /\ UNCHANGED sought /\ FetchRows(k, t, sought \cap RowsOf(t))
    /\ UNCHANGED <<recs, opened, query, mailVars, blurred, wishes, consoleFaults>>

Search(k, t, rows) ==
    /\ Wish /\ Clear /\ ~opened.open /\ Spare(k) /\ rows # sought \cap RowsOf(t)
    /\ sought' = (sought \ RowsOf(t)) \cup rows
    /\ FetchRows(k, t, rows)
    /\ UNCHANGED <<recs, opened, query, mailVars, blurred, consoleFaults>>

GetRows(k) ==
    /\ errand[k].kind = "list" /\ errand[k].pc = "sent" /\ ~Barred
    /\ errand' = [errand EXCEPT ![k].pc = "answered",
                                ![k].list = [r \in Entries |-> IF r \in errand[k].seek THEN recs[r] ELSE Gone]]
    /\ UNCHANGED <<recs, tableVars, opened, query, mailVars, raced, blurred, wishes, consoleFaults>>

SetRows(k) ==
    LET t == errand[k].row IN
    /\ errand[k].kind = "list" /\ errand[k].pc = "answered"
    /\ desk' = [r \in Entries |-> IF r \in RowsOf(t) THEN errand[k].list[r] ELSE desk[r]]
    /\ turning' = turning \ {t}
    /\ errand' = [errand EXCEPT ![k] = NoErrand]
    /\ UNCHANGED <<recs, sought, sure, opened, query, mailVars, raced, blurred, wishes, consoleFaults>>

FetchRowsFails(k) ==
    /\ errand[k].kind = "list" /\ IF errand[k].pc = "sent" /\ Barred THEN UNCHANGED consoleFaults ELSE Upset
    /\ turning' = turning \ {errand[k].row} /\ sure' = sure \ {errand[k].row}
    /\ errand' = [errand EXCEPT ![k] = NoErrand]
    /\ UNCHANGED <<recs, desk, sought, opened, query, mailVars, raced, blurred, wishes>>

----------------------------------------------------------------------------
(* The switches.                                                             *)

Issue(k, kind, r, field, value, drawn) ==
    /\ errand' = [errand EXCEPT ![k] = [NoErrand EXCEPT !.kind = kind, !.pc = "sent", !.row = r, !.field = field,
                                          !.value = value, !.seek = sought \cap RowsOf(DeskOf(r)), !.drawn = drawn]]
    /\ raced' = IF \/ RowsAsked(DeskOf(r)) # {} \/ (opened.open /\ blurred)
                   \/ \E j \in Changing(DeskOf(r)) : errand[j].row = r
                THEN raced \cup {r} ELSE raced

\* handleTenantSuspend, handleToggleAdmin: the table turns its own row, the request asks for the opposite of what the
\* row that was clicked shows, in the table or in the drawer.
Toggle(k, r, shows) ==
    /\ Wish /\ Spare(k)
    /\ desk' = IF OnShow(r) THEN [desk EXCEPT ![r].on = ~@] ELSE desk
    /\ Issue(k, "put", r, "on", ~shows.on, opened.row = r)
    /\ UNCHANGED <<recs, turning, sought, sure, opened, query, mailVars, blurred, consoleFaults>>

ToggleOnDesk(k, r) == OnDesk(r) /\ Toggle(k, r, desk[r])
ToggleInDrawer(k) == InDrawer /\ Toggle(k, opened.row, opened.shows)

\* handleTenantPlan, from the table or from the drawer.
SetPlan(k, r, paid) ==
    /\ Wish /\ Spare(k) /\ (OnDesk(r) \/ (InDrawer /\ opened.row = r))
    /\ desk' = IF OnShow(r) THEN [desk EXCEPT ![r].grade = paid] ELSE desk
    /\ Issue(k, "put", r, "grade", paid, opened.row = r)
    /\ UNCHANGED <<recs, turning, sought, sure, opened, query, mailVars, blurred, consoleFaults>>

\* handleVerifyUserEmail shows nothing yet.
VerifyUserEmail(k, p) ==
    /\ Wish /\ Spare(k) /\ OnDesk(p) /\ ~desk[p].grade
    /\ Issue(k, "verify", p, "grade", TRUE, FALSE)
    /\ UNCHANGED <<recs, tableVars, opened, query, mailVars, blurred, consoleFaults>>

Forbidden(k) ==
    \/ Barred
    \/ errand[k].row = Me /\ (errand[k].kind = "delete" \/ (errand[k].field = "on" /\ ~errand[k].value))

\* updateTenant, updateUser: none dismisses himself.
StoreChange(k) ==
    LET e == errand[k] IN
    /\ e.kind = "put" /\ e.pc = "sent" /\ Stands(e.row) /\ ~Forbidden(k)
    /\ recs' = [recs EXCEPT ![e.row][e.field] = e.value]
    /\ errand' = [errand EXCEPT ![k].pc = "stored"]
    /\ UNCHANGED <<tableVars, opened, query, mailVars, raced, blurred, wishes, consoleFaults>>

MarkVerified(k) ==
    /\ errand[k].kind = "verify" /\ errand[k].pc = "sent" /\ Stands(errand[k].row) /\ ~Forbidden(k)
    /\ recs' = [recs EXCEPT ![errand[k].row].grade = TRUE]
    /\ errand' = [errand EXCEPT ![k].pc = "stored"]
    /\ UNCHANGED <<tableVars, opened, query, mailVars, raced, blurred, wishes, consoleFaults>>

\* The answer to a change of the workspace that was in the drawer changes whichever is in it now.
ChangeDone(k) ==
    LET e == errand[k] IN
    /\ e.kind \in {"put", "verify"} /\ e.pc = "stored"
    /\ opened' = IF ~e.drawn \/ opened.row = NoEntry THEN opened
                 ELSE IF e.field = "on" THEN [opened EXCEPT !.shows.on = ~@]
                 ELSE [opened EXCEPT !.shows.grade = e.value]
    /\ desk' = IF e.kind = "verify" /\ OnShow(e.row) THEN [desk EXCEPT ![e.row].grade = TRUE] ELSE desk
    /\ errand' = [errand EXCEPT ![k] = NoErrand]
    /\ UNCHANGED <<recs, turning, sought, sure, query, mailVars, raced, blurred, wishes, consoleFaults>>

\* What ends a change badly: a refusal, a failure, or a lost answer.
Trouble(k) ==
    IF errand[k].pc = "sent" /\ (~Stands(errand[k].row) \/ Forbidden(k)) THEN UNCHANGED consoleFaults ELSE Upset

\* The table asks anew, with the search of the click; the drawer is left as it is.
PutFails(k) ==
    /\ errand[k].kind = "put" /\ Trouble(k)
    /\ blurred' = (blurred \/ errand[k].drawn)
    /\ UNCHANGED sought /\ FetchRows(k, DeskOf(errand[k].row), errand[k].seek)
    /\ UNCHANGED <<recs, opened, query, mailVars, wishes>>

\* Only a message: what was stored is not shown.
OthersFail(k) ==
    /\ errand[k].kind \in {"verify", "delete"} /\ Trouble(k)
    /\ raced' = IF errand[k].pc = "stored" THEN raced \cup {errand[k].row} ELSE raced
    /\ errand' = [errand EXCEPT ![k] = NoErrand]
    /\ UNCHANGED <<recs, tableVars, opened, query, mailVars, blurred, wishes>>

\* Another administrator.
ChangedElsewhere(r) ==
    /\ Stands(r) /\ Upset
    /\ recs' \in {[recs EXCEPT ![r].on = ~@], [recs EXCEPT ![r] = Gone]}
    /\ raced' = raced \cup {r}
    /\ UNCHANGED <<tableVars, errand, opened, query, mailVars, blurred, wishes>>

----------------------------------------------------------------------------
(* Deletion, after a question.                                               *)

AskDeletion(r, drawn) ==
    /\ Wish /\ IF drawn THEN InDrawer /\ opened.row = r ELSE OnDesk(r)
    /\ query' = [kind |-> "delete", row |-> r, drawn |-> opened.row = r]
    /\ UNCHANGED <<recs, tableVars, errand, opened, mailVars, raced, blurred, consoleFaults>>

Decline ==
    /\ ~Clear /\ query' = NoQuery
    /\ UNCHANGED <<recs, tableVars, errand, opened, mailVars, raced, blurred, wishes, consoleFaults>>

Confirm(k) ==
    /\ query.kind = "delete" /\ Spare(k)
    /\ Issue(k, "delete", query.row, "on", FALSE, query.drawn)
    /\ query' = NoQuery
    /\ UNCHANGED <<recs, tableVars, opened, mailVars, blurred, wishes, consoleFaults>>

\* deleteTenant; deleteUser takes his workspaces along, of which the other table is not told.
StoreDeletion(k) ==
    LET r == errand[k].row  owned == IF r \in Folk THEN Owns[r] ELSE {} IN
    /\ errand[k].kind = "delete" /\ errand[k].pc = "sent" /\ Stands(r) /\ ~Forbidden(k)
    /\ recs' = [x \in Entries |-> IF x \in {r} \cup owned THEN Gone ELSE recs[x]]
    /\ raced' = raced \cup owned
    /\ errand' = [errand EXCEPT ![k].pc = "stored"]
    /\ UNCHANGED <<tableVars, opened, query, mailVars, blurred, wishes, consoleFaults>>

\* The drawer is closed if it was about this workspace when the question was asked.
DeletionDone(k) ==
    /\ errand[k].kind = "delete" /\ errand[k].pc = "stored"
    /\ opened' = IF errand[k].drawn THEN NoPick ELSE opened
    /\ UNCHANGED sought /\ FetchRows(k, DeskOf(errand[k].row), errand[k].seek)
    /\ UNCHANGED <<recs, query, mailVars, blurred, wishes, consoleFaults>>

----------------------------------------------------------------------------
(* The drawer and its letter.                                                *)

OpenTenantDrawer(w) ==
    /\ Wish /\ OnDesk(w)
    /\ opened' = [open |-> TRUE, row |-> w, shows |-> desk[w]]
    /\ letter' = [letter EXCEPT !.typed = FALSE, !.says = NoEntry]
    /\ blurred' = (Changing("tenants") # {} \/ "tenants" \notin sure) /\ misheard' = (letter.to # NoEntry)
    /\ UNCHANGED <<recs, tableVars, errand, query, bulletin, letters, posts, bulletins, unknown, raced,
                   consoleFaults>>

CloseDrawer ==
    /\ InDrawer /\ opened' = [opened EXCEPT !.open = FALSE]
    /\ UNCHANGED <<recs, tableVars, errand, query, mailVars, raced, blurred, wishes, consoleFaults>>

TypeLetter ==
    /\ InDrawer /\ ~letter.typed
    /\ letter' = [letter EXCEPT !.typed = TRUE] /\ letters' = 0 /\ unknown' = [unknown EXCEPT !.letter = 0]
    /\ UNCHANGED <<recs, tableVars, errand, opened, query, bulletin, posts, misheard, bulletins, raced, blurred,
                   wishes, consoleFaults>>

EmailTenant(k) ==
    /\ InDrawer /\ letter.typed /\ letter.to = NoEntry /\ Spare(k)
    /\ letter' = [letter EXCEPT !.to = opened.row, !.says = NoEntry]
    /\ errand' = [errand EXCEPT ![k] = [NoErrand EXCEPT !.kind = "letter", !.pc = "sent", !.row = opened.row]]
    /\ UNCHANGED <<recs, tableVars, opened, query, bulletin, letters, posts, misheard, bulletins, unknown, raced,
                   blurred, wishes, consoleFaults>>

\* emailTenant
MailOwner(k) ==
    /\ errand[k].kind = "letter" /\ errand[k].pc = "sent" /\ Stands(errand[k].row) /\ ~Barred
    /\ letters' = letters + 1
    /\ errand' = [errand EXCEPT ![k].pc = "stored"]
    /\ UNCHANGED <<recs, tableVars, opened, query, letter, bulletin, posts, misheard, bulletins, unknown, raced,
                   blurred, wishes, consoleFaults>>

\* The form is emptied, and the result shown, for whichever workspace the drawer is about now.
LetterAnswered(k) ==
    /\ errand[k].kind = "letter"
    /\ \/ errand[k].pc = "stored" /\ letter' = [typed |-> FALSE, to |-> NoEntry, says |-> errand[k].row]
          /\ UNCHANGED <<unknown, consoleFaults>>
       \/ letter' = [letter EXCEPT !.to = NoEntry, !.says = errand[k].row]
          /\ Trouble(k) /\ unknown' = IF errand[k].pc = "stored" THEN [unknown EXCEPT !.letter = @ + 1] ELSE unknown
    /\ errand' = [errand EXCEPT ![k] = NoErrand]
    /\ UNCHANGED <<recs, tableVars, opened, query, bulletin, letters, posts, misheard, bulletins, raced, blurred,
                   wishes>>

----------------------------------------------------------------------------
(* Announcements.                                                            *)

TypeBulletin ==
    /\ Wish /\ Clear /\ ~opened.open /\ ~bulletin.typed
    /\ bulletin' = [bulletin EXCEPT !.typed = TRUE] /\ bulletins' = bulletins + 1
    /\ UNCHANGED <<recs, tableVars, errand, opened, query, letter, letters, posts, misheard, unknown, raced,
                   blurred, consoleFaults>>

AskBulletin ==
    /\ Clear /\ ~opened.open /\ bulletin.typed /\ ~bulletin.sending
    /\ query' = [NoQuery EXCEPT !.kind = "bulletin"]
    /\ UNCHANGED <<recs, tableVars, errand, opened, mailVars, raced, blurred, wishes, consoleFaults>>

SendBulletin(k) ==
    /\ query.kind = "bulletin" /\ Spare(k)
    /\ query' = NoQuery /\ bulletin' = [bulletin EXCEPT !.sending = TRUE]
    /\ errand' = [errand EXCEPT ![k] = [NoErrand EXCEPT !.kind = "bulletin", !.pc = "sent"]]
    /\ UNCHANGED <<recs, tableVars, opened, letter, letters, posts, misheard, bulletins, unknown, raced, blurred,
                   wishes, consoleFaults>>

\* sendAnnouncement reads every user and mails one after the other.
ReadUsers(k) ==
    /\ errand[k].kind = "bulletin" /\ errand[k].pc = "sent" /\ ~Barred
    /\ errand' = [errand EXCEPT ![k].pc = "running", ![k].to = {p \in Folk : Stands(p)}]
    /\ UNCHANGED <<recs, tableVars, opened, query, mailVars, raced, blurred, wishes, consoleFaults>>

MailUser(k, p) ==
    /\ errand[k].kind = "bulletin" /\ p \in errand[k].to
    /\ posts' = [posts EXCEPT ![p] = @ + 1]
    /\ errand' = [errand EXCEPT ![k].to = @ \ {p}]
    /\ UNCHANGED <<recs, tableVars, opened, query, letter, bulletin, letters, misheard, bulletins, unknown, raced,
                   blurred, wishes, consoleFaults>>

BulletinDone(k) ==
    /\ errand[k].kind = "bulletin" /\ errand[k].pc \in {"running", "lost"} /\ errand[k].to = {}
    /\ bulletin' = IF errand[k].pc = "running" THEN [typed |-> FALSE, sending |-> FALSE] ELSE bulletin
    /\ errand' = [errand EXCEPT ![k] = NoErrand]
    /\ UNCHANGED <<recs, tableVars, opened, query, letter, letters, posts, misheard, bulletins, unknown, raced,
                   blurred, wishes, consoleFaults>>

BulletinRefused(k) ==
    /\ errand[k].kind = "bulletin" /\ errand[k].pc = "sent"
    /\ IF Barred THEN UNCHANGED consoleFaults ELSE Upset
    /\ bulletin' = [bulletin EXCEPT !.sending = FALSE]
    /\ errand' = [errand EXCEPT ![k] = NoErrand]
    /\ UNCHANGED <<recs, tableVars, opened, query, letter, letters, posts, misheard, bulletins, unknown, raced,
                   blurred, wishes>>

\* The page hears nothing; the server goes on.
BulletinLost(k) ==
    /\ errand[k].kind = "bulletin" /\ errand[k].pc = "running" /\ Upset
    /\ bulletin' = [bulletin EXCEPT !.sending = FALSE]
    /\ unknown' = [unknown EXCEPT !.bulletin = @ + 1]
    /\ errand' = [errand EXCEPT ![k].pc = "lost"]
    /\ UNCHANGED <<recs, tableVars, opened, query, letter, letters, posts, misheard, bulletins, raced, blurred,
                   wishes>>

----------------------------------------------------------------------------
ConsoleNext ==
    \/ \E k \in Errands :
          \/ \E t \in Desks : FirstRows(k, t)
          \/ \E t \in Desks : \E rows \in {RowsOf(t)} \cup {{r} : r \in RowsOf(t)} : Search(k, t, rows)
          \/ GetRows(k) \/ SetRows(k) \/ FetchRowsFails(k)
          \/ \E r \in Entries : ToggleOnDesk(k, r)
          \/ \E w \in Spaces, paid \in BOOLEAN : SetPlan(k, w, paid)
          \/ \E p \in Folk : VerifyUserEmail(k, p) \/ MailUser(k, p)
          \/ ToggleInDrawer(k) \/ StoreChange(k) \/ MarkVerified(k) \/ ChangeDone(k) \/ PutFails(k) \/ OthersFail(k)
          \/ Confirm(k) \/ StoreDeletion(k) \/ DeletionDone(k)
          \/ EmailTenant(k) \/ MailOwner(k) \/ LetterAnswered(k)
          \/ SendBulletin(k) \/ ReadUsers(k) \/ BulletinDone(k) \/ BulletinRefused(k) \/ BulletinLost(k)
    \/ \E r \in Entries : ChangedElsewhere(r) \/ \E drawn \in BOOLEAN : AskDeletion(r, drawn)
    \/ \E w \in Spaces : OpenTenantDrawer(w)
    \/ Decline \/ CloseDrawer \/ TypeLetter \/ TypeBulletin \/ AskBulletin

ConsoleSpec == ConsoleInit /\ [][ConsoleNext]_consoleVars

----------------------------------------------------------------------------
ConsoleTypeOK ==
    /\ {recs, desk} \subseteq [Entries -> Entry \cup {Gone}]
    /\ turning \subseteq Desks /\ sure \subseteq Desks /\ UNION {sought, raced} \subseteq Entries
    /\ \A k \in Errands : errand[k].row \in Entries \cup Desks \cup {NoEntry}
    /\ {opened.row, letter.to, letter.says} \subseteq Spaces \cup {NoEntry} /\ query.row \in Entries \cup {NoEntry}
    /\ {blurred, misheard, bulletin.typed, bulletin.sending} \subseteq BOOLEAN
    /\ wishes \in 0..MaxWishes /\ consoleFaults \in 0..MaxConsoleFaults

\* Though a switch turns before its change is stored, once nothing is under way a table shows what is stored, unless
\* requests for the list crossed, the last one failed or was for an older search, or the row was changed by two at
\* once, while the list was read, from a drawer that did not show it right, or with its answer lost.
TablesTrue ==
    \A t \in sure \ turning :
        RowsAsked(t) = {} /\ Changing(t) = {} =>
            \A r \in RowsOf(t) \ raced : desk[r] = IF r \in sought THEN recs[r] ELSE Gone

\* The drawer shows its workspace as it is stored, unless it was opened over a table in doubt or while a change was
\* under way - the answer to which turns whatever it shows then -, or a change of its workspace failed.
DrawerTrue ==
    opened.open /\ ~blurred /\ opened.row \notin raced /\ Stands(opened.row) /\ Changing("tenants") = {} =>
        opened.shows = recs[opened.row]

\* The result under the drawer's letter is of a letter to this workspace, unless the drawer was opened while one was
\* being sent; and what was typed once is sent once, and once more for each answer that was lost.
LetterOfOne ==
    /\ letter.says # NoEntry /\ opened.open /\ ~misheard => letter.says = opened.row
    /\ letters <= 1 + unknown.letter

\* No user gets an announcement twice, but for an answer that was lost while the server went on.
AnnouncedOnce == \A p \in Folk : posts[p] <= bulletins + unknown.bulletin
=============================================================================

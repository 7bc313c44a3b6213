------------------------------ MODULE Sessions ------------------------------
(* The sessions of one browser: what its tabs share (localStorage), what     *)
(* each of them keeps (auth-context.tsx), the guard of the dashboard, the    *)
(* interceptors around every request (api.ts), and the forms of the pages    *)
(* outside the dashboard.  A person stands for his account and workspace.    *)
EXTENDS Naturals, Sequences, FiniteSets

CONSTANTS Tabs, Persons, NoPerson,
          MaxSessions,        \* bound: tokens issued
          MaxVisits,          \* bound: pages opened, forms sent and requests made
          MaxSessionFaults    \* bound: lost answers, tokens that are no longer accepted

ASSUME SessionsAssumption ==
    /\ NoPerson \notin Persons /\ NoPerson \notin Tabs
    /\ MaxVisits \in Nat /\ MaxSessionFaults \in Nat

VARIABLES
    \* server
    enrolled,     \* persons with an account
    tokens,       \* whom each token is for, in the order of sign-ins
    ended,        \* tokens that are refused: expired, or of a suspended workspace
    linkUsed,     \* the tab that used the link somebody was mailed
    \* browser
    store,        \* localStorage: token and user
    window,       \* each tab: its page, the token and user of its context, and what its page outside says
    sheet,        \* the request of each tab's form: it is disabled meanwhile
    sideCall,     \* another request of each tab
    \* history
    apart,        \* tabs that did not see another one sign in or out
    patched,      \* such a tab wrote its user into the store
    burdened,     \* the session began while requests of before were on their way
    wandered,     \* somebody left the sign-in page before its answer
    ousted,       \* a session the server accepts, and that is not burdened, was forgotten
    untold,       \* the answer to the mailed link was lost, or its page left
    visits, sessionFaults
serverSide == <<enrolled, tokens, ended, linkUsed>>
story == <<apart, patched, burdened, wandered, ousted, untold>>
sessionVars == <<serverSide, store, window, sheet, sideCall, story, visits, sessionFaults>>

Outside == {"login", "register", "mail"}    \* "mail": forgot-password, reset-password, accept-invite
NoSession == [token |-> 0, user |-> NoPerson]
AtPage(page) == [page |-> page, token |-> 0, user |-> NoPerson, says |-> "nothing"]
NoForm == [kind |-> "none", pc |-> "idle", as |-> 0, who |-> NoPerson, odd |-> FALSE]
NoAsk == [pc |-> "idle", as |-> 0]

SessionsInit ==
    /\ enrolled = {} /\ tokens = <<>> /\ ended = {} /\ linkUsed = NoPerson
    /\ store = NoSession /\ window = [t \in Tabs |-> AtPage("closed")]
    /\ sheet = [t \in Tabs |-> NoForm] /\ sideCall = [t \in Tabs |-> NoAsk]
    /\ apart = {} /\ patched = FALSE /\ burdened = FALSE /\ wandered = FALSE /\ ousted = FALSE /\ untold = FALSE
    /\ visits = 0 /\ sessionFaults = 0

Call == visits < MaxVisits /\ visits' = visits + 1
SessionFault == sessionFaults < MaxSessionFaults /\ sessionFaults' = sessionFaults + 1
At(t, page) == window[t].page = page
Accepted(token) == token # 0 /\ token \notin ended
\* Whatever a tab does to the store, the others do not notice.
Unnoticed(t) == (apart \cup {x \in Tabs : window[x].page # "closed"}) \ {t}
LinkLeft(t) == untold \/ linkUsed = t

----------------------------------------------------------------------------
(* Pages.                                                                    *)

\* A page is loaded: the context reads the store, and the guard sends who is not signed in to the sign-in page.
OpenPage(t, page) ==
    /\ Call
    /\ window' = [window EXCEPT ![t] =
          IF store.token # 0 THEN [AtPage(page) EXCEPT !.token = store.token, !.user = store.user]
          ELSE AtPage(IF page \in Outside THEN page ELSE "login")]
    /\ sheet' = [sheet EXCEPT ![t] = NoForm] /\ sideCall' = [sideCall EXCEPT ![t] = NoAsk]
    /\ apart' = apart \ {t} /\ untold' = LinkLeft(t)
    /\ UNCHANGED <<serverSide, store, patched, burdened, wandered, ousted, sessionFaults>>

\* A link from one page outside to another keeps the context and what is on its way.
FollowLink(t, page) ==
    /\ Call /\ window[t].page \in Outside \ {page} /\ window[t].says # "done"
    /\ window' = [window EXCEPT ![t].page = page, ![t].says = "nothing"]
    /\ wandered' = (wandered \/ sheet[t].kind # "none") /\ untold' = LinkLeft(t)
    /\ UNCHANGED <<serverSide, store, sheet, sideCall, apart, patched, burdened, ousted, sessionFaults>>

\* handleLogout forgets the session in this browser; the server is not told.
LogOut(t) ==
    /\ At(t, "dashboard") /\ Call
    /\ store' = NoSession /\ window' = [window EXCEPT ![t] = AtPage("login")]
    /\ apart' = Unnoticed(t) /\ patched' = FALSE
    /\ UNCHANGED <<serverSide, sheet, sideCall, burdened, wandered, ousted, untold, sessionFaults>>

----------------------------------------------------------------------------
(* The forms.                                                                *)

Submit(t, kind, who, as) ==
    /\ sheet[t] = NoForm /\ Call
    /\ window' = [window EXCEPT ![t].says = "waiting"]
    /\ sheet' = [sheet EXCEPT ![t] = [kind |-> kind, pc |-> "sent", as |-> as, who |-> who,
                                    odd |-> t \in apart \/ patched]]
    /\ UNCHANGED <<serverSide, store, sideCall, story, sessionFaults>>

SubmitLogin(t, p) == At(t, "login") /\ Submit(t, "login", p, 0)
SubmitRegister(t, p) == At(t, "register") /\ Submit(t, "register", p, 0)
SubmitLink(t) == At(t, "mail") /\ window[t].says # "done" /\ Submit(t, "link", NoPerson, 0)
\* handleSaveProfile, handleSaveCompany: of the user who is shown, with the token of the store.
SubmitProfile(t) == At(t, "dashboard") /\ Submit(t, "profile", window[t].user, store.token)

AtServer(t, kind) == sheet[t].kind = kind /\ sheet[t].pc = "sent"
Reply(t, pc) == sheet' = [sheet EXCEPT ![t].pc = pc]

\* login and register of the service.
ServeSignIn(t) ==
    /\ AtServer(t, "login") \/ AtServer(t, "register")
    /\ IF (sheet[t].kind = "login") = (sheet[t].who \in enrolled)
       THEN /\ Len(tokens) < MaxSessions
            /\ tokens' = Append(tokens, sheet[t].who) /\ enrolled' = enrolled \cup {sheet[t].who}
            /\ sheet' = [sheet EXCEPT ![t].pc = "granted", ![t].as = Len(tokens) + 1]
       ELSE /\ Reply(t, IF sheet[t].kind = "login" THEN "unauthorized" ELSE "refused")
            /\ UNCHANGED <<tokens, enrolled>>
    /\ UNCHANGED <<ended, linkUsed, store, window, sideCall, story, visits, sessionFaults>>

ServeLink(t) ==
    /\ AtServer(t, "link")
    /\ IF linkUsed = NoPerson THEN linkUsed' = t /\ Reply(t, "granted") ELSE Reply(t, "refused") /\ UNCHANGED linkUsed
    /\ UNCHANGED <<enrolled, tokens, ended, store, window, sideCall, story, visits, sessionFaults>>

ServeProfile(t) ==
    /\ AtServer(t, "profile")
    /\ Reply(t, IF Accepted(sheet[t].as) THEN "granted" ELSE "unauthorized")
    /\ UNCHANGED <<serverSide, store, window, sideCall, story, visits, sessionFaults>>

\* login and register of the context, then the dashboard.
SignedUp(t) ==
    /\ sheet[t].kind \in {"login", "register"} /\ sheet[t].pc = "granted"
    /\ store' = [token |-> sheet[t].as, user |-> sheet[t].who]
    /\ window' = [window EXCEPT ![t] = [AtPage("dashboard") EXCEPT !.token = sheet[t].as, !.user = sheet[t].who]]
    /\ sheet' = [sheet EXCEPT ![t] = NoForm]
    /\ apart' = Unnoticed(t) /\ patched' = FALSE
    /\ burdened' = \E x \in Tabs : sideCall[x] # NoAsk \/ (x # t /\ sheet[x] # NoForm)
    /\ UNCHANGED <<serverSide, sideCall, wandered, ousted, untold, visits, sessionFaults>>

LinkDone(t) ==
    /\ sheet[t].kind = "link" /\ sheet[t].pc = "granted"
    /\ window' = [window EXCEPT ![t].says = IF @ = "waiting" THEN "done" ELSE @]
    /\ untold' = (untold \/ window[t].says # "waiting")
    /\ sheet' = [sheet EXCEPT ![t] = NoForm]
    /\ UNCHANGED <<serverSide, store, sideCall, apart, patched, burdened, wandered, ousted, visits, sessionFaults>>

\* Two and a half seconds later.
GoToLogin(t) ==
    /\ window[t].says = "done"
    /\ window' = [window EXCEPT ![t].page = "login", ![t].says = "nothing"] /\ untold' = LinkLeft(t)
    /\ UNCHANGED <<serverSide, store, sheet, sideCall, apart, patched, burdened, wandered, ousted, visits,
                   sessionFaults>>

\* updateUser writes the whole user of this tab, if it has one still.
ProfileDone(t) ==
    /\ sheet[t].kind = "profile" /\ sheet[t].pc = "granted"
    /\ store' = IF window[t].user = NoPerson THEN store ELSE [store EXCEPT !.user = window[t].user]
    /\ patched' = (patched \/ (window[t].user # NoPerson /\ t \in apart))
    /\ sheet' = [sheet EXCEPT ![t] = NoForm] /\ window' = [window EXCEPT ![t].says = "nothing"]
    /\ UNCHANGED <<serverSide, sideCall, apart, burdened, wandered, ousted, untold, visits, sessionFaults>>

\* An error is shown: the form was turned down, or its answer is lost.
FormFails(t) ==
    /\ sheet[t] # NoForm
    /\ IF sheet[t].pc = "refused" THEN UNCHANGED sessionFaults ELSE SessionFault
    /\ window' = [window EXCEPT ![t].says = IF @ = "waiting" THEN "error" ELSE @]
    /\ untold' = (untold \/ (sheet[t].kind = "link" /\ sheet[t].pc = "granted"))
    /\ sheet' = [sheet EXCEPT ![t] = NoForm]
    /\ UNCHANGED <<serverSide, store, sideCall, apart, patched, burdened, wandered, ousted, visits>>

----------------------------------------------------------------------------
(* The other requests, and what a 401 does.                                  *)

SendAsk(t) ==
    /\ At(t, "dashboard") /\ sideCall[t] = NoAsk /\ Call
    /\ sideCall' = [sideCall EXCEPT ![t] = [pc |-> "sent", as |-> store.token]]
    /\ UNCHANGED <<serverSide, store, window, sheet, story, sessionFaults>>

ServeAsk(t) ==
    /\ sideCall[t].pc = "sent"
    /\ sideCall' = [sideCall EXCEPT ![t] = IF Accepted(sideCall[t].as) THEN NoAsk
                                          ELSE [@ EXCEPT !.pc = "unauthorized"]]
    /\ UNCHANGED <<serverSide, store, window, sheet, story, visits, sessionFaults>>

\* Except on the pages to sign in and up, whatever session the browser has now is forgotten and the page left.
Unauthorized(t) ==
    /\ sheet[t].pc = "unauthorized" \/ sideCall[t].pc = "unauthorized"
    /\ IF window[t].page \in {"login", "register"}
       THEN /\ sheet' = [sheet EXCEPT ![t] = IF @.pc = "unauthorized" THEN NoForm ELSE @]
            /\ sideCall' = [sideCall EXCEPT ![t] = IF @.pc = "unauthorized" THEN NoAsk ELSE @]
            /\ UNCHANGED <<store, window, apart, patched, ousted, untold>>
       ELSE /\ store' = NoSession /\ window' = [window EXCEPT ![t] = AtPage("login")]
            /\ sheet' = [sheet EXCEPT ![t] = NoForm] /\ sideCall' = [sideCall EXCEPT ![t] = NoAsk]
            /\ ousted' = (ousted \/ (Accepted(store.token) /\ ~burdened))
            /\ apart' = Unnoticed(t) /\ patched' = FALSE /\ untold' = LinkLeft(t)
    /\ UNCHANGED <<serverSide, burdened, wandered, visits, sessionFaults>>

EndToken(n) ==
    /\ n \in DOMAIN tokens /\ n \notin ended /\ SessionFault
    /\ ended' = ended \cup {n}
    /\ UNCHANGED <<enrolled, tokens, linkUsed, store, window, sheet, sideCall, story, visits>>

SessionsNext ==
    \/ \E t \in Tabs :
          \/ \E page \in Outside \cup {"dashboard"} : OpenPage(t, page)
          \/ \E page \in Outside : FollowLink(t, page)
          \/ \E p \in Persons : SubmitLogin(t, p) \/ SubmitRegister(t, p)
          \/ SubmitLink(t) \/ SubmitProfile(t)
          \/ ServeSignIn(t) \/ ServeLink(t) \/ ServeProfile(t)
          \/ SignedUp(t) \/ LinkDone(t) \/ GoToLogin(t) \/ ProfileDone(t) \/ FormFails(t)
          \/ SendAsk(t) \/ ServeAsk(t) \/ Unauthorized(t) \/ LogOut(t)
    \/ \E n \in 1..MaxSessions : EndToken(n)

SessionsSpec == SessionsInit /\ [][SessionsNext]_sessionVars

----------------------------------------------------------------------------
SessionsTypeOK ==
    /\ enrolled \subseteq Persons /\ tokens \in Seq(Persons) /\ ended \subseteq DOMAIN tokens
    /\ linkUsed \in Tabs \cup {NoPerson}
    /\ store \in [token : {0} \cup DOMAIN tokens, user : Persons \cup {NoPerson}]
    /\ \A t \in Tabs :
          /\ window[t].page \in Outside \cup {"closed", "dashboard"}
          /\ window[t].page = "dashboard" => window[t].token # 0 /\ window[t].user # NoPerson
          /\ sheet[t].as \in {0} \cup DOMAIN tokens /\ sideCall[t].as \in {0} \cup DOMAIN tokens
    /\ apart \subseteq Tabs /\ visits \in 0..MaxVisits /\ sessionFaults \in 0..MaxSessionFaults

\* The browser keeps the user the token is for, unless a tab saved a profile without having noticed that another tab
\* had signed in or out (updateUser of auth-context.tsx, and the interceptor of api.ts, which takes the token of the
\* store).
StoreAgrees == store.token # 0 => store.user = tokens[store.token] \/ patched

\* What a tab saves is saved in the account of the person it shows, unless it had missed another tab's sign-in, or the
\* store was written by one that had.
SavedForShown ==
    \A t \in Tabs : sheet[t].kind = "profile" /\ sheet[t].as # 0 =>
                       tokens[sheet[t].as] = sheet[t].who \/ sheet[t].odd

\* A session the server accepts is not forgotten for another request's 401, unless one made before it began was on its
\* way still, or somebody went from the sign-in page elsewhere before he was answered (interceptors of api.ts).
SessionStands == ousted => wandered

\* The pages of mailed links say that all is done when their link was used by them, and report an error for a
\* link they used only when the answer was lost (handleSubmit of reset-password, accept-invite).
LinkPageTells ==
    \A t \in Tabs : /\ window[t].says = "done" => linkUsed = t
                    /\ window[t].says = "error" /\ linkUsed = t => untold
=============================================================================

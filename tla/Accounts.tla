------------------------------ MODULE Accounts ------------------------------
(* Accounts, the codes and links that are mailed to them, and sessions       *)
(* (auth.service.ts, jwt.strategy.ts).  Passwords and codes are numbers: a   *)
(* new one is one nobody had.  Sessions are the tokens generateToken signs.  *)
EXTENDS Naturals, FiniteSets

CONSTANTS Visitors,         \* concurrent requests
          Addresses, NoAddress,
          Links, NoLink,    \* password reset tokens
          MaxSecrets,       \* bound: passwords and codes made in a behaviour
          MaxAccountFaults  \* bound: restarts of the process, mails that are not sent

\* A link is 32 random bytes, a code six digits: nobody takes one for the other.
ASSUME AccountsAssumption ==
    /\ NoAddress \notin Addresses /\ NoLink \notin Links /\ \A l \in Links : l \notin Nat
    /\ IsFiniteSet(Visitors) /\ MaxSecrets \in Nat /\ MaxAccountFaults \in Nat

VARIABLES
    account,      \* User rows: "none" or password, code, whether the code expired, whether verified
    link,         \* PasswordResetToken rows
    revoked,      \* RevokedToken: addresses whose session was ended (one session each)
    recent,       \* resetRequests, in memory: requests within the last minute, per address
    visit,        \* the locals of each request
    \* history
    inMail,       \* codes and links that reached the address
    secret,       \* the last password or code made
    uses,         \* passwords each link has set
    accountFaults
accountVars == <<account, link, revoked, recent, visit, inMail, secret, uses, accountFaults>>

NoAccount == [password |-> 0, code |-> 0, stale |-> FALSE, verified |-> FALSE]
NoVisit == [pc |-> "idle", who |-> NoAddress, link |-> NoLink, code |-> 0, seen |-> 0]

AccountsInit ==
    /\ account = [a \in Addresses |-> NoAccount]
    /\ link = [l \in Links |-> [state |-> "unused", of |-> NoAddress, expired |-> FALSE]]
    /\ revoked = {} /\ inMail = {} /\ secret = 0 /\ accountFaults = 0
    /\ recent = [a \in Addresses |-> 0]
    /\ visit = [v \in Visitors |-> NoVisit]
    /\ uses = [l \in Links |-> 0]

On(v, label) == visit[v].pc = label
Move(v, label) == visit' = [visit EXCEPT ![v].pc = label]
Leave(v) == visit' = [visit EXCEPT ![v] = NoVisit]
Come(v, locals) == On(v, "idle") /\ visit' = [visit EXCEPT ![v] = locals]
Who(v) == visit[v].who
Exists(a) == account[a].password > 0
\* What JwtStrategy.validate lets through: a session that was not ended, of an account.
SignedIn(a) == Exists(a) /\ a \notin revoked
Fresh == secret' = secret + 1

AccountFault == accountFaults < MaxAccountFaults /\ accountFaults' = accountFaults + 1

----------------------------------------------------------------------------
(* register, with the first code; its mail may fail without harm.            *)

StartRegister(v, a) ==
    /\ Come(v, [NoVisit EXCEPT !.pc = "register", !.who = a])
    /\ UNCHANGED <<account, link, revoked, recent, inMail, secret, uses, accountFaults>>

FindEmail(v) ==
    /\ On(v, "register")
    /\ IF Exists(Who(v)) THEN Leave(v) ELSE Move(v, "create")
    /\ UNCHANGED <<account, link, revoked, recent, inMail, secret, uses, accountFaults>>

\* After the hashing; the user, the tenant and the OWNER's membership are one write, and the address is unique.
CreateAccount(v) ==
    /\ On(v, "create") /\ secret < MaxSecrets
    /\ IF Exists(Who(v)) THEN Leave(v) /\ UNCHANGED <<account, secret>>
       ELSE /\ Fresh
            /\ account' = [account EXCEPT ![Who(v)].password = secret + 1]
            /\ Move(v, "issue")
    /\ UNCHANGED <<link, revoked, recent, inMail, uses, accountFaults>>

\* issueVerificationCode: the row, then the mail.
IssueCode(v) ==
    /\ On(v, "issue") /\ secret < MaxSecrets
    /\ Fresh
    /\ account' = [account EXCEPT ![Who(v)].code = secret + 1, ![Who(v)].stale = FALSE]
    /\ visit' = [visit EXCEPT ![v].pc = "mail code", ![v].code = secret + 1]
    /\ UNCHANGED <<link, revoked, recent, inMail, uses, accountFaults>>

MailCode(v) ==
    /\ On(v, "mail code")
    /\ \/ inMail' = inMail \cup {<<Who(v), visit[v].code>>} /\ UNCHANGED accountFaults
       \/ AccountFault /\ UNCHANGED inMail
    /\ Leave(v)
    /\ UNCHANGED <<account, link, revoked, recent, secret, uses>>

StartResend(v, a) ==
    /\ SignedIn(a)
    /\ Come(v, [NoVisit EXCEPT !.pc = "resend", !.who = a])
    /\ UNCHANGED <<account, link, revoked, recent, inMail, secret, uses, accountFaults>>

Resend(v) ==
    /\ On(v, "resend")
    /\ IF account[Who(v)].verified THEN Leave(v) ELSE Move(v, "issue")
    /\ UNCHANGED <<account, link, revoked, recent, inMail, secret, uses, accountFaults>>

\* verifyEmail with a code somebody read in a mail, or with a wrong one (0).
StartVerify(v, a, code) ==
    /\ SignedIn(a)
    /\ code = 0 \/ <<a, code>> \in inMail
    /\ Come(v, [NoVisit EXCEPT !.pc = "verify", !.who = a, !.code = code])
    /\ UNCHANGED <<account, link, revoked, recent, inMail, secret, uses, accountFaults>>

\* Seeded fault: A wrong code takes the right one out of the row.
CheckCodeOnce(v) ==
    LET row == account[Who(v)]
        right == ~row.verified /\ row.code > 0 /\ ~row.stale /\ row.code = visit[v].code IN
    /\ On(v, "verify")
    /\ IF right THEN Move(v, "verified") ELSE Leave(v)
    /\ account' = IF right THEN account ELSE [account EXCEPT ![Who(v)].code = 0]
    /\ UNCHANGED <<link, revoked, recent, inMail, secret, uses, accountFaults>>

CheckCode(v) ==
    LET row == account[Who(v)] IN
    /\ On(v, "verify")
    /\ IF ~row.verified /\ row.code > 0 /\ ~row.stale /\ row.code = visit[v].code
       THEN Move(v, "verified") ELSE Leave(v)
    /\ UNCHANGED <<account, link, revoked, recent, inMail, secret, uses, accountFaults>>

WriteVerified(v) ==
    /\ On(v, "verified")
    /\ account' = [account EXCEPT ![Who(v)] = [@ EXCEPT !.verified = TRUE, !.code = 0, !.stale = FALSE]]
    /\ Leave(v)
    /\ UNCHANGED <<link, revoked, recent, inMail, secret, uses, accountFaults>>

\* 30 minutes pass.
CodeExpires(a) ==
    /\ account[a].code > 0 /\ ~account[a].stale
    /\ account' = [account EXCEPT ![a].stale = TRUE]
    /\ UNCHANGED <<link, revoked, recent, visit, inMail, secret, uses, accountFaults>>

----------------------------------------------------------------------------
(* requestPasswordReset and resetPassword.                                   *)

\* The count of the last minute is tested and raised before the first await.
StartRequestReset(v, a) ==
    /\ recent[a] < 2
    /\ recent' = [recent EXCEPT ![a] = @ + 1]
    /\ Come(v, [NoVisit EXCEPT !.pc = "request", !.who = a])
    /\ UNCHANGED <<account, link, revoked, inMail, secret, uses, accountFaults>>

MinutePasses(a) ==
    /\ recent[a] > 0
    /\ recent' = [recent EXCEPT ![a] = @ - 1]
    /\ UNCHANGED <<account, link, revoked, visit, inMail, secret, uses, accountFaults>>

FindAccount(v) ==
    /\ On(v, "request")
    /\ IF Exists(Who(v)) THEN Move(v, "link") ELSE Leave(v)
    /\ UNCHANGED <<account, link, revoked, recent, inMail, secret, uses, accountFaults>>

CreateLink(v, l) ==
    /\ On(v, "link") /\ link[l].state = "unused"
    /\ link' = [link EXCEPT ![l] = [state |-> "open", of |-> Who(v), expired |-> FALSE]]
    /\ visit' = [visit EXCEPT ![v].pc = "mail link", ![v].link = l]
    /\ UNCHANGED <<account, revoked, recent, inMail, secret, uses, accountFaults>>

MailLink(v) ==
    /\ On(v, "mail link")
    /\ \/ inMail' = inMail \cup {<<Who(v), visit[v].link>>} /\ UNCHANGED accountFaults
       \/ AccountFault /\ UNCHANGED inMail
    /\ Leave(v)
    /\ UNCHANGED <<account, link, revoked, recent, secret, uses>>

StartReset(v, a, l) ==
    /\ <<a, l>> \in inMail
    /\ Come(v, [NoVisit EXCEPT !.pc = "reset", !.who = a, !.link = l])
    /\ UNCHANGED <<account, link, revoked, recent, inMail, secret, uses, accountFaults>>

FindLink(v) ==
    /\ On(v, "reset")
    /\ IF link[visit[v].link].state = "open" /\ ~link[visit[v].link].expired
       THEN Move(v, "set password") ELSE Leave(v)
    /\ UNCHANGED <<account, link, revoked, recent, inMail, secret, uses, accountFaults>>

\* After the hashing, the password and the mark "used" in one transaction; the mark is not asked again.
SetPassword(v) ==
    /\ On(v, "set password") /\ secret < MaxSecrets
    /\ Fresh
    /\ account' = [account EXCEPT ![Who(v)].password = secret + 1]
    /\ link' = [link EXCEPT ![visit[v].link].state = "used"]
    /\ uses' = [uses EXCEPT ![visit[v].link] = @ + 1]
    /\ Leave(v)
    /\ UNCHANGED <<revoked, recent, inMail, accountFaults>>

LinkExpires(l) ==
    /\ link[l].state = "open" /\ ~link[l].expired
    /\ link' = [link EXCEPT ![l].expired = TRUE]
    /\ UNCHANGED <<account, revoked, recent, visit, inMail, secret, uses, accountFaults>>

----------------------------------------------------------------------------
(* login, logout, updateProfile.                                             *)

\* A new session, for who knows the password; the old one stays ended, here one address has one.
Login(a) == /\ Exists(a) /\ a \in revoked
            /\ revoked' = revoked \ {a}
            /\ UNCHANGED <<account, link, recent, visit, inMail, secret, uses, accountFaults>>

Logout(a) == /\ SignedIn(a)
             /\ revoked' = revoked \cup {a}
             /\ UNCHANGED <<account, link, recent, visit, inMail, secret, uses, accountFaults>>

\* The current password is read, compared with what was typed ...
StartChange(v, a, typed) ==
    /\ SignedIn(a) /\ typed \in {0, account[a].password}
    /\ Come(v, [NoVisit EXCEPT !.pc = "compare", !.who = a, !.seen = typed])
    /\ UNCHANGED <<account, link, revoked, recent, inMail, secret, uses, accountFaults>>

ComparePassword(v) ==
    /\ On(v, "compare")
    /\ IF account[Who(v)].password = visit[v].seen THEN Move(v, "change") ELSE Leave(v)
    /\ UNCHANGED <<account, link, revoked, recent, inMail, secret, uses, accountFaults>>

\* ... and replaced two hashings later, whatever it is by then.
ChangePassword(v) ==
    /\ On(v, "change") /\ secret < MaxSecrets
    /\ Fresh
    /\ account' = [account EXCEPT ![Who(v)].password = secret + 1]
    /\ Leave(v)
    /\ UNCHANGED <<link, revoked, recent, inMail, uses, accountFaults>>

\* The process restarts: what it was doing ends, the memory of reset requests is empty.
Restart ==
    /\ AccountFault
    /\ visit' = [v \in Visitors |-> NoVisit]
    /\ recent' = [a \in Addresses |-> 0]
    /\ UNCHANGED <<account, link, revoked, inMail, secret, uses>>

----------------------------------------------------------------------------
StartVisit(v) == \E a \in Addresses :
    \/ StartRegister(v, a) \/ StartResend(v, a) \/ StartRequestReset(v, a)
    \/ \E code \in 0..MaxSecrets : StartVerify(v, a, code)
    \/ \E l \in Links : StartReset(v, a, l)
    \/ \E typed \in {0, account[a].password} : StartChange(v, a, typed)

HandleVisit(v) ==
    \/ FindEmail(v) \/ CreateAccount(v) \/ IssueCode(v) \/ MailCode(v)
    \/ Resend(v) \/ CheckCode(v) \/ WriteVerified(v)
    \/ FindAccount(v) \/ (\E l \in Links : CreateLink(v, l)) \/ MailLink(v) \/ FindLink(v) \/ SetPassword(v)
    \/ ComparePassword(v) \/ ChangePassword(v)

AccountsNext ==
    \/ \E v \in Visitors : StartVisit(v) \/ HandleVisit(v)
    \/ \E a \in Addresses : CodeExpires(a) \/ MinutePasses(a) \/ Login(a) \/ Logout(a)
    \/ \E l \in Links : LinkExpires(l)
    \/ Restart

AccountsSpec == AccountsInit /\ [][AccountsNext]_accountVars

----------------------------------------------------------------------------
VisitLabels == {"idle", "register", "create", "issue", "mail code", "resend", "verify", "verified", "request", "link",
                "mail link", "reset", "set password", "compare", "change"}

AccountsTypeOK ==
    /\ account \in [Addresses -> [password : Nat, code : Nat, stale : BOOLEAN, verified : BOOLEAN]]
    /\ link \in [Links -> [state : {"unused", "open", "used"}, of : Addresses \cup {NoAddress}, expired : BOOLEAN]]
    /\ revoked \subseteq Addresses
    /\ recent \in [Addresses -> 0..2]
    /\ visit \in [Visitors -> [pc : VisitLabels, who : Addresses \cup {NoAddress}, link : Links \cup {NoLink},
                               code : Nat, seen : Nat]]
    /\ inMail \subseteq Addresses \X (Nat \cup Links)
    /\ secret \in Nat /\ uses \in [Links -> Nat]
    /\ accountFaults \in 0..MaxAccountFaults

\* A reset link sets one password.  It sets more only for requests that had read it unused before the first of
\* them marked it, at most one each: never for a request that came later (resetPassword).
Resetting(l) == {v \in Visitors : On(v, "set password") /\ visit[v].link = l}
LinkServesOnce ==
    \A l \in Links : uses[l] + Cardinality(Resetting(l)) <= Cardinality(Visitors)

\* A code in a mail works until it expires: it is in the row, unless a newer one is, or the address has been
\* verified.  The row is written before the mail goes out, whichever of two requests is faster
\* (issueVerificationCode, verifyEmail).
MailedCodeWorks ==
    \A a \in Addresses, code \in 1..MaxSecrets :
        <<a, code>> \in inMail => account[a].verified \/ account[a].code >= code
=============================================================================

---------------------------- MODULE GraphClient ----------------------------
(* The Graph API client: graphApiRequest with its retries, and the two-step  *)
(* publishInstagramMedia built on it.  Meta executes an attempt or not, and  *)
(* answers it, refuses it with an error code, or is not heard.               *)
EXTENDS Naturals, FiniteSets

CONSTANTS Calls,    \* the calls under way
          Codes     \* the error codes Meta answers with

ASSUME CodesAssumption == Codes \subseteq Nat

VARIABLES call,     \* the locals of a call: where it is, its attempt, the seconds it has taken
          acted,    \* history: how often Meta carried out each stage of a call
          unheard   \* history: attempts of each stage whose outcome the client did not learn
gvars == <<call, acted, unheard>>

MaxRetries == 2    \* the default, which no caller changes
Timeout    == 15
WaitCap    == 30
MaxCopies  == MaxRetries + 1

\* A message or query is one request; a publication is a container and then its publication.
Stages == {"container", "request"}
Kinds  == {"request", "publish"}

----------------------------------------------------------------------------
(* graph-api-errors.ts: what an error code asks for, and after how long.     *)

RetryCodes  == {1}
DelayCodes  == {2, 4, 17, 32, 130429}
ReauthCodes == {10, 102, 190, 200, 299}
FixCodes    == {100, 132000, 132001, 132005, 132007, 132012, 132015, 132016}
SkipCodes   == {506, 131021, 131047}

classifyError(code) ==
    CASE code \in RetryCodes  -> "RETRY"
      [] code \in DelayCodes  -> "DELAY"
      [] code \in ReauthCodes -> "REAUTH"
      [] code \in FixCodes    -> "FIX"
      [] code \in SkipCodes   -> "SKIP"
      [] OTHER                -> "ALERT"

Retryable(code) == classifyError(code) \in {"RETRY", "DELAY"}

delaySeconds(code) == CASE code = 1  -> 2
                        [] code = 2  -> 15
                        [] code = 4  -> 300
                        [] code = 17 -> 900
                        [] code = 32 -> 1800
                        [] OTHER     -> 60

\* The wait before another attempt after an error code, and after an attempt nobody answered.
Capped(seconds) == IF seconds > WaitCap THEN WaitCap ELSE seconds
WaitAfter(code) == IF classifyError(code) = "RETRY" THEN delaySeconds(code) ELSE Capped(delaySeconds(code))
Backoff(attempt) == 2 ^ attempt

----------------------------------------------------------------------------
Idle == [pc |-> "idle", kind |-> "request", stage |-> "request", attempt |-> 0, spent |-> 0]

GraphInit == /\ call = [c \in Calls |-> Idle]
             /\ acted = [c \in Calls |-> [s \in Stages |-> 0]]
             /\ unheard = [c \in Calls |-> [s \in Stages |-> 0]]

StartCall(c, kind) ==
    /\ call[c].pc = "idle"
    /\ call' = [call EXCEPT ![c] = [Idle EXCEPT !.pc = "fetch", !.kind = kind,
                                      !.stage = IF kind = "publish" THEN "container" ELSE "request"]]
    /\ UNCHANGED <<acted, unheard>>

Executed(c) == acted' = [acted EXCEPT ![c][call[c].stage] = @ + 1]
Lost(c) == unheard' = [unheard EXCEPT ![c][call[c].stage] = @ + 1]

\* The attempt is over after "took" seconds, and the call with it.
Return(c, how, took) == call' = [call EXCEPT ![c].pc = how, ![c].spent = @ + took]
\* Another attempt follows, after "took" seconds and a wait.
Again(c, took, wait) == call' = [call EXCEPT ![c].attempt = @ + 1, ![c].spent = @ + took + wait]
\* Seeded fault: The last attempt's exception falls through to success.
GoOnOrOk(c, took, wait) == IF call[c].attempt < MaxRetries
                           THEN Again(c, took, wait) ELSE Return(c, "ok", took)

GoOnOr(c, took, wait) == IF call[c].attempt < MaxRetries
                         THEN Again(c, took, wait) ELSE Return(c, "failed", took)

\* 200 with a body: a container's id leads to the second request; anything else is the result.
Answered(c, took) ==
    /\ call[c].pc = "fetch"
    /\ Executed(c)
    /\ IF call[c].stage = "container"
       THEN call' = [call EXCEPT ![c].stage = "request", ![c].attempt = 0, ![c].spent = @ + took]
       ELSE Return(c, "ok", took)
    /\ UNCHANGED unheard

\* Seeded fault: The body of an answer is read outside its own try: a broken one counts as not heard of.
AnsweredBlankRetried(c, took) ==
    /\ call[c].pc = "fetch"
    /\ Executed(c)
    /\ GoOnOr(c, took, Backoff(call[c].attempt))
    /\ UNCHANGED unheard

\* 200 whose body is empty or breaks off: ok without data, and a publication ends with its container.
AnsweredBlank(c, took) ==
    /\ call[c].pc = "fetch"
    /\ Executed(c)
    /\ Return(c, IF call[c].stage = "container" THEN "blank" ELSE "ok", took)
    /\ UNCHANGED unheard

\* An error body: what its code asks for.  Meta may have acted before an error of its own (1, 2).
Refused(c, code, took) ==
    /\ call[c].pc = "fetch"
    /\ \/ /\ code \in {1, 2} /\ Executed(c) /\ Lost(c)
       \/ UNCHANGED <<acted, unheard>>
    /\ IF Retryable(code) THEN GoOnOr(c, took, WaitAfter(code)) ELSE Return(c, "failed", took)

\* No error body, a broken connection, or 15 seconds: Meta may have acted.
NotHeard(c, took) ==
    /\ call[c].pc = "fetch"
    /\ Lost(c)
    /\ Executed(c) \/ UNCHANGED acted
    /\ GoOnOr(c, took, Backoff(call[c].attempt))

Attempt(c) == \E took \in {0, Timeout} :
                 \/ Answered(c, took)
                 \/ AnsweredBlank(c, took)
                 \/ \E code \in Codes : Refused(c, code, took)
                 \/ NotHeard(c, took)

GraphNext == \E c \in Calls : (\E kind \in Kinds : StartCall(c, kind)) \/ Attempt(c)

GraphSpec == GraphInit /\ [][GraphNext]_gvars

----------------------------------------------------------------------------
Ended == {"ok", "blank", "failed"}

GraphTypeOK ==
    /\ call \in [Calls -> [pc : {"idle", "fetch"} \cup Ended, kind : Kinds, stage : Stages,
                           attempt : 0..MaxRetries, spent : Nat]]
    /\ acted \in [Calls -> [Stages -> 0..MaxCopies]]
    /\ unheard \in [Calls -> [Stages -> 0..MaxCopies]]

\* A job is carried out once more than it was meant to only for an attempt whose outcome the client could
\* not learn: an attempt Meta answered, or refused for good, is never posted again (graphApiRequest).
CopiesExplained ==
    \A c \in Calls, s \in Stages : acted[c][s] <= unheard[c][s] + 1

\* A request ends in time, however Meta behaves: three attempts of 15 seconds and two waits of at most 30,
\* twice for a publication.  The webhook that waits for it is bound by this (graphApiRequest).
TimeBounded ==
    \A c \in Calls : call[c].spent <= (IF call[c].kind = "publish" THEN 2 ELSE 1)
                                         * ((MaxRetries + 1) * Timeout + MaxRetries * WaitCap)

----------------------------------------------------------------------------
(* The client implements RemoteCall, but for a publication that ends with a  *)
(* blank container: that one is mapped to a failure.                         *)

Report(c) == CASE call[c].pc = "idle"  -> "none"
               [] call[c].pc = "fetch" -> "pending"
               [] call[c].pc = "ok"    -> "done"
               [] OTHER                -> "failed"

Remote == INSTANCE RemoteCall WITH report <- [c \in Calls |-> Report(c)],
                                   copies <- [c \in Calls |-> acted[c]["request"]]

\* Of a message or a publication, "ok" means that Meta did it, at most three copies exist, and a reported
\* outcome stays: what the handlers that call the client are written for.
RemotePromise == Remote!RemoteSpec
=============================================================================

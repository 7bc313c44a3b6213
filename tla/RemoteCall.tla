----------------------------- MODULE RemoteCall -----------------------------
(* What a caller of the Graph client may rely on: a call is under way until  *)
(* it is reported, Meta may have carried it out several times by then, and a *)
(* report is final.  "done" is reported only of a job that was carried out;  *)
(* "failed" says nothing of what Meta did.                                   *)
EXTENDS Naturals

CONSTANTS Calls, MaxCopies

VARIABLES report,   \* what the caller of a call was told
          copies    \* how often Meta carried out the job of a call
rvars == <<report, copies>>

Reports == {"none", "pending", "done", "failed"}

RemoteInit == /\ report = [c \in Calls |-> "none"]
              /\ copies = [c \in Calls |-> 0]

Begin(c) == /\ report[c] = "none"
            /\ report' = [report EXCEPT ![c] = "pending"]
            /\ UNCHANGED copies

\* One attempt: Meta may carry the job out, and the attempt may be the last.
Try(c) == /\ report[c] = "pending"
          /\ \E acted \in {0, 1}, r \in {"pending", "done", "failed"} :
                /\ copies[c] + acted <= MaxCopies
                /\ r = "done" => copies[c] + acted > 0
                /\ copies' = [copies EXCEPT ![c] = @ + acted]
                /\ report' = [report EXCEPT ![c] = r]

RemoteNext == \E c \in Calls : Begin(c) \/ Try(c)

RemoteSpec == RemoteInit /\ [][RemoteNext]_rvars
=============================================================================

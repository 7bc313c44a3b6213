------------------------------ MODULE Campaign ------------------------------
(* What a broadcast promises its owner: it is sent only from DRAFT or       *)
(* SCHEDULED, each contact of its audience is tried once per execution, it  *)
(* is SENT only when all were tried, and SENT and CANCELLED are left only   *)
(* by scheduling it again.                                                  *)
EXTENDS Naturals

CONSTANTS Broadcasts, Contacts

VARIABLES
    status,    \* status of a broadcast
    received,  \* copies of a broadcast a contact has received
    audience,  \* contacts the current execution has yet to try
    abandoned  \* whether that execution was given up

vars == <<status, received, audience, abandoned>>

Init ==
    /\ status = [b \in Broadcasts |-> "none"]
    /\ received = [b \in Broadcasts |-> [c \in Contacts |-> 0]]
    /\ audience = [b \in Broadcasts |-> {}]
    /\ abandoned = [b \in Broadcasts |-> FALSE]

Become(b, s) ==
    /\ status' = [status EXCEPT ![b] = s]
    /\ abandoned' = [abandoned EXCEPT ![b] = FALSE]
    /\ UNCHANGED <<received, audience>>

Create(b) == status[b] = "none" /\ \E s \in {"DRAFT", "SCHEDULED"} : Become(b, s)

\* Any broadcast that is not being sent may be given a date.
Schedule(b) ==
    /\ status[b] # "none" /\ (status[b] = "SENDING" => abandoned[b])
    /\ Become(b, "SCHEDULED")

\* The schedule could not be honoured: no channel to send through.
Park(b) == (status[b] = "SCHEDULED" \/ abandoned[b]) /\ Become(b, "DRAFT")

\* The channel was taken away under the execution; those left are not tried.
Abandon(b) ==
    /\ status[b] = "SENDING"
    /\ abandoned' = [abandoned EXCEPT ![b] = TRUE]
    /\ audience' = [audience EXCEPT ![b] = {}]
    /\ UNCHANGED <<status, received>>

Cancel(b) ==
    /\ status[b] \in {"DRAFT", "SCHEDULED"} \/ abandoned[b]
    /\ Become(b, "CANCELLED")

\* The execution is for the contacts there are when it starts.
Start(b) ==
    /\ status[b] \in {"DRAFT", "SCHEDULED"}
    /\ status' = [status EXCEPT ![b] = "SENDING"]
    /\ \E todo \in SUBSET Contacts : audience' = [audience EXCEPT ![b] = todo]
    /\ UNCHANGED <<received, abandoned>>

Try(b, c) ==
    /\ status[b] = "SENDING"
    /\ c \in audience[b]
    /\ audience' = [audience EXCEPT ![b] = @ \ {c}]
    /\ received' \in {received, [received EXCEPT ![b][c] = @ + 1]}
    /\ UNCHANGED <<status, abandoned>>

Complete(b) ==
    /\ status[b] = "SENDING" /\ audience[b] = {} /\ ~abandoned[b]
    /\ Become(b, "SENT")

Next ==
    \E b \in Broadcasts :
        \/ Create(b) \/ Schedule(b) \/ Park(b) \/ Cancel(b)
        \/ Start(b) \/ Complete(b) \/ Abandon(b)
        \/ \E c \in Contacts : Try(b, c)

Spec == Init /\ [][Next]_vars
=============================================================================

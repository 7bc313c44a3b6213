----------------------------- MODULE Broadcasts -----------------------------
(***************************************************************************)
(* BroadcastsService: a message to every contact of a segment, sent by the *)
(* owner's request or by the cron that fires every minute whether or not   *)
(* its previous run has ended.  An action is the code between two awaits.  *)
(***************************************************************************)
EXTENDS Integers, FiniteSets

CONSTANTS
    Broadcasts,
    Contacts,        \* Subscriber rows of the tenant
    Segment,         \* the contacts a broadcast is for
    Crons,           \* runs of the cron that may overlap
    Requests,        \* API requests handled at the same time
    Known,           \* contacts with a conversation from the start
    MaxSchedules,    \* bound on schedule() per broadcast
    MaxFaults,       \* bound on rejected database calls and crashes
    MaxRemovals      \* bound on removals of the tenant's channel

Handlers == Crons \cup Requests
Statuses == {"none", "DRAFT", "SCHEDULED", "SENDING", "SENT", "CANCELLED"}

ASSUME BroadcastsAssumption ==
    /\ Segment \in [Broadcasts -> SUBSET Contacts]
    /\ Known \subseteq Contacts
    /\ IsFiniteSet(Contacts) /\ IsFiniteSet(Handlers)
    /\ Broadcasts # {} /\ Contacts # {}
    /\ MaxSchedules \in Nat /\ MaxFaults \in Nat /\ MaxRemovals \in Nat

VARIABLES
    \* PostgreSQL
    status,          \* Broadcast.status; "none": the row does not exist
    due,             \* whether Broadcast.scheduledAt has passed
    sentCount,       \* Broadcast.sentCount
    link,            \* the id of the tenant's last PlatformConnection
    connected,       \* its state; only a revoked token clears isActive
    conv,            \* contacts with a Conversation row of that connection
    \* the customers
    received,        \* copies of a broadcast a contact got
    \* what happened so far
    executions,      \* times a broadcast was marked SENDING
    schedules,       \* times a broadcast was scheduled
    faults,          \* rejected calls and crashes
    \* the handlers
    pc, job, cron, batch, channel, todo, to, n

rows == <<status, due, sentCount>>
tenant == <<link, connected>>
outside == <<tenant, conv, received>>
counts == <<executions, schedules, faults>>
run == <<cron, batch>>               \* locals of handleScheduledBroadcasts
loop == <<channel, todo, to, n>>     \* locals of execute
vars == <<rows, outside, counts, pc, job, run, loop>>

PCs == {"idle", "read", "check", "mark", "audience", "next", "find", "create",
        "send", "record", "finish", "park", "cancel"}
\* What resolveConnection cached: nothing yet, no connection, or an id.
Unread == -1
None == 0
SomeBroadcast == CHOOSE b \in Broadcasts : TRUE
SomeContact == CHOOSE c \in Contacts : TRUE

TypeOK ==
    /\ status \in [Broadcasts -> Statuses]
    /\ due \in [Broadcasts -> BOOLEAN]
    /\ sentCount \in [Broadcasts -> Nat]
    /\ link \in Nat \ {0}
    /\ connected \in {"active", "revoked", "removed"}
    /\ conv \subseteq Contacts
    /\ received \in [Broadcasts -> [Contacts -> Nat]]
    /\ executions \in [Broadcasts -> Nat]
    /\ schedules \in [Broadcasts -> Nat]
    /\ faults \in Nat
    /\ pc \in [Handlers -> PCs]
    /\ job \in [Handlers -> Broadcasts]
    /\ cron \in [Handlers -> BOOLEAN]
    /\ batch \in [Handlers -> SUBSET Broadcasts]
    /\ channel \in [Handlers -> Int]
    /\ todo \in [Handlers -> SUBSET Contacts]
    /\ to \in [Handlers -> Contacts]
    /\ n \in [Handlers -> Nat]

\* One value for every handler.
Everyone(v) == [h \in Handlers |-> v]

Init ==
    /\ status = [b \in Broadcasts |-> "none"]
    /\ due = [b \in Broadcasts |-> FALSE]
    /\ sentCount = [b \in Broadcasts |-> 0]
    /\ link = 1 /\ connected = "active"
    /\ conv = Known
    /\ received = [b \in Broadcasts |-> [c \in Contacts |-> 0]]
    /\ executions = [b \in Broadcasts |-> 0]
    /\ schedules = [b \in Broadcasts |-> 0]
    /\ faults = 0
    /\ pc = Everyone("idle") /\ job = Everyone(SomeBroadcast)
    /\ cron = Everyone(FALSE) /\ batch = Everyone({})
    /\ channel = Everyone(Unread) /\ todo = Everyone({})
    /\ to = Everyone(SomeContact) /\ n = Everyone(0)

-----------------------------------------------------------------------------
(* Moving through a handler                                                *)

At(h, l) == pc[h] = l
Goto(h, l) == pc' = [pc EXCEPT ![h] = l]

\* The locals of execute() are gone.
ForgetLoop(h) ==
    /\ channel' = [channel EXCEPT ![h] = Unread]
    /\ todo' = [todo EXCEPT ![h] = {}]
    /\ to' = [to EXCEPT ![h] = SomeContact]
    /\ n' = [n EXCEPT ![h] = 0]

\* The request ends, or the cron takes its next broadcast, in the order the
\* database returned them.
Leave(h) ==
    /\ ForgetLoop(h)
    /\ \/ /\ batch[h] = {}
          /\ Goto(h, "idle")
          /\ job' = [job EXCEPT ![h] = SomeBroadcast]
          /\ cron' = [cron EXCEPT ![h] = FALSE]
          /\ UNCHANGED batch
       \/ \E b \in batch[h] :
             /\ Goto(h, "read")
             /\ job' = [job EXCEPT ![h] = b]
             /\ batch' = [batch EXCEPT ![h] = @ \ {b}]
             /\ UNCHANGED cron

\* execute() throws: the cron's catch parks the broadcast, a request gets the
\* error.
Throw(h) ==
    IF cron[h]
    THEN ForgetLoop(h) /\ Goto(h, "park") /\ UNCHANGED <<job, run>>
    ELSE Leave(h)

SetStatus(h, s) == status' = [status EXCEPT ![job[h]] = s]

-----------------------------------------------------------------------------
(* The owner's requests                                                    *)

Create(h, b) ==
    /\ h \in Requests /\ At(h, "idle")
    /\ status[b] = "none"
    /\ \E s \in {"DRAFT", "SCHEDULED"} : status' = [status EXCEPT ![b] = s]
    /\ UNCHANGED <<due, sentCount, outside, counts, pc, job, run, loop>>

\* The row is only looked up; its status is not.
Schedule(h, b) ==
    /\ h \in Requests /\ At(h, "idle")
    /\ status[b] # "none"
    /\ schedules[b] < MaxSchedules
    /\ status' = [status EXCEPT ![b] = "SCHEDULED"]
    /\ due' = [due EXCEPT ![b] = FALSE]
    /\ schedules' = [schedules EXCEPT ![b] = @ + 1]
    /\ UNCHANGED <<sentCount, outside, executions, faults, pc, job, run, loop>>

AskExecute(h, b) ==
    /\ h \in Requests /\ At(h, "idle")
    /\ status[b] # "none"
    /\ Goto(h, "read")
    /\ job' = [job EXCEPT ![h] = b]
    /\ UNCHANGED <<rows, outside, counts, run, loop>>

\* cancel() reads the status, then writes whatever it has become.
AskCancel(h, b) ==
    /\ h \in Requests /\ At(h, "idle")
    /\ status[b] \notin {"none", "SENT", "CANCELLED"}
    /\ Goto(h, "cancel")
    /\ job' = [job EXCEPT ![h] = b]
    /\ UNCHANGED <<rows, outside, counts, run, loop>>

CancelWrite(h) ==
    /\ At(h, "cancel")
    /\ SetStatus(h, "CANCELLED")
    /\ Leave(h)
    /\ UNCHANGED <<due, sentCount, outside, counts>>

-----------------------------------------------------------------------------
(* The cron                                                                *)

DueNow == {b \in Broadcasts : status[b] = "SCHEDULED" /\ due[b]}

CronFetch(h) ==
    /\ h \in Crons /\ At(h, "idle")
    /\ \E b \in DueNow :
          /\ Goto(h, "read")
          /\ job' = [job EXCEPT ![h] = b]
          /\ cron' = [cron EXCEPT ![h] = TRUE]
          /\ batch' = [batch EXCEPT ![h] = DueNow \ {b}]
    /\ UNCHANGED <<rows, outside, counts, loop>>

\* Seeded fault: the cron's catch only logs.
ParkNothing(h) ==
    /\ At(h, "park")
    /\ Leave(h)
    /\ UNCHANGED <<rows, outside, counts>>

\* Seeded fault: a status the enum does not have.
ParkFailed(h) ==
    /\ At(h, "park")
    /\ SetStatus(h, "FAILED")
    /\ Leave(h)
    /\ UNCHANGED <<due, sentCount, outside, counts>>

\* Unconditional, whatever the broadcast has become.
Park(h) ==
    /\ At(h, "park")
    /\ SetStatus(h, "DRAFT")
    /\ Leave(h)
    /\ UNCHANGED <<due, sentCount, outside, counts>>

-----------------------------------------------------------------------------
(* execute()                                                               *)

Refused == {"SENT", "CANCELLED", "SENDING"}

\* Seeded fault: a broadcast that was sent may be executed again.
ReadStatusLoose(h) ==
    /\ At(h, "read")
    /\ IF status[job[h]] \in Refused \ {"SENT"}
       THEN Throw(h)
       ELSE Goto(h, "check") /\ UNCHANGED <<job, run, loop>>
    /\ UNCHANGED <<rows, outside, counts>>

\* Seeded fault: SENDING is written before the channel is checked.
ReadAndMark(h) ==
    /\ At(h, "read")
    /\ IF status[job[h]] \in Refused
       THEN Throw(h) /\ UNCHANGED status
       ELSE /\ SetStatus(h, "SENDING")
            /\ Goto(h, "check")
            /\ UNCHANGED <<job, run, loop>>
    /\ UNCHANGED <<due, sentCount, outside, counts>>

ReadStatus(h) ==
    /\ At(h, "read")
    /\ IF status[job[h]] \in Refused
       THEN Throw(h)
       ELSE Goto(h, "check") /\ UNCHANGED <<job, run, loop>>
    /\ UNCHANGED <<rows, outside, counts>>

CheckChannel(h) ==
    /\ At(h, "check")
    /\ IF connected = "active"
       THEN Goto(h, "mark") /\ UNCHANGED <<job, run, loop>>
       ELSE Throw(h)
    /\ UNCHANGED <<rows, outside, counts>>

MarkSending(h) ==
    /\ At(h, "mark")
    /\ SetStatus(h, "SENDING")
    /\ executions' = [executions EXCEPT ![job[h]] = @ + 1]
    /\ Goto(h, "audience")
    /\ UNCHANGED <<due, sentCount, outside, schedules, faults, job, run, loop>>

ReadAudience(h) ==
    /\ At(h, "audience")
    /\ todo' = [todo EXCEPT ![h] = Segment[job[h]]]
    /\ Goto(h, "next")
    /\ UNCHANGED <<rows, outside, counts, job, run, channel, to, n>>

\* A contact is through, sent or failed.
Done(h) == todo' = [todo EXCEPT ![h] = @ \ {to[h]}] /\ Goto(h, "next")

\* resolveConnection caches what it found, a missing channel too.
NextContact(h) ==
    /\ At(h, "next")
    /\ IF todo[h] = {}
       THEN Goto(h, "finish") /\ UNCHANGED <<channel, todo, to>>
       ELSE LET found == IF channel[h] # Unread THEN channel[h]
                         ELSE IF connected = "active" THEN link ELSE None
            IN  /\ channel' = [channel EXCEPT ![h] = found]
                /\ \E c \in todo[h] :
                      IF found # None
                      THEN /\ Goto(h, "find")
                           /\ to' = [to EXCEPT ![h] = c]
                           /\ UNCHANGED todo
                      ELSE /\ todo' = [todo EXCEPT ![h] = @ \ {c}]
                           /\ UNCHANGED <<pc, to>>
    /\ UNCHANGED <<rows, outside, counts, job, run, n>>

\* The connection the handler holds is still there.
Stands(h) == channel[h] = link /\ connected # "removed"

FindConversation(h) ==
    /\ At(h, "find")
    /\ Goto(h, IF Stands(h) /\ to[h] \in conv THEN "send" ELSE "create")
    /\ UNCHANGED <<rows, outside, counts, job, run, loop>>

\* Outside the try: a row created meanwhile makes this throw, and so does a
\* connection that is gone.
CreateConversation(h) ==
    /\ At(h, "create")
    /\ IF ~Stands(h) \/ to[h] \in conv
       THEN Throw(h) /\ UNCHANGED conv
       ELSE /\ conv' = conv \cup {to[h]}
            /\ Goto(h, "send")
            /\ UNCHANGED <<job, run, loop>>
    /\ UNCHANGED <<rows, tenant, received, counts>>

Reaches(h) ==
    received' = [received EXCEPT ![job[h]][to[h]] = @ + 1]

\* Seeded fault: a contact whose send failed is tried again.
SendRetrying(h) ==
    /\ At(h, "send")
    /\ \E outcome \in {"ok", "failed", "timeout"} :
          /\ IF outcome = "failed" THEN UNCHANGED received ELSE Reaches(h)
          /\ Goto(h, IF outcome = "ok" THEN "record" ELSE "next")
    /\ UNCHANGED <<rows, tenant, conv, counts, job, run, loop>>

\* inbox.sendMessage up to the platform call, which may fail, deliver and yet
\* report a failure, or find no usable token.
Send(h) ==
    /\ At(h, "send")
    /\ \E outcome \in IF Stands(h) /\ connected = "active"
                      THEN {"ok", "failed", "timeout", "revoked"} ELSE {"failed"} :
          /\ IF outcome \in {"ok", "timeout"} THEN Reaches(h) ELSE UNCHANGED received
          /\ IF outcome = "ok" THEN Goto(h, "record") /\ UNCHANGED todo ELSE Done(h)
          /\ connected' = IF outcome = "revoked" THEN "revoked" ELSE connected
    /\ UNCHANGED <<rows, link, conv, counts, job, run, channel, to, n>>

\* Seeded fault: a message is counted before it is known to be sent.
RecordTwice(h) ==
    /\ At(h, "record")
    /\ Done(h)
    /\ n' = [n EXCEPT ![h] = @ + 2]
    /\ UNCHANGED <<rows, outside, counts, job, run, channel, to>>

\* Message.create and conversation.update of inbox.sendMessage, then sentCount++;
\* a conversation removed meanwhile makes it a failure.
Record(h) ==
    /\ At(h, "record")
    /\ Done(h)
    /\ n' = [n EXCEPT ![h] = IF Stands(h) THEN @ + 1 ELSE @]
    /\ UNCHANGED <<rows, outside, counts, job, run, channel, to>>

\* Seeded fault: the last write is forgotten when nobody was reached.
FinishIfSent(h) ==
    /\ At(h, "finish")
    /\ IF n[h] > 0 THEN SetStatus(h, "SENT") ELSE UNCHANGED status
    /\ sentCount' = [sentCount EXCEPT ![job[h]] = n[h]]
    /\ Leave(h)
    /\ UNCHANGED <<due, outside, counts>>

\* Unconditional, whatever the broadcast has become.
Finish(h) ==
    /\ At(h, "finish")
    /\ SetStatus(h, "SENT")
    /\ sentCount' = [sentCount EXCEPT ![job[h]] = n[h]]
    /\ Leave(h)
    /\ UNCHANGED <<due, outside, counts>>

-----------------------------------------------------------------------------
(* The environment                                                         *)

\* scheduledAt passes.
Elapse(b) ==
    /\ status[b] = "SCHEDULED" /\ ~due[b]
    /\ due' = [due EXCEPT ![b] = TRUE]
    /\ UNCHANGED <<status, sentCount, outside, counts, pc, job, run, loop>>

\* A contact writes: the webhook creates the conversation.
ContactWrites(c) ==
    /\ connected # "removed" /\ c \notin conv
    /\ conv' = conv \cup {c}
    /\ UNCHANGED <<rows, tenant, received, counts, pc, job, run, loop>>

\* The owner removes the channel, and its conversations with it ...
RemoveChannel ==
    /\ connected # "removed" /\ link <= MaxRemovals
    /\ connected' = "removed"
    /\ conv' = {}
    /\ UNCHANGED <<rows, link, received, counts, pc, job, run, loop>>

\* ... and connects it anew.  Connecting a revoked one again leaves isActive.
ConnectChannel ==
    /\ connected = "removed"
    /\ connected' = "active" /\ link' = link + 1
    /\ UNCHANGED <<rows, conv, received, counts, pc, job, run, loop>>

\* A database call of a handler rejects.  In sendMessage the failure is
\* counted, in the cron's catch it is ignored, elsewhere it is thrown.
Reject(h) ==
    /\ faults < MaxFaults
    /\ faults' = faults + 1
    /\ \/ /\ pc[h] \in {"send", "record"}
          /\ Done(h)
          /\ UNCHANGED <<job, run, channel, to, n>>
       \/ pc[h] \in {"park", "cancel"} /\ Leave(h)
       \/ pc[h] \notin {"idle", "send", "record", "park", "cancel"} /\ Throw(h)
    /\ UNCHANGED <<rows, outside, executions, schedules>>

\* The process dies and starts again; nothing resumes a broadcast.
Crash ==
    /\ faults < MaxFaults
    /\ faults' = faults + 1
    /\ \E h \in Handlers : pc[h] # "idle"
    /\ pc' = Everyone("idle") /\ job' = Everyone(SomeBroadcast)
    /\ cron' = Everyone(FALSE) /\ batch' = Everyone({})
    /\ channel' = Everyone(Unread) /\ todo' = Everyone({})
    /\ to' = Everyone(SomeContact) /\ n' = Everyone(0)
    /\ UNCHANGED <<rows, outside, executions, schedules>>

Execute(h) ==
    \/ ReadStatus(h) \/ CheckChannel(h) \/ MarkSending(h) \/ ReadAudience(h)
    \/ NextContact(h) \/ FindConversation(h) \/ CreateConversation(h)
    \/ Send(h) \/ Record(h) \/ Finish(h)

Handle(h) == Execute(h) \/ Park(h) \/ CancelWrite(h)

Ask(h, b) == Create(h, b) \/ Schedule(h, b) \/ AskExecute(h, b) \/ AskCancel(h, b)

Next ==
    \/ \E h \in Handlers :
          \/ Handle(h) \/ CronFetch(h) \/ Reject(h)
          \/ \E b \in Broadcasts : Ask(h, b)
    \/ \E b \in Broadcasts : Elapse(b)
    \/ \E c \in Contacts : ContactWrites(c)
    \/ RemoveChannel \/ ConnectChannel
    \/ Crash

Spec == Init /\ [][Next]_vars

\* Awaits are answered, and the cron fires every minute.
FairSpec == Spec /\ \A h \in Handlers : WF_vars(Handle(h)) /\ WF_vars(CronFetch(h))

-----------------------------------------------------------------------------
(* Safety                                                                  *)

\* Past the write of SENDING, before the last write.
Sending(h, b) ==
    job[h] = b /\ pc[h] \in {"audience", "next", "find", "create", "send", "record", "finish"}

\* However runs overlap, are cut short or repeated, a contact gets at most one
\* copy per execution: execute()'s loop never tries a contact twice.
OneCopyPerExecution ==
    \A b \in Broadcasts, c \in Contacts : received[b][c] <= executions[b]

\* sentCount, "the closest honest signal", never claims more customers than got the broadcast, all executions
\* together.
GotIt(b) == {c \in Contacts : received[b][c] > 0}
SentCountHonest == \A b \in Broadcasts : sentCount[b] <= Cardinality(GotIt(b))

\* "a failed broadcast never gets stuck mid-state": a broadcast shown as SENDING
\* is being sent by somebody.
NeverStuck ==
    \A b \in Broadcasts : status[b] = "SENDING" => \E h \in Handlers : Sending(h, b)

\* A broadcast that was sent or cancelled stays so until it is scheduled again;
\* the parking of failed broadcasts does not touch it.
FinalIsFinal ==
    [][\A b \in Broadcasts : status[b] \in {"SENT", "CANCELLED"}
                               => status'[b] \in {status[b], "SCHEDULED"}]_vars

\* While nobody overlaps and nothing fails, a broadcast keeps what Campaign
\* promises: the executions' loops are its audience.
Remaining(h) ==
    CASE pc[h] = "audience" -> Segment[job[h]]
      [] pc[h] = "record"   -> todo[h] \ {to[h]}
      [] OTHER              -> todo[h]
LeftToTry ==
    [b \in Broadcasts |-> UNION {Remaining(h) : h \in {g \in Handlers : Sending(g, b)}}]
GivenUp ==
    [b \in Broadcasts |-> status[b] = "SENDING" /\ \A h \in Handlers : ~Sending(h, b)]
Promise == INSTANCE Campaign WITH audience <- LeftToTry, abandoned <- GivenUp
CampaignPromise == Promise!Spec

-----------------------------------------------------------------------------
(* Liveness                                                                *)

\* A due broadcast does not stay due: the cron executes it or parks it.
DueIsTaken ==
    \A b \in Broadcasts : status[b] = "SCHEDULED" /\ due[b]
                            ~> status[b] # "SCHEDULED" \/ ~due[b]

\* An execution ends: SENDING is not for ever.
SendingEnds ==
    \A b \in Broadcasts : status[b] = "SENDING" ~> status[b] # "SENDING"
=============================================================================

-------------------------- MODULE Broadcasts_proofs --------------------------
(* Theorems about Broadcasts, for every set of broadcasts, contacts, cron    *)
(* runs and requests.                                                        *)
EXTENDS Broadcasts, FiniteSetTheorems, TLAPS

-----------------------------------------------------------------------------
(* The types, by the groups of variables an action touches together.        *)

RowsType ==
    /\ status \in [Broadcasts -> Statuses]
    /\ due \in [Broadcasts -> BOOLEAN]
    /\ sentCount \in [Broadcasts -> Nat]

WorldType ==
    /\ link \in Nat \ {0}
    /\ connected \in {"active", "revoked", "removed"}
    /\ conv \subseteq Contacts
    /\ received \in [Broadcasts -> [Contacts -> Nat]]

CountsType ==
    /\ executions \in [Broadcasts -> Nat]
    /\ schedules \in [Broadcasts -> Nat]
    /\ faults \in Nat

HandlersType ==
    /\ pc \in [Handlers -> PCs]
    /\ job \in [Handlers -> Broadcasts]
    /\ cron \in [Handlers -> BOOLEAN]
    /\ batch \in [Handlers -> SUBSET Broadcasts]
    /\ channel \in [Handlers -> Int]
    /\ todo \in [Handlers -> SUBSET Contacts]
    /\ to \in [Handlers -> Contacts]
    /\ n \in [Handlers -> Nat]

Typed == RowsType /\ WorldType /\ CountsType /\ HandlersType

LEMMA TypeParts == TypeOK <=> Typed
  BY DEF TypeOK, Typed, RowsType, WorldType, CountsType, HandlersType

LEMMA Picks == SomeBroadcast \in Broadcasts /\ SomeContact \in Contacts
  BY BroadcastsAssumption DEF SomeBroadcast, SomeContact

LEMMA SameRows == ASSUME RowsType, UNCHANGED rows PROVE RowsType'
  BY DEF RowsType, rows

LEMMA SameWorld == ASSUME WorldType, UNCHANGED outside PROVE WorldType'
  BY DEF WorldType, outside, tenant

LEMMA SameCounts == ASSUME CountsType, UNCHANGED counts PROVE CountsType'
  BY DEF CountsType, counts

LEMMA SameHandlers == ASSUME HandlersType, UNCHANGED <<pc, job, run, loop>> PROVE HandlersType'
  BY DEF HandlersType, run, loop

-----------------------------------------------------------------------------
(* How a handler moves on.                                                  *)

Others(h) ==
    \A g \in Handlers \ {h} :
        /\ pc'[g] = pc[g] /\ job'[g] = job[g] /\ cron'[g] = cron[g] /\ batch'[g] = batch[g]
        /\ channel'[g] = channel[g] /\ todo'[g] = todo[g] /\ to'[g] = to[g] /\ n'[g] = n[g]

\* It is out of execute()'s loop, which keeps nothing.
Out(h) ==
    /\ Others(h) /\ pc'[h] \in {"idle", "read", "park"}
    /\ channel'[h] = Unread /\ todo'[h] = {} /\ n'[h] = 0

LEMMA LeaveOut ==
  ASSUME HandlersType, NEW h \in Handlers, Leave(h)
  PROVE  HandlersType' /\ Out(h) /\ pc'[h] \in {"idle", "read"}
<1>1. CASE /\ batch[h] = {} /\ Goto(h, "idle") /\ job' = [job EXCEPT ![h] = SomeBroadcast]
           /\ cron' = [cron EXCEPT ![h] = FALSE] /\ UNCHANGED batch
  BY <1>1, Picks DEF Leave, ForgetLoop, Goto, HandlersType, PCs, Out, Others, Unread
<1>2. ASSUME NEW b \in batch[h], Goto(h, "read"), job' = [job EXCEPT ![h] = b],
             batch' = [batch EXCEPT ![h] = @ \ {b}], UNCHANGED cron
      PROVE  HandlersType' /\ Out(h) /\ pc'[h] \in {"idle", "read"}
  BY <1>2, Picks DEF Leave, ForgetLoop, Goto, HandlersType, PCs, Out, Others, Unread
<1>3. QED
  BY <1>1, <1>2 DEF Leave

LEMMA ThrowOut ==
  ASSUME HandlersType, NEW h \in Handlers, Throw(h)
  PROVE  HandlersType' /\ Out(h)
<1>1. CASE cron[h]
  BY <1>1, Picks DEF Throw, ForgetLoop, Goto, HandlersType, PCs, Out, Others, Unread, run
<1>2. CASE ~cron[h]
  BY <1>2, LeaveOut DEF Throw
<1>3. QED
  BY <1>1, <1>2

LEMMA GotoType ==
  ASSUME HandlersType, NEW h \in Handlers, NEW l \in PCs, Goto(h, l), UNCHANGED <<job, run, loop>>
  PROVE  HandlersType' /\ Others(h) /\ pc'[h] = l
  BY DEF HandlersType, Goto, run, loop, Others

\* A contact is through.
LEMMA DoneType ==
  ASSUME HandlersType, NEW h \in Handlers, Done(h), UNCHANGED <<job, run, channel, to>>,
         n' = n \/ n' = [n EXCEPT ![h] = n[h] + 1]
  PROVE  HandlersType' /\ Others(h) /\ pc'[h] = "next" /\ todo'[h] = todo[h] \ {to[h]}
  BY DEF HandlersType, Done, Goto, run, PCs, Others

\* One more copy, for one contact of one broadcast.
LEMMA ReachesType ==
  ASSUME WorldType, HandlersType, NEW h \in Handlers, Reaches(h)
  PROVE  /\ received' \in [Broadcasts -> [Contacts -> Nat]]
         /\ \A b \in Broadcasts, c \in Contacts :
               received'[b][c] = IF b = job[h] /\ c = to[h] THEN received[b][c] + 1
                                                          ELSE received[b][c]
<1>0. job[h] \in Broadcasts /\ to[h] \in Contacts
  BY DEF HandlersType
<1>1. received \in [Broadcasts -> [Contacts -> Nat]] /\ received[job[h]] \in [Contacts -> Nat]
  BY <1>0 DEF WorldType
<1> DEFINE more == [received[job[h]] EXCEPT ![to[h]] = @ + 1]
<1>2. more \in [Contacts -> Nat]
  BY <1>0, <1>1
<1>3. received' = [received EXCEPT ![job[h]] = more]
  BY DEF Reaches
<1> HIDE DEF more
<1>4. received' \in [Broadcasts -> [Contacts -> Nat]]
  BY <1>0, <1>1, <1>2, <1>3
<1>5. ASSUME NEW b \in Broadcasts, NEW c \in Contacts
      PROVE  received'[b][c] = IF b = job[h] /\ c = to[h] THEN received[b][c] + 1
                                                        ELSE received[b][c]
  BY <1>0, <1>1, <1>3 DEF more
<1>6. QED
  BY <1>4, <1>5

-----------------------------------------------------------------------------
(* Types.                                                                   *)

LEMMA InitType == Init => TypeOK
  BY Picks, BroadcastsAssumption
  DEF Init, TypeOK, Everyone, Statuses, PCs, Unread

LEMMA AskType ==
  ASSUME Typed, NEW h \in Handlers, NEW b \in Broadcasts, Ask(h, b)
  PROVE  Typed'
<1> USE DEF Typed
<1>1. CASE Create(h, b)
  <2>1. RowsType'
    BY <1>1 DEF Create, RowsType, Statuses
  <2>2. QED
    BY <1>1, <2>1, SameWorld, SameCounts, SameHandlers DEF Create
<1>2. CASE Schedule(h, b)
  <2>1. RowsType' /\ CountsType'
    BY <1>2 DEF Schedule, RowsType, CountsType, Statuses
  <2>2. QED
    BY <1>2, <2>1, SameWorld, SameHandlers DEF Schedule
<1>3. CASE AskExecute(h, b)
  <2>1. HandlersType'
    BY <1>3 DEF AskExecute, HandlersType, Goto, run, loop, PCs
  <2>2. QED
    BY <1>3, <2>1, SameRows, SameWorld, SameCounts DEF AskExecute
<1>4. CASE AskCancel(h, b)
  <2>1. HandlersType'
    BY <1>4 DEF AskCancel, HandlersType, Goto, run, loop, PCs
  <2>2. QED
    BY <1>4, <2>1, SameRows, SameWorld, SameCounts DEF AskCancel
<1>5. QED
  BY <1>1, <1>2, <1>3, <1>4 DEF Ask

LEMMA ExecuteType ==
  ASSUME Typed, NEW h \in Handlers, Execute(h)
  PROVE  Typed'
<1> USE DEF Typed
<1>0. RowsType /\ WorldType /\ CountsType /\ HandlersType
  OBVIOUS
<1>1. CASE ReadStatus(h)
  <2>1. HandlersType'
    <3>1. CASE Throw(h)
      BY <1>0, <3>1, ThrowOut
    <3>2. CASE Goto(h, "check") /\ UNCHANGED <<job, run, loop>>
      BY <1>0, <3>2, GotoType DEF PCs
    <3>3. QED
      BY <1>1, <3>1, <3>2 DEF ReadStatus
  <2>2. QED
    BY <1>0, <1>1, <2>1, SameRows, SameWorld, SameCounts DEF ReadStatus
<1>2. CASE CheckChannel(h)
  <2>1. HandlersType'
    <3>1. CASE Throw(h)
      BY <1>0, <3>1, ThrowOut
    <3>2. CASE Goto(h, "mark") /\ UNCHANGED <<job, run, loop>>
      BY <1>0, <3>2, GotoType DEF PCs
    <3>3. QED
      BY <1>2, <3>1, <3>2 DEF CheckChannel
  <2>2. QED
    BY <1>0, <1>2, <2>1, SameRows, SameWorld, SameCounts DEF CheckChannel
<1>3. CASE MarkSending(h)
  <2>1. RowsType' /\ CountsType'
    BY <1>0, <1>3 DEF MarkSending, SetStatus, RowsType, CountsType, HandlersType, Statuses
  <2>2. HandlersType'
    BY <1>0, <1>3, GotoType DEF MarkSending, PCs
  <2>3. QED
    BY <1>0, <1>3, <2>1, <2>2, SameWorld DEF MarkSending
<1>4. CASE ReadAudience(h)
  <2>1. Segment[job[h]] \subseteq Contacts
    BY <1>0, BroadcastsAssumption DEF HandlersType
  <2>2. HandlersType'
    BY <1>0, <1>4, <2>1 DEF ReadAudience, HandlersType, Goto, run, PCs
  <2>3. QED
    BY <1>0, <1>4, <2>2, SameRows, SameWorld, SameCounts DEF ReadAudience
<1>5. CASE NextContact(h)
  <2>1. link \in Int /\ None \in Int
    BY <1>0 DEF WorldType, None
  <2>2. HandlersType'
    BY <1>0, <1>5, <2>1 DEF NextContact, HandlersType, Goto, run, PCs
  <2>3. QED
    BY <1>0, <1>5, <2>2, SameRows, SameWorld, SameCounts DEF NextContact
<1>6. CASE FindConversation(h)
  <2>1. HandlersType'
    BY <1>0, <1>6, GotoType DEF FindConversation, PCs
  <2>2. QED
    BY <1>0, <1>6, <2>1, SameRows, SameWorld, SameCounts DEF FindConversation
<1>7. CASE CreateConversation(h)
  <2>1. HandlersType'
    <3>1. CASE Throw(h)
      BY <1>0, <3>1, ThrowOut
    <3>2. CASE Goto(h, "send") /\ UNCHANGED <<job, run, loop>>
      BY <1>0, <3>2, GotoType DEF PCs
    <3>3. QED
      BY <1>7, <3>1, <3>2 DEF CreateConversation
  <2>2. WorldType'
    BY <1>0, <1>7 DEF CreateConversation, WorldType, HandlersType, tenant
  <2>3. QED
    BY <1>0, <1>7, <2>1, <2>2, SameRows, SameCounts DEF CreateConversation
<1>8. CASE Send(h)
  <2>1. WorldType'
    <3>1. received' = received \/ Reaches(h)
      BY <1>8 DEF Send
    <3>2. received' \in [Broadcasts -> [Contacts -> Nat]]
      BY <1>0, <3>1, ReachesType DEF WorldType
    <3>3. connected' \in {"active", "revoked", "removed"} /\ link' = link /\ conv' = conv
      BY <1>0, <1>8 DEF Send, WorldType
    <3>4. QED
      BY <1>0, <3>2, <3>3 DEF WorldType
  <2>2. HandlersType'
    <3>1. CASE Goto(h, "record") /\ UNCHANGED todo
      BY <1>0, <1>8, <3>1, GotoType DEF Send, PCs, loop
    <3>2. CASE Done(h)
      BY <1>0, <1>8, <3>2, DoneType DEF Send
    <3>3. QED
      BY <1>8, <3>1, <3>2 DEF Send
  <2>3. QED
    BY <1>0, <1>8, <2>1, <2>2, SameRows, SameCounts DEF Send
<1>9. CASE Record(h)
  <2>1. n' = n \/ n' = [n EXCEPT ![h] = n[h] + 1]
    BY <1>0, <1>9 DEF Record, HandlersType
  <2>2. HandlersType'
    BY <1>0, <1>9, <2>1, DoneType DEF Record
  <2>3. QED
    BY <1>0, <1>9, <2>2, SameRows, SameWorld, SameCounts DEF Record
<1>10. CASE Finish(h)
  <2>1. RowsType'
    BY <1>0, <1>10 DEF Finish, SetStatus, RowsType, HandlersType, Statuses
  <2>2. HandlersType'
    BY <1>0, <1>10, LeaveOut DEF Finish
  <2>3. QED
    BY <1>0, <1>10, <2>1, <2>2, SameWorld, SameCounts DEF Finish
<1>11. QED
  BY <1>1, <1>2, <1>3, <1>4, <1>5, <1>6, <1>7, <1>8, <1>9, <1>10 DEF Execute

\* A handler that is cut short.
LEMMA RejectType ==
  ASSUME Typed, NEW h \in Handlers, Reject(h)
  PROVE  Typed'
<1> USE DEF Typed
<1>1. HandlersType'
  <2>1. CASE Done(h) /\ UNCHANGED <<job, run, channel, to, n>>
    BY <2>1, DoneType
  <2>2. CASE Leave(h)
    BY <2>2, LeaveOut
  <2>3. CASE Throw(h)
    BY <2>3, ThrowOut
  <2>4. QED
    BY <2>1, <2>2, <2>3 DEF Reject
<1>2. CountsType'
  BY DEF Reject, CountsType
<1>3. QED
  BY <1>1, <1>2, SameRows, SameWorld DEF Reject

LEMMA WorldStepType ==
  ASSUME Typed,
         \/ \E b \in Broadcasts : Elapse(b)
         \/ \E c \in Contacts : ContactWrites(c)
         \/ RemoveChannel \/ ConnectChannel \/ Crash
  PROVE  Typed'
<1> USE DEF Typed
<1>1. ASSUME NEW b \in Broadcasts, Elapse(b) PROVE Typed'
  <2>1. RowsType'
    BY <1>1 DEF Elapse, RowsType
  <2>2. QED
    BY <1>1, <2>1, SameWorld, SameCounts, SameHandlers DEF Elapse
<1>2. ASSUME NEW c \in Contacts, ContactWrites(c) PROVE Typed'
  <2>1. WorldType'
    BY <1>2 DEF ContactWrites, WorldType, tenant
  <2>2. QED
    BY <1>2, <2>1, SameRows, SameCounts, SameHandlers DEF ContactWrites
<1>3. CASE RemoveChannel
  <2>1. WorldType'
    BY <1>3 DEF RemoveChannel, WorldType
  <2>2. QED
    BY <1>3, <2>1, SameRows, SameCounts, SameHandlers DEF RemoveChannel
<1>4. CASE ConnectChannel
  <2>1. WorldType'
    BY <1>4 DEF ConnectChannel, WorldType
  <2>2. QED
    BY <1>4, <2>1, SameRows, SameCounts, SameHandlers DEF ConnectChannel
<1>5. CASE Crash
  <2>1. HandlersType' /\ CountsType'
    BY <1>5, Picks DEF Crash, HandlersType, CountsType, Everyone, PCs, Unread
  <2>2. QED
    BY <1>5, <2>1, SameRows, SameWorld DEF Crash
<1>6. QED
  BY <1>1, <1>2, <1>3, <1>4, <1>5

LEMMA NextType ==
  ASSUME Typed, [Next]_vars
  PROVE  Typed'
<1> USE DEF Typed
<1>1. ASSUME NEW h \in Handlers, Park(h) PROVE Typed'
  <2>1. RowsType'
    BY <1>1 DEF Park, SetStatus, RowsType, HandlersType, Statuses
  <2>2. QED
    BY <1>1, <2>1, LeaveOut, SameWorld, SameCounts DEF Park
<1>2. ASSUME NEW h \in Handlers, CancelWrite(h) PROVE Typed'
  <2>1. RowsType'
    BY <1>2 DEF CancelWrite, SetStatus, RowsType, HandlersType, Statuses
  <2>2. QED
    BY <1>2, <2>1, LeaveOut, SameWorld, SameCounts DEF CancelWrite
<1>3. ASSUME NEW h \in Handlers, CronFetch(h) PROVE Typed'
  <2>1. HandlersType'
    BY <1>3 DEF CronFetch, DueNow, HandlersType, Goto, loop, PCs
  <2>2. QED
    BY <1>3, <2>1, SameRows, SameWorld, SameCounts DEF CronFetch
<1>4. CASE UNCHANGED vars
  BY <1>4, SameRows, SameWorld, SameCounts, SameHandlers DEF vars
<1>5. QED
  BY <1>1, <1>2, <1>3, <1>4, AskType, ExecuteType, RejectType, WorldStepType DEF Next, Handle

\* However the cron, its overlapping runs and the owner's requests interleave, fail or die, every row, counter and
\* local of BroadcastsService keeps its type: no status outside the enum, no negative count (broadcasts.service.ts).
THEOREM TypeCorrect == Spec => []TypeOK
<1>1. Init => TypeOK
  BY InitType
<1>2. Typed /\ [Next]_vars => Typed'
  BY NextType
<1>3. QED
  BY <1>1, <1>2, TypeParts, PTL DEF Spec

-----------------------------------------------------------------------------
(* One copy per execution.  A handler that is past its mark may still send   *)
(* to the contacts it has not been through; those sends are paid for by the  *)
(* executions counted so far.                                                *)

Owes(h, b, c) ==
    /\ job[h] = b
    /\ \/ pc[h] = "audience"
       \/ pc[h] \in {"next", "find", "create", "send"} /\ c \in todo[h]
       \/ pc[h] = "record" /\ c \in todo[h] \ {to[h]}

Pending(b, c) == {h \in Handlers : Owes(h, b, c)}

Budget ==
    \A b \in Broadcasts, c \in Contacts :
       received[b][c] + Cardinality(Pending(b, c)) <= executions[b]

\* The contact a handler is at is one it has not been through.
Trying == \A h \in Handlers : pc[h] \in {"find", "create", "send", "record"} => to[h] \in todo[h]

LEMMA HandlersFinite ==
  ASSUME NEW S \in SUBSET Handlers
  PROVE  IsFiniteSet(S) /\ Cardinality(S) \in Nat
  BY FS_Subset, FS_CardinalityType, BroadcastsAssumption

LEMMA ContactsFinite ==
  ASSUME NEW S \in SUBSET Contacts
  PROVE  IsFiniteSet(S) /\ Cardinality(S) \in Nat
  BY FS_Subset, FS_CardinalityType, BroadcastsAssumption

LEMMA PendingSize ==
  ASSUME NEW b, NEW c
  PROVE  /\ Pending(b, c) \subseteq Handlers /\ IsFiniteSet(Pending(b, c))
         /\ Cardinality(Pending(b, c)) \in Nat
  BY HandlersFinite DEF Pending

LEMMA PendingSizePrime ==
  ASSUME NEW b, NEW c
  PROVE  Pending(b, c)' \subseteq Handlers /\ Cardinality(Pending(b, c)') \in Nat
  BY HandlersFinite DEF Pending

\* A step after which nobody owes more, and no copy was sent.
LEMMA OwesNoMore ==
  ASSUME Typed, Typed', Budget, UNCHANGED <<received, executions>>,
         \A h \in Handlers, b \in Broadcasts, c \in Contacts : Owes(h, b, c)' => Owes(h, b, c)
  PROVE  Budget'
<1> SUFFICES ASSUME NEW b \in Broadcasts, NEW c \in Contacts
             PROVE  received'[b][c] + Cardinality(Pending(b, c)') <= executions'[b]
  BY DEF Budget
<1>1. Pending(b, c)' \subseteq Pending(b, c)
  BY DEF Pending
<1>2. Cardinality(Pending(b, c)') <= Cardinality(Pending(b, c))
  BY <1>1, PendingSize, FS_Subset
<1>3. received[b][c] + Cardinality(Pending(b, c)) <= executions[b]
  BY DEF Budget
<1>4. received[b][c] \in Nat /\ executions[b] \in Nat
  BY DEF Typed, WorldType, CountsType
<1>5. QED
  BY <1>2, <1>3, <1>4, PendingSize, PendingSizePrime

\* The others owe what they owed.
LEMMA OthersOwe ==
  ASSUME NEW h \in Handlers, Others(h), NEW g \in Handlers \ {h}, NEW b, NEW c
  PROVE  Owes(g, b, c)' <=> Owes(g, b, c)
  BY DEF Others, Owes

LEMMA OthersTry ==
  ASSUME NEW h \in Handlers, Others(h), Trying,
         pc'[h] \in {"find", "create", "send", "record"} => to'[h] \in todo'[h]
  PROVE  Trying'
  BY DEF Others, Trying

LEMMA OutPays ==
  ASSUME Typed, Typed', Budget, Trying, NEW h \in Handlers, Out(h), UNCHANGED <<received, executions>>
  PROVE  Budget' /\ Trying'
<1>1. \A b, c : ~Owes(h, b, c)'
  BY DEF Out, Owes
<1>2. Budget'
  BY <1>1, OthersOwe, OwesNoMore DEF Out
<1>3. QED
  BY <1>2, OthersTry DEF Out

\* The write of SENDING pays for one more copy to each contact.
LEMMA MarkPays ==
  ASSUME Typed, Typed', Budget, Trying, NEW h \in Handlers, MarkSending(h)
  PROVE  Budget' /\ Trying'
<1>1. Others(h) /\ pc[h] = "mark" /\ pc'[h] = "audience" /\ job'[h] = job[h]
  BY DEF MarkSending, At, Goto, run, loop, Others, Typed, HandlersType
<1>2. received' = received /\ executions' = [executions EXCEPT ![job[h]] = @ + 1]
  BY DEF MarkSending, outside
<1>3. ASSUME NEW b \in Broadcasts, NEW c \in Contacts
      PROVE  received'[b][c] + Cardinality(Pending(b, c)') <= executions'[b]
  <2>1. /\ received[b][c] + Cardinality(Pending(b, c)) <= executions[b]
        /\ received[b][c] \in Nat /\ executions[b] \in Nat /\ job[h] \in Broadcasts
    BY DEF Budget, Typed, WorldType, CountsType, HandlersType
  <2>2. CASE b = job[h]
    <3>1. Pending(b, c)' \subseteq Pending(b, c) \cup {h}
      BY OthersOwe, <1>1 DEF Pending
    <3>2. /\ IsFiniteSet(Pending(b, c) \cup {h})
          /\ Cardinality(Pending(b, c) \cup {h}) <= Cardinality(Pending(b, c)) + 1
      BY PendingSize, FS_AddElement
    <3>3. Cardinality(Pending(b, c) \cup {h}) \in Nat
      BY <3>2, FS_CardinalityType
    <3>4. Cardinality(Pending(b, c)') <= Cardinality(Pending(b, c) \cup {h})
      BY <3>1, <3>2, FS_Subset
    <3>5. executions'[b] = executions[b] + 1
      BY <1>2, <2>2 DEF Typed, CountsType
    <3>6. QED
      BY <1>2, <2>1, <3>2, <3>3, <3>4, <3>5, PendingSize, PendingSizePrime
  <2>3. CASE b # job[h]
    <3>1. Pending(b, c)' \subseteq Pending(b, c)
      BY OthersOwe, <1>1, <2>3 DEF Pending, Owes
    <3>2. Cardinality(Pending(b, c)') <= Cardinality(Pending(b, c))
      BY <3>1, PendingSize, FS_Subset
    <3>3. executions'[b] = executions[b]
      BY <1>2, <2>3 DEF Typed, CountsType
    <3>4. QED
      BY <1>2, <2>1, <3>2, <3>3, PendingSize, PendingSizePrime
  <2>4. QED
    BY <2>2, <2>3
<1>4. QED
  BY <1>1, <1>3, OthersTry DEF Budget

\* A send spends the copy the handler owed to that contact, whatever is reported of it.
LEMMA SendPays ==
  ASSUME Typed, Typed', Budget, Trying, NEW h \in Handlers, Send(h)
  PROVE  Budget' /\ Trying'
<1>1. \/ pc'[h] = "record" /\ todo' = todo
      \/ pc'[h] = "next" /\ todo' = [todo EXCEPT ![h] = @ \ {to[h]}]
  BY DEF Send, Goto, Done, Typed, HandlersType
<1>2. Others(h) /\ pc[h] = "send" /\ job'[h] = job[h] /\ to'[h] = to[h]
  BY DEF Send, At, Goto, Done, run, Others, Typed, HandlersType
<1>3. to[h] \in todo[h] /\ job[h] \in Broadcasts /\ to[h] \in Contacts /\ todo[h] \subseteq Contacts
  BY <1>2 DEF Trying, Typed, HandlersType
<1>4. executions' = executions /\ (received' = received \/ Reaches(h))
  BY DEF Send, counts
<1>5. \A b, c : b = job[h] /\ c = to[h] => Owes(h, b, c) /\ ~Owes(h, b, c)'
  BY <1>1, <1>2, <1>3 DEF Owes, Typed, HandlersType
<1>6. \A b, c : Owes(h, b, c)' => Owes(h, b, c)
  BY <1>1, <1>2 DEF Owes, Typed, HandlersType
<1>7. ASSUME NEW b \in Broadcasts, NEW c \in Contacts
      PROVE  received'[b][c] + Cardinality(Pending(b, c)') <= executions'[b]
  <2>1. /\ received[b][c] + Cardinality(Pending(b, c)) <= executions[b]
        /\ received[b][c] \in Nat /\ executions[b] \in Nat
    BY DEF Budget, Typed, WorldType, CountsType
  <2>2. Pending(b, c)' \subseteq Pending(b, c)
    BY <1>2, <1>6, OthersOwe DEF Pending
  <2>3. Cardinality(Pending(b, c)') <= Cardinality(Pending(b, c))
    BY <2>2, PendingSize, FS_Subset
  <2>4. CASE b = job[h] /\ c = to[h]
    <3>1. h \in Pending(b, c) /\ h \notin Pending(b, c)'
      BY <1>5, <2>4 DEF Pending
    <3>2. Pending(b, c)' \subseteq Pending(b, c) \ {h}
      BY <2>2, <3>1
    <3>3. /\ IsFiniteSet(Pending(b, c) \ {h})
          /\ Cardinality(Pending(b, c) \ {h}) = Cardinality(Pending(b, c)) - 1
      BY <3>1, PendingSize, FS_RemoveElement
    <3>4. Cardinality(Pending(b, c)') <= Cardinality(Pending(b, c)) - 1
      BY <3>2, <3>3, FS_Subset
    <3>5. received'[b][c] \in {received[b][c], received[b][c] + 1}
      BY <1>4, <2>1, ReachesType DEF Typed
    <3>6. QED
      BY <1>4, <2>1, <3>4, <3>5, PendingSize, PendingSizePrime
  <2>5. CASE ~(b = job[h] /\ c = to[h])
    <3>1. received'[b][c] = received[b][c]
      BY <1>4, <2>5, ReachesType DEF Typed
    <3>2. QED
      BY <1>4, <2>1, <2>3, <3>1, PendingSize, PendingSizePrime
  <2>6. QED
    BY <2>4, <2>5
<1>8. QED
  BY <1>1, <1>2, <1>3, <1>7, OthersTry DEF Budget

\* A step of one handler that neither sends nor comes to owe more.
LEMMA StepPays ==
  ASSUME Typed, Typed', Budget, Trying, NEW h \in Handlers, Others(h), UNCHANGED <<received, executions>>,
         \A b \in Broadcasts, c \in Contacts : Owes(h, b, c)' => Owes(h, b, c),
         pc'[h] \in {"find", "create", "send", "record"} => to'[h] \in todo'[h]
  PROVE  Budget' /\ Trying'
  BY OthersOwe, OthersTry, OwesNoMore

LEMMA ExecutePays ==
  ASSUME Typed, Typed', Budget, Trying, NEW h \in Handlers, Execute(h)
  PROVE  Budget' /\ Trying'
<1>0. HandlersType /\ WorldType
  BY DEF Typed
<1>1. ASSUME Throw(h), UNCHANGED <<received, executions>> PROVE Budget' /\ Trying'
  BY <1>0, <1>1, ThrowOut, OutPays
<1>2. CASE ReadStatus(h) \/ CheckChannel(h)
  <2>1. UNCHANGED <<received, executions>>
    BY <1>2 DEF ReadStatus, CheckChannel, outside, counts
  <2>2. CASE Throw(h)
    BY <1>1, <2>1, <2>2
  <2>3. CASE (Goto(h, "check") \/ Goto(h, "mark")) /\ UNCHANGED <<job, run, loop>>
    <3>1. Others(h) /\ pc'[h] \in {"check", "mark"}
      BY <1>0, <2>3, GotoType DEF PCs
    <3>2. QED
      BY <2>1, <3>1, StepPays DEF Owes
  <2>4. QED
    BY <1>2, <2>2, <2>3 DEF ReadStatus, CheckChannel
<1>3. CASE MarkSending(h)
  BY <1>3, MarkPays
<1>4. CASE ReadAudience(h)
  <2>1. UNCHANGED <<received, executions>>
    BY <1>4 DEF ReadAudience, outside, counts
  <2>2. Others(h) /\ pc[h] = "audience" /\ pc'[h] = "next" /\ job' = job
    BY <1>0, <1>4 DEF ReadAudience, At, Goto, run, Others, HandlersType
  <2>3. QED
    BY <2>1, <2>2, StepPays DEF Owes
<1>5. CASE NextContact(h)
  <2>1. UNCHANGED <<received, executions>>
    BY <1>5 DEF NextContact, outside, counts
  <2>2. Others(h) /\ pc[h] = "next" /\ pc'[h] \in {"next", "find", "finish"} /\ job' = job
    BY <1>0, <1>5 DEF NextContact, At, Goto, run, Others, HandlersType
  <2>3. todo'[h] \subseteq todo[h] /\ (pc'[h] = "find" => to'[h] \in todo'[h])
    BY <1>0, <1>5 DEF NextContact, At, Goto, HandlersType
  <2>4. QED
    BY <2>1, <2>2, <2>3, StepPays DEF Owes
<1>6. CASE FindConversation(h)
  <2>1. UNCHANGED <<received, executions, job, todo, to>>
    BY <1>6 DEF FindConversation, outside, counts, loop
  <2>2. Others(h) /\ pc[h] = "find" /\ pc'[h] \in {"send", "create"}
    BY <1>0, <1>6 DEF FindConversation, At, Goto, run, loop, Others, HandlersType
  <2>3. QED
    BY <2>1, <2>2, StepPays DEF Owes, Trying
<1>7. CASE CreateConversation(h)
  <2>1. UNCHANGED <<received, executions>>
    BY <1>7 DEF CreateConversation, counts
  <2>2. CASE Throw(h)
    BY <1>1, <2>1, <2>2
  <2>3. CASE Goto(h, "send") /\ UNCHANGED <<job, run, loop>>
    <3>1. Others(h) /\ pc[h] = "create" /\ pc'[h] = "send"
      BY <1>0, <1>7, <2>3, GotoType DEF PCs, CreateConversation, At
    <3>2. UNCHANGED <<job, todo, to>>
      BY <2>3 DEF loop
    <3>3. QED
      BY <2>1, <3>1, <3>2, StepPays DEF Owes, Trying
  <2>4. QED
    BY <1>7, <2>2, <2>3 DEF CreateConversation
<1>8. CASE Send(h)
  BY <1>8, SendPays
<1>9. CASE Record(h)
  <2>1. UNCHANGED <<received, executions>>
    BY <1>9 DEF Record, outside, counts
  <2>2. /\ Others(h) /\ pc[h] = "record" /\ pc'[h] = "next" /\ job' = job
        /\ todo'[h] = todo[h] \ {to[h]}
    BY <1>0, <1>9 DEF Record, Done, At, Goto, run, Others, HandlersType
  <2>3. QED
    BY <2>1, <2>2, StepPays DEF Owes
<1>10. CASE Finish(h)
  BY <1>0, <1>10, LeaveOut, OutPays DEF Finish, outside, counts
<1>11. QED
  BY <1>2, <1>3, <1>4, <1>5, <1>6, <1>7, <1>8, <1>9, <1>10 DEF Execute

LEMMA RejectPays ==
  ASSUME Typed, Typed', Budget, Trying, NEW h \in Handlers, Reject(h)
  PROVE  Budget' /\ Trying'
<1>0. HandlersType /\ UNCHANGED <<received, executions>>
  BY DEF Typed, Reject, outside
<1>1. CASE pc[h] \in {"send", "record"} /\ Done(h) /\ UNCHANGED <<job, run, channel, to, n>>
  <2>1. Others(h) /\ pc'[h] = "next" /\ todo'[h] = todo[h] \ {to[h]} /\ job' = job
    BY <1>0, <1>1, DoneType
  <2>2. QED
    BY <1>0, <1>1, <2>1, StepPays DEF Owes
<1>2. CASE Leave(h) \/ Throw(h)
  BY <1>0, <1>2, LeaveOut, ThrowOut, OutPays
<1>3. QED
  BY <1>1, <1>2 DEF Reject

LEMMA NextPays ==
  ASSUME Typed, Typed', Budget, Trying, [Next]_vars
  PROVE  Budget' /\ Trying'
<1>0. HandlersType
  BY DEF Typed
<1>1. ASSUME UNCHANGED <<received, executions, pc, job, run, loop>> PROVE Budget' /\ Trying'
  <2>1. UNCHANGED <<pc, job, todo, to>>
    BY <1>1 DEF loop
  <2>2. QED
    BY <1>1, <2>1, OwesNoMore DEF Owes, Trying
<1>2. ASSUME NEW h \in Handlers, Park(h) \/ CancelWrite(h) PROVE Budget' /\ Trying'
  BY <1>0, <1>2, LeaveOut, OutPays DEF Park, CancelWrite, outside, counts
<1>3. ASSUME NEW h \in Handlers, CronFetch(h) PROVE Budget' /\ Trying'
  <2>1. Others(h) /\ pc'[h] = "read" /\ UNCHANGED <<received, executions>>
    BY <1>0, <1>3 DEF CronFetch, Goto, Others, HandlersType, loop, outside, counts
  <2>2. QED
    BY <2>1, StepPays DEF Owes
<1>4. ASSUME NEW h \in Handlers, NEW b \in Broadcasts, Ask(h, b) PROVE Budget' /\ Trying'
  <2>1. UNCHANGED <<received, executions>>
    BY <1>4 DEF Ask, Create, Schedule, AskExecute, AskCancel, outside, counts
  <2>2. CASE Create(h, b) \/ Schedule(h, b)
    BY <1>1, <2>1, <2>2 DEF Create, Schedule
  <2>3. CASE AskExecute(h, b) \/ AskCancel(h, b)
    <3>1. Others(h) /\ pc'[h] \in {"read", "cancel"}
      BY <1>0, <2>3 DEF AskExecute, AskCancel, Goto, Others, HandlersType, run, loop
    <3>2. QED
      BY <2>1, <3>1, StepPays DEF Owes
  <2>4. QED
    BY <1>4, <2>2, <2>3 DEF Ask
<1>5. CASE Crash
  <2>1. UNCHANGED <<received, executions>> /\ \A h \in Handlers : pc'[h] = "idle"
    BY <1>5 DEF Crash, outside, Everyone
  <2>2. QED
    BY <2>1, OwesNoMore DEF Owes, Trying
<1>6. CASE \/ \E b \in Broadcasts : Elapse(b)
           \/ \E c \in Contacts : ContactWrites(c)
           \/ RemoveChannel \/ ConnectChannel \/ UNCHANGED vars
  BY <1>1, <1>6 DEF Elapse, ContactWrites, RemoveChannel, ConnectChannel, vars, outside, counts
<1>7. QED
  BY <1>2, <1>3, <1>4, <1>5, <1>6, ExecutePays, RejectPays DEF Next, Handle

LEMMA InitPays == Init => Budget /\ Trying
<1> SUFFICES ASSUME Init PROVE Budget /\ Trying
  OBVIOUS
<1>1. \A b \in Broadcasts, c \in Contacts : received[b][c] = 0 /\ executions[b] = 0
  BY DEF Init
<1>2. \A b, c : Cardinality(Pending(b, c)) = 0
  <2>1. \A b, c : Pending(b, c) = {}
    BY DEF Init, Everyone, Pending, Owes
  <2>2. QED
    BY <2>1, FS_EmptySet
<1>3. Budget
  BY <1>1, <1>2 DEF Budget
<1>4. Trying
  BY DEF Init, Everyone, Trying
<1>5. QED
  BY <1>3, <1>4

\* However executions of a broadcast overlap, fail, are repeated or cut short by a crash, a contact gets at most
\* one copy for each time the broadcast was marked SENDING: execute()'s loop tries nobody twice
\* (broadcasts.service.ts).
THEOREM NoSecondCopy == Spec => []OneCopyPerExecution
<1>1. Init => Typed /\ Budget /\ Trying
  BY InitType, InitPays, TypeParts
<1>2. Typed /\ Budget /\ Trying /\ [Next]_vars => (Typed /\ Budget /\ Trying)'
  BY NextType, NextPays
<1>3. Typed /\ Budget => OneCopyPerExecution
  <2>1. SUFFICES ASSUME Typed, Budget, NEW b \in Broadcasts, NEW c \in Contacts
                 PROVE  received[b][c] <= executions[b]
    BY DEF OneCopyPerExecution
  <2>2. QED
    BY <2>1, PendingSize DEF Budget, Typed, WorldType, CountsType
<1>4. QED
  BY <1>1, <1>2, <1>3, PTL DEF Spec

-----------------------------------------------------------------------------
(* The count.  What a run has counted is at most the customers it is through *)
(* with who have the broadcast.                                              *)

Looping == {"next", "find", "create", "send", "record", "finish"}

Through(h) == {c \in Contacts \ todo[h] : received[job[h]][c] > 0}

Counted(h) ==
    /\ n[h] <= Cardinality(Through(h))
    /\ pc[h] \notin Looping => n[h] = 0
    /\ pc[h] = "record" => received[job[h]][to[h]] > 0

Tally == \A h \in Handlers : Counted(h)

\* No copy is taken back.
Delivering ==
    \A b \in Broadcasts, c \in Contacts : received'[b][c] >= received[b][c]

LEMMA ThroughSize ==
  ASSUME NEW h
  PROVE  Through(h) \subseteq Contacts /\ IsFiniteSet(Through(h)) /\ Cardinality(Through(h)) \in Nat
  BY ContactsFinite DEF Through

LEMMA ThroughSizePrime ==
  ASSUME NEW h
  PROVE  /\ Through(h)' \subseteq Contacts /\ IsFiniteSet(Through(h)')
         /\ Cardinality(Through(h)') \in Nat
  BY ContactsFinite DEF Through

\* Those a run is through with stay so while it keeps its job and takes nobody back.
LEMMA ThroughGrows ==
  ASSUME Typed, Typed', Delivering, NEW h \in Handlers, job'[h] = job[h], todo'[h] \subseteq todo[h]
  PROVE  /\ Through(h) \subseteq Through(h)'
         /\ Cardinality(Through(h)) <= Cardinality(Through(h)')
<1>1. job[h] \in Broadcasts
  BY DEF Typed, HandlersType
<1>2. \A c \in Contacts : received[job[h]][c] > 0 => received'[job[h]][c] > 0
  BY <1>1 DEF Delivering, Typed, WorldType
<1>3. Through(h) \subseteq Through(h)'
  BY <1>2 DEF Through
<1>4. QED
  BY <1>3, ThroughSizePrime, FS_Subset

LEMMA StillCounted ==
  ASSUME Typed, Typed', Delivering, NEW h \in Handlers, Counted(h),
         pc'[h] = pc[h], job'[h] = job[h], todo'[h] = todo[h], to'[h] = to[h], n'[h] = n[h]
  PROVE  Counted(h)'
<1>1. Cardinality(Through(h)) <= Cardinality(Through(h)')
  BY ThroughGrows
<1>2. n'[h] <= Cardinality(Through(h)')
  BY <1>1, ThroughSize, ThroughSizePrime DEF Counted, Typed, HandlersType
<1>3. pc'[h] = "record" => received'[job'[h]][to'[h]] > 0
  BY DEF Counted, Delivering, Typed, HandlersType, WorldType
<1>4. QED
  BY <1>2, <1>3 DEF Counted

LEMMA OthersCounted ==
  ASSUME Typed, Typed', Delivering, Tally, NEW h \in Handlers, Others(h), Counted(h)'
  PROVE  Tally'
  BY StillCounted DEF Others, Tally

\* A run that is out of the loop has counted nothing.
LEMMA NothingCounted ==
  ASSUME Typed', NEW h \in Handlers, n'[h] = 0, pc'[h] # "record"
  PROVE  Counted(h)'
  BY ThroughSizePrime DEF Counted

LEMMA OutCounted ==
  ASSUME Typed, Typed', Tally, NEW h \in Handlers, Out(h), UNCHANGED received
  PROVE  Tally'
<1>1. Delivering
  BY DEF Delivering, Typed, WorldType
<1>2. QED
  BY <1>1, NothingCounted, OthersCounted DEF Out

\* A step in the loop that counts nothing.
LEMMA WalkCounted ==
  ASSUME Typed, Typed', Delivering, Tally, NEW h \in Handlers, Others(h), job'[h] = job[h], n'[h] = n[h],
         todo'[h] \subseteq todo[h], pc'[h] \in Looping,
         pc'[h] = "record" => received'[job'[h]][to'[h]] > 0
  PROVE  Tally'
<1>1. Cardinality(Through(h)) <= Cardinality(Through(h)')
  BY ThroughGrows
<1>2. n'[h] <= Cardinality(Through(h)')
  BY <1>1, ThroughSize, ThroughSizePrime DEF Tally, Counted, Typed, HandlersType
<1>3. QED
  BY <1>2, OthersCounted DEF Counted

\* The message is recorded: one more customer is through, and counted once.
LEMMA RecordCounted ==
  ASSUME Typed, Typed', Trying, Tally, NEW h \in Handlers, Record(h)
  PROVE  Tally'
<1>1. /\ Others(h) /\ pc[h] = "record" /\ pc'[h] = "next" /\ job' = job /\ received' = received
      /\ todo'[h] = todo[h] \ {to[h]} /\ to'[h] = to[h]
  BY DEF Record, Done, At, Goto, run, outside, Others, Typed, HandlersType
<1>2. n'[h] \in {n[h], n[h] + 1}
  BY DEF Record, Typed, HandlersType
<1>3. Delivering
  BY <1>1 DEF Delivering, Typed, WorldType
<1>4. to[h] \in Contacts /\ to[h] \in todo[h] /\ received[job[h]][to[h]] > 0
  BY <1>1 DEF Typed, HandlersType, Trying, Tally, Counted
<1>5. Through(h) \cup {to[h]} \subseteq Through(h)' /\ to[h] \notin Through(h)
  BY <1>1, <1>4 DEF Through
<1>6. Cardinality(Through(h) \cup {to[h]}) = Cardinality(Through(h)) + 1
  BY <1>5, ThroughSize, FS_AddElement
<1>7. Cardinality(Through(h)) + 1 <= Cardinality(Through(h)')
  BY <1>5, <1>6, ThroughSizePrime, FS_Subset
<1>8. n'[h] <= Cardinality(Through(h)')
  BY <1>2, <1>7, ThroughSize, ThroughSizePrime DEF Tally, Counted, Typed, HandlersType
<1>9. Counted(h)'
  BY <1>1, <1>8 DEF Counted, Looping
<1>10. QED
  BY <1>1, <1>3, <1>9, OthersCounted

LEMMA SendCounted ==
  ASSUME Typed, Typed', Trying, Tally, NEW h \in Handlers, Send(h)
  PROVE  Tally' /\ Delivering
<1>0. HandlersType /\ WorldType
  BY DEF Typed
<1>1. /\ Others(h) /\ pc[h] = "send" /\ job' = job /\ to' = to /\ n' = n
      /\ pc'[h] \in {"record", "next"} /\ todo'[h] \subseteq todo[h]
  BY <1>0 DEF Send, At, Goto, Done, run, Others, HandlersType
<1>2. /\ received' = received \/ Reaches(h)
      /\ pc'[h] = "record" => Reaches(h)
  BY <1>0 DEF Send, Goto, Done, HandlersType
<1>3. Delivering
  <2>1. CASE received' = received
    BY <1>0, <2>1 DEF Delivering, WorldType
  <2>2. CASE Reaches(h)
    BY <1>0, <2>2, ReachesType DEF Delivering, WorldType
  <2>3. QED
    BY <1>2, <2>1, <2>2
<1>4. pc'[h] = "record" => received'[job'[h]][to'[h]] > 0
  BY <1>0, <1>1, <1>2, ReachesType DEF HandlersType, WorldType
<1>5. QED
  BY <1>1, <1>3, <1>4, WalkCounted DEF Looping

LEMMA SameDelivering == ASSUME Typed, UNCHANGED received PROVE Delivering
  BY DEF Delivering, Typed, WorldType

LEMMA ExecuteCounted ==
  ASSUME Typed, Typed', Trying, Tally, NEW h \in Handlers, Execute(h)
  PROVE  Tally' /\ Delivering
<1>0. HandlersType /\ WorldType
  BY DEF Typed
<1>1. ASSUME Throw(h), UNCHANGED received PROVE Tally' /\ Delivering
  BY <1>0, <1>1, ThrowOut, OutCounted, SameDelivering
<1>2. CASE ReadStatus(h) \/ CheckChannel(h)
  <2>1. UNCHANGED received /\ pc[h] \in {"read", "check"}
    BY <1>2 DEF ReadStatus, CheckChannel, outside, At
  <2>2. CASE Throw(h)
    BY <1>1, <2>1, <2>2
  <2>3. CASE (Goto(h, "check") \/ Goto(h, "mark")) /\ UNCHANGED <<job, run, loop>>
    <3>1. Others(h) /\ pc'[h] \in {"check", "mark"} /\ n' = n
      BY <1>0, <2>3, GotoType DEF PCs, loop
    <3>2. n'[h] = 0
      BY <2>1, <3>1 DEF Tally, Counted, Looping
    <3>3. QED
      BY <2>1, <3>1, <3>2, NothingCounted, OthersCounted, SameDelivering
  <2>4. QED
    BY <1>2, <2>2, <2>3 DEF ReadStatus, CheckChannel
<1>3. CASE MarkSending(h) \/ ReadAudience(h)
  <2>1. UNCHANGED received /\ pc[h] \in {"mark", "audience"} /\ n' = n
    BY <1>3 DEF MarkSending, ReadAudience, outside, At, loop
  <2>2. Others(h) /\ pc'[h] \in {"audience", "next"}
    BY <1>0, <1>3 DEF MarkSending, ReadAudience, Goto, run, loop, Others, HandlersType
  <2>3. n'[h] = 0
    BY <2>1 DEF Tally, Counted, Looping
  <2>4. QED
    BY <2>1, <2>2, <2>3, NothingCounted, OthersCounted, SameDelivering
<1>4. CASE NextContact(h)
  <2>1. UNCHANGED received /\ n' = n /\ job' = job
    BY <1>4 DEF NextContact, outside
  <2>2. Others(h) /\ pc'[h] \in {"next", "find", "finish"} /\ todo'[h] \subseteq todo[h]
    BY <1>0, <1>4 DEF NextContact, At, Goto, run, Others, HandlersType
  <2>3. QED
    BY <2>1, <2>2, WalkCounted, SameDelivering DEF Looping
<1>5. CASE FindConversation(h)
  <2>1. UNCHANGED received /\ n' = n /\ job' = job /\ todo' = todo
    BY <1>5 DEF FindConversation, outside, loop
  <2>2. Others(h) /\ pc'[h] \in {"create", "send"}
    BY <1>0, <1>5 DEF FindConversation, Goto, run, loop, Others, HandlersType
  <2>3. QED
    BY <2>1, <2>2, WalkCounted, SameDelivering DEF Looping
<1>6. CASE CreateConversation(h)
  <2>1. UNCHANGED received
    BY <1>6 DEF CreateConversation
  <2>2. CASE Throw(h)
    BY <1>1, <2>1, <2>2
  <2>3. CASE Goto(h, "send") /\ UNCHANGED <<job, run, loop>>
    <3>1. Others(h) /\ pc'[h] = "send"
      BY <1>0, <2>3, GotoType DEF PCs
    <3>2. UNCHANGED <<job, todo, n>>
      BY <2>3 DEF loop
    <3>3. QED
      BY <2>1, <3>1, <3>2, WalkCounted, SameDelivering DEF Looping
  <2>4. QED
    BY <1>6, <2>2, <2>3 DEF CreateConversation
<1>7. CASE Send(h)
  BY <1>7, SendCounted
<1>8. CASE Record(h)
  BY <1>8, RecordCounted, SameDelivering DEF Record, outside
<1>9. CASE Finish(h)
  BY <1>0, <1>9, LeaveOut, OutCounted, SameDelivering DEF Finish, outside
<1>10. QED
  BY <1>2, <1>3, <1>4, <1>5, <1>6, <1>7, <1>8, <1>9 DEF Execute

LEMMA RejectCounted ==
  ASSUME Typed, Typed', Tally, NEW h \in Handlers, Reject(h)
  PROVE  Tally' /\ Delivering
<1>0. HandlersType /\ UNCHANGED received
  BY DEF Typed, Reject, outside
<1>1. CASE Done(h) /\ UNCHANGED <<job, run, channel, to, n>>
  <2>1. Others(h) /\ pc'[h] = "next" /\ todo'[h] = todo[h] \ {to[h]} /\ job' = job /\ n' = n
    BY <1>0, <1>1, DoneType
  <2>2. QED
    BY <1>0, <2>1, WalkCounted, SameDelivering DEF Looping
<1>2. CASE Leave(h) \/ Throw(h)
  BY <1>0, <1>2, LeaveOut, ThrowOut, OutCounted, SameDelivering
<1>3. QED
  BY <1>1, <1>2 DEF Reject

LEMMA NextCounted ==
  ASSUME Typed, Typed', Trying, Tally, [Next]_vars
  PROVE  Tally' /\ Delivering
<1>0. HandlersType
  BY DEF Typed
<1>1. ASSUME UNCHANGED <<received, pc, job, run, loop>> PROVE Tally' /\ Delivering
  <2>1. UNCHANGED <<pc, job, todo, to, n>>
    BY <1>1 DEF loop
  <2>2. QED
    BY <1>1, <2>1, StillCounted, SameDelivering DEF Tally
<1>2. ASSUME NEW h \in Handlers, Park(h) \/ CancelWrite(h) PROVE Tally' /\ Delivering
  BY <1>0, <1>2, LeaveOut, OutCounted, SameDelivering DEF Park, CancelWrite, outside
<1>3. ASSUME NEW h \in Handlers, At(h, "idle"), UNCHANGED <<received, loop>>,
             Others(h), pc'[h] \in {"read", "cancel"}
      PROVE  Tally' /\ Delivering
  <2>1. n'[h] = 0
    BY <1>3 DEF Tally, Counted, Looping, loop, At
  <2>2. QED
    BY <1>3, <2>1, NothingCounted, OthersCounted, SameDelivering
<1>4. ASSUME NEW h \in Handlers, CronFetch(h) PROVE Tally' /\ Delivering
  <2>1. Others(h) /\ pc'[h] = "read" /\ UNCHANGED <<received, loop>> /\ At(h, "idle")
    BY <1>0, <1>4 DEF CronFetch, Goto, Others, HandlersType, loop, outside
  <2>2. QED
    BY <1>3, <2>1
<1>5. ASSUME NEW h \in Handlers, NEW b \in Broadcasts, Ask(h, b) PROVE Tally' /\ Delivering
  <2>1. CASE Create(h, b) \/ Schedule(h, b)
    BY <1>1, <2>1 DEF Create, Schedule, outside
  <2>2. CASE AskExecute(h, b) \/ AskCancel(h, b)
    <3>1. /\ Others(h) /\ pc'[h] \in {"read", "cancel"} /\ At(h, "idle")
          /\ UNCHANGED <<received, loop>>
      BY <1>0, <2>2 DEF AskExecute, AskCancel, Goto, Others, HandlersType, run, loop, outside
    <3>2. QED
      BY <1>3, <3>1
  <2>3. QED
    BY <1>5, <2>1, <2>2 DEF Ask
<1>6. CASE Crash
  <2>1. UNCHANGED received /\ \A h \in Handlers : pc'[h] = "idle" /\ n'[h] = 0
    BY <1>6 DEF Crash, outside, Everyone
  <2>2. QED
    BY <2>1, NothingCounted, SameDelivering DEF Tally
<1>7. CASE \/ \E b \in Broadcasts : Elapse(b)
           \/ \E c \in Contacts : ContactWrites(c)
           \/ RemoveChannel \/ ConnectChannel \/ UNCHANGED vars
  BY <1>1, <1>7 DEF Elapse, ContactWrites, RemoveChannel, ConnectChannel, vars, outside
<1>8. QED
  BY <1>2, <1>4, <1>5, <1>6, <1>7, ExecuteCounted, RejectCounted DEF Next, Handle

LEMMA GotItSize ==
  ASSUME NEW b
  PROVE  /\ IsFiniteSet(GotIt(b)) /\ Cardinality(GotIt(b)) \in Nat
         /\ GotIt(b)' \subseteq Contacts /\ IsFiniteSet(GotIt(b)') /\ Cardinality(GotIt(b)') \in Nat
  BY ContactsFinite DEF GotIt

\* sentCount is only written at the end of a run.
LEMMA SentCountWritten ==
  ASSUME Typed, [Next]_vars
  PROVE  sentCount' = sentCount \/ \E h \in Handlers : Finish(h)
<1>1. ASSUME NEW h \in Handlers, Handle(h)
      PROVE  sentCount' = sentCount \/ Finish(h)
  BY <1>1 DEF Handle, Execute, ReadStatus, CheckChannel, MarkSending, ReadAudience, NextContact,
              FindConversation, CreateConversation, Send, Record, Park, CancelWrite, rows
<1>2. ASSUME NEW h \in Handlers, NEW b \in Broadcasts, Ask(h, b)
      PROVE  sentCount' = sentCount
  BY <1>2 DEF Ask, Create, Schedule, AskExecute, AskCancel, rows
<1>3. QED
  BY <1>1, <1>2 DEF Next, CronFetch, Reject, Elapse, ContactWrites, RemoveChannel, ConnectChannel,
                    Crash, vars, rows

LEMMA NextHonest ==
  ASSUME Typed, Typed', Tally, Delivering, SentCountHonest, [Next]_vars
  PROVE  SentCountHonest'
<1> SUFFICES ASSUME NEW b \in Broadcasts PROVE sentCount'[b] <= Cardinality(GotIt(b)')
  BY DEF SentCountHonest
<1>1. sentCount[b] \in Nat /\ sentCount[b] <= Cardinality(GotIt(b))
  BY DEF SentCountHonest, Typed, RowsType
<1>2. GotIt(b) \subseteq GotIt(b)'
  BY DEF GotIt, Delivering, Typed, WorldType
<1>3. Cardinality(GotIt(b)) <= Cardinality(GotIt(b)')
  BY <1>2, GotItSize, FS_Subset
<1>4. CASE sentCount' = sentCount
  BY <1>1, <1>3, <1>4, GotItSize
<1>5. ASSUME NEW h \in Handlers, Finish(h), job[h] = b
      PROVE  sentCount'[b] <= Cardinality(GotIt(b)')
  <2>1. sentCount'[b] = n[h] /\ n[h] \in Nat
    BY <1>5 DEF Finish, Typed, RowsType, HandlersType
  <2>2. n[h] <= Cardinality(Through(h))
    BY DEF Tally, Counted
  <2>3. Through(h) \subseteq GotIt(b)
    BY <1>5 DEF Through, GotIt
  <2>4. Cardinality(Through(h)) <= Cardinality(GotIt(b))
    BY <2>3, GotItSize, FS_Subset
  <2>5. QED
    BY <1>3, <2>1, <2>2, <2>4, GotItSize, ThroughSize
<1>6. ASSUME NEW h \in Handlers, Finish(h), job[h] # b
      PROVE  sentCount'[b] = sentCount[b]
  BY <1>6 DEF Finish, Typed, RowsType
<1>7. QED
  BY <1>1, <1>3, <1>4, <1>5, <1>6, SentCountWritten, GotItSize

LEMMA InitCounted == Init => Tally /\ SentCountHonest
<1> SUFFICES ASSUME Init PROVE Tally /\ SentCountHonest
  OBVIOUS
<1>1. \A h \in Handlers : n[h] = 0 /\ pc[h] = "idle"
  BY DEF Init, Everyone
<1>2. Tally
  BY <1>1, ThroughSize DEF Tally, Counted
<1>3. QED
  BY <1>2, GotItSize DEF Init, SentCountHonest

\* sentCount, the number the owner reads as "sent to", is never more than the customers who have the broadcast,
\* whatever failed, was repeated or removed meanwhile, and however many runs wrote it (broadcasts.service.ts,
\* execute).
THEOREM CountIsHonest == Spec => []SentCountHonest
<1>1. Init => Typed /\ Budget /\ Trying /\ Tally /\ SentCountHonest
  BY InitType, InitPays, InitCounted, TypeParts
<1>2. Typed /\ Budget /\ Trying /\ Tally /\ SentCountHonest /\ [Next]_vars
        => (Typed /\ Budget /\ Trying /\ Tally /\ SentCountHonest)'
  BY NextType, NextPays, NextCounted, NextHonest
<1>3. QED
  BY <1>1, <1>2, PTL DEF Spec

-----------------------------------------------------------------------------
(* Not stuck.  While no call fails, the process lives, the channel stays and *)
(* every contact has a conversation, a run that wrote SENDING has no way out *)
(* but the last write.  Each of these three is needed: the runs that allow   *)
(* faults and removals find a broadcast left as SENDING.                     *)

Smooth == MaxFaults = 0 /\ MaxRemovals = 0 /\ Known = Contacts

Calm ==
    /\ faults = 0 /\ link = 1 /\ connected # "removed" /\ conv = Contacts
    /\ \A h \in Handlers :
          /\ pc[h] # "create"
          /\ channel[h] \in {Unread, None, link}
          /\ pc[h] \in {"find", "send", "record"} => channel[h] = link

SendingPCs == {"audience", "next", "find", "create", "send", "record", "finish"}

\* The world stays as it is.
LEMMA WorldCalm ==
  ASSUME Smooth, Typed, Calm, [Next]_vars
  PROVE  /\ faults' = 0 /\ link' = 1 /\ connected' # "removed" /\ conv' = Contacts
         /\ ~RemoveChannel /\ ~Crash /\ \A h \in Handlers : ~Reject(h)
<1>1. ~RemoveChannel /\ ~ConnectChannel /\ ~Crash /\ \A h \in Handlers : ~Reject(h)
  BY DEF Smooth, Calm, RemoveChannel, ConnectChannel, Crash, Reject
<1>2. ASSUME UNCHANGED <<tenant, conv, faults>>
      PROVE  faults' = 0 /\ link' = 1 /\ connected' # "removed" /\ conv' = Contacts
  BY <1>2 DEF tenant, Calm
<1>3. ASSUME NEW h \in Handlers, Handle(h)
      PROVE  faults' = 0 /\ link' = 1 /\ connected' # "removed" /\ conv' = Contacts
  <2>1. CASE ReadStatus(h) \/ CheckChannel(h) \/ MarkSending(h) \/ ReadAudience(h) \/ NextContact(h)
             \/ FindConversation(h) \/ Record(h) \/ Finish(h) \/ Park(h) \/ CancelWrite(h)
    BY <1>2, <2>1 DEF ReadStatus, CheckChannel, MarkSending, ReadAudience, NextContact,
                      FindConversation, Record, Finish, Park, CancelWrite, outside, counts
  <2>2. CASE CreateConversation(h)
    BY <2>2 DEF CreateConversation, Calm, At
  <2>3. CASE Send(h)
    BY <2>3 DEF Send, Calm, counts
  <2>4. QED
    BY <1>3, <2>1, <2>2, <2>3 DEF Handle, Execute
<1>4. ASSUME NEW h \in Handlers, CronFetch(h) \/ \E b \in Broadcasts : Ask(h, b)
      PROVE  faults' = 0 /\ link' = 1 /\ connected' # "removed" /\ conv' = Contacts
  BY <1>2, <1>4 DEF CronFetch, Ask, Create, Schedule, AskExecute, AskCancel, outside, counts
<1>5. CASE (\E b \in Broadcasts : Elapse(b)) \/ UNCHANGED vars
  <2>1. UNCHANGED outside /\ UNCHANGED counts
    BY <1>5 DEF Elapse, vars
  <2>2. QED
    BY <1>1, <1>2, <2>1 DEF outside, counts
<1>6. ~ \E c \in Contacts : ContactWrites(c)
  BY DEF ContactWrites, Calm
<1>7. QED
  BY <1>1, <1>3, <1>4, <1>5, <1>6 DEF Next

\* What a step of one handler does to the others' part of Calm: nothing.
LEMMA OthersCalm ==
  ASSUME Calm, NEW h \in Handlers, Others(h), link' = 1, faults' = 0, connected' # "removed",
         conv' = Contacts, pc'[h] # "create", channel'[h] \in {Unread, None, link'},
         pc'[h] \in {"find", "send", "record"} => channel'[h] = link'
  PROVE  Calm'
  BY DEF Calm, Others

\* A run in the loop stays in it, or has found its audience done.
LEMMA LoopCalm ==
  ASSUME Smooth, Typed, Calm, [Next]_vars, NEW h \in Handlers, Execute(h), pc[h] \in SendingPCs \ {"finish"}
  PROVE  Calm' /\ Others(h) /\ pc'[h] \in SendingPCs /\ job' = job /\ status' = status
<1>0. HandlersType /\ link' = 1 /\ faults' = 0 /\ connected' # "removed" /\ conv' = Contacts /\ link = 1
  BY WorldCalm DEF Typed, Calm
<1>1. CASE ReadAudience(h)
  <2>1. /\ Others(h) /\ pc'[h] = "next" /\ job' = job /\ status' = status /\ channel' = channel
    BY <1>0, <1>1 DEF ReadAudience, Goto, run, Others, HandlersType, rows
  <2>2. QED
    BY <1>0, <2>1, OthersCalm DEF Calm, SendingPCs
<1>2. CASE NextContact(h)
  <2>1. /\ Others(h) /\ pc'[h] \in {"next", "find", "finish"} /\ job' = job /\ status' = status
    BY <1>0, <1>2 DEF NextContact, At, Goto, run, Others, HandlersType, rows
  <2>2. channel'[h] \in {Unread, None, link} /\ (pc'[h] = "find" => channel'[h] = link)
    BY <1>0, <1>2 DEF NextContact, At, Goto, HandlersType, Calm, Unread, None
  <2>3. QED
    BY <1>0, <2>1, <2>2, OthersCalm DEF SendingPCs
<1>3. CASE FindConversation(h)
  <2>1. Stands(h) /\ to[h] \in conv
    BY <1>3 DEF FindConversation, At, Calm, Stands, Typed, HandlersType
  <2>2. Others(h) /\ pc'[h] = "send" /\ job' = job /\ status' = status /\ channel' = channel
    BY <1>0, <1>3, <2>1 DEF FindConversation, Goto, run, loop, Others, HandlersType, rows
  <2>3. channel[h] = link
    BY <1>3 DEF FindConversation, At, Calm
  <2>4. QED
    BY <1>0, <2>2, <2>3, OthersCalm DEF SendingPCs
<1>4. CASE Send(h)
  <2>1. /\ Others(h) /\ pc'[h] \in {"record", "next"} /\ job' = job /\ status' = status
        /\ channel' = channel /\ pc[h] = "send"
    BY <1>0, <1>4 DEF Send, At, Goto, Done, run, Others, HandlersType, rows
  <2>2. QED
    BY <1>0, <2>1, OthersCalm DEF Calm, SendingPCs
<1>5. CASE Record(h)
  <2>1. /\ Others(h) /\ pc'[h] = "next" /\ job' = job /\ status' = status /\ channel' = channel
    BY <1>0, <1>5 DEF Record, Goto, Done, run, Others, HandlersType, rows
  <2>2. QED
    BY <1>0, <2>1, OthersCalm DEF Calm, SendingPCs
<1>6. pc[h] # "create"
  BY DEF Calm
<1>7. QED
  BY <1>1, <1>2, <1>3, <1>4, <1>5, <1>6
  DEF Execute, ReadStatus, CheckChannel, MarkSending, CreateConversation, Finish, At, SendingPCs

\* A step of one handler from outside the loop.
LEMMA OutsideCalm ==
  ASSUME Calm, NEW h \in Handlers, Others(h), link' = 1, faults' = 0, connected' # "removed",
         conv' = Contacts, pc'[h] \in PCs \ {"find", "create", "send", "record"},
         channel'[h] \in {Unread, channel[h]}
  PROVE  Calm'
  BY OthersCalm DEF Calm

\* A step from outside the loop ends outside it, or at the mark, which writes SENDING; Finish and the writes that
\* leave a broadcast in another status are the only ways out.
LEMMA EnterCalm ==
  ASSUME Smooth, Typed, Calm, [Next]_vars, NEW h \in Handlers,
         \/ ReadStatus(h) \/ CheckChannel(h) \/ MarkSending(h) \/ Finish(h) \/ Park(h) \/ CancelWrite(h)
         \/ CronFetch(h) \/ \E b \in Broadcasts : Ask(h, b)
  PROVE  Calm' /\ Others(h)
<1>0. HandlersType /\ link' = 1 /\ faults' = 0 /\ connected' # "removed" /\ conv' = Contacts
  BY WorldCalm DEF Typed
<1>1. ASSUME Out(h) PROVE Calm' /\ Others(h)
  BY <1>0, <1>1, OutsideCalm DEF Out, PCs
<1>2. CASE ReadStatus(h) \/ CheckChannel(h)
  <2>1. CASE Throw(h)
    BY <1>0, <1>1, <2>1, ThrowOut
  <2>2. CASE (Goto(h, "check") \/ Goto(h, "mark")) /\ UNCHANGED <<job, run, loop>>
    <3>1. Others(h) /\ pc'[h] \in {"check", "mark"} /\ channel' = channel
      BY <1>0, <2>2, GotoType DEF PCs, loop
    <3>2. QED
      BY <1>0, <3>1, OutsideCalm DEF PCs
  <2>3. QED
    BY <1>2, <2>1, <2>2 DEF ReadStatus, CheckChannel
<1>3. CASE MarkSending(h)
  <2>1. Others(h) /\ pc'[h] = "audience" /\ channel' = channel
    BY <1>0, <1>3, GotoType DEF MarkSending, PCs, loop
  <2>2. QED
    BY <1>0, <2>1, OutsideCalm DEF PCs
<1>4. CASE Finish(h) \/ Park(h) \/ CancelWrite(h)
  BY <1>0, <1>1, <1>4, LeaveOut DEF Finish, Park, CancelWrite
<1>5. CASE CronFetch(h) \/ \E b \in Broadcasts : Ask(h, b)
  <2>1. Others(h) /\ pc'[h] \in {"idle", "read", "cancel"} /\ channel' = channel
    BY <1>0, <1>5 DEF CronFetch, Ask, Create, Schedule, AskExecute, AskCancel, At, Goto, run, loop,
                      Others, HandlersType
  <2>2. QED
    BY <1>0, <2>1, OutsideCalm DEF PCs
<1>6. QED
  BY <1>2, <1>3, <1>4, <1>5

LEMMA NextCalm ==
  ASSUME Smooth, Typed, Calm, [Next]_vars
  PROVE  Calm'
<1>0. /\ faults' = 0 /\ link' = 1 /\ connected' # "removed" /\ conv' = Contacts
      /\ ~RemoveChannel /\ ~Crash /\ \A h \in Handlers : ~Reject(h)
  BY WorldCalm
<1>1. ASSUME NEW h \in Handlers, Handle(h) \/ CronFetch(h) \/ \E b \in Broadcasts : Ask(h, b)
      PROVE  Calm'
  <2>1. CASE Execute(h) /\ pc[h] \in SendingPCs \ {"finish"}
    BY <2>1, LoopCalm
  <2>2. CASE ~(Execute(h) /\ pc[h] \in SendingPCs \ {"finish"})
    <3>1. Execute(h) => ReadStatus(h) \/ CheckChannel(h) \/ MarkSending(h) \/ Finish(h)
      BY <2>2 DEF Execute, ReadAudience, NextContact, FindConversation, CreateConversation, Send, Record,
                  At, SendingPCs
    <3>2. QED
      BY <1>1, <3>1, EnterCalm DEF Handle
  <2>3. QED
    BY <2>1, <2>2
<1>2. ASSUME UNCHANGED <<pc, loop>> PROVE Calm'
  BY <1>0, <1>2 DEF Calm, loop
<1>3. CASE \/ \E b \in Broadcasts : Elapse(b)
           \/ \E c \in Contacts : ContactWrites(c)
           \/ ConnectChannel \/ UNCHANGED vars
  BY <1>2, <1>3 DEF Elapse, ContactWrites, ConnectChannel, vars
<1>4. QED
  BY <1>0, <1>1, <1>3 DEF Next

\* A broadcast becomes SENDING only by a mark, and a run leaves the loop only by a last write.
LEMMA NextStuck ==
  ASSUME Smooth, Typed, Calm, NeverStuck, [Next]_vars
  PROVE  NeverStuck'
<1> SUFFICES ASSUME NEW b \in Broadcasts, status'[b] = "SENDING"
             PROVE  \E h \in Handlers : Sending(h, b)'
  BY DEF NeverStuck
<1>0. HandlersType /\ ~RemoveChannel /\ ~Crash /\ \A h \in Handlers : ~Reject(h)
  BY WorldCalm DEF Typed
<1> DEFINE Sends(g) == pc[g] \in SendingPCs /\ job[g] = b
           Sends2(g) == pc'[g] \in SendingPCs /\ job'[g] = b
<1>1. SUFFICES \E g \in Handlers : Sends2(g)
  BY DEF Sending, SendingPCs
<1>2. status[b] = "SENDING" => \E g \in Handlers : Sends(g)
  BY DEF NeverStuck, Sending, SendingPCs
<1>3. ASSUME UNCHANGED <<pc, job>>, status'[b] \in {status[b], "DRAFT", "SCHEDULED"}
      PROVE  \E g \in Handlers : Sends2(g)
  BY <1>2, <1>3
<1>4. ASSUME NEW h \in Handlers, MarkSending(h) PROVE \E g \in Handlers : Sends2(g)
  <2>1. Others(h) /\ pc'[h] = "audience" /\ job'[h] = job[h]
    BY <1>0, <1>4, GotoType DEF MarkSending, PCs
  <2>2. CASE job[h] = b
    BY <2>1, <2>2 DEF SendingPCs
  <2>3. CASE job[h] # b
    <3>1. status'[b] = status[b]
      BY <1>4, <2>3 DEF MarkSending, SetStatus, Typed, RowsType
    <3>2. PICK g \in Handlers : Sends(g)
      BY <1>2, <3>1
    <3>3. g # h
      BY <2>3, <3>2
    <3>4. QED
      BY <2>1, <3>2, <3>3 DEF Others
  <2>4. QED
    BY <2>2, <2>3
<1>5. ASSUME NEW h \in Handlers, Finish(h) PROVE \E g \in Handlers : Sends2(g)
  <2>1. status'[b] = status[b] /\ job[h] # b
    BY <1>5 DEF Finish, SetStatus, Typed, RowsType, HandlersType
  <2>2. PICK g \in Handlers : Sends(g)
    BY <1>2, <2>1
  <2>3. g # h /\ Others(h)
    BY <1>0, <1>5, <2>1, <2>2, LeaveOut DEF Finish, Out
  <2>4. QED
    BY <2>2, <2>3 DEF Others
<1>6. ASSUME NEW h \in Handlers, Execute(h), pc[h] \in SendingPCs \ {"finish"}
      PROVE  \E g \in Handlers : Sends2(g)
  <2>1. Others(h) /\ pc'[h] \in SendingPCs /\ job' = job /\ status' = status
    BY <1>6, LoopCalm
  <2>2. PICK g \in Handlers : Sends(g)
    BY <1>2, <2>1
  <2>3. QED
    <3>1. CASE g = h
      BY <2>1, <2>2, <3>1
    <3>2. CASE g # h
      BY <2>1, <2>2, <3>2 DEF Others
    <3>3. QED
      BY <3>1, <3>2
<1>7. ASSUME NEW h \in Handlers, pc[h] \notin SendingPCs,
             \/ ReadStatus(h) \/ CheckChannel(h) \/ Park(h) \/ CancelWrite(h)
             \/ CronFetch(h) \/ \E c \in Broadcasts : Ask(h, c)
      PROVE  \E g \in Handlers : Sends2(g)
  <2>1. Others(h)
    BY <1>7, EnterCalm
  <2>2. status'[b] = status[b]
    <3>1. CASE ReadStatus(h) \/ CheckChannel(h) \/ CronFetch(h)
      BY <3>1 DEF ReadStatus, CheckChannel, CronFetch, rows
    <3>2. CASE Park(h) \/ CancelWrite(h)
      BY <3>2 DEF Park, CancelWrite, SetStatus, Typed, RowsType
    <3>3. CASE \E c \in Broadcasts : Ask(h, c)
      BY <3>3 DEF Ask, Create, Schedule, AskExecute, AskCancel, Typed, RowsType, rows
    <3>4. QED
      BY <1>7, <3>1, <3>2, <3>3
  <2>3. PICK g \in Handlers : Sends(g)
    BY <1>2, <2>2
  <2>4. g # h
    BY <1>7, <2>3
  <2>5. QED
    BY <2>1, <2>3, <2>4 DEF Others
<1>8. CASE \/ \E c \in Broadcasts : Elapse(c)
           \/ \E c \in Contacts : ContactWrites(c)
           \/ ConnectChannel \/ UNCHANGED vars
  BY <1>3, <1>8 DEF Elapse, ContactWrites, ConnectChannel, vars, rows
<1>9. ASSUME NEW h \in Handlers, Handle(h) \/ CronFetch(h) \/ \E c \in Broadcasts : Ask(h, c)
      PROVE  \E g \in Handlers : Sends2(g)
  <2>1. \/ MarkSending(h) \/ Finish(h)
        \/ Execute(h) /\ pc[h] \in SendingPCs \ {"finish"}
        \/ /\ pc[h] \notin SendingPCs
           /\ \/ ReadStatus(h) \/ CheckChannel(h) \/ Park(h) \/ CancelWrite(h)
              \/ CronFetch(h) \/ \E c \in Broadcasts : Ask(h, c)
    BY <1>9 DEF Handle, Execute, Ask, Create, Schedule, AskExecute, AskCancel, CronFetch, Park,
                CancelWrite, ReadStatus, CheckChannel, ReadAudience, NextContact, FindConversation,
                CreateConversation, Send, Record, At, SendingPCs
  <2>2. QED
    BY <1>4, <1>5, <1>6, <1>7, <2>1
<1>10. QED
  BY <1>0, <1>8, <1>9 DEF Next

LEMMA InitCalm == ASSUME Smooth PROVE Init => Calm /\ NeverStuck
  BY DEF Smooth, Init, Calm, NeverStuck, Everyone, Unread, None

\* "a failed broadcast never gets stuck mid-state" holds where nothing fails: while no database call is rejected,
\* the process lives, the channel is not removed and the contacts have their conversations, every broadcast shown
\* as SENDING has a run that is sending it, however the cron's runs and the owner's requests overlap
\* (broadcasts.service.ts).
THEOREM NotLeftSending ==
  ASSUME MaxFaults = 0, MaxRemovals = 0, Known = Contacts
  PROVE  Spec => []NeverStuck
<1>0. Smooth
  BY DEF Smooth
<1>1. Init => Typed /\ Calm /\ NeverStuck
  BY <1>0, InitType, InitCalm, TypeParts
<1>2. Typed /\ Calm /\ NeverStuck /\ [Next]_vars => (Typed /\ Calm /\ NeverStuck)'
  BY <1>0, NextType, NextCalm, NextStuck
<1>3. QED
  BY <1>1, <1>2, PTL DEF Spec

-----------------------------------------------------------------------------
(* BroadcastsService keeps what Campaign promises, for every set of           *)
(* broadcasts, segments and contacts and any number of removals of the        *)
(* channel, while runs do not overlap and no call fails.                      *)

\* One handler, that is the cron and the owner's requests in turn.
Solo(a) == Handlers = {a} /\ MaxFaults = 0

SendingNow(a) == pc[a] \in SendingPCs

\* The order in which execute() goes through a broadcast, seen from the row.
SerialInv(a) ==
    /\ pc[a] = "idle" => ~cron[a]
    /\ ~cron[a] => batch[a] = {}
    /\ \A b \in batch[a] : status[b] = "SCHEDULED" /\ b # job[a]
    /\ pc[a] = "read" => status[job[a]] # "none" /\ (cron[a] => status[job[a]] = "SCHEDULED")
    /\ pc[a] \in {"check", "mark"} => /\ status[job[a]] \in {"DRAFT", "SCHEDULED"}
                                      /\ cron[a] => status[job[a]] = "SCHEDULED"
    /\ pc[a] = "park" => status[job[a]] \in {"SCHEDULED", "SENDING"}
    /\ pc[a] = "cancel" => status[job[a]] \in {"DRAFT", "SCHEDULED", "SENDING"}
    /\ SendingNow(a) => status[job[a]] = "SENDING"
    /\ pc[a] \in {"find", "create", "send", "record"} => to[a] \in todo[a]
    /\ pc[a] = "finish" => todo[a] = {}

-----------------------------------------------------------------------------
(* What Campaign sees of the one handler.                                   *)

LEMMA Seen ==
  ASSUME NEW a, Solo(a)
  PROVE  /\ LeftToTry = [b \in Broadcasts |-> IF SendingNow(a) /\ job[a] = b THEN Remaining(a) ELSE {}]
         /\ GivenUp = [b \in Broadcasts |-> status[b] = "SENDING" /\ ~(SendingNow(a) /\ job[a] = b)]
<1>1. ASSUME NEW b \in Broadcasts
      PROVE  /\ UNION {Remaining(h) : h \in {g \in Handlers : Sending(g, b)}}
                  = IF SendingNow(a) /\ job[a] = b THEN Remaining(a) ELSE {}
             /\ (\A h \in Handlers : ~Sending(h, b)) <=> ~(SendingNow(a) /\ job[a] = b)
  <2>1. \A g \in Handlers : g = a
    BY DEF Solo
  <2>2. a \in Handlers
    BY DEF Solo
  <2>3. Sending(a, b) <=> SendingNow(a) /\ job[a] = b
    BY DEF Sending, SendingNow, SendingPCs
  <2>4. QED
    BY <2>1, <2>2, <2>3
<1>2. QED
  BY <1>1 DEF LeftToTry, GivenUp

LEMMA SeenPrime ==
  ASSUME NEW a, Solo(a)
  PROVE  /\ LeftToTry' = [b \in Broadcasts |-> IF SendingNow(a)' /\ job'[a] = b THEN Remaining(a)' ELSE {}]
         /\ GivenUp' = [b \in Broadcasts |-> status'[b] = "SENDING" /\ ~(SendingNow(a)' /\ job'[a] = b)]
<1>1. ASSUME NEW b \in Broadcasts
      PROVE  /\ UNION {Remaining(h)' : h \in {g \in Handlers : Sending(g, b)'}}
                  = IF SendingNow(a)' /\ job'[a] = b THEN Remaining(a)' ELSE {}
             /\ (\A h \in Handlers : ~Sending(h, b)') <=> ~(SendingNow(a)' /\ job'[a] = b)
  <2>1. \A g \in Handlers : g = a
    BY DEF Solo
  <2>2. a \in Handlers
    BY DEF Solo
  <2>3. Sending(a, b)' <=> SendingNow(a)' /\ job'[a] = b
    BY DEF Sending, SendingNow, SendingPCs
  <2>4. QED
    BY <2>1, <2>2, <2>3
<1>2. QED
  BY <1>1 DEF LeftToTry, GivenUp

LEMMA GivenUpAt ==
  ASSUME NEW a, Solo(a), NEW b \in Broadcasts, ~SendingNow(a), status[b] = "SENDING"
  PROVE  GivenUp[b]
<1> DEFINE Is(c) == status[c] = "SENDING" /\ ~(SendingNow(a) /\ job[a] = c)
<1>1. GivenUp = [c \in Broadcasts |-> Is(c)]
  BY Seen
<1>2. Is(b) = TRUE
  OBVIOUS
<1> HIDE DEF Is
<1>3. QED
  BY <1>1, <1>2

\* A step the owner does not see.
Unseen == UNCHANGED <<status, received, LeftToTry, GivenUp>>

LEMMA UnseenStep == Unseen => UNCHANGED Promise!vars
  BY DEF Unseen, Promise!vars

\* Outside the loop, a status is written.
LEMMA Written ==
  ASSUME NEW a, Solo(a), Typed, ~SendingNow(a), ~SendingNow(a)', NEW b \in Broadcasts, NEW s,
         s # "SENDING", status' = [status EXCEPT ![b] = s], received' = received
  PROVE  Promise!Become(b, s)
<1>1. LeftToTry' = LeftToTry
  BY Seen, SeenPrime
<1>2. GivenUp' = [GivenUp EXCEPT ![b] = FALSE]
  <2> DEFINE Was(c) == status[c] = "SENDING" /\ ~(SendingNow(a) /\ job[a] = c)
             Is(c)  == status'[c] = "SENDING" /\ ~(SendingNow(a)' /\ job'[a] = c)
  <2>1. \A c \in Broadcasts : Is(c) = IF c = b THEN FALSE ELSE Was(c)
    BY DEF Typed, RowsType
  <2>2. GivenUp = [c \in Broadcasts |-> Was(c)] /\ GivenUp' = [c \in Broadcasts |-> Is(c)]
    BY Seen, SeenPrime
  <2> HIDE DEF Was, Is
  <2>3. [GivenUp EXCEPT ![b] = FALSE] = [c \in Broadcasts |-> IF c = b THEN FALSE ELSE Was(c)]
    BY <2>2
  <2>4. QED
    BY <2>1, <2>2, <2>3
<1>3. QED
  BY <1>1, <1>2 DEF Promise!Become

\* Outside the loop, nothing is written.
LEMMA Wandering ==
  ASSUME NEW a, Solo(a), ~SendingNow(a), ~SendingNow(a)', status' = status, received' = received
  PROVE  Unseen
  BY Seen, SeenPrime DEF Unseen

\* In the loop, between contacts.
LEMMA Walking ==
  ASSUME NEW a, Solo(a), SendingNow(a), SendingNow(a)', job'[a] = job[a], Remaining(a)' = Remaining(a),
         status' = status, received' = received
  PROVE  Unseen
<1>1. LeftToTry = [b \in Broadcasts |-> IF SendingNow(a) /\ job[a] = b THEN Remaining(a) ELSE {}]
      /\ LeftToTry' = [b \in Broadcasts |-> IF SendingNow(a)' /\ job'[a] = b THEN Remaining(a)' ELSE {}]
  BY Seen, SeenPrime
<1>2. GivenUp = [b \in Broadcasts |-> status[b] = "SENDING" /\ ~(SendingNow(a) /\ job[a] = b)]
      /\ GivenUp' = [b \in Broadcasts |-> status'[b] = "SENDING" /\ ~(SendingNow(a)' /\ job'[a] = b)]
  BY Seen, SeenPrime
<1>3. LeftToTry' = LeftToTry
  BY <1>1
<1>4. GivenUp' = GivenUp
  BY <1>2
<1>5. QED
  BY <1>3, <1>4 DEF Unseen

\* In the loop, a contact is tried.
LEMMA Tried ==
  ASSUME NEW a, Solo(a), Typed, SerialInv(a), SendingNow(a), SendingNow(a)', job'[a] = job[a],
         NEW c \in Remaining(a), Remaining(a)' = Remaining(a) \ {c}, c \in Contacts, status' = status,
         received' = received \/ received' = [received EXCEPT ![job[a]][c] = @ + 1]
  PROVE  Promise!Next
<1>1. job[a] \in Broadcasts
  BY DEF Typed, HandlersType, Solo
<1>2. status[job[a]] = "SENDING"
  BY DEF SerialInv
<1>3. c \in LeftToTry[job[a]]
  BY <1>1, Seen
<1>4. LeftToTry' = [LeftToTry EXCEPT ![job[a]] = @ \ {c}]
  <2>1. LeftToTry = [b \in Broadcasts |-> IF job[a] = b THEN Remaining(a) ELSE {}]
    BY Seen
  <2>2. LeftToTry' = [b \in Broadcasts |-> IF job[a] = b THEN Remaining(a) \ {c} ELSE {}]
    BY SeenPrime
  <2>3. QED
    BY <1>1, <2>1, <2>2
<1>5. GivenUp' = GivenUp
  BY Seen, SeenPrime
<1>6. Promise!Try(job[a], c)
  BY <1>2, <1>3, <1>4, <1>5 DEF Promise!Try
<1>7. QED
  BY <1>1, <1>6 DEF Promise!Next

\* The channel was lost under the run: those left are not tried.
LEMMA Lost ==
  ASSUME NEW a, Solo(a), Typed, SerialInv(a), SendingNow(a), ~SendingNow(a)', status' = status,
         received' = received
  PROVE  Promise!Next
<1>1. job[a] \in Broadcasts /\ status[job[a]] = "SENDING"
  BY DEF Typed, HandlersType, Solo, SerialInv
<1>2. LeftToTry' = [LeftToTry EXCEPT ![job[a]] = {}]
  <2>1. LeftToTry = [b \in Broadcasts |-> IF job[a] = b THEN Remaining(a) ELSE {}]
    BY Seen
  <2>2. LeftToTry' = [b \in Broadcasts |-> {}]
    BY SeenPrime
  <2>3. QED
    BY <1>1, <2>1, <2>2
<1>3. GivenUp' = [GivenUp EXCEPT ![job[a]] = TRUE]
  <2> DEFINE Is(b) == status[b] = "SENDING"
  <2>1. GivenUp = [b \in Broadcasts |-> Is(b) /\ ~(job[a] = b)]
    BY Seen
  <2>2. GivenUp' = [b \in Broadcasts |-> Is(b)]
    BY SeenPrime
  <2>3. \A b \in Broadcasts : (IF b = job[a] THEN TRUE ELSE Is(b) /\ ~(job[a] = b)) = Is(b)
    BY <1>1
  <2> HIDE DEF Is
  <2>4. [GivenUp EXCEPT ![job[a]] = TRUE]
          = [b \in Broadcasts |-> IF b = job[a] THEN TRUE ELSE Is(b) /\ ~(job[a] = b)]
    BY <2>1
  <2>5. QED
    BY <2>2, <2>3, <2>4
<1>4. Promise!Abandon(job[a])
  BY <1>1, <1>2, <1>3 DEF Promise!Abandon
<1>5. QED
  BY <1>1, <1>4 DEF Promise!Next

\* A run begins: its audience is the segment.
LEMMA Begun ==
  ASSUME NEW a, Solo(a), Typed, Typed', SerialInv(a), MarkSending(a)
  PROVE  Promise!Next
<1>0. job[a] \in Broadcasts /\ job' = job /\ a \in Handlers
  BY DEF Typed, HandlersType, Solo, MarkSending
<1>1. /\ status[job[a]] \in {"DRAFT", "SCHEDULED"} /\ received' = received
      /\ status' = [status EXCEPT ![job[a]] = "SENDING"]
      /\ ~SendingNow(a) /\ SendingNow(a)' /\ pc'[a] = "audience"
  BY <1>0 DEF MarkSending, SetStatus, At, Goto, outside, SerialInv, SendingNow, SendingPCs, Typed,
              HandlersType
<1>2. Remaining(a)' = Segment[job[a]] /\ Segment[job[a]] \in SUBSET Contacts
  BY <1>0, <1>1, BroadcastsAssumption DEF Remaining
<1>3. LeftToTry' = [LeftToTry EXCEPT ![job[a]] = Segment[job[a]]]
  <2>1. LeftToTry = [b \in Broadcasts |-> {}]
    BY <1>1, Seen
  <2>2. LeftToTry' = [b \in Broadcasts |-> IF job[a] = b THEN Segment[job[a]] ELSE {}]
    BY <1>0, <1>1, <1>2, SeenPrime
  <2>3. QED
    BY <1>0, <2>1, <2>2
<1>4. GivenUp' = GivenUp
  <2> DEFINE Was(b) == status[b] = "SENDING"
             Is(b) == status'[b] = "SENDING" /\ ~(job[a] = b)
  <2>1. \A b \in Broadcasts : Is(b) = Was(b)
    BY <1>0, <1>1 DEF Typed, RowsType
  <2>2. GivenUp = [b \in Broadcasts |-> Was(b)]
    BY <1>1, Seen
  <2>3. GivenUp' = [b \in Broadcasts |-> Is(b)]
    BY <1>0, <1>1, SeenPrime
  <2> HIDE DEF Was, Is
  <2>4. QED
    BY <2>1, <2>2, <2>3
<1>5. Promise!Start(job[a])
  BY <1>1, <1>2, <1>3, <1>4 DEF Promise!Start
<1>6. QED
  BY <1>0, <1>5 DEF Promise!Next

\* A run ends: nobody of its audience is left.
LEMMA Ended ==
  ASSUME NEW a, Solo(a), Typed, Typed', SerialInv(a), Finish(a)
  PROVE  Promise!Next
<1>0. job[a] \in Broadcasts /\ a \in Handlers /\ HandlersType
  BY DEF Typed, HandlersType, Solo
<1>1. /\ status[job[a]] = "SENDING" /\ received' = received /\ pc[a] = "finish" /\ todo[a] = {}
      /\ status' = [status EXCEPT ![job[a]] = "SENT"] /\ SendingNow(a)
  BY DEF Finish, SetStatus, At, outside, SerialInv, SendingNow, SendingPCs
<1>2. ~SendingNow(a)'
  BY <1>0, LeaveOut DEF Finish, SendingNow, SendingPCs
<1>3. LeftToTry = [b \in Broadcasts |-> {}] /\ LeftToTry' = LeftToTry
  <2>1. Remaining(a) = {}
    BY <1>1 DEF Remaining
  <2>2. QED
    BY <1>2, <2>1, Seen, SeenPrime
<1>4. GivenUp' = [GivenUp EXCEPT ![job[a]] = FALSE] /\ GivenUp[job[a]] = FALSE
  <2> DEFINE Was(b) == status[b] = "SENDING" /\ ~(job[a] = b)
             Is(b) == status'[b] = "SENDING"
  <2>1. \A b \in Broadcasts : Is(b) = IF b = job[a] THEN FALSE ELSE Was(b)
    BY <1>0, <1>1 DEF Typed, RowsType
  <2>2. GivenUp = [b \in Broadcasts |-> Was(b)]
    BY <1>1, Seen
  <2>3. GivenUp' = [b \in Broadcasts |-> Is(b)]
    BY <1>2, SeenPrime
  <2>4. Was(job[a]) = FALSE
    OBVIOUS
  <2> HIDE DEF Was, Is
  <2>5. [GivenUp EXCEPT ![job[a]] = FALSE] = [b \in Broadcasts |-> IF b = job[a] THEN FALSE ELSE Was(b)]
    BY <2>2
  <2>6. GivenUp[job[a]] = Was(job[a])
    BY <1>0, <2>2
  <2>7. QED
    BY <2>1, <2>3, <2>4, <2>5, <2>6
<1>5. Promise!Complete(job[a])
  BY <1>0, <1>1, <1>3, <1>4 DEF Promise!Complete, Promise!Become
<1>6. QED
  BY <1>0, <1>5 DEF Promise!Next

-----------------------------------------------------------------------------
(* The order is kept, and every step is one of Campaign's or none.          *)

LEMMA LeaveSerial ==
  ASSUME NEW a, Solo(a), Typed, Typed', SerialInv(a), Leave(a),
         \A b \in Broadcasts \ {job[a]} : status'[b] = status[b]
  PROVE  SerialInv(a)' /\ ~SendingNow(a)'
<1>0. a \in Handlers /\ HandlersType
  BY DEF Solo, Typed
<1>1. CASE /\ batch[a] = {} /\ Goto(a, "idle") /\ job' = [job EXCEPT ![a] = SomeBroadcast]
           /\ cron' = [cron EXCEPT ![a] = FALSE] /\ UNCHANGED batch
  <2>1. pc'[a] = "idle" /\ cron'[a] = FALSE /\ batch'[a] = {}
    BY <1>0, <1>1 DEF Goto, HandlersType
  <2>2. QED
    BY <2>1 DEF SerialInv, SendingNow, SendingPCs
<1>2. ASSUME NEW b \in batch[a], Goto(a, "read"), job' = [job EXCEPT ![a] = b],
             batch' = [batch EXCEPT ![a] = @ \ {b}], UNCHANGED cron
      PROVE  SerialInv(a)' /\ ~SendingNow(a)'
  <2>1. pc'[a] = "read" /\ job'[a] = b /\ batch'[a] = batch[a] \ {b} /\ cron'[a] = cron[a]
    BY <1>0, <1>2 DEF Goto, HandlersType
  <2>2. \A c \in batch[a] : status'[c] = "SCHEDULED"
    BY <1>0 DEF SerialInv, HandlersType
  <2>3. QED
    BY <2>1, <2>2 DEF SerialInv, SendingNow, SendingPCs
<1>3. QED
  BY <1>1, <1>2 DEF Leave

LEMMA ThrowSerial ==
  ASSUME NEW a, Solo(a), Typed, Typed', SerialInv(a), Throw(a), status' = status,
         cron[a] => status[job[a]] \in {"SCHEDULED", "SENDING"}
  PROVE  SerialInv(a)' /\ ~SendingNow(a)'
<1>0. a \in Handlers /\ HandlersType
  BY DEF Solo, Typed
<1>1. CASE cron[a]
  <2>1. pc'[a] = "park" /\ job' = job /\ cron' = cron /\ batch' = batch
    BY <1>0, <1>1 DEF Throw, Goto, HandlersType, run
  <2>2. QED
    BY <1>1, <2>1 DEF SerialInv, SendingNow, SendingPCs
<1>2. CASE ~cron[a]
  BY <1>2, LeaveSerial DEF Throw
<1>3. QED
  BY <1>1, <1>2

\* The owner's requests and the cron's query.
LEMMA AskSerial ==
  ASSUME NEW a, Solo(a), Typed, Typed', SerialInv(a), CronFetch(a) \/ \E b \in Broadcasts : Ask(a, b)
  PROVE  SerialInv(a)' /\ (Unseen \/ Promise!Next)
<1>0. a \in Handlers /\ HandlersType /\ pc[a] = "idle" /\ ~SendingNow(a) /\ ~cron[a] /\ batch[a] = {}
  BY DEF Solo, Typed, CronFetch, Ask, Create, Schedule, AskExecute, AskCancel, At, SendingNow, SendingPCs,
         SerialInv
<1>1. ASSUME NEW b \in Broadcasts, Create(a, b) PROVE SerialInv(a)' /\ Promise!Next
  <2>1. pc' = pc /\ cron' = cron /\ batch' = batch /\ ~SendingNow(a)' /\ received' = received
    BY <1>0, <1>1 DEF Create, run, SendingNow, outside
  <2>2. PICK s \in {"DRAFT", "SCHEDULED"} : status[b] = "none" /\ status' = [status EXCEPT ![b] = s]
    BY <1>1 DEF Create
  <2>3. Promise!Become(b, s)
    BY <1>0, <2>1, <2>2, Written
  <2>4. Promise!Create(b)
    BY <2>2, <2>3 DEF Promise!Create
  <2>5. QED
    BY <1>0, <2>1, <2>4 DEF SerialInv, SendingNow, SendingPCs, Promise!Next
<1>2. ASSUME NEW b \in Broadcasts, Schedule(a, b) PROVE SerialInv(a)' /\ Promise!Next
  <2>1. pc' = pc /\ cron' = cron /\ batch' = batch /\ ~SendingNow(a)' /\ received' = received
    BY <1>0, <1>2 DEF Schedule, run, SendingNow, outside
  <2>2. status[b] # "none" /\ status' = [status EXCEPT ![b] = "SCHEDULED"]
    BY <1>2 DEF Schedule
  <2>3. Promise!Become(b, "SCHEDULED")
    BY <1>0, <2>1, <2>2, Written
  <2>4. status[b] = "SENDING" => GivenUp[b]
    BY <1>0, GivenUpAt
  <2>5. Promise!Schedule(b)
    BY <2>2, <2>3, <2>4 DEF Promise!Schedule
  <2>6. QED
    BY <1>0, <2>1, <2>5 DEF SerialInv, SendingNow, SendingPCs, Promise!Next
<1>3. ASSUME NEW b \in Broadcasts, AskExecute(a, b) \/ AskCancel(a, b) PROVE SerialInv(a)' /\ Unseen
  <2>1. /\ cron' = cron /\ batch' = batch /\ job'[a] = b /\ status' = status /\ received' = received
        /\ \/ pc'[a] = "read" /\ status[b] # "none"
           \/ pc'[a] = "cancel" /\ status[b] \in {"DRAFT", "SCHEDULED", "SENDING"}
    BY <1>0, <1>3 DEF AskExecute, AskCancel, Goto, run, rows, outside, HandlersType, Typed, RowsType,
                      Statuses
  <2>2. ~SendingNow(a)'
    BY <2>1 DEF SendingNow, SendingPCs
  <2>3. SerialInv(a)'
    BY <1>0, <2>1 DEF SerialInv, SendingNow, SendingPCs
  <2>4. QED
    BY <1>0, <2>1, <2>2, <2>3, Wandering
<1>4. CASE CronFetch(a)
  <2>1. PICK b \in DueNow : /\ pc'[a] = "read" /\ job'[a] = b /\ cron'[a] = TRUE
                            /\ batch'[a] = DueNow \ {b}
    BY <1>0, <1>4 DEF CronFetch, Goto, HandlersType
  <2>2. status' = status /\ received' = received /\ \A c \in DueNow : status[c] = "SCHEDULED"
    BY <1>4 DEF CronFetch, rows, outside, DueNow
  <2>3. SerialInv(a)' /\ ~SendingNow(a)'
    BY <2>1, <2>2 DEF SerialInv, SendingNow, SendingPCs
  <2>4. QED
    BY <1>0, <2>2, <2>3, Wandering
<1>5. QED
  BY <1>1, <1>2, <1>3, <1>4 DEF Ask

\* The last writes of the cron's catch and of cancel().
LEMMA WriteSerial ==
  ASSUME NEW a, Solo(a), Typed, Typed', SerialInv(a), Park(a) \/ CancelWrite(a)
  PROVE  SerialInv(a)' /\ Promise!Next
<1>0. a \in Handlers /\ job[a] \in Broadcasts /\ ~SendingNow(a) /\ received' = received /\ Leave(a)
  BY DEF Solo, Typed, HandlersType, Park, CancelWrite, At, SendingNow, SendingPCs, outside
<1>1. \A b \in Broadcasts \ {job[a]} : status'[b] = status[b]
  BY DEF Park, CancelWrite, SetStatus, Typed, RowsType
<1>2. SerialInv(a)' /\ ~SendingNow(a)'
  BY <1>0, <1>1, LeaveSerial
<1>3. status[job[a]] = "SENDING" => GivenUp[job[a]]
  BY <1>0, GivenUpAt
<1>4. CASE Park(a)
  <2>1. Promise!Become(job[a], "DRAFT")
    BY <1>0, <1>2, <1>4, Written DEF Park, SetStatus
  <2>2. Promise!Park(job[a])
    BY <1>3, <1>4, <2>1 DEF Promise!Park, Park, At, SerialInv
  <2>3. QED
    BY <1>0, <1>2, <2>2 DEF Promise!Next
<1>5. CASE CancelWrite(a)
  <2>1. Promise!Become(job[a], "CANCELLED")
    BY <1>0, <1>2, <1>5, Written DEF CancelWrite, SetStatus
  <2>2. Promise!Cancel(job[a])
    BY <1>3, <1>5, <2>1 DEF Promise!Cancel, CancelWrite, At, SerialInv
  <2>3. QED
    BY <1>0, <1>2, <2>2 DEF Promise!Next
<1>6. QED
  BY <1>4, <1>5

\* Within the loop.
LEMMA LoopSerial ==
  ASSUME NEW a, Solo(a), Typed, Typed', SerialInv(a), SendingNow(a), SendingNow(a)',
         job' = job, run' = run, status' = status,
         pc'[a] \in {"find", "create", "send", "record"} => to'[a] \in todo'[a],
         pc'[a] = "finish" => todo'[a] = {}
  PROVE  SerialInv(a)'
  BY DEF SerialInv, SendingNow, SendingPCs, run

LEMMA ExecuteSerial ==
  ASSUME NEW a, Solo(a), Typed, Typed', SerialInv(a), Execute(a)
  PROVE  SerialInv(a)' /\ (Unseen \/ Promise!Next)
<1>0. a \in Handlers /\ job[a] \in Broadcasts /\ HandlersType /\ WorldType /\ RowsType
  BY DEF Solo, Typed, HandlersType
<1>1. CASE ReadStatus(a) \/ CheckChannel(a)
  <2>1. status' = status /\ received' = received /\ ~SendingNow(a)
    BY <1>1 DEF ReadStatus, CheckChannel, rows, outside, At, SendingNow, SendingPCs
  <2>2. CASE Throw(a)
    <3>1. cron[a] => status[job[a]] = "SCHEDULED"
      BY <1>1 DEF ReadStatus, CheckChannel, At, SerialInv
    <3>2. SerialInv(a)' /\ ~SendingNow(a)'
      BY <2>1, <2>2, <3>1, ThrowSerial
    <3>3. QED
      BY <2>1, <3>2, Wandering
  <2>3. CASE (Goto(a, "check") \/ Goto(a, "mark")) /\ UNCHANGED <<job, run, loop>> /\ ~Throw(a)
    <3>1. pc'[a] \in {"check", "mark"} /\ job' = job /\ cron' = cron /\ batch' = batch
      BY <1>0, <2>3, GotoType DEF PCs, run
    <3>2. status[job[a]] \in {"DRAFT", "SCHEDULED"} /\ (cron[a] => status[job[a]] = "SCHEDULED")
      BY <1>0, <1>1, <2>3 DEF ReadStatus, CheckChannel, At, SerialInv, Refused, RowsType, Statuses
    <3>3. SerialInv(a)' /\ ~SendingNow(a)'
      BY <2>1, <3>1, <3>2 DEF SerialInv, SendingNow, SendingPCs
    <3>4. QED
      BY <2>1, <3>3, Wandering
  <2>4. QED
    BY <1>1, <2>2, <2>3 DEF ReadStatus, CheckChannel
<1>2. CASE MarkSending(a)
  <2>1. /\ pc'[a] = "audience" /\ job' = job /\ cron' = cron /\ batch' = batch /\ pc[a] = "mark"
        /\ status' = [status EXCEPT ![job[a]] = "SENDING"]
    BY <1>0, <1>2 DEF MarkSending, SetStatus, At, Goto, HandlersType, run
  <2>2. SerialInv(a)'
    BY <1>0, <2>1 DEF SerialInv, SendingNow, SendingPCs, RowsType, HandlersType
  <2>3. QED
    BY <1>2, <2>2, Begun
<1>3. CASE ReadAudience(a)
  <2>1. /\ pc[a] = "audience" /\ pc'[a] = "next" /\ todo'[a] = Segment[job[a]]
        /\ job' = job /\ run' = run /\ status' = status /\ received' = received
    BY <1>0, <1>3 DEF ReadAudience, At, Goto, HandlersType, rows, outside
  <2>2. SendingNow(a) /\ SendingNow(a)' /\ Remaining(a)' = Remaining(a)
    BY <2>1 DEF SendingNow, SendingPCs, Remaining
  <2>3. QED
    BY <2>1, <2>2, LoopSerial, Walking
<1>4. CASE NextContact(a)
  <2>1. /\ pc[a] = "next" /\ pc'[a] \in {"next", "find", "finish"}
        /\ job' = job /\ run' = run /\ status' = status /\ received' = received
    BY <1>0, <1>4 DEF NextContact, At, Goto, HandlersType, rows, outside
  <2>2. /\ pc'[a] = "find" => to'[a] \in todo'[a]
        /\ pc'[a] = "finish" => todo'[a] = {}
        /\ todo' = todo \/ \E c \in todo[a] : todo'[a] = todo[a] \ {c}
    BY <1>0, <1>4 DEF NextContact, At, Goto, HandlersType
  <2>3. SendingNow(a) /\ SendingNow(a)'
    BY <2>1 DEF SendingNow, SendingPCs
  <2>4. Remaining(a) = todo[a] /\ Remaining(a)' = todo'[a]
    BY <2>1 DEF Remaining
  <2>5. SerialInv(a)'
    BY <2>1, <2>2, <2>3, LoopSerial
  <2>6. CASE todo' = todo
    BY <2>1, <2>3, <2>4, <2>5, <2>6, Walking
  <2>7. ASSUME NEW c \in todo[a], todo'[a] = todo[a] \ {c}
        PROVE  Promise!Next
    <3>1. c \in Contacts
      BY <1>0 DEF HandlersType
    <3>2. QED
      BY <2>1, <2>3, <2>4, <2>7, <3>1, Tried
  <2>8. QED
    BY <2>2, <2>5, <2>6, <2>7
<1>5. CASE FindConversation(a)
  <2>1. /\ pc[a] = "find" /\ pc'[a] \in {"send", "create"} /\ todo' = todo /\ to' = to
        /\ job' = job /\ run' = run /\ status' = status /\ received' = received
    BY <1>0, <1>5 DEF FindConversation, At, Goto, HandlersType, rows, outside, loop
  <2>2. SendingNow(a) /\ SendingNow(a)' /\ Remaining(a)' = Remaining(a) /\ to[a] \in todo[a]
    BY <2>1 DEF SendingNow, SendingPCs, Remaining, SerialInv
  <2>3. QED
    BY <2>1, <2>2, LoopSerial, Walking
<1>6. CASE CreateConversation(a)
  <2>1. pc[a] = "create" /\ status' = status /\ received' = received /\ SendingNow(a)
    BY <1>6 DEF CreateConversation, At, rows, SendingNow, SendingPCs
  <2>2. CASE Throw(a)
    <3>1. status[job[a]] = "SENDING"
      BY <2>1 DEF SerialInv
    <3>2. SerialInv(a)' /\ ~SendingNow(a)'
      BY <2>1, <2>2, <3>1, ThrowSerial
    <3>3. QED
      BY <2>1, <3>2, Lost
  <2>3. CASE Goto(a, "send") /\ UNCHANGED <<job, run, loop>>
    <3>1. pc'[a] = "send" /\ todo' = todo /\ to' = to /\ job' = job /\ run' = run
      BY <1>0, <2>3, GotoType DEF PCs, loop
    <3>2. SendingNow(a)' /\ Remaining(a)' = Remaining(a) /\ to[a] \in todo[a]
      BY <2>1, <3>1 DEF SendingNow, SendingPCs, Remaining, SerialInv
    <3>3. QED
      BY <2>1, <3>1, <3>2, LoopSerial, Walking
  <2>4. QED
    BY <1>6, <2>2, <2>3 DEF CreateConversation
<1>7. CASE Send(a)
  <2>1. /\ pc[a] = "send" /\ to' = to /\ job' = job /\ run' = run /\ status' = status
        /\ \/ pc'[a] = "record" /\ todo' = todo
           \/ pc'[a] = "next" /\ todo'[a] = todo[a] \ {to[a]}
    BY <1>0, <1>7 DEF Send, Done, At, Goto, HandlersType, rows
  <2>2. SendingNow(a) /\ SendingNow(a)' /\ to[a] \in todo[a] /\ to[a] \in Contacts
    BY <1>0, <2>1 DEF SendingNow, SendingPCs, SerialInv, HandlersType
  <2>3. Remaining(a) = todo[a] /\ Remaining(a)' = todo[a] \ {to[a]}
    BY <2>1 DEF Remaining
  <2>4. received' = received \/ received' = [received EXCEPT ![job[a]][to[a]] = @ + 1]
    BY <1>7 DEF Send, Reaches
  <2>5. Promise!Next
    BY <2>1, <2>2, <2>3, <2>4, Tried
  <2>6. QED
    BY <2>1, <2>2, <2>5, LoopSerial
<1>8. CASE Record(a)
  <2>1. /\ pc[a] = "record" /\ pc'[a] = "next" /\ todo'[a] = todo[a] \ {to[a]}
        /\ job' = job /\ run' = run /\ status' = status /\ received' = received
    BY <1>0, <1>8 DEF Record, Done, At, Goto, HandlersType, rows, outside
  <2>2. SendingNow(a) /\ SendingNow(a)' /\ Remaining(a)' = Remaining(a)
    BY <2>1 DEF SendingNow, SendingPCs, Remaining
  <2>3. QED
    BY <2>1, <2>2, LoopSerial, Walking
<1>9. CASE Finish(a)
  <2>1. \A b \in Broadcasts \ {job[a]} : status'[b] = status[b]
    BY <1>0, <1>9 DEF Finish, SetStatus, RowsType
  <2>2. SerialInv(a)'
    BY <1>9, <2>1, LeaveSerial DEF Finish
  <2>3. QED
    BY <1>9, <2>2, Ended
<1>10. QED
  BY <1>1, <1>2, <1>3, <1>4, <1>5, <1>6, <1>7, <1>8, <1>9 DEF Execute

LEMMA NextSerial ==
  ASSUME NEW a, Solo(a), Typed, Typed', SerialInv(a), [Next]_vars
  PROVE  SerialInv(a)' /\ (Unseen \/ Promise!Next)
<1>1. ASSUME UNCHANGED <<status, received, pc, job, run, loop>>
      PROVE  SerialInv(a)' /\ Unseen
  <2>1. /\ pc' = pc /\ job' = job /\ cron' = cron /\ batch' = batch /\ todo' = todo /\ to' = to
        /\ status' = status /\ received' = received
    BY <1>1 DEF run, loop
  <2>2. Remaining(a)' = Remaining(a) /\ (SendingNow(a)' <=> SendingNow(a))
    BY <2>1 DEF Remaining, SendingNow
  <2>3. QED
    BY <2>1, <2>2, Walking, Wandering DEF SerialInv, SendingNow
<1>2. ~Crash /\ \A h \in Handlers : ~Reject(h)
  <2>1. ~(faults < MaxFaults)
    BY DEF Solo, Typed, CountsType
  <2>2. QED
    BY <2>1 DEF Crash, Reject
<1>3. ASSUME NEW h \in Handlers, Handle(h) \/ CronFetch(h) \/ \E b \in Broadcasts : Ask(h, b)
      PROVE  SerialInv(a)' /\ (Unseen \/ Promise!Next)
  <2>1. h = a
    BY DEF Solo
  <2>2. QED
    BY <1>3, <2>1, AskSerial, ExecuteSerial, WriteSerial DEF Handle
<1>4. CASE \/ \E b \in Broadcasts : Elapse(b)
           \/ \E c \in Contacts : ContactWrites(c)
           \/ RemoveChannel \/ ConnectChannel \/ UNCHANGED vars
  BY <1>1, <1>4 DEF Elapse, ContactWrites, RemoveChannel, ConnectChannel, vars, rows, outside
<1>5. QED
  BY <1>2, <1>3, <1>4 DEF Next

LEMMA InitSerial ==
  ASSUME NEW a, Solo(a), Init
  PROVE  SerialInv(a) /\ Promise!Init
<1>1. a \in Handlers
  BY DEF Solo
<1>2. SerialInv(a) /\ ~SendingNow(a)
  BY <1>1 DEF Init, Everyone, SerialInv, SendingNow, SendingPCs
<1>3. LeftToTry = [b \in Broadcasts |-> {}]
  BY <1>2, Seen
<1>4. GivenUp = [b \in Broadcasts |-> FALSE]
  BY <1>2, Seen DEF Init
<1>5. QED
  BY <1>2, <1>3, <1>4 DEF Init, Promise!Init

\* With one run at a time and no failing call, what the owner sees is what Campaign promises, for every segment and
\* however often the channel is removed and connected anew: execute() starts from DRAFT or SCHEDULED only, tries each
\* contact of the segment once, and writes SENT only when it has tried them all (broadcasts.service.ts).
THEOREM SerialRefinement ==
  ASSUME NEW a, Handlers = {a}, MaxFaults = 0
  PROVE  Spec => CampaignPromise
<1>0. Solo(a)
  BY DEF Solo
<1>1. Init => Typed /\ SerialInv(a) /\ Promise!Init
  BY <1>0, InitType, InitSerial, TypeParts
<1>2. Typed /\ SerialInv(a) /\ [Next]_vars => (Typed /\ SerialInv(a))' /\ [Promise!Next]_(Promise!vars)
  BY <1>0, NextType, NextSerial, UnseenStep
<1>3. QED
  BY <1>1, <1>2, PTL DEF Spec, CampaignPromise, Promise!Spec
=============================================================================

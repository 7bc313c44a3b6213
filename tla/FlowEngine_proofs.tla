------------------------- MODULE FlowEngine_proofs -------------------------
(* Theorems about FlowEngine, for every set of executions, flows, handlers   *)
(* and cron runs.                                                            *)
EXTENDS FlowEngine, TLAPS

Walking == {"charge", "step", "record", "write", "pause", "finish", "connect"}

\* What the argument needs of the types.
Shapes ==
    /\ status \in [Executions -> {"none", "RUNNING", "PAUSED", "COMPLETED", "FAILED"}]
    /\ pc \in [Handlers -> PCs]
    /\ job \in [Handlers -> Executions]
    /\ batch = [h \in Handlers |-> batch[h]]
    /\ \A h \in Handlers : \A row \in batch[h] : row.job \in Executions

\* The walker of an execution is alone, and the execution is not up for a claim.
WalkerAlone ==
    \A h \in Handlers : pc[h] \in Walking =>
        /\ status[job[h]] \notin {"none", "PAUSED"}
        /\ \A g \in Handlers : pc[g] \in Walking /\ job[g] = job[h] => g = h

\* An execution about to be created does not exist and has one creator.
CreatorAlone ==
    \A h \in Handlers : pc[h] = "create" =>
        /\ h \in Hooks
        /\ status[job[h]] = "none"
        /\ \A g \in Handlers : pc[g] = "create" /\ job[g] = job[h] => g = h

\* What the cron fetched exists.
FetchedExist ==
    \A h \in Handlers :
        /\ pc[h] \in {"claim", "fail"} => status[job[h]] # "none"
        /\ \A row \in batch[h] : status[row.job] # "none"

WalkInv == Shapes /\ WalkerAlone /\ CreatorAlone /\ FetchedExist

-----------------------------------------------------------------------------
(* The shape of a handler's step                                             *)

Others(h) ==
    \A g \in Handlers \ {h} : pc'[g] = pc[g] /\ job'[g] = job[g] /\ batch'[g] = batch[g]

\* The handler goes on with its execution.
Stay(h) ==
    /\ UNCHANGED <<status, job, batch>>
    /\ pc'[h] \in PCs \ {"idle", "create"}
    /\ pc'[h] \in Walking => pc[h] \in Walking
    /\ pc'[h] \in {"claim", "fail"} => pc[h] \in Walking \cup {"claim", "fail"}

\* It leaves its execution, and may take up a row it fetched.
Left(h) ==
    /\ job'[h] \in Executions
    /\ pc'[h] \in {"idle", "claim"}
    /\ pc'[h] = "claim" => \E row \in batch[h] : job'[h] = row.job
    /\ batch'[h] \subseteq batch[h]

\* What it may write then.
LastWrite(h) ==
    \/ status' = status
    \/ /\ pc[h] \in Walking
       /\ \E v \in {"PAUSED", "COMPLETED"} : status' = [status EXCEPT ![job[h]] = v]
    \/ /\ pc[h] = "fail"
       /\ status' = [status EXCEPT ![job[h]] = "FAILED"]

Begin(h) ==
    /\ \/ pc[h] = "create" /\ pc'[h] = "charge"
       \/ pc[h] = "claim" /\ status[job[h]] = "PAUSED" /\ pc'[h] = "connect"
    /\ status' = [status EXCEPT ![job[h]] = "RUNNING"]
    /\ UNCHANGED <<job, batch>>

Shape(h) ==
    /\ Others(h)
    /\ pc' = [g \in Handlers |-> pc'[g]] /\ job' = [g \in Handlers |-> job'[g]]
    /\ batch' = [g \in Handlers |-> batch'[g]]
    /\ Stay(h) \/ (Left(h) /\ LastWrite(h)) \/ Begin(h)

LEMMA GotoShape ==
  ASSUME Shapes, NEW h \in Handlers, NEW l, Goto(h, l), UNCHANGED <<job, batch>>
  PROVE  /\ Others(h) /\ pc'[h] = l
         /\ pc' = [g \in Handlers |-> pc'[g]] /\ job' = [g \in Handlers |-> job'[g]]
         /\ batch' = [g \in Handlers |-> batch'[g]]
  BY DEF Shapes, Goto, Others

LEMMA LeaveShape ==
  ASSUME Shapes, NEW h \in Handlers, Leave(h)
  PROVE  /\ Others(h) /\ Left(h)
         /\ pc' = [g \in Handlers |-> pc'[g]] /\ job' = [g \in Handlers |-> job'[g]]
         /\ batch' = [g \in Handlers |-> batch'[g]]
<1>1. SomeExecution \in Executions
  BY HandlersAssumption DEF SomeExecution
<1>2. CASE /\ batch[h] = {} /\ Goto(h, "idle") /\ UNCHANGED batch
           /\ job' = [job EXCEPT ![h] = SomeExecution]
  BY <1>1, <1>2 DEF Shapes, Goto, Others, Left
<1>3. ASSUME NEW row \in batch[h], Goto(h, "claim"),
             job' = [job EXCEPT ![h] = row.job],
             batch' = [batch EXCEPT ![h] = @ \ {row}]
      PROVE  /\ Others(h) /\ Left(h)
             /\ pc' = [g \in Handlers |-> pc'[g]] /\ job' = [g \in Handlers |-> job'[g]]
             /\ batch' = [g \in Handlers |-> batch'[g]]
  <2>1. row.job \in Executions
    BY DEF Shapes
  <2>2. batch'[h] = batch[h] \ {row} /\ \A g \in Handlers \ {h} : batch'[g] = batch[g]
    BY <1>3 DEF Shapes
  <2>3. batch' = [g \in Handlers |-> batch'[g]]
    BY <1>3 DEF Shapes
  <2>4. QED
    BY <1>3, <2>1, <2>2, <2>3 DEF Shapes, Goto, Others, Left
<1>4. QED
  BY <1>2, <1>3 DEF Leave

LEMMA HandleShape ==
  ASSUME Shapes, NEW h \in Handlers, Handle(h)
  PROVE  Shape(h)
<1> USE DEF At, PCs, Walking, execution, Shape
<1>1. CASE CreateExecution(h)
  BY <1>1, GotoShape DEF CreateExecution, Begin
<1>2. CASE Charge(h)
  BY <1>2, GotoShape DEF Charge, Stay
<1>3. CASE SendMessage(h)
  BY <1>3, GotoShape DEF SendMessage, Stay, WalksOn, Advance
<1>4. CASE RecordMessage(h)
  BY <1>4, GotoShape DEF RecordMessage, Stay, Advance
<1>5. CASE ReadTags(h)
  BY <1>5, GotoShape DEF ReadTags, Stay, WalksOn, Advance
<1>6. CASE WriteTags(h)
  BY <1>6, GotoShape DEF WriteTags, Stay, Advance
<1>7. CASE NotifyTeam(h)
  BY <1>7, GotoShape DEF NotifyTeam, Stay, WalksOn, Advance
<1>8. CASE Branch(h)
  BY <1>8, GotoShape DEF Branch, Follow, Stay, WalksOn, Advance
<1>9. CASE Wait(h)
  BY <1>9, GotoShape DEF Wait, Stay, WalksOn
<1>10. CASE StopWalking(h)
  BY <1>10, GotoShape DEF StopWalking, Stay
<1>11. CASE Pause(h)
  BY <1>11, LeaveShape DEF Pause, LastWrite
<1>12. CASE Finish(h)
  BY <1>12, LeaveShape DEF Finish, LastWrite
<1>13. CASE Claim(h)
  BY <1>13, GotoShape, LeaveShape DEF Claim, Begin, LastWrite
<1>14. CASE Connect(h)
  BY <1>14, GotoShape DEF Connect, Stay
<1>15. QED
  BY <1>1, <1>2, <1>3, <1>4, <1>5, <1>6, <1>7, <1>8, <1>9, <1>10, <1>11, <1>12, <1>13, <1>14 DEF Handle, RunStep

-----------------------------------------------------------------------------
(* Every shape keeps the invariant                                           *)

LEMMA StayKeeps ==
  ASSUME WalkInv, NEW h \in Handlers, Shape(h), Stay(h)
  PROVE  WalkInv'
<1> USE DEF WalkInv, Shape, Others, Stay, Shapes, Walking
<1>1. \A g \in Handlers : /\ pc'[g] \in PCs
                          /\ pc'[g] \in Walking => pc[g] \in Walking
                          /\ pc'[g] = "create" => pc[g] = "create"
  OBVIOUS
<1>2. Shapes'
  BY <1>1
<1>3. WalkerAlone'
  BY <1>1 DEF WalkerAlone
<1>4. CreatorAlone'
  BY <1>1 DEF CreatorAlone
<1>5. FetchedExist'
  BY <1>1 DEF FetchedExist, WalkerAlone
<1>6. QED
  BY <1>2, <1>3, <1>4, <1>5

LEMMA LeftKeeps ==
  ASSUME WalkInv, NEW h \in Handlers, Shape(h), Left(h), LastWrite(h)
  PROVE  WalkInv'
<1> USE DEF WalkInv, Shape, Others, Left, Shapes
<1>1. \A x \in Executions : \/ status'[x] = status[x]
                            \/ /\ x = job[h] /\ pc[h] \in Walking
                               /\ status'[x] \in {"PAUSED", "COMPLETED"}
                            \/ x = job[h] /\ pc[h] = "fail" /\ status'[x] = "FAILED"
  BY DEF LastWrite
<1>2. \A x \in Executions : status[x] # "none" => status'[x] # "none"
  BY <1>1
<1>3. \A x \in Executions : status[x] = "none" => status'[x] = "none"
  BY <1>1 DEF WalkerAlone, FetchedExist
<1>4. Shapes'
  <2>1. status' \in [Executions -> {"none", "RUNNING", "PAUSED", "COMPLETED", "FAILED"}]
    BY DEF LastWrite
  <2>2. pc' \in [Handlers -> PCs] /\ job' \in [Handlers -> Executions]
    BY DEF PCs
  <2>3. \A g \in Handlers : \A row \in batch'[g] : row.job \in Executions
    OBVIOUS
  <2>4. QED
    BY <2>1, <2>2, <2>3
<1>5. WalkerAlone'
  BY <1>1 DEF WalkerAlone, Walking
<1>6. CreatorAlone'
  BY <1>3 DEF CreatorAlone
<1>7. FetchedExist'
  BY <1>2 DEF FetchedExist
<1>8. QED
  BY <1>4, <1>5, <1>6, <1>7

LEMMA BeginKeeps ==
  ASSUME WalkInv, NEW h \in Handlers, Shape(h), Begin(h)
  PROVE  WalkInv'
<1> USE DEF WalkInv, Shape, Others, Begin, Shapes, Walking
<1>1. \A x \in Executions : status'[x] = IF x = job[h] THEN "RUNNING" ELSE status[x]
  OBVIOUS
<1>2. Shapes'
  <2>1. status' \in [Executions -> {"none", "RUNNING", "PAUSED", "COMPLETED", "FAILED"}]
    OBVIOUS
  <2>2. pc' \in [Handlers -> PCs]
    BY DEF PCs
  <2>3. QED
    BY <2>1, <2>2
<1>3. \A g \in Handlers : pc[g] \in Walking => job[g] # job[h]
  BY DEF WalkerAlone, CreatorAlone
<1>4. WalkerAlone'
  BY <1>1, <1>3 DEF WalkerAlone
<1>5. CreatorAlone'
  BY <1>1 DEF CreatorAlone
<1>6. FetchedExist'
  BY <1>1 DEF FetchedExist
<1>7. QED
  BY <1>2, <1>4, <1>5, <1>6

LEMMA WalkStep == WalkInv /\ [Next]_vars => WalkInv'
<1> SUFFICES ASSUME WalkInv, [Next]_vars PROVE WalkInv'
  OBVIOUS
<1>1. ASSUME NEW h \in Handlers, Handle(h) PROVE WalkInv'
  <2>1. Shape(h)
    BY <1>1, HandleShape DEF WalkInv
  <2>2. QED
    BY <2>1, StayKeeps, LeftKeeps, BeginKeeps DEF Shape
<1>2. ASSUME NEW h \in Handlers, Reject(h) PROVE WalkInv'
  <2>1. UNCHANGED status
    BY <1>2 DEF Reject, execution
  <2>2. CASE Leave(h)
    BY <2>1, <2>2, LeaveShape, LeftKeeps DEF WalkInv, Shape, LastWrite
  <2>3. ASSUME pc[h] \in Walking, NEW s, Advance(h, s), UNCHANGED <<job, batch>> PROVE WalkInv'
    BY <2>1, <2>3, GotoShape, StayKeeps DEF WalkInv, Shape, Stay, Advance, PCs, Walking
  <2>4. CASE pc[h] \in {"claim", "connect"} /\ Goto(h, "fail") /\ UNCHANGED <<job, batch>>
    BY <2>1, <2>4, GotoShape, StayKeeps DEF WalkInv, Shape, Stay, PCs, Walking
  <2>5. QED
    BY <1>2, <2>2, <2>3, <2>4 DEF Reject, WalksOn, At, Walking
<1>3. ASSUME NEW h \in Handlers, Fetch(h) PROVE WalkInv'
  <2>0. PICK some \in SUBSET DueNow : \E x \in some :
          /\ Goto(h, "claim")
          /\ job' = [job EXCEPT ![h] = x]
          /\ batch' = [batch EXCEPT ![h] = {RowOf(y) : y \in some \ {x}}]
    BY <1>3 DEF Fetch
  <2>1. PICK x \in some :
          /\ Goto(h, "claim")
          /\ job' = [job EXCEPT ![h] = x]
          /\ batch' = [batch EXCEPT ![h] = {RowOf(y) : y \in some \ {x}}]
    BY <2>0
  <2>2. UNCHANGED status
    BY <1>3 DEF Fetch, execution
  <2>3. \A y \in some : y \in Executions /\ status[y] # "none"
    BY DEF DueNow
  <2>4. /\ pc'[h] = "claim" /\ job'[h] = x
        /\ batch'[h] = {RowOf(y) : y \in some \ {x}}
        /\ Others(h)
    BY <2>1 DEF Goto, WalkInv, Shapes, Others
  <2>5. \A row \in batch'[h] : row.job \in Executions /\ status[row.job] # "none"
    BY <2>3, <2>4 DEF RowOf
  <2>6. Shapes'
    <3>1. pc' \in [Handlers -> PCs] /\ job' \in [Handlers -> Executions]
      BY <2>1, <2>3 DEF Goto, WalkInv, Shapes, PCs
    <3>2. batch' = [g \in Handlers |-> batch'[g]]
      BY <2>1 DEF WalkInv, Shapes
    <3>3. QED
      BY <2>2, <2>4, <2>5, <3>1, <3>2 DEF WalkInv, Shapes, Others
  <2>7. WalkerAlone'
    BY <2>2, <2>4 DEF WalkInv, WalkerAlone, Others, Walking
  <2>8. CreatorAlone'
    BY <2>2, <2>4 DEF WalkInv, CreatorAlone, Others
  <2>9. FetchedExist'
    BY <2>2, <2>3, <2>4, <2>5 DEF WalkInv, FetchedExist, Others
  <2>10. QED
    BY <2>6, <2>7, <2>8, <2>9 DEF WalkInv
<1>4. ASSUME NEW h \in Handlers, NEW x \in Executions, Match(h, x) PROVE WalkInv'
  <2>1. /\ pc'[h] = "create" /\ job'[h] = x /\ Others(h)
        /\ pc' \in [Handlers -> PCs] /\ job' \in [Handlers -> Executions]
        /\ h \in Hooks /\ status[x] = "none"
        /\ UNCHANGED <<status, batch>>
    BY <1>4 DEF Match, Goto, WalkInv, Shapes, Others, PCs, execution
  <2>2. \A g \in Handlers : pc[g] = "create" => job[g] # x
    BY <1>4 DEF Match, At, WalkInv, CreatorAlone
  <2>3. WalkerAlone'
    BY <2>1 DEF WalkInv, WalkerAlone, Others, Walking
  <2>4. CreatorAlone'
    BY <2>1, <2>2 DEF WalkInv, CreatorAlone, Others
  <2>5. FetchedExist'
    BY <2>1 DEF WalkInv, FetchedExist, Others
  <2>6. QED
    BY <2>1, <2>3, <2>4, <2>5 DEF WalkInv, Shapes
<1>5. CASE Crash
  <2>1. /\ pc' = [h \in Handlers |-> "idle"] /\ batch' = [h \in Handlers |-> {}]
        /\ job' = [h \in Handlers |-> SomeExecution] /\ UNCHANGED status
    BY <1>5 DEF Crash, Everyone, execution
  <2>2. SomeExecution \in Executions
    BY HandlersAssumption DEF SomeExecution
  <2>3. QED
    BY <2>1, <2>2 DEF WalkInv, Shapes, WalkerAlone, CreatorAlone, FetchedExist, Walking, PCs
<1>6. ASSUME UNCHANGED <<status, pc, job, batch>> PROVE WalkInv'
  BY <1>6 DEF WalkInv, Shapes, WalkerAlone, CreatorAlone, FetchedExist
<1>7. QED
  BY <1>1, <1>2, <1>3, <1>4, <1>5, <1>6
     DEF Next, Elapse, SaveFlow, RemoveConnection, vars, execution

LEMMA InitWalk == Init => WalkInv
<1>1. SomeExecution \in Executions
  BY HandlersAssumption DEF SomeExecution
<1>2. QED
  BY <1>1 DEF Init, WalkInv, Shapes, WalkerAlone, CreatorAlone, FetchedExist, Everyone, Each, PCs, Walking

\* However many cron runs overlap, fail or die, and whatever the owner saves
\* meanwhile, the claim of resumeDueExecutions lets one handler at a time walk
\* an execution.
THEOREM OneWalkerAtATime == Spec => []OneWalker
<1>1. Init => WalkInv
  BY InitWalk
<1>2. WalkInv => OneWalker
  BY DEF WalkInv, WalkerAlone, OneWalker, Walks, Walking
<1>3. QED
  BY <1>1, <1>2, WalkStep, PTL DEF Spec

-----------------------------------------------------------------------------
(* Types.                                                                   *)

Statuses == {"none", "RUNNING", "PAUSED", "COMPLETED", "FAILED"}
Places == Steps \cup {NoStep}
Contact == [who: Customers, tags: SUBSET Tags]

RowsType ==
    /\ status \in [Executions -> Statuses]
    /\ current \in [Executions -> Places]
    /\ savedPsid \in [Executions -> BOOLEAN]
    /\ due \in [Executions -> BOOLEAN]

TenantType == graph \in Graphs /\ contacts \in Seq(Contact) /\ connected \in BOOLEAN

LogType ==
    /\ charged \in [Executions -> Nat]
    /\ ran \in Counter /\ recorded \in Counter /\ delivered \in Counter
    /\ recipients \subseteq [to: Executions, at: Steps, by: {"psid", "comment", "customer"}]
    /\ notices \in [Executions -> Nat]
    /\ faults \in Nat

PlaceType ==
    /\ pc \in [Handlers -> PCs]
    /\ job \in [Handlers -> Executions]
    /\ at \in [Handlers -> Places]
    /\ batch \in [Handlers -> SUBSET Snapshot]

WalkType ==
    /\ hops \in [Handlers -> Nat]
    /\ seen \in [Handlers -> Graphs]
    /\ psid \in [Handlers -> BOOLEAN]
    /\ comment \in [Handlers -> BOOLEAN]
    /\ held \in [Handlers -> [row: Nat, tags: SUBSET Tags]]

\* A handler inside a step is at a step of the flow it read, and a tag it is about to write is one.
OnStep ==
    \A h \in Handlers :
       /\ pc[h] \in {"record", "write", "pause"} => at[h] \in DOMAIN seen[h].node
       /\ pc[h] = "write" => StepHere(h).tag \in Tags

Typed == RowsType /\ TenantType /\ LogType /\ PlaceType /\ WalkType

LEMMA TypeParts == TypeOK <=> Typed
  BY DEF TypeOK, Typed, RowsType, TenantType, LogType, PlaceType, WalkType, Statuses, Places, Contact

LEMMA Picked == SomeExecution \in Executions /\ SomeGraph \in Graphs
  BY HandlersAssumption, GraphsAssumption DEF SomeExecution, SomeGraph

\* The flows a handler may hold lead from steps to steps.
LEMMA GraphShape ==
  ASSUME NEW g \in Graphs
  PROVE  /\ g.first \in Places
         /\ \A s \in DOMAIN g.node :
               /\ s \in Steps
               /\ g.node[s].next \in Places /\ g.node[s].yes \in Places /\ g.node[s].no \in Places
               /\ g.node[s].tag \in Tags \cup {NoTag} /\ g.node[s].type \in Types
  BY GraphsAssumption DEF Node, Places

LEMMA StepShape ==
  ASSUME PlaceType, WalkType, NEW h \in Handlers, at[h] \in DOMAIN seen[h].node
  PROVE  /\ at[h] \in Steps
         /\ StepHere(h).next \in Places /\ StepHere(h).yes \in Places /\ StepHere(h).no \in Places
         /\ StepHere(h).tag \in Tags \cup {NoTag} /\ StepHere(h).type \in Types
<1>1. seen[h] \in Graphs
  BY DEF WalkType
<1>2. QED
  BY <1>1, GraphShape DEF StepHere

LEMMA SameRows == ASSUME RowsType, UNCHANGED execution PROVE RowsType'
  BY DEF RowsType, execution
LEMMA SameTenant == ASSUME TenantType, UNCHANGED tenant PROVE TenantType'
  BY DEF TenantType, tenant
LEMMA SameLogs == ASSUME LogType, UNCHANGED <<logs, outside>> PROVE LogType'
  BY DEF LogType, logs, outside

\* What a step of one handler leaves to the others.
Alone(h) ==
    \A g \in Handlers \ {h} : pc'[g] = pc[g] /\ at'[g] = at[g] /\ seen'[g] = seen[g]

LEMMA OthersOnStep ==
  ASSUME OnStep, NEW h \in Handlers, Alone(h),
         pc'[h] \in {"record", "write", "pause"} =>
            /\ at'[h] \in DOMAIN seen'[h].node
            /\ pc'[h] = "write" => StepHere(h)'.tag \in Tags
  PROVE  OnStep'
  BY DEF OnStep, Alone, StepHere

LEMMA WalkTyped ==
  ASSUME WalkType, at \in [Handlers -> Places], NEW h \in Handlers, NEW s \in Places, NEW g \in Graphs,
         NEW p \in BOOLEAN, NEW c \in BOOLEAN, Walk(h, s, g, p, c)
  PROVE  /\ WalkType' /\ at' \in [Handlers -> Places] /\ at'[h] = s /\ comment'[h] = c
         /\ \A k \in Handlers \ {h} : at'[k] = at[k] /\ seen'[k] = seen[k] /\ comment'[k] = comment[k]
  BY DEF WalkType, Walk, NoRow

LEMMA LeaveTyped ==
  ASSUME PlaceType, WalkType, NEW h \in Handlers, Leave(h)
  PROVE  /\ PlaceType' /\ WalkType' /\ Alone(h) /\ pc'[h] \in {"idle", "claim"} /\ comment'[h] = FALSE
         /\ \A k \in Handlers \ {h} : comment'[k] = comment[k]
<1>1. CASE /\ batch[h] = {} /\ Goto(h, "idle") /\ UNCHANGED batch
           /\ job' = [job EXCEPT ![h] = SomeExecution]
           /\ Walk(h, NoStep, SomeGraph, FALSE, FALSE)
  <2>1. /\ WalkType' /\ at' \in [Handlers -> Places] /\ comment'[h] = FALSE
        /\ \A k \in Handlers \ {h} : at'[k] = at[k] /\ seen'[k] = seen[k] /\ comment'[k] = comment[k]
    BY <1>1, Picked, WalkTyped DEF PlaceType, Places
  <2>2. PlaceType' /\ pc'[h] = "idle" /\ \A k \in Handlers \ {h} : pc'[k] = pc[k]
    BY <1>1, <2>1, Picked DEF PlaceType, Goto, PCs
  <2>3. QED
    BY <2>1, <2>2 DEF Alone
<1>2. ASSUME NEW row \in batch[h], Goto(h, "claim"), job' = [job EXCEPT ![h] = row.job],
             batch' = [batch EXCEPT ![h] = @ \ {row}], Walk(h, row.at, row.seen, row.psid, FALSE)
      PROVE  /\ PlaceType' /\ WalkType' /\ Alone(h) /\ pc'[h] \in {"idle", "claim"} /\ comment'[h] = FALSE
             /\ \A k \in Handlers \ {h} : comment'[k] = comment[k]
  <2>1. row \in Snapshot
    BY DEF PlaceType
  <2>2. row.job \in Executions /\ row.at \in Places /\ row.seen \in Graphs /\ row.psid \in BOOLEAN
    BY <2>1 DEF Snapshot, Places
  <2>3. /\ WalkType' /\ at' \in [Handlers -> Places] /\ comment'[h] = FALSE
        /\ \A k \in Handlers \ {h} : at'[k] = at[k] /\ seen'[k] = seen[k] /\ comment'[k] = comment[k]
    <3>1. /\ at' = [at EXCEPT ![h] = row.at] /\ seen' = [seen EXCEPT ![h] = row.seen]
          /\ hops' = [hops EXCEPT ![h] = 0] /\ psid' = [psid EXCEPT ![h] = row.psid]
          /\ comment' = [comment EXCEPT ![h] = FALSE] /\ held' = [held EXCEPT ![h] = NoRow]
      BY <1>2 DEF Walk
    <3>2. WalkType' /\ at' \in [Handlers -> Places]
      BY <2>2, <3>1 DEF PlaceType, WalkType, NoRow
    <3>3. QED
      BY <3>1, <3>2 DEF PlaceType, WalkType
  <2>4. batch' \in [Handlers -> SUBSET Snapshot]
    BY <1>2 DEF PlaceType
  <2>5. PlaceType' /\ pc'[h] = "claim" /\ \A k \in Handlers \ {h} : pc'[k] = pc[k]
    BY <1>2, <2>2, <2>3, <2>4 DEF PlaceType, Goto, PCs
  <2>6. QED
    BY <2>3, <2>5 DEF Alone
<1>3. QED
  BY <1>1, <1>2 DEF Leave

LEMMA AdvanceTyped ==
  ASSUME LogType, PlaceType, NEW h \in Handlers, NEW s \in Places, at[h] \in Steps, Advance(h, s),
         UNCHANGED <<job, batch>>
  PROVE  /\ PlaceType' /\ ran' \in Counter /\ pc'[h] = "step"
         /\ \A g \in Handlers \ {h} : pc'[g] = pc[g] /\ at'[g] = at[g]
<1>1. job[h] \in Executions
  BY DEF PlaceType
<1>2. ran' \in Counter
  BY <1>1 DEF Advance, LogType, Counter
<1>3. QED
  BY <1>2 DEF Advance, PlaceType, Goto, PCs

LEMMA NewContact ==
  ASSUME TenantType, PlaceType, NEW h \in Handlers
  PROVE  Append(contacts, [who |-> Customer[job[h]], tags |-> {}]) \in Seq(Contact)
<1>1. [who |-> Customer[job[h]], tags |-> {}] \in Contact
  BY DEF PlaceType, Contact, Customers
<1>2. QED
  BY <1>1 DEF TenantType

LEMMA Retagged ==
  ASSUME TenantType, NEW i \in Nat, NEW tags \in SUBSET Tags
  PROVE  [contacts EXCEPT ![i].tags = tags] \in Seq(Contact)
<1> DEFINE new == [contacts EXCEPT ![i].tags = tags]
<1>1. contacts \in [1..Len(contacts) -> Contact] /\ Len(contacts) \in Nat
  BY DEF TenantType
<1>2. ASSUME i \in 1..Len(contacts) PROVE [contacts[i] EXCEPT !.tags = tags] \in Contact
  BY <1>1, <1>2 DEF Contact
<1>3. new \in [1..Len(contacts) -> Contact]
  BY <1>1, <1>2
<1>4. QED
  BY <1>1, <1>3

LEMMA CountedUp ==
  ASSUME NEW c \in Counter, NEW x \in Executions, NEW s \in Steps
  PROVE  [c EXCEPT ![x][s] = @ + 1] \in Counter
<1> DEFINE more == [c[x] EXCEPT ![s] = @ + 1]
<1>1. c \in [Executions -> [Steps -> Nat]] /\ c[x] \in [Steps -> Nat]
  BY DEF Counter
<1>2. more \in [Steps -> Nat]
  BY <1>1
<1> HIDE DEF more
<1>3. [c EXCEPT ![x] = more] \in Counter
  BY <1>1, <1>2 DEF Counter
<1>4. QED
  BY <1>3 DEF more

LEMMA SendTyped ==
  ASSUME Typed, OnStep, NEW h \in Handlers, SendMessage(h)
  PROVE  Typed' /\ OnStep'
<1>0. /\ RowsType /\ TenantType /\ LogType /\ PlaceType /\ WalkType /\ job[h] \in Executions
      /\ at[h] \in DOMAIN seen[h].node /\ at[h] \in Steps /\ StepHere(h).next \in Places
  BY StepShape DEF Typed, PlaceType, SendMessage, WalksOn
<1>1. RowsType' /\ TenantType'
  BY <1>0, SameRows, SameTenant DEF SendMessage
<1>2. LogType'
  <2>1. delivered' = delivered \/ delivered' = [delivered EXCEPT ![job[h]][at[h]] = @ + 1]
    BY DEF SendMessage
  <2>2. delivered' \in Counter
    BY <1>0, <2>1, CountedUp DEF LogType
  <2>3. ran' = ran \/ ran' = [ran EXCEPT ![job[h]][at[h]] = @ + 1]
    BY DEF SendMessage, Advance
  <2>4. ran' \in Counter
    BY <1>0, <2>3, CountedUp DEF LogType
  <2>5. Recipient(h) \in {"psid", "comment", "customer"}
    BY <1>0 DEF Recipient, WalkType
  <2>6. recipients' \subseteq [to: Executions, at: Steps, by: {"psid", "comment", "customer"}]
    BY <1>0, <2>5 DEF SendMessage, LogType
  <2>7. UNCHANGED <<charged, recorded, notices, faults>>
    BY DEF SendMessage
  <2>8. QED
    BY <1>0, <2>2, <2>4, <2>6, <2>7 DEF LogType
<1>3. PlaceType' /\ pc'[h] \in {"record", "step"} /\ (pc'[h] = "record" => at' = at)
      /\ \A g \in Handlers \ {h} : pc'[g] = pc[g] /\ at'[g] = at[g]
  <2>1. CASE Goto(h, "record") /\ UNCHANGED at
    BY <1>0, <2>1 DEF SendMessage, PlaceType, Goto, PCs
  <2>2. CASE Advance(h, StepHere(h).next)
    BY <1>0, <2>2, AdvanceTyped DEF SendMessage
  <2>3. QED
    BY <2>1, <2>2 DEF SendMessage
<1>4. WalkType' /\ seen' = seen
  <2>1. PICK outcome \in {"ok", "failed", "timeout"} : psid' = [psid EXCEPT ![h] = @ \/ outcome = "ok"]
    BY DEF SendMessage
  <2>2. psid' \in [Handlers -> BOOLEAN]
    BY <1>0, <2>1 DEF WalkType
  <2>3. comment' \in [Handlers -> BOOLEAN]
    <3>1. comment' = [comment EXCEPT ![h] = comment[h] /\ psid[h]]
      BY DEF SendMessage
    <3>2. QED
      BY <1>0, <3>1 DEF WalkType
  <2>4. hops' \in [Handlers -> Nat] /\ UNCHANGED <<seen, held>>
    BY <1>0 DEF SendMessage, WalksOn, WalkType
  <2>5. QED
    BY <1>0, <2>2, <2>3, <2>4 DEF WalkType
<1>5. OnStep'
  BY <1>0, <1>3, <1>4, OthersOnStep DEF Alone
<1>6. QED
  BY <1>1, <1>2, <1>3, <1>4, <1>5 DEF Typed

LEMMA TagsTyped ==
  ASSUME Typed, OnStep, NEW h \in Handlers, ReadTags(h) \/ WriteTags(h)
  PROVE  Typed' /\ OnStep'
<1>0. /\ RowsType /\ TenantType /\ LogType /\ PlaceType /\ WalkType /\ job[h] \in Executions
      /\ at[h] \in DOMAIN seen[h].node /\ at[h] \in Steps /\ StepHere(h).next \in Places
      /\ StepHere(h).tag \in Tags \cup {NoTag}
  BY StepShape DEF Typed, PlaceType, ReadTags, WriteTags, WalksOn, OnStep, At
<1>1. RowsType'
  BY <1>0, SameRows DEF ReadTags, WriteTags
<1>2. ran' = ran \/ Advance(h, StepHere(h).next)
  BY DEF ReadTags, WriteTags
<1>3. UNCHANGED <<job, batch, seen, psid, comment, charged, recorded, outside, graph, connected>>
  BY DEF ReadTags, WriteTags
<1>4. LogType'
  BY <1>0, <1>2, <1>3, AdvanceTyped DEF LogType, outside
<1>5. /\ PlaceType' /\ pc'[h] \in {"write", "step"}
      /\ pc'[h] = "write" => at' = at /\ StepHere(h).tag \in Tags
      /\ \A g \in Handlers \ {h} : pc'[g] = pc[g] /\ at'[g] = at[g]
  <2>1. CASE Goto(h, "write") /\ UNCHANGED at /\ Tagged(h)
    BY <1>0, <1>3, <2>1 DEF PlaceType, Goto, PCs, Tagged
  <2>2. CASE Advance(h, StepHere(h).next)
    BY <1>0, <1>3, <2>2, AdvanceTyped
  <2>3. QED
    BY <2>1, <2>2 DEF ReadTags, WriteTags
<1>6. TenantType'
  <2>1. CASE WriteTags(h)
    <3>1. held[h].row \in Nat /\ held[h].tags \in SUBSET Tags /\ StepHere(h).tag \in Tags
      BY <1>0, <2>1 DEF WalkType, OnStep, WriteTags, At
    <3>2. PICK tags \in SUBSET Tags : contacts' = [contacts EXCEPT ![held[h].row].tags = tags]
      BY <2>1, <3>1 DEF WriteTags
    <3>3. QED
      BY <1>0, <1>3, <3>1, <3>2, Retagged DEF TenantType
  <2>2. CASE ReadTags(h)
    <3>1. contacts' = contacts \/ contacts' = Append(contacts, [who |-> Customer[job[h]], tags |-> {}])
      BY <2>2 DEF ReadTags
    <3>2. QED
      BY <1>0, <1>3, <3>1, NewContact DEF TenantType
  <2>3. QED
    BY <2>1, <2>2
<1>7. WalkType'
  <2>1. hops' \in [Handlers -> Nat]
    <3>1. hops' = hops \/ hops' = [hops EXCEPT ![h] = @ + 1]
      BY DEF ReadTags, WriteTags, WalksOn
    <3>2. QED
      BY <1>0, <3>1 DEF WalkType
  <2>2. held' \in [Handlers -> [row: Nat, tags: SUBSET Tags]]
    <3>1. CASE WriteTags(h)
      BY <1>0, <3>1 DEF WriteTags, WalkType, NoRow
    <3>2. ASSUME NEW i \in RowsOfCustomer(h),
                 held' = [held EXCEPT ![h] = [row |-> i, tags |-> contacts[i].tags]]
          PROVE  held' \in [Handlers -> [row: Nat, tags: SUBSET Tags]]
      <4>1. i \in 1..Len(contacts) /\ contacts[i] \in Contact /\ i \in Nat
        BY <1>0 DEF RowsOfCustomer, TenantType
      <4>2. [row |-> i, tags |-> contacts[i].tags] \in [row: Nat, tags: SUBSET Tags]
        BY <4>1 DEF Contact
      <4>3. QED
        BY <1>0, <3>2, <4>2 DEF WalkType
    <3>3. CASE held' = [held EXCEPT ![h] = [row |-> Len(contacts) + 1, tags |-> {}]]
      BY <1>0, <3>3 DEF WalkType, TenantType
    <3>4. QED
      BY <1>0, <3>1, <3>2, <3>3 DEF ReadTags, WalkType
  <2>3. QED
    BY <1>0, <1>3, <2>1, <2>2 DEF WalkType
<1>8. OnStep'
  BY <1>0, <1>3, <1>5, OthersOnStep DEF Alone, StepHere
<1>9. QED
  BY <1>1, <1>4, <1>5, <1>6, <1>7, <1>8 DEF Typed

\* A step inside the walk that leaves the tenant, the customers and the row alone.
LEMMA WalkOnTyped ==
  ASSUME Typed, OnStep, NEW h \in Handlers,
         RecordMessage(h) \/ NotifyTeam(h) \/ Branch(h) \/ Wait(h)
  PROVE  Typed' /\ OnStep'
<1>0. /\ RowsType /\ TenantType /\ LogType /\ PlaceType /\ WalkType /\ job[h] \in Executions
      /\ at[h] \in DOMAIN seen[h].node /\ at[h] \in Steps
      /\ StepHere(h).next \in Places /\ StepHere(h).yes \in Places /\ StepHere(h).no \in Places
  BY StepShape DEF Typed, PlaceType, RecordMessage, NotifyTeam, Branch, Wait, WalksOn, OnStep, At
<1>1. RowsType' /\ TenantType'
  BY <1>0, SameRows, SameTenant DEF RecordMessage, NotifyTeam, Branch, Wait
<1>2. UNCHANGED <<job, batch, seen, psid, comment, charged, delivered, recipients, faults>>
  BY DEF RecordMessage, NotifyTeam, Branch, Wait, outside
<1>3. /\ PlaceType' /\ ran' \in Counter /\ pc'[h] \in {"step", "pause", "finish"}
      /\ pc'[h] = "pause" => at' = at
      /\ \A g \in Handlers \ {h} : pc'[g] = pc[g] /\ at'[g] = at[g]
  <2>1. ASSUME NEW s \in Places, Advance(h, s)
        PROVE  /\ PlaceType' /\ ran' \in Counter /\ pc'[h] \in {"step", "pause", "finish"}
               /\ pc'[h] = "pause" => at' = at
               /\ \A g \in Handlers \ {h} : pc'[g] = pc[g] /\ at'[g] = at[g]
    BY <1>0, <1>2, <2>1, AdvanceTyped
  <2>2. CASE Wait(h)
    <3>1. ran' = [ran EXCEPT ![job[h]][at[h]] = @ + 1] /\ at' = at
      BY <2>2 DEF Wait
    <3>2. ran' \in Counter
      BY <1>0, <3>1, CountedUp DEF LogType
    <3>3. PlaceType' /\ pc'[h] \in {"pause", "finish"} /\ \A g \in Handlers \ {h} : pc'[g] = pc[g]
      BY <1>0, <1>2, <2>2 DEF Wait, PlaceType, Goto, PCs
    <3>4. QED
      BY <3>1, <3>2, <3>3
  <2>3. CASE Branch(h)
    BY <1>0, <2>1, <2>3 DEF Branch, Follow
  <2>4. CASE RecordMessage(h) \/ NotifyTeam(h)
    BY <1>0, <2>1, <2>4 DEF RecordMessage, NotifyTeam
  <2>5. QED
    BY <2>2, <2>3, <2>4
<1>4. recorded' \in Counter
  <2>1. recorded' = recorded \/ recorded' = [recorded EXCEPT ![job[h]][at[h]] = @ + 1]
    BY DEF RecordMessage, NotifyTeam, Branch, Wait
  <2>2. QED
    BY <1>0, <2>1, CountedUp DEF LogType
<1>5. notices' \in [Executions -> Nat]
  <2>1. notices' = notices \/ notices' = [notices EXCEPT ![job[h]] = @ + 1]
    BY DEF RecordMessage, NotifyTeam, Branch, Wait, outside
  <2>2. QED
    BY <1>0, <2>1 DEF LogType
<1>6. LogType'
  BY <1>0, <1>2, <1>3, <1>4, <1>5 DEF LogType
<1>7. WalkType'
  <2>1. held' = held /\ (hops' = hops \/ hops' = [hops EXCEPT ![h] = @ + 1])
    BY DEF RecordMessage, NotifyTeam, Branch, Wait, WalksOn
  <2>2. QED
    BY <1>0, <1>2, <2>1 DEF WalkType
<1>8. OnStep'
  BY <1>0, <1>2, <1>3, OthersOnStep DEF Alone
<1>9. QED
  BY <1>1, <1>3, <1>6, <1>7, <1>8 DEF Typed

\* A handler goes from one await to the next.
LEMMA GotoTyped ==
  ASSUME PlaceType, WalkType, OnStep, NEW h \in Handlers, NEW l \in PCs \ {"record", "write", "pause"},
         Goto(h, l), UNCHANGED <<job, batch, walk>>
  PROVE  PlaceType' /\ WalkType' /\ OnStep'
<1>1. UNCHANGED <<at, seen, hops, psid, comment, held>>
  BY DEF walk
<1>2. PlaceType' /\ pc'[h] = l /\ Alone(h)
  BY <1>1 DEF PlaceType, Goto, Alone
<1>3. WalkType'
  BY <1>1 DEF WalkType
<1>4. QED
  BY <1>2, <1>3, OthersOnStep

LEMMA LeaveOnStep ==
  ASSUME PlaceType, WalkType, OnStep, NEW h \in Handlers, Leave(h)
  PROVE  PlaceType' /\ WalkType' /\ OnStep'
  BY LeaveTyped, OthersOnStep

LEMMA RowStepTyped ==
  ASSUME Typed, OnStep, NEW h \in Handlers,
         \/ CreateExecution(h) \/ Charge(h) \/ StopWalking(h) \/ Pause(h) \/ Finish(h)
         \/ Claim(h) \/ Connect(h)
  PROVE  Typed' /\ OnStep'
<1>0. /\ RowsType /\ TenantType /\ LogType /\ PlaceType /\ WalkType
      /\ job[h] \in Executions /\ at[h] \in Places
  BY DEF Typed, PlaceType
<1>1. TenantType'
  BY <1>0, SameTenant DEF CreateExecution, Charge, StopWalking, Pause, Finish, Claim, Connect
<1>2. CASE CreateExecution(h)
  <2>1. RowsType'
    BY <1>0, <1>2 DEF CreateExecution, RowsType, Statuses, WalkType
  <2>2. PlaceType' /\ WalkType' /\ OnStep'
    BY <1>0, <1>2, GotoTyped DEF CreateExecution, PCs
  <2>3. QED
    BY <1>0, <1>1, <1>2, <2>1, <2>2, SameLogs DEF CreateExecution, Typed
<1>3. CASE Charge(h)
  <2>1. LogType'
    BY <1>0, <1>3 DEF Charge, LogType, outside
  <2>2. PlaceType' /\ WalkType' /\ OnStep'
    BY <1>0, <1>3, GotoTyped DEF Charge, PCs
  <2>3. QED
    BY <1>0, <1>1, <1>3, <2>1, <2>2, SameRows DEF Charge, Typed
<1>4. CASE StopWalking(h) \/ Connect(h)
  <2>1. PlaceType' /\ WalkType' /\ OnStep'
    BY <1>0, <1>4, GotoTyped DEF StopWalking, Connect, PCs
  <2>2. QED
    BY <1>0, <1>1, <1>4, <2>1, SameRows, SameLogs DEF StopWalking, Connect, Typed
<1>5. CASE Pause(h)
  <2>1. StepHere(h).next \in Places
    BY <1>0, <1>5, StepShape DEF Pause, OnStep, At
  <2>2. RowsType'
    BY <1>0, <1>5, <2>1 DEF Pause, RowsType, Statuses, WalkType
  <2>3. QED
    BY <1>0, <1>1, <1>5, <2>2, LeaveOnStep, SameLogs DEF Pause, Typed
<1>6. CASE Finish(h)
  <2>1. RowsType'
    BY <1>0, <1>6 DEF Finish, RowsType, Statuses, Places
  <2>2. QED
    BY <1>0, <1>1, <1>6, <2>1, LeaveOnStep, SameLogs DEF Finish, Typed
<1>7. CASE Claim(h)
  <2>1. RowsType'
    BY <1>0, <1>7 DEF Claim, RowsType, Statuses
  <2>2. PlaceType' /\ WalkType' /\ OnStep'
    BY <1>0, <1>7, GotoTyped, LeaveOnStep DEF Claim, PCs
  <2>3. QED
    BY <1>0, <1>1, <1>7, <2>1, <2>2, SameLogs DEF Claim, Typed
<1>8. QED
  BY <1>2, <1>3, <1>4, <1>5, <1>6, <1>7

LEMMA FetchTyped ==
  ASSUME Typed, OnStep, NEW h \in Handlers, Fetch(h)
  PROVE  Typed' /\ OnStep'
<1>0. RowsType /\ TenantType /\ LogType /\ PlaceType /\ WalkType
  BY DEF Typed
<1>12. PICK some \in SUBSET DueNow : \E x \in some :
         /\ Goto(h, "claim")
         /\ job' = [job EXCEPT ![h] = x]
         /\ batch' = [batch EXCEPT ![h] = {RowOf(y) : y \in some \ {x}}]
         /\ Walk(h, current[x], graph, savedPsid[x], FALSE)
  BY DEF Fetch
<1>1. PICK x \in some :
         /\ Goto(h, "claim")
         /\ job' = [job EXCEPT ![h] = x]
         /\ batch' = [batch EXCEPT ![h] = {RowOf(y) : y \in some \ {x}}]
         /\ Walk(h, current[x], graph, savedPsid[x], FALSE)
  BY <1>12
<1>2. \A y \in some : y \in Executions /\ current[y] \in Places /\ savedPsid[y] \in BOOLEAN
  BY <1>0 DEF DueNow, RowsType
<1>3. \A y \in some : RowOf(y) \in Snapshot
  BY <1>0, <1>2 DEF RowOf, Snapshot, TenantType, Places
<1>4. {RowOf(y) : y \in some \ {x}} \in SUBSET Snapshot
  BY <1>3
<1>5. batch' \in [Handlers -> SUBSET Snapshot]
  BY <1>0, <1>1, <1>4 DEF PlaceType
<1>6. /\ at' = [at EXCEPT ![h] = current[x]] /\ seen' = [seen EXCEPT ![h] = graph]
      /\ hops' = [hops EXCEPT ![h] = 0] /\ psid' = [psid EXCEPT ![h] = savedPsid[x]]
      /\ comment' = [comment EXCEPT ![h] = FALSE] /\ held' = [held EXCEPT ![h] = NoRow]
  BY <1>1 DEF Walk
<1>7. WalkType'
  BY <1>0, <1>2, <1>6 DEF WalkType, TenantType, NoRow
<1>8. PlaceType' /\ pc'[h] = "claim" /\ Alone(h)
  <2>1. pc' \in [Handlers -> PCs] /\ job' \in [Handlers -> Executions] /\ at' \in [Handlers -> Places]
    BY <1>0, <1>1, <1>2, <1>6 DEF PlaceType, Goto, PCs
  <2>2. pc'[h] = "claim" /\ Alone(h)
    BY <1>0, <1>1, <1>6 DEF PlaceType, WalkType, Goto, Alone
  <2>3. QED
    BY <1>5, <2>1, <2>2 DEF PlaceType
<1>9. OnStep'
  BY <1>8, OthersOnStep
<1>10. QED
  BY <1>0, <1>7, <1>8, <1>9, SameRows, SameTenant, SameLogs DEF Fetch, Typed

LEMMA MatchTyped ==
  ASSUME Typed, OnStep, NEW h \in Handlers, NEW x \in Executions, Match(h, x)
  PROVE  Typed' /\ OnStep'
<1>0. /\ RowsType /\ TenantType /\ LogType /\ PlaceType /\ WalkType
      /\ graph \in Graphs /\ graph.first \in Places /\ FromComment[x] \in BOOLEAN
  BY GraphShape, HandlersAssumption DEF Typed, TenantType
<1>1. /\ at' = [at EXCEPT ![h] = graph.first] /\ seen' = [seen EXCEPT ![h] = graph]
      /\ hops' = [hops EXCEPT ![h] = 0] /\ psid' = [psid EXCEPT ![h] = ~FromComment[x]]
      /\ comment' = [comment EXCEPT ![h] = FromComment[x]] /\ held' = [held EXCEPT ![h] = NoRow]
  BY DEF Match, Walk
<1>2. WalkType'
  BY <1>0, <1>1 DEF WalkType, NoRow
<1>3. PlaceType' /\ pc'[h] = "create" /\ Alone(h)
  BY <1>0, <1>1 DEF Match, PlaceType, WalkType, Goto, PCs, Alone
<1>4. OnStep'
  BY <1>3, OthersOnStep
<1>5. QED
  BY <1>0, <1>2, <1>3, <1>4, SameRows, SameTenant, SameLogs DEF Match, Typed

LEMMA RejectTyped ==
  ASSUME Typed, OnStep, NEW h \in Handlers, Reject(h)
  PROVE  Typed' /\ OnStep'
<1>0. RowsType /\ TenantType /\ LogType /\ PlaceType /\ WalkType /\ job[h] \in Executions
  BY DEF Typed, PlaceType
<1>1. RowsType' /\ TenantType'
  BY <1>0, SameRows, SameTenant DEF Reject
<1>2. UNCHANGED <<charged, recorded, delivered, recipients, notices>> /\ faults' = faults + 1
  BY DEF Reject
<1>3. ASSUME PlaceType', WalkType', OnStep', ran' \in Counter PROVE Typed' /\ OnStep'
  <2>1. LogType'
    BY <1>0, <1>2, <1>3 DEF LogType
  <2>2. QED
    BY <1>1, <1>3, <2>1 DEF Typed
<1>4. CASE /\ pc[h] \in {"record", "write", "pause"} /\ Advance(h, StepHere(h).next)
           /\ held' = [held EXCEPT ![h] = NoRow] /\ UNCHANGED <<job, batch, hops, seen, psid, comment>>
  <2>1. at[h] \in Steps /\ StepHere(h).next \in Places
    BY <1>0, <1>4, StepShape DEF OnStep
  <2>2. /\ PlaceType' /\ ran' \in Counter /\ pc'[h] = "step"
        /\ \A g \in Handlers \ {h} : pc'[g] = pc[g] /\ at'[g] = at[g]
    BY <1>0, <1>4, <2>1, AdvanceTyped
  <2>3. WalkType'
    BY <1>0, <1>4 DEF WalkType, NoRow
  <2>4. OnStep'
    BY <1>4, <2>2, OthersOnStep DEF Alone
  <2>5. QED
    BY <1>3, <2>2, <2>3, <2>4
<1>5. CASE /\ WalksOn(h, Tagging \cup {"notify", "tagbranch"}) /\ Advance(h, StepHere(h).next)
           /\ UNCHANGED <<job, batch, seen, psid, comment, held>>
  <2>1. at[h] \in Steps /\ StepHere(h).next \in Places
    BY <1>0, <1>5, StepShape DEF WalksOn
  <2>2. /\ PlaceType' /\ ran' \in Counter /\ pc'[h] = "step"
        /\ \A g \in Handlers \ {h} : pc'[g] = pc[g] /\ at'[g] = at[g]
    BY <1>0, <1>5, <2>1, AdvanceTyped
  <2>3. WalkType'
    BY <1>0, <1>5 DEF WalkType, WalksOn
  <2>4. OnStep'
    BY <1>5, <2>2, OthersOnStep DEF Alone
  <2>5. QED
    BY <1>3, <2>2, <2>3, <2>4
<1>6. CASE Leave(h) /\ UNCHANGED ran
  BY <1>0, <1>3, <1>6, LeaveOnStep DEF LogType
<1>7. CASE Goto(h, "fail") /\ UNCHANGED <<ran, job, batch, walk>>
  BY <1>0, <1>3, <1>7, GotoTyped DEF LogType, PCs
<1>8. QED
  BY <1>4, <1>5, <1>6, <1>7 DEF Reject

LEMMA NextTyped ==
  ASSUME Typed, OnStep, [Next]_vars
  PROVE  Typed' /\ OnStep'
<1>0. RowsType /\ TenantType /\ LogType /\ PlaceType /\ WalkType
  BY DEF Typed
<1>1. ASSUME UNCHANGED <<pc, job, batch, walk>> PROVE PlaceType' /\ WalkType' /\ OnStep'
  BY <1>0, <1>1 DEF PlaceType, WalkType, OnStep, StepHere, walk
<1>2. ASSUME NEW h \in Handlers, Handle(h) PROVE Typed' /\ OnStep'
  BY <1>2, SendTyped, TagsTyped, WalkOnTyped, RowStepTyped DEF Handle, RunStep
<1>3. ASSUME NEW x \in Executions, Elapse(x) PROVE Typed' /\ OnStep'
  <2>1. RowsType'
    BY <1>0, <1>3 DEF Elapse, RowsType
  <2>2. QED
    BY <1>0, <1>1, <1>3, <2>1, SameTenant, SameLogs DEF Elapse, Typed
<1>4. CASE (\E g \in Graphs : SaveFlow(g)) \/ RemoveConnection
  <2>1. TenantType'
    BY <1>0, <1>4 DEF SaveFlow, RemoveConnection, TenantType
  <2>2. QED
    BY <1>0, <1>1, <1>4, <2>1, SameRows, SameLogs DEF SaveFlow, RemoveConnection, Typed
<1>5. CASE Crash
  <2>1. LogType'
    BY <1>0, <1>5 DEF Crash, LogType, logs
  <2>2. PlaceType' /\ WalkType' /\ OnStep'
    BY <1>5, Picked DEF Crash, PlaceType, WalkType, OnStep, Everyone, PCs, Places, NoRow
  <2>3. QED
    BY <1>0, <1>5, <2>1, <2>2, SameRows, SameTenant DEF Crash, Typed
<1>6. CASE UNCHANGED vars
  BY <1>0, <1>1, <1>6, SameRows, SameTenant, SameLogs DEF vars, Typed
<1>7. QED
  BY <1>2, <1>3, <1>4, <1>5, <1>6, FetchTyped, MatchTyped, RejectTyped DEF Next

LEMMA InitTyped == Init => Typed /\ OnStep
<1> SUFFICES ASSUME Init PROVE Typed /\ OnStep
  OBVIOUS
<1>1. RowsType /\ TenantType
  BY Picked DEF Init, RowsType, TenantType, Each, Statuses, Places
<1>2. LogType
  BY DEF Init, LogType, Each, Zero, Counter
<1>3. PlaceType /\ WalkType /\ OnStep
  BY Picked DEF Init, PlaceType, WalkType, OnStep, Everyone, PCs, Places, NoRow
<1>4. QED
  BY <1>1, <1>2, <1>3 DEF Typed

\* Whatever the owner draws and saves while executions are in flight, and however handlers overlap, fail or die,
\* every row, log and local of the flow engine keeps its type: a walk never leaves the steps of the flow it read,
\* and no status outside the enum is written (flow-engine.service.ts).
THEOREM TypeCorrect == Spec => []TypeOK
<1>1. Init => Typed /\ OnStep
  BY InitTyped
<1>2. Typed /\ OnStep /\ [Next]_vars => (Typed /\ OnStep)'
  BY NextTyped
<1>3. QED
  BY <1>1, <1>2, TypeParts, PTL DEF Spec

-----------------------------------------------------------------------------
(* What a message costs, and the one private reply to a comment.            *)

\* The quota is charged once, after the row is created and before the first step.
ChargedOnce ==
    \A x \in Executions :
       /\ charged[x] \in {0, 1}
       /\ status[x] = "none" => charged[x] = 0
       /\ status[x] = "PAUSED" => charged[x] = 1
       /\ \A s \in Steps : delivered[x][s] > 0 => charged[x] = 1

WalkerPaid ==
    \A h \in Handlers :
       /\ pc[h] = "charge" => charged[job[h]] = 0
       /\ pc[h] \in Walking \ {"charge"} => charged[job[h]] = 1

PaidInv == ChargedOnce /\ WalkerPaid

\* A step of the walk that neither charges nor delivers.
Quiet(h) ==
    /\ pc[h] # "charge"
    /\ pc'[h] = "charge" => pc[h] = "create"
    /\ UNCHANGED <<charged, delivered>>

LEMMA HandleQuiet ==
  ASSUME Typed, NEW h \in Handlers, Handle(h), ~Charge(h), ~SendMessage(h)
  PROVE  Quiet(h)
<1>0. pc \in [Handlers -> PCs]
  BY DEF Typed, PlaceType
<1> USE <1>0 DEF At, Goto, Quiet, logs, outside
<1>1. CASE CreateExecution(h) \/ RecordMessage(h) \/ WriteTags(h)
  BY <1>1 DEF CreateExecution, RecordMessage, WriteTags, Advance
<1>2. CASE ReadTags(h)
  BY <1>2 DEF ReadTags, WalksOn, Advance
<1>3. CASE NotifyTeam(h) \/ Branch(h) \/ Wait(h) \/ StopWalking(h)
  BY <1>3 DEF NotifyTeam, Branch, Follow, Wait, StopWalking, WalksOn, Advance
<1>4. CASE Pause(h) \/ Finish(h)
  BY <1>4 DEF Pause, Finish, Leave
<1>5. CASE Claim(h) \/ Connect(h)
  BY <1>5 DEF Claim, Connect, Leave
<1>6. QED
  BY <1>1, <1>2, <1>3, <1>4, <1>5 DEF Handle, RunStep

LEMMA QuietPaid ==
  ASSUME WalkInv, PaidInv, NEW h \in Handlers, Shape(h), Quiet(h)
  PROVE  PaidInv'
<1> USE DEF WalkInv, PaidInv, Shape, Others, Quiet, Shapes
<1>1. CASE Stay(h)
  BY <1>1 DEF Stay, ChargedOnce, WalkerPaid, Walking
<1>2. CASE Left(h) /\ LastWrite(h)
  <2>1. \A x \in Executions : \/ status'[x] = status[x]
                              \/ /\ x = job[h] /\ pc[h] \in Walking
                                 /\ status'[x] \in {"PAUSED", "COMPLETED"}
                              \/ status'[x] = "FAILED"
    BY <1>2 DEF LastWrite
  <2>2. ChargedOnce'
    BY <2>1 DEF ChargedOnce, WalkerPaid
  <2>3. WalkerPaid'
    BY <1>2 DEF Left, WalkerPaid, Walking
  <2>4. QED
    BY <2>2, <2>3
<1>3. CASE Begin(h)
  <2>1. \A x \in Executions : status'[x] = IF x = job[h] THEN "RUNNING" ELSE status[x]
    BY <1>3 DEF Begin
  <2>2. ChargedOnce'
    BY <2>1 DEF ChargedOnce
  <2>3. WalkerPaid'
    BY <1>3 DEF Begin, ChargedOnce, WalkerPaid, CreatorAlone, Walking
  <2>4. QED
    BY <2>2, <2>3
<1>4. QED
  BY <1>1, <1>2, <1>3

LEMMA ChargePaid ==
  ASSUME Typed, WalkInv, PaidInv, NEW h \in Handlers, Charge(h)
  PROVE  PaidInv'
<1>1. /\ pc[h] = "charge" /\ charged[job[h]] = 0 /\ job[h] \in Executions
      /\ charged \in [Executions -> Nat] /\ pc \in [Handlers -> PCs]
  BY DEF Charge, At, PaidInv, WalkerPaid, Typed, LogType, PlaceType
<1>2. /\ charged' = [charged EXCEPT ![job[h]] = 1]
      /\ pc' = [pc EXCEPT ![h] = pc'[h]] /\ pc'[h] \in {"finish", "step"}
      /\ UNCHANGED <<status, delivered, job>>
  BY <1>1 DEF Charge, Goto, execution, outside
<1>3. status[job[h]] # "none"
  BY <1>1 DEF WalkInv, WalkerAlone, Walking
<1>4. ChargedOnce'
  BY <1>1, <1>2, <1>3 DEF PaidInv, ChargedOnce
<1>5. WalkerPaid'
  BY <1>1, <1>2 DEF PaidInv, WalkerPaid, WalkInv, WalkerAlone, Walking
<1>6. QED
  BY <1>4, <1>5 DEF PaidInv

LEMMA SendPaid ==
  ASSUME Typed, WalkInv, PaidInv, NEW h \in Handlers, SendMessage(h)
  PROVE  PaidInv'
<1>1. /\ pc[h] = "step" /\ charged[job[h]] = 1 /\ job[h] \in Executions
      /\ pc \in [Handlers -> PCs]
  BY DEF SendMessage, WalksOn, At, PaidInv, WalkerPaid, Walking, Typed, PlaceType
<1>2. /\ pc'[h] # "charge" /\ \A g \in Handlers \ {h} : pc'[g] = pc[g]
      /\ UNCHANGED <<status, charged, job>>
  BY <1>1 DEF SendMessage, Advance, Goto, execution
<1>3. \A x \in Executions \ {job[h]} : delivered'[x] = delivered[x]
  BY DEF SendMessage, Typed, LogType, Counter
<1>4. ChargedOnce'
  BY <1>1, <1>2, <1>3 DEF PaidInv, ChargedOnce
<1>5. WalkerPaid'
  BY <1>1, <1>2 DEF PaidInv, WalkerPaid
<1>6. QED
  BY <1>4, <1>5 DEF PaidInv

LEMMA NextPaid ==
  ASSUME Typed, WalkInv, PaidInv, [Next]_vars
  PROVE  PaidInv'
<1>0. pc \in [Handlers -> PCs] /\ job \in [Handlers -> Executions]
  BY DEF Typed, PlaceType
<1>1. ASSUME NEW h \in Handlers, Handle(h) PROVE PaidInv'
  BY <1>1, ChargePaid, SendPaid, HandleQuiet, QuietPaid, HandleShape DEF WalkInv
<1>2. ASSUME UNCHANGED <<status, charged, delivered>>,
             \A h \in Handlers : \/ pc'[h] = pc[h] /\ job'[h] = job[h]
                                 \/ pc'[h] \notin Walking
                                 \/ /\ pc[h] \in Walking \ {"charge"} /\ pc'[h] # "charge"
                                    /\ job'[h] = job[h]
      PROVE  PaidInv'
  BY <1>2 DEF PaidInv, ChargedOnce, WalkerPaid, Walking
<1>3. ASSUME NEW h \in Handlers, Reject(h) PROVE PaidInv'
  <2>1. UNCHANGED <<status, charged, delivered>>
    BY <1>3 DEF Reject, execution
  <2>2. CASE Leave(h)
    BY <1>0, <1>2, <2>1, <2>2, LeaveShape DEF WalkInv, Others, Left, Walking
  <2>3. ASSUME pc[h] \in Walking \ {"charge"}, NEW s, Advance(h, s), UNCHANGED job PROVE PaidInv'
    BY <1>0, <1>2, <2>1, <2>3 DEF Advance, Goto
  <2>4. CASE Goto(h, "fail") /\ UNCHANGED job
    BY <1>0, <1>2, <2>1, <2>4 DEF Goto, Walking
  <2>5. QED
    BY <1>3, <2>2, <2>3, <2>4 DEF Reject, WalksOn, At, Walking
<1>4. ASSUME NEW h \in Handlers, Fetch(h) \/ \E x \in Executions : Match(h, x) PROVE PaidInv'
  <2>1. UNCHANGED <<status, charged, delivered>>
    BY <1>4 DEF Fetch, Match, execution, logs, outside
  <2>2. /\ pc'[h] \in {"claim", "create"}
        /\ \A g \in Handlers \ {h} : pc'[g] = pc[g] /\ job'[g] = job[g]
    BY <1>0, <1>4 DEF Fetch, Match, Goto
  <2>3. QED
    BY <1>2, <2>1, <2>2 DEF Walking
<1>5. CASE Crash
  BY <1>2, <1>5 DEF Crash, Everyone, Walking, execution, logs
<1>6. CASE \/ \E x \in Executions : Elapse(x)
           \/ \E g \in Graphs : SaveFlow(g)
           \/ RemoveConnection
           \/ UNCHANGED vars
  BY <1>2, <1>6 DEF Elapse, SaveFlow, RemoveConnection, vars, execution, logs, outside
<1>7. QED
  BY <1>1, <1>3, <1>4, <1>5, <1>6 DEF Next

\* No private reply has been sent to the comment that started x.
NoReplyYet(x) == \A r \in recipients : ~(r.to = x /\ r.by = "comment")

OneReply == \A r, q \in recipients : r.to = q.to /\ r.by = "comment" /\ q.by = "comment" => r = q

\* A handler that still holds the comment has not used it, nor has anybody before it.
ReplyInv ==
    /\ OneReply
    /\ \A x \in Executions : status[x] = "none" => NoReplyYet(x)
    /\ \A h \in Handlers :
          /\ pc[h] = "claim" => ~comment[h]
          /\ pc[h] \in Walking \cup {"create"} /\ comment[h] => NoReplyYet(job[h])

LEMMA ReplyStep ==
  ASSUME Typed, WalkInv, ReplyInv, NEW h \in Handlers, UNCHANGED recipients,
         \A x \in Executions : status'[x] = "none" => status[x] = "none",
         \A g \in Handlers \ {h} : pc'[g] = pc[g] /\ job'[g] = job[g] /\ comment'[g] = comment[g],
         \/ ~comment'[h]
         \/ pc'[h] \notin Walking \cup {"create", "claim"}
         \/ /\ job'[h] = job[h] /\ pc[h] \in Walking \cup {"create", "claim"} /\ pc'[h] # "claim"
            /\ comment[h]
         \/ pc'[h] = "create" /\ NoReplyYet(job'[h])
  PROVE  ReplyInv'
  BY DEF ReplyInv, OneReply, NoReplyYet, Walking

\* Nobody else walks or creates the execution of a walker.
LEMMA Unshared ==
  ASSUME WalkInv, NEW h \in Handlers, pc[h] \in Walking, NEW g \in Handlers \ {h},
         pc[g] \in Walking \cup {"create"}
  PROVE  job[g] # job[h]
  BY DEF WalkInv, WalkerAlone, CreatorAlone

LEMMA SendReplies ==
  ASSUME Typed, WalkInv, ReplyInv, NEW h \in Handlers, SendMessage(h)
  PROVE  ReplyInv'
<1> DEFINE sent == [to |-> job[h], at |-> at[h], by |-> Recipient(h)]
<1>1. /\ pc[h] = "step" /\ pc'[h] \in {"record", "step"}
      /\ \A g \in Handlers \ {h} : pc'[g] = pc[g] /\ comment'[g] = comment[g]
      /\ comment'[h] = (comment[h] /\ psid[h]) /\ UNCHANGED <<status, job>>
      /\ psid[h] \in BOOLEAN /\ comment[h] \in BOOLEAN /\ job[h] \in Executions
  BY DEF SendMessage, WalksOn, At, Advance, Goto, execution, Typed, PlaceType, WalkType
<1>2. recipients' = recipients \cup {sent}
  BY DEF SendMessage
<1>3. sent.to = job[h] /\ (sent.by = "comment" => comment[h] /\ ~psid[h])
  BY <1>1 DEF Recipient
<1>4. sent.by = "comment" => NoReplyYet(job[h])
  BY <1>1, <1>3 DEF ReplyInv, Walking
<1>5. status[job[h]] # "none"
  BY <1>1 DEF WalkInv, WalkerAlone, Walking
<1>6. \A g \in Handlers \ {h} : pc[g] \in Walking \cup {"create"} => job[g] # job[h]
  BY <1>1, Unshared DEF Walking
<1> HIDE DEF sent
<1>7. OneReply'
  BY <1>2, <1>3, <1>4 DEF ReplyInv, OneReply, NoReplyYet
<1>8. \A x \in Executions : NoReplyYet(x) /\ (x # job[h] \/ sent.by # "comment") => NoReplyYet(x)'
  BY <1>2, <1>3 DEF NoReplyYet
<1>9. \A x \in Executions : status'[x] = "none" => NoReplyYet(x)'
  BY <1>1, <1>5, <1>8 DEF ReplyInv
<1>10. ASSUME NEW g \in Handlers, pc'[g] \in Walking \cup {"create"}, comment'[g] PROVE NoReplyYet(job[g])'
  <2>1. job[g] \in Executions /\ pc[g] \in Walking \cup {"create"} /\ comment[g]
    BY <1>1, <1>10 DEF Typed, PlaceType, Walking
  <2>2. NoReplyYet(job[g])
    BY <2>1 DEF ReplyInv
  <2>3. job[g] # job[h] \/ sent.by # "comment"
    BY <1>1, <1>3, <1>6, <1>10, <2>1
  <2>4. \A x \in Executions : x = job[g] => NoReplyYet(x)'
    BY <1>8, <2>2, <2>3
  <2>5. QED
    BY <1>1, <2>1, <2>4 DEF NoReplyYet
<1>11. QED
  BY <1>1, <1>7, <1>9, <1>10 DEF ReplyInv, NoReplyYet

LEMMA HandleReplies ==
  ASSUME Typed, WalkInv, ReplyInv, NEW h \in Handlers, Handle(h)
  PROVE  ReplyInv'
<1>0. /\ pc \in [Handlers -> PCs] /\ job \in [Handlers -> Executions]
      /\ comment \in [Handlers -> BOOLEAN] /\ status \in [Executions -> Statuses]
      /\ \A g \in Handlers \ {h} : pc'[g] = pc[g] /\ job'[g] = job[g]
  BY HandleShape DEF Typed, PlaceType, WalkType, RowsType, WalkInv, Shape, Others
<1>1. CASE SendMessage(h)
  BY <1>1, SendReplies
<1>2. ASSUME UNCHANGED <<recipients, comment, job>>, pc[h] \in Walking \cup {"create", "claim"}, pc'[h] # "claim",
             \A x \in Executions : status'[x] = "none" => status[x] = "none"
      PROVE  ReplyInv'
  BY <1>0, <1>2, ReplyStep
<1>3. ASSUME UNCHANGED recipients, Leave(h), \A x \in Executions : status'[x] = "none" => status[x] = "none"
      PROVE  ReplyInv'
  <2>1. comment'[h] = FALSE /\ \A g \in Handlers \ {h} : comment'[g] = comment[g]
    BY <1>0, <1>3 DEF Leave, Walk
  <2>2. QED
    BY <1>0, <1>3, <2>1, ReplyStep
<1> USE DEF execution, outside, walk, At, Goto, Walking
<1>4. CASE CreateExecution(h) \/ Charge(h)
  BY <1>0, <1>2, <1>4 DEF CreateExecution, Charge
<1>5. CASE RecordMessage(h) \/ WriteTags(h)
  BY <1>0, <1>2, <1>5 DEF RecordMessage, WriteTags, Advance
<1>6. CASE ReadTags(h)
  BY <1>0, <1>2, <1>6 DEF ReadTags, WalksOn, Advance
<1>7. CASE NotifyTeam(h) \/ Branch(h) \/ Wait(h) \/ StopWalking(h)
  BY <1>0, <1>2, <1>7 DEF NotifyTeam, Branch, Follow, Wait, StopWalking, WalksOn, Advance
<1>8. CASE Pause(h) \/ Finish(h)
  BY <1>0, <1>3, <1>8 DEF Pause, Finish
<1>9. CASE Claim(h) \/ Connect(h)
  BY <1>0, <1>2, <1>3, <1>9 DEF Claim, Connect
<1>10. QED
  BY <1>1, <1>4, <1>5, <1>6, <1>7, <1>8, <1>9 DEF Handle, RunStep

LEMMA NextReplies ==
  ASSUME Typed, WalkInv, ReplyInv, [Next]_vars
  PROVE  ReplyInv'
<1>0. /\ pc \in [Handlers -> PCs] /\ job \in [Handlers -> Executions]
      /\ comment \in [Handlers -> BOOLEAN]
  BY DEF Typed, PlaceType, WalkType
<1>1. ASSUME NEW h \in Handlers, Reject(h) PROVE ReplyInv'
  <2>1. UNCHANGED <<status, recipients>>
    BY <1>1 DEF Reject, execution
  <2>2. CASE Leave(h)
    BY <1>0, <2>1, <2>2, ReplyStep DEF Leave, Goto, Walk
  <2>3. ASSUME pc[h] \in Walking, NEW s, Advance(h, s), UNCHANGED <<job, comment>> PROVE ReplyInv'
    BY <1>0, <2>1, <2>3, ReplyStep DEF Advance, Goto, Walking
  <2>4. CASE Goto(h, "fail") /\ UNCHANGED <<job, comment>>
    BY <1>0, <2>1, <2>4, ReplyStep DEF Goto, Walking
  <2>5. QED
    BY <1>1, <2>2, <2>3, <2>4 DEF Reject, WalksOn, At, Walking, walk
<1>2. ASSUME NEW h \in Handlers, Fetch(h) PROVE ReplyInv'
  BY <1>0, <1>2, ReplyStep DEF Fetch, Goto, Walk, execution, outside
<1>3. ASSUME NEW h \in Handlers, NEW x \in Executions, Match(h, x) PROVE ReplyInv'
  <2>1. /\ pc'[h] = "create" /\ job'[h] = x /\ status[x] = "none" /\ UNCHANGED <<status, recipients>>
        /\ \A g \in Handlers \ {h} : pc'[g] = pc[g] /\ job'[g] = job[g] /\ comment'[g] = comment[g]
    BY <1>0, <1>3 DEF Match, Goto, Walk, execution, outside
  <2>2. NoReplyYet(job'[h])
    BY <2>1 DEF ReplyInv
  <2>3. QED
    BY <2>1, <2>2, ReplyStep
<1>4. CASE Crash
  BY <1>4 DEF Crash, Everyone, Walking, execution, ReplyInv, OneReply, NoReplyYet
<1>5. CASE \/ \E x \in Executions : Elapse(x)
           \/ \E g \in Graphs : SaveFlow(g)
           \/ RemoveConnection
           \/ UNCHANGED vars
  BY <1>5 DEF Elapse, SaveFlow, RemoveConnection, vars, execution, outside, walk, ReplyInv, OneReply, NoReplyYet
<1>6. QED
  BY <1>1, <1>2, <1>3, <1>4, <1>5, HandleReplies DEF Next

\* The credit that startExecution takes covers every message of the execution, whichever cron run resumes it and
\* whatever fails in between, and sendDm answers a comment privately once: the comment id is spent before the
\* answer is known, and the variables an execution is parked with do not bring it back.
THEOREM LawfulSends == Spec => []SendsAreLawful
<1>1. Init => Typed /\ OnStep /\ WalkInv
  BY InitTyped, InitWalk
<1>2. Init => PaidInv /\ ReplyInv
  BY DEF Init, PaidInv, ChargedOnce, WalkerPaid, ReplyInv, OneReply, NoReplyYet, Everyone, Each, Zero, Walking
<1>3. (Typed /\ OnStep /\ WalkInv /\ PaidInv /\ ReplyInv) /\ [Next]_vars
        => (Typed /\ OnStep /\ WalkInv /\ PaidInv /\ ReplyInv)'
  BY NextTyped, WalkStep, NextPaid, NextReplies
<1>4. Typed /\ PaidInv /\ ReplyInv => SendsAreLawful
  BY DEF PaidInv, ChargedOnce, ReplyInv, OneReply, SendsAreLawful
<1>5. QED
  BY <1>1, <1>2, <1>3, <1>4, PTL DEF Spec

-----------------------------------------------------------------------------
(* While no database call rejects and the process stays up.                 *)

Busy == Walking \cup {"fail"}

\* Who is busy with an execution is alone with it, and it is RUNNING; who is RUNNING has somebody busy with it.
BusyInv ==
    \A h \in Handlers : pc[h] \in Busy =>
        /\ status[job[h]] = "RUNNING"
        /\ \A g \in Handlers : pc[g] \in Busy /\ job[g] = job[h] => g = h

AliveInv ==
    \A x \in Executions : status[x] = "RUNNING" => \E h \in Handlers : job[h] = x /\ pc[h] \in Busy

\* What a handler's step is then: it goes on, makes its last write, gives up a claim, or begins.
LastWriteOf(h) ==
    /\ pc[h] \in Busy /\ Left(h)
    /\ \E v \in {"PAUSED", "COMPLETED", "FAILED"} : status' = [status EXCEPT ![job[h]] = v]

BusyShape(h) ==
    \/ Stay(h) /\ pc[h] \in Busy /\ pc'[h] \in Busy
    \/ LastWriteOf(h)
    \/ pc[h] = "claim" /\ Left(h) /\ UNCHANGED status
    \/ Begin(h)

LEMMA HandleBusy ==
  ASSUME Shapes, NEW h \in Handlers, Handle(h)
  PROVE  BusyShape(h)
<1>0. Shape(h)
  BY HandleShape
<1> USE DEF At, PCs, Walking, Busy, execution, BusyShape
<1>1. CASE Charge(h)
  BY <1>1, GotoShape DEF Charge, Stay
<1>2. CASE SendMessage(h)
  BY <1>2, GotoShape DEF SendMessage, Stay, WalksOn, Advance
<1>3. CASE RecordMessage(h) \/ WriteTags(h)
  BY <1>3, GotoShape DEF RecordMessage, WriteTags, Stay, Advance
<1>4. CASE ReadTags(h)
  BY <1>4, GotoShape DEF ReadTags, Stay, WalksOn, Advance
<1>5. CASE NotifyTeam(h) \/ Wait(h) \/ StopWalking(h) \/ Connect(h)
  BY <1>5, GotoShape DEF NotifyTeam, Wait, StopWalking, Connect, Stay, WalksOn, Advance
<1>6. CASE Branch(h)
  BY <1>6, GotoShape DEF Branch, Follow, Stay, WalksOn, Advance
<1>7. CASE Pause(h) \/ Finish(h)
  BY <1>7, LeaveShape DEF Pause, Finish, LastWriteOf
<1>8. CASE CreateExecution(h)
  BY <1>8, GotoShape DEF CreateExecution, Begin
<1>9. CASE Claim(h)
  BY <1>9, GotoShape, LeaveShape DEF Claim, Begin
<1>10. QED
  BY <1>1, <1>2, <1>3, <1>4, <1>5, <1>6, <1>7, <1>8, <1>9 DEF Handle, RunStep

LEMMA HandleAlive ==
  ASSUME WalkInv, BusyInv, AliveInv, NEW h \in Handlers, Handle(h)
  PROVE  BusyInv' /\ AliveInv'
<1>0. BusyShape(h) /\ Shape(h) /\ Shapes
  BY HandleBusy, HandleShape DEF WalkInv
<1>1. \A g \in Handlers \ {h} : pc'[g] = pc[g] /\ job'[g] = job[g]
  BY <1>0 DEF Shape, Others
<1>2. job[h] \in Executions /\ \A g \in Handlers : job[g] \in Executions
  BY <1>0 DEF Shapes
<1> USE DEF Busy, Walking
<1>3. CASE Stay(h) /\ pc[h] \in Busy /\ pc'[h] \in Busy
  <2>1. UNCHANGED <<status, job>> /\ \A g \in Handlers : pc'[g] \in Busy <=> pc[g] \in Busy
    BY <1>1, <1>3 DEF Stay
  <2>2. QED
    BY <2>1 DEF BusyInv, AliveInv
<1>4. CASE LastWriteOf(h)
  <2>1. /\ pc[h] \in Busy /\ pc'[h] \notin Busy
        /\ \A x \in Executions : IF x = job[h] THEN status'[x] # "RUNNING" ELSE status'[x] = status[x]
    BY <1>0, <1>2, <1>4 DEF LastWriteOf, Left, Shapes
  <2>2. \A g \in Handlers \ {h} : pc[g] \in Busy => job[g] # job[h]
    BY <2>1 DEF BusyInv
  <2>3. QED
    BY <1>1, <1>2, <2>1, <2>2 DEF BusyInv, AliveInv
<1>5. CASE pc[h] = "claim" /\ Left(h) /\ UNCHANGED status
  <2>1. pc[h] \notin Busy /\ pc'[h] \notin Busy
    BY <1>5 DEF Left
  <2>2. QED
    BY <1>1, <1>5, <2>1 DEF BusyInv, AliveInv
<1>6. CASE Begin(h)
  <2>1. status[job[h]] \in {"none", "PAUSED"}
    BY <1>6 DEF Begin, WalkInv, CreatorAlone
  <2>2. \A g \in Handlers : pc[g] \in Busy => job[g] # job[h]
    BY <2>1 DEF BusyInv
  <2>3. /\ pc'[h] \in Busy /\ job' = job
        /\ \A x \in Executions : status'[x] = IF x = job[h] THEN "RUNNING" ELSE status[x]
    BY <1>0, <1>6 DEF Begin, Shapes
  <2>4. BusyInv'
    BY <1>1, <1>2, <2>2, <2>3 DEF BusyInv
  <2>5. AliveInv'
    BY <1>1, <1>2, <2>2, <2>3, <1>6 DEF AliveInv, Begin
  <2>6. QED
    BY <2>4, <2>5
<1>7. QED
  BY <1>0, <1>3, <1>4, <1>5, <1>6 DEF BusyShape

LEMMA HandleCounts ==
  ASSUME NEW h \in Handlers, Handle(h)
  PROVE  faults' = faults
<1> USE DEF outside
<1>1. CASE RunStep(h)
  BY <1>1 DEF RunStep, SendMessage, RecordMessage, ReadTags, WriteTags, NotifyTeam, Branch, Wait, Pause, StopWalking
<1>2. CASE CreateExecution(h) \/ Charge(h) \/ Finish(h) \/ Claim(h) \/ Connect(h)
  BY <1>2 DEF CreateExecution, Charge, Finish, Claim, Connect
<1>3. QED
  BY <1>1, <1>2 DEF Handle

\* Only a rejected call and a crash are counted, and nothing is forgotten.
LEMMA FaultsCounted ==
  ASSUME Typed, [Next]_vars, faults' = 0
  PROVE  faults = 0 /\ ~Crash /\ \A h \in Handlers : ~Reject(h)
<1>1. faults \in Nat
  BY DEF Typed, LogType
<1>2. faults' \in {faults, faults + 1}
  BY HandleCounts DEF Next, Reject, Fetch, Match, Elapse, SaveFlow, RemoveConnection, Crash, vars, outside
<1>3. faults = 0 /\ ~(faults' = faults + 1)
  BY <1>1, <1>2
<1>4. QED
  BY <1>3 DEF Crash, Reject

LEMMA NextAlive ==
  ASSUME Typed, WalkInv, BusyInv, AliveInv, [Next]_vars, faults' = 0
  PROVE  BusyInv' /\ AliveInv'
<1>0. pc \in [Handlers -> PCs] /\ job \in [Handlers -> Executions]
  BY DEF Typed, PlaceType
<1>1. ASSUME UNCHANGED status,
             \A h \in Handlers : \/ pc'[h] = pc[h] /\ job'[h] = job[h]
                                 \/ pc[h] \notin Busy /\ pc'[h] \notin Busy
      PROVE  BusyInv' /\ AliveInv'
  BY <1>1 DEF BusyInv, AliveInv
<1>2. ASSUME NEW h \in Handlers, Fetch(h) \/ \E x \in Executions : Match(h, x) PROVE BusyInv' /\ AliveInv'
  <2>1. UNCHANGED status /\ pc[h] = "idle" /\ pc'[h] \in {"claim", "create"}
        /\ \A g \in Handlers \ {h} : pc'[g] = pc[g] /\ job'[g] = job[g]
    BY <1>0, <1>2 DEF Fetch, Match, Goto, At, execution
  <2>2. QED
    BY <1>1, <2>1 DEF Busy, Walking
<1>3. CASE \/ \E x \in Executions : Elapse(x)
           \/ \E g \in Graphs : SaveFlow(g)
           \/ RemoveConnection
           \/ UNCHANGED vars
  BY <1>1, <1>3 DEF Elapse, SaveFlow, RemoveConnection, vars, execution
<1>4. QED
  BY <1>2, <1>3, HandleAlive, FaultsCounted DEF Next

Steady == faults = 0 => BusyInv /\ AliveInv

LEMMA SteadyBox == Spec => [](Typed /\ OnStep /\ WalkInv /\ Steady)
<1>1. Init => Typed /\ OnStep /\ WalkInv
  BY InitTyped, InitWalk
<1>2. Init => Steady
  BY DEF Init, Steady, BusyInv, AliveInv, Busy, Walking, Everyone, Each
<1>3. (Typed /\ OnStep /\ WalkInv /\ Steady) /\ [Next]_vars => Steady'
  <2> SUFFICES ASSUME Typed, WalkInv, Steady, [Next]_vars, faults' = 0 PROVE BusyInv' /\ AliveInv'
    BY DEF Steady
  <2>1. faults = 0
    BY FaultsCounted
  <2>2. QED
    BY <2>1, NextAlive DEF Steady
<1>4. (Typed /\ OnStep /\ WalkInv /\ Steady) /\ [Next]_vars => (Typed /\ OnStep /\ WalkInv /\ Steady)'
  BY <1>3, NextTyped, WalkStep
<1>5. QED
  BY <1>1, <1>2, <1>4, PTL DEF Spec

\* Until a database call rejects or the process dies, no execution is left RUNNING with nobody walking it: every
\* return of runSteps and every path of resumeDueExecutions, the catch included, ends in a write of the status.
THEOREM NeverAbandoned == Spec => [](faults = 0 => RunningIsAlive)
<1>1. Steady => (faults = 0 => RunningIsAlive)
  BY DEF Steady, AliveInv, RunningIsAlive, Walks, Busy, Walking, At
<1>2. QED
  BY <1>1, SteadyBox, PTL

\* What a handler writes while nothing fails: the status of an execution it is busy with, or one it begins.
LEMMA HandleKeepsEnd ==
  ASSUME WalkInv, BusyInv, NEW h \in Handlers, Handle(h),
         NEW x \in Executions, status[x] \in {"COMPLETED", "FAILED"}
  PROVE  status'[x] = status[x]
<1>1. BusyShape(h) /\ Shapes
  BY HandleBusy DEF WalkInv
<1>2. CASE LastWriteOf(h)
  BY <1>1, <1>2 DEF LastWriteOf, BusyInv, Shapes
<1>3. CASE Begin(h)
  BY <1>1, <1>3 DEF Begin, WalkInv, CreatorAlone, Shapes
<1>4. QED
  BY <1>1, <1>2, <1>3 DEF BusyShape, Stay

\* While the database answers and the process stays up, COMPLETED and FAILED are final: a handler that writes a
\* status is the one that set it RUNNING, so the cron's catch never overwrites the end of an execution somebody
\* else walked.
THEOREM EndIsFinal ==
  ASSUME MaxFaults = 0
  PROVE  Spec => Lifecycle
<1>1. Typed /\ [Next]_vars /\ faults = 0 => (faults = 0)'
  <2> SUFFICES ASSUME Typed, [Next]_vars, faults = 0, faults' # 0 PROVE FALSE
    OBVIOUS
  <2>1. ~(faults < MaxFaults)
    OBVIOUS
  <2>2. ~Crash /\ \A h \in Handlers : ~Reject(h)
    BY <2>1 DEF Crash, Reject
  <2>3. \A h \in Handlers : ~Handle(h)
    BY HandleCounts
  <2>4. QED
    BY <2>2, <2>3 DEF Next, Fetch, Match, Elapse, SaveFlow, RemoveConnection, vars, outside
<1>2. ASSUME Typed, WalkInv, Steady, faults = 0, [Next]_vars,
             NEW x \in Executions, status[x] \in {"COMPLETED", "FAILED"}
      PROVE  status'[x] = status[x]
  <2>1. faults' = 0 /\ BusyInv
    BY <1>1, <1>2 DEF Steady
  <2>2. QED
    BY <1>2, <2>1, FaultsCounted, HandleKeepsEnd
       DEF Next, Fetch, Match, Elapse, SaveFlow, RemoveConnection, vars, execution
<1>3. Typed /\ WalkInv /\ Steady /\ faults = 0 /\ [Next]_vars
        => [\A x \in Executions : status[x] \in {"COMPLETED", "FAILED"} => status'[x] = status[x]]_vars
  BY <1>2
<1>4. Init => faults = 0
  BY DEF Init
<1>5. QED
  BY <1>1, <1>3, <1>4, SteadyBox, PTL DEF Spec, Lifecycle
=============================================================================

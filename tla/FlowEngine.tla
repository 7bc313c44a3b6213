----------------------------- MODULE FlowEngine -----------------------------
(***************************************************************************)
(* FlowEngineService: an event starts an execution of a flow, a handler    *)
(* walks its steps, a WAIT_DELAY parks it in the database, and the cron    *)
(* that fires every minute, whether or not its previous run has ended,     *)
(* claims what is due and walks on.  An action is the code between two     *)
(* awaits; what a handler read earlier it keeps in its own variables.      *)
(***************************************************************************)
EXTENDS Naturals, Sequences, FiniteSets

CONSTANTS
    Executions,      \* the executions events may start
    Customer,        \* whose event starts an execution
    FromComment,     \* whether it is a comment
    Tags,
    Steps,           \* step ids
    NoStep,          \* the null of nextStepId
    NoTag,           \* a step without a tag
    Graphs,          \* what the owner may save: [first, node]
    Hooks,           \* webhook handlers
    Crons,           \* runs of the cron that may overlap
    Take,            \* how many executions a cron run fetches
    MaxHops,         \* MAX_STEPS_PER_RUN
    MaxContacts,     \* maxSubscribers of the plan
    MaxFaults,       \* bound on rejected database calls and crashes
    MayCrash,        \* whether the process may die
    MayDisconnect    \* whether the connection may be removed

Handlers == Hooks \cup Crons
Customers == {Customer[x] : x \in Executions}
Sending == {"send"}
Tagging == {"addtag", "removetag"}
Types == Sending \cup Tagging \cup {"notify", "wait", "branch", "tagbranch"}
Node == [type: Types, tag: Tags \cup {NoTag},
         next: Steps \cup {NoStep}, yes: Steps \cup {NoStep}, no: Steps \cup {NoStep}]

ASSUME GraphsAssumption ==
    /\ NoStep \notin Steps /\ NoTag \notin Tags
    /\ Graphs # {}
    /\ \A g \in Graphs :
          /\ g.first \in Steps \cup {NoStep}
          /\ DOMAIN g.node \subseteq Steps
          /\ \A s \in DOMAIN g.node : g.node[s] \in Node

ASSUME HandlersAssumption ==
    /\ Hooks \cap Crons = {}
    /\ Executions # {}
    /\ FromComment \in [Executions -> BOOLEAN]
    /\ Take \in Nat \ {0} /\ MaxHops \in Nat /\ MaxContacts \in Nat
    /\ MaxFaults \in Nat /\ MayCrash \in BOOLEAN /\ MayDisconnect \in BOOLEAN

VARIABLES
    \* PostgreSQL: FlowExecution
    status, current, savedPsid, due,
    \* PostgreSQL: the flow's steps, Subscriber rows, the connection
    graph, contacts, connected,
    \* AuditLog rows, FlowExecutionLog rows and Message rows, per execution
    charged, ran, recorded,
    \* what customers and the team got
    delivered, recipients, notices,
    faults,
    \* the handlers
    pc, job, at, hops, seen, psid, comment, batch, held

execution == <<status, current, savedPsid, due>>
tenant == <<graph, contacts, connected>>
logs == <<charged, ran, recorded>>
outside == <<delivered, recipients, notices, faults>>
walk == <<at, hops, seen, psid, comment, held>>
vars == <<execution, tenant, logs, outside, pc, job, batch, walk>>

PCs == {"idle", "create", "charge", "step", "record", "write", "pause",
        "finish", "claim", "connect", "fail"}

SomeExecution == CHOOSE x \in Executions : TRUE
NoRow == [row |-> 0, tags |-> {}]
Snapshot == [job: Executions, at: Steps \cup {NoStep}, psid: BOOLEAN, seen: Graphs]
Counter == [Executions -> [Steps -> Nat]]

TypeOK ==
    /\ status \in [Executions -> {"none", "RUNNING", "PAUSED", "COMPLETED", "FAILED"}]
    /\ current \in [Executions -> Steps \cup {NoStep}]
    /\ savedPsid \in [Executions -> BOOLEAN]
    /\ due \in [Executions -> BOOLEAN]
    /\ graph \in Graphs
    /\ contacts \in Seq([who: Customers, tags: SUBSET Tags])
    /\ connected \in BOOLEAN
    /\ charged \in [Executions -> Nat]
    /\ ran \in Counter /\ recorded \in Counter /\ delivered \in Counter
    /\ recipients \subseteq [to: Executions, at: Steps, by: {"psid", "comment", "customer"}]
    /\ notices \in [Executions -> Nat]
    /\ faults \in Nat
    /\ pc \in [Handlers -> PCs]
    /\ job \in [Handlers -> Executions]
    /\ at \in [Handlers -> Steps \cup {NoStep}]
    /\ hops \in [Handlers -> Nat]
    /\ seen \in [Handlers -> Graphs]
    /\ psid \in [Handlers -> BOOLEAN]
    /\ comment \in [Handlers -> BOOLEAN]
    /\ batch \in [Handlers -> SUBSET Snapshot]
    /\ held \in [Handlers -> [row: Nat, tags: SUBSET Tags]]

SomeGraph == CHOOSE g \in Graphs : TRUE
Everyone(v) == [h \in Handlers |-> v]
Each(v) == [x \in Executions |-> v]
Zero == Each([s \in Steps |-> 0])

Init ==
    /\ status = Each("none") /\ current = Each(NoStep)
    /\ savedPsid = Each(FALSE) /\ due = Each(FALSE)
    /\ graph = SomeGraph /\ contacts = << >> /\ connected = TRUE
    /\ charged = Each(0) /\ ran = Zero /\ recorded = Zero
    /\ delivered = Zero /\ recipients = {} /\ notices = Each(0) /\ faults = 0
    /\ pc = Everyone("idle") /\ job = Everyone(SomeExecution)
    /\ at = Everyone(NoStep) /\ hops = Everyone(0) /\ seen = Everyone(SomeGraph)
    /\ psid = Everyone(FALSE) /\ comment = Everyone(FALSE)
    /\ batch = Everyone({}) /\ held = Everyone(NoRow)

-----------------------------------------------------------------------------
(* Moving through a handler                                                *)

At(h, l) == pc[h] = l
Goto(h, l) == pc' = [pc EXCEPT ![h] = l]

\* The locals of runSteps.
Walk(h, step, graphSeen, knowsPsid, hasComment) ==
    /\ at' = [at EXCEPT ![h] = step]
    /\ hops' = [hops EXCEPT ![h] = 0]
    /\ seen' = [seen EXCEPT ![h] = graphSeen]
    /\ psid' = [psid EXCEPT ![h] = knowsPsid]
    /\ comment' = [comment EXCEPT ![h] = hasComment]
    /\ held' = [held EXCEPT ![h] = NoRow]

\* The handler is done with its execution; a cron run takes the next row of
\* what it fetched, as it was when fetched.
Leave(h) ==
    \/ /\ batch[h] = {}
       /\ Goto(h, "idle")
       /\ job' = [job EXCEPT ![h] = SomeExecution]
       /\ Walk(h, NoStep, SomeGraph, FALSE, FALSE)
       /\ UNCHANGED batch
    \/ \E row \in batch[h] :
          /\ Goto(h, "claim")
          /\ job' = [job EXCEPT ![h] = row.job]
          /\ batch' = [batch EXCEPT ![h] = @ \ {row}]
          /\ Walk(h, row.at, row.seen, row.psid, FALSE)

\* The step is logged and the walk goes on at s.
Advance(h, s) ==
    /\ ran' = [ran EXCEPT ![job[h]][at[h]] = @ + 1]
    /\ at' = [at EXCEPT ![h] = s]
    /\ Goto(h, "step")

StepHere(h) == seen[h].node[at[h]]

-----------------------------------------------------------------------------
(* processEvent and startExecution                                         *)

\* An event matches a trigger of the flow, whose steps are read here.
Match(h, x) ==
    /\ h \in Hooks /\ At(h, "idle")
    /\ status[x] = "none" /\ \A g \in Hooks : job[g] = x => At(g, "idle")
    /\ Goto(h, "create")
    /\ job' = [job EXCEPT ![h] = x]
    /\ Walk(h, graph.first, graph, ~FromComment[x], FromComment[x])
    /\ UNCHANGED <<execution, tenant, logs, outside, batch>>

CreateExecution(h) ==
    /\ At(h, "create")
    /\ status' = [status EXCEPT ![job[h]] = "RUNNING"]
    /\ current' = [current EXCEPT ![job[h]] = at[h]]
    /\ savedPsid' = [savedPsid EXCEPT ![job[h]] = psid[h]]
    /\ Goto(h, "charge")
    /\ UNCHANGED <<due, tenant, logs, outside, job, batch, walk>>

\* Seeded fault: the quota is charged when the first message is sent.
ChargeLater(h) ==
    /\ At(h, "charge")
    /\ Goto(h, "step")
    /\ UNCHANGED <<execution, tenant, logs, outside, job, batch, walk>>

\* FLOW_TRIGGERED; a flow whose trigger leads nowhere is completed at once.
Charge(h) ==
    /\ At(h, "charge")
    /\ charged' = [charged EXCEPT ![job[h]] = @ + 1]
    /\ Goto(h, IF at[h] = NoStep THEN "finish" ELSE "step")
    /\ UNCHANGED <<execution, tenant, ran, recorded, outside, job, batch, walk>>

-----------------------------------------------------------------------------
(* runSteps                                                                *)

\* The loop condition, and the step found among those read with the flow.
WalksOn(h, types) ==
    /\ At(h, "step")
    /\ hops[h] < MaxHops
    /\ at[h] \in DOMAIN seen[h].node
    /\ StepHere(h).type \in types
    /\ hops' = [hops EXCEPT ![h] = @ + 1]

\* Seeded fault: the walk returns without its last write.
StopSilently(h) ==
    /\ At(h, "step")
    /\ hops[h] >= MaxHops \/ at[h] \notin DOMAIN seen[h].node
    /\ Leave(h)
    /\ UNCHANGED <<execution, tenant, logs, outside>>

StopWalking(h) ==
    /\ At(h, "step")
    /\ hops[h] >= MaxHops \/ at[h] \notin DOMAIN seen[h].node
    /\ Goto(h, "finish")
    /\ UNCHANGED <<execution, tenant, logs, outside, job, batch, walk>>

Recipient(h) == CASE psid[h]                  -> "psid"
                  [] ~psid[h] /\ comment[h]  -> "comment"
                  [] ~psid[h] /\ ~comment[h] -> "customer"

\* The comment id serves once, also for a send that fails; a delivery tells
\* the PSID.  A platform may deliver and yet report a failure.
SendMessage(h) ==
    /\ WalksOn(h, Sending)
    /\ \E outcome \in {"ok", "failed", "timeout"} :
          /\ IF outcome = "failed"
             THEN UNCHANGED delivered
             ELSE delivered' = [delivered EXCEPT ![job[h]][at[h]] = @ + 1]
          /\ psid' = [psid EXCEPT ![h] = @ \/ outcome = "ok"]
          /\ IF outcome = "ok"
             THEN Goto(h, "record") /\ UNCHANGED <<ran, at>>
             ELSE Advance(h, StepHere(h).next)
    /\ recipients' = recipients \cup {[to |-> job[h], at |-> at[h], by |-> Recipient(h)]}
    /\ comment' = [comment EXCEPT ![h] = @ /\ psid[h]]
    /\ UNCHANGED <<execution, tenant, charged, recorded, notices, faults,
                   job, batch, seen, held>>

\* The conversation went with the connection.
RecordMessage(h) ==
    /\ At(h, "record")
    /\ recorded' = IF connected THEN [recorded EXCEPT ![job[h]][at[h]] = @ + 1] ELSE recorded
    /\ Advance(h, StepHere(h).next)
    /\ UNCHANGED <<execution, tenant, charged, outside, job, batch,
                   hops, seen, psid, comment, held>>

Tagged(h) == StepHere(h).tag # NoTag

\* applyTag reads a row of the customer, findFirst in no order, and creates one
\* if the plan has room; a step without a tag is skipped ...
RowsOfCustomer(h) == {i \in DOMAIN contacts : contacts[i].who = Customer[job[h]]}

ReadTags(h) ==
    /\ WalksOn(h, Tagging)
    /\ IF Tagged(h) /\ RowsOfCustomer(h) # {}
       THEN /\ \E i \in RowsOfCustomer(h) :
                  held' = [held EXCEPT ![h] = [row |-> i, tags |-> contacts[i].tags]]
            /\ Goto(h, "write")
            /\ UNCHANGED <<contacts, ran, at>>
       ELSE IF Tagged(h) /\ StepHere(h).type = "addtag" /\ Len(contacts) < MaxContacts
       THEN /\ contacts' = Append(contacts, [who |-> Customer[job[h]], tags |-> {}])
            /\ held' = [held EXCEPT ![h] = [row |-> Len(contacts) + 1, tags |-> {}]]
            /\ Goto(h, "write")
            /\ UNCHANGED <<ran, at>>
       ELSE Advance(h, StepHere(h).next) /\ UNCHANGED <<contacts, held>>
    /\ UNCHANGED <<execution, graph, connected, charged, recorded, outside,
                   job, batch, seen, psid, comment>>

\* ... and writes back all tags as it read them, one added or removed.
WriteTags(h) ==
    /\ At(h, "write")
    /\ LET tags == IF StepHere(h).type = "addtag"
                   THEN held[h].tags \cup {StepHere(h).tag}
                   ELSE held[h].tags \ {StepHere(h).tag}
       IN  contacts' = [contacts EXCEPT ![held[h].row].tags = tags]
    /\ held' = [held EXCEPT ![h] = NoRow]
    /\ Advance(h, StepHere(h).next)
    /\ UNCHANGED <<execution, graph, connected, charged, recorded, outside,
                   job, batch, hops, seen, psid, comment>>

NotifyTeam(h) ==
    /\ WalksOn(h, {"notify"})
    /\ notices' = [notices EXCEPT ![job[h]] = @ + 1]
    /\ Advance(h, StepHere(h).next)
    /\ UNCHANGED <<execution, tenant, charged, recorded, delivered, recipients,
                   faults, job, batch, seen, psid, comment, held>>

\* Keyword, platform and time conditions are the environment's choice; a tag
\* condition reads a row of the customer.
Follow(h, matched) == Advance(h, IF matched THEN StepHere(h).yes ELSE StepHere(h).no)

Branch(h) ==
    /\ \/ WalksOn(h, {"branch"}) /\ \E matched \in BOOLEAN : Follow(h, matched)
       \/ WalksOn(h, {"tagbranch"}) /\ RowsOfCustomer(h) = {} /\ Follow(h, FALSE)
       \/ /\ WalksOn(h, {"tagbranch"})
          /\ \E i \in RowsOfCustomer(h) : Follow(h, StepHere(h).tag \in contacts[i].tags)
    /\ UNCHANGED <<execution, tenant, charged, recorded, outside, job, batch,
                   seen, psid, comment, held>>

\* WAIT_DELAY is logged before the execution is parked.
Wait(h) ==
    /\ WalksOn(h, {"wait"})
    /\ ran' = [ran EXCEPT ![job[h]][at[h]] = @ + 1]
    /\ Goto(h, IF StepHere(h).next = NoStep THEN "finish" ELSE "pause")
    /\ UNCHANGED <<execution, tenant, charged, recorded, outside, job, batch,
                   at, seen, psid, comment, held>>

\* Seeded fault: a status the enum does not have.
PauseWaiting(h) ==
    /\ At(h, "pause")
    /\ status' = [status EXCEPT ![job[h]] = "WAITING"]
    /\ Leave(h)
    /\ UNCHANGED <<current, savedPsid, due, tenant, logs, outside>>

\* The comment id is not among the variables kept.
Pause(h) ==
    /\ At(h, "pause")
    /\ status' = [status EXCEPT ![job[h]] = "PAUSED"]
    /\ current' = [current EXCEPT ![job[h]] = StepHere(h).next]
    /\ savedPsid' = [savedPsid EXCEPT ![job[h]] = psid[h]]
    /\ due' = [due EXCEPT ![job[h]] = FALSE]
    /\ Leave(h)
    /\ UNCHANGED <<tenant, logs, outside>>

Finish(h) ==
    /\ pc[h] \in {"finish", "fail"}
    /\ status' = [status EXCEPT ![job[h]] = IF At(h, "fail") THEN "FAILED" ELSE "COMPLETED"]
    /\ current' = [current EXCEPT ![job[h]] = NoStep]
    /\ due' = [due EXCEPT ![job[h]] = FALSE]
    /\ Leave(h)
    /\ UNCHANGED <<savedPsid, tenant, logs, outside>>

-----------------------------------------------------------------------------
(* resumeDueExecutions                                                     *)

DueNow == {x \in Executions : status[x] = "PAUSED" /\ due[x]}
RowOf(x) == [job |-> x, at |-> current[x], psid |-> savedPsid[x], seen |-> graph]

\* Seeded fault: only a full batch is fetched.
FetchFullOnly(h) ==
    /\ h \in Crons /\ At(h, "idle")
    /\ \E some \in SUBSET DueNow :
          /\ Cardinality(some) = Take
          /\ \E x \in some :
                /\ Goto(h, "claim")
                /\ job' = [job EXCEPT ![h] = x]
                /\ batch' = [batch EXCEPT ![h] = {RowOf(y) : y \in some \ {x}}]
                /\ Walk(h, current[x], graph, savedPsid[x], FALSE)
    /\ UNCHANGED <<execution, tenant, logs, outside>>

Fetch(h) ==
    /\ h \in Crons /\ At(h, "idle")
    /\ \E some \in SUBSET DueNow :
          /\ some # {}
          /\ Cardinality(some) = Take \/ (some = DueNow /\ Cardinality(some) <= Take)
          /\ \E x \in some :
                /\ Goto(h, "claim")
                /\ job' = [job EXCEPT ![h] = x]
                /\ batch' = [batch EXCEPT ![h] = {RowOf(y) : y \in some \ {x}}]
                /\ Walk(h, current[x], graph, savedPsid[x], FALSE)
    /\ UNCHANGED <<execution, tenant, logs, outside>>

\* Seeded fault: the claim does not check the status again.
ClaimAnyway(h) ==
    /\ At(h, "claim")
    /\ status' = [status EXCEPT ![job[h]] = "RUNNING"]
    /\ due' = [due EXCEPT ![job[h]] = FALSE]
    /\ Goto(h, "connect")
    /\ UNCHANGED <<current, savedPsid, tenant, logs, outside, job, batch, walk>>

\* updateMany where status is still PAUSED; pausedUntil is not checked again,
\* and what was fetched is not read again.
Claim(h) ==
    /\ At(h, "claim")
    /\ IF status[job[h]] = "PAUSED"
       THEN /\ status' = [status EXCEPT ![job[h]] = "RUNNING"]
            /\ due' = [due EXCEPT ![job[h]] = FALSE]
            /\ Goto(h, "connect")
            /\ UNCHANGED <<job, batch, walk>>
       ELSE Leave(h) /\ UNCHANGED <<status, due>>
    /\ UNCHANGED <<current, savedPsid, tenant, logs, outside>>

\* Seeded fault: an execution whose connection is gone is skipped.
ConnectOrSkip(h) ==
    /\ At(h, "connect")
    /\ IF connected /\ at[h] # NoStep
       THEN Goto(h, "step") /\ UNCHANGED <<job, batch, walk>>
       ELSE Leave(h)
    /\ UNCHANGED <<execution, tenant, logs, outside>>

Connect(h) ==
    /\ At(h, "connect")
    /\ Goto(h, IF connected /\ at[h] # NoStep THEN "step" ELSE "fail")
    /\ UNCHANGED <<execution, tenant, logs, outside, job, batch, walk>>

-----------------------------------------------------------------------------
(* The environment                                                         *)

\* pausedUntil passes.
Elapse(x) ==
    /\ status[x] = "PAUSED" /\ ~due[x]
    /\ due' = [due EXCEPT ![x] = TRUE]
    /\ UNCHANGED <<status, current, savedPsid, tenant, logs, outside,
                   pc, job, batch, walk>>

\* saveFlow replaces the steps in one transaction, executions in flight or not.
SaveFlow(g) ==
    /\ g # graph
    /\ graph' = g
    /\ UNCHANGED <<execution, contacts, connected, logs, outside, pc, job, batch, walk>>

\* The owner removes the channel.
RemoveConnection ==
    /\ MayDisconnect /\ connected
    /\ connected' = FALSE
    /\ UNCHANGED <<execution, graph, contacts, logs, outside, pc, job, batch, walk>>

\* A database call rejects.  Inside a step it is logged and the walk goes on
\* along Next, from a WAIT_DELAY too; finishExecution swallows it; the cron's
\* catch marks the execution FAILED, whoever has claimed it; processEvent's
\* catch drops the event.
Reject(h) ==
    /\ faults < MaxFaults
    /\ faults' = faults + 1
    /\ \/ /\ pc[h] \in {"record", "write", "pause"}
          /\ Advance(h, StepHere(h).next)
          /\ held' = [held EXCEPT ![h] = NoRow]
          /\ UNCHANGED <<job, batch, hops, seen, psid, comment>>
       \/ /\ WalksOn(h, Tagging \cup {"notify", "tagbranch"})
          /\ StepHere(h).type = "notify" \/ Tagged(h)
          /\ Advance(h, StepHere(h).next)
          /\ UNCHANGED <<job, batch, seen, psid, comment, held>>
       \/ /\ pc[h] \in {"create", "charge", "finish", "fail"}
          /\ Leave(h)
          /\ UNCHANGED ran
       \/ /\ pc[h] \in {"claim", "connect"}
          /\ Goto(h, "fail")
          /\ UNCHANGED <<ran, job, batch, walk>>
    /\ UNCHANGED <<execution, tenant, charged, recorded, delivered, recipients, notices>>

\* The process dies and starts again; only PAUSED executions are resumed.
Crash ==
    /\ MayCrash /\ faults < MaxFaults
    /\ faults' = faults + 1
    /\ \E h \in Handlers : pc[h] # "idle"
    /\ pc' = Everyone("idle") /\ job' = Everyone(SomeExecution)
    /\ at' = Everyone(NoStep) /\ hops' = Everyone(0) /\ seen' = Everyone(SomeGraph)
    /\ psid' = Everyone(FALSE) /\ comment' = Everyone(FALSE)
    /\ batch' = Everyone({}) /\ held' = Everyone(NoRow)
    /\ UNCHANGED <<execution, tenant, logs, delivered, recipients, notices>>

RunStep(h) ==
    \/ SendMessage(h) \/ RecordMessage(h) \/ ReadTags(h) \/ WriteTags(h)
    \/ NotifyTeam(h) \/ Branch(h) \/ Wait(h) \/ Pause(h) \/ StopWalking(h)

Handle(h) ==
    \/ CreateExecution(h) \/ Charge(h) \/ RunStep(h) \/ Finish(h)
    \/ Claim(h) \/ Connect(h)

Next ==
    \/ \E h \in Handlers :
          \/ Handle(h) \/ Fetch(h) \/ Reject(h)
          \/ \E x \in Executions : Match(h, x)
    \/ \E x \in Executions : Elapse(x)
    \/ \E g \in Graphs : SaveFlow(g)
    \/ RemoveConnection
    \/ Crash

Spec == Init /\ [][Next]_vars

\* Awaits are answered, and the cron fires every minute.
FairSpec == Spec /\ \A h \in Handlers : WF_vars(Handle(h)) /\ WF_vars(Fetch(h))

-----------------------------------------------------------------------------
(* Safety                                                                  *)

\* Between CreateExecution or Claim and the last write: the handler walks x.
Walks(h, x) ==
    /\ job[h] = x
    /\ pc[h] \in {"charge", "step", "record", "write", "pause", "finish", "connect"}

\* However cron runs overlap, fail or die, an execution is walked by one handler
\* at a time, and nobody can claim it meanwhile.
OneWalker ==
    \A h \in Handlers, x \in Executions : Walks(h, x) =>
        /\ status[x] # "PAUSED"
        /\ \A g \in Handlers : Walks(g, x) => g = h

\* The steps a walk may come back to, as every set closed under the edges shows.
Follows(s) ==
    UNION {{g.node[s].next, g.node[s].yes, g.node[s].no} :
              g \in {f \in Graphs : s \in DOMAIN f.node}} \ {NoStep}
Repeating ==
    {s \in Steps : \A T \in SUBSET Steps :
        (Follows(s) \subseteq T /\ \A t \in T : Follows(t) \subseteq T) => s \in T}

\* Overlapping runs never run "the same steps - and [send] the same DM - twice",
\* unless the owner drew a cycle through them.
StepOnce ==
    \A x \in Executions, s \in Steps \ Repeating :
        ran[x][s] <= 1 /\ delivered[x][s] <= 1

\* "Never leave an execution stuck in RUNNING": somebody walks it or is about to
\* mark it.
RunningIsAlive ==
    \A x \in Executions : status[x] = "RUNNING" =>
        \E h \in Handlers : Walks(h, x) \/ (job[h] = x /\ At(h, "fail"))

\* "Flow sends draw from the same anti-ban/monthly pool": nothing is delivered before the execution is charged, and
\* it is charged once; and of its messages one at most goes out as the private reply that a comment may have
\* (sendDm), whoever walks it and however the first attempt ended.
SendsAreLawful ==
    /\ \A x \in Executions : /\ charged[x] <= 1
                             /\ (\E s \in Steps : delivered[x][s] > 0) => charged[x] = 1
    /\ \A r, q \in recipients : r.to = q.to /\ r.by = "comment" /\ q.by = "comment" => r = q

\* COMPLETED and FAILED are final while no database call fails.
Lifecycle ==
    [][\A x \in Executions : status[x] \in {"COMPLETED", "FAILED"}
                               => status'[x] = status[x]]_vars

-----------------------------------------------------------------------------
(* Liveness                                                                *)

\* A walk ends, cycles in the graph or not.
WalkEnds == \A x \in Executions : status[x] = "RUNNING" ~> status[x] # "RUNNING"

\* A due execution is resumed.
DueIsResumed ==
    \A x \in Executions : status[x] = "PAUSED" /\ due[x] ~> ~(status[x] = "PAUSED" /\ due[x])
=============================================================================

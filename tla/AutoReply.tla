----------------------------- MODULE AutoReply -----------------------------
(***************************************************************************)
(* The Meta (Facebook / Instagram) side of WebhooksService: what happens   *)
(* between the delivery of a comment, a direct message or a story          *)
(* interaction and the last database row its handler writes.               *)
(*                                                                         *)
(* Every webhook delivery is handled by an asynchronous handler; Node      *)
(* switches between handlers at each `await`, so an action below is the    *)
(* code between two awaits whose order other handlers can observe.  The    *)
(* handlers share the PostgreSQL tables; what a handler read before an     *)
(* await and uses after it is kept in its own local variables.             *)
(***************************************************************************)
EXTENDS Integers, Sequences, FiniteSets

CONSTANTS
    Handlers,        \* the handlers that may run at the same time
    Events,          \* the webhook items Meta may deliver
    Users,           \* customers of the connected page
    EventInfo,       \* what an event carries: [kind, user, origin, hasId]
    Rules,           \* the AutoReplyRule rows of the tenant
    RuleShape,       \* what a rule sends: [sequence, public, private]
    NoRule,          \* no rule matched
    MaxPerHour,      \* maxRepliesPerHour of the plan, or Unlimited
    MaxPerMonth,     \* maxRepliesPerMonth of the plan, or Unlimited
    MaxSubscribers,  \* maxSubscribers of the plan, or Unlimited
    HourWindow,      \* clock units in the rolling hour of the throttle
    DmWindow,        \* clock units in the rolling 24 hours of the DM limit
    MonthLength,     \* clock units in a calendar month
    MaxClock,        \* bound on the clock
    MaxDeliveries,   \* bound on how often Meta delivers each event
    FeaturesOn,      \* which of Features occur
    MayAbort,        \* whether an await may reject, or the process die
    MayTimeout       \* whether Graph may deliver and yet report a failure

Unlimited == -1
Kinds == {"comment", "dm", "story"}
Sources == {"rule", "story", "dmrule", "flow", "ai", "fallback"}
CountedActions == {"RULE_TRIGGERED", "AI_REPLY_SENT", "FLOW_TRIGGERED"}
Actions == CountedActions \cup {"RULE_SKIPPED_QUOTA", "RULE_SKIPPED_24H_DM_LIMIT"}
Features == {"flow", "ai", "fallback", "intent", "suspend"}

ASSUME RulesAssumption ==
    /\ NoRule \notin Rules
    /\ RuleShape \in [Rules -> [sequence: BOOLEAN, public: BOOLEAN, private: Nat]]
    /\ \A r \in Rules : ~RuleShape[r].sequence => RuleShape[r].private \in {0, 1}

ASSUME EventsAssumption ==
    EventInfo \in [Events -> [kind: Kinds, user: Users,
                              origin: {"customer", "own", "unknown"},
                              hasId: BOOLEAN]]

ASSUME BoundsAssumption ==
    /\ \A m \in {MaxPerHour, MaxPerMonth, MaxSubscribers} : m \in Nat \cup {Unlimited}
    /\ \A n \in {HourWindow, DmWindow, MonthLength} : n \in Nat \ {0}
    /\ MaxClock \in Nat /\ MaxDeliveries \in [Events -> Nat]
    /\ IsFiniteSet(Handlers) /\ Handlers # {} /\ Events # {}
    /\ FeaturesOn \subseteq Features
    /\ MayAbort \in BOOLEAN /\ MayTimeout \in BOOLEAN

VARIABLES
    \* PostgreSQL
    dedup,           \* WebhookDeduplication.eventId
    conv,            \* Conversation of a customer; "hot" = purchaseIntent
    contacts,        \* Subscriber rows, oldest first
    inbound,         \* INBOUND Message rows recorded for an event
    lastAuto,        \* when the latest row signed by the rule bot was written
    auditLog,        \* AuditLog rows, in order
    triggerCount,    \* AutoReplyRule.triggerCount
    suspended,       \* Tenant.isSuspended
    \* what customers and the owner have received
    answers,         \* automatic replies the platform delivered
    alerts,          \* buying-intent notifications per customer
    \* the environment
    clock,
    deliveries,      \* how often an event was delivered
    \* history: what the properties except by name
    beaten,          \* events dropped because another handler created the conversation
    cut,             \* events whose handler ended between the dedup row and the inbound row
    offGate,         \* events with a private message that the 24-hour gate does not see
    \* the handlers
    pc, ev, rule, canDm, sent, seenIntent

ingest == <<dedup, conv, contacts, inbound, beaten>>
replies == <<lastAuto, auditLog, triggerCount>>
world == <<suspended, alerts, clock, deliveries, cut, offGate>>
locals == <<ev, rule, canDm, sent, seenIntent>>
vars == <<ingest, replies, world, answers, pc, locals>>

NoTime == -1
SomeEvent == CHOOSE e \in Events : TRUE   \* what an idle handler's ev holds

PCs == {"idle", "dedup", "claim", "lookup", "find", "create", "contact",
        "addcontact", "touch", "save",
        "quota", "gate", "count", "public", "pubrecord", "private",
        "privrecord", "audit",
        "flow", "flowstart",
        "ai", "aisend", "aiaudit",
        "story", "storygate", "storysend", "intent",
        "dmrule", "dmgate", "dmsend", "dmrecord", "dmcount",
        "fallback", "fallai", "falltext"}

\* Past the deduplication and before the INBOUND row.
Unsaved == {"lookup", "find", "create", "contact", "addcontact", "touch", "save"}

IngestType ==
    /\ dedup \subseteq Events
    /\ conv \in [Users -> {"none", "open", "hot"}]
    /\ contacts \in Seq(Users)
    /\ inbound \in [Events -> Nat]
    /\ beaten \subseteq Events

AuditRow == [action: Actions, event: Events, rule: Rules \cup {NoRule}, at: Nat]

RepliesType ==
    /\ lastAuto \in [Users -> Nat \cup {NoTime}]
    /\ auditLog \in Seq(AuditRow)
    /\ triggerCount \in [Rules -> Nat]

WorldType ==
    /\ suspended \in BOOLEAN
    /\ alerts \in [Users -> Nat]
    /\ clock \in Nat
    /\ deliveries \in [Events -> Nat]
    /\ cut \subseteq Events /\ offGate \subseteq Events

AnswersType == answers \subseteq [event: Events, by: Sources, dm: BOOLEAN, at: Nat]

HandlersType ==
    /\ pc \in [Handlers -> PCs]
    /\ ev \in [Handlers -> Events]
    /\ rule \in [Handlers -> Rules \cup {NoRule}]
    /\ canDm \in [Handlers -> BOOLEAN]
    /\ sent \in [Handlers -> Nat]
    /\ seenIntent \in [Handlers -> BOOLEAN]

TypeOK == IngestType /\ RepliesType /\ WorldType /\ AnswersType /\ HandlersType

Init ==
    /\ dedup = {}
    /\ conv = [u \in Users |-> "none"]
    /\ contacts = << >>
    /\ inbound = [e \in Events |-> 0]
    /\ lastAuto = [u \in Users |-> NoTime]
    /\ auditLog = << >>
    /\ triggerCount = [r \in Rules |-> 0]
    /\ suspended = FALSE
    /\ answers = {}
    /\ alerts = [u \in Users |-> 0]
    /\ clock = 0
    /\ deliveries = [e \in Events |-> 0]
    /\ beaten = {} /\ cut = {} /\ offGate = {}
    /\ pc = [h \in Handlers |-> "idle"]
    /\ ev = [h \in Handlers |-> SomeEvent]
    /\ rule = [h \in Handlers |-> NoRule]
    /\ canDm = [h \in Handlers |-> FALSE]
    /\ sent = [h \in Handlers |-> 0]
    /\ seenIntent = [h \in Handlers |-> FALSE]

-----------------------------------------------------------------------------
(* Helpers shared by the handlers                                          *)

Kind(h) == EventInfo[ev[h]].kind
User(h) == EventInfo[ev[h]].user

At(h, l) == pc[h] = l
Goto(h, l) == pc' = [pc EXCEPT ![h] = l]

\* The handler returns (or its exception is swallowed): its locals are gone.
Finish(h) ==
    /\ Goto(h, "idle")
    /\ ev' = [ev EXCEPT ![h] = SomeEvent]
    /\ rule' = [rule EXCEPT ![h] = NoRule]
    /\ canDm' = [canDm EXCEPT ![h] = FALSE]
    /\ sent' = [sent EXCEPT ![h] = 0]
    /\ seenIntent' = [seenIntent EXCEPT ![h] = FALSE]

Continue(h, l) == Goto(h, l) /\ UNCHANGED locals

\* hasReplyQuota: a suspended tenant has none; otherwise both the rolling
\* hour and the calendar month must have room.
Used(since) == Cardinality({i \in DOMAIN auditLog :
                              /\ auditLog[i].action \in CountedActions
                              /\ auditLog[i].at >= since})
UsedLastHour == Used(clock - HourWindow + 1)
UsedThisMonth == Used((clock \div MonthLength) * MonthLength)
\* Seeded fault: only rule triggers are charged to the shared pool.
HasReplyQuotaRulesOnly ==
    LET used == Cardinality({i \in DOMAIN auditLog :
                               auditLog[i].action = "RULE_TRIGGERED"
                               /\ auditLog[i].at >= clock - HourWindow + 1})
    IN  ~suspended /\ (MaxPerHour # Unlimited => used < MaxPerHour)

HasReplyQuota ==
    /\ ~suspended
    /\ MaxPerHour # Unlimited => UsedLastHour < MaxPerHour
    /\ MaxPerMonth # Unlimited => UsedThisMonth < MaxPerMonth

\* hasRecentAutomatedTriggerDm: any OUTBOUND row signed by the rule bot in
\* the last 24 hours, whatever its messageType.
RecentAuto(u) == lastAuto[u] # NoTime /\ clock - lastAuto[u] < DmWindow

WriteAudit(h, action) ==
    auditLog' = Append(auditLog, [action |-> action, event |-> ev[h],
                                  rule |-> rule[h], at |-> clock])

\* The three ways a Graph call can end, as the caller and the customer see it.
Outcomes == {"ok", "failed"} \cup (IF MayTimeout THEN {"timeout"} ELSE {})
Deliver(h, outcome, by, dm) ==
    answers' = IF outcome = "failed" THEN answers
               ELSE answers \cup {[event |-> ev[h], by |-> by, dm |-> dm, at |-> clock]}

\* History: the gate learns of a private message only from the row that follows
\* a send reported as "ok", and the legacy path does not ask it.
Bypass(h, is) == offGate' = IF is THEN offGate \cup {ev[h]} ELSE offGate
WorldExceptGate == <<suspended, alerts, clock, deliveries, cut>>

\* Message.create with sentByName of the rule bot
RecordAuto(h) == lastAuto' = [lastAuto EXCEPT ![User(h)] = clock]

\* Seeded fault: the counter moves the wrong way.
CountTriggerDown(h) == triggerCount' = [triggerCount EXCEPT ![rule[h]] = @ - 1]

CountTrigger(h) == triggerCount' = [triggerCount EXCEPT ![rule[h]] = @ + 1]

-----------------------------------------------------------------------------
(* Ingestion: deduplication, conversation, contact, inbound message.       *)

\* Meta delivers an event, for the first time or again.
Receive(h, e) ==
    /\ At(h, "idle")
    /\ deliveries[e] < MaxDeliveries[e]
    /\ deliveries' = [deliveries EXCEPT ![e] = @ + 1]
    /\ ev' = [ev EXCEPT ![h] = e]
    /\ Goto(h, IF EventInfo[e].hasId THEN "dedup" ELSE "lookup")
    /\ UNCHANGED <<ingest, replies, answers, suspended, alerts, clock, cut, offGate,
                   rule, canDm, sent, seenIntent>>

DedupFind(h) ==
    /\ At(h, "dedup")
    /\ IF ev[h] \in dedup THEN Finish(h) ELSE Continue(h, "claim")
    /\ UNCHANGED <<ingest, replies, world, answers>>

\* Seeded fault: the row is upserted, so nobody loses the race.
DedupUpsert(h) ==
    /\ At(h, "claim")
    /\ Continue(h, "lookup")
    /\ dedup' = dedup \cup {ev[h]}
    /\ UNCHANGED <<conv, contacts, inbound, beaten, replies, world, answers>>

\* eventId is unique: the loser of a race gets P2002 and skips the event.
DedupCreate(h) ==
    /\ At(h, "claim")
    /\ IF ev[h] \in dedup
       THEN Finish(h) /\ UNCHANGED dedup
       ELSE Continue(h, "lookup") /\ dedup' = dedup \cup {ev[h]}
    /\ UNCHANGED <<conv, contacts, inbound, beaten, replies, world, answers>>

\* Connection lookup, the own-comment check and, for a comment, the choice
\* of a rule among the rows read here (used only several awaits later).
Lookup(h) ==
    /\ At(h, "lookup")
    /\ IF \/ EventInfo[ev[h]].origin = "unknown"
          \/ EventInfo[ev[h]].origin = "own" /\ Kind(h) = "comment"
       THEN Finish(h)
       ELSE /\ Goto(h, "find")
            /\ \E r \in IF Kind(h) = "comment" THEN Rules \cup {NoRule} ELSE {NoRule} :
                   rule' = [rule EXCEPT ![h] = r]
            /\ UNCHANGED <<ev, canDm, sent, seenIntent>>
    /\ UNCHANGED <<ingest, replies, world, answers>>

\* Seeded fault: the conversation is created without looking for it.
FindNothing(h) ==
    /\ At(h, "find")
    /\ Continue(h, "create")
    /\ UNCHANGED <<ingest, replies, world, answers>>

FindConversation(h) ==
    /\ At(h, "find")
    /\ Continue(h, IF conv[User(h)] = "none" THEN "create" ELSE "touch")
    /\ UNCHANGED <<ingest, replies, world, answers>>

\* (connectionId, customerId) is unique: if another handler created the row
\* meanwhile, create() throws and the per-item catch swallows the event.
CreateConversation(h) ==
    /\ At(h, "create")
    /\ IF conv[User(h)] = "none"
       THEN /\ conv' = [conv EXCEPT ![User(h)] = "open"]
            /\ Continue(h, IF Kind(h) = "comment" THEN "save" ELSE "contact")
            /\ UNCHANGED beaten
       ELSE Finish(h) /\ beaten' = beaten \cup {ev[h]} /\ UNCHANGED conv
    /\ UNCHANGED <<dedup, contacts, inbound, replies, world, answers>>

\* Seeded fault: off by one at the subscriber limit.
FindContactOffByOne(h) ==
    /\ At(h, "contact")
    /\ IF \/ \E i \in DOMAIN contacts : contacts[i] = User(h)
          \/ MaxSubscribers # Unlimited /\ Len(contacts) > MaxSubscribers
       THEN Continue(h, "save")
       ELSE Continue(h, "addcontact")
    /\ UNCHANGED <<ingest, replies, world, answers>>

\* upsertContactSubscriber: findFirst and the plan limit ...
FindContact(h) ==
    /\ At(h, "contact")
    /\ IF \/ \E i \in DOMAIN contacts : contacts[i] = User(h)
          \/ MaxSubscribers # Unlimited /\ Len(contacts) >= MaxSubscribers
       THEN Continue(h, "save")
       ELSE Continue(h, "addcontact")
    /\ UNCHANGED <<ingest, replies, world, answers>>

\* ... then create(); Subscriber has no unique constraint to lose against.
CreateContact(h) ==
    /\ At(h, "addcontact")
    /\ contacts' = Append(contacts, User(h))
    /\ Continue(h, "save")
    /\ UNCHANGED <<dedup, conv, inbound, beaten, replies, world, answers>>

\* conversation.update returns the row: purchaseIntent is read here.
TouchConversation(h) ==
    /\ At(h, "touch")
    /\ Goto(h, "save")
    /\ seenIntent' = [seenIntent EXCEPT ![h] = conv[User(h)] = "hot"]
    /\ UNCHANGED <<ev, rule, canDm, sent, ingest, replies, world, answers>>

\* Seeded fault: the row is left to the branch that answers the event.
SaveNothing(h) ==
    /\ At(h, "save")
    /\ Continue(h, IF Kind(h) = "comment" /\ rule[h] # NoRule THEN "quota" ELSE "flow")
    /\ UNCHANGED <<ingest, replies, world, answers>>

\* The INBOUND Message row; then the branch that answers the event.
SaveInbound(h) ==
    /\ At(h, "save")
    /\ inbound' = [inbound EXCEPT ![ev[h]] = @ + 1]
    /\ Continue(h, CASE Kind(h) = "comment" /\ rule[h] # NoRule -> "quota"
                     [] Kind(h) = "comment" /\ rule[h] = NoRule -> "flow"
                     [] Kind(h) = "story"                       -> "story"
                     [] Kind(h) = "dm"                          -> "intent")
    /\ UNCHANGED <<dedup, conv, contacts, beaten, replies, world, answers>>

-----------------------------------------------------------------------------
(* executeRule: the answer of a comment rule.                              *)

RuleQuota(h) ==
    /\ At(h, "quota")
    /\ IF HasReplyQuota
       THEN Continue(h, "gate") /\ UNCHANGED auditLog
       ELSE Finish(h) /\ WriteAudit(h, "RULE_SKIPPED_QUOTA")
    /\ UNCHANGED <<ingest, lastAuto, triggerCount, world, answers>>

RuleGate(h) ==
    /\ At(h, "gate")
    /\ canDm' = [canDm EXCEPT ![h] = ~RecentAuto(User(h))]
    /\ IF RecentAuto(User(h))
       THEN WriteAudit(h, "RULE_SKIPPED_24H_DM_LIMIT")
       ELSE UNCHANGED auditLog
    /\ Goto(h, "count")
    /\ UNCHANGED <<ev, rule, sent, seenIntent, ingest, lastAuto, triggerCount,
                   world, answers>>

\* Seeded fault: a match inside the 24-hour window is not counted.
RuleCountIfDm(h) ==
    /\ At(h, "count")
    /\ IF canDm[h] THEN CountTrigger(h) ELSE UNCHANGED triggerCount
    /\ Continue(h, "public")
    /\ UNCHANGED <<ingest, lastAuto, auditLog, world, answers>>

\* triggerCount counts matches: it moves before anything is sent.
RuleCount(h) ==
    /\ At(h, "count")
    /\ CountTrigger(h)
    /\ Continue(h, "public")
    /\ UNCHANGED <<ingest, lastAuto, auditLog, world, answers>>

PublicReply(h) ==
    /\ At(h, "public")
    /\ IF RuleShape[rule[h]].public
       THEN \E outcome \in Outcomes :
               /\ Deliver(h, outcome, "rule", FALSE)
               /\ Continue(h, IF outcome = "ok" THEN "pubrecord" ELSE "private")
       ELSE Continue(h, "private") /\ UNCHANGED answers
    /\ UNCHANGED <<ingest, replies, world>>

PublicRecord(h) ==
    /\ At(h, "pubrecord")
    /\ RecordAuto(h)
    /\ Continue(h, "private")
    /\ UNCHANGED <<ingest, auditLog, triggerCount, world, answers>>

\* Seeded fault: the gate is forgotten in the loop as well.
MoreToSendUngated(h) == sent[h] < RuleShape[rule[h]].private

\* The loop over replyMessages runs only while canSendAutomatedDm; the
\* legacy privateText / privateMedia path does not look at it.
MoreToSend(h) ==
    /\ sent[h] < RuleShape[rule[h]].private
    /\ RuleShape[rule[h]].sequence => canDm[h]

PrivateSend(h) ==
    /\ At(h, "private")
    /\ IF MoreToSend(h)
       THEN \E outcome \in Outcomes :
               /\ Deliver(h, outcome, "rule", TRUE)
               /\ Goto(h, IF outcome = "ok" THEN "privrecord" ELSE "private")
               /\ Bypass(h, outcome = "timeout" \/ ~RuleShape[rule[h]].sequence)
               /\ sent' = [sent EXCEPT ![h] = @ + 1]
       ELSE Goto(h, "audit") /\ UNCHANGED <<sent, answers, offGate>>
    /\ UNCHANGED <<ev, rule, canDm, seenIntent, ingest, replies, WorldExceptGate>>

PrivateRecord(h) ==
    /\ At(h, "privrecord")
    /\ RecordAuto(h)
    /\ Continue(h, "private")
    /\ UNCHANGED <<ingest, auditLog, triggerCount, world, answers>>

\* Last, and whatever the sends returned.  Also ends handleStoryEvent and
\* handleDmAutoReply, which get here only after a successful send.
RuleAudit(h) ==
    /\ At(h, "audit")
    /\ WriteAudit(h, "RULE_TRIGGERED")
    /\ Finish(h)
    /\ UNCHANGED <<ingest, lastAuto, triggerCount, world, answers>>

-----------------------------------------------------------------------------
(* FlowEngineService.processEvent as the webhook sees it: whether a flow    *)
(* took the event.  Its steps are the subject of module FlowEngine.         *)

FlowMatch(h) ==
    /\ At(h, "flow")
    /\ \E matched \in IF "flow" \in FeaturesOn THEN BOOLEAN ELSE {FALSE} :
          Continue(h, CASE matched /\ HasReplyQuota -> "flowstart"
                        [] ~(matched /\ HasReplyQuota) /\ Kind(h) = "comment" -> "ai"
                        [] ~(matched /\ HasReplyQuota) /\ Kind(h) # "comment" -> "dmrule")
    /\ UNCHANGED <<ingest, replies, world, answers>>

\* Seeded fault: the caller ignores that a flow took the event.
FlowStartUnheeded(h) ==
    /\ At(h, "flowstart")
    /\ WriteAudit(h, "FLOW_TRIGGERED")
    /\ \E outcome \in Outcomes : Deliver(h, outcome, "flow", TRUE)
    /\ Continue(h, IF Kind(h) = "comment" THEN "ai" ELSE "dmrule")
    /\ UNCHANGED <<ingest, lastAuto, triggerCount, world>>

\* startExecution charges the quota first and then runs the steps, which
\* may or may not send something.
FlowStart(h) ==
    /\ At(h, "flowstart")
    /\ WriteAudit(h, "FLOW_TRIGGERED")
    /\ \E outcome \in Outcomes : Deliver(h, outcome, "flow", TRUE)
    /\ Finish(h)
    /\ UNCHANGED <<ingest, lastAuto, triggerCount, world>>

-----------------------------------------------------------------------------
(* maybeAiReply: the AI answer to a comment no rule and no flow took.      *)

AiQuota(h) ==
    /\ At(h, "ai")
    /\ IF "ai" \in FeaturesOn /\ HasReplyQuota THEN Continue(h, "aisend") ELSE Finish(h)
    /\ UNCHANGED <<ingest, replies, world, answers>>

\* An empty generated reply ends the handler like a failed send.  The Message
\* row written on success is signed by the AI, not by the rule bot, so it
\* does not move lastAuto.
AiSend(h) ==
    /\ At(h, "aisend")
    /\ \E outcome \in Outcomes :
          /\ Deliver(h, outcome, "ai", FALSE)
          /\ IF outcome = "ok" THEN Continue(h, "aiaudit") ELSE Finish(h)
    /\ UNCHANGED <<ingest, replies, world>>

AiAudit(h) ==
    /\ At(h, "aiaudit")
    /\ WriteAudit(h, "AI_REPLY_SENT")
    /\ Finish(h)
    /\ UNCHANGED <<ingest, lastAuto, triggerCount, world, answers>>

-----------------------------------------------------------------------------
(* handleStoryEvent, detectPurchaseIntent, handleDmAutoReply and           *)
(* maybeDmFallback: the answer to a direct message.                        *)

\* A rule has a text for a direct message unless it is a pure sequence.
HasText(r) == RuleShape[r].public \/ (~RuleShape[r].sequence /\ RuleShape[r].private > 0)

StoryMatch(h) ==
    /\ At(h, "story")
    /\ \/ /\ Continue(h, "intent")          \* no STORY_REPLY / STORY_MENTION rule
          /\ UNCHANGED auditLog
       \/ \E r \in Rules :
             IF HasReplyQuota
             THEN /\ rule' = [rule EXCEPT ![h] = r]
                  /\ Goto(h, "storygate")
                  /\ UNCHANGED <<auditLog, ev, canDm, sent, seenIntent>>
             ELSE /\ auditLog' = Append(auditLog, [action |-> "RULE_SKIPPED_QUOTA",
                                       event |-> ev[h], rule |-> r, at |-> clock])
                  /\ Continue(h, "intent")
    /\ UNCHANGED <<ingest, lastAuto, triggerCount, world, answers>>

StoryGate(h) ==
    /\ At(h, "storygate")
    /\ IF RecentAuto(User(h))
       THEN WriteAudit(h, "RULE_SKIPPED_24H_DM_LIMIT") /\ Finish(h)
       ELSE /\ Continue(h, "storysend")
            /\ UNCHANGED auditLog
    /\ UNCHANGED <<ingest, lastAuto, triggerCount, world, answers>>

\* Without a text, or when Graph reports a failure, the story counts as not
\* handled and the direct-message path takes over.
StorySend(h) ==
    /\ At(h, "storysend")
    /\ \E outcome \in IF HasText(rule[h]) THEN Outcomes ELSE {"failed"} :
          /\ Deliver(h, outcome, "story", TRUE)
          /\ Bypass(h, outcome = "timeout")
          /\ IF outcome = "ok"
             THEN Continue(h, "dmrecord")
             ELSE /\ Goto(h, "intent")
                  /\ rule' = [rule EXCEPT ![h] = NoRule]
                  /\ UNCHANGED <<ev, canDm, sent, seenIntent>>
    /\ UNCHANGED <<ingest, replies, WorldExceptGate>>

\* The flag tested is the one read with the conversation, awaits ago.
DetectIntent(h) ==
    /\ At(h, "intent")
    /\ \E hot \in IF "intent" \in FeaturesOn THEN BOOLEAN ELSE {FALSE} :
          IF hot /\ ~seenIntent[h]
          THEN /\ conv' = [conv EXCEPT ![User(h)] = "hot"]
               /\ alerts' = [alerts EXCEPT ![User(h)] = @ + 1]
          ELSE UNCHANGED <<conv, alerts>>
    /\ Continue(h, "flow")
    /\ UNCHANGED <<dedup, contacts, inbound, beaten, replies, suspended, clock,
                   deliveries, cut, offGate, answers>>

DmMatch(h) ==
    /\ At(h, "dmrule")
    /\ \/ Continue(h, "fallback")  \* dmRulesEnabled off, or no rule matched
       \/ \E r \in Rules :
             IF HasText(r) /\ HasReplyQuota
             THEN /\ rule' = [rule EXCEPT ![h] = r]
                  /\ Goto(h, "dmgate")
                  /\ UNCHANGED <<ev, canDm, sent, seenIntent>>
             ELSE Continue(h, "fallback")
    /\ UNCHANGED <<ingest, replies, world, answers>>

DmGate(h) ==
    /\ At(h, "dmgate")
    /\ IF RecentAuto(User(h)) THEN Finish(h) ELSE Continue(h, "dmsend")
    /\ UNCHANGED <<ingest, replies, world, answers>>

DmSend(h) ==
    /\ At(h, "dmsend")
    /\ \E outcome \in Outcomes :
          /\ Deliver(h, outcome, "dmrule", TRUE)
          /\ IF outcome = "ok"
             THEN Continue(h, "dmrecord")
             ELSE /\ Goto(h, "fallback")
                  /\ rule' = [rule EXCEPT ![h] = NoRule]
                  /\ UNCHANGED <<ev, canDm, sent, seenIntent>>
    /\ UNCHANGED <<ingest, replies, world>>

DmRecord(h) ==
    /\ At(h, "dmrecord")
    /\ RecordAuto(h)
    /\ Continue(h, "dmcount")
    /\ UNCHANGED <<ingest, auditLog, triggerCount, world, answers>>

DmCount(h) ==
    /\ At(h, "dmcount")
    /\ CountTrigger(h)
    /\ Continue(h, "audit")
    /\ UNCHANGED <<ingest, lastAuto, auditLog, world, answers>>

Fallback(h) ==
    /\ At(h, "fallback")
    /\ IF RecentAuto(User(h)) \/ ~HasReplyQuota
       THEN Finish(h)
       ELSE Continue(h, "fallai")
    /\ UNCHANGED <<ingest, replies, world, answers>>

FallbackAi(h) ==
    /\ At(h, "fallai")
    /\ \E outcome \in IF "ai" \in FeaturesOn THEN Outcomes ELSE {"failed"} :
          /\ Deliver(h, outcome, "ai", TRUE)
          /\ Continue(h, IF outcome = "ok" THEN "aiaudit" ELSE "falltext")
    /\ UNCHANGED <<ingest, replies, world>>

\* The fixed text is sent and recorded, signed neither by the rule bot nor
\* in the audit log.
FallbackText(h) ==
    /\ At(h, "falltext")
    /\ \E outcome \in IF "fallback" \in FeaturesOn THEN Outcomes ELSE {"failed"} :
          Deliver(h, outcome, "fallback", TRUE)
    /\ Finish(h)
    /\ UNCHANGED <<ingest, replies, world>>

-----------------------------------------------------------------------------
(* The environment                                                         *)

\* A database call rejects (the per-item catch logs and moves on), or the
\* process dies: either way nothing resumes this handler.
Abort(h) ==
    /\ MayAbort
    /\ pc[h] # "idle"
    /\ Finish(h)
    /\ cut' = IF pc[h] \in Unsaved THEN cut \cup {ev[h]} ELSE cut
    /\ Bypass(h, pc[h] \in {"privrecord", "dmrecord"})
    /\ UNCHANGED <<ingest, replies, suspended, alerts, clock, deliveries, answers>>

\* The admin suspends the tenant or lifts the suspension.
SetSuspended ==
    /\ "suspend" \in FeaturesOn
    /\ suspended' = ~suspended
    /\ UNCHANGED <<ingest, replies, answers, alerts, clock, deliveries, cut, offGate, pc, locals>>

Tick ==
    /\ clock < MaxClock
    /\ clock' = clock + 1
    /\ UNCHANGED <<ingest, replies, answers, suspended, alerts, deliveries, cut, offGate, pc, locals>>

Ingest(h) ==
    \/ DedupFind(h) \/ DedupCreate(h) \/ Lookup(h)
    \/ FindConversation(h) \/ CreateConversation(h) \/ TouchConversation(h)
    \/ FindContact(h) \/ CreateContact(h) \/ SaveInbound(h)

AnswerComment(h) ==
    \/ RuleQuota(h) \/ RuleGate(h) \/ RuleCount(h)
    \/ PublicReply(h) \/ PublicRecord(h)
    \/ PrivateSend(h) \/ PrivateRecord(h) \/ RuleAudit(h)
    \/ FlowMatch(h) \/ FlowStart(h)
    \/ AiQuota(h) \/ AiSend(h) \/ AiAudit(h)

AnswerDm(h) ==
    \/ StoryMatch(h) \/ StoryGate(h) \/ StorySend(h) \/ DetectIntent(h)
    \/ DmMatch(h) \/ DmGate(h) \/ DmSend(h) \/ DmRecord(h) \/ DmCount(h)
    \/ Fallback(h) \/ FallbackAi(h) \/ FallbackText(h)

Handle(h) == Ingest(h) \/ AnswerComment(h) \/ AnswerDm(h)

Next ==
    \/ \E h \in Handlers : Handle(h) \/ Abort(h) \/ \E e \in Events : Receive(h, e)
    \/ SetSuspended
    \/ Tick

Spec == Init /\ [][Next]_vars

\* Every await of a live handler is eventually answered; nothing obliges
\* Meta to deliver, the clock to be read or the admin to act.
FairSpec == Spec /\ \A h \in Handlers : WF_vars(Handle(h))

-----------------------------------------------------------------------------
(* Safety                                                                  *)

Identified(e) == EventInfo[e].hasId
CountedRow(i) == auditLog[i].action \in CountedActions
Handling(e) == {h \in Handlers : pc[h] # "idle" /\ ev[h] = e}

\* However often Meta delivers an event that carries an id, and however its
\* handlers interleave, are cut short or fail, the event enters the inbox once
\* and is charged to the reply quota once (the deduplication of
\* processComment and processPrivateDM).
AtMostOnce ==
    \A e \in Events : Identified(e) =>
        /\ inbound[e] <= 1
        /\ \A i, j \in DOMAIN auditLog :
              /\ auditLog[i].event = e /\ CountedRow(i)
              /\ auditLog[j].event = e /\ CountedRow(j)
              => i = j

\* Nobody receives an automatic answer to something the inbox does not show:
\* the INBOUND row of an event is there before any reply to it leaves.
RepliesFollowInbound == \A a \in answers : inbound[a.event] > 0

\* The quota is read before the sends and charged after them, so handlers can
\* overshoot it, but only by the handlers that run beside the last admitted one.
QuotaOvershoot ==
    LET slack == Cardinality(Handlers) - 1
    IN  /\ MaxPerHour # Unlimited => UsedLastHour <= MaxPerHour + slack
        /\ MaxPerMonth # Unlimited => UsedThisMonth <= MaxPerMonth + slack

\* Subscriber has no unique constraint, yet the webhook stores a customer once
\* (only the handler that created the conversation gets there), and passes
\* the plan's limit by no more than the handlers beside it.
ContactsBounded ==
    /\ \A i, j \in DOMAIN contacts : contacts[i] = contacts[j] => i = j
    /\ MaxSubscribers # Unlimited =>
          Len(contacts) <= MaxSubscribers + Cardinality(Handlers) - 1

\* triggerCount shows as many triggers of a rule as the audit log will hold
\* once its handlers have ended; only an aborted handler leaves a gap.
RowsOf(r) == {i \in DOMAIN auditLog :
                auditLog[i].action = "RULE_TRIGGERED" /\ auditLog[i].rule = r}
CountedNotLogged(r) ==
    {h \in Handlers : rule[h] = r /\ pc[h] \in {"public", "pubrecord", "private",
                                              "privrecord", "audit"}}
TriggerLedger ==
    \A r \in Rules :
        LET logged == Cardinality(RowsOf(r)) + Cardinality(CountedNotLogged(r))
        IN  IF MayAbort THEN triggerCount[r] >= logged ELSE triggerCount[r] = logged

\* Meta's limit as hasRecentAutomatedTriggerDm states it: the private messages
\* a customer gets in 24 hours originate from one comment or story.  The gate is
\* read before the send and moved after it, so handlers that overlap each bring
\* one event past it, and no more ever get through; by name excepted are the
\* events the gate cannot see (offGate): a legacy text or medium, which does not
\* ask it, a send that timed out after delivery, and one whose handler ended
\* before it wrote its row.
Triggered(a) == a.dm /\ a.by \in {"rule", "story"}
TriggeredFrom(u, since) ==
    {e \in Events \ offGate :
        /\ EventInfo[e].user = u
        /\ \E a \in answers : /\ a.event = e /\ Triggered(a)
                             /\ since <= a.at /\ a.at < since + DmWindow}
OneTriggeredDm ==
    \A u \in Users, since \in 0 .. clock :
        Cardinality(TriggeredFrom(u, since)) <= Cardinality(Handlers)

\* "Each only fires if the previous one didn't already reply": an event is
\* answered by one of rule, story rule, flow, AI and fallback, not by two.
OneSource ==
    \A a, b \in answers : a.event = b.event /\ Identified(a.event) => a.by = b.by

\* A claimed event of a customer is recorded once no handler works on it; the
\* dedup row makes every redelivery a no-op, so what is not recorded by then
\* never will be.  The code loses an event in two ways, and in no other: its
\* handler ends between the two rows, or it meets another handler that creates
\* the conversation first, which happens to no more events of a customer than
\* there are handlers beside the one that creates it.
BeatenOf(u) == {e \in beaten : EventInfo[e].user = u}
NoSilentLoss ==
    /\ \A e \in dedup :
          /\ Handling(e) = {}
          /\ EventInfo[e].origin = "customer"
          => inbound[e] = 1 \/ e \in beaten \cup cut
    /\ \A u \in Users : Cardinality(BeatenOf(u)) <= Cardinality(Handlers) - 1

-----------------------------------------------------------------------------
(* Liveness                                                                *)

\* An event of a connected page, once delivered, reaches the inbox, or it is one
\* that NoSilentLoss names, or its handler ended before it was claimed: then the
\* next delivery starts over, and the formula speaks of it again.
EventuallyRecorded ==
    \A e \in Events :
        deliveries[e] > 0 /\ EventInfo[e].origin = "customer"
        ~> \/ inbound[e] > 0
           \/ e \in beaten \cup cut
           \/ Identified(e) /\ e \notin dedup /\ Handling(e) = {}

=============================================================================

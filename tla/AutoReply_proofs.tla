-------------------------- MODULE AutoReply_proofs --------------------------
(* Theorems about AutoReply, for every set of handlers, events and rules: its *)
(* types, what is stored and charged once, what it answers, what it claims,  *)
(* the private messages of a day, and what overlapping handlers may exceed:  *)
(* the reply quota, the contacts of the plan, the counter of a rule.         *)
EXTENDS AutoReply, FiniteSetTheorems, TLAPS

-----------------------------------------------------------------------------
(* What the helpers of the actions do to the types.                         *)

LEMMA SomeEventType == SomeEvent \in Events
  BY BoundsAssumption DEF SomeEvent

LEMMA HandlerEvent ==
  ASSUME HandlersType, NEW h \in Handlers
  PROVE  ev[h] \in Events /\ User(h) \in Users /\ Kind(h) \in Kinds
  BY EventsAssumption DEF HandlersType, User, Kind

LEMMA SameIngest == ASSUME IngestType, UNCHANGED ingest PROVE IngestType'
  BY DEF IngestType, ingest

LEMMA SameReplies == ASSUME RepliesType, UNCHANGED replies PROVE RepliesType'
  BY DEF RepliesType, replies

LEMMA SameWorld == ASSUME WorldType, UNCHANGED world PROVE WorldType'
  BY DEF WorldType, world

LEMMA BypassType ==
  ASSUME WorldType, HandlersType, NEW h \in Handlers, NEW is, Bypass(h, is), UNCHANGED WorldExceptGate
  PROVE  WorldType'
  BY DEF WorldType, HandlersType, Bypass, WorldExceptGate

LEMMA SameAnswers == ASSUME AnswersType, UNCHANGED answers PROVE AnswersType'
  BY DEF AnswersType

LEMMA SameHandlers == ASSUME HandlersType, UNCHANGED <<pc, locals>> PROVE HandlersType'
  BY DEF HandlersType, locals

LEMMA FinishType ==
  ASSUME HandlersType, NEW h \in Handlers, Finish(h)
  PROVE  HandlersType'
  BY SomeEventType DEF HandlersType, Finish, Goto, PCs

LEMMA ContinueType ==
  ASSUME HandlersType, NEW h \in Handlers, NEW l \in PCs, Continue(h, l)
  PROVE  HandlersType'
  BY DEF HandlersType, Continue, Goto, locals

LEMMA GotoType ==
  ASSUME HandlersType, NEW h \in Handlers, NEW l \in PCs, Goto(h, l)
  PROVE  pc' \in [Handlers -> PCs]
  BY DEF HandlersType, Goto

LEMMA AuditType ==
  ASSUME RepliesType, WorldType, HandlersType,
         NEW h \in Handlers, NEW a \in Actions,
         WriteAudit(h, a), UNCHANGED <<lastAuto, triggerCount>>
  PROVE  RepliesType'
<1>1. [action |-> a, event |-> ev[h], rule |-> rule[h], at |-> clock] \in AuditRow
  BY DEF AuditRow, WorldType, HandlersType
<1>2. QED
  BY <1>1 DEF WriteAudit, RepliesType

LEMMA DeliverType ==
  ASSUME AnswersType, WorldType, HandlersType,
         NEW h \in Handlers, NEW o, NEW s \in Sources, NEW dm \in BOOLEAN,
         Deliver(h, o, s, dm)
  PROVE  AnswersType'
  BY DEF AnswersType, WorldType, HandlersType, Deliver

LEMMA RecordType ==
  ASSUME RepliesType, WorldType, HandlersType, NEW h \in Handlers,
         RecordAuto(h), UNCHANGED <<auditLog, triggerCount>>
  PROVE  RepliesType'
  BY DEF RepliesType, WorldType, RecordAuto

LEMMA CountType ==
  ASSUME RepliesType, NEW h \in Handlers,
         CountTrigger(h), UNCHANGED <<lastAuto, auditLog>>
  PROVE  RepliesType'
<1>1. triggerCount' = [r \in Rules |-> IF r = rule[h] THEN triggerCount[r] + 1
                                                       ELSE triggerCount[r]]
  BY DEF RepliesType, CountTrigger
<1>2. triggerCount' \in [Rules -> Nat]
  BY <1>1 DEF RepliesType
<1>3. QED
  BY <1>2 DEF RepliesType

-----------------------------------------------------------------------------
(* Type correctness                                                         *)

LEMMA TypeStep == TypeOK /\ [Next]_vars => TypeOK'
<1> SUFFICES ASSUME TypeOK, [Next]_vars PROVE TypeOK'
  OBVIOUS
<1> USE SameIngest, SameReplies, SameWorld, SameAnswers, FinishType, ContinueType
    DEF TypeOK, ingest, replies, world
<1>1. ASSUME NEW h \in Handlers, Ingest(h) PROVE TypeOK'
  <2> USE HandlerEvent
  <2>1. CASE DedupFind(h)
    BY <2>1 DEF DedupFind, PCs
  <2>2. CASE DedupCreate(h)
    BY <2>2 DEF DedupCreate, PCs, IngestType, HandlersType
  <2>3. CASE Lookup(h)
    BY <2>3, GotoType DEF Lookup, PCs, HandlersType
  <2>4. CASE FindConversation(h)
    BY <2>4 DEF FindConversation, PCs
  <2>5. CASE CreateConversation(h)
    BY <2>5 DEF CreateConversation, PCs, IngestType
  <2>6. CASE TouchConversation(h)
    BY <2>6, GotoType DEF TouchConversation, PCs, HandlersType
  <2>7. CASE FindContact(h)
    BY <2>7 DEF FindContact, PCs
  <2>8. CASE CreateContact(h)
    BY <2>8 DEF CreateContact, PCs, IngestType
  <2>9. CASE SaveInbound(h)
    BY <2>9 DEF SaveInbound, PCs, IngestType, Kinds
  <2>10. QED
    BY <1>1, <2>1, <2>2, <2>3, <2>4, <2>5, <2>6, <2>7, <2>8, <2>9 DEF Ingest
<1>2. ASSUME NEW h \in Handlers, AnswerComment(h) PROVE TypeOK'
  <2> USE HandlerEvent
  <2>1. CASE RuleQuota(h)
    BY <2>1, AuditType DEF RuleQuota, PCs, Actions, CountedActions
  <2>2. CASE RuleGate(h)
    BY <2>2, AuditType, GotoType DEF RuleGate, PCs, HandlersType, Actions, CountedActions
  <2>3. CASE RuleCount(h)
    BY <2>3, CountType DEF RuleCount, PCs
  <2>4. CASE PublicReply(h)
    BY <2>4, DeliverType DEF PublicReply, PCs, Sources
  <2>5. CASE PublicRecord(h)
    BY <2>5, RecordType DEF PublicRecord, PCs
  <2>6. CASE PrivateSend(h)
    <3>1. CASE MoreToSend(h)
      <4>1. PICK o \in Outcomes :
              /\ Deliver(h, o, "rule", TRUE)
              /\ Goto(h, IF o = "ok" THEN "privrecord" ELSE "private")
              /\ sent' = [sent EXCEPT ![h] = @ + 1]
              /\ Bypass(h, o = "timeout" \/ ~RuleShape[rule[h]].sequence)
        BY <2>6, <3>1 DEF PrivateSend
      <4>2. AnswersType'
        BY <4>1, DeliverType DEF Sources
      <4>3. HandlersType'
        BY <2>6, <4>1, GotoType DEF PrivateSend, HandlersType, PCs
      <4>4. WorldType'
        BY <2>6, <4>1, BypassType DEF PrivateSend
      <4>5. QED
        BY <2>6, <4>2, <4>3, <4>4 DEF PrivateSend
    <3>2. CASE ~MoreToSend(h)
      <4>1. HandlersType'
        BY <2>6, <3>2, GotoType DEF PrivateSend, HandlersType, PCs
      <4>2. QED
        BY <2>6, <3>2, <4>1 DEF PrivateSend, WorldExceptGate
    <3>3. QED
      BY <3>1, <3>2
  <2>7. CASE PrivateRecord(h)
    BY <2>7, RecordType DEF PrivateRecord, PCs
  <2>8. CASE RuleAudit(h)
    BY <2>8, AuditType DEF RuleAudit, PCs, Actions, CountedActions
  <2>9. CASE FlowMatch(h)
    BY <2>9 DEF FlowMatch, PCs
  <2>10. CASE FlowStart(h)
    BY <2>10, AuditType, DeliverType DEF FlowStart, PCs, Actions, CountedActions, Sources
  <2>11. CASE AiQuota(h)
    BY <2>11 DEF AiQuota, PCs
  <2>12. CASE AiSend(h)
    BY <2>12, DeliverType DEF AiSend, PCs, Sources
  <2>13. CASE AiAudit(h)
    BY <2>13, AuditType DEF AiAudit, PCs, Actions, CountedActions
  <2>14. QED
    BY <1>2, <2>1, <2>2, <2>3, <2>4, <2>5, <2>6, <2>7, <2>8, <2>9, <2>10, <2>11, <2>12, <2>13 DEF AnswerComment
<1>3. ASSUME NEW h \in Handlers, AnswerDm(h) PROVE TypeOK'
  <2> USE HandlerEvent
  <2>1. CASE StoryMatch(h)
    <3>1. IngestType' /\ WorldType' /\ AnswersType'
      BY <2>1 DEF StoryMatch
    <3>2. CASE Continue(h, "intent") /\ UNCHANGED auditLog
      BY <2>1, <3>1, <3>2 DEF StoryMatch, PCs
    <3>3. ASSUME NEW r \in Rules, rule' = [rule EXCEPT ![h] = r],
                 Goto(h, "storygate"),
                 UNCHANGED <<auditLog, ev, canDm, sent, seenIntent>>
          PROVE  TypeOK'
      <4>1. HandlersType'
        BY <3>3, GotoType DEF HandlersType, PCs
      <4>2. QED
        BY <2>1, <3>1, <3>3, <4>1 DEF StoryMatch
    <3>4. ASSUME NEW r \in Rules, Continue(h, "intent"),
                 auditLog' = Append(auditLog, [action |-> "RULE_SKIPPED_QUOTA",
                                       event |-> ev[h], rule |-> r, at |-> clock])
          PROVE  TypeOK'
      <4>1. [action |-> "RULE_SKIPPED_QUOTA", event |-> ev[h], rule |-> r,
             at |-> clock] \in AuditRow
        BY DEF AuditRow, Actions, WorldType
      <4>2. RepliesType'
        BY <2>1, <3>4, <4>1 DEF StoryMatch, RepliesType
      <4>3. QED
        BY <3>1, <3>4, <4>2 DEF PCs
    <3>5. QED
      BY <2>1, <3>2, <3>3, <3>4 DEF StoryMatch
  <2>2. CASE StoryGate(h)
    BY <2>2, AuditType DEF StoryGate, PCs, Actions, CountedActions
  <2>3. CASE StorySend(h)
    <3>1. PICK o \in IF HasText(rule[h]) THEN Outcomes ELSE {"failed"} :
            /\ Deliver(h, o, "story", TRUE)
            /\ Bypass(h, o = "timeout")
            /\ IF o = "ok"
               THEN Continue(h, "dmrecord")
               ELSE /\ Goto(h, "intent")
                    /\ rule' = [rule EXCEPT ![h] = NoRule]
                    /\ UNCHANGED <<ev, canDm, sent, seenIntent>>
      BY <2>3 DEF StorySend
    <3>2. AnswersType'
      BY <3>1, DeliverType DEF Sources
    <3>3. HandlersType'
      BY <3>1, GotoType DEF HandlersType, PCs
    <3>4. WorldType'
      BY <2>3, <3>1, BypassType DEF StorySend
    <3>5. QED
      BY <2>3, <3>2, <3>3, <3>4 DEF StorySend
  <2>4. CASE DetectIntent(h)
    <3>1. conv' = conv \/ conv' = [conv EXCEPT ![User(h)] = "hot"]
      BY <2>4 DEF DetectIntent
    <3>2. IngestType'
      BY <2>4, <3>1 DEF DetectIntent, IngestType
    <3>3. alerts' = alerts \/ alerts' = [alerts EXCEPT ![User(h)] = @ + 1]
      BY <2>4 DEF DetectIntent
    <3>4. WorldType'
      BY <2>4, <3>3 DEF DetectIntent, WorldType
    <3>5. QED
      BY <2>4, <3>2, <3>4 DEF DetectIntent, PCs
  <2>5. CASE DmMatch(h)
    BY <2>5, GotoType DEF DmMatch, PCs, HandlersType
  <2>6. CASE DmGate(h)
    BY <2>6 DEF DmGate, PCs
  <2>7. CASE DmSend(h)
    BY <2>7, DeliverType, GotoType DEF DmSend, PCs, HandlersType, Sources
  <2>8. CASE DmRecord(h)
    BY <2>8, RecordType DEF DmRecord, PCs
  <2>9. CASE DmCount(h)
    BY <2>9, CountType DEF DmCount, PCs
  <2>10. CASE Fallback(h)
    BY <2>10 DEF Fallback, PCs
  <2>11. CASE FallbackAi(h)
    BY <2>11, DeliverType DEF FallbackAi, PCs, Sources
  <2>12. CASE FallbackText(h)
    BY <2>12, DeliverType DEF FallbackText, PCs, Sources
  <2>13. QED
    BY <1>3, <2>1, <2>2, <2>3, <2>4, <2>5, <2>6, <2>7, <2>8, <2>9, <2>10, <2>11, <2>12 DEF AnswerDm
<1>4. ASSUME NEW h \in Handlers, Abort(h) PROVE TypeOK'
  <2>1. WorldType'
    BY <1>4 DEF Abort, Bypass, WorldType, HandlersType
  <2>2. QED
    BY <1>4, <2>1 DEF Abort
<1>5. ASSUME NEW h \in Handlers, NEW e \in Events, Receive(h, e) PROVE TypeOK'
  BY <1>5, GotoType, SameWorld DEF Receive, HandlersType, WorldType, PCs
<1>6. CASE SetSuspended
  BY <1>6, SameHandlers DEF SetSuspended, WorldType
<1>7. CASE Tick
  BY <1>7, SameHandlers DEF Tick, WorldType
<1>8. CASE UNCHANGED vars
  BY <1>8, SameHandlers DEF vars
<1>9. QED
  BY <1>1, <1>2, <1>3, <1>4, <1>5, <1>6, <1>7, <1>8 DEF Next, Handle

\* Type correctness of the webhook automation.
THEOREM TypeCorrect == Spec => []TypeOK
<1>1. Init => TypeOK
  <2> SUFFICES ASSUME Init PROVE TypeOK
    OBVIOUS
  <2>1. IngestType
    BY DEF Init, IngestType
  <2>2. RepliesType
    BY DEF Init, RepliesType
  <2>3. WorldType /\ AnswersType
    BY DEF Init, WorldType, AnswersType
  <2>4. HandlersType
    BY SomeEventType DEF Init, HandlersType, PCs
  <2>5. QED
    BY <2>1, <2>2, <2>3, <2>4 DEF TypeOK
<1>2. QED
  BY <1>1, TypeStep, PTL DEF Spec

-----------------------------------------------------------------------------
(* What a handler's step does to the tables the deduplication is about.     *)

AfterSave == PCs \ (Unsaved \cup {"idle", "dedup", "claim"})

\* The handler is past the deduplication: no other may work on its event.
Owns(h) == pc[h] \in Unsaved \cup AfterSave

Others(h) == \A g \in Handlers \ {h} : pc'[g] = pc[g] /\ ev'[g] = ev[g]

\* Only a handler past SaveInbound sends, and only for its own event.
Sends(h) == \A a \in answers' : a \in answers \/ (pc[h] \in AfterSave /\ a.event = ev[h])

\* The log gains no row that the quota counts.
NoCharge ==
    \/ auditLog' = auditLog
    \/ \E row \in AuditRow :
          row.action \notin CountedActions /\ auditLog' = Append(auditLog, row)

\* The handler goes on with its event, or gives it up.
Quiet(h) ==
    /\ UNCHANGED <<dedup, inbound>>
    /\ NoCharge
    /\ \/ pc'[h] \in {"idle", "dedup", "claim"}
       \/ pc[h] \in Unsaved /\ pc'[h] \in Unsaved /\ ev'[h] = ev[h]
       \/ pc[h] \in AfterSave /\ pc'[h] \in AfterSave /\ ev'[h] = ev[h]

Claim(h) ==
    /\ ev[h] \notin dedup
    /\ dedup' = dedup \cup {ev[h]}
    /\ UNCHANGED <<inbound, auditLog>>
    /\ pc'[h] \in Unsaved /\ ev'[h] = ev[h]

Save(h) ==
    /\ pc[h] \in Unsaved /\ pc'[h] \in AfterSave /\ ev'[h] = ev[h]
    /\ inbound' = [inbound EXCEPT ![ev[h]] = @ + 1]
    /\ UNCHANGED <<dedup, auditLog>>

Charge(h) ==
    /\ pc[h] \in AfterSave /\ pc'[h] = "idle"
    /\ \E row \in AuditRow : row.event = ev[h] /\ auditLog' = Append(auditLog, row)
    /\ UNCHANGED <<dedup, inbound>>

Shape(h) ==
    /\ Others(h)
    /\ Sends(h)
    /\ Quiet(h) \/ Claim(h) \/ Save(h) \/ Charge(h)

\* Every step of a handler has this shape, action by action.
LEMMA FinishShape ==
  ASSUME HandlersType, NEW h \in Handlers, Finish(h)
  PROVE  Others(h) /\ pc'[h] = "idle"
  BY DEF HandlersType, Finish, Goto, Others

LEMMA GotoShape ==
  ASSUME HandlersType, NEW h \in Handlers, NEW l \in PCs, Goto(h, l), UNCHANGED ev
  PROVE  Others(h) /\ pc'[h] = l /\ ev'[h] = ev[h]
  BY DEF HandlersType, Goto, Others

LEMMA ContinueShape ==
  ASSUME HandlersType, NEW h \in Handlers, NEW l \in PCs, Continue(h, l)
  PROVE  Others(h) /\ pc'[h] = l /\ ev'[h] = ev[h]
  BY GotoShape DEF Continue, locals

LEMMA DeliverShape ==
  ASSUME NEW h \in Handlers, NEW o, NEW s, NEW dm, Deliver(h, o, s, dm),
         pc[h] \in AfterSave
  PROVE  Sends(h)
  BY DEF Deliver, Sends

LEMMA NoSendShape == ASSUME NEW h \in Handlers, UNCHANGED answers PROVE Sends(h)
  BY DEF Sends

LEMMA SkipShape ==
  ASSUME TypeOK, NEW h \in Handlers,
         NEW a \in {"RULE_SKIPPED_QUOTA", "RULE_SKIPPED_24H_DM_LIMIT"},
         WriteAudit(h, a)
  PROVE  NoCharge
<1>1. [action |-> a, event |-> ev[h], rule |-> rule[h], at |-> clock] \in AuditRow
  BY DEF AuditRow, Actions, WorldType, HandlersType, TypeOK
<1>2. QED
  BY <1>1 DEF NoCharge, WriteAudit, CountedActions

LEMMA ChargeShape ==
  ASSUME TypeOK, NEW h \in Handlers, NEW a \in CountedActions, WriteAudit(h, a)
  PROVE  \E row \in AuditRow : row.event = ev[h] /\ auditLog' = Append(auditLog, row)
<1>1. [action |-> a, event |-> ev[h], rule |-> rule[h], at |-> clock] \in AuditRow
  BY DEF AuditRow, Actions, WorldType, HandlersType, TypeOK
<1>2. QED
  BY <1>1 DEF WriteAudit

LEMMA IngestShape ==
  ASSUME TypeOK, NEW h \in Handlers, Ingest(h)
  PROVE  Shape(h)
<1> USE FinishShape, ContinueShape, NoSendShape
    DEF TypeOK, At, PCs, Unsaved, AfterSave, ingest, replies, NoCharge
<1>1. CASE DedupFind(h)
  BY <1>1 DEF DedupFind, Shape, Quiet
<1>2. CASE DedupCreate(h)
  BY <1>2 DEF DedupCreate, Shape, Quiet, Claim
<1>3. CASE Lookup(h)
  BY <1>3, GotoShape DEF Lookup, Shape, Quiet
<1>4. CASE FindConversation(h)
  BY <1>4 DEF FindConversation, Shape, Quiet
<1>5. CASE CreateConversation(h)
  BY <1>5 DEF CreateConversation, Shape, Quiet
<1>6. CASE TouchConversation(h)
  BY <1>6, GotoShape DEF TouchConversation, Shape, Quiet
<1>7. CASE FindContact(h)
  BY <1>7 DEF FindContact, Shape, Quiet
<1>8. CASE CreateContact(h)
  BY <1>8 DEF CreateContact, Shape, Quiet
<1>9. CASE SaveInbound(h)
  BY <1>9, HandlerEvent DEF SaveInbound, Shape, Save, Kind, Kinds, IngestType
<1>10. QED
  BY <1>1, <1>2, <1>3, <1>4, <1>5, <1>6, <1>7, <1>8, <1>9 DEF Ingest

LEMMA AnswerShape ==
  ASSUME TypeOK, NEW h \in Handlers, AnswerComment(h) \/ AnswerDm(h)
  PROVE  Shape(h)
<1> USE FinishShape, ContinueShape, NoSendShape
    DEF TypeOK, At, PCs, Unsaved, AfterSave, ingest, replies
<1>1. CASE RuleQuota(h)
  BY <1>1, SkipShape, DeliverShape DEF RuleQuota, Shape, Quiet, NoCharge
<1>2. CASE RuleGate(h)
  BY <1>2, SkipShape, DeliverShape, GotoShape DEF RuleGate, Shape, Quiet, NoCharge
<1>3. CASE RuleCount(h)
  BY <1>3 DEF RuleCount, Shape, Quiet, NoCharge
<1>4. CASE PublicReply(h)
  BY <1>4, DeliverShape DEF PublicReply, Shape, Quiet, NoCharge
<1>5. CASE PublicRecord(h)
  BY <1>5 DEF PublicRecord, Shape, Quiet, NoCharge
<1>6. CASE PrivateSend(h)
  BY <1>6, DeliverShape, GotoShape DEF PrivateSend, Shape, Quiet, NoCharge
<1>7. CASE PrivateRecord(h)
  BY <1>7 DEF PrivateRecord, Shape, Quiet, NoCharge
<1>8. CASE RuleAudit(h)
  BY <1>8, ChargeShape DEF RuleAudit, Shape, Charge, CountedActions
<1>9. CASE FlowMatch(h)
  BY <1>9 DEF FlowMatch, Shape, Quiet, NoCharge
<1>10. CASE FlowStart(h)
  BY <1>10, ChargeShape, DeliverShape DEF FlowStart, Shape, Charge, CountedActions
<1>11. CASE AiQuota(h)
  BY <1>11 DEF AiQuota, Shape, Quiet, NoCharge
<1>12. CASE AiSend(h)
  BY <1>12, DeliverShape DEF AiSend, Shape, Quiet, NoCharge
<1>13. CASE AiAudit(h)
  BY <1>13, ChargeShape DEF AiAudit, Shape, Charge, CountedActions
<1>14. CASE StoryMatch(h)
  <2>1. Sends(h)
    BY <1>14 DEF StoryMatch
  <2>2. CASE Continue(h, "intent") /\ UNCHANGED auditLog
    BY <1>14, <2>1, <2>2 DEF StoryMatch, Shape, Quiet, NoCharge
  <2>3. ASSUME NEW r \in Rules, Goto(h, "storygate"), UNCHANGED <<auditLog, ev>>
        PROVE  Shape(h)
    BY <1>14, <2>1, <2>3, GotoShape DEF StoryMatch, Shape, Quiet, NoCharge
  <2>4. ASSUME NEW r \in Rules, Continue(h, "intent"),
               auditLog' = Append(auditLog, [action |-> "RULE_SKIPPED_QUOTA",
                                     event |-> ev[h], rule |-> r, at |-> clock])
        PROVE  Shape(h)
    <3>1. [action |-> "RULE_SKIPPED_QUOTA", event |-> ev[h], rule |-> r,
           at |-> clock] \in AuditRow
      BY DEF AuditRow, Actions, WorldType, HandlersType
    <3>2. NoCharge
      BY <2>4, <3>1 DEF NoCharge, CountedActions
    <3>3. QED
      BY <1>14, <2>1, <2>4, <3>2 DEF StoryMatch, Shape, Quiet
  <2>5. QED
    BY <1>14, <2>2, <2>3, <2>4 DEF StoryMatch
<1>15. CASE StoryGate(h)
  BY <1>15, SkipShape, DeliverShape DEF StoryGate, Shape, Quiet, NoCharge
<1>16. CASE StorySend(h)
  BY <1>16, DeliverShape, GotoShape DEF StorySend, Shape, Quiet, NoCharge
<1>17. CASE DetectIntent(h)
  BY <1>17 DEF DetectIntent, Shape, Quiet, NoCharge
<1>18. CASE DmMatch(h)
  BY <1>18, GotoShape DEF DmMatch, Shape, Quiet, NoCharge
<1>19. CASE DmGate(h)
  BY <1>19 DEF DmGate, Shape, Quiet, NoCharge
<1>20. CASE DmSend(h)
  BY <1>20, DeliverShape, GotoShape DEF DmSend, Shape, Quiet, NoCharge
<1>21. CASE DmRecord(h)
  BY <1>21 DEF DmRecord, Shape, Quiet, NoCharge
<1>22. CASE DmCount(h)
  BY <1>22 DEF DmCount, Shape, Quiet, NoCharge
<1>23. CASE Fallback(h)
  BY <1>23 DEF Fallback, Shape, Quiet, NoCharge
<1>24. CASE FallbackAi(h)
  BY <1>24, DeliverShape DEF FallbackAi, Shape, Quiet, NoCharge
<1>25. CASE FallbackText(h)
  BY <1>25, DeliverShape DEF FallbackText, Shape, Quiet, NoCharge
<1>26. QED
  BY <1>1, <1>2, <1>3, <1>4, <1>5, <1>6, <1>7, <1>8, <1>9, <1>10, <1>11, <1>12, <1>13, <1>14, <1>15, <1>16, <1>17,
      <1>18, <1>19, <1>20, <1>21, <1>22, <1>23, <1>24, <1>25 DEF AnswerComment, AnswerDm

-----------------------------------------------------------------------------
(* Exactly-once handling of identified events.                              *)

\* A handler past the deduplication holds the dedup row of its event, alone.
OwnerClaimed ==
    \A h \in Handlers : Owns(h) /\ Identified(ev[h]) => ev[h] \in dedup
OneOwner ==
    \A g, h \in Handlers :
        Owns(g) /\ Owns(h) /\ ev[g] = ev[h] /\ Identified(ev[h]) => g = h

\* The row is there once, not before the event is claimed nor saved.
RecordedOnce ==
    /\ \A e \in Events : Identified(e) =>
          inbound[e] <= 1 /\ (e \notin dedup => inbound[e] = 0)
    /\ \A h \in Handlers :
          pc[h] \in Unsaved /\ Identified(ev[h]) => inbound[ev[h]] = 0

\* A charge ends the handling of a claimed event.
ChargedOnce ==
    /\ \A i \in DOMAIN auditLog :
          CountedRow(i) /\ Identified(auditLog[i].event) =>
              /\ auditLog[i].event \in dedup
              /\ \A h \in Handlers : Owns(h) => ev[h] # auditLog[i].event
    /\ \A i, j \in DOMAIN auditLog :
          CountedRow(i) /\ CountedRow(j) /\ auditLog[i].event = auditLog[j].event
          /\ Identified(auditLog[i].event)
          => i = j

OnceInv == OwnerClaimed /\ OneOwner /\ RecordedOnce /\ ChargedOnce

\* An event is in the inbox before a handler answers it.
AnsweredInv ==
    /\ \A h \in Handlers : pc[h] \in AfterSave => inbound[ev[h]] > 0
    /\ RepliesFollowInbound

LEMMA QuietOnce ==
  ASSUME TypeOK, OnceInv, NEW h \in Handlers, Others(h), Quiet(h)
  PROVE  OnceInv'
<1> USE DEF OnceInv, Quiet, Others, Owns, PCs, Unsaved, AfterSave
<1>1. \A g \in Handlers : Owns(g)' => Owns(g) /\ ev'[g] = ev[g]
  OBVIOUS
<1>2. OwnerClaimed' /\ OneOwner'
  BY <1>1 DEF OwnerClaimed, OneOwner
<1>3. RecordedOnce'
  <2>1. \A g \in Handlers : pc'[g] \in Unsaved => pc[g] \in Unsaved /\ ev'[g] = ev[g]
    OBVIOUS
  <2>2. UNCHANGED <<dedup, inbound>>
    OBVIOUS
  <2>3. ASSUME NEW g \in Handlers, pc'[g] \in Unsaved, Identified(ev'[g])
        PROVE  inbound'[ev'[g]] = 0
    BY <2>1, <2>2, <2>3 DEF RecordedOnce
  <2>4. \A e \in Events : Identified(e) =>
          inbound'[e] <= 1 /\ (e \notin dedup' => inbound'[e] = 0)
    BY <2>2 DEF RecordedOnce
  <2>5. QED
    BY <2>3, <2>4 DEF RecordedOnce, Identified
<1>4. \A i \in DOMAIN auditLog' : CountedRow(i)' =>
        /\ i \in DOMAIN auditLog /\ CountedRow(i)
        /\ auditLog'[i] = auditLog[i]
  <2> SUFFICES ASSUME NEW i \in DOMAIN auditLog', CountedRow(i)'
               PROVE  i \in DOMAIN auditLog /\ CountedRow(i) /\ auditLog'[i] = auditLog[i]
    OBVIOUS
  <2>1. CASE auditLog' = auditLog
    BY <2>1 DEF CountedRow
  <2>2. ASSUME NEW row \in AuditRow, row.action \notin CountedActions,
               auditLog' = Append(auditLog, row)
        PROVE  i \in DOMAIN auditLog /\ auditLog'[i] = auditLog[i]
    BY <2>2 DEF CountedRow, TypeOK, RepliesType
  <2>3. QED
    BY <2>1, <2>2 DEF NoCharge, CountedRow
<1>5. ChargedOnce'
  BY <1>1, <1>4 DEF ChargedOnce
<1>6. QED
  BY <1>2, <1>3, <1>5

LEMMA ClaimOnce ==
  ASSUME TypeOK, OnceInv, NEW h \in Handlers, Others(h), Claim(h)
  PROVE  OnceInv'
<1> USE DEF OnceInv, Claim, Others, Owns, TypeOK, HandlersType
<1>1. \A g \in Handlers : Owns(g)' => g = h \/ Owns(g)
  OBVIOUS
<1>2. \A g \in Handlers : ev'[g] = ev[g]
  OBVIOUS
<1>3. OwnerClaimed'
  BY <1>1, <1>2 DEF OwnerClaimed
<1>4. OneOwner'
  BY <1>1, <1>2 DEF OwnerClaimed, OneOwner
<1>5. RecordedOnce'
  BY <1>2 DEF RecordedOnce
<1>6. ChargedOnce'
  BY <1>1, <1>2 DEF ChargedOnce, CountedRow
<1>7. QED
  BY <1>3, <1>4, <1>5, <1>6

LEMMA SaveOnce ==
  ASSUME TypeOK, OnceInv, NEW h \in Handlers, Others(h), Save(h)
  PROVE  OnceInv'
<1> USE DEF OnceInv, Save, Others, Owns, TypeOK, HandlersType, PCs, Unsaved, AfterSave
<1>1. \A g \in Handlers : ev'[g] = ev[g] /\ (Owns(g)' <=> Owns(g))
  OBVIOUS
<1>2. OwnerClaimed' /\ OneOwner'
  BY <1>1 DEF OwnerClaimed, OneOwner
<1>3. RecordedOnce'
  <2>1. \A e \in Events : inbound'[e] = IF e = ev[h] THEN inbound[e] + 1 ELSE inbound[e]
    BY DEF IngestType
  <2>2. \A e \in Events : Identified(e) =>
          inbound'[e] <= 1 /\ (e \notin dedup' => inbound'[e] = 0)
    BY <2>1 DEF RecordedOnce, OwnerClaimed, IngestType
  <2>3. ASSUME NEW g \in Handlers, pc'[g] \in Unsaved, Identified(ev[g])
        PROVE  inbound'[ev[g]] = 0
    <3>1. g # h /\ pc[g] \in Unsaved
      BY <2>3
    <3>2. ev[g] # ev[h]
      BY <2>3, <3>1 DEF OneOwner
    <3>3. QED
      BY <2>1, <2>3, <3>1, <3>2 DEF RecordedOnce
  <2>4. QED
    BY <1>1, <2>2, <2>3 DEF RecordedOnce, Identified
<1>4. ChargedOnce'
  BY <1>1 DEF ChargedOnce, CountedRow
<1>5. QED
  BY <1>2, <1>3, <1>4

LEMMA ChargeOnce ==
  ASSUME TypeOK, OnceInv, NEW h \in Handlers, Others(h), Charge(h)
  PROVE  OnceInv'
<1> USE DEF OnceInv, Others, Owns, PCs, Unsaved, AfterSave
<1>1. PICK row \in AuditRow : row.event = ev[h] /\ auditLog' = Append(auditLog, row)
  BY DEF Charge
<1>2. \A g \in Handlers : Owns(g)' => g # h /\ Owns(g) /\ ev'[g] = ev[g]
  BY DEF Charge
<1>3. OwnerClaimed' /\ OneOwner'
  BY <1>2 DEF OwnerClaimed, OneOwner, Charge
<1>4. RecordedOnce'
  BY DEF RecordedOnce, Charge
<1>5. \A i \in DOMAIN auditLog' :
        \/ i \in DOMAIN auditLog /\ auditLog'[i] = auditLog[i]
        \/ i \notin DOMAIN auditLog /\ i = Len(auditLog) + 1 /\ auditLog'[i].event = ev[h]
  BY <1>1 DEF TypeOK, RepliesType
<1>6. Owns(h)
  BY DEF Charge
<1>7. \A i \in DOMAIN auditLog : CountedRow(i) /\ Identified(auditLog[i].event)
                                 => auditLog[i].event # ev[h]
  BY <1>6 DEF ChargedOnce
<1>8. ASSUME NEW i \in DOMAIN auditLog', CountedRow(i)', Identified(auditLog'[i].event)
      PROVE  /\ auditLog'[i].event \in dedup'
             /\ \A g \in Handlers : Owns(g)' => ev'[g] # auditLog'[i].event
  <2>1. CASE i \in DOMAIN auditLog /\ auditLog'[i] = auditLog[i]
    BY <1>2, <1>8, <2>1 DEF ChargedOnce, CountedRow, Charge
  <2>2. CASE auditLog'[i].event = ev[h]
    BY <1>2, <1>6, <1>8, <2>2 DEF OwnerClaimed, OneOwner, Charge
  <2>3. QED
    BY <1>5, <2>1, <2>2
<1>9. ASSUME NEW i \in DOMAIN auditLog', NEW j \in DOMAIN auditLog',
             CountedRow(i)', CountedRow(j)',
             auditLog'[i].event = auditLog'[j].event, Identified(auditLog'[i].event)
      PROVE  i = j
  BY <1>5, <1>7, <1>9 DEF ChargedOnce, CountedRow
<1>10. QED
  BY <1>3, <1>4, <1>8, <1>9 DEF ChargedOnce, Identified

LEMMA OnceStep == TypeOK /\ OnceInv /\ [Next]_vars => OnceInv'
<1> SUFFICES ASSUME TypeOK, OnceInv, [Next]_vars PROVE OnceInv'
  OBVIOUS
<1>1. ASSUME NEW h \in Handlers, Handle(h) PROVE OnceInv'
  <2>1. Shape(h)
    BY <1>1, IngestShape, AnswerShape DEF Handle
  <2>2. QED
    BY <2>1, QuietOnce, ClaimOnce, SaveOnce, ChargeOnce DEF Shape
<1>2. ASSUME NEW h \in Handlers, Abort(h) PROVE OnceInv'
  BY <1>2, FinishShape, QuietOnce DEF Abort, TypeOK, ingest, replies, Quiet, NoCharge
<1>3. ASSUME NEW h \in Handlers, NEW e \in Events, Receive(h, e) PROVE OnceInv'
  <2> USE DEF TypeOK, HandlersType, OnceInv, ingest, replies
  <2>1. CASE Identified(e)
    <3>1. Others(h) /\ pc'[h] = "dedup"
      BY <1>3, <2>1 DEF Receive, Goto, Identified, Others
    <3>2. Quiet(h)
      BY <1>3, <3>1 DEF Receive, Quiet, NoCharge
    <3>3. QED
      BY <3>1, <3>2, QuietOnce
  <2>2. CASE ~Identified(e)
    <3>1. /\ \A g \in Handlers \ {h} : pc'[g] = pc[g] /\ ev'[g] = ev[g]
          /\ ev'[h] = e
          /\ UNCHANGED <<dedup, inbound, auditLog>>
      BY <1>3 DEF Receive, Goto
    <3>2. OwnerClaimed' /\ OneOwner'
      BY <2>2, <3>1 DEF OwnerClaimed, OneOwner, Owns, Identified
    <3>3. RecordedOnce'
      BY <2>2, <3>1 DEF RecordedOnce, Identified
    <3>4. ChargedOnce'
      BY <2>2, <3>1 DEF ChargedOnce, CountedRow, Identified, Owns
    <3>5. QED
      BY <3>2, <3>3, <3>4
  <2>3. QED
    BY <2>1, <2>2
<1>4. ASSUME UNCHANGED <<dedup, inbound, auditLog, pc, ev>> PROVE OnceInv'
  BY <1>4 DEF OnceInv, OwnerClaimed, OneOwner, RecordedOnce, ChargedOnce, Owns, CountedRow
<1>5. QED
  BY <1>1, <1>2, <1>3, <1>4
     DEF Next, SetSuspended, Tick, vars, ingest, replies, locals

\* processComment and processPrivateDM handle an identified event once,
\* whatever Meta redelivers and however its handlers interleave or die.
THEOREM ExactlyOnce == Spec => []AtMostOnce
<1>1. Init => OnceInv
  BY DEF Init, OnceInv, OwnerClaimed, OneOwner, RecordedOnce, ChargedOnce, Owns,
         PCs, Unsaved, AfterSave
<1>2. OnceInv => AtMostOnce
  BY DEF OnceInv, RecordedOnce, ChargedOnce, AtMostOnce
<1>3. QED
  BY <1>1, <1>2, OnceStep, TypeCorrect, PTL DEF Spec

-----------------------------------------------------------------------------
(* No answer without an inbox row.                                          *)

LEMMA AnsweredStep == TypeOK /\ AnsweredInv /\ [Next]_vars => AnsweredInv'
<1> SUFFICES ASSUME TypeOK, AnsweredInv, [Next]_vars PROVE AnsweredInv'
  OBVIOUS
<1> USE DEF AnsweredInv, RepliesFollowInbound, PCs, Unsaved, AfterSave
<1>1. ASSUME NEW h \in Handlers, Handle(h) PROVE AnsweredInv'
  <2>1. Shape(h)
    BY <1>1, IngestShape, AnswerShape DEF Handle
  <2>2. inbound' = inbound \/ Save(h)
    BY <2>1 DEF Shape, Quiet, Claim, Charge
  <2>3. \A e \in Events : inbound[e] \in Nat /\ (inbound[e] > 0 => inbound'[e] > 0)
    BY <2>2 DEF Save, TypeOK, IngestType
  <2>4. \A g \in Handlers : ev[g] \in Events
    BY DEF TypeOK, HandlersType
  <2>5. ASSUME NEW g \in Handlers, pc'[g] \in AfterSave PROVE inbound'[ev'[g]] > 0
    <3>1. CASE g # h
      BY <2>1, <2>3, <2>4, <2>5, <3>1 DEF Shape, Others
    <3>2. CASE g = h /\ Save(h)
      BY <2>4, <3>2 DEF Save, TypeOK, IngestType
    <3>3. CASE g = h /\ ~Save(h)
      BY <2>1, <2>3, <2>4, <2>5, <3>3 DEF Shape, Quiet, Claim, Charge
    <3>4. QED
      BY <3>1, <3>2, <3>3
  <2>6. ASSUME NEW a \in answers' PROVE inbound'[a.event] > 0
    <3>1. CASE a \in answers
      BY <2>3, <3>1 DEF TypeOK, AnswersType
    <3>2. CASE a \notin answers
      BY <2>1, <2>3, <2>4, <3>2 DEF Shape, Sends
    <3>3. QED
      BY <3>1, <3>2
  <2>7. QED
    BY <2>5, <2>6
<1>2. ASSUME NEW h \in Handlers, Abort(h) PROVE AnsweredInv'
  <2>1. Others(h) /\ pc'[h] = "idle" /\ UNCHANGED <<inbound, answers>>
    BY <1>2, FinishShape DEF Abort, TypeOK, ingest
  <2>2. QED
    BY <2>1 DEF Others
<1>3. ASSUME NEW h \in Handlers, NEW e \in Events, Receive(h, e) PROVE AnsweredInv'
  <2>1. /\ \A g \in Handlers \ {h} : pc'[g] = pc[g] /\ ev'[g] = ev[g]
        /\ pc'[h] \in {"dedup", "lookup"}
        /\ UNCHANGED <<inbound, answers>>
    BY <1>3 DEF Receive, Goto, TypeOK, HandlersType, ingest
  <2>2. QED
    BY <2>1
<1>4. ASSUME UNCHANGED <<inbound, answers, pc, ev>> PROVE AnsweredInv'
  BY <1>4
<1>5. QED
  BY <1>1, <1>2, <1>3, <1>4 DEF Next, SetSuspended, Tick, vars, ingest, locals

\* Every automatic answer is to an event the inbox shows: the replies of
\* executeRule, the AI, flows and the fallback leave after message.create.
THEOREM InboxFirst == Spec => []RepliesFollowInbound
<1>1. Init => AnsweredInv
  BY DEF Init, AnsweredInv, RepliesFollowInbound, PCs, Unsaved, AfterSave
<1>2. AnsweredInv => RepliesFollowInbound
  BY DEF AnsweredInv
<1>3. QED
  BY <1>1, <1>2, AnsweredStep, TypeCorrect, PTL DEF Spec

-----------------------------------------------------------------------------
(* One source per event.                                                    *)

\* Before anything has been sent, and while executeRule sends.
Unanswered == Unsaved \cup
    {"quota", "gate", "count", "flow", "flowstart", "ai", "aisend", "story", "storygate", "storysend", "intent",
     "dmrule", "dmgate", "dmsend", "fallback", "fallai", "falltext"}
RuleSending == {"public", "pubrecord", "private", "privrecord"}

SourceInv ==
    /\ OneSource
    /\ \A b \in answers : Identified(b.event) => b.event \in dedup
    /\ \A h \in Handlers : Identified(ev[h]) =>
          /\ pc[h] \in Unanswered => \A b \in answers : b.event # ev[h]
          /\ pc[h] \in RuleSending => \A b \in answers : b.event = ev[h] => b.by = "rule"

\* A step of a handler, as the customer sees it.
Mute(h) ==
    /\ UNCHANGED answers
    /\ \/ pc'[h] \notin Unanswered \cup RuleSending
       \/ pc[h] \in Unanswered /\ ev'[h] = ev[h]
       \/ pc[h] \in RuleSending /\ pc'[h] \in RuleSending /\ ev'[h] = ev[h]
       \/ ev[h] \notin dedup /\ ev'[h] = ev[h]

Speaks(h) ==
    /\ pc[h] \in Unanswered /\ pc'[h] \notin Unanswered \cup RuleSending
    /\ \E b : b.event = ev[h] /\ answers' = answers \cup {b}

RuleSpeaks(h) ==
    /\ pc[h] \in RuleSending /\ pc'[h] \in RuleSending /\ ev'[h] = ev[h]
    /\ \E b : b.event = ev[h] /\ b.by = "rule" /\ answers' = answers \cup {b}

AnswerStep(h) == Mute(h) \/ Speaks(h) \/ RuleSpeaks(h)

\* A call that cannot time out is either refused or delivered.
LEMMA Delivered ==
  ASSUME MayTimeout = FALSE, NEW h \in Handlers, NEW o \in Outcomes, NEW s, NEW dm, Deliver(h, o, s, dm)
  PROVE  /\ o \in {"ok", "failed"}
         /\ o = "failed" => answers' = answers
         /\ o = "ok" => \E b : b.event = ev[h] /\ b.by = s /\ answers' = answers \cup {b}
<1>1. [event |-> ev[h], by |-> s, dm |-> dm, at |-> clock].event = ev[h]
      /\ [event |-> ev[h], by |-> s, dm |-> dm, at |-> clock].by = s
  OBVIOUS
<1>2. QED
  BY <1>1 DEF Outcomes, Deliver

LEMMA IngestSpeaks ==
  ASSUME TypeOK, NEW h \in Handlers, Ingest(h)
  PROVE  AnswerStep(h)
<1> USE FinishShape, ContinueShape
    DEF TypeOK, At, PCs, AnswerStep, Mute, Unanswered, RuleSending, Unsaved
<1>1. CASE DedupFind(h) \/ DedupCreate(h) \/ FindConversation(h) \/ CreateConversation(h)
  BY <1>1 DEF DedupFind, DedupCreate, FindConversation, CreateConversation
<1>2. CASE Lookup(h) \/ TouchConversation(h)
  BY <1>2, GotoShape DEF Lookup, TouchConversation
<1>3. CASE FindContact(h) \/ CreateContact(h)
  BY <1>3 DEF FindContact, CreateContact
<1>4. CASE SaveInbound(h)
  BY <1>4, HandlerEvent DEF SaveInbound, Kinds
<1>5. QED
  BY <1>1, <1>2, <1>3, <1>4 DEF Ingest

LEMMA AnswerSpeaks ==
  ASSUME MayTimeout = FALSE, TypeOK, NEW h \in Handlers, AnswerComment(h) \/ AnswerDm(h)
  PROVE  AnswerStep(h)
<1> USE FinishShape, ContinueShape, Delivered
    DEF TypeOK, At, PCs, AnswerStep, Unanswered, RuleSending, Unsaved
<1>1. CASE RuleQuota(h) \/ RuleCount(h) \/ PublicRecord(h) \/ PrivateRecord(h) \/ RuleAudit(h)
  BY <1>1 DEF RuleQuota, RuleCount, PublicRecord, PrivateRecord, RuleAudit, Mute
<1>2. CASE RuleGate(h)
  BY <1>2, GotoShape DEF RuleGate, Mute
<1>3. CASE PublicReply(h)
  <2>1. CASE ~RuleShape[rule[h]].public
    BY <1>3, <2>1 DEF PublicReply, Mute
  <2>2. CASE RuleShape[rule[h]].public
    <3>1. PICK o \in Outcomes :
            /\ Deliver(h, o, "rule", FALSE)
            /\ Continue(h, IF o = "ok" THEN "pubrecord" ELSE "private")
      BY <1>3, <2>2 DEF PublicReply
    <3>2. /\ o = "failed" => answers' = answers
          /\ o = "ok" => \E b : b.event = ev[h] /\ b.by = "rule" /\ answers' = answers \cup {b}
          /\ o \in {"ok", "failed"}
      BY <3>1, Delivered
    <3>3. pc[h] = "public" /\ pc'[h] \in {"pubrecord", "private"} /\ ev'[h] = ev[h]
      BY <1>3, <3>1 DEF PublicReply
    <3>4. QED
      BY <3>2, <3>3 DEF Mute, RuleSpeaks
  <2>3. QED
    BY <2>1, <2>2
<1>4. CASE PrivateSend(h)
  <2>1. CASE ~MoreToSend(h)
    BY <1>4, <2>1, GotoShape DEF PrivateSend, Mute
  <2>2. CASE MoreToSend(h)
    <3>1. PICK o \in Outcomes :
            /\ Deliver(h, o, "rule", TRUE)
            /\ Goto(h, IF o = "ok" THEN "privrecord" ELSE "private")
      BY <1>4, <2>2 DEF PrivateSend
    <3>2. /\ o = "failed" => answers' = answers
          /\ o = "ok" => \E b : b.event = ev[h] /\ b.by = "rule" /\ answers' = answers \cup {b}
          /\ o \in {"ok", "failed"}
      <4>1. Deliver(h, o, "rule", TRUE)
        BY <3>1
      <4>2. o \in {"ok", "failed"}
        BY DEF Outcomes
      <4>3. [event |-> ev[h], by |-> "rule", dm |-> TRUE, at |-> clock].event = ev[h]
            /\ [event |-> ev[h], by |-> "rule", dm |-> TRUE, at |-> clock].by = "rule"
        OBVIOUS
      <4>4. QED
        BY <4>1, <4>2, <4>3 DEF Deliver
    <3>3. pc[h] = "private" /\ pc'[h] \in {"privrecord", "private"} /\ ev'[h] = ev[h]
      <4>1. pc[h] = "private" /\ UNCHANGED ev
        BY <1>4 DEF PrivateSend
      <4>2. pc'[h] \in {"privrecord", "private"}
        BY <3>1 DEF Goto, HandlersType
      <4>3. QED
        BY <4>1, <4>2
    <3>4. QED
      BY <3>2, <3>3 DEF Mute, RuleSpeaks
  <2>3. QED
    BY <2>1, <2>2
<1>5. CASE FlowMatch(h) \/ AiQuota(h) \/ AiAudit(h)
  BY <1>5 DEF FlowMatch, AiQuota, AiAudit, Mute
<1>6. CASE FlowStart(h)
  BY <1>6 DEF FlowStart, Mute, Speaks
<1>7. CASE AiSend(h)
  BY <1>7 DEF AiSend, Mute, Speaks
<1>8. CASE StoryMatch(h) \/ StoryGate(h) \/ DetectIntent(h)
  BY <1>8, GotoShape DEF StoryMatch, StoryGate, DetectIntent, Mute
<1>9. CASE StorySend(h)
  <2>1. PICK o \in IF HasText(rule[h]) THEN Outcomes ELSE {"failed"} :
          /\ Deliver(h, o, "story", TRUE)
          /\ IF o = "ok"
             THEN Continue(h, "dmrecord")
             ELSE Goto(h, "intent") /\ UNCHANGED ev
    BY <1>9 DEF StorySend
  <2>2. o \in Outcomes
    BY DEF Outcomes
  <2>3. QED
    BY <1>9, <2>1, <2>2, GotoShape DEF StorySend, Mute, Speaks
<1>10. CASE DmMatch(h) \/ DmGate(h) \/ DmRecord(h) \/ DmCount(h) \/ Fallback(h)
  BY <1>10, GotoShape DEF DmMatch, DmGate, DmRecord, DmCount, Fallback, Mute
<1>11. CASE DmSend(h)
  BY <1>11, GotoShape DEF DmSend, Mute, Speaks
<1>12. CASE FallbackAi(h)
  <2>1. PICK o \in Outcomes :
          Deliver(h, o, "ai", TRUE) /\ Continue(h, IF o = "ok" THEN "aiaudit" ELSE "falltext")
    BY <1>12 DEF FallbackAi, Outcomes
  <2>2. QED
    BY <1>12, <2>1 DEF FallbackAi, Mute, Speaks
<1>13. CASE FallbackText(h)
  <2>1. PICK o \in Outcomes : Deliver(h, o, "fallback", TRUE)
    BY <1>13 DEF FallbackText, Outcomes
  <2>2. QED
    BY <1>13, <2>1 DEF FallbackText, Mute, Speaks
<1>14. QED
  BY <1>1, <1>2, <1>3, <1>4, <1>5, <1>6, <1>7, <1>8, <1>9, <1>10, <1>11, <1>12, <1>13 DEF AnswerComment, AnswerDm

LEMMA SourceKept ==
  ASSUME TypeOK, TypeOK', OnceInv, SourceInv, NEW h \in Handlers, Others(h), AnswerStep(h), dedup \subseteq dedup'
  PROVE  SourceInv'
<1>0. \A g \in Handlers : ev[g] \in Events
  BY DEF TypeOK, HandlersType
<1>1. \A g \in Handlers \ {h} : pc[g] \in Unanswered \cup RuleSending /\ Identified(ev[g]) /\ Owns(h)
                                => ev[g] # ev[h]
  BY DEF OnceInv, OneOwner, Owns, Unanswered, RuleSending, AfterSave, Unsaved, PCs
<1>2. pc[h] \in Unanswered \cup RuleSending => Owns(h)
  BY DEF Owns, Unanswered, RuleSending, AfterSave, Unsaved, PCs
<1>3. CASE Mute(h)
  <2>1. \A b \in answers : Identified(b.event) => b.event \in dedup
    BY DEF SourceInv
  <2>2. \A g \in Handlers : g # h => pc'[g] = pc[g] /\ ev'[g] = ev[g]
    BY DEF Others
  <2>3. QED
    BY <1>3, <2>1, <2>2 DEF SourceInv, OneSource, Mute, Identified, Unanswered, RuleSending, Unsaved
<1>4. CASE Speaks(h)
  <2>1. PICK b : b.event = ev[h] /\ answers' = answers \cup {b}
    BY <1>4 DEF Speaks
  <2>2. Identified(ev[h]) => ev[h] \in dedup /\ \A a \in answers : a.event # ev[h]
    BY <1>2, <1>4 DEF Speaks, SourceInv, OnceInv, OwnerClaimed
  <2>3. OneSource'
    BY <2>1, <2>2 DEF SourceInv, OneSource, Identified
  <2>4. \A a \in answers' : Identified(a.event) => a.event \in dedup'
    BY <2>1, <2>2 DEF SourceInv, Identified
  <2>5. ASSUME NEW g \in Handlers, Identified(ev'[g]), pc'[g] \in Unanswered \cup RuleSending
        PROVE  g # h /\ pc'[g] = pc[g] /\ ev'[g] = ev[g] /\ ev[g] # ev[h]
    BY <1>1, <1>2, <1>4, <2>5 DEF Speaks, Others
  <2>6. QED
    BY <2>1, <2>3, <2>4, <2>5 DEF SourceInv, Identified
<1>5. CASE RuleSpeaks(h)
  <2>1. PICK b : b.event = ev[h] /\ b.by = "rule" /\ answers' = answers \cup {b}
    BY <1>5 DEF RuleSpeaks
  <2>2. Identified(ev[h]) => ev[h] \in dedup /\ \A a \in answers : a.event = ev[h] => a.by = "rule"
    BY <1>2, <1>5 DEF RuleSpeaks, SourceInv, OnceInv, OwnerClaimed
  <2>3. OneSource'
    BY <2>1, <2>2 DEF SourceInv, OneSource, Identified
  <2>4. \A a \in answers' : Identified(a.event) => a.event \in dedup'
    BY <2>1, <2>2 DEF SourceInv, Identified
  <2>5. ASSUME NEW g \in Handlers \ {h}, Identified(ev'[g]), pc'[g] \in Unanswered \cup RuleSending
        PROVE  pc'[g] = pc[g] /\ ev'[g] = ev[g] /\ ev[g] # ev[h]
    BY <1>1, <1>2, <1>5, <2>5 DEF RuleSpeaks, Others
  <2>6. pc'[h] \notin Unanswered /\ ev'[h] = ev[h]
    BY <1>5 DEF RuleSpeaks, RuleSending, Unanswered, Unsaved
  <2>7. QED
    BY <2>1, <2>2, <2>3, <2>4, <2>5, <2>6 DEF SourceInv, Identified
<1>6. QED
  BY <1>3, <1>4, <1>5 DEF AnswerStep

LEMMA SourceStep ==
  ASSUME MayTimeout = FALSE, TypeOK, OnceInv, SourceInv, [Next]_vars
  PROVE  SourceInv'
<1>0. TypeOK'
  BY TypeStep
<1>1. ASSUME NEW h \in Handlers, Handle(h) PROVE SourceInv'
  <2>1. Shape(h) /\ AnswerStep(h)
    BY <1>1, IngestShape, AnswerShape, IngestSpeaks, AnswerSpeaks DEF Handle
  <2>2. dedup \subseteq dedup'
    BY <2>1 DEF Shape, Quiet, Claim, Save, Charge
  <2>3. QED
    BY <1>0, <2>1, <2>2, SourceKept DEF Shape
<1>2. ASSUME NEW h \in Handlers, Abort(h) PROVE SourceInv'
  <2>1. Others(h) /\ AnswerStep(h) /\ dedup \subseteq dedup'
    BY <1>2, FinishShape DEF Abort, TypeOK, ingest, AnswerStep, Mute, Unanswered, RuleSending, Unsaved
  <2>2. QED
    BY <1>0, <2>1, SourceKept
<1>3. ASSUME NEW h \in Handlers, NEW e \in Events, Receive(h, e) PROVE SourceInv'
  <2>1. /\ \A g \in Handlers \ {h} : pc'[g] = pc[g] /\ ev'[g] = ev[g]
        /\ ev'[h] = e /\ pc'[h] = IF Identified(e) THEN "dedup" ELSE "lookup"
        /\ UNCHANGED <<dedup, answers>>
    BY <1>3 DEF Receive, TypeOK, HandlersType, Goto, ingest, Identified
  <2>2. QED
    BY <2>1 DEF SourceInv, OneSource, Identified, Unanswered, RuleSending, Unsaved
<1>4. ASSUME UNCHANGED <<dedup, answers, pc, ev>> PROVE SourceInv'
  BY <1>4 DEF SourceInv, OneSource, Identified
<1>5. QED
  BY <1>1, <1>2, <1>3, <1>4 DEF Next, SetSuspended, Tick, vars, ingest, locals

\* "Each only fires if the previous one didn't already reply": an identified event is answered by one of
\* rule, story rule, flow, AI and fallback, however often it is delivered and whoever is aborted, as long
\* as Graph tells the truth about what it delivered.  After a time-out the story and message paths go on
\* to the next source, and the assumption is needed.
THEOREM SingleSource ==
  ASSUME MayTimeout = FALSE
  PROVE  Spec => []OneSource
<1>1. Init => OnceInv /\ SourceInv
  BY DEF Init, OnceInv, OwnerClaimed, OneOwner, RecordedOnce, ChargedOnce, Owns, SourceInv, OneSource,
         PCs, Unsaved, AfterSave, Unanswered, RuleSending
<1>2. TypeOK /\ OnceInv /\ SourceInv /\ [Next]_vars => OnceInv' /\ SourceInv'
  BY OnceStep, SourceStep
<1>3. SourceInv => OneSource
  BY DEF SourceInv
<1>4. QED
  BY <1>1, <1>2, <1>3, TypeCorrect, PTL DEF Spec

-----------------------------------------------------------------------------
(* What is claimed and lost.                                                *)

EventsOf(A) == {ev[h] : h \in A}

LEMMA EventsCounted ==
  ASSUME NEW of, NEW A \in SUBSET Handlers
  PROVE  /\ IsFiniteSet({of[h] : h \in A}) /\ Cardinality({of[h] : h \in A}) \in Nat
         /\ Cardinality({of[h] : h \in A}) <= Cardinality(A)
         /\ Cardinality(A) <= Cardinality(Handlers)
         /\ Cardinality(A) \in Nat /\ Cardinality(Handlers) \in Nat
<1> DEFINE T == {of[h] : h \in A}
           map == [h \in A |-> of[h]]
<1>1. IsFiniteSet(A) /\ Cardinality(A) <= Cardinality(Handlers)
  BY BoundsAssumption, FS_Subset
<1>2. map \in Surjection(A, T)
  BY DEF Surjection
<1>3. IsFiniteSet(T) /\ Cardinality(T) <= Cardinality(A)
  BY <1>1, <1>2, FS_Surjection
<1>4. QED
  BY <1>1, <1>3, BoundsAssumption, FS_CardinalityType

\* A claimed event of a customer is on its way, recorded, or lost in one of the two ways.
LossInv ==
    /\ \A h \in Handlers : pc[h] \in {"dedup", "claim"} => Identified(ev[h])
    /\ \A e \in dedup :
          /\ Identified(e)
          /\ EventInfo[e].origin = "customer" =>
                \/ inbound[e] = 1 \/ e \in beaten \cup cut
                \/ \E h \in Handlers : ev[h] = e /\ pc[h] \in Unsaved

Creating(u) == {h \in Handlers : pc[h] = "create" /\ User(h) = u}

\* The handler that creates the conversation of a customer is none of those that are beaten to it.
BeatInv ==
    \A u \in Users :
       IF conv[u] = "none" THEN BeatenOf(u) = {}
       ELSE /\ IsFiniteSet(BeatenOf(u))
            /\ Cardinality(BeatenOf(u) \cup EventsOf(Creating(u))) <= Cardinality(Handlers) - 1

\* A conversation that exists stays, and no handler sets out to create it.
Stays == \A u \in Users : conv[u] # "none" => conv'[u] # "none"
SetsOut(h) == pc'[h] = "create" => ev'[h] = ev[h] /\ conv[User(h)] = "none" /\ conv' = conv

BeatStep(h) ==
    /\ Others(h) /\ Stays /\ SetsOut(h)
    /\ \/ beaten' = beaten
       \/ pc[h] = "create" /\ beaten' = beaten \cup {ev[h]} /\ conv' = conv /\ conv[User(h)] # "none"

\* Handlers that answer leave the deduplication and the inbox alone.
LEMMA AnswersOnly ==
  ASSUME TypeOK, NEW h \in Handlers, AnswerComment(h) \/ AnswerDm(h)
  PROVE  /\ pc[h] \in AfterSave /\ pc'[h] \in AfterSave \cup {"idle"} /\ Others(h)
         /\ UNCHANGED <<dedup, inbound, beaten, cut>> /\ Stays
<1> USE FinishShape, ContinueShape DEF TypeOK, At, PCs, Unsaved, AfterSave, ingest, world, WorldExceptGate, Stays
<1>1. CASE RuleQuota(h) \/ RuleCount(h) \/ PublicRecord(h) \/ PrivateRecord(h) \/ RuleAudit(h)
  BY <1>1 DEF RuleQuota, RuleCount, PublicRecord, PrivateRecord, RuleAudit
<1>2. CASE RuleGate(h)
  BY <1>2, GotoShape DEF RuleGate
<1>3. CASE PublicReply(h)
  BY <1>3 DEF PublicReply
<1>4. CASE PrivateSend(h)
  BY <1>4, GotoShape DEF PrivateSend
<1>5. CASE FlowMatch(h) \/ AiQuota(h) \/ AiAudit(h) \/ FlowStart(h) \/ AiSend(h)
  BY <1>5 DEF FlowMatch, AiQuota, AiAudit, FlowStart, AiSend
<1>6. CASE StoryMatch(h) \/ StoryGate(h)
  BY <1>6, GotoShape DEF StoryMatch, StoryGate
<1>7. CASE StorySend(h)
  BY <1>7, GotoShape DEF StorySend
<1>8. CASE DetectIntent(h)
  <2>1. conv' = conv \/ conv' = [conv EXCEPT ![User(h)] = "hot"]
    BY <1>8 DEF DetectIntent
  <2>2. Stays
    BY <2>1 DEF IngestType
  <2>3. QED
    BY <1>8, <2>2 DEF DetectIntent
<1>9. CASE DmMatch(h) \/ DmGate(h) \/ DmRecord(h) \/ DmCount(h) \/ Fallback(h)
  BY <1>9, GotoShape DEF DmMatch, DmGate, DmRecord, DmCount, Fallback
<1>10. CASE DmSend(h)
  BY <1>10, GotoShape DEF DmSend
<1>11. CASE FallbackAi(h) \/ FallbackText(h)
  BY <1>11 DEF FallbackAi, FallbackText
<1>12. QED
  BY <1>1, <1>2, <1>3, <1>4, <1>5, <1>6, <1>7, <1>8, <1>9, <1>10, <1>11 DEF AnswerComment, AnswerDm

\* A step that gives up, records or passes on no event but its own.
LEMMA LossKept ==
  ASSUME TypeOK, OnceInv, LossInv, NEW h \in Handlers, Others(h),
         pc'[h] \in {"dedup", "claim"} => Identified(ev'[h]),
         beaten \subseteq beaten', cut \subseteq cut',
         \/ dedup' = dedup
         \/ dedup' = dedup \cup {ev[h]} /\ Identified(ev[h]) /\ pc'[h] \in Unsaved /\ ev'[h] = ev[h],
         \/ inbound' = inbound
         \/ pc[h] \in Unsaved /\ inbound' = [inbound EXCEPT ![ev[h]] = @ + 1],
         pc[h] \in Unsaved /\ ev[h] \in dedup /\ EventInfo[ev[h]].origin = "customer" =>
            \/ pc'[h] \in Unsaved /\ ev'[h] = ev[h]
            \/ ev[h] \in beaten' \cup cut'
            \/ inbound' = [inbound EXCEPT ![ev[h]] = @ + 1]
  PROVE  LossInv'
<1>1. \A e \in Events : inbound[e] \in Nat
  BY DEF TypeOK, IngestType
<1>2. pc[h] \in Unsaved /\ Identified(ev[h]) => inbound[ev[h]] = 0
  BY DEF OnceInv, RecordedOnce
<1>3. ASSUME NEW e \in dedup', EventInfo[e].origin = "customer"
      PROVE  \/ inbound'[e] = 1 \/ e \in beaten' \cup cut'
             \/ \E g \in Handlers : ev'[g] = e /\ pc'[g] \in Unsaved
  <2>0. dedup \subseteq Events /\ ev[h] \in Events /\ inbound \in [Events -> Nat]
    BY DEF TypeOK, IngestType, HandlersType
  <2>1. CASE e \in dedup
    <3>1. inbound[e] = 1 => inbound'[e] = 1
      <4>1. CASE inbound' = inbound
        BY <4>1
      <4>2. CASE pc[h] \in Unsaved /\ inbound' = [inbound EXCEPT ![ev[h]] = @ + 1]
        BY <1>2, <2>0, <2>1, <4>2 DEF LossInv
      <4>3. QED
        BY <4>1, <4>2
    <3>2. CASE \E g \in Handlers : ev[g] = e /\ pc[g] \in Unsaved
      <4>1. PICK g \in Handlers : ev[g] = e /\ pc[g] \in Unsaved
        BY <3>2
      <4>2. CASE g # h
        BY <4>1, <4>2 DEF Others
      <4>3. CASE g = h
        <5>1. inbound' = [inbound EXCEPT ![ev[h]] = @ + 1] => inbound'[e] = 1
          BY <1>2, <2>0, <2>1, <4>1, <4>3 DEF LossInv
        <5>2. QED
          BY <1>3, <2>1, <4>1, <4>3, <5>1
      <4>4. QED
        BY <4>2, <4>3
    <3>3. QED
      BY <1>3, <2>1, <3>1, <3>2 DEF LossInv
  <2>2. CASE e \notin dedup
    BY <2>2
  <2>3. QED
    BY <2>1, <2>2
<1>4. \A e \in dedup' : Identified(e)
  BY DEF LossInv
<1>5. \A g \in Handlers : pc'[g] \in {"dedup", "claim"} => Identified(ev'[g])
  BY DEF LossInv, Others
<1>6. QED
  BY <1>3, <1>4, <1>5 DEF LossInv, Identified

LEMMA LossStep ==
  ASSUME TypeOK, OnceInv, LossInv, [Next]_vars
  PROVE  LossInv'
<1>1. ASSUME NEW h \in Handlers, Ingest(h) PROVE LossInv'
  <2> USE FinishShape, ContinueShape, LossKept DEF TypeOK, At, PCs, Unsaved, LossInv, world
  <2>1. CASE DedupFind(h)
    BY <2>1 DEF DedupFind, ingest
  <2>2. CASE DedupCreate(h)
    BY <2>2 DEF DedupCreate
  <2>3. CASE Lookup(h)
    BY <2>3, GotoShape DEF Lookup, ingest
  <2>4. CASE FindConversation(h)
    BY <2>4 DEF FindConversation, ingest
  <2>5. CASE CreateConversation(h)
    BY <2>5 DEF CreateConversation
  <2>6. CASE TouchConversation(h)
    BY <2>6, GotoShape DEF TouchConversation, ingest
  <2>7. CASE FindContact(h) \/ CreateContact(h)
    BY <2>7 DEF FindContact, CreateContact, ingest
  <2>8. CASE SaveInbound(h)
    <3>1. pc[h] = "save" /\ Others(h) /\ pc'[h] \in {"quota", "flow", "story", "intent"}
      BY <2>8, HandlerEvent DEF SaveInbound, Kinds
    <3>2. QED
      BY <2>8, <3>1 DEF SaveInbound
  <2>9. QED
    BY <1>1, <2>1, <2>2, <2>3, <2>4, <2>5, <2>6, <2>7, <2>8 DEF Ingest
<1>2. ASSUME NEW h \in Handlers, AnswerComment(h) \/ AnswerDm(h) PROVE LossInv'
  BY <1>2, AnswersOnly, LossKept DEF AfterSave, Unsaved
<1>3. ASSUME NEW h \in Handlers, Abort(h) PROVE LossInv'
  <2>1. /\ Others(h) /\ pc'[h] = "idle" /\ UNCHANGED <<dedup, inbound, beaten>>
        /\ cut' = IF pc[h] \in Unsaved THEN cut \cup {ev[h]} ELSE cut
    BY <1>3, FinishShape DEF Abort, TypeOK, ingest
  <2>2. QED
    BY <2>1, LossKept DEF Unsaved
<1>4. ASSUME NEW h \in Handlers, NEW e \in Events, Receive(h, e) PROVE LossInv'
  <2>1. /\ pc[h] = "idle" /\ ev'[h] = e /\ pc'[h] = IF Identified(e) THEN "dedup" ELSE "lookup"
        /\ Others(h) /\ UNCHANGED <<dedup, inbound, beaten, cut>>
    BY <1>4 DEF Receive, TypeOK, HandlersType, Goto, ingest, At, Identified, Others
  <2>2. QED
    BY <2>1, LossKept DEF Unsaved
<1>5. CASE UNCHANGED <<dedup, inbound, beaten, cut, pc, ev>>
  BY <1>5 DEF LossInv, Identified
<1>6. QED
  BY <1>1, <1>2, <1>3, <1>4, <1>5 DEF Next, Handle, SetSuspended, Tick, vars, ingest, world, locals

LEMMA BeatKept ==
  ASSUME TypeOK, BeatInv, NEW h \in Handlers, BeatStep(h)
  PROVE  BeatInv'
<1> SUFFICES ASSUME NEW u \in Users
             PROVE  IF conv'[u] = "none" THEN BeatenOf(u)' = {}
                    ELSE /\ IsFiniteSet(BeatenOf(u)')
                         /\ Cardinality(BeatenOf(u)' \cup EventsOf(Creating(u))') <= Cardinality(Handlers) - 1
  BY DEF BeatInv
<1> DEFINE M == BeatenOf(u) \cup EventsOf(Creating(u))
           N == BeatenOf(u)' \cup EventsOf(Creating(u))'
<1>1. \A g \in Handlers : g \in Creating(u)' => ev'[g] = ev[g] /\ (g # h => g \in Creating(u))
  BY DEF BeatStep, Others, SetsOut, Creating, User
<1>2. CASE conv[u] = "none"
  <2>1. BeatenOf(u)' = {}
    BY <1>2 DEF BeatInv, BeatStep, BeatenOf, User
  <2>2. conv'[u] # "none" => h \notin Creating(u)'
    BY <1>1, <1>2 DEF BeatStep, SetsOut, Creating
  <2>3. CASE conv'[u] # "none"
    <3>1. Creating(u)' \subseteq Handlers \ {h}
      BY <2>2, <2>3 DEF Creating
    <3>2. EventsOf(Creating(u))' \subseteq EventsOf(Handlers \ {h})
      BY <1>1, <3>1 DEF EventsOf
    <3>3. Cardinality(Handlers \ {h}) = Cardinality(Handlers) - 1
      BY BoundsAssumption, FS_RemoveElement
    <3>4. /\ IsFiniteSet(EventsOf(Handlers \ {h})) /\ Cardinality(Handlers) \in Nat
          /\ Cardinality(EventsOf(Handlers \ {h})) <= Cardinality(Handlers) - 1
          /\ Cardinality(EventsOf(Handlers \ {h})) \in Nat
      BY <3>3, EventsCounted DEF EventsOf
    <3>5. N \subseteq EventsOf(Handlers \ {h}) /\ IsFiniteSet(BeatenOf(u)')
      BY <2>1, <3>2, FS_EmptySet
    <3>6. Cardinality(N) <= Cardinality(EventsOf(Handlers \ {h})) /\ Cardinality(N) \in Nat
      BY <3>4, <3>5, FS_Subset, FS_CardinalityType
    <3>7. QED
      BY <2>3, <3>4, <3>5, <3>6
  <2>4. QED
    BY <2>1, <2>3
<1>3. CASE conv[u] # "none"
  <2>1. conv'[u] # "none"
    BY <1>3 DEF BeatStep, Stays
  <2>2. \A g \in Handlers : g \in Creating(u)' => g \in Creating(u)
    BY <1>1, <1>3 DEF BeatStep, SetsOut, Creating, User
  <2>3. EventsOf(Creating(u))' \subseteq EventsOf(Creating(u))
    BY <1>1, <2>2 DEF EventsOf, Creating
  <2>4. BeatenOf(u)' \subseteq M
    BY DEF BeatStep, BeatenOf, EventsOf, Creating, User
  <2>5. IsFiniteSet(M) /\ Cardinality(M) <= Cardinality(Handlers) - 1
    <3>1. Creating(u) \in SUBSET Handlers
      BY DEF Creating
    <3>2. IsFiniteSet(EventsOf(Creating(u))) /\ IsFiniteSet(BeatenOf(u))
      BY <1>3, <3>1, EventsCounted DEF BeatInv, EventsOf
    <3>3. QED
      BY <1>3, <3>2, FS_Union DEF BeatInv
  <2>6. N \subseteq M
    BY <2>3, <2>4
  <2>7. Cardinality(N) <= Cardinality(M) /\ Cardinality(N) \in Nat /\ Cardinality(M) \in Nat
    BY <2>5, <2>6, FS_Subset, FS_CardinalityType
  <2>8. IsFiniteSet(BeatenOf(u)')
    BY <2>4, <2>5, FS_Subset
  <2>9. Cardinality(Handlers) \in Nat
    BY BoundsAssumption, FS_CardinalityType
  <2>10. QED
    BY <2>1, <2>5, <2>7, <2>8, <2>9
<1>4. QED
  BY <1>2, <1>3

LEMMA BeatsStep ==
  ASSUME TypeOK, BeatInv, [Next]_vars
  PROVE  BeatInv'
<1>1. ASSUME NEW h \in Handlers, Ingest(h) PROVE BeatStep(h)
  <2> USE FinishShape, ContinueShape DEF TypeOK, At, PCs, ingest, BeatStep, Stays, SetsOut
  <2>1. CASE DedupFind(h) \/ DedupCreate(h)
    BY <2>1 DEF DedupFind, DedupCreate
  <2>2. CASE Lookup(h)
    BY <2>2, GotoShape DEF Lookup
  <2>3. CASE FindConversation(h)
    BY <2>3 DEF FindConversation
  <2>4. CASE CreateConversation(h)
    <3>1. pc[h] = "create" /\ (pc'[h] = "idle" \/ pc'[h] \in {"save", "contact"}) /\ Others(h)
      BY <2>4 DEF CreateConversation
    <3>2. Stays
      BY <2>4, HandlerEvent DEF CreateConversation, IngestType
    <3>3. QED
      BY <2>4, <3>1, <3>2 DEF CreateConversation
  <2>5. CASE TouchConversation(h)
    BY <2>5, GotoShape DEF TouchConversation
  <2>6. CASE FindContact(h) \/ CreateContact(h)
    BY <2>6 DEF FindContact, CreateContact
  <2>7. CASE SaveInbound(h)
    BY <2>7, HandlerEvent DEF SaveInbound, Kinds
  <2>8. QED
    BY <1>1, <2>1, <2>2, <2>3, <2>4, <2>5, <2>6, <2>7 DEF Ingest
<1>2. ASSUME NEW h \in Handlers, AnswerComment(h) \/ AnswerDm(h) PROVE BeatStep(h)
  BY <1>2, AnswersOnly DEF AfterSave, Unsaved, BeatStep, SetsOut
<1>3. ASSUME NEW h \in Handlers, Abort(h) PROVE BeatStep(h)
  BY <1>3, FinishShape DEF Abort, TypeOK, ingest, BeatStep, Stays, SetsOut
<1>4. ASSUME NEW h \in Handlers, NEW e \in Events, Receive(h, e) PROVE BeatStep(h)
  BY <1>4 DEF Receive, TypeOK, HandlersType, Goto, ingest, At, Others, BeatStep, Stays, SetsOut
<1>5. CASE UNCHANGED <<conv, beaten, pc, ev>>
  BY <1>5 DEF BeatInv, BeatenOf, EventsOf, Creating, User
<1>6. QED
  BY <1>1, <1>2, <1>3, <1>4, <1>5, BeatKept DEF Next, Handle, SetSuspended, Tick, vars, ingest, locals

\* The dedup row makes every redelivery of an event a no-op, and it is written before the event is recorded.
\* What the webhook has claimed from a customer is in the inbox once nobody works on it, or its handler ended
\* between the two rows, or another handler created the conversation first; the last happens to fewer events
\* of a customer than there are handlers, however often and in whatever order Meta delivers them.
THEOREM ClaimedIsRecorded == Spec => []NoSilentLoss
<1>1. Init => OnceInv /\ LossInv /\ BeatInv
  <2>1. Init => OnceInv /\ LossInv
    BY DEF Init, OnceInv, OwnerClaimed, OneOwner, RecordedOnce, ChargedOnce, Owns, LossInv,
           PCs, Unsaved, AfterSave
  <2>2. Init => BeatInv
    BY DEF Init, BeatInv, BeatenOf
  <2>3. QED
    BY <2>1, <2>2
<1>2. TypeOK /\ OnceInv /\ LossInv /\ BeatInv /\ [Next]_vars => OnceInv' /\ LossInv' /\ BeatInv'
  BY OnceStep, LossStep, BeatsStep
<1>3. LossInv /\ BeatInv => NoSilentLoss
  <2> SUFFICES ASSUME LossInv, BeatInv PROVE NoSilentLoss
    OBVIOUS
  <2>1. \A e \in dedup : Handling(e) = {} /\ EventInfo[e].origin = "customer"
                         => inbound[e] = 1 \/ e \in beaten \cup cut
    BY DEF LossInv, Handling, Unsaved
  <2>2. ASSUME NEW u \in Users PROVE Cardinality(BeatenOf(u)) <= Cardinality(Handlers) - 1
    <3>1. Cardinality(Handlers) \in Nat /\ Cardinality(Handlers) # 0
      BY BoundsAssumption, FS_CardinalityType, FS_EmptySet
    <3>2. CASE conv[u] = "none"
      <4>1. BeatenOf(u) = {}
        BY <3>2 DEF BeatInv
      <4>2. Cardinality(BeatenOf(u)) = 0
        BY <4>1, FS_EmptySet
      <4>3. QED
        BY <3>1, <4>2
    <3>3. CASE conv[u] # "none"
      <4>1. Creating(u) \in SUBSET Handlers
        BY DEF Creating
      <4>2. /\ IsFiniteSet(BeatenOf(u) \cup EventsOf(Creating(u)))
            /\ Cardinality(BeatenOf(u) \cup EventsOf(Creating(u))) <= Cardinality(Handlers) - 1
        BY <3>3, <4>1, EventsCounted, FS_Union DEF BeatInv, EventsOf
      <4>3. /\ Cardinality(BeatenOf(u)) <= Cardinality(BeatenOf(u) \cup EventsOf(Creating(u)))
            /\ Cardinality(BeatenOf(u)) \in Nat /\ Cardinality(BeatenOf(u) \cup EventsOf(Creating(u))) \in Nat
        BY <3>3, <4>2, FS_Subset, FS_CardinalityType DEF BeatInv
      <4>4. QED
        BY <3>1, <4>2, <4>3
    <3>4. QED
      BY <3>2, <3>3
  <2>3. QED
    BY <2>1, <2>2 DEF NoSilentLoss
<1>4. QED
  BY <1>1, <1>2, <1>3, TypeCorrect, PTL DEF Spec

-----------------------------------------------------------------------------
(* The triggered private messages of a day, from handlers that overlap.     *)

Recording == {"privrecord", "dmrecord"}
PastGate(h) == canDm[h] \/ pc[h] = "storysend"

Recorders(u) == {h \in Handlers : pc[h] \in Recording /\ User(h) = u}
Admittees(u) == {h \in Handlers : PastGate(h) /\ User(h) = u}

\* Of a window that is still open: as long as the gate has seen no message of it, what was sent in it is about
\* to be recorded; once it has, nobody passes the gate any more, and those who did have an event each.
WindowInv(u, since) ==
    /\ IsFiniteSet(TriggeredFrom(u, since))
    /\ Cardinality(TriggeredFrom(u, since)) <= Cardinality(Handlers)
    /\ clock < since + DmWindow /\ lastAuto[u] < since =>
          TriggeredFrom(u, since) \subseteq EventsOf(Recorders(u))
    /\ clock < since + DmWindow /\ lastAuto[u] >= since =>
          Cardinality(TriggeredFrom(u, since) \cup EventsOf(Admittees(u))) <= Cardinality(Handlers)

DmInv ==
    /\ \A u \in Users : lastAuto[u] <= clock
    /\ \A b \in answers : b.at <= clock
    /\ \A h \in Handlers : canDm[h] => pc[h] # "idle"
    /\ \A u \in Users, since \in 0 .. clock : WindowInv(u, since)

\* A step of a handler, as the limit sees it: it sends no triggered message but one the gate cannot see,
\* leaves none unrecorded and passes no gate,
Plain(h) ==
    /\ pc[h] \notin Recording \/ ev[h] \in offGate'
    /\ \A b \in answers' : b \in answers \/ (b.at = clock /\ (Triggered(b) => b.event \in offGate'))
    /\ UNCHANGED lastAuto
    /\ PastGate(h)' => PastGate(h) /\ ev'[h] = ev[h]
    /\ canDm'[h] => pc'[h] # "idle"

\* or it passes a gate,
Admits(h) ==
    /\ pc[h] \notin Recording /\ pc'[h] # "idle" /\ ev'[h] = ev[h]
    /\ ~RecentAuto(User(h))
    /\ UNCHANGED <<answers, lastAuto>>

\* or it sends one past the gate,
Triggers(h) ==
    /\ pc[h] \notin Recording /\ pc'[h] \in Recording /\ ev'[h] = ev[h]
    /\ PastGate(h)
    /\ UNCHANGED <<lastAuto, canDm>>
    /\ \A b \in answers' : b \in answers \/ (b.event = ev[h] /\ b.at = clock)

\* or it records one.
Records(h) ==
    /\ pc'[h] \notin {"idle", "storysend"} /\ ev'[h] = ev[h]
    /\ UNCHANGED <<answers, canDm>>
    /\ RecordAuto(h)

DmStep(h) ==
    /\ \A g \in Handlers \ {h} : pc'[g] = pc[g] /\ ev'[g] = ev[g] /\ canDm'[g] = canDm[g]
    /\ offGate \subseteq offGate' /\ clock' = clock
    /\ Plain(h) \/ Admits(h) \/ Triggers(h) \/ Records(h)

LEMMA FinishDm ==
  ASSUME HandlersType, NEW h \in Handlers, Finish(h)
  PROVE  /\ ~canDm'[h] /\ pc'[h] = "idle"
         /\ \A g \in Handlers \ {h} : pc'[g] = pc[g] /\ ev'[g] = ev[g] /\ canDm'[g] = canDm[g]
  BY DEF HandlersType, Finish, Goto

LEMMA ContinueDm ==
  ASSUME HandlersType, NEW h \in Handlers, NEW l \in PCs, Continue(h, l)
  PROVE  /\ canDm' = canDm /\ pc'[h] = l /\ ev' = ev
         /\ \A g \in Handlers \ {h} : pc'[g] = pc[g] /\ ev'[g] = ev[g] /\ canDm'[g] = canDm[g]
  BY DEF HandlersType, Continue, Goto, locals

LEMMA GotoDm ==
  ASSUME HandlersType, NEW h \in Handlers, NEW l \in PCs, Goto(h, l)
  PROVE  pc'[h] = l /\ \A g \in Handlers \ {h} : pc'[g] = pc[g]
  BY DEF HandlersType, Goto

LEMMA DeliverDm ==
  ASSUME NEW h \in Handlers, NEW o, NEW s, NEW dm \in BOOLEAN, Deliver(h, o, s, dm)
  PROVE  /\ \A b \in answers' : b \in answers \/ (b.event = ev[h] /\ b.at = clock)
         /\ s \notin {"rule", "story"} \/ ~dm
            => \A b \in answers' : b \in answers \/ (b.at = clock /\ ~Triggered(b))
  BY DEF Deliver, Triggered

LEMMA IngestDm ==
  ASSUME TypeOK, NEW h \in Handlers, Ingest(h)
  PROVE  DmStep(h)
<1> USE FinishDm, ContinueDm, GotoDm DEF TypeOK, At, PCs, DmStep, Plain, PastGate, Recording, replies, world
<1>1. CASE DedupFind(h) \/ DedupCreate(h) \/ FindConversation(h) \/ CreateConversation(h)
  BY <1>1 DEF DedupFind, DedupCreate, FindConversation, CreateConversation
<1>2. CASE Lookup(h)
  BY <1>2 DEF Lookup
<1>3. CASE TouchConversation(h)
  BY <1>3 DEF TouchConversation
<1>4. CASE FindContact(h) \/ CreateContact(h)
  BY <1>4 DEF FindContact, CreateContact
<1>5. CASE SaveInbound(h)
  BY <1>5, HandlerEvent DEF SaveInbound, Kinds
<1>6. QED
  BY <1>1, <1>2, <1>3, <1>4, <1>5 DEF Ingest

LEMMA CommentDm ==
  ASSUME TypeOK, NEW h \in Handlers, AnswerComment(h)
  PROVE  DmStep(h)
<1> USE FinishDm, ContinueDm, GotoDm DEF TypeOK, At, PCs, DmStep, PastGate, Recording, world
<1>1. CASE RuleQuota(h) \/ RuleCount(h) \/ RuleAudit(h)
  BY <1>1 DEF RuleQuota, RuleCount, RuleAudit, Plain
<1>2. CASE RuleGate(h)
  <2>1. /\ canDm'[h] = ~RecentAuto(User(h))
        /\ \A g \in Handlers \ {h} : canDm'[g] = canDm[g]
    BY <1>2 DEF RuleGate, HandlersType
  <2>2. pc[h] = "gate" /\ pc'[h] = "count" /\ UNCHANGED <<ev, lastAuto, answers, offGate, clock>>
    BY <1>2 DEF RuleGate
  <2>3. \A g \in Handlers \ {h} : pc'[g] = pc[g]
    BY <1>2 DEF RuleGate
  <2>4. QED
    BY <2>1, <2>2, <2>3 DEF Plain, Admits
<1>3. CASE PublicReply(h)
  <2>1. \A b \in answers' : b \in answers \/ (b.at = clock /\ ~Triggered(b))
    BY <1>3, DeliverDm DEF PublicReply
  <2>2. QED
    BY <1>3, <2>1 DEF PublicReply, Plain, replies
<1>4. CASE PublicRecord(h) \/ PrivateRecord(h)
  BY <1>4 DEF PublicRecord, PrivateRecord, Records
<1>5. CASE PrivateSend(h)
  <2>1. CASE ~MoreToSend(h)
    BY <1>5, <2>1 DEF PrivateSend, Plain, replies, WorldExceptGate
  <2>2. CASE MoreToSend(h)
    <3>1. PICK o \in Outcomes :
            /\ Deliver(h, o, "rule", TRUE)
            /\ Goto(h, IF o = "ok" THEN "privrecord" ELSE "private")
            /\ Bypass(h, o = "timeout" \/ ~RuleShape[rule[h]].sequence)
      BY <1>5, <2>2 DEF PrivateSend
    <3>2. pc[h] = "private" /\ UNCHANGED <<ev, canDm, lastAuto, clock>>
      BY <1>5 DEF PrivateSend, replies, WorldExceptGate
    <3>3. \A b \in answers' : b \in answers \/ (b.event = ev[h] /\ b.at = clock)
      BY <3>1, DeliverDm
    <3>4. /\ pc'[h] = IF o = "ok" THEN "privrecord" ELSE "private"
          /\ \A g \in Handlers \ {h} : pc'[g] = pc[g]
          /\ offGate \subseteq offGate'
      BY <3>1 DEF Bypass
    <3>5. CASE o = "timeout" \/ ~RuleShape[rule[h]].sequence
      <4>1. ev[h] \in offGate'
        BY <3>1, <3>5 DEF Bypass
      <4>2. canDm'[h] => pc'[h] # "idle"
        BY <3>4
      <4>3. Plain(h)
        BY <3>2, <3>3, <3>4, <4>1, <4>2 DEF Plain
      <4>4. QED
        BY <3>2, <3>4, <4>3
    <3>6. CASE ~(o = "timeout" \/ ~RuleShape[rule[h]].sequence)
      <4>1. canDm[h]
        BY <2>2, <3>6 DEF MoreToSend
      <4>2. CASE o = "ok"
        BY <3>2, <3>3, <3>4, <4>1, <4>2 DEF Triggers
      <4>3. CASE o = "failed"
        <5>1. answers' = answers
          BY <3>1, <4>3 DEF Deliver
        <5>2. QED
          BY <3>2, <3>4, <4>3, <5>1 DEF Plain
      <4>4. QED
        BY <3>1, <3>6, <4>2, <4>3 DEF Outcomes
    <3>7. QED
      BY <3>5, <3>6
  <2>3. QED
    BY <2>1, <2>2
<1>6. CASE FlowMatch(h) \/ AiQuota(h) \/ AiAudit(h)
  BY <1>6 DEF FlowMatch, AiQuota, AiAudit, Plain, replies
<1>7. CASE FlowStart(h)
  <2>1. PICK o : Deliver(h, o, "flow", TRUE)
    BY <1>7 DEF FlowStart
  <2>2. \A b \in answers' : b \in answers \/ (b.at = clock /\ ~Triggered(b))
    BY <2>1 DEF Deliver, Triggered
  <2>3. QED
    BY <1>7, <2>2 DEF FlowStart, Plain
<1>8. CASE AiSend(h)
  <2>1. \A b \in answers' : b \in answers \/ (b.at = clock /\ ~Triggered(b))
    BY <1>8, DeliverDm DEF AiSend
  <2>2. QED
    BY <1>8, <2>1 DEF AiSend, Plain, replies
<1>9. QED
  BY <1>1, <1>2, <1>3, <1>4, <1>5, <1>6, <1>7, <1>8 DEF AnswerComment

LEMMA MessageDm ==
  ASSUME TypeOK, NEW h \in Handlers, AnswerDm(h)
  PROVE  DmStep(h)
<1> USE FinishDm, ContinueDm, GotoDm DEF TypeOK, At, PCs, DmStep, PastGate, Recording, world
<1>1. CASE StoryMatch(h) \/ DetectIntent(h) \/ DmMatch(h) \/ DmGate(h)
  BY <1>1 DEF StoryMatch, DetectIntent, DmMatch, DmGate, Plain, replies
<1>2. CASE StoryGate(h)
  <2>1. pc[h] = "storygate" /\ UNCHANGED <<answers, lastAuto, offGate, clock>>
    BY <1>2 DEF StoryGate
  <2>2. CASE RecentAuto(User(h))
    BY <1>2, <2>1, <2>2 DEF StoryGate, Plain
  <2>3. CASE ~RecentAuto(User(h))
    BY <1>2, <2>1, <2>3 DEF StoryGate, Admits
  <2>4. QED
    BY <2>2, <2>3
<1>3. CASE StorySend(h)
  <2>1. PICK o \in IF HasText(rule[h]) THEN Outcomes ELSE {"failed"} :
          /\ Deliver(h, o, "story", TRUE)
          /\ Bypass(h, o = "timeout")
          /\ IF o = "ok"
             THEN Continue(h, "dmrecord")
             ELSE Goto(h, "intent") /\ UNCHANGED <<ev, canDm>>
    BY <1>3 DEF StorySend
  <2>2. pc[h] = "storysend" /\ UNCHANGED <<lastAuto, clock>> /\ offGate \subseteq offGate'
    BY <1>3, <2>1 DEF StorySend, replies, WorldExceptGate, Bypass
  <2>3. \A b \in answers' : b \in answers \/ (b.event = ev[h] /\ b.at = clock)
    BY <2>1 DEF Deliver, Triggered
  <2>4. CASE o = "ok"
    BY <2>1, <2>2, <2>3, <2>4 DEF Triggers
  <2>5. CASE o = "timeout"
    <3>1. ev[h] \in offGate'
      BY <2>1, <2>5 DEF Bypass
    <3>2. QED
      BY <2>1, <2>2, <2>3, <2>5, <3>1 DEF Plain
  <2>6. CASE o = "failed"
    <3>1. answers' = answers
      BY <2>1, <2>6 DEF Deliver
    <3>2. QED
      BY <2>1, <2>2, <2>6, <3>1 DEF Plain
  <2>7. QED
    BY <2>1, <2>4, <2>5, <2>6 DEF Outcomes
<1>4. CASE DmSend(h)
  <2>1. PICK o \in Outcomes : Deliver(h, o, "dmrule", TRUE)
    BY <1>4 DEF DmSend
  <2>2. \A b \in answers' : b \in answers \/ (b.at = clock /\ ~Triggered(b))
    BY <2>1 DEF Deliver, Triggered
  <2>3. QED
    BY <1>4, <2>2 DEF DmSend, Plain, replies
<1>5. CASE DmRecord(h)
  BY <1>5 DEF DmRecord, Records
<1>6. CASE DmCount(h) \/ Fallback(h)
  BY <1>6 DEF DmCount, Fallback, Plain, replies
<1>7. CASE FallbackAi(h)
  <2>1. PICK o : Deliver(h, o, "ai", TRUE)
    BY <1>7 DEF FallbackAi
  <2>2. \A b \in answers' : b \in answers \/ (b.at = clock /\ ~Triggered(b))
    BY <2>1 DEF Deliver, Triggered
  <2>3. QED
    BY <1>7, <2>2 DEF FallbackAi, Plain, replies
<1>8. CASE FallbackText(h)
  <2>1. PICK o : Deliver(h, o, "fallback", TRUE)
    BY <1>8 DEF FallbackText
  <2>2. \A b \in answers' : b \in answers \/ (b.at = clock /\ ~Triggered(b))
    BY <2>1 DEF Deliver, Triggered
  <2>3. QED
    BY <1>8, <2>2 DEF FallbackText, Plain, replies
<1>9. QED
  BY <1>1, <1>2, <1>3, <1>4, <1>5, <1>6, <1>7, <1>8 DEF AnswerDm

LEMMA DmTypes ==
  ASSUME TypeOK
  PROVE  /\ clock \in Nat /\ DmWindow \in Nat \ {0} /\ Cardinality(Handlers) \in Nat
         /\ \A u \in Users : lastAuto[u] \in Nat \cup {NoTime}
         /\ \A b \in answers : b.at \in Nat /\ b.event \in Events
         /\ \A h \in Handlers : ev[h] \in Events /\ User(h) \in Users
  BY HandlerEvent, BoundsAssumption, FS_CardinalityType DEF TypeOK, RepliesType, WorldType, AnswersType

\* What a step adds to a window.
LEMMA SentKept ==
  ASSUME TypeOK', offGate \subseteq offGate', NEW u \in Users, NEW since \in Nat,
         NEW E, \A b \in answers' : \/ b \in answers \/ ~Triggered(b)
                                    \/ b.event \in offGate' \cup E
                                    \/ EventInfo[b.event].user # u
                                    \/ b.at >= since + DmWindow
  PROVE  TriggeredFrom(u, since)' \subseteq TriggeredFrom(u, since) \cup E
<1> SUFFICES ASSUME NEW e \in TriggeredFrom(u, since)', e \notin E
             PROVE  e \in TriggeredFrom(u, since)
  OBVIOUS
<1>1. e \in Events /\ e \notin offGate' /\ EventInfo[e].user = u
  BY DEF TriggeredFrom
<1>2. PICK b \in answers' : b.event = e /\ Triggered(b) /\ since <= b.at /\ b.at < since + DmWindow
  BY DEF TriggeredFrom, Triggered
<1>3. ~(b.at >= since + DmWindow)
  BY <1>2, BoundsAssumption DEF TypeOK, AnswersType
<1>4. b \in answers
  BY <1>1, <1>2, <1>3
<1>5. QED
  BY <1>1, <1>2, <1>4 DEF TriggeredFrom

\* How the invariant of a window is kept: nothing is added to it, or what was sent in it is about to be
\* recorded, or it belongs to a set that is small enough.
LEMMA GateKept ==
  ASSUME TypeOK, TypeOK', clock' = clock, NEW u \in Users, NEW since \in 0 .. clock, WindowInv(u, since),
         \/ clock >= since + DmWindow /\ TriggeredFrom(u, since)' \subseteq TriggeredFrom(u, since)
         \/ lastAuto'[u] < since /\ TriggeredFrom(u, since)' \subseteq EventsOf(Recorders(u))'
         \/ /\ lastAuto'[u] >= since
            /\ \E X : /\ IsFiniteSet(X) /\ Cardinality(X) <= Cardinality(Handlers)
                      /\ TriggeredFrom(u, since)' \cup EventsOf(Admittees(u))' \subseteq X
  PROVE  WindowInv(u, since)'
<1> DEFINE S == TriggeredFrom(u, since)'
<1>1. /\ clock \in Nat /\ DmWindow \in Nat /\ since \in Nat /\ Cardinality(Handlers) \in Nat
      /\ lastAuto'[u] \in Nat \cup {NoTime}
  BY DmTypes DEF TypeOK, RepliesType
<1>2. CASE clock >= since + DmWindow /\ TriggeredFrom(u, since)' \subseteq TriggeredFrom(u, since)
  <2>1. IsFiniteSet(S) /\ Cardinality(S) <= Cardinality(TriggeredFrom(u, since))
    BY <1>2, FS_Subset DEF WindowInv
  <2>2. Cardinality(S) \in Nat /\ Cardinality(TriggeredFrom(u, since)) \in Nat
    BY <2>1, FS_CardinalityType DEF WindowInv
  <2>3. Cardinality(S) <= Cardinality(Handlers)
    BY <1>1, <2>1, <2>2 DEF WindowInv
  <2>4. ~(clock' < since + DmWindow)
    BY <1>1, <1>2
  <2>5. QED
    BY <2>1, <2>3, <2>4 DEF WindowInv
<1>3. CASE lastAuto'[u] < since /\ TriggeredFrom(u, since)' \subseteq EventsOf(Recorders(u))'
  <2>1. Recorders(u)' \in SUBSET Handlers
    BY DEF Recorders
  <2>2. /\ IsFiniteSet(EventsOf(Recorders(u))') /\ Cardinality(EventsOf(Recorders(u))') \in Nat
        /\ Cardinality(EventsOf(Recorders(u))') <= Cardinality(Handlers)
    <3> DEFINE R == Recorders(u)'
               T == {ev'[g] : g \in R}
    <3>1. /\ IsFiniteSet(T) /\ Cardinality(T) \in Nat /\ Cardinality(Handlers) \in Nat
          /\ Cardinality(T) <= Cardinality(R) /\ Cardinality(R) <= Cardinality(Handlers)
          /\ Cardinality(R) \in Nat
      <4> HIDE DEF R
      <4>1. R \in SUBSET Handlers
        BY <2>1 DEF R
      <4>2. QED
        BY <4>1, EventsCounted
    <3>2. EventsOf(Recorders(u))' = T
      BY DEF EventsOf
    <3> HIDE DEF R, T
    <3>3. QED
      BY <3>1, <3>2
  <2>3. IsFiniteSet(S) /\ Cardinality(S) <= Cardinality(Handlers)
    BY <1>1, <1>3, <2>2, FS_Subset, FS_CardinalityType
  <2>4. ~(lastAuto'[u] >= since)
    BY <1>1, <1>3 DEF NoTime
  <2>5. QED
    BY <1>3, <2>3, <2>4 DEF WindowInv
<1>4. ASSUME lastAuto'[u] >= since, NEW X, IsFiniteSet(X), Cardinality(X) <= Cardinality(Handlers),
             S \cup EventsOf(Admittees(u))' \subseteq X
      PROVE  WindowInv(u, since)'
  <2>1. IsFiniteSet(S) /\ Cardinality(S) <= Cardinality(Handlers)
    BY <1>1, <1>4, FS_Subset, FS_CardinalityType
  <2>2. Cardinality(S \cup EventsOf(Admittees(u))') <= Cardinality(Handlers)
    BY <1>1, <1>4, FS_Subset, FS_CardinalityType
  <2>3. ~(lastAuto'[u] < since)
    BY <1>1, <1>4 DEF NoTime
  <2>4. QED
    BY <2>1, <2>2, <2>3 DEF WindowInv
<1>5. QED
  BY <1>2, <1>3, <1>4

\* A step that adds no event but one that is admitted and about to be recorded.
LEMMA GateStep ==
  ASSUME TypeOK, TypeOK', NEW h \in Handlers, DmStep(h), lastAuto' = lastAuto,
         NEW u \in Users, NEW since \in 0 .. clock, WindowInv(u, since),
         NEW E \in SUBSET {ev[h]},
         TriggeredFrom(u, since)' \subseteq TriggeredFrom(u, since) \cup E,
         E # {} => /\ User(h) = u /\ PastGate(h) /\ ev'[h] = ev[h] /\ pc'[h] \in Recording
                   /\ clock < since + DmWindow,
         pc[h] \in Recording => ev[h] \in offGate',
         PastGate(h)' => ev'[h] = ev[h] /\ (PastGate(h) \/ ~RecentAuto(User(h)))
  PROVE  WindowInv(u, since)'
<1>1. /\ clock \in Nat /\ DmWindow \in Nat /\ since \in Nat /\ Cardinality(Handlers) \in Nat
      /\ lastAuto[u] \in Nat \cup {NoTime} /\ clock' = clock
  BY DmTypes DEF DmStep
<1>2. CASE clock >= since + DmWindow
  <2>1. E = {}
    BY <1>1, <1>2
  <2>2. QED
    BY <1>1, <1>2, <2>1, GateKept
<1>3. CASE clock < since + DmWindow /\ lastAuto[u] < since
  <2>1. ASSUME NEW e \in TriggeredFrom(u, since)'
        PROVE  e \in EventsOf(Recorders(u))'
    <3>1. CASE e \in E
      BY <3>1 DEF EventsOf, Recorders, User
    <3>2. CASE e \notin E
      <4>1. e \in EventsOf(Recorders(u)) /\ e \notin offGate'
        BY <1>3, <2>1, <3>2 DEF WindowInv, TriggeredFrom
      <4>2. PICK g \in Recorders(u) : e = ev[g]
        BY <4>1 DEF EventsOf
      <4>3. g # h /\ g \in Handlers
        BY <4>1, <4>2 DEF Recorders
      <4>4. g \in Recorders(u)' /\ ev'[g] = e
        BY <4>2, <4>3 DEF Recorders, DmStep, User
      <4>5. QED
        BY <4>4 DEF EventsOf
    <3>3. QED
      BY <3>1, <3>2
  <2>2. QED
    BY <1>1, <1>3, <2>1, GateKept
<1>4. CASE clock < since + DmWindow /\ lastAuto[u] >= since
  <2> DEFINE X == TriggeredFrom(u, since) \cup EventsOf(Admittees(u))
  <2>1. RecentAuto(u)
    BY <1>1, <1>4 DEF RecentAuto, NoTime
  <2>2. ASSUME NEW g \in Admittees(u)'
        PROVE  g \in Admittees(u) /\ ev'[g] = ev[g]
    BY <2>1, <2>2 DEF Admittees, DmStep, User, PastGate
  <2>3. EventsOf(Admittees(u))' \subseteq EventsOf(Admittees(u))
    BY <2>2 DEF EventsOf
  <2>4. E \subseteq EventsOf(Admittees(u))
    BY DEF EventsOf, Admittees
  <2>5. TriggeredFrom(u, since)' \cup EventsOf(Admittees(u))' \subseteq X
    BY <2>3, <2>4
  <2>6. IsFiniteSet(EventsOf(Admittees(u)))
    BY EventsCounted DEF EventsOf, Admittees
  <2>7. IsFiniteSet(X) /\ Cardinality(X) <= Cardinality(Handlers)
    BY <1>4, <2>6, FS_Union DEF WindowInv
  <2>8. QED
    BY <1>1, <1>4, <2>5, <2>7, GateKept
<1>5. QED
  BY <1>1, <1>2, <1>3, <1>4 DEF NoTime

LEMMA DmKept ==
  ASSUME TypeOK, TypeOK', DmInv, NEW h \in Handlers, DmStep(h)
  PROVE  DmInv'
<1>0. /\ clock \in Nat /\ clock' = clock /\ DmWindow \in Nat /\ User(h) \in Users
      /\ \A u \in Users : lastAuto[u] \in Nat \cup {NoTime}
      /\ \A b \in answers' : b.at \in Nat
      /\ offGate \subseteq offGate'
  BY DmTypes DEF DmStep, TypeOK, AnswersType
<1>1. \A u \in Users : lastAuto'[u] <= clock'
  <2>1. CASE lastAuto' = lastAuto
    BY <1>0, <2>1 DEF DmInv
  <2>2. CASE RecordAuto(h)
    BY <1>0, <2>2 DEF DmInv, RecordAuto, TypeOK, RepliesType
  <2>3. QED
    BY <2>1, <2>2 DEF DmStep, Plain, Admits, Triggers, Records
<1>2. \A b \in answers' : b.at <= clock'
  BY <1>0 DEF DmInv, DmStep, Plain, Admits, Triggers, Records
<1>3. \A g \in Handlers : canDm'[g] => pc'[g] # "idle"
  BY DEF DmInv, DmStep, Plain, Admits, Triggers, Records, Recording
<1>4. ASSUME NEW u \in Users, NEW since \in 0 .. clock
      PROVE  WindowInv(u, since)'
  <2>0. WindowInv(u, since) /\ since \in Nat
    BY DEF DmInv
  <2>1. CASE Plain(h)
    <3> DEFINE E == {}
    <3>0. E \in SUBSET {ev[h]} /\ E = {}
      OBVIOUS
    <3>1. TriggeredFrom(u, since)' \subseteq TriggeredFrom(u, since) \cup E
      BY <1>0, <2>0, <2>1, SentKept DEF Plain
    <3> HIDE DEF E
    <3>2. /\ lastAuto' = lastAuto /\ (pc[h] \in Recording => ev[h] \in offGate')
          /\ PastGate(h)' => ev'[h] = ev[h] /\ PastGate(h)
      BY <2>1 DEF Plain
    <3>3. QED
      BY <2>0, <3>0, <3>1, <3>2, GateStep
  <2>2. CASE Admits(h)
    <3> DEFINE E == {}
    <3>0. E \in SUBSET {ev[h]} /\ E = {}
      OBVIOUS
    <3>1. TriggeredFrom(u, since)' \subseteq TriggeredFrom(u, since) \cup E
      BY <1>0, <2>0, <2>2, SentKept DEF Admits
    <3> HIDE DEF E
    <3>2. lastAuto' = lastAuto /\ pc[h] \notin Recording /\ ev'[h] = ev[h] /\ ~RecentAuto(User(h))
      BY <2>2 DEF Admits
    <3>3. QED
      BY <2>0, <3>0, <3>1, <3>2, GateStep
  <2>3. CASE Triggers(h)
    <3> DEFINE E == IF User(h) = u /\ clock < since + DmWindow THEN {ev[h]} ELSE {}
    <3>1. \A b \in answers' : b \in answers \/ (b.event = ev[h] /\ b.at = clock)
      BY <2>3 DEF Triggers
    <3>2. \A b \in answers' : \/ b \in answers \/ b.event \in E
                              \/ EventInfo[b.event].user # u \/ b.at >= since + DmWindow
      BY <1>0, <2>0, <3>1 DEF User
    <3>3. TriggeredFrom(u, since)' \subseteq TriggeredFrom(u, since) \cup E
      BY <1>0, <2>0, <3>2, SentKept
    <3>4. /\ pc[h] \notin Recording /\ pc'[h] \in Recording /\ ev'[h] = ev[h]
          /\ PastGate(h) /\ lastAuto' = lastAuto
      BY <2>3 DEF Triggers
    <3>5. E \in SUBSET {ev[h]} /\ (E # {} => User(h) = u /\ clock < since + DmWindow)
      OBVIOUS
    <3> HIDE DEF E
    <3>6. QED
      BY <2>0, <3>3, <3>4, <3>5, GateStep
  <2>4. CASE Records(h)
    <3>1. /\ ev'[h] = ev[h] /\ answers' = answers /\ canDm' = canDm /\ pc'[h] # "storysend"
          /\ \A v \in Users : lastAuto'[v] = IF v = User(h) THEN clock ELSE lastAuto[v]
      BY <1>0, <2>4 DEF Records, RecordAuto, TypeOK, RepliesType
    <3>2. TriggeredFrom(u, since)' \subseteq TriggeredFrom(u, since) \cup {}
      BY <1>0, <2>0, <3>1, SentKept
    <3>3. \A g \in Handlers : ev'[g] = ev[g]
      BY <3>1 DEF DmStep
    <3>4. CASE clock >= since + DmWindow
      BY <1>0, <2>0, <3>2, <3>4, GateKept
    <3>5. CASE clock < since + DmWindow /\ lastAuto[u] < since /\ u = User(h)
      <4>1. TriggeredFrom(u, since) \subseteq EventsOf(Handlers)
        BY <2>0, <3>5 DEF WindowInv, EventsOf, Recorders
      <4>2. EventsOf(Admittees(u))' \subseteq EventsOf(Handlers)
        BY <3>3 DEF EventsOf, Admittees
      <4>3. IsFiniteSet(EventsOf(Handlers)) /\ Cardinality(EventsOf(Handlers)) <= Cardinality(Handlers)
        BY EventsCounted DEF EventsOf
      <4>4. lastAuto'[u] >= since
        BY <1>0, <2>0, <3>1, <3>5
      <4>5. TriggeredFrom(u, since)' \cup EventsOf(Admittees(u))' \subseteq EventsOf(Handlers)
        BY <3>2, <4>1, <4>2
      <4>6. QED
        BY <1>0, <2>0, <4>3, <4>4, <4>5, GateKept
    <3>6. CASE clock < since + DmWindow /\ lastAuto[u] < since /\ u # User(h)
      <4>1. lastAuto'[u] < since
        BY <3>1, <3>6
      <4>2. \A g \in Recorders(u) : g \in Recorders(u)' /\ ev'[g] = ev[g]
        BY <3>6 DEF Recorders, DmStep, User
      <4>3. EventsOf(Recorders(u)) \subseteq EventsOf(Recorders(u))'
        BY <4>2 DEF EventsOf
      <4>4. TriggeredFrom(u, since)' \subseteq EventsOf(Recorders(u))'
        BY <2>0, <3>2, <3>6, <4>3 DEF WindowInv
      <4>5. QED
        BY <1>0, <2>0, <4>1, <4>4, GateKept
    <3>7. CASE clock < since + DmWindow /\ lastAuto[u] >= since
      <4> DEFINE X == TriggeredFrom(u, since) \cup EventsOf(Admittees(u))
      <4>1. \A g \in Admittees(u)' : g \in Admittees(u) /\ ev'[g] = ev[g]
        BY <3>1, <3>3 DEF Admittees, DmStep, User, PastGate
      <4>2. EventsOf(Admittees(u))' \subseteq EventsOf(Admittees(u))
        BY <4>1 DEF EventsOf
      <4>3. IsFiniteSet(EventsOf(Admittees(u)))
        BY EventsCounted DEF EventsOf, Admittees
      <4>4. IsFiniteSet(X) /\ Cardinality(X) <= Cardinality(Handlers)
        BY <2>0, <3>7, <4>3, FS_Union DEF WindowInv
      <4>5. lastAuto'[u] >= since
        BY <1>0, <2>0, <3>1, <3>7
      <4>6. TriggeredFrom(u, since)' \cup EventsOf(Admittees(u))' \subseteq X
        BY <3>2, <4>2
      <4>7. QED
        BY <1>0, <2>0, <4>4, <4>5, <4>6, GateKept
    <3>8. QED
      BY <1>0, <2>0, <3>4, <3>5, <3>6, <3>7 DEF NoTime
  <2>5. QED
    BY <2>1, <2>2, <2>3, <2>4 DEF DmStep
<1>5. QED
  BY <1>0, <1>1, <1>2, <1>3, <1>4 DEF DmInv

LEMMA DmInvStep ==
  ASSUME TypeOK, DmInv, [Next]_vars
  PROVE  DmInv'
<1>0. TypeOK'
  BY TypeStep
<1>1. ASSUME NEW h \in Handlers, Handle(h) PROVE DmInv'
  BY <1>0, <1>1, IngestDm, CommentDm, MessageDm, DmKept DEF Handle
<1>2. ASSUME NEW h \in Handlers, Abort(h) PROVE DmInv'
  <2>1. DmStep(h)
    BY <1>2, FinishDm DEF Abort, Bypass, TypeOK, replies, DmStep, Plain, PastGate, Recording
  <2>2. QED
    BY <1>0, <2>1, DmKept
<1>3. ASSUME NEW h \in Handlers, NEW e \in Events, Receive(h, e) PROVE DmInv'
  <2>1. pc[h] = "idle" /\ pc'[h] \in {"dedup", "lookup"} /\ UNCHANGED <<answers, lastAuto, clock, canDm, offGate>>
    BY <1>3 DEF Receive, At, TypeOK, HandlersType, Goto, replies
  <2>2. \A g \in Handlers \ {h} : pc'[g] = pc[g] /\ ev'[g] = ev[g]
    BY <1>3 DEF Receive, TypeOK, HandlersType, Goto
  <2>3. ~canDm[h]
    BY <2>1 DEF DmInv
  <2>4. DmStep(h)
    BY <2>1, <2>2, <2>3 DEF DmStep, Plain, PastGate, Recording
  <2>5. QED
    BY <1>0, <2>4, DmKept
<1>4. CASE SetSuspended \/ UNCHANGED vars
  <2>1. UNCHANGED <<answers, lastAuto, clock, canDm, offGate, pc, ev>>
    BY <1>4 DEF SetSuspended, vars, replies, world, locals
  <2>2. ASSUME NEW u \in Users, NEW since \in 0 .. clock, WindowInv(u, since)
        PROVE  WindowInv(u, since)'
    BY <2>1, <2>2 DEF WindowInv, TriggeredFrom, EventsOf, Recorders, Admittees, PastGate, User
  <2>3. QED
    BY <2>1, <2>2 DEF DmInv
<1>5. CASE Tick
  <2>1. /\ clock' = clock + 1 /\ clock \in Nat /\ DmWindow \in Nat
        /\ UNCHANGED <<answers, lastAuto, pc, ev, canDm, offGate>>
    BY <1>5, DmTypes DEF Tick, replies, locals
  <2>2. /\ \A b \in answers : b.at \in Nat /\ b.at <= clock
        /\ \A u \in Users : lastAuto[u] \in Nat \cup {NoTime} /\ lastAuto[u] <= clock
    BY DmTypes DEF DmInv
  <2>3. ASSUME NEW u \in Users, NEW since \in 0 .. clock
        PROVE  WindowInv(u, since)'
    <3>1. WindowInv(u, since)
      BY DEF DmInv
    <3>2. /\ TriggeredFrom(u, since)' = TriggeredFrom(u, since)
          /\ EventsOf(Recorders(u))' = EventsOf(Recorders(u))
          /\ EventsOf(Admittees(u))' = EventsOf(Admittees(u))
      BY <2>1 DEF TriggeredFrom, EventsOf, Recorders, Admittees, PastGate, User
    <3>3. clock' < since + DmWindow => clock < since + DmWindow
      BY <2>1
    <3>4. QED
      BY <2>1, <3>1, <3>2, <3>3 DEF WindowInv
  <2>4. ASSUME NEW u \in Users, NEW since \in Nat, since = clock + 1
        PROVE  WindowInv(u, since)'
    <3>1. TriggeredFrom(u, since)' = {}
      BY <2>1, <2>2, <2>4 DEF TriggeredFrom
    <3>2. ~(lastAuto'[u] >= since)
      BY <2>1, <2>2, <2>4 DEF NoTime
    <3>3. QED
      BY <3>1, <3>2, FS_EmptySet, DmTypes DEF WindowInv
  <2>5. \A since \in 0 .. clock' : since \in 0 .. clock \/ (since = clock + 1 /\ since \in Nat)
    BY <2>1
  <2>6. (\A u \in Users : lastAuto'[u] <= clock') /\ (\A b \in answers' : b.at <= clock')
    BY <2>1, <2>2 DEF NoTime
  <2>7. \A g \in Handlers : canDm'[g] => pc'[g] # "idle"
    BY <2>1 DEF DmInv
  <2>8. \A u \in Users, since \in 0 .. clock' : WindowInv(u, since)'
    BY <2>3, <2>4, <2>5
  <2>9. QED
    BY <2>6, <2>7, <2>8 DEF DmInv
<1>6. QED
  BY <1>1, <1>2, <1>3, <1>4, <1>5 DEF Next

\* Meta's limit as hasRecentAutomatedTriggerDm states it, for any rules, any overlap and however handlers
\* end: the private messages a customer gets within the window, of those the gate can see, originate from no
\* more comments and stories than there are handlers at the same time, with one handler from one.
THEOREM OneTriggerADay == Spec => []OneTriggeredDm
<1>1. Init => DmInv
  <2>0. Init => /\ \A u \in Users : lastAuto[u] <= clock
                /\ \A b \in answers : b.at <= clock
                /\ \A h \in Handlers : canDm[h] => pc[h] # "idle"
    BY DEF Init, NoTime
  <2> SUFFICES ASSUME Init, NEW u \in Users, NEW since \in 0 .. clock
               PROVE  WindowInv(u, since)
    BY <2>0 DEF DmInv
  <2>1. TriggeredFrom(u, since) = {}
    BY DEF Init, TriggeredFrom
  <2>2. since = 0 /\ lastAuto[u] = NoTime
    BY DEF Init
  <2>3. QED
    BY <2>1, <2>2, FS_EmptySet, BoundsAssumption, FS_CardinalityType DEF WindowInv, NoTime
<1>2. TypeOK /\ DmInv /\ [Next]_vars => DmInv'
  BY DmInvStep
<1>3. DmInv => OneTriggeredDm
  BY DEF DmInv, WindowInv, OneTriggeredDm
<1>4. QED
  BY <1>1, <1>2, <1>3, TypeCorrect, PTL DEF Spec

-----------------------------------------------------------------------------
(* Counting handlers and rows.                                              *)

LEMMA HandlersCounted ==
  ASSUME NEW A \in SUBSET Handlers
  PROVE  /\ IsFiniteSet(A) /\ Cardinality(A) \in Nat
         /\ Cardinality(A) <= Cardinality(Handlers) /\ Cardinality(Handlers) \in Nat
  BY BoundsAssumption, FS_Subset, FS_CardinalityType

LEMMA FewerHandlers ==
  ASSUME NEW A \in SUBSET Handlers, NEW B \in SUBSET A
  PROVE  Cardinality(B) <= Cardinality(A)
  BY HandlersCounted, FS_Subset

LEMMA OneHandlerLess ==
  ASSUME NEW A \in SUBSET Handlers, NEW h \in A, NEW B \in SUBSET (A \ {h})
  PROVE  Cardinality(B) + 1 <= Cardinality(A)
<1>1. Cardinality(A \ {h}) = Cardinality(A) - 1 /\ Cardinality(A) \in Nat /\ Cardinality(A \ {h}) \in Nat
  BY HandlersCounted, FS_RemoveElement
<1>2. Cardinality(B) <= Cardinality(A \ {h}) /\ Cardinality(B) \in Nat
  BY HandlersCounted, FewerHandlers
<1>3. QED
  BY <1>1, <1>2

\* The rows of a log that hasReplyQuota counts since a time.
Within(log, since) == {i \in DOMAIN log : log[i].action \in CountedActions /\ log[i].at >= since}

LEMMA RowsFinite ==
  ASSUME NEW log \in Seq(AuditRow), NEW I \in SUBSET DOMAIN log
  PROVE  IsFiniteSet(I) /\ Cardinality(I) \in Nat
<1>1. DOMAIN log = 1 .. Len(log) /\ Len(log) \in Nat
  OBVIOUS
<1>2. IsFiniteSet(DOMAIN log)
  BY <1>1, FS_Interval
<1>3. QED
  BY <1>2, FS_Subset, FS_CardinalityType

LEMMA WithinLater ==
  ASSUME NEW log \in Seq(AuditRow), NEW s \in Int, NEW t \in Int, s <= t
  PROVE  Cardinality(Within(log, t)) <= Cardinality(Within(log, s))
<1>0. \A i \in DOMAIN log : log[i] \in AuditRow
  OBVIOUS
<1>1. \A i \in DOMAIN log : log[i].at \in Int
  BY <1>0 DEF AuditRow
<1>2. Within(log, t) \subseteq Within(log, s)
  BY <1>1 DEF Within
<1>3. Within(log, s) \subseteq DOMAIN log
  BY DEF Within
<1>4. QED
  BY <1>2, <1>3, RowsFinite, FS_Subset

LEMMA WithinUncounted ==
  ASSUME NEW log \in Seq(AuditRow), NEW row \in AuditRow, row.action \notin CountedActions, NEW s \in Int
  PROVE  Within(Append(log, row), s) = Within(log, s)
<1>1. /\ DOMAIN log = 1 .. Len(log) /\ DOMAIN Append(log, row) = 1 .. Len(log) + 1 /\ Len(log) \in Nat
      /\ \A i \in DOMAIN log : Append(log, row)[i] = log[i]
      /\ Append(log, row)[Len(log) + 1] = row
  OBVIOUS
<1> HIDE DEF AuditRow
<1>2. QED
  BY <1>1 DEF Within

LEMMA WithinAppended ==
  ASSUME NEW log \in Seq(AuditRow), NEW row \in AuditRow, NEW s \in Int
  PROVE  Cardinality(Within(Append(log, row), s)) <= Cardinality(Within(log, s)) + 1
<1>1. /\ DOMAIN log = 1 .. Len(log) /\ DOMAIN Append(log, row) = 1 .. Len(log) + 1 /\ Len(log) \in Nat
      /\ \A i \in DOMAIN log : Append(log, row)[i] = log[i]
  OBVIOUS
<1>2. Within(Append(log, row), s) \subseteq Within(log, s) \cup {Len(log) + 1}
  BY <1>1 DEF Within
<1>3. IsFiniteSet(Within(log, s)) /\ Cardinality(Within(log, s)) \in Nat
  <2>1. Within(log, s) \in SUBSET DOMAIN log
    BY DEF Within
  <2>2. QED
    BY <2>1, RowsFinite
<1>4. Cardinality(Within(log, s) \cup {Len(log) + 1}) <= Cardinality(Within(log, s)) + 1
      /\ IsFiniteSet(Within(log, s) \cup {Len(log) + 1})
  <2> DEFINE W == Within(log, s)
             x == Len(log) + 1
  <2>1. /\ IsFiniteSet(W \cup {x})
        /\ Cardinality(W \cup {x}) = IF x \in W THEN Cardinality(W) ELSE Cardinality(W) + 1
    BY <1>3, FS_AddElement
  <2> HIDE DEF W, x
  <2>2. QED
    BY <1>3, <2>1 DEF W, x
<1>5. Cardinality(Within(Append(log, row), s)) <= Cardinality(Within(log, s) \cup {Len(log) + 1})
  BY <1>2, <1>4, FS_Subset
<1>6. IsFiniteSet(Within(Append(log, row), s))
  BY <1>2, <1>4, FS_Subset
<1>7. QED
  BY <1>3, <1>4, <1>5, <1>6, FS_CardinalityType

\* The start of the month does not move back as the clock moves on.
LEMMA MonthStart ==
  ASSUME NEW c \in Nat, NEW m \in Nat \ {0}
  PROVE  (c \div m) * m \in Int /\ (c \div m) * m <= ((c + 1) \div m) * m
  OBVIOUS

-----------------------------------------------------------------------------
(* The reply quota.                                                         *)

\* The handlers that hasReplyQuota let through and that may still write a row it counts.
Admitted == {"gate", "count", "public", "pubrecord", "private", "privrecord", "audit", "flowstart", "aisend",
             "aiaudit", "storygate", "storysend", "dmgate", "dmsend", "dmrecord", "dmcount", "fallai"}
Charging == {h \in Handlers : pc[h] \in Admitted}

\* Every admitted handler has its row's place reserved, except that the admissions cannot see each other.
QuotaInv ==
    LET room == Cardinality(Handlers) - 1
    IN  /\ MaxPerHour # Unlimited => UsedLastHour + Cardinality(Charging) <= MaxPerHour + room
        /\ MaxPerMonth # Unlimited => UsedThisMonth + Cardinality(Charging) <= MaxPerMonth + room

\* Only a look at the quota admits, and only the admitted write rows that count.
Admission(h) ==
    pc[h] \notin Admitted => NoCharge /\ (pc'[h] \in Admitted => HasReplyQuota)

LEMMA IngestAdmits ==
  ASSUME TypeOK, NEW h \in Handlers, Ingest(h)
  PROVE  Admission(h) /\ UNCHANGED clock
<1> USE FinishShape, ContinueShape DEF TypeOK, At, PCs, replies, world, NoCharge, Admission, Admitted
<1>1. CASE DedupFind(h) \/ DedupCreate(h) \/ FindConversation(h) \/ CreateConversation(h)
  BY <1>1 DEF DedupFind, DedupCreate, FindConversation, CreateConversation
<1>2. CASE Lookup(h) \/ TouchConversation(h)
  BY <1>2, GotoShape DEF Lookup, TouchConversation
<1>3. CASE FindContact(h) \/ CreateContact(h)
  BY <1>3 DEF FindContact, CreateContact
<1>4. CASE SaveInbound(h)
  BY <1>4, HandlerEvent DEF SaveInbound, Kinds
<1>5. QED
  BY <1>1, <1>2, <1>3, <1>4 DEF Ingest

LEMMA AnswerAdmits ==
  ASSUME TypeOK, NEW h \in Handlers, AnswerComment(h) \/ AnswerDm(h)
  PROVE  Admission(h) /\ UNCHANGED clock
<1>0. Shape(h)
  BY AnswerShape
<1> USE FinishShape, ContinueShape DEF TypeOK, At, PCs, replies, world, WorldExceptGate, Admission, Admitted
<1>1. CASE pc[h] \in Admitted
  BY <1>1 DEF AnswerComment, AnswerDm, RuleQuota, RuleGate, RuleCount, PublicReply, PublicRecord, PrivateSend,
              PrivateRecord, RuleAudit, FlowMatch, FlowStart, AiQuota, AiSend, AiAudit, StoryMatch, StoryGate,
              StorySend, DetectIntent, DmMatch, DmGate, DmSend, DmRecord, DmCount, Fallback, FallbackAi, FallbackText
<1>2. CASE RuleQuota(h)
  BY <1>2, SkipShape DEF RuleQuota, NoCharge
<1>3. CASE FlowMatch(h) \/ AiQuota(h) \/ Fallback(h) \/ FallbackText(h)
  BY <1>3 DEF FlowMatch, AiQuota, Fallback, FallbackText, NoCharge
<1>4. CASE StoryMatch(h)
  <2>1. NoCharge
    BY <1>0, <1>4 DEF Shape, Quiet, Claim, Save, Charge, NoCharge, StoryMatch, AfterSave, Unsaved
  <2>2. pc'[h] \in Admitted => HasReplyQuota
    BY <1>4, GotoShape DEF StoryMatch
  <2>3. QED
    BY <1>4, <2>1, <2>2 DEF StoryMatch
<1>5. CASE DmMatch(h)
  BY <1>5, GotoShape DEF DmMatch, NoCharge
<1>6. CASE DetectIntent(h)
  BY <1>6 DEF DetectIntent, NoCharge
<1>7. QED
  BY <1>1, <1>2, <1>3, <1>4, <1>5, <1>6
     DEF AnswerComment, AnswerDm, RuleGate, RuleCount, PublicReply, PublicRecord, PrivateSend, PrivateRecord,
         RuleAudit, FlowStart, AiSend, AiAudit, StoryGate, StorySend, DmGate, DmSend, DmRecord, DmCount, FallbackAi

\* How the log and the admitted change together, whichever window the quota is counted over.
LEMMA WindowStep ==
  ASSUME TypeOK, NEW h \in Handlers, Others(h), Admission(h),
         NoCharge \/ (pc'[h] = "idle" /\ \E row \in AuditRow : auditLog' = Append(auditLog, row)),
         NEW since \in Int, NEW max \in Nat,
         Cardinality(Within(auditLog, since)) + Cardinality(Charging) <= max + (Cardinality(Handlers) - 1),
         HasReplyQuota => Cardinality(Within(auditLog, since)) < max
  PROVE  Cardinality(Within(auditLog', since)) + Cardinality(Charging') <= max + (Cardinality(Handlers) - 1)
<1> DEFINE used == Cardinality(Within(auditLog, since))
           usedNext == Cardinality(Within(auditLog', since))
           busy == Cardinality(Charging)
           busyNext == Cardinality(Charging')
           room == Cardinality(Handlers) - 1
<1>1. auditLog \in Seq(AuditRow) /\ auditLog' \in Seq(AuditRow)
  BY DEF TypeOK, RepliesType, NoCharge
<1>2. used \in Nat /\ usedNext \in Nat
  BY <1>1, RowsFinite DEF Within
<1>3. Charging \in SUBSET Handlers /\ Charging' \in SUBSET Handlers
  BY DEF Charging
<1>4. /\ busy \in Nat /\ busyNext \in Nat /\ Cardinality(Handlers) \in Nat
      /\ busyNext <= Cardinality(Handlers)
  BY <1>3, HandlersCounted
<1>5. \A g \in Handlers \ {h} : g \in Charging' <=> g \in Charging
  BY DEF Charging, Others
<1>6. NoCharge => usedNext = used
  BY <1>1, WithinUncounted DEF NoCharge
<1>7. usedNext <= used + 1
  <2>1. ASSUME NEW row \in AuditRow, auditLog' = Append(auditLog, row) PROVE usedNext <= used + 1
    BY <1>1, <2>1, WithinAppended
  <2> HIDE DEF used, usedNext
  <2>2. QED
    BY <1>2, <1>6, <2>1
<1>8. CASE h \notin Charging /\ h \in Charging'
  <2>1. HasReplyQuota /\ NoCharge
    BY <1>8 DEF Admission, Charging
  <2>2. used < max /\ usedNext = used
    BY <1>6, <2>1
  <2> HIDE DEF used, usedNext, busy, busyNext
  <2>3. QED
    BY <1>2, <1>4, <2>2 DEF used, usedNext, busy, busyNext
<1>9. CASE NoCharge /\ (h \in Charging \/ h \notin Charging')
  <2>1. busyNext <= busy
    BY <1>3, <1>5, <1>9, FewerHandlers
  <2>2. usedNext = used
    BY <1>6, <1>9
  <2> HIDE DEF used, usedNext, busy, busyNext
  <2>3. QED
    BY <1>2, <1>4, <2>1, <2>2 DEF used, usedNext, busy, busyNext
<1>10. CASE ~NoCharge
  <2>1. h \in Charging /\ h \notin Charging'
    BY <1>10 DEF Admission, Charging, Admitted
  <2>2. busyNext + 1 <= busy
    BY <1>3, <1>5, <2>1, OneHandlerLess
  <2> HIDE DEF used, usedNext, busy, busyNext
  <2>3. QED
    BY <1>2, <1>4, <1>7, <2>2 DEF used, usedNext, busy, busyNext
<1>11. QED
  BY <1>8, <1>9, <1>10

LEMMA Windows ==
  ASSUME TypeOK
  PROVE  /\ UsedLastHour = Cardinality(Within(auditLog, clock - HourWindow + 1))
         /\ UsedThisMonth = Cardinality(Within(auditLog, (clock \div MonthLength) * MonthLength))
         /\ clock - HourWindow + 1 \in Int /\ (clock \div MonthLength) * MonthLength \in Int
<1>1. clock \in Nat /\ HourWindow \in Nat /\ MonthLength \in Nat \ {0}
  BY BoundsAssumption DEF TypeOK, WorldType
<1>2. clock - HourWindow + 1 \in Int /\ (clock \div MonthLength) * MonthLength \in Int
  BY <1>1, MonthStart
<1>3. QED
  BY <1>2 DEF UsedLastHour, UsedThisMonth, Used, Within

LEMMA HandleQuota ==
  ASSUME TypeOK, TypeOK', QuotaInv, NEW h \in Handlers,
         Others(h), Admission(h), UNCHANGED clock,
         NoCharge \/ (pc'[h] = "idle" /\ \E row \in AuditRow : auditLog' = Append(auditLog, row))
  PROVE  QuotaInv'
<1> DEFINE hour == clock - HourWindow + 1
           month == (clock \div MonthLength) * MonthLength
<1>1. /\ UsedLastHour = Cardinality(Within(auditLog, hour))
      /\ UsedThisMonth = Cardinality(Within(auditLog, month))
      /\ hour \in Int /\ month \in Int
  BY Windows
<1>2. /\ UsedLastHour' = Cardinality(Within(auditLog', hour))
      /\ UsedThisMonth' = Cardinality(Within(auditLog', month))
  BY DEF UsedLastHour, UsedThisMonth, Used, Within
<1> HIDE DEF hour, month
<1>3. ASSUME MaxPerHour # Unlimited
      PROVE  UsedLastHour' + Cardinality(Charging') <= MaxPerHour + (Cardinality(Handlers) - 1)
  <2>1. MaxPerHour \in Nat /\ (HasReplyQuota => Cardinality(Within(auditLog, hour)) < MaxPerHour)
    BY <1>1, <1>3, BoundsAssumption DEF HasReplyQuota
  <2>2. Cardinality(Within(auditLog, hour)) + Cardinality(Charging) <= MaxPerHour + (Cardinality(Handlers) - 1)
    BY <1>1, <1>3 DEF QuotaInv
  <2>3. QED
    BY <1>1, <1>2, <2>1, <2>2, WindowStep
<1>4. ASSUME MaxPerMonth # Unlimited
      PROVE  UsedThisMonth' + Cardinality(Charging') <= MaxPerMonth + (Cardinality(Handlers) - 1)
  <2>1. MaxPerMonth \in Nat /\ (HasReplyQuota => Cardinality(Within(auditLog, month)) < MaxPerMonth)
    BY <1>1, <1>4, BoundsAssumption DEF HasReplyQuota
  <2>2. Cardinality(Within(auditLog, month)) + Cardinality(Charging) <= MaxPerMonth + (Cardinality(Handlers) - 1)
    BY <1>1, <1>4 DEF QuotaInv
  <2>3. QED
    BY <1>1, <1>2, <2>1, <2>2, WindowStep
<1>5. QED
  BY <1>3, <1>4 DEF QuotaInv

\* Both windows move on with the clock.
LEMMA TickQuota ==
  ASSUME TypeOK, TypeOK', QuotaInv, Tick
  PROVE  QuotaInv'
<1>1. clock \in Nat /\ clock' = clock + 1 /\ HourWindow \in Nat /\ MonthLength \in Nat \ {0}
      /\ auditLog \in Seq(AuditRow) /\ UNCHANGED <<auditLog, pc>>
  BY BoundsAssumption DEF TypeOK, WorldType, RepliesType, Tick, replies
<1>2. Charging' = Charging /\ Charging \in SUBSET Handlers
  BY <1>1 DEF Charging
<1>3. UsedLastHour' <= UsedLastHour
  <2>1. clock - HourWindow + 1 <= clock' - HourWindow + 1 /\ clock' - HourWindow + 1 \in Int
    BY <1>1
  <2>2. UsedLastHour' = Cardinality(Within(auditLog, clock' - HourWindow + 1))
    BY <1>1 DEF UsedLastHour, Used, Within
  <2>3. QED
    BY <1>1, <2>1, <2>2, Windows, WithinLater
<1>4. UsedThisMonth' <= UsedThisMonth
  <2>1. (clock \div MonthLength) * MonthLength <= (clock' \div MonthLength) * MonthLength
        /\ (clock' \div MonthLength) * MonthLength \in Int
    BY <1>1, MonthStart
  <2>2. UsedThisMonth' = Cardinality(Within(auditLog, (clock' \div MonthLength) * MonthLength))
    BY <1>1 DEF UsedThisMonth, Used, Within
  <2>3. QED
    BY <1>1, <2>1, <2>2, Windows, WithinLater
<1>5. UsedLastHour \in Nat /\ UsedThisMonth \in Nat /\ UsedLastHour' \in Nat /\ UsedThisMonth' \in Nat
  BY <1>1, RowsFinite DEF UsedLastHour, UsedThisMonth, Used
<1>6. Cardinality(Charging) \in Nat /\ Cardinality(Handlers) \in Nat
  BY <1>2, HandlersCounted
<1>7. MaxPerHour \in Nat \cup {Unlimited} /\ MaxPerMonth \in Nat \cup {Unlimited}
  BY BoundsAssumption
<1>8. QED
  BY <1>2, <1>3, <1>4, <1>5, <1>6, <1>7 DEF QuotaInv

LEMMA QuotaStep == TypeOK /\ QuotaInv /\ [Next]_vars => QuotaInv'
<1> SUFFICES ASSUME TypeOK, QuotaInv, [Next]_vars PROVE QuotaInv'
  OBVIOUS
<1>0. TypeOK'
  BY TypeStep
<1>1. ASSUME NEW h \in Handlers, Handle(h) PROVE QuotaInv'
  <2>1. Shape(h) /\ Admission(h) /\ UNCHANGED clock
    BY <1>1, IngestShape, AnswerShape, IngestAdmits, AnswerAdmits DEF Handle
  <2>2. NoCharge \/ (pc'[h] = "idle" /\ \E row \in AuditRow : auditLog' = Append(auditLog, row))
    BY <2>1 DEF Shape, Quiet, Claim, Save, Charge, NoCharge
  <2>3. QED
    BY <1>0, <2>1, <2>2, HandleQuota DEF Shape
<1>2. ASSUME NEW h \in Handlers, Abort(h) \/ \E e \in Events : Receive(h, e) PROVE QuotaInv'
  <2>1. Others(h) /\ pc'[h] \in {"idle", "dedup", "lookup"} /\ UNCHANGED <<auditLog, clock>>
    BY <1>2, FinishShape DEF Abort, Receive, TypeOK, HandlersType, Goto, Others, replies, world
  <2>2. QED
    BY <1>0, <2>1, HandleQuota DEF Admission, NoCharge, Admitted
<1>3. ASSUME UNCHANGED <<auditLog, clock, pc>> PROVE QuotaInv'
  BY <1>3 DEF QuotaInv, UsedLastHour, UsedThisMonth, Used, Charging
<1>4. QED
  BY <1>0, <1>1, <1>2, <1>3, TickQuota DEF Next, SetSuspended, vars, replies, world

\* However the handlers interleave between hasReplyQuota and the row they write last, n of them exceed
\* the hourly and the monthly limit by n - 1 replies at most, and an abort of any of them gives its
\* place back.
THEOREM QuotaHolds == Spec => []QuotaOvershoot
<1>1. Init => QuotaInv
  <2> SUFFICES ASSUME Init PROVE QuotaInv
    OBVIOUS
  <2>0. Cardinality({}) = 0 /\ Charging = {} /\ DOMAIN auditLog = {}
    BY FS_EmptySet DEF Init, Charging, Admitted
  <2>1. UsedLastHour = 0 /\ UsedThisMonth = 0 /\ Cardinality(Charging) = 0
    BY <2>0 DEF UsedLastHour, UsedThisMonth, Used
  <2>2. Cardinality(Handlers) \in Nat /\ Cardinality(Handlers) # 0
    BY BoundsAssumption, FS_EmptySet, FS_CardinalityType
  <2>3. MaxPerHour \in Nat \cup {Unlimited} /\ MaxPerMonth \in Nat \cup {Unlimited}
    BY BoundsAssumption
  <2>4. QED
    BY <2>1, <2>2, <2>3 DEF QuotaInv
<1>2. TypeOK /\ QuotaInv => QuotaOvershoot
  <2> SUFFICES ASSUME TypeOK, QuotaInv PROVE QuotaOvershoot
    OBVIOUS
  <2>1. UsedLastHour \in Nat /\ UsedThisMonth \in Nat
    BY RowsFinite DEF UsedLastHour, UsedThisMonth, Used, TypeOK, RepliesType
  <2>2. Cardinality(Charging) \in Nat /\ Cardinality(Handlers) \in Nat
    BY HandlersCounted DEF Charging
  <2>3. MaxPerHour \in Nat \cup {Unlimited} /\ MaxPerMonth \in Nat \cup {Unlimited}
    BY BoundsAssumption
  <2>4. QED
    BY <2>1, <2>2, <2>3 DEF QuotaInv, QuotaOvershoot
<1>3. QED
  BY <1>1, <1>2, QuotaStep, TypeCorrect, PTL DEF Spec

-----------------------------------------------------------------------------
(* The contacts of the plan.                                                *)

AtContact == {"contact", "addcontact"}
Adding == {h \in Handlers : pc[h] = "addcontact"}

\* Only the handler that created the conversation of a customer looks for a contact, and it is the first
\* to do so.
ContactInv ==
    /\ \A i, j \in DOMAIN contacts : contacts[i] = contacts[j] => i = j
    /\ \A i \in DOMAIN contacts : conv[contacts[i]] # "none"
    /\ \A h \in Handlers : pc[h] \in AtContact =>
          /\ conv[User(h)] # "none"
          /\ \A i \in DOMAIN contacts : contacts[i] # User(h)
          /\ \A g \in Handlers \ {h} : pc[g] \in AtContact => User(g) # User(h)

AddingInv ==
    MaxSubscribers # Unlimited =>
        Len(contacts) + Cardinality(Adding) <= MaxSubscribers + (Cardinality(Handlers) - 1)

\* A step of a handler, as the contacts see it.
Passes(h) ==
    /\ UNCHANGED contacts
    /\ \A u \in Users : conv[u] # "none" => conv'[u] # "none"
    /\ pc'[h] \notin AtContact

Creates(h) ==
    /\ UNCHANGED contacts
    /\ conv[User(h)] = "none" /\ conv' = [conv EXCEPT ![User(h)] = "open"]
    /\ pc'[h] # "addcontact" /\ ev'[h] = ev[h]

Looks(h) ==
    /\ UNCHANGED <<contacts, conv>> /\ pc[h] = "contact" /\ pc'[h] = "addcontact" /\ ev'[h] = ev[h]
    /\ MaxSubscribers # Unlimited => Len(contacts) < MaxSubscribers

Adds(h) ==
    /\ pc[h] = "addcontact" /\ pc'[h] \notin AtContact
    /\ contacts' = Append(contacts, User(h)) /\ UNCHANGED conv

ContactStep(h) == Others(h) /\ (Passes(h) \/ Creates(h) \/ Looks(h) \/ Adds(h))

LEMMA HandleContacts ==
  ASSUME TypeOK, NEW h \in Handlers, Handle(h)
  PROVE  ContactStep(h)
<1>0. Others(h)
  BY IngestShape, AnswerShape DEF Handle, Shape
<1> USE FinishShape, ContinueShape, HandlerEvent DEF TypeOK, At, PCs, AtContact, ContactStep, ingest
<1>1. CASE DedupFind(h) \/ DedupCreate(h) \/ FindConversation(h)
  BY <1>1 DEF DedupFind, DedupCreate, FindConversation, Passes
<1>2. CASE Lookup(h) \/ TouchConversation(h)
  BY <1>2, GotoShape DEF Lookup, TouchConversation, Passes
<1>3. CASE CreateConversation(h)
  BY <1>3 DEF CreateConversation, Passes, Creates
<1>4. CASE FindContact(h)
  <2>1. Len(contacts) \in Nat /\ MaxSubscribers \in Nat \cup {Unlimited}
    BY BoundsAssumption DEF IngestType
  <2>2. QED
    BY <1>4, <2>1 DEF FindContact, Passes, Looks, Unlimited
<1>5. CASE CreateContact(h)
  BY <1>5 DEF CreateContact, Adds
<1>6. CASE SaveInbound(h)
  BY <1>6 DEF SaveInbound, Passes, Kinds
<1>7. CASE DetectIntent(h)
  <2>1. conv' = conv \/ conv' = [conv EXCEPT ![User(h)] = "hot"]
    BY <1>7 DEF DetectIntent
  <2>2. QED
    BY <1>0, <1>7, <2>1 DEF DetectIntent, Passes, IngestType
<1>8. CASE (AnswerComment(h) \/ AnswerDm(h)) /\ ~DetectIntent(h)
  <2>1. UNCHANGED <<contacts, conv>>
    BY <1>8 DEF AnswerComment, AnswerDm, RuleQuota, RuleGate, RuleCount, PublicReply, PublicRecord, PrivateSend,
                PrivateRecord, RuleAudit, FlowMatch, FlowStart, AiQuota, AiSend, AiAudit, StoryMatch, StoryGate,
                StorySend, DmMatch, DmGate, DmSend, DmRecord, DmCount, Fallback, FallbackAi, FallbackText
  <2>2. ASSUME \/ RuleQuota(h) \/ RuleGate(h) \/ RuleCount(h) \/ PublicReply(h) \/ PublicRecord(h)
               \/ PrivateSend(h) \/ PrivateRecord(h) \/ RuleAudit(h)
      PROVE  pc'[h] \notin AtContact
    BY <2>2, GotoShape DEF RuleQuota, RuleGate, RuleCount, PublicReply, PublicRecord, PrivateSend, PrivateRecord,
                           RuleAudit, Goto, HandlersType
  <2>3. ASSUME FlowMatch(h) \/ FlowStart(h) \/ AiQuota(h) \/ AiSend(h) \/ AiAudit(h)
      PROVE  pc'[h] \notin AtContact
    BY <2>3 DEF FlowMatch, FlowStart, AiQuota, AiSend, AiAudit
  <2>4. ASSUME \/ StoryMatch(h) \/ StoryGate(h) \/ StorySend(h) \/ DmMatch(h) \/ DmGate(h) \/ DmSend(h)
               \/ DmRecord(h) \/ DmCount(h) \/ Fallback(h) \/ FallbackAi(h) \/ FallbackText(h)
      PROVE  pc'[h] \notin AtContact
    BY <2>4, GotoShape DEF StoryMatch, StoryGate, StorySend, DmMatch, DmGate, DmSend, DmRecord, DmCount, Fallback,
                           FallbackAi, FallbackText, Goto, HandlersType
  <2>5. pc'[h] \notin AtContact => Passes(h)
    BY <2>1 DEF Passes
  <2>6. QED
    BY <1>0, <1>8, <2>2, <2>3, <2>4, <2>5 DEF AnswerComment, AnswerDm
<1>9. QED
  BY <1>0, <1>1, <1>2, <1>3, <1>4, <1>5, <1>6, <1>7, <1>8 DEF Handle, Ingest

LEMMA ContactKept ==
  ASSUME TypeOK, TypeOK', ContactInv, NEW h \in Handlers, ContactStep(h)
  PROVE  ContactInv'
<1>0. /\ \A g \in Handlers : EventInfo[ev[g]].user \in Users /\ User(g) = EventInfo[ev[g]].user
      /\ contacts \in Seq(Users) /\ conv \in [Users -> {"none", "open", "hot"}]
      /\ \A g \in Handlers \ {h} : pc'[g] = pc[g] /\ ev'[g] = ev[g] /\ User(g)' = User(g)
  BY HandlerEvent DEF User, TypeOK, IngestType, ContactStep, Others
<1>1. \A i \in DOMAIN contacts : contacts[i] \in Users
  BY <1>0
<1>2. CASE Passes(h)
  <2>1. contacts' = contacts /\ \A g \in Handlers : pc'[g] \in AtContact => g # h
    BY <1>2 DEF Passes
  <2>2. \A i \in DOMAIN contacts' : conv'[contacts'[i]] # "none"
    BY <1>1, <1>2, <2>1 DEF Passes, ContactInv
  <2>3. \A i, j \in DOMAIN contacts' : contacts'[i] = contacts'[j] => i = j
    BY <2>1 DEF ContactInv
  <2>4. \A g \in Handlers : pc'[g] \in AtContact =>
          /\ conv'[User(g)'] # "none"
          /\ \A i \in DOMAIN contacts' : contacts'[i] # User(g)'
          /\ \A k \in Handlers \ {g} : pc'[k] \in AtContact => User(k)' # User(g)'
    BY <1>0, <1>2, <2>1 DEF Passes, ContactInv
  <2>5. QED
    BY <2>2, <2>3, <2>4 DEF ContactInv
<1>3. CASE Creates(h)
  <2>1. /\ \A u \in Users : conv'[u] = IF u = User(h) THEN "open" ELSE conv[u]
        /\ conv[User(h)] = "none" /\ contacts' = contacts /\ User(h)' = User(h)
    BY <1>0, <1>3 DEF Creates, User
  <2>2. \A i \in DOMAIN contacts : contacts[i] # User(h)
    BY <2>1 DEF ContactInv
  <2>3. \A g \in Handlers \ {h} : pc[g] \in AtContact => User(g) # User(h)
    BY <2>1 DEF ContactInv
  <2>4. QED
    BY <1>0, <1>1, <2>1, <2>2, <2>3 DEF ContactInv
<1>4. CASE Looks(h)
  <2>1. /\ contacts' = contacts /\ conv' = conv /\ User(h)' = User(h)
        /\ pc[h] \in AtContact /\ \A g \in Handlers : pc'[g] \in AtContact => pc[g] \in AtContact
    BY <1>0, <1>4 DEF Looks, AtContact, User
  <2>2. \A g \in Handlers : User(g)' = User(g)
    BY <1>0, <2>1
  <2>3. QED
    BY <2>1, <2>2 DEF ContactInv
<1>5. CASE Adds(h)
  <2>1. /\ \A i \in DOMAIN contacts' : \/ i \in DOMAIN contacts /\ contacts'[i] = contacts[i]
                                       \/ i = Len(contacts) + 1 /\ i \notin DOMAIN contacts
                                          /\ contacts'[i] = User(h)
        /\ conv' = conv /\ pc[h] \in AtContact /\ pc'[h] \notin AtContact
    BY <1>0, <1>5 DEF Adds, AtContact
  <2>2. /\ \A i \in DOMAIN contacts : contacts[i] # User(h)
        /\ conv[User(h)] # "none"
        /\ \A g \in Handlers \ {h} : pc[g] \in AtContact => User(g) # User(h)
    BY <2>1 DEF ContactInv
  <2>3. \A i, j \in DOMAIN contacts' : contacts'[i] = contacts'[j] => i = j
    BY <2>1, <2>2 DEF ContactInv
  <2>4. \A i \in DOMAIN contacts' : conv'[contacts'[i]] # "none"
    BY <2>1, <2>2 DEF ContactInv
  <2>5. \A g \in Handlers : pc'[g] \in AtContact =>
          /\ g # h /\ conv'[User(g)'] # "none"
          /\ \A i \in DOMAIN contacts' : contacts'[i] # User(g)'
          /\ \A k \in Handlers \ {g} : pc'[k] \in AtContact => User(k)' # User(g)'
    BY <1>0, <2>1, <2>2 DEF ContactInv
  <2>6. QED
    BY <2>3, <2>4, <2>5 DEF ContactInv
<1>6. QED
  BY <1>2, <1>3, <1>4, <1>5 DEF ContactStep

LEMMA AddingKept ==
  ASSUME TypeOK, TypeOK', AddingInv, NEW h \in Handlers, ContactStep(h)
  PROVE  AddingInv'
<1> SUFFICES ASSUME MaxSubscribers # Unlimited
             PROVE  Len(contacts') + Cardinality(Adding') <= MaxSubscribers + (Cardinality(Handlers) - 1)
  BY DEF AddingInv
<1> DEFINE busy == Cardinality(Adding)
           busyNext == Cardinality(Adding')
           room == Cardinality(Handlers)
<1>1. contacts \in Seq(Users) /\ contacts' \in Seq(Users) /\ MaxSubscribers \in Nat
  BY BoundsAssumption DEF TypeOK, IngestType
<1>2. Len(contacts) \in Nat /\ Len(contacts') \in Nat
  BY <1>1
<1>3. Adding \in SUBSET Handlers /\ Adding' \in SUBSET Handlers
  BY DEF Adding
<1>4. busy \in Nat /\ busyNext \in Nat /\ room \in Nat /\ busyNext <= room
  BY <1>3, HandlersCounted
<1>5. \A g \in Handlers \ {h} : g \in Adding' <=> g \in Adding
  BY DEF Adding, ContactStep, Others
<1>6. Len(contacts) + busy <= MaxSubscribers + (room - 1)
  BY DEF AddingInv
<1>7. CASE Passes(h) \/ Creates(h)
  <2>1. contacts' = contacts /\ Adding' \subseteq Adding
    BY <1>3, <1>5, <1>7 DEF Passes, Creates, Adding, AtContact
  <2>2. busyNext <= busy
    BY <1>3, <2>1, FewerHandlers
  <2> HIDE DEF busy, busyNext, room
  <2>3. QED
    BY <1>1, <1>2, <1>4, <1>6, <2>1, <2>2 DEF busyNext, room
<1>8. CASE Looks(h)
  <2>1. Len(contacts') = Len(contacts) /\ Len(contacts) < MaxSubscribers
    BY <1>8 DEF Looks
  <2> HIDE DEF busy, busyNext, room
  <2>2. QED
    BY <1>1, <1>2, <1>4, <2>1 DEF busyNext, room
<1>9. CASE Adds(h)
  <2>1. Len(contacts') = Len(contacts) + 1
    BY <1>1, <1>9, HandlerEvent DEF Adds, TypeOK
  <2>2. h \in Adding /\ h \notin Adding'
    BY <1>9 DEF Adds, Adding, AtContact
  <2>3. busyNext + 1 <= busy
    BY <1>3, <1>5, <2>2, OneHandlerLess
  <2> HIDE DEF busy, busyNext, room
  <2>4. QED
    BY <1>1, <1>2, <1>4, <1>6, <2>1, <2>3 DEF busyNext, room
<1>10. QED
  BY <1>7, <1>8, <1>9 DEF ContactStep

LEMMA ContactStepKeeps == TypeOK /\ ContactInv /\ AddingInv /\ [Next]_vars => ContactInv' /\ AddingInv'
<1> SUFFICES ASSUME TypeOK, ContactInv, AddingInv, [Next]_vars PROVE ContactInv' /\ AddingInv'
  OBVIOUS
<1>0. TypeOK'
  BY TypeStep
<1>1. ASSUME NEW h \in Handlers, Handle(h) PROVE ContactInv' /\ AddingInv'
  BY <1>0, <1>1, HandleContacts, ContactKept, AddingKept
<1>2. ASSUME NEW h \in Handlers, Abort(h) \/ \E e \in Events : Receive(h, e) PROVE ContactInv' /\ AddingInv'
  <2>1. Others(h) /\ pc'[h] \in {"idle", "dedup", "lookup"} /\ UNCHANGED <<contacts, conv>>
    BY <1>2, FinishShape DEF Abort, Receive, TypeOK, HandlersType, Goto, Others, ingest
  <2>2. ContactStep(h)
    BY <2>1 DEF ContactStep, Passes, AtContact
  <2>3. QED
    BY <1>0, <2>2, ContactKept, AddingKept
<1>3. ASSUME UNCHANGED <<contacts, conv, pc, ev>> PROVE ContactInv' /\ AddingInv'
  BY <1>3 DEF ContactInv, AddingInv, Adding, User
<1>4. QED
  BY <1>1, <1>2, <1>3 DEF Next, SetSuspended, Tick, vars, ingest, locals

\* The webhook stores a customer once although Subscriber has no unique constraint: the unique
\* conversation lets one handler through to upsertContactSubscriber.  And n overlapping handlers pass
\* the plan's limit by n - 1 contacts at most.
THEOREM ContactsHold == Spec => []ContactsBounded
<1>1. Init => ContactInv /\ AddingInv
  <2> SUFFICES ASSUME Init PROVE ContactInv /\ AddingInv
    OBVIOUS
  <2>1. ContactInv
    BY DEF Init, ContactInv, AtContact
  <2>2. Cardinality({}) = 0 /\ Adding = {} /\ Len(contacts) = 0
    BY FS_EmptySet DEF Init, Adding
  <2>3. Cardinality(Handlers) \in Nat /\ Cardinality(Handlers) # 0
    BY BoundsAssumption, FS_EmptySet, FS_CardinalityType
  <2>4. MaxSubscribers \in Nat \cup {Unlimited}
    BY BoundsAssumption
  <2>5. QED
    BY <2>1, <2>2, <2>3, <2>4 DEF AddingInv
<1>2. TypeOK /\ ContactInv /\ AddingInv => ContactsBounded
  <2> SUFFICES ASSUME TypeOK, ContactInv, AddingInv PROVE ContactsBounded
    OBVIOUS
  <2>1. Cardinality(Adding) \in Nat /\ Cardinality(Handlers) \in Nat
    BY HandlersCounted DEF Adding
  <2>2. Len(contacts) \in Nat /\ MaxSubscribers \in Nat \cup {Unlimited}
    BY BoundsAssumption DEF TypeOK, IngestType
  <2>3. QED
    BY <2>1, <2>2 DEF ContactInv, AddingInv, ContactsBounded
<1>3. QED
  BY <1>1, <1>2, ContactStepKeeps, TypeCorrect, PTL DEF Spec

-----------------------------------------------------------------------------
(* The counter of a rule and the rows of the audit log.                     *)

\* Between triggerCount and RULE_TRIGGERED.
Counted == {"public", "pubrecord", "private", "privrecord", "audit"}

OthersRules(h) == \A g \in Handlers \ {h} : pc'[g] = pc[g] /\ rule'[g] = rule[g]

\* A step of a handler, as the ledger sees it.
NoTrigger ==
    \/ auditLog' = auditLog
    \/ \E row \in AuditRow : row.action # "RULE_TRIGGERED" /\ auditLog' = Append(auditLog, row)

Keeps(h) ==
    /\ UNCHANGED triggerCount /\ NoTrigger
    /\ \/ pc[h] \notin Counted /\ pc'[h] \notin Counted
       \/ pc[h] \in Counted /\ pc'[h] \in Counted /\ rule'[h] = rule[h]

Counts(h) ==
    /\ UNCHANGED auditLog /\ triggerCount' = [triggerCount EXCEPT ![rule[h]] = @ + 1]
    /\ pc[h] \notin Counted /\ pc'[h] \in Counted /\ rule'[h] = rule[h]

Logs(h) ==
    /\ UNCHANGED triggerCount
    /\ \E row \in AuditRow : /\ row.action = "RULE_TRIGGERED" /\ row.rule = rule[h]
                             /\ auditLog' = Append(auditLog, row)
    /\ pc[h] \in Counted /\ pc'[h] \notin Counted

Drops(h) ==
    /\ MayAbort
    /\ UNCHANGED <<triggerCount, auditLog>> /\ pc'[h] \notin Counted

LedgerStep(h) == OthersRules(h) /\ (Keeps(h) \/ Counts(h) \/ Logs(h) \/ Drops(h))

\* The rows the actions append.
LEMMA RowShape ==
  ASSUME TypeOK, NEW h \in Handlers, NEW a \in Actions, WriteAudit(h, a)
  PROVE  /\ a # "RULE_TRIGGERED" => NoTrigger
         /\ a = "RULE_TRIGGERED" => \E row \in AuditRow : /\ row.action = "RULE_TRIGGERED" /\ row.rule = rule[h]
                                                          /\ auditLog' = Append(auditLog, row)
<1>1. [action |-> a, event |-> ev[h], rule |-> rule[h], at |-> clock] \in AuditRow
  BY DEF AuditRow, WorldType, HandlersType, TypeOK
<1>2. QED
  BY <1>1 DEF WriteAudit, NoTrigger

LEMMA MoveShape ==
  ASSUME HandlersType, NEW h \in Handlers
  PROVE  /\ Finish(h) => OthersRules(h) /\ pc'[h] = "idle"
         /\ \A l \in PCs : Continue(h, l) => OthersRules(h) /\ pc'[h] = l /\ rule'[h] = rule[h]
         /\ \A l \in PCs : Goto(h, l) => /\ pc'[h] = l
                                         /\ UNCHANGED rule => OthersRules(h) /\ rule'[h] = rule[h]
                                         /\ \A r : rule' = [rule EXCEPT ![h] = r] => OthersRules(h)
  BY DEF HandlersType, Finish, Continue, Goto, locals, OthersRules

LEMMA HandleLedger ==
  ASSUME TypeOK, NEW h \in Handlers, Handle(h)
  PROVE  LedgerStep(h)
<1> USE MoveShape, RowShape
    DEF TypeOK, At, PCs, Counted, LedgerStep, Keeps, NoTrigger, replies, Actions, CountedActions
<1>1. CASE DedupFind(h) \/ DedupCreate(h) \/ FindConversation(h) \/ CreateConversation(h)
  BY <1>1 DEF DedupFind, DedupCreate, FindConversation, CreateConversation
<1>2. CASE Lookup(h) \/ TouchConversation(h)
  BY <1>2 DEF Lookup, TouchConversation
<1>3. CASE FindContact(h) \/ CreateContact(h)
  BY <1>3 DEF FindContact, CreateContact
<1>4. CASE SaveInbound(h)
  BY <1>4, HandlerEvent DEF SaveInbound, Kinds
<1>5. CASE RuleQuota(h) \/ RuleGate(h)
  BY <1>5 DEF RuleQuota, RuleGate
<1>6. CASE RuleCount(h) \/ DmCount(h)
  BY <1>6 DEF RuleCount, DmCount, Counts, CountTrigger
<1>7. CASE PublicReply(h) \/ PublicRecord(h) \/ PrivateRecord(h)
  BY <1>7 DEF PublicReply, PublicRecord, PrivateRecord
<1>8. CASE PrivateSend(h)
  BY <1>8 DEF PrivateSend
<1>9. CASE RuleAudit(h)
  BY <1>9 DEF RuleAudit, Logs
<1>10. CASE FlowMatch(h) \/ AiQuota(h) \/ AiSend(h)
  BY <1>10 DEF FlowMatch, AiQuota, AiSend
<1>11. CASE FlowStart(h) \/ AiAudit(h)
  <2>1. WriteAudit(h, "FLOW_TRIGGERED") \/ WriteAudit(h, "AI_REPLY_SENT")
    BY <1>11 DEF FlowStart, AiAudit
  <2>2. \E row \in AuditRow : row.action # "RULE_TRIGGERED" /\ auditLog' = Append(auditLog, row)
    <3>1. \A a \in {"FLOW_TRIGGERED", "AI_REPLY_SENT"} :
             [action |-> a, event |-> ev[h], rule |-> rule[h], at |-> clock] \in AuditRow
      BY DEF AuditRow, WorldType, HandlersType
    <3>2. QED
      BY <2>1, <3>1 DEF WriteAudit
  <2>3. QED
    BY <1>11, <2>2 DEF FlowStart, AiAudit
<1>12. CASE StoryMatch(h)
  <2>1. NoTrigger
    <3>1. ASSUME NEW r \in Rules,
                 auditLog' = Append(auditLog, [action |-> "RULE_SKIPPED_QUOTA",
                                       event |-> ev[h], rule |-> r, at |-> clock])
          PROVE  NoTrigger
      <4>1. [action |-> "RULE_SKIPPED_QUOTA", event |-> ev[h], rule |-> r, at |-> clock] \in AuditRow
        BY DEF AuditRow, WorldType, HandlersType
      <4>2. QED
        BY <3>1, <4>1
    <3>2. QED
      BY <1>12, <3>1 DEF StoryMatch
  <2>2. OthersRules(h) /\ pc'[h] \in {"intent", "storygate"}
    BY <1>12 DEF StoryMatch
  <2>3. QED
    BY <1>12, <2>1, <2>2 DEF StoryMatch
<1>13. CASE StoryGate(h) \/ DmGate(h)
  BY <1>13 DEF StoryGate, DmGate
<1>14. CASE StorySend(h) \/ DmSend(h)
  BY <1>14 DEF StorySend, DmSend
<1>15. CASE DetectIntent(h) \/ DmMatch(h) \/ DmRecord(h)
  BY <1>15 DEF DetectIntent, DmMatch, DmRecord
<1>16. CASE Fallback(h) \/ FallbackAi(h) \/ FallbackText(h)
  BY <1>16 DEF Fallback, FallbackAi, FallbackText
<1>17. QED
  BY <1>1, <1>2, <1>3, <1>4, <1>5, <1>6, <1>7, <1>8, <1>9, <1>10, <1>11, <1>12, <1>13, <1>14, <1>15, <1>16
     DEF Handle, Ingest, AnswerComment, AnswerDm

\* The rows of one rule.
LEMMA RowsCounted ==
  ASSUME TypeOK, TypeOK', NEW r \in Rules
  PROVE  /\ IsFiniteSet(RowsOf(r)) /\ Cardinality(RowsOf(r)) \in Nat
         /\ NoTrigger => RowsOf(r)' = RowsOf(r)
         /\ \A row \in AuditRow : row.action = "RULE_TRIGGERED" /\ auditLog' = Append(auditLog, row) =>
               Cardinality(RowsOf(r)') = Cardinality(RowsOf(r)) + (IF row.rule = r THEN 1 ELSE 0)
<1>1. auditLog \in Seq(AuditRow) /\ auditLog' \in Seq(AuditRow)
  BY DEF TypeOK, RepliesType
<1>2. IsFiniteSet(RowsOf(r)) /\ Cardinality(RowsOf(r)) \in Nat
  BY <1>1, RowsFinite DEF RowsOf
<1>3. ASSUME NEW row \in AuditRow, auditLog' = Append(auditLog, row)
      PROVE  /\ DOMAIN auditLog = 1 .. Len(auditLog) /\ DOMAIN auditLog' = 1 .. Len(auditLog) + 1
             /\ Len(auditLog) \in Nat
             /\ \A i \in DOMAIN auditLog : auditLog'[i] = auditLog[i]
             /\ auditLog'[Len(auditLog) + 1] = row
  BY <1>1, <1>3
<1>4. ASSUME NoTrigger PROVE RowsOf(r)' = RowsOf(r)
  BY <1>3, <1>4 DEF NoTrigger, RowsOf
<1>5. ASSUME NEW row \in AuditRow, row.action = "RULE_TRIGGERED", auditLog' = Append(auditLog, row)
      PROVE  Cardinality(RowsOf(r)') = Cardinality(RowsOf(r)) + (IF row.rule = r THEN 1 ELSE 0)
  <2>1. CASE row.rule # r
    <3>1. RowsOf(r)' = RowsOf(r)
      BY <1>3, <1>5, <2>1 DEF RowsOf
    <3>2. QED
      BY <1>2, <2>1, <3>1
  <2>2. CASE row.rule = r
    <3>1. RowsOf(r)' = RowsOf(r) \cup {Len(auditLog) + 1}
      BY <1>3, <1>5, <2>2 DEF RowsOf
    <3>2. Len(auditLog) + 1 \notin RowsOf(r)
      BY <1>3, <1>5 DEF RowsOf
    <3>3. Cardinality(RowsOf(r) \cup {Len(auditLog) + 1}) = Cardinality(RowsOf(r)) + 1
      BY <1>2, <3>2, FS_AddElement
    <3>4. QED
      BY <2>2, <3>1, <3>3
  <2>3. QED
    BY <2>1, <2>2
<1>6. QED
  BY <1>2, <1>4, <1>5

\* Where a handler stands in the ledger of one rule.
LEMMA CountedShape ==
  ASSUME TypeOK, TypeOK', NEW h \in Handlers, OthersRules(h), NEW r \in Rules
  PROVE  /\ Cardinality(CountedNotLogged(r)) \in Nat /\ Cardinality(CountedNotLogged(r)') \in Nat
         /\ h \notin CountedNotLogged(r)' => Cardinality(CountedNotLogged(r)') <= Cardinality(CountedNotLogged(r))
         /\ (h \in CountedNotLogged(r)' <=> h \in CountedNotLogged(r))
              => Cardinality(CountedNotLogged(r)') = Cardinality(CountedNotLogged(r))
         /\ h \in CountedNotLogged(r)' /\ h \notin CountedNotLogged(r)
              => Cardinality(CountedNotLogged(r)') = Cardinality(CountedNotLogged(r)) + 1
         /\ h \notin CountedNotLogged(r)' /\ h \in CountedNotLogged(r)
              => Cardinality(CountedNotLogged(r)') = Cardinality(CountedNotLogged(r)) - 1
<1> DEFINE C == CountedNotLogged(r)
           D == CountedNotLogged(r)'
<1>1. C \in SUBSET Handlers /\ D \in SUBSET Handlers
  BY DEF CountedNotLogged
<1>2. \A g \in Handlers \ {h} : g \in D <=> g \in C
  BY DEF CountedNotLogged, OthersRules
<1> HIDE DEF C, D
<1>3. IsFiniteSet(C) /\ IsFiniteSet(D) /\ Cardinality(C) \in Nat /\ Cardinality(D) \in Nat
  BY <1>1, HandlersCounted
<1>4. (h \in D <=> h \in C) => C = D
  BY <1>1, <1>2
<1>5. h \in D /\ h \notin C => D = C \cup {h}
  BY <1>1, <1>2
<1>6. h \notin D /\ h \in C => D = C \ {h}
  BY <1>1, <1>2
<1>7. /\ h \notin C => Cardinality(C \cup {h}) = Cardinality(C) + 1
      /\ h \in C => Cardinality(C \ {h}) = Cardinality(C) - 1
  BY <1>3, FS_AddElement, FS_RemoveElement
<1>8. QED
  BY <1>3, <1>4, <1>5, <1>6, <1>7 DEF C, D

LEMMA LedgerKept ==
  ASSUME TypeOK, TypeOK', TriggerLedger, NEW h \in Handlers, LedgerStep(h)
  PROVE  TriggerLedger'
<1> SUFFICES ASSUME NEW r \in Rules
             PROVE  LET logged == Cardinality(RowsOf(r)') + Cardinality(CountedNotLogged(r)')
                    IN  IF MayAbort THEN triggerCount'[r] >= logged ELSE triggerCount'[r] = logged
  BY DEF TriggerLedger
<1> DEFINE rows == Cardinality(RowsOf(r))
           rowsNext == Cardinality(RowsOf(r)')
           busy == Cardinality(CountedNotLogged(r))
           busyNext == Cardinality(CountedNotLogged(r)')
           in == h \in CountedNotLogged(r)
           inNext == h \in CountedNotLogged(r)'
<1>1. /\ busy \in Nat /\ busyNext \in Nat
      /\ ~inNext => busyNext <= busy
      /\ (inNext <=> in) => busyNext = busy
      /\ inNext /\ ~in => busyNext = busy + 1
      /\ ~inNext /\ in => busyNext = busy - 1
  BY CountedShape DEF LedgerStep
<1>2. rows \in Nat /\ triggerCount[r] \in Nat
  BY RowsCounted DEF TypeOK, RepliesType
<1>3. IF MayAbort THEN triggerCount[r] >= rows + busy ELSE triggerCount[r] = rows + busy
  BY DEF TriggerLedger
<1>4. CASE Keeps(h)
  <2>1. triggerCount'[r] = triggerCount[r] /\ rowsNext = rows /\ (inNext <=> in)
    BY <1>4, RowsCounted DEF Keeps, CountedNotLogged, Counted
  <2> HIDE DEF rows, rowsNext, busy, busyNext, in, inNext
  <2>2. QED
    BY <1>1, <1>2, <1>3, <2>1 DEF rowsNext, busyNext
<1>5. CASE Counts(h)
  <2>1. rowsNext = rows
    BY <1>5, RowsCounted DEF Counts, NoTrigger
  <2>2. ~in /\ (inNext <=> rule[h] = r)
    BY <1>5 DEF Counts, CountedNotLogged, Counted
  <2>3. triggerCount'[r] = triggerCount[r] + (IF rule[h] = r THEN 1 ELSE 0)
    BY <1>2, <1>5 DEF Counts, TypeOK, RepliesType
  <2> HIDE DEF rows, rowsNext, busy, busyNext, in, inNext
  <2>4. QED
    BY <1>1, <1>2, <1>3, <2>1, <2>2, <2>3 DEF rowsNext, busyNext
<1>6. CASE Logs(h)
  <2>1. rowsNext = rows + (IF rule[h] = r THEN 1 ELSE 0)
    BY <1>6, RowsCounted DEF Logs
  <2>2. ~inNext /\ (in <=> rule[h] = r)
    BY <1>6 DEF Logs, CountedNotLogged, Counted
  <2>3. triggerCount'[r] = triggerCount[r]
    BY <1>6 DEF Logs
  <2> HIDE DEF rows, rowsNext, busy, busyNext, in, inNext
  <2>4. QED
    BY <1>1, <1>2, <1>3, <2>1, <2>2, <2>3 DEF rowsNext, busyNext
<1>7. CASE Drops(h)
  <2>1. MayAbort /\ triggerCount'[r] = triggerCount[r] /\ rowsNext = rows /\ ~inNext
    BY <1>7, RowsCounted DEF Drops, NoTrigger, CountedNotLogged, Counted
  <2> HIDE DEF rows, rowsNext, busy, busyNext, in, inNext
  <2>2. QED
    BY <1>1, <1>2, <1>3, <2>1 DEF rowsNext, busyNext
<1>8. QED
  BY <1>4, <1>5, <1>6, <1>7 DEF LedgerStep

LEMMA LedgerInd == TypeOK /\ TriggerLedger /\ [Next]_vars => TriggerLedger'
<1> SUFFICES ASSUME TypeOK, TriggerLedger, [Next]_vars PROVE TriggerLedger'
  OBVIOUS
<1>0. TypeOK'
  BY TypeStep
<1>1. ASSUME NEW h \in Handlers, Handle(h) PROVE TriggerLedger'
  BY <1>0, <1>1, HandleLedger, LedgerKept
<1>2. ASSUME NEW h \in Handlers, Abort(h) PROVE TriggerLedger'
  <2>1. LedgerStep(h)
    BY <1>2, MoveShape DEF Abort, LedgerStep, Drops, Counted, replies, TypeOK
  <2>2. QED
    BY <1>0, <2>1, LedgerKept
<1>3. ASSUME NEW h \in Handlers, NEW e \in Events, Receive(h, e) PROVE TriggerLedger'
  <2>1. LedgerStep(h)
    BY <1>3, MoveShape DEF Receive, At, PCs, LedgerStep, Keeps, NoTrigger, Counted, replies, TypeOK
  <2>2. QED
    BY <1>0, <2>1, LedgerKept
<1>4. ASSUME UNCHANGED <<auditLog, triggerCount, pc, rule>> PROVE TriggerLedger'
  BY <1>4 DEF TriggerLedger, RowsOf, CountedNotLogged
<1>5. QED
  BY <1>1, <1>2, <1>3, <1>4 DEF Next, SetSuspended, Tick, vars, replies, locals

\* triggerCount and the RULE_TRIGGERED rows tell the same story about every rule, up to the handlers
\* between the two writes; without an abort there is never a difference, and with one the counter is
\* ahead, never behind.
THEOREM LedgerHolds == Spec => []TriggerLedger
<1>1. Init => TriggerLedger
  <2> SUFFICES ASSUME Init, NEW r \in Rules
               PROVE  /\ triggerCount[r] = 0
                      /\ Cardinality(RowsOf(r)) = 0 /\ Cardinality(CountedNotLogged(r)) = 0
    BY DEF TriggerLedger
  <2>1. RowsOf(r) = {} /\ CountedNotLogged(r) = {} /\ triggerCount[r] = 0
    BY DEF Init, RowsOf, CountedNotLogged
  <2>2. QED
    BY <2>1, FS_EmptySet
<1>2. QED
  BY <1>1, LedgerInd, TypeCorrect, PTL DEF Spec
=============================================================================

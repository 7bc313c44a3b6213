----------------------------- MODULE Edits_proofs -----------------------------
(* What the editing pages write, part by part: the flow, the rule, the tags,  *)
(* the messages of a sequence, the settings and the webhook that a save       *)
(* changes - and what these pages show of what is stored.                     *)
EXTENDS DeveloperTab, RuleEditor, MessageSequence, Preferences, FlowEditor, Subscribers, FiniteSetTheorems, TLAPS

-----------------------------------------------------------------------------
(* DeveloperTab: the url that a save of the webhook writes.                   *)

DevCallRow == [kind : {"none", "create", "webhook"}, pc : {"idle", "sent", "served"}, row : ApiRows \cup {NoApiRow},
               hook : [url : Nat, secret : Nat], typed : BOOLEAN, stale : BOOLEAN]
DeskLoadRow == [pc : {"idle", "asked"}, keys : {"unread", "read", "old"}, hook : {"unread", "read", "old"},
                rows : SUBSET ApiRows, url : Nat]
DevTabRow == [rows : SUBSET ApiRows, fresh : ApiRows \cup {NoApiRow}, url : Nat, secret : Nat]

DeveloperTyped ==
    /\ keyRows \subseteq ApiRows /\ outbound \in [url : Nat, secret : Nat]
    /\ devTab \in DevTabRow /\ devCall \in DevCallRow /\ deskLoad \in [DeskLoads -> DeskLoadRow]
    /\ typed \in BOOLEAN /\ seen \in BOOLEAN /\ belated \in BOOLEAN /\ deeds \in Nat

\* A tab that knows of no change shows the url that is stored until another is typed, a load that no change has outrun
\* has read it, and a save on its way carries it, unless it was typed or began from a tab that did not know.
HookInv ==
    /\ DeveloperTyped
    /\ seen /\ ~typed /\ ~belated /\ "hook" \notin elsewhere => devTab.url = outbound.url
    /\ \A f \in DeskLoads : deskLoad[f].hook = "read" => deskLoad[f].url = outbound.url
    /\ devCall.kind = "webhook" /\ devCall.pc = "sent" /\ ~devCall.typed /\ ~devCall.stale
       => devCall.hook.url = outbound.url

HookLine ==
    devCall.kind = "webhook" /\ devCall.pc = "sent" /\ outbound'.url # outbound.url /\ devCall'.pc = "served"
    => devCall.typed \/ devCall.stale

LEMMA HookInit == DeveloperInit => HookInv
<1>1. /\ NoDevCall \in DevCallRow /\ NoDevCall.kind = "none"
      /\ NoDeskLoad \in DeskLoadRow /\ NoDeskLoad.hook = "unread"
      /\ [rows |-> {}, fresh |-> NoApiRow, url |-> 0, secret |-> 0] \in DevTabRow
  BY DEF DevCallRow, DeskLoadRow, DevTabRow, NoDevCall, NoDeskLoad, NoHook
<1>2. SUFFICES ASSUME DeveloperInit PROVE HookInv
  OBVIOUS
<1>3. /\ keyRows = {} /\ outbound = [url |-> 1, secret |-> 1] /\ devCall = NoDevCall
      /\ devTab = [rows |-> {}, fresh |-> NoApiRow, url |-> 0, secret |-> 0]
      /\ deskLoad = [f \in DeskLoads |-> NoDeskLoad]
      /\ seen = FALSE /\ typed = FALSE /\ belated = FALSE /\ deeds = 0
  BY <1>2 DEF DeveloperInit
<1>4. outbound \in [url : Nat, secret : Nat] /\ devTab \in DevTabRow /\ devCall \in DevCallRow
  BY <1>1, <1>3
<1>5. deskLoad \in [DeskLoads -> DeskLoadRow] /\ \A f \in DeskLoads : deskLoad[f].hook = "unread"
  BY <1>1, <1>3
<1>6. QED
  BY <1>1, <1>3, <1>4, <1>5 DEF HookInv, DeveloperTyped

\* What a load holds after a change of what it reads.
LEMMA OutrunKeys ==
  ASSUME DeveloperTyped, Outrun("keys")
  PROVE  /\ deskLoad' \in [DeskLoads -> DeskLoadRow]
         /\ \A f \in DeskLoads : deskLoad'[f].hook = deskLoad[f].hook /\ deskLoad'[f].url = deskLoad[f].url
<1>1. \A f \in DeskLoads : deskLoad[f] \in DeskLoadRow
  BY DEF DeveloperTyped
<1>2. \A f \in DeskLoads : deskLoad'[f] = [deskLoad[f] EXCEPT !.keys = "old"] \/ deskLoad'[f] = deskLoad[f]
  BY DEF Outrun
<1>3. \A f \in DeskLoads : /\ deskLoad'[f] \in DeskLoadRow
                           /\ deskLoad'[f].hook = deskLoad[f].hook /\ deskLoad'[f].url = deskLoad[f].url
  BY <1>1, <1>2 DEF DeskLoadRow
<1>4. QED
  BY <1>3 DEF Outrun

LEMMA OutrunHook ==
  ASSUME DeveloperTyped, Outrun("hook")
  PROVE  /\ deskLoad' \in [DeskLoads -> DeskLoadRow]
         /\ \A f \in DeskLoads : deskLoad'[f].hook # "read"
<1>1. \A f \in DeskLoads : deskLoad[f] \in DeskLoadRow
  BY DEF DeveloperTyped
<1>2. \A f \in DeskLoads : deskLoad'[f] = IF deskLoad[f].hook = "read" THEN [deskLoad[f] EXCEPT !.hook = "old"]
                                                                       ELSE deskLoad[f]
  BY DEF Outrun
<1>3. \A f \in DeskLoads : deskLoad'[f] \in DeskLoadRow /\ deskLoad'[f].hook # "read"
  BY <1>1, <1>2 DEF DeskLoadRow
<1>4. QED
  BY <1>3 DEF Outrun

LEMMA LoadsAgain ==
  ASSUME DeveloperTyped, LoadAgain
  PROVE  /\ deskLoad' \in [DeskLoads -> DeskLoadRow]
         /\ \A f \in DeskLoads : deskLoad'[f].hook = "unread"
                                 \/ (deskLoad'[f].hook = deskLoad[f].hook /\ deskLoad'[f].url = deskLoad[f].url)
<1>1. PICK f \in DeskLoads : deskLoad' = [deskLoad EXCEPT ![f] = Asked]
  BY DEF LoadAgain
<1>2. Asked \in DeskLoadRow /\ Asked.hook = "unread"
  BY DEF Asked, NoDeskLoad, DeskLoadRow
<1>3. QED
  BY <1>1, <1>2 DEF DeveloperTyped

\* What is about keys leaves the webhook alone.
LEMMA DeskKeysStep ==
  ASSUME HookInv,
         \/ OpenDeveloperTab \/ AskCreate \/ KeyMade
         \/ \E k \in ApiRows : ServeCreate(k) \/ AskRevoke(k) \/ ElsewhereKeys(k)
         \/ \E r \in revoking : ServeRevoke(r) \/ Revoked(r) \/ RevokeFails(r)
  PROVE  HookInv' /\ HookLine
<1>1. DeveloperTyped
  BY DEF HookInv
<1>2. /\ UNCHANGED <<outbound, seen, typed, belated>> /\ ("hook" \in elsewhere' <=> "hook" \in elsewhere)
      /\ deeds' = deeds \/ deeds' = deeds + 1
  BY DEF OpenDeveloperTab, AskCreate, KeyMade, ServeCreate, AskRevoke, ElsewhereKeys, ServeRevoke, Revoked,
     RevokeFails, deskStory, CountDeed
<1>3. keyRows' \subseteq ApiRows /\ deeds' \in Nat
  <2>1. keyRows' \subseteq keyRows \/ \E k \in ApiRows : keyRows' = keyRows \cup {k}
    BY DEF OpenDeveloperTab, AskCreate, KeyMade, ServeCreate, AskRevoke, ElsewhereKeys, ServeRevoke, Revoked,
       RevokeFails
  <2>2. QED
    BY <1>1, <1>2, <2>1 DEF DeveloperTyped
<1>4. /\ deskLoad' \in [DeskLoads -> DeskLoadRow]
      /\ \A f \in DeskLoads : deskLoad'[f].hook = "unread"
                              \/ (deskLoad'[f].hook = deskLoad[f].hook /\ deskLoad'[f].url = deskLoad[f].url)
  <2>1. Outrun("keys") \/ LoadAgain \/ deskLoad' = deskLoad
    BY DEF OpenDeveloperTab, AskCreate, KeyMade, ServeCreate, AskRevoke, ElsewhereKeys, ServeRevoke, Revoked,
       RevokeFails
  <2>2. CASE Outrun("keys")
    BY <1>1, <2>2, OutrunKeys
  <2>3. CASE LoadAgain
    BY <1>1, <2>3, LoadsAgain
  <2>4. QED
    BY <1>1, <2>1, <2>2, <2>3 DEF DeveloperTyped
<1>5. devTab' \in DevTabRow /\ devTab'.url = devTab.url
  <2>1. devTab' = devTab \/ (KeyMade /\ devTab' = [devTab EXCEPT !.fresh = devCall.row])
    BY DEF OpenDeveloperTab, AskCreate, KeyMade, ServeCreate, AskRevoke, ElsewhereKeys, ServeRevoke, Revoked,
       RevokeFails
  <2>2. devTab \in DevTabRow /\ devCall.row \in ApiRows \cup {NoApiRow}
    BY <1>1 DEF DeveloperTyped, DevCallRow
  <2>3. QED
    BY <2>1, <2>2 DEF DevTabRow
<1>6. devCall' \in DevCallRow /\ (devCall' = devCall \/ (devCall'.kind # "webhook" /\ devCall.kind # "webhook"))
  <2>1. \/ devCall' = devCall
        \/ devCall = NoDevCall /\ devCall' = [NoDevCall EXCEPT !.kind = "create", !.pc = "sent"]
        \/ devCall.kind = "create" /\ devCall' = NoDevCall
        \/ \E k \in ApiRows : devCall.kind = "create" /\ devCall' = [devCall EXCEPT !.pc = "served", !.row = k]
    BY DEF OpenDeveloperTab, AskCreate, KeyMade, ServeCreate, AskRevoke, ElsewhereKeys, ServeRevoke, Revoked,
       RevokeFails
  <2>2. devCall \in DevCallRow /\ NoDevCall \in DevCallRow /\ NoDevCall.kind = "none"
    BY <1>1 DEF DeveloperTyped, DevCallRow, NoDevCall, NoHook
  <2>3. QED
    BY <2>1, <2>2 DEF DevCallRow, NoDevCall
<1>7. HookLine
  BY <1>2 DEF HookLine
<1>8. QED
  BY <1>1, <1>2, <1>3, <1>4, <1>5, <1>6, <1>7 DEF HookInv, DeveloperTyped

\* A load reads what is stored, and the tab shows it.
LEMMA DeskLoadStep ==
  ASSUME HookInv, NEW f \in DeskLoads, ReadRows(f) \/ ReadHook(f) \/ ShowDeveloper(f) \/ DeskLoadFails(f)
  PROVE  HookInv' /\ HookLine
<1>1. DeveloperTyped /\ deskLoad[f] \in DeskLoadRow
  BY DEF HookInv, DeveloperTyped
<1>2. UNCHANGED <<keyRows, outbound, devCall, deeds>>
  BY DEF ReadRows, ReadHook, ShowDeveloper, DeskLoadFails
<1>3. NoDeskLoad \in DeskLoadRow /\ NoDeskLoad.hook = "unread"
  BY DEF NoDeskLoad, DeskLoadRow
<1>4. /\ deskLoad' \in [DeskLoads -> DeskLoadRow]
      /\ \A g \in DeskLoads : deskLoad'[g].hook = "read" => deskLoad'[g].url = outbound.url
  <2>1. PICK q \in DeskLoadRow : deskLoad' = [deskLoad EXCEPT ![f] = q] /\ (q.hook = "read" => q.url = outbound.url)
    <3>1. CASE ReadRows(f)
      <4>1. [deskLoad[f] EXCEPT !.keys = "read", !.rows = keyRows] \in DeskLoadRow
        BY <1>1 DEF DeskLoadRow, DeveloperTyped
      <4>2. deskLoad' = [deskLoad EXCEPT ![f] = [deskLoad[f] EXCEPT !.keys = "read", !.rows = keyRows]]
        BY <1>1, <3>1 DEF ReadRows, DeskLoadRow
      <4>3. QED
        BY <1>1, <4>1, <4>2 DEF HookInv, DeskLoadRow
    <3>2. CASE ReadHook(f)
      <4>1. outbound.url \in Nat
        BY <1>1 DEF DeveloperTyped
      <4>2. [deskLoad[f] EXCEPT !.hook = "read", !.url = outbound.url] \in DeskLoadRow
        BY <1>1, <4>1 DEF DeskLoadRow
      <4>3. deskLoad' = [deskLoad EXCEPT ![f] = [deskLoad[f] EXCEPT !.hook = "read", !.url = outbound.url]]
        BY <1>1, <3>2 DEF ReadHook, DeskLoadRow
      <4>4. QED
        BY <1>1, <4>2, <4>3 DEF DeskLoadRow
    <3>3. CASE ShowDeveloper(f) \/ DeskLoadFails(f)
      BY <1>3, <3>3 DEF ShowDeveloper, DeskLoadFails
    <3>4. QED
      BY <3>1, <3>2, <3>3
  <2>2. QED
    BY <1>1, <2>1 DEF HookInv, DeveloperTyped
<1>5. CASE ShowDeveloper(f)
  <2>1. /\ devTab' = [devTab EXCEPT !.rows = deskLoad[f].rows, !.url = deskLoad[f].url]
        /\ seen' = TRUE /\ typed' = FALSE /\ "unread" \notin {deskLoad[f].keys, deskLoad[f].hook}
        /\ belated' = ("old" \in {deskLoad[f].keys, deskLoad[f].hook})
    BY <1>5 DEF ShowDeveloper
  <2>2. devTab' \in DevTabRow /\ devTab'.url = deskLoad[f].url
    BY <1>1, <2>1 DEF DeveloperTyped, DevTabRow, DeskLoadRow
  <2>3. ~belated' => deskLoad[f].hook = "read"
    BY <1>1, <2>1 DEF DeskLoadRow
  <2>4. ~belated' => devTab'.url = outbound.url
    BY <2>2, <2>3 DEF HookInv
  <2>5. belated' \in BOOLEAN
    BY <2>1
  <2>6. QED
    BY <1>1, <1>2, <1>4, <2>1, <2>2, <2>4, <2>5 DEF HookInv, DeveloperTyped, HookLine
<1>6. CASE ~ShowDeveloper(f)
  <2>1. UNCHANGED <<devTab, seen, typed, belated, elsewhere>>
    BY <1>6 DEF ReadRows, ReadHook, DeskLoadFails, deskStory
  <2>2. QED
    BY <1>1, <1>2, <1>4, <2>1 DEF HookInv, DeveloperTyped, HookLine
<1>7. QED
  BY <1>5, <1>6

\* The page's save, from the tab that asks to the secret it is told.
LEMMA SaveHookStep ==
  ASSUME HookInv, AskSaveHook \/ ServeSaveHook \/ HookSaved \/ DevCallFails
  PROVE  HookInv' /\ HookLine
<1>1. DeveloperTyped /\ devCall \in DevCallRow /\ devTab \in DevTabRow /\ NoDevCall \in DevCallRow
  BY DEF HookInv, DeveloperTyped, DevCallRow, NoDevCall, NoHook
<1>2. CASE AskSaveHook
  <2> DEFINE mayBeOld == ~seen \/ belated \/ "hook" \in elsewhere
  <2>1. /\ devCall' = [NoDevCall EXCEPT !.kind = "webhook", !.pc = "sent", !.hook.url = devTab.url, !.typed = typed,
                                        !.stale = mayBeOld]
        /\ UNCHANGED <<keyRows, outbound, devTab, deskLoad, seen, typed, belated, elsewhere>> /\ deeds' = deeds + 1
        /\ devCall = NoDevCall
    BY <1>2 DEF AskSaveHook, deskStory, CountDeed
  <2>2. devCall' = [kind |-> "webhook", pc |-> "sent", row |-> NoApiRow,
                    hook |-> [url |-> devTab.url, secret |-> 0], typed |-> typed, stale |-> mayBeOld]
    BY <2>1 DEF NoDevCall, NoHook
  <2>3. devTab.url \in Nat /\ typed \in BOOLEAN /\ mayBeOld \in BOOLEAN
    BY <1>1 DEF DevTabRow, DeveloperTyped
  <2>4. devCall' \in DevCallRow
    BY <2>2, <2>3 DEF DevCallRow
  <2>5. ~devCall'.typed /\ ~devCall'.stale => devCall'.hook.url = outbound.url
    BY <2>2 DEF HookInv
  <2>6. deeds' \in Nat /\ HookLine
    BY <1>1, <2>1 DEF DeveloperTyped, HookLine
  <2>7. QED
    BY <1>1, <2>1, <2>4, <2>5, <2>6 DEF HookInv, DeveloperTyped
<1>3. CASE ServeSaveHook
  <2>1. /\ devCall.kind = "webhook" /\ devCall.pc = "sent" /\ outbound' = StoredHook(devCall.hook.url)
        /\ devCall' = [devCall EXCEPT !.pc = "served", !.hook = outbound'] /\ Outrun("hook")
        /\ belated' = (belated \/ devTab.url # outbound'.url)
        /\ UNCHANGED <<keyRows, devTab, seen, typed, elsewhere, deeds>>
    BY <1>3 DEF ServeSaveHook
  <2>2. outbound' \in [url : Nat, secret : Nat] /\ outbound'.url = devCall.hook.url
    BY <1>1, <2>1 DEF StoredHook, DeveloperTyped, DevCallRow
  <2>3. devCall' \in DevCallRow /\ devCall'.pc = "served"
    BY <1>1, <2>1, <2>2 DEF DevCallRow
  <2>4. deskLoad' \in [DeskLoads -> DeskLoadRow] /\ \A g \in DeskLoads : deskLoad'[g].hook # "read"
    BY <1>1, <2>1, OutrunHook
  <2>5. HookLine
    <3>1. devCall.typed \in BOOLEAN /\ devCall.stale \in BOOLEAN
      BY <1>1 DEF DevCallRow
    <3>2. QED
      BY <2>1, <2>2, <3>1 DEF HookInv, HookLine
  <2>6. belated' \in BOOLEAN /\ (~belated' => devTab'.url = outbound'.url)
    BY <2>1
  <2>7. QED
    BY <1>1, <2>1, <2>2, <2>3, <2>4, <2>5, <2>6 DEF HookInv, DeveloperTyped
<1>4. CASE HookSaved \/ DevCallFails
  <2>1. /\ devCall' = NoDevCall /\ UNCHANGED <<keyRows, outbound, deskLoad, seen, typed, belated, elsewhere, deeds>>
        /\ devTab' = devTab \/ devTab' = [devTab EXCEPT !.secret = devCall.hook.secret]
    BY <1>4 DEF HookSaved, DevCallFails, deskStory
  <2>2. devTab' \in DevTabRow /\ devTab'.url = devTab.url
    <3>1. devCall.hook.secret \in Nat
      BY <1>1 DEF DevCallRow
    <3>2. QED
      BY <1>1, <2>1, <3>1 DEF DevTabRow
  <2>3. devCall'.pc = "idle"
    BY <2>1 DEF NoDevCall
  <2>4. QED
    BY <1>1, <2>1, <2>2, <2>3 DEF HookInv, DeveloperTyped, HookLine
<1>5. QED
  BY <1>2, <1>3, <1>4

LEMMA UrlStep ==
  ASSUME HookInv, NEW n \in {0, deeds + 2}, TypeUrl(n) \/ ElsewhereHook(n)
  PROVE  HookInv' /\ HookLine
<1>1. DeveloperTyped /\ devCall \in DevCallRow /\ devTab \in DevTabRow /\ n \in Nat
  BY DEF HookInv, DeveloperTyped
<1>2. CASE TypeUrl(n)
  <2>1. /\ devTab' = [devTab EXCEPT !.url = n] /\ typed' = TRUE /\ deeds' = deeds + 1
        /\ UNCHANGED <<keyRows, outbound, devCall, deskLoad, seen, belated, elsewhere>>
    BY <1>2 DEF TypeUrl, CountDeed
  <2>2. devTab' \in DevTabRow /\ deeds' \in Nat
    BY <1>1, <2>1 DEF DevTabRow, DeveloperTyped
  <2>3. QED
    BY <1>1, <2>1, <2>2 DEF HookInv, DeveloperTyped, HookLine
<1>3. CASE ElsewhereHook(n)
  <2>1. /\ outbound' = [url |-> n, secret |-> IF n = 0 THEN 0 ELSE deeds + 2] /\ deeds' = deeds + 1
        /\ Outrun("hook") /\ "hook" \in elsewhere' /\ devCall' = [devCall EXCEPT !.stale = devCall # NoDevCall]
        /\ UNCHANGED <<keyRows, devTab, seen, typed, belated>>
    BY <1>3 DEF ElsewhereHook, CountDeed
  <2>2. outbound' \in [url : Nat, secret : Nat] /\ deeds' \in Nat
    BY <1>1, <2>1 DEF DeveloperTyped
  <2>3. devCall' \in DevCallRow /\ devCall'.pc = devCall.pc /\ devCall'.stale = (devCall # NoDevCall)
    BY <1>1, <2>1 DEF DevCallRow
  <2>4. deskLoad' \in [DeskLoads -> DeskLoadRow] /\ \A g \in DeskLoads : deskLoad'[g].hook # "read"
    BY <1>1, <2>1, OutrunHook
  <2>5. devCall'.pc = "sent" => devCall'.stale
    <3>1. devCall.pc = "sent" => devCall # NoDevCall
      BY DEF NoDevCall
    <3>2. QED
      BY <2>3, <3>1, Zenon
  <2>6. QED
    BY <1>1, <2>1, <2>2, <2>3, <2>4, <2>5 DEF HookInv, DeveloperTyped, HookLine
<1>4. QED
  BY <1>2, <1>3

LEMMA HookStep ==
  ASSUME HookInv, [DeveloperNext]_deskVars
  PROVE  HookInv' /\ (HookLine \/ UNCHANGED deskVars)
<1>1. CASE DeveloperNext
  BY <1>1, DeskKeysStep, DeskLoadStep, SaveHookStep, UrlStep DEF DeveloperNext
<1>2. CASE UNCHANGED deskVars
  BY <1>2 DEF deskVars, deskStory, HookInv, DeveloperTyped
<1>3. QED
  BY <1>1, <1>2

-----------------------------------------------------------------------------
(* RuleEditor: which rule a save writes over.                                 *)

RuleRow == [state : {"none", "kept", "deleted"}, topic : Nat, scope : Scopes \cup {Anywhere}, parts : SUBSET Parts,
            on : BOOLEAN]
FormRow == [shown : BOOLEAN, id : RuleIds \cup {NoRule}, topic : Nat, scope : Scopes \cup {Anywhere},
            parts : SUBSET Parts]
AnswerRow == [id : RuleIds, row : RuleRow]
RuleCallRow == [kind : {"none", "put", "post", "copy", "toggle", "bulk", "delete", "bulkDelete", "fetch", "answer"},
                ids : SUBSET (RuleIds \cup {NoRule}), about : SUBSET RuleIds, form : FormRow, on : BOOLEAN,
                failed : BOOLEAN, crossed : BOOLEAN, list : SUBSET AnswerRow]

RulesTyped ==
    /\ rule \in [RuleIds -> RuleRow] /\ listed \in [RuleIds -> RuleRow] /\ form \in FormRow
    /\ picked \subseteq RuleIds /\ rcall \in [RuleCalls -> RuleCallRow] /\ topics \in Nat
    /\ left \subseteq RuleIds /\ mixed \subseteq RuleIds

\* Rule r was made, and unless a new one was begun over it, it is about the topic t for as long as it is kept.
About(r, t) == rule[r].state # "none" /\ (r \in mixed \/ (rule[r].state = "kept" => rule[r].topic = t))

\* Of one request: what it saves is about the rule it names, what it has read is what is stored, and only those that
\* change or delete a rule still have one to do.
CallFits(q) ==
    /\ q.kind = "put" => \A r \in q.ids \cap RuleIds : About(r, q.form.topic)
    /\ q.ids \cap RuleIds # {} => q.kind \in {"put", "toggle", "bulk", "delete", "bulkDelete"}
    /\ \A x \in q.list : x.row.state = "kept" => About(x.id, x.row.topic)

\* The dialog is about the rule whose id it keeps; and when it is closed with one, the page remembers that it is.
TopicInv ==
    /\ RulesTyped
    /\ \A r \in RuleIds : listed[r].state = "kept" => About(r, listed[r].topic)
    /\ form.shown /\ form.id \in RuleIds => About(form.id, form.topic)
    /\ ~form.shown => form.id \in left \cup {NoRule}
    /\ \A r \in left : rule[r].state # "none"
    /\ \A c \in RuleCalls : CallFits(rcall[c])

TopicLine ==
    \A r \in RuleIds \ mixed : r \in StoredRules /\ rule'[r].state = "kept" => rule'[r].topic = rule[r].topic

LEMMA NoCallFits == NoCall \in RuleCallRow /\ Blank \in FormRow /\ NoRuleRow \in RuleRow /\ CallFits(NoCall)
<1>1. Blank \in FormRow /\ NoRuleRow \in RuleRow
  BY DEF Blank, FormRow, NoRuleRow, RuleRow
<1>2. NoCall \in RuleCallRow
  BY <1>1 DEF NoCall, RuleCallRow
<1>3. CallFits(NoCall)
  BY DEF NoCall, CallFits
<1>4. QED
  BY <1>1, <1>2, <1>3

LEMMA TopicInit == RulesInit => TopicInv
<1>1. SUFFICES ASSUME RulesInit PROVE TopicInv
  OBVIOUS
<1>2. /\ rule = [r \in RuleIds |-> NoRuleRow] /\ listed = [r \in RuleIds |-> NoRuleRow] /\ form = Blank /\ picked = {}
      /\ rcall = [c \in RuleCalls |-> NoCall] /\ topics = 0 /\ left = {} /\ mixed = {}
  BY <1>1 DEF RulesInit
<1>3. RulesTyped
  BY <1>2, NoCallFits DEF RulesTyped
<1>4. \A r \in RuleIds : listed[r].state = "none"
  BY <1>2 DEF NoRuleRow
<1>5. ~form.shown /\ form.id = NoRule
  BY <1>2 DEF Blank
<1>6. form.id \notin RuleIds
  BY <1>5, RuleEditorAssumption
<1>7. \A c \in RuleCalls : CallFits(rcall[c])
  BY <1>2, NoCallFits
<1>8. QED
  BY <1>2, <1>3, <1>4, <1>5, <1>6, <1>7 DEF TopicInv

\* Rows only get on, and stay about what they are.
Onward ==
    /\ mixed \subseteq mixed'
    /\ \A r \in RuleIds : rule[r].state # "none" =>
          /\ rule'[r].state # "none"
          /\ r \in mixed' \/ (rule'[r].state = "kept" => rule[r].state = "kept" /\ rule'[r].topic = rule[r].topic)

LEMMA AboutStays ==
  ASSUME RulesTyped, Onward, NEW r \in RuleIds, NEW t, About(r, t)
  PROVE  About(r, t)'
BY DEF About, Onward

LEMMA CallStays ==
  ASSUME RulesTyped, Onward, NEW q \in RuleCallRow, CallFits(q)
  PROVE  CallFits(q)'
<1>1. q.ids \cap RuleIds \subseteq RuleIds /\ \A x \in q.list : x.id \in RuleIds
  BY DEF RuleCallRow, AnswerRow
<1>2. q.kind = "put" => \A r \in q.ids \cap RuleIds : About(r, q.form.topic)'
  BY <1>1, AboutStays DEF CallFits
<1>3. \A x \in q.list : x.row.state = "kept" => About(x.id, x.row.topic)'
  BY <1>1, AboutStays DEF CallFits
<1>4. QED
  BY <1>2, <1>3 DEF CallFits

\* What the page shows stays true when only rows get on.
PageFits ==
    /\ \A r \in RuleIds : listed[r].state = "kept" => About(r, listed[r].topic)
    /\ form.shown /\ form.id \in RuleIds => About(form.id, form.topic)
    /\ ~form.shown => form.id \in left \cup {NoRule}
    /\ \A r \in left : rule[r].state # "none"

LEMMA PageStays ==
  ASSUME RulesTyped, PageFits, Onward, UNCHANGED <<listed, form, left>>
  PROVE  PageFits'
<1>1. \A r \in RuleIds : listed[r].state = "kept" => About(r, listed[r].topic)'
  BY AboutStays DEF PageFits
<1>2. form.shown /\ form.id \in RuleIds => About(form.id, form.topic)'
  BY AboutStays DEF PageFits
<1>3. \A r \in left : rule'[r].state # "none"
  BY DEF PageFits, Onward, RulesTyped
<1>4. QED
  BY <1>1, <1>2, <1>3 DEF PageFits

LEMMA TopicInvIs == TopicInv <=> RulesTyped /\ PageFits /\ \A c \in RuleCalls : CallFits(rcall[c])
BY DEF TopicInv, PageFits

LEMMA DialogStep ==
  ASSUME TopicInv,
         \/ OpenNew \/ (\E parts \in {{}, {"sequence"} \cap Parts} : ApplyTemplate(parts))
         \/ (\E r \in RuleIds : EditRule(r)) \/ WriteAnswer \/ SwitchSequence \/ ChooseChannel \/ CloseForm \/ Select
  PROVE  TopicInv' /\ TopicLine
<1>1. RulesTyped /\ PageFits /\ form \in FormRow /\ \A c \in RuleCalls : CallFits(rcall[c])
  BY TopicInvIs DEF RulesTyped
<1>2. UNCHANGED <<rule, listed, rcall>>
  BY DEF OpenNew, ApplyTemplate, EditRule, WriteAnswer, SwitchSequence, TogglePart, ChooseChannel, ChangeForm,
     CloseForm, Select
<1>3. SUFFICES ASSUME RulesTyped', PageFits', mixed \subseteq mixed' PROVE TopicInv' /\ TopicLine
  <2>1. RulesTyped' /\ PageFits' /\ mixed \subseteq mixed'
    <3>1. CASE OpenNew
      <4>1. /\ ~form.shown /\ topics' = topics + 1 /\ form' = [form EXCEPT !.shown = TRUE, !.topic = topics + 1]
            /\ mixed' = mixed \cup (left \cap {form.id}) /\ left' = left /\ picked' = picked
        BY <3>1 DEF OpenNew
      <4>2. topics' \in Nat /\ mixed' \subseteq RuleIds
        BY <1>1, <4>1 DEF RulesTyped
      <4>3. form' \in FormRow /\ form'.shown /\ form'.id = form.id
        BY <1>1, <4>1, <4>2 DEF FormRow
      <4>4. form.id \in RuleIds => form.id \in mixed' /\ rule[form.id].state # "none"
        BY <1>1, <4>1, RuleEditorAssumption DEF PageFits
      <4>5. \A r \in RuleIds : listed[r].state = "kept" => About(r, listed[r].topic)'
        BY <1>1, <1>2, <4>1 DEF PageFits, About
      <4>6. form'.id \in RuleIds => About(form.id, form.topic)'
        BY <1>2, <4>3, <4>4 DEF About
      <4>7. RulesTyped'
        BY <1>1, <1>2, <4>1, <4>2, <4>3 DEF RulesTyped
      <4>8. \A r \in left' : rule'[r].state # "none"
        BY <1>1, <1>2, <4>1 DEF PageFits
      <4>9. PageFits'
        BY <1>2, <4>3, <4>5, <4>6, <4>8 DEF PageFits
      <4>10. QED
        BY <4>1, <4>7, <4>9
    <3>2. ASSUME NEW parts \in {{}, {"sequence"} \cap Parts}, ApplyTemplate(parts)
          PROVE  RulesTyped' /\ PageFits' /\ mixed \subseteq mixed'
      <4>1. /\ topics' = topics + 1 /\ left' = {} /\ mixed' = mixed /\ picked' = picked
            /\ form' = [Blank EXCEPT !.shown = TRUE, !.topic = topics + 1, !.parts = parts]
        BY <3>2 DEF ApplyTemplate
      <4>2. parts \subseteq Parts /\ topics' \in Nat
        BY <1>1, <4>1 DEF RulesTyped
      <4>3. form' \in FormRow /\ form'.shown /\ form'.id = NoRule
        BY <4>1, <4>2 DEF Blank, FormRow
      <4>4. RulesTyped'
        BY <1>1, <1>2, <4>1, <4>2, <4>3 DEF RulesTyped
      <4>5. QED
        BY <1>1, <1>2, <4>1, <4>3, <4>4, RuleEditorAssumption DEF PageFits, About
    <3>3. ASSUME NEW r \in RuleIds, EditRule(r) PROVE RulesTyped' /\ PageFits' /\ mixed \subseteq mixed'
      <4>1. /\ listed[r].state = "kept" /\ left' = {} /\ mixed' = mixed /\ picked' = picked /\ topics' = topics
            /\ form' = [shown |-> TRUE, id |-> r, topic |-> listed[r].topic, scope |-> listed[r].scope,
                        parts |-> listed[r].parts]
        BY <3>3 DEF EditRule, OnList
      <4>2. listed[r] \in RuleRow
        BY <1>1 DEF RulesTyped
      <4>3. form' \in FormRow /\ form'.shown /\ form'.id = r /\ form'.topic = listed[r].topic
        BY <4>1, <4>2 DEF FormRow, RuleRow
      <4>4. RulesTyped'
        BY <1>1, <1>2, <4>1, <4>3 DEF RulesTyped
      <4>5. About(r, listed[r].topic)
        BY <1>1, <4>1 DEF PageFits
      <4>6. QED
        BY <1>1, <1>2, <4>1, <4>3, <4>4, <4>5 DEF PageFits, About
    <3>4. CASE WriteAnswer \/ SwitchSequence \/ ChooseChannel
      <4>1. /\ form.shown /\ UNCHANGED <<left, mixed, picked, topics>>
            /\ \/ \E p \in Parts : form' = [form EXCEPT !.parts = IF p \in @ THEN @ \ {p} ELSE @ \cup {p}]
               \/ \E s \in Scopes \cup {Anywhere} : form' = [form EXCEPT !.scope = s]
        BY <3>4 DEF WriteAnswer, SwitchSequence, TogglePart, ChooseChannel, ChangeForm, ruleHistory
      <4>2. form' \in FormRow /\ form'.shown = form.shown /\ form'.id = form.id /\ form'.topic = form.topic
        BY <1>1, <4>1 DEF FormRow
      <4>3. RulesTyped'
        BY <1>1, <1>2, <4>1, <4>2 DEF RulesTyped
      <4>4. QED
        BY <1>1, <1>2, <4>1, <4>2, <4>3 DEF PageFits, About
    <3>5. CASE CloseForm
      <4>1. /\ form.shown /\ UNCHANGED <<mixed, picked, topics>>
            /\ \/ form' = Blank /\ left' = {}
               \/ form' = [form EXCEPT !.shown = FALSE] /\ left' = {form.id} \cap RuleIds
        BY <3>5 DEF CloseForm
      <4>2. form' \in FormRow /\ ~form'.shown /\ left' \subseteq RuleIds
        BY <1>1, <4>1, NoCallFits DEF FormRow, Blank
      <4>3. form'.id \in left' \cup {NoRule}
        BY <1>1, <4>1 DEF FormRow, Blank
      <4>4. \A r \in left' : rule[r].state # "none"
        BY <1>1, <4>1 DEF PageFits, About
      <4>5. RulesTyped'
        BY <1>1, <1>2, <4>1, <4>2 DEF RulesTyped
      <4>6. QED
        BY <1>1, <1>2, <4>1, <4>2, <4>3, <4>4, <4>5 DEF PageFits, About
    <3>6. CASE Select
      <4>1. UNCHANGED <<form, left, mixed, topics>> /\ picked' \subseteq RuleIds
        BY <1>1, <3>6 DEF Select, ruleHistory, OnList, RulesTyped
      <4>2. QED
        BY <1>1, <1>2, <4>1 DEF RulesTyped, PageFits, About
    <3>7. QED
      BY <3>1, <3>2, <3>3, <3>4, <3>5, <3>6
  <2>2. QED
    BY <2>1
<1>4. \A r \in RuleIds : \A t : About(r, t) => About(r, t)'
  BY <1>2, <1>3 DEF About
<1>5. Onward
  BY <1>2, <1>3 DEF Onward
<1>6. \A c \in RuleCalls : CallFits(rcall[c])'
  BY <1>1, <1>2, <1>5, CallStays DEF RulesTyped
<1>7. TopicLine
  BY <1>2 DEF TopicLine
<1>8. QED
  BY <1>2, <1>3, <1>6, <1>7, TopicInvIs DEF TopicInv, PageFits

\* A request that says the same of the rules it is about.
Alike(p, q) == q \in RuleCallRow /\ q.kind = p.kind /\ q.ids \subseteq p.ids /\ q.form = p.form /\ q.list = p.list

LEMMA AlikeFits ==
  ASSUME NEW p, NEW q, Alike(p, q), CallFits(p)
  PROVE  CallFits(q)
BY DEF Alike, CallFits

\* The requests after rows got on.
LEMMA CallsStay ==
  ASSUME RulesTyped, Onward, \A c \in RuleCalls : CallFits(rcall[c]),
         rcall' \in [RuleCalls -> RuleCallRow], \A c \in RuleCalls : Alike(rcall[c], rcall'[c])
  PROVE  \A c \in RuleCalls : CallFits(rcall[c])'
<1> SUFFICES ASSUME NEW c \in RuleCalls PROVE CallFits(rcall[c])'
  OBVIOUS
<1>1. rcall[c] \in RuleCallRow /\ rcall'[c] \in RuleCallRow /\ CallFits(rcall'[c])
  BY AlikeFits DEF RulesTyped
<1>2. QED
  BY <1>1, CallStays

\* One request becomes q, and the others what they were.
LEMMA OneCall ==
  ASSUME TopicInv, NEW c \in RuleCalls, NEW q \in RuleCallRow, CallFits(q), UNCHANGED <<rule, mixed>>,
         rcall' \in [RuleCalls -> RuleCallRow], rcall'[c] = q,
         \A x \in RuleCalls \ {c} : Alike(rcall[x], rcall'[x])
  PROVE  /\ \A x \in RuleCalls : CallFits(rcall[x])'
         /\ TopicLine
<1>1. \A p : CallFits(p) => CallFits(p)'
  BY DEF CallFits, About
<1>2. \A x \in RuleCalls : CallFits(rcall'[x])
  BY AlikeFits DEF TopicInv
<1>3. QED
  BY <1>1, <1>2 DEF TopicLine

LEMMA AskRuleStep ==
  ASSUME TopicInv, NEW c \in RuleCalls, AskFrom(c)
  PROVE  TopicInv' /\ TopicLine
<1>1. RulesTyped /\ PageFits /\ form \in FormRow
  BY TopicInvIs DEF RulesTyped
<1>2. UNCHANGED <<rule, form, picked, topics, left, mixed>>
  BY DEF AskFrom, SaveRule, ToggleActive, CloneRule, DeleteRule, Bulk, pageState, ruleHistory
<1>3. /\ listed' \in [RuleIds -> RuleRow]
      /\ \A r \in RuleIds : listed'[r].state = listed[r].state /\ listed'[r].topic = listed[r].topic
  <2>1. listed' = listed \/ \E r \in RuleIds : listed' = [listed EXCEPT ![r].on = ~@]
    BY DEF AskFrom, SaveRule, ToggleActive, CloneRule, DeleteRule, Bulk, pageState
  <2>2. \A r \in RuleIds : listed[r] \in RuleRow /\ [listed[r] EXCEPT !.on = ~@] \in RuleRow
    BY <1>1 DEF RulesTyped, RuleRow
  <2>3. CASE listed' = listed
    BY <1>1, <2>3 DEF RulesTyped
  <2>4. ASSUME NEW r \in RuleIds, listed' = [listed EXCEPT ![r] = [listed[r] EXCEPT !.on = ~@]]
        PROVE  /\ listed' \in [RuleIds -> RuleRow]
               /\ \A x \in RuleIds : listed'[x].state = listed[x].state /\ listed'[x].topic = listed[x].topic
    <3>1. [listed[r] EXCEPT !.on = ~@].state = listed[r].state /\ [listed[r] EXCEPT !.on = ~@].topic = listed[r].topic
      BY <2>2 DEF RuleRow
    <3>2. listed' \in [RuleIds -> RuleRow]
      BY <1>1, <2>2, <2>4 DEF RulesTyped
    <3>3. QED
      BY <1>1, <2>2, <2>4, <3>1, <3>2 DEF RulesTyped
  <2>5. QED
    BY <2>1, <2>3, <2>4
<1>4. PageFits'
  BY <1>1, <1>2, <1>3 DEF PageFits, About
<1>5. SUFFICES ASSUME NEW q \in RuleCallRow, CallFits(q), rcall' \in [RuleCalls -> RuleCallRow], rcall'[c] = q,
                      \A x \in RuleCalls \ {c} : Alike(rcall[x], rcall'[x])
               PROVE  TopicInv' /\ TopicLine
  <2>1. \A x \in RuleCalls : Alike(rcall[x], rcall[x])
    BY <1>1 DEF Alike, RulesTyped
  <2>2. ASSUME NEW q \in RuleCallRow, CallFits(q), rcall' = [rcall EXCEPT ![c] = q]
        PROVE  \E p \in RuleCallRow : /\ CallFits(p) /\ rcall' \in [RuleCalls -> RuleCallRow] /\ rcall'[c] = p
                                      /\ \A x \in RuleCalls \ {c} : Alike(rcall[x], rcall'[x])
    BY <1>1, <2>1, <2>2 DEF RulesTyped
  <2>3. CASE SaveRule(c)
    <3> DEFINE sent == [form EXCEPT !.parts = SentParts(@)]
               q == [NoCall EXCEPT !.kind = IF form.id = NoRule THEN "post" ELSE "put",
                                   !.ids = {form.id}, !.form = sent, !.on = TRUE]
    <3>1. form.shown /\ rcall' = [rcall EXCEPT ![c] = q]
      BY <2>3 DEF SaveRule, Send
    <3>2. sent \in FormRow /\ sent.topic = form.topic /\ form.id \in RuleIds \cup {NoRule}
      BY <1>1 DEF FormRow, SentParts
    <3>3. q \in RuleCallRow /\ q.list = {} /\ q.form = sent /\ q.ids = {form.id}
          /\ q.kind = IF form.id = NoRule THEN "post" ELSE "put"
      BY <3>2, NoCallFits DEF NoCall, RuleCallRow
    <3>4. form.id \in RuleIds => About(form.id, form.topic)
      BY <1>1, <3>1 DEF PageFits
    <3>5. CallFits(q)
      <4>1. q.kind = "put" => \A r \in q.ids \cap RuleIds : About(r, q.form.topic)
        BY <3>2, <3>3, <3>4
      <4>2. q.ids \cap RuleIds # {} => q.kind = "put"
        BY <3>3, RuleEditorAssumption
      <4>3. QED
        BY <3>3, <4>1, <4>2 DEF CallFits
    <3>6. QED
      BY <2>2, <3>1, <3>3, <3>5
  <2>4. ASSUME NEW r \in RuleIds, ToggleActive(c, r)
        PROVE  \E q \in RuleCallRow : /\ CallFits(q) /\ rcall' \in [RuleCalls -> RuleCallRow] /\ rcall'[c] = q
                                      /\ \A x \in RuleCalls \ {c} : Alike(rcall[x], rcall'[x])
    <3> DEFINE twice == {x \in RuleCalls : rcall[x].kind = "toggle" /\ r \in rcall[x].about}
               q == [NoCall EXCEPT !.kind = "toggle", !.ids = {r}, !.about = {r}, !.on = ~listed[r].on,
                                   !.crossed = twice # {}]
    <3>1. rcall' = [x \in RuleCalls |-> IF x = c THEN q ELSE [rcall[x] EXCEPT !.crossed = @ \/ x \in twice]]
      BY <2>4 DEF ToggleActive
    <3>2. q \in RuleCallRow /\ q.kind = "toggle" /\ q.list = {}
      BY <1>1, NoCallFits DEF NoCall, RuleCallRow, RulesTyped, RuleRow
    <3>3. CallFits(q)
      BY <3>2 DEF CallFits
    <3>4. \A x \in RuleCalls : Alike(rcall[x], [rcall[x] EXCEPT !.crossed = @ \/ x \in twice])
      <4> SUFFICES ASSUME NEW x \in RuleCalls PROVE Alike(rcall[x], [rcall[x] EXCEPT !.crossed = @ \/ x \in twice])
        OBVIOUS
      <4>1. rcall[x] \in RuleCallRow /\ (rcall[x].crossed \/ x \in twice) \in BOOLEAN
        BY <1>1 DEF RulesTyped
      <4>2. QED
        BY <4>1 DEF Alike, RuleCallRow
    <3>5. rcall' \in [RuleCalls -> RuleCallRow]
      <4>1. \A x \in RuleCalls : [rcall[x] EXCEPT !.crossed = @ \/ x \in twice] \in RuleCallRow
        BY <3>4 DEF Alike
      <4>2. QED
        BY <3>1, <3>2, <4>1
    <3>6. rcall'[c] = q /\ \A x \in RuleCalls \ {c} : Alike(rcall[x], rcall'[x])
      BY <3>1, <3>4
    <3>7. QED
      BY <3>2, <3>3, <3>5, <3>6
  <2>5. ASSUME NEW r \in RuleIds, CloneRule(c, r) \/ DeleteRule(c, r)
        PROVE  \E q \in RuleCallRow : rcall' = [rcall EXCEPT ![c] = q] /\ CallFits(q)
    <3>1. listed[r] \in RuleRow
      BY <1>1 DEF RulesTyped
    <3>2. CASE CloneRule(c, r)
      <4> DEFINE twin == [Blank EXCEPT !.topic = listed[r].topic, !.parts = listed[r].parts \ {"quick"}]
                 q == [NoCall EXCEPT !.kind = "copy", !.ids = {NoRule}, !.form = twin]
      <4>1. twin \in FormRow
        BY <3>1, NoCallFits DEF FormRow, RuleRow
      <4>2. q \in RuleCallRow /\ q.kind = "copy" /\ q.ids = {NoRule} /\ q.list = {}
        BY <4>1, NoCallFits DEF NoCall, RuleCallRow
      <4>3. CallFits(q)
        BY <4>2, RuleEditorAssumption DEF CallFits
      <4>4. QED
        BY <3>2, <4>2, <4>3 DEF CloneRule, Send
    <3>3. CASE DeleteRule(c, r)
      <4> DEFINE q == [NoCall EXCEPT !.kind = "delete", !.ids = {r}, !.about = {r}]
      <4>1. q \in RuleCallRow /\ q.kind = "delete" /\ q.list = {}
        BY NoCallFits DEF NoCall, RuleCallRow
      <4>2. CallFits(q)
        BY <4>1 DEF CallFits
      <4>3. QED
        BY <3>3, <4>1, <4>2 DEF DeleteRule, Send
    <3>4. QED
      BY <2>5, <3>2, <3>3
  <2>6. ASSUME NEW kind \in {"bulk", "bulkDelete"}, NEW on \in BOOLEAN, Bulk(c, kind, on)
        PROVE  \E q \in RuleCallRow : rcall' = [rcall EXCEPT ![c] = q] /\ CallFits(q)
    <3> DEFINE q == [NoCall EXCEPT !.kind = kind, !.ids = picked, !.about = picked, !.on = on]
    <3>1. q \in RuleCallRow /\ q.kind = kind /\ q.list = {}
      BY <1>1, NoCallFits DEF NoCall, RuleCallRow, RulesTyped
    <3>2. CallFits(q)
      BY <3>1 DEF CallFits
    <3>3. QED
      BY <2>6, <3>1, <3>2 DEF Bulk, Send
  <2>7. QED
    BY <1>5, <2>2, <2>3, <2>4, <2>5, <2>6 DEF AskFrom
<1>6. RulesTyped'
  BY <1>1, <1>2, <1>3, <1>5 DEF RulesTyped
<1>7. (\A x \in RuleCalls : CallFits(rcall[x])') /\ TopicLine
  BY <1>2, <1>5, OneCall
<1>8. QED
  BY <1>4, <1>6, <1>7 DEF TopicInv, PageFits

\* An update writes the topic of its form, and nothing else writes one.
LEMMA AppliedFits ==
  ASSUME TopicInv, NEW c \in RuleCalls, NEW r \in RuleIds, r \in rcall[c].ids, rule[r].state = "kept"
  PROVE  /\ Applied(c, r) \in RuleRow /\ Applied(c, r).state \in {"kept", "deleted"}
         /\ r \in mixed \/ (Applied(c, r).state = "kept" => Applied(c, r).topic = rule[r].topic)
<1>1. rcall[c] \in RuleCallRow /\ rule[r] \in RuleRow /\ CallFits(rcall[c])
  BY DEF TopicInv, RulesTyped
<1>2. rcall[c].kind \in {"put", "toggle", "bulk", "delete", "bulkDelete"}
  BY <1>1 DEF CallFits
<1>3. CASE rcall[c].kind = "put"
  <2> DEFINE f == rcall[c].form
  <2>1. f \in FormRow /\ About(r, f.topic)
    BY <1>1, <1>3 DEF RuleCallRow, CallFits
  <2>2. Applied(c, r) = [rule[r] EXCEPT !.topic = f.topic, !.scope = f.scope, !.on = TRUE,
                                         !.parts = f.parts \cup (@ \ {"private"})]
    BY <1>3 DEF Applied, Updated
  <2>3. Applied(c, r) \in RuleRow /\ Applied(c, r).state = "kept" /\ Applied(c, r).topic = f.topic
    BY <1>1, <2>1, <2>2 DEF RuleRow, FormRow
  <2>4. QED
    BY <2>1, <2>3 DEF About
<1>4. CASE rcall[c].kind \in {"toggle", "bulk"}
  <2>1. Applied(c, r) = [rule[r] EXCEPT !.on = rcall[c].on] /\ rcall[c].on \in BOOLEAN
    BY <1>1, <1>4 DEF Applied, RuleCallRow
  <2>2. QED
    BY <1>1, <2>1 DEF RuleRow
<1>5. CASE rcall[c].kind \in {"delete", "bulkDelete"}
  <2>1. Applied(c, r) = [NoRuleRow EXCEPT !.state = "deleted"]
    BY <1>5 DEF Applied
  <2>2. NoRuleRow \in RuleRow
    BY NoCallFits
  <2>3. Applied(c, r) \in RuleRow /\ Applied(c, r).state = "deleted"
    BY <2>1, <2>2 DEF RuleRow
  <2>4. QED
    BY <2>3
<1>6. QED
  BY <1>2, <1>3, <1>4, <1>5

\* A row is written: what is under way about it hears of that.
LEMMA OvertakenAlike ==
  ASSUME NEW asked \in [RuleCalls -> RuleCallRow], NEW r \in RuleIds
  PROVE  /\ Overtake(asked, r) \in [RuleCalls -> RuleCallRow]
         /\ \A x \in RuleCalls : Alike(asked[x], Overtake(asked, r)[x])
<1>1. \A x \in RuleCalls : Alike(asked[x], [asked[x] EXCEPT !.about = @ \cup {r}]) /\ Alike(asked[x], asked[x])
  BY DEF Alike, RuleCallRow
<1>2. QED
  BY <1>1 DEF Overtake, Alike

LEMMA HandledAlike ==
  ASSUME RulesTyped, NEW c \in RuleCalls, NEW r \in RuleIds, Handled(c, r)
  PROVE  rcall' \in [RuleCalls -> RuleCallRow] /\ \A x \in RuleCalls : Alike(rcall[x], rcall'[x])
<1> DEFINE q == [rcall[c] EXCEPT !.ids = @ \ {r, NoRule}, !.about = @ \cup {r}]
           asked == [rcall EXCEPT ![c] = q]
<1>1. Alike(rcall[c], q) /\ \A x \in RuleCalls : Alike(rcall[x], rcall[x])
  BY DEF Alike, RuleCallRow, RulesTyped
<1>2. asked \in [RuleCalls -> RuleCallRow] /\ \A x \in RuleCalls : Alike(rcall[x], asked[x])
  BY <1>1 DEF RulesTyped, Alike
<1>3. rcall[c] \in RuleCallRow
  BY DEF RulesTyped
<1>4. asked = [rcall EXCEPT ![c].ids = @ \ {r, NoRule}, ![c].about = @ \cup {r}]
  BY <1>3 DEF RuleCallRow, RulesTyped
<1>5. rcall' = Overtake(asked, r)
  BY <1>4 DEF Handled
<1>6. QED
  BY <1>2, <1>5, OvertakenAlike DEF Alike

LEMMA WriteStep ==
  ASSUME TopicInv, NEW r \in RuleIds,
         (\E c \in RuleCalls : Serve(c, r) \/ CreateRule(c, r)) \/ WriteElsewhere(r)
  PROVE  TopicInv' /\ TopicLine
<1>1. RulesTyped /\ PageFits /\ rule[r] \in RuleRow /\ \A c \in RuleCalls : CallFits(rcall[c])
  BY TopicInvIs DEF RulesTyped
<1>2. UNCHANGED <<listed, form, picked, topics, left, mixed>>
  BY DEF Serve, CreateRule, WriteElsewhere, pageState, ruleHistory
<1>3. rcall' \in [RuleCalls -> RuleCallRow] /\ \A x \in RuleCalls : Alike(rcall[x], rcall'[x])
  BY <1>1, HandledAlike, OvertakenAlike DEF Serve, CreateRule, WriteElsewhere, RulesTyped
<1>4. PICK row \in RuleRow : /\ rule' = [rule EXCEPT ![r] = row] /\ row.state \in {"kept", "deleted"}
                             /\ rule[r].state # "none" =>
                                   /\ rule[r].state = "kept"
                                   /\ r \in mixed \/ (row.state = "kept" => row.topic = rule[r].topic)
  <2>1. ASSUME NEW c \in RuleCalls, Serve(c, r)
        PROVE  \E row \in RuleRow : /\ rule' = [rule EXCEPT ![r] = row] /\ row.state \in {"kept", "deleted"}
                                    /\ rule[r].state = "kept"
                                    /\ r \in mixed \/ (row.state = "kept" => row.topic = rule[r].topic)
    <3>1. r \in rcall[c].ids /\ rule[r].state = "kept" /\ rule' = [rule EXCEPT ![r] = Applied(c, r)]
      BY <2>1 DEF Serve, StoredRules
    <3>2. QED
      BY <3>1, AppliedFits
  <2>2. ASSUME NEW c \in RuleCalls, CreateRule(c, r)
        PROVE  \E row \in RuleRow : /\ rule' = [rule EXCEPT ![r] = row] /\ row.state = "kept"
                                     /\ rule[r].state = "none"
    <3> DEFINE row == [state |-> "kept", topic |-> rcall[c].form.topic, scope |-> rcall[c].form.scope,
                       parts |-> rcall[c].form.parts, on |-> rcall[c].on]
    <3>1. rcall[c] \in RuleCallRow /\ rcall[c].form \in FormRow
      BY <1>1 DEF RulesTyped, RuleCallRow
    <3>2. row \in RuleRow
      BY <3>1 DEF RuleRow, RuleCallRow, FormRow
    <3>3. QED
      BY <2>2, <3>2 DEF CreateRule
  <2>3. ASSUME WriteElsewhere(r)
        PROVE  \E row \in RuleRow : /\ rule' = [rule EXCEPT ![r] = row] /\ row.state \in {"kept", "deleted"}
                                    /\ rule[r].state = "kept"
                                    /\ (row.state = "kept" => row.topic = rule[r].topic)
    <3>1. rule[r].state = "kept" /\ rule' \in {[rule EXCEPT ![r] = [rule[r] EXCEPT !.on = ~@]],
                                               [rule EXCEPT ![r] = [NoRuleRow EXCEPT !.state = "deleted"]]}
      BY <2>3 DEF WriteElsewhere, StoredRules
    <3>2. [rule[r] EXCEPT !.on = ~@] \in RuleRow /\ [NoRuleRow EXCEPT !.state = "deleted"] \in RuleRow
      BY <1>1 DEF RuleRow, NoRuleRow
    <3>3. /\ [rule[r] EXCEPT !.on = ~@].state = rule[r].state /\ [rule[r] EXCEPT !.on = ~@].topic = rule[r].topic
          /\ [NoRuleRow EXCEPT !.state = "deleted"].state = "deleted"
      BY <1>1 DEF RuleRow, NoRuleRow
    <3>4. QED
      BY <3>1, <3>2, <3>3
  <2>4. QED
    BY <2>1, <2>2, <2>3
<1>5. rule' \in [RuleIds -> RuleRow] /\ rule'[r] = row /\ \A x \in RuleIds \ {r} : rule'[x] = rule[x]
  BY <1>1, <1>4 DEF RulesTyped
<1>6. Onward
  BY <1>2, <1>4, <1>5 DEF Onward
<1>7. TopicLine
  BY <1>4, <1>5 DEF TopicLine, StoredRules
<1>8. RulesTyped' /\ PageFits'
  BY <1>1, <1>2, <1>3, <1>5, <1>6, PageStays DEF RulesTyped
<1>9. \A c \in RuleCalls : CallFits(rcall[c])'
  BY <1>1, <1>3, <1>6, CallsStay
<1>10. QED
  BY <1>7, <1>8, <1>9 DEF TopicInv, PageFits

\* The service turns a request down, its answer is lost, or the list is read.
LEMMA UnservedStep ==
  ASSUME TopicInv, NEW c \in RuleCalls,
         (\E r \in RuleIds \cup {NoRule} : NotServed(c, r)) \/ AnswerLost(c) \/ GetRules(c)
  PROVE  TopicInv' /\ TopicLine
<1>1. RulesTyped /\ PageFits /\ rcall[c] \in RuleCallRow /\ CallFits(rcall[c])
  BY TopicInvIs DEF RulesTyped
<1>2. UNCHANGED <<rule, listed, form, picked, topics, left, mixed>>
  BY DEF NotServed, AnswerLost, GetRules, pageState, ruleHistory
<1>3. \A x \in RuleCalls : Alike(rcall[x], rcall[x])
  BY <1>1 DEF Alike, RulesTyped
<1>4. PICK q \in RuleCallRow : rcall' = [rcall EXCEPT ![c] = q] /\ CallFits(q)
  <2>1. ASSUME NEW r, NotServed(c, r) PROVE \E q \in RuleCallRow : rcall' = [rcall EXCEPT ![c] = q] /\ CallFits(q)
    <3> DEFINE q == [rcall[c] EXCEPT !.ids = @ \ {r}, !.failed = TRUE]
    <3>1. rcall' = [rcall EXCEPT ![c] = q]
      BY <1>1, <2>1 DEF NotServed, RulesTyped, RuleCallRow
    <3>2. Alike(rcall[c], q)
      BY <1>1 DEF Alike, RuleCallRow
    <3>3. QED
      BY <1>1, <3>1, <3>2, AlikeFits DEF Alike
  <2>2. ASSUME AnswerLost(c) PROVE \E q \in RuleCallRow : rcall' = [rcall EXCEPT ![c] = q] /\ CallFits(q)
    <3> DEFINE q == [rcall[c] EXCEPT !.failed = TRUE]
    <3>1. rcall' = [rcall EXCEPT ![c] = q]
      BY <1>1, <2>2 DEF AnswerLost, RulesTyped, RuleCallRow
    <3>2. Alike(rcall[c], q)
      BY <1>1 DEF Alike, RuleCallRow
    <3>3. QED
      BY <1>1, <3>1, <3>2, AlikeFits DEF Alike
  <2>3. ASSUME GetRules(c) PROVE \E q \in RuleCallRow : rcall' = [rcall EXCEPT ![c] = q] /\ CallFits(q)
    <3> DEFINE answers == {[id |-> r, row |-> rule[r]] : r \in StoredRules}
               q == [NoCall EXCEPT !.kind = "answer", !.list = answers]
    <3>1. rcall' = [rcall EXCEPT ![c] = q]
      BY <2>3 DEF GetRules
    <3>2. answers \subseteq AnswerRow
      BY <1>1 DEF StoredRules, AnswerRow, RulesTyped
    <3>3. q \in RuleCallRow /\ q.kind = "answer" /\ q.ids = {} /\ q.list = answers
      BY <3>2, NoCallFits DEF NoCall, RuleCallRow
    <3>4. \A x \in answers : x.row.state = "kept" => About(x.id, x.row.topic)
      BY DEF About, StoredRules
    <3>5. CallFits(q)
      BY <3>3, <3>4 DEF CallFits
    <3>6. QED
      BY <3>1, <3>3, <3>5
  <2>4. QED
    BY <2>1, <2>2, <2>3
<1>5. /\ rcall' \in [RuleCalls -> RuleCallRow] /\ rcall'[c] = q
      /\ \A x \in RuleCalls \ {c} : Alike(rcall[x], rcall'[x])
  BY <1>1, <1>3, <1>4 DEF RulesTyped
<1>6. (\A x \in RuleCalls : CallFits(rcall[x])') /\ TopicLine
  BY <1>2, <1>4, <1>5, OneCall
<1>7. RulesTyped' /\ PageFits'
  BY <1>1, <1>2, <1>5 DEF RulesTyped, PageFits, About
<1>8. QED
  BY <1>6, <1>7 DEF TopicInv, PageFits

\* The page learns of it.
LEMMA AnswerRuleStep ==
  ASSUME TopicInv, NEW c \in RuleCalls, Saved(c) \/ Done(c) \/ Failed(c) \/ SetRules(c) \/ FetchFails(c)
  PROVE  TopicInv' /\ TopicLine
<1>1. RulesTyped /\ PageFits /\ rcall[c] \in RuleCallRow /\ CallFits(rcall[c])
  BY TopicInvIs DEF RulesTyped
<1>2. UNCHANGED <<rule, topics, mixed>>
  BY DEF Saved, Done, Failed, SetRules, FetchFails, ruleHistory
<1>3. PICK q \in RuleCallRow : /\ CallFits(q) /\ rcall' \in [RuleCalls -> RuleCallRow] /\ rcall'[c] = q
                               /\ \A x \in RuleCalls \ {c} : Alike(rcall[x], rcall'[x])
  <2>1. \A x \in RuleCalls : Alike(rcall[x], rcall[x])
    BY <1>1 DEF Alike, RulesTyped
  <2>2. CASE Saved(c) \/ Done(c) \/ Failed(c) \/ FetchFails(c)
    <3> DEFINE fetching == [NoCall EXCEPT !.kind = "fetch"]
    <3>1. fetching \in RuleCallRow /\ fetching.kind = "fetch" /\ fetching.ids = {} /\ fetching.list = {}
      BY NoCallFits DEF NoCall, RuleCallRow
    <3>2. CallFits(fetching)
      BY <3>1 DEF CallFits
    <3>3. \E q \in {fetching, NoCall} : rcall' = [rcall EXCEPT ![c] = q]
      BY <2>2 DEF Saved, Done, Failed, FetchFails, Fetch, Forget
    <3>4. QED
      BY <1>1, <2>1, <3>1, <3>2, <3>3, NoCallFits DEF RulesTyped
  <2>3. CASE SetRules(c)
    <3>1. rcall' = [x \in RuleCalls |-> IF x = c THEN NoCall
                                        ELSE [rcall[x] EXCEPT !.crossed = @ \/ rcall[x].kind = "toggle"]]
      BY <2>3 DEF SetRules
    <3>2. \A x \in RuleCalls : Alike(rcall[x], [rcall[x] EXCEPT !.crossed = @ \/ rcall[x].kind = "toggle"])
      <4> SUFFICES ASSUME NEW x \in RuleCalls
                   PROVE  Alike(rcall[x], [rcall[x] EXCEPT !.crossed = @ \/ rcall[x].kind = "toggle"])
        OBVIOUS
      <4>1. rcall[x] \in RuleCallRow /\ (rcall[x].crossed \/ rcall[x].kind = "toggle") \in BOOLEAN
        BY <1>1 DEF RulesTyped
      <4>2. QED
        BY <4>1 DEF Alike, RuleCallRow
    <3>3. \A x \in RuleCalls : [rcall[x] EXCEPT !.crossed = @ \/ rcall[x].kind = "toggle"] \in RuleCallRow
      BY <3>2 DEF Alike
    <3>4. rcall' \in [RuleCalls -> RuleCallRow]
      BY <3>1, <3>3, NoCallFits
    <3>5. rcall'[c] = NoCall /\ \A x \in RuleCalls \ {c} : Alike(rcall[x], rcall'[x])
      BY <3>1, <3>2
    <3>6. QED
      BY <3>4, <3>5, NoCallFits
  <2>4. QED
    BY <2>2, <2>3
<1>4. RulesTyped' /\ PageFits'
  <2>1. CASE Saved(c)
    <3>1. form' = Blank /\ left' = {} /\ UNCHANGED <<listed, picked>>
      BY <2>1 DEF Saved
    <3>2. form' \in FormRow /\ ~form'.shown /\ form'.id = NoRule
      BY <3>1, NoCallFits DEF Blank
    <3>3. QED
      BY <1>1, <1>2, <1>3, <3>1, <3>2 DEF RulesTyped, PageFits, About
  <2>2. CASE Done(c) \/ Failed(c) \/ FetchFails(c)
    <3>1. UNCHANGED <<form, left, listed>> /\ (picked' = picked \/ picked' = {})
      BY <2>2 DEF Done, Failed, FetchFails, ruleHistory
    <3>2. QED
      BY <1>1, <1>2, <1>3, <3>1 DEF RulesTyped, PageFits, About
  <2>3. CASE SetRules(c)
    <3> DEFINE answers == rcall[c].list
    <3>1. /\ UNCHANGED <<form, left, picked>>
          /\ listed' = [r \in RuleIds |-> IF \E x \in answers : x.id = r
                                          THEN (CHOOSE x \in answers : x.id = r).row ELSE NoRuleRow]
      BY <2>3 DEF SetRules, ruleHistory
    <3>2. \A x \in answers : x \in AnswerRow /\ (x.row.state = "kept" => About(x.id, x.row.topic))
      BY <1>1 DEF RuleCallRow, CallFits
    <3>3. ASSUME NEW r \in RuleIds
          PROVE  listed'[r] \in RuleRow /\ (listed'[r].state = "kept" => About(r, listed'[r].topic))
      <4>1. CASE \E x \in answers : x.id = r
        <5>1. PICK x \in answers : x.id = r /\ listed'[r] = x.row
          BY <3>1, <4>1
        <5>2. x \in AnswerRow /\ (x.row.state = "kept" => About(x.id, x.row.topic))
          BY <3>2
        <5>3. QED
          BY <5>1, <5>2 DEF AnswerRow
      <4>2. CASE ~\E x \in answers : x.id = r
        <5>1. listed'[r] = NoRuleRow
          BY <3>1, <4>2
        <5>2. QED
          BY <5>1, NoCallFits DEF NoRuleRow
      <4>3. QED
        BY <4>1, <4>2
    <3>4. listed' \in [RuleIds -> RuleRow]
      BY <3>1, <3>3
    <3>5. QED
      BY <1>1, <1>2, <1>3, <3>1, <3>3, <3>4 DEF RulesTyped, PageFits, About
  <2>4. QED
    BY <2>1, <2>2, <2>3
<1>5. (\A x \in RuleCalls : CallFits(rcall[x])') /\ TopicLine
  BY <1>2, <1>3, OneCall
<1>6. QED
  BY <1>4, <1>5 DEF TopicInv, PageFits

LEMMA TopicStep ==
  ASSUME TopicInv, [RulesNext]_ruleVars
  PROVE  TopicInv' /\ (TopicLine \/ UNCHANGED ruleVars)
<1>1. CASE UNCHANGED ruleVars
  BY <1>1 DEF ruleVars, pageState, ruleHistory, TopicInv, RulesTyped, About, CallFits
<1>2. CASE RulesNext
  BY <1>2, DialogStep, AskRuleStep, WriteStep, UnservedStep, AnswerRuleStep DEF RulesNext
<1>3. QED
  BY <1>1, <1>2

-----------------------------------------------------------------------------
(* Preferences: the settings that a save of the form changes.                 *)

KnobValues == [Knobs -> Nat]
PaneRow == [open : BOOLEAN, opts : KnobValues, known : [Captions -> Nat], field : [Captions -> Nat]]
PutRow == [pc : {"idle", "sent", "served"}, opts : KnobValues, chosen : SUBSET Knobs, blind : BOOLEAN]
KnobLoadRow == [pc : {"idle", "asked", "read"}, rows : KnobValues]
NamingRow == [pc : {"idle", "sent", "served"}, value : Nat]

PrefTyped ==
    /\ strokes \in Nat /\ knob \in KnobValues /\ kept \in [Captions -> Nat]
    /\ pane \in [Panes -> PaneRow] /\ load \in [Panes -> KnobLoadRow] /\ put \in [Panes -> PutRow]
    /\ naming \in [Panes -> [Captions -> NamingRow]]
    /\ chosen \in [Panes -> SUBSET Knobs] /\ read \subseteq Panes

\* Every edit is a value of its own.
Old(values) == \A k \in Knobs : values[k] <= strokes + 1
ValuesOld == Old(knob) /\ \A t \in Panes : Old(pane[t].opts) /\ Old(put[t].opts) /\ Old(load[t].rows)

\* Of a page whose settings nobody saved since they were read for it: what it shows, but for what was edited, is what
\* is stored, and so is what it has read and what it sends; after its own save what it sent.
PaneFits(t) ==
    /\ t \in read => load[t].pc = "idle"
    /\ put[t].pc # "idle" /\ ~put[t].blind => t \in read /\ put[t].chosen \subseteq chosen[t]
    /\ put[t].pc # "idle" /\ put[t].blind /\ t \in read => \A k \in chosen[t] : pane[t].opts[k] # put[t].opts[k]
    /\ t \notin overtaken =>
          /\ load[t].pc = "read" => load[t].rows = knob
          /\ t \in read => \A k \in Knobs \ chosen[t] : pane[t].opts[k] = knob[k]
          /\ ~put[t].blind =>
                /\ put[t].pc = "sent" => \A k \in Knobs \ put[t].chosen : put[t].opts[k] = knob[k]
                /\ put[t].pc = "served" => put[t].opts = knob

PrefInv == PrefTyped /\ ValuesOld /\ \A t \in Panes : PaneFits(t)

SettingsLine ==
    \A t \in Panes, k \in Knobs :
       put[t].pc = "sent" /\ put'[t].pc = "served" /\ knob'[k] # knob[k]
       => k \in put[t].chosen \/ put[t].blind \/ t \in overtaken

LEMMA NoPaneFits ==
  /\ NoPane \in PaneRow /\ NoKnobLoad \in KnobLoadRow /\ NoPut \in PutRow /\ NoNaming \in NamingRow
  /\ Unanswered \in KnobValues /\ Before \in [Captions -> Nat]
  /\ NoPut.pc = "idle" /\ NoKnobLoad.pc = "idle"
  /\ NoPut.opts = Unanswered /\ NoPane.opts = Unanswered /\ NoKnobLoad.rows = Unanswered
<1>1. Unanswered \in KnobValues /\ Before \in [Captions -> Nat]
  BY DEF Unanswered, Before, KnobValues
<1>2. QED
  BY <1>1 DEF NoPane, PaneRow, NoKnobLoad, KnobLoadRow, NoPut, PutRow, NoNaming, NamingRow

LEMMA PrefInit == PreferencesInit => PrefInv
<1>1. SUFFICES ASSUME PreferencesInit PROVE PrefInv
  OBVIOUS
<1>2. /\ knob = [k \in Knobs |-> 1] /\ kept = Before /\ strokes = 0 /\ read = {} /\ overtaken = {}
      /\ pane = [t \in Panes |-> NoPane] /\ load = [t \in Panes |-> NoKnobLoad] /\ put = [t \in Panes |-> NoPut]
      /\ naming = [t \in Panes |-> [c \in Captions |-> NoNaming]] /\ chosen = [t \in Panes |-> {}]
  BY <1>1 DEF PreferencesInit
<1>3. knob \in KnobValues
  BY <1>2 DEF KnobValues
<1>4. PrefTyped
  BY <1>2, <1>3, NoPaneFits DEF PrefTyped
<1>5. Old(Unanswered) /\ Old(knob)
  BY <1>2 DEF Unanswered, Old
<1>6. ValuesOld
  BY <1>2, <1>5, NoPaneFits DEF ValuesOld
<1>7. \A t \in Panes : PaneFits(t)
  BY <1>2, NoPaneFits DEF PaneFits
<1>8. QED
  BY <1>4, <1>6, <1>7 DEF PrefInv

LEMMA ValuesAge ==
  ASSUME NEW values \in KnobValues, Old(values), strokes \in Nat, strokes' = strokes + 1
  PROVE  Old(values)'
<1>1. \A k \in Knobs : values[k] \in Nat
  BY DEF KnobValues
<1>2. QED
  BY <1>1 DEF Old

LEMMA UnansweredOld ==
  ASSUME strokes \in Nat
  PROVE  Old(Unanswered)
BY DEF Old, Unanswered

\* A page that a step is not about.
LEMMA OtherPane ==
  ASSUME NEW t \in Panes, PaneFits(t), UNCHANGED <<knob, pane[t], load[t], put[t], chosen[t]>>,
         t \in read' <=> t \in read, t \in overtaken' <=> t \in overtaken
  PROVE  PaneFits(t)'
BY DEF PaneFits

\* Most steps write no settings; it is left to say what they do to their page.
LEMMA PaneMoves ==
  ASSUME PrefInv, NEW t \in Panes, UNCHANGED knob, PrefTyped', ValuesOld', PaneFits(t)',
         \A u \in Panes \ {t} : /\ UNCHANGED <<pane[u], load[u], put[u], chosen[u]>>
                                /\ (u \in read' <=> u \in read) /\ (u \in overtaken' <=> u \in overtaken)
  PROVE  PrefInv' /\ SettingsLine
<1>1. \A u \in Panes : PaneFits(u)'
  BY OtherPane DEF PrefInv
<1>2. QED
  BY <1>1 DEF PrefInv, SettingsLine

LEMMA OpenPaneStep ==
  ASSUME PrefInv, NEW t \in Panes, OpenPane(t)
  PROVE  PrefInv' /\ SettingsLine
<1> DEFINE p == [open |-> TRUE, opts |-> Unanswered, known |-> kept, field |-> kept]
           q == [NoKnobLoad EXCEPT !.pc = "asked"]
<1>1. PrefTyped /\ ValuesOld
  BY DEF PrefInv
<1>2. /\ pane' = [pane EXCEPT ![t] = p] /\ load' = [load EXCEPT ![t] = q] /\ put[t] = NoPut
      /\ read' = read \ {t} /\ chosen' = [chosen EXCEPT ![t] = {}] /\ overtaken' = overtaken \ {t}
      /\ strokes' = strokes + 1 /\ UNCHANGED <<knob, kept, put, naming>>
  BY DEF OpenPane, Stroke
<1>3. p \in PaneRow /\ q \in KnobLoadRow /\ q.pc = "asked"
  BY <1>1, NoPaneFits DEF PaneRow, NoKnobLoad, KnobLoadRow, PrefTyped
<1>4. PrefTyped'
  BY <1>1, <1>2, <1>3 DEF PrefTyped
<1>5. ValuesOld'
  <2>1. strokes \in Nat /\ knob \in KnobValues /\ strokes' \in Nat
    BY <1>1, <1>2 DEF PrefTyped
  <2>2. Old(knob)' /\ \A v : v = Unanswered => Old(v)'
    BY <1>1, <1>2, <2>1, ValuesAge, UnansweredOld, NoPaneFits DEF ValuesOld
  <2>3. ASSUME NEW u \in Panes PROVE Old(pane[u].opts)' /\ Old(put[u].opts)' /\ Old(load[u].rows)'
    <3>1. pane[u].opts \in KnobValues /\ put[u].opts \in KnobValues /\ load[u].rows \in KnobValues
      BY <1>1 DEF PrefTyped, PaneRow, PutRow, KnobLoadRow
    <3>2. \A v \in {pane[u].opts, put[u].opts, load[u].rows} : Old(v)'
      BY <1>1, <1>2, <2>1, <3>1, ValuesAge DEF ValuesOld
    <3>3. /\ pane'[u].opts \in {pane[u].opts, Unanswered} /\ put'[u].opts = put[u].opts
          /\ load'[u].rows \in {load[u].rows, Unanswered}
      BY <1>1, <1>2, NoPaneFits DEF PrefTyped, NoKnobLoad
    <3>4. QED
      BY <2>2, <3>2, <3>3
  <2>4. QED
    BY <2>2, <2>3 DEF ValuesOld
<1>6. PaneFits(t)'
  BY <1>1, <1>2, <1>3, NoPaneFits DEF PrefTyped, PaneFits
<1>7. QED
  BY <1>1, <1>2, <1>4, <1>5, <1>6, PaneMoves, NoPaneFits DEF PrefTyped

\* Edits and requests that leave the settings of other pages alone, and that no value is younger than.
LEMMA ReadKnobsStep ==
  ASSUME PrefInv, NEW t \in Panes, ReadKnobs(t) \/ ShowKnobs(t) \/ KnobLoadFails(t)
  PROVE  PrefInv' /\ SettingsLine
<1>1. PrefTyped /\ ValuesOld /\ PaneFits(t)
  BY DEF PrefInv
<1>2. UNCHANGED <<knob, kept, put, naming, strokes>>
  BY DEF ReadKnobs, ShowKnobs, KnobLoadFails
<1>3. CASE ReadKnobs(t)
  <2> DEFINE q == [pc |-> "read", rows |-> knob]
  <2>1. /\ load' = [load EXCEPT ![t] = q] /\ overtaken' = overtaken \ {t} /\ load[t].pc = "asked"
        /\ UNCHANGED <<pane, read, chosen>>
    BY <1>3 DEF ReadKnobs
  <2>2. q \in KnobLoadRow
    BY <1>1 DEF PrefTyped, KnobLoadRow
  <2>3. PrefTyped' /\ ValuesOld'
    BY <1>1, <1>2, <2>1, <2>2 DEF PrefTyped, ValuesOld, Old
  <2>4. t \notin read /\ load'[t] = q
    BY <1>1, <2>1 DEF PaneFits, PrefTyped
  <2>5. PaneFits(t)'
    BY <1>1, <1>2, <2>1, <2>4 DEF PaneFits
  <2>6. QED
    BY <1>1, <1>2, <2>1, <2>3, <2>5, PaneMoves DEF PrefTyped
<1>4. CASE ShowKnobs(t)
  <2> DEFINE p == [pane[t] EXCEPT !.opts = load[t].rows]
  <2>1. /\ load[t].pc = "read" /\ pane' = [pane EXCEPT ![t] = p] /\ load' = [load EXCEPT ![t] = NoKnobLoad]
        /\ read' = read \cup {t} /\ chosen' = [chosen EXCEPT ![t] = {}] /\ overtaken' = overtaken
    BY <1>4 DEF ShowKnobs
  <2>2. load[t].rows \in KnobValues /\ p \in PaneRow /\ p.opts = load[t].rows
    <3>1. load[t] \in KnobLoadRow /\ pane[t] \in PaneRow
      BY <1>1 DEF PrefTyped
    <3>2. load[t].rows \in KnobValues
      BY <3>1 DEF KnobLoadRow
    <3>3. QED
      BY <3>1, <3>2 DEF PaneRow
  <2>3. PrefTyped' /\ ValuesOld'
    <3>1. PrefTyped'
      BY <1>1, <1>2, <2>1, <2>2, NoPaneFits DEF PrefTyped
    <3>2. Old(Unanswered) /\ \A v : Old(v) => Old(v)'
      BY <1>1, <1>2, UnansweredOld DEF PrefTyped, Old
    <3>3. \A u \in Panes : /\ pane'[u].opts \in {pane[u].opts, load[u].rows} /\ put'[u].opts = put[u].opts
                          /\ load'[u].rows \in {load[u].rows, Unanswered}
      BY <1>1, <1>2, <2>1, <2>2, NoPaneFits DEF PrefTyped
    <3>4. Old(knob)' /\ \A u \in Panes : Old(pane[u].opts)' /\ Old(put[u].opts)' /\ Old(load[u].rows)'
      BY <1>1, <1>2, <3>2, <3>3 DEF ValuesOld
    <3>5. QED
      BY <3>1, <3>4 DEF ValuesOld
  <2>4. t \notin read /\ pane'[t].opts = load[t].rows /\ load'[t].pc = "idle" /\ chosen'[t] = {}
    BY <1>1, <2>1, <2>2, NoPaneFits DEF PaneFits, PrefTyped
  <2>5. put[t].pc # "idle" => put[t].blind
    BY <1>1, <2>4 DEF PaneFits, PrefTyped, PutRow
  <2>6. PaneFits(t)'
    BY <1>1, <1>2, <2>1, <2>4, <2>5 DEF PaneFits
  <2>7. QED
    BY <1>1, <1>2, <2>1, <2>3, <2>6, PaneMoves DEF PrefTyped
<1>5. CASE KnobLoadFails(t)
  <2>1. load' = [load EXCEPT ![t] = NoKnobLoad] /\ UNCHANGED <<pane, read, chosen, overtaken>>
    BY <1>5 DEF KnobLoadFails, preferenceStory
  <2>2. PrefTyped' /\ ValuesOld'
    BY <1>1, <1>2, <2>1, NoPaneFits, UnansweredOld DEF PrefTyped, ValuesOld, Old
  <2>3. PaneFits(t)'
    BY <1>1, <1>2, <2>1, NoPaneFits DEF PaneFits, PrefTyped
  <2>4. QED
    BY <1>1, <1>2, <2>1, <2>2, <2>3, PaneMoves DEF PrefTyped
<1>6. QED
  BY <1>3, <1>4, <1>5

\* What is put in, and sent.
LEMMA ChooseStep ==
  ASSUME PrefInv, NEW t \in Panes, NEW k \in Knobs, Choose(t, k)
  PROVE  PrefInv' /\ SettingsLine
<1> DEFINE opts == [pane[t].opts EXCEPT ![k] = NewValue]
           p == [pane[t] EXCEPT !.opts = opts]
<1>1. PrefTyped /\ ValuesOld /\ PaneFits(t) /\ pane[t] \in PaneRow /\ pane[t].opts \in KnobValues /\ strokes \in Nat
  BY DEF PrefInv, PrefTyped, PaneRow
<1>2. /\ pane' = [pane EXCEPT ![t].opts[k] = NewValue] /\ chosen' = [chosen EXCEPT ![t] = @ \cup {k}]
      /\ strokes' = strokes + 1 /\ UNCHANGED <<knob, kept, load, put, naming, read, overtaken>>
  BY DEF Choose, Stroke, formState
<1>3. pane' = [pane EXCEPT ![t] = p]
  BY <1>1, <1>2 DEF PrefTyped, PaneRow
<1>4. /\ opts \in KnobValues /\ opts[k] = strokes + 2 /\ \A j \in Knobs \ {k} : opts[j] = pane[t].opts[j]
      /\ p \in PaneRow /\ p.opts = opts
  <2>1. NewValue \in Nat /\ NewValue = strokes + 2
    BY <1>1 DEF NewValue
  <2>2. opts \in KnobValues /\ opts[k] = strokes + 2 /\ \A j \in Knobs \ {k} : opts[j] = pane[t].opts[j]
    BY <1>1, <2>1 DEF KnobValues
  <2>3. QED
    BY <1>1, <2>2 DEF PaneRow
<1>5. PrefTyped'
  BY <1>1, <1>2, <1>3, <1>4 DEF PrefTyped
<1>6. ASSUME NEW u \in Panes PROVE Old(pane[u].opts)' /\ Old(put[u].opts)' /\ Old(load[u].rows)'
  <2>1. pane[u].opts \in KnobValues /\ put[u].opts \in KnobValues /\ load[u].rows \in KnobValues
    BY <1>1 DEF PrefTyped, PaneRow, PutRow, KnobLoadRow
  <2>2. \A v \in {pane[u].opts, put[u].opts, load[u].rows} : Old(v)'
    BY <1>1, <1>2, <2>1, ValuesAge DEF ValuesOld
  <2>3. \A v : v = opts => Old(v)'
    <3>1. \A j \in Knobs : pane[t].opts[j] \in Nat /\ pane[t].opts[j] <= strokes + 1
      BY <1>1 DEF ValuesOld, Old, KnobValues
    <3>2. \A j \in Knobs : opts[j] <= strokes + 2
      BY <1>1, <1>4, <3>1
    <3>3. strokes' + 1 = strokes + 2
      BY <1>1, <1>2
    <3>4. QED
      BY <3>2, <3>3 DEF Old
  <2>4. pane'[u].opts \in {pane[u].opts, opts}
    BY <1>1, <1>3, <1>4 DEF PrefTyped
  <2>5. QED
    BY <1>2, <2>2, <2>3, <2>4
<1>7. ValuesOld'
  <2>1. Old(knob)'
    BY <1>1, <1>2, ValuesAge DEF PrefTyped, ValuesOld
  <2>2. QED
    BY <1>6, <2>1 DEF ValuesOld
<1>8. PaneFits(t)'
  <2>1. pane'[t].opts = opts /\ chosen'[t] = chosen[t] \cup {k} /\ UNCHANGED <<put[t], load[t]>>
    BY <1>1, <1>2, <1>3, <1>4 DEF PrefTyped
  <2>2. opts[k] # put[t].opts[k]
    <3>1. put[t].opts[k] \in Nat /\ put[t].opts[k] <= strokes + 1
      BY <1>1 DEF ValuesOld, Old, PrefTyped, PutRow, KnobValues
    <3>2. QED
      BY <1>1, <1>4, <3>1
  <2>3. QED
    BY <1>1, <1>2, <1>4, <2>1, <2>2 DEF PaneFits
<1>9. QED
  BY <1>1, <1>2, <1>3, <1>5, <1>7, <1>8, PaneMoves DEF PrefTyped

\* Steps of the form, and of the names, that change no value that is shown, read or sent, or send what is shown.
LEMMA SaveAiStep ==
  ASSUME PrefInv, NEW t \in Panes, SaveAi(t) \/ AiSaved(t) \/ AiFails(t)
  PROVE  PrefInv' /\ SettingsLine
<1>1. PrefTyped /\ ValuesOld /\ PaneFits(t) /\ put[t] \in PutRow /\ strokes \in Nat
  BY DEF PrefInv, PrefTyped
<1>2. /\ UNCHANGED <<knob, kept, pane, load, naming, read, overtaken>>
      /\ (strokes' = strokes \/ strokes' = strokes + 1)
  BY DEF SaveAi, AiSaved, AiFails, Stroke, preferenceStory
<1>3. \A v \in KnobValues : Old(v) => Old(v)'
  BY <1>1, <1>2, ValuesAge DEF Old
<1>4. ASSUME NEW q \in PutRow, put' = [put EXCEPT ![t] = q], Old(q.opts), chosen' \in [Panes -> SUBSET Knobs],
             PaneFits(t)', \A u \in Panes \ {t} : chosen'[u] = chosen[u]
      PROVE  PrefInv' /\ SettingsLine
  <2>1. PrefTyped'
    BY <1>1, <1>2, <1>4 DEF PrefTyped
  <2>2. q.opts \in KnobValues /\ knob \in KnobValues
        /\ \A u \in Panes : pane[u].opts \in KnobValues /\ load[u].rows \in KnobValues /\ put[u].opts \in KnobValues
    BY <1>1 DEF PrefTyped, PaneRow, PutRow, KnobLoadRow
  <2>3. \A u \in Panes : put'[u].opts \in {put[u].opts, q.opts}
    BY <1>1, <1>4 DEF PrefTyped
  <2>4. \A u \in Panes : Old(put[u].opts)'
    BY <1>1, <1>3, <1>4, <2>2, <2>3 DEF ValuesOld
  <2>5. Old(knob)' /\ \A u \in Panes : Old(pane[u].opts)' /\ Old(load[u].rows)'
    BY <1>1, <1>2, <1>3, <2>2 DEF ValuesOld
  <2>6. ValuesOld'
    BY <2>4, <2>5 DEF ValuesOld
  <2>7. QED
    BY <1>1, <1>2, <1>4, <2>1, <2>6, PaneMoves DEF PrefTyped
<1>5. CASE SaveAi(t)
  <2> DEFINE q == [pc |-> "sent", opts |-> pane[t].opts, chosen |-> chosen[t], blind |-> t \notin read]
  <2>1. put' = [put EXCEPT ![t] = q] /\ chosen' = chosen /\ put[t] = NoPut
    BY <1>5 DEF SaveAi, preferenceStory
  <2>2. pane[t].opts \in KnobValues /\ chosen[t] \in SUBSET Knobs
    BY <1>1 DEF PrefTyped, PaneRow
  <2>3. q \in PutRow /\ put'[t] = q /\ q.opts = pane[t].opts /\ q.chosen = chosen[t] /\ q.pc = "sent"
        /\ (q.blind <=> t \notin read)
    BY <1>1, <2>1, <2>2 DEF PutRow, PrefTyped
  <2>4. PaneFits(t)'
    BY <1>1, <1>2, <2>1, <2>3 DEF PaneFits
  <2>5. QED
    BY <1>1, <1>4, <2>1, <2>3, <2>4 DEF ValuesOld, PrefTyped
<1>6. CASE AiFails(t)
  <2>1. put' = [put EXCEPT ![t] = NoPut] /\ chosen' = chosen
    BY <1>6 DEF AiFails, preferenceStory
  <2>2. PaneFits(t)'
    BY <1>1, <1>2, <2>1, NoPaneFits DEF PaneFits, PrefTyped
  <2>3. QED
    BY <1>1, <1>4, <2>1, <2>2, NoPaneFits, UnansweredOld DEF PrefTyped
<1>7. CASE AiSaved(t)
  <2> DEFINE amended == {k \in Knobs : pane[t].opts[k] # put[t].opts[k]}
  <2>1. put[t].pc = "served" /\ put' = [put EXCEPT ![t] = NoPut] /\ chosen' = [chosen EXCEPT ![t] = amended]
    BY <1>7 DEF AiSaved
  <2>2. /\ chosen' \in [Panes -> SUBSET Knobs] /\ chosen'[t] = amended /\ put'[t].pc = "idle"
        /\ \A u \in Panes \ {t} : chosen'[u] = chosen[u]
    BY <1>1, <2>1, NoPaneFits DEF PrefTyped
  <2>3. ASSUME t \notin overtaken, t \in read, NEW k \in Knobs, pane[t].opts[k] = put[t].opts[k]
        PROVE  pane[t].opts[k] = knob[k]
    BY <1>1, <2>1, <2>3 DEF PaneFits
  <2>4. PaneFits(t)'
    BY <1>1, <1>2, <2>2, <2>3 DEF PaneFits
  <2>5. QED
    BY <1>1, <1>4, <2>1, <2>2, <2>4, NoPaneFits, UnansweredOld DEF PrefTyped
<1>8. QED
  BY <1>5, <1>6, <1>7

\* The save itself.
LEMMA ServeAiStep ==
  ASSUME PrefInv, NEW t \in Panes, ServeAi(t)
  PROVE  PrefInv' /\ SettingsLine
<1> DEFINE q == [put[t] EXCEPT !.pc = "served"]
<1>1. PrefTyped /\ ValuesOld /\ PaneFits(t) /\ put[t] \in PutRow
  BY DEF PrefInv, PrefTyped
<1>2. /\ put[t].pc = "sent" /\ knob' = put[t].opts
      /\ overtaken' = IF knob' = knob THEN overtaken
                      ELSE overtaken \cup {u \in Panes : u # t \/ load[u].pc = "read" \/ put[u].blind}
      /\ UNCHANGED <<kept, pane, load, naming, read, chosen, strokes>>
  BY DEF ServeAi
<1>3. /\ put' = [put EXCEPT ![t] = q] /\ q \in PutRow /\ q.pc = "served" /\ q.opts = put[t].opts
      /\ q.chosen = put[t].chosen /\ q.blind = put[t].blind
  <2>1. put' = [put EXCEPT ![t] = q]
    BY <1>1 DEF ServeAi, PutRow, PrefTyped
  <2>2. QED
    BY <1>1, <2>1 DEF PutRow
<1>4. PrefTyped'
  BY <1>1, <1>2, <1>3 DEF PrefTyped, PutRow
<1>5. ValuesOld'
  <2>1. \A v : Old(v) => Old(v)'
    BY <1>2 DEF Old
  <2>2. \A u \in Panes : put'[u].opts = put[u].opts
    BY <1>1, <1>3 DEF PrefTyped
  <2>3. QED
    BY <1>1, <1>2, <2>1, <2>2 DEF ValuesOld
<1>6. put'[t] = q /\ \A u \in Panes \ {t} : put'[u] = put[u]
  BY <1>1, <1>3 DEF PrefTyped
<1>7. PaneFits(t)'
  <2>1. CASE t \in overtaken'
    BY <1>1, <1>2, <1>3, <1>6, <2>1 DEF PaneFits
  <2>2. CASE t \notin overtaken' /\ knob' = knob
    <3>1. t \notin overtaken
      BY <1>2, <2>2
    <3>2. QED
      BY <1>1, <1>2, <1>3, <1>6, <2>2, <3>1 DEF PaneFits
  <2>3. CASE t \notin overtaken' /\ knob' # knob
    <3>1. t \notin overtaken /\ load[t].pc # "read" /\ ~put[t].blind
      BY <1>2, <2>3
    <3>2. t \in read /\ put[t].chosen \subseteq chosen[t] /\ \A k \in Knobs \ put[t].chosen : put[t].opts[k] = knob[k]
      BY <1>1, <1>2, <3>1 DEF PaneFits
    <3>3. \A k \in Knobs \ chosen[t] : pane[t].opts[k] = knob'[k]
      BY <1>1, <1>2, <3>1, <3>2 DEF PaneFits
    <3>4. QED
      BY <1>1, <1>2, <1>3, <1>6, <3>1, <3>2, <3>3 DEF PaneFits
  <2>4. QED
    BY <2>1, <2>2, <2>3
<1>8. ASSUME NEW u \in Panes \ {t} PROVE PaneFits(u)'
  <2>1. PaneFits(u) /\ UNCHANGED <<pane[u], load[u], put[u], chosen[u], read>>
    BY <1>2, <1>6 DEF PrefInv
  <2>2. CASE knob' = knob
    BY <1>2, <2>1, <2>2 DEF PaneFits
  <2>3. CASE knob' # knob
    <3>1. u \in overtaken'
      BY <1>2, <2>3
    <3>2. QED
      BY <2>1, <3>1 DEF PaneFits
  <2>4. QED
    BY <2>2, <2>3
<1>9. SettingsLine
  <2> SUFFICES ASSUME NEW u \in Panes, NEW k \in Knobs, put[u].pc = "sent", put'[u].pc = "served", knob'[k] # knob[k],
                      k \notin put[u].chosen, ~put[u].blind, u \notin overtaken
               PROVE  FALSE
    BY DEF SettingsLine
  <2>1. u = t
    BY <1>6
  <2>2. QED
    BY <1>1, <1>2, <2>1 DEF PaneFits
<1>10. QED
  BY <1>4, <1>5, <1>7, <1>8, <1>9 DEF PrefInv

\* The names, which no setting depends on.
LEMMA NamesStep ==
  ASSUME PrefInv, NEW t \in Panes, NEW c \in Captions,
         TypeName(t, c) \/ SaveName(t, c) \/ ServeName(t, c) \/ NameSaved(t, c) \/ NameFails(t, c)
  PROVE  PrefInv' /\ SettingsLine
<1>1. PrefTyped /\ ValuesOld /\ PaneFits(t) /\ pane[t] \in PaneRow /\ strokes \in Nat /\ naming[t][c] \in NamingRow
  BY DEF PrefInv, PrefTyped
<1>2. /\ UNCHANGED <<knob, load, put, read, overtaken, chosen>> /\ (strokes' = strokes \/ strokes' = strokes + 1)
  BY DEF TypeName, SaveName, ServeName, NameSaved, NameFails, Stroke, formState, preferenceStory
<1>3. \A v \in KnobValues : Old(v) => Old(v)'
  BY <1>1, <1>2, ValuesAge DEF Old
<1>4. SUFFICES ASSUME NEW p \in PaneRow, p.opts = pane[t].opts, pane' = [pane EXCEPT ![t] = p],
                      kept' \in [Captions -> Nat], naming' \in [Panes -> [Captions -> NamingRow]]
               PROVE  PrefInv' /\ SettingsLine
  <2>1. \A q \in NamingRow : [naming EXCEPT ![t][c] = q] \in [Panes -> [Captions -> NamingRow]]
    BY <1>1 DEF PrefTyped
  <2>2. pane = [pane EXCEPT ![t] = pane[t]]
    BY <1>1 DEF PrefTyped
  <2>3. CASE TypeName(t, c)
    <3> DEFINE field == [pane[t].field EXCEPT ![c] = NewValue]
    <3>1. pane' = [pane EXCEPT ![t] = [pane[t] EXCEPT !.field = field]] /\ UNCHANGED <<kept, naming>>
      BY <1>1, <2>3 DEF TypeName, formState, PrefTyped, PaneRow
    <3>2. NewValue \in Nat /\ pane[t].field \in [Captions -> Nat]
      BY <1>1 DEF NewValue, PaneRow
    <3>3. [pane[t] EXCEPT !.field = field] \in PaneRow /\ [pane[t] EXCEPT !.field = field].opts = pane[t].opts
      BY <1>1, <3>2 DEF PaneRow
    <3>4. QED
      BY <1>1, <1>4, <3>1, <3>3 DEF PrefTyped
  <2>4. CASE SaveName(t, c)
    <3> DEFINE q == [pc |-> "sent", value |-> pane[t].field[c]]
    <3>1. naming' = [naming EXCEPT ![t][c] = q] /\ UNCHANGED <<kept, pane>>
      BY <2>4 DEF SaveName
    <3>2. q \in NamingRow
      BY <1>1 DEF PaneRow, NamingRow
    <3>3. QED
      BY <1>1, <1>4, <2>1, <2>2, <3>1, <3>2 DEF PrefTyped
  <2>5. CASE ServeName(t, c)
    <3> DEFINE q == [naming[t][c] EXCEPT !.pc = "served"]
    <3>1. naming' = [naming EXCEPT ![t][c] = q] /\ UNCHANGED <<kept, pane>>
      BY <1>1, <2>5 DEF ServeName, PrefTyped, NamingRow
    <3>2. q \in NamingRow
      BY <1>1 DEF NamingRow
    <3>3. QED
      BY <1>1, <1>4, <2>1, <2>2, <3>1, <3>2 DEF PrefTyped
  <2>6. CASE NameFails(t, c)
    <3>1. naming' = [naming EXCEPT ![t][c] = NoNaming] /\ UNCHANGED <<kept, pane>>
      BY <2>6 DEF NameFails
    <3>2. QED
      BY <1>1, <1>4, <2>1, <2>2, <3>1, NoPaneFits DEF PrefTyped
  <2>7. CASE NameSaved(t, c)
    <3> DEFINE user == [pane[t].known EXCEPT ![c] = naming[t][c].value]
    <3>1. /\ naming' = [naming EXCEPT ![t][c] = NoNaming] /\ kept' = user
          /\ pane' = [pane EXCEPT ![t] = [pane[t] EXCEPT !.known = user, !.field = user]]
      BY <1>1, <2>7 DEF NameSaved, PrefTyped, PaneRow
    <3>2. user \in [Captions -> Nat]
      BY <1>1 DEF PaneRow, NamingRow
    <3>3. /\ [pane[t] EXCEPT !.known = user, !.field = user] \in PaneRow
          /\ [pane[t] EXCEPT !.known = user, !.field = user].opts = pane[t].opts
      BY <1>1, <3>2 DEF PaneRow
    <3>4. QED
      BY <1>4, <2>1, <3>1, <3>2, <3>3, NoPaneFits
  <2>8. QED
    BY <2>3, <2>4, <2>5, <2>6, <2>7
<1>5. PrefTyped'
  BY <1>1, <1>2, <1>4 DEF PrefTyped
<1>6. \A u \in Panes : pane'[u].opts = pane[u].opts
  BY <1>1, <1>4 DEF PrefTyped
<1>7. ValuesOld'
  <2>1. knob \in KnobValues
        /\ \A u \in Panes : pane[u].opts \in KnobValues /\ load[u].rows \in KnobValues /\ put[u].opts \in KnobValues
    BY <1>1 DEF PrefTyped, PaneRow, PutRow, KnobLoadRow
  <2>2. Old(knob)' /\ \A u \in Panes : Old(put[u].opts)' /\ Old(load[u].rows)'
    BY <1>1, <1>2, <1>3, <2>1 DEF ValuesOld
  <2>3. \A u \in Panes : Old(pane[u].opts)'
    BY <1>1, <1>3, <1>6, <2>1 DEF ValuesOld
  <2>4. QED
    BY <2>2, <2>3 DEF ValuesOld
<1>8. PaneFits(t)'
  BY <1>1, <1>2, <1>6 DEF PaneFits
<1>9. QED
  BY <1>1, <1>2, <1>4, <1>5, <1>7, <1>8, PaneMoves DEF PrefTyped

LEMMA PrefStep ==
  ASSUME PrefInv, [PreferencesNext]_preferenceVars
  PROVE  PrefInv' /\ (SettingsLine \/ UNCHANGED preferenceVars)
<1>1. CASE UNCHANGED preferenceVars
  BY <1>1 DEF preferenceVars, formState, preferenceStory, PrefInv, PrefTyped, ValuesOld, Old, PaneFits
<1>2. CASE PreferencesNext
  BY <1>2, OpenPaneStep, ReadKnobsStep, ChooseStep, SaveAiStep, ServeAiStep, NamesStep DEF PreferencesNext
<1>3. QED
  BY <1>1, <1>2

-----------------------------------------------------------------------------
(* FlowEditor: which drawing a save writes.                                   *)

FlowRow == [state : {"none", "kept", "deleted"}, graph : Graphs, drawing : Nat]
TabRow == [shown : {"list", "canvas"}, id : Flows \cup {NoFlow}, graph : Graphs, from : Handles \cup {NoHandle},
           drawing : Nat, clean : BOOLEAN, waits : BOOLEAN, latest : BOOLEAN]
FlowCallRow == [pc : {"idle", "post", "put", "posted", "stored", "failed", "asked", "answered"},
                id : Flows \cup {NoFlow}, graph : Graphs, drawing : Nat, latest : BOOLEAN]

EditorTyped ==
    /\ flow \in [Flows -> FlowRow] /\ tab \in [Editors -> TabRow] /\ begun \in Nat
    /\ saving \in [Editors -> FlowCallRow] /\ opening \in [Editors -> FlowCallRow]

\* Flow f was made, and it is drawing d unless it was given to a tab that showed another by then.
Holds(f, d) == f \in Flows /\ flow[f].state # "none" /\ (f \in crossed \/ flow[f].drawing = d)

\* A tab, a save and an answer that name a flow have its drawing, and a tab that waits for its save has what it sent.
TabHolds(e) ==
    /\ tab[e].id # NoFlow => Holds(tab[e].id, tab[e].drawing)
    /\ saving[e].pc \in {"put", "posted", "stored"} => Holds(saving[e].id, saving[e].drawing)
    /\ opening[e].pc # "idle" => Holds(opening[e].id, flow[opening[e].id].drawing)
    /\ opening[e].pc = "answered" => Holds(opening[e].id, opening[e].drawing)
    /\ tab[e].waits => saving[e].pc \in {"post", "put", "posted", "stored", "failed"}
                       /\ tab[e].drawing = saving[e].drawing

DrawingInv == EditorTyped /\ \A e \in Editors : TabHolds(e)

FlowLine == \A f \in Flows \ crossed' : f \in Kept /\ f \in Kept' => flow'[f].drawing = flow[f].drawing

LEMMA NoGraphFits ==
  NoGraph \in Graphs /\ NoRow \in FlowRow /\ NoRequestTo \in FlowCallRow /\ List \in TabRow
<1>1. NoGraph \in Graphs
  BY DEF NoGraph, Graphs
<1>2. QED
  BY <1>1 DEF NoRow, FlowRow, NoRequestTo, FlowCallRow, List, TabRow

LEMMA DrawingInit == EditorInit => DrawingInv
<1>1. SUFFICES ASSUME EditorInit PROVE DrawingInv
  OBVIOUS
<1>2. /\ flow = [f \in Flows |-> NoRow] /\ tab = [e \in Editors |-> List] /\ begun = 0
      /\ saving = [e \in Editors |-> NoRequestTo] /\ opening = [e \in Editors |-> NoRequestTo]
  BY <1>1 DEF EditorInit
<1>3. EditorTyped
  BY <1>2, NoGraphFits DEF EditorTyped
<1>4. List.id = NoFlow /\ ~List.waits /\ NoRequestTo.pc = "idle"
  BY DEF List, NoRequestTo
<1>5. \A e \in Editors : TabHolds(e)
  BY <1>2, <1>4 DEF TabHolds
<1>6. QED
  BY <1>3, <1>5 DEF DrawingInv

\* What is drawn is a graph.
LEMMA Payloads ==
  ASSUME NEW g \in Graphs
  PROVE  Payload(g) \in Graphs
<1>1. g.nodes \subseteq Nodes /\ g.conns \subseteq [from : Nodes, branch : {"yes", "no", "next"}, to : Steps]
  BY DEF Graphs
<1>2. \A n, branch : First(g, n, branch) \subseteq g.conns
  <2> SUFFICES ASSUME NEW n, NEW branch PROVE First(g, n, branch) \subseteq g.conns
    OBVIOUS
  <2> DEFINE found == {c \in g.conns : c.from = n /\ c.branch = branch}
  <2>1. CASE found = {}
    BY <2>1 DEF First
  <2>2. CASE found # {}
    <3>1. (CHOOSE c \in found : TRUE) \in found
      BY <2>2
    <3>2. First(g, n, branch) = {CHOOSE c \in found : TRUE}
      BY <2>2 DEF First
    <3>3. QED
      BY <3>1, <3>2
  <2>3. QED
    BY <2>1, <2>2
<1>3. UNION {First(g, h[1], h[2]) : h \in {x \in Handles : x[1] \in g.nodes}} \subseteq g.conns
  BY <1>2
<1>4. QED
  BY <1>1, <1>3 DEF Payload, Graphs

\* Flows only get on, and keep their drawings.
FlowsOn ==
    /\ crossed \subseteq crossed'
    /\ \A f \in Flows : flow[f].state # "none" =>
          flow'[f].state # "none" /\ (f \in crossed' \/ flow'[f].drawing = flow[f].drawing)

HeldOn(f, d) == f \in Flows /\ flow'[f].state # "none" /\ (f \in crossed' \/ flow'[f].drawing = d)

LEMMA HoldsOn ==
  ASSUME FlowsOn, NEW f, NEW d, Holds(f, d)
  PROVE  Holds(f, d)'
BY DEF FlowsOn, Holds

\* A tab of which only what no drawing depends on is changed.
SameCall(p, q) == q.pc = p.pc /\ q.id = p.id /\ q.drawing = p.drawing
LEMMA TabStays ==
  ASSUME FlowsOn, NEW e \in Editors, TabHolds(e), tab'[e].id = tab[e].id, tab'[e].drawing = tab[e].drawing,
         tab'[e].waits => tab[e].waits, SameCall(saving[e], saving'[e]), SameCall(opening[e], opening'[e])
  PROVE  TabHolds(e)'
<1>1. tab[e].id # NoFlow => Holds(tab[e].id, tab[e].drawing)'
  BY HoldsOn DEF TabHolds
<1>2. saving[e].pc \in {"put", "posted", "stored"} => Holds(saving[e].id, saving[e].drawing)'
  BY HoldsOn DEF TabHolds, SameCall
<1>3. opening[e].pc # "idle" => Holds(opening[e].id, flow[opening[e].id].drawing)'
  BY DEF TabHolds, SameCall, Holds, FlowsOn
<1>4. opening[e].pc = "answered" => Holds(opening[e].id, opening[e].drawing)'
  BY HoldsOn DEF TabHolds, SameCall
<1>5. QED
  BY <1>1, <1>2, <1>3, <1>4 DEF TabHolds, SameCall

\* Flows that stay as they are.
LEMMA FlowsRest ==
  ASSUME UNCHANGED flow, crossed \subseteq crossed'
  PROVE  FlowsOn /\ FlowLine
BY DEF FlowsOn, FlowLine

\* One tab moves.
LEMMA OneTab ==
  ASSUME DrawingInv, FlowsOn, NEW e \in Editors, EditorTyped', TabHolds(e)',
         \A x \in Editors \ {e} : UNCHANGED <<tab[x], saving[x], opening[x]>>
  PROVE  DrawingInv'
<1>1. \A x \in Editors \ {e} : TabHolds(x)'
  BY TabStays DEF DrawingInv, SameCall
<1>2. QED
  BY <1>1 DEF DrawingInv

\* Drawing changes the graph that a tab shows, and nothing that a drawing is known by.
LEMMA DrawStep ==
  ASSUME DrawingInv, NEW e \in Editors, DrawOn(e)
  PROVE  DrawingInv' /\ FlowLine
<1>1. EditorTyped /\ TabHolds(e) /\ tab[e] \in TabRow /\ tab[e].graph \in Graphs
  BY DEF DrawingInv, EditorTyped, TabRow
<1>2. UNCHANGED <<flow, saving, opening, begun, crossed>>
  BY DEF DrawOn, DropNode, DeleteNode, ClickInput, DeleteConnection, ClickOutput, Draw
<1>3. SUFFICES ASSUME NEW p \in TabRow, tab' = [tab EXCEPT ![e] = p], p.id = tab[e].id, p.drawing = tab[e].drawing,
                      p.waits = tab[e].waits
               PROVE  DrawingInv' /\ FlowLine
  <2>1. ASSUME NEW g \in Graphs, Draw(e, g) PROVE DrawingInv' /\ FlowLine
    <3> DEFINE p == [tab[e] EXCEPT !.graph = g, !.clean = FALSE]
    <3>1. tab' = [tab EXCEPT ![e] = p]
      BY <1>1, <2>1 DEF Draw, EditorTyped, TabRow
    <3>2. p \in TabRow /\ p.id = tab[e].id /\ p.drawing = tab[e].drawing /\ p.waits = tab[e].waits
      BY <1>1 DEF TabRow
    <3>3. QED
      BY <1>3, <3>1, <3>2
  <2>2. tab[e].graph.nodes \subseteq Nodes
        /\ tab[e].graph.conns \subseteq [from : Nodes, branch : {"yes", "no", "next"}, to : Steps]
    BY <1>1 DEF Graphs
  <2>3. ASSUME NEW n \in Nodes, DropNode(e, n) PROVE DrawingInv' /\ FlowLine
    <3> DEFINE g == [tab[e].graph EXCEPT !.nodes = @ \cup {n}]
    <3>1. g \in Graphs
      BY <1>1, <2>2 DEF Graphs
    <3>2. QED
      BY <2>1, <2>3, <3>1 DEF DropNode
  <2>4. ASSUME NEW n \in Nodes, DeleteNode(e, n) PROVE DrawingInv' /\ FlowLine
    <3> DEFINE g == [nodes |-> tab[e].graph.nodes \ {n},
                     conns |-> {c \in tab[e].graph.conns : c.from # n /\ c.to # n}]
    <3>1. g \in Graphs
      BY <1>1, <2>2 DEF Graphs
    <3>2. QED
      BY <2>1, <2>4, <3>1 DEF DeleteNode
  <2>5. ASSUME NEW c, DeleteConnection(e, c) PROVE DrawingInv' /\ FlowLine
    <3> DEFINE g == [tab[e].graph EXCEPT !.conns = @ \ {c}]
    <3>1. g \in Graphs
      BY <1>1, <2>2 DEF Graphs
    <3>2. QED
      BY <2>1, <2>5, <3>1 DEF DeleteConnection
  <2>6. ASSUME NEW h \in Handles, ClickOutput(e, h) PROVE DrawingInv' /\ FlowLine
    <3> DEFINE p == [tab[e] EXCEPT !.from = h]
    <3>1. tab' = [tab EXCEPT ![e] = p]
      BY <1>1, <2>6 DEF ClickOutput, EditorTyped, TabRow
    <3>2. p \in TabRow /\ p.id = tab[e].id /\ p.drawing = tab[e].drawing /\ p.waits = tab[e].waits
      BY <1>1 DEF TabRow
    <3>3. QED
      BY <1>3, <3>1, <3>2
  <2>7. ASSUME NEW to \in Nodes, ClickInput(e, to) PROVE DrawingInv' /\ FlowLine
    <3> DEFINE h == tab[e].from
               others == {c \in tab[e].graph.conns : ~(c.from = h[1] /\ c.branch = h[2])}
               conns == IF h[1] = to THEN tab[e].graph.conns ELSE others \cup {Conn(h[1], h[2], to)}
               g == [tab[e].graph EXCEPT !.conns = conns]
               p == [tab[e] EXCEPT !.from = NoHandle, !.graph = g, !.clean = @ /\ h[1] = to]
    <3>1. to \in Steps /\ h \in Handles
      BY <1>1, <2>7 DEF ClickInput, TabRow
    <3>2. h[1] \in Nodes /\ h[2] \in {"yes", "no", "next"}
      BY <3>1 DEF Handles
    <3>3. Conn(h[1], h[2], to) \in [from : Nodes, branch : {"yes", "no", "next"}, to : Steps]
      BY <3>1, <3>2 DEF Conn
    <3>4. conns \subseteq [from : Nodes, branch : {"yes", "no", "next"}, to : Steps]
      BY <2>2, <3>3
    <3>5. g \in Graphs
      BY <1>1, <3>4 DEF Graphs
    <3>6. p \in TabRow /\ p.id = tab[e].id /\ p.drawing = tab[e].drawing /\ p.waits = tab[e].waits
      BY <1>1, <3>5 DEF TabRow
    <3>7. tab' = [tab EXCEPT ![e] = p]
      <4>1. tab' = [tab EXCEPT ![e].from = NoHandle, ![e].graph.conns = conns, ![e].clean = @ /\ h[1] = to]
        BY <2>7 DEF ClickInput
      <4>2. QED
        BY <1>1, <4>1 DEF EditorTyped, TabRow, Graphs
    <3>8. QED
      BY <1>3, <3>6, <3>7
  <2>8. QED
    BY <2>3, <2>4, <2>5, <2>6, <2>7 DEF DrawOn
<1>4. EditorTyped' /\ tab'[e] = p /\ \A x \in Editors \ {e} : UNCHANGED <<tab[x], saving[x], opening[x]>>
  BY <1>1, <1>2, <1>3 DEF EditorTyped
<1>5. FlowsOn /\ FlowLine
  BY <1>2, FlowsRest
<1>6. TabHolds(e)'
  BY <1>1, <1>2, <1>3, <1>4, <1>5, TabStays DEF SameCall
<1>7. QED
  BY <1>4, <1>5, <1>6, OneTab

\* A drawing is begun, a flow opened, the list shown.
LEMMA OpenFlowStep ==
  ASSUME DrawingInv, NEW e \in Editors,
         \/ \E t, n \in Nodes : CreateNewFlow(e, t, n)
         \/ \E f \in Flows : EditFlow(e, f)
         \/ GetFlow(e) \/ ShowFlow(e) \/ GoBack(e)
  PROVE  DrawingInv' /\ FlowLine
<1>1. EditorTyped /\ TabHolds(e) /\ tab[e] \in TabRow /\ opening[e] \in FlowCallRow
  BY DEF DrawingInv, EditorTyped
<1>2. UNCHANGED <<flow, saving, crossed>>
  BY DEF CreateNewFlow, BeginFlow, EditFlow, GetFlow, ShowFlow, GoBack
<1>3. FlowsOn /\ FlowLine /\ \A f, d : Holds(f, d) => Holds(f, d)'
  BY <1>2, FlowsRest DEF Holds
<1>4. ASSUME NEW p \in TabRow, NEW q \in FlowCallRow, tab' = [tab EXCEPT ![e] = p],
             opening' = [opening EXCEPT ![e] = q], begun' \in Nat,
             p.id # NoFlow => Holds(p.id, p.drawing),
             p.waits => tab[e].waits /\ p.drawing = tab[e].drawing,
             q.pc # "idle" => Holds(q.id, flow[q.id].drawing),
             q.pc = "answered" => Holds(q.id, q.drawing)
      PROVE  DrawingInv' /\ FlowLine
  <2>1. /\ EditorTyped' /\ tab'[e] = p /\ opening'[e] = q
        /\ \A x \in Editors \ {e} : UNCHANGED <<tab[x], saving[x], opening[x]>>
    BY <1>1, <1>2, <1>4 DEF EditorTyped
  <2>2. TabHolds(e)'
    BY <1>1, <1>2, <1>4, <2>1 DEF TabHolds, Holds
  <2>3. QED
    BY <1>3, <2>1, <2>2, OneTab
<1>5. tab = [tab EXCEPT ![e] = tab[e]] /\ opening = [opening EXCEPT ![e] = opening[e]] /\ begun \in Nat
  BY <1>1 DEF EditorTyped
<1>6. NoRequestTo \in FlowCallRow /\ NoRequestTo.pc = "idle"
  BY NoGraphFits DEF NoRequestTo
<1>7. ASSUME NEW t \in Nodes, NEW n \in Nodes, CreateNewFlow(e, t, n) PROVE DrawingInv' /\ FlowLine
  <2> DEFINE g == [nodes |-> {t, n}, conns |-> {Conn(t, "next", n)}]
             p == [List EXCEPT !.shown = "canvas", !.id = NoFlow, !.from = tab[e].from, !.graph = g,
                               !.drawing = begun + 1]
  <2>1. /\ tab' = [tab EXCEPT ![e] = p] /\ opening' = opening /\ begun' = begun + 1 /\ n \in Steps
    BY <1>7 DEF CreateNewFlow, BeginFlow
  <2>2. g \in Graphs
    BY <2>1 DEF Graphs, Conn
  <2>3. p \in TabRow /\ p.id = NoFlow /\ ~p.waits
    <3>1. tab[e].from \in Handles \cup {NoHandle} /\ begun + 1 \in Nat
      BY <1>1, <1>5 DEF TabRow
    <3>2. List \in TabRow /\ ~List.waits
      BY NoGraphFits DEF List
    <3>3. QED
      BY <2>2, <3>1, <3>2 DEF TabRow
  <2>4. begun' \in Nat
    BY <1>5, <2>1
  <2>5. QED
    BY <1>1, <1>4, <1>5, <2>1, <2>3, <2>4 DEF TabHolds
<1>8. ASSUME NEW f \in Flows, EditFlow(e, f) PROVE DrawingInv' /\ FlowLine
  <2> DEFINE q == [NoRequestTo EXCEPT !.pc = "asked", !.id = f]
  <2>1. tab' = tab /\ opening' = [opening EXCEPT ![e] = q] /\ begun' = begun /\ flow[f].state # "none"
    BY <1>8 DEF EditFlow, Kept
  <2>2. q \in FlowCallRow /\ q.pc = "asked" /\ q.id = f
    BY NoGraphFits DEF FlowCallRow, NoRequestTo
  <2>3. Holds(q.id, flow[q.id].drawing)
    BY <2>1, <2>2 DEF Holds
  <2>4. QED
    BY <1>1, <1>4, <1>5, <2>1, <2>2, <2>3 DEF TabHolds
<1>9. CASE GetFlow(e)
  <2> DEFINE f == opening[e].id
             row == flow[f]
             q == [pc |-> "answered", id |-> f, graph |-> row.graph, drawing |-> row.drawing, latest |-> TRUE]
  <2>1. /\ tab' = tab /\ begun' = begun /\ opening[e].pc = "asked"
        /\ opening' = [opening EXCEPT ![e] = IF row.state # "kept" THEN NoRequestTo ELSE q]
    BY <1>9 DEF GetFlow
  <2>2. Holds(f, row.drawing) /\ row \in FlowRow /\ f \in Flows
    BY <1>1, <2>1 DEF TabHolds, Holds, EditorTyped
  <2>3. q \in FlowCallRow /\ q.id = f /\ q.drawing = row.drawing
    BY <2>2 DEF FlowCallRow, FlowRow
  <2>4. CASE row.state # "kept"
    BY <1>1, <1>4, <1>5, <1>6, <2>1, <2>4 DEF TabHolds
  <2>5. CASE row.state = "kept"
    BY <1>1, <1>4, <1>5, <2>1, <2>2, <2>3, <2>5 DEF TabHolds
  <2>6. QED
    BY <2>4, <2>5
<1>10. CASE ShowFlow(e)
  <2> DEFINE p == [shown |-> "canvas", id |-> opening[e].id, graph |-> opening[e].graph,
                   from |-> tab[e].from, drawing |-> opening[e].drawing,
                   clean |-> TRUE, waits |-> FALSE, latest |-> opening[e].latest]
  <2>1. /\ tab' = [tab EXCEPT ![e] = p] /\ opening' = [opening EXCEPT ![e] = NoRequestTo] /\ begun' = begun
        /\ opening[e].pc = "answered"
    BY <1>10 DEF ShowFlow
  <2>2. p \in TabRow /\ p.id = opening[e].id /\ p.drawing = opening[e].drawing /\ ~p.waits
    BY <1>1 DEF TabRow, FlowCallRow
  <2>3. Holds(p.id, p.drawing)
    BY <1>1, <2>1, <2>2 DEF TabHolds
  <2>4. QED
    BY <1>4, <1>5, <1>6, <2>1, <2>2, <2>3
<1>11. CASE GoBack(e)
  <2> DEFINE p == [tab[e] EXCEPT !.shown = "list"]
  <2>1. tab' = [tab EXCEPT ![e] = p] /\ opening' = opening /\ begun' = begun
    BY <1>1, <1>11 DEF GoBack, EditorTyped, TabRow
  <2>2. p \in TabRow /\ p.id = tab[e].id /\ p.drawing = tab[e].drawing /\ p.waits = tab[e].waits
    BY <1>1 DEF TabRow
  <2>3. QED
    BY <1>1, <1>4, <1>5, <2>1, <2>2 DEF TabHolds
<1>12. QED
  BY <1>7, <1>8, <1>9, <1>10, <1>11

\* A save is sent, answered, refused or lost.
LEMMA SaveFlowStep ==
  ASSUME DrawingInv, NEW e \in Editors, SaveFlow(e) \/ Posted(e) \/ Stored(e) \/ SaveFailed(e)
  PROVE  DrawingInv' /\ FlowLine
<1>1. EditorTyped /\ TabHolds(e) /\ tab[e] \in TabRow /\ saving[e] \in FlowCallRow /\ begun \in Nat
  BY DEF DrawingInv, EditorTyped
<1>2. UNCHANGED <<flow, opening, begun>> /\ crossed \subseteq crossed'
  BY DEF SaveFlow, Posted, Stored, SaveFailed
<1>3. FlowsOn /\ FlowLine /\ \A f, d : Holds(f, d) => HeldOn(f, d)
  BY <1>2, FlowsRest DEF FlowsOn, Holds, HeldOn
<1>4. ASSUME NEW p \in TabRow, NEW q \in FlowCallRow, tab' = [tab EXCEPT ![e] = p],
             saving' = [saving EXCEPT ![e] = q],
             p.id # NoFlow => HeldOn(p.id, p.drawing),
             q.pc \in {"put", "posted", "stored"} => HeldOn(q.id, q.drawing),
             p.waits => q.pc \in {"post", "put", "posted", "stored", "failed"} /\ p.drawing = q.drawing
      PROVE  DrawingInv' /\ FlowLine
  <2>1. /\ EditorTyped' /\ tab'[e] = p /\ saving'[e] = q
        /\ \A x \in Editors \ {e} : UNCHANGED <<tab[x], saving[x], opening[x]>>
    BY <1>1, <1>2, <1>4 DEF EditorTyped
  <2>2. opening[e].pc # "idle" => HeldOn(opening[e].id, flow[opening[e].id].drawing)
    BY <1>1, <1>2, <1>3 DEF TabHolds
  <2>3. TabHolds(e)'
    BY <1>1, <1>2, <1>3, <1>4, <2>1, <2>2 DEF TabHolds, Holds, HeldOn
  <2>4. QED
    BY <1>3, <2>1, <2>3, OneTab
<1>5. NoRequestTo \in FlowCallRow /\ NoRequestTo.pc = "idle"
  BY NoGraphFits DEF NoRequestTo
<1>6. CASE SaveFlow(e)
  <2> DEFINE p == [tab[e] EXCEPT !.clean = TRUE, !.waits = TRUE]
             pc == IF tab[e].id = NoFlow THEN "post" ELSE "put"
             q == [NoRequestTo EXCEPT !.pc = pc, !.id = tab[e].id, !.graph = Payload(tab[e].graph),
                                      !.drawing = tab[e].drawing]
  <2>1. tab' = [tab EXCEPT ![e] = p] /\ saving' = [saving EXCEPT ![e] = q]
    BY <1>1, <1>6 DEF SaveFlow, EditorTyped, TabRow
  <2>2. tab[e].graph \in Graphs /\ tab[e].id \in Flows \cup {NoFlow} /\ tab[e].drawing \in Nat
    BY <1>1 DEF TabRow
  <2>3. p \in TabRow /\ p.id = tab[e].id /\ p.drawing = tab[e].drawing
    BY <1>1 DEF TabRow
  <2>4. pc \in {"post", "put"} /\ (pc = "put" => tab[e].id # NoFlow)
    OBVIOUS
  <2>5. q \in FlowCallRow
    BY <2>2, <2>4, Payloads, NoGraphFits DEF FlowCallRow
  <2>6. q.pc = pc /\ q.drawing = tab[e].drawing /\ q.id = tab[e].id
    BY NoGraphFits DEF FlowCallRow
  <2>7. tab[e].id # NoFlow => HeldOn(tab[e].id, tab[e].drawing)
    BY <1>1, <1>3 DEF TabHolds
  <2>8. QED
    BY <1>4, <2>1, <2>3, <2>4, <2>5, <2>6, <2>7
<1>7. CASE Posted(e)
  <2> DEFINE p == [tab[e] EXCEPT !.id = saving[e].id, !.waits = FALSE,
                                 !.latest = IF tab[e].waits THEN saving[e].latest ELSE @]
  <2>1. /\ tab' = [tab EXCEPT ![e] = p] /\ saving' = [saving EXCEPT ![e] = NoRequestTo]
        /\ saving[e].pc = "posted" /\ (tab[e].waits \/ saving[e].id \in crossed')
    BY <1>1, <1>7 DEF Posted, EditorTyped, TabRow
  <2>2. p \in TabRow /\ p.id = saving[e].id /\ p.drawing = tab[e].drawing /\ ~p.waits
    BY <1>1 DEF TabRow, FlowCallRow
  <2>3. HeldOn(saving[e].id, saving[e].drawing) /\ (tab[e].waits => tab[e].drawing = saving[e].drawing)
    BY <1>1, <1>3, <2>1 DEF TabHolds
  <2>4. p.id # NoFlow => HeldOn(p.id, p.drawing)
    <3>1. CASE tab[e].waits
      BY <2>2, <2>3, <3>1
    <3>2. CASE saving[e].id \in crossed'
      BY <1>1, <1>3, <2>1, <2>2, <3>2 DEF TabHolds, Holds, HeldOn, FlowsOn
    <3>3. QED
      BY <2>1, <3>1, <3>2
  <2>5. QED
    BY <1>4, <1>5, <2>1, <2>2, <2>4
<1>8. CASE Stored(e)
  <2> DEFINE p == [tab[e] EXCEPT !.waits = FALSE, !.latest = IF tab[e].waits THEN saving[e].latest ELSE @]
  <2>1. tab' = [tab EXCEPT ![e] = p] /\ saving' = [saving EXCEPT ![e] = NoRequestTo]
    BY <1>1, <1>8 DEF Stored, EditorTyped, TabRow
  <2>2. p \in TabRow /\ p.id = tab[e].id /\ p.drawing = tab[e].drawing /\ ~p.waits
    BY <1>1 DEF TabRow, FlowCallRow
  <2>3. tab[e].id # NoFlow => HeldOn(tab[e].id, tab[e].drawing)
    BY <1>1, <1>3 DEF TabHolds
  <2>4. QED
    BY <1>4, <1>5, <2>1, <2>2, <2>3
<1>9. CASE SaveFailed(e)
  <2> DEFINE p == [tab[e] EXCEPT !.clean = @ /\ ~tab[e].waits, !.waits = FALSE]
  <2>1. tab' = [tab EXCEPT ![e] = p] /\ saving' = [saving EXCEPT ![e] = NoRequestTo]
    BY <1>1, <1>9 DEF SaveFailed, EditorTyped, TabRow
  <2>2. p \in TabRow /\ p.id = tab[e].id /\ p.drawing = tab[e].drawing /\ ~p.waits
    BY <1>1 DEF TabRow
  <2>3. tab[e].id # NoFlow => HeldOn(tab[e].id, tab[e].drawing)
    BY <1>1, <1>3 DEF TabHolds
  <2>4. QED
    BY <1>4, <1>5, <2>1, <2>2, <2>3
<1>10. QED
  BY <1>6, <1>7, <1>8, <1>9

\* The service writes a flow: a row that was never made, or the one that the save names.
LEMMA WriteFlowStep ==
  ASSUME DrawingInv, NEW e \in Editors, NEW f \in Flows, NEW pc \in {"posted", "stored"}, Write(e, f, pc),
         UNCHANGED <<begun, crossed>>, saving[e].pc # "idle",
         flow[f].state = "none" \/ Holds(f, saving[e].drawing)
  PROVE  DrawingInv' /\ FlowLine
<1>1. /\ EditorTyped /\ \A x \in Editors : TabHolds(x)
      /\ saving[e] \in FlowCallRow
  BY DEF DrawingInv, EditorTyped
<1> DEFINE row == [state |-> "kept", graph |-> saving[e].graph, drawing |-> saving[e].drawing]
           q == [saving[e] EXCEPT !.pc = pc, !.id = f, !.latest = TRUE]
<1>2. /\ flow' = [flow EXCEPT ![f] = row]
      /\ saving' = [x \in Editors |-> IF x = e THEN q ELSE Outdated(saving[x], f)]
      /\ tab' = [x \in Editors |-> Outdated(tab[x], f)]
      /\ opening' = [x \in Editors |-> Outdated(opening[x], f)]
  BY DEF Write
<1>3. row \in FlowRow /\ row.state = "kept" /\ row.drawing = saving[e].drawing
  BY <1>1 DEF FlowRow, FlowCallRow
<1>4. q \in FlowCallRow /\ q.pc = pc /\ q.id = f /\ q.drawing = saving[e].drawing
  BY <1>1 DEF FlowCallRow
<1>5. \A r \in TabRow : /\ Outdated(r, f) \in TabRow
                        /\ Outdated(r, f).id = r.id /\ Outdated(r, f).drawing = r.drawing
  BY DEF Outdated, TabRow
<1>6. \A r \in TabRow : Outdated(r, f).waits = r.waits
  BY DEF Outdated, TabRow
<1>7. \A r \in FlowCallRow : Outdated(r, f) \in FlowCallRow /\ SameCall(r, Outdated(r, f))
  BY DEF Outdated, FlowCallRow, SameCall
<1>8. flow'[f] = row /\ (\A x \in Flows \ {f} : flow'[x] = flow[x])
  BY <1>1, <1>2 DEF EditorTyped
<1>9. EditorTyped'
  <2>1. flow' \in [Flows -> FlowRow]
    BY <1>1, <1>2, <1>3 DEF EditorTyped
  <2>2. tab' \in [Editors -> TabRow]
    BY <1>1, <1>2, <1>5 DEF EditorTyped
  <2>3. saving' \in [Editors -> FlowCallRow]
    BY <1>1, <1>2, <1>4, <1>7 DEF EditorTyped
  <2>4. opening' \in [Editors -> FlowCallRow]
    BY <1>1, <1>2, <1>7 DEF EditorTyped
  <2>5. QED
    BY <1>1, <2>1, <2>2, <2>3, <2>4 DEF EditorTyped
<1>10. FlowsOn
  <2>1. f \in crossed \/ flow[f].state = "none" \/ flow[f].drawing = row.drawing
    BY <1>3 DEF Holds
  <2>2. QED
    BY <1>3, <1>8, <2>1 DEF FlowsOn
<1>11. FlowLine
  BY <1>3, <1>8 DEF FlowLine, Holds, Kept
<1>12. \A x \in Editors : UNCHANGED tab[x].waits
  BY <1>1, <1>2, <1>6 DEF EditorTyped
<1>13. \A x \in Editors : /\ tab'[x].id = tab[x].id /\ tab'[x].drawing = tab[x].drawing
                          /\ SameCall(opening[x], opening'[x])
  BY <1>1, <1>2, <1>5, <1>7 DEF EditorTyped
<1>14. \A x \in Editors \ {e} : TabHolds(x)'
  <2> SUFFICES ASSUME NEW x \in Editors \ {e} PROVE TabHolds(x)'
    OBVIOUS
  <2>1. SameCall(saving[x], saving'[x])
    BY <1>1, <1>2, <1>7 DEF EditorTyped
  <2>2. tab'[x].waits => tab[x].waits
    BY <1>12
  <2>3. QED
    BY <1>1, <1>10, <1>13, <2>1, <2>2, TabStays
<1>15. TabHolds(e)'
  <2>1. saving'[e] = q
    BY <1>2
  <2>2. tab[e].id # NoFlow => HeldOn(tab[e].id, tab[e].drawing)
    BY <1>1, <1>10 DEF TabHolds, Holds, HeldOn, FlowsOn
  <2>3. HeldOn(f, saving[e].drawing) /\ saving'[e].id = f /\ saving'[e].drawing = saving[e].drawing
    BY <1>3, <1>4, <1>8, <2>1 DEF HeldOn
  <2>4. opening[e].pc # "idle" => HeldOn(opening[e].id, flow'[opening[e].id].drawing)
    BY <1>1, <1>10 DEF TabHolds, Holds, HeldOn, FlowsOn
  <2>5. opening[e].pc = "answered" => HeldOn(opening[e].id, opening[e].drawing)
    BY <1>1, <1>10 DEF TabHolds, Holds, HeldOn, FlowsOn
  <2>6. tab'[e].waits => tab'[e].drawing = saving'[e].drawing
    <3>1. tab[e].waits => tab[e].drawing = saving[e].drawing
      BY <1>1 DEF TabHolds
    <3>2. QED
      BY <1>4, <1>12, <1>13, <2>1, <3>1
  <2>7. saving'[e].pc \in {"posted", "stored"}
    BY <1>4, <2>1
  <2>8. opening'[e].pc = opening[e].pc
    BY <1>13 DEF SameCall
  <2>9. QED
    BY <1>13, <2>2, <2>3, <2>4, <2>5, <2>6, <2>7, <2>8 DEF TabHolds, Holds, HeldOn, SameCall
<1>16. QED
  BY <1>9, <1>11, <1>14, <1>15 DEF DrawingInv

LEMMA RefuseStep ==
  ASSUME DrawingInv, NEW e \in Editors, RefuseSave(e), UNCHANGED <<begun, crossed>>, saving[e].pc \in {"post", "put"}
  PROVE  DrawingInv' /\ FlowLine
<1>1. EditorTyped /\ TabHolds(e) /\ saving[e] \in FlowCallRow
  BY DEF DrawingInv, EditorTyped
<1> DEFINE q == [saving[e] EXCEPT !.pc = "failed"]
<1>2. UNCHANGED <<flow, tab, opening>> /\ saving' = [saving EXCEPT ![e] = q]
  BY <1>1 DEF RefuseSave
<1>3. q \in FlowCallRow /\ q.pc = "failed" /\ q.drawing = saving[e].drawing
  BY <1>1 DEF FlowCallRow
<1>4. EditorTyped' /\ saving'[e] = q /\ \A x \in Editors \ {e} : UNCHANGED <<tab[x], saving[x], opening[x]>>
  BY <1>1, <1>2, <1>3 DEF EditorTyped
<1>5. FlowsOn /\ FlowLine /\ \A f, d : Holds(f, d) => HeldOn(f, d)
  BY <1>2, FlowsRest DEF Holds, HeldOn
<1>6. opening[e].pc # "idle" => HeldOn(opening[e].id, flow[opening[e].id].drawing)
  BY <1>1, <1>2, <1>5 DEF TabHolds
<1>7. TabHolds(e)'
  BY <1>1, <1>2, <1>3, <1>4, <1>5, <1>6 DEF TabHolds, Holds, HeldOn
<1>8. QED
  BY <1>4, <1>5, <1>7, OneTab

\* Nothing but rows of flows changes, and no drawing of one that was made.
LEMMA OnlyFlows ==
  ASSUME DrawingInv, UNCHANGED <<tab, saving, opening, crossed>>, begun' \in Nat,
         flow' \in [Flows -> FlowRow], FlowsOn
  PROVE  DrawingInv'
<1>1. EditorTyped /\ \A e \in Editors : TabHolds(e)
  BY DEF DrawingInv
<1>2. EditorTyped'
  BY <1>1 DEF EditorTyped
<1>3. \A e \in Editors : TabHolds(e)'
  BY <1>1, TabStays DEF SameCall
<1>4. QED
  BY <1>2, <1>3 DEF DrawingInv

LEMMA DeleteFlowStep ==
  ASSUME DrawingInv, NEW e \in Editors, NEW f \in Flows, DeleteFlow(e, f)
  PROVE  DrawingInv' /\ FlowLine
<1>1. EditorTyped /\ flow[f] \in FlowRow
  BY DEF DrawingInv, EditorTyped
<1> DEFINE row == [flow[f] EXCEPT !.state = "deleted"]
<1>2. UNCHANGED <<tab, saving, opening, begun, crossed>> /\ flow' = [flow EXCEPT ![f] = row]
  BY <1>1 DEF DeleteFlow
<1>3. row \in FlowRow /\ row.state = "deleted" /\ row.drawing = flow[f].drawing
  BY <1>1 DEF FlowRow
<1>4. flow' \in [Flows -> FlowRow] /\ flow'[f] = row /\ \A x \in Flows \ {f} : flow'[x] = flow[x]
  BY <1>1, <1>2, <1>3 DEF EditorTyped
<1>5. FlowsOn /\ FlowLine
  BY <1>2, <1>3, <1>4 DEF FlowsOn, FlowLine
<1>6. begun' \in Nat
  BY <1>1, <1>2 DEF EditorTyped
<1>7. QED
  BY <1>2, <1>4, <1>5, <1>6, OnlyFlows

LEMMA SaveDripStep ==
  ASSUME DrawingInv, NEW e \in Editors, NEW f \in Flows, NEW t \in Triggers, NEW steps \in DripSteps,
         SaveDrip(e, f, t, steps)
  PROVE  DrawingInv' /\ FlowLine
<1>1. EditorTyped /\ begun \in Nat
  BY DEF DrawingInv, EditorTyped
<1> DEFINE conns == {Conn(steps[i], "next", steps[i + 1]) : i \in DOMAIN steps \ {Len(steps)}}
           g == [nodes |-> {t} \cup {steps[i] : i \in DOMAIN steps}, conns |-> conns]
           row == [state |-> "kept", drawing |-> begun + 1, graph |-> g]
<1>2. /\ UNCHANGED <<tab, saving, opening, crossed>> /\ begun' = begun + 1 /\ flow' = [flow EXCEPT ![f] = row]
      /\ flow[f].state = "none"
  BY DEF SaveDrip
<1>3. PICK n \in {1, 3} : steps \in [1..n -> Steps]
  BY DEF DripSteps
<1>4. DOMAIN steps = 1..n /\ Len(steps) = n
  BY <1>3
<1>5. \A i \in 1..n : steps[i] \in Steps /\ steps[i] \in Nodes
  BY <1>3 DEF Steps
<1>6. \A i \in 1..n \ {n} : i + 1 \in 1..n
  BY <1>3
<1>7. conns \subseteq [from : Nodes, branch : {"yes", "no", "next"}, to : Steps]
  BY <1>4, <1>5, <1>6 DEF Conn
<1>8. g \in Graphs
  BY <1>4, <1>5, <1>7, EditorAssumption DEF Graphs
<1>9. row \in FlowRow /\ begun' \in Nat
  BY <1>1, <1>2, <1>8 DEF FlowRow
<1>10. flow' \in [Flows -> FlowRow] /\ flow'[f] = row /\ \A x \in Flows \ {f} : flow'[x] = flow[x]
  BY <1>1, <1>2, <1>9 DEF EditorTyped
<1>11. FlowsOn /\ FlowLine
  BY <1>2, <1>10 DEF FlowsOn, FlowLine, Kept
<1>12. QED
  BY <1>2, <1>9, <1>10, <1>11, OnlyFlows

\* Write's row is new for a POST, and the one that the tab showed for a PUT.
LEMMA DrawingStep ==
  ASSUME DrawingInv, [EditorNext]_editorVars
  PROVE  DrawingInv' /\ (FlowLine \/ UNCHANGED editorVars)
<1>1. CASE EditorNext
  <2>1. PICK e \in Editors :
          \/ DrawOn(e)
          \/ \E t, n \in Nodes : CreateNewFlow(e, t, n)
          \/ \E f \in Flows : EditFlow(e, f) \/ PostFlow(e, f) \/ DeleteFlow(e, f)
          \/ GetFlow(e) \/ ShowFlow(e) \/ GoBack(e)
          \/ SaveFlow(e) \/ PutFlow(e) \/ Posted(e) \/ Stored(e) \/ SaveFailed(e)
          \/ \E f \in Flows, t \in Triggers, s \in DripSteps : SaveDrip(e, f, t, s)
    BY <1>1 DEF EditorNext
  <2>2. TabHolds(e)
    BY DEF DrawingInv
  <2>3. CASE DrawOn(e)
    BY <2>3, DrawStep
  <2>4. CASE \/ \E t, n \in Nodes : CreateNewFlow(e, t, n)
             \/ \E f \in Flows : EditFlow(e, f)
             \/ GetFlow(e) \/ ShowFlow(e) \/ GoBack(e)
    BY <2>4, OpenFlowStep
  <2>5. CASE SaveFlow(e) \/ Posted(e) \/ Stored(e) \/ SaveFailed(e)
    BY <2>5, SaveFlowStep
  <2>6. ASSUME NEW f \in Flows, PostFlow(e, f) PROVE DrawingInv' /\ FlowLine
    <3>1. CASE StepsTaken(saving[e].graph, f)
      BY <2>6, <3>1, RefuseStep DEF PostFlow
    <3>2. CASE ~StepsTaken(saving[e].graph, f)
      BY <2>6, <3>2, WriteFlowStep DEF PostFlow
    <3>3. QED
      BY <3>1, <3>2
  <2>7. CASE PutFlow(e)
    <3> DEFINE f == saving[e].id
    <3>1. Holds(f, saving[e].drawing)
      BY <2>2, <2>7 DEF PutFlow, TabHolds
    <3>2. CASE f \notin Kept \/ StepsTaken(saving[e].graph, f)
      BY <2>7, <3>2, RefuseStep DEF PutFlow
    <3>3. CASE ~(f \notin Kept \/ StepsTaken(saving[e].graph, f))
      <4>1. f \in Flows /\ Write(e, f, "stored") /\ UNCHANGED <<begun, crossed>> /\ saving[e].pc # "idle"
        BY <2>7, <3>1, <3>3 DEF PutFlow, Holds
      <4>2. QED
        BY <3>1, <4>1, WriteFlowStep
    <3>4. QED
      BY <3>2, <3>3
  <2>8. CASE \E f \in Flows : DeleteFlow(e, f)
    BY <2>8, DeleteFlowStep
  <2>9. CASE \E f \in Flows, t \in Triggers, s \in DripSteps : SaveDrip(e, f, t, s)
    BY <2>9, SaveDripStep
  <2>10. QED
    BY <2>1, <2>3, <2>4, <2>5, <2>6, <2>7, <2>8, <2>9
<1>2. CASE UNCHANGED editorVars
  <2>1. UNCHANGED <<flow, tab, saving, opening, begun, crossed>>
    BY <1>2 DEF editorVars
  <2>2. QED
    BY <1>2, <2>1 DEF DrawingInv, EditorTyped, TabHolds, Holds
<1>3. QED
  BY <1>1, <1>2

-----------------------------------------------------------------------------
(* Subscribers: what an edit of tags begins from.                             *)

AskRow == [filter : Tags \cup {Every}, alone : BOOLEAN]
FetchRow == [pc : {"idle", "asked", "answered"}, filter : Tags \cup {Every}, table : SUBSET SubRows,
             about : SUBSET (Subs \cup {NoSub})]
PatchRow == [pc : {"idle", "sent", "stored"}, id : Subs \cup {NoSub}, tags : SUBSET Tags, cut : SUBSET Tags,
             filter : Tags \cup {Every}, inDrawer : BOOLEAN, hasty : BOOLEAN]
DrawerRow == [open : BOOLEAN, id : Subs \cup {NoSub}, tags : SUBSET Tags, sound : BOOLEAN]

SubsTyped ==
    /\ stored \in [Subs -> SUBSET Tags] /\ table \in SUBSET SubRows /\ filter \in Tags \cup {Every}
    /\ fetch \in [Fetches -> FetchRow] /\ patch \in [Fetches -> PatchRow]
    /\ drawer \in DrawerRow /\ ask \in AskRow

\* An edit of c was stored and its answer is not back: what the page shows of c is older.
Unseen(c) == \E k \in Fetches : patch[k].pc = "stored" /\ patch[k].id = c
UpToDate(shownRows, about) == \A r \in shownRows : r.id \in about \/ Unseen(r.id) \/ r.tags = stored[r.id]

\* Edits of one subscriber that meet are hasty; one that is not began from what is stored.
PatchesInv ==
    /\ \A j, k \in Fetches : j # k /\ patch[j].pc # "idle" /\ patch[k].pc # "idle" /\ patch[j].id = patch[k].id
          => patch[j].hasty
    /\ \A k \in Fetches : /\ patch[k].pc # "idle" => patch[k].id \in Subs
                          /\ patch[k].pc = "sent" /\ ~patch[k].hasty
                                => stored[patch[k].id] \ patch[k].tags \subseteq patch[k].cut
                          /\ patch[k].pc = "stored" /\ ~patch[k].hasty => stored[patch[k].id] = patch[k].tags

\* The list, and the answer that will be listed, when no two can cross.
ListInv ==
    ask.alone =>
        /\ \A j, k \in Fetches : fetch[j].pc # "idle" /\ fetch[k].pc # "idle" => j = k
        /\ \A k \in Fetches : fetch[k].pc = "answered" => UpToDate(fetch[k].table, fetch[k].about)
        /\ (\A k \in Fetches : fetch[k].pc = "idle") => UpToDate(table, stale)

\* The drawer, as long as all edits of whom it shows begin there.
DrawerInv ==
    drawer.open =>
        /\ drawer.id \in Subs
        /\ drawer.sound => /\ Unseen(drawer.id) \/ drawer.tags = stored[drawer.id]
                           /\ \A k \in Fetches : patch[k].pc # "idle" /\ patch[k].id = drawer.id => patch[k].inDrawer

TagsInv == SubsTyped /\ PatchesInv /\ ListInv /\ DrawerInv

TagsLine == \A k \in Fetches : patch[k].pc = "sent" /\ patch'[k].pc = "stored" /\ ~patch[k].hasty =>
                stored[patch[k].id] \ stored'[patch[k].id] \subseteq patch[k].cut

LEMMA NothingFits == NoFetch \in FetchRow /\ NoPatch \in PatchRow
BY DEF NoFetch, NoPatch, FetchRow, PatchRow

LEMMA TagsInit == SubsInit => TagsInv
<1>1. SUFFICES ASSUME SubsInit PROVE TagsInv
  OBVIOUS
<1>2. /\ stored = [c \in Subs |-> {}] /\ table = {} /\ filter = Every
      /\ fetch = [k \in Fetches |-> NoFetch] /\ patch = [k \in Fetches |-> NoPatch]
      /\ drawer = [open |-> FALSE, id |-> NoSub, tags |-> {}, sound |-> FALSE]
      /\ ask = [filter |-> Every, alone |-> FALSE]
  BY <1>1 DEF SubsInit, pageList
<1>3. SubsTyped
  BY <1>2, NothingFits DEF SubsTyped, DrawerRow, AskRow
<1>4. NoPatch.pc = "idle"
  BY DEF NoPatch
<1>5. PatchesInv
  BY <1>2, <1>4 DEF PatchesInv
<1>6. ListInv /\ DrawerInv
  BY <1>2 DEF ListInv, DrawerInv
<1>7. QED
  BY <1>3, <1>5, <1>6 DEF TagsInv

\* What edits leave alone.
LEMMA EditsRest ==
  ASSUME TagsInv, UNCHANGED <<stored, patch>>
  PROVE  /\ PatchesInv' /\ TagsLine
         /\ \A c : Unseen(c)' <=> Unseen(c)
         /\ \A shownRows, about : UpToDate(shownRows, about) => UpToDate(shownRows, about)'
         /\ UNCHANGED drawer => DrawerInv'
BY DEF TagsInv, PatchesInv, TagsLine, Unseen, UpToDate, DrawerInv

\* A request for the list that is sent is the only one, or cannot be relied upon.
LEMMA AskedAlone ==
  ASSUME SubsTyped, NEW k \in Fetches, NEW f \in Tags \cup {Every}, FetchSubscribers(k, f)
  PROVE  fetch' \in [Fetches -> FetchRow] /\ ask' \in AskRow /\ ListInv'
<1>1. fetch \in [Fetches -> FetchRow] /\ fetch[k].pc = "idle"
  BY DEF SubsTyped, FetchSubscribers
<1> DEFINE q == [NoFetch EXCEPT !.pc = "asked", !.filter = f]
<1>2. q \in FetchRow /\ q.pc = "asked"
  BY NothingFits DEF FetchRow
<1>3. fetch' = [fetch EXCEPT ![k] = q] /\ ask' = [filter |-> f, alone |-> Fetching = {}]
  BY DEF FetchSubscribers
<1>4. fetch' \in [Fetches -> FetchRow] /\ fetch'[k] = q /\ \A j \in Fetches \ {k} : fetch'[j] = fetch[j]
  BY <1>1, <1>2, <1>3
<1>5. ask' \in AskRow /\ (ask'.alone => Fetching = {})
  BY <1>3 DEF AskRow
<1>6. ask'.alone => \A j \in Fetches \ {k} : fetch'[j].pc = "idle"
  BY <1>4, <1>5 DEF Fetching
<1>7. ListInv'
  BY <1>2, <1>4, <1>6 DEF ListInv
<1>8. QED
  BY <1>4, <1>5, <1>7

LEMMA ListStep ==
  ASSUME TagsInv,
         \/ \E f \in Tags \cup {Every} : SetFilter(f)
         \/ \E k \in Fetches : Debounced(k) \/ FindAll(k) \/ SetSubscribers(k) \/ FetchSubscribersFails(k)
  PROVE  TagsInv' /\ TagsLine
<1>1. SubsTyped /\ ListInv /\ fetch \in [Fetches -> FetchRow] /\ ask \in AskRow
  BY DEF TagsInv, SubsTyped
<1>2. UNCHANGED <<stored, patch, drawer>>
  BY DEF SetFilter, Debounced, FindAll, SetSubscribers, FetchSubscribersFails
<1>3. /\ PatchesInv' /\ TagsLine /\ DrawerInv'
      /\ \A shownRows, about : UpToDate(shownRows, about) => UpToDate(shownRows, about)'
  BY <1>2, EditsRest
<1>4. SUFFICES SubsTyped' /\ ListInv'
  BY <1>3 DEF TagsInv
<1>5. ASSUME NEW f \in Tags \cup {Every}, SetFilter(f) PROVE SubsTyped' /\ ListInv'
  <2>1. filter' = f /\ UNCHANGED <<table, fetch, ask, stale>>
    BY <1>5 DEF SetFilter, subHistory
  <2>2. SubsTyped'
    BY <1>1, <1>2, <2>1 DEF SubsTyped
  <2>3. \A shownRows, about : UpToDate(shownRows, about) => UpToDate(shownRows, about)'
    BY <1>3
  <2>4. ListInv'
    BY <1>1, <2>1, <2>3 DEF ListInv
  <2>5. QED
    BY <2>2, <2>4
<1>6. ASSUME NEW k \in Fetches, Debounced(k) PROVE SubsTyped' /\ ListInv'
  <2>1. FetchSubscribers(k, filter) /\ UNCHANGED <<table, filter>> /\ filter \in Tags \cup {Every}
    BY <1>1, <1>6 DEF Debounced, SubsTyped
  <2>2. QED
    BY <1>1, <1>2, <2>1, AskedAlone DEF SubsTyped
<1>7. ASSUME NEW k \in Fetches, FindAll(k) PROVE SubsTyped' /\ ListInv'
  <2> DEFINE q == [fetch[k] EXCEPT !.pc = "answered", !.table = Matching(fetch[k].filter)]
  <2>1. /\ fetch' = [fetch EXCEPT ![k] = q] /\ UNCHANGED <<table, filter, ask, stale>> /\ fetch[k].pc = "asked"
    BY <1>1, <1>7 DEF FindAll, pageList, subHistory, FetchRow
  <2>2. Matching(fetch[k].filter) \subseteq SubRows
    BY <1>1 DEF Matching, SubRows, SubsTyped
  <2>3. q \in FetchRow /\ q.table = Matching(fetch[k].filter)
    BY <1>1, <2>2 DEF FetchRow
  <2>4. fetch' \in [Fetches -> FetchRow] /\ fetch'[k] = q /\ \A j \in Fetches \ {k} : fetch'[j] = fetch[j]
    BY <1>1, <2>1, <2>3
  <2>5. SubsTyped'
    BY <1>1, <1>2, <2>1, <2>4 DEF SubsTyped
  <2>6. \A about : UpToDate(Matching(fetch[k].filter), about)
    BY DEF UpToDate, Matching
  <2>7. \A about : UpToDate(fetch[k].table, about)'
    BY <1>3, <2>3, <2>4, <2>6
  <2>8. ListInv'
    BY <1>1, <1>3, <2>1, <2>4, <2>7 DEF ListInv
  <2>9. QED
    BY <2>5, <2>8
<1>8. ASSUME NEW k \in Fetches, SetSubscribers(k) PROVE SubsTyped' /\ ListInv'
  <2>1. /\ fetch' = [fetch EXCEPT ![k] = NoFetch] /\ table' = fetch[k].table /\ stale' = fetch[k].about
        /\ UNCHANGED <<filter, ask>> /\ fetch[k].pc = "answered"
    BY <1>8 DEF SetSubscribers
  <2>2. NoFetch.pc = "idle"
    BY DEF NoFetch
  <2>3. fetch' \in [Fetches -> FetchRow] /\ fetch'[k] = NoFetch /\ \A j \in Fetches \ {k} : fetch'[j] = fetch[j]
    BY <1>1, <2>1, NothingFits
  <2>4. SubsTyped'
    BY <1>1, <1>2, <2>1, <2>3 DEF SubsTyped, FetchRow
  <2>5. ask.alone => UpToDate(table, stale)'
    BY <1>1, <1>3, <2>1 DEF ListInv
  <2>6. ask.alone => \A j \in Fetches : fetch'[j].pc = "idle"
    BY <1>1, <2>1, <2>2, <2>3 DEF ListInv
  <2>7. ListInv'
    BY <2>1, <2>5, <2>6 DEF ListInv
  <2>8. QED
    BY <2>4, <2>7
<1>9. ASSUME NEW k \in Fetches, FetchSubscribersFails(k) PROVE SubsTyped' /\ ListInv'
  <2>1. fetch' = [fetch EXCEPT ![k] = NoFetch] /\ ask' = [ask EXCEPT !.alone = FALSE] /\ UNCHANGED <<table, filter>>
    BY <1>9 DEF FetchSubscribersFails
  <2>2. fetch' \in [Fetches -> FetchRow] /\ ask' \in AskRow /\ ~ask'.alone
    BY <1>1, <2>1, NothingFits DEF AskRow
  <2>3. QED
    BY <1>1, <1>2, <2>1, <2>2 DEF SubsTyped, ListInv
<1>10. QED
  BY <1>5, <1>6, <1>7, <1>8, <1>9

\* An edit is sent, with the tags that the page shows.
LEMMA SendTags ==
  ASSUME TagsInv, NEW k \in Fetches, NEW c \in Subs, NEW tags \in SUBSET Tags, NEW t \in Tags,
         NEW drawn \in BOOLEAN, NEW sound \in BOOLEAN, PatchTags(k, c, tags, t, drawn, sound),
         UNCHANGED <<stored, table, filter, fetch, drawer, ask, stale>>,
         sound /\ (\A i \in Fetches : patch[i].pc # "idle" => patch[i].id # c) => tags = stored[c],
         drawer.open => drawn
  PROVE  TagsInv' /\ TagsLine
<1> DEFINE others == \E i \in Patching : patch[i].id = c
           r == [pc |-> "sent", id |-> c, tags |-> Toggled(tags, t), cut |-> {t} \cap tags,
                 filter |-> filter, inDrawer |-> drawn, hasty |-> ~sound \/ others]
           met(j) == [patch[j] EXCEPT !.hasty = @ \/ patch[j].id = c]
<1>1. /\ SubsTyped /\ PatchesInv /\ ListInv /\ DrawerInv
      /\ patch \in [Fetches -> PatchRow] /\ filter \in Tags \cup {Every}
  BY DEF TagsInv, SubsTyped
<1>2. patch' = [j \in Fetches |-> IF j # k THEN met(j) ELSE r] /\ patch[k].pc = "idle"
  BY DEF PatchTags
<1>3. r \in PatchRow /\ r.pc = "sent" /\ r.id = c /\ r.inDrawer = drawn
  <2>1. Toggled(tags, t) \in SUBSET Tags
    BY DEF Toggled
  <2>2. (~sound \/ others) \in BOOLEAN
    BY Zenon
  <2>3. QED
    BY <1>1, <2>1, <2>2 DEF PatchRow
<1>4. \A j \in Fetches : /\ met(j) \in PatchRow /\ met(j).pc = patch[j].pc /\ met(j).id = patch[j].id
                         /\ met(j).tags = patch[j].tags /\ met(j).cut = patch[j].cut
                         /\ met(j).inDrawer = patch[j].inDrawer
  BY <1>1 DEF PatchRow
<1>5. \A j \in Fetches : (met(j).hasty <=> (patch[j].hasty \/ patch[j].id = c))
  BY <1>1 DEF PatchRow
<1>6. r.hasty <=> (~sound \/ others)
  BY Zenon
<1>7. /\ patch' \in [Fetches -> PatchRow] /\ patch'[k] = r
      /\ \A j \in Fetches \ {k} : patch'[j] = met(j)
  BY <1>2, <1>3, <1>4
<1>8. SubsTyped'
  BY <1>1, <1>7 DEF SubsTyped
<1>9. PatchesInv'
  <2>1. \A i, j \in Fetches : i # j /\ patch'[i].pc # "idle" /\ patch'[j].pc # "idle" /\ patch'[i].id = patch'[j].id
                                 => patch'[i].hasty
    <3> SUFFICES ASSUME NEW i \in Fetches, NEW j \in Fetches, i # j, patch'[i].pc # "idle", patch'[j].pc # "idle",
                        patch'[i].id = patch'[j].id
                 PROVE  patch'[i].hasty
      OBVIOUS
    <3>1. CASE i = k
      <4>1. patch[j].pc # "idle" /\ patch[j].id = c
        BY <1>3, <1>4, <1>7, <3>1
      <4>2. others
        BY <4>1 DEF Patching
      <4>3. QED
        BY <1>6, <1>7, <3>1, <4>2
    <3>2. CASE i # k /\ j = k
      <4>1. patch[i].id = c
        BY <1>3, <1>4, <1>7, <3>2
      <4>2. QED
        BY <1>5, <1>7, <3>2, <4>1
    <3>3. CASE i # k /\ j # k
      <4>1. patch[i].pc # "idle" /\ patch[j].pc # "idle" /\ patch[i].id = patch[j].id
        BY <1>4, <1>7, <3>3
      <4>2. patch[i].hasty
        BY <1>1, <4>1 DEF PatchesInv
      <4>3. QED
        BY <1>5, <1>7, <3>3, <4>2
    <3>4. QED
      BY <3>1, <3>2, <3>3
  <2>2. ASSUME NEW j \in Fetches
        PROVE  /\ patch'[j].pc # "idle" => patch'[j].id \in Subs
               /\ patch'[j].pc = "sent" /\ ~patch'[j].hasty
                     => stored[patch'[j].id] \ patch'[j].tags \subseteq patch'[j].cut
               /\ patch'[j].pc = "stored" /\ ~patch'[j].hasty => stored[patch'[j].id] = patch'[j].tags
    <3>1. CASE j = k
      <4>1. ~r.hasty => tags = stored[c]
        BY <1>6 DEF Patching
      <4>2. tags \ Toggled(tags, t) \subseteq {t} \cap tags
        BY DEF Toggled
      <4>3. r.tags = Toggled(tags, t) /\ r.cut = {t} \cap tags
        OBVIOUS
      <4>4. QED
        BY <1>3, <1>7, <3>1, <4>1, <4>2, <4>3
    <3>2. CASE j # k
      <4>1. ~patch'[j].hasty => ~patch[j].hasty
        BY <1>5, <1>7, <3>2
      <4>2. /\ patch[j].pc # "idle" => patch[j].id \in Subs
            /\ patch[j].pc = "sent" /\ ~patch[j].hasty => stored[patch[j].id] \ patch[j].tags \subseteq patch[j].cut
            /\ patch[j].pc = "stored" /\ ~patch[j].hasty => stored[patch[j].id] = patch[j].tags
        BY <1>1 DEF PatchesInv
      <4>3. /\ patch'[j].pc = patch[j].pc /\ patch'[j].id = patch[j].id
            /\ patch'[j].tags = patch[j].tags /\ patch'[j].cut = patch[j].cut
        BY <1>4, <1>7, <3>2
      <4>4. QED
        BY <4>1, <4>2, <4>3
    <3>3. QED
      BY <3>1, <3>2
  <2>3. QED
    BY <2>1, <2>2 DEF PatchesInv
<1>10. \A x : Unseen(x) => Unseen(x)'
  BY <1>2, <1>4, <1>7 DEF Unseen
<1>11. \A shownRows, about : UpToDate(shownRows, about) => UpToDate(shownRows, about)'
  BY <1>10 DEF UpToDate
<1>12. ListInv'
  BY <1>1, <1>11 DEF ListInv
<1>13. DrawerInv'
  <2>1. \A j \in Fetches : drawer.open =>
          patch'[j].inDrawer \/ (patch'[j].pc = patch[j].pc /\ patch'[j].id = patch[j].id
                                  /\ patch'[j].inDrawer = patch[j].inDrawer)
    BY <1>3, <1>4, <1>7
  <2>2. Unseen(drawer.id) => Unseen(drawer.id)'
    BY <1>10
  <2>3. QED
    BY <1>1, <2>1, <2>2 DEF DrawerInv
<1>14. TagsLine
  BY <1>3, <1>4, <1>7 DEF TagsLine
<1>15. QED
  BY <1>8, <1>9, <1>12, <1>13, <1>14 DEF TagsInv

LEMMA EditStep ==
  ASSUME TagsInv, NEW k \in Fetches, NEW t \in Tags, (\E r \in table : EditTag(k, r, t)) \/ EditTagInDrawer(k, t)
  PROVE  TagsInv' /\ TagsLine
<1>1. SubsTyped /\ ListInv /\ DrawerInv /\ drawer \in DrawerRow /\ ask \in AskRow
  BY DEF TagsInv, SubsTyped
<1>2. UNCHANGED <<stored, table, filter, fetch, drawer, ask, stale>>
  BY DEF EditTag, EditTagInDrawer, pageList, subHistory
<1>3. ASSUME NEW r \in table, EditTag(k, r, t) PROVE TagsInv' /\ TagsLine
  <2>1. r.id \in Subs /\ r.tags \in SUBSET Tags
    BY <1>1 DEF SubsTyped, SubRows
  <2>2. ~drawer.open /\ PatchTags(k, r.id, r.tags, t, FALSE, Current(r.id))
    BY <1>3 DEF EditTag
  <2>3. Current(r.id) => r.tags = stored[r.id]
    <3>1. SUFFICES ASSUME Current(r.id) PROVE r.tags = stored[r.id]
      OBVIOUS
    <3>2. ask.alone /\ r.id \notin stale /\ ~Unseen(r.id) /\ \A j \in Fetches : fetch[j].pc = "idle"
      BY <3>1 DEF Current, SettledPage, Fetching, Patching, Unseen
    <3>3. QED
      BY <1>1, <3>2 DEF ListInv, UpToDate
  <2>4. Current(r.id) \in BOOLEAN
    BY <1>1 DEF Current, AskRow, SettledPage
  <2>5. QED
    BY <1>2, <2>1, <2>2, <2>3, <2>4, SendTags
<1>4. CASE EditTagInDrawer(k, t)
  <2>1. drawer.open /\ PatchTags(k, drawer.id, drawer.tags, t, TRUE, drawer.sound)
    BY <1>4 DEF EditTagInDrawer
  <2>2. drawer.id \in Subs /\ drawer.tags \in SUBSET Tags /\ drawer.sound \in BOOLEAN
    BY <1>1, <2>1 DEF DrawerInv, DrawerRow
  <2>3. drawer.sound /\ (\A i \in Fetches : patch[i].pc # "idle" => patch[i].id # drawer.id)
           => drawer.tags = stored[drawer.id]
    BY <1>1, <2>1 DEF DrawerInv, Unseen
  <2>4. QED
    BY <1>2, <2>1, <2>2, <2>3, SendTags
<1>5. QED
  BY <1>3, <1>4

\* The service stores an edit: what the page shows of the subscriber is older until the answer is back.
LEMMA UpdateTagsStep ==
  ASSUME TagsInv, NEW k \in Fetches, UpdateTags(k)
  PROVE  TagsInv' /\ TagsLine
<1> DEFINE c == patch[k].id
           r == [patch[k] EXCEPT !.pc = "stored"]
<1>1. SubsTyped /\ PatchesInv /\ ListInv /\ DrawerInv /\ patch \in [Fetches -> PatchRow]
      /\ stored \in [Subs -> SUBSET Tags]
  BY DEF TagsInv, SubsTyped
<1>2. /\ patch[k].pc = "sent" /\ stored' = [stored EXCEPT ![c] = patch[k].tags] /\ patch' = [patch EXCEPT ![k] = r]
      /\ UNCHANGED <<table, filter, fetch, drawer, ask, stale>>
  BY <1>1 DEF UpdateTags, pageList, subHistory, PatchRow
<1>3. c \in Subs
  BY <1>1, <1>2 DEF PatchesInv
<1>4. r \in PatchRow /\ r.pc = "stored" /\ r.id = c /\ r.tags = patch[k].tags /\ r.inDrawer = patch[k].inDrawer
  BY <1>1 DEF PatchRow
<1>5. r.hasty = patch[k].hasty
  BY <1>1 DEF PatchRow
<1>6. patch' \in [Fetches -> PatchRow] /\ patch'[k] = r /\ \A j \in Fetches \ {k} : patch'[j] = patch[j]
  BY <1>1, <1>2, <1>4
<1>7. stored' \in [Subs -> SUBSET Tags] /\ stored'[c] = patch[k].tags /\ \A x : x # c => stored'[x] = stored[x]
  BY <1>1, <1>2, <1>3 DEF PatchRow
<1>8. SubsTyped'
  BY <1>1, <1>2, <1>6, <1>7 DEF SubsTyped
<1>9. \A j \in Fetches : /\ patch'[j].id = patch[j].id /\ (patch'[j].pc = "idle" <=> patch[j].pc = "idle")
                         /\ patch'[j].tags = patch[j].tags /\ patch'[j].inDrawer = patch[j].inDrawer
  BY <1>2, <1>4, <1>6
<1>10. \A j \in Fetches : patch'[j].hasty = patch[j].hasty
  BY <1>5, <1>6
<1>11. PatchesInv'
  <2>1. \A i, j \in Fetches : i # j /\ patch'[i].pc # "idle" /\ patch'[j].pc # "idle" /\ patch'[i].id = patch'[j].id
                                 => patch'[i].hasty
    BY <1>1, <1>9, <1>10 DEF PatchesInv
  <2>2. ASSUME NEW j \in Fetches
        PROVE  /\ patch'[j].pc # "idle" => patch'[j].id \in Subs
               /\ patch'[j].pc = "sent" /\ ~patch'[j].hasty
                     => stored'[patch'[j].id] \ patch'[j].tags \subseteq patch'[j].cut
               /\ patch'[j].pc = "stored" /\ ~patch'[j].hasty => stored'[patch'[j].id] = patch'[j].tags
    <3>1. CASE j = k
      BY <1>3, <1>4, <1>6, <1>7, <3>1
    <3>2. CASE j # k /\ patch[j].id = c
      <4>1. patch[j].pc # "idle" => patch'[j].hasty
        BY <1>1, <1>2, <1>10, <3>2 DEF PatchesInv
      <4>2. QED
        BY <1>3, <1>6, <3>2, <4>1
    <3>3. CASE j # k /\ patch[j].id # c
      <4>1. patch'[j] = patch[j] /\ stored'[patch[j].id] = stored[patch[j].id]
        BY <1>6, <1>7, <3>3
      <4>2. QED
        BY <1>1, <4>1 DEF PatchesInv
    <3>4. QED
      BY <3>1, <3>2, <3>3
  <2>3. QED
    BY <2>1, <2>2 DEF PatchesInv
<1>12. Unseen(c)' /\ \A x : Unseen(x) => Unseen(x)'
  <2>1. patch'[k].pc = "stored" /\ patch'[k].id = c
    BY <1>4, <1>6
  <2>2. (\E j \in Fetches : patch'[j].pc = "stored" /\ patch'[j].id = c)
    BY <2>1
  <2>3. \A x : Unseen(x) => Unseen(x)'
    BY <1>2, <1>6 DEF Unseen
  <2>4. QED
    BY <1>9, <2>2, <2>3 DEF Unseen
<1>13. \A shownRows, about : UpToDate(shownRows, about) => UpToDate(shownRows, about)'
  <2>1. \A x : Unseen(x)' \/ (stored'[x] = stored[x] /\ (Unseen(x) => Unseen(x)'))
    BY <1>7, <1>9, <1>12 DEF Unseen
  <2>2. QED
    BY <2>1 DEF UpToDate
<1>14. ListInv'
  BY <1>1, <1>2, <1>13 DEF ListInv
<1>15. DrawerInv'
  <2>1. UNCHANGED drawer
    BY <1>2
  <2>2. Unseen(drawer.id)' \/ (stored'[drawer.id] = stored[drawer.id] /\ (Unseen(drawer.id) => Unseen(drawer.id)'))
    BY <1>7, <1>9, <1>12, <2>1 DEF Unseen
  <2>3. QED
    BY <1>1, <1>9, <2>1, <2>2 DEF DrawerInv
<1>16. TagsLine
  <2>1. \A j \in Fetches : patch[j].pc = "sent" /\ patch'[j].pc = "stored" => j = k
    BY <1>6
  <2>2. ~patch[k].hasty => stored[c] \ patch[k].tags \subseteq patch[k].cut
    BY <1>1, <1>2 DEF PatchesInv
  <2>3. QED
    BY <1>7, <2>1, <2>2 DEF TagsLine
<1>17. QED
  BY <1>8, <1>11, <1>14, <1>15, <1>16 DEF TagsInv

\* An edit whose answer is back, or never comes.
LEMMA PatchGone ==
  ASSUME TagsInv, NEW k \in Fetches, patch' = [patch EXCEPT ![k] = NoPatch], UNCHANGED stored
  PROVE  /\ patch' \in [Fetches -> PatchRow] /\ PatchesInv' /\ TagsLine
         /\ \A x : x # patch[k].id /\ Unseen(x) => Unseen(x)'
         /\ \A j \in Fetches : patch'[j].pc # "idle" => j # k /\ patch'[j] = patch[j]
<1>1. PatchesInv /\ patch \in [Fetches -> PatchRow]
  BY DEF TagsInv, SubsTyped
<1>2. NoPatch.pc = "idle" /\ NoPatch \in PatchRow
  BY NothingFits DEF NoPatch
<1>3. patch' \in [Fetches -> PatchRow] /\ patch'[k] = NoPatch /\ \A j \in Fetches \ {k} : patch'[j] = patch[j]
  BY <1>1, <1>2
<1>4. \A j \in Fetches : patch'[j].pc # "idle" => j # k /\ patch'[j] = patch[j]
  BY <1>2, <1>3
<1>5. PatchesInv'
  BY <1>1, <1>4 DEF PatchesInv
<1>6. TagsLine
  BY <1>4 DEF TagsLine
<1>7. \A x : x # patch[k].id /\ Unseen(x) => Unseen(x)'
  BY <1>3 DEF Unseen
<1>8. QED
  BY <1>3, <1>4, <1>5, <1>6, <1>7

LEMMA TagsStoredStep ==
  ASSUME TagsInv, NEW k \in Fetches, NEW j \in Fetches, TagsStored(k, j)
  PROVE  TagsInv' /\ TagsLine
<1>1. /\ SubsTyped /\ PatchesInv /\ DrawerInv /\ drawer \in DrawerRow /\ patch[k] \in PatchRow
  BY DEF TagsInv, SubsTyped
<1>2. /\ patch[k].pc = "stored" /\ FetchSubscribers(j, patch[k].filter) /\ patch' = [patch EXCEPT ![k] = NoPatch]
      /\ UNCHANGED <<stored, table, filter>>
  BY DEF TagsStored
<1>3. /\ patch' \in [Fetches -> PatchRow] /\ PatchesInv' /\ TagsLine
      /\ \A x : x # patch[k].id /\ Unseen(x) => Unseen(x)'
      /\ \A i \in Fetches : patch'[i].pc # "idle" => i # k /\ patch'[i] = patch[i]
  BY <1>2, PatchGone
<1>4. patch[k].filter \in Tags \cup {Every}
  BY <1>1 DEF PatchRow
<1>5. fetch' \in [Fetches -> FetchRow] /\ ask' \in AskRow /\ ListInv'
  BY <1>1, <1>2, <1>4, AskedAlone
<1>6. drawer' \in DrawerRow /\ DrawerInv'
  <2>1. CASE ~patch[k].inDrawer
    <3>1. drawer' = drawer
      BY <2>1 DEF TagsStored
    <3>2. drawer.open /\ drawer.sound => drawer.id # patch[k].id
      BY <1>1, <1>2, <2>1 DEF DrawerInv
    <3>3. drawer.open /\ drawer.sound /\ Unseen(drawer.id) => Unseen(drawer.id)'
      BY <1>3, <3>1, <3>2
    <3>4. QED
      BY <1>1, <1>2, <1>3, <3>1, <3>3 DEF DrawerInv
  <2>2. CASE patch[k].inDrawer
    <3> DEFINE d == [drawer EXCEPT !.id = patch[k].id, !.tags = patch[k].tags, !.sound = ~patch[k].hasty]
    <3>1. drawer' = d
      BY <2>2 DEF TagsStored
    <3>2. d \in DrawerRow /\ d.id = patch[k].id /\ d.tags = patch[k].tags
      BY <1>1 DEF DrawerRow, PatchRow
    <3>3. d.sound => ~patch[k].hasty
      BY <1>1 DEF DrawerRow
    <3>4. d.id \in Subs
      BY <1>1, <1>2, <3>2 DEF PatchesInv
    <3>5. d.sound => d.tags = stored[d.id]
      BY <1>1, <1>2, <3>2, <3>3 DEF PatchesInv
    <3>6. d.sound => \A i \in Fetches : patch'[i].pc # "idle" => patch'[i].id # d.id
      BY <1>1, <1>2, <1>3, <3>2, <3>3 DEF PatchesInv
    <3>7. QED
      BY <1>2, <3>1, <3>2, <3>4, <3>5, <3>6 DEF DrawerInv
  <2>3. QED
    BY <2>1, <2>2
<1>7. SubsTyped'
  BY <1>1, <1>2, <1>3, <1>5, <1>6 DEF SubsTyped
<1>8. QED
  BY <1>3, <1>5, <1>6, <1>7 DEF TagsInv

\* Subscriber c may have other tags than the page shows, which nothing relies on.
LEMMA Missed ==
  ASSUME TagsInv, NEW c \in Subs \cup {NoSub}, SubsTyped', UNCHANGED <<table, ask>>,
         stale' = stale \cup {c}, drawer' = Overtaken(drawer, c),
         \A x : x # c => (Unseen(x) => Unseen(x)') /\ stored'[x] = stored[x],
         \A k \in Fetches : /\ fetch'[k].pc = fetch[k].pc /\ fetch'[k].table = fetch[k].table
                            /\ fetch[k].pc = "answered" => fetch'[k].about = fetch[k].about \cup {c},
         \A k \in Fetches : patch'[k].pc # "idle" => /\ patch[k].pc # "idle" /\ patch'[k].id = patch[k].id
                                                     /\ patch'[k].inDrawer = patch[k].inDrawer
  PROVE  ListInv' /\ DrawerInv'
<1>1. SubsTyped /\ ListInv /\ DrawerInv /\ drawer \in DrawerRow
  BY DEF TagsInv, SubsTyped
<1>2. \A shownRows, seen1 : UpToDate(shownRows, seen1) => UpToDate(shownRows, seen1 \cup {c})'
  BY DEF UpToDate
<1>3. UpToDate(table, stale) => UpToDate(table, stale)'
  BY <1>2
<1>4. \A k \in Fetches : fetch[k].pc = "answered" /\ UpToDate(fetch[k].table, fetch[k].about)
                            => UpToDate(fetch[k].table, fetch[k].about)'
  BY <1>2
<1>5. ListInv'
  <2>1. ask.alone => \A i, j \in Fetches : fetch'[i].pc # "idle" /\ fetch'[j].pc # "idle" => i = j
    BY <1>1 DEF ListInv
  <2>2. ask.alone => \A k \in Fetches : fetch'[k].pc = "answered" => UpToDate(fetch[k].table, fetch[k].about)'
    BY <1>1, <1>4 DEF ListInv
  <2>3. ask.alone /\ (\A k \in Fetches : fetch'[k].pc = "idle") => UpToDate(table, stale)'
    BY <1>1, <1>3 DEF ListInv
  <2>4. QED
    BY <2>1, <2>2, <2>3 DEF ListInv
<1>6. drawer'.open = drawer.open /\ drawer'.id = drawer.id /\ drawer'.tags = drawer.tags
  BY <1>1 DEF Overtaken, DrawerRow
<1>7. drawer'.sound => drawer.sound /\ drawer.id # c
  BY <1>1 DEF Overtaken, DrawerRow
<1>8. DrawerInv'
  <2>1. drawer.id # c => (Unseen(drawer.id) => Unseen(drawer.id)') /\ stored'[drawer.id] = stored[drawer.id]
    BY <1>6
  <2>2. QED
    BY <1>1, <1>6, <1>7, <2>1 DEF DrawerInv
<1>9. QED
  BY <1>5, <1>8

LEMMA TagsNotStoredStep ==
  ASSUME TagsInv, NEW k \in Fetches, TagsNotStored(k)
  PROVE  TagsInv' /\ TagsLine
<1> DEFINE c == patch[k].id
           f(j) == [fetch[j] EXCEPT !.about = IF j \in Fetching THEN @ \cup {c} ELSE @]
<1>1. /\ SubsTyped /\ patch[k] \in PatchRow /\ fetch \in [Fetches -> FetchRow] /\ drawer \in DrawerRow
  BY DEF TagsInv, SubsTyped
<1>2. /\ UNCHANGED <<stored, table, filter, ask>> /\ stale' = stale \cup {c} /\ patch' = [patch EXCEPT ![k] = NoPatch]
      /\ drawer' = Overtaken(drawer, c) /\ fetch' = [j \in Fetches |-> f(j)]
  BY DEF TagsNotStored, pageList
<1>3. /\ patch' \in [Fetches -> PatchRow] /\ PatchesInv' /\ TagsLine
      /\ \A x : x # c /\ Unseen(x) => Unseen(x)'
      /\ \A j \in Fetches : patch'[j].pc # "idle" => j # k /\ patch'[j] = patch[j]
  BY <1>2, PatchGone
<1>4. c \in Subs \cup {NoSub}
  BY <1>1 DEF PatchRow
<1>5. \A j \in Fetches : /\ f(j) \in FetchRow /\ f(j).pc = fetch[j].pc /\ f(j).table = fetch[j].table
                         /\ fetch[j].pc = "answered" => f(j).about = fetch[j].about \cup {c}
  BY <1>1, <1>4 DEF FetchRow, Fetching
<1>6. drawer' \in DrawerRow
  BY <1>1, <1>2 DEF Overtaken, DrawerRow
<1>7. SubsTyped'
  BY <1>1, <1>2, <1>3, <1>5, <1>6 DEF SubsTyped
<1>8. \A x : x # c => (Unseen(x) => Unseen(x)') /\ stored'[x] = stored[x]
  BY <1>2, <1>3
<1>9. \A j \in Fetches : /\ fetch'[j].pc = fetch[j].pc /\ fetch'[j].table = fetch[j].table
                         /\ fetch[j].pc = "answered" => fetch'[j].about = fetch[j].about \cup {c}
  BY <1>2, <1>5
<1>10. ListInv' /\ DrawerInv'
  BY <1>2, <1>3, <1>4, <1>7, <1>8, <1>9, Missed
<1>11. QED
  BY <1>3, <1>7, <1>10 DEF TagsInv

LEMMA TagElsewhereStep ==
  ASSUME TagsInv, NEW c \in Subs, NEW t \in Tags, TagElsewhere(c, t)
  PROVE  TagsInv' /\ TagsLine
<1> DEFINE f(j) == [fetch[j] EXCEPT !.about = IF fetch[j].pc = "answered" THEN @ \cup {c} ELSE @]
           met(j) == [patch[j] EXCEPT !.hasty = @ \/ patch[j].id = c]
<1>1. /\ SubsTyped /\ PatchesInv /\ patch \in [Fetches -> PatchRow] /\ fetch \in [Fetches -> FetchRow]
      /\ drawer \in DrawerRow /\ stored \in [Subs -> SUBSET Tags]
  BY DEF TagsInv, SubsTyped
<1>2. /\ UNCHANGED <<table, filter, ask>> /\ stale' = stale \cup {c} /\ stored' = [stored EXCEPT ![c] = Toggled(@, t)]
      /\ drawer' = Overtaken(drawer, c) /\ fetch' = [j \in Fetches |-> f(j)] /\ patch' = [j \in Fetches |-> met(j)]
  BY DEF TagElsewhere, pageList
<1>3. stored' \in [Subs -> SUBSET Tags] /\ \A x : x # c => stored'[x] = stored[x]
  BY <1>1, <1>2 DEF Toggled
<1>4. \A j \in Fetches : /\ f(j) \in FetchRow /\ f(j).pc = fetch[j].pc /\ f(j).table = fetch[j].table
                         /\ fetch[j].pc = "answered" => f(j).about = fetch[j].about \cup {c}
  BY <1>1 DEF FetchRow
<1>5. \A j \in Fetches : /\ met(j) \in PatchRow /\ met(j).pc = patch[j].pc /\ met(j).id = patch[j].id
                         /\ met(j).tags = patch[j].tags /\ met(j).cut = patch[j].cut
                         /\ met(j).inDrawer = patch[j].inDrawer
  BY <1>1 DEF PatchRow
<1>6. \A j \in Fetches : (met(j).hasty <=> (patch[j].hasty \/ patch[j].id = c))
  BY <1>1 DEF PatchRow
<1>7. drawer' \in DrawerRow
  BY <1>1, <1>2 DEF Overtaken, DrawerRow
<1>8. SubsTyped'
  BY <1>1, <1>2, <1>3, <1>4, <1>5, <1>7 DEF SubsTyped
<1>9. \A j \in Fetches : /\ patch'[j].pc = patch[j].pc /\ patch'[j].id = patch[j].id
                         /\ patch'[j].tags = patch[j].tags /\ patch'[j].cut = patch[j].cut
                         /\ patch'[j].inDrawer = patch[j].inDrawer
  BY <1>2, <1>5
<1>10. \A j \in Fetches : (patch'[j].hasty <=> (patch[j].hasty \/ patch[j].id = c))
  BY <1>2, <1>6
<1>11. PatchesInv'
  <2>1. \A i, j \in Fetches : i # j /\ patch'[i].pc # "idle" /\ patch'[j].pc # "idle" /\ patch'[i].id = patch'[j].id
                                 => patch'[i].hasty
    BY <1>1, <1>9, <1>10 DEF PatchesInv
  <2>2. ASSUME NEW j \in Fetches
        PROVE  /\ patch'[j].pc # "idle" => patch'[j].id \in Subs
               /\ patch'[j].pc = "sent" /\ ~patch'[j].hasty
                     => stored'[patch'[j].id] \ patch'[j].tags \subseteq patch'[j].cut
               /\ patch'[j].pc = "stored" /\ ~patch'[j].hasty => stored'[patch'[j].id] = patch'[j].tags
    <3>1. /\ patch[j].pc # "idle" => patch[j].id \in Subs
          /\ patch[j].pc = "sent" /\ ~patch[j].hasty => stored[patch[j].id] \ patch[j].tags \subseteq patch[j].cut
          /\ patch[j].pc = "stored" /\ ~patch[j].hasty => stored[patch[j].id] = patch[j].tags
      BY <1>1 DEF PatchesInv
    <3>2. ~patch'[j].hasty => ~patch[j].hasty /\ stored'[patch[j].id] = stored[patch[j].id]
      BY <1>3, <1>10
    <3>3. QED
      BY <1>9, <3>1, <3>2
  <2>3. QED
    BY <2>1, <2>2 DEF PatchesInv
<1>12. TagsLine
  BY <1>9 DEF TagsLine
<1>13. \A x : x # c => (Unseen(x) => Unseen(x)') /\ stored'[x] = stored[x]
  BY <1>3, <1>9 DEF Unseen
<1>14. \A j \in Fetches : /\ fetch'[j].pc = fetch[j].pc /\ fetch'[j].table = fetch[j].table
                          /\ fetch[j].pc = "answered" => fetch'[j].about = fetch[j].about \cup {c}
  BY <1>2, <1>4
<1>15. ListInv' /\ DrawerInv'
  BY <1>2, <1>8, <1>9, <1>13, <1>14, Missed
<1>16. QED
  BY <1>8, <1>11, <1>12, <1>15 DEF TagsInv

\* The drawer opens on a row of the list.
LEMMA DrawerStep ==
  ASSUME TagsInv,
         \/ \E k \in Fetches : SetHistory(k) \/ \E r \in table : OpenProfile(k, r)
         \/ CloseProfile
  PROVE  TagsInv' /\ TagsLine
<1>1. SubsTyped /\ PatchesInv /\ ListInv /\ DrawerInv /\ drawer \in DrawerRow /\ ask \in AskRow
  BY DEF TagsInv, SubsTyped
<1>2. UNCHANGED <<stored, table, filter, fetch, patch, ask, stale>>
  BY DEF SetHistory, OpenProfile, CloseProfile, pageList, subHistory
<1>3. /\ PatchesInv' /\ TagsLine /\ (UNCHANGED drawer => DrawerInv')
      /\ \A shownRows, about : UpToDate(shownRows, about) => UpToDate(shownRows, about)'
  BY <1>2, EditsRest
<1>4. ListInv'
  BY <1>1, <1>2, <1>3 DEF ListInv
<1>5. SUFFICES drawer' \in DrawerRow /\ DrawerInv'
  BY <1>1, <1>2, <1>3, <1>4 DEF TagsInv, SubsTyped
<1>6. ASSUME NEW k \in Fetches, SetHistory(k) PROVE drawer' \in DrawerRow /\ DrawerInv'
  BY <1>1, <1>3, <1>6 DEF SetHistory
<1>7. ASSUME NEW k \in Fetches, NEW r \in table, OpenProfile(k, r) PROVE drawer' \in DrawerRow /\ DrawerInv'
  <2>1. drawer' = [open |-> TRUE, id |-> r.id, tags |-> r.tags, sound |-> Current(r.id)]
    BY <1>7 DEF OpenProfile
  <2>2. r.id \in Subs /\ r.tags \in SUBSET Tags
    BY <1>1 DEF SubsTyped, SubRows
  <2>3. Current(r.id) \in BOOLEAN
    BY <1>1 DEF Current, AskRow, SettledPage
  <2>4. drawer' \in DrawerRow /\ drawer'.id = r.id /\ drawer'.tags = r.tags
    BY <2>1, <2>2, <2>3 DEF DrawerRow
  <2>5. drawer'.sound => Current(r.id)
    BY <2>1
  <2>6. Current(r.id) => r.tags = stored[r.id] /\ \A j \in Fetches : patch[j].pc = "idle"
    <3>1. SUFFICES ASSUME Current(r.id) PROVE r.tags = stored[r.id] /\ \A j \in Fetches : patch[j].pc = "idle"
      OBVIOUS
    <3>2. /\ ask.alone /\ r.id \notin stale /\ ~Unseen(r.id) /\ \A j \in Fetches : fetch[j].pc = "idle"
          /\ \A j \in Fetches : patch[j].pc = "idle"
      BY <3>1 DEF Current, SettledPage, Fetching, Patching, Unseen
    <3>3. QED
      BY <1>1, <3>2 DEF ListInv, UpToDate
  <2>7. DrawerInv'
    BY <1>2, <2>2, <2>4, <2>5, <2>6 DEF DrawerInv
  <2>8. QED
    BY <2>4, <2>7
<1>8. CASE CloseProfile
  <2>1. drawer' \in DrawerRow /\ ~drawer'.open
    BY <1>1, <1>8 DEF CloseProfile, DrawerRow
  <2>2. QED
    BY <2>1 DEF DrawerInv
<1>9. QED
  BY <1>6, <1>7, <1>8

LEMMA TagsStep ==
  ASSUME TagsInv, [SubsNext]_subVars
  PROVE  TagsInv' /\ (TagsLine \/ UNCHANGED subVars)
<1>1. CASE SubsNext
  BY <1>1, ListStep, EditStep, UpdateTagsStep, TagsStoredStep, TagsNotStoredStep, TagElsewhereStep, DrawerStep
  DEF SubsNext
<1>2. CASE UNCHANGED subVars
  <2>1. UNCHANGED <<stored, table, filter, fetch, patch, drawer, ask, stale>>
    BY <1>2 DEF subVars, pageList, subHistory
  <2>2. QED
    BY <1>2, <2>1 DEF TagsInv, SubsTyped, PatchesInv, ListInv, DrawerInv, Unseen, UpToDate
<1>3. QED
  BY <1>1, <1>2

-----------------------------------------------------------------------------
(* DeveloperTab: the keys that are listed, the secret that signs.             *)

\* An answer to come would show the keys anew.
KeysComing ==
    \/ \E f \in DeskLoads : deskLoad[f].pc = "asked"
    \/ devCall.kind = "create" /\ devCall.pc = "served"
    \/ \E r \in revoking : r.pc = "served"

\* A load that nothing has outrun has the keys there are; keys that are listed and are others have a reason or an
\* answer to come; and a secret is shown, or on its way, that is the one stored.
DeskInv ==
    /\ \A f \in DeskLoads : /\ deskLoad[f].pc = "idle" => deskLoad[f].keys = "unread"
                            /\ deskLoad[f].keys = "read" => deskLoad[f].rows = keyRows
    /\ seen /\ devTab.rows # keyRows /\ "keys" \notin elsewhere /\ ~belated /\ ~unanswered => KeysComing
    /\ devCall.kind = "webhook" /\ devCall.pc = "served" /\ ~resealed /\ ~unanswered
       => devCall.hook.secret = outbound.secret
    /\ devTab.secret # 0 /\ ~resealed /\ ~unanswered /\ ~(devCall.kind = "webhook" /\ devCall.pc = "served")
       => devTab.secret = outbound.secret

LEMMA DeskInit == DeveloperInit => DeskInv
<1> SUFFICES ASSUME DeveloperInit PROVE DeskInv
  OBVIOUS
<1>1. /\ \A f \in DeskLoads : deskLoad[f].pc = "idle" /\ deskLoad[f].keys = "unread"
      /\ seen = FALSE /\ devCall.kind = "none" /\ devTab.secret = 0
  BY DEF DeveloperInit, NoDeskLoad, NoDevCall
<1>2. QED
  BY <1>1 DEF DeskInv

\* What each change of the keys leaves of the loads.
LEMMA OutrunRows ==
  ASSUME DeveloperTyped, DeskInv, Outrun("keys")
  PROVE  \A f \in DeskLoads : /\ deskLoad'[f].keys # "read" /\ deskLoad'[f].pc = deskLoad[f].pc
                              /\ deskLoad'[f].pc = "idle" => deskLoad'[f].keys = "unread"
<1>1. \A f \in DeskLoads : deskLoad[f] \in DeskLoadRow
  BY DEF DeveloperTyped
<1>2. \A f \in DeskLoads : deskLoad'[f] = IF deskLoad[f].keys = "read" THEN [deskLoad[f] EXCEPT !.keys = "old"]
                                                                       ELSE deskLoad[f]
  BY DEF Outrun
<1>3. \A f \in DeskLoads : deskLoad[f].pc = "idle" => deskLoad[f].keys = "unread"
  BY DEF DeskInv
<1>4. QED
  BY <1>1, <1>2, <1>3 DEF DeskLoadRow

LEMMA OutrunRest ==
  ASSUME DeveloperTyped, Outrun("hook")
  PROVE  \A f \in DeskLoads : /\ deskLoad'[f].keys = deskLoad[f].keys /\ deskLoad'[f].pc = deskLoad[f].pc
                              /\ deskLoad'[f].rows = deskLoad[f].rows
<1>1. \A f \in DeskLoads : deskLoad[f] \in DeskLoadRow
  BY DEF DeveloperTyped
<1>2. \A f \in DeskLoads : deskLoad'[f] = [deskLoad[f] EXCEPT !.hook = "old"] \/ deskLoad'[f] = deskLoad[f]
  BY DEF Outrun
<1>3. QED
  BY <1>1, <1>2 DEF DeskLoadRow

\* A load more asks for the keys.
LEMMA RowsAskedAgain ==
  ASSUME DeveloperTyped, DeskInv, LoadAgain, UNCHANGED keyRows
  PROVE  /\ \E f \in DeskLoads : deskLoad'[f].pc = "asked"
         /\ \A f \in DeskLoads : /\ deskLoad'[f].pc = "idle" => deskLoad'[f].keys = "unread"
                                 /\ deskLoad'[f].keys = "read" => deskLoad'[f].rows = keyRows'
<1>1. PICK f \in DeskLoads : deskLoad' = [deskLoad EXCEPT ![f] = Asked]
  BY DEF LoadAgain
<1>2. Asked.pc = "asked" /\ Asked.keys = "unread"
  BY DEF Asked, NoDeskLoad
<1>3. deskLoad'[f].pc = "asked" /\ \A g \in DeskLoads : deskLoad'[g] = Asked \/ deskLoad'[g] = deskLoad[g]
  BY <1>1, <1>2 DEF DeveloperTyped
<1>4. QED
  BY <1>2, <1>3 DEF DeskInv

\* The tab opens, a key is made or deleted.
LEMMA KeysAskedStep ==
  ASSUME HookInv, DeskInv, OpenDeveloperTab \/ AskCreate \/ KeyMade \/ AskSaveHook
  PROVE  DeskInv'
<1>1. DeveloperTyped /\ devTab \in DevTabRow
  BY DEF HookInv, DeveloperTyped
<1>2. UNCHANGED <<keyRows, outbound, seen, belated, elsewhere, resealed, unanswered, revoking>>
  BY DEF OpenDeveloperTab, AskCreate, KeyMade, AskSaveHook, deskStory
<1>3. devTab'.rows = devTab.rows /\ devTab'.secret = devTab.secret
  BY <1>1 DEF OpenDeveloperTab, AskCreate, KeyMade, AskSaveHook, DevTabRow
<1>4. CASE OpenDeveloperTab \/ KeyMade
  <2>1. /\ LoadAgain
        /\ devCall' = devCall \/ (devCall' = NoDevCall /\ devCall.kind = "create")
    BY <1>4 DEF OpenDeveloperTab, KeyMade
  <2>2. NoDevCall.kind = "none"
    BY DEF NoDevCall
  <2>3. KeysComing'
    BY <1>1, <1>2, <2>1, RowsAskedAgain DEF KeysComing
  <2>4. QED
    BY <1>1, <1>2, <1>3, <2>1, <2>2, <2>3, RowsAskedAgain DEF DeskInv
<1>5. CASE AskCreate \/ AskSaveHook
  <2>1. /\ UNCHANGED <<deskLoad, revoking>> /\ devCall = NoDevCall /\ devCall'.pc = "sent"
    BY <1>5 DEF AskCreate, AskSaveHook, NoDevCall
  <2>2. devCall.kind = "none"
    BY <2>1 DEF NoDevCall
  <2>3. KeysComing => KeysComing'
    BY <2>1, <2>2 DEF KeysComing
  <2>4. QED
    BY <1>2, <1>3, <2>1, <2>2, <2>3 DEF DeskInv
<1>6. QED
  BY <1>4, <1>5

\* The keys there are change: the page's own request has an answer to come, another page's is known.
LEMMA KeysChangeStep ==
  ASSUME HookInv, DeskInv,
         \/ \E k \in ApiRows : ServeCreate(k) \/ ElsewhereKeys(k)
         \/ \E r \in revoking : ServeRevoke(r)
  PROVE  DeskInv'
<1>1. DeveloperTyped /\ devCall \in DevCallRow
  BY DEF HookInv, DeveloperTyped
<1>2. Outrun("keys") /\ UNCHANGED <<outbound, devTab, seen, belated, resealed, unanswered>>
  BY DEF ServeCreate, ElsewhereKeys, ServeRevoke, deskStory
<1>3. /\ devCall' = devCall \/ (devCall.kind = "create" /\ devCall'.kind = "create" /\ devCall'.pc = "served")
  BY <1>1 DEF ServeCreate, ElsewhereKeys, ServeRevoke, DevCallRow
<1>4. seen /\ devTab.rows # keyRows' /\ "keys" \notin elsewhere' /\ ~belated /\ ~unanswered => KeysComing'
  <2>0. SUFFICES ASSUME seen, devTab.rows # keyRows', "keys" \notin elsewhere', ~belated, ~unanswered
                 PROVE  KeysComing'
    OBVIOUS
  <2>1. CASE \E k \in ApiRows : ServeCreate(k)
    <3>1. devCall'.kind = "create" /\ devCall'.pc = "served"
      BY <1>1, <2>1 DEF ServeCreate, DevCallRow
    <3>2. QED
      BY <3>1 DEF KeysComing
  <2>2. CASE \E k \in ApiRows : ElsewhereKeys(k)
    BY <2>0, <2>2 DEF ElsewhereKeys
  <2>3. ASSUME NEW r \in revoking, ServeRevoke(r) PROVE KeysComing'
    <3>1. /\ keyRows' = keyRows \ {r.row} /\ UNCHANGED <<elsewhere, devCall>> /\ r.pc = "sent"
          /\ revoking' = (revoking \ {r}) \cup {[r EXCEPT !.pc = IF r.row \in keyRows THEN "served" ELSE "refused"]}
      BY <2>3 DEF ServeRevoke, deskStory
    <3>2. CASE r.row \in keyRows
      <4>1. [r EXCEPT !.pc = "served"] \in revoking'
        BY <3>1, <3>2
      <4>2. [r EXCEPT !.pc = "served"].pc = "served"
        BY <3>1
      <4>3. QED
        BY <4>1, <4>2 DEF KeysComing
    <3>3. CASE r.row \notin keyRows
      <4>1. keyRows' = keyRows
        BY <3>1, <3>3
      <4>2. \A q \in revoking : q.pc = "served" => q \in revoking'
        BY <3>1
      <4>3. KeysComing => KeysComing'
        BY <1>1, <1>2, <3>1, <4>2, OutrunRows DEF KeysComing
      <4>4. QED
        BY <2>0, <3>1, <4>1, <4>3 DEF DeskInv
    <3>4. QED
      BY <3>2, <3>3
  <2>4. QED
    BY <2>1, <2>2, <2>3
<1>5. \A f \in DeskLoads : /\ deskLoad'[f].pc = "idle" => deskLoad'[f].keys = "unread"
                           /\ deskLoad'[f].keys # "read"
  BY <1>1, <1>2, OutrunRows
<1>6. QED
  BY <1>2, <1>3, <1>4, <1>5 DEF DeskInv

\* Requests to delete that are asked, answered or refused.
LEMMA RevokeStep ==
  ASSUME HookInv, DeskInv,
         \/ \E k \in ApiRows : AskRevoke(k)
         \/ \E r \in revoking : Revoked(r) \/ RevokeFails(r)
  PROVE  DeskInv'
<1>1. DeveloperTyped
  BY DEF HookInv
<1>2. UNCHANGED <<keyRows, outbound, devTab, devCall, seen, belated, elsewhere, resealed>>
  BY DEF AskRevoke, Revoked, RevokeFails, deskStory
<1>3. CASE \E k \in ApiRows : AskRevoke(k)
  <2>1. revoking \subseteq revoking' /\ UNCHANGED <<deskLoad, unanswered>>
    BY <1>3 DEF AskRevoke, deskStory
  <2>2. KeysComing => KeysComing'
    BY <1>2, <2>1 DEF KeysComing
  <2>3. QED
    BY <1>2, <2>1, <2>2 DEF DeskInv
<1>4. CASE \E r \in revoking : Revoked(r)
  <2>1. LoadAgain /\ UNCHANGED unanswered
    BY <1>4 DEF Revoked, deskStory
  <2>2. KeysComing'
    BY <1>1, <1>2, <2>1, RowsAskedAgain DEF KeysComing
  <2>3. QED
    BY <1>1, <1>2, <2>1, <2>2, RowsAskedAgain DEF DeskInv
<1>5. CASE \E r \in revoking : RevokeFails(r)
  <2>1. unanswered' = TRUE /\ UNCHANGED deskLoad
    BY <1>5 DEF RevokeFails
  <2>2. QED
    BY <1>2, <2>1 DEF DeskInv
<1>6. QED
  BY <1>3, <1>4, <1>5

\* A load reads what is stored, and the tab shows it.
LEMMA RowsLoadStep ==
  ASSUME HookInv, DeskInv, NEW f \in DeskLoads, ReadRows(f) \/ ReadHook(f) \/ ShowDeveloper(f) \/ DeskLoadFails(f)
  PROVE  DeskInv'
<1>1. DeveloperTyped /\ deskLoad[f] \in DeskLoadRow /\ deskLoad \in [DeskLoads -> DeskLoadRow] /\ devTab \in DevTabRow
  BY DEF HookInv, DeveloperTyped
<1>2. UNCHANGED <<keyRows, outbound, devCall, revoking, resealed>>
  BY DEF ReadRows, ReadHook, ShowDeveloper, DeskLoadFails, deskStory
<1>3. NoDeskLoad.pc = "idle" /\ NoDeskLoad.keys = "unread"
  BY DEF NoDeskLoad
<1>4. CASE ReadRows(f) \/ ReadHook(f)
  <2>1. UNCHANGED <<devTab, seen, belated, elsewhere, unanswered>> /\ deskLoad[f].pc = "asked"
    BY <1>4 DEF ReadRows, ReadHook, deskStory
  <2>2. \/ deskLoad' = [deskLoad EXCEPT ![f].keys = "read", ![f].rows = keyRows]
        \/ deskLoad' = [deskLoad EXCEPT ![f].hook = "read", ![f].url = outbound.url]
    BY <1>4 DEF ReadRows, ReadHook
  <2>3. /\ deskLoad'[f].pc = "asked" /\ \A g \in DeskLoads \ {f} : deskLoad'[g] = deskLoad[g]
        /\ \/ deskLoad'[f].keys = "read" /\ deskLoad'[f].rows = keyRows
           \/ deskLoad'[f].keys = deskLoad[f].keys /\ deskLoad'[f].rows = deskLoad[f].rows
    BY <1>1, <2>1, <2>2 DEF DeskLoadRow
  <2>4. KeysComing'
    BY <2>3 DEF KeysComing
  <2>5. \A g \in DeskLoads : /\ deskLoad'[g].pc = "idle" => deskLoad'[g].keys = "unread"
                             /\ deskLoad'[g].keys = "read" => deskLoad'[g].rows = keyRows
    BY <2>3 DEF DeskInv
  <2>6. QED
    BY <1>2, <2>1, <2>4, <2>5 DEF DeskInv
<1>5. CASE ShowDeveloper(f) \/ DeskLoadFails(f)
  <2>1. deskLoad' = [deskLoad EXCEPT ![f] = NoDeskLoad]
    BY <1>5 DEF ShowDeveloper, DeskLoadFails
  <2>2. \A g \in DeskLoads : /\ deskLoad'[g].pc = "idle" => deskLoad'[g].keys = "unread"
                             /\ deskLoad'[g].keys = "read" => deskLoad'[g].rows = keyRows
    BY <1>1, <1>3, <2>1 DEF DeskInv
  <2>3. CASE ShowDeveloper(f)
    <3>1. /\ devTab' = [devTab EXCEPT !.rows = deskLoad[f].rows, !.url = deskLoad[f].url]
          /\ deskLoad[f].keys # "unread" /\ (deskLoad[f].keys = "old" => belated') /\ UNCHANGED unanswered
      BY <2>3 DEF ShowDeveloper
    <3>2. devTab'.rows = deskLoad[f].rows /\ devTab'.secret = devTab.secret
      BY <1>1, <3>1 DEF DevTabRow
    <3>3. belated' \/ devTab'.rows = keyRows
      BY <1>1, <3>1, <3>2 DEF DeskInv, DeskLoadRow
    <3>4. QED
      BY <1>2, <2>2, <3>1, <3>2, <3>3 DEF DeskInv
  <2>4. CASE DeskLoadFails(f)
    BY <1>2, <2>2, <2>4 DEF DeskLoadFails, DeskInv
  <2>5. QED
    BY <1>5, <2>3, <2>4
<1>6. QED
  BY <1>4, <1>5

\* The webhook is saved, here or elsewhere, and its url typed.
LEMMA SealStep ==
  ASSUME HookInv, DeskInv,
         \/ ServeSaveHook \/ HookSaved \/ DevCallFails
         \/ \E n \in {0, deeds + 2} : TypeUrl(n) \/ ElsewhereHook(n)
  PROVE  DeskInv'
<1>1. DeveloperTyped /\ devTab \in DevTabRow /\ devCall \in DevCallRow
  BY DEF HookInv, DeveloperTyped
<1>2. UNCHANGED <<keyRows, revoking, seen>> /\ NoDevCall.kind = "none"
  BY DEF ServeSaveHook, HookSaved, DevCallFails, TypeUrl, ElsewhereHook, NoDevCall, deskStory
<1>3. \A f \in DeskLoads : /\ deskLoad'[f].keys = deskLoad[f].keys /\ deskLoad'[f].pc = deskLoad[f].pc
                           /\ deskLoad'[f].rows = deskLoad[f].rows
  <2>1. Outrun("hook") \/ UNCHANGED deskLoad
    BY DEF ServeSaveHook, HookSaved, DevCallFails, TypeUrl, ElsewhereHook
  <2>2. QED
    BY <1>1, <2>1, OutrunRest
<1>4. devTab'.rows = devTab.rows
  BY <1>1 DEF ServeSaveHook, HookSaved, DevCallFails, TypeUrl, ElsewhereHook, DevTabRow
<1>5. \A f \in DeskLoads : /\ deskLoad'[f].pc = "idle" => deskLoad'[f].keys = "unread"
                           /\ deskLoad'[f].keys = "read" => deskLoad'[f].rows = keyRows'
  BY <1>2, <1>3 DEF DeskInv
<1>6. CASE ServeSaveHook
  <2>1. /\ devCall.kind = "webhook" /\ UNCHANGED <<devTab, elsewhere, unanswered>> /\ (belated => belated')
        /\ devCall' = [devCall EXCEPT !.pc = "served", !.hook = outbound']
    BY <1>6 DEF ServeSaveHook
  <2>2. devCall'.kind = "webhook" /\ devCall'.pc = "served" /\ devCall'.hook.secret = outbound'.secret
    BY <1>1, <2>1 DEF DevCallRow
  <2>3. KeysComing => KeysComing'
    BY <1>2, <1>3, <2>1 DEF KeysComing
  <2>4. QED
    BY <1>2, <1>4, <1>5, <2>1, <2>2, <2>3 DEF DeskInv
<1>7. CASE HookSaved
  <2>1. /\ devCall.kind = "webhook" /\ devCall.pc = "served" /\ devCall' = NoDevCall
        /\ UNCHANGED <<outbound, elsewhere, unanswered, belated, resealed>>
        /\ devTab' = [devTab EXCEPT !.secret = devCall.hook.secret]
    BY <1>7 DEF HookSaved, deskStory
  <2>2. devTab'.secret = devCall.hook.secret
    BY <1>1, <2>1 DEF DevTabRow
  <2>3. KeysComing => KeysComing'
    BY <1>2, <1>3, <2>1 DEF KeysComing
  <2>4. QED
    BY <1>2, <1>4, <1>5, <2>1, <2>2, <2>3 DEF DeskInv
<1>8. CASE DevCallFails
  <2>1. unanswered' = TRUE /\ devCall' = NoDevCall
    BY <1>8 DEF DevCallFails
  <2>2. QED
    BY <1>2, <1>5, <2>1 DEF DeskInv
<1>9. ASSUME NEW n \in {0, deeds + 2}, TypeUrl(n) PROVE DeskInv'
  <2>1. UNCHANGED <<outbound, devCall, elsewhere, unanswered, belated, resealed>>
    BY <1>9 DEF TypeUrl
  <2>2. devTab'.secret = devTab.secret
    BY <1>1, <1>9 DEF TypeUrl, DevTabRow
  <2>3. KeysComing => KeysComing'
    BY <1>2, <1>3, <2>1 DEF KeysComing
  <2>4. QED
    BY <1>2, <1>4, <1>5, <2>1, <2>2, <2>3 DEF DeskInv
<1>10. ASSUME NEW n \in {0, deeds + 2}, ElsewhereHook(n) PROVE DeskInv'
  <2>1. /\ UNCHANGED <<unanswered, belated, devTab>> /\ ("keys" \in elsewhere => "keys" \in elsewhere')
        /\ resealed' = TRUE /\ devCall' = [devCall EXCEPT !.stale = devCall # NoDevCall]
    BY <1>10 DEF ElsewhereHook
  <2>2. devCall'.kind = devCall.kind /\ devCall'.pc = devCall.pc
    BY <1>1, <2>1 DEF DevCallRow
  <2>3. KeysComing => KeysComing'
    BY <1>2, <1>3, <2>2 DEF KeysComing
  <2>4. QED
    BY <1>2, <1>4, <1>5, <2>1, <2>2, <2>3 DEF DeskInv
<1>11. QED
  BY <1>6, <1>7, <1>8, <1>9, <1>10

LEMMA DeskStep ==
  ASSUME HookInv, DeskInv, [DeveloperNext]_deskVars
  PROVE  DeskInv'
<1>1. CASE DeveloperNext
  BY <1>1, KeysAskedStep, KeysChangeStep, RevokeStep, RowsLoadStep, SealStep DEF DeveloperNext
<1>2. CASE UNCHANGED deskVars
  BY <1>2 DEF deskVars, deskStory, DeskInv, KeysComing
<1>3. QED
  BY <1>1, <1>2

LEMMA DeskShows == DeskInv => KeysListed /\ SecretSigns
<1>1. NoDevCall.pc = "idle" /\ NoDeskLoad.pc = "idle"
  BY DEF NoDevCall, NoDeskLoad
<1>2. DeskInv => KeysListed
  BY <1>1 DEF DeskInv, KeysComing, KeysListed, Quiet
<1>3. DeskInv => SecretSigns
  BY DEF DeskInv, SecretSigns
<1>4. QED
  BY <1>2, <1>3

-----------------------------------------------------------------------------
(* RuleEditor: the list of rules.                                             *)

RuleWrites == {"put", "post", "copy", "delete", "bulk", "bulkDelete"}

\* A request after which rule r is listed anew, or is among those that the page may not know of.
Comes(q, r) ==
    \/ q.kind \in {"fetch", "answer"}
    \/ q.kind \in RuleWrites /\ r \in q.about
    \/ q.kind = "toggle" /\ (q.failed \/ (q.crossed /\ r \in q.ids))
Excused(r) == r \in behind \/ \E c \in RuleCalls : Comes(rcall[c], r)

Switching(q, r) == q.kind = "toggle" /\ r \in q.ids

\* The row of rule r that is listed is the one stored, but for a switch that has been moved and not been served.
RuleOnPage(r) ==
    ~Excused(r) =>
       /\ rule[r].state = "kept" <=> listed[r].state = "kept"
       /\ listed[r].state = "kept" =>
             /\ listed[r].topic = rule[r].topic /\ listed[r].scope = rule[r].scope /\ listed[r].parts = rule[r].parts
             /\ \A c \in RuleCalls : Switching(rcall[c], r) => listed[r].on = rcall[c].on
             /\ (\A c \in RuleCalls : ~Switching(rcall[c], r)) => listed[r].on = rule[r].on

\* A list that was read holds the rules there are, but for those written since.
ReadTrue(q) ==
    \A r \in RuleIds \ q.about : /\ rule[r].state = "kept" <=> \E x \in q.list : x.id = r
                                 /\ \A x \in q.list : x.id = r => x.row = rule[r]
CallSound(q) ==
    /\ q.kind \in {"none", "fetch", "answer"} => q.ids = {} /\ ~q.failed
    /\ q.kind = "toggle" => q.ids \subseteq q.about
    /\ q.kind = "answer" => ReadTrue(q)

RollOfRules ==
    /\ \A r \in RuleIds : RuleOnPage(r)
    /\ \A c \in RuleCalls : CallSound(rcall[c])

LEMMA RollOfRulesInit == RulesInit => RollOfRules
<1> SUFFICES ASSUME RulesInit PROVE RollOfRules
  OBVIOUS
<1>1. /\ \A r \in RuleIds : rule[r] = NoRuleRow /\ listed[r] = NoRuleRow
      /\ \A c \in RuleCalls : rcall[c] = NoCall
  BY DEF RulesInit
<1>2. /\ NoRuleRow.state = "none" /\ NoCall.kind = "none" /\ NoCall.ids = {} /\ NoCall.failed = FALSE
  BY DEF NoRuleRow, NoCall
<1>3. \A r \in RuleIds : RuleOnPage(r)
  BY <1>1, <1>2 DEF RuleOnPage
<1>4. \A c \in RuleCalls : CallSound(rcall[c])
  BY <1>1, <1>2 DEF CallSound
<1>5. QED
  BY <1>3, <1>4 DEF RollOfRules

\* Nothing on its way, the beginning of a request, and what a list needs.
LEMMA NoCallSound ==
  /\ \A r \in RuleIds : ~Comes(NoCall, r) /\ ~Switching(NoCall, r)
  /\ CallSound(NoCall) /\ NoCall.failed = FALSE /\ NoCall.crossed = FALSE
BY DEF NoCall, Comes, Switching, RuleWrites, CallSound

\* A rule whose row is listed and stored as before stays right, when its excuse does or what is switched is the same.
LEMMA RuleStays ==
  ASSUME NEW r \in RuleIds, RuleOnPage(r), rule'[r] = rule[r], listed'[r] = listed[r],
         Excused(r) => Excused(r)',
         ~Excused(r)' => \A c \in RuleCalls : /\ Switching(rcall[c], r)' <=> Switching(rcall[c], r)
                                              /\ Switching(rcall[c], r) => rcall'[c].on = rcall[c].on
  PROVE  RuleOnPage(r)'
BY DEF RuleOnPage

\* One request becomes q.
LEMMA OneCallChanges ==
  ASSUME NEW c \in RuleCalls, NEW q, NEW r \in RuleIds, rcall' = [rcall EXCEPT ![c] = q],
         rcall \in [RuleCalls -> RuleCallRow], r \in behind => r \in behind',
         Comes(rcall[c], r) => Comes(q, r) \/ r \in behind',
         Excused(r)' \/ (~Switching(q, r) /\ ~Switching(rcall[c], r))
  PROVE  /\ Excused(r) => Excused(r)'
         /\ ~Excused(r)' => \A x \in RuleCalls : /\ Switching(rcall[x], r)' <=> Switching(rcall[x], r)
                                                 /\ Switching(rcall[x], r) => rcall'[x].on = rcall[x].on
<1>1. rcall'[c] = q /\ \A x \in RuleCalls \ {c} : rcall'[x] = rcall[x]
  OBVIOUS
<1>2. \A x \in RuleCalls \ {c} : /\ Comes(rcall[x], r)' <=> Comes(rcall[x], r)
                                 /\ Switching(rcall[x], r)' <=> Switching(rcall[x], r)
  BY <1>1 DEF Comes, Switching
<1>3. /\ Comes(rcall[c], r)' <=> Comes(q, r)
      /\ Switching(rcall[c], r)' <=> Switching(q, r)
  BY <1>1 DEF Comes, Switching
<1>4. Excused(r) => Excused(r)'
  BY <1>2, <1>3 DEF Excused
<1>5. QED
  BY <1>1, <1>2, <1>3, <1>4 DEF Excused

\* The list that was read says the same of rules that are not written.
LEMMA SoundStays ==
  ASSUME NEW q, CallSound(q), UNCHANGED rule
  PROVE  CallSound(q)'
BY DEF CallSound, ReadTrue

LEMMA DialogListStep ==
  ASSUME RollOfRules, RulesTyped, UNCHANGED <<rule, listed, rcall, behind>>
  PROVE  RollOfRules'
<1>1. \A r \in RuleIds : RuleOnPage(r)'
  BY DEF RollOfRules, RuleOnPage, Excused, Comes, Switching
<1>2. \A c \in RuleCalls : CallSound(rcall[c])'
  BY SoundStays DEF RollOfRules
<1>3. QED
  BY <1>1, <1>2 DEF RollOfRules

\* A request is sent, and the page lists what it did.
LEMMA SendListStep ==
  ASSUME RollOfRules, RulesTyped, NEW c \in RuleCalls,
         \/ SaveRule(c)
         \/ \E r \in RuleIds : CloneRule(c, r) \/ DeleteRule(c, r)
         \/ \E on \in BOOLEAN : Bulk(c, "bulk", on)
         \/ Bulk(c, "bulkDelete", FALSE)
  PROVE  RollOfRules'
<1>1. UNCHANGED <<rule, listed, behind>> /\ rcall[c] = NoCall
  BY DEF SaveRule, CloneRule, DeleteRule, Bulk, Send, pageState
<1>2. PICK q : /\ rcall' = [rcall EXCEPT ![c] = q] /\ q.kind \in RuleWrites
  <2>2. CASE SaveRule(c)
    <3> DEFINE kind == IF form.id = NoRule THEN "post" ELSE "put"
               sent == [form EXCEPT !.parts = SentParts(@)]
    <3>1. rcall' = [rcall EXCEPT ![c] = [NoCall EXCEPT !.kind = kind, !.ids = {form.id}, !.form = sent, !.on = TRUE]]
      BY <2>2 DEF SaveRule, Send
    <3>2. kind \in RuleWrites
      BY DEF RuleWrites
    <3> HIDE DEF kind, sent
    <3>3. [NoCall EXCEPT !.kind = kind, !.ids = {form.id}, !.form = sent, !.on = TRUE].kind = kind
      BY DEF NoCall
    <3>4. QED
      BY <3>1, <3>2, <3>3
  <2>3. ASSUME NEW r \in RuleIds, CloneRule(c, r) PROVE \E q : rcall' = [rcall EXCEPT ![c] = q] /\ q.kind \in RuleWrites
    <3> DEFINE q == [NoCall EXCEPT !.kind = "copy", !.ids = {NoRule},
                              !.form = [Blank EXCEPT !.topic = listed[r].topic,
                                                   !.parts = listed[r].parts \ {"quick"}]]
    <3>1. rcall' = [rcall EXCEPT ![c] = q]
      BY <2>3 DEF CloneRule, Send
    <3>2. q.kind = "copy"
      BY DEF NoCall
    <3>3. QED
      BY <3>1, <3>2 DEF RuleWrites
  <2>4. ASSUME NEW r \in RuleIds, DeleteRule(c, r) PROVE \E q : rcall' = [rcall EXCEPT ![c] = q] /\ q.kind \in RuleWrites
    <3> DEFINE q == [NoCall EXCEPT !.kind = "delete", !.ids = {r}, !.about = {r}]
    <3>1. rcall' = [rcall EXCEPT ![c] = q]
      BY <2>4 DEF DeleteRule, Send
    <3>2. q.kind = "delete"
      BY DEF NoCall
    <3>3. QED
      BY <3>1, <3>2 DEF RuleWrites
  <2>5. ASSUME NEW kind \in {"bulk", "bulkDelete"}, NEW on \in BOOLEAN, Bulk(c, kind, on)
        PROVE  \E q : rcall' = [rcall EXCEPT ![c] = q] /\ q.kind \in RuleWrites
    <3> DEFINE q == [NoCall EXCEPT !.kind = kind, !.ids = picked, !.about = picked, !.on = on]
    <3>1. rcall' = [rcall EXCEPT ![c] = q]
      BY <2>5 DEF Bulk, Send
    <3>2. q.kind = kind
      BY DEF NoCall
    <3>3. QED
      BY <3>1, <3>2 DEF RuleWrites
  <2>6. QED
    BY <2>2, <2>3, <2>4, <2>5
<1>3. \A r \in RuleIds : ~Switching(q, r) /\ ~Switching(rcall[c], r) /\ ~Comes(rcall[c], r)
  BY <1>1, <1>2, NoCallSound DEF Switching, RuleWrites
<1>4. \A r \in RuleIds : RuleOnPage(r)'
  <2> SUFFICES ASSUME NEW r \in RuleIds PROVE RuleOnPage(r)'
    OBVIOUS
  <2>1. RuleOnPage(r)
    BY DEF RollOfRules
  <2>2. rcall \in [RuleCalls -> RuleCallRow]
    BY DEF RulesTyped
  <2>3. QED
    BY <1>1, <1>2, <1>3, <2>1, <2>2, OneCallChanges, RuleStays
<1>5. CallSound(q)
  BY <1>2 DEF CallSound, RuleWrites
<1>6. \A x \in RuleCalls : rcall'[x] = q \/ rcall'[x] = rcall[x]
  BY <1>2 DEF RulesTyped
<1>7. \A x \in RuleCalls : CallSound(rcall'[x])
  BY <1>5, <1>6 DEF RollOfRules
<1>8. \A x \in RuleCalls : CallSound(rcall[x])'
  BY <1>1, <1>7, SoundStays
<1>9. QED
  BY <1>4, <1>8 DEF RollOfRules

\* A switch is moved.
LEMMA ToggleListStep ==
  ASSUME RollOfRules, RulesTyped, NEW c \in RuleCalls, NEW r \in RuleIds, ToggleActive(c, r)
  PROVE  RollOfRules'
<1> DEFINE twice == {x \in RuleCalls : rcall[x].kind = "toggle" /\ r \in rcall[x].about}
           switched == [NoCall EXCEPT !.kind = "toggle", !.ids = {r}, !.about = {r}, !.on = ~listed[r].on,
                                     !.crossed = twice # {}]
<1>1. /\ UNCHANGED <<rule, behind>> /\ rcall[c] = NoCall /\ listed[r].state = "kept"
      /\ listed' = [listed EXCEPT ![r] = [listed[r] EXCEPT !.on = ~@]]
      /\ rcall' = [x \in RuleCalls |-> IF x = c THEN switched ELSE [rcall[x] EXCEPT !.crossed = @ \/ x \in twice]]
  BY DEF ToggleActive, OnList
<1>2. /\ rcall'[c].kind = "toggle" /\ rcall'[c].ids = {r} /\ rcall'[c].about = {r} /\ rcall'[c].on = ~listed[r].on
      /\ rcall'[c].failed = FALSE /\ (twice # {} => rcall'[c].crossed)
  BY <1>1 DEF NoCall
<1>3. ASSUME NEW x \in RuleCalls \ {c}
      PROVE  /\ rcall'[x].kind = rcall[x].kind /\ rcall'[x].ids = rcall[x].ids /\ rcall'[x].about = rcall[x].about
             /\ rcall'[x].on = rcall[x].on /\ rcall'[x].list = rcall[x].list
             /\ (rcall[x].failed => rcall'[x].failed) /\ (rcall'[x].failed => rcall[x].failed)
             /\ (rcall[x].crossed \/ x \in twice => rcall'[x].crossed)
  <2>1. rcall[x] \in RuleCallRow
    BY DEF RulesTyped
  <2>2. rcall'[x] = [rcall[x] EXCEPT !.crossed = @ \/ x \in twice]
    BY <1>1
  <2>3. rcall'[x].crossed = (rcall[x].crossed \/ x \in twice)
    BY <2>1, <2>2 DEF RuleCallRow
  <2>4. QED
    BY <2>1, <2>2, <2>3 DEF RuleCallRow
<1>4. ASSUME NEW k \in RuleIds, Excused(k) PROVE Excused(k)'
  <2>1. CASE k \in behind
    BY <1>1, <2>1 DEF Excused
  <2>2. ASSUME NEW x \in RuleCalls, Comes(rcall[x], k) PROVE Excused(k)'
    <3>1. x # c
      BY <1>1, <2>2, NoCallSound
    <3>2. Comes(rcall[x], k)'
      BY <1>3, <2>2, <3>1 DEF Comes
    <3>3. QED
      BY <3>2 DEF Excused
  <2>3. QED
    BY <1>4, <2>1, <2>2 DEF Excused
<1>5. \A k \in RuleIds \ {r} : RuleOnPage(k)'
  <2> SUFFICES ASSUME NEW k \in RuleIds \ {r} PROVE RuleOnPage(k)'
    OBVIOUS
  <2>1. RuleOnPage(k) /\ listed'[k] = listed[k]
    BY <1>1 DEF RollOfRules, RulesTyped
  <2>2. ~Switching(rcall[c], k) /\ ~Switching(rcall[c], k)'
    BY <1>1, <1>2, NoCallSound DEF Switching
  <2>3. \A x \in RuleCalls \ {c} : /\ Switching(rcall[x], k)' <=> Switching(rcall[x], k)
                                   /\ rcall'[x].on = rcall[x].on
    BY <1>3 DEF Switching
  <2>4. QED
    BY <1>1, <1>4, <2>1, <2>2, <2>3, RuleStays
<1>6. RuleOnPage(r)'
  <2> SUFFICES ASSUME ~Excused(r)' PROVE RuleOnPage(r)'
    BY DEF RuleOnPage
  <2>1. ~Excused(r) /\ RuleOnPage(r) /\ listed[r] \in RuleRow
    BY <1>4 DEF RollOfRules, RulesTyped
  <2>2. listed'[r] = [listed[r] EXCEPT !.on = ~@]
    BY <1>1 DEF RulesTyped
  <2>3. /\ listed'[r].state = "kept" /\ listed'[r].topic = listed[r].topic /\ listed'[r].scope = listed[r].scope
        /\ listed'[r].parts = listed[r].parts /\ listed'[r].on = ~listed[r].on
    BY <1>1, <2>1, <2>2 DEF RuleRow
  <2>4. ASSUME NEW x \in RuleCalls \ {c} PROVE ~Switching(rcall[x], r)'
    <3>1. SUFFICES ASSUME rcall[x].kind = "toggle", r \in rcall[x].ids PROVE FALSE
      BY <1>3 DEF Switching
    <3>2. r \in rcall[x].about
      BY <3>1 DEF RollOfRules, CallSound
    <3>3. x \in twice
      BY <3>1, <3>2
    <3>4. Comes(rcall[x], r)'
      BY <1>3, <3>1, <3>3 DEF Comes
    <3>5. QED
      BY <3>4 DEF Excused
  <2>5. Switching(rcall[c], r)' /\ rcall'[c].on = listed'[r].on
    BY <1>2, <2>3 DEF Switching
  <2>6. QED
    BY <1>1, <2>1, <2>3, <2>4, <2>5 DEF RuleOnPage
<1>7. \A x \in RuleCalls : CallSound(rcall[x])'
  <2>1. CallSound(rcall[c])'
    BY <1>2 DEF CallSound
  <2>2. ASSUME NEW x \in RuleCalls \ {c} PROVE CallSound(rcall[x])'
    <3>1. CallSound(rcall[x]) /\ UNCHANGED rule
      BY <1>1 DEF RollOfRules
    <3>2. rcall'[x].kind = "answer" => ReadTrue(rcall[x])'
      BY <1>3, <3>1 DEF CallSound, ReadTrue
    <3>3. QED
      BY <1>3, <3>1, <3>2 DEF CallSound
  <2>3. QED
    BY <2>1, <2>2
<1>8. QED
  BY <1>5, <1>6, <1>7 DEF RollOfRules

\* What is under way after row r is written: c about it, and each list that was read.
WriteHeard(c, r) ==
    \A x \in RuleCalls :
       /\ rcall'[x].kind = rcall[x].kind /\ rcall'[x].on = rcall[x].on /\ rcall'[x].list = rcall[x].list
       /\ (rcall[x].failed => rcall'[x].failed) /\ (rcall[x].crossed => rcall'[x].crossed)
       /\ (rcall'[x].failed => rcall[x].failed)
       /\ rcall[x].about \subseteq rcall'[x].about
       /\ rcall[x].kind = "answer" => r \in rcall'[x].about
       /\ x # c => rcall'[x].ids = rcall[x].ids
       /\ x = c => rcall'[x].ids = rcall[x].ids \ {r, NoRule} /\ r \in rcall'[x].about

LEMMA OvertakenHears ==
  ASSUME NEW asked \in [RuleCalls -> RuleCallRow], NEW r \in RuleIds, NEW x \in RuleCalls
  PROVE  LET q == Overtake(asked, r)[x] IN
         /\ q.kind = asked[x].kind /\ q.on = asked[x].on /\ q.list = asked[x].list /\ q.failed = asked[x].failed
         /\ q.crossed = asked[x].crossed /\ q.ids = asked[x].ids /\ asked[x].about \subseteq q.about
         /\ asked[x].kind = "answer" => r \in q.about
<1>1. asked[x] \in RuleCallRow
  OBVIOUS
<1>2. Overtake(asked, r)[x] = IF asked[x].kind = "answer" THEN [asked[x] EXCEPT !.about = @ \cup {r}] ELSE asked[x]
  BY DEF Overtake
<1>3. QED
  BY <1>1, <1>2 DEF RuleCallRow

LEMMA HandledHears ==
  ASSUME RulesTyped, NEW c \in RuleCalls, NEW r \in RuleIds, Handled(c, r)
  PROVE  WriteHeard(c, r)
<1> DEFINE q == [rcall[c] EXCEPT !.ids = @ \ {r, NoRule}, !.about = @ \cup {r}]
           asked == [rcall EXCEPT ![c] = q]
<1>1. rcall[c] \in RuleCallRow /\ q \in RuleCallRow /\ rcall \in [RuleCalls -> RuleCallRow]
  BY DEF RulesTyped, RuleCallRow
<1>2. asked \in [RuleCalls -> RuleCallRow] /\ asked[c] = q /\ \A x \in RuleCalls \ {c} : asked[x] = rcall[x]
  BY <1>1
<1>3. asked = [rcall EXCEPT ![c].ids = @ \ {r, NoRule}, ![c].about = @ \cup {r}]
  BY <1>1 DEF RuleCallRow
<1>4. rcall' = Overtake(asked, r)
  BY <1>3 DEF Handled
<1>5. /\ q.kind = rcall[c].kind /\ q.on = rcall[c].on /\ q.list = rcall[c].list /\ q.failed = rcall[c].failed
      /\ q.crossed = rcall[c].crossed /\ q.ids = rcall[c].ids \ {r, NoRule} /\ q.about = rcall[c].about \cup {r}
  BY <1>1 DEF RuleCallRow
<1>6. ASSUME NEW x \in RuleCalls
      PROVE  /\ rcall'[x].kind = asked[x].kind /\ rcall'[x].on = asked[x].on /\ rcall'[x].list = asked[x].list
             /\ rcall'[x].failed = asked[x].failed /\ rcall'[x].crossed = asked[x].crossed
             /\ rcall'[x].ids = asked[x].ids /\ asked[x].about \subseteq rcall'[x].about
             /\ asked[x].kind = "answer" => r \in rcall'[x].about
  BY <1>2, <1>4, OvertakenHears
<1>7. QED
  BY <1>2, <1>5, <1>6 DEF WriteHeard

\* What a write of r leaves right about the other rules, and of the lists that were read.
LEMMA WrittenElsewhere ==
  ASSUME RollOfRules, RulesTyped, NEW c, NEW r \in RuleIds, WriteHeard(c, r), UNCHANGED listed,
         \A k \in RuleIds \ {r} : rule'[k] = rule[k],
         behind \subseteq behind'
  PROVE  /\ \A k \in RuleIds \ {r} : RuleOnPage(k)'
         /\ \A x \in RuleCalls : CallSound(rcall[x])'
         /\ \A x \in RuleCalls \ {c} : Comes(rcall[x], r) => Comes(rcall[x], r)'
<1>1. \A k \in RuleIds, x \in RuleCalls : k # r \/ x # c => (Comes(rcall[x], k) => Comes(rcall[x], k)')
  <2> SUFFICES ASSUME NEW k \in RuleIds, NEW x \in RuleCalls, k # r \/ x # c, Comes(rcall[x], k)
               PROVE  Comes(rcall[x], k)'
    OBVIOUS
  <2>1. k \in rcall[x].ids => k \in rcall'[x].ids
    BY RuleEditorAssumption DEF WriteHeard
  <2>2. QED
    BY <2>1 DEF WriteHeard, Comes
<1>2. \A k \in RuleIds \ {r} : RuleOnPage(k)'
  <2> SUFFICES ASSUME NEW k \in RuleIds \ {r} PROVE RuleOnPage(k)'
    OBVIOUS
  <2>1. RuleOnPage(k)
    BY DEF RollOfRules
  <2>2. Excused(k) => Excused(k)'
    BY <1>1 DEF Excused
  <2>3. \A x \in RuleCalls : /\ Switching(rcall[x], k)' <=> Switching(rcall[x], k)
                             /\ rcall'[x].on = rcall[x].on
    BY RuleEditorAssumption DEF WriteHeard, Switching
  <2>4. QED
    BY <2>1, <2>2, <2>3, RuleStays
<1>3. \A x \in RuleCalls : CallSound(rcall[x])'
  <2> SUFFICES ASSUME NEW x \in RuleCalls PROVE CallSound(rcall[x])'
    OBVIOUS
  <2>1. CallSound(rcall[x])
    BY DEF RollOfRules
  <2>2. rcall'[x].ids \subseteq rcall[x].ids
    BY DEF WriteHeard
  <2>3. ASSUME rcall'[x].kind = "answer", NEW k \in RuleIds \ rcall'[x].about
        PROVE  /\ rule'[k].state = "kept" <=> \E y \in rcall'[x].list : y.id = k
               /\ \A y \in rcall'[x].list : y.id = k => y.row = rule'[k]
    <3>1. k # r /\ k \notin rcall[x].about /\ rcall[x].kind = "answer" /\ rcall'[x].list = rcall[x].list
      BY <2>3 DEF WriteHeard
    <3>2. rule'[k] = rule[k]
      BY <3>1
    <3>3. QED
      BY <2>1, <3>1, <3>2 DEF CallSound, ReadTrue
  <2>4. QED
    BY <2>1, <2>2, <2>3 DEF WriteHeard, CallSound, ReadTrue
<1>4. QED
  BY <1>1, <1>2, <1>3

\* The service writes, or somebody else does.
LEMMA WriteListStep ==
  ASSUME TopicInv, RollOfRules, NEW r \in RuleIds,
         (\E c \in RuleCalls : Serve(c, r) \/ CreateRule(c, r)) \/ WriteElsewhere(r)
  PROVE  RollOfRules'
<1>1. RulesTyped /\ RuleOnPage(r)
  BY DEF TopicInv, RollOfRules
<1>2. UNCHANGED listed /\ behind \subseteq behind' /\ \A k \in RuleIds \ {r} : rule'[k] = rule[k]
  BY <1>1 DEF Serve, CreateRule, WriteElsewhere, pageState, RulesTyped
<1>3. CASE WriteElsewhere(r)
  <2>1. r \in behind' /\ rcall' = Overtake(rcall, r)
    BY <1>3 DEF WriteElsewhere
  <2>2. \A x \in RuleCalls : rcall[x].ids = rcall'[x].ids
    BY <1>1, <2>1, OvertakenHears DEF RulesTyped
  <2>3. \A c : c \notin RuleCalls => WriteHeard(c, r)
    BY <1>1, <2>1, OvertakenHears DEF RulesTyped, WriteHeard
  <2>4. \E c : c \notin RuleCalls
    BY NoSetContainsEverything
  <2>5. RuleOnPage(r)'
    BY <2>1 DEF RuleOnPage, Excused
  <2>6. QED
    BY <1>1, <1>2, <2>3, <2>4, <2>5, WrittenElsewhere DEF RollOfRules
<1>4. ASSUME NEW c \in RuleCalls, Serve(c, r) \/ CreateRule(c, r) PROVE RollOfRules'
  <2>1. WriteHeard(c, r) /\ rcall[c] \in RuleCallRow
    BY <1>1, <1>4, HandledHears DEF Serve, CreateRule, RulesTyped
  <2>2. /\ \A k \in RuleIds \ {r} : RuleOnPage(k)'
        /\ \A x \in RuleCalls : CallSound(rcall[x])'
        /\ \A x \in RuleCalls \ {c} : Comes(rcall[x], r) => Comes(rcall[x], r)'
    BY <1>1, <1>2, <2>1, WrittenElsewhere
  <2>3. SUFFICES ASSUME ~Excused(r)' PROVE RuleOnPage(r)'
    BY <2>2 DEF RollOfRules, RuleOnPage
  <2>4. rcall[c].kind \notin RuleWrites /\ rcall[c].kind \notin {"fetch", "answer"}
        /\ ~(rcall[c].kind = "toggle" /\ rcall[c].failed)
    <3>1. ~Comes(rcall[c], r)'
      BY <2>3 DEF Excused
    <3>2. QED
      BY <2>1, <3>1 DEF Comes, WriteHeard
  <2>5. rcall[c].kind = "toggle"
    <3>1. rcall[c].kind # "none"
      <4>1. rcall[c].ids # {}
        BY <1>4 DEF Serve, CreateRule
      <4>2. QED
        BY <4>1 DEF RollOfRules, CallSound
    <3>2. QED
      BY <2>1, <2>4, <3>1 DEF RuleCallRow, RuleWrites
  <2>6. CASE CreateRule(c, r)
    <3>1. NoRule \in rcall[c].ids
      BY <2>6 DEF CreateRule
    <3>2. rcall[c].ids \subseteq RuleIds
      BY <2>1, <2>5 DEF RollOfRules, CallSound, RuleCallRow
    <3>3. QED
      BY <3>1, <3>2, RuleEditorAssumption
  <2>7. CASE Serve(c, r)
    <3>1. /\ r \in rcall[c].ids /\ rule[r].state = "kept"
          /\ rule' = [rule EXCEPT ![r] = Applied(c, r)]
          /\ (rcall[c].crossed => r \in behind')
      BY <2>7 DEF Serve, StoredRules
    <3>2. ~Excused(r)
      <4>1. ~Comes(rcall[c], r)
        BY <2>3, <2>4, <3>1 DEF Comes, Excused
      <4>2. QED
        BY <1>2, <2>2, <2>3, <4>1 DEF Excused
    <3>3. /\ listed[r].state = "kept" /\ listed[r].topic = rule[r].topic /\ listed[r].scope = rule[r].scope
          /\ listed[r].parts = rule[r].parts /\ listed[r].on = rcall[c].on
          /\ \A x \in RuleCalls : Switching(rcall[x], r) => listed[r].on = rcall[x].on
      BY <1>1, <2>5, <3>1, <3>2 DEF RuleOnPage, Switching
    <3>4. Applied(c, r) = [rule[r] EXCEPT !.on = rcall[c].on]
      BY <2>5 DEF Applied
    <3>5. rule[r] \in RuleRow /\ rule'[r] = [rule[r] EXCEPT !.on = rcall[c].on]
      BY <1>1, <3>1, <3>4 DEF RulesTyped
    <3>6. /\ rule'[r].state = "kept" /\ rule'[r].topic = rule[r].topic /\ rule'[r].scope = rule[r].scope
          /\ rule'[r].parts = rule[r].parts /\ rule'[r].on = rcall[c].on
      BY <3>1, <3>5 DEF RuleRow
    <3>7. \A x \in RuleCalls : Switching(rcall[x], r)' => Switching(rcall[x], r) /\ rcall'[x].on = rcall[x].on
      BY <2>1 DEF WriteHeard, Switching
    <3>8. QED
      BY <1>2, <3>3, <3>6, <3>7 DEF RuleOnPage
  <2>8. QED
    BY <1>4, <2>6, <2>7
<1>5. QED
  BY <1>3, <1>4

\* The service turns a request down, its answer is lost, or the list is read.
LEMMA UnservedListStep ==
  ASSUME RollOfRules, RulesTyped, NEW c \in RuleCalls,
         (\E r \in RuleIds \cup {NoRule} : NotServed(c, r)) \/ AnswerLost(c) \/ GetRules(c)
  PROVE  RollOfRules'
<1>1. UNCHANGED <<rule, listed, behind>> /\ rcall[c] \in RuleCallRow /\ rcall \in [RuleCalls -> RuleCallRow]
  BY DEF NotServed, AnswerLost, GetRules, pageState, RulesTyped
<1>2. SUFFICES ASSUME NEW q, rcall' = [rcall EXCEPT ![c] = q], CallSound(q),
                      \A r \in RuleIds : /\ Comes(rcall[c], r) => Comes(q, r)
                                         /\ Comes(q, r) \/ (~Switching(q, r) /\ ~Switching(rcall[c], r))
               PROVE  RollOfRules'
  <2>1. CASE GetRules(c)
    <3> DEFINE answers == {[id |-> r, row |-> rule[r]] : r \in StoredRules}
               q == [NoCall EXCEPT !.kind = "answer", !.list = answers]
    <3>1. rcall' = [rcall EXCEPT ![c] = q] /\ rcall[c].kind = "fetch"
      BY <2>1 DEF GetRules
    <3>2. q.kind = "answer" /\ q.list = answers /\ q.ids = {} /\ q.failed = FALSE
      BY DEF NoCall
    <3>3. ReadTrue(q)
      <4>1. ASSUME NEW r \in RuleIds PROVE rule[r].state = "kept" <=> \E x \in answers : x.id = r
        <5>1. rule[r].state = "kept" => [id |-> r, row |-> rule[r]] \in answers
          BY DEF StoredRules
        <5>2. \A x \in answers : \E k \in StoredRules : x = [id |-> k, row |-> rule[k]]
          OBVIOUS
        <5>3. QED
          BY <5>1, <5>2 DEF StoredRules
      <4>2. \A r \in RuleIds : \A x \in answers : x.id = r => x.row = rule[r]
        OBVIOUS
      <4>3. QED
        BY <3>2, <4>1, <4>2 DEF ReadTrue
    <3>4. CallSound(q) /\ \A r \in RuleIds : Comes(q, r)
      BY <3>2, <3>3 DEF CallSound, Comes
    <3> HIDE DEF q
    <3>5. QED
      BY <1>2, <3>1, <3>4
  <2>2. CASE (\E r \in RuleIds \cup {NoRule} : NotServed(c, r)) \/ AnswerLost(c)
    <3>1. PICK ids \in SUBSET rcall[c].ids :
                     /\ rcall' = [rcall EXCEPT ![c] = [rcall[c] EXCEPT !.ids = ids, !.failed = TRUE]]
                     /\ rcall[c].kind \notin {"none", "fetch", "answer"}
      <4>1. ASSUME NEW r \in RuleIds \cup {NoRule}, NotServed(c, r)
            PROVE  \E ids \in SUBSET rcall[c].ids :
                      /\ rcall' = [rcall EXCEPT ![c] = [rcall[c] EXCEPT !.ids = ids, !.failed = TRUE]]
                      /\ rcall[c].kind \notin {"none", "fetch", "answer"}
        <5>1. rcall[c].ids # {} /\ rcall' = [rcall EXCEPT ![c].ids = @ \ {r}, ![c].failed = TRUE]
          BY <4>1 DEF NotServed
        <5>2. rcall' = [rcall EXCEPT ![c] = [rcall[c] EXCEPT !.ids = rcall[c].ids \ {r}, !.failed = TRUE]]
          BY <1>1, <5>1 DEF RuleCallRow
        <5>3. rcall[c].kind \notin {"none", "fetch", "answer"}
          BY <5>1 DEF RollOfRules, CallSound
        <5>4. rcall[c].ids \ {r} \in SUBSET rcall[c].ids
          OBVIOUS
        <5>5. QED
          BY <5>2, <5>3, <5>4
      <4>2. ASSUME AnswerLost(c)
            PROVE  \E ids \in SUBSET rcall[c].ids :
                      /\ rcall' = [rcall EXCEPT ![c] = [rcall[c] EXCEPT !.ids = ids, !.failed = TRUE]]
                      /\ rcall[c].kind \notin {"none", "fetch", "answer"}
        <5>1. rcall' = [rcall EXCEPT ![c].failed = TRUE] /\ rcall[c].kind \notin {"none", "fetch", "answer"}
          BY <4>2 DEF AnswerLost
        <5>2. rcall' = [rcall EXCEPT ![c] = [rcall[c] EXCEPT !.ids = rcall[c].ids, !.failed = TRUE]]
          BY <1>1, <5>1 DEF RuleCallRow
        <5>3. QED
          BY <5>1, <5>2
      <4>3. QED
        BY <2>2, <4>1, <4>2
    <3> DEFINE q == [rcall[c] EXCEPT !.ids = ids, !.failed = TRUE]
    <3>2. /\ q.kind = rcall[c].kind /\ q.about = rcall[c].about /\ q.ids = ids /\ q.failed = TRUE
          /\ rcall' = [rcall EXCEPT ![c] = q]
      BY <1>1, <3>1 DEF RuleCallRow
    <3> HIDE DEF q
    <3>3. CallSound(q)
      BY <3>1, <3>2 DEF RollOfRules, CallSound
    <3>4. \A r \in RuleIds : /\ Comes(rcall[c], r) => Comes(q, r)
                             /\ Comes(q, r) \/ (~Switching(q, r) /\ ~Switching(rcall[c], r))
      BY <3>2 DEF Comes, Switching
    <3>5. QED
      BY <1>2, <3>2, <3>3, <3>4
  <2>3. QED
    BY <2>1, <2>2
<1>3. rcall'[c] = q /\ \A x \in RuleCalls \ {c} : rcall'[x] = rcall[x]
  BY <1>1, <1>2
<1>4. \A r \in RuleIds : RuleOnPage(r)'
  <2> SUFFICES ASSUME NEW r \in RuleIds PROVE RuleOnPage(r)'
    OBVIOUS
  <2>1. RuleOnPage(r)
    BY DEF RollOfRules
  <2>2. Comes(q, r) => Excused(r)'
    <3>1. Comes(q, r) => Comes(rcall[c], r)'
      BY <1>3 DEF Comes
    <3>2. QED
      BY <3>1 DEF Excused
  <2>3. QED
    BY <1>1, <1>2, <2>1, <2>2, OneCallChanges, RuleStays
<1>5. \A x \in RuleCalls : CallSound(rcall'[x])
  BY <1>2, <1>3 DEF RollOfRules
<1>6. \A x \in RuleCalls : CallSound(rcall[x])'
  BY <1>1, <1>5, SoundStays
<1>7. QED
  BY <1>4, <1>6 DEF RollOfRules

\* The answer to a request, after which the page lists anew, believes what it shows, or says what it may have missed.
LEMMA HeardListStep ==
  ASSUME RollOfRules, RulesTyped, NEW c \in RuleCalls, Saved(c) \/ Done(c) \/ Failed(c) \/ FetchFails(c)
  PROVE  RollOfRules'
<1>1. UNCHANGED <<rule, listed>> /\ rcall[c] \in RuleCallRow /\ rcall \in [RuleCalls -> RuleCallRow]
  BY DEF Saved, Done, Failed, FetchFails, RulesTyped
<1> DEFINE fetching == [NoCall EXCEPT !.kind = "fetch"]
<1>2. fetching.kind = "fetch" /\ fetching.ids = {} /\ fetching.failed = FALSE
  BY DEF NoCall
<1>3. CallSound(fetching) /\ \A r \in RuleIds : Comes(fetching, r)
  BY <1>2 DEF CallSound, Comes
<1> HIDE DEF fetching
<1>4. PICK q \in {fetching, NoCall} : rcall' = [rcall EXCEPT ![c] = q]
  BY DEF Saved, Done, Failed, FetchFails, Fetch, Forget, fetching
<1>5. rcall'[c] = q /\ \A x \in RuleCalls \ {c} : rcall'[x] = rcall[x]
  BY <1>1, <1>4
<1>6. q = fetching \/ FetchFails(c) \/ rcall[c].ids = {}
  BY DEF Saved, Done, Failed, AnswerTo
<1>7. ASSUME q # fetching, ~FetchFails(c), NEW r \in RuleIds, Comes(rcall[c], r) PROVE r \in behind'
  <2>1. rcall'[c] = NoCall /\ NoCall # fetching
    BY <1>4, <1>5, <1>7
  <2>2. CASE Failed(c)
    <3>1. rcall[c].kind \notin {"fetch", "answer"}
      BY <2>2 DEF Failed, RollOfRules, CallSound
    <3>2. rcall[c].kind # "toggle"
      BY <1>1, <2>1, <2>2 DEF Failed, Fetch, fetching
    <3>3. behind' = behind \cup rcall[c].about
      BY <2>2, <3>2 DEF Failed
    <3>4. QED
      BY <1>7, <3>1, <3>2, <3>3 DEF Comes
  <2>3. CASE Saved(c)
    BY <1>1, <2>1, <2>3 DEF Saved, Fetch, fetching
  <2>4. CASE Done(c)
    <3>1. rcall[c].kind = "toggle" /\ ~rcall[c].failed /\ rcall[c].ids = {}
      BY <1>1, <2>1, <2>4 DEF Done, Fetch, fetching, AnswerTo
    <3>2. QED
      BY <1>7, <3>1 DEF Comes, RuleWrites
  <2>5. QED
    BY <1>7, <2>2, <2>3, <2>4
<1>8. behind \subseteq behind' \/ FetchFails(c)
  BY DEF Saved, Done, Failed
<1>9. \A r \in RuleIds : RuleOnPage(r)'
  <2> SUFFICES ASSUME NEW r \in RuleIds PROVE RuleOnPage(r)'
    OBVIOUS
  <2>1. CASE q = fetching
    <3>1. Comes(rcall[c], r)'
      BY <1>3, <1>5, <2>1 DEF Comes
    <3>2. QED
      BY <3>1 DEF RuleOnPage, Excused
  <2>2. CASE FetchFails(c)
    <3>1. r \in behind'
      BY <2>2 DEF FetchFails
    <3>2. QED
      BY <3>1 DEF RuleOnPage, Excused
  <2>3. CASE q # fetching /\ ~FetchFails(c)
    <3>1. q = NoCall /\ rcall[c].ids = {} /\ (r \in behind => r \in behind')
      BY <1>4, <1>6, <1>8, <2>3
    <3>2. ~Switching(q, r) /\ ~Switching(rcall[c], r)
      BY <3>1, NoCallSound DEF Switching
    <3>3. Comes(rcall[c], r) => r \in behind'
      BY <1>7, <2>3
    <3>4. RuleOnPage(r)
      BY DEF RollOfRules
    <3>5. QED
      BY <1>1, <1>4, <3>1, <3>2, <3>3, <3>4, OneCallChanges, RuleStays
  <2>4. QED
    BY <2>1, <2>2, <2>3
<1>10. \A x \in RuleCalls : CallSound(rcall'[x])
  BY <1>3, <1>4, <1>5, NoCallSound DEF RollOfRules
<1>11. \A x \in RuleCalls : CallSound(rcall[x])'
  BY <1>1, <1>10, SoundStays
<1>12. QED
  BY <1>9, <1>11 DEF RollOfRules

\* The list that was read is shown: what is being switched meanwhile has crossed it.
LEMMA ListShownStep ==
  ASSUME RollOfRules, RulesTyped, NEW c \in RuleCalls, SetRules(c)
  PROVE  RollOfRules'
<1> DEFINE answers == rcall[c].list
<1>1. /\ UNCHANGED rule /\ rcall[c].kind = "answer" /\ behind' = rcall[c].about
      /\ listed' = [r \in RuleIds |-> IF \E x \in answers : x.id = r
                                      THEN (CHOOSE x \in answers : x.id = r).row ELSE NoRuleRow]
      /\ rcall' = [x \in RuleCalls |-> IF x = c THEN NoCall
                                       ELSE [rcall[x] EXCEPT !.crossed = @ \/ rcall[x].kind = "toggle"]]
  BY DEF SetRules
<1>2. rcall'[c] = NoCall
  BY <1>1
<1>3. ASSUME NEW x \in RuleCalls \ {c}
      PROVE  /\ rcall'[x].kind = rcall[x].kind /\ rcall'[x].ids = rcall[x].ids /\ rcall'[x].about = rcall[x].about
             /\ rcall'[x].list = rcall[x].list
             /\ (rcall[x].failed => rcall'[x].failed) /\ (rcall'[x].failed => rcall[x].failed)
             /\ (rcall[x].kind = "toggle" => rcall'[x].crossed)
  <2>1. rcall[x] \in RuleCallRow
    BY DEF RulesTyped
  <2>2. rcall'[x] = [rcall[x] EXCEPT !.crossed = @ \/ rcall[x].kind = "toggle"]
    BY <1>1
  <2>3. rcall'[x].crossed = (rcall[x].crossed \/ rcall[x].kind = "toggle")
    BY <2>1, <2>2 DEF RuleCallRow
  <2>4. QED
    BY <2>1, <2>2, <2>3 DEF RuleCallRow
<1>4. ASSUME NEW r \in RuleIds, ~Excused(r)'
      PROVE  /\ rule'[r].state = "kept" <=> listed'[r].state = "kept"
             /\ listed'[r].state = "kept" => listed'[r] = rule'[r]
             /\ \A x \in RuleCalls : ~Switching(rcall[x], r)'
  <2>1. r \notin rcall[c].about
    BY <1>1, <1>4 DEF Excused
  <2>2. ReadTrue(rcall[c])
    BY <1>1 DEF RollOfRules, CallSound
  <2>5. \A x \in RuleCalls : ~Switching(rcall[x], r)'
    <3> SUFFICES ASSUME NEW x \in RuleCalls PROVE ~Switching(rcall[x], r)'
      OBVIOUS
    <3>1. CASE x = c
      BY <1>2, <3>1 DEF Switching, NoCall
    <3>2. CASE x # c
      <4>1. ~Comes(rcall[x], r)'
        BY <1>4 DEF Excused
      <4>2. QED
        BY <1>3, <3>2, <4>1 DEF Comes, Switching
    <3>3. QED
      BY <3>1, <3>2
  <2>3. CASE \E x \in answers : x.id = r
    <3>1. PICK x \in answers : x.id = r /\ listed'[r] = x.row
      BY <1>1, <2>3
    <3>2. x.row = rule[r] /\ rule[r].state = "kept"
      BY <2>1, <2>2, <3>1 DEF ReadTrue
    <3>3. listed'[r] = rule'[r]
      BY <1>1, <3>1, <3>2
    <3>4. QED
      BY <1>4, <3>3, <2>5
  <2>4. CASE ~\E x \in answers : x.id = r
    <3>1. listed'[r] = NoRuleRow /\ rule[r].state # "kept"
      BY <1>1, <2>1, <2>2, <2>4 DEF ReadTrue
    <3>2. listed'[r].state # "kept"
      BY <3>1 DEF NoRuleRow
    <3>3. QED
      BY <1>1, <3>1, <3>2, <2>5
  <2>6. QED
    BY <2>3, <2>4
<1>5. \A r \in RuleIds : RuleOnPage(r)'
  BY <1>4 DEF RuleOnPage
<1>6. \A x \in RuleCalls : CallSound(rcall[x])'
  <2>1. CallSound(rcall[c])'
    <3>1. rcall'[c].kind = "none" /\ rcall'[c].ids = {} /\ rcall'[c].failed = FALSE
      BY <1>2 DEF NoCall
    <3>2. QED
      BY <3>1 DEF CallSound
  <2>2. ASSUME NEW x \in RuleCalls \ {c} PROVE CallSound(rcall[x])'
    <3>1. CallSound(rcall[x]) /\ UNCHANGED rule
      BY <1>1 DEF RollOfRules
    <3>2. rcall'[x].kind = "answer" => ReadTrue(rcall[x])'
      BY <1>3, <3>1 DEF CallSound, ReadTrue
    <3>3. QED
      BY <1>3, <3>1, <3>2 DEF CallSound
  <2>3. QED
    BY <2>1, <2>2
<1>7. QED
  BY <1>5, <1>6 DEF RollOfRules

LEMMA RollOfRulesStep ==
  ASSUME TopicInv, RollOfRules, [RulesNext]_ruleVars
  PROVE  RollOfRules'
<1>1. RulesTyped
  BY DEF TopicInv
<1>2. CASE UNCHANGED ruleVars
  BY <1>1, <1>2, DialogListStep DEF ruleVars, pageState
<1>3. CASE \/ OpenNew \/ (\E parts \in {{}, {"sequence"} \cap Parts} : ApplyTemplate(parts))
           \/ (\E r \in RuleIds : EditRule(r)) \/ WriteAnswer \/ SwitchSequence \/ ChooseChannel \/ CloseForm \/ Select
  <2>1. UNCHANGED <<rule, listed, rcall, behind>>
    BY <1>3 DEF OpenNew, ApplyTemplate, EditRule, WriteAnswer, SwitchSequence, TogglePart, ChooseChannel, ChangeForm,
       CloseForm, Select
  <2>2. QED
    BY <1>1, <2>1, DialogListStep
<1>4. ASSUME NEW c \in RuleCalls, AskFrom(c) PROVE RollOfRules'
  BY <1>1, <1>4, SendListStep, ToggleListStep DEF AskFrom
<1>5. ASSUME NEW c \in RuleCalls,
             (\E r \in RuleIds \cup {NoRule} : NotServed(c, r)) \/ AnswerLost(c) \/ GetRules(c)
      PROVE RollOfRules'
  BY <1>1, <1>5, UnservedListStep
<1>6. ASSUME NEW c \in RuleCalls, Saved(c) \/ Done(c) \/ Failed(c) \/ SetRules(c) \/ FetchFails(c) PROVE RollOfRules'
  BY <1>1, <1>6, HeardListStep, ListShownStep
<1>7. CASE RulesNext
  BY <1>3, <1>4, <1>5, <1>6, <1>7, WriteListStep DEF RulesNext
<1>8. QED
  BY <1>2, <1>7

LEMMA RulesShow ==
  ASSUME TopicInv, RollOfRules
  PROVE  RulesListed
<1> SUFFICES ASSUME QuietPage, NEW r \in RuleIds \ behind
             PROVE  /\ r \in StoredRules <=> r \in OnList
                    /\ r \in OnList => listed[r] = rule[r]
  BY DEF RulesListed
<1>1. \A c \in RuleCalls : ~Comes(rcall[c], r) /\ ~Switching(rcall[c], r)
  BY NoCallSound DEF QuietPage
<1>2. /\ rule[r].state = "kept" <=> listed[r].state = "kept"
      /\ listed[r].state = "kept" =>
             /\ listed[r].topic = rule[r].topic /\ listed[r].scope = rule[r].scope /\ listed[r].parts = rule[r].parts
             /\ listed[r].on = rule[r].on
  BY <1>1 DEF RollOfRules, RuleOnPage, Excused
<1>3. rule[r] \in RuleRow /\ listed[r] \in RuleRow
  BY DEF TopicInv, RulesTyped
<1>4. QED
  BY <1>2, <1>3 DEF StoredRules, OnList, RuleRow

-----------------------------------------------------------------------------
(* MessageSequence: which objects the dialog may write in.                    *)

MessageKinds == Rich \cup {Plain}
SaidMessage == [kind : MessageKinds, says : Nat, entries : Seq(Nat)]
\* A sequence as it is stored or read.
Said(ms) ==
    /\ ms \in Seq(SaidMessage)
    /\ \A i \in DOMAIN ms : Len(ms[i].entries) \in IF ms[i].kind = Plain THEN {0} ELSE 1..MostEntries
WholeSaid(ms) == Said(ms) /\ Len(ms) \in LeastMessages..MostMessages

Makers == SeqRules \cup {NoSeqRule}
CellNames == Nat \X Makers \X Nat \X Nat
CellSet(D) == [kind : MessageKinds \cup {"list", "entry"}, says : Nat, refs : Seq(D)]
\* The object a, c, among those of D: a message that is not plain has a list, a list has entries, and nothing that
\* was made later is of a template's.
SoundCell(c, a, D) ==
    /\ c \in CellSet(D)
    /\ a[4] = 0 => /\ c.kind \in MessageKinds
                   /\ c.kind = Plain => c.refs = <<>>
                   /\ c.kind # Plain => Len(c.refs) = 1 /\ c.refs[1][4] = 1
    /\ a[4] = 1 => Len(c.refs) \in 1..MostEntries /\ \A j \in DOMAIN c.refs : c.refs[j][4] >= 2
    /\ a[1] # 0 => \A j \in DOMAIN c.refs : c.refs[j][1] # 0
Heap(cs, b) ==
    /\ cs = [a \in DOMAIN cs |-> cs[a]]
    /\ \A a \in DOMAIN cs : a \in CellNames /\ a[1] <= b /\ SoundCell(cs[a], a, DOMAIN cs)

\* What the dialog may write in, when the rows were read as n and those of ro were opened since: neither a template
\* nor a row that was not opened.
Writable(a, n, ro) == a[1] # 0 /\ ~(a[1] = n /\ a[2] \in SeqRules \ ro)
Enclosed(cs, n, ro) == \A a \in DOMAIN cs : Writable(a, n, ro) => \A j \in DOMAIN cs[a].refs : Writable(cs[a].refs[j], n, ro)
\* The objects of a sequence are as they were made.
Pristine(cs, n, r, ms) == \A a \in Names(n, r, ms) : a \in DOMAIN cs /\ cs[a] = Made(a, ms[a[3]])
RowsCells(cs, n, ra, ro) ==
    /\ \A r \in SeqRules : \A i \in DOMAIN ra[r] :
         /\ <<n, r, i, 0>> \in DOMAIN cs
         /\ cs[<<n, r, i, 0>>].kind = ra[r][i].kind /\ cs[<<n, r, i, 0>>].says = ra[r][i].says
    /\ \A r \in SeqRules \ ro : Pristine(cs, n, r, ra[r])
    /\ Pristine(cs, 0, NoSeqRule, TemplateSays)
    /\ \A a \in DOMAIN cs : a[1] = n /\ a[2] \in SeqRules => a \in Names(n, a[2], ra[a[2]])
    /\ Enclosed(cs, n, ro)

SequencesTyped ==
    /\ batches \in Nat /\ touches \in 0..MaxTouches /\ rowsOpened \subseteq SeqRules
    /\ DOMAIN storedMessages = SeqRules /\ DOMAIN rowCells = SeqRules
    /\ storedMessages = [r \in SeqRules |-> storedMessages[r]]
    /\ \A r \in SeqRules : /\ storedMessages[r] = <<>> \/ WholeSaid(storedMessages[r])
                           /\ readAs[r] = <<>> \/ WholeSaid(readAs[r])
    /\ builder \in [shown : BOOLEAN, id : Makers, lines : Seq(DOMAIN cells)]
    /\ Len(builder.lines) \in LeastMessages..MostMessages
    /\ \A i \in DOMAIN builder.lines : builder.lines[i][4] = 0
RowsReadAs(n) ==
    /\ \A r \in SeqRules : rowCells[r] = Lines(n, r, readAs[r])
    /\ RowsCells(cells, n, readAs, rowsOpened)
    /\ \A i \in DOMAIN builder.lines : Writable(builder.lines[i], n, rowsOpened)
SeqInv == Heap(cells, batches) /\ SequencesTyped /\ \E n \in 1..batches : RowsReadAs(n)

-----------------------------------------------------------------------------
(* The objects that a sequence is made of.                                    *)

LEMMA SaidIs ==
  ASSUME NEW ms, Said(ms), NEW i \in DOMAIN ms
  PROVE  /\ i \in Nat /\ ms[i] \in SaidMessage /\ Len(ms[i].entries) \in Nat
         /\ ms[i].kind = Plain => ms[i].entries = <<>>
         /\ ms[i].kind # Plain => Len(ms[i].entries) \in 1..MostEntries
<1>1. ms \in Seq(SaidMessage) /\ Len(ms[i].entries) \in IF ms[i].kind = Plain THEN {0} ELSE 1..MostEntries
  BY DEF Said
<1>2. ms[i] \in SaidMessage /\ i \in Nat
  BY <1>1
<1>3. ms[i].entries \in Seq(Nat)
  BY <1>2 DEF SaidMessage
<1>4. \A e \in Seq(Nat) : Len(e) \in Nat /\ (Len(e) = 0 => e = <<>>)
  OBVIOUS
<1>5. QED
  BY <1>1, <1>2, <1>3, <1>4

LEMMA NamesAre ==
  ASSUME NEW n, NEW r, NEW ms, Said(ms)
  PROVE  /\ \A a \in Names(n, r, ms) :
              /\ a = <<n, r, a[3], a[4]>> /\ a[1] = n /\ a[2] = r /\ a[3] \in DOMAIN ms
              /\ a[4] = 0 \/ (ms[a[3]].kind # Plain /\ a[4] \in 1..(Len(ms[a[3]].entries) + 1))
         /\ \A i \in DOMAIN ms : /\ <<n, r, i, 0>> \in Names(n, r, ms)
                                 /\ ms[i].kind # Plain =>
                                      \A p \in 1..(Len(ms[i].entries) + 1) : <<n, r, i, p>> \in Names(n, r, ms)
<1>1. ASSUME NEW i \in DOMAIN ms
      PROVE  /\ i \in Nat /\ ms[i] \in SaidMessage /\ Len(ms[i].entries) \in Nat
             /\ ms[i].kind = Plain => ms[i].entries = <<>>
             /\ ms[i].kind # Plain => Len(ms[i].entries) \in 1..MostEntries
  BY SaidIs
<1>2. ASSUME NEW a \in Names(n, r, ms)
      PROVE  /\ a = <<n, r, a[3], a[4]>> /\ a[1] = n /\ a[2] = r /\ a[3] \in DOMAIN ms
             /\ a[4] = 0 \/ (ms[a[3]].kind # Plain /\ a[4] \in 1..(Len(ms[a[3]].entries) + 1))
  <2>1. PICK i \in DOMAIN ms : \E p \in IF ms[i].kind = Plain THEN {0} ELSE 0..(Len(ms[i].entries) + 1) :
                                 a = <<n, r, i, p>>
    BY DEF Names
  <2>2. PICK p \in IF ms[i].kind = Plain THEN {0} ELSE 0..(Len(ms[i].entries) + 1) : a = <<n, r, i, p>>
    BY <2>1
  <2>3. a[1] = n /\ a[2] = r /\ a[3] = i /\ a[4] = p
    BY <2>2
  <2>4. QED
    BY <1>1, <2>2, <2>3
<1>3. ASSUME NEW i \in DOMAIN ms
      PROVE  /\ <<n, r, i, 0>> \in Names(n, r, ms)
             /\ ms[i].kind # Plain => \A p \in 1..(Len(ms[i].entries) + 1) : <<n, r, i, p>> \in Names(n, r, ms)
  <2>1. \A p \in IF ms[i].kind = Plain THEN {0} ELSE 0..(Len(ms[i].entries) + 1) : <<n, r, i, p>> \in Names(n, r, ms)
    BY DEF Names
  <2>2. 0 \in IF ms[i].kind = Plain THEN {0} ELSE 0..(Len(ms[i].entries) + 1)
    BY <1>1
  <2>3. ASSUME ms[i].kind # Plain, NEW p \in 1..(Len(ms[i].entries) + 1) PROVE <<n, r, i, p>> \in Names(n, r, ms)
    <3>1. p \in 0..(Len(ms[i].entries) + 1)
      BY <1>1, <2>3
    <3>2. QED
      BY <2>1, <2>3, <3>1
  <2>4. QED
    BY <2>1, <2>2, <2>3
<1>4. QED
  BY <1>1, <1>2, <1>3

LEMMA SoundGrows ==
  ASSUME NEW c, NEW a, NEW D, NEW E, D \subseteq E, SoundCell(c, a, D)
  PROVE  SoundCell(c, a, E)
<1>1. c \in CellSet(D)
  BY DEF SoundCell
<1>2. c.refs \in Seq(E)
  <2>1. c.refs \in Seq(D)
    BY <1>1 DEF CellSet
  <2>2. QED
    BY <2>1
<1>3. c \in CellSet(E)
  BY <1>1, <1>2 DEF CellSet
<1>4. QED
  BY <1>3 DEF SoundCell

\* The object a of a sequence, c, is sound, refers to others of the sequence, and says what the sequence says there.
WellMade(c, a, n, r, ms) ==
    /\ a \in CellNames /\ SoundCell(c, a, Names(n, r, ms))
    /\ \A j \in DOMAIN c.refs : c.refs[j] \in Names(n, r, ms) /\ c.refs[j][1] = n /\ c.refs[j][2] = r
    /\ a[4] = 0 => c.kind = ms[a[3]].kind /\ c.says = ms[a[3]].says
    /\ a[4] = 0 /\ ms[a[3]].kind = Plain => c.refs = <<>>
    /\ a[4] = 0 /\ ms[a[3]].kind # Plain => c.refs = <<<<n, r, a[3], 1>>>>
    /\ a[4] = 1 => c.refs = [j \in DOMAIN ms[a[3]].entries |-> <<n, r, a[3], j + 1>>]
    /\ a[4] > 1 => c.says = ms[a[3]].entries[a[4] - 1]

LEMMA MadeIs ==
  ASSUME NEW n \in Nat, NEW r \in Makers, NEW ms, Said(ms), NEW a \in Names(n, r, ms)
  PROVE  WellMade(Made(a, ms[a[3]]), a, n, r, ms)
<1>1. PICK c : c = Made(a, ms[a[3]])
  OBVIOUS
<1> DEFINE D == Names(n, r, ms)
<1>2. PICK i \in DOMAIN ms, p \in Nat : a = <<n, r, i, p>> /\ a[1] = n /\ a[2] = r /\ a[3] = i /\ a[4] = p
  <2>1. /\ a = <<n, r, a[3], a[4]>> /\ a[1] = n /\ a[2] = r /\ a[3] \in DOMAIN ms
        /\ a[4] = 0 \/ (ms[a[3]].kind # Plain /\ a[4] \in 1..(Len(ms[a[3]].entries) + 1))
    BY NamesAre
  <2>2. a[4] \in Nat
    BY <2>1, SaidIs
  <2>3. QED
    BY <2>1, <2>2
<1>3. PICK m \in SaidMessage : /\ m = ms[i] /\ i \in Nat /\ Len(m.entries) \in Nat /\ m.entries \in Seq(Nat)
                               /\ m.kind = Plain => m.entries = <<>>
                               /\ m.kind # Plain => Len(m.entries) \in 1..MostEntries
  BY SaidIs DEF SaidMessage
<1>4. p = 0 \/ (m.kind # Plain /\ p \in 1..(Len(m.entries) + 1))
  BY <1>2, <1>3, NamesAre
<1>5. \A q : Part(a, q) = <<n, r, i, q>>
  BY <1>2 DEF Part
<1>6. a \in CellNames
  BY <1>2, <1>3 DEF CellNames
<1>7. CASE p = 0 /\ m.kind = Plain
  <2>1. c = Cell(m.kind, m.says, <<>>)
    BY <1>1, <1>2, <1>3, <1>7 DEF Made
  <2>2. m.kind \in MessageKinds /\ m.says \in Nat /\ <<>> \in Seq(D)
    BY DEF SaidMessage
  <2> HIDE DEF D
  <2>3. c \in CellSet(D) /\ c.kind = m.kind /\ c.says = m.says /\ c.refs = <<>>
    BY <2>1, <2>2 DEF Cell, CellSet
  <2> HIDE DEF D
  <2>4. SoundCell(c, a, D)
    BY <1>2, <1>7, <2>2, <2>3 DEF SoundCell
  <2>5. QED
    BY <1>1, <1>2, <1>3, <1>6, <1>7, <2>3, <2>4 DEF D, WellMade
<1>8. CASE p = 0 /\ m.kind # Plain
  <2>1. c = Cell(m.kind, m.says, <<<<n, r, i, 1>>>>)
    <3>1. c = Cell(m.kind, m.says, <<Part(a, 1)>>)
      BY <1>1, <1>2, <1>3, <1>8 DEF Made
    <3>2. Part(a, 1) = <<n, r, i, 1>>
      BY <1>5
    <3>3. QED
      BY <3>1, <3>2
  <2>2. <<n, r, i, 1>> \in D
    <3>1. 1 \in 1..(Len(m.entries) + 1)
      BY <1>3
    <3>2. QED
      BY <1>3, <1>8, <3>1, NamesAre
  <2>3. m.kind \in MessageKinds /\ m.says \in Nat /\ <<<<n, r, i, 1>>>> \in Seq(D)
    BY <2>2 DEF SaidMessage
  <2> HIDE DEF D
  <2>4. c \in CellSet(D) /\ c.kind = m.kind /\ c.says = m.says /\ c.refs = <<<<n, r, i, 1>>>>
    BY <2>1, <2>3 DEF Cell, CellSet
  <2>5. Len(c.refs) = 1 /\ DOMAIN c.refs = {1} /\ c.refs[1] = <<n, r, i, 1>>
    BY <2>4
  <2>6. c.refs[1][4] = 1 /\ c.refs[1][1] = n /\ c.refs[1][2] = r
    BY <2>5
  <2>7. SoundCell(c, a, D)
    BY <1>2, <1>8, <2>3, <2>4, <2>5, <2>6 DEF SoundCell
  <2>8. \A j \in DOMAIN c.refs : c.refs[j] \in D /\ c.refs[j][1] = n /\ c.refs[j][2] = r
    BY <2>2, <2>5, <2>6
  <2>9. c.refs = <<<<n, r, a[3], 1>>>> /\ c.kind = ms[a[3]].kind /\ c.says = ms[a[3]].says
    BY <1>2, <1>3, <2>4
  <2>10. ~(a[4] = 1) /\ ~(a[4] > 1) /\ ms[a[3]].kind # Plain
    BY <1>2, <1>3, <1>8
  <2>11. QED
    BY <1>1, <1>6, <2>7, <2>8, <2>9, <2>10 DEF D, WellMade
<1>9. CASE p = 1
  <2>1. c = Cell("list", 0, [j \in DOMAIN m.entries |-> Part(a, j + 1)])
    BY <1>1, <1>2, <1>3, <1>9 DEF Made
  <2>2. DOMAIN m.entries = 1..Len(m.entries) /\ Len(m.entries) \in 1..MostEntries /\ m.kind # Plain
    BY <1>3, <1>4, <1>9
  <2>3. PICK refs : refs = [j \in 1..Len(m.entries) |-> <<n, r, i, j + 1>>]
    OBVIOUS
  <2>4. c = Cell("list", 0, refs)
    BY <1>5, <2>1, <2>2, <2>3
  <2>5. ASSUME NEW j \in 1..Len(m.entries) PROVE refs[j] \in D /\ refs[j] = <<n, r, i, j + 1>> /\ j + 1 >= 2
    <3>1. j + 1 \in 1..(Len(m.entries) + 1) /\ j + 1 >= 2
      BY <1>3, <2>5
    <3>2. QED
      BY <1>3, <2>2, <2>3, <3>1, NamesAre
  <2> HIDE DEF D
  <2>6. refs \in Seq(D) /\ Len(refs) = Len(m.entries) /\ DOMAIN refs = 1..Len(m.entries)
    <3>1. Len(m.entries) \in Nat /\ \A j \in 1..Len(m.entries) : refs[j] \in D
      BY <1>3, <2>5
    <3>2. PICK k \in Nat : k = Len(m.entries)
      BY <3>1
    <3>3. refs = [j \in 1..k |-> refs[j]] /\ \A j \in 1..k : refs[j] \in D
      BY <2>3, <3>1, <3>2
    <3>4. refs \in Seq(D) /\ Len(refs) = k /\ DOMAIN refs = 1..k
      BY <3>3
    <3>5. QED
      BY <3>2, <3>4
  <2>7. c \in CellSet(D) /\ c.refs = refs
    BY <2>4, <2>6 DEF Cell, CellSet
  <2> HIDE DEF D
  <2>8. SoundCell(c, a, D)
    <3>1. \A j \in DOMAIN refs : refs[j][4] >= 2 /\ refs[j][1] = n
      BY <2>5, <2>6
    <3>2. a[4] = 1 /\ a[4] # 0 /\ a[1] = n /\ Len(c.refs) \in 1..MostEntries
      BY <1>2, <1>9, <2>2, <2>6, <2>7
    <3>3. \A j \in DOMAIN c.refs : c.refs[j][4] >= 2 /\ c.refs[j][1] = n
      BY <2>7, <3>1
    <3>4. QED
      BY <2>7, <3>2, <3>3 DEF SoundCell
  <2>9. \A j \in DOMAIN c.refs : c.refs[j] \in D /\ c.refs[j][1] = n /\ c.refs[j][2] = r
    BY <2>5, <2>6, <2>7
  <2>10. c.refs = [j \in DOMAIN ms[a[3]].entries |-> <<n, r, a[3], j + 1>>]
    BY <1>2, <1>3, <2>2, <2>3, <2>7
  <2>11. QED
    BY <1>1, <1>2, <1>6, <1>9, <2>8, <2>9, <2>10 DEF D, WellMade
<1>10. CASE p > 1
  <2>1. c = Cell("entry", m.entries[p - 1], <<>>)
    BY <1>1, <1>2, <1>3, <1>10 DEF Made
  <2>2. p - 1 \in 1..Len(m.entries)
    BY <1>3, <1>4, <1>10
  <2> HIDE DEF D
  <2>3. m.entries[p - 1] \in Nat /\ <<>> \in Seq(D)
    BY <1>3, <2>2
  <2>4. c \in CellSet(D) /\ c.says = m.entries[p - 1] /\ c.refs = <<>> /\ DOMAIN c.refs = {}
    BY <2>1, <2>3 DEF Cell, CellSet
  <2>5. SoundCell(c, a, D)
    BY <1>2, <1>10, <2>4 DEF SoundCell
  <2>6. c.says = ms[a[3]].entries[a[4] - 1] /\ ~(a[4] = 1) /\ ~(a[4] = 0)
    BY <1>2, <1>3, <1>10, <2>4
  <2>7. QED
    BY <1>1, <1>6, <2>4, <2>5, <2>6 DEF D, WellMade
<1>11. QED
  BY <1>7, <1>8, <1>9, <1>10

\* What a message of the heap says.
LEMMA ListOfIs ==
  ASSUME NEW cs, NEW b, Heap(cs, b), NEW a \in DOMAIN cs, a[4] = 0
  PROVE  /\ cs[a].kind \in MessageKinds /\ cs[a].says \in Nat
         /\ cs[a].kind = Plain => ListOf(cs, a) = <<>>
         /\ cs[a].kind # Plain =>
              /\ Len(cs[a].refs) = 1 /\ cs[a].refs \in Seq(DOMAIN cs)
              /\ cs[a].refs[1] \in DOMAIN cs /\ cs[a].refs[1][4] = 1
              /\ ListOf(cs, a) = cs[cs[a].refs[1]].refs
              /\ ListOf(cs, a) \in Seq(DOMAIN cs) /\ Len(ListOf(cs, a)) \in 1..MostEntries
              /\ \A j \in DOMAIN ListOf(cs, a) : /\ ListOf(cs, a)[j] \in DOMAIN cs /\ ListOf(cs, a)[j][4] >= 2
                                                 /\ cs[ListOf(cs, a)[j]].says \in Nat
<1>1. \A x \in DOMAIN cs : SoundCell(cs[x], x, DOMAIN cs)
  BY DEF Heap
<1>2. \A x \in DOMAIN cs : cs[x].says \in Nat /\ cs[x].refs \in Seq(DOMAIN cs)
  BY <1>1 DEF SoundCell, CellSet
<1>3. /\ cs[a].kind \in MessageKinds
      /\ cs[a].kind = Plain => cs[a].refs = <<>>
      /\ cs[a].kind # Plain => Len(cs[a].refs) = 1 /\ cs[a].refs[1][4] = 1
  BY <1>1 DEF SoundCell
<1>4. CASE cs[a].kind = Plain
  BY <1>2, <1>3, <1>4 DEF ListOf
<1>5. CASE cs[a].kind # Plain
  <2>1. PICK refs \in Seq(DOMAIN cs) : refs = cs[a].refs /\ Len(refs) = 1
    BY <1>2, <1>3, <1>5
  <2>2. 1 \in DOMAIN refs /\ refs # <<>>
    BY <2>1
  <2>3. PICK l \in DOMAIN cs : l = cs[a].refs[1]
    BY <2>1, <2>2
  <2>4. l[4] = 1 /\ ListOf(cs, a) = cs[l].refs
    BY <1>3, <1>5, <2>1, <2>2, <2>3 DEF ListOf
  <2>5. Len(cs[l].refs) \in 1..MostEntries /\ \A j \in DOMAIN cs[l].refs : cs[l].refs[j][4] >= 2
    BY <1>1, <2>4 DEF SoundCell
  <2>6. PICK es \in Seq(DOMAIN cs) : es = cs[l].refs
    BY <1>2
  <2>7. \A j \in DOMAIN es : es[j] \in DOMAIN cs
    OBVIOUS
  <2>8. QED
    BY <1>2, <1>3, <1>5, <2>1, <2>3, <2>4, <2>5, <2>6, <2>7
<1>6. QED
  BY <1>4, <1>5

LEMMA ReadingIs ==
  ASSUME NEW cs, NEW b, Heap(cs, b), NEW lines \in Seq(DOMAIN cs), \A i \in DOMAIN lines : lines[i][4] = 0
  PROVE  /\ Said(Reading(cs, lines)) /\ Len(Reading(cs, lines)) = Len(lines)
         /\ DOMAIN Reading(cs, lines) = DOMAIN lines
<1>1. Len(lines) \in Nat /\ DOMAIN lines = 1..Len(lines) /\ \A i \in DOMAIN lines : lines[i] \in DOMAIN cs
  OBVIOUS
<1>2. PICK ms : ms = Reading(cs, lines)
  OBVIOUS
<1>3. ASSUME NEW i \in DOMAIN lines
      PROVE  /\ ms[i] \in SaidMessage
             /\ Len(ms[i].entries) \in IF ms[i].kind = Plain THEN {0} ELSE 1..MostEntries
  <2>1. PICK a \in DOMAIN cs : a = lines[i] /\ a[4] = 0
    BY <1>1
  <2>2. PICK es : es = [j \in DOMAIN ListOf(cs, a) |-> cs[ListOf(cs, a)[j]].says]
    OBVIOUS
  <2>3. ms[i] = [kind |-> cs[a].kind, says |-> cs[a].says, entries |-> es]
    BY <1>2, <2>1, <2>2 DEF Reading
  <2>4. cs[a].kind \in MessageKinds /\ cs[a].says \in Nat
    BY <2>1, ListOfIs
  <2>5. CASE cs[a].kind = Plain
    <3>1. es = <<>>
      BY <2>1, <2>2, <2>5, ListOfIs
    <3>2. es \in Seq(Nat) /\ Len(es) = 0
      BY <3>1
    <3>3. QED
      BY <2>3, <2>4, <2>5, <3>2 DEF SaidMessage
  <2>6. CASE cs[a].kind # Plain
    <3>1. PICK ls \in Seq(DOMAIN cs) : /\ ls = ListOf(cs, a) /\ Len(ls) \in 1..MostEntries
                                       /\ \A j \in DOMAIN ls : cs[ls[j]].says \in Nat
      BY <2>1, <2>6, ListOfIs
    <3>2. Len(ls) \in Nat /\ DOMAIN ls = 1..Len(ls)
      OBVIOUS
    <3>3. es = [j \in 1..Len(ls) |-> cs[ls[j]].says] /\ \A j \in 1..Len(ls) : cs[ls[j]].says \in Nat
      BY <2>2, <3>1, <3>2
    <3>4. es \in Seq(Nat) /\ Len(es) = Len(ls)
      BY <3>2, <3>3
    <3>5. QED
      BY <2>3, <2>4, <2>6, <3>1, <3>4 DEF SaidMessage
  <2>7. QED
    BY <2>5, <2>6
<1>4. ms = [i \in 1..Len(lines) |-> ms[i]]
  BY <1>1, <1>2 DEF Reading
<1>5. ms \in Seq(SaidMessage) /\ Len(ms) = Len(lines) /\ DOMAIN ms = DOMAIN lines
  BY <1>1, <1>3, <1>4
<1>6. QED
  BY <1>2, <1>3, <1>5 DEF Said

\* Objects that are as they were made say what they were made of.
LEMMA PristineRead ==
  ASSUME NEW cs, NEW n \in Nat, NEW r \in Makers, NEW ms, Said(ms), Pristine(cs, n, r, ms)
  PROVE  Reading(cs, Lines(n, r, ms)) = ms
<1>1. PICK lines : lines = Lines(n, r, ms)
  OBVIOUS
<1>2. DOMAIN lines = DOMAIN ms /\ \A i \in DOMAIN ms : lines[i] = <<n, r, i, 0>>
  BY <1>1 DEF Lines
<1>3. ms \in Seq(SaidMessage)
  BY DEF Said
<1>4. ASSUME NEW i \in DOMAIN ms
      PROVE  [kind |-> cs[lines[i]].kind, says |-> cs[lines[i]].says,
              entries |-> [j \in DOMAIN ListOf(cs, lines[i]) |-> cs[ListOf(cs, lines[i])[j]].says]] = ms[i]
  <2>1. PICK m \in SaidMessage : /\ m = ms[i] /\ i \in Nat /\ Len(m.entries) \in Nat
                                 /\ m.kind = Plain => m.entries = <<>>
                                 /\ m.kind # Plain => Len(m.entries) \in 1..MostEntries
    BY SaidIs
  <2>2. PICK a : a = <<n, r, i, 0>> /\ a = lines[i]
    BY <1>2
  <2>3. a \in Names(n, r, ms) /\ a[3] = i /\ a[4] = 0
    BY <2>2, NamesAre
  <2>4. cs[a] = Made(a, ms[a[3]])
    BY <2>3 DEF Pristine
  <2>5. /\ cs[a].kind = m.kind /\ cs[a].says = m.says
        /\ m.kind = Plain => cs[a].refs = <<>>
        /\ m.kind # Plain => cs[a].refs = <<<<n, r, i, 1>>>>
    <3>1. WellMade(cs[a], a, n, r, ms)
      BY <2>3, <2>4, MadeIs
    <3>2. QED
      BY <2>1, <2>3, <3>1 DEF WellMade
  <2>6. [j \in DOMAIN ListOf(cs, a) |-> cs[ListOf(cs, a)[j]].says] = m.entries
    <3>1. CASE m.kind = Plain
      <4>1. ListOf(cs, a) = <<>>
        BY <2>5, <3>1 DEF ListOf
      <4>2. QED
        BY <2>1, <3>1, <4>1
    <3>2. CASE m.kind # Plain
      <4>1. PICK l : l = <<n, r, i, 1>>
        OBVIOUS
      <4>2. ListOf(cs, a) = cs[l].refs
        <5>1. cs[a].refs = <<l>>
          BY <2>5, <3>2, <4>1
        <5>2. cs[a].refs # <<>> /\ cs[a].refs[1] = l
          BY <5>1
        <5>3. QED
          BY <5>2 DEF ListOf
      <4>3. l \in Names(n, r, ms) /\ l[3] = i /\ l[4] = 1
        <5>1. 1 \in 1..(Len(m.entries) + 1)
          BY <2>1
        <5>2. QED
          BY <2>1, <3>2, <4>1, <5>1, NamesAre
      <4>4. cs[l] = Made(l, ms[l[3]])
        BY <4>3 DEF Pristine
      <4>5. cs[l].refs = [j \in DOMAIN m.entries |-> <<n, r, i, j + 1>>]
        <5>1. WellMade(cs[l], l, n, r, ms)
          BY <4>3, <4>4, MadeIs
        <5>2. QED
          BY <2>1, <4>3, <5>1 DEF WellMade
      <4>6. m.entries \in Seq(Nat)
        BY DEF SaidMessage
      <4>7. DOMAIN m.entries = 1..Len(m.entries) /\ m.entries = [j \in 1..Len(m.entries) |-> m.entries[j]]
        BY <4>6
      <4>8. ASSUME NEW j \in 1..Len(m.entries) PROVE cs[<<n, r, i, j + 1>>].says = m.entries[j]
        <5>1. PICK e : e = <<n, r, i, j + 1>>
          OBVIOUS
        <5>2. j + 1 \in 1..(Len(m.entries) + 1) /\ j + 1 > 1 /\ (j + 1) - 1 = j
          BY <2>1
        <5>3. e \in Names(n, r, ms) /\ e[3] = i /\ e[4] = j + 1
          BY <2>1, <3>2, <5>1, <5>2, NamesAre
        <5>4. cs[e] = Made(e, ms[e[3]])
          BY <5>3 DEF Pristine
        <5>5. cs[e].says = m.entries[(j + 1) - 1]
          <6>1. WellMade(cs[e], e, n, r, ms)
            BY <5>3, <5>4, MadeIs
          <6>2. e[4] > 1
            BY <5>2, <5>3
          <6>3. QED
            BY <2>1, <5>3, <6>1, <6>2 DEF WellMade
        <5>6. QED
          BY <5>1, <5>2, <5>5
      <4>9. PICK es : es = ListOf(cs, a)
        OBVIOUS
      <4>10. DOMAIN es = 1..Len(m.entries) /\ \A j \in 1..Len(m.entries) : es[j] = <<n, r, i, j + 1>>
        BY <4>2, <4>5, <4>7, <4>9
      <4>11. [j \in DOMAIN es |-> cs[es[j]].says] = [j \in 1..Len(m.entries) |-> m.entries[j]]
        BY <4>8, <4>10
      <4>12. QED
        BY <4>7, <4>9, <4>11
    <3>3. QED
      BY <3>1, <3>2
  <2>7. m = [kind |-> m.kind, says |-> m.says, entries |-> m.entries]
    BY DEF SaidMessage
  <2>8. QED
    BY <2>1, <2>2, <2>5, <2>6, <2>7
<1>5. ms = [i \in DOMAIN ms |-> ms[i]]
  BY <1>3
<1>6. QED
  BY <1>1, <1>2, <1>4, <1>5 DEF Reading

\* What is written in what the dialog may write in leaves the rows their messages, and those not opened all.
LEMMA WrittenKeeps ==
  ASSUME NEW cs, NEW b, NEW n, NEW ra, NEW ro, RowsCells(cs, n, ra, ro),
         NEW ds, DOMAIN cs \subseteq DOMAIN ds,
         \A a \in DOMAIN cs : /\ ~Writable(a, n, ro) => ds[a] = cs[a]
                              /\ a[4] = 0 => ds[a].kind = cs[a].kind /\ ds[a].says = cs[a].says,
         \A a \in DOMAIN ds \ DOMAIN cs : a[1] # n,
         Enclosed(ds, n, ro), n # 0, NoSeqRule \notin SeqRules,
         \A r \in SeqRules : Said(ra[r])
  PROVE  RowsCells(ds, n, ra, ro)
<1>1. ASSUME NEW r \in SeqRules, NEW i \in DOMAIN ra[r]
      PROVE  /\ <<n, r, i, 0>> \in DOMAIN ds
             /\ ds[<<n, r, i, 0>>].kind = ra[r][i].kind /\ ds[<<n, r, i, 0>>].says = ra[r][i].says
  <2>1. <<n, r, i, 0>>[4] = 0
    OBVIOUS
  <2>2. QED
    BY <2>1 DEF RowsCells
<1>2. ASSUME NEW r \in SeqRules \ ro PROVE Pristine(ds, n, r, ra[r])
  <2>1. Pristine(cs, n, r, ra[r]) /\ Said(ra[r])
    BY DEF RowsCells
  <2>2. \A a \in Names(n, r, ra[r]) : ~Writable(a, n, ro)
    BY <2>1, NamesAre DEF Writable
  <2>3. QED
    BY <2>1, <2>2 DEF Pristine
<1>3. Pristine(ds, 0, NoSeqRule, TemplateSays)
  <2>1. Pristine(cs, 0, NoSeqRule, TemplateSays)
    BY DEF RowsCells
  <2>2. ASSUME NEW a \in Names(0, NoSeqRule, TemplateSays) PROVE ~Writable(a, n, ro)
    <3>1. a[1] = 0
      BY DEF Names
    <3>2. QED
      BY <3>1 DEF Writable
  <2>3. QED
    BY <2>1, <2>2 DEF Pristine
<1>4. \A a \in DOMAIN ds : a[1] = n /\ a[2] \in SeqRules => a \in Names(n, a[2], ra[a[2]])
  BY DEF RowsCells
<1>5. QED
  BY <1>1, <1>2, <1>3, <1>4 DEF RowsCells

\* Whole sequences are made anew: each object refers to others of its sequence.
LEMMA ObjectsAre ==
  ASSUME NEW n \in Nat, NEW said, DOMAIN said \subseteq Makers, \A r \in DOMAIN said : Said(said[r]),
         NEW os, os = Objects(n, said)
  PROVE  /\ os = [a \in DOMAIN os |-> os[a]]
         /\ \A r \in DOMAIN said : Names(n, r, said[r]) \subseteq DOMAIN os
         /\ \A a \in DOMAIN os :
              /\ a[1] = n /\ a[2] \in DOMAIN said /\ a \in Names(n, a[2], said[a[2]])
              /\ a \in CellNames /\ os[a] = Made(a, said[a[2]][a[3]])
              /\ SoundCell(os[a], a, DOMAIN os)
              /\ \A j \in DOMAIN os[a].refs : os[a].refs[j][1] = n /\ os[a].refs[j][2] = a[2]
<1>1. /\ DOMAIN os = UNION {Names(n, r, said[r]) : r \in DOMAIN said}
      /\ \A a \in DOMAIN os : os[a] = Made(a, said[a[2]][a[3]])
      /\ os = [a \in DOMAIN os |-> os[a]]
  BY DEF Objects
<1>2. \A r \in DOMAIN said : Names(n, r, said[r]) \subseteq DOMAIN os
  BY <1>1
<1>3. ASSUME NEW a \in DOMAIN os
      PROVE  /\ a[1] = n /\ a[2] \in DOMAIN said /\ a \in Names(n, a[2], said[a[2]])
             /\ a \in CellNames /\ SoundCell(os[a], a, DOMAIN os)
             /\ \A j \in DOMAIN os[a].refs : os[a].refs[j][1] = n /\ os[a].refs[j][2] = a[2]
  <2>1. PICK r \in DOMAIN said : a \in Names(n, r, said[r])
    BY <1>1
  <2>2. a[1] = n /\ a[2] = r
    BY <2>1, NamesAre
  <2>3. WellMade(os[a], a, n, r, said[r])
    BY <1>1, <2>1, <2>2, MadeIs
  <2>4. SoundCell(os[a], a, DOMAIN os)
    BY <1>2, <2>3, SoundGrows DEF WellMade
  <2>5. QED
    BY <2>1, <2>2, <2>3, <2>4 DEF WellMade
<1>4. QED
  BY <1>1, <1>2, <1>3

LEMMA Addition ==
  ASSUME NEW cs, NEW b \in Nat, Heap(cs, b),
         NEW said, DOMAIN said \subseteq Makers, \A r \in DOMAIN said : Said(said[r]),
         NEW ds, ds = Together(cs, Objects(b + 1, said))
  PROVE  /\ Heap(ds, b + 1) /\ DOMAIN cs \subseteq DOMAIN ds /\ \A a \in DOMAIN cs : ds[a] = cs[a]
         /\ \A r \in DOMAIN said : Pristine(ds, b + 1, r, said[r])
         /\ \A a \in DOMAIN ds \ DOMAIN cs :
              /\ a[1] = b + 1 /\ a[2] \in DOMAIN said /\ a \in Names(b + 1, a[2], said[a[2]])
              /\ \A j \in DOMAIN ds[a].refs : ds[a].refs[j][1] = b + 1 /\ ds[a].refs[j][2] = a[2]
<1>1. PICK os : os = Objects(b + 1, said)
  OBVIOUS
<1>2. b + 1 \in Nat
  OBVIOUS
<1>3. /\ \A r \in DOMAIN said : Names(b + 1, r, said[r]) \subseteq DOMAIN os
      /\ \A a \in DOMAIN os :
           /\ a[1] = b + 1 /\ a[2] \in DOMAIN said /\ a \in Names(b + 1, a[2], said[a[2]])
           /\ a \in CellNames /\ os[a] = Made(a, said[a[2]][a[3]])
           /\ SoundCell(os[a], a, DOMAIN os)
           /\ \A j \in DOMAIN os[a].refs : os[a].refs[j][1] = b + 1 /\ os[a].refs[j][2] = a[2]
  BY <1>1, <1>2, ObjectsAre
<1>4. /\ DOMAIN ds = DOMAIN cs \cup DOMAIN os /\ ds = [a \in DOMAIN ds |-> ds[a]]
      /\ \A a \in DOMAIN cs : ds[a] = cs[a]
      /\ \A a \in DOMAIN os : a \notin DOMAIN cs => ds[a] = os[a]
  BY <1>1 DEF Together
<1>5. \A a \in DOMAIN cs : a \in CellNames /\ a[1] \in Nat /\ a[1] <= b /\ SoundCell(cs[a], a, DOMAIN cs)
  BY DEF Heap, CellNames
<1>6. \A a \in DOMAIN os : a \notin DOMAIN cs
  BY <1>3, <1>5
<1>7. ASSUME NEW a \in DOMAIN ds PROVE a \in CellNames /\ a[1] <= b + 1 /\ SoundCell(ds[a], a, DOMAIN ds)
  <2>1. CASE a \in DOMAIN cs
    <3>1. SoundCell(cs[a], a, DOMAIN ds)
      BY <1>4, <1>5, <2>1, SoundGrows
    <3>2. QED
      BY <1>4, <1>5, <2>1, <3>1
  <2>2. CASE a \in DOMAIN os
    <3>1. SoundCell(os[a], a, DOMAIN ds)
      BY <1>3, <1>4, <2>2, SoundGrows
    <3>2. QED
      BY <1>3, <1>4, <1>6, <2>2, <3>1
  <2>3. QED
    BY <1>4, <2>1, <2>2
<1>8. Heap(ds, b + 1)
  BY <1>4, <1>7 DEF Heap
<1>9. ASSUME NEW r \in DOMAIN said PROVE Pristine(ds, b + 1, r, said[r])
  <2>1. ASSUME NEW a \in Names(b + 1, r, said[r]) PROVE a \in DOMAIN ds /\ ds[a] = Made(a, said[r][a[3]])
    <3>1. a \in DOMAIN os /\ a[2] = r
      BY <1>3, NamesAre
    <3>2. QED
      BY <1>3, <1>4, <1>6, <3>1
  <2>2. QED
    BY <2>1 DEF Pristine
<1>10. QED
  BY <1>3, <1>4, <1>6, <1>8, <1>9

\* What the dialog makes is written in by the dialog alone.
LEMMA MakingKeeps ==
  ASSUME Heap(cells, batches), SequencesTyped, NEW n \in 1..batches, RowsReadAs(n),
         NEW ms, Said(ms), Add(Objects(batches + 1, OfDialog(ms))), UNCHANGED <<rowCells, readAs, rowsOpened>>
  PROVE  /\ Heap(cells, batches)' /\ batches' \in Nat /\ n \in 1..batches' /\ RowsCells(cells, n, readAs, rowsOpened)'
         /\ DOMAIN cells \subseteq DOMAIN cells' /\ \A a \in DOMAIN cells : cells'[a] = cells[a]
         /\ \A i \in DOMAIN ms : <<batches + 1, NoSeqRule, i, 0>> \in DOMAIN cells'
         /\ \A i : Writable(<<batches + 1, NoSeqRule, i, 0>>, n, rowsOpened)
<1>1. PICK said : said = OfDialog(ms)
  OBVIOUS
<1>2. DOMAIN said = {NoSeqRule} /\ said[NoSeqRule] = ms /\ DOMAIN said \subseteq Makers
  BY <1>1 DEF OfDialog, Makers
<1>3. PICK cs, b, ds : cs = cells /\ b = batches /\ ds = cells'
  OBVIOUS
<1>4. b \in Nat /\ n \in Nat /\ n # 0 /\ n # b + 1
  BY <1>3 DEF SequencesTyped
<1>5. ds = Together(cs, Objects(b + 1, said)) /\ batches' = b + 1
  BY <1>1, <1>3 DEF Add
<1>6. /\ Heap(ds, b + 1) /\ DOMAIN cs \subseteq DOMAIN ds /\ \A a \in DOMAIN cs : ds[a] = cs[a]
      /\ \A r \in DOMAIN said : Pristine(ds, b + 1, r, said[r])
      /\ \A a \in DOMAIN ds \ DOMAIN cs :
           /\ a[1] = b + 1 /\ a[2] \in DOMAIN said
           /\ \A j \in DOMAIN ds[a].refs : ds[a].refs[j][1] = b + 1
  BY <1>2, <1>3, <1>4, <1>5, Addition
<1>7. RowsCells(cs, n, readAs, rowsOpened)
  BY <1>3 DEF RowsReadAs
<1>8. Enclosed(ds, n, rowsOpened)
  <2>1. ASSUME NEW a \in DOMAIN ds, Writable(a, n, rowsOpened), NEW j \in DOMAIN ds[a].refs
        PROVE  Writable(ds[a].refs[j], n, rowsOpened)
    <3>1. CASE a \in DOMAIN cs
      BY <1>6, <1>7, <2>1, <3>1 DEF RowsCells, Enclosed
    <3>2. CASE a \notin DOMAIN cs
      BY <1>4, <1>6, <2>1, <3>2 DEF Writable
    <3>3. QED
      BY <3>1, <3>2
  <2>2. QED
    BY <2>1 DEF Enclosed
<1>9. RowsCells(ds, n, readAs, rowsOpened)
  <2>1. \A r \in SeqRules : Said(readAs[r])
    <3>1. Said(<<>>)
      BY DEF Said
    <3>2. QED
      BY <3>1 DEF SequencesTyped, WholeSaid
  <2>2. \A a \in DOMAIN ds \ DOMAIN cs : a[1] # n
    BY <1>4, <1>6
  <2>3. QED
    BY <1>4, <1>6, <1>7, <1>8, <2>1, <2>2, SequenceAssumption, WrittenKeeps
<1>10. \A i \in DOMAIN ms : <<b + 1, NoSeqRule, i, 0>> \in DOMAIN ds
  <2>1. Pristine(ds, b + 1, NoSeqRule, ms)
    BY <1>2, <1>6
  <2>2. QED
    BY <2>1, NamesAre DEF Pristine
<1>11. \A i : Writable(<<b + 1, NoSeqRule, i, 0>>, n, rowsOpened)
  BY <1>4, SequenceAssumption DEF Writable
<1>12. Heap(cells, batches)' /\ RowsCells(cells, n, readAs, rowsOpened)'
  BY <1>3, <1>5, <1>6, <1>9
<1>13. QED
  BY <1>3, <1>4, <1>5, <1>6, <1>10, <1>11, <1>12

LEMMA WholeTexts == WholeSaid(TwoTexts) /\ Said(<<Text(0)>>) /\ WholeSaid(TemplateSays) /\ WholeSaid(RowSays)
<1>1. Text(0) \in SaidMessage /\ Text(0).kind = Plain /\ Len(Text(0).entries) = 0
  <2>1. <<>> \in Seq(Nat) /\ Len(<<>>) = 0
    OBVIOUS
  <2>2. QED
    BY <2>1 DEF Text, SaidMessage, MessageKinds, Plain
<1>2. \A k \in Rich : LET m == [kind |-> k, says |-> 0, entries |-> <<0>>] IN
        m \in SaidMessage /\ m.kind # Plain /\ Len(m.entries) = 1
  <2>1. <<0>> \in Seq(Nat) /\ Len(<<0>>) = 1
    OBVIOUS
  <2>2. QED
    BY <2>1 DEF Rich, SaidMessage, MessageKinds, Plain
<1>3. 1 \in 1..MostEntries /\ 2 \in LeastMessages..MostMessages
  BY SequenceAssumption DEF LeastMessages
<1>4. ASSUME NEW m \in SaidMessage, Len(m.entries) = IF m.kind = Plain THEN 0 ELSE 1
      PROVE  Said(<<m>>) /\ WholeSaid(<<Text(0), m>>)
  <2>1. /\ <<m>> \in Seq(SaidMessage) /\ DOMAIN <<m>> = {1} /\ <<m>>[1] = m
        /\ <<Text(0), m>> \in Seq(SaidMessage) /\ DOMAIN <<Text(0), m>> = {1, 2} /\ Len(<<Text(0), m>>) = 2
        /\ <<Text(0), m>>[1] = Text(0) /\ <<Text(0), m>>[2] = m
    BY <1>1
  <2>2. QED
    BY <1>1, <1>3, <1>4, <2>1 DEF Said, WholeSaid
<1>5. Said(<<Text(0)>>) /\ WholeSaid(TwoTexts)
  BY <1>1, <1>4 DEF TwoTexts
<1>6. WholeSaid(TemplateSays) /\ WholeSaid(RowSays)
  BY <1>2, <1>4 DEF TemplateSays, RowSays, Rich
<1>7. QED
  BY <1>5, <1>6

LEMMA LinesAre ==
  ASSUME NEW n, NEW r, NEW ms, Said(ms), NEW D, \A i \in DOMAIN ms : <<n, r, i, 0>> \in D
  PROVE  /\ Lines(n, r, ms) \in Seq(D) /\ Len(Lines(n, r, ms)) = Len(ms) /\ DOMAIN Lines(n, r, ms) = DOMAIN ms
         /\ \A i \in DOMAIN ms : Lines(n, r, ms)[i] = <<n, r, i, 0>> /\ Lines(n, r, ms)[i][4] = 0
<1>1. Len(ms) \in Nat /\ DOMAIN ms = 1..Len(ms)
  BY DEF Said
<1>2. QED
  BY <1>1 DEF Lines

\* The dialog is set to lines that it may write in; the rest is shown to be kept.
LEMMA DialogSet ==
  ASSUME SeqInv, NEW n \in 1..batches', Heap(cells, batches)', batches' \in Nat,
         \A r \in SeqRules : rowCells'[r] = Lines(n, r, readAs'[r]), DOMAIN rowCells' = SeqRules,
         RowsCells(cells, n, readAs, rowsOpened)',
         \A r \in SeqRules : readAs'[r] = <<>> \/ WholeSaid(readAs'[r]),
         NEW lines \in Seq(DOMAIN cells'), Len(lines) \in LeastMessages..MostMessages,
         \A i \in DOMAIN lines : lines[i][4] = 0 /\ Writable(lines[i], n, rowsOpened'),
         NEW shown \in BOOLEAN, NEW id \in Makers, builder' = [shown |-> shown, id |-> id, lines |-> lines],
         storedMessages' = [r \in SeqRules |-> storedMessages'[r]],
         \A r \in SeqRules : storedMessages'[r] = <<>> \/ WholeSaid(storedMessages'[r]),
         rowsOpened' \subseteq SeqRules, touches' \in 0..MaxTouches
  PROVE  SeqInv'
<1>1. SequencesTyped'
  BY DEF SequencesTyped
<1>2. RowsReadAs(n)'
  BY DEF RowsReadAs
<1>3. QED
  BY <1>1, <1>2 DEF SeqInv

LEMMA TouchedIs ==
  ASSUME SeqInv, Touch \/ touches' = touches
  PROVE  touches' \in 0..MaxTouches /\ touches \in Nat
BY SequenceAssumption DEF SeqInv, SequencesTyped, Touch

\* EditRow: the row's own objects.
LEMMA DialogOpens ==
  ASSUME SeqInv, NEW r \in SeqRules, EditRow(r)
  PROVE  SeqInv'
<1>1. Heap(cells, batches) /\ SequencesTyped
  BY DEF SeqInv
<1>2. PICK n \in 1..batches : RowsReadAs(n)
  BY DEF SeqInv
<1>3. /\ rowCells[r] # <<>> /\ builder' = [shown |-> TRUE, id |-> r, lines |-> rowCells[r]]
      /\ rowsOpened' = rowsOpened \cup {r}
      /\ UNCHANGED <<cells, batches, storedMessages, rowCells, readAs>> /\ touches' \in 0..MaxTouches
  BY TouchedIs DEF EditRow
<1>4. PICK ra, ro : ra = readAs /\ ro = rowsOpened
  OBVIOUS
<1>5. RowsCells(cells, n, ra, ro) /\ rowCells[r] = Lines(n, r, ra[r]) /\ n # 0 /\ batches \in Nat
  BY <1>1, <1>2, <1>4 DEF RowsReadAs, SequencesTyped
<1>6. WholeSaid(ra[r])
  <2>1. ra[r] # <<>>
    BY <1>3, <1>5 DEF Lines
  <2>2. QED
    BY <1>1, <1>4, <2>1 DEF SequencesTyped
<1>7. Enclosed(cells, n, ro \cup {r})
  <2>1. ASSUME NEW a \in DOMAIN cells, Writable(a, n, ro \cup {r}), NEW j \in DOMAIN cells[a].refs
        PROVE  Writable(cells[a].refs[j], n, ro \cup {r})
    <3>1. CASE Writable(a, n, ro)
      <4>1. Writable(cells[a].refs[j], n, ro)
        BY <1>5, <2>1, <3>1 DEF RowsCells, Enclosed
      <4>2. QED
        BY <4>1 DEF Writable
    <3>2. CASE ~Writable(a, n, ro)
      <4>1. a[1] = n /\ a[2] = r /\ r \notin ro
        BY <2>1, <3>2 DEF Writable
      <4>2. a \in Names(n, r, ra[r]) /\ cells[a] = Made(a, ra[r][a[3]])
        BY <1>5, <4>1 DEF RowsCells, Pristine
      <4>3. WellMade(cells[a], a, n, r, ra[r])
        BY <1>5, <1>6, <4>2, MadeIs DEF WholeSaid, Makers
      <4>4. cells[a].refs[j][1] = n /\ cells[a].refs[j][2] = r
        BY <2>1, <4>3 DEF WellMade
      <4>5. QED
        BY <1>5, <4>4 DEF Writable
    <3>3. QED
      BY <3>1, <3>2
  <2>2. QED
    BY <2>1 DEF Enclosed
<1>8. RowsCells(cells, n, ra, ro \cup {r})
  BY <1>5, <1>7 DEF RowsCells
<1>9. \A i \in DOMAIN ra[r] : <<n, r, i, 0>> \in DOMAIN cells
  BY <1>5 DEF RowsCells
<1>10. PICK lines : lines = rowCells[r]
  OBVIOUS
<1>11. /\ lines \in Seq(DOMAIN cells) /\ Len(lines) \in LeastMessages..MostMessages
       /\ \A i \in DOMAIN lines : lines[i][4] = 0 /\ Writable(lines[i], n, ro \cup {r})
  <2>1. PICK ms, D : ms = ra[r] /\ D = DOMAIN cells
    OBVIOUS
  <2>2. Said(ms) /\ lines = Lines(n, r, ms) /\ \A i \in DOMAIN ms : <<n, r, i, 0>> \in D
    BY <1>5, <1>6, <1>9, <1>10, <2>1 DEF WholeSaid
  <2>3. /\ Lines(n, r, ms) \in Seq(D) /\ Len(Lines(n, r, ms)) = Len(ms) /\ DOMAIN Lines(n, r, ms) = DOMAIN ms
        /\ \A i \in DOMAIN ms : Lines(n, r, ms)[i] = <<n, r, i, 0>> /\ Lines(n, r, ms)[i][4] = 0
    BY <2>2, LinesAre
  <2>4. /\ lines \in Seq(DOMAIN cells) /\ Len(lines) = Len(ra[r]) /\ DOMAIN lines = DOMAIN ra[r]
        /\ \A i \in DOMAIN ra[r] : lines[i] = <<n, r, i, 0>> /\ lines[i][4] = 0
    BY <2>1, <2>2, <2>3
  <2>5. \A i : Writable(<<n, r, i, 0>>, n, ro \cup {r})
    BY <1>5 DEF Writable
  <2>6. QED
    BY <1>6, <2>4, <2>5 DEF WholeSaid
<1>12. /\ Heap(cells, batches)' /\ RowsCells(cells, n, readAs, rowsOpened)' /\ rowsOpened' \subseteq SeqRules
       /\ \A x \in SeqRules : rowCells'[x] = Lines(n, x, readAs'[x])
  BY <1>1, <1>2, <1>3, <1>4, <1>8 DEF RowsReadAs, SequencesTyped
<1>13. r \in Makers /\ n \in 1..batches' /\ batches' \in Nat
  BY <1>3, <1>5 DEF Makers
<1>14. /\ storedMessages' = [x \in SeqRules |-> storedMessages'[x]] /\ DOMAIN rowCells' = SeqRules
       /\ \A x \in SeqRules : storedMessages'[x] = <<>> \/ WholeSaid(storedMessages'[x])
       /\ \A x \in SeqRules : readAs'[x] = <<>> \/ WholeSaid(readAs'[x])
  BY <1>1, <1>3 DEF SequencesTyped
<1>15. builder' = [shown |-> TRUE, id |-> r, lines |-> lines] /\ lines \in Seq(DOMAIN cells')
  BY <1>3, <1>10, <1>11
<1>16. \A i \in DOMAIN lines : lines[i][4] = 0 /\ Writable(lines[i], n, rowsOpened')
  BY <1>3, <1>4, <1>11
<1>17. QED
  BY <1>3, <1>11, <1>12, <1>13, <1>14, <1>15, <1>16, DialogSet

\* The dialog makes a sequence, or messages of one, and sets lines to them.
LEMMA DialogMakes ==
  ASSUME SeqInv, NEW ms, Said(ms), Add(Objects(batches + 1, OfDialog(ms))),
         UNCHANGED <<rowCells, readAs, rowsOpened>>, touches' \in 0..MaxTouches,
         storedMessages' = [r \in SeqRules |-> storedMessages'[r]],
         \A r \in SeqRules : storedMessages'[r] = <<>> \/ WholeSaid(storedMessages'[r]),
         NEW shown \in BOOLEAN, NEW id \in Makers, NEW k \in Nat, k \in LeastMessages..MostMessages, NEW lines,
         lines = [i \in 1..k |-> lines[i]],
         \A i \in 1..k : \/ \E j \in DOMAIN builder.lines : lines[i] = builder.lines[j]
                         \/ \E j \in DOMAIN ms : lines[i] = <<batches + 1, NoSeqRule, j, 0>>,
         builder' = [shown |-> shown, id |-> id, lines |-> lines]
  PROVE  SeqInv'
<1>1. Heap(cells, batches) /\ SequencesTyped
  BY DEF SeqInv
<1>2. PICK n \in 1..batches : RowsReadAs(n)
  BY DEF SeqInv
<1>3. /\ Heap(cells, batches)' /\ batches' \in Nat /\ n \in 1..batches' /\ RowsCells(cells, n, readAs, rowsOpened)'
      /\ DOMAIN cells \subseteq DOMAIN cells'
      /\ \A i \in DOMAIN ms : <<batches + 1, NoSeqRule, i, 0>> \in DOMAIN cells'
      /\ \A i : Writable(<<batches + 1, NoSeqRule, i, 0>>, n, rowsOpened)
  BY <1>1, <1>2, MakingKeeps
<1>4. builder.lines \in Seq(DOMAIN cells)
  BY <1>1 DEF SequencesTyped
<1>5. \A j \in DOMAIN builder.lines : /\ builder.lines[j] \in DOMAIN cells /\ builder.lines[j][4] = 0
                                      /\ Writable(builder.lines[j], n, rowsOpened)
  BY <1>1, <1>2, <1>4 DEF SequencesTyped, RowsReadAs
<1>6. ASSUME NEW i \in 1..k
      PROVE  lines[i] \in DOMAIN cells' /\ lines[i][4] = 0 /\ Writable(lines[i], n, rowsOpened')
  <2>1. CASE \E j \in DOMAIN builder.lines : lines[i] = builder.lines[j]
    BY <1>3, <1>5, <2>1
  <2>2. CASE \E j \in DOMAIN ms : lines[i] = <<batches + 1, NoSeqRule, j, 0>>
    <3>1. PICK j \in DOMAIN ms : lines[i] = <<batches + 1, NoSeqRule, j, 0>>
      BY <2>2
    <3>2. <<batches + 1, NoSeqRule, j, 0>>[4] = 0
      OBVIOUS
    <3>3. QED
      BY <1>3, <3>1, <3>2
  <2>3. QED
    BY <2>1, <2>2
<1>7. lines \in Seq(DOMAIN cells') /\ Len(lines) = k /\ DOMAIN lines = 1..k
  BY <1>6
<1>8. /\ \A r \in SeqRules : rowCells'[r] = Lines(n, r, readAs'[r])
      /\ \A r \in SeqRules : readAs'[r] = <<>> \/ WholeSaid(readAs'[r])
      /\ rowsOpened' \subseteq SeqRules /\ DOMAIN rowCells' = SeqRules
  BY <1>1, <1>2 DEF SequencesTyped, RowsReadAs
<1>9. QED
  BY <1>3, <1>6, <1>7, <1>8, DialogSet

\* Other lines of those it has.
LEMMA LinesChange ==
  ASSUME SeqInv, UNCHANGED <<cells, batches, rowCells, readAs, rowsOpened>>, touches' \in 0..MaxTouches,
         storedMessages' = [r \in SeqRules |-> storedMessages'[r]],
         \A r \in SeqRules : storedMessages'[r] = <<>> \/ WholeSaid(storedMessages'[r]),
         NEW shown \in BOOLEAN, NEW id \in Makers, NEW k \in Nat, k \in LeastMessages..MostMessages, NEW lines,
         lines = [i \in 1..k |-> lines[i]],
         \A i \in 1..k : \E j \in DOMAIN builder.lines : lines[i] = builder.lines[j],
         builder' = [shown |-> shown, id |-> id, lines |-> lines]
  PROVE  SeqInv'
<1>1. Heap(cells, batches) /\ SequencesTyped
  BY DEF SeqInv
<1>2. PICK n \in 1..batches : RowsReadAs(n)
  BY DEF SeqInv
<1>3. PICK c, b, ra, ro : c = cells /\ b = batches /\ ra = readAs /\ ro = rowsOpened
  OBVIOUS
<1>4. RowsCells(c, n, ra, ro) /\ Heap(c, b)
  BY <1>1, <1>2, <1>3 DEF RowsReadAs
<1>5. Heap(cells, batches)' /\ RowsCells(cells, n, readAs, rowsOpened)' /\ n \in 1..batches' /\ batches' \in Nat
  BY <1>1, <1>3, <1>4 DEF SequencesTyped
<1>6. \A j \in DOMAIN builder.lines : /\ builder.lines[j] \in DOMAIN cells /\ builder.lines[j][4] = 0
                                      /\ Writable(builder.lines[j], n, rowsOpened)
  <2>1. builder.lines \in Seq(DOMAIN cells)
    BY <1>1 DEF SequencesTyped
  <2>2. QED
    BY <1>1, <1>2, <2>1 DEF SequencesTyped, RowsReadAs
<1>7. \A i \in 1..k : lines[i] \in DOMAIN cells' /\ lines[i][4] = 0 /\ Writable(lines[i], n, rowsOpened')
  BY <1>6
<1>8. lines \in Seq(DOMAIN cells') /\ Len(lines) = k /\ DOMAIN lines = 1..k
  BY <1>7
<1>9. /\ \A r \in SeqRules : rowCells'[r] = Lines(n, r, readAs'[r])
      /\ \A r \in SeqRules : readAs'[r] = <<>> \/ WholeSaid(readAs'[r])
      /\ rowsOpened' \subseteq SeqRules /\ DOMAIN rowCells' = SeqRules
  BY <1>1, <1>2 DEF SequencesTyped, RowsReadAs
<1>10. QED
  BY <1>5, <1>7, <1>8, <1>9, DialogSet

\* Reset, applyTemplate: the dialog begins with a whole sequence.
LEMMA DialogBegins ==
  ASSUME SeqInv, NEW ms, WholeSaid(ms), Add(Objects(batches + 1, OfDialog(ms))),
         UNCHANGED <<rowCells, readAs, rowsOpened>>, touches' \in 0..MaxTouches,
         storedMessages' = [r \in SeqRules |-> storedMessages'[r]],
         \A r \in SeqRules : storedMessages'[r] = <<>> \/ WholeSaid(storedMessages'[r]),
         NEW shown \in BOOLEAN, builder' = [shown |-> shown, id |-> NoSeqRule, lines |-> NewLines(ms)]
  PROVE  SeqInv'
<1>1. Said(ms) /\ Len(ms) \in LeastMessages..MostMessages
  BY DEF WholeSaid
<1>2. Len(ms) \in Nat /\ DOMAIN ms = 1..Len(ms)
  BY <1>1 DEF Said
<1>3. PICK lines, k : lines = NewLines(ms) /\ k = Len(ms)
  OBVIOUS
<1>4. lines = [i \in 1..k |-> lines[i]] /\ \A i \in 1..k : lines[i] = <<batches + 1, NoSeqRule, i, 0>>
  BY <1>2, <1>3 DEF NewLines, Lines
<1>5. /\ k \in Nat /\ k \in LeastMessages..MostMessages /\ NoSeqRule \in Makers
      /\ \A i \in 1..k : \E j \in DOMAIN ms : lines[i] = <<batches + 1, NoSeqRule, j, 0>>
      /\ builder' = [shown |-> shown, id |-> NoSeqRule, lines |-> lines]
  BY <1>1, <1>2, <1>3, <1>4 DEF Makers
<1>6. QED
  BY <1>1, <1>4, <1>5, DialogMakes

LEMMA TypedNow ==
  ASSUME SeqInv
  PROVE  /\ storedMessages = [r \in SeqRules |-> storedMessages[r]]
         /\ \A r \in SeqRules : storedMessages[r] = <<>> \/ WholeSaid(storedMessages[r])
         /\ builder = [shown |-> builder.shown, id |-> builder.id, lines |-> builder.lines]
         /\ builder.shown \in BOOLEAN /\ builder.id \in Makers /\ builder.lines \in Seq(DOMAIN cells)
         /\ Len(builder.lines) \in Nat /\ Len(builder.lines) \in LeastMessages..MostMessages
         /\ DOMAIN builder.lines = 1..Len(builder.lines)
         /\ builder.lines = [i \in 1..Len(builder.lines) |-> builder.lines[i]]
<1>1. /\ builder \in [shown : BOOLEAN, id : Makers, lines : Seq(DOMAIN cells)]
      /\ Len(builder.lines) \in LeastMessages..MostMessages
      /\ storedMessages = [r \in SeqRules |-> storedMessages[r]]
      /\ \A r \in SeqRules : storedMessages[r] = <<>> \/ WholeSaid(storedMessages[r])
  BY DEF SeqInv, SequencesTyped
<1>2. builder.lines \in Seq(DOMAIN cells)
  BY <1>1
<1>3. /\ Len(builder.lines) \in Nat /\ DOMAIN builder.lines = 1..Len(builder.lines)
      /\ builder.lines = [i \in 1..Len(builder.lines) |-> builder.lines[i]]
  BY <1>2
<1>4. QED
  BY <1>1, <1>2, <1>3

LEMMA DialogReading ==
  ASSUME SeqInv
  PROVE  WholeSaid(Reading(cells, builder.lines))
<1>1. PICK lines : lines = builder.lines
  OBVIOUS
<1>2. /\ lines \in Seq(DOMAIN cells) /\ Len(lines) \in LeastMessages..MostMessages
      /\ \A i \in DOMAIN lines : lines[i][4] = 0 
  BY <1>1, TypedNow DEF SeqInv, SequencesTyped
<1>3. Said(Reading(cells, lines)) /\ Len(Reading(cells, lines)) = Len(lines)
  BY <1>2, ReadingIs DEF SeqInv
<1>4. QED
  BY <1>1, <1>2, <1>3 DEF WholeSaid

LEMMA RowReading ==
  ASSUME SeqInv, NEW r \in SeqRules, rowCells[r] # <<>>
  PROVE  WholeSaid(Reading(cells, rowCells[r]))
<1>1. SequencesTyped /\ Heap(cells, batches)
  BY DEF SeqInv
<1>2. PICK n \in 1..batches : RowsReadAs(n)
  BY DEF SeqInv
<1>3. PICK ms, D : ms = readAs[r] /\ D = DOMAIN cells
  OBVIOUS
<1>4. rowCells[r] = Lines(n, r, ms) /\ \A i \in DOMAIN ms : <<n, r, i, 0>> \in D
  BY <1>2, <1>3 DEF RowsReadAs, RowsCells
<1>5. WholeSaid(ms)
  <2>1. ms # <<>>
    BY <1>4 DEF Lines
  <2>2. QED
    BY <1>1, <1>3, <2>1 DEF SequencesTyped
<1>6. Said(ms) /\ Len(ms) \in LeastMessages..MostMessages
  BY <1>5 DEF WholeSaid
<1>7. PICK lines : lines = rowCells[r]
  OBVIOUS
<1>8. Said(ms) /\ \A i \in DOMAIN ms : <<n, r, i, 0>> \in D
  BY <1>4, <1>6
<1>9. /\ Lines(n, r, ms) \in Seq(D) /\ Len(Lines(n, r, ms)) = Len(ms) /\ DOMAIN Lines(n, r, ms) = DOMAIN ms
      /\ \A i \in DOMAIN ms : Lines(n, r, ms)[i] = <<n, r, i, 0>> /\ Lines(n, r, ms)[i][4] = 0
  <2>1. PICK k \in Nat : k = Len(ms) /\ DOMAIN ms = 1..k
    BY <1>6 DEF Said
  <2>2. PICK ls : ls = [i \in 1..k |-> <<n, r, i, 0>>] /\ ls = Lines(n, r, ms)
    BY <2>1 DEF Lines
  <2>3. ls \in Seq(D) /\ Len(ls) = k /\ DOMAIN ls = 1..k
    BY <1>8, <2>1, <2>2
  <2>4. \A i \in 1..k : ls[i] = <<n, r, i, 0>> /\ ls[i][4] = 0
    BY <2>2
  <2>5. QED
    BY <2>1, <2>2, <2>3, <2>4
<1>10. lines \in Seq(DOMAIN cells) /\ Len(lines) = Len(ms) /\ \A i \in DOMAIN lines : lines[i][4] = 0
  BY <1>3, <1>4, <1>7, <1>9
<1>11. Said(Reading(cells, lines)) /\ Len(Reading(cells, lines)) = Len(lines)
  BY <1>1, <1>10, ReadingIs
<1>12. QED
  BY <1>6, <1>7, <1>10, <1>11 DEF WholeSaid

LEMMA TemplateUsed ==
  ASSUME SeqInv, UseTemplate
  PROVE  SeqInv'
<1>1. /\ Add(Objects(batches + 1, OfDialog(TemplateSays))) /\ touches' \in 0..MaxTouches
      /\ builder' = [shown |-> TRUE, id |-> NoSeqRule, lines |-> NewLines(TemplateSays)]
      /\ UNCHANGED <<storedMessages, rowCells, readAs, rowsOpened>>
  BY TouchedIs DEF UseTemplate
<1>2. QED
  BY <1>1, TypedNow, WholeTexts, DialogBegins

LEMMA DialogShown ==
  ASSUME SeqInv, AddRule
  PROVE  SeqInv'
<1>1. /\ builder' = [builder EXCEPT !.shown = TRUE] /\ touches' \in 0..MaxTouches
      /\ UNCHANGED <<cells, batches, storedMessages, rowCells, readAs, rowsOpened>>
  BY TouchedIs DEF AddRule
<1>2. builder' = [shown |-> TRUE, id |-> builder.id, lines |-> builder.lines]
  BY <1>1, TypedNow
<1>3. QED
  BY <1>1, <1>2, TypedNow, LinesChange

LEMMA DialogLeft ==
  ASSUME SeqInv, LeaveDialog
  PROVE  SeqInv'
<1>1. touches' \in 0..MaxTouches /\ UNCHANGED <<storedMessages, rowCells, readAs, rowsOpened>>
  BY TouchedIs DEF LeaveDialog
<1>2. CASE Reset
  BY <1>1, <1>2, TypedNow, WholeTexts, DialogBegins DEF Reset
<1>3. CASE builder' = [builder EXCEPT !.shown = FALSE] /\ UNCHANGED <<cells, batches>>
  <2>1. builder' = [shown |-> FALSE, id |-> builder.id, lines |-> builder.lines]
    BY <1>3, TypedNow
  <2>2. QED
    BY <1>1, <1>3, <2>1, TypedNow, LinesChange
<1>4. QED
  BY <1>2, <1>3 DEF LeaveDialog

LEMMA SequenceSaved ==
  ASSUME SeqInv, NEW r \in SeqRules, SaveSequence(r)
  PROVE  SeqInv'
<1>1. /\ touches' \in 0..MaxTouches /\ UNCHANGED <<rowCells, readAs, rowsOpened>> /\ Reset
      /\ storedMessages' = [storedMessages EXCEPT ![r] = Reading(cells, builder.lines)]
  BY TouchedIs DEF SaveSequence
<1>2. /\ storedMessages' = [s \in SeqRules |-> storedMessages'[s]]
      /\ \A s \in SeqRules : storedMessages'[s] = <<>> \/ WholeSaid(storedMessages'[s])
  BY <1>1, TypedNow, DialogReading
<1>3. QED
  BY <1>1, <1>2, WholeTexts, DialogBegins DEF Reset

LEMMA RowCloned ==
  ASSUME SeqInv, NEW r \in SeqRules, NEW s \in SeqRules, CloneRow(r, s)
  PROVE  SeqInv'
<1>1. /\ touches' \in 0..MaxTouches /\ UNCHANGED <<cells, batches, rowCells, builder, readAs, rowsOpened>>
      /\ storedMessages' = [storedMessages EXCEPT ![s] = Reading(cells, rowCells[r])] /\ rowCells[r] # <<>>
  BY TouchedIs DEF CloneRow
<1>2. /\ storedMessages' = [x \in SeqRules |-> storedMessages'[x]]
      /\ \A x \in SeqRules : storedMessages'[x] = <<>> \/ WholeSaid(storedMessages'[x])
  BY <1>1, TypedNow, RowReading
<1>3. builder' = [shown |-> builder.shown, id |-> builder.id, lines |-> builder.lines]
  BY <1>1, TypedNow
<1>4. QED
  BY <1>1, <1>2, <1>3, TypedNow, LinesChange

LEMMA WritingIs ==
  ASSUME SeqInv, Writing, NEW lines, Change(lines)
  PROVE  /\ UNCHANGED <<storedMessages, rowCells, readAs, rowsOpened>> /\ touches' \in 0..MaxTouches
         /\ storedMessages' = [r \in SeqRules |-> storedMessages'[r]]
         /\ \A r \in SeqRules : storedMessages'[r] = <<>> \/ WholeSaid(storedMessages'[r])
         /\ builder' = [shown |-> builder.shown, id |-> builder.id, lines |-> lines]
         /\ builder.shown \in BOOLEAN /\ builder.id \in Makers
<1>1. UNCHANGED <<storedMessages, rowCells, readAs, rowsOpened>> /\ touches' \in 0..MaxTouches
  BY TouchedIs DEF Writing
<1>2. builder' = [shown |-> builder.shown, id |-> builder.id, lines |-> lines]
  BY TypedNow DEF Change
<1>3. QED
  BY <1>1, <1>2, TypedNow

LEMMA MessageAdded ==
  ASSUME SeqInv, AddMessage
  PROVE  SeqInv'
<1>1. PICK lines, bl, ms : lines = bl \o NewLines(ms) /\ bl = builder.lines /\ ms = <<Text(0)>>
  OBVIOUS
<1>2. Writing /\ Change(lines) /\ Len(bl) < MostMessages /\ Add(Objects(batches + 1, OfDialog(ms)))
  BY <1>1 DEF AddMessage
<1>3. /\ UNCHANGED <<storedMessages, rowCells, readAs, rowsOpened>> /\ touches' \in 0..MaxTouches
      /\ storedMessages' = [r \in SeqRules |-> storedMessages'[r]]
      /\ \A r \in SeqRules : storedMessages'[r] = <<>> \/ WholeSaid(storedMessages'[r])
      /\ builder' = [shown |-> builder.shown, id |-> builder.id, lines |-> lines]
      /\ builder.shown \in BOOLEAN /\ builder.id \in Makers
  BY <1>2, WritingIs
<1>4. /\ bl \in Seq(DOMAIN cells) /\ Len(bl) \in Nat /\ Len(bl) >= LeastMessages /\ DOMAIN bl = 1..Len(bl)
  BY <1>1, TypedNow DEF LeastMessages
<1>5. DOMAIN ms = {1} /\ Said(ms)
  BY <1>1, WholeTexts
<1>6. PICK new : new = <<batches + 1, NoSeqRule, 1, 0>>
  OBVIOUS
<1>7. NewLines(ms) = <<new>>
  <2>1. NewLines(ms) = [i \in DOMAIN ms |-> <<batches + 1, NoSeqRule, i, 0>>]
    BY DEF NewLines, Lines
  <2>2. QED
    BY <1>5, <1>6, <2>1
<1>8. PICK k \in Nat : k = Len(bl) + 1 /\ k \in LeastMessages..MostMessages
  BY <1>2, <1>4, SequenceAssumption DEF LeastMessages
<1>9. /\ lines = [i \in 1..k |-> lines[i]]
      /\ \A i \in 1..k : (i \in DOMAIN bl /\ lines[i] = bl[i]) \/ lines[i] = new
  <2>1. PICK T : T = DOMAIN cells \cup {new}
    OBVIOUS
  <2>2. bl \in Seq(T) /\ new \in T
    <3>1. DOMAIN cells \subseteq T /\ new \in T
      BY <2>1
    <3>2. QED
      BY <1>4, <3>1
  <2>3. lines = bl \o <<new>>
    BY <1>1, <1>7
  <2>4. bl \in Seq(T) /\ <<new>> \in Seq(T) /\ lines = bl \o <<new>>
    BY <2>2, <2>3
  <2>5. /\ lines \in Seq(T) /\ Len(lines) = Len(bl) + 1
        /\ \A i \in 1..(Len(bl) + 1) : (i \in DOMAIN bl /\ lines[i] = bl[i]) \/ lines[i] = new
    BY <1>4, <2>4
  <2>6. QED
    BY <1>8, <2>5
<1>10. \A i \in 1..k : \/ \E j \in DOMAIN builder.lines : lines[i] = builder.lines[j]
                       \/ \E j \in DOMAIN ms : lines[i] = <<batches + 1, NoSeqRule, j, 0>>
  BY <1>1, <1>5, <1>6, <1>9
<1>11. QED
  BY <1>2, <1>3, <1>5, <1>8, <1>9, <1>10, DialogMakes

LEMMA MessageRemoved ==
  ASSUME SeqInv, NEW i \in Index, RemoveMessage(i)
  PROVE  SeqInv'
<1>1. PICK bl : bl = builder.lines
  OBVIOUS
<1>2. PICK k \in Nat : k = Len(bl) - 1 /\ k \in LeastMessages..MostMessages /\ DOMAIN bl = 1..(k + 1)
  <2>1. Len(bl) > LeastMessages /\ Len(bl) \in Nat /\ Len(bl) \in LeastMessages..MostMessages /\ DOMAIN bl = 1..Len(bl)
    BY <1>1, TypedNow DEF RemoveMessage
  <2>2. PICK l \in Nat : l = Len(bl)
    BY <2>1
  <2>3. l - 1 \in Nat /\ l - 1 \in LeastMessages..MostMessages /\ 1..((l - 1) + 1) = DOMAIN bl
    BY <2>1, <2>2, SequenceAssumption DEF LeastMessages
  <2>4. QED
    BY <2>2, <2>3
<1>3. PICK lines : lines = [j \in 1..k |-> bl[IF j < i THEN j ELSE j + 1]]
  OBVIOUS
<1>4. Writing /\ Change(lines) /\ UNCHANGED <<cells, batches>>
  BY <1>1, <1>2, <1>3 DEF RemoveMessage
<1>5. \A x \in 1..k : \E j \in DOMAIN bl : lines[x] = bl[j]
  <2>1. \A x \in 1..k : x \in DOMAIN bl /\ x + 1 \in DOMAIN bl
    BY <1>2
  <2>2. QED
    BY <1>3, <2>1
<1>6. lines = [x \in 1..k |-> lines[x]]
  BY <1>3
<1>7. QED
  BY <1>1, <1>2, <1>4, <1>5, <1>6, WritingIs, LinesChange

LEMMA MessageMoved ==
  ASSUME SeqInv, NEW i \in Index, MoveDown(i)
  PROVE  SeqInv'
<1>1. PICK bl, lines : bl = builder.lines /\ lines = [bl EXCEPT ![i] = bl[i + 1], ![i + 1] = bl[i]]
  OBVIOUS
<1>2. Writing /\ Change(lines) /\ UNCHANGED <<cells, batches>> /\ i \in DOMAIN bl /\ i + 1 \in DOMAIN bl
  BY <1>1 DEF MoveDown, Index
<1>3. PICK k \in Nat : k \in LeastMessages..MostMessages /\ DOMAIN bl = 1..k
  BY <1>1, TypedNow
<1>4. /\ lines = [x \in 1..k |-> lines[x]]
      /\ \A x \in 1..k : \E j \in DOMAIN bl : lines[x] = bl[j]
  BY <1>1, <1>2, <1>3
<1>5. /\ UNCHANGED <<storedMessages, rowCells, readAs, rowsOpened>> /\ touches' \in 0..MaxTouches
      /\ storedMessages' = [r \in SeqRules |-> storedMessages'[r]]
      /\ \A r \in SeqRules : storedMessages'[r] = <<>> \/ WholeSaid(storedMessages'[r])
      /\ builder' = [shown |-> builder.shown, id |-> builder.id, lines |-> lines]
      /\ builder.shown \in BOOLEAN /\ builder.id \in Makers
  BY <1>2, WritingIs
<1>6. \A x \in 1..k : \E j \in DOMAIN builder.lines : lines[x] = builder.lines[j]
  BY <1>1, <1>4
<1>7. UNCHANGED <<cells, batches, rowCells, readAs, rowsOpened>> /\ lines = [x \in 1..k |-> lines[x]]
  BY <1>2, <1>4, <1>5
<1>8. QED
  BY <1>3, <1>5, <1>6, <1>7, LinesChange

LEMMA TypeSet ==
  ASSUME SeqInv, NEW i \in Index, NEW kind \in Rich \cup {Plain}, SetType(i, kind)
  PROVE  SeqInv'
<1>1. PICK m : m = [kind |-> kind, says |-> 0, entries |-> IF kind = Plain THEN <<>> ELSE <<0>>]
  OBVIOUS
<1>2. PICK ms, bl, lines : ms = <<m>> /\ bl = builder.lines /\ lines = [bl EXCEPT ![i] = New(0)]
  OBVIOUS
<1>3. Writing /\ Change(lines) /\ Add(Objects(batches + 1, OfDialog(ms))) /\ i \in DOMAIN bl
  BY <1>1, <1>2 DEF SetType, Index
<1>4. Said(ms) /\ DOMAIN ms = {1}
  <2>1. m \in SaidMessage /\ Len(m.entries) \in IF m.kind = Plain THEN {0} ELSE 1..MostEntries
    <3>1. CASE kind = Plain
      <4>1. <<>> \in Seq(Nat) /\ Len(<<>>) = 0
        OBVIOUS
      <4>2. QED
        BY <1>1, <3>1, <4>1 DEF SaidMessage, MessageKinds
    <3>2. CASE kind # Plain
      <4>1. <<0>> \in Seq(Nat) /\ Len(<<0>>) = 1 /\ 1 \in 1..MostEntries
        BY SequenceAssumption
      <4>2. QED
        BY <1>1, <3>2, <4>1 DEF SaidMessage, MessageKinds
    <3>3. QED
      BY <3>1, <3>2
  <2>2. ms \in Seq(SaidMessage) /\ DOMAIN ms = {1} /\ ms[1] = m
    BY <1>2, <2>1
  <2>3. QED
    BY <2>1, <2>2 DEF Said
<1>5. PICK k \in Nat : k \in LeastMessages..MostMessages /\ DOMAIN bl = 1..k
  BY <1>2, TypedNow
<1>6. /\ lines = [x \in 1..k |-> lines[x]]
      /\ \A x \in 1..k : lines[x] = bl[x] \/ lines[x] = <<batches + 1, NoSeqRule, 1, 0>>
  BY <1>2, <1>3, <1>5 DEF New
<1>7. \A x \in 1..k : \/ \E j \in DOMAIN builder.lines : lines[x] = builder.lines[j]
                      \/ \E j \in DOMAIN ms : lines[x] = <<batches + 1, NoSeqRule, j, 0>>
  BY <1>2, <1>4, <1>5, <1>6
<1>8. /\ UNCHANGED <<storedMessages, rowCells, readAs, rowsOpened>> /\ touches' \in 0..MaxTouches
      /\ storedMessages' = [r \in SeqRules |-> storedMessages'[r]]
      /\ \A r \in SeqRules : storedMessages'[r] = <<>> \/ WholeSaid(storedMessages'[r])
      /\ builder' = [shown |-> builder.shown, id |-> builder.id, lines |-> lines]
      /\ builder.shown \in BOOLEAN /\ builder.id \in Makers
  BY <1>3, WritingIs
<1>9. lines = [x \in 1..k |-> lines[x]] /\ k \in Nat /\ k \in LeastMessages..MostMessages
  BY <1>5, <1>6
<1>10. UNCHANGED <<rowCells, readAs, rowsOpened>> /\ Said(ms) /\ Add(Objects(batches + 1, OfDialog(ms)))
  BY <1>3, <1>4, <1>8
<1>11. QED
  BY <1>7, <1>8, <1>9, <1>10, DialogMakes, SMTT(60)

\* The heap after objects are made, and after one of its objects is written in.
Grown(cs, b, os, ds) ==
    /\ Heap(ds, b + 1) /\ DOMAIN ds = DOMAIN cs \cup DOMAIN os
    /\ \A a \in DOMAIN cs : ds[a] = cs[a]
    /\ \A a \in DOMAIN os : a \notin DOMAIN cs /\ ds[a] = os[a]
LEMMA HeapGrows ==
  ASSUME NEW cs, NEW b \in Nat, Heap(cs, b), NEW os,
         \A a \in DOMAIN os : a \in CellNames /\ a[1] = b + 1 /\ SoundCell(os[a], a, DOMAIN cs \cup DOMAIN os),
         NEW ds, ds = Together(cs, os)
  PROVE  Grown(cs, b, os, ds)
<1>1. /\ DOMAIN ds = DOMAIN cs \cup DOMAIN os /\ ds = [a \in DOMAIN ds |-> ds[a]]
      /\ \A a \in DOMAIN cs : ds[a] = cs[a]
      /\ \A a \in DOMAIN os : a \notin DOMAIN cs => ds[a] = os[a]
  BY DEF Together
<1>2. \A a \in DOMAIN cs : a \in CellNames /\ a[1] \in Nat /\ a[1] <= b /\ SoundCell(cs[a], a, DOMAIN cs)
  BY DEF Heap, CellNames
<1>3. \A a \in DOMAIN os : a \notin DOMAIN cs
  BY <1>2
<1>4. ASSUME NEW a \in DOMAIN ds PROVE a \in CellNames /\ a[1] <= b + 1 /\ SoundCell(ds[a], a, DOMAIN ds)
  <2>1. CASE a \in DOMAIN cs
    <3>1. SoundCell(cs[a], a, DOMAIN ds)
      BY <1>1, <1>2, <2>1, SoundGrows
    <3>2. QED
      BY <1>1, <1>2, <2>1, <3>1
  <2>2. CASE a \in DOMAIN os
    BY <1>1, <1>3, <2>2
  <2>3. QED
    BY <1>1, <2>1, <2>2
<1>5. QED
  BY <1>1, <1>3, <1>4 DEF Heap, Grown

LEMMA HeapWritten ==
  ASSUME NEW cs, NEW b, Heap(cs, b), NEW x \in DOMAIN cs, NEW c, SoundCell(c, x, DOMAIN cs),
         NEW ds, ds = [cs EXCEPT ![x] = c]
  PROVE  Heap(ds, b) /\ DOMAIN ds = DOMAIN cs /\ ds[x] = c /\ \A a \in DOMAIN cs : a # x => ds[a] = cs[a]
<1>1. DOMAIN ds = DOMAIN cs /\ ds[x] = c /\ \A a \in DOMAIN cs : a # x => ds[a] = cs[a]
  OBVIOUS
<1>2. \A a \in DOMAIN ds : a \in CellNames /\ a[1] <= b /\ SoundCell(ds[a], a, DOMAIN ds)
  BY <1>1 DEF Heap
<1>3. ds = [a \in DOMAIN ds |-> ds[a]]
  OBVIOUS
<1>4. QED
  BY <1>1, <1>2, <1>3 DEF Heap

\* What the dialog may do to the objects: ds after cs.
MayWrite(cs, ds, b, n, ro) ==
    /\ DOMAIN cs \subseteq DOMAIN ds
    /\ \A a \in DOMAIN cs :
         /\ ~Writable(a, n, ro) => ds[a] = cs[a]
         /\ a[4] = 0 => ds[a].kind = cs[a].kind /\ ds[a].says = cs[a].says
         /\ Writable(a, n, ro) => \A j \in DOMAIN ds[a].refs : Writable(ds[a].refs[j], n, ro)
    /\ \A a \in DOMAIN ds \ DOMAIN cs : a[1] = b + 1 /\ \A j \in DOMAIN ds[a].refs : Writable(ds[a].refs[j], n, ro)
LEMMA DialogWrites ==
  ASSUME SeqInv, NEW n \in 1..batches, RowsReadAs(n), Heap(cells, batches)', batches' = batches \/ batches' = batches + 1,
         MayWrite(cells, cells', batches, n, rowsOpened), Writing,
         NEW k \in Nat, k \in LeastMessages..MostMessages, NEW lines, lines = [i \in 1..k |-> lines[i]],
         \A i \in 1..k : \/ \E j \in DOMAIN builder.lines : lines[i] = builder.lines[j]
                         \/ lines[i] \in DOMAIN cells' /\ lines[i][4] = 0 /\ Writable(lines[i], n, rowsOpened),
         builder' = [shown |-> builder.shown, id |-> builder.id, lines |-> lines]
  PROVE  SeqInv'
<1>1. Heap(cells, batches) /\ SequencesTyped
  BY DEF SeqInv
<1>2. PICK cs, ds, b, ra, ro : cs = cells /\ ds = cells' /\ b = batches /\ ra = readAs /\ ro = rowsOpened
  OBVIOUS
<1>3. MayWrite(cs, ds, b, n, ro) /\ RowsCells(cs, n, ra, ro) /\ b \in Nat /\ n # 0 /\ n # b + 1 /\ n \in Nat
  BY <1>1, <1>2 DEF RowsReadAs, SequencesTyped
<1>4. UNCHANGED <<storedMessages, rowCells, readAs, rowsOpened>> /\ touches' \in 0..MaxTouches
  BY TouchedIs DEF Writing
<1>5. Enclosed(ds, n, ro)
  BY <1>3 DEF MayWrite, Enclosed
<1>6. RowsCells(ds, n, ra, ro)
  <2>1. \A r \in SeqRules : Said(ra[r])
    <3>1. Said(<<>>)
      BY DEF Said
    <3>2. QED
      BY <1>1, <1>2, <3>1 DEF SequencesTyped, WholeSaid
  <2>2. /\ DOMAIN cs \subseteq DOMAIN ds
        /\ \A a \in DOMAIN cs : /\ ~Writable(a, n, ro) => ds[a] = cs[a]
                                /\ a[4] = 0 => ds[a].kind = cs[a].kind /\ ds[a].says = cs[a].says
        /\ \A a \in DOMAIN ds \ DOMAIN cs : a[1] # n
    BY <1>3 DEF MayWrite
  <2>3. QED
    BY <1>3, <1>5, <2>1, <2>2, SequenceAssumption, WrittenKeeps
<1>7. batches' \in Nat /\ n \in 1..batches' /\ RowsCells(cells, n, readAs, rowsOpened)'
  BY <1>2, <1>3, <1>4, <1>6
<1>8. \A j \in DOMAIN builder.lines : /\ builder.lines[j] \in DOMAIN cells /\ builder.lines[j][4] = 0
                                      /\ Writable(builder.lines[j], n, rowsOpened)
  <2>1. builder.lines \in Seq(DOMAIN cells)
    BY <1>1 DEF SequencesTyped
  <2>2. QED
    BY <1>1, <2>1 DEF SequencesTyped, RowsReadAs
<1>9. \A i \in 1..k : lines[i] \in DOMAIN cells' /\ lines[i][4] = 0 /\ Writable(lines[i], n, rowsOpened')
  BY <1>2, <1>3, <1>4, <1>8 DEF MayWrite
<1>10. lines \in Seq(DOMAIN cells') /\ Len(lines) = k /\ DOMAIN lines = 1..k
  BY <1>9
<1>11. /\ \A r \in SeqRules : rowCells'[r] = Lines(n, r, readAs'[r])
       /\ \A r \in SeqRules : readAs'[r] = <<>> \/ WholeSaid(readAs'[r])
       /\ rowsOpened' \subseteq SeqRules /\ DOMAIN rowCells' = SeqRules
  BY <1>1, <1>4 DEF SequencesTyped, RowsReadAs
<1>12. /\ storedMessages' = [r \in SeqRules |-> storedMessages'[r]]
       /\ \A r \in SeqRules : storedMessages'[r] = <<>> \/ WholeSaid(storedMessages'[r])
       /\ builder.shown \in BOOLEAN /\ builder.id \in Makers
  BY <1>4, TypedNow
<1>13. QED
  BY <1>4, <1>7, <1>9, <1>10, <1>11, <1>12, DialogSet

\* A message of the dialog, with its list and entries.
Workable(cs, m, n, ro) ==
    /\ m \in DOMAIN cs /\ m[4] = 0 /\ Writable(m, n, ro) /\ m[1] # 0
    /\ \A j \in DOMAIN cs[m].refs : Writable(cs[m].refs[j], n, ro)
    /\ cs[m].kind # Plain =>
         /\ cs[m].refs[1] \in DOMAIN cs /\ cs[m].refs[1][4] = 1 /\ Writable(cs[m].refs[1], n, ro)
         /\ ListOf(cs, m) = cs[cs[m].refs[1]].refs
         /\ ListOf(cs, m) \in Seq(DOMAIN cs) /\ Len(ListOf(cs, m)) \in 1..MostEntries
         /\ \A j \in DOMAIN ListOf(cs, m) : /\ ListOf(cs, m)[j] \in DOMAIN cs /\ ListOf(cs, m)[j][4] >= 2
                                            /\ Writable(ListOf(cs, m)[j], n, ro)
LEMMA DialogMessage ==
  ASSUME SeqInv, NEW n, RowsReadAs(n), NEW i \in Index
  PROVE  Workable(cells, builder.lines[i], n, rowsOpened)
<1>1. PICK m, cs, b, ro : m = builder.lines[i] /\ cs = cells /\ b = batches /\ ro = rowsOpened
  OBVIOUS
<1>2. Heap(cs, b) /\ Enclosed(cs, n, ro) /\ m \in DOMAIN cs /\ m[4] = 0 /\ Writable(m, n, ro)
  <2>1. builder.lines \in Seq(DOMAIN cells) /\ builder.lines[i][4] = 0 /\ Heap(cells, batches)
    BY DEF SeqInv, SequencesTyped, Index
  <2>2. Enclosed(cells, n, rowsOpened) /\ Writable(builder.lines[i], n, rowsOpened)
    BY DEF RowsReadAs, RowsCells, Index
  <2>3. QED
    BY <1>1, <2>1, <2>2 DEF Index
<1>3. m[1] # 0 /\ \A j \in DOMAIN cs[m].refs : Writable(cs[m].refs[j], n, ro)
  BY <1>2 DEF Enclosed, Writable
<1>4. ASSUME cs[m].kind # Plain
      PROVE  /\ cs[m].refs[1] \in DOMAIN cs /\ cs[m].refs[1][4] = 1 /\ Writable(cs[m].refs[1], n, ro)
             /\ ListOf(cs, m) = cs[cs[m].refs[1]].refs
             /\ ListOf(cs, m) \in Seq(DOMAIN cs) /\ Len(ListOf(cs, m)) \in 1..MostEntries
             /\ \A j \in DOMAIN ListOf(cs, m) : /\ ListOf(cs, m)[j] \in DOMAIN cs /\ ListOf(cs, m)[j][4] >= 2
                                                /\ Writable(ListOf(cs, m)[j], n, ro)
  <2>1. /\ Len(cs[m].refs) = 1 /\ cs[m].refs \in Seq(DOMAIN cs)
        /\ cs[m].refs[1] \in DOMAIN cs /\ cs[m].refs[1][4] = 1
        /\ ListOf(cs, m) = cs[cs[m].refs[1]].refs
        /\ ListOf(cs, m) \in Seq(DOMAIN cs) /\ Len(ListOf(cs, m)) \in 1..MostEntries
        /\ \A j \in DOMAIN ListOf(cs, m) : ListOf(cs, m)[j] \in DOMAIN cs /\ ListOf(cs, m)[j][4] >= 2
    BY <1>2, <1>4, ListOfIs
  <2>2. 1 \in DOMAIN cs[m].refs
    BY <2>1
  <2>3. PICK l \in DOMAIN cs : l = cs[m].refs[1]
    BY <2>1
  <2>4. Writable(l, n, ro)
    BY <1>3, <2>2, <2>3
  <2>5. \A j \in DOMAIN cs[l].refs : Writable(cs[l].refs[j], n, ro)
    BY <1>2, <2>4 DEF Enclosed
  <2>6. QED
    BY <2>1, <2>3, <2>4, <2>5
<1>5. Workable(cs, m, n, ro)
  BY <1>2, <1>3, <1>4 DEF Workable
<1>6. QED
  BY <1>1, <1>5

LEMMA CellIs ==
  ASSUME NEW cs, NEW b, Heap(cs, b), NEW a \in DOMAIN cs
  PROVE  /\ a \in CellNames /\ SoundCell(cs[a], a, DOMAIN cs) /\ cs[a] \in CellSet(DOMAIN cs)
         /\ cs[a].refs \in Seq(DOMAIN cs) /\ cs[a].says \in Nat
         /\ cs[a] = [kind |-> cs[a].kind, says |-> cs[a].says, refs |-> cs[a].refs]
<1>1. a \in CellNames /\ SoundCell(cs[a], a, DOMAIN cs)
  BY DEF Heap
<1>2. cs[a] \in CellSet(DOMAIN cs)
  BY <1>1 DEF SoundCell
<1>3. QED
  BY <1>1, <1>2 DEF CellSet

\* The same object but for what it says.
LEMMA SaysElse ==
  ASSUME NEW cs, NEW b, Heap(cs, b), NEW x \in DOMAIN cs, NEW t \in Nat, NEW c, c = [cs[x] EXCEPT !.says = t]
  PROVE  SoundCell(c, x, DOMAIN cs) /\ c.refs = cs[x].refs /\ c.kind = cs[x].kind
<1>1. PICK D : D = DOMAIN cs
  OBVIOUS
<1>2. SoundCell(cs[x], x, D) /\ cs[x] \in CellSet(D)
  BY <1>1, CellIs
<1>3. c.refs = cs[x].refs /\ c.kind = cs[x].kind /\ c \in CellSet(D)
  BY <1>2 DEF CellSet
<1>4. SoundCell(c, x, D)
  BY <1>2, <1>3 DEF SoundCell
<1>5. QED
  BY <1>1, <1>3, <1>4

LEMMA MessageWritten ==
  ASSUME SeqInv, NEW i \in Index, UpdateField(i)
  PROVE  SeqInv'
<1>1. Heap(cells, batches) /\ SequencesTyped
  BY DEF SeqInv
<1>2. PICK n \in 1..batches : RowsReadAs(n)
  BY DEF SeqInv
<1>3. PICK cs, ds, b, ro, m : cs = cells /\ ds = cells' /\ b = batches /\ ro = rowsOpened /\ m = builder.lines[i]
  OBVIOUS
<1>4. PICK c, new, t : c = [cs[m] EXCEPT !.says = t] /\ new = <<b + 1, NoSeqRule, 1, 0>> /\ t = touches + 1
  OBVIOUS
<1>5. /\ Writing /\ ds = Together(cs, [a \in {new} |-> c]) /\ batches' = b + 1
      /\ Change([builder.lines EXCEPT ![i] = new])
  BY <1>3, <1>4 DEF UpdateField, Add, New
<1>6. Workable(cs, m, n, ro) /\ Heap(cs, b) /\ b \in Nat /\ n \in 1..b /\ t \in Nat
  BY <1>1, <1>2, <1>3, <1>4, TouchedIs, DialogMessage DEF SequencesTyped, Writing
<1>7. m \in DOMAIN cs /\ m[4] = 0 /\ m[1] # 0 /\ \A j \in DOMAIN cs[m].refs : Writable(cs[m].refs[j], n, ro)
  BY <1>6 DEF Workable
<1>8. SoundCell(c, m, DOMAIN cs) /\ c.refs = cs[m].refs /\ c.kind = cs[m].kind
  BY <1>4, <1>6, <1>7, SaysElse
<1>9. new[1] = b + 1 /\ new[4] = 0 /\ new[2] = NoSeqRule /\ new \in CellNames /\ b + 1 \in Nat
  BY <1>4, <1>6 DEF CellNames, Makers
<1>10. SoundCell(c, new, DOMAIN cs)
  BY <1>7, <1>8, <1>9 DEF SoundCell
<1>11. PICK os : os = [a \in {new} |-> c]
  OBVIOUS
<1>12. DOMAIN os = {new} /\ os[new] = c /\ SoundCell(c, new, DOMAIN cs \cup DOMAIN os)
  BY <1>10, <1>11, SoundGrows
<1>13. /\ Heap(ds, b + 1) /\ DOMAIN ds = DOMAIN cs \cup {new} /\ new \notin DOMAIN cs
       /\ \A a \in DOMAIN cs : ds[a] = cs[a]
       /\ ds[new] = c
  <2>1. \A a \in DOMAIN os : a \in CellNames /\ a[1] = b + 1 /\ SoundCell(os[a], a, DOMAIN cs \cup DOMAIN os)
    BY <1>9, <1>12
  <2>2. ds = Together(cs, os)
    BY <1>5, <1>11
  <2>3. Grown(cs, b, os, ds)
    BY <1>6, <2>1, <2>2, HeapGrows
  <2>4. QED
    BY <1>12, <2>3 DEF Grown
<1>14. Writable(new, n, ro)
  BY <1>6, <1>9, SequenceAssumption DEF Writable
<1>15. Enclosed(cs, n, ro)
  BY <1>2, <1>3 DEF RowsReadAs, RowsCells
<1>16. MayWrite(cs, ds, b, n, ro)
  <2>1. \A a \in DOMAIN cs : Writable(a, n, ro) => \A j \in DOMAIN ds[a].refs : Writable(ds[a].refs[j], n, ro)
    BY <1>13, <1>15 DEF Enclosed
  <2>2. \A a \in DOMAIN ds \ DOMAIN cs : a[1] = b + 1 /\ \A j \in DOMAIN ds[a].refs : Writable(ds[a].refs[j], n, ro)
    BY <1>7, <1>8, <1>9, <1>13
  <2>3. QED
    BY <1>13, <2>1, <2>2 DEF MayWrite
<1>17. PICK k \in Nat : k \in LeastMessages..MostMessages /\ DOMAIN builder.lines = 1..k
  BY TypedNow
<1>18. PICK lines : lines = [builder.lines EXCEPT ![i] = new]
  OBVIOUS
<1>19. /\ lines = [x \in 1..k |-> lines[x]]
       /\ \A x \in 1..k : lines[x] = builder.lines[x] \/ lines[x] = new
  BY <1>17, <1>18 DEF Index
<1>20. \A x \in 1..k : \/ \E j \in DOMAIN builder.lines : lines[x] = builder.lines[j]
                       \/ lines[x] \in DOMAIN cells' /\ lines[x][4] = 0 /\ Writable(lines[x], n, rowsOpened)
  BY <1>3, <1>9, <1>13, <1>14, <1>17, <1>19
<1>21. builder' = [shown |-> builder.shown, id |-> builder.id, lines |-> lines]
  BY <1>5, <1>18, WritingIs
<1>22. /\ Heap(cells, batches)' /\ MayWrite(cells, cells', batches, n, rowsOpened)
       /\ batches' = batches \/ batches' = batches + 1
  BY <1>3, <1>5, <1>13, <1>16
<1>23. lines = [x \in 1..k |-> lines[x]]
  BY <1>19
<1>24. QED
  BY <1>2, <1>5, <1>17, <1>20, <1>21, <1>22, <1>23, DialogWrites, SMTT(60)

\* The heap is written, and the lines are what they were.
LEMMA DialogStays ==
  ASSUME SeqInv, NEW n \in 1..batches, RowsReadAs(n), Heap(cells, batches)', batches' = batches \/ batches' = batches + 1,
         MayWrite(cells, cells', batches, n, rowsOpened), Writing, UNCHANGED builder
  PROVE  SeqInv'
<1>1. PICK k \in Nat : /\ k \in LeastMessages..MostMessages /\ DOMAIN builder.lines = 1..k
                       /\ builder.lines = [i \in 1..k |-> builder.lines[i]]
  BY TypedNow
<1>2. PICK lines : lines = builder.lines
  OBVIOUS
<1>3. builder' = [shown |-> builder.shown, id |-> builder.id, lines |-> lines] /\ lines = [i \in 1..k |-> lines[i]]
  BY <1>1, <1>2, TypedNow
<1>4. \A i \in 1..k : \/ \E j \in DOMAIN builder.lines : lines[i] = builder.lines[j]
                      \/ lines[i] \in DOMAIN cells' /\ lines[i][4] = 0 /\ Writable(lines[i], n, rowsOpened)
  BY <1>1, <1>2
<1>5. k \in Nat /\ k \in LeastMessages..MostMessages
  BY <1>1
<1>6. QED
  BY <1>3, <1>4, <1>5, DialogWrites, SMTT(60)

LEMMA EntryWritten ==
  ASSUME SeqInv, NEW i \in Index, IsRich(i, "CAROUSEL") \/ IsRich(i, "QUICK_REPLIES"),
         NEW j \in DOMAIN EntriesAt(i), WriteEntry(i, j)
  PROVE  SeqInv'
<1>1. Heap(cells, batches) /\ SequencesTyped
  BY DEF SeqInv
<1>2. PICK n \in 1..batches : RowsReadAs(n)
  BY DEF SeqInv
<1>3. PICK cs, ds, b, ro, m : cs = cells /\ ds = cells' /\ b = batches /\ ro = rowsOpened /\ m = builder.lines[i]
  OBVIOUS
<1>4. PICK es, e, c, t : es = EntriesAt(i) /\ e = es[j] /\ c = [cs[e] EXCEPT !.says = t] /\ t = touches + 1
  OBVIOUS
<1>5. cs[m].kind # Plain /\ es = ListOf(cs, m)
  BY <1>3, <1>4 DEF IsRich, Plain, EntriesAt
<1>6. Workable(cs, m, n, ro) /\ Heap(cs, b) /\ b \in Nat /\ t \in Nat
  BY <1>1, <1>2, <1>3, <1>4, TouchedIs, DialogMessage DEF SequencesTyped, WriteEntry, Writing
<1>7. e \in DOMAIN cs /\ e[4] >= 2 /\ Writable(e, n, ro)
  BY <1>4, <1>5, <1>6 DEF Workable
<1>8. ds = [cs EXCEPT ![e] = c] /\ Writing /\ UNCHANGED <<builder, batches>>
  <2>1. Writing /\ cells' = [cells EXCEPT ![EntriesAt(i)[j]].says = touches + 1] /\ UNCHANGED <<builder, batches>>
    BY DEF WriteEntry
  <2>2. QED
    BY <1>3, <1>4, <2>1
<1>9. SoundCell(c, e, DOMAIN cs) /\ c.refs = cs[e].refs
  BY <1>4, <1>6, <1>7, SaysElse
<1>10. Heap(ds, b) /\ DOMAIN ds = DOMAIN cs /\ ds[e] = c /\ \A a \in DOMAIN cs : a # e => ds[a] = cs[a]
  BY <1>6, <1>7, <1>8, <1>9, HeapWritten
<1>11. Enclosed(cs, n, ro)
  BY <1>2, <1>3 DEF RowsReadAs, RowsCells
<1>12. MayWrite(cs, ds, b, n, ro)
  <2>1. ASSUME NEW a \in DOMAIN cs
        PROVE  /\ ~Writable(a, n, ro) => ds[a] = cs[a]
               /\ a[4] = 0 => ds[a].kind = cs[a].kind /\ ds[a].says = cs[a].says
               /\ Writable(a, n, ro) => \A x \in DOMAIN ds[a].refs : Writable(ds[a].refs[x], n, ro)
    <3>1. CASE a = e
      <4>1. ~(a[4] = 0)
        BY <1>7, <3>1
      <4>2. QED
        BY <1>7, <1>9, <1>10, <1>11, <3>1, <4>1 DEF Enclosed
    <3>2. CASE a # e
      BY <1>10, <1>11, <3>2 DEF Enclosed
    <3>3. QED
      BY <3>1, <3>2
  <2>2. QED
    BY <1>10, <2>1 DEF MayWrite
<1>13. QED
  BY <1>2, <1>3, <1>8, <1>10, <1>12, DialogStays

LEMMA EntryRemoved ==
  ASSUME SeqInv, NEW i \in Index, IsRich(i, "CAROUSEL") \/ IsRich(i, "QUICK_REPLIES"),
         NEW j \in DOMAIN EntriesAt(i), RemoveEntry(i, j)
  PROVE  SeqInv'
<1>1. Heap(cells, batches) /\ SequencesTyped
  BY DEF SeqInv
<1>2. PICK n \in 1..batches : RowsReadAs(n)
  BY DEF SeqInv
<1>3. PICK cs, ds, b, ro, m : cs = cells /\ ds = cells' /\ b = batches /\ ro = rowsOpened /\ m = builder.lines[i]
  OBVIOUS
<1>4. PICK l, es : l = cs[m].refs[1] /\ es = EntriesAt(i)
  OBVIOUS
<1>5. cs[m].kind # Plain /\ es = ListOf(cs, m)
  BY <1>3, <1>4 DEF IsRich, Plain, EntriesAt
<1>6. Workable(cs, m, n, ro) /\ Heap(cs, b) /\ b \in Nat
  BY <1>1, <1>2, <1>3, DialogMessage DEF SequencesTyped
<1>7. /\ l \in DOMAIN cs /\ l[4] = 1 /\ Writable(l, n, ro) /\ es = cs[l].refs
      /\ es \in Seq(DOMAIN cs) /\ Len(es) \in 1..MostEntries
      /\ \A x \in DOMAIN es : es[x] \in DOMAIN cs /\ es[x][4] >= 2 /\ Writable(es[x], n, ro)
  BY <1>4, <1>5, <1>6 DEF Workable
<1>8. PICK fs, c : /\ fs = [k \in 1..(Len(es) - 1) |-> es[IF k < j THEN k ELSE k + 1]]
                   /\ c = [cs[l] EXCEPT !.refs = fs]
  OBVIOUS
<1>9. ds = [cs EXCEPT ![l] = c] /\ Writing /\ UNCHANGED <<builder, batches>> /\ Len(es) > 1
  <2>1. /\ Writing /\ UNCHANGED <<builder, batches>> /\ Len(EntriesAt(i)) > 1
        /\ cells' = [cells EXCEPT ![cells[builder.lines[i]].refs[1]].refs =
                       [k \in 1..(Len(@) - 1) |-> @[IF k < j THEN k ELSE k + 1]]]
    BY DEF RemoveEntry
  <2>2. QED
    BY <1>3, <1>4, <1>7, <1>8, <2>1
<1>10. PICK w \in Nat : w = Len(es) - 1 /\ w \in 1..MostEntries /\ DOMAIN es = 1..(w + 1)
  <2>1. Len(es) \in Nat /\ DOMAIN es = 1..Len(es) /\ MostEntries \in Nat
    BY <1>7, SequenceAssumption
  <2>2. PICK z \in Nat : z = Len(es)
    BY <2>1
  <2>3. z - 1 \in Nat /\ z - 1 \in 1..MostEntries /\ 1..((z - 1) + 1) = DOMAIN es
    BY <1>7, <1>9, <2>1, <2>2
  <2>4. QED
    BY <2>2, <2>3
<1>11. \A k \in 1..w : fs[k] \in DOMAIN cs /\ fs[k][4] >= 2 /\ Writable(fs[k], n, ro)
  <2>1. \A k \in 1..w : k \in DOMAIN es /\ k + 1 \in DOMAIN es
    BY <1>10
  <2>2. QED
    BY <1>7, <1>8, <1>10, <2>1
<1>12. fs \in Seq(DOMAIN cs) /\ Len(fs) = w /\ DOMAIN fs = 1..w
  <2>1. fs = [k \in 1..w |-> fs[k]] /\ \A k \in 1..w : fs[k] \in DOMAIN cs
    BY <1>8, <1>10, <1>11
  <2>2. QED
    BY <2>1
<1>13. c.refs = fs /\ c.kind = cs[l].kind /\ c \in CellSet(DOMAIN cs)
  <2>1. PICK D : D = DOMAIN cs
    OBVIOUS
  <2>2. cs[l] \in CellSet(D) /\ fs \in Seq(D)
    BY <1>6, <1>7, <1>12, <2>1, CellIs
  <2>3. c.refs = fs /\ c.kind = cs[l].kind /\ c \in CellSet(D)
    BY <1>8, <2>2 DEF CellSet
  <2>4. QED
    BY <2>1, <2>3
<1>14. SoundCell(c, l, DOMAIN cs)
  <2>1. \A k \in DOMAIN c.refs : c.refs[k][4] >= 2 /\ c.refs[k][1] # 0
    BY <1>11, <1>12, <1>13 DEF Writable
  <2>2. l[4] # 0 /\ Len(c.refs) \in 1..MostEntries
    BY <1>7, <1>10, <1>12, <1>13
  <2>3. QED
    BY <1>13, <2>1, <2>2 DEF SoundCell
<1>15. Heap(ds, b) /\ DOMAIN ds = DOMAIN cs /\ ds[l] = c /\ \A a \in DOMAIN cs : a # l => ds[a] = cs[a]
  BY <1>6, <1>7, <1>9, <1>14, HeapWritten
<1>16. Enclosed(cs, n, ro)
  BY <1>2, <1>3 DEF RowsReadAs, RowsCells
<1>17. MayWrite(cs, ds, b, n, ro)
  <2>1. ASSUME NEW a \in DOMAIN cs
        PROVE  /\ ~Writable(a, n, ro) => ds[a] = cs[a]
               /\ a[4] = 0 => ds[a].kind = cs[a].kind /\ ds[a].says = cs[a].says
               /\ Writable(a, n, ro) => \A x \in DOMAIN ds[a].refs : Writable(ds[a].refs[x], n, ro)
    <3>1. CASE a = l
      <4>1. ~(a[4] = 0)
        BY <1>7, <3>1
      <4>2. \A x \in DOMAIN ds[a].refs : Writable(ds[a].refs[x], n, ro)
        BY <1>11, <1>12, <1>13, <1>15, <3>1
      <4>3. QED
        BY <1>7, <3>1, <4>1, <4>2
    <3>2. CASE a # l
      BY <1>15, <1>16, <3>2 DEF Enclosed
    <3>3. QED
      BY <3>1, <3>2
  <2>2. QED
    BY <1>15, <2>1 DEF MayWrite
<1>18. QED
  BY <1>2, <1>3, <1>9, <1>15, <1>17, DialogStays

LEMMA EntryAdded ==
  ASSUME SeqInv, NEW i \in Index, IsRich(i, "CAROUSEL") \/ IsRich(i, "QUICK_REPLIES"), AddEntry(i)
  PROVE  SeqInv'
<1>1. Heap(cells, batches) /\ SequencesTyped
  BY DEF SeqInv
<1>2. PICK n \in 1..batches : RowsReadAs(n)
  BY DEF SeqInv
<1>3. PICK cs, ds, b, ro, m : cs = cells /\ ds = cells' /\ b = batches /\ ro = rowsOpened /\ m = builder.lines[i]
  OBVIOUS
<1>4. PICK es, l, e : es = EntriesAt(i) /\ l = <<b + 1, NoSeqRule, 1, 1>> /\ e = <<b + 1, NoSeqRule, 1, 2>>
  OBVIOUS
<1>5. cs[m].kind # Plain /\ es = ListOf(cs, m)
  BY <1>3, <1>4 DEF IsRich, Plain, EntriesAt
<1>6. Workable(cs, m, n, ro) /\ Heap(cs, b) /\ b \in Nat /\ b + 1 \in Nat /\ n \in 1..b
  BY <1>1, <1>2, <1>3, DialogMessage DEF SequencesTyped
<1>7. /\ m \in DOMAIN cs /\ m[4] = 0 /\ Writable(m, n, ro) /\ m[1] # 0
      /\ es \in Seq(DOMAIN cs) /\ Len(es) \in 1..MostEntries
      /\ \A x \in DOMAIN es : es[x] \in DOMAIN cs /\ es[x][4] >= 2 /\ Writable(es[x], n, ro)
  BY <1>5, <1>6 DEF Workable
<1>8. PICK os : os = [a \in {l, e} |-> IF a = l THEN Cell("list", 0, Append(es, e)) ELSE Cell("entry", 0, <<>>)]
  OBVIOUS
<1>9. /\ Writing /\ Len(es) < MostEntries /\ UNCHANGED builder /\ batches' = b + 1
      /\ ds = Together([cs EXCEPT ![m].refs = <<l>>], os)
  <2>1. New(1) = l /\ New(2) = e
    BY <1>3, <1>4 DEF New
  <2>2. QED
    BY <1>3, <1>4, <1>8, <2>1 DEF AddEntry
<1>10. PICK fs : fs = Append(es, e)
  OBVIOUS
<1>11. /\ l # e /\ DOMAIN os = {l, e} /\ os[l] = [kind |-> "list", says |-> 0, refs |-> fs]
       /\ os[e] = [kind |-> "entry", says |-> 0, refs |-> <<>>]
       /\ l[1] = b + 1 /\ l[4] = 1 /\ e[1] = b + 1 /\ e[4] = 2 /\ l[2] = NoSeqRule /\ e[2] = NoSeqRule
       /\ l \in CellNames /\ e \in CellNames
  BY <1>4, <1>6, <1>8, <1>10 DEF Cell, CellNames, Makers
<1>12. Writable(l, n, ro) /\ Writable(e, n, ro)
  BY <1>6, <1>11, SequenceAssumption DEF Writable
<1>13. PICK D : D = DOMAIN cs \cup {l, e}
  OBVIOUS
<1>14. PICK w \in Nat : w = Len(es) /\ DOMAIN es = 1..w /\ w + 1 \in 1..MostEntries
  <2>1. Len(es) \in Nat /\ DOMAIN es = 1..Len(es) /\ Len(es) + 1 \in 1..MostEntries
    BY <1>7, <1>9, SequenceAssumption
  <2>2. QED
    BY <2>1
<1>15. /\ fs \in Seq(D) /\ Len(fs) = w + 1 /\ DOMAIN fs = 1..(w + 1)
       /\ \A k \in 1..(w + 1) : (k \in DOMAIN es /\ fs[k] = es[k]) \/ fs[k] = e
  <2>1. es \in Seq(D) /\ e \in D
    <3>1. DOMAIN cs \subseteq D /\ e \in D
      BY <1>13
    <3>2. QED
      BY <1>7, <3>1
  <2>2. QED
    BY <1>10, <1>14, <2>1
<1>16. \A k \in 1..(w + 1) : fs[k][4] >= 2 /\ Writable(fs[k], n, ro)
  BY <1>7, <1>11, <1>12, <1>15
<1>17. SoundCell(os[l], l, D) /\ SoundCell(os[e], e, D)
  <2>1. os[l] \in CellSet(D) /\ os[e] \in CellSet(D)
    <3>1. <<>> \in Seq(D)
      OBVIOUS
    <3>2. QED
      BY <1>11, <1>15, <3>1 DEF CellSet
  <2>2. os[l].refs = fs /\ \A k \in DOMAIN fs : fs[k][4] >= 2 /\ fs[k][1] # 0
    BY <1>11, <1>15, <1>16 DEF Writable
  <2>3. SoundCell(os[l], l, D)
    BY <1>11, <1>14, <1>15, <2>1, <2>2 DEF SoundCell
  <2>4. SoundCell(os[e], e, D)
    <3>1. os[e].refs = <<>> /\ DOMAIN os[e].refs = {}
      BY <1>11
    <3>2. QED
      BY <1>11, <2>1, <3>1 DEF SoundCell
  <2>5. QED
    BY <2>3, <2>4
<1>18. PICK hs : hs = Together(cs, os)
  OBVIOUS
<1>19. /\ Heap(hs, b + 1) /\ DOMAIN hs = D
       /\ \A a \in DOMAIN cs : hs[a] = cs[a]
       /\ l \notin DOMAIN cs /\ e \notin DOMAIN cs /\ hs[l] = os[l] /\ hs[e] = os[e]
  <2>1. \A a \in DOMAIN os : a \in CellNames /\ a[1] = b + 1 /\ SoundCell(os[a], a, DOMAIN cs \cup DOMAIN os)
    BY <1>11, <1>13, <1>17
  <2>2. Grown(cs, b, os, hs)
    BY <1>6, <1>18, <2>1, HeapGrows
  <2>3. QED
    BY <1>11, <1>13, <2>2 DEF Grown
<1>20. PICK c : c = [cs[m] EXCEPT !.refs = <<l>>]
  OBVIOUS
<1>21. c.kind = cs[m].kind /\ c.says = cs[m].says /\ c.refs = <<l>> /\ c \in CellSet(D) /\ c.kind \in MessageKinds
  <2>1. hs[m] \in CellSet(D) /\ hs[m] = cs[m]
    BY <1>7, <1>13, <1>19, CellIs
  <2>2. <<l>> \in Seq(D)
    BY <1>13
  <2>3. c.kind = cs[m].kind /\ c.says = cs[m].says /\ c.refs = <<l>> /\ c \in CellSet(D)
    BY <1>20, <2>1, <2>2 DEF CellSet
  <2>4. c.kind \in MessageKinds
    BY <1>6, <1>7, <2>3, ListOfIs
  <2>5. QED
    BY <2>3, <2>4
<1>22. Len(c.refs) = 1 /\ DOMAIN c.refs = {1} /\ c.refs[1] = l
  BY <1>21
<1>23. SoundCell(c, m, D)
  BY <1>5, <1>6, <1>7, <1>11, <1>21, <1>22 DEF SoundCell
<1>24. ds = [hs EXCEPT ![m] = c]
  <2>1. PICK cs1 : cs1 = [cs EXCEPT ![m] = c]
    OBVIOUS
  <2>2. ds = Together(cs1, os) /\ DOMAIN cs1 = DOMAIN cs /\ cs1[m] = c /\ \A a \in DOMAIN cs : a # m => cs1[a] = cs[a]
    BY <1>7, <1>9, <1>20, <2>1
  <2>3. ds = [a \in D |-> IF a \in DOMAIN cs THEN cs1[a] ELSE os[a]]
    BY <1>11, <1>13, <2>2 DEF Together
  <2>4. hs = [a \in D |-> IF a \in DOMAIN cs THEN cs[a] ELSE os[a]]
    BY <1>11, <1>13, <1>18 DEF Together
  <2>5. \A a \in D : ds[a] = [hs EXCEPT ![m] = c][a]
    BY <1>7, <2>2, <2>3, <2>4
  <2>6. DOMAIN [hs EXCEPT ![m] = c] = D /\ DOMAIN ds = D
    BY <2>3, <2>4
  <2>7. QED
    BY <2>3, <2>4, <2>5, <2>6
<1>25. Heap(ds, b + 1) /\ DOMAIN ds = D /\ ds[m] = c /\ \A a \in D : a # m => ds[a] = hs[a]
  BY <1>7, <1>13, <1>19, <1>23, <1>24, HeapWritten
<1>26. Enclosed(cs, n, ro)
  BY <1>2, <1>3 DEF RowsReadAs, RowsCells
<1>27. MayWrite(cs, ds, b, n, ro)
  <2>1. ASSUME NEW a \in DOMAIN cs
        PROVE  /\ ~Writable(a, n, ro) => ds[a] = cs[a]
               /\ a[4] = 0 => ds[a].kind = cs[a].kind /\ ds[a].says = cs[a].says
               /\ Writable(a, n, ro) => \A x \in DOMAIN ds[a].refs : Writable(ds[a].refs[x], n, ro)
    <3>1. CASE a = m
      BY <1>7, <1>12, <1>21, <1>22, <1>25, <3>1
    <3>2. CASE a # m
      BY <1>13, <1>19, <1>25, <1>26, <3>2 DEF Enclosed
    <3>3. QED
      BY <3>1, <3>2
  <2>2. ASSUME NEW a \in DOMAIN ds \ DOMAIN cs
        PROVE  a[1] = b + 1 /\ \A x \in DOMAIN ds[a].refs : Writable(ds[a].refs[x], n, ro)
    <3>1. a = l \/ a = e
      BY <1>13, <1>25
    <3>2. a[1] = b + 1 /\ ds[a] = os[a]
      BY <1>7, <1>11, <1>13, <1>19, <1>25, <3>1
    <3>3. CASE a = l
      <4>1. ds[a].refs = fs
        BY <1>11, <3>2, <3>3
      <4>2. QED
        BY <1>15, <1>16, <3>2, <4>1
    <3>4. CASE a = e
      <4>1. ds[a].refs = <<>>
        BY <1>11, <3>2, <3>4
      <4>2. QED
        BY <3>2, <4>1
    <3>5. QED
      BY <3>1, <3>3, <3>4
  <2>3. QED
    BY <1>13, <1>25, <2>1, <2>2 DEF MayWrite
<1>28. Heap(cells, batches)' /\ MayWrite(cells, cells', batches, n, rowsOpened) /\ batches' = batches + 1
  BY <1>3, <1>9, <1>25, <1>27
<1>29. QED
  BY <1>2, <1>9, <1>28, DialogStays

\* Rows that are read as they are stored.
LEMMA RowsNewlyRead ==
  ASSUME NEW ds, NEW n \in Nat \ {0}, NEW sm, \A r \in SeqRules : Said(sm[r]) /\ Pristine(ds, n, r, sm[r]),
         Heap(ds, n), Pristine(ds, 0, NoSeqRule, TemplateSays),
         \A a \in DOMAIN ds : a[1] = n /\ a[2] \in SeqRules => a \in Names(n, a[2], sm[a[2]]),
         \A a \in DOMAIN ds : ~(a[1] = n /\ a[2] \in SeqRules) =>
           \A j \in DOMAIN ds[a].refs : ~(ds[a].refs[j][1] = n /\ ds[a].refs[j][2] \in SeqRules)
  PROVE  RowsCells(ds, n, sm, {})
<1>1. ASSUME NEW r \in SeqRules, NEW i \in DOMAIN sm[r]
      PROVE  /\ <<n, r, i, 0>> \in DOMAIN ds
             /\ ds[<<n, r, i, 0>>].kind = sm[r][i].kind /\ ds[<<n, r, i, 0>>].says = sm[r][i].says
  <2>1. PICK a, ms : a = <<n, r, i, 0>> /\ ms = sm[r]
    OBVIOUS
  <2>2. Said(ms) /\ Pristine(ds, n, r, ms) /\ r \in Makers /\ i \in DOMAIN ms
    BY <2>1 DEF Makers
  <2>3. a \in Names(n, r, ms) /\ a[3] = i /\ a[4] = 0
    BY <2>1, <2>2, NamesAre
  <2>4. a \in DOMAIN ds /\ ds[a] = Made(a, ms[a[3]])
    BY <2>2, <2>3 DEF Pristine
  <2>5. WellMade(ds[a], a, n, r, ms)
    BY <2>2, <2>3, <2>4, MadeIs
  <2>6. QED
    BY <2>1, <2>3, <2>4, <2>5 DEF WellMade
<1>2. Enclosed(ds, n, {})
  <2>1. ASSUME NEW a \in DOMAIN ds, Writable(a, n, {}), NEW j \in DOMAIN ds[a].refs PROVE Writable(ds[a].refs[j], n, {})
    <3>1. a[1] # 0 /\ ~(a[1] = n /\ a[2] \in SeqRules)
      BY <2>1 DEF Writable
    <3>2. ds[a].refs[j][1] # 0
      <4>1. SoundCell(ds[a], a, DOMAIN ds)
        BY CellIs
      <4>2. QED
        BY <2>1, <3>1, <4>1 DEF SoundCell
    <3>3. QED
      BY <2>1, <3>1, <3>2 DEF Writable
  <2>2. QED
    BY <2>1 DEF Enclosed
<1>3. QED
  BY <1>1, <1>2 DEF RowsCells

LEMMA ListRead ==
  ASSUME SeqInv, ReadRules
  PROVE  SeqInv'
<1>1. Heap(cells, batches) /\ SequencesTyped
  BY DEF SeqInv
<1>2. PICK n \in 1..batches : RowsReadAs(n)
  BY DEF SeqInv
<1>3. PICK cs, ds, b, sm : cs = cells /\ ds = cells' /\ b = batches /\ sm = storedMessages
  OBVIOUS
<1>4. /\ ds = Together(cs, Objects(b + 1, sm)) /\ batches' = b + 1 /\ readAs' = sm /\ rowsOpened' = {}
      /\ rowCells' = [r \in SeqRules |-> Lines(b + 1, r, sm[r])]
      /\ UNCHANGED <<storedMessages, builder>> /\ touches' \in 0..MaxTouches
  BY <1>3, TouchedIs DEF ReadRules, Add
<1>5. DOMAIN sm = SeqRules /\ DOMAIN sm \subseteq Makers /\ b \in Nat /\ b + 1 \in Nat \ {0} /\ n \in 1..b
  BY <1>1, <1>3 DEF SequencesTyped, Makers
<1>6. /\ sm = [r \in SeqRules |-> sm[r]]
      /\ \A r \in SeqRules : (sm[r] = <<>> \/ WholeSaid(sm[r])) /\ Said(sm[r])
  <2>1. Said(<<>>)
    BY DEF Said
  <2>2. QED
    BY <1>1, <1>3, <2>1 DEF SequencesTyped, WholeSaid
<1>7. /\ Heap(ds, b + 1) /\ DOMAIN cs \subseteq DOMAIN ds /\ \A a \in DOMAIN cs : ds[a] = cs[a]
      /\ \A r \in DOMAIN sm : Pristine(ds, b + 1, r, sm[r])
      /\ \A a \in DOMAIN ds \ DOMAIN cs :
           /\ a[1] = b + 1 /\ a[2] \in DOMAIN sm /\ a \in Names(b + 1, a[2], sm[a[2]])
           /\ \A j \in DOMAIN ds[a].refs : ds[a].refs[j][1] = b + 1 /\ ds[a].refs[j][2] = a[2]
  BY <1>1, <1>3, <1>4, <1>5, <1>6, Addition
<1>8. \A a \in DOMAIN cs : a \in CellNames /\ a[1] \in Nat /\ a[1] <= b /\ a[1] # b + 1
  <2>1. \A a \in DOMAIN cs : a \in CellNames /\ a[1] <= b
    BY <1>1, <1>3 DEF Heap
  <2>2. \A a \in CellNames : a[1] \in Nat
    BY DEF CellNames
  <2>3. QED
    BY <1>5, <2>1, <2>2
<1>9. Pristine(ds, 0, NoSeqRule, TemplateSays)
  <2>1. Pristine(cs, 0, NoSeqRule, TemplateSays)
    BY <1>2, <1>3 DEF RowsReadAs, RowsCells
  <2>2. QED
    BY <1>7, <2>1 DEF Pristine
<1>10. \A a \in DOMAIN ds : a[1] = b + 1 /\ a[2] \in SeqRules => a \in Names(b + 1, a[2], sm[a[2]])
  BY <1>7, <1>8
<1>11. ASSUME NEW a \in DOMAIN ds, ~(a[1] = b + 1 /\ a[2] \in SeqRules), NEW j \in DOMAIN ds[a].refs
       PROVE  ds[a].refs[j][1] # b + 1
  <2>1. a \in DOMAIN cs /\ ds[a] = cs[a]
    BY <1>5, <1>7, <1>11
  <2>2. cs[a].refs \in Seq(DOMAIN cs)
    BY <1>1, <1>3, <2>1, CellIs
  <2>3. ds[a].refs[j] \in DOMAIN cs
    BY <1>11, <2>1, <2>2
  <2>4. QED
    BY <1>8, <2>3
<1>12. PICK z \in Nat \ {0} : z = b + 1
  BY <1>5
<1>13. \A r \in SeqRules : Said(sm[r]) /\ Pristine(ds, z, r, sm[r])
  BY <1>5, <1>6, <1>7, <1>12
<1>14. \A a \in DOMAIN ds : a[1] = z /\ a[2] \in SeqRules => a \in Names(z, a[2], sm[a[2]])
  BY <1>10, <1>12
<1>15. \A a \in DOMAIN ds : ~(a[1] = z /\ a[2] \in SeqRules) =>
         \A j \in DOMAIN ds[a].refs : ~(ds[a].refs[j][1] = z /\ ds[a].refs[j][2] \in SeqRules)
  BY <1>11, <1>12
<1>16. RowsCells(ds, b + 1, sm, {})
  <2>1. Heap(ds, z)
    BY <1>7, <1>12
  <2>2. RowsCells(ds, z, sm, {})
    BY <1>9, <1>13, <1>14, <1>15, <2>1, RowsNewlyRead
  <2>3. QED
    BY <1>12, <2>2
<1>17. PICK lines : lines = builder.lines
  OBVIOUS
<1>18. /\ lines \in Seq(DOMAIN cells) /\ Len(lines) \in LeastMessages..MostMessages
       /\ \A i \in DOMAIN lines : lines[i][4] = 0 /\ Writable(lines[i], n, rowsOpened) /\ lines[i] \in DOMAIN cells
  BY <1>1, <1>2, <1>17, TypedNow DEF SequencesTyped, RowsReadAs
<1>19. \A i \in DOMAIN lines : lines[i][4] = 0 /\ Writable(lines[i], b + 1, {})
  BY <1>3, <1>8, <1>18 DEF Writable
<1>20. lines \in Seq(DOMAIN cells')
  <2>1. DOMAIN cells \subseteq DOMAIN cells'
    BY <1>3, <1>7
  <2>2. QED
    BY <1>18, <2>1
<1>21. builder' = [shown |-> builder.shown, id |-> builder.id, lines |-> lines]
  BY <1>4, <1>17, TypedNow
<1>22. PICK k : k = b + 1
  OBVIOUS
<1>23. /\ k \in 1..batches' /\ Heap(cells, batches)' /\ batches' \in Nat /\ RowsCells(cells, k, readAs, rowsOpened)'
       /\ \A r \in SeqRules : rowCells'[r] = Lines(k, r, readAs'[r])
       /\ \A r \in SeqRules : readAs'[r] = <<>> \/ WholeSaid(readAs'[r])
       /\ \A i \in DOMAIN lines : lines[i][4] = 0 /\ Writable(lines[i], k, rowsOpened')
       /\ rowsOpened' \subseteq SeqRules /\ DOMAIN rowCells' = SeqRules
  BY <1>3, <1>4, <1>5, <1>6, <1>7, <1>16, <1>19, <1>22
<1>24. /\ storedMessages' = [r \in SeqRules |-> storedMessages'[r]] /\ builder.shown \in BOOLEAN /\ builder.id \in Makers
       /\ \A r \in SeqRules : storedMessages'[r] = <<>> \/ WholeSaid(storedMessages'[r])
  BY <1>4, TypedNow
<1>25. QED
  BY <1>4, <1>18, <1>20, <1>21, <1>23, <1>24, DialogSet, SMTT(60)

\* The page begins with a template, a dialog and the rows.
LEMMA SequencesInit == SequenceInit => SeqInv
<1> SUFFICES ASSUME SequenceInit PROVE SeqInv
  OBVIOUS
<1>1. PICK sm, tell, two : sm = storedMessages /\ tell = OfDialog(TemplateSays) /\ two = OfDialog(TwoTexts)
  OBVIOUS
<1>2. PICK os, ps, qs, cs : /\ os = Objects(0, tell) /\ ps = Objects(1, two) /\ qs = Objects(1, sm) /\ cs = cells
  OBVIOUS
<1>3. /\ sm \in [SeqRules -> {<<>>, RowSays}] /\ batches = 1 /\ readAs = sm /\ rowsOpened = {} /\ touches = 0
      /\ rowCells = [r \in SeqRules |-> Lines(1, r, sm[r])]
      /\ builder = [shown |-> FALSE, id |-> NoSeqRule, lines |-> Lines(1, NoSeqRule, TwoTexts)]
      /\ cs = Together(Together(os, ps), qs)
  BY <1>1, <1>2 DEF SequenceInit
<1>4. /\ Said(TemplateSays) /\ Said(TwoTexts) /\ WholeSaid(TwoTexts)
      /\ \A r \in SeqRules : (sm[r] = <<>> \/ WholeSaid(sm[r])) /\ Said(sm[r])
  <2>1. Said(<<>>)
    BY DEF Said
  <2>2. QED
    BY <1>3, <2>1, WholeTexts DEF WholeSaid
<1>5. /\ DOMAIN tell = {NoSeqRule} /\ tell[NoSeqRule] = TemplateSays
      /\ DOMAIN two = {NoSeqRule} /\ two[NoSeqRule] = TwoTexts
      /\ DOMAIN sm = SeqRules /\ NoSeqRule \notin SeqRules
      /\ NoSeqRule \in Makers /\ SeqRules \subseteq Makers
  BY <1>1, <1>3, SequenceAssumption DEF OfDialog, Makers
<1>6. /\ os = [a \in DOMAIN os |-> os[a]] /\ Names(0, NoSeqRule, TemplateSays) \subseteq DOMAIN os
      /\ \A a \in DOMAIN os :
           /\ a[1] = 0 /\ a[2] = NoSeqRule /\ a \in CellNames
           /\ os[a] = Made(a, TemplateSays[a[3]]) /\ SoundCell(os[a], a, DOMAIN os)
           /\ \A j \in DOMAIN os[a].refs : os[a].refs[j][1] = 0 /\ os[a].refs[j][2] = NoSeqRule
  <2>1. DOMAIN tell \subseteq Makers /\ \A r \in DOMAIN tell : Said(tell[r])
    BY <1>4, <1>5
  <2>2. /\ os = [a \in DOMAIN os |-> os[a]]
        /\ \A r \in DOMAIN tell : Names(0, r, tell[r]) \subseteq DOMAIN os
        /\ \A a \in DOMAIN os :
              /\ a[1] = 0 /\ a[2] \in DOMAIN tell /\ a \in CellNames
              /\ os[a] = Made(a, tell[a[2]][a[3]])
              /\ SoundCell(os[a], a, DOMAIN os)
              /\ \A j \in DOMAIN os[a].refs : os[a].refs[j][1] = 0 /\ os[a].refs[j][2] = a[2]
    BY <1>2, <2>1, ObjectsAre
  <2>3. QED
    BY <1>5, <2>2
<1>7. /\ Names(1, NoSeqRule, TwoTexts) \subseteq DOMAIN ps
      /\ \A a \in DOMAIN ps :
           /\ a[1] = 1 /\ a[2] = NoSeqRule /\ a \in CellNames /\ SoundCell(ps[a], a, DOMAIN ps)
           /\ \A j \in DOMAIN ps[a].refs : ps[a].refs[j][1] = 1 /\ ps[a].refs[j][2] = NoSeqRule
  <2>1. DOMAIN two \subseteq Makers /\ \A r \in DOMAIN two : Said(two[r])
    BY <1>4, <1>5
  <2>2. /\ \A r \in DOMAIN two : Names(1, r, two[r]) \subseteq DOMAIN ps
        /\ \A a \in DOMAIN ps :
              /\ a[1] = 1 /\ a[2] \in DOMAIN two /\ a \in CellNames
              /\ SoundCell(ps[a], a, DOMAIN ps)
              /\ \A j \in DOMAIN ps[a].refs : ps[a].refs[j][1] = 1 /\ ps[a].refs[j][2] = a[2]
    BY <1>2, <2>1, ObjectsAre
  <2>3. QED
    BY <1>5, <2>2
<1>8. /\ \A r \in SeqRules : Names(1, r, sm[r]) \subseteq DOMAIN qs
      /\ \A a \in DOMAIN qs :
           /\ a[1] = 1 /\ a[2] \in SeqRules /\ a \in CellNames /\ SoundCell(qs[a], a, DOMAIN qs)
           /\ a \in Names(1, a[2], sm[a[2]]) /\ qs[a] = Made(a, sm[a[2]][a[3]])
  <2>1. DOMAIN sm \subseteq Makers /\ \A r \in DOMAIN sm : Said(sm[r])
    BY <1>4, <1>5
  <2>2. /\ \A r \in DOMAIN sm : Names(1, r, sm[r]) \subseteq DOMAIN qs
        /\ \A a \in DOMAIN qs :
              /\ a[1] = 1 /\ a[2] \in DOMAIN sm /\ a \in Names(1, a[2], sm[a[2]])
              /\ a \in CellNames /\ qs[a] = Made(a, sm[a[2]][a[3]])
              /\ SoundCell(qs[a], a, DOMAIN qs)
    BY <1>2, <2>1, ObjectsAre
  <2>3. QED
    BY <1>5, <2>2
<1>9. PICK new : new = Together(ps, qs)
  OBVIOUS
<1>10. /\ DOMAIN new = DOMAIN ps \cup DOMAIN qs
       /\ \A a \in DOMAIN ps : new[a] = ps[a]
       /\ \A a \in DOMAIN qs : a \notin DOMAIN ps /\ new[a] = qs[a]
  BY <1>5, <1>7, <1>8, <1>9 DEF Together
<1>11. cs = Together(os, new)
  <2>1. cs = [a \in (DOMAIN os \cup DOMAIN ps) \cup DOMAIN qs |->
                IF a \in DOMAIN os \cup DOMAIN ps THEN (IF a \in DOMAIN os THEN os[a] ELSE ps[a]) ELSE qs[a]]
    BY <1>3 DEF Together
  <2>2. Together(os, new) = [a \in DOMAIN os \cup (DOMAIN ps \cup DOMAIN qs) |->
                               IF a \in DOMAIN os THEN os[a] ELSE IF a \in DOMAIN ps THEN ps[a] ELSE qs[a]]
    BY <1>9 DEF Together
  <2>3. QED
    BY <2>1, <2>2
<1>12. Heap(os, 0)
  BY <1>6 DEF Heap
<1>13. Grown(os, 0, new, cs)
  <2>1. ASSUME NEW a \in DOMAIN new
        PROVE  a \in CellNames /\ a[1] = 0 + 1 /\ SoundCell(new[a], a, DOMAIN os \cup DOMAIN new)
    <3>1. CASE a \in DOMAIN ps
      BY <1>7, <1>10, <3>1, SoundGrows
    <3>2. CASE a \in DOMAIN qs
      BY <1>8, <1>10, <3>2, SoundGrows
    <3>3. QED
      BY <1>10, <3>1, <3>2
  <2>2. 0 \in Nat
    OBVIOUS
  <2>3. QED
    BY <1>11, <1>12, <2>1, <2>2, HeapGrows
<1>14. /\ Heap(cs, 1) /\ DOMAIN cs = DOMAIN os \cup DOMAIN new
       /\ \A a \in DOMAIN os : cs[a] = os[a]
       /\ \A a \in DOMAIN new : a \notin DOMAIN os /\ cs[a] = new[a]
  BY <1>13 DEF Grown
<1>15. Pristine(cs, 0, NoSeqRule, TemplateSays)
  BY <1>6, <1>14 DEF Pristine
<1>16. \A r \in SeqRules : Said(sm[r]) /\ Pristine(cs, 1, r, sm[r])
  <2>1. ASSUME NEW r \in SeqRules PROVE Pristine(cs, 1, r, sm[r])
    <3>1. ASSUME NEW a \in Names(1, r, sm[r]) PROVE a \in DOMAIN cs /\ cs[a] = Made(a, sm[r][a[3]])
      <4>1. a \in DOMAIN qs /\ a[2] = r
        BY <1>4, <1>8, NamesAre
      <4>2. QED
        BY <1>8, <1>10, <1>14, <4>1
    <3>2. QED
      BY <3>1 DEF Pristine
  <2>2. QED
    BY <1>4, <2>1
<1>17. \A a \in DOMAIN cs : a[1] = 1 /\ a[2] \in SeqRules => a \in Names(1, a[2], sm[a[2]])
  BY <1>5, <1>6, <1>7, <1>8, <1>10, <1>14
<1>18. ASSUME NEW a \in DOMAIN cs, ~(a[1] = 1 /\ a[2] \in SeqRules), NEW j \in DOMAIN cs[a].refs
       PROVE  ~(cs[a].refs[j][1] = 1 /\ cs[a].refs[j][2] \in SeqRules)
  <2>1. a \in DOMAIN os \/ a \in DOMAIN ps
    BY <1>8, <1>10, <1>14, <1>18
  <2>2. CASE a \in DOMAIN os
    BY <1>6, <1>14, <1>18, <2>2
  <2>3. CASE a \in DOMAIN ps
    BY <1>5, <1>7, <1>10, <1>14, <1>18, <2>3
  <2>4. QED
    BY <2>1, <2>2, <2>3
<1>19. RowsCells(cs, 1, sm, {})
  BY <1>14, <1>15, <1>16, <1>17, <1>18, RowsNewlyRead
<1>20. PICK lines, two2, D : lines = Lines(1, NoSeqRule, two2) /\ two2 = TwoTexts /\ D = DOMAIN cs
  OBVIOUS
<1>21. Said(two2) /\ \A i \in DOMAIN two2 : <<1, NoSeqRule, i, 0>> \in D
  <2>1. \A i \in DOMAIN TwoTexts : <<1, NoSeqRule, i, 0>> \in Names(1, NoSeqRule, TwoTexts)
    BY <1>4, NamesAre
  <2>2. QED
    BY <1>4, <1>7, <1>10, <1>14, <1>20, <2>1
<1>22. /\ Lines(1, NoSeqRule, two2) \in Seq(D) /\ Len(Lines(1, NoSeqRule, two2)) = Len(two2)
       /\ DOMAIN Lines(1, NoSeqRule, two2) = DOMAIN two2
       /\ \A i \in DOMAIN two2 : /\ Lines(1, NoSeqRule, two2)[i] = <<1, NoSeqRule, i, 0>>
                                 /\ Lines(1, NoSeqRule, two2)[i][4] = 0
  BY <1>21, LinesAre
<1>23. /\ lines \in Seq(DOMAIN cells) /\ Len(lines) \in LeastMessages..MostMessages
       /\ \A i \in DOMAIN lines : lines[i][4] = 0 /\ Writable(lines[i], 1, {})
  <2>1. \A i : Writable(<<1, NoSeqRule, i, 0>>, 1, {})
    BY <1>5 DEF Writable
  <2>2. QED
    BY <1>2, <1>4, <1>20, <1>22, <2>1 DEF WholeSaid
<1>24. SequencesTyped
  <2>1. builder \in [shown : BOOLEAN, id : Makers, lines : Seq(DOMAIN cells)] /\ builder.lines = lines
    BY <1>3, <1>5, <1>20, <1>23
  <2>2. 0 \in 0..MaxTouches
    BY SequenceAssumption
  <2>3. QED
    BY <1>1, <1>3, <1>4, <1>5, <1>23, <2>1, <2>2 DEF SequencesTyped
<1>25. RowsReadAs(1)
  <2>1. builder.lines = lines
    BY <1>3, <1>20
  <2>2. QED
    BY <1>1, <1>2, <1>3, <1>19, <1>23, <2>1 DEF RowsReadAs
<1>26. 1 \in 1..batches
  BY <1>3
<1>27. QED
  BY <1>2, <1>3, <1>14, <1>24, <1>25, <1>26 DEF SeqInv

LEMMA SequenceStep ==
  ASSUME SeqInv, [SequenceNext]_sequenceVars
  PROVE  SeqInv'
<1>1. CASE UNCHANGED sequenceVars
  BY <1>1 DEF sequenceVars, SeqInv, SequencesTyped, RowsReadAs
<1>2. CASE \E r \in SeqRules : EditRow(r) \/ SaveSequence(r) \/ \E s \in SeqRules : CloneRow(r, s)
  BY <1>2, DialogOpens, SequenceSaved, RowCloned
<1>3. CASE UseTemplate \/ AddRule \/ LeaveDialog \/ AddMessage \/ ReadRules
  BY <1>3, TemplateUsed, DialogShown, DialogLeft, MessageAdded, ListRead
<1>4. CASE \E i \in Index : \/ RemoveMessage(i) \/ MoveDown(i) \/ WriteText(i) \/ WriteDelay(i)
                            \/ \E kind \in Rich \cup {Plain} : SetType(i, kind)
  BY <1>4, MessageRemoved, MessageMoved, MessageWritten, TypeSet DEF WriteText, WriteDelay
<1>5. CASE \E i \in Index : AddCard(i) \/ AddReply(i)
  BY <1>5, EntryAdded DEF AddCard, AddReply
<1>6. CASE \E i \in Index : \E j \in DOMAIN EntriesAt(i) : \/ RemoveCard(i, j) \/ WriteCard(i, j)
                                                          \/ RemoveReply(i, j) \/ WriteReply(i, j)
  BY <1>6, EntryRemoved, EntryWritten DEF RemoveCard, WriteCard, RemoveReply, WriteReply
<1>7. QED
  BY <1>1, <1>2, <1>3, <1>4, <1>5, <1>6 DEF SequenceNext

\* What the invariant says of the page.
LEMMA SequenceShows == SeqInv => SequenceTypeOK /\ RowsKeptAsRead /\ TemplatesKept
<1> SUFFICES ASSUME SeqInv PROVE SequenceTypeOK /\ RowsKeptAsRead /\ TemplatesKept
  OBVIOUS
<1>1. Heap(cells, batches) /\ SequencesTyped
  BY DEF SeqInv
<1>2. PICK n \in 1..batches : RowsReadAs(n)
  BY DEF SeqInv
<1>3. PICK cs, ra : cs = cells /\ ra = readAs
  OBVIOUS
<1>4. RowsCells(cs, n, ra, rowsOpened) /\ n \in Nat
  BY <1>1, <1>2, <1>3 DEF RowsReadAs, SequencesTyped
<1>5. ASSUME NEW ms, WholeSaid(ms) PROVE Whole(ms)
  <2>1. Said(ms) /\ Len(ms) \in LeastMessages..MostMessages
    BY <1>5 DEF WholeSaid
  <2>2. ASSUME NEW i \in DOMAIN ms
        PROVE  /\ ms[i].kind \in Rich \cup {Plain}
               /\ Len(ms[i].entries) \in IF ms[i].kind = Plain THEN {0} ELSE 1..MostEntries
    <3>1. ms[i] \in SaidMessage
      BY <2>1, SaidIs
    <3>2. ms[i].kind \in Rich \cup {Plain}
      BY <3>1 DEF SaidMessage, MessageKinds
    <3>3. QED
      BY <2>1, <3>2 DEF Said
  <2>3. QED
    BY <2>1, <2>2 DEF Whole
<1>6. SequenceTypeOK
  <2>1. Whole(Reading(cells, builder.lines))
    BY <1>5, DialogReading
  <2>2. builder.id \in SeqRules \cup {NoSeqRule}
    BY TypedNow DEF Makers
  <2>3. QED
    BY <1>1, <1>5, <2>1, <2>2 DEF SequenceTypeOK, SequencesTyped
<1>7. ASSUME NEW r \in SeqRules
      PROVE  /\ Skeleton(Reading(cells, rowCells[r])) = Skeleton(readAs[r])
             /\ r \notin rowsOpened => Reading(cells, rowCells[r]) = readAs[r]
  <2>1. PICK ms, lines : ms = ra[r] /\ lines = Lines(n, r, ms)
    OBVIOUS
  <2>2. Said(ms) /\ rowCells[r] = lines
    <3>1. Said(<<>>)
      BY DEF Said
    <3>2. QED
      BY <1>1, <1>2, <1>3, <2>1, <3>1 DEF RowsReadAs, SequencesTyped, WholeSaid
  <2>3. \A i \in DOMAIN ms : /\ cs[<<n, r, i, 0>>].kind = ms[i].kind
                             /\ cs[<<n, r, i, 0>>].says = ms[i].says
    BY <1>4, <2>1 DEF RowsCells
  <2>4. DOMAIN lines = DOMAIN ms /\ \A i \in DOMAIN ms : lines[i] = <<n, r, i, 0>>
    BY <2>1 DEF Lines
  <2>5. PICK rd : rd = Reading(cs, lines)
    OBVIOUS
  <2>6. DOMAIN rd = DOMAIN ms /\ \A i \in DOMAIN ms : rd[i].kind = ms[i].kind /\ rd[i].says = ms[i].says
    BY <2>3, <2>4, <2>5 DEF Reading
  <2>7. Skeleton(rd) = Skeleton(ms)
    BY <2>6 DEF Skeleton
  <2>8. r \notin rowsOpened => rd = ms
    <3>1. r \notin rowsOpened => Pristine(cs, n, r, ms)
      BY <1>4, <2>1 DEF RowsCells
    <3>2. r \in Makers
      BY DEF Makers
    <3>3. Pristine(cs, n, r, ms) => Reading(cs, Lines(n, r, ms)) = ms
      BY <1>4, <2>2, <3>2, PristineRead
    <3>4. QED
      BY <2>1, <2>5, <3>1, <3>3
  <2>9. QED
    BY <1>3, <2>1, <2>2, <2>5, <2>7, <2>8
<1>8. TemplatesKept
  <2>1. Pristine(cs, 0, NoSeqRule, TemplateSays) /\ Said(TemplateSays) /\ NoSeqRule \in Makers /\ 0 \in Nat
    BY <1>4, WholeTexts DEF RowsCells, WholeSaid, Makers
  <2>2. Reading(cs, Lines(0, NoSeqRule, TemplateSays)) = TemplateSays
    BY <2>1, PristineRead
  <2>3. QED
    BY <1>3, <2>2 DEF TemplatesKept, TemplateLines
<1>9. QED
  BY <1>6, <1>7, <1>8 DEF RowsKeptAsRead

-----------------------------------------------------------------------------
(* Preferences: the settings and the names that pages show.                   *)

\* A save of a name that is stored has made every other page unaware, and its own has the name that is stored unless
\* another was stored since; until a page unaware of a name writes the user, the browser keeps the names that are
\* stored, or such a save has yet to be told, and so does every page that is aware of them.
NamesInv ==
    /\ caption \in [Captions -> Nat]
    /\ \A t \in Panes, c \in Captions : naming[t][c].pc = "served" =>
          /\ \A u \in Panes \ {t} : u \in unaware
          /\ t \notin unaware => naming[t][c].value = caption[c]
    /\ ~aside =>
          /\ \A c \in Captions : kept[c] = caption[c] \/ \E t \in Panes : naming[t][c].pc = "served"
          /\ \A t \in Panes \ unaware, c \in Captions :
                pane[t].known[c] = caption[c] \/ naming[t][c].pc = "served"

LEMMA NamesInit == PreferencesInit => NamesInv
<1> SUFFICES ASSUME PreferencesInit PROVE NamesInv
  OBVIOUS
<1>1. /\ caption = Before /\ kept = Before /\ \A t \in Panes : pane[t].known = Before
      /\ \A t \in Panes, c \in Captions : naming[t][c].pc = "idle"
  BY DEF PreferencesInit, NoPane, NoNaming
<1>2. QED
  BY <1>1, NoPaneFits DEF NamesInv

LEMMA NamesKept ==
  ASSUME PrefTyped, NamesInv, UNCHANGED <<caption, kept, naming, unaware, aside>>,
         \A t \in Panes : pane'[t].known = pane[t].known
  PROVE  NamesInv'
BY DEF NamesInv

\* What is typed, and what the replies are set to, is about no name that is kept.
LEMMA FormRests ==
  ASSUME PrefTyped, NamesInv, NEW t \in Panes,
         \/ ReadKnobs(t) \/ ShowKnobs(t) \/ KnobLoadFails(t)
         \/ (\E k \in Knobs : Choose(t, k)) \/ SaveAi(t) \/ ServeAi(t) \/ AiSaved(t) \/ AiFails(t)
         \/ \E c \in Captions : TypeName(t, c)
  PROVE  NamesInv'
<1>1. UNCHANGED <<caption, kept, naming, unaware, aside>>
  BY DEF ReadKnobs, ShowKnobs, KnobLoadFails, Choose, SaveAi, ServeAi, AiSaved, AiFails, TypeName, formState,
     preferenceStory
<1>2. \/ UNCHANGED pane
      \/ pane' = [pane EXCEPT ![t].opts = load[t].rows]
      \/ \E k \in Knobs : pane' = [pane EXCEPT ![t].opts[k] = NewValue]
      \/ \E c \in Captions : pane' = [pane EXCEPT ![t].field[c] = NewValue]
  BY DEF ReadKnobs, ShowKnobs, KnobLoadFails, Choose, SaveAi, ServeAi, AiSaved, AiFails, TypeName
<1>3. \A u \in Panes : pane'[u].known = pane[u].known
  <2>1. pane[t] \in PaneRow /\ pane \in [Panes -> PaneRow]
    BY DEF PrefTyped
  <2>2. \A u \in Panes \ {t} : pane'[u] = pane[u]
    BY <1>2, <2>1
  <2>3. pane'[t].known = pane[t].known
    BY <1>2, <2>1 DEF PaneRow
  <2>4. QED
    BY <2>2, <2>3
<1>4. QED
  BY <1>1, <1>3, NamesKept

LEMMA PaneOpens ==
  ASSUME PrefTyped, NamesInv, NEW t \in Panes, OpenPane(t)
  PROVE  NamesInv'
<1>1. /\ naming[t] = [c \in Captions |-> NoNaming] /\ UNCHANGED <<caption, kept, naming, aside>>
      /\ pane' = [pane EXCEPT ![t] = [open |-> TRUE, opts |-> Unanswered, known |-> kept, field |-> kept]]
  BY DEF OpenPane
<1>2. /\ (\E u \in Panes, c \in Captions : naming[u][c].pc = "served") => t \in unaware' /\ unaware \subseteq unaware'
      /\ \A u \in Panes \ {t} : u \in unaware' <=> u \in unaware
  BY DEF OpenPane
<1>3. pane'[t].known = kept /\ \A u \in Panes \ {t} : pane'[u].known = pane[u].known
  BY <1>1 DEF PrefTyped
<1>4. \A c \in Captions : naming[t][c].pc = "idle"
  BY <1>1 DEF NoNaming
<1>5. ASSUME NEW v \in Panes, NEW c \in Captions, naming'[v][c].pc = "served"
      PROVE  /\ \A u \in Panes \ {v} : u \in unaware'
             /\ v \notin unaware' => naming'[v][c].value = caption'[c]
  BY <1>1, <1>2, <1>4, <1>5 DEF NamesInv
<1>6. ASSUME ~aside', NEW v \in Panes \ unaware', NEW c \in Captions
      PROVE  pane'[v].known[c] = caption'[c] \/ naming'[v][c].pc = "served"
  <2>1. CASE v = t
    <3>1. kept[c] = caption[c]
      BY <1>1, <1>2, <1>6, <2>1 DEF NamesInv
    <3>2. QED
      BY <1>1, <1>3, <2>1, <3>1
  <2>2. CASE v # t
    BY <1>1, <1>2, <1>3, <1>6, <2>2 DEF NamesInv
  <2>3. QED
    BY <2>1, <2>2
<1>7. QED
  BY <1>1, <1>5, <1>6 DEF NamesInv

\* A save of a name, from what is typed to what the browser keeps.
LEMMA NameStep ==
  ASSUME PrefTyped, NamesInv, NEW t \in Panes, NEW c \in Captions,
         SaveName(t, c) \/ ServeName(t, c) \/ NameSaved(t, c) \/ NameFails(t, c)
  PROVE  NamesInv'
<1>1. naming[t] \in [Captions -> NamingRow] /\ naming[t][c] \in NamingRow /\ pane[t] \in PaneRow
  BY DEF PrefTyped
<1>2. CASE SaveName(t, c)
  <2>1. /\ naming[t][c] = NoNaming /\ UNCHANGED <<caption, kept, pane, unaware, aside>>
        /\ naming' = [naming EXCEPT ![t][c] = [pc |-> "sent", value |-> pane[t].field[c]]]
    BY <1>2 DEF SaveName, preferenceStory
  <2>2. naming[t][c].pc # "served"
    BY <2>1 DEF NoNaming
  <2>3. \A u \in Panes, d \in Captions : naming'[u][d] = naming[u][d] \/ (u = t /\ d = c /\ naming'[u][d].pc = "sent")
    BY <2>1 DEF PrefTyped
  <2>4. \A u \in Panes, d \in Captions : naming'[u][d].pc = "served" <=> naming[u][d].pc = "served"
    BY <2>2, <2>3
  <2>5. \A u \in Panes, d \in Captions : naming[u][d].pc = "served" => naming'[u][d] = naming[u][d]
    BY <2>2, <2>3
  <2>6. QED
    BY <2>1, <2>4, <2>5 DEF NamesInv
<1>3. CASE ServeName(t, c)
  <2>1. /\ naming[t][c].pc = "sent" /\ UNCHANGED <<kept, pane, aside>>
        /\ caption' = [caption EXCEPT ![c] = naming[t][c].value] /\ naming' = [naming EXCEPT ![t][c].pc = "served"]
        /\ unaware' = unaware \cup (Panes \ {t})
    BY <1>3 DEF ServeName
  <2>2. /\ naming'[t][c].pc = "served" /\ naming'[t][c].value = naming[t][c].value
        /\ \A u \in Panes, d \in Captions : u # t \/ d # c => naming'[u][d] = naming[u][d]
    BY <1>1, <2>1 DEF PrefTyped, NamingRow
  <2>3. /\ caption' \in [Captions -> Nat] /\ caption'[c] = naming[t][c].value
        /\ \A d \in Captions \ {c} : caption'[d] = caption[d]
    BY <1>1, <2>1 DEF NamesInv, NamingRow
  <2>4. ASSUME NEW u \in Panes, NEW d \in Captions, naming'[u][d].pc = "served"
        PROVE  /\ \A v \in Panes \ {u} : v \in unaware'
               /\ u \notin unaware' => naming'[u][d].value = caption'[d]
    <3>1. CASE u = t /\ d = c
      BY <2>1, <2>2, <2>3, <3>1
    <3>2. CASE u = t /\ d # c
      BY <2>1, <2>2, <2>3, <2>4, <3>2 DEF NamesInv
    <3>3. CASE u # t
      BY <2>1, <2>2, <2>4, <3>3 DEF NamesInv
    <3>4. QED
      BY <3>1, <3>2, <3>3
  <2>5. ASSUME ~aside', NEW d \in Captions
        PROVE  /\ kept'[d] = caption'[d] \/ \E u \in Panes : naming'[u][d].pc = "served"
               /\ \A u \in Panes \ unaware' : pane'[u].known[d] = caption'[d] \/ naming'[u][d].pc = "served"
    <3>1. CASE d = c
      BY <2>1, <2>2, <3>1
    <3>2. CASE d # c
      BY <2>1, <2>2, <2>3, <2>5, <3>2 DEF NamesInv
    <3>3. QED
      BY <3>1, <3>2
  <2>6. QED
    BY <2>3, <2>4, <2>5 DEF NamesInv
<1>4. CASE NameSaved(t, c)
  <2> DEFINE user == [pane[t].known EXCEPT ![c] = naming[t][c].value]
  <2>1. /\ naming[t][c].pc = "served" /\ UNCHANGED <<caption, unaware>> /\ kept' = user
        /\ pane' = [pane EXCEPT ![t].known = user, ![t].field = user]
        /\ naming' = [naming EXCEPT ![t][c] = NoNaming]
        /\ (aside \/ t \in unaware => aside')
    BY <1>4 DEF NameSaved
  <2>2. /\ naming'[t][c].pc = "idle" /\ \A u \in Panes, d \in Captions : u # t \/ d # c => naming'[u][d] = naming[u][d]
    BY <1>1, <2>1 DEF PrefTyped, NoNaming
  <2>3. user[c] = naming[t][c].value /\ \A d \in Captions \ {c} : user[d] = pane[t].known[d]
    BY <1>1 DEF PaneRow
  <2>4. pane'[t].known = user /\ \A u \in Panes \ {t} : pane'[u].known = pane[u].known
    BY <1>1, <2>1 DEF PrefTyped, PaneRow
  <2>5. \A u \in Panes, d \in Captions : naming'[u][d].pc = "served" => naming'[u][d] = naming[u][d]
    BY <2>2
  <2>6. ASSUME ~aside', NEW d \in Captions
        PROVE  /\ kept'[d] = caption'[d] \/ \E u \in Panes : naming'[u][d].pc = "served"
               /\ \A u \in Panes \ unaware' : pane'[u].known[d] = caption'[d] \/ naming'[u][d].pc = "served"
    <3>1. ~aside /\ t \notin unaware /\ unaware' = unaware /\ \A u \in Panes \ {t} : u \in unaware
      BY <2>1, <2>6 DEF NamesInv
    <3>2. user[d] = caption[d] \/ naming'[t][d].pc = "served"
      <4>1. CASE d = c
        BY <2>1, <2>3, <3>1, <4>1 DEF NamesInv
      <4>2. CASE d # c
        BY <2>2, <2>3, <3>1, <4>2 DEF NamesInv
      <4>3. QED
        BY <4>1, <4>2
    <3>3. QED
      BY <2>1, <2>4, <3>1, <3>2
  <2>7. ASSUME NEW u \in Panes, NEW d \in Captions, naming'[u][d].pc = "served"
        PROVE  /\ \A v \in Panes \ {u} : v \in unaware'
               /\ u \notin unaware' => naming'[u][d].value = caption'[d]
    BY <2>1, <2>5, <2>7 DEF NamesInv
  <2>8. caption' \in [Captions -> Nat]
    BY <2>1 DEF NamesInv
  <2>9. QED
    BY <2>6, <2>7, <2>8 DEF NamesInv
<1>5. CASE NameFails(t, c)
  <2>1. /\ UNCHANGED <<caption, kept, pane, unaware>> /\ naming' = [naming EXCEPT ![t][c] = NoNaming]
        /\ (aside \/ naming[t][c].pc = "served" => aside')
    BY <1>5 DEF NameFails
  <2>2. /\ naming'[t][c].pc = "idle" /\ \A u \in Panes, d \in Captions : u # t \/ d # c => naming'[u][d] = naming[u][d]
    BY <1>1, <2>1 DEF PrefTyped, NoNaming
  <2>3. \A u \in Panes, d \in Captions : naming'[u][d].pc = "served" => naming'[u][d] = naming[u][d]
    BY <2>2
  <2>4. ~aside' => ~aside /\ \A u \in Panes, d \in Captions : naming[u][d].pc = "served" => naming'[u][d].pc = "served"
    BY <2>1, <2>2
  <2>5. QED
    BY <2>1, <2>3, <2>4 DEF NamesInv
<1>6. QED
  BY <1>2, <1>3, <1>4, <1>5

LEMMA CaptionsStep ==
  ASSUME PrefInv, NamesInv, [PreferencesNext]_preferenceVars
  PROVE  NamesInv'
<1>1. PrefTyped
  BY DEF PrefInv
<1>2. CASE PreferencesNext
  BY <1>1, <1>2, FormRests, PaneOpens, NameStep DEF PreferencesNext
<1>3. CASE UNCHANGED preferenceVars
  BY <1>1, <1>3, NamesKept DEF preferenceVars, formState, preferenceStory
<1>4. QED
  BY <1>2, <1>3

LEMMA PreferencesShow ==
  ASSUME PrefInv, NamesInv
  PROVE  SettingsShown /\ NamesShown
<1>1. PrefTyped /\ \A t \in Panes : PaneFits(t)
  BY DEF PrefInv
<1>2. ASSUME NEW t \in read \ overtaken, chosen[t] = {} PROVE pane[t].opts = knob
  <2>1. t \in Panes /\ pane[t].opts \in KnobValues /\ knob \in KnobValues
    BY <1>1 DEF PrefTyped, PaneRow
  <2>2. \A k \in Knobs : pane[t].opts[k] = knob[k]
    BY <1>1, <1>2, <2>1 DEF PaneFits
  <2>3. QED
    BY <2>1, <2>2 DEF KnobValues
<1>3. ASSUME \A t \in Panes, c \in Captions : naming[t][c] = NoNaming, ~aside
      PROVE  kept = caption /\ \A t \in Panes : t \notin unaware => pane[t].known = caption
  <2>1. \A t \in Panes, c \in Captions : naming[t][c].pc = "idle"
    BY <1>3 DEF NoNaming
  <2>2. /\ \A c \in Captions : kept[c] = caption[c]
        /\ \A t \in Panes \ unaware, c \in Captions : pane[t].known[c] = caption[c]
    BY <1>3, <2>1 DEF NamesInv
  <2>3. /\ kept \in [Captions -> Nat] /\ caption \in [Captions -> Nat]
        /\ \A t \in Panes : pane[t].known \in [Captions -> Nat]
    BY <1>1 DEF PrefTyped, PaneRow, NamesInv
  <2>4. QED
    BY <2>2, <2>3
<1>4. QED
  BY <1>2, <1>3 DEF SettingsShown, NamesShown

-----------------------------------------------------------------------------
(* FlowEditor: what a tab shows is what is stored.                            *)

\* Every connection is from a branch of its node, and a branch has one.
Sound(g) ==
    /\ \A c \in g.conns : c.branch \in BranchesOf(c.from)
    /\ \A c, d \in g.conns : c.from = d.from /\ c.branch = d.branch => c = d
SameDrawing(g, h) == g.nodes = h.nodes /\ Rendered(g) = Rendered(h)

\* A tab that waits for a save shows what the save carries, and what is answered or stored is what the row has, unless
\* somebody wrote it since.
TabShows(e) ==
    /\ Sound(tab[e].graph) /\ Sound(saving[e].graph) /\ Sound(opening[e].graph)
    /\ tab[e].id \in Flows \ crossed /\ tab[e].clean /\ ~tab[e].waits /\ tab[e].latest
          => SameDrawing(tab[e].graph, flow[tab[e].id].graph)
    /\ tab[e].waits /\ tab[e].clean => SameDrawing(tab[e].graph, saving[e].graph)
    /\ tab[e].waits /\ saving[e].pc \in {"put", "stored"} => tab[e].id = saving[e].id
    /\ opening[e].pc = "answered" /\ opening[e].latest => opening[e].graph = flow[opening[e].id].graph
    /\ saving[e].pc \in {"posted", "stored"} /\ saving[e].latest => saving[e].graph = flow[saving[e].id].graph

DrawnInv == (\A f \in Flows : Sound(flow[f].graph)) /\ \A e \in Editors : TabShows(e)

LEMMA DrawnInit == EditorInit => DrawnInv
<1> SUFFICES ASSUME EditorInit PROVE DrawnInv
  OBVIOUS
<1>1. /\ flow = [f \in Flows |-> NoRow] /\ tab = [e \in Editors |-> List]
      /\ saving = [e \in Editors |-> NoRequestTo] /\ opening = [e \in Editors |-> NoRequestTo]
  BY DEF EditorInit
<1>2. /\ NoRow.graph = NoGraph /\ List.graph = NoGraph /\ NoRequestTo.graph = NoGraph /\ NoGraph.conns = {}
      /\ ~List.clean /\ ~List.waits /\ NoRequestTo.pc = "idle"
  BY DEF NoRow, List, NoRequestTo, NoGraph
<1>3. Sound(NoGraph)
  BY <1>2 DEF Sound
<1>4. QED
  BY <1>1, <1>2, <1>3 DEF DrawnInv, TabShows

\* A drawing that has no connection but those of a sound one is sound.
LEMMA SoundPart ==
  ASSUME NEW g, NEW h, Sound(g), h.conns \subseteq g.conns
  PROVE  Sound(h)
BY DEF Sound

\* What a save carries is what is drawn: a branch has one connection, so that none is lost, but those from no node.
LEMMA PayloadSame ==
  ASSUME NEW g \in Graphs, Sound(g)
  PROVE  Sound(Payload(g)) /\ SameDrawing(g, Payload(g))
<1>1. g.nodes \subseteq Nodes /\ g.conns \subseteq [from : Nodes, branch : {"yes", "no", "next"}, to : Steps]
  BY DEF Graphs
<1> DEFINE carried == UNION {First(g, h[1], h[2]) : h \in {x \in Handles : x[1] \in g.nodes}}
<1>2. \A n, branch : First(g, n, branch) \subseteq {c \in g.conns : c.from = n /\ c.branch = branch}
  <2> SUFFICES ASSUME NEW n, NEW branch
               PROVE  First(g, n, branch) \subseteq {c \in g.conns : c.from = n /\ c.branch = branch}
    OBVIOUS
  <2> DEFINE found == {c \in g.conns : c.from = n /\ c.branch = branch}
  <2>1. CASE found = {}
    BY <2>1 DEF First
  <2>2. CASE found # {}
    <3>1. (CHOOSE c \in found : TRUE) \in found
      BY <2>2
    <3>2. First(g, n, branch) = {CHOOSE c \in found : TRUE}
      BY <2>2 DEF First
    <3>3. QED
      BY <3>1, <3>2
  <2>3. QED
    BY <2>1, <2>2
<1>3. carried \subseteq g.conns
  BY <1>2
<1>4. ASSUME NEW c \in g.conns, c.from \in g.nodes PROVE c \in carried
  <2> DEFINE h == <<c.from, c.branch>>
             found == {d \in g.conns : d.from = c.from /\ d.branch = c.branch}
  <2>1. c.branch \in BranchesOf(c.from) /\ c.from \in Nodes /\ c.branch \in {"yes", "no", "next"}
    BY <1>1 DEF Sound
  <2>2. h \in Handles /\ h[1] = c.from /\ h[2] = c.branch
    BY <2>1 DEF Handles
  <2>3. found = {c}
    BY DEF Sound
  <2>4. First(g, c.from, c.branch) = {CHOOSE d \in {c} : TRUE}
    BY <2>3 DEF First
  <2>5. c \in First(g, h[1], h[2])
    BY <2>2, <2>4
  <2>6. h \in {x \in Handles : x[1] \in g.nodes}
    BY <1>4, <2>2
  <2>7. QED
    BY <2>5, <2>6
<1>5. Payload(g).nodes = g.nodes /\ Payload(g).conns = carried
  BY DEF Payload
<1>6. Sound(Payload(g))
  BY <1>3, <1>5, SoundPart
<1>7. Rendered(Payload(g)) = Rendered(g)
  BY <1>3, <1>4, <1>5 DEF Rendered
<1>8. QED
  BY <1>5, <1>6, <1>7 DEF SameDrawing

\* One tab moves, and no row.
LEMMA OneShows ==
  ASSUME DrawnInv, NEW e \in Editors, UNCHANGED flow, crossed \subseteq crossed', TabShows(e)',
         \A x \in Editors \ {e} : UNCHANGED <<tab[x], saving[x], opening[x]>>
  PROVE  DrawnInv'
<1>1. \A x \in Editors \ {e} : TabShows(x)'
  BY DEF DrawnInv, TabShows
<1>2. QED
  BY <1>1 DEF DrawnInv

LEMMA SameConns ==
  ASSUME NEW r \in Graphs
  PROVE  [r EXCEPT !.conns = r.conns] = r
BY DEF Graphs

LEMMA DrawnDraw ==
  ASSUME DrawingInv, DrawnInv, NEW e \in Editors, DrawOn(e)
  PROVE  DrawnInv'
<1>1. EditorTyped /\ tab[e] \in TabRow /\ tab[e].graph \in Graphs /\ Sound(tab[e].graph) /\ TabShows(e)
  BY DEF DrawingInv, EditorTyped, TabRow, DrawnInv, TabShows
<1>2. UNCHANGED <<flow, saving, opening, crossed>>
  BY DEF DrawOn, DropNode, DeleteNode, ClickInput, DeleteConnection, ClickOutput, Draw
<1>3. SUFFICES ASSUME NEW p, tab' = [tab EXCEPT ![e] = p], p.id = tab[e].id, p.waits = tab[e].waits,
                      p.latest = tab[e].latest, p.clean => tab[e].clean /\ p.graph = tab[e].graph, Sound(p.graph)
               PROVE  DrawnInv'
  <2>1. ASSUME NEW g, Sound(g), Draw(e, g) PROVE DrawnInv'
    <3> DEFINE p == [tab[e] EXCEPT !.graph = g, !.clean = FALSE]
    <3>1. tab' = [tab EXCEPT ![e] = p]
      BY <1>1, <2>1 DEF Draw, EditorTyped, TabRow
    <3>2. p.id = tab[e].id /\ p.waits = tab[e].waits /\ p.latest = tab[e].latest /\ ~p.clean /\ p.graph = g
      BY <1>1 DEF TabRow
    <3>3. QED
      BY <1>3, <2>1, <3>1, <3>2
  <2>2. ASSUME NEW n \in Nodes, DropNode(e, n) PROVE DrawnInv'
    <3> DEFINE g == [tab[e].graph EXCEPT !.nodes = @ \cup {n}]
    <3>1. g.conns = tab[e].graph.conns
      BY <1>1 DEF Graphs
    <3>2. Sound(g)
      BY <1>1, <3>1, SoundPart
    <3>3. QED
      BY <2>1, <2>2, <3>2 DEF DropNode
  <2>3. ASSUME NEW n \in Nodes, DeleteNode(e, n) PROVE DrawnInv'
    <3> DEFINE g == [nodes |-> tab[e].graph.nodes \ {n},
                     conns |-> {c \in tab[e].graph.conns : c.from # n /\ c.to # n}]
    <3>1. g.conns \subseteq tab[e].graph.conns
      OBVIOUS
    <3>2. Sound(g)
      BY <1>1, <3>1, SoundPart
    <3>3. QED
      BY <2>1, <2>3, <3>2 DEF DeleteNode
  <2>4. ASSUME NEW c, DeleteConnection(e, c) PROVE DrawnInv'
    <3> DEFINE g == [tab[e].graph EXCEPT !.conns = @ \ {c}]
    <3>1. g.conns \subseteq tab[e].graph.conns
      BY <1>1 DEF Graphs
    <3>2. Sound(g)
      BY <1>1, <3>1, SoundPart
    <3>3. QED
      BY <2>1, <2>4, <3>2 DEF DeleteConnection
  <2>5. ASSUME NEW h \in Handles, ClickOutput(e, h) PROVE DrawnInv'
    <3> DEFINE p == [tab[e] EXCEPT !.from = h]
    <3>1. tab' = [tab EXCEPT ![e] = p]
      BY <1>1, <2>5 DEF ClickOutput, EditorTyped, TabRow
    <3>2. /\ p.id = tab[e].id /\ p.waits = tab[e].waits /\ p.latest = tab[e].latest
          /\ p.clean = tab[e].clean /\ p.graph = tab[e].graph
      BY <1>1 DEF TabRow
    <3>3. QED
      BY <1>1, <1>3, <3>1, <3>2
  <2>6. ASSUME NEW to \in Nodes, ClickInput(e, to) PROVE DrawnInv'
    <3> DEFINE h == tab[e].from
               others == {c \in tab[e].graph.conns : ~(c.from = h[1] /\ c.branch = h[2])}
               conns == IF h[1] = to THEN tab[e].graph.conns ELSE others \cup {Conn(h[1], h[2], to)}
               g == [tab[e].graph EXCEPT !.conns = conns]
               p == [tab[e] EXCEPT !.from = NoHandle, !.graph = g, !.clean = @ /\ h[1] = to]
    <3>1. h \in Handles /\ h[2] \in BranchesOf(h[1])
      BY <1>1, <2>6 DEF ClickInput, TabRow, Handles
    <3>2. tab' = [tab EXCEPT ![e] = p]
      <4>1. tab' = [tab EXCEPT ![e].from = NoHandle, ![e].graph.conns = conns, ![e].clean = @ /\ h[1] = to]
        BY <2>6 DEF ClickInput
      <4>2. QED
        BY <1>1, <4>1 DEF EditorTyped, TabRow, Graphs
    <3>3. g.conns = conns /\ g.nodes = tab[e].graph.nodes
      BY <1>1 DEF Graphs
    <3>4. /\ p.id = tab[e].id /\ p.waits = tab[e].waits /\ p.latest = tab[e].latest /\ p.graph = g
          /\ (p.clean => tab[e].clean /\ h[1] = to)
      BY <1>1 DEF TabRow
    <3>5. Sound(g)
      <4>1. CASE h[1] = to
        BY <1>1, <3>3, <4>1, SoundPart
      <4>2. CASE h[1] # to
        <5>1. g.conns = others \cup {Conn(h[1], h[2], to)}
          BY <3>3, <4>2
        <5>2. Conn(h[1], h[2], to).from = h[1] /\ Conn(h[1], h[2], to).branch = h[2]
          BY DEF Conn
        <5>3. QED
          BY <1>1, <3>1, <5>1, <5>2 DEF Sound
      <4>3. QED
        BY <4>1, <4>2
    <3>6. h[1] = to => g = tab[e].graph
      <4> SUFFICES ASSUME h[1] = to PROVE g = tab[e].graph
        OBVIOUS
      <4>1. conns = tab[e].graph.conns
        OBVIOUS
      <4>2. tab[e].graph \in Graphs
        BY <1>1 DEF TabRow
      <4>3. g = [tab[e].graph EXCEPT !.conns = tab[e].graph.conns]
        BY <4>1
      <4>4. QED
        BY <4>2, <4>3, SameConns
    <3> HIDE DEF g, p
    <3>7. QED
      BY <1>3, <3>2, <3>4, <3>5, <3>6
  <2>7. QED
    BY <2>2, <2>3, <2>4, <2>5, <2>6 DEF DrawOn
<1>4. tab'[e] = p /\ \A x \in Editors \ {e} : UNCHANGED <<tab[x], saving[x], opening[x]>>
  BY <1>1, <1>2, <1>3 DEF EditorTyped
<1>5. TabShows(e)'
  BY <1>1, <1>2, <1>3, <1>4 DEF TabShows
<1>6. QED
  BY <1>2, <1>4, <1>5, OneShows

LEMMA DrawnOpen ==
  ASSUME DrawingInv, DrawnInv, NEW e \in Editors,
         \/ \E t, n \in Nodes : CreateNewFlow(e, t, n)
         \/ \E f \in Flows : EditFlow(e, f)
         \/ GetFlow(e) \/ ShowFlow(e) \/ GoBack(e)
  PROVE  DrawnInv'
<1>1. EditorTyped /\ TabShows(e) /\ TabHolds(e) /\ tab[e] \in TabRow /\ opening[e] \in FlowCallRow
  BY DEF DrawingInv, EditorTyped, DrawnInv
<1>2. UNCHANGED <<flow, saving, crossed>>
  BY DEF CreateNewFlow, BeginFlow, EditFlow, GetFlow, ShowFlow, GoBack
<1>3. ASSUME NEW p, NEW q, tab' = [tab EXCEPT ![e] = p], opening' = [opening EXCEPT ![e] = q],
             Sound(p.graph), Sound(q.graph),
             p.id \in Flows \ crossed /\ p.clean /\ ~p.waits /\ p.latest => SameDrawing(p.graph, flow[p.id].graph),
             p.waits => tab[e].waits /\ p.graph = tab[e].graph /\ p.id = tab[e].id,
             p.waits /\ p.clean => tab[e].clean,
             q.pc = "answered" /\ q.latest => q.graph = flow[q.id].graph
      PROVE  DrawnInv'
  <2>1. /\ tab'[e] = p /\ opening'[e] = q /\ saving'[e] = saving[e]
        /\ \A x \in Editors \ {e} : UNCHANGED <<tab[x], saving[x], opening[x]>>
    BY <1>1, <1>2, <1>3 DEF EditorTyped
  <2>2. TabShows(e)'
    BY <1>1, <1>2, <1>3, <2>1 DEF TabShows
  <2>3. QED
    BY <1>2, <2>1, <2>2, OneShows
<1>4. tab = [tab EXCEPT ![e] = tab[e]] /\ opening = [opening EXCEPT ![e] = opening[e]]
  BY <1>1 DEF EditorTyped
<1>5. NoRequestTo.pc = "idle" /\ NoRequestTo.graph.conns = {} /\ Sound(NoRequestTo.graph)
  BY DEF NoRequestTo, NoGraph, Sound
<1>6. ASSUME NEW t \in Nodes, NEW n \in Nodes, CreateNewFlow(e, t, n) PROVE DrawnInv'
  <2> DEFINE g == [nodes |-> {t, n}, conns |-> {Conn(t, "next", n)}]
             p == [List EXCEPT !.shown = "canvas", !.id = NoFlow, !.from = tab[e].from, !.graph = g,
                               !.drawing = begun + 1]
  <2>1. tab' = [tab EXCEPT ![e] = p] /\ opening' = opening /\ t \in Triggers
    BY <1>6 DEF CreateNewFlow, BeginFlow
  <2>2. p.graph = g /\ ~p.clean /\ ~p.waits
    BY DEF List
  <2>3. Sound(g)
    <3>1. BranchesOf(t) = {"next"}
      BY <2>1, EditorAssumption DEF BranchesOf
    <3>2. QED
      BY <3>1 DEF Sound, Conn
  <2>4. QED
    BY <1>1, <1>3, <1>4, <2>1, <2>2, <2>3 DEF TabShows
<1>7. ASSUME NEW f \in Flows, EditFlow(e, f) PROVE DrawnInv'
  <2> DEFINE q == [NoRequestTo EXCEPT !.pc = "asked", !.id = f]
  <2>1. tab' = tab /\ opening' = [opening EXCEPT ![e] = q]
    BY <1>7 DEF EditFlow
  <2>2. q.pc = "asked" /\ q.graph = NoRequestTo.graph
    BY DEF NoRequestTo
  <2>3. QED
    BY <1>1, <1>3, <1>4, <1>5, <2>1, <2>2 DEF TabShows
<1>8. CASE GetFlow(e)
  <2> DEFINE f == opening[e].id
             row == flow[f]
             q == [pc |-> "answered", id |-> f, graph |-> row.graph, drawing |-> row.drawing, latest |-> TRUE]
  <2>1. /\ tab' = tab /\ opening[e].pc = "asked"
        /\ opening' = [opening EXCEPT ![e] = IF row.state # "kept" THEN NoRequestTo ELSE q]
    BY <1>8 DEF GetFlow
  <2>2. f \in Flows /\ Sound(row.graph)
    BY <1>1, <2>1 DEF TabHolds, Holds, DrawnInv
  <2>3. CASE row.state # "kept"
    BY <1>1, <1>3, <1>4, <1>5, <2>1, <2>3 DEF TabShows
  <2>4. CASE row.state = "kept"
    <3>1. q.graph = row.graph /\ q.id = f /\ opening' = [opening EXCEPT ![e] = q]
      BY <2>1, <2>4
    <3>2. QED
      BY <1>1, <1>3, <1>4, <2>1, <2>2, <3>1 DEF TabShows
  <2>5. QED
    BY <2>3, <2>4
<1>9. CASE ShowFlow(e)
  <2> DEFINE p == [shown |-> "canvas", id |-> opening[e].id, graph |-> opening[e].graph,
                   from |-> tab[e].from, drawing |-> opening[e].drawing,
                   clean |-> TRUE, waits |-> FALSE, latest |-> opening[e].latest]
  <2>1. /\ tab' = [tab EXCEPT ![e] = p] /\ opening' = [opening EXCEPT ![e] = NoRequestTo]
        /\ opening[e].pc = "answered"
    BY <1>9 DEF ShowFlow
  <2>2. p.latest => SameDrawing(p.graph, flow[p.id].graph)
    BY <1>1, <2>1 DEF TabShows, SameDrawing
  <2>3. p.graph = opening[e].graph /\ ~p.waits /\ Sound(p.graph)
    BY <1>1 DEF TabShows
  <2> HIDE DEF p
  <2>4. QED
    BY <1>3, <1>5, <2>1, <2>2, <2>3
<1>10. CASE GoBack(e)
  <2> DEFINE p == [tab[e] EXCEPT !.shown = "list"]
  <2>1. tab' = [tab EXCEPT ![e] = p] /\ opening' = opening
    BY <1>1, <1>10 DEF GoBack, EditorTyped, TabRow
  <2>2. /\ p.id = tab[e].id /\ p.waits = tab[e].waits /\ p.latest = tab[e].latest
        /\ p.clean = tab[e].clean /\ p.graph = tab[e].graph
    BY <1>1 DEF TabRow
  <2>3. QED
    BY <1>1, <1>3, <1>4, <2>1, <2>2 DEF TabShows
<1>11. QED
  BY <1>6, <1>7, <1>8, <1>9, <1>10

LEMMA DrawnSave ==
  ASSUME DrawingInv, DrawnInv, NEW e \in Editors, SaveFlow(e) \/ Posted(e) \/ Stored(e) \/ SaveFailed(e)
  PROVE  DrawnInv'
<1>1. EditorTyped /\ TabShows(e) /\ TabHolds(e) /\ tab[e] \in TabRow /\ saving[e] \in FlowCallRow
  BY DEF DrawingInv, EditorTyped, DrawnInv
<1>2. UNCHANGED <<flow, opening>> /\ crossed \subseteq crossed'
  BY DEF SaveFlow, Posted, Stored, SaveFailed
<1>3. ASSUME NEW p, NEW q, tab' = [tab EXCEPT ![e] = p], saving' = [saving EXCEPT ![e] = q],
             Sound(p.graph), Sound(q.graph),
             p.id \in Flows \ crossed' /\ p.clean /\ ~p.waits /\ p.latest => SameDrawing(p.graph, flow[p.id].graph),
             p.waits /\ p.clean => SameDrawing(p.graph, q.graph),
             p.waits => p.id = q.id, q.pc \notin {"posted", "stored"}
      PROVE  DrawnInv'
  <2>1. /\ tab'[e] = p /\ saving'[e] = q /\ opening'[e] = opening[e]
        /\ \A x \in Editors \ {e} : UNCHANGED <<tab[x], saving[x], opening[x]>>
    BY <1>1, <1>2, <1>3 DEF EditorTyped
  <2>2. TabShows(e)'
    BY <1>1, <1>2, <1>3, <2>1 DEF TabShows
  <2>3. QED
    BY <1>2, <2>1, <2>2, OneShows
<1>4. NoRequestTo.pc = "idle" /\ NoRequestTo.graph.conns = {} /\ Sound(NoRequestTo.graph)
  BY DEF NoRequestTo, NoGraph, Sound
<1>5. CASE SaveFlow(e)
  <2> DEFINE p == [tab[e] EXCEPT !.clean = TRUE, !.waits = TRUE]
             pc == IF tab[e].id = NoFlow THEN "post" ELSE "put"
             q == [NoRequestTo EXCEPT !.pc = pc, !.id = tab[e].id, !.graph = Payload(tab[e].graph),
                                      !.drawing = tab[e].drawing]
  <2>1. tab' = [tab EXCEPT ![e] = p] /\ saving' = [saving EXCEPT ![e] = q]
    BY <1>1, <1>5 DEF SaveFlow, EditorTyped, TabRow
  <2>2. tab[e].graph \in Graphs /\ p.id = tab[e].id /\ p.graph = tab[e].graph /\ p.waits
    BY <1>1 DEF TabRow
  <2>3. pc \in {"post", "put"}
    OBVIOUS
  <2>4. q.pc \in {"post", "put"} /\ q.id = tab[e].id /\ q.graph = Payload(tab[e].graph)
    BY <2>3 DEF NoRequestTo
  <2>5. Sound(q.graph) /\ SameDrawing(p.graph, q.graph)
    BY <1>1, <2>2, <2>4, PayloadSame DEF TabShows
  <2>6. Sound(p.graph)
    BY <1>1, <2>2 DEF TabShows
  <2> HIDE DEF p, q
  <2>7. QED
    BY <1>3, <2>1, <2>2, <2>4, <2>5, <2>6
<1>6. CASE Posted(e)
  <2> DEFINE p == [tab[e] EXCEPT !.id = saving[e].id, !.waits = FALSE,
                                 !.latest = IF tab[e].waits THEN saving[e].latest ELSE @]
  <2>1. /\ tab' = [tab EXCEPT ![e] = p] /\ saving' = [saving EXCEPT ![e] = NoRequestTo]
        /\ saving[e].pc = "posted" /\ (tab[e].waits \/ saving[e].id \in crossed')
    BY <1>1, <1>6 DEF Posted, EditorTyped, TabRow
  <2>2. /\ p.id = saving[e].id /\ ~p.waits /\ p.graph = tab[e].graph /\ (p.clean => tab[e].clean)
        /\ (tab[e].waits /\ p.latest => saving[e].latest)
    BY <1>1 DEF TabRow, FlowCallRow
  <2>3. ASSUME p.id \notin crossed', p.clean, p.latest PROVE SameDrawing(p.graph, flow[p.id].graph)
    <3>1. tab[e].waits /\ saving[e].latest /\ tab[e].clean
      BY <2>1, <2>2, <2>3
    <3>2. saving[e].graph = flow[saving[e].id].graph /\ SameDrawing(tab[e].graph, saving[e].graph)
      BY <1>1, <2>1, <3>1 DEF TabShows
    <3>3. QED
      BY <2>2, <3>2
  <2>4. QED
    BY <1>1, <1>3, <1>4, <2>1, <2>2, <2>3 DEF TabShows
<1>7. CASE Stored(e)
  <2> DEFINE p == [tab[e] EXCEPT !.waits = FALSE, !.latest = IF tab[e].waits THEN saving[e].latest ELSE @]
  <2>1. /\ tab' = [tab EXCEPT ![e] = p] /\ saving' = [saving EXCEPT ![e] = NoRequestTo]
        /\ saving[e].pc = "stored" /\ crossed' = crossed
    BY <1>1, <1>7 DEF Stored, EditorTyped, TabRow
  <2>2. /\ p.id = tab[e].id /\ ~p.waits /\ p.graph = tab[e].graph /\ (p.clean => tab[e].clean)
        /\ (tab[e].waits /\ p.latest => saving[e].latest) /\ (~tab[e].waits /\ p.latest => tab[e].latest)
    BY <1>1 DEF TabRow, FlowCallRow
  <2>3. ASSUME p.id \in Flows \ crossed', p.clean, p.latest PROVE SameDrawing(p.graph, flow[p.id].graph)
    <3>1. CASE tab[e].waits
      <4>1. saving[e].graph = flow[saving[e].id].graph /\ SameDrawing(tab[e].graph, saving[e].graph)
            /\ tab[e].id = saving[e].id
        BY <1>1, <2>1, <2>2, <2>3, <3>1 DEF TabShows
      <4>2. QED
        BY <2>2, <4>1
    <3>2. CASE ~tab[e].waits
      BY <1>1, <2>1, <2>2, <2>3, <3>2 DEF TabShows
    <3>3. QED
      BY <3>1, <3>2
  <2>4. QED
    BY <1>1, <1>3, <1>4, <2>1, <2>2, <2>3 DEF TabShows
<1>8. CASE SaveFailed(e)
  <2> DEFINE p == [tab[e] EXCEPT !.clean = @ /\ ~tab[e].waits, !.waits = FALSE]
  <2>1. tab' = [tab EXCEPT ![e] = p] /\ saving' = [saving EXCEPT ![e] = NoRequestTo] /\ crossed' = crossed
    BY <1>1, <1>8 DEF SaveFailed, EditorTyped, TabRow
  <2>2. /\ p.id = tab[e].id /\ ~p.waits /\ p.graph = tab[e].graph /\ p.latest = tab[e].latest
        /\ (p.clean => tab[e].clean /\ ~tab[e].waits)
    BY <1>1 DEF TabRow
  <2>3. QED
    BY <1>1, <1>3, <1>4, <2>1, <2>2 DEF TabShows
<1>9. QED
  BY <1>5, <1>6, <1>7, <1>8

\* The service writes a flow: its row is what the save carries, and whoever has read it is outdated.
LEMMA DrawnWrite ==
  ASSUME DrawingInv, DrawnInv, NEW e \in Editors, NEW f \in Flows, NEW pc \in {"posted", "stored"}, Write(e, f, pc),
         UNCHANGED crossed, saving[e].pc = "post" \/ (saving[e].pc = "put" /\ saving[e].id = f), pc = "stored" => saving[e].pc = "put"
  PROVE  DrawnInv'
<1>1. /\ EditorTyped /\ \A x \in Editors : TabHolds(x) /\ TabShows(x)
      /\ saving[e] \in FlowCallRow
  BY DEF DrawingInv, EditorTyped, DrawnInv
<1> DEFINE row == [state |-> "kept", graph |-> saving[e].graph, drawing |-> saving[e].drawing]
           q == [saving[e] EXCEPT !.pc = pc, !.id = f, !.latest = TRUE]
<1>2. /\ flow' = [flow EXCEPT ![f] = row]
      /\ saving' = [x \in Editors |-> IF x = e THEN q ELSE Outdated(saving[x], f)]
      /\ tab' = [x \in Editors |-> Outdated(tab[x], f)]
      /\ opening' = [x \in Editors |-> Outdated(opening[x], f)]
  BY DEF Write
<1>3. /\ flow'[f].graph = saving[e].graph /\ \A x \in Flows \ {f} : flow'[x] = flow[x]
  BY <1>1, <1>2 DEF EditorTyped
<1>4. q.pc = pc /\ q.id = f /\ q.graph = saving[e].graph
  BY <1>1 DEF FlowCallRow
<1>5. \A r \in TabRow : LET o == Outdated(r, f) IN
         o.id = r.id /\ o.graph = r.graph /\ (o.latest => r.latest /\ r.id # f)
  BY DEF Outdated, TabRow
<1>6. \A r \in TabRow : LET o == Outdated(r, f) IN
         (o.clean => r.clean) /\ (o.waits => r.waits) /\ (r.waits => o.waits)
  BY DEF Outdated, TabRow
<1>7. \A r \in FlowCallRow : LET o == Outdated(r, f) IN
         o.pc = r.pc /\ o.id = r.id /\ o.graph = r.graph /\ (o.latest => r.latest /\ r.id # f)
  BY DEF Outdated, FlowCallRow
<1>8. \A x \in Flows : Sound(flow'[x].graph)
  <2>1. Sound(saving[e].graph)
    BY <1>1 DEF TabShows
  <2>2. QED
    BY <1>3, <2>1 DEF DrawnInv
<1>9. ASSUME NEW x \in Editors PROVE TabShows(x)'
  <2> DEFINE t == tab[x]  o == opening[x]  s == saving[x]
             t2 == tab'[x]  o2 == opening'[x]  s2 == saving'[x]
  <2>1. t \in TabRow /\ o \in FlowCallRow /\ s \in FlowCallRow /\ TabShows(x) /\ TabHolds(x)
    BY <1>1 DEF EditorTyped
  <2>2. /\ t2.id = t.id /\ t2.graph = t.graph /\ (t2.latest => t.latest /\ t.id # f)
        /\ (t2.clean => t.clean) /\ (t2.waits => t.waits) /\ (t.waits => t2.waits)
    BY <1>2, <1>5, <1>6, <2>1
  <2>3. o2.pc = o.pc /\ o2.id = o.id /\ o2.graph = o.graph /\ (o2.latest => o.latest /\ o.id # f)
    BY <1>2, <1>7, <2>1
  <2>4. s2.graph = s.graph
    BY <1>2, <1>4, <1>7, <2>1
  <2>5. Sound(t2.graph) /\ Sound(s2.graph) /\ Sound(o2.graph)
    BY <2>1, <2>2, <2>3, <2>4 DEF TabShows
  <2>6. t2.id \in Flows \ crossed' /\ t2.clean /\ ~t2.waits /\ t2.latest => SameDrawing(t2.graph, flow'[t2.id].graph)
    BY <1>3, <2>1, <2>2 DEF TabShows
  <2>7. t2.waits /\ t2.clean => SameDrawing(t2.graph, s2.graph)
    BY <2>1, <2>2, <2>4 DEF TabShows
  <2>8. o2.pc = "answered" /\ o2.latest => o2.graph = flow'[o2.id].graph
    <3>1. o.pc = "answered" => o.id \in Flows
      BY <2>1 DEF TabHolds, Holds
    <3>2. QED
      BY <1>3, <2>1, <2>3, <3>1 DEF TabShows
  <2>9. /\ t2.waits /\ s2.pc \in {"put", "stored"} => t2.id = s2.id
        /\ s2.pc \in {"posted", "stored"} /\ s2.latest => s2.graph = flow'[s2.id].graph
    <3>1. CASE x = e
      <4>1. s2 = q
        BY <1>2, <3>1
      <4>2. s2.graph = flow'[s2.id].graph
        BY <1>3, <1>4, <4>1
      <4>3. t2.waits /\ s2.pc = "stored" => t2.id = s2.id
        BY <1>4, <2>1, <2>2, <3>1, <4>1 DEF TabShows
      <4>4. s2.pc # "put"
        BY <1>4, <4>1
      <4>5. QED
        BY <4>2, <4>3, <4>4
    <3>2. CASE x # e
      <4>1. s2.pc = s.pc /\ s2.id = s.id /\ (s2.latest => s.latest /\ s.id # f)
        BY <1>2, <1>7, <2>1, <3>2
      <4>2. s.pc \in {"posted", "stored"} => s.id \in Flows
        BY <2>1 DEF TabHolds, Holds
      <4>3. QED
        BY <1>3, <2>1, <2>2, <2>4, <4>1, <4>2 DEF TabShows
    <3>3. QED
      BY <3>1, <3>2
  <2>10. QED
    BY <2>5, <2>6, <2>7, <2>8, <2>9 DEF TabShows
<1>10. QED
  BY <1>8, <1>9 DEF DrawnInv

LEMMA DrawnRefuse ==
  ASSUME DrawingInv, DrawnInv, NEW e \in Editors, RefuseSave(e), UNCHANGED crossed
  PROVE  DrawnInv'
<1>1. EditorTyped /\ TabShows(e) /\ saving[e] \in FlowCallRow
  BY DEF DrawingInv, EditorTyped, DrawnInv
<1> DEFINE q == [saving[e] EXCEPT !.pc = "failed"]
<1>2. UNCHANGED <<flow, tab, opening>> /\ saving' = [saving EXCEPT ![e] = q]
  BY <1>1 DEF RefuseSave
<1>3. q.pc = "failed" /\ q.graph = saving[e].graph
  BY <1>1 DEF FlowCallRow
<1>4. saving'[e] = q /\ \A x \in Editors \ {e} : UNCHANGED <<tab[x], saving[x], opening[x]>>
  BY <1>1, <1>2 DEF EditorTyped
<1>5. TabShows(e)'
  BY <1>1, <1>2, <1>3, <1>4 DEF TabShows
<1>6. QED
  BY <1>2, <1>4, <1>5, OneShows

\* Rows of flows change that no tab has, or not in what is drawn.
LEMMA DrawnRows ==
  ASSUME DrawingInv, DrawnInv, UNCHANGED <<tab, saving, opening, crossed>>,
         \A f \in Flows : /\ Sound(flow'[f].graph)
                          /\ flow[f].state # "none" => flow'[f].graph = flow[f].graph
  PROVE  DrawnInv'
<1> SUFFICES ASSUME NEW x \in Editors PROVE TabShows(x)'
  BY DEF DrawnInv
<1>1. TabShows(x) /\ TabHolds(x)
  BY DEF DrawingInv, DrawnInv
<1>2. /\ tab[x].id \in Flows => flow[tab[x].id].state # "none"
      /\ opening[x].pc = "answered" => opening[x].id \in Flows /\ flow[opening[x].id].state # "none"
      /\ saving[x].pc \in {"posted", "stored"} => saving[x].id \in Flows /\ flow[saving[x].id].state # "none"
  BY <1>1, EditorAssumption DEF TabHolds, Holds
<1>3. QED
  BY <1>1, <1>2 DEF TabShows

LEMMA DrawnDrip ==
  ASSUME DrawingInv, DrawnInv, NEW e \in Editors, NEW f \in Flows, NEW t \in Triggers, NEW steps \in DripSteps,
         SaveDrip(e, f, t, steps)
  PROVE  DrawnInv'
<1>1. EditorTyped
  BY DEF DrawingInv
<1> DEFINE conns == {Conn(steps[i], "next", steps[i + 1]) : i \in DOMAIN steps \ {Len(steps)}}
           g == [nodes |-> {t} \cup {steps[i] : i \in DOMAIN steps}, conns |-> conns]
           row == [state |-> "kept", drawing |-> begun + 1, graph |-> g]
<1>2. UNCHANGED <<tab, saving, opening, crossed>> /\ flow' = [flow EXCEPT ![f] = row] /\ flow[f].state = "none"
  BY DEF SaveDrip
<1>3. PICK n \in {1, 3} : steps \in [1..n -> Steps \ Conditions]
  BY DEF DripSteps
<1>4. \A i, j \in 1..n : steps[i] = steps[j] => i = j
  BY <1>3 DEF DripSteps
<1>5. Sound(g)
  <2>1. ASSUME NEW c \in conns PROVE \E i \in 1..n : c = [from |-> steps[i], branch |-> "next", to |-> steps[i + 1]]
    BY <1>3, <2>1 DEF Conn
  <2>2. \A c \in conns : c.branch \in BranchesOf(c.from)
    BY <1>3, <2>1 DEF BranchesOf
  <2>3. ASSUME NEW c \in conns, NEW d \in conns, c.from = d.from PROVE c = d
    <3>1. PICK i \in 1..n : c = [from |-> steps[i], branch |-> "next", to |-> steps[i + 1]]
      BY <2>1
    <3>2. PICK j \in 1..n : d = [from |-> steps[j], branch |-> "next", to |-> steps[j + 1]]
      BY <2>1
    <3>3. i = j
      BY <1>4, <2>3, <3>1, <3>2
    <3>4. QED
      BY <3>1, <3>2, <3>3
  <2>4. QED
    BY <2>2, <2>3 DEF Sound
<1>6. flow'[f].graph = g /\ \A x \in Flows \ {f} : flow'[x] = flow[x]
  BY <1>1, <1>2 DEF EditorTyped
<1>7. QED
  BY <1>2, <1>5, <1>6, DrawnRows DEF DrawnInv

LEMMA DrawnStep ==
  ASSUME DrawingInv, DrawnInv, [EditorNext]_editorVars
  PROVE  DrawnInv'
<1>1. CASE EditorNext
  <2>1. PICK e \in Editors :
          \/ DrawOn(e)
          \/ \E t, n \in Nodes : CreateNewFlow(e, t, n)
          \/ \E f \in Flows : EditFlow(e, f) \/ PostFlow(e, f) \/ DeleteFlow(e, f)
          \/ GetFlow(e) \/ ShowFlow(e) \/ GoBack(e)
          \/ SaveFlow(e) \/ PutFlow(e) \/ Posted(e) \/ Stored(e) \/ SaveFailed(e)
          \/ \E f \in Flows, t \in Triggers, s \in DripSteps : SaveDrip(e, f, t, s)
    BY <1>1 DEF EditorNext
  <2>2. CASE DrawOn(e)
    BY <2>2, DrawnDraw
  <2>3. CASE \/ \E t, n \in Nodes : CreateNewFlow(e, t, n)
             \/ \E f \in Flows : EditFlow(e, f)
             \/ GetFlow(e) \/ ShowFlow(e) \/ GoBack(e)
    BY <2>3, DrawnOpen
  <2>4. CASE SaveFlow(e) \/ Posted(e) \/ Stored(e) \/ SaveFailed(e)
    BY <2>4, DrawnSave
  <2>5. ASSUME NEW f \in Flows, PostFlow(e, f) PROVE DrawnInv'
    <3>1. CASE StepsTaken(saving[e].graph, f)
      BY <2>5, <3>1, DrawnRefuse DEF PostFlow
    <3>2. CASE ~StepsTaken(saving[e].graph, f)
      BY <2>5, <3>2, DrawnWrite DEF PostFlow
    <3>3. QED
      BY <3>1, <3>2
  <2>6. CASE PutFlow(e)
    <3>1. CASE saving[e].id \notin Kept \/ StepsTaken(saving[e].graph, saving[e].id)
      BY <2>6, <3>1, DrawnRefuse DEF PutFlow
    <3>2. CASE ~(saving[e].id \notin Kept \/ StepsTaken(saving[e].graph, saving[e].id))
      BY <2>6, <3>2, DrawnWrite DEF PutFlow, Kept
    <3>3. QED
      BY <3>1, <3>2
  <2>7. ASSUME NEW f \in Flows, DeleteFlow(e, f) PROVE DrawnInv'
    <3>1. EditorTyped /\ flow[f] \in FlowRow
      BY DEF DrawingInv, EditorTyped
    <3>2. UNCHANGED <<tab, saving, opening, crossed>> /\ flow' = [flow EXCEPT ![f].state = "deleted"]
      BY <2>7 DEF DeleteFlow
    <3>3. \A x \in Flows : flow'[x].graph = flow[x].graph
      BY <3>1, <3>2 DEF EditorTyped, FlowRow
    <3>4. QED
      BY <3>2, <3>3, DrawnRows DEF DrawnInv
  <2>8. CASE \E f \in Flows, t \in Triggers, s \in DripSteps : SaveDrip(e, f, t, s)
    BY <2>8, DrawnDrip
  <2>9. QED
    BY <2>1, <2>2, <2>3, <2>4, <2>5, <2>6, <2>7, <2>8
<1>2. CASE UNCHANGED editorVars
  BY <1>2 DEF editorVars, DrawnInv, TabShows
<1>3. QED
  BY <1>1, <1>2

LEMMA EditorShows == DrawnInv => DrawnIsStored
BY DEF DrawnInv, TabShows, DrawnIsStored, SameDrawing, Kept

-----------------------------------------------------------------------------
(* Subscribers: who is listed, and whose conversation the drawer shows.       *)

\* Subscribers that a request of the page has written, whose answer it does not have yet.
Hidden == {c \in Subs : Unseen(c)}

\* Rows that were asked for with a filter are all there are, but for the subscribers written since.
AllOf(rowsKept, written, shownRows, f) ==
    \A c \in Subs \ written : f = Every \/ f \in rowsKept[c] => \E r \in shownRows : r.id = c

TableInv ==
    /\ ~timer => ask.filter = filter \/ astray
    /\ ask.alone =>
          /\ \A k \in Fetches : fetch[k].pc # "idle" => fetch[k].filter = ask.filter
          /\ \A k \in Fetches : fetch[k].pc = "answered" =>
              AllOf(stored, Hidden \cup fetch[k].about, fetch[k].table, fetch[k].filter)
          /\ (\A k \in Fetches : fetch[k].pc = "idle") => tabled = ask.filter /\
              AllOf(stored, Hidden \cup stale, table, tabled)

\* The conversations that are shown and asked for are of whom the drawer is about.
TalkInv ==
    drawer.open /\ ~swapped =>
        talk \in {NoSub, drawer.id} /\ \A k \in Fetches : look[k] \in {NoSub, drawer.id}

LEMMA TableInit == SubsInit => TableInv /\ TalkInv
<1> SUFFICES ASSUME SubsInit PROVE TableInv /\ TalkInv
  OBVIOUS
<1>1. timer = TRUE /\ ask.alone = FALSE /\ drawer.open = FALSE
  BY DEF SubsInit
<1>2. QED
  BY <1>1 DEF TableInv, TalkInv

\* Rows stay all there are when what was written is known to be.
LEMMA AllStay ==
  ASSUME NEW rowsKept, NEW written, NEW later, NEW written2, NEW shownRows, NEW f, AllOf(rowsKept, written, shownRows, f),
         \A c \in Subs \ written2 : c \notin written /\ later[c] = rowsKept[c]
  PROVE  AllOf(later, written2, shownRows, f)
BY DEF AllOf

\* The list is asked for.
LEMMA AskedTable ==
  ASSUME SubsTyped, NEW k \in Fetches, NEW f, FetchSubscribers(k, f), timer' \/ f = filter' \/ astray'
  PROVE  TableInv'
<1>1. /\ fetch' = [fetch EXCEPT ![k] = [NoFetch EXCEPT !.pc = "asked", !.filter = f]]
      /\ ask' = [filter |-> f, alone |-> Fetching = {}]
  BY DEF FetchSubscribers
<1>2. fetch'[k].pc = "asked" /\ fetch'[k].filter = f /\ \A j \in Fetches \ {k} : fetch'[j] = fetch[j]
  BY <1>1 DEF SubsTyped, NoFetch
<1>3. ask'.filter = f /\ (ask'.alone => \A j \in Fetches : fetch[j].pc = "idle")
  BY <1>1 DEF Fetching
<1>4. QED
  BY <1>2, <1>3 DEF TableInv

LEMMA TableListStep ==
  ASSUME TagsInv, TableInv, NEW k \in Fetches,
         Debounced(k) \/ FindAll(k) \/ SetSubscribers(k) \/ FetchSubscribersFails(k)
  PROVE  TableInv'
<1>1. SubsTyped /\ fetch[k] \in FetchRow /\ fetch \in [Fetches -> FetchRow]
  BY DEF TagsInv, SubsTyped
<1>2. UNCHANGED <<stored, patch, filter>> /\ Hidden' = Hidden
  BY DEF Debounced, FindAll, SetSubscribers, FetchSubscribersFails, pageList, Unseen, Hidden
<1>3. CASE Debounced(k)
  BY <1>1, <1>3, AskedTable DEF Debounced
<1>4. CASE FindAll(k)
  <2>1. /\ fetch' = [fetch EXCEPT ![k].pc = "answered", ![k].table = Matching(fetch[k].filter)]
        /\ UNCHANGED <<timer, table, tabled, ask, astray, stale>> /\ fetch[k].pc = "asked"
    BY <1>4 DEF FindAll, pageList, subHistory
  <2>2. /\ fetch'[k].pc = "answered" /\ fetch'[k].table = Matching(fetch[k].filter)
        /\ fetch'[k].filter = fetch[k].filter /\ \A j \in Fetches \ {k} : fetch'[j] = fetch[j]
    BY <1>1, <2>1 DEF FetchRow
  <2>3. AllOf(stored, Hidden \cup fetch[k].about, Matching(fetch[k].filter), fetch[k].filter)
    <3> SUFFICES ASSUME NEW c \in Subs, fetch[k].filter = Every \/ fetch[k].filter \in stored[c]
                 PROVE  \E r \in Matching(fetch[k].filter) : r.id = c
      BY DEF AllOf
    <3>1. [id |-> c, tags |-> stored[c]] \in Matching(fetch[k].filter)
      BY DEF Matching
    <3>2. QED
      BY <3>1
  <2>4. fetch'[k].about = fetch[k].about
    BY <1>1, <2>1 DEF FetchRow
  <2>5. QED
    BY <1>2, <2>1, <2>2, <2>3, <2>4 DEF TableInv
<1>5. CASE SetSubscribers(k)
  <2>1. /\ fetch[k].pc = "answered" /\ table' = fetch[k].table /\ tabled' = fetch[k].filter /\ stale' = fetch[k].about
        /\ fetch' = [fetch EXCEPT ![k] = NoFetch] /\ UNCHANGED <<timer, ask, astray>>
    BY <1>5 DEF SetSubscribers
  <2>2. fetch'[k].pc = "idle" /\ \A j \in Fetches \ {k} : fetch'[j] = fetch[j]
    BY <1>1, <2>1 DEF NoFetch
  <2>3. ask.alone => \A j \in Fetches \ {k} : fetch[j].pc = "idle"
    BY <2>1 DEF TagsInv, ListInv
  <2>4. ask.alone => /\ fetch[k].filter = ask.filter
                     /\ AllOf(stored, Hidden \cup fetch[k].about, fetch[k].table, fetch[k].filter)
    BY <2>1 DEF TableInv
  <2>5. QED
    BY <1>2, <2>1, <2>2, <2>3, <2>4 DEF TableInv
<1>6. CASE FetchSubscribersFails(k)
  <2>1. ask' = [ask EXCEPT !.alone = FALSE] /\ UNCHANGED <<timer, astray>>
    BY <1>6 DEF FetchSubscribersFails
  <2>2. ~ask'.alone /\ ask'.filter = ask.filter
    BY <1>1, <2>1 DEF SubsTyped, AskRow
  <2>3. QED
    BY <1>2, <2>1, <2>2 DEF TableInv
<1>7. QED
  BY <1>3, <1>4, <1>5, <1>6

\* Somebody is written, and what the page has read and shows of him is known to be older.
LEMMA WrittenTable ==
  ASSUME TableInv, NEW c, UNCHANGED <<timer, filter, table, tabled, ask, astray>>,
         \A d \in Subs \ {c} : stored'[d] = stored[d] /\ (Unseen(d) => Unseen(d)'),
         stale \subseteq stale',
         \A k \in Fetches : /\ fetch'[k].pc = fetch[k].pc /\ fetch'[k].table = fetch[k].table
                            /\ fetch'[k].filter = fetch[k].filter /\ fetch[k].about \subseteq fetch'[k].about,
         c \in Subs => \/ Unseen(c)'
                       \/ c \in stale' /\ \A k \in Fetches : fetch[k].pc = "answered" => c \in fetch'[k].about
  PROVE  TableInv'
<1>1. ASSUME NEW about, NEW more, about \subseteq more, c \in Subs => Unseen(c)' \/ c \in more
      PROVE  \A d \in Subs \ (Hidden' \cup more) : d \notin Hidden \cup about /\ stored'[d] = stored[d]
  BY <1>1 DEF Hidden
<1>2. ASSUME ask.alone, NEW k \in Fetches, fetch[k].pc = "answered"
      PROVE  AllOf(stored', Hidden' \cup fetch'[k].about, fetch[k].table, fetch[k].filter)
  <2>1. AllOf(stored, Hidden \cup fetch[k].about, fetch[k].table, fetch[k].filter)
    BY <1>2 DEF TableInv
  <2>2. c \in Subs => Unseen(c)' \/ c \in fetch'[k].about
    BY <1>2
  <2>3. QED
    BY <1>1, <2>1, <2>2, AllStay
<1>3. ASSUME ask.alone, \A k \in Fetches : fetch[k].pc = "idle"
      PROVE  tabled = ask.filter /\ AllOf(stored', Hidden' \cup stale', table, tabled)
  <2>1. tabled = ask.filter /\ AllOf(stored, Hidden \cup stale, table, tabled)
    BY <1>3 DEF TableInv
  <2>2. QED
    BY <1>1, <2>1, AllStay
<1>4. QED
  BY <1>2, <1>3 DEF TableInv

LEMMA TableTagStep ==
  ASSUME TagsInv, TableInv,
         \/ \E k \in Fetches : UpdateTags(k) \/ TagsNotStored(k) \/ \E j \in Fetches : TagsStored(k, j)
         \/ \E c \in Subs, t \in Tags : TagElsewhere(c, t)
  PROVE  TableInv'
<1>1. SubsTyped /\ fetch \in [Fetches -> FetchRow] /\ patch \in [Fetches -> PatchRow]
  BY DEF TagsInv, SubsTyped
<1>2. ASSUME NEW k \in Fetches, UpdateTags(k) PROVE TableInv'
  <2>1. /\ stored' = [stored EXCEPT ![patch[k].id] = patch[k].tags] /\ patch' = [patch EXCEPT ![k].pc = "stored"]
        /\ UNCHANGED <<timer, filter, table, tabled, fetch, ask, astray, stale>>
    BY <1>2 DEF UpdateTags, pageList, subHistory
  <2>2. patch'[k].pc = "stored" /\ patch'[k].id = patch[k].id /\ \A j \in Fetches \ {k} : patch'[j] = patch[j]
    BY <1>1, <2>1 DEF PatchRow
  <2>3. \A d \in Subs : Unseen(d) => Unseen(d)'
    BY <2>2 DEF Unseen
  <2>4. \A d \in Subs \ {patch[k].id} : stored'[d] = stored[d]
    BY <1>1, <2>1 DEF SubsTyped
  <2>5. Unseen(patch[k].id)'
    BY <2>2 DEF Unseen
  <2>6. QED
    BY <1>1, <2>1, <2>3, <2>4, <2>5, WrittenTable
<1>3. ASSUME NEW k \in Fetches, TagsNotStored(k) PROVE TableInv'
  <2>1. /\ patch[k].pc # "idle" /\ stale' = stale \cup {patch[k].id} /\ patch' = [patch EXCEPT ![k] = NoPatch]
        /\ fetch' = [j \in Fetches |-> [fetch[j] EXCEPT !.about = IF j \in Fetching THEN @ \cup {patch[k].id} ELSE @]]
        /\ UNCHANGED <<stored, timer, filter, table, tabled, ask, astray>>
    BY <1>3 DEF TagsNotStored, pageList
  <2>2. \A j \in Fetches \ {k} : patch'[j] = patch[j]
    BY <1>1, <2>1
  <2>3. \A d \in Subs \ {patch[k].id} : Unseen(d) => Unseen(d)'
    BY <2>2 DEF Unseen
  <2>4. patch[k].id \in Subs \cup {NoSub}
    BY <1>1 DEF PatchRow
  <2>5. ASSUME NEW j \in Fetches
        PROVE  /\ fetch'[j] \in FetchRow /\ fetch'[j].pc = fetch[j].pc /\ fetch'[j].table = fetch[j].table
               /\ fetch'[j].filter = fetch[j].filter /\ fetch[j].about \subseteq fetch'[j].about
               /\ fetch[j].pc = "answered" => patch[k].id \in fetch'[j].about
    <3>1. fetch[j] \in FetchRow
      BY <1>1
    <3>2. fetch[j].pc = "answered" => j \in Fetching
      BY DEF Fetching
    <3>3. fetch'[j] = [fetch[j] EXCEPT !.about = IF j \in Fetching THEN @ \cup {patch[k].id} ELSE @]
      BY <2>1
    <3>4. QED
      BY <2>4, <3>1, <3>2, <3>3 DEF FetchRow
  <2>6. fetch' \in [Fetches -> FetchRow]
    BY <2>1, <2>5
  <2>7. QED
    BY <1>1, <2>1, <2>3, <2>5, <2>6, WrittenTable
<1>4. ASSUME NEW k \in Fetches, NEW j \in Fetches, TagsStored(k, j) PROVE TableInv'
  <2>1. FetchSubscribers(j, patch[k].filter) /\ (patch[k].filter # filter' => astray')
    BY <1>4 DEF TagsStored
  <2>2. QED
    BY <1>1, <2>1, AskedTable
<1>5. ASSUME NEW c \in Subs, NEW t \in Tags, TagElsewhere(c, t) PROVE TableInv'
  <2>1. /\ stored' = [stored EXCEPT ![c] = Toggled(@, t)] /\ stale' = stale \cup {c}
        /\ fetch' = [j \in Fetches |-> [fetch[j] EXCEPT !.about = IF fetch[j].pc = "answered" THEN @ \cup {c} ELSE @]]
        /\ patch' = [j \in Fetches |-> [patch[j] EXCEPT !.hasty = @ \/ patch[j].id = c]]
        /\ UNCHANGED <<timer, filter, table, tabled, ask, astray>>
    BY <1>5 DEF TagElsewhere, pageList
  <2>2. \A j \in Fetches : patch'[j].pc = patch[j].pc /\ patch'[j].id = patch[j].id
    BY <1>1, <2>1 DEF PatchRow
  <2>3. \A d \in Subs : Unseen(d) => Unseen(d)'
    BY <2>2 DEF Unseen
  <2>4. \A d \in Subs \ {c} : stored'[d] = stored[d]
    BY <1>1, <2>1 DEF SubsTyped
  <2>5. ASSUME NEW j \in Fetches
        PROVE  /\ fetch'[j] \in FetchRow /\ fetch'[j].pc = fetch[j].pc /\ fetch'[j].table = fetch[j].table
               /\ fetch'[j].filter = fetch[j].filter /\ fetch[j].about \subseteq fetch'[j].about
               /\ fetch[j].pc = "answered" => c \in fetch'[j].about
    <3>1. fetch[j] \in FetchRow
      BY <1>1
    <3>2. fetch'[j] = [fetch[j] EXCEPT !.about = IF fetch[j].pc = "answered" THEN @ \cup {c} ELSE @]
      BY <2>1
    <3>3. QED
      BY <3>1, <3>2 DEF FetchRow
  <2>6. fetch' \in [Fetches -> FetchRow]
    BY <2>1, <2>5
  <2>7. QED
    BY <1>1, <2>1, <2>3, <2>4, <2>5, <2>6, WrittenTable
<1>6. QED
  BY <1>2, <1>3, <1>4, <1>5

LEMMA WrittenRest ==
  ASSUME TableInv, UNCHANGED <<stored, table, tabled, fetch, ask, stale, astray>>, timer' \/ UNCHANGED <<filter, timer>>,
         \A c \in Subs : Unseen(c) => Unseen(c)'
  PROVE  TableInv'
<1>1. ASSUME NEW about
      PROVE  \A d \in Subs \ (Hidden' \cup about) : d \notin Hidden \cup about /\ stored'[d] = stored[d]
  BY DEF Hidden
<1>2. ASSUME NEW about, NEW shownRows, NEW f, AllOf(stored, Hidden \cup about, shownRows, f)
      PROVE  AllOf(stored', Hidden' \cup about, shownRows, f)
  BY <1>1, <1>2, AllStay
<1>3. QED
  BY <1>2 DEF TableInv

\* Edits that begin, filters and the drawer.
LEMMA TableRestStep ==
  ASSUME TagsInv, TableInv,
         \/ \E f \in Tags \cup {Every} : SetFilter(f)
         \/ \E k \in Fetches : \/ SetHistory(k) \/ \E r \in table : OpenProfile(k, r)
                               \/ \E r \in table, t \in Tags : EditTag(k, r, t)
                               \/ \E t \in Tags : EditTagInDrawer(k, t)
         \/ CloseProfile
  PROVE  TableInv'
<1>1. UNCHANGED <<stored, table, tabled, fetch, ask, stale, astray>> /\ (timer' \/ UNCHANGED <<filter, timer>>)
  BY DEF SetFilter, SetHistory, OpenProfile, EditTag, EditTagInDrawer, CloseProfile, pageList, subHistory
<1>2. \A c \in Subs : Unseen(c) => Unseen(c)'
  <2>1. CASE UNCHANGED patch
    BY <2>1 DEF Unseen
  <2>2. ASSUME NEW k \in Fetches, NEW c, NEW tags, NEW t, NEW drawn, NEW sound, PatchTags(k, c, tags, t, drawn, sound)
        PROVE  \A d \in Subs : Unseen(d) => Unseen(d)'
    <3>1. patch[k].pc = "idle"
      BY <2>2 DEF PatchTags
    <3>2. \A j \in Fetches \ {k} : patch'[j] = [patch[j] EXCEPT !.hasty = @ \/ patch[j].id = c]
      BY <2>2 DEF PatchTags
    <3>3. \A j \in Fetches \ {k} : patch'[j].pc = patch[j].pc /\ patch'[j].id = patch[j].id
      BY <3>2 DEF TagsInv, SubsTyped, PatchRow
    <3>4. QED
      BY <3>1, <3>3 DEF Unseen
  <2>3. QED
    BY <2>1, <2>2 DEF SetFilter, SetHistory, OpenProfile, EditTag, EditTagInDrawer, CloseProfile
<1>3. QED
  BY <1>1, <1>2, WrittenRest

LEMMA TalkStep ==
  ASSUME TagsInv, TalkInv, SubsNext
  PROVE  TalkInv'
<1>1. SubsTyped /\ drawer \in DrawerRow
  BY DEF TagsInv, SubsTyped
<1>2. CASE \/ \E f \in Tags \cup {Every} : SetFilter(f)
           \/ \E k \in Fetches :
                 \/ Debounced(k) \/ FindAll(k) \/ SetSubscribers(k) \/ FetchSubscribersFails(k) \/ UpdateTags(k)
                 \/ \E r \in table, t \in Tags : EditTag(k, r, t)
                 \/ \E t \in Tags : EditTagInDrawer(k, t)
  <2>1. UNCHANGED <<drawer, talk, look, swapped>>
    BY <1>2 DEF SetFilter, Debounced, FindAll, SetSubscribers, FetchSubscribersFails, UpdateTags, EditTag,
       EditTagInDrawer, subHistory
  <2>2. QED
    BY <2>1 DEF TalkInv
<1>3. CASE \/ \E k \in Fetches : TagsNotStored(k)
           \/ \E c \in Subs, t \in Tags : TagElsewhere(c, t)
           \/ CloseProfile
  <2>1. UNCHANGED <<talk, look, swapped>> /\ drawer'.id = drawer.id /\ (drawer'.open => drawer.open)
    BY <1>1, <1>3 DEF TagsNotStored, TagElsewhere, CloseProfile, Overtaken, subHistory, DrawerRow
  <2>2. QED
    BY <2>1 DEF TalkInv
<1>4. ASSUME NEW k \in Fetches, NEW j \in Fetches, TagsStored(k, j) PROVE TalkInv'
  <2>1. /\ UNCHANGED <<talk, look>>
        /\ \/ UNCHANGED <<drawer, swapped>>
           \/ /\ drawer' = [drawer EXCEPT !.id = patch[k].id, !.tags = patch[k].tags, !.sound = ~patch[k].hasty]
              /\ (swapped \/ patch[k].id # drawer.id => swapped')
    BY <1>4 DEF TagsStored
  <2>2. swapped' \/ (drawer'.id = drawer.id /\ (drawer'.open => drawer.open) /\ ~swapped)
        \/ UNCHANGED <<drawer, swapped>>
    BY <1>1, <2>1 DEF DrawerRow
  <2>3. QED
    BY <2>1, <2>2 DEF TalkInv
<1>5. ASSUME NEW k \in Fetches, SetHistory(k) PROVE TalkInv'
  <2>1. /\ UNCHANGED <<drawer, swapped>> /\ (talk' = talk \/ talk' = look[k]) /\ look' = [look EXCEPT ![k] = NoSub]
    BY <1>5 DEF SetHistory, subHistory
  <2>2. \A i \in Fetches : look'[i] = NoSub \/ look'[i] = look[i]
    BY <2>1
  <2>3. QED
    BY <2>1, <2>2 DEF TalkInv
<1>6. ASSUME NEW k \in Fetches, NEW r \in table, OpenProfile(k, r) PROVE TalkInv'
  <2>1. /\ drawer'.id = r.id /\ talk' = NoSub /\ look' = [look EXCEPT ![k] = r.id]
        /\ ((\E i \in Fetches : look[i] # NoSub) => swapped')
    BY <1>6 DEF OpenProfile
  <2>2. \A i \in Fetches : look'[i] = look[i] \/ look'[i] = r.id
    BY <2>1
  <2>3. QED
    BY <2>1, <2>2 DEF TalkInv
<1>7. QED
  BY <1>2, <1>3, <1>4, <1>5, <1>6 DEF SubsNext

LEMMA TableStep ==
  ASSUME TagsInv, TableInv, TalkInv, [SubsNext]_subVars
  PROVE  TableInv' /\ TalkInv'
<1>1. CASE SubsNext
  <2>1. TableInv'
    BY <1>1, TableListStep, TableTagStep, TableRestStep DEF SubsNext
  <2>2. QED
    BY <1>1, <2>1, TalkStep
<1>2. CASE UNCHANGED subVars
  BY <1>2 DEF subVars, pageList, subHistory, TableInv, TalkInv, Hidden, Unseen
<1>3. QED
  BY <1>1, <1>2

LEMMA SubscribersShow ==
  ASSUME TagsInv, TableInv, TalkInv
  PROVE  SubscribersListed /\ DrawerOfOne
<1>1. ASSUME SettledPage, ask.alone
      PROVE  /\ tabled = ask.filter /\ (ask.filter = filter \/ astray)
             /\ \A r \in table : r.id \in stale \/ r.tags = stored[r.id]
             /\ \A c \in Subs \ stale : tabled = Every \/ tabled \in stored[c] => \E r \in table : r.id = c
  <2>1. ~timer /\ \A k \in Fetches : fetch[k].pc = "idle" /\ patch[k].pc = "idle"
    BY <1>1 DEF SettledPage, Fetching, Patching
  <2>2. \A c : ~Unseen(c)
    BY <2>1 DEF Unseen
  <2>3. UpToDate(table, stale)
    BY <1>1, <2>1 DEF TagsInv, ListInv
  <2>4. QED
    BY <1>1, <2>1, <2>2, <2>3 DEF TableInv, AllOf, Hidden, UpToDate
<1>2. DrawerOfOne
  BY DEF TalkInv, DrawerOfOne
<1>3. QED
  BY <1>1, <1>2 DEF SubscribersListed

-----------------------------------------------------------------------------
(* FlowEditor: the numbers of the drawings, and what is counted.              *)

\* A row, a tab and a request name a drawing that was begun, a save and a load are at a step of their own, and what is
\* counted stays within its bound.
NumbersWithin ==
    /\ \A f \in Flows : flow[f].drawing \in 0..begun
    /\ \A e \in Editors : /\ tab[e].drawing \in 0..begun
                          /\ saving[e].drawing \in 0..begun /\ opening[e].drawing \in 0..begun
                          /\ saving[e].pc \in {"idle", "post", "put", "posted", "stored", "failed"}
                          /\ opening[e].pc \in {"idle", "asked", "answered"}
CountsWithin == crossed \subseteq Flows /\ lost \in 0..MaxLost /\ edits \in 0..MaxEdits

LEMMA NumbersInit == EditorInit => NumbersWithin /\ CountsWithin
  BY EditorAssumption DEF EditorInit, NumbersWithin, CountsWithin, NoRow, List, NoRequestTo

LEMMA CountsStep == DrawingInv /\ CountsWithin /\ [EditorNext]_editorVars => CountsWithin'
<1> SUFFICES ASSUME DrawingInv, CountsWithin, [EditorNext]_editorVars
             PROVE  CountsWithin'
  OBVIOUS
<1>1. ASSUME UNCHANGED crossed, UNCHANGED lost, UNCHANGED edits \/ Count PROVE CountsWithin'
  BY <1>1, EditorAssumption DEF CountsWithin, Count
<1>2. ASSUME NEW e \in Editors, DrawOn(e) PROVE CountsWithin'
  BY <1>1, <1>2 DEF DrawOn, DropNode, DeleteNode, DeleteConnection, Draw, ClickInput, ClickOutput
<1>3. ASSUME NEW e \in Editors, \E t, n \in Nodes : CreateNewFlow(e, t, n) PROVE CountsWithin'
  BY <1>1, <1>3 DEF CreateNewFlow, BeginFlow
<1>4. ASSUME NEW e \in Editors, NEW f \in Flows, EditFlow(e, f) \/ PostFlow(e, f) \/ DeleteFlow(e, f) PROVE CountsWithin'
  BY <1>1, <1>4 DEF EditFlow, PostFlow, DeleteFlow
<1>5. ASSUME NEW e \in Editors, GetFlow(e) \/ ShowFlow(e) \/ GoBack(e) \/ SaveFlow(e) \/ PutFlow(e) \/ Stored(e)
      PROVE  CountsWithin'
  BY <1>1, <1>5 DEF GetFlow, ShowFlow, GoBack, SaveFlow, PutFlow, Stored
<1>6. ASSUME NEW e \in Editors, Posted(e) PROVE CountsWithin'
  <2>1. saving[e].id \in Flows
    BY <1>6 DEF Posted, DrawingInv, TabHolds, Holds
  <2>2. QED
    BY <1>6, <2>1 DEF Posted, CountsWithin
<1>7. ASSUME NEW e \in Editors, SaveFailed(e) PROVE CountsWithin'
  BY <1>7, EditorAssumption DEF SaveFailed, CountsWithin
<1>8. ASSUME NEW e \in Editors, NEW f \in Flows, \E t \in Triggers, s \in DripSteps : SaveDrip(e, f, t, s)
      PROVE  CountsWithin'
  BY <1>1, <1>8 DEF SaveDrip
<1>9. CASE UNCHANGED editorVars
  BY <1>1, <1>9 DEF editorVars
<1>10. QED
  BY <1>2, <1>3, <1>4, <1>5, <1>6, <1>7, <1>8, <1>9 DEF EditorNext

LEMMA NumbersStep == DrawingInv /\ NumbersWithin /\ [EditorNext]_editorVars => NumbersWithin'
<1> SUFFICES ASSUME DrawingInv, NumbersWithin, [EditorNext]_editorVars
             PROVE  NumbersWithin'
  OBVIOUS
<1>1. /\ begun \in Nat /\ flow \in [Flows -> FlowRow] /\ tab \in [Editors -> TabRow]
      /\ saving \in [Editors -> FlowCallRow] /\ opening \in [Editors -> FlowCallRow]
  BY DEF DrawingInv, EditorTyped
<1>2. ASSUME NEW e \in Editors, UNCHANGED <<flow, saving, opening, begun>>, tab'[e].drawing = tab[e].drawing,
             \A x \in Editors \ {e} : tab'[x] = tab[x]
      PROVE  NumbersWithin'
  BY <1>1, <1>2 DEF NumbersWithin
<1>3. ASSUME NEW e \in Editors, DrawOn(e) PROVE NumbersWithin'
  <2>1. UNCHANGED <<flow, saving, opening, begun>> /\ tab'[e].drawing = tab[e].drawing
        /\ \A x \in Editors \ {e} : tab'[x] = tab[x]
    <3>1. ASSUME NEW g, Draw(e, g) PROVE (UNCHANGED <<flow, saving, opening, begun>> /\ tab'[e].drawing = tab[e].drawing /\ \A x \in Editors \ {e} : tab'[x] = tab[x])
      BY <1>1, <3>1 DEF Draw, TabRow
    <3>2. ASSUME NEW n \in Nodes, DropNode(e, n) \/ DeleteNode(e, n) PROVE (UNCHANGED <<flow, saving, opening, begun>> /\ tab'[e].drawing = tab[e].drawing /\ \A x \in Editors \ {e} : tab'[x] = tab[x])
      BY <3>1, <3>2 DEF DropNode, DeleteNode
    <3>3. ASSUME NEW n \in Nodes, ClickInput(e, n) PROVE (UNCHANGED <<flow, saving, opening, begun>> /\ tab'[e].drawing = tab[e].drawing /\ \A x \in Editors \ {e} : tab'[x] = tab[x])
      <4> DEFINE g == IF tab[e].from[1] = n THEN tab[e].graph.conns
                      ELSE {c \in tab[e].graph.conns : ~(c.from = tab[e].from[1] /\ c.branch = tab[e].from[2])}
                           \cup {Conn(tab[e].from[1], tab[e].from[2], n)}
      <4>1. /\ UNCHANGED <<flow, saving, opening, begun>>
            /\ tab' = [tab EXCEPT ![e].from = NoHandle, ![e].graph.conns = g,
                                  ![e].clean = tab[e].clean /\ tab[e].from[1] = n]
        BY <1>1, <3>3 DEF ClickInput, TabRow, Graphs
      <4> HIDE DEF g
      <4>2. QED
        BY <1>1, <4>1 DEF TabRow, Graphs
    <3>4. CASE (\E c \in tab[e].graph.conns : DeleteConnection(e, c)) \/ \E h \in Handles : ClickOutput(e, h)
      BY <1>1, <3>1, <3>4 DEF DeleteConnection, ClickOutput, TabRow
    <3>5. QED
      BY <1>3, <3>2, <3>3, <3>4 DEF DrawOn
  <2>2. QED
    BY <1>2, <2>1
<1>4. ASSUME NEW e \in Editors, \E t, n \in Nodes : CreateNewFlow(e, t, n) PROVE NumbersWithin'
  <2>1. \A x \in Editors : tab'[x].drawing \in {tab[x].drawing, begun + 1}
    BY <1>1, <1>4 DEF CreateNewFlow, BeginFlow, List
  <2>2. begun' = begun + 1 /\ UNCHANGED <<flow, saving, opening>>
    BY <1>4 DEF CreateNewFlow, BeginFlow
  <2>3. 0..begun \subseteq 0..begun' /\ begun + 1 \in 0..begun'
    BY <1>1, <2>2
  <2>4. \A x \in Editors : tab'[x].drawing \in 0..begun'
    BY <1>1, <2>1, <2>3 DEF NumbersWithin
  <2>5. QED
    BY <2>2, <2>3, <2>4 DEF NumbersWithin
<1>5. ASSUME NEW e \in Editors, \E f \in Flows : EditFlow(e, f) PROVE NumbersWithin'
  <2>1. /\ \A x \in Editors \ {e} : opening'[x] = opening[x]
        /\ opening'[e].drawing = 0 /\ opening'[e].pc = "asked"
    BY <1>1, <1>5 DEF EditFlow, NoRequestTo
  <2>2. 0 \in 0..begun
    BY <1>1
  <2>3. UNCHANGED <<flow, tab, saving, begun>>
    BY <1>5 DEF EditFlow
  <2>4. QED
    BY <1>1, <2>1, <2>2, <2>3 DEF NumbersWithin
<1>6. ASSUME NEW e \in Editors, GetFlow(e) PROVE NumbersWithin'
  <2>1. opening[e].id \in Flows
    BY <1>6 DEF GetFlow, DrawingInv, TabHolds, Holds
  <2>2. /\ \A x \in Editors \ {e} : opening'[x] = opening[x]
        /\ opening'[e].drawing \in 0..begun /\ opening'[e].pc \in {"idle", "answered"}
    BY <1>1, <1>6, <2>1 DEF GetFlow, NoRequestTo, NumbersWithin
  <2>3. UNCHANGED <<flow, tab, saving, begun>>
    BY <1>6 DEF GetFlow
  <2>4. QED
    BY <1>1, <2>2, <2>3 DEF NumbersWithin
<1>7. ASSUME NEW e \in Editors, ShowFlow(e) PROVE NumbersWithin'
  <2>1. (\A x \in Editors \ {e} : tab'[x] = tab[x]) /\ tab'[e].drawing = opening[e].drawing
    BY <1>1, <1>7 DEF ShowFlow
  <2>2. /\ opening' = [opening EXCEPT ![e] = NoRequestTo] /\ NoRequestTo.drawing = 0 /\ NoRequestTo.pc = "idle"
        /\ UNCHANGED <<flow, saving, begun>>
    BY <1>7 DEF ShowFlow, NoRequestTo
  <2>3. 0 \in 0..begun
    BY <1>1
  <2>4. QED
    BY <1>1, <2>1, <2>2, <2>3 DEF NumbersWithin
<1>8. ASSUME NEW e \in Editors, GoBack(e) PROVE NumbersWithin'
  BY <1>1, <1>2, <1>8 DEF GoBack, TabRow
\* handleSaveFlow and its answers
<1>9. ASSUME NEW e \in Editors, NEW q, UNCHANGED <<flow, opening, begun>>, saving' = [saving EXCEPT ![e] = q],
              q.drawing \in 0..begun, q.pc \in {"idle", "post", "put", "posted", "stored", "failed"},
              tab'[e].drawing = tab[e].drawing, \A x \in Editors \ {e} : tab'[x] = tab[x]
       PROVE  NumbersWithin'
  <2>1. \A x \in Editors : tab'[x].drawing = tab[x].drawing
    BY <1>9
  <2>2. QED
    BY <1>1, <1>9, <2>1 DEF NumbersWithin
<1>10. NoRequestTo.drawing \in 0..begun /\ NoRequestTo.pc = "idle"
  BY <1>1 DEF NoRequestTo
<1>11. ASSUME NEW e \in Editors, SaveFlow(e) PROVE NumbersWithin'
  <2> DEFINE q == [NoRequestTo EXCEPT !.pc = IF tab[e].id = NoFlow THEN "post" ELSE "put",
                                      !.id = tab[e].id, !.graph = Payload(tab[e].graph),
                                      !.drawing = tab[e].drawing]
  <2>1. saving' = [saving EXCEPT ![e] = q]
    BY <1>11 DEF SaveFlow
  <2>2. q.drawing = tab[e].drawing /\ q.pc \in {"post", "put"}
    BY DEF NoRequestTo
  <2> HIDE DEF q
  <2>3. UNCHANGED <<flow, opening, begun>> /\ tab'[e].drawing = tab[e].drawing /\ \A x \in Editors \ {e} : tab'[x] = tab[x]
    BY <1>1, <1>11 DEF SaveFlow, TabRow
  <2>4. QED
    BY <1>9, <2>1, <2>3, <2>2 DEF NumbersWithin
<1>12. ASSUME NEW e \in Editors, Posted(e) \/ Stored(e) \/ SaveFailed(e) PROVE NumbersWithin'
  <2>1. saving' = [saving EXCEPT ![e] = NoRequestTo] /\ UNCHANGED <<flow, opening, begun>>
    BY <1>12 DEF Posted, Stored, SaveFailed
  <2>2. tab'[e].drawing = tab[e].drawing /\ \A x \in Editors \ {e} : tab'[x] = tab[x]
    BY <1>1, <1>12 DEF Posted, Stored, SaveFailed, TabRow
  <2>3. QED
    BY <1>9, <1>10, <2>1, <2>2
<1>13. ASSUME NEW e \in Editors, RefuseSave(e), UNCHANGED begun PROVE NumbersWithin'
  <2>1. /\ saving' = [saving EXCEPT ![e] = [saving[e] EXCEPT !.pc = "failed"]]
        /\ [saving[e] EXCEPT !.pc = "failed"].pc = "failed"
        /\ [saving[e] EXCEPT !.pc = "failed"].drawing = saving[e].drawing
    BY <1>1, <1>13 DEF RefuseSave, FlowCallRow
  <2>2. saving[e].drawing \in 0..begun
    BY DEF NumbersWithin
  <2>3. UNCHANGED <<flow, opening, tab, begun>>
    BY <1>13 DEF RefuseSave
  <2>4. QED
    BY <1>9, <2>1, <2>2, <2>3
<1>14. ASSUME NEW e \in Editors, NEW f \in Flows, NEW pc \in {"posted", "stored"}, Write(e, f, pc), UNCHANGED begun
       PROVE  NumbersWithin'
  <2>1. \A x \in Editors : /\ saving[x] \in FlowCallRow /\ opening[x] \in FlowCallRow /\ tab[x] \in TabRow
    BY <1>1
  <2>2. \A x \in Flows : flow'[x].drawing \in 0..begun
    BY <1>1, <1>14 DEF Write, NumbersWithin
  <2>3. \A x \in Editors : tab'[x].drawing = tab[x].drawing
    BY <1>14, <2>1 DEF Write, Outdated, TabRow
  <2>4. \A x \in Editors : opening'[x].drawing = opening[x].drawing /\ opening'[x].pc = opening[x].pc
    BY <1>14, <2>1 DEF Write, Outdated, FlowCallRow
  <2>5. \A x \in Editors \ {e} : saving'[x].drawing = saving[x].drawing /\ saving'[x].pc = saving[x].pc
    BY <1>14, <2>1 DEF Write, Outdated, FlowCallRow
  <2>6. saving'[e].drawing = saving[e].drawing /\ saving'[e].pc = pc
    BY <1>14, <2>1 DEF Write, FlowCallRow
  <2>7. QED
    BY <1>14, <2>2, <2>3, <2>4, <2>5, <2>6 DEF NumbersWithin
<1>15. ASSUME NEW e \in Editors, NEW f \in Flows, PostFlow(e, f) PROVE NumbersWithin'
  BY <1>13, <1>14, <1>15 DEF PostFlow
<1>16. ASSUME NEW e \in Editors, PutFlow(e) PROVE NumbersWithin'
  <2>1. saving[e].id \in Kept => saving[e].id \in Flows
    BY DEF Kept
  <2>2. QED
    BY <1>13, <1>14, <1>16, <2>1 DEF PutFlow
<1>17. ASSUME NEW e \in Editors, NEW f \in Flows, DeleteFlow(e, f) PROVE NumbersWithin'
  <2>1. \A x \in Flows : flow'[x].drawing = flow[x].drawing
    BY <1>1, <1>17 DEF DeleteFlow, FlowRow
  <2>2. QED
    BY <1>17, <2>1 DEF DeleteFlow, NumbersWithin
<1>18. ASSUME NEW e \in Editors, NEW f \in Flows, \E t \in Triggers, s \in DripSteps : SaveDrip(e, f, t, s)
       PROVE  NumbersWithin'
  <2>1. \A x \in Flows : flow'[x].drawing \in {flow[x].drawing, begun + 1}
    BY <1>1, <1>18 DEF SaveDrip
  <2>2. begun' = begun + 1 /\ UNCHANGED <<tab, saving, opening>>
    BY <1>18 DEF SaveDrip
  <2>3. 0..begun \subseteq 0..begun' /\ begun + 1 \in 0..begun'
    BY <1>1, <2>2
  <2>4. \A x \in Flows : flow'[x].drawing \in 0..begun'
    BY <1>1, <2>1, <2>3 DEF NumbersWithin
  <2>5. QED
    BY <2>2, <2>3, <2>4 DEF NumbersWithin
<1>19. CASE UNCHANGED editorVars
  BY <1>19 DEF editorVars, NumbersWithin
<1>20. QED
  BY <1>3, <1>4, <1>5, <1>6, <1>7, <1>8, <1>11, <1>12, <1>15, <1>16, <1>17, <1>18, <1>19 DEF EditorNext

LEMMA DrawingsTyped == DrawingInv /\ NumbersWithin /\ CountsWithin => EditorTypeOK
<1> SUFFICES ASSUME DrawingInv, NumbersWithin, CountsWithin PROVE EditorTypeOK
  OBVIOUS
<1>1. \A f \in Flows : flow[f].state \in {"none", "kept", "deleted"} /\ flow[f].graph \in Graphs
  BY DEF DrawingInv, EditorTyped, FlowRow
<1>2. \A e \in Editors : /\ tab[e].graph \in Graphs /\ tab[e].id \in Flows \cup {NoFlow}
                         /\ tab[e].from \in Handles \cup {NoHandle}
  BY DEF DrawingInv, EditorTyped, TabRow
<1>3. \A e \in Editors : saving[e].graph \in Graphs /\ opening[e].graph \in Graphs
  BY DEF DrawingInv, EditorTyped, FlowCallRow
<1>4. QED
  BY <1>1, <1>2, <1>3 DEF EditorTypeOK, NumbersWithin, CountsWithin

-----------------------------------------------------------------------------
(* RuleEditor: what rules are about, of those that were begun.                *)

CallWithin(q) == q.form.topic \in 0..MaxTopics /\ \A x \in q.list : x.row.topic \in 0..MaxTopics
\* What is stored, listed, written in the dialog, sent or answered is about something that somebody began to write.
TopicsWithin ==
    /\ topics \in 0..MaxTopics /\ form.topic \in 0..MaxTopics
    /\ \A r \in RuleIds : rule[r].topic \in 0..MaxTopics /\ listed[r].topic \in 0..MaxTopics
    /\ \A c \in RuleCalls : CallWithin(rcall[c])
    /\ loading \in BOOLEAN /\ behind \subseteq RuleIds

LEMMA TopicsWithinInit == RulesInit => TopicsWithin
<1>1. 0 \in 0..MaxTopics
  BY RuleEditorAssumption
<1>2. CallWithin(NoCall) /\ NoRuleRow.topic \in 0..MaxTopics /\ Blank.topic \in 0..MaxTopics
  BY <1>1 DEF CallWithin, NoRuleRow, Blank, NoCall
<1>3. QED
  BY <1>1, <1>2 DEF RulesInit, TopicsWithin

LEMMA TopicsWithinStep == TopicInv /\ TopicsWithin /\ [RulesNext]_ruleVars => TopicsWithin'
<1> SUFFICES ASSUME TopicInv, TopicsWithin, [RulesNext]_ruleVars
             PROVE  TopicsWithin'
  OBVIOUS
<1>1. RulesTyped /\ MaxTopics \in Nat /\ 0 \in 0..MaxTopics /\ form \in FormRow
  BY RuleEditorAssumption DEF TopicInv, RulesTyped
<1>2. /\ \A c \in RuleCalls : rcall[c] \in RuleCallRow /\ rcall[c].about \subseteq RuleIds /\ rcall[c].form \in FormRow
      /\ \A r \in RuleIds : rule[r] \in RuleRow /\ listed[r] \in RuleRow
  BY <1>1 DEF RulesTyped, RuleCallRow
\* The dialog
<1>3. ASSUME UNCHANGED <<rule, listed, loading, rcall, behind>>, topics' \in 0..MaxTopics, form'.topic \in 0..MaxTopics
      PROVE  TopicsWithin'
  BY <1>3 DEF TopicsWithin
<1>4. ASSUME OpenNew \/ \E parts : ApplyTemplate(parts) PROVE TopicsWithin'
  <2>1. UNCHANGED <<rule, listed, loading, rcall, behind>> /\ topics' = topics + 1 /\ topics < MaxTopics
    BY <1>4 DEF OpenNew, ApplyTemplate
  <2>2. topics + 1 \in 0..MaxTopics
    BY <1>1, <2>1 DEF TopicsWithin
  <2>3. form'.topic = topics + 1
    BY <1>1, <1>4 DEF OpenNew, ApplyTemplate, FormRow, Blank
  <2>4. QED
    BY <1>3, <2>2, <2>1, <2>3
<1>5. ASSUME NEW r \in RuleIds, EditRule(r) PROVE TopicsWithin'
  BY <1>3, <1>5 DEF EditRule, TopicsWithin
<1>6. ASSUME NEW f \in FormRow, f.topic = form.topic, ChangeForm(f) PROVE TopicsWithin'
  BY <1>3, <1>6 DEF ChangeForm, ruleHistory, TopicsWithin
<1>7. ASSUME WriteAnswer \/ SwitchSequence \/ ChooseChannel PROVE TopicsWithin'
  <2>1. ASSUME NEW p \in Parts, TogglePart(p) PROVE TopicsWithin'
    <3> DEFINE f == [form EXCEPT !.parts = IF p \in @ THEN @ \ {p} ELSE @ \cup {p}]
    <3>2. f \in FormRow /\ f.topic = form.topic
      BY <1>1 DEF FormRow
    <3>3. ChangeForm(f)
      BY <2>1 DEF TogglePart
    <3> HIDE DEF f
    <3>4. QED
      BY <1>6, <3>2, <3>3
  <2>2. ASSUME NEW s \in Scopes \cup {Anywhere}, ChangeForm([form EXCEPT !.scope = s]) PROVE TopicsWithin'
    <3>1. [form EXCEPT !.scope = s] \in FormRow /\ [form EXCEPT !.scope = s].topic = form.topic
      BY <1>1 DEF FormRow
    <3>2. QED
      BY <1>6, <2>2, <3>1
  <2>3. QED
    BY <1>7, <2>1, <2>2 DEF WriteAnswer, SwitchSequence, ChooseChannel
<1>8. ASSUME CloseForm PROVE TopicsWithin'
  <2>1. form'.topic \in {0, form.topic}
    BY <1>1, <1>8 DEF CloseForm, Blank, FormRow
  <2>2. QED
    BY <1>1, <1>3, <1>8, <2>1 DEF CloseForm, TopicsWithin
\* The requests: what they carry is what the dialog or a row that is listed is about.
<1>9. ASSUME UNCHANGED <<rule, form, loading, topics, behind>>,
             \A r \in RuleIds : listed'[r].topic = listed[r].topic,
             \A c \in RuleCalls : CallWithin(rcall'[c])
      PROVE  TopicsWithin'
  BY <1>9 DEF TopicsWithin
<1>10. ASSUME NEW c \in RuleCalls, NEW q, rcall' = [rcall EXCEPT ![c] = q], CallWithin(q),
              UNCHANGED <<rule, listed, form, topics>>, loading' \in BOOLEAN, behind' \subseteq RuleIds
       PROVE  TopicsWithin'
  <2>1. \A x \in RuleCalls : CallWithin(rcall'[x])
    BY <1>1, <1>10 DEF RulesTyped, TopicsWithin
  <2>2. QED
    BY <1>10, <2>1 DEF TopicsWithin
<1>11. CallWithin(NoCall) /\ CallWithin([NoCall EXCEPT !.kind = "fetch"])
  BY <1>1 DEF CallWithin, NoCall, Blank
<1>12. ASSUME NEW c \in RuleCalls, SaveRule(c) PROVE TopicsWithin'
  <2> DEFINE q == [NoCall EXCEPT !.kind = IF form.id = NoRule THEN "post" ELSE "put",
                                 !.ids = {form.id}, !.form = [form EXCEPT !.parts = SentParts(@)], !.on = TRUE]
  <2>1. /\ rcall' = [rcall EXCEPT ![c] = q]
        /\ UNCHANGED <<rule, listed, form, topics, loading, behind>>
    BY <1>12 DEF SaveRule, Send, pageState, ruleHistory
  <2>2. CallWithin(q)
    BY <1>1 DEF CallWithin, NoCall, FormRow, TopicsWithin
  <2> HIDE DEF q
  <2>3. QED
    BY <1>10, <2>1, <2>2 DEF TopicsWithin
<1>13. ASSUME NEW c \in RuleCalls, NEW r \in RuleIds, ToggleActive(c, r) PROVE TopicsWithin'
  <2>1. \A b : CallWithin([NoCall EXCEPT !.kind = "toggle", !.ids = {r}, !.about = {r}, !.on = ~listed[r].on,
                                        !.crossed = b])
    BY <1>1 DEF CallWithin, NoCall, Blank
  <2>2. \A x \in RuleCalls : \A b : CallWithin([rcall[x] EXCEPT !.crossed = b])
    BY <1>2 DEF CallWithin, RuleCallRow, TopicsWithin
  <2>3. \A x \in RuleCalls : CallWithin(rcall'[x])
    BY <1>13, <2>1, <2>2 DEF ToggleActive
  <2>4. \A x \in RuleIds : listed'[x].topic = listed[x].topic
    BY <1>1, <1>2, <1>13 DEF ToggleActive, RulesTyped, RuleRow
  <2>5. UNCHANGED <<rule, form, loading, topics, behind>>
    BY <1>13 DEF ToggleActive, ruleHistory
  <2>6. QED
    BY <1>9, <2>3, <2>4, <2>5
<1>14. ASSUME NEW c \in RuleCalls, NEW r \in RuleIds, CloneRule(c, r) PROVE TopicsWithin'
  <2> DEFINE q == [NoCall EXCEPT !.kind = "copy", !.ids = {NoRule},
                                 !.form = [Blank EXCEPT !.topic = listed[r].topic,
                                                      !.parts = listed[r].parts \ {"quick"}]]
  <2>1. /\ rcall' = [rcall EXCEPT ![c] = q]
        /\ UNCHANGED <<rule, listed, form, topics, loading, behind>>
    BY <1>14 DEF CloneRule, Send, pageState, ruleHistory
  <2>2. CallWithin(q)
    BY <1>1 DEF CallWithin, NoCall, Blank, TopicsWithin
  <2> HIDE DEF q
  <2>3. QED
    BY <1>10, <2>1, <2>2 DEF TopicsWithin
<1>15. ASSUME NEW c \in RuleCalls, NEW q, CallWithin(q), Send(c, q), UNCHANGED <<rule, listed, form, topics, loading, behind>>
       PROVE  TopicsWithin'
  BY <1>10, <1>15 DEF Send, TopicsWithin
<1>16. \A kind, ids, about, on :
          CallWithin([NoCall EXCEPT !.kind = kind, !.ids = ids, !.about = about, !.on = on])
          /\ CallWithin([NoCall EXCEPT !.kind = kind, !.ids = ids, !.about = about])
  BY <1>1 DEF CallWithin, NoCall, Blank
<1>17. ASSUME NEW c \in RuleCalls, NEW r \in RuleIds, DeleteRule(c, r) PROVE TopicsWithin'
  BY <1>15, <1>16, <1>17 DEF DeleteRule, pageState, ruleHistory
<1>18. ASSUME NEW c \in RuleCalls, NEW kind, NEW on, Bulk(c, kind, on) PROVE TopicsWithin'
  BY <1>15, <1>16, <1>18 DEF Bulk, pageState, ruleHistory
<1>19. ASSUME Select PROVE TopicsWithin'
  BY <1>19 DEF Select, ruleHistory, TopicsWithin
\* rules.service.ts
<1>20. ASSUME NEW c \in RuleCalls, NEW r \in RuleIds, NEW row, rule' = [rule EXCEPT ![r] = row], row.topic \in 0..MaxTopics,
              UNCHANGED pageState, UNCHANGED topics, behind' \subseteq RuleIds,
              \A x \in RuleCalls : rcall'[x].form = rcall[x].form /\ rcall'[x].list = rcall[x].list
       PROVE  TopicsWithin'
  BY <1>1, <1>20 DEF pageState, TopicsWithin, CallWithin, RulesTyped
<1>21. \A c \in RuleCalls : \A r : Handled(c, r) => \A x \in RuleCalls : rcall'[x].form = rcall[x].form /\ rcall'[x].list = rcall[x].list
  BY <1>1, <1>2 DEF Handled, Overtake, RuleCallRow, RulesTyped
<1>22. ASSUME NEW c \in RuleCalls, NEW r \in RuleIds, Serve(c, r) PROVE TopicsWithin'
  <2>1. rcall[c].kind \in {"put", "toggle", "bulk", "delete", "bulkDelete"}
    BY <1>22 DEF Serve, TopicInv, CallFits
  <2>2. Applied(c, r).topic \in {rule[r].topic, rcall[c].form.topic, 0}
    BY <1>2, <2>1 DEF Applied, Updated, RuleRow, NoRuleRow
  <2>3. Applied(c, r).topic \in 0..MaxTopics
    BY <1>1, <2>2 DEF TopicsWithin, CallWithin
  <2>4. rule' = [rule EXCEPT ![r] = Applied(c, r)] /\ Handled(c, r) /\ UNCHANGED pageState /\ UNCHANGED topics
        /\ behind' \subseteq RuleIds
    BY <1>22 DEF Serve, ruleHistory, TopicsWithin
  <2>5. QED
    BY <1>20, <1>21, <2>3, <2>4
<1>23. ASSUME NEW c \in RuleCalls, NEW r \in RuleIds, CreateRule(c, r) PROVE TopicsWithin'
  <2> DEFINE row == [state |-> "kept", topic |-> rcall[c].form.topic, scope |-> rcall[c].form.scope,
                     parts |-> rcall[c].form.parts, on |-> rcall[c].on]
  <2>1. rule' = [rule EXCEPT ![r] = row] /\ Handled(c, r) /\ UNCHANGED pageState /\ UNCHANGED topics
        /\ behind' \subseteq RuleIds
    BY <1>23 DEF CreateRule, ruleHistory, TopicsWithin
  <2>2. row.topic \in 0..MaxTopics
    BY DEF TopicsWithin, CallWithin
  <2> HIDE DEF row
  <2>3. QED
    BY <1>20, <1>21, <2>1, <2>2
<1>24. ASSUME NEW c \in RuleCalls, (\E r \in RuleIds \cup {NoRule} : NotServed(c, r)) \/ AnswerLost(c) PROVE TopicsWithin'
  <2>1. ASSUME NEW ids, NEW r, rcall' = [rcall EXCEPT ![c].ids = ids, ![c].failed = TRUE]
               \/ rcall' = [rcall EXCEPT ![c].failed = TRUE]
        PROVE  \A x \in RuleCalls : rcall'[x].form = rcall[x].form /\ rcall'[x].list = rcall[x].list
    BY <1>1, <1>2, <2>1 DEF RuleCallRow, RulesTyped
  <2>2. \A x \in RuleCalls : rcall'[x].form = rcall[x].form /\ rcall'[x].list = rcall[x].list
    BY <1>24, <2>1 DEF NotServed, AnswerLost
  <2>3. UNCHANGED <<rule, pageState, topics, behind>>
    BY <1>24 DEF NotServed, AnswerLost, ruleHistory
  <2>4. QED
    BY <2>2, <2>3 DEF TopicsWithin, pageState, CallWithin
<1>25. ASSUME NEW c \in RuleCalls, GetRules(c) PROVE TopicsWithin'
  <2> DEFINE q == [NoCall EXCEPT !.kind = "answer", !.list = {[id |-> r, row |-> rule[r]] : r \in StoredRules}]
  <2>1. rcall' = [rcall EXCEPT ![c] = q] /\ UNCHANGED <<rule, listed, form, topics, loading, behind>>
    BY <1>25 DEF GetRules, pageState, ruleHistory
  <2>2. CallWithin(q)
    BY <1>1 DEF CallWithin, NoCall, Blank, TopicsWithin, StoredRules
  <2> HIDE DEF q
  <2>3. QED
    BY <1>10, <2>1, <2>2 DEF TopicsWithin
\* The answers
<1>26. ASSUME NEW c \in RuleCalls, Saved(c) PROVE TopicsWithin'
  <2>1. \A x \in RuleCalls : CallWithin(rcall'[x])
    BY <1>1, <1>11, <1>26 DEF Saved, Fetch, RulesTyped, TopicsWithin
  <2>2. form'.topic = 0 /\ loading' = TRUE /\ UNCHANGED <<rule, listed, topics, behind>>
    BY <1>26 DEF Saved, Fetch, Blank
  <2>3. QED
    BY <1>1, <2>1, <2>2 DEF TopicsWithin
<1>27. ASSUME NEW c \in RuleCalls, Fetch(c) \/ Forget(c), UNCHANGED <<rule, listed, form, topics>>, behind' \subseteq RuleIds
       PROVE  TopicsWithin'
  BY <1>10, <1>11, <1>27 DEF Fetch, Forget, TopicsWithin
<1>28. ASSUME NEW c \in RuleCalls, Done(c) PROVE TopicsWithin'
  BY <1>27, <1>28 DEF Done, ruleHistory, TopicsWithin
<1>29. ASSUME NEW c \in RuleCalls, Failed(c) PROVE TopicsWithin'
  <2>1. rcall[c].about \subseteq RuleIds /\ behind \subseteq RuleIds
    BY <1>2 DEF TopicsWithin
  <2>2. UNCHANGED <<rule, listed, form, topics>> /\ behind' \subseteq RuleIds /\ (Fetch(c) \/ Forget(c))
    BY <1>29, <2>1 DEF Failed, ruleHistory
  <2>3. QED
    BY <1>27, <2>2
<1>30. ASSUME NEW c \in RuleCalls, SetRules(c) PROVE TopicsWithin'
  <2>1. \A r \in RuleIds : listed'[r].topic \in 0..MaxTopics
    <3> SUFFICES ASSUME NEW r \in RuleIds PROVE listed'[r].topic \in 0..MaxTopics
      OBVIOUS
    <3>1. listed'[r] = IF \E x \in rcall[c].list : x.id = r
                       THEN (CHOOSE x \in rcall[c].list : x.id = r).row ELSE NoRuleRow
      BY <1>30 DEF SetRules
    <3>2. (\E x \in rcall[c].list : x.id = r) => (CHOOSE x \in rcall[c].list : x.id = r) \in rcall[c].list
      OBVIOUS
    <3>3. \A x \in rcall[c].list : x.row.topic \in 0..MaxTopics
      BY DEF TopicsWithin, CallWithin
    <3>4. QED
      BY <1>1, <3>1, <3>2, <3>3 DEF NoRuleRow
  <2>2. \A x \in RuleCalls : \A b : CallWithin([rcall[x] EXCEPT !.crossed = b])
    BY <1>2 DEF CallWithin, RuleCallRow, TopicsWithin
  <2>3. \A x \in RuleCalls : CallWithin(rcall'[x])
    BY <1>11, <1>30, <2>2 DEF SetRules
  <2>4. loading' = FALSE /\ behind' \subseteq RuleIds /\ UNCHANGED <<rule, form, topics>>
    BY <1>2, <1>30 DEF SetRules, ruleHistory
  <2>5. QED
    BY <2>1, <2>3, <2>4 DEF TopicsWithin
<1>31. ASSUME NEW c \in RuleCalls, FetchFails(c) PROVE TopicsWithin'
  BY <1>10, <1>11, <1>31 DEF FetchFails, ruleHistory
<1>32. ASSUME NEW r \in RuleIds, WriteElsewhere(r) PROVE TopicsWithin'
  <2>1. \A x \in RuleCalls : rcall'[x].form = rcall[x].form /\ rcall'[x].list = rcall[x].list
    BY <1>2, <1>32 DEF WriteElsewhere, Overtake, RuleCallRow
  <2>2. \A x \in RuleIds : rule'[x].topic \in {rule[x].topic, 0}
    BY <1>1, <1>2, <1>32 DEF WriteElsewhere, RuleRow, NoRuleRow, RulesTyped
  <2>3. UNCHANGED <<pageState, topics>> /\ behind' \subseteq RuleIds
    BY <1>32 DEF WriteElsewhere, ruleHistory, TopicsWithin
  <2>4. QED
    BY <1>1, <2>1, <2>2, <2>3 DEF TopicsWithin, pageState, CallWithin
<1>33. CASE UNCHANGED ruleVars
  BY <1>33 DEF ruleVars, pageState, ruleHistory, TopicsWithin
<1>34. ASSUME NEW c \in RuleCalls, AskFrom(c) PROVE TopicsWithin'
  <2>1. CASE SaveRule(c)
    BY <1>12, <2>1
  <2>2. CASE \E r \in RuleIds : ToggleActive(c, r) \/ CloneRule(c, r) \/ DeleteRule(c, r)
    BY <1>13, <1>14, <1>17, <2>2
  <2>3. CASE (\E on \in BOOLEAN : Bulk(c, "bulk", on)) \/ Bulk(c, "bulkDelete", FALSE)
    BY <1>18, <2>3
  <2>4. QED
    BY <1>34, <2>1, <2>2, <2>3 DEF AskFrom
<1>35. ASSUME NEW c \in RuleCalls,
              \/ \E r \in RuleIds : Serve(c, r) \/ CreateRule(c, r)
              \/ \E r \in RuleIds \cup {NoRule} : NotServed(c, r)
              \/ AnswerLost(c) \/ GetRules(c)
              \/ Saved(c) \/ Done(c) \/ Failed(c) \/ SetRules(c) \/ FetchFails(c)
       PROVE  TopicsWithin'
  BY <1>22, <1>23, <1>24, <1>25, <1>26, <1>28, <1>29, <1>30, <1>31, <1>35
<1>36. CASE RulesNext
  <2>1. CASE \E c \in RuleCalls : AskFrom(c)
    BY <1>34, <2>1
  <2>2. CASE (\E parts \in {{}, {"sequence"} \cap Parts} : ApplyTemplate(parts)) \/ OpenNew
    BY <1>4, <2>2
  <2>3. CASE \E r \in RuleIds : EditRule(r) \/ WriteElsewhere(r)
    BY <1>5, <1>32, <2>3
  <2>4. CASE WriteAnswer \/ SwitchSequence \/ ChooseChannel \/ CloseForm \/ Select
    BY <1>7, <1>8, <1>19, <2>4
  <2>5. QED
    BY <1>35, <1>36, <2>1, <2>2, <2>3, <2>4 DEF RulesNext
<1>37. QED
  BY <1>33, <1>36

LEMMA RulesRowsTyped == TopicInv /\ TopicsWithin => RulesTypeOK
<1> SUFFICES ASSUME TopicInv, TopicsWithin PROVE RulesTypeOK
  OBVIOUS
<1>1. RulesTyped
  BY DEF TopicInv
<1>2. rule \in [RuleIds -> Rows] /\ listed \in [RuleIds -> Rows]
  BY <1>1 DEF RulesTyped, TopicsWithin, RuleRow, Rows
<1>3. form \in [shown : BOOLEAN, id : RuleIds \cup {NoRule}, topic : 0..MaxTopics,
                scope : Scopes \cup {Anywhere}, parts : SUBSET Parts]
  BY <1>1 DEF RulesTyped, TopicsWithin, FormRow
<1>4. \A c \in RuleCalls : rcall[c].ids \subseteq RuleIds \cup {NoRule} /\ rcall[c].about \subseteq RuleIds
  BY <1>1 DEF RulesTyped, RuleCallRow
<1>5. QED
  BY <1>1, <1>2, <1>3, <1>4 DEF RulesTypeOK, RulesTyped, TopicsWithin

-----------------------------------------------------------------------------
(* Subscribers: whom the page asked for, and what is counted.                 *)

\* What was listed was asked for with a filter, the drawer shows and asks for the conversation of a subscriber, and what
\* the page knows to be written is theirs; acts and faults stay within their bounds.
ActsWithin ==
    /\ tabled \in Tags \cup {Every}
    /\ timer \in BOOLEAN /\ spinning \in BOOLEAN /\ astray \in BOOLEAN /\ swapped \in BOOLEAN
    /\ look \in [Fetches -> Subs \cup {NoSub}] /\ talk \in Subs \cup {NoSub}
    /\ stale \subseteq Subs /\ \A k \in Fetches : fetch[k].about \subseteq Subs
    /\ acts \in 0..MaxActs /\ subFaults \in 0..MaxSubFaults

LEMMA ActsInit == SubsInit => ActsWithin
<1> SUFFICES ASSUME SubsInit PROVE ActsWithin
  OBVIOUS
<1>1. acts \in 0..MaxActs /\ subFaults \in 0..MaxSubFaults
  BY SubscribersAssumption DEF SubsInit
<1>2. stale = {} /\ \A k \in Fetches : fetch[k].about = {}
  BY DEF SubsInit, NoFetch
<1>3. tabled = Every /\ timer = TRUE /\ spinning = TRUE /\ astray = FALSE /\ swapped = FALSE /\ talk = NoSub
  BY DEF SubsInit
<1>4. look \in [Fetches -> Subs \cup {NoSub}]
  BY DEF SubsInit
<1>5. QED
  BY <1>1, <1>2, <1>3, <1>4 DEF ActsWithin

LEMMA ActsStep == TagsInv /\ ActsWithin /\ [SubsNext]_subVars => ActsWithin'
<1> SUFFICES ASSUME TagsInv, ActsWithin, [SubsNext]_subVars
             PROVE  ActsWithin'
  OBVIOUS
<1>1. SubsTyped /\ fetch \in [Fetches -> FetchRow] /\ \A k \in Fetches : patch[k].pc # "idle" => patch[k].id \in Subs
  BY DEF TagsInv, SubsTyped, PatchesInv
<1>2. ASSUME UNCHANGED acts \/ UserActs PROVE acts' \in 0..MaxActs
  BY <1>2, SubscribersAssumption DEF ActsWithin, UserActs
<1>3. ASSUME UNCHANGED subFaults \/ SubFault PROVE subFaults' \in 0..MaxSubFaults
  BY <1>3, SubscribersAssumption DEF ActsWithin, SubFault
<1>4. /\ tabled \in Tags \cup {Every} /\ timer \in BOOLEAN /\ spinning \in BOOLEAN /\ astray \in BOOLEAN /\ swapped \in BOOLEAN
      /\ look \in [Fetches -> Subs \cup {NoSub}] /\ talk \in Subs \cup {NoSub}
      /\ stale \subseteq Subs /\ \A k \in Fetches : fetch[k].about \subseteq Subs
  BY DEF ActsWithin
<1>5. \A k \in Fetches : \A f : FetchSubscribers(k, f) => spinning' = TRUE /\ \A j \in Fetches : fetch'[j].about \subseteq Subs
  BY <1>1, <1>4 DEF FetchSubscribers, NoFetch
<1>6. ASSUME NEW f \in Tags \cup {Every}, SetFilter(f) PROVE ActsWithin'
  <2>1. timer' = TRUE /\ UNCHANGED <<tabled, spinning, astray, swapped, look, talk, stale, fetch, subFaults>> /\ UserActs
    BY <1>6 DEF SetFilter, subHistory
  <2>2. QED
    BY <1>2, <1>3, <1>4, <2>1 DEF ActsWithin
<1>7. ASSUME NEW k \in Fetches, Debounced(k) PROVE ActsWithin'
  <2>1. /\ timer' = FALSE /\ astray' = FALSE /\ UNCHANGED <<tabled, swapped, look, talk, stale, acts, subFaults>>
        /\ FetchSubscribers(k, filter)
    BY <1>7 DEF Debounced
  <2>2. QED
    BY <1>2, <1>3, <1>4, <1>5, <2>1 DEF ActsWithin
<1>8. ASSUME NEW k \in Fetches, FindAll(k) PROVE ActsWithin'
  <2>1. \A j \in Fetches : fetch'[j].about = fetch[j].about
    BY <1>1, <1>8 DEF FindAll, FetchRow
  <2>2. UNCHANGED <<tabled, timer, spinning, astray, swapped, look, talk, stale, acts, subFaults>>
    BY <1>8 DEF FindAll, pageList, subHistory
  <2>3. QED
    BY <1>2, <1>3, <1>4, <2>1, <2>2 DEF ActsWithin
<1>9. ASSUME NEW k \in Fetches, SetSubscribers(k) PROVE ActsWithin'
  <2>1. \A j \in Fetches : fetch'[j].about \subseteq Subs
    BY <1>1, <1>4, <1>9 DEF SetSubscribers, NoFetch
  <2>2. tabled' \in Tags \cup {Every} /\ stale' \subseteq Subs /\ spinning' = FALSE
    BY <1>1, <1>4, <1>9 DEF SetSubscribers, FetchRow
  <2>3. UNCHANGED <<timer, astray, swapped, look, talk, acts, subFaults>>
    BY <1>9 DEF SetSubscribers
  <2>4. QED
    BY <1>2, <1>3, <1>4, <2>1, <2>2, <2>3 DEF ActsWithin
<1>10. ASSUME NEW k \in Fetches, FetchSubscribersFails(k) PROVE ActsWithin'
  <2>1. \A j \in Fetches : fetch'[j].about \subseteq Subs
    BY <1>1, <1>4, <1>10 DEF FetchSubscribersFails, NoFetch
  <2>2. spinning' = FALSE /\ UNCHANGED <<tabled, timer, astray, swapped, look, talk, stale, acts>> /\ SubFault
    BY <1>10 DEF FetchSubscribersFails
  <2>3. QED
    BY <1>2, <1>3, <1>4, <2>1, <2>2 DEF ActsWithin
\* Tags
<1>11. ASSUME UserActs, UNCHANGED <<tabled, timer, spinning, astray, swapped, look, talk, stale, fetch, subFaults>>
       PROVE  ActsWithin'
  BY <1>2, <1>3, <1>4, <1>11 DEF ActsWithin
<1>12. ASSUME NEW k \in Fetches,
              \/ \E r \in table, t \in Tags : EditTag(k, r, t)
              \/ \E t \in Tags : EditTagInDrawer(k, t)
       PROVE  ActsWithin'
  BY <1>11, <1>12 DEF EditTag, EditTagInDrawer, PatchTags, pageList, subHistory
<1>13. ASSUME NEW k \in Fetches, UpdateTags(k) PROVE ActsWithin'
  BY <1>13 DEF UpdateTags, pageList, subHistory, ActsWithin
<1>14. ASSUME NEW k \in Fetches, NEW j \in Fetches, TagsStored(k, j) PROVE ActsWithin'
  <2>1. FetchSubscribers(j, patch[k].filter) /\ UNCHANGED <<timer, tabled, talk, look, stale, acts, subFaults>>
    BY <1>14 DEF TagsStored
  <2>2. astray' \in BOOLEAN
    BY <1>14 DEF TagsStored
  <2>3. swapped' \in BOOLEAN
    BY <1>4, <1>14 DEF TagsStored
  <2>4. QED
    BY <1>2, <1>3, <1>4, <1>5, <2>1, <2>2, <2>3 DEF ActsWithin
<1>15. ASSUME NEW k \in Fetches, TagsNotStored(k) PROVE ActsWithin'
  <2>1. patch[k].id \in Subs
    BY <1>1, <1>15 DEF TagsNotStored
  <2>2. \A j \in Fetches : fetch'[j].about \subseteq fetch[j].about \cup {patch[k].id}
    BY <1>1, <1>15 DEF TagsNotStored, FetchRow
  <2>3. stale' = stale \cup {patch[k].id} /\ UNCHANGED <<tabled, timer, spinning, astray, swapped, talk, look, acts>> /\ SubFault
    BY <1>15 DEF TagsNotStored, pageList
  <2>4. stale' \subseteq Subs /\ \A j \in Fetches : fetch'[j].about \subseteq Subs
    BY <1>4, <2>1, <2>2, <2>3
  <2>5. QED
    BY <1>2, <1>3, <1>4, <2>3, <2>4 DEF ActsWithin
<1>16. ASSUME NEW c \in Subs, NEW t \in Tags, TagElsewhere(c, t) PROVE ActsWithin'
  <2>1. \A j \in Fetches : fetch'[j].about \subseteq fetch[j].about \cup {c}
    BY <1>1, <1>16 DEF TagElsewhere, FetchRow
  <2>2. stale' = stale \cup {c} /\ UNCHANGED <<tabled, timer, spinning, astray, swapped, talk, look, acts>> /\ SubFault
    BY <1>16 DEF TagElsewhere, pageList
  <2>3. stale' \subseteq Subs /\ \A j \in Fetches : fetch'[j].about \subseteq Subs
    BY <1>4, <2>1, <2>2
  <2>4. QED
    BY <1>2, <1>3, <1>4, <2>2, <2>3 DEF ActsWithin
\* The drawer
<1>17. ASSUME NEW k \in Fetches, NEW r \in table, OpenProfile(k, r) PROVE ActsWithin'
  <2>1. r.id \in Subs
    BY <1>1 DEF SubsTyped, SubRows
  <2>2. look' \in [Fetches -> Subs \cup {NoSub}] /\ talk' = NoSub
    BY <1>4, <1>17, <2>1 DEF OpenProfile
  <2>3. swapped' \in BOOLEAN
    BY <1>17 DEF OpenProfile
  <2>4. UserActs /\ UNCHANGED <<tabled, timer, spinning, astray, stale, fetch, subFaults>>
    BY <1>17 DEF OpenProfile, pageList
  <2>5. QED
    BY <1>2, <1>3, <1>4, <2>2, <2>3, <2>4 DEF ActsWithin
<1>18. ASSUME CloseProfile PROVE ActsWithin'
  BY <1>18 DEF CloseProfile, pageList, subHistory, ActsWithin
<1>19. ASSUME NEW k \in Fetches, SetHistory(k) PROVE ActsWithin'
  <2>1. look' \in [Fetches -> Subs \cup {NoSub}] /\ talk' \in Subs \cup {NoSub}
    BY <1>4, <1>19 DEF SetHistory
  <2>2. UNCHANGED <<tabled, timer, spinning, astray, swapped, stale, fetch, acts>> /\ (UNCHANGED subFaults \/ SubFault)
    BY <1>19 DEF SetHistory, pageList, subHistory
  <2>3. QED
    BY <1>2, <1>3, <1>4, <2>1, <2>2 DEF ActsWithin
<1>20. CASE UNCHANGED subVars
  BY <1>20 DEF subVars, pageList, subHistory, ActsWithin
<1>21. QED
  BY <1>6, <1>7, <1>8, <1>9, <1>10, <1>12, <1>13, <1>14, <1>15, <1>16, <1>17, <1>18, <1>19, <1>20 DEF SubsNext

LEMMA SubsRowsTyped == TagsInv /\ ActsWithin => SubsTypeOK
<1> SUFFICES ASSUME TagsInv, ActsWithin PROVE SubsTypeOK
  OBVIOUS
<1>1. SubsTyped
  BY DEF TagsInv
<1>2. \A k \in Fetches : fetch[k].table \subseteq SubRows /\ patch[k].tags \subseteq Tags
  BY <1>1 DEF SubsTyped, FetchRow, PatchRow
<1>3. ask.filter \in Tags \cup {Every}
  BY <1>1 DEF SubsTyped, AskRow
<1>4. QED
  BY <1>1, <1>2, <1>3 DEF SubsTypeOK, SubsTyped, ActsWithin

-----------------------------------------------------------------------------
(* DeveloperTab: the numbers of urls and secrets, and the keys deleted.       *)

Given == 0..(deeds + 1)
HookGiven(h) == h.url \in Given /\ h.secret \in Given
\* A url and a secret that is stored, shown, read or sent has the number of a deed that was done.
UrlsGiven ==
    /\ deeds \in 0..MaxDeeds /\ HookGiven(outbound) /\ ((outbound.url = 0) <=> (outbound.secret = 0))
    /\ HookGiven(devTab) /\ HookGiven(devCall.hook) /\ \A f \in DeskLoads : deskLoad[f].url \in Given

\* A key that was deleted is no more among those there are, and a request to delete one is about a key.
RevokeRow == [row : ApiRows, pc : {"sent", "served", "refused"}]
KeysErased ==
    /\ erased \subseteq ApiRows /\ keyRows \cap erased = {} /\ revoking \subseteq RevokeRow
    /\ elsewhere \subseteq {"keys", "hook"} /\ deskFaults \in 0..MaxDeskFaults

LEMMA KeysErasedInit == DeveloperInit => KeysErased
  BY DeveloperAssumption DEF DeveloperInit, KeysErased

LEMMA KeysErasedStep == KeysErased /\ [DeveloperNext]_deskVars => KeysErased'
<1> SUFFICES ASSUME KeysErased, [DeveloperNext]_deskVars
             PROVE  KeysErased'
  OBVIOUS
<1>1. ASSUME UNCHANGED <<keyRows, erased>>, revoking' \subseteq revoking, elsewhere' \subseteq elsewhere,
             UNCHANGED deskFaults \/ DeskFault
      PROVE  KeysErased'
  BY <1>1, DeveloperAssumption DEF KeysErased, DeskFault
<1>2. CASE OpenDeveloperTab \/ \E f \in DeskLoads : ReadRows(f) \/ ReadHook(f) \/ ShowDeveloper(f) \/ DeskLoadFails(f)
  BY <1>1, <1>2 DEF OpenDeveloperTab, ReadRows, ReadHook, ShowDeveloper, DeskLoadFails, deskStory
<1>3. CASE AskCreate \/ KeyMade \/ AskSaveHook \/ ServeSaveHook \/ HookSaved \/ DevCallFails
  BY <1>1, <1>3 DEF AskCreate, KeyMade, AskSaveHook, ServeSaveHook, HookSaved, DevCallFails, deskStory
<1>4. ASSUME NEW k \in ApiRows, ServeCreate(k) PROVE KeysErased'
  BY <1>4 DEF ServeCreate, KeysErased, deskStory
<1>5. ASSUME NEW k \in ApiRows, AskRevoke(k) PROVE KeysErased'
  BY <1>5 DEF AskRevoke, KeysErased, deskStory, RevokeRow
<1>6. ASSUME NEW k \in ApiRows, ElsewhereKeys(k) PROVE KeysErased'
  BY <1>6 DEF ElsewhereKeys, KeysErased
<1>7. ASSUME NEW r \in revoking, ServeRevoke(r) PROVE KeysErased'
  <2>1. r \in RevokeRow
    BY DEF KeysErased
  <2>2. [r EXCEPT !.pc = IF r.row \in keyRows THEN "served" ELSE "refused"] \in RevokeRow /\ r.row \in ApiRows
    BY <2>1 DEF RevokeRow
  <2>3. revoking' \subseteq RevokeRow
    BY <1>7, <2>2 DEF ServeRevoke, KeysErased
  <2>4. keyRows' = keyRows \ {r.row} /\ erased' = erased \cup {r.row} /\ UNCHANGED <<elsewhere, deskFaults>>
    BY <1>7 DEF ServeRevoke, deskStory
  <2>5. QED
    BY <2>2, <2>3, <2>4 DEF KeysErased
<1>8. ASSUME NEW r \in revoking, Revoked(r) \/ RevokeFails(r) PROVE KeysErased'
  BY <1>1, <1>8 DEF Revoked, RevokeFails, deskStory
<1>9. ASSUME NEW n, TypeUrl(n) \/ ElsewhereHook(n) PROVE KeysErased'
  BY <1>9 DEF TypeUrl, ElsewhereHook, KeysErased
<1>10. CASE UNCHANGED deskVars
  BY <1>10 DEF deskVars, deskStory, KeysErased
<1>11. QED
  BY <1>2, <1>3, <1>4, <1>5, <1>6, <1>7, <1>8, <1>9, <1>10 DEF DeveloperNext

LEMMA UrlsGivenInit == DeveloperInit => UrlsGiven
<1> SUFFICES ASSUME DeveloperInit PROVE UrlsGiven
  OBVIOUS
<1>1. deeds = 0 /\ 0 \in Given /\ 1 \in Given /\ deeds \in 0..MaxDeeds
  BY DeveloperAssumption DEF DeveloperInit, Given
<1>2. outbound.url = 1 /\ outbound.secret = 1 /\ devTab.url = 0 /\ devTab.secret = 0 /\ devCall.hook.url = 0
      /\ devCall.hook.secret = 0 /\ \A f \in DeskLoads : deskLoad[f].url = 0
  BY DEF DeveloperInit, NoDevCall, NoHook, NoDeskLoad
<1>3. QED
  BY <1>1, <1>2 DEF UrlsGiven, HookGiven

LEMMA UrlsGivenStep == DeveloperTyped /\ UrlsGiven /\ [DeveloperNext]_deskVars => UrlsGiven'
<1> SUFFICES ASSUME DeveloperTyped, UrlsGiven, [DeveloperNext]_deskVars
             PROVE  UrlsGiven'
  OBVIOUS
<1>1. /\ deeds \in 0..MaxDeeds /\ deeds \in Nat /\ 0 \in Given /\ deeds + 1 \in Given
      /\ devTab \in DevTabRow /\ devCall \in DevCallRow
      /\ deskLoad \in [DeskLoads -> DeskLoadRow]
  BY DeveloperAssumption DEF UrlsGiven, DeveloperTyped, Given
<1>2. /\ \A f \in DeskLoads : deskLoad[f] \in DeskLoadRow /\ deskLoad[f].url \in Given
      /\ {outbound.url, outbound.secret, devTab.url, devTab.secret, devCall.hook.url, devCall.hook.secret} \subseteq Given
  BY <1>1 DEF UrlsGiven, HookGiven
<1>3. UNCHANGED deeds => Given' = Given
  BY DEF Given
<1>4. CountDeed => Given \subseteq Given' /\ deeds + 2 \in Given' /\ deeds' \in 0..MaxDeeds
  BY <1>1, DeveloperAssumption DEF CountDeed, Given
\* What is not numbered anew keeps its number.
<1>5. ASSUME UNCHANGED deeds \/ CountDeed,
             {devTab'.url, devTab'.secret, devCall'.hook.url, devCall'.hook.secret} \subseteq Given',
             UNCHANGED outbound \/ (HookGiven(outbound)' /\ (outbound'.url = 0 <=> outbound'.secret = 0)),
             \A f \in DeskLoads : deskLoad'[f].url \in Given
      PROVE  UrlsGiven'
  <2>1. Given \subseteq Given' /\ deeds' \in 0..MaxDeeds
    BY <1>1, <1>3, <1>4, <1>5
  <2>2. HookGiven(outbound)' /\ (outbound'.url = 0 <=> outbound'.secret = 0)
    BY <1>2, <1>5, <2>1 DEF UrlsGiven, HookGiven
  <2>3. HookGiven(devTab)' /\ HookGiven(devCall.hook)' /\ \A f \in DeskLoads : deskLoad'[f].url \in Given'
    BY <1>5, <2>1 DEF HookGiven
  <2>4. QED
    BY <2>1, <2>2, <2>3 DEF UrlsGiven
<1>6. UNCHANGED deeds \/ CountDeed => {0, deeds} \cup Given \subseteq Given'
  BY <1>1, <1>3, <1>4 DEF Given
<1>7. NoDeskLoad.url = 0 /\ Asked.url = 0 /\ NoDevCall.hook.url = 0 /\ NoDevCall.hook.secret = 0
  BY DEF NoDeskLoad, Asked, NoDevCall, NoHook
<1>8. LoadAgain => \A f \in DeskLoads : deskLoad'[f].url \in Given
  BY <1>1, <1>2, <1>7 DEF LoadAgain
<1>9. Outrun("keys") \/ Outrun("hook") => \A f \in DeskLoads : deskLoad'[f].url \in Given
  <2> SUFFICES ASSUME NEW w \in {"keys", "hook"}, Outrun(w), NEW f \in DeskLoads PROVE deskLoad'[f].url \in Given
    OBVIOUS
  <2>1. deskLoad'[f] \in {deskLoad[f], [deskLoad[f] EXCEPT ![w] = "old"]}
    BY DEF Outrun
  <2>2. [deskLoad[f] EXCEPT ![w] = "old"].url = deskLoad[f].url
    BY <1>2 DEF DeskLoadRow
  <2>3. QED
    BY <1>2, <2>1, <2>2
<1>10. ASSUME UNCHANGED <<outbound, devTab, devCall>>, UNCHANGED deeds \/ CountDeed, LoadAgain \/ Outrun("keys") \/ UNCHANGED deskLoad
       PROVE  UrlsGiven'
  BY <1>2, <1>5, <1>6, <1>8, <1>9, <1>10
<1>11. CASE OpenDeveloperTab \/ \E k \in ApiRows : AskRevoke(k) \/ ElsewhereKeys(k)
  BY <1>10, <1>11 DEF OpenDeveloperTab, AskRevoke, ElsewhereKeys
<1>12. ASSUME NEW r \in revoking, ServeRevoke(r) \/ Revoked(r) \/ RevokeFails(r) PROVE UrlsGiven'
  BY <1>10, <1>12 DEF ServeRevoke, Revoked, RevokeFails
\* loadDeveloper
<1>13. ASSUME NEW f \in DeskLoads, NEW row, deskLoad' = [deskLoad EXCEPT ![f] = row], row.url \in Given,
              {devTab'.url, devTab'.secret} \subseteq Given, UNCHANGED <<outbound, devCall, deeds>>
       PROVE  UrlsGiven'
  <2>1. \A x \in DeskLoads : deskLoad'[x].url \in Given
    BY <1>1, <1>2, <1>13
  <2>2. {devTab'.url, devTab'.secret, devCall'.hook.url, devCall'.hook.secret} \subseteq Given'
    BY <1>2, <1>3, <1>13
  <2>3. QED
    BY <1>5, <1>13, <2>1, <2>2
<1>14. ASSUME NEW f \in DeskLoads, ReadRows(f) PROVE UrlsGiven'
  <2>1. deskLoad' = [deskLoad EXCEPT ![f] = [deskLoad[f] EXCEPT !.keys = "read", !.rows = keyRows]]
    BY <1>1, <1>14 DEF ReadRows
  <2>2. [deskLoad[f] EXCEPT !.keys = "read", !.rows = keyRows].url = deskLoad[f].url
    BY <1>2 DEF DeskLoadRow
  <2>3. QED
    BY <1>2, <1>13, <1>14, <2>1, <2>2 DEF ReadRows
<1>15. ASSUME NEW f \in DeskLoads, ReadHook(f) PROVE UrlsGiven'
  <2>1. deskLoad' = [deskLoad EXCEPT ![f] = [deskLoad[f] EXCEPT !.hook = "read", !.url = outbound.url]]
    BY <1>1, <1>15 DEF ReadHook
  <2>2. [deskLoad[f] EXCEPT !.hook = "read", !.url = outbound.url].url = outbound.url
    BY <1>2 DEF DeskLoadRow
  <2>3. UNCHANGED <<outbound, devTab, devCall, deeds>>
    BY <1>15 DEF ReadHook
  <2>4. QED
    BY <1>2, <1>13, <2>1, <2>2, <2>3
<1>16. ASSUME NEW f \in DeskLoads, ShowDeveloper(f) PROVE UrlsGiven'
  <2>1. devTab'.url = deskLoad[f].url /\ devTab'.secret = devTab.secret
    BY <1>1, <1>16 DEF ShowDeveloper, DevTabRow
  <2>2. QED
    BY <1>1, <1>2, <1>7, <1>13, <1>16, <2>1 DEF ShowDeveloper
<1>17. ASSUME NEW f \in DeskLoads, DeskLoadFails(f) PROVE UrlsGiven'
  BY <1>1, <1>2, <1>7, <1>13, <1>17 DEF DeskLoadFails
\* What the page asks for, and what it is answered
<1>18. ASSUME AskCreate \/ DevCallFails PROVE UrlsGiven'
  <2>1. devCall'.hook.url = 0 /\ devCall'.hook.secret = 0
    BY <1>7, <1>18 DEF AskCreate, DevCallFails, NoDevCall
  <2>2. UNCHANGED <<outbound, devTab, deskLoad>> /\ (UNCHANGED deeds \/ CountDeed)
    BY <1>18 DEF AskCreate, DevCallFails
  <2>3. {devTab'.url, devTab'.secret, devCall'.hook.url, devCall'.hook.secret} \subseteq Given'
    BY <1>2, <1>6, <2>1, <2>2
  <2>4. QED
    BY <1>2, <1>5, <2>2, <2>3
<1>19. ASSUME NEW k \in ApiRows, ServeCreate(k) PROVE UrlsGiven'
  <2>1. devCall'.hook = devCall.hook
    BY <1>1, <1>19 DEF ServeCreate, DevCallRow
  <2>2. UNCHANGED <<outbound, devTab, deeds>> /\ Outrun("keys")
    BY <1>19 DEF ServeCreate
  <2>3. {devTab'.url, devTab'.secret, devCall'.hook.url, devCall'.hook.secret} \subseteq Given'
    BY <1>2, <1>3, <2>1, <2>2
  <2>4. QED
    BY <1>5, <1>9, <2>2, <2>3
<1>20. ASSUME KeyMade \/ HookSaved PROVE UrlsGiven'
  <2>1. devTab'.url = devTab.url /\ devTab'.secret \in {devTab.secret, devCall.hook.secret}
    BY <1>1, <1>20 DEF KeyMade, HookSaved, DevTabRow
  <2>2. devCall' = NoDevCall /\ UNCHANGED <<outbound, deeds>> /\ (LoadAgain \/ UNCHANGED deskLoad)
    BY <1>20 DEF KeyMade, HookSaved
  <2>3. {devTab'.url, devTab'.secret, devCall'.hook.url, devCall'.hook.secret} \subseteq Given'
    BY <1>1, <1>2, <1>3, <1>7, <2>1, <2>2
  <2>4. QED
    BY <1>2, <1>5, <1>8, <2>2, <2>3
<1>21. ASSUME NEW n \in {0, deeds + 2}, TypeUrl(n) PROVE UrlsGiven'
  <2>1. devTab'.url = n /\ devTab'.secret = devTab.secret /\ UNCHANGED <<outbound, devCall, deskLoad>> /\ CountDeed
    BY <1>1, <1>21 DEF TypeUrl, DevTabRow
  <2>2. {devTab'.url, devTab'.secret, devCall'.hook.url, devCall'.hook.secret} \subseteq Given'
    BY <1>2, <1>4, <1>6, <2>1
  <2>3. QED
    BY <1>2, <1>5, <2>1, <2>2
<1>22. ASSUME AskSaveHook PROVE UrlsGiven'
  <2>1. devCall'.hook.url = devTab.url /\ devCall'.hook.secret = 0
    BY <1>22 DEF AskSaveHook, NoDevCall, NoHook
  <2>2. UNCHANGED <<outbound, devTab, deskLoad>> /\ CountDeed
    BY <1>22 DEF AskSaveHook
  <2>3. {devTab'.url, devTab'.secret, devCall'.hook.url, devCall'.hook.secret} \subseteq Given'
    BY <1>2, <1>6, <2>1, <2>2
  <2>4. QED
    BY <1>2, <1>5, <2>2, <2>3
\* A secret of its own for every url that is saved, here and elsewhere
<1>23. CASE ServeSaveHook
  <2>1. outbound' = StoredHook(devCall.hook.url) /\ devCall'.hook = outbound' /\ UNCHANGED <<devTab, deeds>> /\ Outrun("hook")
    BY <1>1, <1>23 DEF ServeSaveHook, DevCallRow
  <2>2. outbound'.url = devCall.hook.url /\ outbound'.secret = IF devCall.hook.url = 0 THEN 0 ELSE deeds + 1
    BY <2>1 DEF StoredHook
  <2>3. HookGiven(outbound)' /\ (outbound'.url = 0 <=> outbound'.secret = 0)
    BY <1>1, <1>2, <1>3, <2>1, <2>2 DEF HookGiven
  <2>4. {devTab'.url, devTab'.secret, devCall'.hook.url, devCall'.hook.secret} \subseteq Given'
    BY <1>2, <1>3, <2>1, <2>3 DEF HookGiven
  <2>5. QED
    BY <1>5, <1>9, <2>1, <2>3, <2>4
<1>24. ASSUME NEW n \in {0, deeds + 2}, ElsewhereHook(n) PROVE UrlsGiven'
  <2>1. outbound' = [url |-> n, secret |-> IF n = 0 THEN 0 ELSE deeds + 2] /\ UNCHANGED devTab /\ CountDeed
        /\ Outrun("hook") /\ devCall'.hook = devCall.hook
    BY <1>1, <1>24 DEF ElsewhereHook, DevCallRow
  <2>2. HookGiven(outbound)' /\ (outbound'.url = 0 <=> outbound'.secret = 0)
    BY <1>1, <1>4, <1>6, <2>1 DEF HookGiven
  <2>3. {devTab'.url, devTab'.secret, devCall'.hook.url, devCall'.hook.secret} \subseteq Given'
    BY <1>2, <1>6, <2>1
  <2>4. QED
    BY <1>5, <1>9, <2>1, <2>2, <2>3
<1>25. CASE UNCHANGED deskVars
  BY <1>10, <1>25 DEF deskVars
<1>26. CASE DeveloperNext
  <2>1. CASE OpenDeveloperTab \/ \E f \in DeskLoads : ReadRows(f) \/ ReadHook(f) \/ ShowDeveloper(f) \/ DeskLoadFails(f)
    BY <1>11, <1>14, <1>15, <1>16, <1>17, <2>1
  <2>2. CASE AskCreate \/ KeyMade \/ AskSaveHook \/ ServeSaveHook \/ HookSaved \/ DevCallFails
    BY <1>18, <1>20, <1>22, <1>23, <2>2
  <2>3. CASE \E k \in ApiRows : ServeCreate(k) \/ AskRevoke(k) \/ ElsewhereKeys(k)
    BY <1>11, <1>19, <2>3
  <2>4. CASE \E n \in {0, deeds + 2} : TypeUrl(n) \/ ElsewhereHook(n)
    BY <1>21, <1>24, <2>4
  <2>5. QED
    BY <1>12, <1>26, <2>1, <2>2, <2>3, <2>4 DEF DeveloperNext
<1>27. QED
  BY <1>25, <1>26

LEMMA DeveloperRowsTyped == DeveloperTyped /\ UrlsGiven /\ KeysErased => DeveloperTypeOK
<1> SUFFICES ASSUME DeveloperTyped, UrlsGiven, KeysErased PROVE DeveloperTypeOK
  OBVIOUS
<1>1. Given \subseteq Urls
  BY DeveloperAssumption DEF UrlsGiven, Given, Urls
<1>2. outbound \in [url : Nat, secret : Nat] /\ outbound.url \in Urls /\ outbound.secret \in Urls
  BY <1>1 DEF DeveloperTyped, UrlsGiven, HookGiven
<1>3. outbound \in [url : Urls, secret : Urls]
  BY <1>2
<1>4. (outbound.url = 0) = (outbound.secret = 0)
  BY DEF UrlsGiven
<1>5. devTab.rows \subseteq ApiRows /\ devTab.fresh \in ApiRows \cup {NoApiRow} /\ devTab.url \in Urls /\ devTab.secret \in Urls
  BY <1>1 DEF DeveloperTyped, DevTabRow, UrlsGiven, HookGiven
<1>6. QED
  BY <1>3, <1>4, <1>5 DEF DeveloperTypeOK, DeveloperTyped, UrlsGiven, KeysErased, RevokeRow

-----------------------------------------------------------------------------
(* Preferences: the names, and what is counted.                               *)

StrokesWithin ==
    /\ strokes \in 0..MaxStrokes /\ preferenceFaults \in 0..MaxPreferenceFaults
    /\ overtaken \subseteq Panes /\ unaware \subseteq Panes

\* The names that are stored, kept, shown, typed and on their way are from edits that were made.
OldName(v) == v <= strokes + 1
OldNames(names) == \A c \in Captions : OldName(names[c])
NamesAged ==
    /\ OldNames(caption) /\ OldNames(kept)
    /\ \A t \in Panes : OldNames(pane[t].known) /\ OldNames(pane[t].field)
    /\ \A t \in Panes, c \in Captions : OldName(naming[t][c].value)

LEMMA StrokesInit == PreferencesInit => StrokesWithin
  BY PreferencesAssumption DEF PreferencesInit, StrokesWithin

LEMMA StrokesStep == StrokesWithin /\ [PreferencesNext]_preferenceVars => StrokesWithin'
<1> SUFFICES ASSUME StrokesWithin, [PreferencesNext]_preferenceVars
             PROVE  StrokesWithin'
  OBVIOUS
<1>1. ASSUME UNCHANGED strokes \/ Stroke, UNCHANGED preferenceFaults \/ PreferenceFault,
             overtaken' \subseteq Panes, unaware' \subseteq Panes
      PROVE  StrokesWithin'
  BY <1>1, PreferencesAssumption DEF StrokesWithin, Stroke, PreferenceFault
<1>2. overtaken \subseteq Panes /\ unaware \subseteq Panes
  BY DEF StrokesWithin
<1>3. ASSUME NEW t \in Panes, OpenPane(t) \/ ReadKnobs(t) \/ ShowKnobs(t) \/ KnobLoadFails(t) PROVE StrokesWithin'
  <2>1. overtaken' \subseteq Panes /\ unaware' \subseteq Panes
    BY <1>2, <1>3 DEF OpenPane, ReadKnobs, ShowKnobs, KnobLoadFails, preferenceStory
  <2>2. (UNCHANGED strokes \/ Stroke) /\ (UNCHANGED preferenceFaults \/ PreferenceFault)
    BY <1>3 DEF OpenPane, ReadKnobs, ShowKnobs, KnobLoadFails
  <2>3. QED
    BY <1>1, <2>1, <2>2
<1>4. ASSUME NEW t \in Panes, (\E k \in Knobs : Choose(t, k)) \/ SaveAi(t) \/ ServeAi(t) \/ AiSaved(t) \/ AiFails(t)
      PROVE  StrokesWithin'
  <2>1. overtaken' \subseteq Panes /\ unaware' \subseteq Panes
    BY <1>2, <1>4 DEF Choose, SaveAi, ServeAi, AiSaved, AiFails, preferenceStory
  <2>2. (UNCHANGED strokes \/ Stroke) /\ (UNCHANGED preferenceFaults \/ PreferenceFault)
    BY <1>4 DEF Choose, SaveAi, ServeAi, AiSaved, AiFails
  <2>3. QED
    BY <1>1, <2>1, <2>2
<1>5. ASSUME NEW t \in Panes, NEW c \in Captions,
             TypeName(t, c) \/ SaveName(t, c) \/ ServeName(t, c) \/ NameSaved(t, c) \/ NameFails(t, c)
      PROVE  StrokesWithin'
  <2>1. overtaken' \subseteq Panes /\ unaware' \subseteq Panes
    BY <1>2, <1>5 DEF TypeName, SaveName, ServeName, NameSaved, NameFails, preferenceStory
  <2>2. (UNCHANGED strokes \/ Stroke) /\ (UNCHANGED preferenceFaults \/ PreferenceFault)
    BY <1>5 DEF TypeName, SaveName, ServeName, NameSaved, NameFails
  <2>3. QED
    BY <1>1, <2>1, <2>2
<1>6. CASE UNCHANGED preferenceVars
  BY <1>1, <1>2, <1>6 DEF preferenceVars, preferenceStory
<1>7. QED
  BY <1>3, <1>4, <1>5, <1>6 DEF PreferencesNext

LEMMA NamesAgedInit == PreferencesInit => NamesAged
<1> SUFFICES ASSUME PreferencesInit PROVE NamesAged
  OBVIOUS
<1>1. strokes = 0 /\ caption = Before /\ kept = Before
      /\ \A t \in Panes : pane[t] = NoPane /\ \A c \in Captions : naming[t][c] = NoNaming
  BY DEF PreferencesInit
<1>2. OldNames(Before) /\ OldName(NoNaming.value)
  BY <1>1 DEF OldNames, OldName, Before, NoNaming
<1>3. QED
  BY <1>1, <1>2 DEF NamesAged, NoPane

LEMMA NamesAgedStep ==
  PrefTyped /\ caption \in [Captions -> Nat] /\ NamesAged /\ [PreferencesNext]_preferenceVars => NamesAged'
<1> SUFFICES ASSUME PrefTyped, caption \in [Captions -> Nat], NamesAged, [PreferencesNext]_preferenceVars
             PROVE  NamesAged'
  OBVIOUS
<1>1. /\ strokes \in Nat /\ pane \in [Panes -> PaneRow] /\ naming \in [Panes -> [Captions -> NamingRow]]
      /\ kept \in [Captions -> Nat]
  BY DEF PrefTyped
<1>2. \A t \in Panes : /\ pane[t] \in PaneRow /\ pane[t].known \in [Captions -> Nat] /\ pane[t].field \in [Captions -> Nat]
                       /\ \A c \in Captions : naming[t][c] \in NamingRow /\ naming[t][c].value \in Nat
  BY <1>1 DEF PaneRow, NamingRow
<1>3. /\ OldNames(caption) /\ OldNames(kept)
      /\ \A t \in Panes : OldNames(pane[t].known) /\ OldNames(pane[t].field)
      /\ \A t \in Panes, c \in Captions : OldName(naming[t][c].value)
  BY DEF NamesAged
<1>4. ASSUME UNCHANGED strokes \/ Stroke, NEW v \in Nat, OldName(v) PROVE OldName(v)'
  BY <1>1, <1>4 DEF OldName, Stroke
<1>5. ASSUME UNCHANGED strokes \/ Stroke, NEW names \in [Captions -> Nat], OldNames(names) PROVE OldNames(names)'
  BY <1>4, <1>5 DEF OldNames
<1>6. ASSUME UNCHANGED strokes \/ Stroke, UNCHANGED caption \/ OldNames(caption)', UNCHANGED kept \/ OldNames(kept)',
             \A t \in Panes : \/ pane'[t].known = pane[t].known /\ pane'[t].field = pane[t].field
                              \/ OldNames(pane[t].known)' /\ OldNames(pane[t].field)',
             \A t \in Panes, c \in Captions : naming'[t][c].value = naming[t][c].value \/ OldName(naming[t][c].value)'
      PROVE  NamesAged'
  <2>1. OldNames(caption)' /\ OldNames(kept)'
    BY <1>1, <1>3, <1>5, <1>6
  <2>2. \A t \in Panes : OldNames(pane[t].known)' /\ OldNames(pane[t].field)'
    <3> SUFFICES ASSUME NEW t \in Panes PROVE OldNames(pane[t].known)' /\ OldNames(pane[t].field)'
      OBVIOUS
    <3>1. CASE pane'[t].known = pane[t].known /\ pane'[t].field = pane[t].field
      BY <1>2, <1>3, <1>5, <1>6, <3>1
    <3>2. QED
      BY <1>6, <3>1
  <2>3. \A t \in Panes, c \in Captions : OldName(naming[t][c].value)'
    BY <1>2, <1>3, <1>4, <1>6
  <2>4. QED
    BY <2>1, <2>2, <2>3 DEF NamesAged
\* The form of the replies
<1>7. ASSUME UNCHANGED <<caption, kept, naming>>, UNCHANGED strokes \/ Stroke,
             \A t \in Panes : pane'[t].known = pane[t].known /\ pane'[t].field = pane[t].field
      PROVE  NamesAged'
  BY <1>6, <1>7
<1>8. ASSUME NEW t \in Panes, ReadKnobs(t) \/ KnobLoadFails(t) \/ SaveAi(t) \/ ServeAi(t) \/ AiSaved(t) \/ AiFails(t)
      PROVE  NamesAged'
  BY <1>7, <1>8 DEF ReadKnobs, KnobLoadFails, SaveAi, ServeAi, AiSaved, AiFails
<1>9. ASSUME NEW t \in Panes, NEW opts, pane' = [pane EXCEPT ![t].opts = opts], UNCHANGED <<caption, kept, naming>>,
             UNCHANGED strokes \/ Stroke
      PROVE  NamesAged'
  <2>1. \A u \in Panes : pane'[u].known = pane[u].known /\ pane'[u].field = pane[u].field
    BY <1>1, <1>2, <1>9 DEF PaneRow
  <2>2. QED
    BY <1>7, <1>9, <2>1
<1>10. ASSUME NEW t \in Panes, ShowKnobs(t) PROVE NamesAged'
  BY <1>9, <1>10 DEF ShowKnobs
<1>11. ASSUME NEW t \in Panes, NEW k \in Knobs, Choose(t, k) PROVE NamesAged'
  <2>1. pane' = [pane EXCEPT ![t].opts = [pane[t].opts EXCEPT ![k] = NewValue]]
    BY <1>1, <1>2, <1>11 DEF Choose, PaneRow
  <2>2. UNCHANGED <<caption, kept, naming>> /\ Stroke
    BY <1>11 DEF Choose, formState
  <2>3. QED
    BY <1>9, <2>1, <2>2
\* The names
<1>12. ASSUME NEW t \in Panes, OpenPane(t) PROVE NamesAged'
  <2>1. Stroke /\ UNCHANGED <<caption, kept, naming>>
    BY <1>12 DEF OpenPane
  <2>2. pane'[t].known = kept /\ pane'[t].field = kept /\ \A u \in Panes \ {t} : pane'[u] = pane[u]
    BY <1>1, <1>12 DEF OpenPane
  <2>3. OldNames(kept)'
    BY <1>1, <1>3, <1>5, <2>1
  <2>4. OldNames(pane[t].known)' /\ OldNames(pane[t].field)'
    BY <2>1, <2>2, <2>3 DEF OldNames, OldName
  <2>5. QED
    BY <1>6, <2>1, <2>2, <2>4
<1>13. ASSUME NEW t \in Panes, NEW c \in Captions, TypeName(t, c) PROVE NamesAged'
  <2>1. Stroke /\ UNCHANGED <<caption, kept, naming>>
    BY <1>13 DEF TypeName, formState
  <2>2. /\ pane'[t].known = pane[t].known /\ pane'[t].field = [pane[t].field EXCEPT ![c] = NewValue]
        /\ \A u \in Panes \ {t} : pane'[u] = pane[u]
    BY <1>1, <1>2, <1>13 DEF TypeName, PaneRow
  <2>3. NewValue \in Nat /\ NewValue <= strokes' + 1
    BY <1>1, <2>1 DEF NewValue, Stroke
  <2>4. OldNames(pane[t].known)' /\ \A x \in Captions : OldName(pane[t].field[x])'
    BY <1>2, <1>3, <1>4, <1>5, <2>1, <2>2, <2>3 DEF OldNames, OldName
  <2>5. OldNames(pane[t].field)'
    BY <2>4 DEF OldNames
  <2>6. QED
    BY <1>6, <2>1, <2>2, <2>4, <2>5
<1>14. ASSUME NEW t \in Panes, NEW c \in Captions, SaveName(t, c) PROVE NamesAged'
  <2>1. Stroke /\ UNCHANGED <<caption, kept, pane>>
    BY <1>14 DEF SaveName
  <2>2. pane[t].field[c] \in Nat /\ OldName(pane[t].field[c])
    BY <1>2, <1>3 DEF OldNames
  <2>3. OldName(pane[t].field[c])'
    BY <1>4, <2>1, <2>2 DEF OldName
  <2>4. \A u \in Panes, x \in Captions : naming'[u][x].value \in {naming[u][x].value, pane[t].field[c]}
    BY <1>1, <1>14 DEF SaveName
  <2>5. \A u \in Panes, x \in Captions : naming'[u][x].value = naming[u][x].value \/ OldName(naming[u][x].value)'
    BY <2>1, <2>3, <2>4 DEF OldName
  <2>6. QED
    BY <1>6, <2>1, <2>5
<1>15. ASSUME NEW t \in Panes, NEW c \in Captions, ServeName(t, c) PROVE NamesAged'
  <2>1. UNCHANGED <<kept, pane, strokes>> /\ caption' = [caption EXCEPT ![c] = naming[t][c].value]
    BY <1>15 DEF ServeName
  <2>2. \A x \in Captions : caption'[x] \in {caption[x], naming[t][c].value}
    BY <2>1
  <2>3. OldNames(caption)'
    BY <1>3, <2>1, <2>2 DEF OldNames, OldName
  <2>4. \A u \in Panes, x \in Captions : naming'[u][x].value = naming[u][x].value
    BY <1>1, <1>2, <1>15 DEF ServeName, NamingRow
  <2>5. QED
    BY <1>6, <2>1, <2>3, <2>4
<1>16. ASSUME NEW t \in Panes, NEW c \in Captions, NameSaved(t, c) PROVE NamesAged'
  <2> DEFINE user == [pane[t].known EXCEPT ![c] = naming[t][c].value]
  <2>1. UNCHANGED <<caption, strokes>> /\ kept' = user /\ pane' = [pane EXCEPT ![t].known = user, ![t].field = user]
    BY <1>16 DEF NameSaved
  <2>2. \A x \in Captions : user[x] \in {pane[t].known[x], naming[t][c].value}
    BY <1>2
  <2>3. OldNames(user)
    BY <1>3, <2>2 DEF OldNames, OldName
  <2> HIDE DEF user
  <2>4. OldNames(kept)'
    BY <2>1, <2>3 DEF OldNames, OldName
  <2>5. pane'[t].known = user /\ pane'[t].field = user /\ \A u \in Panes \ {t} : pane'[u] = pane[u]
    BY <1>1, <1>2, <2>1 DEF PaneRow
  <2>6. OldNames(pane[t].known)' /\ OldNames(pane[t].field)'
    BY <2>1, <2>3, <2>5 DEF OldNames, OldName
  <2>7. \A u \in Panes, x \in Captions : naming'[u][x].value \in {naming[u][x].value, 0}
    BY <1>1, <1>16 DEF NameSaved, NoNaming
  <2>8. \A u \in Panes, x \in Captions : naming'[u][x].value = naming[u][x].value \/ OldName(naming[u][x].value)'
    BY <1>1, <2>1, <2>7 DEF OldName
  <2>9. QED
    BY <1>6, <2>1, <2>4, <2>5, <2>6, <2>8
<1>17. ASSUME NEW t \in Panes, NEW c \in Captions, NameFails(t, c) PROVE NamesAged'
  <2>1. UNCHANGED <<caption, kept, pane, strokes>>
    BY <1>17 DEF NameFails
  <2>2. \A u \in Panes, x \in Captions : naming'[u][x].value \in {naming[u][x].value, 0}
    BY <1>1, <1>17 DEF NameFails, NoNaming
  <2>3. \A u \in Panes, x \in Captions : naming'[u][x].value = naming[u][x].value \/ OldName(naming[u][x].value)'
    BY <1>1, <2>1, <2>2 DEF OldName
  <2>4. QED
    BY <1>6, <2>1, <2>3
<1>18. CASE UNCHANGED preferenceVars
  BY <1>7, <1>18 DEF preferenceVars, formState
<1>19. QED
  BY <1>8, <1>10, <1>11, <1>12, <1>13, <1>14, <1>15, <1>16, <1>17, <1>18 DEF PreferencesNext

LEMMA FormsTyped ==
  PrefInv /\ caption \in [Captions -> Nat] /\ StrokesWithin /\ NamesAged => PreferencesTypeOK
<1> SUFFICES ASSUME PrefInv, caption \in [Captions -> Nat], StrokesWithin, NamesAged
             PROVE  PreferencesTypeOK
  OBVIOUS
<1>1. PrefTyped /\ ValuesOld /\ strokes \in 0..MaxStrokes
  BY DEF PrefInv, StrokesWithin
<1>2. \A v \in Nat : v <= strokes + 1 => v \in Edits
  BY <1>1, PreferencesAssumption DEF Edits
<1>3. ASSUME NEW names \in [Captions -> Nat], OldNames(names) PROVE names \in [Captions -> Edits]
  BY <1>2, <1>3 DEF OldNames, OldName
<1>4. ASSUME NEW values \in KnobValues, Old(values) PROVE values \in [Knobs -> Edits]
  BY <1>2, <1>4 DEF Old, KnobValues
<1>5. caption \in [Captions -> Edits] /\ kept \in [Captions -> Edits] /\ knob \in [Knobs -> Edits]
  BY <1>1, <1>3, <1>4 DEF NamesAged, PrefTyped, ValuesOld
<1>6. \A t \in Panes : /\ pane[t].opts \in [Knobs -> Edits]
                       /\ pane[t].known \in [Captions -> Edits] /\ pane[t].field \in [Captions -> Edits]
                       /\ chosen[t] \subseteq Knobs
  <2> SUFFICES ASSUME NEW t \in Panes
               PROVE  /\ pane[t].opts \in [Knobs -> Edits]
                      /\ pane[t].known \in [Captions -> Edits] /\ pane[t].field \in [Captions -> Edits]
                      /\ chosen[t] \subseteq Knobs
    OBVIOUS
  <2>1. pane[t].opts \in KnobValues /\ pane[t].known \in [Captions -> Nat] /\ pane[t].field \in [Captions -> Nat]
        /\ chosen[t] \subseteq Knobs
    BY <1>1 DEF PrefTyped, PaneRow
  <2>2. Old(pane[t].opts) /\ OldNames(pane[t].known) /\ OldNames(pane[t].field)
    BY <1>1 DEF ValuesOld, NamesAged
  <2>3. QED
    BY <1>3, <1>4, <2>1, <2>2
<1>7. read \cup overtaken \cup unaware \subseteq Panes
  BY <1>1 DEF PrefTyped, StrokesWithin
<1>8. QED
  BY <1>5, <1>6, <1>7 DEF PreferencesTypeOK, StrokesWithin

===============================================================================

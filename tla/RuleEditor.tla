----------------------------- MODULE RuleEditor -----------------------------
(* The rules page of one user (rules/page.tsx) and the service behind it     *)
(* (rules.service.ts): a list, a dialog to write a rule in, and requests     *)
(* whose answers come in any order.  What a rule is about is a number, given *)
(* when somebody begins to write it; of the rest only what the page or the   *)
(* service treat in a way of their own is kept.                              *)
EXTENDS Naturals, FiniteSets

CONSTANTS RuleIds, NoRule,    \* AutoReplyRule rows that may be made
          Scopes, Anywhere,   \* the channels a rule may be for, or all of them
          Parts,              \* "private", "media", "sequence", "quick": the optional parts of an answer
          RuleCalls,          \* requests of the page that may be on their way together
          MaxTopics,          \* bound: rules begun
          MaxClicks,          \* bound: changes of the dialog, selections, requests, and what goes wrong
          MaxRuleFaults       \* bound: failed requests, lost answers, writes of other users

ASSUME RuleEditorAssumption == NoRule \notin RuleIds /\ Anywhere \notin Scopes /\ MaxTopics \in Nat

VARIABLES
    rule,       \* AutoReplyRule rows
    listed,     \* rules: what the page lists
    form,       \* the dialog, and editingRuleId
    picked,     \* selectedRuleIds
    loading,    \* isLoading: a spinner stands for the list
    rcall,      \* requests on their way; a save is the one that isSubmitting allows
    \* history
    topics, left, mixed, behind, clicks, ruleFaults
pageState == <<listed, form, picked, loading>>
ruleHistory == <<topics, left, mixed>>
ruleVars == <<rule, pageState, rcall, ruleHistory, behind, clicks, ruleFaults>>

NoRuleRow == [state |-> "none", topic |-> 0, scope |-> Anywhere, parts |-> {}, on |-> FALSE]
Blank == [shown |-> FALSE, id |-> NoRule, topic |-> 0, scope |-> Anywhere, parts |-> {}]
NoCall == [kind |-> "none", ids |-> {}, about |-> {}, form |-> Blank, on |-> FALSE, failed |-> FALSE,
           crossed |-> FALSE, list |-> {}]

RulesInit ==
    /\ rule = [r \in RuleIds |-> NoRuleRow] /\ listed = [r \in RuleIds |-> NoRuleRow]
    /\ form = Blank /\ picked = {} /\ loading = FALSE
    /\ rcall = [c \in RuleCalls |-> NoCall]
    /\ topics = 0 /\ left = {} /\ mixed = {} /\ behind = {}
    /\ clicks = 0 /\ ruleFaults = 0

StoredRules == {r \in RuleIds : rule[r].state = "kept"}
OnList == {r \in RuleIds : listed[r].state = "kept"}
RuleFault == ruleFaults < MaxRuleFaults /\ clicks + ruleFaults < MaxClicks /\ ruleFaults' = ruleFaults + 1
Click == clicks + ruleFaults < MaxClicks /\ clicks' = clicks + 1
Send(c, request) == Click /\ rcall[c] = NoCall /\ rcall' = [rcall EXCEPT ![c] = request]
\* The list can be worked on while it is shown and the dialog, which is modal, is not.
Working == ~loading /\ ~form.shown

----------------------------------------------------------------------------
(* The dialog.                                                               *)

\* "Add": the dialog opens with what it held when it was closed.
OpenNew ==
    /\ ~form.shown /\ topics < MaxTopics
    /\ topics' = topics + 1
    /\ form' = [form EXCEPT !.shown = TRUE, !.topic = topics + 1]
    /\ mixed' = mixed \cup (left \cap {form.id})
    /\ UNCHANGED <<rule, listed, picked, loading, rcall, left, behind, clicks, ruleFaults>>

ApplyTemplate(parts) ==
    /\ ~form.shown /\ topics < MaxTopics
    /\ topics' = topics + 1
    /\ form' = [Blank EXCEPT !.shown = TRUE, !.topic = topics + 1, !.parts = parts]
    /\ left' = {}
    /\ UNCHANGED <<rule, listed, picked, loading, rcall, mixed, behind, clicks, ruleFaults>>

\* handleEditRule: from the row that is listed.
EditRule(r) ==
    /\ Working /\ r \in OnList
    /\ form' = [shown |-> TRUE, id |-> r, topic |-> listed[r].topic, scope |-> listed[r].scope,
                parts |-> listed[r].parts]
    /\ left' = {}
    /\ UNCHANGED <<rule, listed, picked, loading, rcall, topics, mixed, behind, clicks, ruleFaults>>

ChangeForm(changed) ==
    /\ form.shown /\ Click
    /\ form' = changed
    /\ UNCHANGED <<rule, listed, picked, loading, rcall, ruleHistory, behind, ruleFaults>>

TogglePart(p) == ChangeForm([form EXCEPT !.parts = IF p \in @ THEN @ \ {p} ELSE @ \cup {p}])

\* The private answer and its media, or the quick replies; a sequence shows instead of the first two.
WriteAnswer == \E p \in Parts \ {"sequence"} : TogglePart(p)

SwitchSequence == "sequence" \in Parts /\ TogglePart("sequence")

ChooseChannel == \E s \in Scopes \cup {Anywhere} : ChangeForm([form EXCEPT !.scope = s])

\* The dialog's own ways to close reset the form; its "cancel" does not.
CloseForm ==
    /\ form.shown
    /\ \/ form' = Blank /\ left' = {}
       \/ form' = [form EXCEPT !.shown = FALSE] /\ left' = {form.id} \cap RuleIds
    /\ UNCHANGED <<rule, listed, picked, loading, rcall, topics, mixed, behind, clicks, ruleFaults>>

\* A sequence of messages stands for the private answer and its media.
SentParts(parts) == IF "sequence" \in parts THEN parts \ {"private", "media"} ELSE parts

SaveRule(c) ==
    /\ form.shown /\ \A x \in RuleCalls : rcall[x].kind \notin {"put", "post"}
    /\ Send(c, [NoCall EXCEPT !.kind = IF form.id = NoRule THEN "post" ELSE "put",
                              !.ids = {form.id}, !.form = [form EXCEPT !.parts = SentParts(@)], !.on = TRUE])
    /\ UNCHANGED <<rule, pageState, ruleHistory, behind, ruleFaults>>

----------------------------------------------------------------------------
(* The list.                                                                 *)

\* The switch is moved at once; another change of the same rule may be on its way.
ToggleActive(c, r) ==
    /\ Working /\ r \in OnList
    /\ LET twice == {x \in RuleCalls : rcall[x].kind = "toggle" /\ r \in rcall[x].about}
           request == [NoCall EXCEPT !.kind = "toggle", !.ids = {r}, !.about = {r}, !.on = ~listed[r].on,
                                     !.crossed = twice # {}]
       IN  /\ Click /\ rcall[c] = NoCall
           /\ rcall' = [x \in RuleCalls |-> IF x = c THEN request
                                          ELSE [rcall[x] EXCEPT !.crossed = @ \/ x \in twice]]
    /\ listed' = [listed EXCEPT ![r].on = ~@]
    /\ UNCHANGED <<rule, form, picked, loading, ruleHistory, behind, ruleFaults>>

\* The copy is inactive, and for all channels.
CloneRule(c, r) ==
    /\ Working /\ r \in OnList
    /\ Send(c, [NoCall EXCEPT !.kind = "copy", !.ids = {NoRule},
                              !.form = [Blank EXCEPT !.topic = listed[r].topic,
                                                   !.parts = listed[r].parts \ {"quick"}]])
    /\ UNCHANGED <<rule, pageState, ruleHistory, behind, ruleFaults>>

DeleteRule(c, r) ==
    /\ Working /\ r \in OnList
    /\ Send(c, [NoCall EXCEPT !.kind = "delete", !.ids = {r}, !.about = {r}])
    /\ UNCHANGED <<rule, pageState, ruleHistory, behind, ruleFaults>>

\* handleToggleSelect, handleSelectAll: what was deleted stays selected.
Select ==
    /\ Working /\ OnList # {} /\ Click
    /\ \/ picked' = OnList \/ picked' = {}
       \/ \E r \in OnList : picked' = IF r \in picked THEN picked \ {r} ELSE picked \cup {r}
    /\ UNCHANGED <<rule, listed, form, loading, rcall, ruleHistory, behind, ruleFaults>>

\* handleBulkActivate, handleBulkDeactivate, handleBulkDelete: one request for each.
Bulk(c, kind, on) ==
    /\ Working /\ OnList # {} /\ picked # {}
    /\ Send(c, [NoCall EXCEPT !.kind = kind, !.ids = picked, !.about = picked, !.on = on])
    /\ UNCHANGED <<rule, pageState, ruleHistory, behind, ruleFaults>>

----------------------------------------------------------------------------
(* rules.service.ts                                                          *)

\* update: what is null is not written, but for the private answer.
Updated(row, f) == [row EXCEPT !.topic = f.topic, !.scope = f.scope, !.on = TRUE,
                               !.parts = f.parts \cup (@ \ {"private"})]

Overtake(calls, r) ==
    [x \in RuleCalls |-> IF calls[x].kind = "answer" THEN [calls[x] EXCEPT !.about = @ \cup {r}] ELSE calls[x]]
Handled(c, r) == rcall' = Overtake([rcall EXCEPT ![c].ids = @ \ {r, NoRule}, ![c].about = @ \cup {r}], r)

Applied(c, r) ==
    CASE rcall[c].kind = "put" -> Updated(rule[r], rcall[c].form)
      [] rcall[c].kind \in {"toggle", "bulk"} -> [rule[r] EXCEPT !.on = rcall[c].on]
      [] rcall[c].kind \in {"delete", "bulkDelete"} -> [NoRuleRow EXCEPT !.state = "deleted"]

\* update, deleteRule
Serve(c, r) ==
    /\ r \in rcall[c].ids \cap StoredRules
    /\ rule' = [rule EXCEPT ![r] = Applied(c, r)]
    /\ Handled(c, r)
    /\ behind' = IF rcall[c].crossed THEN behind \cup {r} ELSE behind
    /\ UNCHANGED <<pageState, ruleHistory, clicks, ruleFaults>>

\* create
CreateRule(c, r) ==
    /\ NoRule \in rcall[c].ids /\ rule[r].state = "none"
    /\ rule' = [rule EXCEPT ![r] = [state |-> "kept", topic |-> rcall[c].form.topic, scope |-> rcall[c].form.scope,
                                    parts |-> rcall[c].form.parts, on |-> rcall[c].on]]
    /\ Handled(c, r)
    /\ UNCHANGED <<pageState, ruleHistory, behind, clicks, ruleFaults>>

\* The rule is gone, or the request does not get through.
NotServed(c, r) ==
    /\ r \in rcall[c].ids
    /\ (r \in RuleIds \ StoredRules /\ UNCHANGED ruleFaults) \/ RuleFault
    /\ rcall' = [rcall EXCEPT ![c].ids = @ \ {r}, ![c].failed = TRUE]
    /\ UNCHANGED <<rule, pageState, ruleHistory, behind, clicks>>

AnswerLost(c) ==
    /\ rcall[c].kind \notin {"none", "fetch", "answer"} /\ rcall[c].ids = {} /\ ~rcall[c].failed /\ RuleFault
    /\ rcall' = [rcall EXCEPT ![c].failed = TRUE]
    /\ UNCHANGED <<rule, pageState, ruleHistory, behind, clicks>>

GetRules(c) ==
    /\ rcall[c].kind = "fetch"
    /\ rcall' = [rcall EXCEPT ![c] = [NoCall EXCEPT !.kind = "answer",
                                                     !.list = {[id |-> r, row |-> rule[r]] : r \in StoredRules}]]
    /\ UNCHANGED <<rule, pageState, ruleHistory, behind, clicks, ruleFaults>>

----------------------------------------------------------------------------
(* The answers.                                                              *)

AnswerTo(c, kinds) == rcall[c].kind \in kinds /\ rcall[c].ids = {}
Fetch(c) == rcall' = [rcall EXCEPT ![c] = [NoCall EXCEPT !.kind = "fetch"]] /\ loading' = TRUE
Forget(c) == rcall' = [rcall EXCEPT ![c] = NoCall] /\ UNCHANGED loading

\* Whatever the dialog shows by now is closed and reset.
Saved(c) ==
    /\ AnswerTo(c, {"put", "post"}) /\ ~rcall[c].failed
    /\ form' = Blank /\ left' = {}
    /\ Fetch(c)
    /\ UNCHANGED <<rule, listed, picked, topics, mixed, behind, clicks, ruleFaults>>

\* A toggle is believed as it is.
Done(c) ==
    /\ AnswerTo(c, {"toggle", "copy", "delete", "bulk", "bulkDelete"}) /\ ~rcall[c].failed
    /\ picked' = IF rcall[c].kind \in {"bulk", "bulkDelete"} THEN {} ELSE picked
    /\ IF rcall[c].kind = "toggle" THEN Forget(c) ELSE Fetch(c)
    /\ UNCHANGED <<rule, listed, form, ruleHistory, behind, clicks, ruleFaults>>

\* Of what a failed request has done the page learns nothing, but for a toggle.
Failed(c) ==
    /\ rcall[c].kind # "answer" /\ rcall[c].ids = {} /\ rcall[c].failed
    /\ IF rcall[c].kind = "toggle" THEN Fetch(c) /\ UNCHANGED behind
       ELSE Forget(c) /\ behind' = behind \cup rcall[c].about
    /\ UNCHANGED <<rule, listed, form, picked, ruleHistory, clicks, ruleFaults>>

SetRules(c) ==
    /\ rcall[c].kind = "answer"
    /\ listed' = [r \in RuleIds |-> IF \E x \in rcall[c].list : x.id = r
                                    THEN (CHOOSE x \in rcall[c].list : x.id = r).row ELSE NoRuleRow]
    /\ loading' = FALSE
    /\ behind' = rcall[c].about
    /\ rcall' = [x \in RuleCalls |-> IF x = c THEN NoCall
                                     ELSE [rcall[x] EXCEPT !.crossed = @ \/ rcall[x].kind = "toggle"]]
    /\ UNCHANGED <<rule, form, picked, ruleHistory, clicks, ruleFaults>>

FetchFails(c) ==
    /\ rcall[c].kind \in {"fetch", "answer"} /\ RuleFault
    /\ loading' = FALSE /\ behind' = RuleIds
    /\ rcall' = [rcall EXCEPT ![c] = NoCall]
    /\ UNCHANGED <<rule, listed, form, picked, ruleHistory, clicks>>

\* Somebody else switches, moves or deletes a rule.
WriteElsewhere(r) ==
    /\ r \in StoredRules /\ RuleFault
    /\ rule' \in {[rule EXCEPT ![r].on = ~@], [rule EXCEPT ![r] = [NoRuleRow EXCEPT !.state = "deleted"]]}
    /\ behind' = behind \cup {r}
    /\ rcall' = Overtake(rcall, r)
    /\ UNCHANGED <<pageState, ruleHistory, clicks>>

----------------------------------------------------------------------------
AskFrom(c) ==
    \/ SaveRule(c)
    \/ \E r \in RuleIds : ToggleActive(c, r) \/ CloneRule(c, r) \/ DeleteRule(c, r)
    \/ \E on \in BOOLEAN : Bulk(c, "bulk", on)
    \/ Bulk(c, "bulkDelete", FALSE)

RulesNext ==
    \/ OpenNew \/ \E parts \in {{}, {"sequence"} \cap Parts} : ApplyTemplate(parts)
    \/ \E r \in RuleIds : EditRule(r) \/ WriteElsewhere(r)
    \/ WriteAnswer \/ SwitchSequence \/ ChooseChannel \/ CloseForm \/ Select
    \/ \E c \in RuleCalls :
          \/ AskFrom(c)
          \/ \E r \in RuleIds : Serve(c, r) \/ CreateRule(c, r)
          \/ \E r \in RuleIds \cup {NoRule} : NotServed(c, r)
          \/ AnswerLost(c) \/ GetRules(c)
          \/ Saved(c) \/ Done(c) \/ Failed(c) \/ SetRules(c) \/ FetchFails(c)

RulesSpec == RulesInit /\ [][RulesNext]_ruleVars

----------------------------------------------------------------------------
Rows == [state : {"none", "kept", "deleted"}, topic : 0..MaxTopics, scope : Scopes \cup {Anywhere},
         parts : SUBSET Parts, on : BOOLEAN]

RulesTypeOK ==
    /\ rule \in [RuleIds -> Rows] /\ listed \in [RuleIds -> Rows]
    /\ form \in [shown : BOOLEAN, id : RuleIds \cup {NoRule}, topic : 0..MaxTopics,
                 scope : Scopes \cup {Anywhere}, parts : SUBSET Parts]
    /\ picked \subseteq RuleIds /\ loading \in BOOLEAN
    /\ \A c \in RuleCalls : rcall[c].ids \subseteq RuleIds \cup {NoRule} /\ rcall[c].about \subseteq RuleIds
    /\ left \subseteq RuleIds /\ mixed \subseteq RuleIds /\ behind \subseteq RuleIds

\* A rule is never overwritten with one that was begun as a new one, whatever was opened, saved, closed or
\* answered before: editingRuleId is reset in time.  Not so when an edit was left by "cancel", after which "add"
\* shows the dialog as it was, and still for the old rule (handleSaveRule, applyTemplate, resetForm).
RuleKeepsTopic ==
    [][\A r \in RuleIds \ mixed :
          r \in StoredRules /\ rule'[r].state = "kept" => rule'[r].topic = rule[r].topic]_ruleVars

\* When no request is on its way the page lists the rules as they are stored, but for those that somebody else
\* wrote since, that a request failed half way about, that were switched twice before an answer came, or that
\* were written between the read of a list and its answer (toggleRuleActive, fetchRules, the bulk handlers).
QuietPage == \A c \in RuleCalls : rcall[c] = NoCall
RulesListed ==
    QuietPage => \A r \in RuleIds \ behind : /\ r \in StoredRules <=> r \in OnList
                                           /\ r \in OnList => listed[r] = rule[r]
=============================================================================

---------------------------- MODULE DeveloperTab ----------------------------
(* The developer's tab of the settings page: the keys of the public API and   *)
(* the webhook of the workspace, as one page lists, makes, revokes and saves  *)
(* them while other pages do the same.  Urls and secrets are numbered by the  *)
(* edit or save they are from; 0 is none.                                     *)
EXTENDS Naturals, FiniteSets

CONSTANTS ApiRows, NoApiRow,     \* ApiKey rows
          DeskLoads,          \* loads of the tab that may be on their way at once
          MaxDeeds,           \* bound: tabs opened, edits, changes of this page and of others
          MaxDeskFaults       \* bound: requests that fail, answers that are lost

ASSUME DeveloperAssumption ==
    /\ NoApiRow \notin ApiRows /\ IsFiniteSet(ApiRows)
    /\ MaxDeeds \in Nat /\ MaxDeskFaults \in Nat

VARIABLES
    keyRows, erased, \* ApiKey rows, and those deleted
    outbound,      \* Tenant.outboundWebhookUrl and outboundWebhookSecret
    devTab,        \* the page: apiKeys, freshKey, webhookUrl, freshWebhookSecret
    devCall,       \* its request to make a key or to save the webhook: devBusy
    revoking,      \* its requests to delete keys
    deskLoad,      \* loadDeveloper
    \* history
    seen,          \* a load was answered
    typed,         \* the url was edited since
    belated,       \* what the tab shows of its last load is from before a change
    elsewhere,     \* changes of others since the rows were read: "keys", "hook"
    resealed,      \* another page saved the webhook since this one did
    unanswered,    \* a change of this page without its answer, or a load that failed
    deeds, deskFaults
deskStory == <<seen, typed, belated, elsewhere, resealed, unanswered>>
deskVars == <<keyRows, erased, outbound, devTab, devCall, revoking, deskLoad, deskStory, deeds, deskFaults>>

NoHook == [url |-> 0, secret |-> 0]
NoDevCall == [kind |-> "none", pc |-> "idle", row |-> NoApiRow, hook |-> NoHook, typed |-> FALSE, stale |-> FALSE]
NoDeskLoad == [pc |-> "idle", keys |-> "unread", hook |-> "unread", rows |-> {}, url |-> 0]

DeveloperInit ==
    /\ keyRows = {} /\ erased = {} /\ outbound = [url |-> 1, secret |-> 1]
    /\ devTab = [rows |-> {}, fresh |-> NoApiRow, url |-> 0, secret |-> 0]
    /\ devCall = NoDevCall /\ revoking = {} /\ deskLoad = [f \in DeskLoads |-> NoDeskLoad]
    /\ seen = FALSE /\ typed = FALSE /\ belated = FALSE /\ elsewhere = {} /\ resealed = FALSE /\ unanswered = FALSE
    /\ deeds = 0 /\ deskFaults = 0

CountDeed == deeds < MaxDeeds /\ deeds' = deeds + 1
DeskFault == deskFaults < MaxDeskFaults /\ deskFaults' = deskFaults + 1

\* What a load has read of something that changes is from before.
Outrun(what) ==
    deskLoad' = [f \in DeskLoads |-> IF deskLoad[f][what] = "read" THEN [deskLoad[f] EXCEPT ![what] = "old"]
                                     ELSE deskLoad[f]]

----------------------------------------------------------------------------
(* loadDeveloper                                                             *)

Asked == [NoDeskLoad EXCEPT !.pc = "asked"]
LoadAgain == \E f \in DeskLoads : deskLoad[f] = NoDeskLoad /\ deskLoad' = [deskLoad EXCEPT ![f] = Asked]

OpenDeveloperTab ==
    /\ CountDeed /\ LoadAgain
    /\ UNCHANGED <<keyRows, erased, outbound, devTab, devCall, revoking, deskStory, deskFaults>>

\* list and getWebhook of the controller: two requests, in either order.
ReadRows(f) ==
    /\ deskLoad[f].pc = "asked" /\ deskLoad[f].keys = "unread"
    /\ deskLoad' = [deskLoad EXCEPT ![f].keys = "read", ![f].rows = keyRows]
    /\ UNCHANGED <<keyRows, erased, outbound, devTab, devCall, revoking, deskStory, deeds, deskFaults>>

ReadHook(f) ==
    /\ deskLoad[f].pc = "asked" /\ deskLoad[f].hook = "unread"
    /\ deskLoad' = [deskLoad EXCEPT ![f].hook = "read", ![f].url = outbound.url]
    /\ UNCHANGED <<keyRows, erased, outbound, devTab, devCall, revoking, deskStory, deeds, deskFaults>>

\* Whichever load is answered last is shown, and its url in the place of one that was being typed.
ShowDeveloper(f) ==
    /\ "unread" \notin {deskLoad[f].keys, deskLoad[f].hook}
    /\ devTab' = [devTab EXCEPT !.rows = deskLoad[f].rows, !.url = deskLoad[f].url]
    /\ deskLoad' = [deskLoad EXCEPT ![f] = NoDeskLoad]
    /\ seen' = TRUE /\ typed' = FALSE
    /\ belated' = ("old" \in {deskLoad[f].keys, deskLoad[f].hook})
    /\ elsewhere' = {w \in elsewhere : deskLoad[f][w] = "old"}
    /\ UNCHANGED <<keyRows, erased, outbound, devCall, revoking, resealed, unanswered, deeds, deskFaults>>

\* Nothing is said.
DeskLoadFails(f) ==
    /\ deskLoad[f].pc = "asked" /\ DeskFault
    /\ deskLoad' = [deskLoad EXCEPT ![f] = NoDeskLoad]
    /\ unanswered' = TRUE
    /\ UNCHANGED <<keyRows, erased, outbound, devTab, devCall, revoking, seen, typed, belated, elsewhere, resealed,
                   deeds>>

----------------------------------------------------------------------------
(* handleCreateKey, handleRevokeKey                                          *)

AskCreate ==
    /\ devCall = NoDevCall /\ CountDeed
    /\ devCall' = [NoDevCall EXCEPT !.kind = "create", !.pc = "sent"]
    /\ UNCHANGED <<keyRows, erased, outbound, devTab, revoking, deskLoad, deskStory, deskFaults>>

ServeCreate(k) ==
    /\ devCall.kind = "create" /\ devCall.pc = "sent" /\ k \notin keyRows \cup erased
    /\ keyRows' = keyRows \cup {k} /\ devCall' = [devCall EXCEPT !.pc = "served", !.row = k]
    /\ Outrun("keys")
    /\ UNCHANGED <<erased, outbound, devTab, revoking, deskStory, deeds, deskFaults>>

\* The key is shown this once; then the tab is loaded again.
KeyMade ==
    /\ devCall.kind = "create" /\ devCall.pc = "served"
    /\ devTab' = [devTab EXCEPT !.fresh = devCall.row] /\ devCall' = NoDevCall /\ LoadAgain
    /\ UNCHANGED <<keyRows, erased, outbound, revoking, deskStory, deeds, deskFaults>>

AskRevoke(k) ==
    /\ k \in devTab.rows /\ CountDeed /\ \A r \in revoking : r.row # k
    /\ revoking' = revoking \cup {[row |-> k, pc |-> "sent"]}
    /\ UNCHANGED <<keyRows, erased, outbound, devTab, devCall, deskLoad, deskStory, deskFaults>>

ServeRevoke(r) ==
    /\ r.pc = "sent"
    /\ keyRows' = keyRows \ {r.row} /\ erased' = erased \cup {r.row}
    /\ revoking' = (revoking \ {r}) \cup {[r EXCEPT !.pc = IF r.row \in keyRows THEN "served" ELSE "refused"]}
    /\ Outrun("keys")
    /\ UNCHANGED <<outbound, devTab, devCall, deskStory, deeds, deskFaults>>

Revoked(r) ==
    /\ r.pc = "served"
    /\ revoking' = revoking \ {r} /\ LoadAgain
    /\ UNCHANGED <<keyRows, erased, outbound, devTab, devCall, deskStory, deeds, deskFaults>>

\* One that was deleted before stays in the list, with an error.
RevokeFails(r) ==
    /\ IF r.pc = "refused" THEN UNCHANGED deskFaults ELSE DeskFault
    /\ revoking' = revoking \ {r} /\ unanswered' = TRUE
    /\ UNCHANGED <<keyRows, erased, outbound, devTab, devCall, deskLoad, seen, typed, belated, elsewhere, resealed,
                   deeds>>

----------------------------------------------------------------------------
(* handleSaveWebhook                                                         *)

TypeUrl(n) ==
    /\ CountDeed /\ devTab' = [devTab EXCEPT !.url = n] /\ typed' = TRUE
    /\ UNCHANGED <<keyRows, erased, outbound, devCall, revoking, deskLoad, seen, belated, elsewhere, resealed,
                   unanswered, deskFaults>>

AskSaveHook ==
    /\ devCall = NoDevCall /\ CountDeed
    /\ devCall' = [NoDevCall EXCEPT !.kind = "webhook", !.pc = "sent", !.hook.url = devTab.url, !.typed = typed,
                              !.stale = ~seen \/ belated \/ "hook" \in elsewhere]
    /\ UNCHANGED <<keyRows, erased, outbound, devTab, revoking, deskLoad, deskStory, deskFaults>>

\* setWebhook: a secret of its own for every save, and none without a url.
StoredHook(url) == [url |-> url, secret |-> IF url = 0 THEN 0 ELSE deeds + 1]

ServeSaveHook ==
    /\ devCall.kind = "webhook" /\ devCall.pc = "sent"
    /\ outbound' = StoredHook(devCall.hook.url) /\ devCall' = [devCall EXCEPT !.pc = "served", !.hook = outbound']
    /\ Outrun("hook") /\ belated' = (belated \/ devTab.url # outbound'.url) /\ resealed' = FALSE
    /\ UNCHANGED <<keyRows, erased, devTab, revoking, seen, typed, elsewhere, unanswered, deeds, deskFaults>>

HookSaved ==
    /\ devCall.kind = "webhook" /\ devCall.pc = "served"
    /\ devTab' = [devTab EXCEPT !.secret = devCall.hook.secret] /\ devCall' = NoDevCall
    /\ UNCHANGED <<keyRows, erased, outbound, revoking, deskLoad, deskStory, deeds, deskFaults>>

\* An error is shown, and of what was shown before nothing changes.
DevCallFails ==
    /\ devCall # NoDevCall /\ DeskFault
    /\ devCall' = NoDevCall /\ unanswered' = TRUE
    /\ UNCHANGED <<keyRows, erased, outbound, devTab, revoking, deskLoad, seen, typed, belated, elsewhere,
                   resealed, deeds>>

----------------------------------------------------------------------------
(* Other pages of the workspace.                                             *)

ElsewhereKeys(k) ==
    /\ CountDeed
    /\ IF k \in keyRows THEN keyRows' = keyRows \ {k} /\ erased' = erased \cup {k}
                     ELSE k \notin erased /\ keyRows' = keyRows \cup {k} /\ UNCHANGED erased
    /\ Outrun("keys") /\ elsewhere' = elsewhere \cup {"keys"}
    /\ UNCHANGED <<outbound, devTab, devCall, revoking, seen, typed, belated, resealed, unanswered, deskFaults>>

ElsewhereHook(url) ==
    /\ CountDeed
    /\ outbound' = [url |-> url, secret |-> IF url = 0 THEN 0 ELSE deeds + 2]
    /\ Outrun("hook") /\ elsewhere' = elsewhere \cup {"hook"}
    /\ devCall' = [devCall EXCEPT !.stale = devCall # NoDevCall]
    /\ resealed' = TRUE
    /\ UNCHANGED <<keyRows, erased, devTab, revoking, seen, typed, belated, unanswered, deskFaults>>

Urls == 0..(MaxDeeds + 2)
DeveloperNext ==
    \/ OpenDeveloperTab
    \/ \E f \in DeskLoads : ReadRows(f) \/ ReadHook(f) \/ ShowDeveloper(f) \/ DeskLoadFails(f)
    \/ AskCreate \/ KeyMade \/ AskSaveHook \/ ServeSaveHook \/ HookSaved \/ DevCallFails
    \/ \E k \in ApiRows : ServeCreate(k) \/ AskRevoke(k) \/ ElsewhereKeys(k)
    \/ \E r \in revoking : ServeRevoke(r) \/ Revoked(r) \/ RevokeFails(r)
    \/ \E n \in {0, deeds + 2} : TypeUrl(n) \/ ElsewhereHook(n)

DeveloperSpec == DeveloperInit /\ [][DeveloperNext]_deskVars

----------------------------------------------------------------------------
DeveloperTypeOK ==
    /\ keyRows \subseteq ApiRows /\ erased \subseteq ApiRows /\ keyRows \cap erased = {}
    /\ outbound \in [url : Urls, secret : Urls] /\ (outbound.url = 0) = (outbound.secret = 0)
    /\ devTab.rows \subseteq ApiRows /\ devTab.fresh \in ApiRows \cup {NoApiRow}
    /\ devTab.url \in Urls /\ devTab.secret \in Urls
    /\ revoking \subseteq [row : ApiRows, pc : {"sent", "served", "refused"}]
    /\ elsewhere \subseteq {"keys", "hook"} /\ deeds \in 0..MaxDeeds /\ deskFaults \in 0..MaxDeskFaults

Quiet == devCall = NoDevCall /\ revoking = {} /\ \A f \in DeskLoads : deskLoad[f] = NoDeskLoad

\* When nothing is on its way the tab lists the keys there are, unless other pages changed them, an answer failed to
\* come, or an older load was answered last (loadDeveloper, handleCreateKey, handleRevokeKey).
KeysListed == Quiet /\ seen => devTab.rows = keyRows \/ "keys" \in elsewhere \/ belated \/ unanswered

\* The signing secret on the page is the one deliveries are signed with, unless another page saved the webhook or an
\* answer failed to come (handleSaveWebhook, setWebhook, dispatchOutboundWebhook).
SecretSigns ==
    devCall.kind # "webhook" /\ devTab.secret # 0 => devTab.secret = outbound.secret \/ resealed \/ unanswered

\* Saving the webhook changes its url to one that was typed, unless the tab had no answer of what is stored, or one
\* from before another page's save or its own (handleSaveWebhook, setWebhook).
HookKept ==
    [][devCall.kind = "webhook" /\ devCall.pc = "sent" /\ outbound'.url # outbound.url /\ devCall'.pc = "served" =>
          devCall.typed \/ devCall.stale]_deskVars
=============================================================================

----------------------------- MODULE Subscribers -----------------------------
(* The subscribers page of one user (subscribers/page.tsx) and the service   *)
(* behind it (subscribers.service.ts): a list by filters, tags edited in     *)
(* place, and a drawer with a customer's tags and conversation.  The filters *)
(* are one value, which stands for search, platform, tag, page and size.     *)
EXTENDS Naturals, FiniteSets

CONSTANTS Subs, NoSub,      \* Subscriber rows
          Tags, Every,      \* a filter is a tag, or Every
          Fetches,          \* bound: requests of a kind under way together
          MaxActs,          \* bound: what the user does
          MaxSubFaults      \* bound: failed requests, lost answers, writes of others

ASSUME SubscribersAssumption ==
    /\ NoSub \notin Subs /\ Every \notin Tags
    /\ MaxActs \in Nat /\ MaxSubFaults \in Nat

VARIABLES
    stored,     \* Subscriber.tags
    filter, timer, table, spinning,   \* the filters, the debounce, subscribersList, isLoading
    fetch,      \* fetchSubscribers: requests under way
    patch,      \* tag edits under way
    drawer,     \* selectedSubscriber, isProfileOpen; history: whether it was up to date
    talk, look, \* whose conversationHistory is shown, and requests for one under way
    \* history
    tabled,     \* the filter of the answer that is listed
    ask,        \* the last request for the list: its filter, whether it was alone on its way, whether it came
    stale,     \* subscribers written by others since the listed rows were read
    astray,     \* the last request was for filters that are not the page's
    swapped, acts, subFaults
pageList == <<filter, timer, table, spinning, tabled>>
subHistory == <<ask, stale, astray, swapped>>
subVars == <<stored, pageList, fetch, patch, drawer, talk, look, subHistory, acts, subFaults>>

NoFetch == [pc |-> "idle", filter |-> Every, table |-> {}, about |-> {}]
NoPatch == [pc |-> "idle", id |-> NoSub, tags |-> {}, cut |-> {}, filter |-> Every, inDrawer |-> FALSE,
            hasty |-> FALSE]

SubsInit ==
    /\ stored = [c \in Subs |-> {}]
    /\ filter = Every /\ timer = TRUE /\ table = {} /\ spinning = TRUE
    /\ fetch = [k \in Fetches |-> NoFetch] /\ patch = [k \in Fetches |-> NoPatch]
    /\ drawer = [open |-> FALSE, id |-> NoSub, tags |-> {}, sound |-> FALSE]
    /\ talk = NoSub /\ look = [k \in Fetches |-> NoSub]
    /\ tabled = Every /\ ask = [filter |-> Every, alone |-> FALSE]
    /\ stale = {} /\ astray = FALSE /\ swapped = FALSE /\ acts = 0 /\ subFaults = 0

UserActs == acts < MaxActs /\ acts' = acts + 1
SubFault == subFaults < MaxSubFaults /\ subFaults' = subFaults + 1
Fetching == {k \in Fetches : fetch[k].pc # "idle"}
Patching == {k \in Fetches : patch[k].pc # "idle"}
SettledPage == ~timer /\ Fetching = {} /\ Patching = {}
Current(c) == SettledPage /\ ask.alone /\ c \notin stale

----------------------------------------------------------------------------
(* The list.                                                                 *)

\* getSubscribers with one of the filters; all of them come in one request.
Matching(f) == {[id |-> c, tags |-> stored[c]] : c \in {d \in Subs : f = Every \/ f \in stored[d]}}

\* fetchSubscribers, with the filters of the render that it belongs to.
FetchSubscribers(k, f) ==
    /\ fetch[k].pc = "idle"
    /\ fetch' = [fetch EXCEPT ![k] = [NoFetch EXCEPT !.pc = "asked", !.filter = f]]
    /\ ask' = [filter |-> f, alone |-> Fetching = {}]
    /\ spinning' = TRUE

\* Every change of a filter starts the 300 ms anew; what is on its way is not called off.
SetFilter(f) ==
    /\ UserActs /\ ~drawer.open /\ f # filter
    /\ filter' = f /\ timer' = TRUE
    /\ UNCHANGED <<stored, table, spinning, tabled, fetch, patch, drawer, talk, look, subHistory, subFaults>>

Debounced(k) ==
    /\ timer /\ timer' = FALSE
    /\ FetchSubscribers(k, filter)
    /\ astray' = FALSE
    /\ UNCHANGED <<stored, filter, table, tabled, patch, drawer, talk, look, stale, swapped, acts, subFaults>>

FindAll(k) ==
    /\ fetch[k].pc = "asked"
    /\ fetch' = [fetch EXCEPT ![k].pc = "answered", ![k].table = Matching(fetch[k].filter)]
    /\ UNCHANGED <<stored, pageList, patch, drawer, talk, look, subHistory, acts, subFaults>>

\* The answer is listed, whatever has been asked since.
SetSubscribers(k) ==
    /\ fetch[k].pc = "answered"
    /\ table' = fetch[k].table /\ tabled' = fetch[k].filter /\ stale' = fetch[k].about
    /\ spinning' = FALSE
    /\ fetch' = [fetch EXCEPT ![k] = NoFetch]
    /\ UNCHANGED <<stored, filter, timer, patch, drawer, talk, look, ask, astray, swapped, acts, subFaults>>

FetchSubscribersFails(k) ==
    /\ fetch[k].pc # "idle" /\ SubFault
    /\ spinning' = FALSE /\ ask' = [ask EXCEPT !.alone = FALSE]
    /\ fetch' = [fetch EXCEPT ![k] = NoFetch]
    /\ UNCHANGED <<stored, filter, timer, table, tabled, patch, drawer, talk, look, stale, astray, swapped, acts>>

----------------------------------------------------------------------------
(* Tags.  A PATCH carries the whole list: that of the row, with the change.  *)

Toggled(tags, t) == IF t \in tags THEN tags \ {t} ELSE tags \cup {t}
PatchTags(k, c, tags, t, drawn, sound) ==
    /\ UserActs /\ patch[k].pc = "idle"
    /\ patch' = [j \in Fetches |->
                    IF j # k THEN [patch[j] EXCEPT !.hasty = @ \/ patch[j].id = c]
                    ELSE [pc |-> "sent", id |-> c, tags |-> Toggled(tags, t), cut |-> {t} \cap tags,
                          filter |-> filter,
                          inDrawer |-> drawn, hasty |-> ~sound \/ \E i \in Patching : patch[i].id = c]]

\* handleAddTag, handleRemoveTag: from the row that is listed.
EditTag(k, r, t) ==
    /\ ~drawer.open /\ ~spinning /\ r \in table
    /\ PatchTags(k, r.id, r.tags, t, FALSE, Current(r.id))
    /\ UNCHANGED <<stored, pageList, fetch, drawer, talk, look, subHistory, subFaults>>

\* The same from the drawer, whose tags are a copy of the row's.
EditTagInDrawer(k, t) ==
    /\ drawer.open
    /\ PatchTags(k, drawer.id, drawer.tags, t, TRUE, drawer.sound)
    /\ UNCHANGED <<stored, pageList, fetch, drawer, talk, look, subHistory, subFaults>>

UpdateTags(k) ==
    /\ patch[k].pc = "sent"
    /\ stored' = [stored EXCEPT ![patch[k].id] = patch[k].tags]
    /\ patch' = [patch EXCEPT ![k].pc = "stored"]
    /\ UNCHANGED <<pageList, fetch, drawer, talk, look, subHistory, acts, subFaults>>

\* The list is asked for anew, with the filters of the edit; the drawer shows whom the edit was about.
TagsStored(k, j) ==
    /\ patch[k].pc = "stored"
    /\ FetchSubscribers(j, patch[k].filter)
    /\ astray' = (patch[k].filter # filter)
    /\ IF patch[k].inDrawer
       THEN /\ drawer' = [drawer EXCEPT !.id = patch[k].id, !.tags = patch[k].tags, !.sound = ~patch[k].hasty]
            /\ swapped' = (swapped \/ patch[k].id # drawer.id)
       ELSE UNCHANGED <<drawer, swapped>>
    /\ patch' = [patch EXCEPT ![k] = NoPatch]
    /\ UNCHANGED <<stored, filter, timer, table, tabled, talk, look, stale, acts, subFaults>>

Overtaken(d, c) == [d EXCEPT !.sound = @ /\ d.id # c]

\* The page learns nothing of an edit that failed, or whose answer was lost.
TagsNotStored(k) ==
    /\ patch[k].pc # "idle" /\ SubFault
    /\ stale' = stale \cup {patch[k].id}
    /\ fetch' = [j \in Fetches |-> [fetch[j] EXCEPT !.about = IF j \in Fetching THEN @ \cup {patch[k].id} ELSE @]]
    /\ patch' = [patch EXCEPT ![k] = NoPatch]
    /\ drawer' = Overtaken(drawer, patch[k].id)
    /\ UNCHANGED <<stored, pageList, talk, look, ask, astray, swapped, acts>>

\* A flow or a teammate writes the tags of a subscriber.
TagElsewhere(c, t) ==
    /\ SubFault
    /\ stored' = [stored EXCEPT ![c] = Toggled(@, t)]
    /\ stale' = stale \cup {c}
    /\ fetch' = [k \in Fetches |-> [fetch[k] EXCEPT !.about = IF fetch[k].pc = "answered" THEN @ \cup {c} ELSE @]]
    /\ patch' = [k \in Fetches |-> [patch[k] EXCEPT !.hasty = @ \/ patch[k].id = c]]
    /\ drawer' = Overtaken(drawer, c)
    /\ UNCHANGED <<pageList, talk, look, ask, astray, swapped, acts>>

----------------------------------------------------------------------------
(* The drawer.                                                               *)

OpenProfile(k, r) ==
    /\ UserActs /\ ~drawer.open /\ ~spinning /\ r \in table /\ look[k] = NoSub
    /\ drawer' = [open |-> TRUE, id |-> r.id, tags |-> r.tags, sound |-> Current(r.id)]
    /\ talk' = NoSub
    /\ swapped' = (\E j \in Fetches : look[j] # NoSub \/ patch[j].inDrawer)
    /\ look' = [look EXCEPT ![k] = r.id]
    /\ UNCHANGED <<stored, pageList, fetch, patch, ask, stale, astray, subFaults>>

CloseProfile ==
    /\ drawer.open
    /\ drawer' = [drawer EXCEPT !.open = FALSE]
    /\ UNCHANGED <<stored, pageList, fetch, patch, talk, look, subHistory, acts, subFaults>>

\* getConversationHistory and its answer; without one the drawer keeps what it shows.
SetHistory(k) ==
    /\ look[k] # NoSub
    /\ \/ talk' = look[k] /\ UNCHANGED subFaults
       \/ SubFault /\ UNCHANGED talk
    /\ look' = [look EXCEPT ![k] = NoSub]
    /\ UNCHANGED <<stored, pageList, fetch, patch, drawer, subHistory, acts>>

----------------------------------------------------------------------------
SubsNext ==
    \/ \E f \in Tags \cup {Every} : SetFilter(f)
    \/ \E k \in Fetches :
          \/ Debounced(k) \/ FindAll(k) \/ SetSubscribers(k) \/ FetchSubscribersFails(k)
          \/ UpdateTags(k) \/ TagsNotStored(k) \/ SetHistory(k)
          \/ \E r \in table : OpenProfile(k, r)
          \/ \E r \in table, t \in Tags : EditTag(k, r, t)
          \/ \E t \in Tags : EditTagInDrawer(k, t)
          \/ \E j \in Fetches : TagsStored(k, j)
    \/ \E c \in Subs, t \in Tags : TagElsewhere(c, t)
    \/ CloseProfile

SubsSpec == SubsInit /\ [][SubsNext]_subVars

----------------------------------------------------------------------------
SubRows == [id : Subs, tags : SUBSET Tags]
SubsTypeOK ==
    /\ stored \in [Subs -> SUBSET Tags] /\ table \subseteq SubRows
    /\ {filter, tabled, ask.filter} \subseteq Tags \cup {Every}
    /\ {timer, spinning, astray, swapped} \subseteq BOOLEAN
    /\ \A k \in Fetches : fetch[k].table \subseteq SubRows /\ patch[k].tags \subseteq Tags
    /\ look \in [Fetches -> Subs \cup {NoSub}] /\ talk \in Subs \cup {NoSub}
    /\ stale \subseteq Subs /\ acts \in 0..MaxActs /\ subFaults \in 0..MaxSubFaults

\* Once nothing is under way the list is the one the page's filters ask for, and shows the tags that are stored,
\* unless answers may have crossed, an edit asked with the filters of an older render, or others wrote since.
SubscribersListed ==
    SettledPage /\ ask.alone =>
        /\ tabled = ask.filter /\ (ask.filter = filter \/ astray)
        /\ \A r \in table : r.id \in stale \/ r.tags = stored[r.id]
        /\ \A c \in Subs \ stale : tabled = Every \/ tabled \in stored[c] => \E r \in table : r.id = c

\* The conversation in the drawer is that of the customer named above it, unless an answer for another one was
\* still on its way when it was opened.
DrawerOfOne == drawer.open /\ ~swapped => talk \in {NoSub, drawer.id}

\* An edit of tags removes the tag it was about and no other, unless it began from a row that was not up to date
\* or that others wrote meanwhile.
TagsKept ==
    [][\A k \in Fetches : patch[k].pc = "sent" /\ patch'[k].pc = "stored" /\ ~patch[k].hasty =>
          stored[patch[k].id] \ stored'[patch[k].id] \subseteq patch[k].cut]_subVars
=============================================================================

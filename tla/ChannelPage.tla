----------------------------- MODULE ChannelPage -----------------------------
(* The channels page of one user (channels/page.tsx): the list of connected  *)
(* channels, the check and the repair of a page's webhook, the dialogs that  *)
(* connect a bot or a number and disconnect a channel, the way to Facebook   *)
(* and back; and what Meta and Telegram hold.  How a callback writes its     *)
(* pages one by one is the subject of Channels.                              *)
EXTENDS Naturals, FiniteSets

CONSTANTS FbPages, Bot, Number, NoCard,
          Asks,                 \* bound: requests of a kind under way together
          MaxTaps,              \* bound: what the user does and what goes wrong, together
          MaxChannelFaults      \* bound: refusals, lost answers, what others do

ASSUME ChannelPageAssumption ==
    /\ Bot # Number /\ {Bot, Number, NoCard} \cap FbPages = {} /\ NoCard \notin {Bot, Number}
    /\ MaxTaps \in Nat /\ MaxChannelFaults \in Nat

Dialogs == {Bot, Number}
Cards == FbPages \cup Dialogs

VARIABLES
    connected, botRow,     \* PlatformConnection rows; the id of the bot's last one
    webhook, botHook,         \* what of a page is subscribed; the row that the bot's webhook names
    cards, waiting,        \* channels, isLoading
    listing,               \* fetchChannels: requests under way
    health, probe,         \* webhookStatus; checks and repairs under way
    target, removal,       \* deleteTarget; the request of handleDeleteChannel
    dialog,                \* tgDialog, waDialog: open, something typed, the request
    banner, away,          \* banner; the browser is at Facebook
    \* history
    sole,                  \* the last request for the list was alone and has come
    foreign,               \* written by others since the list shown was read
    unsure,                \* pages whose probes overlapped, or whose subscription changed
    touched,               \* written since the request that the banner reports
    deaf, taps, channelFaults
platforms == <<connected, botRow, webhook, botHook>>
listVars == <<cards, waiting, listing, sole, foreign>>
hookVars == <<health, probe, unsure>>
dialogVars == <<target, removal, dialog>>
channelPageVars == <<platforms, listVars, hookVars, dialogVars, banner, away, touched, deaf, taps, channelFaults>>

NoWord == [loading |-> FALSE, fixing |-> FALSE, says |-> "nothing"]
NoProbe == [pc |-> "idle", id |-> NoCard, found |-> "nothing"]
NoList == [pc |-> "idle", cards |-> {}, foreign |-> {}]
NoLists == [k \in Asks |-> NoList]
NoTalk == [open |-> FALSE, typed |-> FALSE, pc |-> "idle", row |-> 0]
NoBanner == [kind |-> "none", about |-> {}]

ChannelPageInit ==
    /\ connected \in SUBSET Cards /\ webhook \in [FbPages -> {"none", "full"}]
    /\ botRow = (IF Bot \in connected THEN 1 ELSE 0) /\ botHook = botRow
    /\ cards = {} /\ waiting = TRUE /\ listing = NoLists
    /\ health = [p \in FbPages |-> NoWord] /\ probe = [k \in Asks |-> NoProbe]
    /\ target = NoCard /\ removal = [pc |-> "idle", id |-> NoCard] /\ dialog = [d \in Dialogs |-> NoTalk]
    /\ banner = NoBanner /\ away = FALSE
    /\ sole = TRUE /\ foreign = {} /\ unsure = {} /\ touched = {} /\ deaf = FALSE /\ taps = 0 /\ channelFaults = 0

Tap == taps + channelFaults < MaxTaps /\ taps' = taps + 1
Astray == channelFaults < MaxChannelFaults /\ taps + channelFaults < MaxTaps /\ channelFaults' = channelFaults + 1
Listing == {k \in Asks : listing[k].pc # "idle"}
Probing(p) == {k \in Asks : probe[k].id = p}
Covered == target # NoCard \/ \E d \in Dialogs : dialog[d].open
OnCards == ~waiting /\ ~away /\ ~Covered

----------------------------------------------------------------------------
(* The list.                                                                 *)

FetchChannels(k) ==
    /\ listing[k].pc = "idle"
    /\ listing' = [listing EXCEPT ![k].pc = "asked"]
    /\ waiting' = TRUE /\ sole' = (Listing = {})
    /\ UNCHANGED <<cards, foreign>>

\* The page asks when it is first drawn.
FirstFetch(k) ==
    /\ waiting /\ Listing = {} /\ ~away
    /\ FetchChannels(k)
    /\ UNCHANGED <<platforms, hookVars, dialogVars, banner, away, touched, deaf, taps, channelFaults>>

GetConnections(k) ==
    /\ listing[k].pc = "asked"
    /\ listing' = [listing EXCEPT ![k] = [pc |-> "answered", cards |-> connected, foreign |-> {}]]
    /\ UNCHANGED <<platforms, cards, waiting, sole, foreign, hookVars, dialogVars, banner, away, touched, deaf, taps,
                   channelFaults>>

SetChannels(k) ==
    /\ listing[k].pc = "answered"
    /\ cards' = listing[k].cards /\ foreign' = listing[k].foreign
    /\ waiting' = FALSE
    /\ listing' = [listing EXCEPT ![k] = NoList]
    /\ UNCHANGED <<platforms, sole, hookVars, dialogVars, banner, away, touched, deaf, taps, channelFaults>>

\* The page keeps what it showed.
FetchChannelsFails(k) ==
    /\ listing[k].pc # "idle" /\ Astray
    /\ waiting' = FALSE /\ sole' = FALSE
    /\ listing' = [listing EXCEPT ![k] = NoList]
    /\ UNCHANGED <<platforms, cards, foreign, hookVars, dialogVars, banner, away, touched, deaf, taps>>

\* A row is written while the list is shown or on its way.
Behind(c) ==
    /\ foreign' = foreign \cup {c}
    /\ listing' = [k \in Asks |->
                      IF listing[k].pc = "answered" THEN [listing[k] EXCEPT !.foreign = @ \cup {c}] ELSE listing[k]]
    /\ UNCHANGED <<cards, waiting, sole>>

\* A teammate disconnects a channel.
RemovedElsewhere(c) ==
    /\ c \in connected /\ Astray
    /\ connected' = connected \ {c} /\ touched' = touched \cup {c}
    /\ Behind(c)
    /\ UNCHANGED <<botRow, webhook, botHook, hookVars, dialogVars, banner, away, deaf, taps>>

----------------------------------------------------------------------------
(* The webhook of a page.  The check is disabled while one is shown under    *)
(* way, the repair while a repair is; neither by the other.                  *)

StartProbe(k, p, pc) ==
    /\ Tap /\ OnCards /\ p \in cards /\ probe[k].pc = "idle"
    /\ probe' = [probe EXCEPT ![k] = [pc |-> pc, id |-> p, found |-> "nothing"]]
    /\ unsure' = IF Probing(p) = {} THEN unsure \ {p} ELSE unsure \cup {p}
    /\ UNCHANGED <<platforms, listVars, dialogVars, banner, away, touched, deaf, channelFaults>>

CheckWebhook(k, p) ==
    /\ ~health[p].loading
    /\ health' = [health EXCEPT ![p] = [NoWord EXCEPT !.loading = TRUE]]
    /\ StartProbe(k, p, "check")

\* The button is shown under a report that is not healthy.
FixWebhook(k, p) ==
    /\ health[p].says \notin {"nothing", "full"} /\ ~health[p].fixing /\ ~health[p].loading
    /\ health' = [health EXCEPT ![p].fixing = TRUE]
    /\ StartProbe(k, p, "fix")

SubscribeWebhook(k) ==
    /\ probe[k].pc = "fix" /\ probe[k].id \in connected
    /\ webhook' = [webhook EXCEPT ![probe[k].id] = "full"]
    /\ probe' = [probe EXCEPT ![k].pc = "fixed"]
    /\ UNCHANGED <<connected, botRow, botHook, listVars, health, unsure, dialogVars, banner, away, touched, deaf,
                   taps, channelFaults>>

\* A repair is followed by a check.
Recheck(k) ==
    /\ probe[k].pc = "fixed"
    /\ health' = [health EXCEPT ![probe[k].id] = [NoWord EXCEPT !.loading = TRUE]]
    /\ probe' = [probe EXCEPT ![k].pc = "check"]
    /\ UNCHANGED <<platforms, listVars, unsure, dialogVars, banner, away, touched, deaf, taps, channelFaults>>

GetWebhookStatus(k) ==
    /\ probe[k].pc = "check" /\ probe[k].id \in connected
    /\ probe' = [probe EXCEPT ![k].pc = "answered", ![k].found = webhook[probe[k].id]]
    /\ UNCHANGED <<platforms, listVars, health, unsure, dialogVars, banner, away, touched, deaf, taps, channelFaults>>

\* The last answer to come is shown.
ShowHealth(k, word) ==
    /\ health' = [health EXCEPT ![probe[k].id] = [NoWord EXCEPT !.says = word]]
    /\ probe' = [probe EXCEPT ![k] = NoProbe]
    /\ UNCHANGED <<platforms, listVars, unsure, dialogVars, banner, away, touched, deaf, taps>>

SetWebhookStatus(k) == probe[k].pc = "answered" /\ ShowHealth(k, probe[k].found) /\ UNCHANGED channelFaults

\* No row, no token, Meta's refusal, or no answer.
ProbeFails(k) ==
    /\ probe[k].pc # "idle"
    /\ ShowHealth(k, "error")
    /\ IF probe[k].pc \in {"check", "fix"} /\ probe[k].id \notin connected THEN UNCHANGED channelFaults ELSE Astray

\* Meta changes what of a page is subscribed.
HookChanges(p, w) ==
    /\ webhook[p] # w /\ Astray
    /\ webhook' = [webhook EXCEPT ![p] = w] /\ unsure' = unsure \cup {p}
    /\ UNCHANGED <<connected, botRow, botHook, listVars, health, probe, dialogVars, banner, away, touched, deaf,
                   taps>>

----------------------------------------------------------------------------
(* Disconnecting.                                                            *)

AskDelete(c) ==
    /\ Tap /\ OnCards /\ c \in cards
    /\ target' = c
    /\ UNCHANGED <<platforms, listVars, hookVars, removal, dialog, banner, away, touched, deaf, channelFaults>>

CancelDelete ==
    /\ target # NoCard /\ target' = NoCard
    /\ UNCHANGED <<platforms, listVars, hookVars, removal, dialog, banner, away, touched, deaf, taps, channelFaults>>

ConfirmDelete ==
    /\ target # NoCard /\ removal.pc = "idle"
    /\ removal' = [pc |-> "sent", id |-> target]
    /\ UNCHANGED <<platforms, listVars, hookVars, target, dialog, banner, away, touched, deaf, taps, channelFaults>>

\* The row goes; what Meta or Telegram have subscribed stays.
RemoveConnection ==
    /\ removal.pc = "sent" /\ removal.id \in connected
    /\ connected' = connected \ {removal.id}
    /\ touched' = IF removal.id \in Dialogs /\ dialog[removal.id].pc # "idle" THEN touched \cup {removal.id}
                  ELSE touched \ {removal.id}
    /\ Behind(removal.id)
    /\ removal' = [removal EXCEPT !.pc = "removed"]
    /\ UNCHANGED <<botRow, webhook, botHook, hookVars, target, dialog, banner, away, deaf, taps, channelFaults>>

\* Whatever dialog is open by now is closed.
Deleted(k) ==
    /\ removal.pc = "removed"
    /\ target' = NoCard
    /\ FetchChannels(k)
    /\ banner' = [kind |-> "disconnected", about |-> {removal.id}]
    /\ removal' = [pc |-> "idle", id |-> NoCard]
    /\ UNCHANGED <<platforms, hookVars, dialog, away, touched, deaf, taps, channelFaults>>

\* The dialog stays open.  Only the owner may disconnect.
DeleteFails ==
    /\ removal.pc # "idle"
    /\ banner' = [kind |-> "error", about |-> {removal.id}]
    /\ removal' = [pc |-> "idle", id |-> NoCard]
    /\ IF removal.pc = "sent" /\ removal.id \notin connected THEN UNCHANGED channelFaults ELSE Astray
    /\ UNCHANGED <<platforms, listVars, hookVars, target, dialog, away, touched, deaf, taps>>

----------------------------------------------------------------------------
(* Connecting a bot or a number.  A dialog may be closed while its request   *)
(* is under way, and keeps what was typed until a request succeeds.          *)

OpenDialog(d) ==
    /\ Tap /\ OnCards
    /\ dialog' = [dialog EXCEPT ![d].open = TRUE]
    /\ UNCHANGED <<platforms, listVars, hookVars, target, removal, banner, away, touched, deaf, channelFaults>>

CloseDialog(d) ==
    /\ dialog[d].open
    /\ dialog' = [dialog EXCEPT ![d].open = FALSE]
    /\ UNCHANGED <<platforms, listVars, hookVars, target, removal, banner, away, touched, deaf, taps, channelFaults>>

TypeToken(d) ==
    /\ dialog[d].open /\ ~dialog[d].typed
    /\ dialog' = [dialog EXCEPT ![d].typed = TRUE]
    /\ UNCHANGED <<platforms, listVars, hookVars, target, removal, banner, away, touched, deaf, taps, channelFaults>>

Connect(d) ==
    /\ dialog[d].open /\ dialog[d].typed /\ dialog[d].pc = "idle"
    /\ dialog' = [dialog EXCEPT ![d].pc = "sent"]
    /\ UNCHANGED <<platforms, listVars, hookVars, target, removal, banner, away, touched, deaf, taps, channelFaults>>

\* upsertConnection for a bot, addConnection for a number, which is refused where there is a row.
StoreConnection(d) ==
    /\ dialog[d].pc = "sent" /\ (d = Bot \/ d \notin connected)
    /\ connected' = connected \cup {d}
    /\ botRow' = IF d = Bot /\ d \notin connected THEN botRow + 1 ELSE botRow
    /\ touched' = IF removal.id = d THEN touched \cup {d} ELSE touched \ {d}
    /\ Behind(d)
    /\ dialog' = [dialog EXCEPT ![d].pc = IF d = Bot THEN "stored" ELSE "ready", ![d].row = botRow']
    /\ UNCHANGED <<webhook, botHook, hookVars, target, removal, banner, away, deaf, taps, channelFaults>>

\* setWebhook: a refusal is logged, and the bot is reported as connected.
SetWebhook ==
    /\ dialog[Bot].pc = "stored"
    /\ \/ botHook' = dialog[Bot].row /\ deaf' = FALSE /\ UNCHANGED channelFaults
       \/ Astray /\ deaf' = TRUE /\ UNCHANGED botHook
    /\ dialog' = [dialog EXCEPT ![Bot].pc = "ready"]
    /\ UNCHANGED <<connected, botRow, webhook, listVars, hookVars, target, removal, banner, away, touched, taps>>

\* The dialog is closed and what is typed by now is cleared.
Connected(d, k) ==
    /\ dialog[d].pc = "ready"
    /\ dialog' = [dialog EXCEPT ![d] = NoTalk]
    /\ banner' = [kind |-> "connected", about |-> {d}]
    /\ FetchChannels(k)
    /\ UNCHANGED <<platforms, hookVars, target, removal, away, touched, deaf, taps, channelFaults>>

ConnectFails(d) ==
    /\ dialog[d].pc # "idle"
    /\ IF dialog[d].pc = "sent" /\ d = Number /\ d \in connected THEN UNCHANGED channelFaults ELSE Astray
    /\ dialog' = [dialog EXCEPT ![d].pc = "idle", ![d].row = 0]
    /\ deaf' = (deaf \/ dialog[d].pc = "stored")
    /\ touched' = IF dialog[d].pc = "sent" THEN touched ELSE touched \cup {d}
    /\ banner' = IF d = Number THEN [kind |-> "error", about |-> {d}] ELSE banner
    /\ UNCHANGED <<platforms, listVars, hookVars, target, removal, away, taps>>

----------------------------------------------------------------------------
(* Facebook.  Bound: the user leaves while nothing is under way.             *)

ConnectFacebook ==
    /\ Tap /\ OnCards
    /\ Listing = {} /\ removal.pc = "idle" /\ \A k \in Asks : probe[k].pc = "idle"
    /\ \A d \in Dialogs : dialog[d].pc = "idle"
    /\ away' = TRUE
    /\ UNCHANGED <<platforms, listVars, hookVars, dialogVars, banner, touched, deaf, channelFaults>>

\* The callback stores the pages in `some', subscribes those in `heard', and sends the browser back, to a page that
\* begins anew.  A failure may come after some were stored.
FacebookCallback(some, heard, failed) ==
    /\ away /\ away' = FALSE
    /\ heard \subseteq some /\ IF failed \/ heard # some THEN Astray ELSE UNCHANGED channelFaults
    /\ connected' = connected \cup some
    /\ webhook' = [p \in FbPages |-> IF p \in heard THEN "full" ELSE webhook[p]]
    /\ banner' = IF failed THEN [kind |-> "error", about |-> {}] ELSE [kind |-> "connected", about |-> some]
    /\ touched' = touched \ some
    /\ cards' = {} /\ waiting' = TRUE /\ sole' = TRUE /\ foreign' = {}
    /\ \E k \in Asks : listing' = [NoLists EXCEPT ![k].pc = "asked"]
    /\ health' = [p \in FbPages |-> NoWord] /\ unsure' = {}
    /\ dialog' = [d \in Dialogs |-> NoTalk]
    /\ UNCHANGED <<botRow, botHook, probe, target, removal, deaf, taps>>

----------------------------------------------------------------------------
ChannelPageNext ==
    \/ \E k \in Asks :
          \/ FirstFetch(k) \/ GetConnections(k) \/ SetChannels(k) \/ FetchChannelsFails(k)
          \/ \E p \in FbPages : CheckWebhook(k, p) \/ FixWebhook(k, p)
          \/ SubscribeWebhook(k) \/ Recheck(k) \/ GetWebhookStatus(k) \/ SetWebhookStatus(k) \/ ProbeFails(k)
          \/ Deleted(k) \/ \E d \in Dialogs : Connected(d, k)
    \/ \E c \in Cards : RemovedElsewhere(c) \/ AskDelete(c)
    \/ \E p \in FbPages, w \in {"none", "bare", "full"} : HookChanges(p, w)
    \/ CancelDelete \/ ConfirmDelete \/ RemoveConnection \/ DeleteFails
    \/ \E d \in Dialogs : OpenDialog(d) \/ CloseDialog(d) \/ TypeToken(d) \/ Connect(d)
    \/ \E d \in Dialogs : StoreConnection(d) \/ ConnectFails(d)
    \/ SetWebhook \/ ConnectFacebook
    \/ \E some, heard \in SUBSET FbPages, failed \in BOOLEAN : FacebookCallback(some, heard, failed)

ChannelPageSpec == ChannelPageInit /\ [][ChannelPageNext]_channelPageVars

----------------------------------------------------------------------------
Words == {"nothing", "error", "none", "bare", "full"}
ChannelPageTypeOK ==
    /\ {connected, cards, foreign, touched, banner.about} \subseteq SUBSET Cards /\ unsure \subseteq FbPages
    /\ webhook \in [FbPages -> Words] /\ health \in [FbPages -> [loading: BOOLEAN, fixing: BOOLEAN, says: Words]]
    /\ {target, removal.id} \subseteq Cards \cup {NoCard}
    /\ botHook \in 0..botRow /\ taps \in 0..MaxTaps /\ channelFaults \in 0..MaxChannelFaults

\* Once nothing is under way, the page lists the channels that are connected, unless requests for the list may have
\* crossed, the last one failed, or a row was written since it was read.
ChannelsShown ==
    Listing = {} /\ ~waiting /\ sole /\ removal.pc = "idle" =>
        \A c \in Cards \ foreign : c \in cards <=> c \in connected

\* What a card says of its webhook is what Meta holds, unless a check overlapped another check or a repair, or Meta
\* changed it since.
HealthTrue ==
    \A p \in FbPages \ unsure :
        Probing(p) = {} /\ health[p].says \notin {"nothing", "error"} => health[p].says = webhook[p]

\* The banner reports a connection or a removal that is so, unless something else wrote that channel since.
BannerTrue ==
    \A c \in banner.about \ touched :
        /\ banner.kind = "connected" => c \in connected \/ removal.id = c
        /\ banner.kind = "disconnected" => c \notin connected \/ (c \in Dialogs /\ dialog[c].pc # "idle")

\* The webhook of a connected bot names its row, unless setWebhook failed or is still to come.
BotHeard == Bot \in connected /\ dialog[Bot].pc \notin {"stored"} /\ ~deaf => botHook = botRow
=============================================================================

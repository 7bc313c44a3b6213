------------------------------ MODULE LiveInbox ------------------------------
(* The inbox page of one agent (inbox/page.tsx) with what it talks to: the   *)
(* message rows and sendMessage (inbox.service.ts), and the socket on which  *)
(* every stored message is pushed (realtime.service.ts, realtime.gateway.ts, *)
(* socket.ts).  Messages are numbered as they are created; in the view, 0 is *)
(* the message being sent.  The list of conversations beside it is          *)
(* ConversationList's.                                                       *)
EXTENDS Naturals, Sequences, FiniteSets, Selection

CONSTANTS Chats, NoChat,
          Loads,            \* bound: requests for a chat's messages under way at once
          MaxMessages,      \* bound: messages stored
          MaxInboxFaults    \* bound: failed requests, broken connections, events that are not sent

ASSUME InboxAssumption == NoChat \notin Chats /\ MaxInboxFaults \in Nat

VARIABLES
    \* server
    rows,       \* Message: the chat of each one, in the order of createdAt
    saved,      \* stored, and its event not yet sent: the middleware looks the tenant up first
    active,     \* the connection's isActive
    \* the socket
    wire,       \* events on their way to the page
    linked,
    \* the page
    open,       \* activeChat
    view,       \* messages: what is listed under its name
    loads,      \* fetchMessages: each request under way
    send,       \* handleSendMessage: the one request that isSending allows
    \* history
    overrun,    \* since a chat was selected, its list failed to come, or came before one of another chat
    missed,     \* events that were lost, or came while an older list of the chat was on its way
    strays,     \* answers to a send that came when another chat was open
    inboxFaults
serverVars == <<rows, saved, active>>
pageVars == <<open, view, loads, send, overrun, missed, strays>>
inboxVars == <<serverVars, wire, linked, pageVars, inboxFaults>>

NoLoad == [pc |-> "idle", chat |-> NoChat, list |-> <<>>]
NoSend == [pc |-> "idle", chat |-> NoChat, id |-> 0]

Ids == 1..Len(rows)
Of(c) == {m \in Ids : rows[m] = c}
\* getMessages: the rows of a chat as a list.
Listed(c) == Selected([m \in Ids |-> m], Of(c))
Shown == {view[i] : i \in DOMAIN view}
Without(s, m) == Selected(s, {i \in DOMAIN s : s[i] # m})
AppendNew(s, m) == IF m \in {s[i] : i \in DOMAIN s} THEN s ELSE Append(s, m)

InboxInit ==
    /\ rows = <<>> /\ saved = {} /\ active = TRUE
    /\ wire = <<>> /\ linked = TRUE
    /\ open = NoChat /\ view = <<>> /\ overrun = FALSE
    /\ loads = [l \in Loads |-> NoLoad] /\ send = NoSend
    /\ missed = {} /\ strays = {} /\ inboxFaults = 0

Loading(l) == loads[l].pc # "idle"

Fault == inboxFaults < MaxInboxFaults /\ inboxFaults' = inboxFaults + 1

----------------------------------------------------------------------------
(* Server: Message.create and the middleware around it.                      *)

Create(c) == /\ Len(rows) < MaxMessages
             /\ rows' = Append(rows, c)
             /\ saved' = saved \cup {Len(rows) + 1}

\* A customer writes, a flow or a teammate answers.
StoreOther(c) ==
    /\ Create(c)
    /\ UNCHANGED <<active, wire, linked, pageVars, inboxFaults>>

\* The event reaches the rooms of who is connected now; nothing keeps it for the others.
EmitNewMessage(m) ==
    /\ m \in saved
    /\ saved' = saved \ {m}
    /\ IF linked THEN wire' = Append(wire, m) /\ UNCHANGED missed
                 ELSE missed' = missed \cup {m} /\ UNCHANGED wire
    /\ UNCHANGED <<rows, active, linked, open, view, loads, send, overrun, strays, inboxFaults>>

\* "Realtime broadcast skipped."
SkipEvent(m) ==
    /\ m \in saved /\ Fault
    /\ saved' = saved \ {m}
    /\ missed' = missed \cup {m}
    /\ UNCHANGED <<rows, active, wire, linked, open, view, loads, send, overrun, strays>>

----------------------------------------------------------------------------
(* The socket.                                                               *)

Unlink == /\ linked /\ Fault
          /\ linked' = FALSE /\ wire' = <<>>
          /\ missed' = missed \cup {wire[i] : i \in DOMAIN wire}
          /\ UNCHANGED <<serverVars, open, view, loads, send, overrun, strays>>

\* It joins its room anew, and the page asks for nothing.
Relink == /\ ~linked /\ linked' = TRUE
          /\ UNCHANGED <<serverVars, wire, pageVars, inboxFaults>>

\* onNewMessage: an event of the chat that is open is listed, unless it is already.
OnNewMessage ==
    LET m == Head(wire) IN
    /\ wire # <<>>
    /\ view' = IF rows[m] = open THEN AppendNew(view, m) ELSE view
    /\ missed' = IF \E l \in Loads : /\ loads[l].pc = "answered" /\ loads[l].chat = rows[m]
                                     /\ m \notin {loads[l].list[i] : i \in DOMAIN loads[l].list}
                 THEN missed \cup {m} ELSE missed
    /\ wire' = Tail(wire)
    /\ UNCHANGED <<serverVars, linked, open, loads, send, overrun, strays, inboxFaults>>

----------------------------------------------------------------------------
(* handleSelectChat and fetchMessages.                                       *)

\* What is listed stays until an answer comes.
SelectChat(l, c) ==
    /\ loads[l].pc = "idle"
    /\ open' = c /\ overrun' = FALSE
    /\ loads' = [loads EXCEPT ![l] = [NoLoad EXCEPT !.pc = "asked", !.chat = c]]
    /\ UNCHANGED <<serverVars, wire, linked, view, send, missed, strays, inboxFaults>>

GetMessages(l) ==
    /\ loads[l].pc = "asked"
    /\ loads' = [loads EXCEPT ![l].pc = "answered", ![l].list = Listed(loads[l].chat)]
    /\ UNCHANGED <<serverVars, wire, linked, open, view, send, overrun, missed, strays, inboxFaults>>

\* History: the list of the open chat has come, and one of another chat is still on its way, to replace it.
ListCame(l) ==
    overrun' = IF loads[l].chat = open THEN \E k \in Loads \ {l} : Loading(k) /\ loads[k].chat # open ELSE overrun

\* Seeded fault: a second answer is merged with what is listed.
SetMessagesMerged(l) ==
    /\ loads[l].pc = "answered"
    /\ view' = view \o Selected(loads[l].list, {i \in DOMAIN loads[l].list : loads[l].list[i] \notin Shown})
    /\ ListCame(l)
    /\ loads' = [loads EXCEPT ![l] = NoLoad]
    /\ UNCHANGED <<serverVars, wire, linked, open, send, missed, strays, inboxFaults>>

\* The answer is listed, whichever chat is open.  The PATCH that follows writes nothing to the row.
SetMessages(l) ==
    /\ loads[l].pc = "answered"
    /\ view' = loads[l].list
    /\ ListCame(l)
    /\ loads' = [loads EXCEPT ![l] = NoLoad]
    /\ UNCHANGED <<serverVars, wire, linked, open, send, missed, strays, inboxFaults>>

LoadFails(l) ==
    /\ loads[l].pc # "idle" /\ Fault
    /\ overrun' = (overrun \/ loads[l].chat = open)
    /\ loads' = [loads EXCEPT ![l] = NoLoad]
    /\ UNCHANGED <<serverVars, wire, linked, open, view, send, missed, strays>>

----------------------------------------------------------------------------
(* handleSendMessage and sendMessage.                                        *)

SendMessage ==
    /\ open # NoChat /\ send.pc = "idle"
    /\ view' = Append(view, 0)
    /\ send' = [pc |-> "find", chat |-> open, id |-> 0]
    /\ UNCHANGED <<serverVars, wire, linked, open, loads, overrun, missed, strays, inboxFaults>>

FindConversation ==
    /\ send.pc = "find"
    /\ send' = [send EXCEPT !.pc = IF active THEN "deliver" ELSE "refused"]
    /\ UNCHANGED <<serverVars, wire, linked, open, view, loads, overrun, missed, strays, inboxFaults>>

\* The platform takes it, refuses it, or the token is found to be revoked.
SendPlatform ==
    /\ send.pc = "deliver"
    /\ \/ send' = [send EXCEPT !.pc = "create"] /\ UNCHANGED active
       \/ send' = [send EXCEPT !.pc = "refused"] /\ active' \in {active, FALSE}
    /\ UNCHANGED <<rows, saved, wire, linked, open, view, loads, overrun, missed, strays, inboxFaults>>

CreateOwn ==
    /\ send.pc = "create"
    /\ Create(send.chat)
    /\ send' = [send EXCEPT !.pc = "created", !.id = Len(rows) + 1]
    /\ UNCHANGED <<active, wire, linked, open, view, loads, overrun, missed, strays, inboxFaults>>

\* The create returns when its event was sent.
AnswerSend ==
    /\ send.pc = "created" /\ send.id \notin saved
    /\ send' = [send EXCEPT !.pc = "done"]
    /\ UNCHANGED <<serverVars, wire, linked, open, view, loads, overrun, missed, strays, inboxFaults>>

\* A query fails, or the answer gets lost: the page is told of a failure whatever has been done.
SendFails ==
    /\ send.pc \in {"find", "deliver", "create", "created", "done"} /\ Fault
    /\ send.pc = "created" => send.id \notin saved
    /\ send' = [send EXCEPT !.pc = "refused"]
    /\ UNCHANGED <<serverVars, wire, linked, open, view, loads, overrun, missed, strays>>

\* The answer replaces what was listed for it, in whatever is open by now.
Sent ==
    /\ send.pc = "done"
    /\ view' = AppendNew(Without(view, 0), send.id)
    /\ strays' = IF send.chat = open THEN strays ELSE strays \cup {send.id}
    /\ send' = NoSend
    /\ UNCHANGED <<serverVars, wire, linked, open, loads, overrun, missed, inboxFaults>>

Refuse ==
    /\ send.pc = "refused"
    /\ view' = Without(view, 0)
    /\ send' = NoSend
    /\ UNCHANGED <<serverVars, wire, linked, open, loads, overrun, missed, strays, inboxFaults>>

----------------------------------------------------------------------------
InboxNext ==
    \/ \E c \in Chats : StoreOther(c) \/ \E l \in Loads : SelectChat(l, c)
    \/ \E m \in saved : EmitNewMessage(m) \/ SkipEvent(m)
    \/ Unlink \/ Relink \/ OnNewMessage
    \/ \E l \in Loads : GetMessages(l) \/ SetMessages(l) \/ LoadFails(l)
    \/ SendMessage \/ FindConversation \/ SendPlatform \/ CreateOwn \/ AnswerSend \/ SendFails \/ Sent \/ Refuse

InboxSpec == InboxInit /\ [][InboxNext]_inboxVars

----------------------------------------------------------------------------
InboxTypeOK ==
    /\ rows \in Seq(Chats) /\ saved \subseteq Ids /\ active \in BOOLEAN
    /\ wire \in Seq(Ids) /\ linked \in BOOLEAN
    /\ open \in Chats \cup {NoChat} /\ overrun \in BOOLEAN
    /\ view \in Seq(Ids \cup {0})
    /\ loads \in [Loads -> [pc : {"idle", "asked", "answered"}, chat : Chats \cup {NoChat}, list : Seq(Ids)]]
    /\ send \in [pc : {"idle", "find", "deliver", "create", "created", "done", "refused"},
                 chat : Chats \cup {NoChat}, id : Ids \cup {0}]
    /\ missed \subseteq Ids /\ strays \subseteq Ids /\ inboxFaults \in 0..MaxInboxFaults

\* A message is listed once, whether its event, the answer to its sending or a list of the chat comes first,
\* and "being sent" only while something is (handleSendMessage, onNewMessage).
ListedOnce ==
    /\ \A i, j \in DOMAIN view : view[i] = view[j] => i = j
    /\ 0 \in Shown => send.pc # "idle"

\* When no request for the list of the open chat is under way, all that is listed is its own, but for a message
\* sent from another one; and once nothing is on its way nothing of it is missing, but for events that were lost or
\* overtaken by a list read before them.  One gap is the code's: requests that cross are not told apart, and the
\* list of a chat that was left, coming last, replaces that of the open one for good, as the former list stays when
\* the new one fails to come (fetchMessages, onNewMessage).
Settled == saved = {} /\ wire = <<>> /\ \A l \in Loads : ~Loading(l)
ListedFaithfully ==
    open # NoChat /\ (\A l \in Loads : Loading(l) => loads[l].chat # open) =>
        \/ overrun
        \/ /\ Shown \ {0} \subseteq Of(open) \cup strays
           /\ Settled => Of(open) \subseteq Shown \cup missed
=============================================================================

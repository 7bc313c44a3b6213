--------------------------- MODULE ConversationList ---------------------------
(* The list of conversations of the inbox page (inbox/page.tsx) with its tabs *)
(* and its status filter, the header of the chat that is open, and the        *)
(* conversation rows behind them (inbox.service.ts).  A list is asked for     *)
(* whenever a tab, a filter, an event or a chat just read calls for it, and   *)
(* answers are shown as they come.  The filters by platform and assignee and   *)
(* the search narrow the list as the status does; the search asks anew, too.  *)
EXTENDS Naturals, Sequences, FiniteSets, Selection

CONSTANTS Threads, NoThread,
          Mates, NoMate,    \* who a conversation can be assigned to
          ThreadStatuses,         \* of OPEN, RESOLVED and SNOOZED; a conversation begins OPEN
          PageCalls,        \* bound: requests of the page under way at once
          MaxTurns,         \* bound: messages, replies, changes, people who leave, and what goes wrong
          MaxPageFaults     \* bound: requests that fail, answers and events that are lost

ASSUME ConversationAssumption ==
    /\ NoThread \notin Threads /\ NoMate \notin Mates /\ "OPEN" \in ThreadStatuses
    /\ IsFiniteSet(Threads)

VARIABLES
    \* server
    order,          \* the conversations there are, by lastMessageAt, the latest first
    thread,         \* Conversation: the kinds of its messages, its status and its assignee
    replied,        \* replies stored, and lastMessageAt not yet
    mates,          \* TenantMember
    events,         \* new_message events on their way to the page
    \* page
    tabView, statusFilter,
    conversations,  \* what is listed, in order
    activeChat,     \* the entry of the list that was clicked, as changed since
    listError,      \* errorMsg, which nothing clears
    calls,
    \* history
    listedView,     \* the tab that what is listed was asked for
    listExcused,    \* what of the list was changed elsewhere, lost, or overtaken by an older answer or an older tab's
    chatExcused,    \* what of the open chat's header was, or was set by the answer to a change of another chat
    turns, pageFaults
talkRows == <<order, thread, replied, mates>>
listShown == <<conversations, listError, listedView, listExcused>>
listPicks == <<tabView, statusFilter>>
chatHead == <<activeChat, chatExcused>>
conversationVars == <<talkRows, events, listPicks, listShown, chatHead, calls, turns, pageFaults>>

Views == {"all", "messages", "comments"}
Fields == {"status", "assignee"}
FieldValues(f) == IF f = "status" THEN ThreadStatuses ELSE Mates \cup {NoMate}
NoPageCall == [pc |-> "idle", view |-> "all", list |-> <<>>, id |-> NoThread, field |-> "status", value |-> "OPEN",
           behind |-> {}]
NoChatEntry == [id |-> NoThread, status |-> "OPEN", assignee |-> NoMate]

Turn == turns + pageFaults < MaxTurns /\ turns' = turns + 1
Slip == pageFaults < MaxPageFaults /\ turns + pageFaults < MaxTurns /\ pageFaults' = pageFaults + 1

\* A conversation with comments and messages is under both tabs.
InView(t, v) == v = "all" \/ v \in thread[t].kinds
ThreadEntry(t) == [id |-> t, status |-> thread[t].status, assignee |-> thread[t].assignee]
\* What getConversations returns.
StoredList(v) == LET there == Selected(order, {i \in DOMAIN order : InView(order[i], v)})
             IN  [i \in DOMAIN there |-> ThreadEntry(there[i])]
Foremost(t) == <<t>> \o Selected(order, {i \in DOMAIN order : order[i] # t})

\* The page has been opened, with nothing in the inbox or a message in every conversation.
ListInit ==
    /\ order \in {s \in UNION {[1..n -> Threads] : n \in {0, Cardinality(Threads)}} :
                   \A i, j \in DOMAIN s : s[i] = s[j] => i = j}
    /\ replied = {} /\ mates = Mates /\ events = 0
    /\ thread = [t \in Threads |-> [kinds |-> IF order = <<>> THEN {} ELSE {"messages"},
                                    status |-> "OPEN", assignee |-> NoMate]]
    /\ tabView = "all" /\ statusFilter = "ALL"
    /\ conversations = StoredList("all") /\ listError = FALSE /\ activeChat = NoChatEntry
    /\ calls = [l \in PageCalls |-> NoPageCall]
    /\ listedView = "all" /\ listExcused = {} /\ chatExcused = {}
    /\ turns = 0 /\ pageFaults = 0

\* An answer on its way has missed whatever is written after it was read or saved.
NotedBehind(cs, x) == [l \in PageCalls |-> IF cs[l].pc \in {"answered", "patched"}
                                      THEN [cs[l] EXCEPT !.behind = @ \cup {x}] ELSE cs[l]]
Tab == <<NoThread, "tab">>
Ask(l, v) == calls' = [calls EXCEPT ![l] = [NoPageCall EXCEPT !.pc = "asked", !.view = v]]
Drop(l) == calls' = [calls EXCEPT ![l] = NoPageCall]

----------------------------------------------------------------------------
(* Messages, and the events they cause.                                      *)

\* A customer writes: the conversation is made or brought up, then the message is stored and told of.
Inbound(t, kind) ==
    /\ Turn
    /\ thread' = [thread EXCEPT ![t].kinds = @ \cup {kind}]
    /\ order' = Foremost(t)
    /\ calls' = NotedBehind(calls, <<t, "place">>)
    /\ events' = events + 1
    /\ UNCHANGED <<replied, mates, listPicks, listShown, chatHead, pageFaults>>

\* Somebody answers: the message is told of first, and the conversation brought up after it.
ReplyTo(t, kind) ==
    /\ t \in {order[i] : i \in DOMAIN order} \ replied /\ Turn
    /\ thread' = [thread EXCEPT ![t].kinds = @ \cup {kind}]
    /\ replied' = replied \cup {t}
    /\ calls' = NotedBehind(calls, <<t, "place">>)
    /\ events' = events + 1
    /\ UNCHANGED <<order, mates, listPicks, listShown, chatHead, pageFaults>>

\* A rule, a flow or a campaign answers: the conversation keeps its place.
AutomaticReply(t) ==
    /\ t \in {order[i] : i \in DOMAIN order} /\ Turn
    /\ thread' = [thread EXCEPT ![t].kinds = @ \cup {"messages"}]
    /\ calls' = NotedBehind(calls, <<t, "place">>)
    /\ events' = events + 1
    /\ UNCHANGED <<order, replied, mates, listPicks, listShown, chatHead, pageFaults>>

\* The list that the event called for may have been read by now.
BringUp(t) ==
    /\ t \in replied
    /\ order' = Foremost(t) /\ replied' = replied \ {t}
    /\ calls' = NotedBehind(calls, <<t, "place">>)
    /\ listExcused' = IF events = 0 /\ \A l \in PageCalls : calls[l].pc # "asked"
                      THEN listExcused \cup {<<t, "place">>} ELSE listExcused
    /\ UNCHANGED <<thread, mates, events, listPicks, conversations, listError, listedView, chatHead,
                   turns, pageFaults>>

OnEvent(l) ==
    /\ events > 0 /\ calls[l].pc = "idle"
    /\ events' = events - 1
    /\ Ask(l, tabView)
    /\ UNCHANGED <<talkRows, listPicks, listShown, chatHead, turns, pageFaults>>

LoseEvent ==
    /\ events > 0 /\ Slip
    /\ events' = events - 1
    /\ listExcused' = listExcused \cup Threads \X {"place"}
    /\ UNCHANGED <<talkRows, listPicks, conversations, listError, listedView, chatHead, calls, turns>>

\* A colleague, or the same agent elsewhere, changes a status or an assignee: nobody is told.
ChangeElsewhere(t, f, v) ==
    /\ t \in {order[i] : i \in DOMAIN order} /\ v # thread[t][f] /\ Turn
    /\ thread' = [thread EXCEPT ![t][f] = v]
    /\ calls' = NotedBehind(calls, <<t, f>>)
    /\ listExcused' = listExcused \cup {<<t, f>>}
    /\ chatExcused' = IF activeChat.id = t THEN chatExcused \cup {f} ELSE chatExcused
    /\ UNCHANGED <<order, replied, mates, events, listPicks, conversations, listError, listedView, activeChat,
                   pageFaults>>

\* The page goes on offering him, until it asks for the team again.
LeaveTeam(p) ==
    /\ p \in mates /\ Turn
    /\ mates' = mates \ {p}
    /\ UNCHANGED <<order, thread, replied, events, listPicks, listShown, chatHead, calls, pageFaults>>

----------------------------------------------------------------------------
(* fetchConversations and what calls it.                                     *)

SetView(l, v) ==
    /\ v # tabView /\ calls[l].pc = "idle" /\ Turn
    /\ tabView' = v
    /\ calls' = [m \in PageCalls |->
                   IF m = l THEN [NoPageCall EXCEPT !.pc = "asked", !.view = v]
                   ELSE IF calls[m].pc \in {"reading", "asked", "answered"}
                        THEN [calls[m] EXCEPT !.behind = @ \cup {Tab}] ELSE calls[m]]
    /\ UNCHANGED <<talkRows, events, statusFilter, listShown, chatHead, pageFaults>>

\* Filtering is done by the page, and still it asks anew.
SetFilterStatus(l, s) ==
    /\ s # statusFilter /\ calls[l].pc = "idle" /\ Turn
    /\ statusFilter' = s
    /\ Ask(l, tabView)
    /\ UNCHANGED <<talkRows, events, tabView, listShown, chatHead, pageFaults>>

GetConversations(l) ==
    /\ calls[l].pc = "asked"
    /\ calls' = [calls EXCEPT ![l].pc = "answered", ![l].list = StoredList(calls[l].view)]
    /\ UNCHANGED <<talkRows, events, listPicks, listShown, chatHead, turns, pageFaults>>

SetConversations(l) ==
    /\ calls[l].pc = "answered"
    /\ conversations' = calls[l].list /\ listedView' = calls[l].view
    /\ listExcused' = calls[l].behind
    /\ Drop(l)
    /\ UNCHANGED <<talkRows, events, listPicks, listError, chatHead, turns, pageFaults>>

ListFails(l) ==
    /\ calls[l].pc \in {"asked", "answered"} /\ Slip
    /\ listError' = TRUE
    /\ Drop(l)
    /\ UNCHANGED <<talkRows, events, listPicks, conversations, listedView, listExcused, chatHead, turns>>

----------------------------------------------------------------------------
(* The chat that is open.                                                    *)

OfferedThreads == {i \in DOMAIN conversations : ~listError /\ statusFilter \in {"ALL", conversations[i].status}}

\* The entry is kept as it was listed; its messages are asked for, then marked as read.
SelectThread(l, i) ==
    /\ i \in OfferedThreads /\ calls[l].pc = "idle" /\ Turn
    /\ activeChat' = conversations[i]
    /\ chatExcused' = {f \in Fields : <<conversations[i].id, f>> \in listExcused}
    /\ calls' = [calls EXCEPT ![l] = [NoPageCall EXCEPT !.pc = "reading", !.view = tabView]]
    /\ UNCHANGED <<talkRows, events, listPicks, listShown, pageFaults>>

\* The PATCH without a body writes nothing, and the list is asked for as of the click.
MarkRead(l) ==
    /\ calls[l].pc = "reading"
    /\ calls' = [calls EXCEPT ![l].pc = "asked"]
    /\ UNCHANGED <<talkRows, events, listPicks, listShown, chatHead, turns, pageFaults>>

ReadFails(l) ==
    /\ calls[l].pc = "reading" /\ Slip
    /\ Drop(l)
    /\ UNCHANGED <<talkRows, events, listPicks, listShown, chatHead, turns>>

PressButton(l, f, v) ==
    /\ activeChat.id # NoThread /\ calls[l].pc = "idle" /\ Turn
    /\ calls' = [calls EXCEPT ![l] = [NoPageCall EXCEPT !.pc = "patching", !.id = activeChat.id,
                                                     !.field = f, !.value = v]]
    /\ UNCHANGED <<talkRows, events, listPicks, listShown, chatHead, pageFaults>>

UpdateStatus(l, v) == PressButton(l, "status", v)
AssignConversation(l, p) == PressButton(l, "assignee", p)

SaveField(l) ==
    LET c == calls[l] IN
    /\ thread' = [thread EXCEPT ![c.id][c.field] = c.value]
    /\ calls' = [NotedBehind(calls, <<c.id, c.field>>) EXCEPT ![l].pc = "patched"]
    /\ UNCHANGED <<order, replied, mates, events, listPicks, listShown, chatHead, turns, pageFaults>>

\* updateReadStatus
SaveStatus(l) == calls[l].pc = "patching" /\ calls[l].field = "status" /\ SaveField(l)

\* assignConversation
SaveAssignee(l) ==
    /\ calls[l].pc = "patching" /\ calls[l].field = "assignee"
    /\ calls[l].value \in mates \cup {NoMate}
    /\ SaveField(l)

\* Somebody who is not of the team; the page only says so.
RefuseChange(l) ==
    /\ calls[l].pc = "patching" /\ calls[l].field = "assignee" /\ calls[l].value \notin mates \cup {NoMate}
    /\ Drop(l)
    /\ UNCHANGED <<talkRows, events, listPicks, listShown, chatHead, turns, pageFaults>>

\* The answer changes its own entry of the list, and whichever chat is open.
TellChange(l) ==
    LET c == calls[l]
        late == <<c.id, c.field>> \in c.behind IN
    /\ c.pc = "patched"
    /\ activeChat' = [activeChat EXCEPT ![c.field] = c.value]
    /\ conversations' = [i \in DOMAIN conversations |->
                           IF conversations[i].id = c.id THEN [conversations[i] EXCEPT ![c.field] = c.value]
                                                             ELSE conversations[i]]
    /\ listExcused' = IF late THEN listExcused \cup {<<c.id, c.field>>} ELSE listExcused \ {<<c.id, c.field>>}
    /\ chatExcused' = IF c.id = activeChat.id /\ ~late THEN chatExcused \ {c.field}
                                                           ELSE chatExcused \cup {c.field}
    /\ Drop(l)
    /\ UNCHANGED <<talkRows, events, listPicks, listError, listedView, turns, pageFaults>>

\* It fails, or its answer is lost after it was saved.
ChangeFails(l) ==
    LET c == calls[l] IN
    /\ c.pc \in {"patching", "patched"} /\ Slip
    /\ listExcused' = IF c.pc = "patched" THEN listExcused \cup {<<c.id, c.field>>} ELSE listExcused
    /\ chatExcused' = IF c.pc = "patched" /\ c.id = activeChat.id THEN chatExcused \cup {c.field}
                                                                    ELSE chatExcused
    /\ Drop(l)
    /\ UNCHANGED <<talkRows, events, listPicks, conversations, listError, listedView, activeChat, turns>>

----------------------------------------------------------------------------
ListNext ==
    \/ \E t \in Threads :
         \/ \E kind \in Views \ {"all"} : Inbound(t, kind) \/ ReplyTo(t, kind)
         \/ AutomaticReply(t) \/ BringUp(t)
         \/ \E f \in Fields : \E v \in FieldValues(f) : ChangeElsewhere(t, f, v)
    \/ LoseEvent
    \/ \E p \in Mates : LeaveTeam(p)
    \/ \E l \in PageCalls :
         \/ OnEvent(l) \/ GetConversations(l) \/ SetConversations(l) \/ ListFails(l)
         \/ \E v \in Views : SetView(l, v)
         \/ \E s \in ThreadStatuses \cup {"ALL"} : SetFilterStatus(l, s)
         \/ \E i \in DOMAIN conversations : SelectThread(l, i)
         \/ MarkRead(l) \/ ReadFails(l)
         \/ \E v \in ThreadStatuses : UpdateStatus(l, v)
         \/ \E p \in Mates \cup {NoMate} : AssignConversation(l, p)
         \/ SaveStatus(l) \/ SaveAssignee(l) \/ RefuseChange(l) \/ TellChange(l) \/ ChangeFails(l)

ListSpec == ListInit /\ [][ListNext]_conversationVars

----------------------------------------------------------------------------
ListEntries == [id : Threads \cup {NoThread}, status : ThreadStatuses, assignee : Mates \cup {NoMate}]
\* The fields of the page and of its requests (the useStates of InboxPage).
ListTypeOK ==
    /\ order \in Seq(Threads) /\ replied \subseteq Threads /\ mates \subseteq Mates /\ events \in Nat
    /\ thread \in [Threads -> [kinds : SUBSET (Views \ {"all"}), status : ThreadStatuses,
                              assignee : Mates \cup {NoMate}]]
    /\ tabView \in Views /\ listedView \in Views /\ statusFilter \in ThreadStatuses \cup {"ALL"}
    /\ conversations \in Seq(ListEntries) /\ activeChat \in ListEntries /\ listError \in BOOLEAN
    /\ \A l \in PageCalls : calls[l].pc \in {"idle", "reading", "asked", "answered", "patching", "patched"}
    /\ listExcused \subseteq (Threads \X (Fields \cup {"place"})) \cup {Tab} /\ chatExcused \subseteq Fields

\* Once nothing is on its way, the list is that of the tab but for one that was asked for before the tab was chosen,
\* and says of every conversation what is stored, in the order of their last messages, but for what was changed
\* elsewhere, lost, or overtaken by an older answer (fetchConversations, handleUpdateStatus,
\* handleAssignConversation; "so ordering and unread badges stay accurate").
AtRest == events = 0 /\ replied = {} /\ \A l \in PageCalls : calls[l].pc = "idle"
ListedThreads == {conversations[i].id : i \in DOMAIN conversations}
ConversationsListed ==
    AtRest /\ ~listError =>
        /\ Tab \notin listExcused => listedView = tabView
        /\ \A t \in Threads : <<t, "place">> \notin listExcused =>
             (t \in ListedThreads <=> t \in {StoredList(listedView)[i].id : i \in DOMAIN StoredList(listedView)})
        /\ \A i, j \in DOMAIN conversations :
             /\ i < j
             /\ \A k \in {i, j} : <<conversations[k].id, "place">> \notin listExcused
             => \E m, n \in DOMAIN order : /\ m < n /\ order[m] = conversations[i].id
                                           /\ order[n] = conversations[j].id
        /\ \A i \in DOMAIN conversations, f \in Fields :
             <<conversations[i].id, f>> \notin listExcused => conversations[i][f] = thread[conversations[i].id][f]

\* The header of the open chat says what is stored of it once nothing is on its way, but for what was changed
\* elsewhere or lost since it was clicked, and for the answer to a change of another chat that came when this one
\* was open (handleSelectChat, handleUpdateStatus, handleAssignConversation).
HeaderTrue ==
    AtRest /\ activeChat.id # NoThread =>
        \A f \in Fields \ chatExcused : activeChat[f] = thread[activeChat.id][f]
=============================================================================

------------------------------- MODULE Ingest -------------------------------
(* What arrives at the webhook endpoint and is not Meta's page or Instagram  *)
(* traffic: the ledger of request ids (webhooks.controller.ts), WhatsApp     *)
(* posts with their messages and status updates, and Telegram updates        *)
(* (webhooks.service.ts).  Hooks are concurrent requests; an action is the   *)
(* code between two awaits.  What a started flow does is FlowEngine's part.  *)
EXTENDS Naturals, Sequences, FiniteSets

CONSTANTS Hooks,          \* concurrent requests of Meta and Telegram
          Posts,          \* what may be posted
          Whatsapp,       \* the posts of WhatsApp; the others are Telegram updates
          NoPost,
          RequestId,      \* [Posts -> BOOLEAN]: posted with an x-request-id, the same whenever it is repeated
          Items,          \* messages, status updates, service messages
          Bare,           \* those of which only the id is kept: status updates, Telegram's service messages
          Content,        \* [Posts -> Seq(Items)]
          Sender,         \* [Items -> Customers]
          Customers,
          MaxSubscribers, \* the plan's limit on contacts
          MaxPosts,       \* bound: how often posts arrive
          MaxIngestFaults \* bound: database errors

VARIABLES
    \* tables
    requests,     \* WebhookDeduplication: request ids
    ledger,       \* WebhookDeduplication: ids of messages and statuses
    contacts,     \* Subscriber rows of each customer
    threads,      \* customers with a Conversation
    inbox,        \* Message rows of each item
    hook,         \* the state of each request handler
    \* history and environment
    arrivals, answered, ingestFaults,
    channels,     \* PlatformConnection: the tenant's channels, one of each platform
    heard,        \* items that first arrived when their customer had a conversation on a connected channel
    welcomes      \* NEW_SUBSCRIBER flows started for each customer

tables == <<requests, ledger, contacts, threads, inbox>>
world == <<arrivals, answered, channels, ingestFaults, heard>>
ingestVars == <<tables, hook, world, welcomes>>

Platforms == {"WHATSAPP", "TELEGRAM"}
Platform(p) == IF p \in Whatsapp THEN "WHATSAPP" ELSE "TELEGRAM"
ItemsOf(p) == {Content[p][i] : i \in 1..Len(Content[p])}
\* subscriber.count
ContactRows == UNION {{c} \X (1..contacts[c]) : c \in Customers}
Total == Cardinality(ContactRows)
\* Bound: how often anything was posted.
Deliveries == UNION {{p} \X (1..arrivals[p]) : p \in Posts}

\* A Telegram message's id in the ledger names its connection: no item is of both platforms.
ASSUME IngestAssumption ==
    /\ Whatsapp \subseteq Posts /\ NoPost \notin Posts /\ RequestId \in [Posts -> BOOLEAN]
    /\ Bare \subseteq Items /\ Content \in [Posts -> Seq(Items)] /\ Sender \in [Items -> Customers]
    /\ MaxPosts \in Nat /\ MaxIngestFaults \in Nat /\ MaxSubscribers \in Nat
    /\ IsFiniteSet(Hooks) /\ IsFiniteSet(Customers) /\ IsFiniteSet(Posts)
    /\ \A p \in Whatsapp, q \in Posts \ Whatsapp : ItemsOf(p) \cap ItemsOf(q) = {}

Arrived(i) == \E p \in Posts : i \in ItemsOf(p) /\ arrivals[p] > 0

Free == [pc |-> "idle", post |-> NoPost, todo |-> <<>>, new |-> FALSE]

IngestInit ==
    /\ requests = {} /\ ledger = {} /\ threads = {} /\ heard = {} /\ answered = {}
    /\ contacts = [c \in Customers |-> 0]
    /\ welcomes = [c \in Customers |-> 0]
    /\ inbox = [i \in Items |-> 0]
    /\ hook = [h \in Hooks |-> Free]
    /\ arrivals = [p \in Posts |-> 0]
    /\ channels = Platforms /\ ingestFaults = 0

Doing(h, label) == hook[h].pc = label
Continue(h, label) == hook' = [hook EXCEPT ![h].pc = label]
Item(h) == Head(hook[h].todo)
Customer(h) == Sender[Item(h)]
\* The item is done with, recorded or not.
DropItem(h) == hook' = [hook EXCEPT ![h].pc = "next", ![h].todo = Tail(@), ![h].new = FALSE]

----------------------------------------------------------------------------
(* The endpoint                                                              *)

\* A post with an authentic signature arrives, possibly again; Telegram's carry no request id.
Arrive(h, p) ==
    /\ Doing(h, "idle")
    /\ Cardinality(Deliveries) < MaxPosts
    /\ arrivals' = [arrivals EXCEPT ![p] = @ + 1]
    /\ hook' = [hook EXCEPT ![h] = [Free EXCEPT !.pc = IF p \in Whatsapp /\ RequestId[p] THEN "request" ELSE "next",
                                                 !.post = p, !.todo = Content[p]]]
    /\ heard' = heard \cup {i \in ItemsOf(p) \ Bare :
                              Platform(p) \in channels /\ Sender[i] \in threads /\ ~Arrived(i)}
    /\ UNCHANGED <<tables, answered, channels, ingestFaults, welcomes>>

\* 200, after which nobody posts it again for want of an answer.
Answer(h) == /\ answered' = answered \cup {hook[h].post}
             /\ hook' = [hook EXCEPT ![h] = Free]

FindRequest(h) ==
    /\ Doing(h, "request")
    /\ IF hook[h].post \in requests THEN Answer(h) ELSE Continue(h, "record request") /\ UNCHANGED answered
    /\ UNCHANGED <<tables, arrivals, channels, ingestFaults, heard, welcomes>>

\* The create is outside any try: a row made meanwhile ends the request with 500.
RecordRequest(h) ==
    /\ Doing(h, "record request")
    /\ IF hook[h].post \in requests
       THEN hook' = [hook EXCEPT ![h] = Free] /\ UNCHANGED requests
       ELSE Continue(h, "next") /\ requests' = requests \cup {hook[h].post}
    /\ UNCHANGED <<ledger, contacts, threads, inbox, world, welcomes>>

NextItem(h) ==
    /\ Doing(h, "next")
    /\ IF hook[h].todo = <<>> THEN Answer(h)
       ELSE /\ Continue(h, IF hook[h].post \in Whatsapp THEN "find" ELSE "connection")
            /\ UNCHANGED answered
    /\ UNCHANGED <<tables, arrivals, channels, ingestFaults, heard, welcomes>>

----------------------------------------------------------------------------
(* One message.  WhatsApp asks the ledger, then looks its connection up;     *)
(* Telegram looks up the connection first.                                   *)

FindConnection(h) ==
    /\ Doing(h, "connection")
    /\ IF Platform(hook[h].post) \notin channels THEN DropItem(h)
       ELSE Continue(h, IF hook[h].post \in Whatsapp THEN "contact" ELSE "find")
    /\ UNCHANGED <<tables, world, welcomes>>

\* Seeded fault: The ledger's key is the sender's, not the message's.
FindMessageOfSender(h) ==
    /\ Doing(h, "find")
    /\ IF Customer(h) \in {Sender[i] : i \in ledger} THEN DropItem(h) ELSE Continue(h, "record")
    /\ UNCHANGED <<tables, world, welcomes>>

FindMessage(h) ==
    /\ Doing(h, "find")
    /\ IF Item(h) \in ledger THEN DropItem(h) ELSE Continue(h, "record")
    /\ UNCHANGED <<tables, world, welcomes>>

\* The unique key makes the loser of two creates skip the item; of a status nothing but its id is kept.
RecordMessage(h) ==
    /\ Doing(h, "record")
    /\ ledger' = ledger \cup {Item(h)}
    /\ IF Item(h) \in ledger \cup Bare THEN DropItem(h)
       ELSE Continue(h, IF hook[h].post \in Whatsapp THEN "connection" ELSE "thread")
    /\ UNCHANGED <<requests, contacts, threads, inbox, world, welcomes>>

AfterContact(h) == IF hook[h].post \in Whatsapp THEN "thread" ELSE "message"

\* "New" is what the first lookup said, whether a row is stored afterwards or not.
FindContact(h) ==
    /\ Doing(h, "contact")
    /\ IF contacts[Customer(h)] > 0 THEN Continue(h, AfterContact(h))
       ELSE hook' = [hook EXCEPT ![h].pc = "count", ![h].new = hook[h].post \in Whatsapp]
    /\ UNCHANGED <<tables, world, welcomes>>

CountContacts(h) ==
    /\ Doing(h, "count")
    /\ Continue(h, IF Total >= MaxSubscribers THEN AfterContact(h) ELSE "create contact")
    /\ UNCHANGED <<tables, world, welcomes>>

CreateContact(h) ==
    /\ Doing(h, "create contact")
    /\ contacts' = [contacts EXCEPT ![Customer(h)] = @ + 1]
    /\ Continue(h, AfterContact(h))
    /\ UNCHANGED <<requests, ledger, threads, inbox, world, welcomes>>

FindThread(h) ==
    /\ Doing(h, "thread")
    /\ Continue(h, IF Customer(h) \in threads THEN "message" ELSE "create thread")
    /\ UNCHANGED <<tables, world, welcomes>>

\* The loser of the unique key throws and its message goes no further.  Telegram stores the contact of a new
\* conversation, and only then.
CreateThread(h) ==
    /\ Doing(h, "create thread")
    /\ threads' = threads \cup {Customer(h)}
    /\ IF Customer(h) \in threads THEN DropItem(h)
       ELSE Continue(h, IF hook[h].post \in Whatsapp THEN "message" ELSE "contact")
    /\ UNCHANGED <<requests, ledger, contacts, inbox, world, welcomes>>

SaveMessage(h) ==
    /\ Doing(h, "message")
    /\ inbox' = [inbox EXCEPT ![Item(h)] = @ + 1]
    /\ Continue(h, "flows")
    /\ UNCHANGED <<requests, ledger, contacts, threads, world, welcomes>>

\* NEW_SUBSCRIBER for a new contact, then MESSAGE; what the flow engine throws is the item's end, too.
StartFlows(h) ==
    /\ Doing(h, "flows")
    /\ welcomes' = [welcomes EXCEPT ![Customer(h)] = @ + IF hook[h].new THEN 1 ELSE 0]
    /\ DropItem(h)
    /\ UNCHANGED <<tables, world>>

----------------------------------------------------------------------------
(* What may go wrong                                                         *)

\* A query throws.  Inside an item the next item follows; the ledger of requests is outside the try.
IngestFail(h) ==
    /\ ingestFaults < MaxIngestFaults
    /\ ~Doing(h, "idle") /\ ~Doing(h, "next")
    /\ IF hook[h].pc \in {"request", "record request"} THEN hook' = [hook EXCEPT ![h] = Free] ELSE DropItem(h)
    /\ ingestFaults' = ingestFaults + 1
    /\ UNCHANGED <<tables, arrivals, answered, channels, heard, welcomes>>

\* The process ends with everything it was doing.
IngestCrash ==
    /\ ingestFaults < MaxIngestFaults
    /\ \E h \in Hooks : ~Doing(h, "idle")
    /\ hook' = [h \in Hooks |-> Free]
    /\ ingestFaults' = ingestFaults + 1
    /\ UNCHANGED <<tables, arrivals, answered, channels, heard, welcomes>>

\* A channel is removed.
DisconnectChannel(ch) ==
    /\ ch \in channels
    /\ channels' = channels \ {ch}
    /\ heard' = {i \in heard : \A p \in Posts : i \in ItemsOf(p) => Platform(p) # ch}
    /\ UNCHANGED <<tables, hook, arrivals, answered, ingestFaults, welcomes>>

HandlePost(h) ==
    \/ FindRequest(h) \/ RecordRequest(h) \/ NextItem(h)
    \/ FindConnection(h) \/ FindMessage(h) \/ RecordMessage(h)
    \/ FindContact(h) \/ CountContacts(h) \/ CreateContact(h)
    \/ FindThread(h) \/ CreateThread(h) \/ SaveMessage(h) \/ StartFlows(h)

IngestNext == \/ \E h \in Hooks : HandlePost(h) \/ IngestFail(h) \/ \E p \in Posts : Arrive(h, p)
              \/ IngestCrash
              \/ \E ch \in Platforms : DisconnectChannel(ch)

IngestSpec == IngestInit /\ [][IngestNext]_ingestVars

----------------------------------------------------------------------------
Labels == {"idle", "request", "record request", "next", "connection", "find", "record", "contact", "count",
           "create contact", "thread", "create thread", "message", "flows"}

IngestTypeOK ==
    /\ requests \subseteq Posts /\ answered \subseteq Posts
    /\ ledger \subseteq Items /\ heard \subseteq Items
    /\ threads \subseteq Customers
    /\ contacts \in [Customers -> Nat] /\ welcomes \in [Customers -> Nat] /\ inbox \in [Items -> Nat]
    /\ hook \in [Hooks -> [pc : Labels, post : Posts \cup {NoPost}, todo : Seq(Items), new : BOOLEAN]]
    /\ arrivals \in [Posts -> 0..MaxPosts]
    /\ channels \subseteq Platforms /\ ingestFaults \in 0..MaxIngestFaults

\* A message is in the inbox once, however often, under however many request ids, and however close together
\* its post arrives (the ledger of processWhatsAppMessage and processTelegramUpdate).
MessageOnce == \A i \in Items : inbox[i] <= 1

\* A customer who has a conversation is heard: every message of his that arrives afterwards is in the inbox
\* when its post has been answered and nobody works on it, unless a query failed or the channel went.  A first
\* message may be lost, when two of them create the conversation (processWhatsAppMessage, processTelegramUpdate).
KnownCustomerHeard ==
    \A p \in Posts, i \in heard :
        \/ ingestFaults > 0 \/ inbox[i] > 0
        \/ i \notin ItemsOf(p) \/ p \notin answered
        \/ \E h \in Hooks : i \in {hook[h].todo[k] : k \in 1..Len(hook[h].todo)}

\* A customer is stored, and while the plan has room welcomed, more than once only by requests that looked for
\* his contact together: at most one for each (Subscriber has no unique key; the lookup is an await earlier).
\* While the plan has room and no query fails, whoever has a conversation is stored, or about to be.
Storing(c) == {h \in Hooks : hook[h].pc \in {"count", "create contact"} /\ Customer(h) = c}
Welcoming(c) == {h \in Hooks : hook[h].new /\ Customer(h) = c}
ContactOnce ==
    \A c \in Customers :
        /\ contacts[c] + Cardinality(Storing(c)) <= Cardinality(Hooks)
        /\ Total < MaxSubscribers /\ ingestFaults = 0
              => /\ welcomes[c] + Cardinality(Welcoming(c)) <= Cardinality(Hooks)
                 /\ c \in threads => \/ contacts[c] > 0
                                    \/ \E h \in Hooks : /\ hook[h].pc \in {"contact", "count", "create contact"}
                                                        /\ Customer(h) = c
=============================================================================

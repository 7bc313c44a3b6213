---------------------------- MODULE Records_proofs ----------------------------
(* What the system records, part by part: messages and customers of the       *)
(* platforms' posts, campaigns and an administrator's letters - and what the  *)
(* campaigns' and the administrators' pages show of it.                       *)
EXTENDS Ingest, CampaignPage, AdminConsole, FiniteSetTheorems, TLAPS

-----------------------------------------------------------------------------
(* Ingest: what becomes of the message of a customer who is known.            *)

Elems(s) == {s[k] : k \in 1..Len(s)}
Hook == [pc : Labels, post : Posts \cup {NoPost}, todo : Seq(Items), new : BOOLEAN]

\* Before the post's items are looked at; and after one was chosen.
Early == {"request", "record request"}
Apart == Early \cup {"idle", "next"}

\* A hook at a post that is past the look for its request id still has its items to do.
Active(n) == n.pc \notin Early \cup {"idle"}

\* The item's id is in the ledger and the item is on its way to the inbox.
Storable(n) ==
    \/ n.pc \in {"contact", "count", "create contact", "thread", "create thread", "message"}
    \/ n.pc = "connection" /\ n.post \in Whatsapp

\* Of one request: it is about a post that arrived; what it has left is of that post; an item that is on its way is
\* in the ledger; a known customer's item creates no conversation; and while no query failed, what is not left to do
\* was in the ledger already or is in it now.
Fit(n) ==
    /\ n.pc # "idle" => n.post \in Posts /\ arrivals[n.post] > 0 /\ Elems(n.todo) \subseteq ItemsOf(n.post)
    /\ n.pc \in Early => n.todo = Content[n.post]
    /\ n.pc \notin Apart => n.todo # <<>>
    /\ Storable(n) \/ n.pc = "flows" => Head(n.todo) \in ledger
    /\ n.pc = "create thread" => Head(n.todo) \notin heard
    /\ ingestFaults = 0 /\ Active(n)
         => \A i \in ItemsOf(n.post) \cap heard : i \in Elems(n.todo) \/ i \in ledger

\* What is known of an item or a post has arrived; a heard item's customer has a conversation, and its channel is
\* there.
Known ==
    /\ \A p \in requests \cup answered : arrivals[p] > 0
    /\ \A i \in ledger : Arrived(i)
    /\ \A i \in heard : /\ i \notin Bare /\ Sender[i] \in threads
                        /\ \A p \in Posts : i \in ItemsOf(p) => Platform(p) \in channels

\* While no query failed, a heard item in the ledger is in the inbox or on its way, and one of a post whose request id
\* was seen, or that was answered, is in the ledger or still to be done.
NotDropped ==
    ingestFaults = 0 =>
      /\ \A i \in heard \cap ledger :
            inbox[i] > 0 \/ \E h \in Hooks : Storable(hook[h]) /\ Item(h) = i
      /\ \A p \in requests \cup answered, i \in heard :
            i \in ItemsOf(p) => i \in ledger \/ \E h \in Hooks : Active(hook[h]) /\ i \in Elems(hook[h].todo)

IngestTyped ==
    /\ requests \subseteq Posts /\ answered \subseteq Posts /\ ledger \subseteq Items /\ heard \subseteq Items
    /\ inbox \in [Items -> Nat] /\ hook \in [Hooks -> Hook] /\ arrivals \in [Posts -> Nat]
    /\ ingestFaults \in Nat

KnownInv == IngestTyped /\ (\A h \in Hooks : Fit(hook[h])) /\ Known /\ NotDropped

LEMMA SeqElems ==
  ASSUME NEW s \in Seq(Items)
  PROVE  /\ Elems(s) \subseteq Items
         /\ s # <<>> => /\ Head(s) \in Elems(s) /\ Head(s) \in Items /\ Tail(s) \in Seq(Items)
                        /\ Elems(Tail(s)) \subseteq Elems(s) /\ Elems(s) \subseteq Elems(Tail(s)) \cup {Head(s)}
         /\ Elems(<<>>) = {}
<1>1. Elems(s) \subseteq Items
  BY DEF Elems
<1>2. Elems(<<>>) = {}
  BY DEF Elems
<1>3. ASSUME s # <<>>
      PROVE  /\ Head(s) \in Elems(s) /\ Head(s) \in Items /\ Tail(s) \in Seq(Items)
             /\ Elems(Tail(s)) \subseteq Elems(s) /\ Elems(s) \subseteq Elems(Tail(s)) \cup {Head(s)}
  <2>1. Len(s) \in Nat /\ Len(s) >= 1 /\ Head(s) = s[1] /\ Tail(s) \in Seq(Items) /\ Len(Tail(s)) = Len(s) - 1
        /\ \A k \in 1..Len(Tail(s)) : Tail(s)[k] = s[k + 1]
    BY <1>3
  <2>2. Head(s) \in Elems(s) /\ Head(s) \in Items
    BY <2>1 DEF Elems
  <2>3. Elems(Tail(s)) \subseteq Elems(s)
    <3>1. ASSUME NEW k \in 1..Len(Tail(s)) PROVE Tail(s)[k] \in Elems(s)
      <4>1. k + 1 \in 1..Len(s) /\ Tail(s)[k] = s[k + 1]
        BY <2>1
      <4>2. QED
        BY <4>1 DEF Elems
    <3>2. QED
      BY <3>1 DEF Elems
  <2>4. Elems(s) \subseteq Elems(Tail(s)) \cup {Head(s)}
    <3>1. ASSUME NEW k \in 1..Len(s), k # 1 PROVE s[k] \in Elems(Tail(s))
      <4>1. k - 1 \in 1..Len(Tail(s)) /\ Tail(s)[k - 1] = s[(k - 1) + 1] /\ (k - 1) + 1 = k
        BY <2>1, <3>1
      <4>2. QED
        BY <4>1 DEF Elems
    <3>2. QED
      BY <2>1, <3>1 DEF Elems
  <2>5. QED
    BY <2>1, <2>2, <2>3, <2>4
<1>4. QED
  BY <1>1, <1>2, <1>3

LEMMA PostElems ==
  ASSUME NEW p \in Posts
  PROVE  Content[p] \in Seq(Items) /\ Elems(Content[p]) = ItemsOf(p) /\ ItemsOf(p) \subseteq Items
BY IngestAssumption, SeqElems DEF Elems, ItemsOf

\* An item is of one platform.
LEMMA OnePlatform ==
  ASSUME NEW p \in Posts, NEW q \in Posts, NEW i, i \in ItemsOf(p), i \in ItemsOf(q)
  PROVE  Platform(p) = Platform(q)
BY IngestAssumption DEF Platform

LEMMA FreeFits == Free \in Hook /\ Fit(Free) /\ ~Storable(Free) /\ ~Active(Free)
<1>1. Free \in Hook
  <2>1. <<>> \in Seq(Items)
    OBVIOUS
  <2>2. QED
    BY <2>1 DEF Free, Hook, Labels
<1>2. Free.pc = "idle"
  BY DEF Free
<1>3. QED
  BY <1>1, <1>2 DEF Fit, Storable, Active, Early, Apart

LEMMA KnownInit == IngestInit => KnownInv
<1> SUFFICES ASSUME IngestInit PROVE KnownInv
  OBVIOUS
<1>1. IngestTyped
  <2>1. hook \in [Hooks -> Hook]
    BY FreeFits DEF IngestInit
  <2>2. QED
    BY <2>1 DEF IngestInit, IngestTyped
<1>2. \A h \in Hooks : Fit(hook[h])
  BY FreeFits DEF IngestInit
<1>3. Known /\ NotDropped
  BY DEF IngestInit, Known, NotDropped
<1>4. QED
  BY <1>1, <1>2, <1>3 DEF KnownInv

\* Only one hook moves.
Only(h) == hook' \in [Hooks -> Hook] /\ \A g \in Hooks \ {h} : hook'[g] = hook[g]

\* A hook's step within a post, or at its begin or end, that keeps what Fit says of the hook, what the item it was at
\* is owed, and what is owed to the posts that it marks as seen or answered.
LEMMA MovesOn ==
  ASSUME KnownInv, NEW h \in Hooks, Only(h), Fit(hook[h])',
         UNCHANGED <<arrivals, channels, heard, ingestFaults>>,
         requests \subseteq requests', answered \subseteq answered',
         requests' \subseteq Posts, answered' \subseteq Posts,
         \A p \in requests' \cup answered' : arrivals[p] > 0,
         ledger \subseteq ledger', ledger' \subseteq Items, \A i \in ledger' \ ledger : Arrived(i),
         threads \subseteq threads',
         inbox' \in [Items -> Nat], \A i \in Items : inbox'[i] >= inbox[i],
         \A i \in heard \cap ledger' : i \notin ledger \/ (Storable(hook[h]) /\ Item(h) = i)
            => inbox'[i] > 0 \/ (Storable(hook[h])' /\ Item(h)' = i) \/ ingestFaults > 0,
         \A i \in heard : Active(hook[h]) /\ i \in Elems(hook[h].todo)
            => i \in ledger' \/ (Active(hook[h])' /\ i \in Elems(hook'[h].todo)) \/ ingestFaults > 0,
         \A p \in (requests' \cup answered') \ (requests \cup answered), i \in heard : i \in ItemsOf(p)
            => i \in ledger' \/ (Active(hook[h])' /\ i \in Elems(hook'[h].todo)) \/ ingestFaults > 0
  PROVE  KnownInv'
<1>1. IngestTyped /\ Known /\ NotDropped /\ \A g \in Hooks : Fit(hook[g])
  BY DEF KnownInv
<1>2. IngestTyped'
  BY <1>1 DEF IngestTyped, Only
<1>3. ASSUME NEW g \in Hooks PROVE Fit(hook[g])'
  <2>1. CASE g = h
    BY <2>1
  <2>2. CASE g # h
    <3>1. hook'[g] = hook[g] /\ Fit(hook[g])
      BY <1>1, <2>2 DEF Only
    <3>2. QED
      BY <3>1 DEF Fit, Storable, Active
  <2>3. QED
    BY <2>1, <2>2
<1>4. Known'
  BY <1>1 DEF Known, Arrived
<1>5. NotDropped'
  <2> SUFFICES ASSUME ingestFaults = 0 PROVE NotDropped'
    BY DEF NotDropped
  <2>1. ASSUME NEW i \in heard, i \in ledger'
        PROVE  inbox'[i] > 0 \/ \E g \in Hooks : Storable(hook[g])' /\ Item(g)' = i
    <3>1. CASE i \notin ledger \/ (Storable(hook[h]) /\ Item(h) = i)
      BY <2>1, <3>1
    <3>2. CASE i \in ledger /\ ~(Storable(hook[h]) /\ Item(h) = i)
      <4>1. inbox[i] > 0 \/ \E g \in Hooks : Storable(hook[g]) /\ Item(g) = i
        BY <1>1, <3>2 DEF NotDropped
      <4>2. CASE inbox[i] > 0
        <5>1. i \in Items /\ inbox[i] \in Nat /\ inbox'[i] \in Nat /\ inbox'[i] >= inbox[i]
          BY <1>1, <2>1 DEF IngestTyped
        <5>2. QED
          BY <4>2, <5>1
      <4>3. ASSUME NEW g \in Hooks, Storable(hook[g]), Item(g) = i
            PROVE  Storable(hook[g])' /\ Item(g)' = i
        <5>1. hook'[g] = hook[g]
          BY <3>2, <4>3 DEF Only
        <5>2. QED
          BY <4>3, <5>1 DEF Storable, Item
      <4>4. QED
        BY <4>1, <4>2, <4>3
    <3>3. QED
      BY <3>1, <3>2
  <2>2. ASSUME NEW p \in requests' \cup answered', NEW i \in heard, i \in ItemsOf(p)
        PROVE  i \in ledger' \/ \E g \in Hooks : Active(hook[g])' /\ i \in Elems(hook'[g].todo)
    <3>1. CASE p \notin requests \cup answered
      BY <2>2, <3>1, <1>1 DEF IngestTyped
    <3>2. CASE p \in requests \cup answered
      <4>1. i \in ledger \/ \E g \in Hooks : Active(hook[g]) /\ i \in Elems(hook[g].todo)
        BY <1>1, <2>2, <3>2 DEF NotDropped
      <4>2. ASSUME NEW g \in Hooks, Active(hook[g]), i \in Elems(hook[g].todo)
            PROVE  i \in ledger' \/ (Active(hook[g])' /\ i \in Elems(hook'[g].todo))
        <5>1. CASE g = h
          BY <4>2, <5>1
        <5>2. CASE g # h
          <6>1. hook'[g] = hook[g]
            BY <5>2 DEF Only
          <6>2. QED
            BY <4>2, <6>1 DEF Active
        <5>3. QED
          BY <5>1, <5>2
      <4>3. QED
        BY <4>1, <4>2
    <3>3. QED
      BY <3>1, <3>2
  <2>3. QED
    BY <2>1, <2>2 DEF NotDropped
<1>6. QED
  BY <1>2, <1>3, <1>4, <1>5 DEF KnownInv

\* What is known of a hook that is at an item.
LEMMA AtItem ==
  ASSUME KnownInv, NEW h \in Hooks, hook[h].pc \notin Apart
  PROVE  /\ hook[h] \in Hook /\ hook[h].todo \in Seq(Items) /\ hook[h].todo # <<>>
         /\ hook[h].post \in Posts /\ arrivals[hook[h].post] > 0
         /\ Item(h) \in Items /\ Item(h) \in Elems(hook[h].todo) /\ Item(h) \in ItemsOf(hook[h].post)
         /\ Active(hook[h]) /\ Arrived(Item(h))
         /\ Elems(hook[h].todo) \subseteq ItemsOf(hook[h].post)
<1>1. hook[h] \in Hook /\ hook[h].todo \in Seq(Items) /\ Fit(hook[h])
  BY DEF KnownInv, IngestTyped, Hook
<1>2. hook[h].pc # "idle" /\ hook[h].pc \notin Early
  BY DEF Apart
<1>3. hook[h].todo # <<>> /\ hook[h].post \in Posts /\ arrivals[hook[h].post] > 0
      /\ Elems(hook[h].todo) \subseteq ItemsOf(hook[h].post)
  BY <1>1, <1>2 DEF Fit
<1>4. Item(h) \in Items /\ Item(h) \in Elems(hook[h].todo)
  BY <1>1, <1>3, SeqElems DEF Item
<1>5. QED
  BY <1>1, <1>2, <1>3, <1>4 DEF Active, Arrived

LEMMA Contained ==
  ASSUME KnownInv, NEW h \in Hooks, NEW n \in Hook, hook' = [hook EXCEPT ![h] = n]
  PROVE  Only(h) /\ hook'[h] = n
BY DEF KnownInv, IngestTyped, Only

\* The item goes on, recorded now or before.
LEMMA GoesForward ==
  ASSUME KnownInv, NEW h \in Hooks, hook[h].pc \notin Apart, Only(h),
         hook'[h].pc \notin Apart, hook'[h].post = hook[h].post, hook'[h].todo = hook[h].todo,
         UNCHANGED <<requests, answered, arrivals, channels, heard, ingestFaults>>,
         ledger' = ledger \/ ledger' = ledger \cup {Item(h)}, threads \subseteq threads',
         inbox' \in [Items -> Nat], \A i \in Items : inbox'[i] >= inbox[i],
         Storable(hook[h])' \/ hook'[h].pc = "flows" => Item(h) \in ledger',
         hook'[h].pc = "create thread" => Item(h) \notin heard,
         Storable(hook[h]) \/ Item(h) \notin ledger
            => Item(h) \notin ledger' \/ Storable(hook[h])' \/ inbox'[Item(h)] > 0
  PROVE  KnownInv'
<1>1. /\ hook[h] \in Hook /\ hook[h].todo # <<>> /\ hook[h].post \in Posts /\ arrivals[hook[h].post] > 0
      /\ Item(h) \in Items /\ Active(hook[h]) /\ Arrived(Item(h))
      /\ Elems(hook[h].todo) \subseteq ItemsOf(hook[h].post)
  BY AtItem
<1>2. /\ IngestTyped /\ Known /\ Fit(hook[h])
  BY DEF KnownInv
<1>3. Item(h)' = Item(h) /\ Active(hook[h])' /\ hook'[h].pc \notin Early /\ hook'[h].pc # "idle"
  BY DEF Item, Active, Apart
<1>4. ledger \subseteq ledger' /\ ledger' \subseteq Items /\ \A i \in ledger' \ ledger : Arrived(i)
  BY <1>1, <1>2 DEF IngestTyped
<1>5. Fit(hook[h])'
  <2>1. ingestFaults = 0 => \A i \in ItemsOf(hook[h].post) \cap heard : i \in Elems(hook[h].todo) \/ i \in ledger
    BY <1>1, <1>2 DEF Fit
  <2>2. Storable(hook[h])' \/ hook'[h].pc = "flows" => Head(hook'[h].todo) \in ledger'
    BY DEF Item
  <2>3. hook'[h].pc = "create thread" => Head(hook'[h].todo) \notin heard'
    BY DEF Item
  <2>4. QED
    BY <1>1, <1>3, <1>4, <2>1, <2>2, <2>3 DEF Fit
<1>6. \A p \in requests' \cup answered' : arrivals[p] > 0
  BY <1>2 DEF Known
<1>7. requests' \subseteq Posts /\ answered' \subseteq Posts
  BY <1>2 DEF IngestTyped
<1>8. \A i \in heard \cap ledger' : i \notin ledger \/ (Storable(hook[h]) /\ Item(h) = i)
         => inbox'[i] > 0 \/ (Storable(hook[h])' /\ Item(h)' = i) \/ ingestFaults > 0
  <2> SUFFICES ASSUME NEW i \in heard \cap ledger', i \notin ledger \/ (Storable(hook[h]) /\ Item(h) = i)
               PROVE  inbox'[i] > 0 \/ (Storable(hook[h])' /\ Item(h)' = i)
    OBVIOUS
  <2>1. i = Item(h)
    OBVIOUS
  <2>2. Storable(hook[h])' \/ inbox'[Item(h)] > 0
    BY <2>1
  <2>3. QED
    BY <1>3, <2>1, <2>2
<1>9. \A i \in heard : Active(hook[h]) /\ i \in Elems(hook[h].todo)
         => i \in ledger' \/ (Active(hook[h])' /\ i \in Elems(hook'[h].todo)) \/ ingestFaults > 0
  BY <1>3
<1>10. QED
  BY <1>4, <1>5, <1>6, <1>7, <1>8, <1>9, MovesOn

\* The item is done with.
LEMMA DroppedTo ==
  ASSUME KnownInv, NEW h \in Hooks, hook[h].pc \notin Apart, DropItem(h)
  PROVE  /\ Only(h) /\ hook'[h].pc = "next" /\ hook'[h].post = hook[h].post
         /\ hook'[h].todo = Tail(hook[h].todo) /\ Elems(hook'[h].todo) \subseteq Elems(hook[h].todo)
         /\ Elems(hook[h].todo) \subseteq Elems(hook'[h].todo) \cup {Item(h)}
         /\ ~Storable(hook[h])' /\ Active(hook[h])'
<1> DEFINE n == [hook[h] EXCEPT !.pc = "next", !.todo = Tail(@), !.new = FALSE]
<1>1. hook[h] \in Hook /\ hook[h].todo \in Seq(Items) /\ hook[h].todo # <<>>
  BY AtItem
<1>2. Tail(hook[h].todo) \in Seq(Items) /\ "next" \in Labels
  BY <1>1 DEF Labels
<1>3. n \in Hook /\ n.pc = "next" /\ n.post = hook[h].post /\ n.todo = Tail(hook[h].todo)
  BY <1>1, <1>2 DEF Hook
<1>4. hook' = [hook EXCEPT ![h] = n]
  BY DEF DropItem
<1> HIDE DEF n
<1>5. Only(h) /\ hook'[h] = n
  BY <1>3, <1>4, Contained
<1>6. /\ Elems(Tail(hook[h].todo)) \subseteq Elems(hook[h].todo)
      /\ Elems(hook[h].todo) \subseteq Elems(Tail(hook[h].todo)) \cup {Item(h)}
  BY <1>1, SeqElems DEF Item
<1>7. hook'[h].pc = "next"
  BY <1>3, <1>5
<1>8. ~Storable(hook[h])' /\ Active(hook[h])'
  BY <1>7 DEF Storable, Active, Early
<1>9. QED
  BY <1>3, <1>5, <1>6, <1>8

LEMMA DroppedFits ==
  ASSUME KnownInv, NEW h \in Hooks, hook[h].pc \notin Apart, DropItem(h), UNCHANGED <<arrivals, heard>>,
         ledger \subseteq ledger',
         ingestFaults' = 0 => ingestFaults = 0 /\ (Item(h) \in heard => Item(h) \in ledger')
  PROVE  Fit(hook[h])'
<1>1. /\ hook[h].post \in Posts /\ arrivals[hook[h].post] > 0 /\ Active(hook[h])
      /\ Elems(hook[h].todo) \subseteq ItemsOf(hook[h].post)
  BY AtItem
<1>2. Fit(hook[h])
  BY DEF KnownInv
<1>3. /\ hook'[h].pc = "next" /\ hook'[h].post = hook[h].post
      /\ Elems(hook'[h].todo) \subseteq Elems(hook[h].todo)
      /\ Elems(hook[h].todo) \subseteq Elems(hook'[h].todo) \cup {Item(h)} /\ ~Storable(hook[h])'
  BY DroppedTo
<1>4. ingestFaults' = 0 => \A i \in ItemsOf(hook'[h].post) \cap heard' : i \in Elems(hook'[h].todo) \/ i \in ledger'
  BY <1>1, <1>2, <1>3 DEF Fit
<1>5. QED
  BY <1>1, <1>3, <1>4 DEF Fit, Early, Apart

\* An item that is dropped is nobody's whom we know, or its id was in the ledger before and another has it.
LEMMA Drops ==
  ASSUME KnownInv, NEW h \in Hooks, hook[h].pc \notin Apart, DropItem(h),
         UNCHANGED <<requests, answered, arrivals, channels, heard, ingestFaults, inbox>>,
         ledger' = ledger \/ ledger' = ledger \cup {Item(h)}, threads \subseteq threads',
         Item(h) \in heard => Item(h) \in ledger /\ ~Storable(hook[h])
  PROVE  KnownInv'
<1>1. /\ Item(h) \in Items /\ Arrived(Item(h))
  BY AtItem
<1>2. /\ IngestTyped /\ Known
  BY DEF KnownInv
<1>3. Only(h) /\ Active(hook[h])' /\ Elems(hook[h].todo) \subseteq Elems(hook'[h].todo) \cup {Item(h)}
  BY DroppedTo
<1>4. ledger \subseteq ledger' /\ ledger' \subseteq Items /\ \A i \in ledger' \ ledger : Arrived(i)
  BY <1>1, <1>2 DEF IngestTyped
<1>5. Fit(hook[h])'
  BY <1>4, DroppedFits
<1>6. \A p \in requests' \cup answered' : arrivals[p] > 0
  BY <1>2 DEF Known
<1>7. requests' \subseteq Posts /\ answered' \subseteq Posts
  BY <1>2 DEF IngestTyped
<1>8. inbox' \in [Items -> Nat] /\ \A i \in Items : inbox'[i] >= inbox[i]
  BY <1>2 DEF IngestTyped
<1>9. \A i \in heard \cap ledger' : ~(i \notin ledger \/ (Storable(hook[h]) /\ Item(h) = i))
  OBVIOUS
<1>10. \A i \in heard : Active(hook[h]) /\ i \in Elems(hook[h].todo)
         => i \in ledger' \/ (Active(hook[h])' /\ i \in Elems(hook'[h].todo)) \/ ingestFaults > 0
  BY <1>3, <1>4
<1>11. QED
  BY <1>3, <1>4, <1>5, <1>6, <1>7, <1>8, <1>9, <1>10, MovesOn

LEMMA ContinuedAs ==
  ASSUME KnownInv, NEW h \in Hooks, NEW label \in Labels, Continue(h, label)
  PROVE  Only(h) /\ hook'[h].pc = label /\ hook'[h].post = hook[h].post /\ hook'[h].todo = hook[h].todo
<1> DEFINE n == [hook[h] EXCEPT !.pc = label]
<1>1. hook[h] \in Hook
  BY DEF KnownInv, IngestTyped
<1>2. n \in Hook /\ n.pc = label /\ n.post = hook[h].post /\ n.todo = hook[h].todo
  BY <1>1 DEF Hook
<1>3. hook' = [hook EXCEPT ![h] = n]
  BY DEF Continue
<1> HIDE DEF n
<1>4. QED
  BY <1>2, <1>3, Contained

LEMMA FreedAs ==
  ASSUME KnownInv, NEW h \in Hooks, hook' = [hook EXCEPT ![h] = Free]
  PROVE  Only(h) /\ hook'[h] = Free /\ ~Storable(hook[h])' /\ ~Active(hook[h])' /\ Fit(hook[h])'
<1>1. Only(h) /\ hook'[h] = Free
  BY FreeFits, Contained
<1>2. Free.pc = "idle"
  BY DEF Free
<1>3. QED
  BY <1>1, <1>2 DEF Fit, Storable, Active, Early, Apart

\* The look for the request id, and its record.
LEMMA RequestStep ==
  ASSUME KnownInv, NEW h \in Hooks, FindRequest(h) \/ RecordRequest(h)
  PROVE  KnownInv'
<1>1. IngestTyped /\ Known /\ NotDropped /\ Fit(hook[h])
  BY DEF KnownInv
<1>2. hook[h].pc \in Early /\ hook[h].pc # "idle" /\ ~Active(hook[h]) /\ ~Storable(hook[h])
  BY DEF FindRequest, RecordRequest, Doing, Active, Storable, Early
<1>3. hook[h].post \in Posts /\ arrivals[hook[h].post] > 0 /\ hook[h].todo = Content[hook[h].post]
  BY <1>1, <1>2 DEF Fit
<1>4. UNCHANGED <<ledger, threads, inbox, arrivals, channels, heard, ingestFaults>>
  BY DEF FindRequest, RecordRequest, tables, world
<1>5. /\ ledger \subseteq ledger' /\ ledger' \subseteq Items /\ threads \subseteq threads'
      /\ inbox' \in [Items -> Nat] /\ \A i \in Items : inbox'[i] >= inbox[i]
      /\ \A p \in requests \cup answered : arrivals[p] > 0
  BY <1>1, <1>4 DEF IngestTyped, Known
<1>6. CASE FindRequest(h) /\ hook[h].post \in requests
  <2>1. hook' = [hook EXCEPT ![h] = Free] /\ answered' = answered \cup {hook[h].post} /\ requests' = requests
    BY <1>6 DEF FindRequest, Answer, tables
  <2>2. Only(h) /\ Fit(hook[h])'
    BY <2>1, FreedAs
  <2>3. answered \subseteq answered' /\ requests \subseteq requests' /\ answered' \subseteq Posts
        /\ requests' \subseteq Posts /\ (requests' \cup answered') \ (requests \cup answered) = {}
        /\ \A p \in requests' \cup answered' : arrivals[p] > 0
    BY <1>1, <1>3, <1>5, <1>6, <2>1 DEF IngestTyped
  <2>4. QED
    BY <1>2, <1>4, <1>5, <2>2, <2>3, MovesOn
<1>7. CASE FindRequest(h) /\ hook[h].post \notin requests
  <2>1. Continue(h, "record request") /\ "record request" \in Labels /\ answered' = answered /\ requests' = requests
    BY <1>7 DEF FindRequest, tables, Labels
  <2>2. Only(h) /\ hook'[h].pc = "record request" /\ hook'[h].post = hook[h].post /\ hook'[h].todo = hook[h].todo
    BY <2>1, ContinuedAs
  <2>3. Elems(hook[h].todo) \subseteq ItemsOf(hook[h].post)
    BY <1>3, PostElems
  <2>4. Fit(hook[h])'
    BY <1>3, <1>4, <2>2, <2>3 DEF Fit, Storable, Active, Early, Apart
  <2>5. answered' \subseteq Posts /\ requests' \subseteq Posts
        /\ (requests' \cup answered') \ (requests \cup answered) = {}
    BY <1>1, <2>1 DEF IngestTyped
  <2>6. QED
    BY <1>2, <1>4, <1>5, <2>1, <2>2, <2>4, <2>5, MovesOn
<1>8. CASE RecordRequest(h) /\ hook[h].post \in requests
  <2>1. hook' = [hook EXCEPT ![h] = Free] /\ answered' = answered /\ requests' = requests
    BY <1>8 DEF RecordRequest, world
  <2>2. Only(h) /\ Fit(hook[h])'
    BY <2>1, FreedAs
  <2>3. answered' \subseteq Posts /\ requests' \subseteq Posts
        /\ (requests' \cup answered') \ (requests \cup answered) = {}
    BY <1>1, <2>1 DEF IngestTyped
  <2>4. QED
    BY <1>2, <1>4, <1>5, <2>1, <2>2, <2>3, MovesOn
<1>9. CASE RecordRequest(h) /\ hook[h].post \notin requests
  <2>1. Continue(h, "next") /\ "next" \in Labels /\ answered' = answered
        /\ requests' = requests \cup {hook[h].post}
    BY <1>9 DEF RecordRequest, world, Labels
  <2>2. Only(h) /\ hook'[h].pc = "next" /\ hook'[h].post = hook[h].post /\ hook'[h].todo = hook[h].todo
    BY <2>1, ContinuedAs
  <2>3. Elems(hook'[h].todo) = ItemsOf(hook[h].post) /\ Active(hook[h])'
    BY <1>3, <2>2, PostElems DEF Active, Early
  <2>4. Fit(hook[h])'
    BY <1>3, <1>4, <2>2, <2>3 DEF Fit, Storable, Active, Early, Apart
  <2>5. answered' \subseteq Posts /\ requests' \subseteq Posts /\ requests \subseteq requests'
        /\ (requests' \cup answered') \ (requests \cup answered) \subseteq {hook[h].post}
        /\ \A p \in requests' \cup answered' : arrivals[p] > 0
    BY <1>1, <1>3, <1>5, <2>1 DEF IngestTyped
  <2>6. \A p \in (requests' \cup answered') \ (requests \cup answered), i \in heard : i \in ItemsOf(p)
            => Active(hook[h])' /\ i \in Elems(hook'[h].todo)
    BY <2>3, <2>5
  <2>7. QED
    BY <1>2, <1>4, <1>5, <2>1, <2>2, <2>4, <2>5, <2>6, MovesOn
<1>10. QED
  BY <1>6, <1>7, <1>8, <1>9

LEMMA NextStep ==
  ASSUME KnownInv, NEW h \in Hooks, NextItem(h)
  PROVE  KnownInv'
<1>1. IngestTyped /\ Known /\ Fit(hook[h])
  BY DEF KnownInv
<1>2. hook[h].pc = "next" /\ Active(hook[h]) /\ ~Storable(hook[h])
  BY DEF NextItem, Doing, Active, Storable, Early
<1>3. hook[h].post \in Posts /\ arrivals[hook[h].post] > 0 /\ Elems(hook[h].todo) \subseteq ItemsOf(hook[h].post)
      /\ hook[h].todo \in Seq(Items)
  BY <1>1, <1>2 DEF Fit, IngestTyped, Hook
<1>4. UNCHANGED <<requests, ledger, threads, inbox, arrivals, channels, heard, ingestFaults>>
  BY DEF NextItem, tables
<1>5. /\ ledger \subseteq ledger' /\ ledger' \subseteq Items /\ threads \subseteq threads'
      /\ inbox' \in [Items -> Nat] /\ \A i \in Items : inbox'[i] >= inbox[i]
      /\ \A p \in requests \cup answered : arrivals[p] > 0
  BY <1>1, <1>4 DEF IngestTyped, Known
<1>6. CASE hook[h].todo = <<>>
  <2>1. hook' = [hook EXCEPT ![h] = Free] /\ answered' = answered \cup {hook[h].post}
    BY <1>6 DEF NextItem, Answer
  <2>2. Only(h) /\ Fit(hook[h])'
    BY <2>1, FreedAs
  <2>3. answered \subseteq answered' /\ answered' \subseteq Posts /\ requests' \subseteq Posts
        /\ (requests' \cup answered') \ (requests \cup answered) \subseteq {hook[h].post}
        /\ \A p \in requests' \cup answered' : arrivals[p] > 0
    BY <1>1, <1>3, <1>4, <1>5, <2>1 DEF IngestTyped
  <2>4. Elems(hook[h].todo) = {}
    BY <1>3, <1>6, SeqElems
  <2>5. ingestFaults = 0 => \A i \in ItemsOf(hook[h].post) \cap heard : i \in ledger
    BY <1>1, <1>2, <2>4 DEF Fit
  <2>6. ingestFaults = 0 \/ ingestFaults > 0
    BY <1>1 DEF IngestTyped
  <2>7. \A p \in (requests' \cup answered') \ (requests \cup answered), i \in heard : i \in ItemsOf(p)
            => i \in ledger' \/ ingestFaults > 0
    BY <1>4, <2>3, <2>5, <2>6
  <2>8. QED
    BY <1>2, <1>4, <1>5, <2>2, <2>3, <2>4, <2>7, MovesOn
<1>7. CASE hook[h].todo # <<>>
  <2> DEFINE label == IF hook[h].post \in Whatsapp THEN "find" ELSE "connection"
  <2>1. Continue(h, label) /\ label \in Labels /\ answered' = answered
    BY <1>7 DEF NextItem, Labels
  <2>2. Only(h) /\ hook'[h].pc = label /\ hook'[h].post = hook[h].post /\ hook'[h].todo = hook[h].todo
    BY <2>1, ContinuedAs
  <2>3. ~Storable(hook[h])' /\ Active(hook[h])'
    BY <2>2 DEF Storable, Active, Early
  <2>4. ingestFaults = 0 => \A i \in ItemsOf(hook[h].post) \cap heard : i \in Elems(hook[h].todo) \/ i \in ledger
    BY <1>1, <1>2 DEF Fit
  <2>5. label \in {"find", "connection"}
    OBVIOUS
  <2> HIDE DEF label
  <2>6. Fit(hook[h])'
    BY <1>3, <1>4, <1>7, <2>2, <2>3, <2>4, <2>5 DEF Fit, Early, Apart
  <2>7. answered' \subseteq Posts /\ requests' \subseteq Posts
        /\ (requests' \cup answered') \ (requests \cup answered) = {}
    BY <1>1, <1>4, <2>1 DEF IngestTyped
  <2>8. QED
    BY <1>2, <1>4, <1>5, <2>1, <2>2, <2>3, <2>6, <2>7, MovesOn
<1>8. QED
  BY <1>6, <1>7

\* A heard item's channel is there, and its customer has a conversation.
LEMMA HeardServed ==
  ASSUME KnownInv, NEW h \in Hooks, hook[h].pc \notin Apart, Item(h) \in heard
  PROVE  /\ Item(h) \notin Bare /\ Customer(h) \in threads /\ Platform(hook[h].post) \in channels
         /\ hook[h].pc # "create thread"
<1>1. hook[h].post \in Posts /\ Item(h) \in ItemsOf(hook[h].post)
  BY AtItem
<1>2. Known /\ Fit(hook[h])
  BY DEF KnownInv
<1>3. QED
  BY <1>1, <1>2 DEF Known, Fit, Customer, Item

LEMMA ItemStep ==
  ASSUME KnownInv, NEW h \in Hooks,
         \/ FindConnection(h) \/ FindMessage(h) \/ RecordMessage(h) \/ FindContact(h) \/ CountContacts(h)
         \/ CreateContact(h) \/ FindThread(h) \/ CreateThread(h) \/ SaveMessage(h) \/ StartFlows(h)
  PROVE  KnownInv'
<1>1. IngestTyped /\ Known /\ Fit(hook[h])
  BY DEF KnownInv
<1>2. hook[h].pc \notin Apart
  BY DEF FindConnection, FindMessage, RecordMessage, FindContact, CountContacts, CreateContact, FindThread,
         CreateThread, SaveMessage, StartFlows, Doing, Apart, Early
<1>3. hook[h] \in Hook /\ Item(h) \in Items /\ hook[h].post \in Posts
  BY <1>2, AtItem
<1>4. inbox \in [Items -> Nat] /\ \A i \in Items : inbox[i] >= inbox[i]
  BY <1>1 DEF IngestTyped
<1>5. Storable(hook[h]) \/ hook[h].pc = "flows" => Item(h) \in ledger
  BY <1>1 DEF Fit, Item
<1>6. CASE FindConnection(h)
  <2>1. /\ hook[h].pc = "connection" /\ threads \subseteq threads'
        /\ UNCHANGED <<requests, answered, arrivals, channels, heard, ingestFaults, inbox, ledger>>
    BY <1>6 DEF FindConnection, Doing, tables, world
  <2>2. CASE Platform(hook[h].post) \notin channels
    BY <1>2, <1>6, <2>1, <2>2, HeardServed, Drops DEF FindConnection
  <2>3. CASE Platform(hook[h].post) \in channels
    <3>1. PICK label \in {"contact", "find"} : Continue(h, label) /\ (label = "contact" <=> hook[h].post \in Whatsapp)
      BY <1>6, <2>3 DEF FindConnection
    <3>2. Only(h) /\ hook'[h].pc = label /\ hook'[h].post = hook[h].post /\ hook'[h].todo = hook[h].todo
      BY <3>1, ContinuedAs DEF Labels
    <3>3. (Storable(hook[h])' <=> label = "contact") /\ (Storable(hook[h]) <=> label = "contact")
          /\ hook'[h].pc \notin Apart
      BY <2>1, <3>1, <3>2 DEF Storable, Apart, Early
    <3>4. QED
      BY <1>2, <1>4, <1>5, <2>1, <3>2, <3>3, GoesForward
  <2>4. QED
    BY <2>2, <2>3
<1>7. CASE FindMessage(h)
  <2>1. /\ hook[h].pc = "find" /\ threads \subseteq threads' /\ ~Storable(hook[h])
        /\ UNCHANGED <<requests, answered, arrivals, channels, heard, ingestFaults, inbox, ledger>>
    BY <1>7 DEF FindMessage, Doing, tables, world, Storable
  <2>2. CASE Item(h) \in ledger
    BY <1>2, <1>7, <2>1, <2>2, Drops DEF FindMessage
  <2>3. CASE Item(h) \notin ledger
    <3>1. Continue(h, "record") /\ "record" \in Labels
      BY <1>7, <2>3 DEF FindMessage, Labels
    <3>2. Only(h) /\ hook'[h].pc = "record" /\ hook'[h].post = hook[h].post /\ hook'[h].todo = hook[h].todo
      BY <3>1, ContinuedAs
    <3>3. ~Storable(hook[h])' /\ hook'[h].pc \notin Apart
      BY <3>2 DEF Storable, Apart, Early
    <3>4. QED
      BY <1>2, <1>4, <2>1, <2>3, <3>2, <3>3, GoesForward
  <2>4. QED
    BY <2>2, <2>3
<1>8. CASE RecordMessage(h)
  <2>1. /\ hook[h].pc = "record" /\ threads \subseteq threads' /\ ~Storable(hook[h])
        /\ UNCHANGED <<requests, answered, arrivals, channels, heard, ingestFaults, inbox>>
        /\ ledger' = ledger \cup {Item(h)}
    BY <1>8 DEF RecordMessage, Doing, world, Storable
  <2>2. CASE Item(h) \in ledger \cup Bare
    <3>1. Item(h) \in heard => Item(h) \in ledger
      BY <1>2, <2>2, HeardServed
    <3>2. QED
      BY <1>2, <1>8, <2>1, <2>2, <3>1, Drops DEF RecordMessage
  <2>3. CASE Item(h) \notin ledger \cup Bare
    <3>1. PICK label \in {"connection", "thread"} :
             Continue(h, label) /\ (label = "connection" <=> hook[h].post \in Whatsapp)
      BY <1>8, <2>3 DEF RecordMessage
    <3>2. Only(h) /\ hook'[h].pc = label /\ hook'[h].post = hook[h].post /\ hook'[h].todo = hook[h].todo
      BY <3>1, ContinuedAs DEF Labels
    <3>3. Storable(hook[h])' /\ hook'[h].pc \notin Apart /\ hook'[h].pc # "create thread"
      BY <3>1, <3>2 DEF Storable, Apart, Early
    <3>4. QED
      BY <1>2, <1>4, <2>1, <3>2, <3>3, GoesForward
  <2>4. QED
    BY <2>2, <2>3
<1>9. CASE FindContact(h) \/ CountContacts(h) \/ CreateContact(h)
  <2>1. /\ hook[h].pc \in {"contact", "count", "create contact"} /\ threads \subseteq threads'
        /\ UNCHANGED <<requests, answered, arrivals, channels, heard, ingestFaults, inbox, ledger>>
    BY <1>9 DEF FindContact, CountContacts, CreateContact, Doing, tables, world
  <2>2. \E label \in {"count", "create contact", "thread", "message"} :
           Only(h) /\ hook'[h].pc = label /\ hook'[h].post = hook[h].post /\ hook'[h].todo = hook[h].todo
    <3>1. CASE \E label \in {"create contact", "thread", "message"} : Continue(h, label)
      BY <3>1, ContinuedAs DEF Labels
    <3>2. CASE hook' = [hook EXCEPT ![h].pc = "count", ![h].new = hook[h].post \in Whatsapp]
      <4> DEFINE n == [hook[h] EXCEPT !.pc = "count", !.new = hook[h].post \in Whatsapp]
      <4>1. n \in Hook /\ n.pc = "count" /\ n.post = hook[h].post /\ n.todo = hook[h].todo
        <5>1. "count" \in Labels /\ (hook[h].post \in Whatsapp) \in BOOLEAN
          BY DEF Labels
        <5>2. QED
          BY <1>3, <5>1 DEF Hook
      <4>2. hook' = [hook EXCEPT ![h] = n]
        BY <3>2
      <4> HIDE DEF n
      <4>3. QED
        BY <4>1, <4>2, Contained
    <3>3. CASE FindContact(h)
      <4>1. AfterContact(h) \in {"thread", "message"}
        BY DEF AfterContact
      <4>2. QED
        BY <3>1, <3>2, <3>3, <4>1 DEF FindContact
    <3>4. CASE CountContacts(h) \/ CreateContact(h)
      <4>1. AfterContact(h) \in {"thread", "message"}
        BY DEF AfterContact
      <4>2. QED
        BY <3>1, <3>4, <4>1 DEF CountContacts, CreateContact
    <3>5. QED
      BY <1>9, <3>3, <3>4
  <2>3. Storable(hook[h])' /\ Storable(hook[h]) /\ hook'[h].pc \notin Apart /\ hook'[h].pc # "create thread"
    BY <2>1, <2>2 DEF Storable, Apart, Early
  <2>4. QED
    BY <1>2, <1>4, <1>5, <2>1, <2>2, <2>3, GoesForward
<1>10. CASE FindThread(h)
  <2>1. /\ hook[h].pc = "thread" /\ threads \subseteq threads'
        /\ UNCHANGED <<requests, answered, arrivals, channels, heard, ingestFaults, inbox, ledger>>
    BY <1>10 DEF FindThread, Doing, tables, world
  <2>2. PICK label \in {"message", "create thread"} :
           Continue(h, label) /\ (label = "message" <=> Customer(h) \in threads)
    BY <1>10 DEF FindThread
  <2>3. Only(h) /\ hook'[h].pc = label /\ hook'[h].post = hook[h].post /\ hook'[h].todo = hook[h].todo
    BY <2>2, ContinuedAs DEF Labels
  <2>4. Storable(hook[h])' /\ Storable(hook[h]) /\ hook'[h].pc \notin Apart
    BY <2>1, <2>3 DEF Storable, Apart, Early
  <2>5. hook'[h].pc = "create thread" => Item(h) \notin heard
    BY <1>2, <2>2, <2>3, HeardServed
  <2>6. QED
    BY <1>2, <1>4, <1>5, <2>1, <2>3, <2>4, <2>5, GoesForward
<1>11. CASE CreateThread(h)
  <2>1. /\ hook[h].pc = "create thread" /\ threads \subseteq threads'
        /\ UNCHANGED <<requests, answered, arrivals, channels, heard, ingestFaults, inbox, ledger>>
    BY <1>11 DEF CreateThread, Doing, world
  <2>2. CASE Customer(h) \in threads
    BY <1>2, <1>11, <2>1, <2>2, HeardServed, Drops DEF CreateThread
  <2>3. CASE Customer(h) \notin threads
    <3>1. PICK label \in {"message", "contact"} : Continue(h, label)
      BY <1>11, <2>3 DEF CreateThread
    <3>2. Only(h) /\ hook'[h].pc = label /\ hook'[h].post = hook[h].post /\ hook'[h].todo = hook[h].todo
      BY <3>1, ContinuedAs DEF Labels
    <3>3. Storable(hook[h])' /\ Storable(hook[h]) /\ hook'[h].pc \notin Apart /\ hook'[h].pc # "create thread"
      BY <2>1, <3>2 DEF Storable, Apart, Early
    <3>4. QED
      BY <1>2, <1>4, <1>5, <2>1, <3>2, <3>3, GoesForward
  <2>4. QED
    BY <2>2, <2>3
<1>12. CASE SaveMessage(h)
  <2>1. /\ hook[h].pc = "message" /\ threads \subseteq threads' /\ Storable(hook[h])
        /\ UNCHANGED <<requests, answered, arrivals, channels, heard, ingestFaults, ledger>>
        /\ inbox' = [inbox EXCEPT ![Item(h)] = @ + 1] /\ Continue(h, "flows") /\ "flows" \in Labels
    BY <1>12 DEF SaveMessage, Doing, world, Storable, Labels
  <2>2. Only(h) /\ hook'[h].pc = "flows" /\ hook'[h].post = hook[h].post /\ hook'[h].todo = hook[h].todo
    BY <2>1, ContinuedAs
  <2>3. inbox' \in [Items -> Nat] /\ inbox'[Item(h)] > 0 /\ \A i \in Items : inbox'[i] >= inbox[i]
    BY <1>3, <1>4, <2>1
  <2>4. hook'[h].pc \notin Apart /\ hook'[h].pc # "create thread"
    BY <2>2 DEF Apart, Early
  <2>5. QED
    BY <1>2, <1>5, <2>1, <2>2, <2>3, <2>4, GoesForward
<1>13. CASE StartFlows(h)
  <2>1. /\ hook[h].pc = "flows" /\ threads \subseteq threads' /\ ~Storable(hook[h]) /\ DropItem(h)
        /\ UNCHANGED <<requests, answered, arrivals, channels, heard, ingestFaults, inbox, ledger>>
    BY <1>13 DEF StartFlows, Doing, tables, world, Storable
  <2>2. QED
    BY <1>2, <1>5, <2>1, Drops
<1>14. QED
  BY <1>6, <1>7, <1>8, <1>9, <1>10, <1>11, <1>12, <1>13

LEMMA ArriveStep ==
  ASSUME KnownInv, NEW h \in Hooks, NEW p \in Posts, Arrive(h, p)
  PROVE  KnownInv'
<1> DEFINE pc == IF p \in Whatsapp /\ RequestId[p] THEN "request" ELSE "next"
           n == [Free EXCEPT !.pc = pc, !.post = p, !.todo = Content[p]]
           fresh == {i \in ItemsOf(p) \ Bare : Platform(p) \in channels /\ Sender[i] \in threads /\ ~Arrived(i)}
<1>1. IngestTyped /\ Known /\ NotDropped /\ \A g \in Hooks : Fit(hook[g])
  BY DEF KnownInv
<1>2. /\ UNCHANGED <<requests, ledger, threads, inbox, answered, channels, ingestFaults>>
      /\ arrivals' = [arrivals EXCEPT ![p] = @ + 1] /\ heard' = heard \cup fresh
      /\ hook' = [hook EXCEPT ![h] = n] /\ hook[h].pc = "idle"
  BY DEF Arrive, Doing, tables
<1>3. Content[p] \in Seq(Items) /\ Elems(Content[p]) = ItemsOf(p) /\ ItemsOf(p) \subseteq Items
  BY PostElems
<1>4. n \in Hook /\ n.pc = pc /\ n.post = p /\ n.todo = Content[p] /\ pc \in {"request", "next"}
  <2>1. pc \in Labels /\ pc \in {"request", "next"}
    BY DEF Labels
  <2> HIDE DEF pc
  <2>2. QED
    BY <1>3, <2>1, FreeFits DEF Hook
<1> HIDE DEF pc, n
<1>5. Only(h) /\ hook'[h] = n
  BY <1>2, <1>4, Contained
<1>6. /\ arrivals' \in [Posts -> Nat] /\ arrivals'[p] > 0
      /\ \A q \in Posts : arrivals[q] > 0 => arrivals'[q] > 0
  BY <1>1, <1>2 DEF IngestTyped
<1>7. IngestTyped'
  BY <1>1, <1>2, <1>3, <1>5, <1>6 DEF IngestTyped, Only
<1>8. \A q \in Posts, i \in fresh : i \in ItemsOf(q) => ~(arrivals[q] > 0)
  BY DEF Arrived
<1>9. ASSUME NEW g \in Hooks PROVE Fit(hook[g])'
  <2>1. CASE g = h
    <3>1. hook'[h].pc \in {"request", "next"} /\ hook'[h].post = p /\ hook'[h].todo = Content[p]
      BY <1>4, <1>5
    <3>2. Fit(hook[h])'
      BY <1>3, <1>6, <3>1 DEF Fit, Storable, Active, Early, Apart
    <3>3. QED
      BY <2>1, <3>2
  <2>2. CASE g # h
    <3>1. hook'[g] = hook[g] /\ Fit(hook[g]) /\ hook[g] \in Hook
      BY <1>1, <1>5, <2>2 DEF Only, IngestTyped
    <3>2. hook[g].pc # "idle"
             => /\ hook[g].post \in Posts /\ arrivals[hook[g].post] > 0
                /\ Elems(hook[g].todo) \subseteq ItemsOf(hook[g].post)
      BY <3>1 DEF Fit
    <3>3. hook[g].pc # "idle" => ItemsOf(hook[g].post) \cap heard' = ItemsOf(hook[g].post) \cap heard
      BY <1>2, <1>8, <3>2
    <3>4. hook[g].pc = "create thread" => Head(hook[g].todo) \notin heard'
      <4> SUFFICES ASSUME hook[g].pc = "create thread" PROVE Head(hook[g].todo) \notin heard'
        OBVIOUS
      <4>1. Head(hook[g].todo) \in ItemsOf(hook[g].post)
        BY AtItem DEF Apart, Early, Item
      <4>2. Head(hook[g].todo) \notin heard
        BY <3>1 DEF Fit
      <4>3. QED
        BY <3>3, <4>1, <4>2
    <3>5. ingestFaults = 0 /\ Active(hook[g])
             => \A i \in ItemsOf(hook[g].post) \cap heard' : i \in Elems(hook[g].todo) \/ i \in ledger
      BY <3>1, <3>3 DEF Fit, Active
    <3>6. hook[g].pc # "idle" => arrivals'[hook[g].post] > 0
      BY <1>6, <3>2
    <3>7. (Storable(hook[g])' <=> Storable(hook[g])) /\ (Active(hook[g])' <=> Active(hook[g]))
      BY <3>1 DEF Storable, Active
    <3>8. /\ hook[g].pc \in Early => hook[g].todo = Content[hook[g].post]
          /\ hook[g].pc \notin Apart => hook[g].todo # <<>>
          /\ Storable(hook[g]) \/ hook[g].pc = "flows" => Head(hook[g].todo) \in ledger
      BY <3>1 DEF Fit
    <3>9. ingestFaults' = ingestFaults /\ ledger' = ledger
      BY <1>2
    <3>10. QED
      BY <3>1, <3>2, <3>4, <3>5, <3>6, <3>7, <3>8, <3>9 DEF Fit
  <2>3. QED
    BY <2>1, <2>2
<1>10. Known'
  <2>1. \A q \in requests' \cup answered' : arrivals'[q] > 0
    BY <1>1, <1>2, <1>6 DEF Known, IngestTyped
  <2>2. \A i \in ledger' : Arrived(i)'
    BY <1>1, <1>2, <1>6 DEF Known, Arrived
  <2>3. ASSUME NEW i \in fresh
        PROVE  /\ i \notin Bare /\ Sender[i] \in threads
               /\ \A q \in Posts : i \in ItemsOf(q) => Platform(q) \in channels
    <3>1. i \in ItemsOf(p) /\ i \notin Bare /\ Sender[i] \in threads /\ Platform(p) \in channels
      OBVIOUS
    <3>2. QED
      BY <3>1, OnePlatform
  <2>4. QED
    BY <1>1, <1>2, <2>1, <2>2, <2>3 DEF Known
<1>11. NotDropped'
  <2> SUFFICES ASSUME ingestFaults = 0 PROVE NotDropped'
    BY <1>2 DEF NotDropped
  <2>1. \A g \in Hooks : Storable(hook[g]) \/ Active(hook[g]) => g # h
    BY <1>2 DEF Storable, Active
  <2>2. ASSUME NEW i \in heard', i \in ledger
        PROVE  inbox[i] > 0 \/ \E g \in Hooks : Storable(hook[g])' /\ Item(g)' = i
    <3>1. Arrived(i)
      BY <1>1, <2>2 DEF Known
    <3>2. i \in heard
      BY <1>2, <3>1
    <3>3. inbox[i] > 0 \/ \E g \in Hooks : Storable(hook[g]) /\ Item(g) = i
      BY <1>1, <2>2, <3>2 DEF NotDropped
    <3>4. ASSUME NEW g \in Hooks, Storable(hook[g]) PROVE Storable(hook[g])' /\ Item(g)' = Item(g)
      BY <1>5, <2>1, <3>4 DEF Only, Storable, Item
    <3>5. QED
      BY <3>3, <3>4
  <2>3. ASSUME NEW q \in requests \cup answered, NEW i \in heard', i \in ItemsOf(q)
        PROVE  i \in ledger \/ \E g \in Hooks : Active(hook[g])' /\ i \in Elems(hook'[g].todo)
    <3>1. q \in Posts /\ arrivals[q] > 0
      BY <1>1 DEF Known, IngestTyped
    <3>2. i \in heard
      BY <1>2, <1>8, <2>3, <3>1
    <3>3. i \in ledger \/ \E g \in Hooks : Active(hook[g]) /\ i \in Elems(hook[g].todo)
      BY <1>1, <2>3, <3>2 DEF NotDropped
    <3>4. ASSUME NEW g \in Hooks, Active(hook[g]) PROVE Active(hook[g])' /\ hook'[g] = hook[g]
      BY <1>5, <2>1, <3>4 DEF Only, Active
    <3>5. QED
      BY <3>3, <3>4
  <2>4. QED
    BY <1>2, <2>2, <2>3 DEF NotDropped
<1>12. QED
  BY <1>7, <1>9, <1>10, <1>11 DEF KnownInv

\* What a failed query or the end of the process leaves.
LEMMA FaultyStep ==
  ASSUME KnownInv, IngestCrash \/ \E h \in Hooks : IngestFail(h)
  PROVE  KnownInv'
<1>1. IngestTyped /\ Known /\ \A g \in Hooks : Fit(hook[g])
  BY DEF KnownInv
<1>2. /\ UNCHANGED <<requests, ledger, threads, inbox, answered, channels, arrivals, heard>>
      /\ ingestFaults' = ingestFaults + 1 /\ ingestFaults \in Nat /\ ingestFaults' # 0 /\ ingestFaults' \in Nat
  <2>1. CASE IngestCrash
    BY <1>1, <2>1 DEF IngestCrash, tables, IngestTyped
  <2>2. ASSUME NEW h \in Hooks, IngestFail(h)
        PROVE  /\ UNCHANGED <<requests, ledger, threads, inbox, answered, channels, arrivals, heard>>
               /\ ingestFaults' = ingestFaults + 1
    BY <2>2 DEF IngestFail, tables
  <2>3. ingestFaults \in Nat
    BY <1>1 DEF IngestTyped
  <2>4. QED
    BY <2>1, <2>2, <2>3
<1>3. hook' \in [Hooks -> Hook] /\ \A g \in Hooks : Fit(hook[g])'
  <2>1. CASE IngestCrash
    <3>1. hook' = [h \in Hooks |-> Free]
      BY <2>1 DEF IngestCrash
    <3>2. Free.pc = "idle"
      BY DEF Free
    <3>3. \A g \in Hooks : Fit(hook[g])'
      BY <3>1, <3>2 DEF Fit, Storable, Active, Early, Apart
    <3>4. QED
      BY <3>1, <3>3, FreeFits
  <2>2. ASSUME NEW h \in Hooks, IngestFail(h) PROVE hook' \in [Hooks -> Hook] /\ \A g \in Hooks : Fit(hook[g])'
    <3>1. Only(h) /\ Fit(hook[h])'
      <4>1. CASE hook[h].pc \in Early
        BY <2>2, <4>1, FreedAs DEF IngestFail, Early
      <4>2. CASE hook[h].pc \notin Early
        <5>1. DropItem(h) /\ hook[h].pc \notin Apart
          BY <2>2, <4>2 DEF IngestFail, Early, Doing, Apart
        <5>2. QED
          BY <1>2, <5>1, DroppedTo, DroppedFits
      <4>3. QED
        BY <4>1, <4>2
    <3>2. ASSUME NEW g \in Hooks \ {h} PROVE Fit(hook[g])'
      <4>1. hook'[g] = hook[g] /\ Fit(hook[g])
        BY <1>1, <3>1 DEF Only
      <4>2. QED
        BY <1>2, <4>1 DEF Fit, Storable, Active
    <3>3. QED
      BY <3>1, <3>2 DEF Only
  <2>3. QED
    BY <2>1, <2>2
<1>4. IngestTyped'
  BY <1>1, <1>2, <1>3 DEF IngestTyped
<1>5. Known' /\ NotDropped'
  BY <1>1, <1>2 DEF Known, Arrived, NotDropped
<1>6. QED
  BY <1>3, <1>4, <1>5 DEF KnownInv

LEMMA DisconnectStep ==
  ASSUME KnownInv, NEW ch \in Platforms, DisconnectChannel(ch)
  PROVE  KnownInv'
<1>1. IngestTyped /\ Known /\ NotDropped /\ \A g \in Hooks : Fit(hook[g])
  BY DEF KnownInv
<1>2. /\ UNCHANGED <<requests, ledger, threads, inbox, answered, arrivals, hook, ingestFaults>>
      /\ channels' = channels \ {ch}
      /\ heard' = {i \in heard : \A p \in Posts : i \in ItemsOf(p) => Platform(p) # ch}
  BY DEF DisconnectChannel, tables
<1>3. heard' \subseteq heard
  BY <1>2
<1>4. IngestTyped'
  BY <1>1, <1>2, <1>3 DEF IngestTyped
<1>5. ASSUME NEW g \in Hooks PROVE Fit(hook[g])'
  <2>1. Fit(hook[g]) /\ hook'[g] = hook[g]
    BY <1>1, <1>2
  <2>2. QED
    BY <1>2, <1>3, <2>1 DEF Fit, Storable, Active
<1>6. Known'
  BY <1>1, <1>2, <1>3 DEF Known, Arrived
<1>7. NotDropped'
  BY <1>1, <1>2, <1>3 DEF NotDropped, Storable, Active, Item
<1>8. QED
  BY <1>4, <1>5, <1>6, <1>7 DEF KnownInv

LEMMA KnownStep ==
  ASSUME KnownInv, [IngestNext]_ingestVars
  PROVE  KnownInv'
<1>1. ASSUME NEW h \in Hooks, HandlePost(h) PROVE KnownInv'
  BY <1>1, RequestStep, NextStep, ItemStep DEF HandlePost
<1>2. CASE UNCHANGED ingestVars
  BY <1>2 DEF ingestVars, tables, world, KnownInv, IngestTyped, Fit, Known, NotDropped, Storable, Active, Arrived,
     Item
<1>3. QED
  BY <1>1, <1>2, ArriveStep, FaultyStep, DisconnectStep DEF IngestNext

\* A contact that was looked for in vain will be counted.
LEMMA CountedAs ==
  ASSUME KnownInv, NEW h \in Hooks, hook[h].pc \notin Apart,
         hook' = [hook EXCEPT ![h].pc = "count", ![h].new = hook[h].post \in Whatsapp]
  PROVE  /\ Only(h) /\ hook'[h].pc = "count" /\ hook'[h].post = hook[h].post /\ hook'[h].todo = hook[h].todo
         /\ hook'[h].new <=> hook[h].post \in Whatsapp
<1> DEFINE n == [hook[h] EXCEPT !.pc = "count", !.new = hook[h].post \in Whatsapp]
<1>1. hook[h] \in Hook
  BY AtItem
<1>2. n \in Hook /\ n.pc = "count" /\ n.post = hook[h].post /\ n.todo = hook[h].todo
  <2>1. "count" \in Labels /\ (hook[h].post \in Whatsapp) \in BOOLEAN
    BY DEF Labels
  <2>2. QED
    BY <1>1, <2>1 DEF Hook
<1>3. n.new <=> hook[h].post \in Whatsapp
  BY <1>1 DEF Hook
<1>4. hook' = [hook EXCEPT ![h] = n]
  OBVIOUS
<1> HIDE DEF n
<1>5. QED
  BY <1>2, <1>3, <1>4, Contained

LEMMA ArrivesAs ==
  ASSUME KnownInv, NEW h \in Hooks, NEW p \in Posts, Arrive(h, p)
  PROVE  /\ UNCHANGED <<requests, ledger, contacts, threads, inbox, welcomes, ingestFaults>> /\ Only(h)
         /\ hook'[h].pc \in {"request", "next"} /\ ~hook'[h].new /\ hook[h].pc = "idle"
<1> DEFINE pc == IF p \in Whatsapp /\ RequestId[p] THEN "request" ELSE "next"
           n == [Free EXCEPT !.pc = pc, !.post = p, !.todo = Content[p]]
<1>1. /\ UNCHANGED <<requests, ledger, contacts, threads, inbox, welcomes, ingestFaults>>
      /\ hook' = [hook EXCEPT ![h] = n] /\ hook[h].pc = "idle"
  BY DEF Arrive, Doing, tables
<1>2. Content[p] \in Seq(Items)
  BY PostElems
<1>3. n \in Hook /\ n.pc = pc /\ pc \in {"request", "next"} /\ ~n.new
  <2>1. pc \in Labels /\ pc \in {"request", "next"}
    BY DEF Labels
  <2> HIDE DEF pc
  <2>2. n \in Hook /\ n.pc = pc
    BY <1>2, <2>1, FreeFits DEF Hook
  <2>3. n.new = FALSE
    BY DEF Free
  <2>4. QED
    BY <2>1, <2>2, <2>3
<1> HIDE DEF pc, n
<1>4. Only(h) /\ hook'[h] = n
  BY <1>1, <1>3, Contained
<1>5. QED
  BY <1>1, <1>3, <1>4

-----------------------------------------------------------------------------
(* Ingest: a message is in the inbox once.                                    *)

\* A hook that has an item's row in the ledger is alone with it, and the message is not in the inbox yet; nor is one
\* that is not in the ledger.
OnceInv ==
    /\ \A i \in Items : inbox[i] <= 1
    /\ \A g, h \in Hooks : Storable(hook[g]) /\ Storable(hook[h]) /\ Item(g) = Item(h) => g = h
    /\ \A h \in Hooks : Storable(hook[h]) => inbox[Item(h)] = 0
    /\ \A i \in Items \ ledger : inbox[i] = 0

LEMMA OnceInit == IngestInit => OnceInv
BY FreeFits DEF IngestInit, OnceInv

\* An item on its way is in the ledger.
LEMMA OnTheWay ==
  ASSUME KnownInv, NEW h \in Hooks, Storable(hook[h])
  PROVE  hook[h].pc \notin Apart /\ Item(h) \in ledger /\ Item(h) \in Items
<1>1. hook[h].pc \notin Apart /\ Fit(hook[h])
  BY DEF KnownInv, Storable, Apart, Early
<1>2. QED
  BY <1>1, AtItem DEF Fit, Item

\* A hook's step that stores no message: an item comes on its way only as its id is recorded.
LEMMA OnceQuiet ==
  ASSUME KnownInv, OnceInv, NEW h \in Hooks, Only(h), inbox' = inbox, ledger \subseteq ledger',
         Storable(hook[h])' => /\ Item(h)' = Item(h) /\ Item(h) \in Items
                               /\ Storable(hook[h]) \/ Item(h) \notin ledger
  PROVE  OnceInv'
<1>1. ASSUME NEW g \in Hooks, g # h PROVE Storable(hook[g])' = Storable(hook[g]) /\ Item(g)' = Item(g)
  BY <1>1 DEF Only, Storable, Item
<1>2. \A g \in Hooks : Storable(hook[g]) => Item(g) \in ledger
  BY OnTheWay
<1>3. \A g, k \in Hooks : Storable(hook[g])' /\ Storable(hook[k])' /\ Item(g)' = Item(k)' => g = k
  BY <1>1, <1>2 DEF OnceInv
<1>4. \A g \in Hooks : Storable(hook[g])' => inbox[Item(g)'] = 0
  BY <1>1 DEF OnceInv
<1>5. QED
  BY <1>3, <1>4 DEF OnceInv

LEMMA OnceSaves ==
  ASSUME KnownInv, OnceInv, NEW h \in Hooks, SaveMessage(h)
  PROVE  OnceInv'
<1>1. /\ hook[h].pc = "message" /\ Storable(hook[h]) /\ UNCHANGED ledger
      /\ inbox' = [inbox EXCEPT ![Item(h)] = @ + 1] /\ Continue(h, "flows") /\ "flows" \in Labels
  BY DEF SaveMessage, Doing, Storable, Labels
<1>2. Only(h) /\ hook'[h].pc = "flows"
  BY <1>1, ContinuedAs
<1>3. Item(h) \in Items /\ Item(h) \in ledger /\ inbox[Item(h)] = 0 /\ inbox \in [Items -> Nat]
  BY <1>1, OnTheWay DEF OnceInv, KnownInv, IngestTyped
<1>4. ~Storable(hook[h])'
  BY <1>2 DEF Storable
<1>5. inbox'[Item(h)] = 1 /\ \A i \in Items \ {Item(h)} : inbox'[i] = inbox[i]
  BY <1>1, <1>3
<1>6. ASSUME NEW g \in Hooks, Storable(hook[g])'
      PROVE  g # h /\ Storable(hook[g]) /\ Item(g)' = Item(g) /\ Item(g) # Item(h) /\ Item(g) \in Items
  <2>1. g # h
    BY <1>4, <1>6
  <2>2. Storable(hook[g]) /\ Item(g)' = Item(g)
    BY <1>2, <1>6, <2>1 DEF Only, Storable, Item
  <2>3. QED
    BY <1>1, <2>1, <2>2, OnTheWay DEF OnceInv
<1>7. \A g, k \in Hooks : Storable(hook[g])' /\ Storable(hook[k])' /\ Item(g)' = Item(k)' => g = k
  BY <1>6 DEF OnceInv
<1>8. \A g \in Hooks : Storable(hook[g])' => inbox'[Item(g)'] = 0
  BY <1>5, <1>6 DEF OnceInv
<1>9. /\ \A i \in Items : inbox'[i] <= 1
      /\ \A i \in Items \ ledger' : inbox'[i] = 0
  BY <1>1, <1>3, <1>5 DEF OnceInv
<1>10. QED
  BY <1>7, <1>8, <1>9 DEF OnceInv

\* What is dropped is on its way no more.
LEMMA OnceDrops ==
  ASSUME KnownInv, OnceInv, NEW h \in Hooks, hook[h].pc \notin Apart, DropItem(h), inbox' = inbox,
         ledger \subseteq ledger'
  PROVE  OnceInv'
BY DroppedTo, OnceQuiet

LEMMA OnceFrees ==
  ASSUME KnownInv, OnceInv, NEW h \in Hooks, hook' = [hook EXCEPT ![h] = Free], inbox' = inbox, ledger' = ledger
  PROVE  OnceInv'
BY FreedAs, OnceQuiet

\* A hook goes on with its item.
LEMMA OnceContinues ==
  ASSUME KnownInv, OnceInv, NEW h \in Hooks, NEW label \in Labels, Continue(h, label), inbox' = inbox,
         ledger \subseteq ledger',
         label \in {"contact", "count", "create contact", "thread", "create thread", "message"}
         \/ (label = "connection" /\ hook[h].post \in Whatsapp)
            => hook[h].pc \notin Apart /\ (Storable(hook[h]) \/ Item(h) \notin ledger)
  PROVE  OnceInv'
<1>1. Only(h) /\ hook'[h].pc = label /\ hook'[h].post = hook[h].post /\ hook'[h].todo = hook[h].todo
  BY ContinuedAs
<1>2. Item(h)' = Item(h)
  BY <1>1 DEF Item
<1>3. Storable(hook[h])' => hook[h].pc \notin Apart /\ (Storable(hook[h]) \/ Item(h) \notin ledger)
  BY <1>1 DEF Storable
<1>4. QED
  BY <1>1, <1>2, <1>3, AtItem, OnceQuiet

\* Every step of a request's handler.
LEMMA OnceHandles ==
  ASSUME KnownInv, OnceInv, NEW h \in Hooks, HandlePost(h)
  PROVE  OnceInv'
<1>1. KnownInv /\ IngestTyped /\ Fit(hook[h])
  BY DEF KnownInv
<1>2. CASE FindRequest(h) \/ RecordRequest(h)
  <2>1. inbox' = inbox /\ ledger' = ledger
    BY <1>2 DEF FindRequest, RecordRequest, tables
  <2>2. \/ hook' = [hook EXCEPT ![h] = Free]
        \/ \E label \in {"record request", "next"} : Continue(h, label)
    BY <1>2 DEF FindRequest, RecordRequest, Answer
  <2>3. QED
    BY <2>1, <2>2, OnceFrees, OnceContinues DEF Labels
<1>3. CASE NextItem(h)
  <2>1. inbox' = inbox /\ ledger' = ledger
    BY <1>3 DEF NextItem, tables
  <2>2. CASE hook[h].todo = <<>>
    BY <1>3, <2>1, <2>2, OnceFrees DEF NextItem, Answer
  <2>3. CASE hook[h].todo # <<>>
    <3>1. PICK label \in {"find", "connection"} : Continue(h, label) /\ (label = "find" <=> hook[h].post \in Whatsapp)
      BY <1>3, <2>3 DEF NextItem
    <3>2. QED
      BY <2>1, <3>1, OnceContinues DEF Labels
  <2>4. QED
    BY <2>2, <2>3
<1>4. CASE FindConnection(h)
  <2>1. inbox' = inbox /\ ledger' = ledger /\ hook[h].pc = "connection"
    BY <1>4 DEF FindConnection, tables, Doing
  <2>2. hook[h].pc \notin Apart
    BY <2>1 DEF Apart, Early
  <2>3. CASE DropItem(h)
    BY <2>1, <2>2, <2>3, OnceDrops
  <2>4. CASE ~DropItem(h)
    <3>1. PICK label \in {"contact", "find"} : Continue(h, label) /\ (label = "contact" <=> hook[h].post \in Whatsapp)
      BY <1>4, <2>4 DEF FindConnection
    <3>2. label = "contact" => Storable(hook[h])
      BY <2>1, <3>1 DEF Storable
    <3>3. QED
      BY <2>1, <2>2, <3>1, <3>2, OnceContinues DEF Labels
  <2>5. QED
    BY <2>3, <2>4
<1>5. CASE FindMessage(h) \/ RecordMessage(h)
  <2>1. inbox' = inbox /\ ledger \subseteq ledger' /\ hook[h].pc \in {"find", "record"}
    BY <1>5 DEF FindMessage, RecordMessage, tables, Doing
  <2>2. hook[h].pc \notin Apart
    BY <2>1 DEF Apart, Early
  <2>3. CASE DropItem(h)
    BY <2>1, <2>2, <2>3, OnceDrops
  <2>4. CASE FindMessage(h) /\ ~DropItem(h)
    <3>1. Continue(h, "record") /\ "record" \in Labels
      BY <2>4 DEF FindMessage, Labels
    <3>2. QED
      BY <2>1, <3>1, OnceContinues
  <2>5. CASE RecordMessage(h) /\ ~DropItem(h)
    <3>1. PICK label \in {"connection", "thread"} : Continue(h, label) /\ Item(h) \notin ledger
      BY <2>5 DEF RecordMessage
    <3>2. QED
      BY <2>1, <2>2, <3>1, OnceContinues DEF Labels
  <2>6. QED
    BY <1>5, <2>3, <2>4, <2>5
<1>6. CASE FindContact(h) \/ CountContacts(h) \/ CreateContact(h) \/ FindThread(h) \/ CreateThread(h)
  <2>1. /\ inbox' = inbox /\ ledger' = ledger
        /\ hook[h].pc \in {"contact", "count", "create contact", "thread", "create thread"}
    BY <1>6 DEF FindContact, CountContacts, CreateContact, FindThread, CreateThread, tables, Doing
  <2>2. hook[h].pc \notin Apart /\ Storable(hook[h])
    BY <2>1 DEF Apart, Early, Storable
  <2>3. CASE DropItem(h)
    BY <2>1, <2>2, <2>3, OnceDrops
  <2>4. CASE \E label \in {"contact", "count", "create contact", "thread", "create thread", "message"} :
               Continue(h, label)
    BY <2>1, <2>2, <2>4, OnceContinues DEF Labels
  <2>5. CASE hook' = [hook EXCEPT ![h].pc = "count", ![h].new = hook[h].post \in Whatsapp]
    <3>1. Only(h) /\ hook'[h].todo = hook[h].todo
      BY <2>2, <2>5, CountedAs
    <3>2. Item(h)' = Item(h) /\ Item(h) \in Items
      BY <2>2, <3>1, AtItem DEF Item
    <3>3. QED
      BY <2>1, <2>2, <3>1, <3>2, OnceQuiet
  <2>6. AfterContact(h) \in {"thread", "message"}
    BY DEF AfterContact
  <2>7. QED
    BY <1>6, <2>3, <2>4, <2>5, <2>6 DEF FindContact, CountContacts, CreateContact, FindThread, CreateThread
<1>7. CASE SaveMessage(h)
  BY <1>7, OnceSaves
<1>8. CASE StartFlows(h)
  <2>1. inbox' = inbox /\ ledger' = ledger /\ hook[h].pc \notin Apart /\ DropItem(h)
    BY <1>8 DEF StartFlows, tables, Doing, Apart, Early
  <2>2. QED
    BY <2>1, OnceDrops
<1>9. QED
  BY <1>2, <1>3, <1>4, <1>5, <1>6, <1>7, <1>8 DEF HandlePost

LEMMA OnceStep ==
  ASSUME KnownInv, OnceInv, [IngestNext]_ingestVars
  PROVE  OnceInv'
<1>1. ASSUME NEW h \in Hooks, NEW p \in Posts, Arrive(h, p) PROVE OnceInv'
  <2>1. inbox' = inbox /\ ledger' = ledger /\ Only(h) /\ hook'[h].pc \in {"request", "next"}
    BY <1>1, ArrivesAs
  <2>2. ~Storable(hook[h])'
    BY <2>1 DEF Storable
  <2>3. QED
    BY <2>1, <2>2, OnceQuiet
<1>2. ASSUME NEW h \in Hooks, IngestFail(h) PROVE OnceInv'
  <2>1. inbox' = inbox /\ ledger' = ledger
    BY <1>2 DEF IngestFail, tables
  <2>2. CASE hook[h].pc \in Early
    BY <1>2, <2>1, <2>2, OnceFrees DEF IngestFail, Early
  <2>3. CASE hook[h].pc \notin Early
    <3>1. DropItem(h) /\ hook[h].pc \notin Apart
      BY <1>2, <2>3 DEF IngestFail, Early, Doing, Apart
    <3>2. QED
      BY <2>1, <3>1, OnceDrops
  <2>4. QED
    BY <2>2, <2>3
<1>3. CASE IngestCrash
  <2>1. inbox' = inbox /\ ledger' = ledger /\ hook' = [h \in Hooks |-> Free]
    BY <1>3 DEF IngestCrash, tables
  <2>2. \A g \in Hooks : ~Storable(hook[g])'
    BY <2>1 DEF Storable, Free
  <2>3. QED
    BY <2>1, <2>2 DEF OnceInv
<1>4. CASE UNCHANGED ingestVars \/ \E ch \in Platforms : DisconnectChannel(ch)
  <2>1. UNCHANGED <<inbox, ledger, hook>>
    BY <1>4 DEF ingestVars, tables, DisconnectChannel
  <2>2. QED
    BY <2>1 DEF OnceInv, Storable, Item
<1>5. QED
  BY <1>1, <1>2, <1>3, <1>4, OnceHandles DEF IngestNext

-----------------------------------------------------------------------------
(* Ingest: who is stored and welcomed, and how often.                         *)

Counting == {"count", "create contact"}
Seeking == {"contact", "count", "create contact"}
\* Past the look for a contact, if the post is of WhatsApp.
Past == {"thread", "create thread", "message", "flows"}
Roomy == Total < MaxSubscribers /\ ingestFaults = 0

ContactsTyped ==
    /\ contacts \in [Customers -> Nat] /\ welcomes \in [Customers -> Nat] /\ threads \subseteq Customers

StoringInv == \A c \in Customers : contacts[c] + Cardinality(Storing(c)) <= Cardinality(Hooks)

\* Who is new is so from the look for his contact to the start of the flows, in a post of WhatsApp.
NewInv == \A h \in Hooks : hook[h].new => hook[h].pc \in Counting \cup Past /\ hook[h].post \in Whatsapp

\* While the plan has room and no query failed.
RoomInv ==
    /\ \A h \in Hooks : hook[h].pc \in Past /\ hook[h].post \in Whatsapp => contacts[Customer(h)] > 0
    /\ \A c \in Customers : welcomes[c] > 0 => contacts[c] > 0
    /\ \A c \in Customers : welcomes[c] + Cardinality(Welcoming(c)) <= Cardinality(Hooks)
    /\ \A c \in threads : contacts[c] > 0 \/ \E h \in Hooks : hook[h].pc \in Seeking /\ Customer(h) = c

ContactInv == ContactsTyped /\ StoringInv /\ NewInv /\ (Roomy => RoomInv)

\* Rows of a table, as many of each key as a function says, are finite in number, and no fewer than those of one key.
LEMMA CountedRows ==
  ASSUME NEW S, IsFiniteSet(S), NEW f \in [S -> Nat]
  PROVE  LET R == UNION {{c} \X (1..f[c]) : c \in S} IN
         IsFiniteSet(R) /\ \A c \in S : f[c] <= Cardinality(R)
<1> DEFINE F == [c \in S |-> {c} \X (1..f[c])]
           K == {{c} \X (1..f[c]) : c \in S}
           R == UNION {{c} \X (1..f[c]) : c \in S}
<1>1. IsFiniteSet(K)
  <2>1. F \in Surjection(S, K)
    BY DEF Surjection
  <2>2. QED
    BY <2>1, FS_Surjection
<1>2. ASSUME NEW c \in S
      PROVE  IsFiniteSet({c} \X (1..f[c])) /\ Cardinality({c} \X (1..f[c])) = f[c]
  <2>1. f[c] \in Nat /\ 1 \in Int /\ f[c] \in Int
    OBVIOUS
  <2>2. IsFiniteSet(1..f[c]) /\ Cardinality(1..f[c]) = f[c]
    BY <2>1, FS_Interval
  <2>3. IsFiniteSet({c}) /\ Cardinality({c}) = 1
    BY FS_Singleton
  <2>4. /\ IsFiniteSet({c} \X (1..f[c]))
        /\ Cardinality({c} \X (1..f[c])) = Cardinality({c}) * Cardinality(1..f[c])
    BY <2>2, <2>3, FS_Product
  <2>5. QED
    BY <2>1, <2>2, <2>3, <2>4
<1>3. \A T \in K : IsFiniteSet(T)
  BY <1>2
<1>4. IsFiniteSet(R)
  BY <1>1, <1>3, FS_UNION
<1>5. ASSUME NEW c \in S PROVE f[c] <= Cardinality(R)
  <2>1. {c} \X (1..f[c]) \subseteq R
    OBVIOUS
  <2> HIDE DEF R
  <2>2. Cardinality({c} \X (1..f[c])) <= Cardinality(R)
    BY <1>4, <2>1, FS_Subset
  <2>3. QED
    BY <1>2, <2>2
<1>6. QED
  BY <1>4, <1>5

\* The plan's count grows with every customer's.
LEMMA CountGrows ==
  ASSUME ContactsTyped, ContactsTyped', \A c \in Customers : contacts[c] <= contacts'[c]
  PROVE  Total \in Nat /\ Total' \in Nat /\ Total <= Total'
<1>1. IsFiniteSet(Customers)
  BY IngestAssumption
<1>2. IsFiniteSet(ContactRows) /\ IsFiniteSet(ContactRows')
  BY <1>1, CountedRows DEF ContactRows, ContactsTyped
<1>3. ContactRows \subseteq ContactRows'
  <2>1. ASSUME NEW r \in ContactRows PROVE r \in ContactRows'
    <3>1. PICK c \in Customers : r \in {c} \X (1..contacts[c])
      BY <2>1 DEF ContactRows
    <3>2. contacts[c] \in Nat /\ contacts'[c] \in Nat /\ contacts[c] <= contacts'[c]
      BY DEF ContactsTyped
    <3>3. 1..contacts[c] \subseteq 1..contacts'[c]
      BY <3>2
    <3>4. r \in {c} \X (1..contacts'[c])
      BY <3>1, <3>3
    <3>5. QED
      BY <3>4 DEF ContactRows
  <2>2. QED
    BY <2>1
<1>4. /\ Cardinality(ContactRows) \in Nat /\ Cardinality(ContactRows') \in Nat
      /\ Cardinality(ContactRows) <= Cardinality(ContactRows')
  BY <1>2, <1>3, FS_Subset, FS_CardinalityType
<1>5. QED
  BY <1>4 DEF Total

LEMMA RoomBefore ==
  ASSUME ContactsTyped, ContactsTyped', \A c \in Customers : contacts[c] <= contacts'[c], Roomy',
         ingestFaults' = 0 => ingestFaults = 0
  PROVE  Roomy
<1>1. Total \in Nat /\ Total' \in Nat /\ Total <= Total' /\ MaxSubscribers \in Nat
  BY CountGrows, IngestAssumption
<1>2. QED
  BY <1>1 DEF Roomy

LEMMA Requests ==
  /\ IsFiniteSet(Hooks) /\ Cardinality(Hooks) \in Nat
  /\ \A c : /\ IsFiniteSet(Storing(c)) /\ Cardinality(Storing(c)) \in Nat
            /\ Cardinality(Storing(c)) <= Cardinality(Hooks)
            /\ IsFiniteSet(Welcoming(c)) /\ Cardinality(Welcoming(c)) \in Nat
            /\ Cardinality(Welcoming(c)) <= Cardinality(Hooks)
<1>1. IsFiniteSet(Hooks)
  BY IngestAssumption
<1>2. \A c : Storing(c) \in SUBSET Hooks /\ Welcoming(c) \in SUBSET Hooks
  BY DEF Storing, Welcoming
<1>3. \A S \in SUBSET Hooks : IsFiniteSet(S) /\ Cardinality(S) <= Cardinality(Hooks)
  BY <1>1, FS_Subset
<1>4. QED
  BY <1>1, <1>2, <1>3, FS_CardinalityType

LEMMA RequestsThen == \A c : /\ IsFiniteSet(Storing(c)') /\ Cardinality(Storing(c)') \in Nat
                             /\ Cardinality(Storing(c)') <= Cardinality(Hooks)
                             /\ IsFiniteSet(Welcoming(c)') /\ Cardinality(Welcoming(c)') \in Nat
                             /\ Cardinality(Welcoming(c)') <= Cardinality(Hooks)
<1>1. IsFiniteSet(Hooks)
  BY IngestAssumption
<1>2. \A c : Storing(c)' \in SUBSET Hooks /\ Welcoming(c)' \in SUBSET Hooks
  BY DEF Storing, Welcoming
<1>3. \A S \in SUBSET Hooks : IsFiniteSet(S) /\ Cardinality(S) <= Cardinality(Hooks)
  BY <1>1, FS_Subset
<1>4. QED
  BY <1>1, <1>2, <1>3, FS_CardinalityType

LEMMA Fewer ==
  ASSUME NEW S, IsFiniteSet(S), NEW T \in SUBSET S
  PROVE  Cardinality(T) <= Cardinality(S) /\ Cardinality(T) \in Nat
BY FS_Subset, FS_CardinalityType

\* What one hook's step changes.
LEMMA OneHookGoes ==
  ASSUME NEW h \in Hooks, Only(h)
  PROVE  \A c : /\ Storing(c)' \subseteq Storing(c) \cup {h} /\ Storing(c) \subseteq Storing(c)' \cup {h}
                /\ Welcoming(c)' \subseteq Welcoming(c) \cup {h} /\ Welcoming(c) \subseteq Welcoming(c)' \cup {h}
                /\ h \in Storing(c)' <=> hook'[h].pc \in Counting /\ Customer(h)' = c
                /\ h \in Welcoming(c)' <=> hook'[h].new /\ Customer(h)' = c
<1>1. ASSUME NEW g \in Hooks, g # h PROVE hook'[g] = hook[g] /\ Customer(g)' = Customer(g)
  BY <1>1 DEF Only, Customer, Item
<1>2. QED
  BY <1>1 DEF Storing, Welcoming, Counting

LEMMA ContactInit == IngestInit => ContactInv
<1> SUFFICES ASSUME IngestInit PROVE ContactInv
  OBVIOUS
<1>1. \A h \in Hooks : hook[h].pc = "idle" /\ ~hook[h].new
  BY DEF IngestInit, Free
<1>2. ContactsTyped /\ NewInv /\ \A c \in Customers : contacts[c] = 0 /\ welcomes[c] = 0
  BY <1>1 DEF IngestInit, ContactsTyped, NewInv
<1>3. StoringInv
  BY <1>2, Requests DEF StoringInv
<1>4. RoomInv
  <2>1. \A h \in Hooks : hook[h].pc \notin Past
    BY <1>1 DEF Past
  <2>2. \A c \in Customers : welcomes[c] + Cardinality(Welcoming(c)) <= Cardinality(Hooks)
    BY <1>2, Requests
  <2>3. threads = {} /\ \A c \in Customers : ~(welcomes[c] > 0)
    BY <1>2 DEF IngestInit
  <2>4. QED
    BY <2>1, <2>2, <2>3 DEF RoomInv
<1>5. QED
  BY <1>2, <1>3, <1>4 DEF ContactInv

\* What a step that stores nobody leaves.
LEMMA SameContacts ==
  ASSUME ContactsTyped, contacts' = contacts
  PROVE  \A c \in Customers : contacts[c] <= contacts'[c]
<1>1. \A c \in Customers : contacts[c] \in Nat
  BY DEF ContactsTyped
<1>2. QED
  BY <1>1

LEMMA FewerStoring ==
  ASSUME ContactsTyped, StoringInv, contacts' = contacts, \A c : Storing(c)' \subseteq Storing(c)
  PROVE  StoringInv'
<1>1. ASSUME NEW c \in Customers PROVE contacts'[c] + Cardinality(Storing(c)') <= Cardinality(Hooks)
  <2>1. /\ Cardinality(Storing(c)) \in Nat /\ Cardinality(Hooks) \in Nat /\ Cardinality(Storing(c)') \in Nat
        /\ Cardinality(Storing(c)') <= Cardinality(Storing(c))
    BY Requests, Fewer
  <2>2. contacts'[c] = contacts[c] /\ contacts[c] \in Nat
        /\ contacts[c] + Cardinality(Storing(c)) <= Cardinality(Hooks)
    BY DEF StoringInv, ContactsTyped
  <2>3. QED
    BY <2>1, <2>2
<1>2. QED
  BY <1>1 DEF StoringInv

LEMMA FewerWelcoming ==
  ASSUME ContactsTyped, RoomInv, welcomes' = welcomes, \A c : Welcoming(c)' \subseteq Welcoming(c)
  PROVE  \A c \in Customers : welcomes'[c] + Cardinality(Welcoming(c)') <= Cardinality(Hooks)
<1>1. ASSUME NEW c \in Customers PROVE welcomes'[c] + Cardinality(Welcoming(c)') <= Cardinality(Hooks)
  <2>1. /\ Cardinality(Welcoming(c)) \in Nat /\ Cardinality(Hooks) \in Nat /\ Cardinality(Welcoming(c)') \in Nat
        /\ Cardinality(Welcoming(c)') <= Cardinality(Welcoming(c))
    BY Requests, Fewer
  <2>2. welcomes'[c] = welcomes[c] /\ welcomes[c] \in Nat
        /\ welcomes[c] + Cardinality(Welcoming(c)) <= Cardinality(Hooks)
    BY DEF RoomInv, ContactsTyped
  <2>3. QED
    BY <2>1, <2>2
<1>2. QED
  BY <1>1

\* A step that is not about a contact.
LEMMA ContactQuiet ==
  ASSUME KnownInv, ContactInv, NEW h \in Hooks, Only(h), UNCHANGED <<contacts, welcomes, threads, ingestFaults>>,
         hook[h].pc \notin Seeking, hook'[h].pc \notin Counting,
         hook'[h].new => /\ hook[h].new /\ hook'[h].pc \in Past /\ hook'[h].post = hook[h].post
                         /\ Item(h)' = Item(h),
         hook'[h].pc \in Past /\ hook'[h].post \in Whatsapp
            => /\ hook[h].pc \in Past /\ hook'[h].post = hook[h].post /\ Item(h)' = Item(h)
  PROVE  ContactInv'
<1>1. ContactsTyped /\ StoringInv /\ NewInv
  BY DEF ContactInv
<1>2. \A g \in Hooks : g # h => hook'[g] = hook[g] /\ Customer(g)' = Customer(g)
  BY DEF Only, Customer, Item
<1>3. Item(h)' = Item(h) => Customer(h)' = Customer(h)
  BY DEF Customer
<1>4. \A c : Storing(c)' = Storing(c) /\ Welcoming(c)' \subseteq Welcoming(c)
  <2>1. hook[h].pc \notin Counting
    BY DEF Counting, Seeking
  <2>2. QED
    BY <1>2, <1>3, <2>1 DEF Storing, Welcoming, Counting
<1>5. ContactsTyped' /\ StoringInv'
  BY <1>1, <1>4 DEF ContactsTyped, StoringInv
<1>6. NewInv'
  BY <1>1, <1>2 DEF NewInv
<1>7. ASSUME Roomy' PROVE RoomInv'
  <2>1. RoomInv
    <3>1. \A c \in Customers : contacts[c] <= contacts'[c]
      BY <1>1, SameContacts
    <3>2. QED
      BY <1>1, <1>5, <1>7, <3>1, RoomBefore DEF ContactInv
  <2>2. ASSUME NEW g \in Hooks, hook'[g].pc \in Past, hook'[g].post \in Whatsapp PROVE contacts'[Customer(g)'] > 0
    BY <1>2, <1>3, <2>1, <2>2 DEF RoomInv
  <2>3. \A c \in Customers : welcomes'[c] + Cardinality(Welcoming(c)') <= Cardinality(Hooks)
    BY <1>1, <1>4, <2>1, FewerWelcoming
  <2>4. ASSUME NEW c \in threads'
        PROVE  contacts'[c] > 0 \/ \E g \in Hooks : hook'[g].pc \in Seeking /\ Customer(g)' = c
    BY <1>2, <2>1 DEF RoomInv
  <2>5. \A c \in Customers : welcomes'[c] > 0 => contacts'[c] > 0
    BY <2>1 DEF RoomInv
  <2>6. QED
    BY <2>2, <2>3, <2>4, <2>5 DEF RoomInv
<1>8. QED
  BY <1>5, <1>6, <1>7 DEF ContactInv

\* The customer of an item.
LEMMA CustomerOf ==
  ASSUME KnownInv, NEW h \in Hooks, hook[h].pc \notin Apart
  PROVE  Customer(h) \in Customers
BY AtItem, IngestAssumption DEF Customer

LEMMA StaysNew ==
  ASSUME KnownInv, NEW h \in Hooks, NEW label \in Labels, Continue(h, label)
  PROVE  hook'[h].new = hook[h].new
<1> DEFINE n == [hook[h] EXCEPT !.pc = label]
<1>1. hook[h] \in Hook
  BY DEF KnownInv, IngestTyped
<1>2. n \in Hook /\ n.new = hook[h].new
  BY <1>1 DEF Hook
<1>3. hook' = [hook EXCEPT ![h] = n]
  BY DEF Continue
<1> HIDE DEF n
<1>4. QED
  BY <1>2, <1>3, Contained

\* A hook goes on with its item.
LEMMA ContactGoesOn ==
  ASSUME KnownInv, NEW h \in Hooks, NEW label \in Labels, Continue(h, label)
  PROVE  /\ Only(h) /\ hook'[h].pc = label /\ hook'[h].post = hook[h].post /\ Item(h)' = Item(h)
         /\ Customer(h)' = Customer(h) /\ hook'[h].new = hook[h].new
<1>1. Only(h) /\ hook'[h].pc = label /\ hook'[h].post = hook[h].post /\ hook'[h].todo = hook[h].todo
  BY ContinuedAs
<1>2. QED
  BY <1>1, StaysNew DEF Item, Customer

LEMMA NoLongerNew ==
  ASSUME KnownInv, NEW h \in Hooks, hook[h].pc \notin Apart, DropItem(h)
  PROVE  ~hook'[h].new /\ hook'[h].pc = "next" /\ Only(h) /\ hook'[h].post = hook[h].post
<1> DEFINE n == [hook[h] EXCEPT !.pc = "next", !.todo = Tail(@), !.new = FALSE]
<1>1. hook[h] \in Hook /\ hook[h].todo \in Seq(Items) /\ hook[h].todo # <<>>
  BY AtItem
<1>2. Tail(hook[h].todo) \in Seq(Items) /\ "next" \in Labels
  BY <1>1 DEF Labels
<1>3. n \in Hook /\ n.new = FALSE
  BY <1>1, <1>2 DEF Hook
<1>4. hook' = [hook EXCEPT ![h] = n]
  BY DEF DropItem
<1> HIDE DEF n
<1>5. hook'[h] = n
  BY <1>3, <1>4, Contained
<1>6. QED
  BY <1>3, <1>5, DroppedTo

\* The item is dropped at a step that is not about a contact.
LEMMA ContactDrops ==
  ASSUME KnownInv, ContactInv, NEW h \in Hooks, hook[h].pc \notin Apart \cup Seeking, DropItem(h),
         UNCHANGED <<contacts, welcomes, threads, ingestFaults>>
  PROVE  ContactInv'
<1>1. ~hook'[h].new /\ hook'[h].pc \notin Counting \cup Past /\ Only(h)
  BY NoLongerNew DEF Counting, Past
<1>2. QED
  BY <1>1, ContactQuiet

\* The steps of a request's handler that are not about a contact.
LEMMA ContactOthers ==
  ASSUME KnownInv, ContactInv, NEW h \in Hooks,
         \/ FindRequest(h) \/ RecordRequest(h) \/ NextItem(h) \/ FindConnection(h) \/ FindMessage(h)
         \/ RecordMessage(h) \/ FindThread(h) \/ SaveMessage(h)
  PROVE  ContactInv'
<1>1. UNCHANGED <<contacts, welcomes, threads, ingestFaults>>
  BY DEF FindRequest, RecordRequest, NextItem, FindConnection, FindMessage, RecordMessage, FindThread, SaveMessage,
         tables, world
<1>2. hook[h] \in Hook /\ NewInv
  BY DEF KnownInv, IngestTyped, ContactInv
<1>3. CASE FindRequest(h) \/ RecordRequest(h) \/ NextItem(h)
  <2>1. hook[h].pc \in Apart /\ hook[h].pc \notin Seeking /\ hook[h].pc \notin Counting \cup Past
    BY <1>3 DEF FindRequest, RecordRequest, NextItem, Doing, Apart, Early, Seeking, Counting, Past
  <2>2. ~hook[h].new
    BY <1>2, <2>1 DEF NewInv
  <2>3. CASE hook' = [hook EXCEPT ![h] = Free]
    <3>1. Free.pc = "idle" /\ ~Free.new
      BY DEF Free
    <3>2. Only(h) /\ hook'[h].pc = "idle" /\ ~hook'[h].new
      BY <2>3, <3>1, FreedAs
    <3>3. QED
      BY <1>1, <2>1, <3>2, ContactQuiet DEF Counting, Past
  <2>4. CASE \E label \in {"record request", "next", "find", "connection"} : Continue(h, label)
    <3>1. PICK label \in {"record request", "next", "find", "connection"} : Continue(h, label)
      BY <2>4
    <3>2. Only(h) /\ hook'[h].pc = label
      BY <3>1, ContinuedAs DEF Labels
    <3>3. ~hook'[h].new
      BY <2>2, <3>1, StaysNew DEF Labels
    <3>4. QED
      BY <1>1, <2>1, <3>2, <3>3, ContactQuiet DEF Counting, Past
  <2>5. QED
    BY <1>3, <2>3, <2>4 DEF FindRequest, RecordRequest, NextItem, Answer
<1>4. CASE FindConnection(h) \/ FindMessage(h) \/ RecordMessage(h)
  <2>1. hook[h].pc \in {"connection", "find", "record"}
    BY <1>4 DEF FindConnection, FindMessage, RecordMessage, Doing
  <2>2. hook[h].pc \notin Apart \cup Seeking /\ hook[h].pc \notin Counting \cup Past
    BY <2>1 DEF Apart, Early, Seeking, Counting, Past
  <2>3. ~hook[h].new
    BY <1>2, <2>2 DEF NewInv
  <2>4. CASE DropItem(h)
    BY <1>1, <2>2, <2>4, ContactDrops
  <2>5. CASE \E label \in {"contact", "find", "record", "connection"} : Continue(h, label)
    <3>1. PICK label \in {"contact", "find", "record", "connection"} : Continue(h, label)
      BY <2>5
    <3>2. Only(h) /\ hook'[h].pc = label /\ ~hook'[h].new
      BY <2>2, <2>3, <3>1, ContactGoesOn DEF Labels
    <3>3. QED
      BY <1>1, <2>2, <3>2, ContactQuiet DEF Counting, Past
  <2>6. CASE Continue(h, "thread") /\ hook[h].post \notin Whatsapp
    <3>1. Only(h) /\ hook'[h].pc = "thread" /\ ~hook'[h].new /\ hook'[h].post \notin Whatsapp
      BY <2>2, <2>3, <2>6, ContactGoesOn DEF Labels
    <3>2. QED
      BY <1>1, <2>2, <3>1, ContactQuiet DEF Counting, Past
  <2>7. QED
    BY <1>4, <2>4, <2>5, <2>6 DEF FindConnection, FindMessage, RecordMessage
<1>5. CASE FindThread(h) \/ SaveMessage(h)
  <2>1. hook[h].pc \in {"thread", "message"}
    BY <1>5 DEF FindThread, SaveMessage, Doing
  <2>2. hook[h].pc \notin Apart /\ hook[h].pc \notin Seeking /\ hook[h].pc \in Past
    BY <2>1 DEF Apart, Early, Seeking, Past
  <2>3. PICK label \in {"message", "create thread", "flows"} : Continue(h, label)
    BY <1>5 DEF FindThread, SaveMessage
  <2>4. /\ Only(h) /\ hook'[h].pc = label /\ hook'[h].post = hook[h].post /\ Item(h)' = Item(h)
        /\ hook'[h].new = hook[h].new
    BY <2>2, <2>3, ContactGoesOn DEF Labels
  <2>5. label \in Past /\ label \notin Counting
    BY DEF Past, Counting
  <2>6. QED
    BY <1>1, <2>2, <2>4, <2>5, ContactQuiet
<1>6. QED
  BY <1>3, <1>4, <1>5

\* A hook goes on to another step, contacts and threads growing: what must be shown.
LEMMA ContactMoves ==
  ASSUME KnownInv, ContactInv, NEW h \in Hooks, Only(h), ContactsTyped', ingestFaults' = ingestFaults,
         \A c \in Customers : contacts[c] <= contacts'[c], StoringInv',
         hook'[h].new => hook'[h].pc \in Counting \cup Past /\ hook'[h].post \in Whatsapp,
         RoomInv /\ Roomy /\ Roomy'
            => /\ hook'[h].pc \in Past /\ hook'[h].post \in Whatsapp => contacts'[Customer(h)'] > 0
               /\ \A c \in Customers : welcomes'[c] > 0 => contacts'[c] > 0
               /\ \A c \in Customers : welcomes'[c] + Cardinality(Welcoming(c)') <= Cardinality(Hooks)
               /\ \A c \in threads' : contacts'[c] > 0 \/ \E g \in Hooks : hook'[g].pc \in Seeking /\ Customer(g)' = c
  PROVE  ContactInv'
<1>1. ContactsTyped /\ NewInv
  BY DEF ContactInv
<1>2. \A g \in Hooks : g # h => hook'[g] = hook[g] /\ Customer(g)' = Customer(g)
  BY DEF Only, Customer, Item
<1>3. NewInv'
  BY <1>1, <1>2 DEF NewInv
<1>4. ASSUME Roomy' PROVE RoomInv'
  <2>1. Roomy
    BY <1>1, <1>4, RoomBefore
  <2>2. RoomInv
    BY <2>1 DEF ContactInv
  <2>3. ASSUME NEW g \in Hooks, g # h, hook'[g].pc \in Past, hook'[g].post \in Whatsapp
        PROVE  contacts'[Customer(g)'] > 0
    <3>1. Customer(g) \in Customers /\ contacts[Customer(g)] > 0 /\ Customer(g)' = Customer(g)
      <4>1. hook[g].pc \notin Apart
        BY <1>2, <2>3 DEF Past, Apart, Early
      <4>2. QED
        BY <1>2, <2>2, <2>3, <4>1, CustomerOf DEF RoomInv
    <3>2. QED
      BY <1>1, <3>1 DEF ContactsTyped
  <2>4. QED
    BY <1>4, <2>1, <2>2, <2>3 DEF RoomInv
<1>5. QED
  BY <1>3, <1>4 DEF ContactInv

\* What is kept when contacts, threads and welcomes are, and the hook is still at its customer.
LEMMA RoomKept ==
  ASSUME KnownInv, ContactInv, NEW h \in Hooks, Only(h), Roomy, Customer(h)' = Customer(h),
         ContactsTyped', \A c \in Customers : contacts[c] <= contacts'[c],
         UNCHANGED <<welcomes, threads>>, hook'[h].pc \in Seeking \/ contacts'[Customer(h)] > 0
  PROVE  /\ \A c \in Customers : welcomes'[c] > 0 => contacts'[c] > 0
         /\ \A c \in threads' : contacts'[c] > 0 \/ \E g \in Hooks : hook'[g].pc \in Seeking /\ Customer(g)' = c
<1>1. ContactsTyped /\ RoomInv
  BY DEF ContactInv
<1>2. \A g \in Hooks : g # h => hook'[g] = hook[g] /\ Customer(g)' = Customer(g)
  BY DEF Only, Customer, Item
<1>3. \A c \in Customers : contacts[c] > 0 => contacts'[c] > 0
  BY <1>1 DEF ContactsTyped
<1>4. \A c \in Customers : welcomes'[c] > 0 => contacts'[c] > 0
  BY <1>1, <1>3 DEF RoomInv
<1>5. ASSUME NEW c \in threads
      PROVE  contacts'[c] > 0 \/ \E g \in Hooks : hook'[g].pc \in Seeking /\ Customer(g)' = c
  <2>1. CASE contacts[c] > 0
    BY <1>1, <1>3, <2>1 DEF ContactsTyped
  <2>2. ASSUME NEW g \in Hooks, hook[g].pc \in Seeking, Customer(g) = c
        PROVE  contacts'[c] > 0 \/ \E k \in Hooks : hook'[k].pc \in Seeking /\ Customer(k)' = c
    BY <1>2, <2>2
  <2>3. QED
    BY <1>1, <2>1, <2>2 DEF RoomInv
<1>6. QED
  BY <1>4, <1>5

LEMMA ContactStep ==
  ASSUME KnownInv, ContactInv, NEW h \in Hooks, FindContact(h) \/ CountContacts(h)
  PROVE  ContactInv'
<1>1. UNCHANGED <<contacts, welcomes, threads, ingestFaults>> /\ hook[h].pc \in {"contact", "count"}
  BY DEF FindContact, CountContacts, tables, world, Doing
<1>2. hook[h].pc \notin Apart /\ ContactsTyped /\ ContactsTyped' /\ StoringInv /\ NewInv
  BY <1>1 DEF Apart, Early, ContactInv, ContactsTyped
<1>3. Customer(h) \in Customers /\ \A c \in Customers : contacts[c] <= contacts'[c]
  BY <1>1, <1>2, CustomerOf DEF ContactsTyped
<1>4. CASE FindContact(h) /\ ~(contacts[Customer(h)] > 0)
  <2>1. hook' = [hook EXCEPT ![h].pc = "count", ![h].new = hook[h].post \in Whatsapp] /\ hook[h].pc = "contact"
    BY <1>4 DEF FindContact, Doing
  <2>2. /\ Only(h) /\ hook'[h].pc = "count" /\ hook'[h].post = hook[h].post /\ hook'[h].todo = hook[h].todo
        /\ hook'[h].new <=> hook[h].post \in Whatsapp
    BY <1>2, <2>1, CountedAs
  <2>3. Customer(h)' = Customer(h)
    BY <2>2 DEF Customer, Item
  <2>4. contacts[Customer(h)] = 0
    BY <1>2, <1>3, <1>4 DEF ContactsTyped
  <2>5. ASSUME NEW c \in Customers PROVE contacts'[c] + Cardinality(Storing(c)') <= Cardinality(Hooks)
    <3>1. CASE c = Customer(h)
      BY <1>1, <2>4, <3>1, RequestsThen
    <3>2. CASE c # Customer(h)
      <4>1. Storing(c)' = Storing(c)
        <5>1. h \notin Storing(c)' /\ h \notin Storing(c)
          BY <2>2, <2>3, <3>2, OneHookGoes DEF Storing
        <5>2. QED
          BY <2>2, <5>1, OneHookGoes
      <4>2. QED
        BY <1>1, <1>2, <4>1 DEF StoringInv
    <3>3. QED
      BY <3>1, <3>2
  <2>6. ASSUME RoomInv, NEW c \in Customers PROVE welcomes'[c] + Cardinality(Welcoming(c)') <= Cardinality(Hooks)
    <3>1. CASE c = Customer(h)
      <4>1. welcomes[c] = 0
        BY <1>2, <2>4, <2>6, <3>1 DEF RoomInv, ContactsTyped
      <4>2. QED
        BY <1>1, <4>1, RequestsThen
    <3>2. CASE c # Customer(h)
      <4>1. Welcoming(c)' = Welcoming(c)
        <5>1. h \notin Welcoming(c)' /\ h \notin Welcoming(c)
          BY <2>2, <2>3, <3>2, OneHookGoes DEF Welcoming
        <5>2. QED
          BY <2>2, <5>1, OneHookGoes
      <4>2. QED
        BY <1>1, <2>6, <4>1 DEF RoomInv
    <3>3. QED
      BY <3>1, <3>2
  <2>7. hook'[h].pc \in Seeking /\ hook'[h].pc \in Counting /\ hook'[h].pc \notin Past
    BY <2>2 DEF Seeking, Counting, Past
  <2>8. StoringInv'
    BY <2>5 DEF StoringInv
  <2>9. ASSUME RoomInv, Roomy
        PROVE  /\ \A c \in Customers : welcomes'[c] > 0 => contacts'[c] > 0
               /\ \A c \in threads' : contacts'[c] > 0 \/ \E g \in Hooks : hook'[g].pc \in Seeking /\ Customer(g)' = c
    BY <1>1, <1>2, <1>3, <2>2, <2>3, <2>7, <2>9, RoomKept
  <2>10. QED
    BY <1>1, <1>2, <1>3, <2>2, <2>6, <2>7, <2>8, <2>9, ContactMoves
<1>5. CASE ~(FindContact(h) /\ ~(contacts[Customer(h)] > 0))
  <2>1. /\ \E label \in {"create contact", "thread", "message"} :
              /\ Continue(h, label)
              /\ label = "create contact" => CountContacts(h)
              /\ label # "create contact" => contacts[Customer(h)] > 0 \/ ~(Total < MaxSubscribers)
    <3>1. AfterContact(h) \in {"thread", "message"}
      BY DEF AfterContact
    <3>2. CASE FindContact(h)
      BY <1>5, <3>1, <3>2 DEF FindContact
    <3>3. CASE CountContacts(h)
      <4>1. Total \in Nat /\ MaxSubscribers \in Nat
        BY <1>2, <1>3, CountGrows, IngestAssumption
      <4>2. Total >= MaxSubscribers <=> ~(Total < MaxSubscribers)
        BY <4>1
      <4>3. QED
        BY <3>1, <3>3, <4>2 DEF CountContacts
    <3>4. QED
      BY <3>2, <3>3
  <2>2. PICK label \in {"create contact", "thread", "message"} :
              /\ Continue(h, label)
              /\ label = "create contact" => CountContacts(h)
              /\ label # "create contact" => contacts[Customer(h)] > 0 \/ ~(Total < MaxSubscribers)
    BY <2>1
  <2>3. /\ Only(h) /\ hook'[h].pc = label /\ hook'[h].post = hook[h].post
        /\ Customer(h)' = Customer(h) /\ hook'[h].new = hook[h].new
    BY <2>2, ContactGoesOn DEF Labels
  <2>4. label = "create contact" => hook[h].pc = "count"
    BY <2>2 DEF CountContacts, Doing
  <2>5. \A c : Storing(c)' \subseteq Storing(c) /\ Welcoming(c)' = Welcoming(c)
    <3>1. \A c : h \in Storing(c)' => h \in Storing(c)
      BY <2>3, <2>4, OneHookGoes DEF Storing, Counting
    <3>2. \A c : h \in Welcoming(c)' <=> h \in Welcoming(c)
      BY <2>3, OneHookGoes DEF Welcoming
    <3>3. ASSUME NEW c PROVE Storing(c)' \subseteq Storing(c) /\ Welcoming(c)' = Welcoming(c)
      <4>1. /\ Storing(c)' \subseteq Storing(c) \cup {h} /\ Welcoming(c)' \subseteq Welcoming(c) \cup {h}
            /\ Welcoming(c) \subseteq Welcoming(c)' \cup {h}
        BY <2>3, OneHookGoes
      <4>2. Storing(c)' \subseteq Storing(c)
        BY <3>1, <4>1
      <4>3. Welcoming(c)' \subseteq Welcoming(c) /\ Welcoming(c) \subseteq Welcoming(c)'
        BY <3>2, <4>1
      <4>4. QED
        BY <4>2, <4>3
    <3>4. QED
      BY <3>3
  <2>6. StoringInv'
    BY <1>1, <1>2, <2>5, FewerStoring
  <2>7. /\ label \in Counting \cup Past /\ (label \in Past => label # "create contact")
        /\ label \notin Past => label \in Seeking
    BY DEF Counting, Past, Seeking
  <2>8. hook'[h].new => hook'[h].pc \in Counting \cup Past /\ hook'[h].post \in Whatsapp
    BY <1>2, <2>3, <2>7 DEF NewInv
  <2>9. ASSUME RoomInv, Roomy
        PROVE  /\ hook'[h].pc \in Past => contacts'[Customer(h)'] > 0
               /\ \A c \in Customers : welcomes'[c] > 0 => contacts'[c] > 0
               /\ \A c \in Customers : welcomes'[c] + Cardinality(Welcoming(c)') <= Cardinality(Hooks)
               /\ \A c \in threads' : contacts'[c] > 0 \/ \E g \in Hooks : hook'[g].pc \in Seeking /\ Customer(g)' = c
    <3>1. hook'[h].pc \in Past => contacts'[Customer(h)] > 0
      BY <1>1, <2>2, <2>3, <2>7, <2>9 DEF Roomy
    <3>2. \A c \in Customers : welcomes'[c] + Cardinality(Welcoming(c)') <= Cardinality(Hooks)
      BY <1>1, <2>5, <2>9 DEF RoomInv
    <3>3. hook'[h].pc \in Seeking \/ contacts'[Customer(h)] > 0
      BY <2>3, <2>7, <3>1
    <3>4. QED
      BY <1>1, <1>2, <1>3, <2>3, <2>9, <3>1, <3>2, <3>3, RoomKept
  <2>10. QED
    BY <1>1, <1>2, <1>3, <2>3, <2>6, <2>8, <2>9, ContactMoves
<1>6. QED
  BY <1>4, <1>5

LEMMA ContactStored ==
  ASSUME KnownInv, ContactInv, NEW h \in Hooks, CreateContact(h)
  PROVE  ContactInv'
<1> DEFINE d == Customer(h)
<1>1. /\ UNCHANGED <<welcomes, threads, ingestFaults>> /\ hook[h].pc = "create contact"
      /\ contacts' = [contacts EXCEPT ![d] = @ + 1] /\ Continue(h, AfterContact(h))
  BY DEF CreateContact, world, Doing
<1>2. hook[h].pc \notin Apart /\ ContactsTyped /\ StoringInv /\ NewInv
  BY <1>1 DEF Apart, Early, ContactInv
<1>3. d \in Customers
  BY <1>2, CustomerOf
<1>4. /\ contacts' \in [Customers -> Nat] /\ contacts'[d] = contacts[d] + 1 /\ contacts[d] \in Nat
      /\ \A c \in Customers : contacts[c] \in Nat /\ (c # d => contacts'[c] = contacts[c])
  <2>1. contacts \in [Customers -> Nat] /\ d \in Customers /\ contacts' = [contacts EXCEPT ![d] = @ + 1]
    BY <1>1, <1>2, <1>3 DEF ContactsTyped
  <2> HIDE DEF d
  <2>2. QED
    BY <2>1
<1>5. ContactsTyped' /\ \A c \in Customers : contacts[c] <= contacts'[c]
  <2>1. ContactsTyped'
    BY <1>1, <1>2, <1>4 DEF ContactsTyped
  <2>2. ASSUME NEW c \in Customers PROVE contacts[c] <= contacts'[c]
    <3> HIDE DEF d
    <3>1. contacts[c] \in Nat /\ (c # d => contacts'[c] = contacts[c]) /\ (c = d => contacts'[c] = contacts[c] + 1)
      BY <1>4
    <3>2. QED
      BY <3>1
  <2>3. QED
    BY <2>1, <2>2
<1>6. AfterContact(h) \in {"thread", "message"}
  BY DEF AfterContact
<1>7. /\ Only(h) /\ hook'[h].pc = AfterContact(h) /\ hook'[h].post = hook[h].post
      /\ d' = d /\ hook'[h].new = hook[h].new
  BY <1>1, <1>6, ContactGoesOn DEF Labels
<1>8. hook'[h].pc \in Past /\ hook'[h].pc \notin Counting
  BY <1>6, <1>7 DEF Past, Counting
<1>9. h \in Storing(d) /\ \A c : h \notin Storing(c)' /\ (h \in Welcoming(c)' <=> h \in Welcoming(c))
  <2>1. h \in Storing(d)
    BY <1>1 DEF Storing
  <2>2. \A c : h \notin Storing(c)'
    BY <1>7, <1>8, OneHookGoes
  <2>3. \A c : h \in Welcoming(c)' <=> h \in Welcoming(c)
    BY <1>7, OneHookGoes DEF Welcoming
  <2>4. QED
    BY <2>1, <2>2, <2>3
<1>10. ASSUME NEW c PROVE Storing(c)' \subseteq Storing(c) \ {h} /\ Welcoming(c)' = Welcoming(c)
  <2>1. /\ Storing(c)' \subseteq Storing(c) \cup {h} /\ Welcoming(c)' \subseteq Welcoming(c) \cup {h}
        /\ Welcoming(c) \subseteq Welcoming(c)' \cup {h}
    BY <1>7, OneHookGoes
  <2>2. Storing(c)' \subseteq Storing(c) \ {h}
    BY <1>9, <2>1
  <2>3. Welcoming(c)' \subseteq Welcoming(c) /\ Welcoming(c) \subseteq Welcoming(c)'
    BY <1>9, <2>1
  <2>4. QED
    BY <2>2, <2>3
<1>11. StoringInv'
  <2>1. ASSUME NEW c \in Customers PROVE contacts'[c] + Cardinality(Storing(c)') <= Cardinality(Hooks)
    <3>1. /\ IsFiniteSet(Storing(c)) /\ Cardinality(Storing(c)) \in Nat /\ Cardinality(Hooks) \in Nat
          /\ Cardinality(Storing(c)') \in Nat
      BY Requests, RequestsThen
    <3>2. contacts[c] \in Nat /\ contacts[c] + Cardinality(Storing(c)) <= Cardinality(Hooks)
      BY <1>2 DEF StoringInv, ContactsTyped
    <3>3. CASE c = d
      <4>1. Cardinality(Storing(d) \ {h}) = Cardinality(Storing(d)) - 1 /\ IsFiniteSet(Storing(d) \ {h})
        BY <1>9, <3>1, <3>3, FS_RemoveElement
      <4>2. Storing(c)' \in SUBSET (Storing(c) \ {h})
        BY <1>10
      <4>3. Cardinality(Storing(c)') <= Cardinality(Storing(c) \ {h})
        BY <3>3, <4>1, <4>2, Fewer
      <4>4. contacts'[c] = contacts[c] + 1
        BY <1>4, <3>3
      <4>5. QED
        BY <3>1, <3>2, <3>3, <4>1, <4>3, <4>4
    <3>4. CASE c # d
      <4>1. Storing(c)' \subseteq Storing(c)
        BY <1>10
      <4>2. Cardinality(Storing(c)') <= Cardinality(Storing(c))
        BY <3>1, <4>1, Fewer
      <4>3. QED
        BY <1>4, <3>1, <3>2, <3>4, <4>2
    <3>5. QED
      BY <3>3, <3>4
  <2>2. QED
    BY <2>1 DEF StoringInv
<1>12. hook'[h].new => hook'[h].pc \in Counting \cup Past /\ hook'[h].post \in Whatsapp
  BY <1>2, <1>7, <1>8 DEF NewInv
<1>13. ASSUME RoomInv, Roomy
       PROVE  /\ contacts'[d'] > 0
              /\ \A c \in Customers : welcomes'[c] > 0 => contacts'[c] > 0
              /\ \A c \in Customers : welcomes'[c] + Cardinality(Welcoming(c)') <= Cardinality(Hooks)
              /\ \A c \in threads' : contacts'[c] > 0 \/ \E g \in Hooks : hook'[g].pc \in Seeking /\ Customer(g)' = c
  <2>1. contacts'[d] > 0
    BY <1>4
  <2>2. \A c \in Customers : welcomes'[c] + Cardinality(Welcoming(c)') <= Cardinality(Hooks)
    BY <1>1, <1>10, <1>13 DEF RoomInv
  <2>3. QED
    BY <1>1, <1>5, <1>7, <1>13, <2>1, <2>2, RoomKept
<1>14. QED
  BY <1>1, <1>5, <1>7, <1>11, <1>12, <1>13, ContactMoves

LEMMA ContactThreads ==
  ASSUME KnownInv, ContactInv, NEW h \in Hooks, CreateThread(h)
  PROVE  ContactInv'
<1> DEFINE d == Customer(h)
<1>1. UNCHANGED <<contacts, welcomes, ingestFaults>> /\ hook[h].pc = "create thread" /\ threads' = threads \cup {d}
  BY DEF CreateThread, world, Doing
<1>2. hook[h].pc \notin Apart \cup Seeking /\ hook[h].pc \in Past /\ ContactsTyped /\ StoringInv /\ NewInv
  BY <1>1 DEF Apart, Early, Seeking, Past, ContactInv
<1>3. d \in Customers
  BY <1>2, CustomerOf
<1>4. CASE d \in threads
  <2>1. DropItem(h) /\ threads' = threads
    BY <1>1, <1>4 DEF CreateThread
  <2>2. QED
    BY <1>1, <1>2, <2>1, ContactDrops
<1>5. CASE d \notin threads
  <2>1. PICK label \in {"message", "contact"} :
           Continue(h, label) /\ (label = "message" <=> hook[h].post \in Whatsapp)
    BY <1>5 DEF CreateThread
  <2>2. /\ Only(h) /\ hook'[h].pc = label /\ hook'[h].post = hook[h].post
        /\ d' = d /\ hook'[h].new = hook[h].new
    BY <2>1, ContactGoesOn DEF Labels
  <2>3. label \notin Counting /\ (label = "message" => label \in Past) /\ (label = "contact" => label \in Seeking)
    BY DEF Counting, Past, Seeking
  <2>4. hook'[h].new => hook'[h].pc \in Counting \cup Past /\ hook'[h].post \in Whatsapp
    BY <1>2, <2>1, <2>2, <2>3 DEF NewInv
  <2>5. ContactsTyped' /\ \A c \in Customers : contacts[c] <= contacts'[c]
    BY <1>1, <1>2, <1>3, SameContacts DEF ContactsTyped
  <2>6. \A c : Storing(c)' \subseteq Storing(c) /\ Welcoming(c)' \subseteq Welcoming(c)
    <3>1. \A c : h \notin Storing(c)' /\ (h \in Welcoming(c)' => h \in Welcoming(c))
      BY <2>2, <2>3, OneHookGoes DEF Welcoming
    <3>2. ASSUME NEW c PROVE Storing(c)' \subseteq Storing(c) /\ Welcoming(c)' \subseteq Welcoming(c)
      <4>1. Storing(c)' \subseteq Storing(c) \cup {h} /\ Welcoming(c)' \subseteq Welcoming(c) \cup {h}
        BY <2>2, OneHookGoes
      <4>2. QED
        BY <3>1, <4>1
    <3>3. QED
      BY <3>2
  <2>8. StoringInv'
    BY <1>1, <1>2, <2>6, FewerStoring
  <2>9. ASSUME RoomInv, Roomy
        PROVE  /\ hook'[h].pc \in Past /\ hook'[h].post \in Whatsapp => contacts'[d'] > 0
               /\ \A c \in Customers : welcomes'[c] > 0 => contacts'[c] > 0
               /\ \A c \in Customers : welcomes'[c] + Cardinality(Welcoming(c)') <= Cardinality(Hooks)
               /\ \A c \in threads' : contacts'[c] > 0 \/ \E g \in Hooks : hook'[g].pc \in Seeking /\ Customer(g)' = c
    <3>1. hook[h].post \in Whatsapp => contacts[d] > 0
      BY <1>2, <2>9 DEF RoomInv
    <3>2. hook'[h].pc \in Seeking \/ contacts'[d] > 0
      BY <1>1, <2>1, <2>2, <2>3, <3>1
    <3>3. ASSUME NEW c \in threads'
          PROVE  contacts'[c] > 0 \/ \E g \in Hooks : hook'[g].pc \in Seeking /\ Customer(g)' = c
      <4>1. CASE c = d
        BY <2>2, <3>2, <4>1
      <4>2. CASE c # d
        <5>1. contacts[c] > 0 \/ \E g \in Hooks : hook[g].pc \in Seeking /\ Customer(g) = c
          BY <1>1, <2>9, <4>2 DEF RoomInv
        <5>2. ASSUME NEW g \in Hooks, hook[g].pc \in Seeking PROVE hook'[g] = hook[g] /\ Customer(g)' = Customer(g)
          BY <1>2, <2>2, <5>2 DEF Only, Customer, Item
        <5>3. QED
          BY <1>1, <5>1, <5>2
      <4>3. QED
        BY <4>1, <4>2
    <3>4. \A c \in Customers : welcomes'[c] + Cardinality(Welcoming(c)') <= Cardinality(Hooks)
      BY <1>1, <1>2, <2>6, <2>9, FewerWelcoming
    <3>5. \A c \in Customers : welcomes'[c] > 0 => contacts'[c] > 0
      BY <1>1, <2>9 DEF RoomInv
    <3>6. QED
      BY <1>1, <2>2, <3>1, <3>3, <3>4, <3>5
  <2>10. QED
    BY <1>1, <2>2, <2>4, <2>5, <2>8, <2>9, ContactMoves
<1>6. QED
  BY <1>4, <1>5

LEMMA ContactWelcomed ==
  ASSUME KnownInv, ContactInv, NEW h \in Hooks, StartFlows(h)
  PROVE  ContactInv'
<1> DEFINE d == Customer(h)
<1>1. /\ UNCHANGED <<contacts, threads, ingestFaults>> /\ hook[h].pc = "flows" /\ DropItem(h)
      /\ welcomes' = [welcomes EXCEPT ![d] = @ + IF hook[h].new THEN 1 ELSE 0]
  BY DEF StartFlows, tables, world, Doing
<1>2. hook[h].pc \notin Apart \cup Seeking /\ hook[h].pc \in Past /\ ContactsTyped /\ StoringInv /\ NewInv
  BY <1>1 DEF Apart, Early, Seeking, Past, ContactInv
<1>3. d \in Customers /\ hook[h].new \in BOOLEAN
  BY <1>2, CustomerOf, AtItem DEF Hook
<1>4. ~hook'[h].new /\ hook'[h].pc = "next" /\ Only(h)
  BY <1>1, <1>2, NoLongerNew
<1>5. hook'[h].pc \notin Counting /\ hook'[h].pc \notin Past
  BY <1>4 DEF Counting, Past
<1>6. /\ welcomes' \in [Customers -> Nat] /\ welcomes[d] \in Nat
      /\ \A c \in Customers : c # d => welcomes'[c] = welcomes[c]
      /\ welcomes'[d] = welcomes[d] + IF hook[h].new THEN 1 ELSE 0
  <2>1. welcomes \in [Customers -> Nat]
    BY <1>2 DEF ContactsTyped
  <2> HIDE DEF d
  <2>2. QED
    BY <1>1, <1>3, <2>1
<1>7. ContactsTyped' /\ \A c \in Customers : contacts[c] <= contacts'[c]
  BY <1>1, <1>2, <1>6, SameContacts DEF ContactsTyped
<1>8. ASSUME NEW c PROVE Storing(c)' \subseteq Storing(c) /\ Welcoming(c)' \subseteq Welcoming(c) \ {h}
  <2>1. /\ Storing(c)' \subseteq Storing(c) \cup {h} /\ Welcoming(c)' \subseteq Welcoming(c) \cup {h}
        /\ h \notin Storing(c)' /\ h \notin Welcoming(c)'
    BY <1>4, <1>5, OneHookGoes
  <2>2. QED
    BY <2>1
<1>9. StoringInv'
  BY <1>1, <1>2, <1>8, FewerStoring
<1>10. ASSUME RoomInv
       PROVE  /\ \A c \in Customers : welcomes'[c] > 0 => contacts'[c] > 0
              /\ \A c \in Customers : welcomes'[c] + Cardinality(Welcoming(c)') <= Cardinality(Hooks)
              /\ \A c \in threads' : contacts'[c] > 0 \/ \E g \in Hooks : hook'[g].pc \in Seeking /\ Customer(g)' = c
  <2>1. hook[h].new => contacts[d] > 0
    BY <1>2, <1>10 DEF RoomInv, NewInv
  <2>2. ASSUME NEW c \in Customers, welcomes'[c] > 0 PROVE contacts'[c] > 0
    <3>1. CASE c = d /\ hook[h].new
      BY <1>1, <2>1, <3>1
    <3>2. CASE ~(c = d /\ hook[h].new)
      <4>1. welcomes'[c] = welcomes[c]
        BY <1>3, <1>6, <3>2
      <4>2. QED
        BY <1>1, <1>10, <2>2, <4>1 DEF RoomInv
    <3>3. QED
      BY <3>1, <3>2
  <2>3. ASSUME NEW c \in Customers PROVE welcomes'[c] + Cardinality(Welcoming(c)') <= Cardinality(Hooks)
    <3>1. /\ IsFiniteSet(Welcoming(c)) /\ Cardinality(Welcoming(c)) \in Nat /\ Cardinality(Hooks) \in Nat
          /\ Cardinality(Welcoming(c)') \in Nat
      BY Requests, RequestsThen
    <3>2. welcomes[c] \in Nat /\ welcomes[c] + Cardinality(Welcoming(c)) <= Cardinality(Hooks)
      BY <1>2, <1>10 DEF RoomInv, ContactsTyped
    <3>3. CASE c = d /\ hook[h].new
      <4>1. h \in Welcoming(c)
        BY <3>3 DEF Welcoming
      <4>2. Cardinality(Welcoming(c) \ {h}) = Cardinality(Welcoming(c)) - 1 /\ IsFiniteSet(Welcoming(c) \ {h})
        BY <3>1, <4>1, FS_RemoveElement
      <4>3. Welcoming(c)' \in SUBSET (Welcoming(c) \ {h})
        BY <1>8
      <4>4. Cardinality(Welcoming(c)') <= Cardinality(Welcoming(c) \ {h})
        BY <4>2, <4>3, Fewer
      <4>5. welcomes'[c] = welcomes[c] + 1
        BY <1>6, <3>3
      <4>6. QED
        BY <3>1, <3>2, <4>2, <4>4, <4>5
    <3>4. CASE ~(c = d /\ hook[h].new)
      <4>1. welcomes'[c] = welcomes[c]
        BY <1>3, <1>6, <3>4
      <4>2. Welcoming(c)' \in SUBSET Welcoming(c)
        BY <1>8
      <4>3. Cardinality(Welcoming(c)') <= Cardinality(Welcoming(c))
        BY <3>1, <4>2, Fewer
      <4>4. QED
        BY <3>1, <3>2, <4>1, <4>3
    <3>5. QED
      BY <3>3, <3>4
  <2>4. ASSUME NEW c \in threads
        PROVE  contacts'[c] > 0 \/ \E g \in Hooks : hook'[g].pc \in Seeking /\ Customer(g)' = c
    <3>1. contacts[c] > 0 \/ \E g \in Hooks : hook[g].pc \in Seeking /\ Customer(g) = c
      BY <1>10 DEF RoomInv
    <3>2. ASSUME NEW g \in Hooks, hook[g].pc \in Seeking PROVE hook'[g] = hook[g] /\ Customer(g)' = Customer(g)
      BY <1>2, <1>4, <3>2 DEF Only, Customer, Item
    <3>3. QED
      BY <1>1, <3>1, <3>2
  <2>5. QED
    BY <1>1, <2>2, <2>3, <2>4
<1>11. QED
  BY <1>1, <1>4, <1>5, <1>7, <1>9, <1>10, ContactMoves

LEMMA ContactFaults ==
  ASSUME KnownInv, ContactInv, IngestCrash \/ \E h \in Hooks : IngestFail(h)
  PROVE  ContactInv'
<1>1. UNCHANGED <<contacts, threads, welcomes>> /\ ingestFaults' = ingestFaults + 1 /\ ingestFaults \in Nat
  <2>1. CASE IngestCrash
    BY <2>1 DEF IngestCrash, tables, KnownInv, IngestTyped
  <2>2. CASE \E h \in Hooks : IngestFail(h)
    BY <2>2 DEF IngestFail, tables, KnownInv, IngestTyped
  <2>3. QED
    BY <2>1, <2>2
<1>2. ContactsTyped /\ StoringInv /\ NewInv /\ ContactsTyped'
  BY <1>1 DEF ContactInv, ContactsTyped
<1>3. ~Roomy'
  BY <1>1 DEF Roomy
<1>4. CASE IngestCrash
  <2>1. \A h \in Hooks : hook'[h].pc = "idle" /\ ~hook'[h].new
    BY <1>4 DEF IngestCrash, Free
  <2>2. NewInv' /\ \A c : Storing(c)' \subseteq Storing(c)
    BY <2>1 DEF NewInv, Storing
  <2>3. QED
    BY <1>1, <1>2, <1>3, <2>2, FewerStoring DEF ContactInv
<1>5. ASSUME NEW h \in Hooks, IngestFail(h) PROVE ContactInv'
  <2>1. Only(h) /\ ~hook'[h].new /\ hook'[h].pc \in {"idle", "next"}
    <3>1. CASE hook[h].pc \in Early
      <4>1. hook' = [hook EXCEPT ![h] = Free] /\ Free.pc = "idle" /\ ~Free.new
        BY <1>5, <3>1 DEF IngestFail, Early, Free
      <4>2. QED
        BY <4>1, FreedAs
    <3>2. CASE hook[h].pc \notin Early
      <4>1. DropItem(h) /\ hook[h].pc \notin Apart
        BY <1>5, <3>2 DEF IngestFail, Early, Doing, Apart
      <4>2. QED
        BY <4>1, NoLongerNew
    <3>3. QED
      BY <3>1, <3>2
  <2>2. NewInv'
    BY <1>2, <2>1 DEF NewInv, Only
  <2>3. ASSUME NEW c PROVE Storing(c)' \subseteq Storing(c)
    <3>1. Storing(c)' \subseteq Storing(c) \cup {h} /\ h \notin Storing(c)'
      BY <2>1, OneHookGoes DEF Counting
    <3>2. QED
      BY <3>1
  <2>4. QED
    BY <1>1, <1>2, <1>3, <2>2, <2>3, FewerStoring DEF ContactInv
<1>6. QED
  BY <1>4, <1>5

LEMMA ContactInvStep ==
  ASSUME KnownInv, ContactInv, [IngestNext]_ingestVars
  PROVE  ContactInv'
<1>1. ASSUME NEW h \in Hooks, NEW p \in Posts, Arrive(h, p) PROVE ContactInv'
  <2>1. /\ UNCHANGED <<contacts, threads, welcomes, ingestFaults>> /\ Only(h)
        /\ hook'[h].pc \in {"request", "next"} /\ ~hook'[h].new /\ hook[h].pc = "idle"
    BY <1>1, ArrivesAs
  <2>2. hook[h].pc \notin Seeking /\ hook'[h].pc \notin Counting /\ hook'[h].pc \notin Past
    BY <2>1 DEF Seeking, Counting, Past
  <2>3. QED
    BY <2>1, <2>2, ContactQuiet
<1>2. ASSUME NEW h \in Hooks, HandlePost(h) PROVE ContactInv'
  BY <1>2, ContactOthers, ContactStep, ContactStored, ContactThreads, ContactWelcomed DEF HandlePost
<1>3. CASE UNCHANGED ingestVars \/ \E ch \in Platforms : DisconnectChannel(ch)
  <2>1. UNCHANGED <<contacts, threads, welcomes, hook, ingestFaults>>
    BY <1>3 DEF ingestVars, tables, world, DisconnectChannel
  <2>2. (\A c : Storing(c)' = Storing(c) /\ Welcoming(c)' = Welcoming(c)) /\ \A h : Customer(h)' = Customer(h)
    BY <2>1 DEF Storing, Welcoming, Customer, Item
  <2>3. (ContactsTyped' <=> ContactsTyped) /\ (StoringInv' <=> StoringInv) /\ (NewInv' <=> NewInv)
    BY <2>1, <2>2 DEF ContactsTyped, StoringInv, NewInv
  <2>4. (Roomy' <=> Roomy) /\ (RoomInv' <=> RoomInv)
    BY <2>1, <2>2 DEF Roomy, Total, ContactRows, RoomInv
  <2>5. QED
    BY <2>3, <2>4 DEF ContactInv
<1>4. QED
  BY <1>1, <1>2, <1>3, ContactFaults DEF IngestNext

LEMMA IngestSays ==
  ASSUME OnceInv, ContactInv
  PROVE  MessageOnce /\ ContactOnce
<1>1. MessageOnce
  BY DEF OnceInv, MessageOnce
<1>2. ASSUME NEW c \in Customers
      PROVE  /\ contacts[c] + Cardinality(Storing(c)) <= Cardinality(Hooks)
             /\ Roomy => /\ welcomes[c] + Cardinality(Welcoming(c)) <= Cardinality(Hooks)
                         /\ c \in threads => \/ contacts[c] > 0
                                            \/ \E h \in Hooks : hook[h].pc \in Seeking /\ Customer(h) = c
  BY DEF ContactInv, StoringInv, RoomInv
<1>3. ContactOnce
  BY <1>2 DEF ContactOnce, Roomy, Seeking
<1>4. QED
  BY <1>1, <1>3

-----------------------------------------------------------------------------
(* CampaignPage: how often a campaign is sent.                                *)

DeedRow == [pc : {"idle", "sent", "checked", "running", "done"}, kind : {"none", "execute", "cancel"},
         id : Bulletins \cup {NoBulletin}]
RollRow == [pc : {"idle", "asked", "answered"}, list : [Bulletins -> Statuses], moved : SUBSET Bulletins]

\* A request is about a campaign, only the page cancels, and what is sent is executed.
DeedInOrder(q) ==
    /\ q.pc = "idle" => q = NoDeed
    /\ q.pc # "idle" => q.id \in Bulletins /\ q.kind # "none"
    /\ q.pc = "running" => q.kind = "execute"

DeedsTyped ==
    /\ deed \in [Senders -> DeedRow] /\ \A s \in Senders : DeedInOrder(deed[s])
    /\ deed[Cron].kind # "cancel" /\ deed[Cron].pc # "done"

CampaignTyped ==
    /\ DeedsTyped
    /\ bstatus \in [Bulletins -> Statuses] /\ campaigns \in [Bulletins -> Statuses]
    /\ roll \in [Presses -> RollRow]
    /\ details \in [open : BOOLEAN, id : Bulletins \cup {NoBulletin}, status : Statuses]
    /\ details.open => details.id \in Bulletins
    /\ box \in [kind : {"none", "execute", "cancel"}, id : Bulletins \cup {NoBulletin}]
    /\ box.kind # "none" => box.id \in Bulletins
    /\ draft \in [open : BOOLEAN, filled : BOOLEAN] /\ submit \in {"idle", "sent", "stored"}
    /\ sendings \in [Bulletins -> Nat]
    /\ moved \subseteq Bulletins /\ doubled \subseteq Bulletins /\ quiet \subseteq Bulletins
    /\ made \in Nat /\ dropped \in Nat

\* Of a campaign that nobody doubled, one request at most is being sent, it is the first one, and what was sent is
\* marked so or cancelled.
SentInOrder(b) ==
    /\ \A s, t \in InHand(b) : s = t
    /\ \A s \in InHand(b) : deed[s].pc = "checked" => sendings[b] = 0
    /\ sendings[b] <= 1
    /\ sendings[b] > 0 => bstatus[b] \in {"SENDING", "SENT", "CANCELLED"}

Silenced(b) == bstatus[b] = "CANCELLED" /\ InHand(b) = {} /\ deed[Cron].id # b

CampaignInv ==
    /\ CampaignTyped
    /\ \A b \in Bulletins \ doubled : SentInOrder(b)
    /\ \A b \in quiet : Silenced(b)
    /\ made <= dropped + IF submit = "stored" THEN 1 ELSE 0

LEMMA NoDeedFits == NoDeed \in DeedRow /\ DeedInOrder(NoDeed) /\ NoRoll \in RollRow
<1>1. "none" \in Statuses
  BY DEF Statuses
<1>2. QED
  BY <1>1 DEF NoDeed, DeedRow, DeedInOrder, NoRoll, RollRow

LEMMA CampaignInvInit == CampaignPageInit => CampaignInv
<1> SUFFICES ASSUME CampaignPageInit PROVE CampaignInv
  OBVIOUS
<1>1. {"none", "DRAFT", "SCHEDULED"} \subseteq Statuses
  BY DEF Statuses, Sendable
<1>2. NoRoll.list \in [Bulletins -> Statuses] /\ NoDeed.pc = "idle" /\ NoDeed.kind = "none"
      /\ NoDeed.id = NoBulletin
  BY <1>1 DEF NoRoll, NoDeed
<1>3. Cron \in Senders
  BY DEF Senders
<1>4. DeedsTyped
  BY <1>2, <1>3, NoDeedFits DEF CampaignPageInit, DeedsTyped
<1>5. CampaignTyped
  <2>1. bstatus \in [Bulletins -> Statuses] /\ campaigns \in [Bulletins -> Statuses] /\ roll \in [Presses -> RollRow]
    BY <1>1, <1>2, NoDeedFits DEF CampaignPageInit
  <2>2. /\ details \in [open : BOOLEAN, id : Bulletins \cup {NoBulletin}, status : Statuses] /\ ~details.open
        /\ box \in [kind : {"none", "execute", "cancel"}, id : Bulletins \cup {NoBulletin}] /\ box.kind = "none"
    BY <1>1 DEF CampaignPageInit, NoDetails, NoBox
  <2>3. /\ draft \in [open : BOOLEAN, filled : BOOLEAN] /\ submit = "idle" /\ made = 0 /\ dropped = 0
        /\ sendings \in [Bulletins -> Nat] /\ moved \subseteq Bulletins /\ doubled \subseteq Bulletins
        /\ quiet \subseteq Bulletins
    BY DEF CampaignPageInit
  <2>4. QED
    BY <1>4, <2>1, <2>2, <2>3 DEF CampaignTyped
<1>6. \A b \in Bulletins : InHand(b) = {} /\ sendings[b] = 0
  BY <1>2 DEF CampaignPageInit, InHand, AtWork
<1>7. QED
  BY <1>5, <1>6 DEF CampaignPageInit, CampaignInv, SentInOrder

\* One request goes on.
DeedTo(s) == DeedsTyped' /\ \A t \in Senders \ {s} : deed'[t] = deed[t]

LEMMA DeedAs ==
  ASSUME DeedsTyped, NEW s \in Senders, NEW q \in DeedRow, DeedInOrder(q),
         s = Cron => q.kind # "cancel" /\ q.pc # "done", deed' = [deed EXCEPT ![s] = q]
  PROVE  DeedTo(s) /\ deed'[s] = q
<1>1. deed' \in [Senders -> DeedRow] /\ deed'[s] = q /\ \A t \in Senders \ {s} : deed'[t] = deed[t]
  BY DEF DeedsTyped
<1>2. \A t \in Senders : DeedInOrder(deed'[t])
  BY <1>1 DEF DeedsTyped
<1>3. Cron \in Senders
  BY DEF Senders
<1>4. deed'[Cron].kind # "cancel" /\ deed'[Cron].pc # "done"
  BY <1>1, <1>3 DEF DeedsTyped
<1>5. DeedsTyped'
  BY <1>1, <1>2, <1>4 DEF DeedsTyped, DeedInOrder
<1>6. QED
  BY <1>1, <1>5 DEF DeedTo

LEMMA DeedEnds ==
  ASSUME DeedsTyped, NEW s \in Senders, deed' = [deed EXCEPT ![s] = NoDeed]
  PROVE  DeedTo(s) /\ deed'[s] = NoDeed
<1>1. NoDeed.kind = "none" /\ NoDeed.pc = "idle"
  BY DEF NoDeed
<1>2. QED
  BY <1>1, NoDeedFits, DeedAs

LEMMA DeedGoesOn ==
  ASSUME DeedsTyped, NEW s \in Senders, deed[s].pc # "idle", NEW label \in {"checked", "running", "done"},
         label = "running" => deed[s].kind = "execute", s = Cron => label # "done",
         deed' = [deed EXCEPT ![s].pc = label]
  PROVE  /\ DeedTo(s) /\ deed'[s].pc = label /\ deed'[s].kind = deed[s].kind /\ deed'[s].id = deed[s].id
         /\ deed[s].id \in Bulletins
<1> DEFINE q == [deed[s] EXCEPT !.pc = label]
<1>1. deed[s] \in DeedRow /\ DeedInOrder(deed[s]) /\ (s = Cron => deed[s].kind # "cancel")
  BY DEF DeedsTyped
<1>2. q \in DeedRow /\ q.pc = label /\ q.kind = deed[s].kind /\ q.id = deed[s].id
  BY <1>1 DEF DeedRow
<1>3. deed[s].id \in Bulletins /\ DeedInOrder(q)
  BY <1>1, <1>2 DEF DeedInOrder
<1>4. deed' = [deed EXCEPT ![s] = q]
  OBVIOUS
<1> HIDE DEF q
<1>5. QED
  BY <1>1, <1>2, <1>3, <1>4, DeedAs

\* Requests that are being sent, after one went on.
LEMMA HandMoves ==
  ASSUME DeedsTyped, NEW s \in Senders, DeedTo(s), NEW b
  PROVE  /\ InHand(b)' \subseteq InHand(b) \cup {s}
         /\ \A t \in Senders \ {s} : deed'[t] = deed[t] /\ (t \in InHand(b)' <=> t \in InHand(b))
         /\ s \in InHand(b)' <=> /\ deed'[s].id = b /\ deed'[s].kind = "execute"
                                 /\ deed'[s].pc \in {"checked", "running"}
         /\ s \in InHand(b) <=> /\ deed[s].id = b /\ deed[s].kind = "execute"
                                /\ deed[s].pc \in {"checked", "running"}
BY DEF DeedTo, InHand, AtWork

\* The page's own state.
PageTyped ==
    /\ bstatus \in [Bulletins -> Statuses] /\ campaigns \in [Bulletins -> Statuses]
    /\ roll \in [Presses -> RollRow]
    /\ details \in [open : BOOLEAN, id : Bulletins \cup {NoBulletin}, status : Statuses]
    /\ details.open => details.id \in Bulletins
    /\ box \in [kind : {"none", "execute", "cancel"}, id : Bulletins \cup {NoBulletin}]
    /\ box.kind # "none" => box.id \in Bulletins
    /\ draft \in [open : BOOLEAN, filled : BOOLEAN] /\ submit \in {"idle", "sent", "stored"}
    /\ sendings \in [Bulletins -> Nat]
    /\ moved \subseteq Bulletins /\ doubled \subseteq Bulletins /\ quiet \subseteq Bulletins
    /\ made \in Nat /\ dropped \in Nat

LEMMA CampaignTypedIs == CampaignTyped <=> DeedsTyped /\ PageTyped
BY DEF CampaignTyped, PageTyped

\* A status that is written leaves the other campaigns' as they were.
LEMMA Becomes ==
  ASSUME PageTyped, NEW b \in Bulletins, NEW status \in Statuses, Become(b, status)
  PROVE  /\ bstatus' \in [Bulletins -> Statuses] /\ bstatus'[b] = status
         /\ \A c \in Bulletins \ {b} : bstatus'[c] = bstatus[c]
         /\ campaigns' \in [Bulletins -> Statuses] /\ roll' \in [Presses -> RollRow] /\ moved' \subseteq Bulletins
<1>1. \A k \in Presses : roll[k] \in RollRow /\ [roll[k] EXCEPT !.moved = @ \cup {b}] \in RollRow
  BY DEF PageTyped, RollRow
<1>2. roll' \in [Presses -> RollRow]
  BY <1>1 DEF Become
<1>3. QED
  BY <1>2 DEF Become, PageTyped

LEMMA FetchSent ==
  ASSUME PageTyped, NEW k \in Presses, FetchCampaigns(k)
  PROVE  roll' \in [Presses -> RollRow] /\ campaigns' \in [Bulletins -> Statuses] /\ moved' \subseteq Bulletins
<1>1. roll[k] \in RollRow
  BY DEF PageTyped
<1>2. [roll[k] EXCEPT !.pc = "asked"] \in RollRow
  BY <1>1 DEF RollRow
<1>3. QED
  BY <1>2 DEF FetchCampaigns, PageTyped

\* What the page does without a request to send or cancel.
PageStep ==
    \/ \E k \in Presses : FirstRoll(k) \/ FindCampaigns(k) \/ SetCampaigns(k) \/ FetchCampaignsFails(k)
    \/ \E b \in Bulletins : ViewDetails(b) \/ AskOnCard(b)
    \/ CloseDetails \/ AskInDrawer \/ CloseDraft \/ FillForm \/ CreateCampaign \/ CreateFails
    \/ UNCHANGED campaignPageVars

LEMMA PageStepTyped ==
  ASSUME CampaignInv, PageStep
  PROVE  /\ PageTyped' /\ UNCHANGED <<deed, bstatus, sentVars>>
         /\ (made <= dropped + IF submit = "stored" THEN 1 ELSE 0)'
<1>1. PageTyped /\ made <= dropped + IF submit = "stored" THEN 1 ELSE 0
  BY CampaignTypedIs DEF CampaignInv
<1>2. CASE \E k \in Presses : FirstRoll(k) \/ FindCampaigns(k) \/ SetCampaigns(k) \/ FetchCampaignsFails(k)
  <2>1. PICK k \in Presses : FirstRoll(k) \/ FindCampaigns(k) \/ SetCampaigns(k) \/ FetchCampaignsFails(k)
    BY <1>2
  <2>2. roll[k] \in RollRow /\ NoRoll \in RollRow
    BY <1>1, NoDeedFits DEF PageTyped
  <2>3. UNCHANGED <<deed, bstatus, details, box, formVars, sentVars>>
    BY <2>1 DEF FirstRoll, FindCampaigns, SetCampaigns, FetchCampaignsFails
  <2>4. roll' \in [Presses -> RollRow] /\ campaigns' \in [Bulletins -> Statuses] /\ moved' \subseteq Bulletins
    <3>1. CASE FirstRoll(k)
      BY <1>1, <3>1, FetchSent DEF FirstRoll
    <3>2. CASE FindCampaigns(k)
      <4>1. [pc |-> "answered", list |-> bstatus, moved |-> {}] \in RollRow
        BY <1>1 DEF PageTyped, RollRow
      <4>2. QED
        BY <1>1, <3>2, <4>1 DEF FindCampaigns, PageTyped
    <3>3. CASE SetCampaigns(k)
      <4>1. roll[k].list \in [Bulletins -> Statuses] /\ roll[k].moved \subseteq Bulletins
        BY <2>2 DEF RollRow
      <4>2. QED
        BY <1>1, <2>2, <3>3, <4>1 DEF SetCampaigns, PageTyped
    <3>4. CASE FetchCampaignsFails(k)
      BY <1>1, <2>2, <3>4 DEF FetchCampaignsFails, PageTyped
    <3>5. QED
      BY <2>1, <3>1, <3>2, <3>3, <3>4
  <2>5. QED
    BY <1>1, <2>3, <2>4 DEF PageTyped, formVars, sentVars
<1>3. CASE \E b \in Bulletins : ViewDetails(b) \/ AskOnCard(b)
  <2>1. PICK b \in Bulletins : ViewDetails(b) \/ AskOnCard(b)
    BY <1>3
  <2>2. UNCHANGED <<deed, bstatus, campaignShown, formVars, sentVars>>
    BY <2>1 DEF ViewDetails, AskOnCard
  <2>3. /\ details' = details \/ details' = [open |-> TRUE, id |-> b, status |-> campaigns[b]]
        /\ box' = box \/ box' = [kind |-> Offered(campaigns[b]), id |-> b]
    BY <2>1 DEF ViewDetails, AskOnCard
  <2>4. campaigns[b] \in Statuses /\ Offered(campaigns[b]) \in {"none", "execute", "cancel"}
    BY <1>1 DEF PageTyped, Offered
  <2>5. /\ details' \in [open : BOOLEAN, id : Bulletins \cup {NoBulletin}, status : Statuses]
        /\ details'.open => details'.id \in Bulletins
        /\ box' \in [kind : {"none", "execute", "cancel"}, id : Bulletins \cup {NoBulletin}]
        /\ box'.kind # "none" => box'.id \in Bulletins
    <3>1. details' \in [open : BOOLEAN, id : Bulletins \cup {NoBulletin}, status : Statuses]
      <4>1. [open |-> TRUE, id |-> b, status |-> campaigns[b]] \in
               [open : BOOLEAN, id : Bulletins \cup {NoBulletin}, status : Statuses]
        BY <2>4
      <4>2. details \in [open : BOOLEAN, id : Bulletins \cup {NoBulletin}, status : Statuses]
        BY <1>1 DEF PageTyped
      <4>3. QED
        BY <2>3, <4>1, <4>2
    <3>2. details'.open => details'.id \in Bulletins
      BY <1>1, <2>3, <2>4 DEF PageTyped
    <3>3. box' \in [kind : {"none", "execute", "cancel"}, id : Bulletins \cup {NoBulletin}]
      BY <1>1, <2>3, <2>4 DEF PageTyped
    <3>4. box'.kind # "none" => box'.id \in Bulletins
      BY <1>1, <2>3, <2>4 DEF PageTyped
    <3>5. QED
      BY <3>1, <3>2, <3>3, <3>4
  <2>6. QED
    BY <1>1, <2>2, <2>5 DEF PageTyped, campaignShown, formVars, sentVars
<1>4. CASE CloseDetails \/ AskInDrawer
  <2>1. UNCHANGED <<deed, bstatus, campaignShown, formVars, sentVars>>
    BY <1>4 DEF CloseDetails, AskInDrawer
  <2>2. /\ details' = [details EXCEPT !.open = FALSE]
        /\ box' = box \/ (details.open /\ box' = [kind |-> Offered(details.status), id |-> details.id])
    BY <1>4 DEF CloseDetails, AskInDrawer
  <2>3. Offered(details.status) \in {"none", "execute", "cancel"}
    BY DEF Offered
  <2>4. /\ details' \in [open : BOOLEAN, id : Bulletins \cup {NoBulletin}, status : Statuses]
        /\ details'.open => details'.id \in Bulletins
        /\ box' \in [kind : {"none", "execute", "cancel"}, id : Bulletins \cup {NoBulletin}]
        /\ box'.kind # "none" => box'.id \in Bulletins
    <3>1. details' \in [open : BOOLEAN, id : Bulletins \cup {NoBulletin}, status : Statuses]
      BY <1>1, <2>2, <2>3 DEF PageTyped
    <3>2. details'.open => details'.id \in Bulletins
      BY <1>1, <2>2, <2>3 DEF PageTyped
    <3>3. box' \in [kind : {"none", "execute", "cancel"}, id : Bulletins \cup {NoBulletin}]
      BY <1>1, <2>2, <2>3 DEF PageTyped
    <3>4. box'.kind # "none" => box'.id \in Bulletins
      BY <1>1, <2>2, <2>3 DEF PageTyped
    <3>5. QED
      BY <3>1, <3>2, <3>3, <3>4
  <2>5. QED
    BY <1>1, <2>1, <2>4 DEF PageTyped, campaignShown, formVars, sentVars
<1>5. CASE CloseDraft \/ FillForm \/ CreateCampaign \/ CreateFails
  <2>1. UNCHANGED <<deed, bstatus, campaignShown, details, box, sentVars>>
    BY <1>5 DEF CloseDraft, FillForm, CreateCampaign, CreateFails
  <2>2. /\ draft' \in [open : BOOLEAN, filled : BOOLEAN] /\ submit' \in {"idle", "sent", "stored"}
        /\ made' \in Nat /\ dropped' \in Nat /\ (made <= dropped + IF submit = "stored" THEN 1 ELSE 0)'
    <3>1. draft \in [open : BOOLEAN, filled : BOOLEAN] /\ submit \in {"idle", "sent", "stored"}
          /\ made \in Nat /\ dropped \in Nat
      BY <1>1 DEF PageTyped
    <3>2. CASE CloseDraft
      BY <1>1, <3>1, <3>2 DEF CloseDraft
    <3>3. CASE FillForm
      BY <1>1, <3>1, <3>3 DEF FillForm
    <3>4. CASE CreateCampaign
      BY <1>1, <3>1, <3>4 DEF CreateCampaign
    <3>5. CASE CreateFails
      BY <1>1, <3>1, <3>5 DEF CreateFails
    <3>6. QED
      BY <1>5, <3>2, <3>3, <3>4, <3>5
  <2>3. QED
    BY <1>1, <2>1, <2>2 DEF PageTyped, campaignShown, sentVars
<1>6. CASE UNCHANGED campaignPageVars
  BY <1>1, <1>6 DEF campaignPageVars, PageTyped, formVars, sentVars, campaignShown
<1>7. QED
  BY <1>2, <1>3, <1>4, <1>5, <1>6 DEF PageStep

\* A request that is not, and does not become, one that is being sent.
LEMMA AsideStep ==
  ASSUME CampaignInv, NEW s \in Senders, DeedTo(s), \A b : s \in InHand(b)' => s \in InHand(b),
         deed'[s].pc \in {"checked", "running"} => deed'[s].pc = deed[s].pc,
         s = Cron => \A b \in quiet : deed'[s].id # b,
         UNCHANGED <<bstatus, sentVars>>
  PROVE  (\A b \in Bulletins \ doubled : SentInOrder(b))' /\ (\A b \in quiet : Silenced(b))'
<1>1. DeedsTyped /\ \A b \in Bulletins \ doubled : SentInOrder(b)
  BY CampaignTypedIs DEF CampaignInv
<1>2. \A b : InHand(b)' \subseteq InHand(b) /\ \A t \in InHand(b)' : deed'[t].pc = deed[t].pc
  <2> SUFFICES ASSUME NEW b, NEW t \in InHand(b)' PROVE t \in InHand(b) /\ deed'[t].pc = deed[t].pc
    OBVIOUS
  <2>1. t \in Senders /\ deed'[t].pc \in {"checked", "running"}
    BY DEF InHand, AtWork
  <2>2. CASE t = s
    BY <2>1, <2>2
  <2>3. CASE t # s
    BY <1>1, <2>1, <2>3, HandMoves
  <2>4. QED
    BY <2>2, <2>3
<1>3. ASSUME NEW b \in Bulletins \ doubled PROVE SentInOrder(b)'
  BY <1>1, <1>2 DEF SentInOrder, sentVars
<1>4. Cron \in Senders /\ \A b \in quiet : deed'[Cron].id # b
  BY DEF CampaignInv, Silenced, Senders, DeedTo
<1>5. ASSUME NEW b \in quiet PROVE Silenced(b)'
  BY <1>2, <1>4 DEF CampaignInv, Silenced
<1>6. QED
  BY <1>3, <1>5 DEF sentVars

LEMMA SomeSenders == Presses \subseteq Senders /\ Cron \in Senders /\ \A k \in Presses : k # Cron
BY CampaignPageAssumption DEF Senders

LEMMA DecideStep ==
  ASSUME CampaignInv, NEW k \in Presses, Decide(k)
  PROVE  CampaignInv'
<1> DEFINE q == [pc |-> "sent", kind |-> box.kind, id |-> box.id]
<1>1. DeedsTyped /\ PageTyped /\ k \in Senders /\ k # Cron
  BY SomeSenders, CampaignTypedIs DEF CampaignInv
<1>2. box.kind \in {"execute", "cancel"} /\ box.id \in Bulletins
  BY <1>1 DEF Decide, PageTyped
<1>3. q \in DeedRow /\ DeedInOrder(q) /\ q.pc = "sent" /\ q.kind # "none"
  BY <1>2 DEF DeedRow, DeedInOrder
<1>4. /\ UNCHANGED <<bstatus, campaignShown, details, formVars, sentVars>>
      /\ box' = NoBox /\ (deed' = deed \/ deed' = [deed EXCEPT ![k] = q])
  BY DEF Decide
<1>5. PageTyped'
  <2>1. NoBox \in [kind : {"none", "execute", "cancel"}, id : Bulletins \cup {NoBulletin}] /\ NoBox.kind = "none"
    BY DEF NoBox
  <2>2. QED
    BY <1>1, <1>4, <2>1 DEF PageTyped, campaignShown, formVars, sentVars
<1> HIDE DEF q
<1>6. deed' = deed \/ (DeedTo(k) /\ deed'[k] = q)
  BY <1>1, <1>3, <1>4, DeedAs
<1>7. (\A b \in Bulletins \ doubled : SentInOrder(b))' /\ (\A b \in quiet : Silenced(b))' /\ DeedsTyped'
  <2>1. CASE deed' = deed
    BY <1>1, <1>4, <2>1 DEF CampaignInv, SentInOrder, Silenced, InHand, AtWork, sentVars, DeedsTyped, DeedInOrder
  <2>2. CASE DeedTo(k) /\ deed'[k] = q
    <3>1. \A b : k \notin InHand(b)'
      BY <1>3, <2>2 DEF InHand
    <3>2. QED
      BY <1>1, <1>3, <1>4, <2>2, <3>1, AsideStep DEF DeedTo
  <2>3. QED
    BY <1>6, <2>1, <2>2
<1>8. (made <= dropped + IF submit = "stored" THEN 1 ELSE 0)'
  BY <1>4 DEF CampaignInv, formVars
<1>9. QED
  BY <1>5, <1>7, <1>8, CampaignTypedIs DEF CampaignInv, CampaignTyped, PageTyped

LEMMA CheckStep ==
  ASSUME CampaignInv, NEW s \in Senders, CheckSendable(s)
  PROVE  CampaignInv'
<1> DEFINE b == deed[s].id
<1>1. DeedsTyped /\ PageTyped /\ \A c \in Bulletins \ doubled : SentInOrder(c)
  BY CampaignTypedIs DEF CampaignInv
<1>2. /\ deed[s].pc = "sent" /\ deed[s].kind = "execute" /\ bstatus[b] \notin {"SENT", "CANCELLED", "SENDING"}
      /\ deed' = [deed EXCEPT ![s].pc = "checked"]
      /\ doubled' = IF InHand(b) = {} THEN doubled ELSE doubled \cup {b}
      /\ UNCHANGED <<bstatus, campaignShown, details, box, formVars, sendings, quiet>>
  BY DEF CheckSendable, TurnedDown
<1>3. /\ DeedTo(s) /\ deed'[s].pc = "checked" /\ deed'[s].kind = "execute" /\ deed'[s].id = b /\ b \in Bulletins
  BY <1>1, <1>2, DeedGoesOn
<1> HIDE DEF b
<1>4. \A c : InHand(c)' = IF c = b THEN InHand(c) \cup {s} ELSE InHand(c)
  <2> SUFFICES ASSUME NEW c, NEW t \in Senders
               PROVE  t \in InHand(c)' <=> (t \in InHand(c) \/ (c = b /\ t = s))
    BY DEF InHand, AtWork
  <2>1. s \in InHand(c)' <=> c = b
    BY <1>1, <1>3, HandMoves
  <2>2. s \notin InHand(c)
    BY <1>2 DEF InHand
  <2>3. t # s => (t \in InHand(c)' <=> t \in InHand(c))
    BY <1>1, <1>3, HandMoves
  <2>4. QED
    BY <2>1, <2>2, <2>3
<1>5. ASSUME NEW c \in Bulletins \ doubled' PROVE SentInOrder(c)'
  <2>1. SentInOrder(c) /\ sendings[c] \in Nat
    BY <1>1, <1>2, <1>5 DEF PageTyped
  <2>2. CASE c # b
    <3>1. InHand(c)' = InHand(c) /\ \A t \in InHand(c) : deed'[t] = deed[t]
      BY <1>2, <1>3, <1>4, <2>2 DEF DeedTo, InHand, AtWork
    <3>2. QED
      BY <1>2, <2>1, <3>1 DEF SentInOrder
  <2>3. CASE c = b
    <3>1. InHand(b) = {}
      BY <1>2, <2>3
    <3>2. InHand(c)' = {s} /\ sendings[c] = 0
      BY <1>2, <1>4, <2>1, <2>3, <3>1 DEF SentInOrder
    <3>3. QED
      BY <1>2, <3>2 DEF SentInOrder
  <2>4. QED
    BY <2>2, <2>3
<1>6. ASSUME NEW c \in quiet' PROVE Silenced(c)'
  <2>1. Silenced(c) /\ c # b
    BY <1>2 DEF CampaignInv, Silenced
  <2>2. deed'[Cron].id = deed[Cron].id
    BY <1>3, SomeSenders DEF DeedTo, b
  <2>3. QED
    BY <1>2, <1>4, <2>1, <2>2 DEF Silenced
<1>7. PageTyped'
  BY <1>1, <1>2, <1>3 DEF PageTyped, campaignShown, formVars
<1>8. (made <= dropped + IF submit = "stored" THEN 1 ELSE 0)'
  BY <1>2 DEF CampaignInv, formVars
<1>9. QED
  BY <1>3, <1>5, <1>6, <1>7, <1>8, CampaignTypedIs DEF CampaignInv, CampaignTyped, PageTyped, DeedTo

\* After a status is written by the request whose campaign it is.
LEMMA WritePage ==
  ASSUME CampaignInv, NEW b \in Bulletins, NEW status \in Statuses, Become(b, status),
         sendings' \in [Bulletins -> Nat], doubled' \subseteq Bulletins, quiet' \subseteq Bulletins,
         UNCHANGED <<details, box, formVars>>
  PROVE  PageTyped' /\ (made <= dropped + IF submit = "stored" THEN 1 ELSE 0)'
<1>1. PageTyped
  BY CampaignTypedIs DEF CampaignInv
<1>2. /\ bstatus' \in [Bulletins -> Statuses] /\ campaigns' \in [Bulletins -> Statuses]
      /\ roll' \in [Presses -> RollRow] /\ moved' \subseteq Bulletins
  BY <1>1, Becomes
<1>3. PageTyped'
  BY <1>1, <1>2 DEF PageTyped, formVars
<1>4. QED
  BY <1>3 DEF CampaignInv, formVars

LEMMA MarkSendingStep ==
  ASSUME CampaignInv, NEW s \in Senders, MarkSending(s)
  PROVE  CampaignInv'
<1> DEFINE b == deed[s].id
<1>1. DeedsTyped /\ PageTyped /\ \A c \in Bulletins \ doubled : SentInOrder(c)
  BY CampaignTypedIs DEF CampaignInv
<1>2. /\ deed[s].pc = "checked" /\ deed[s].kind = "execute"
      /\ Become(b, "SENDING") /\ sendings' = [sendings EXCEPT ![b] = @ + 1]
      /\ deed' = [deed EXCEPT ![s].pc = "running"]
      /\ UNCHANGED <<details, box, formVars, doubled, quiet>>
  BY DEF MarkSending
<1>3. /\ DeedTo(s) /\ deed'[s].pc = "running" /\ deed'[s].kind = "execute" /\ deed'[s].id = b /\ b \in Bulletins
  BY <1>1, <1>2, DeedGoesOn
<1>4. "SENDING" \in Statuses
  BY DEF Statuses
<1>5. /\ bstatus'[b] = "SENDING" /\ \A c \in Bulletins \ {b} : bstatus'[c] = bstatus[c]
  BY <1>1, <1>2, <1>3, <1>4, Becomes
<1>6. /\ sendings' \in [Bulletins -> Nat] /\ sendings'[b] = sendings[b] + 1 /\ sendings[b] \in Nat
      /\ \A c \in Bulletins \ {b} : sendings'[c] = sendings[c]
  BY <1>1, <1>2, <1>3 DEF PageTyped
<1>7. s \in InHand(b) /\ \A c : (c # b => s \notin InHand(c)) /\ InHand(c)' = InHand(c)
  <2>1. s \in InHand(b) /\ \A c : c # b => s \notin InHand(c)
    BY <1>2 DEF InHand, AtWork
  <2>2. ASSUME NEW c, NEW t \in Senders PROVE t \in InHand(c)' <=> t \in InHand(c)
    BY <1>1, <1>2, <1>3, <2>1, HandMoves
  <2>3. QED
    BY <2>1, <2>2 DEF InHand, AtWork
<1>8. PageTyped' /\ (made <= dropped + IF submit = "stored" THEN 1 ELSE 0)'
  <2>1. doubled' \subseteq Bulletins /\ quiet' \subseteq Bulletins
    BY <1>1, <1>2 DEF PageTyped
  <2>2. QED
    BY <1>2, <1>3, <1>4, <1>6, <2>1, WritePage
<1> HIDE DEF b
<1>9. ASSUME NEW c \in Bulletins \ doubled' PROVE SentInOrder(c)'
  <2>1. SentInOrder(c)
    BY <1>1, <1>2
  <2>2. CASE c # b
    <3>1. \A t \in InHand(c) : deed'[t] = deed[t]
      BY <1>3, <1>7, <2>2 DEF DeedTo, InHand, AtWork
    <3>2. QED
      BY <1>5, <1>6, <1>7, <2>1, <2>2, <3>1 DEF SentInOrder
  <2>3. CASE c = b
    <3>1. sendings[b] = 0 /\ \A t \in InHand(b) : t = s
      BY <1>2, <1>7, <2>1, <2>3 DEF SentInOrder
    <3>2. QED
      BY <1>3, <1>5, <1>6, <1>7, <2>3, <3>1 DEF SentInOrder
  <2>4. QED
    BY <2>2, <2>3
<1>10. ASSUME NEW c \in quiet' PROVE Silenced(c)'
  <2>1. Silenced(c) /\ c # b /\ c \in Bulletins
    BY <1>1, <1>2, <1>7 DEF CampaignInv, Silenced, PageTyped
  <2>2. deed'[Cron].id = deed[Cron].id
    BY <1>3, SomeSenders DEF DeedTo, b
  <2>3. QED
    BY <1>5, <1>7, <2>1, <2>2 DEF Silenced
<1>11. QED
  BY <1>3, <1>8, <1>9, <1>10, CampaignTypedIs DEF CampaignInv, CampaignTyped, PageTyped, DeedTo

\* A request that is no longer being sent, its campaign marked or left.
LEMMA LeaveStep ==
  ASSUME CampaignInv, NEW s \in Senders, DeedTo(s), deed'[s].pc \notin {"checked", "running"},
         s = Cron => deed'[s].id \in {deed[s].id, NoBulletin},
         NEW b \in Bulletins, NEW status \in Statuses, Become(b, status),
         doubled \subseteq doubled', doubled' \subseteq Bulletins, quiet' \subseteq Bulletins,
         UNCHANGED <<details, box, formVars, sendings>>,
         b \notin doubled' /\ sendings[b] > 0 => status \in {"SENDING", "SENT", "CANCELLED"},
         \A c \in quiet' : c \in quiet \/ (c = b /\ InHand(b) = {} /\ deed[Cron].id # b),
         b \in quiet' => status = "CANCELLED"
  PROVE  CampaignInv'
<1>1. DeedsTyped /\ PageTyped /\ \A c \in Bulletins \ doubled : SentInOrder(c)
  BY CampaignTypedIs DEF CampaignInv
<1>2. bstatus'[b] = status /\ \A c \in Bulletins \ {b} : bstatus'[c] = bstatus[c]
  BY <1>1, Becomes
<1>3. \A c : InHand(c)' = InHand(c) \ {s}
  <2> SUFFICES ASSUME NEW c, NEW t \in Senders
               PROVE  t \in InHand(c)' <=> (t \in InHand(c) /\ t # s)
    BY DEF InHand, AtWork
  <2>1. QED
    BY <1>1, HandMoves
<1>4. PageTyped' /\ (made <= dropped + IF submit = "stored" THEN 1 ELSE 0)'
  <2>1. sendings' \in [Bulletins -> Nat]
    BY <1>1 DEF PageTyped
  <2>2. QED
    BY <2>1, WritePage
<1>5. ASSUME NEW c \in Bulletins \ doubled' PROVE SentInOrder(c)'
  <2>1. SentInOrder(c) /\ sendings[c] \in Nat
    BY <1>1 DEF PageTyped
  <2>2. \A t \in InHand(c)' : deed'[t] = deed[t]
    BY <1>3 DEF DeedTo, InHand, AtWork
  <2>3. sendings[c] > 0 => bstatus'[c] \in {"SENDING", "SENT", "CANCELLED"}
    BY <1>2, <2>1 DEF SentInOrder
  <2>4. QED
    BY <1>3, <2>1, <2>2, <2>3 DEF SentInOrder
<1>6. ASSUME NEW c \in quiet' PROVE Silenced(c)'
  <2>1. c \in Bulletins /\ InHand(c) = {} /\ deed[Cron].id # c /\ (c # b => bstatus[c] = "CANCELLED")
    BY DEF CampaignInv, Silenced
  <2>2. deed'[Cron].id \in {deed[Cron].id, NoBulletin}
    BY SomeSenders DEF DeedTo
  <2>3. c # NoBulletin
    BY <2>1, CampaignPageAssumption
  <2>4. QED
    BY <1>2, <1>3, <2>1, <2>2, <2>3 DEF Silenced
<1>7. QED
  BY <1>4, <1>5, <1>6, CampaignTypedIs DEF CampaignInv, CampaignTyped, PageTyped, DeedTo

LEMMA MarkSentStep ==
  ASSUME CampaignInv, NEW s \in Senders, MarkSent(s)
  PROVE  CampaignInv'
<1>1. DeedsTyped /\ PageTyped
  BY CampaignTypedIs DEF CampaignInv
<1>2. /\ deed[s].pc = "running" /\ Become(deed[s].id, "SENT")
      /\ deed' = [deed EXCEPT ![s] = IF s = Cron THEN NoDeed ELSE [@ EXCEPT !.pc = "done"]]
      /\ UNCHANGED <<details, box, formVars, sentVars>>
  BY DEF MarkSent
<1>3. deed[s].id \in Bulletins /\ deed[s].kind = "execute"
  BY <1>1, <1>2 DEF DeedsTyped, DeedInOrder
<1>4. s \in InHand(deed[s].id)
  BY <1>2, <1>3 DEF InHand, AtWork
<1>5. /\ DeedTo(s) /\ deed'[s].pc \notin {"checked", "running"}
      /\ s = Cron => deed'[s].id \in {deed[s].id, NoBulletin}
  <2>1. CASE s = Cron
    <3>1. deed' = [deed EXCEPT ![s] = NoDeed]
      BY <1>2, <2>1
    <3>2. DeedTo(s) /\ deed'[s] = NoDeed
      BY <1>1, <3>1, DeedEnds
    <3>3. QED
      BY <3>2 DEF NoDeed
  <2>2. CASE s # Cron
    <3>1. deed' = [deed EXCEPT ![s].pc = "done"]
      BY <1>2, <2>2
    <3>2. QED
      BY <1>1, <1>2, <2>2, <3>1, DeedGoesOn
  <2>3. QED
    BY <2>1, <2>2
<1>6. "SENT" \in Statuses
  BY DEF Statuses
<1>7. /\ UNCHANGED <<sendings, doubled, quiet>> /\ doubled \subseteq Bulletins /\ quiet \subseteq Bulletins
      /\ deed[s].id \notin quiet
  BY <1>1, <1>2, <1>4 DEF sentVars, PageTyped, CampaignInv, Silenced
<1>8. QED
  BY <1>2, <1>3, <1>5, <1>6, <1>7, LeaveStep

LEMMA CancelStep ==
  ASSUME CampaignInv, NEW k \in Presses, CancelCampaign(k)
  PROVE  CampaignInv'
<1>1. DeedsTyped /\ PageTyped /\ k \in Senders /\ k # Cron
  BY CampaignTypedIs, SomeSenders DEF CampaignInv
<1>2. /\ deed[k].pc = "checked" /\ Become(deed[k].id, "CANCELLED")
      /\ quiet' = IF InHand(deed[k].id) = {} /\ deed[Cron].id # deed[k].id THEN quiet \cup {deed[k].id} ELSE quiet
      /\ deed' = [deed EXCEPT ![k].pc = "done"]
      /\ UNCHANGED <<details, box, formVars, sendings, doubled>>
  BY DEF CancelCampaign
<1>3. DeedTo(k) /\ deed'[k].pc = "done" /\ deed[k].id \in Bulletins
  BY <1>1, <1>2, DeedGoesOn
<1>4. "CANCELLED" \in Statuses
  BY DEF Statuses
<1>5. doubled \subseteq Bulletins /\ quiet' \subseteq Bulletins
  BY <1>1, <1>2, <1>3 DEF PageTyped
<1>6. QED
  BY <1>1, <1>2, <1>3, <1>4, <1>5, LeaveStep

LEMMA CronParksStep ==
  ASSUME CampaignInv, CronParks
  PROVE  CampaignInv'
<1> DEFINE b == deed[Cron].id
<1>1. DeedsTyped /\ PageTyped /\ Cron \in Senders
  BY CampaignTypedIs, SomeSenders DEF CampaignInv
<1>2. /\ deed[Cron].pc # "idle" /\ Become(b, "DRAFT")
      /\ doubled' = IF sendings[b] = 0 /\ AtWork(b) = {Cron} THEN doubled ELSE doubled \cup {b}
      /\ deed' = [deed EXCEPT ![Cron] = NoDeed]
      /\ UNCHANGED <<details, box, formVars, sendings, quiet>>
  BY DEF CronParks
<1>3. b \in Bulletins
  BY <1>1, <1>2 DEF DeedsTyped, DeedInOrder
<1>4. DeedTo(Cron) /\ deed'[Cron].pc = "idle" /\ deed'[Cron].id = NoBulletin
  <2>1. DeedTo(Cron) /\ deed'[Cron] = NoDeed
    BY <1>1, <1>2, DeedEnds
  <2>2. QED
    BY <2>1 DEF NoDeed
<1>5. "DRAFT" \in Statuses
  BY DEF Statuses, Sendable
<1>6. b \notin quiet /\ quiet \subseteq Bulletins /\ sendings[b] \in Nat
  BY <1>1, <1>3 DEF CampaignInv, Silenced, PageTyped
<1>7. doubled \subseteq doubled' /\ doubled' \subseteq Bulletins /\ (b \notin doubled' => sendings[b] = 0)
  BY <1>1, <1>2, <1>3 DEF PageTyped
<1> HIDE DEF b
<1>8. QED
  BY <1>1, <1>2, <1>3, <1>4, <1>5, <1>6, <1>7, LeaveStep

LEMMA CronFindsStep ==
  ASSUME CampaignInv, NEW b \in Bulletins, CronFinds(b)
  PROVE  CampaignInv'
<1> DEFINE q == [pc |-> "sent", kind |-> "execute", id |-> b]
<1>1. DeedsTyped /\ PageTyped /\ Cron \in Senders
  BY CampaignTypedIs, SomeSenders DEF CampaignInv
<1>2. /\ bstatus[b] = "SCHEDULED" /\ deed' = [deed EXCEPT ![Cron] = q]
      /\ UNCHANGED <<bstatus, campaignShown, details, box, formVars, sentVars>>
  BY DEF CronFinds
<1>3. q \in DeedRow /\ DeedInOrder(q) /\ q.pc = "sent" /\ q.kind = "execute" /\ q.id = b
  BY DEF DeedRow, DeedInOrder
<1> HIDE DEF q
<1>4. DeedTo(Cron) /\ deed'[Cron] = q
  BY <1>1, <1>2, <1>3, DeedAs
<1>5. \A c : Cron \notin InHand(c)'
  BY <1>3, <1>4 DEF InHand
<1>6. b \notin quiet
  BY <1>2 DEF CampaignInv, Silenced
<1>7. (\A c \in Bulletins \ doubled : SentInOrder(c))' /\ (\A c \in quiet : Silenced(c))'
  BY <1>1, <1>2, <1>3, <1>4, <1>5, <1>6, AsideStep
<1>8. PageTyped' /\ (made <= dropped + IF submit = "stored" THEN 1 ELSE 0)'
  BY <1>1, <1>2 DEF PageTyped, CampaignInv, campaignShown, formVars, sentVars
<1>9. QED
  BY <1>4, <1>7, <1>8, CampaignTypedIs DEF CampaignInv, CampaignTyped, PageTyped, DeedTo

\* What the page's requests come to.
LEMMA AnswerStep ==
  ASSUME CampaignInv, NEW k \in Presses,
         CheckCancellable(k) \/ DeedFails(k) \/ \E j \in Presses : DeedDone(k, j)
  PROVE  CampaignInv'
<1>1. DeedsTyped /\ PageTyped /\ k \in Senders /\ k # Cron
  BY CampaignTypedIs, SomeSenders DEF CampaignInv
<1>2. UNCHANGED <<bstatus, details, box, formVars, sentVars>>
  BY DEF CheckCancellable, DeedFails, DeedDone
<1>3. /\ DeedTo(k) /\ (\A b : k \in InHand(b)' => k \in InHand(b)) /\ \A b : k \notin InHand(b)'
      /\ deed'[k].pc \in {"checked", "running"} => deed'[k].pc = deed[k].pc \/ deed'[k].kind = "cancel"
  <2>1. CASE CheckCancellable(k)
    <3>1. deed[k].pc # "idle" /\ deed[k].kind = "cancel" /\ deed' = [deed EXCEPT ![k].pc = "checked"]
      BY <2>1 DEF CheckCancellable
    <3>2. DeedTo(k) /\ deed'[k].kind = "cancel"
      BY <1>1, <3>1, DeedGoesOn
    <3>3. QED
      BY <3>2 DEF InHand, AtWork
  <2>2. CASE DeedFails(k) \/ \E j \in Presses : DeedDone(k, j)
    <3>1. deed' = [deed EXCEPT ![k] = NoDeed]
      BY <2>2 DEF DeedFails, DeedDone
    <3>2. DeedTo(k) /\ deed'[k] = NoDeed
      BY <1>1, <3>1, DeedEnds
    <3>3. deed'[k].pc = "idle"
      BY <3>2 DEF NoDeed
    <3>4. QED
      BY <3>2, <3>3 DEF InHand
  <2>3. QED
    BY <2>1, <2>2
<1>4. (\A c \in Bulletins \ doubled : SentInOrder(c))' /\ (\A c \in quiet : Silenced(c))'
  <2>1. \A b : InHand(b)' \subseteq InHand(b) /\ \A t \in InHand(b)' : deed'[t] = deed[t]
    <3> SUFFICES ASSUME NEW b, NEW t \in InHand(b)' PROVE t \in InHand(b) /\ deed'[t] = deed[t]
      OBVIOUS
    <3>1. t # k /\ t \in Senders
      BY <1>3 DEF InHand, AtWork
    <3>2. QED
      BY <1>1, <1>3, <3>1, HandMoves
  <2>2. deed'[Cron].id = deed[Cron].id
    BY <1>1, <1>3, SomeSenders DEF DeedTo
  <2>3. ASSUME NEW c \in Bulletins \ doubled PROVE SentInOrder(c)'
    BY <1>2, <2>1, <2>3 DEF SentInOrder, sentVars, CampaignInv
  <2>4. ASSUME NEW c \in quiet PROVE Silenced(c)'
    BY <1>2, <2>1, <2>2, <2>4 DEF Silenced, CampaignInv
  <2>5. QED
    BY <1>2, <2>3, <2>4 DEF sentVars
<1>5. roll' \in [Presses -> RollRow] /\ campaigns' \in [Bulletins -> Statuses] /\ moved' \subseteq Bulletins
  <2>1. CASE CheckCancellable(k) \/ DeedFails(k)
    <3>1. UNCHANGED campaignShown
      BY <2>1 DEF CheckCancellable, DeedFails
    <3>2. QED
      BY <1>1, <3>1 DEF PageTyped, campaignShown
  <2>2. ASSUME NEW j \in Presses, DeedDone(k, j)
        PROVE  roll' \in [Presses -> RollRow] /\ campaigns' \in [Bulletins -> Statuses] /\ moved' \subseteq Bulletins
    BY <1>1, <2>2, FetchSent DEF DeedDone
  <2>3. QED
    BY <2>1, <2>2
<1>6. PageTyped' /\ (made <= dropped + IF submit = "stored" THEN 1 ELSE 0)'
  BY <1>1, <1>2, <1>5 DEF PageTyped, CampaignInv, formVars, sentVars
<1>7. QED
  BY <1>3, <1>4, <1>6, CampaignTypedIs DEF CampaignInv, CampaignTyped, PageTyped, DeedTo

LEMMA FormSentStep ==
  ASSUME CampaignInv, \/ \E b \in Bulletins, status \in Sendable : StoreCampaign(b, status)
                      \/ \E k \in Presses : Created(k)
  PROVE  CampaignInv'
<1>1. DeedsTyped /\ PageTyped
  BY CampaignTypedIs DEF CampaignInv
<1>2. UNCHANGED <<deed, details, box, sentVars>>
  BY DEF StoreCampaign, Created
<1>3. DeedsTyped' /\ \A b : InHand(b)' = InHand(b)
  BY <1>1, <1>2 DEF DeedsTyped, DeedInOrder, InHand, AtWork
<1>4. CASE \E b \in Bulletins, status \in Sendable : StoreCampaign(b, status)
  <2>1. PICK b \in Bulletins, status \in Sendable : StoreCampaign(b, status)
    BY <1>4
  <2>2. /\ submit = "sent" /\ bstatus[b] = "none" /\ Become(b, status) /\ submit' = "stored" /\ made' = made + 1
        /\ UNCHANGED <<draft, dropped>>
    BY <2>1 DEF StoreCampaign
  <2>3. status \in Statuses
    BY DEF Statuses
  <2>4. /\ bstatus' \in [Bulletins -> Statuses] /\ \A c \in Bulletins \ {b} : bstatus'[c] = bstatus[c]
        /\ campaigns' \in [Bulletins -> Statuses] /\ roll' \in [Presses -> RollRow] /\ moved' \subseteq Bulletins
    BY <1>1, <2>2, <2>3, Becomes
  <2>5. made <= dropped /\ made \in Nat /\ dropped \in Nat
    BY <1>1, <2>2 DEF CampaignInv, PageTyped
  <2>6. PageTyped' /\ (made <= dropped + IF submit = "stored" THEN 1 ELSE 0)'
    BY <1>1, <1>2, <2>2, <2>4, <2>5 DEF PageTyped, sentVars
  <2>7. ASSUME NEW c \in Bulletins \ doubled PROVE SentInOrder(c)'
    <3>1. SentInOrder(c) /\ sendings[c] \in Nat
      BY <1>1 DEF CampaignInv, PageTyped
    <3>2. sendings[c] > 0 => bstatus'[c] \in {"SENDING", "SENT", "CANCELLED"}
      BY <2>2, <2>4, <3>1 DEF SentInOrder
    <3>3. QED
      BY <1>2, <1>3, <3>1, <3>2 DEF SentInOrder, sentVars
  <2>8. ASSUME NEW c \in quiet PROVE Silenced(c)'
    BY <1>1, <1>2, <1>3, <2>2, <2>4 DEF CampaignInv, Silenced, PageTyped
  <2>9. QED
    BY <1>2, <1>3, <2>6, <2>7, <2>8 DEF CampaignInv, CampaignTyped, PageTyped, sentVars
<1>5. CASE \E k \in Presses : Created(k)
  <2>1. PICK k \in Presses : Created(k)
    BY <1>5
  <2>2. /\ submit' = "idle" /\ draft' = [open |-> FALSE, filled |-> FALSE] /\ made' = 0 /\ dropped' = 0
        /\ FetchCampaigns(k) /\ UNCHANGED bstatus
    BY <2>1 DEF Created
  <2>3. roll' \in [Presses -> RollRow] /\ campaigns' \in [Bulletins -> Statuses] /\ moved' \subseteq Bulletins
    BY <1>1, <2>2, FetchSent
  <2>4. PageTyped' /\ (made <= dropped + IF submit = "stored" THEN 1 ELSE 0)'
    BY <1>1, <1>2, <2>2, <2>3 DEF PageTyped, sentVars
  <2>5. (\A c \in Bulletins \ doubled : SentInOrder(c))' /\ (\A c \in quiet : Silenced(c))'
    BY <1>2, <1>3, <2>2 DEF CampaignInv, SentInOrder, Silenced, sentVars
  <2>6. QED
    BY <1>2, <1>3, <2>4, <2>5 DEF CampaignInv, CampaignTyped, PageTyped, sentVars
<1>6. QED
  BY <1>4, <1>5

LEMMA CampaignStep ==
  ASSUME CampaignInv, [CampaignPageNext]_campaignPageVars
  PROVE  CampaignInv'
<1>1. CASE PageStep
  <2>1. PageTyped' /\ UNCHANGED <<deed, bstatus, sentVars>> /\ (made <= dropped + IF submit = "stored" THEN 1 ELSE 0)'
    BY <1>1, PageStepTyped
  <2>2. DeedsTyped' /\ \A b : InHand(b)' = InHand(b)
    BY <2>1, CampaignTypedIs DEF CampaignInv, DeedsTyped, DeedInOrder, InHand, AtWork
  <2>3. (\A c \in Bulletins \ doubled : SentInOrder(c))' /\ (\A c \in quiet : Silenced(c))'
    BY <2>1, <2>2 DEF CampaignInv, SentInOrder, Silenced, sentVars
  <2>4. QED
    BY <2>1, <2>2, <2>3 DEF CampaignInv, CampaignTyped, PageTyped, sentVars
<1>2. ASSUME NEW k \in Presses,
             \/ Decide(k) \/ CheckCancellable(k) \/ CancelCampaign(k) \/ DeedFails(k) \/ Created(k)
             \/ \E j \in Presses : DeedDone(k, j)
      PROVE  CampaignInv'
  BY <1>2, DecideStep, AnswerStep, CancelStep, FormSentStep
<1>3. ASSUME NEW s \in Senders, CheckSendable(s) \/ MarkSending(s) \/ MarkSent(s) PROVE CampaignInv'
  BY <1>3, CheckStep, MarkSendingStep, MarkSentStep
<1>4. ASSUME NEW b \in Bulletins, CronFinds(b) PROVE CampaignInv'
  BY <1>4, CronFindsStep
<1>5. QED
  BY <1>1, <1>2, <1>3, <1>4, CronParksStep, FormSentStep DEF CampaignPageNext, PageStep

LEMMA CampaignSays == CampaignInv => SentOnce /\ CancelHolds /\ FormMakesOne
<1>1. SUFFICES ASSUME CampaignInv PROVE SentOnce /\ CancelHolds /\ FormMakesOne
  OBVIOUS
<1>2. SentOnce /\ CancelHolds
  BY <1>1 DEF CampaignInv, SentInOrder, Silenced, SentOnce, CancelHolds
<1>3. made \in Nat /\ dropped \in Nat /\ (made <= dropped + IF submit = "stored" THEN 1 ELSE 0)
  BY <1>1 DEF CampaignInv, CampaignTyped
<1>4. FormMakesOne
  BY <1>3 DEF FormMakesOne
<1>5. QED
  BY <1>2, <1>4

-----------------------------------------------------------------------------
(* AdminConsole: an administrator's letters and announcements.                *)

RowsKept == [Entries -> Entry \cup {Gone}]
ErrandRow == [kind : {"none", "list", "put", "verify", "delete", "letter", "bulletin"},
              pc : {"idle", "sent", "answered", "stored", "running", "lost"}, row : Entries \cup Desks \cup {NoEntry},
              field : {"on", "grade"}, value : BOOLEAN, seek : SUBSET Entries, list : RowsKept, drawn : BOOLEAN,
              to : SUBSET Folk]

\* What a request is about.
ErrandFits(e) ==
    /\ e.kind = "list" => e.row \in Desks
    /\ e.kind \in {"put", "verify", "delete"} => e.row \in Entries
    /\ e.kind = "letter" => e.pc \in {"sent", "stored"} /\ e.row \in Spaces
    /\ e.kind = "bulletin" => e.pc \in {"sent", "running", "lost"}
    /\ e.kind # "bulletin" \/ e.pc = "sent" => e.to = {}

ConsoleTyped ==
    /\ recs \in RowsKept /\ desk \in RowsKept /\ turning \subseteq Desks /\ sought \subseteq Entries
    /\ errand \in [Errands -> ErrandRow] /\ \A k \in Errands : ErrandFits(errand[k])
    /\ opened \in [open : BOOLEAN, row : Spaces \cup {NoEntry}, shows : Entry \cup {Gone}]
    /\ opened.open => opened.row \in Spaces
    /\ opened.row \in Spaces => opened.shows \in Entry
    /\ query \in [kind : {"none", "delete", "bulletin"}, row : Entries \cup {NoEntry}, drawn : BOOLEAN]
    /\ query.kind = "delete" => query.row \in Entries
    /\ letter \in [typed : BOOLEAN, to : Spaces \cup {NoEntry}, says : Spaces \cup {NoEntry}]
    /\ bulletin \in [typed : BOOLEAN, sending : BOOLEAN]
    /\ letters \in Nat /\ posts \in [Folk -> Nat] /\ misheard \in BOOLEAN
    /\ bulletins \in Nat /\ unknown \in [letter : Nat, bulletin : Nat]

\* The letter's requests, and those that are stored; announcements that the page waits for.
Letters == {k \in Errands : errand[k].kind = "letter"}
Mailed == {k \in Letters : errand[k].pc = "stored"}
Announcing == {k \in Errands : errand[k].kind = "bulletin" /\ errand[k].pc \in {"sent", "running"}}
\* Requests that may yet mail an announcement to p.
Owing(p) == {k \in Errands : errand[k].kind = "bulletin" /\ (errand[k].pc = "sent" \/ p \in errand[k].to)}

LetterInv ==
    /\ \A k \in Letters : letter.to = errand[k].row
    /\ \A j, k \in Letters : j = k
    /\ ~misheard /\ opened.open => letter.says \in {NoEntry, opened.row} /\ letter.to \in {NoEntry, opened.row}
    /\ letters <= unknown.letter + IF Mailed # {} \/ (Letters = {} /\ ~letter.typed) THEN 1 ELSE 0

BulletinInv ==
    /\ Announcing # {} => bulletin.sending
    /\ \A j, k \in Announcing : j = k
    /\ query.kind = "bulletin" => bulletin.typed /\ ~bulletin.sending
    /\ \A p \in Folk : posts[p] + Cardinality(Owing(p)) + (IF bulletin.typed /\ ~bulletin.sending THEN 1 ELSE 0)
                            <= bulletins + unknown.bulletin

ConsoleInv == ConsoleTyped /\ LetterInv /\ BulletinInv

LEMMA NoErrandFits ==
  /\ NoErrand \in ErrandRow /\ ErrandFits(NoErrand) /\ NoErrand.kind = "none" /\ NoErrand.pc = "idle"
  /\ [r \in Entries |-> Gone] \in RowsKept
<1>1. [r \in Entries |-> Gone] \in RowsKept
  BY DEF RowsKept
<1>2. QED
  BY <1>1 DEF NoErrand, ErrandRow, ErrandFits

LEMMA ConsoleInvInit == ConsoleInit => ConsoleInv
<1> SUFFICES ASSUME ConsoleInit PROVE ConsoleInv
  OBVIOUS
<1>1. \A k \in Errands : errand[k] = NoErrand
  BY DEF ConsoleInit
<1>2. ConsoleTyped
  <2>1. recs \in RowsKept /\ desk \in RowsKept /\ turning \subseteq Desks /\ sought \subseteq Entries
    BY NoErrandFits DEF ConsoleInit, RowsKept, Entry
  <2>2. errand \in [Errands -> ErrandRow] /\ \A k \in Errands : ErrandFits(errand[k])
    BY <1>1, NoErrandFits DEF ConsoleInit
  <2>3. /\ opened \in [open : BOOLEAN, row : Spaces \cup {NoEntry}, shows : Entry \cup {Gone}]
        /\ ~opened.open /\ opened.row \notin Spaces
    BY AdminConsoleAssumption DEF ConsoleInit, NoPick
  <2>4. /\ query \in [kind : {"none", "delete", "bulletin"}, row : Entries \cup {NoEntry}, drawn : BOOLEAN]
        /\ query.kind = "none"
    BY DEF ConsoleInit, NoQuery
  <2>5. /\ letter \in [typed : BOOLEAN, to : Spaces \cup {NoEntry}, says : Spaces \cup {NoEntry}]
        /\ bulletin \in [typed : BOOLEAN, sending : BOOLEAN]
        /\ letters \in Nat /\ posts \in [Folk -> Nat] /\ misheard \in BOOLEAN
        /\ bulletins \in Nat /\ unknown \in [letter : Nat, bulletin : Nat]
    BY DEF ConsoleInit
  <2>6. QED
    BY <2>1, <2>2, <2>3, <2>4, <2>5 DEF ConsoleTyped
<1>3. Letters = {} /\ Announcing = {} /\ \A p : Owing(p) = {}
  BY <1>1, NoErrandFits DEF Letters, Announcing, Owing
<1>4. LetterInv
  BY <1>3 DEF ConsoleInit, LetterInv, NoPick
<1>5. BulletinInv
  <2>1. \A p : Cardinality(Owing(p)) = 0
    BY <1>3, FS_EmptySet
  <2>2. /\ ~bulletin.typed /\ bulletins = 0 /\ unknown.bulletin = 0 /\ query.kind = "none"
        /\ \A p \in Folk : posts[p] = 0
    BY DEF ConsoleInit, NoQuery
  <2>3. \A p \in Folk : posts[p] + Cardinality(Owing(p)) + (IF bulletin.typed /\ ~bulletin.sending THEN 1 ELSE 0)
                            <= bulletins + unknown.bulletin
    BY <2>1, <2>2
  <2>4. QED
    BY <1>3, <2>2, <2>3 DEF BulletinInv
<1>6. QED
  BY <1>2, <1>4, <1>5 DEF ConsoleInv

\* One request goes on.
ErrandsTyped == errand \in [Errands -> ErrandRow] /\ \A k \in Errands : ErrandFits(errand[k])
ErrandTo(k) == ErrandsTyped' /\ \A j \in Errands \ {k} : errand'[j] = errand[j]
Mails(e) == e.kind \in {"letter", "bulletin"}

LEMMA ErrandAs ==
  ASSUME ErrandsTyped, NEW k \in Errands, NEW q \in ErrandRow, ErrandFits(q), errand' = [errand EXCEPT ![k] = q]
  PROVE  ErrandTo(k) /\ errand'[k] = q
<1>1. errand' \in [Errands -> ErrandRow] /\ errand'[k] = q /\ \A j \in Errands \ {k} : errand'[j] = errand[j]
  BY DEF ErrandsTyped
<1>2. \A j \in Errands : ErrandFits(errand'[j])
  BY <1>1 DEF ErrandsTyped
<1>3. ErrandsTyped'
  BY <1>1, <1>2 DEF ErrandsTyped, ErrandFits
<1>4. QED
  BY <1>1, <1>3 DEF ErrandTo

LEMMA ErrandEnds ==
  ASSUME ErrandsTyped, NEW k \in Errands, errand' = [errand EXCEPT ![k] = NoErrand]
  PROVE  ErrandTo(k) /\ errand'[k] = NoErrand /\ ~Mails(errand'[k]) /\ errand'[k].kind = "none"
<1>1. ErrandTo(k) /\ errand'[k] = NoErrand
  BY NoErrandFits, ErrandAs
<1>2. QED
  BY <1>1, NoErrandFits DEF Mails

\* The page's and the server's own state.
TablesTyped == recs \in RowsKept /\ desk \in RowsKept /\ turning \subseteq Desks /\ sought \subseteq Entries
DrawerTyped ==
    /\ opened \in [open : BOOLEAN, row : Spaces \cup {NoEntry}, shows : Entry \cup {Gone}]
    /\ opened.open => opened.row \in Spaces
    /\ opened.row \in Spaces => opened.shows \in Entry
    /\ query \in [kind : {"none", "delete", "bulletin"}, row : Entries \cup {NoEntry}, drawn : BOOLEAN]
    /\ query.kind = "delete" => query.row \in Entries
MailTyped ==
    /\ letter \in [typed : BOOLEAN, to : Spaces \cup {NoEntry}, says : Spaces \cup {NoEntry}]
    /\ bulletin \in [typed : BOOLEAN, sending : BOOLEAN]
    /\ letters \in Nat /\ posts \in [Folk -> Nat] /\ misheard \in BOOLEAN
    /\ bulletins \in Nat /\ unknown \in [letter : Nat, bulletin : Nat]

LEMMA ConsoleTypedIs == ConsoleTyped <=> ErrandsTyped /\ TablesTyped /\ DrawerTyped /\ MailTyped
BY DEF ConsoleTyped, ErrandsTyped, TablesTyped, DrawerTyped, MailTyped

\* A step of the tables and the drawer: no request that mails begins, goes on or ends.
LEMMA NoMailStep ==
  ASSUME ConsoleInv, ErrandsTyped', TablesTyped', DrawerTyped',
         \A k \in Errands : errand'[k] = errand[k] \/ (~Mails(errand[k]) /\ ~Mails(errand'[k])),
         UNCHANGED mailVars,
         opened'.open => opened.open /\ opened'.row = opened.row,
         query'.kind = "bulletin" => query.kind = "bulletin"
  PROVE  ConsoleInv'
<1>1. LetterInv /\ BulletinInv /\ MailTyped
  BY ConsoleTypedIs DEF ConsoleInv
<1>2. UNCHANGED <<letter, bulletin, letters, posts, misheard, bulletins, unknown>>
  BY DEF mailVars
<1>3. /\ Letters' = Letters /\ Mailed' = Mailed /\ Announcing' = Announcing /\ \A p : Owing(p)' = Owing(p)
      /\ \A k \in Letters : errand'[k] = errand[k]
  BY DEF Letters, Mailed, Announcing, Owing, Mails
<1>4. LetterInv'
  BY <1>1, <1>2, <1>3 DEF LetterInv
<1>5. BulletinInv'
  BY <1>1, <1>2, <1>3 DEF BulletinInv
<1>6. MailTyped'
  BY <1>1, <1>2 DEF MailTyped
<1>7. QED
  BY <1>4, <1>5, <1>6 DEF ConsoleInv, ConsoleTyped, ErrandsTyped, TablesTyped, DrawerTyped, MailTyped

\* A list is asked for.
LEMMA FetchRowsAs ==
  ASSUME ErrandsTyped, TablesTyped, NEW k \in Errands, NEW t \in Desks, NEW seek \in SUBSET Entries,
         FetchRows(k, t, seek)
  PROVE  /\ ErrandTo(k) /\ ~Mails(errand'[k])
         /\ turning' \subseteq Desks /\ desk' = desk
<1> DEFINE q == [NoErrand EXCEPT !.kind = "list", !.pc = "sent", !.row = t, !.seek = seek]
<1>1. q \in ErrandRow /\ ErrandFits(q) /\ ~Mails(q)
  BY NoErrandFits DEF ErrandRow, ErrandFits, Mails, NoErrand
<1>2. errand' = [errand EXCEPT ![k] = q] /\ turning' = turning \cup {t} /\ desk' = desk
  BY DEF FetchRows
<1> HIDE DEF q
<1>3. ErrandTo(k) /\ errand'[k] = q
  BY <1>1, <1>2, ErrandAs
<1>4. QED
  BY <1>1, <1>2, <1>3 DEF TablesTyped

\* A change is asked for.
LEMMA IssueAs ==
  ASSUME ErrandsTyped, TablesTyped, NEW k \in Errands, NEW kind \in {"put", "verify", "delete"}, NEW r \in Entries,
         NEW field \in {"on", "grade"}, NEW value \in BOOLEAN, NEW drawn \in BOOLEAN,
         Issue(k, kind, r, field, value, drawn)
  PROVE  ErrandTo(k) /\ ~Mails(errand'[k])
<1> DEFINE q == [NoErrand EXCEPT !.kind = kind, !.pc = "sent", !.row = r, !.field = field, !.value = value,
                                 !.seek = sought \cap RowsOf(DeskOf(r)), !.drawn = drawn]
<1>1. sought \cap RowsOf(DeskOf(r)) \in SUBSET Entries
  BY DEF TablesTyped
<1>2. q \in ErrandRow /\ ErrandFits(q) /\ ~Mails(q)
  BY <1>1, NoErrandFits DEF ErrandRow, ErrandFits, Mails, NoErrand
<1>3. errand' = [errand EXCEPT ![k] = q]
  BY DEF Issue
<1> HIDE DEF q
<1>4. ErrandTo(k) /\ errand'[k] = q
  BY <1>2, <1>3, ErrandAs
<1>5. QED
  BY <1>2, <1>4

\* A request that mails nothing is answered by the server.
LEMMA ErrandGoesOn ==
  ASSUME ErrandsTyped, NEW k \in Errands, ~Mails(errand[k]), NEW label \in {"stored", "answered"},
         errand' = [errand EXCEPT ![k].pc = label]
  PROVE  ErrandTo(k) /\ ~Mails(errand'[k])
<1> DEFINE q == [errand[k] EXCEPT !.pc = label]
<1>1. errand[k] \in ErrandRow /\ ErrandFits(errand[k])
  BY DEF ErrandsTyped
<1>2. q \in ErrandRow /\ q.kind = errand[k].kind /\ q.row = errand[k].row /\ q.to = errand[k].to
  BY <1>1 DEF ErrandRow
<1>3. ErrandFits(q) /\ ~Mails(q)
  BY <1>1, <1>2 DEF ErrandFits, Mails
<1>4. errand' = [errand EXCEPT ![k] = q]
  OBVIOUS
<1> HIDE DEF q
<1>5. QED
  BY <1>2, <1>3, <1>4, ErrandAs

\* What a step of one request comes to, if it mails nothing.
LEMMA QuietErrand ==
  ASSUME ConsoleInv, NEW k \in Errands, ~Mails(errand[k]), ErrandTo(k), ~Mails(errand'[k]),
         TablesTyped', DrawerTyped', UNCHANGED mailVars,
         opened'.open => opened.open /\ opened'.row = opened.row,
         query'.kind = "bulletin" => query.kind = "bulletin"
  PROVE  ConsoleInv'
<1>1. ErrandsTyped' /\ \A j \in Errands : errand'[j] = errand[j] \/ (~Mails(errand[j]) /\ ~Mails(errand'[j]))
  BY DEF ErrandTo
<1>2. QED
  BY <1>1, NoMailStep

\* A row of a table that is changed.
LEMMA RowChanged ==
  ASSUME NEW hits \in RowsKept, NEW r \in Entries, hits[r] # Gone, NEW v \in BOOLEAN
  PROVE  /\ [hits EXCEPT ![r].on = v] \in RowsKept /\ [hits EXCEPT ![r].grade = v] \in RowsKept
         /\ [hits EXCEPT ![r].on = ~@] \in RowsKept /\ [hits EXCEPT ![r] = Gone] \in RowsKept
<1>1. hits[r] \in Entry
  BY DEF RowsKept
<1>2. /\ [hits[r] EXCEPT !.on = v] \in Entry /\ [hits[r] EXCEPT !.grade = v] \in Entry
      /\ [hits[r] EXCEPT !.on = ~@] \in Entry
  BY <1>1 DEF Entry
<1>3. QED
  BY <1>2 DEF RowsKept

\* The tables are read and searched.
LEMMA RowsStep ==
  ASSUME ConsoleInv, NEW k \in Errands,
         \/ \E t \in Desks : FirstRows(k, t)
         \/ \E t \in Desks : \E hits \in {RowsOf(t)} \cup {{r} : r \in RowsOf(t)} : Search(k, t, hits)
         \/ GetRows(k) \/ SetRows(k) \/ FetchRowsFails(k)
  PROVE  ConsoleInv'
<1>1. ErrandsTyped /\ TablesTyped /\ DrawerTyped
  BY ConsoleTypedIs DEF ConsoleInv
<1>2. UNCHANGED <<recs, opened, query, mailVars>> /\ DrawerTyped'
  BY <1>1 DEF FirstRows, Search, GetRows, SetRows, FetchRowsFails, DrawerTyped
<1>3. ~Mails(errand[k])
  BY DEF FirstRows, Search, GetRows, SetRows, FetchRowsFails, Mails, Spare
<1>4. ErrandTo(k) /\ ~Mails(errand'[k]) /\ TablesTyped'
  <2>1. ASSUME NEW t \in Desks, FirstRows(k, t) PROVE ErrandTo(k) /\ ~Mails(errand'[k]) /\ TablesTyped'
    <3>1. sought \cap RowsOf(t) \in SUBSET Entries /\ FetchRows(k, t, sought \cap RowsOf(t)) /\ sought' = sought
      BY <1>1, <2>1 DEF TablesTyped, FirstRows
    <3>2. QED
      BY <1>1, <1>2, <3>1, FetchRowsAs DEF TablesTyped
  <2>2. ASSUME NEW t \in Desks, NEW hits \in {RowsOf(t)} \cup {{r} : r \in RowsOf(t)}, Search(k, t, hits)
        PROVE  ErrandTo(k) /\ ~Mails(errand'[k]) /\ TablesTyped'
    <3>1. hits \in SUBSET Entries
      BY DEF RowsOf, Entries
    <3>2. FetchRows(k, t, hits) /\ sought' = (sought \ RowsOf(t)) \cup hits
      BY <2>2 DEF Search
    <3>3. QED
      BY <1>1, <1>2, <3>1, <3>2, FetchRowsAs DEF TablesTyped
  <2>3. CASE GetRows(k)
    <3> DEFINE l == [r \in Entries |-> IF r \in errand[k].seek THEN recs[r] ELSE Gone]
               q == [errand[k] EXCEPT !.pc = "answered", !.list = l]
    <3>1. errand[k] \in ErrandRow /\ ErrandFits(errand[k]) /\ l \in RowsKept
      BY <1>1 DEF ErrandsTyped, TablesTyped, RowsKept
    <3> HIDE DEF l
    <3>2. q \in ErrandRow /\ q.kind = errand[k].kind /\ q.row = errand[k].row /\ q.to = errand[k].to
      BY <3>1 DEF ErrandRow
    <3>3. ErrandFits(q) /\ ~Mails(q)
      BY <1>3, <3>1, <3>2 DEF ErrandFits, Mails
    <3>4. errand' = [errand EXCEPT ![k] = q] /\ UNCHANGED tableVars
      BY <2>3 DEF GetRows, l
    <3> HIDE DEF q
    <3>5. QED
      BY <1>1, <1>2, <3>2, <3>3, <3>4, ErrandAs DEF TablesTyped, tableVars
  <2>4. CASE SetRows(k)
    <3>1. errand[k].list \in RowsKept
      BY <1>1 DEF ErrandsTyped, ErrandRow
    <3>2. /\ desk' = [r \in Entries |-> IF r \in RowsOf(errand[k].row) THEN errand[k].list[r] ELSE desk[r]]
          /\ turning' = turning \ {errand[k].row} /\ sought' = sought
          /\ errand' = [errand EXCEPT ![k] = NoErrand]
      BY <2>4 DEF SetRows
    <3>3. desk' \in RowsKept
      BY <1>1, <3>1, <3>2 DEF TablesTyped, RowsKept
    <3>4. QED
      BY <1>1, <1>2, <3>2, <3>3, ErrandEnds DEF TablesTyped
  <2>5. CASE FetchRowsFails(k)
    <3>1. /\ turning' = turning \ {errand[k].row} /\ UNCHANGED <<desk, sought>>
          /\ errand' = [errand EXCEPT ![k] = NoErrand]
      BY <2>5 DEF FetchRowsFails
    <3>2. QED
      BY <1>1, <1>2, <3>1, ErrandEnds DEF TablesTyped
  <2>6. QED
    BY <2>1, <2>2, <2>3, <2>4, <2>5
<1>5. QED
  BY <1>2, <1>3, <1>4, QuietErrand

LEMMA DrawerKept ==
  ASSUME DrawerTyped, UNCHANGED <<opened, query>>
  PROVE  DrawerTyped'
BY DEF DrawerTyped

LEMMA ToggleStep ==
  ASSUME ConsoleInv, NEW k \in Errands, NEW r \in Entries, NEW shows \in Entry \cup {Gone}, Toggle(k, r, shows)
  PROVE  ConsoleInv'
<1>1. ErrandsTyped /\ TablesTyped /\ DrawerTyped
  BY ConsoleTypedIs DEF ConsoleInv
<1>2. /\ errand[k].kind = "none" /\ Issue(k, "put", r, "on", ~shows.on, opened.row = r)
      /\ desk' = IF OnShow(r) THEN [desk EXCEPT ![r].on = ~@] ELSE desk
      /\ UNCHANGED <<recs, turning, sought, opened, query, mailVars>>
  BY DEF Toggle, Spare
<1>3. (~shows.on) \in BOOLEAN /\ (opened.row = r) \in BOOLEAN
  OBVIOUS
<1>4. ErrandTo(k) /\ ~Mails(errand'[k])
  BY <1>1, <1>2, <1>3, IssueAs
<1>5. TablesTyped'
  <2>1. OnShow(r) => [desk EXCEPT ![r].on = ~@] \in RowsKept
    BY <1>1, RowChanged DEF TablesTyped, OnShow
  <2>2. QED
    BY <1>1, <1>2, <2>1 DEF TablesTyped
<1>6. ~Mails(errand[k])
  BY <1>2 DEF Mails
<1>7. QED
  BY <1>1, <1>2, <1>4, <1>5, <1>6, DrawerKept, QuietErrand

\* The switches of the table and the drawer.
LEMMA SwitchStep ==
  ASSUME ConsoleInv, NEW k \in Errands,
         \/ \E r \in Entries : ToggleOnDesk(k, r)
         \/ \E w \in Spaces, paid \in BOOLEAN : SetPlan(k, w, paid)
         \/ \E p \in Folk : VerifyUserEmail(k, p)
         \/ ToggleInDrawer(k)
  PROVE  ConsoleInv'
<1>1. ErrandsTyped /\ TablesTyped /\ DrawerTyped
  BY ConsoleTypedIs DEF ConsoleInv
<1>2. ASSUME NEW r \in Entries, ToggleOnDesk(k, r) PROVE ConsoleInv'
  <2>1. desk[r] \in Entry \cup {Gone} /\ Toggle(k, r, desk[r])
    BY <1>1, <1>2 DEF TablesTyped, RowsKept, ToggleOnDesk
  <2>2. QED
    BY <2>1, ToggleStep
<1>3. CASE ToggleInDrawer(k)
  <2>1. opened.row \in Entries /\ opened.shows \in Entry \cup {Gone} /\ Toggle(k, opened.row, opened.shows)
    BY <1>1, <1>3 DEF DrawerTyped, ToggleInDrawer, InDrawer, Entries
  <2>2. QED
    BY <2>1, ToggleStep
<1>4. ASSUME NEW w \in Spaces, NEW paid \in BOOLEAN, SetPlan(k, w, paid) PROVE ConsoleInv'
  <2>1. /\ errand[k].kind = "none" /\ Issue(k, "put", w, "grade", paid, opened.row = w)
        /\ desk' = IF OnShow(w) THEN [desk EXCEPT ![w].grade = paid] ELSE desk
        /\ UNCHANGED <<recs, turning, sought, opened, query, mailVars>>
    BY <1>4 DEF SetPlan, Spare
  <2>2. w \in Entries /\ (opened.row = w) \in BOOLEAN
    BY DEF Entries
  <2>3. ErrandTo(k) /\ ~Mails(errand'[k]) /\ ~Mails(errand[k])
    BY <1>1, <2>1, <2>2, IssueAs DEF Mails
  <2>4. TablesTyped'
    <3>1. OnShow(w) => [desk EXCEPT ![w].grade = paid] \in RowsKept
      BY <1>1, <2>2, RowChanged DEF TablesTyped, OnShow
    <3>2. QED
      BY <1>1, <2>1, <3>1 DEF TablesTyped
  <2>5. QED
    BY <1>1, <2>1, <2>3, <2>4, DrawerKept, QuietErrand
<1>5. ASSUME NEW p \in Folk, VerifyUserEmail(k, p) PROVE ConsoleInv'
  <2>1. /\ errand[k].kind = "none" /\ Issue(k, "verify", p, "grade", TRUE, FALSE)
        /\ UNCHANGED <<recs, tableVars, opened, query, mailVars>>
    BY <1>5 DEF VerifyUserEmail, Spare
  <2>2. p \in Entries
    BY DEF Entries
  <2>3. ErrandTo(k) /\ ~Mails(errand'[k]) /\ ~Mails(errand[k])
    BY <1>1, <2>1, <2>2, IssueAs DEF Mails
  <2>4. TablesTyped'
    BY <1>1, <2>1 DEF TablesTyped, tableVars
  <2>5. QED
    BY <1>1, <2>1, <2>3, <2>4, DrawerKept, QuietErrand
<1>6. QED
  BY <1>2, <1>3, <1>4, <1>5

\* The server stores a change.
LEMMA StoredStep ==
  ASSUME ConsoleInv, NEW k \in Errands, StoreChange(k) \/ MarkVerified(k) \/ StoreDeletion(k)
  PROVE  ConsoleInv'
<1>1. ErrandsTyped /\ TablesTyped /\ DrawerTyped
  BY ConsoleTypedIs DEF ConsoleInv
<1>2. /\ errand[k].kind \in {"put", "verify", "delete"} /\ Stands(errand[k].row)
      /\ errand' = [errand EXCEPT ![k].pc = "stored"]
      /\ UNCHANGED <<tableVars, opened, query, mailVars>>
  BY DEF StoreChange, MarkVerified, StoreDeletion
<1>3. /\ errand[k].row \in Entries /\ errand[k].field \in {"on", "grade"} /\ errand[k].value \in BOOLEAN
      /\ recs[errand[k].row] # Gone
  BY <1>1, <1>2 DEF ErrandsTyped, ErrandRow, ErrandFits, Stands
<1>4. recs' \in RowsKept
  <2>1. /\ [recs EXCEPT ![errand[k].row].on = errand[k].value] \in RowsKept
        /\ [recs EXCEPT ![errand[k].row].grade = errand[k].value] \in RowsKept
        /\ [recs EXCEPT ![errand[k].row].grade = TRUE] \in RowsKept
    BY <1>1, <1>3, RowChanged DEF TablesTyped
  <2>2. CASE StoreChange(k)
    <3>1. recs' = [recs EXCEPT ![errand[k].row][errand[k].field] = errand[k].value]
      BY <2>2 DEF StoreChange
    <3>2. QED
      BY <1>3, <2>1, <3>1
  <2>3. CASE MarkVerified(k)
    BY <2>1, <2>3 DEF MarkVerified
  <2>4. CASE StoreDeletion(k)
    <3>1. PICK gone : recs' = [x \in Entries |-> IF x \in gone THEN Gone ELSE recs[x]]
      BY <2>4 DEF StoreDeletion
    <3>2. QED
      BY <1>1, <3>1 DEF TablesTyped, RowsKept
  <2>5. QED
    BY <2>2, <2>3, <2>4
<1>5. TablesTyped'
  BY <1>1, <1>2, <1>4 DEF TablesTyped, tableVars
<1>6. ~Mails(errand[k])
  BY <1>2 DEF Mails
<1>7. ErrandTo(k) /\ ~Mails(errand'[k])
  BY <1>1, <1>2, <1>6, ErrandGoesOn
<1>8. QED
  BY <1>1, <1>2, <1>5, <1>6, <1>7, DrawerKept, QuietErrand

\* The page hears of a change, or that it failed.
LEMMA ChangeEndsStep ==
  ASSUME ConsoleInv, NEW k \in Errands, ChangeDone(k) \/ PutFails(k) \/ OthersFail(k) \/ DeletionDone(k)
  PROVE  ConsoleInv'
<1>1. ErrandsTyped /\ TablesTyped /\ DrawerTyped
  BY ConsoleTypedIs DEF ConsoleInv
<1>2. errand[k].kind \in {"put", "verify", "delete"} /\ UNCHANGED <<recs, sought, query, mailVars>>
  BY DEF ChangeDone, PutFails, OthersFail, DeletionDone, tableVars
<1>3. errand[k] \in ErrandRow /\ errand[k].row \in Entries /\ errand[k].seek \in SUBSET Entries
      /\ errand[k].value \in BOOLEAN
  BY <1>1, <1>2 DEF ErrandsTyped, ErrandRow, ErrandFits
<1>4. ErrandTo(k) /\ ~Mails(errand'[k]) /\ turning' \subseteq Desks /\ desk' \in RowsKept
  <2>1. CASE ChangeDone(k)
    <3>1. /\ errand' = [errand EXCEPT ![k] = NoErrand] /\ turning' = turning
          /\ desk' = desk \/ (OnShow(errand[k].row) /\ desk' = [desk EXCEPT ![errand[k].row].grade = TRUE])
      BY <2>1 DEF ChangeDone
    <3>2. OnShow(errand[k].row) => [desk EXCEPT ![errand[k].row].grade = TRUE] \in RowsKept
      BY <1>1, <1>3, RowChanged DEF TablesTyped, OnShow
    <3>3. QED
      BY <1>1, <3>1, <3>2, ErrandEnds DEF TablesTyped
  <2>2. CASE PutFails(k) \/ DeletionDone(k)
    <3>1. DeskOf(errand[k].row) \in Desks /\ FetchRows(k, DeskOf(errand[k].row), errand[k].seek)
      BY <2>2 DEF PutFails, DeletionDone, DeskOf, Desks
    <3>2. QED
      BY <1>1, <1>3, <3>1, FetchRowsAs DEF TablesTyped
  <2>3. CASE OthersFail(k)
    <3>1. errand' = [errand EXCEPT ![k] = NoErrand] /\ turning' = turning /\ desk' = desk
      BY <2>3 DEF OthersFail, tableVars
    <3>2. QED
      BY <1>1, <3>1, ErrandEnds DEF TablesTyped
  <2>4. QED
    BY <2>1, <2>2, <2>3
<1>5. DrawerTyped' /\ (opened'.open => opened.open /\ opened'.row = opened.row)
  <2>1. CASE opened' = opened
    BY <1>1, <1>2, <2>1, DrawerKept
  <2>2. CASE opened' = NoPick
    <3>1. opened'.open = FALSE /\ opened'.row \notin Spaces
          /\ opened' \in [open : BOOLEAN, row : Spaces \cup {NoEntry}, shows : Entry \cup {Gone}]
      BY <2>2, AdminConsoleAssumption DEF NoPick
    <3>2. QED
      BY <1>1, <1>2, <3>1 DEF DrawerTyped
  <2>3. CASE ChangeDone(k) /\ opened.row # NoEntry
    <3>1. /\ opened' \in {opened, [opened EXCEPT !.shows.on = ~@], [opened EXCEPT !.shows.grade = errand[k].value]}
          /\ opened.row \in Spaces /\ opened.shows \in Entry
      BY <1>1, <2>3 DEF ChangeDone, DrawerTyped
    <3> DEFINE s == opened.shows  v == errand[k].value
    <3>2. [s EXCEPT !.on = ~@] \in Entry /\ [s EXCEPT !.grade = v] \in Entry
      BY <1>3, <3>1 DEF Entry
    <3>3. opened' \in {opened, [opened EXCEPT !.shows = [s EXCEPT !.on = ~@]],
                      [opened EXCEPT !.shows = [s EXCEPT !.grade = v]]}
      BY <3>1
    <3>4. /\ opened'.shows \in Entry /\ opened'.open = opened.open /\ opened'.row = opened.row
          /\ opened' \in [open : BOOLEAN, row : Spaces \cup {NoEntry}, shows : Entry \cup {Gone}]
      BY <1>1, <3>1, <3>2, <3>3 DEF DrawerTyped
    <3>5. QED
      BY <1>1, <1>2, <3>4 DEF DrawerTyped
  <2>4. QED
    BY <2>1, <2>2, <2>3 DEF ChangeDone, PutFails, OthersFail, DeletionDone
<1>6. TablesTyped' /\ ~Mails(errand[k])
  BY <1>1, <1>2, <1>4 DEF TablesTyped, Mails
<1>7. QED
  BY <1>2, <1>4, <1>5, <1>6, QuietErrand

\* The question before a deletion, and its answer.
LEMMA QuestionStep ==
  ASSUME ConsoleInv, \/ \E r \in Entries, drawn \in BOOLEAN : AskDeletion(r, drawn)
                     \/ Decline \/ \E k \in Errands : Confirm(k)
                     \/ \E r \in Entries : ChangedElsewhere(r)
                     \/ CloseDrawer
  PROVE  ConsoleInv'
<1>1. ErrandsTyped /\ TablesTyped /\ DrawerTyped
  BY ConsoleTypedIs DEF ConsoleInv
<1>2. ASSUME NEW r \in Entries, NEW drawn \in BOOLEAN, AskDeletion(r, drawn) PROVE ConsoleInv'
  <2>1. /\ query' = [kind |-> "delete", row |-> r, drawn |-> opened.row = r]
        /\ UNCHANGED <<recs, tableVars, errand, opened, mailVars>>
    BY <1>2 DEF AskDeletion
  <2>2. DrawerTyped' /\ query'.kind # "bulletin"
    BY <1>1, <2>1 DEF DrawerTyped
  <2>3. TablesTyped' /\ ErrandsTyped'
    BY <1>1, <2>1 DEF TablesTyped, ErrandsTyped, ErrandFits, tableVars
  <2>4. QED
    BY <2>1, <2>2, <2>3, NoMailStep
<1>3. CASE Decline
  <2>1. query' = NoQuery /\ UNCHANGED <<recs, tableVars, errand, opened, mailVars>>
    BY <1>3 DEF Decline
  <2>2. DrawerTyped' /\ query'.kind # "bulletin"
    BY <1>1, <2>1 DEF DrawerTyped, NoQuery
  <2>3. TablesTyped' /\ ErrandsTyped'
    BY <1>1, <2>1 DEF TablesTyped, ErrandsTyped, ErrandFits, tableVars
  <2>4. QED
    BY <2>1, <2>2, <2>3, NoMailStep
<1>4. ASSUME NEW k \in Errands, Confirm(k) PROVE ConsoleInv'
  <2>1. /\ query.kind = "delete" /\ errand[k].kind = "none" /\ query' = NoQuery
        /\ Issue(k, "delete", query.row, "on", FALSE, query.drawn)
        /\ UNCHANGED <<recs, tableVars, opened, mailVars>>
    BY <1>4 DEF Confirm, Spare
  <2>2. query.row \in Entries /\ query.drawn \in BOOLEAN
    BY <1>1, <2>1 DEF DrawerTyped
  <2>3. ErrandTo(k) /\ ~Mails(errand'[k]) /\ ~Mails(errand[k])
    BY <1>1, <2>1, <2>2, IssueAs DEF Mails
  <2>4. DrawerTyped' /\ query'.kind # "bulletin"
    BY <1>1, <2>1 DEF DrawerTyped, NoQuery
  <2>5. TablesTyped'
    BY <1>1, <2>1 DEF TablesTyped, tableVars
  <2>6. QED
    BY <2>1, <2>3, <2>4, <2>5, QuietErrand
<1>5. ASSUME NEW r \in Entries, ChangedElsewhere(r) PROVE ConsoleInv'
  <2>1. /\ recs[r] # Gone /\ recs' \in {[recs EXCEPT ![r].on = ~@], [recs EXCEPT ![r] = Gone]}
        /\ UNCHANGED <<tableVars, errand, opened, query, mailVars>>
    BY <1>5 DEF ChangedElsewhere, Stands
  <2>2. recs' \in RowsKept
    BY <1>1, <2>1, RowChanged DEF TablesTyped
  <2>3. TablesTyped' /\ ErrandsTyped'
    BY <1>1, <2>1, <2>2 DEF TablesTyped, ErrandsTyped, ErrandFits, tableVars
  <2>4. QED
    BY <1>1, <2>1, <2>3, DrawerKept, NoMailStep
<1>6. CASE CloseDrawer
  <2>1. opened' = [opened EXCEPT !.open = FALSE] /\ UNCHANGED <<recs, tableVars, errand, query, mailVars>>
    BY <1>6 DEF CloseDrawer
  <2>2. DrawerTyped' /\ ~opened'.open
    BY <1>1, <2>1 DEF DrawerTyped
  <2>3. TablesTyped' /\ ErrandsTyped'
    BY <1>1, <2>1 DEF TablesTyped, ErrandsTyped, ErrandFits, tableVars
  <2>4. QED
    BY <2>1, <2>2, <2>3, NoMailStep
<1>7. QED
  BY <1>2, <1>3, <1>4, <1>5, <1>6

\* What a step leaves alone that is not about the letter, or not about announcements.
LEMMA BulletinKept ==
  ASSUME BulletinInv, UNCHANGED <<bulletin, posts, bulletins>>, unknown'.bulletin = unknown.bulletin,
         query' = query,
         \A j \in Errands : errand'[j] = errand[j] \/ (errand[j].kind # "bulletin" /\ errand'[j].kind # "bulletin")
  PROVE  BulletinInv'
<1>1. Announcing' = Announcing /\ \A p : Owing(p)' = Owing(p)
  BY DEF Announcing, Owing
<1>2. QED
  BY <1>1 DEF BulletinInv

LEMMA LetterKept ==
  ASSUME LetterInv, UNCHANGED <<letter, letters, misheard, opened>>, unknown'.letter = unknown.letter,
         \A j \in Errands : errand'[j] = errand[j] \/ (errand[j].kind # "letter" /\ errand'[j].kind # "letter")
  PROVE  LetterInv'
<1>1. Letters' = Letters /\ Mailed' = Mailed /\ \A k \in Letters : errand'[k] = errand[k]
  BY DEF Letters, Mailed
<1>2. QED
  BY <1>1 DEF LetterInv

\* One letter is under way at most, and the form knows of it.
LEMMA OneLetter ==
  ASSUME ConsoleInv, NEW k \in Errands, errand[k].kind = "letter"
  PROVE  Letters = {k} /\ letter.to = errand[k].row /\ errand[k].row \in Spaces
<1>1. ErrandsTyped
  BY ConsoleTypedIs DEF ConsoleInv
<1>2. QED
  BY <1>1 DEF ConsoleInv, LetterInv, Letters, ErrandsTyped, ErrandFits

LEMMA NoLetter ==
  ASSUME ConsoleInv, letter.to = NoEntry
  PROVE  Letters = {}
BY OneLetter, AdminConsoleAssumption DEF Letters, Entries

\* The drawer's form.
LEMMA DrawerHolds ==
  ASSUME ConsoleInv, TypeLetter \/ \E w \in Spaces : OpenTenantDrawer(w)
  PROVE  ConsoleInv'
<1>1. ErrandsTyped /\ TablesTyped /\ DrawerTyped /\ MailTyped /\ LetterInv /\ BulletinInv
  BY ConsoleTypedIs DEF ConsoleInv
<1>2. UNCHANGED <<recs, desk, turning, sought, errand, query, bulletin, posts, bulletins>>
  BY DEF TypeLetter, OpenTenantDrawer, tableVars
<1>3. ErrandsTyped' /\ TablesTyped' /\ Letters' = Letters /\ Mailed' = Mailed
  BY <1>1, <1>2 DEF ErrandsTyped, ErrandFits, TablesTyped, Letters, Mailed
<1>4. CASE TypeLetter
  <2>1. /\ letter' = [letter EXCEPT !.typed = TRUE] /\ letters' = 0 /\ unknown' = [unknown EXCEPT !.letter = 0]
        /\ UNCHANGED <<opened, misheard>>
    BY <1>4 DEF TypeLetter
  <2>2. MailTyped' /\ unknown'.letter = 0 /\ unknown'.bulletin = unknown.bulletin
        /\ letter'.to = letter.to /\ letter'.says = letter.says
    BY <1>1, <1>2, <2>1 DEF MailTyped
  <2>3. LetterInv'
    BY <1>1, <1>2, <1>3, <2>1, <2>2 DEF LetterInv
  <2>4. BulletinInv' /\ DrawerTyped'
    BY <1>1, <1>2, <2>1, <2>2, BulletinKept, DrawerKept
  <2>5. QED
    BY <1>3, <2>2, <2>3, <2>4 DEF ConsoleInv, ConsoleTyped, ErrandsTyped, TablesTyped, DrawerTyped, MailTyped
<1>5. ASSUME NEW w \in Spaces, OpenTenantDrawer(w) PROVE ConsoleInv'
  <2>1. /\ opened' = [open |-> TRUE, row |-> w, shows |-> desk[w]] /\ desk[w] # Gone
        /\ letter' = [letter EXCEPT !.typed = FALSE, !.says = NoEntry] /\ misheard' = (letter.to # NoEntry)
        /\ UNCHANGED <<letters, unknown>>
    BY <1>5 DEF OpenTenantDrawer, OnDesk, OnShow
  <2>2. MailTyped' /\ letter'.to = letter.to /\ letter'.says = NoEntry /\ ~letter'.typed
    BY <1>1, <1>2, <2>1 DEF MailTyped
  <2>3. desk[w] \in Entry
    BY <1>1, <2>1 DEF TablesTyped, RowsKept, Entries
  <2>4. DrawerTyped'
    BY <1>1, <1>2, <2>1, <2>3 DEF DrawerTyped
  <2>5. letters \in Nat /\ unknown.letter \in Nat
    BY <1>1 DEF MailTyped
  <2>6. LetterInv'
    <3>1. letters' <= unknown'.letter + IF Mailed' # {} \/ (Letters' = {} /\ ~letter'.typed) THEN 1 ELSE 0
      <4>1. letters <= unknown.letter + IF Mailed # {} \/ (Letters = {} /\ ~letter.typed) THEN 1 ELSE 0
        BY <1>1 DEF LetterInv
      <4>2. Mailed' = Mailed /\ Letters' = Letters /\ ~letter'.typed /\ letters' = letters /\ unknown' = unknown
        BY <1>3, <2>1, <2>2
      <4>3. QED
        BY <2>5, <4>1, <4>2
    <3>2. ~misheard' => letter'.to = NoEntry
      BY <2>1, <2>2
    <3>3. (\A k \in Letters' : letter'.to = errand'[k].row) /\ \A j, k \in Letters' : j = k
      BY <1>1, <1>2, <1>3, <2>2 DEF LetterInv
    <3>4. QED
      BY <2>2, <3>1, <3>2, <3>3 DEF LetterInv
  <2>7. BulletinInv'
    BY <1>1, <1>2, <2>1, BulletinKept
  <2>8. QED
    BY <1>3, <2>2, <2>4, <2>6, <2>7
    DEF ConsoleInv, ConsoleTyped, ErrandsTyped, TablesTyped, DrawerTyped, MailTyped
<1>6. QED
  BY <1>4, <1>5

\* A letter.
LEMMA LetterStep ==
  ASSUME ConsoleInv, NEW k \in Errands, EmailTenant(k) \/ MailOwner(k) \/ LetterAnswered(k)
  PROVE  ConsoleInv'
<1>1. ErrandsTyped /\ TablesTyped /\ DrawerTyped /\ MailTyped /\ LetterInv /\ BulletinInv
  BY ConsoleTypedIs DEF ConsoleInv
<1>2. UNCHANGED <<recs, desk, turning, sought, opened, query, bulletin, posts, bulletins, misheard>>
  BY DEF EmailTenant, MailOwner, LetterAnswered, tableVars
<1>3. TablesTyped' /\ DrawerTyped'
  BY <1>1, <1>2, DrawerKept DEF TablesTyped
<1>4. letters \in Nat /\ unknown.letter \in Nat /\ Mailed \subseteq Letters
  BY <1>1 DEF MailTyped, Mailed
<1>5. /\ ErrandTo(k) /\ errand[k].kind # "bulletin" /\ errand'[k].kind # "bulletin"
      /\ MailTyped' /\ unknown'.bulletin = unknown.bulletin /\ LetterInv'
  <2>1. CASE EmailTenant(k)
    <3> DEFINE q == [NoErrand EXCEPT !.kind = "letter", !.pc = "sent", !.row = opened.row]
    <3>1. /\ opened.open /\ letter.typed /\ letter.to = NoEntry /\ errand[k].kind = "none"
          /\ letter' = [letter EXCEPT !.to = opened.row, !.says = NoEntry]
          /\ errand' = [errand EXCEPT ![k] = q] /\ UNCHANGED <<letters, unknown>>
      BY <2>1 DEF EmailTenant, InDrawer, Spare
    <3>2. opened.row \in Spaces
      BY <1>1, <3>1 DEF DrawerTyped
    <3>3. q \in ErrandRow /\ ErrandFits(q) /\ q.kind = "letter" /\ q.pc = "sent" /\ q.row = opened.row
      BY <3>2, NoErrandFits DEF ErrandRow, ErrandFits, NoErrand, Entries
    <3> HIDE DEF q
    <3>4. ErrandTo(k) /\ errand'[k] = q
      BY <1>1, <3>1, <3>3, ErrandAs
    <3>5. MailTyped' /\ letter'.to = opened.row /\ letter'.says = NoEntry /\ letter'.typed = letter.typed
      BY <1>1, <1>2, <3>1, <3>2 DEF MailTyped
    <3>6. Letters = {} /\ Letters' = {k} /\ Mailed' = {}
      BY <3>1, <3>3, <3>4, NoLetter DEF Letters, Mailed, ErrandTo
    <3>7. letters <= unknown.letter
      BY <1>1, <1>4, <3>1, <3>6 DEF LetterInv
    <3>8. LetterInv'
      BY <1>2, <1>4, <3>1, <3>3, <3>4, <3>5, <3>6, <3>7 DEF LetterInv
    <3>9. QED
      BY <3>1, <3>3, <3>4, <3>5, <3>8
  <2>2. CASE MailOwner(k)
    <3> DEFINE q == [errand[k] EXCEPT !.pc = "stored"]
    <3>1. /\ errand[k].kind = "letter" /\ errand[k].pc = "sent" /\ letters' = letters + 1
          /\ errand' = [errand EXCEPT ![k] = q] /\ UNCHANGED <<letter, unknown>>
      BY <2>2 DEF MailOwner
    <3>2. errand[k] \in ErrandRow /\ ErrandFits(errand[k])
      BY <1>1 DEF ErrandsTyped
    <3>3. q \in ErrandRow /\ q.kind = "letter" /\ q.pc = "stored" /\ q.row = errand[k].row /\ q.to = errand[k].to
      BY <3>1, <3>2 DEF ErrandRow
    <3>4. ErrandFits(q)
      BY <3>1, <3>2, <3>3 DEF ErrandFits
    <3> HIDE DEF q
    <3>5. ErrandTo(k) /\ errand'[k] = q
      BY <1>1, <3>1, <3>3, <3>4, ErrandAs
    <3>6. Letters = {k} /\ Mailed = {} /\ Letters' = {k} /\ Mailed' = {k}
      BY <3>1, <3>3, <3>5, OneLetter DEF Letters, Mailed, ErrandTo
    <3>7. letters <= unknown.letter
      BY <1>1, <1>4, <3>6 DEF LetterInv
    <3>8. LetterInv'
      BY <1>1, <1>2, <1>4, <3>1, <3>3, <3>5, <3>6, <3>7 DEF LetterInv
    <3>9. MailTyped'
      BY <1>1, <1>2, <3>1 DEF MailTyped
    <3>10. QED
      BY <3>1, <3>3, <3>5, <3>8, <3>9
  <2>3. CASE LetterAnswered(k)
    <3>1. /\ errand[k].kind = "letter" /\ errand' = [errand EXCEPT ![k] = NoErrand] /\ letters' = letters
          /\ \/ /\ errand[k].pc = "stored" /\ unknown' = unknown
                /\ letter' = [typed |-> FALSE, to |-> NoEntry, says |-> errand[k].row]
             \/ /\ letter' = [letter EXCEPT !.to = NoEntry, !.says = errand[k].row]
                /\ unknown' = IF errand[k].pc = "stored" THEN [unknown EXCEPT !.letter = @ + 1] ELSE unknown
      BY <2>3 DEF LetterAnswered
    <3>2. ErrandTo(k) /\ errand'[k] = NoErrand
      BY <1>1, <3>1, ErrandEnds
    <3>3. Letters = {k} /\ letter.to = errand[k].row /\ errand[k].row \in Spaces
      BY <3>1, OneLetter
    <3>4. Letters' = {} /\ Mailed' = {} /\ Mailed = IF errand[k].pc = "stored" THEN {k} ELSE {}
      BY <3>2, <3>3, NoErrandFits DEF Letters, Mailed, ErrandTo
    <3>5. /\ MailTyped' /\ letter'.to = NoEntry /\ letter'.says = letter.to /\ unknown'.bulletin = unknown.bulletin
          /\ unknown.letter <= unknown'.letter /\ unknown'.letter \in Nat
          /\ letter'.typed /\ errand[k].pc = "stored" => unknown'.letter = unknown.letter + 1
      <4>1. unknown' = unknown \/ (unknown' = [unknown EXCEPT !.letter = @ + 1])
        BY <3>1
      <4>2. unknown \in [letter : Nat, bulletin : Nat]
        BY <1>1 DEF MailTyped
      <4>3. /\ unknown' \in [letter : Nat, bulletin : Nat] /\ unknown'.bulletin = unknown.bulletin
            /\ unknown.letter <= unknown'.letter
        BY <4>1, <4>2
      <4>4. letter \in [typed : BOOLEAN, to : Spaces \cup {NoEntry}, says : Spaces \cup {NoEntry}]
        BY <1>1 DEF MailTyped
      <4>5. /\ letter' \in [typed : BOOLEAN, to : Spaces \cup {NoEntry}, says : Spaces \cup {NoEntry}]
            /\ letter'.to = NoEntry /\ letter'.says = letter.to
        <5>1. CASE letter' = [typed |-> FALSE, to |-> NoEntry, says |-> errand[k].row]
          BY <3>3, <5>1
        <5>2. CASE letter' = [letter EXCEPT !.to = NoEntry, !.says = errand[k].row]
          BY <3>3, <4>4, <5>2
        <5>3. QED
          BY <3>1, <5>1, <5>2
      <4>6. letter'.typed /\ errand[k].pc = "stored" => unknown'.letter = unknown.letter + 1
        BY <3>1, <4>2
      <4>7. QED
        BY <1>1, <1>2, <3>1, <4>3, <4>5, <4>6 DEF MailTyped
    <3>6. letters <= unknown.letter + IF errand[k].pc = "stored" THEN 1 ELSE 0
      BY <1>1, <1>4, <3>3, <3>4 DEF LetterInv
    <3>7. letters <= unknown'.letter + IF ~letter'.typed THEN 1 ELSE 0
      BY <1>4, <3>5, <3>6
    <3>8. LetterInv'
      BY <1>1, <1>2, <1>4, <3>1, <3>4, <3>5, <3>7 DEF LetterInv
    <3>9. QED
      BY <3>1, <3>2, <3>5, <3>8, NoErrandFits
  <2>4. QED
    BY <2>1, <2>2, <2>3
<1>6. BulletinInv' /\ ErrandsTyped'
  BY <1>1, <1>2, <1>5, BulletinKept DEF ErrandTo
<1>7. QED
  BY <1>3, <1>5, <1>6 DEF ConsoleInv, ConsoleTyped, ErrandsTyped, TablesTyped, DrawerTyped, MailTyped

\* Announcements: one that the page waits for at most, and the form knows of it.
LEMMA OneBulletin ==
  ASSUME ConsoleInv, NEW k \in Errands, errand[k].kind = "bulletin", errand[k].pc \in {"sent", "running"}
  PROVE  Announcing = {k} /\ bulletin.sending /\ query.kind # "bulletin"
BY DEF ConsoleInv, BulletinInv, Announcing

LEMMA OwingFinite ==
  ASSUME NEW p
  PROVE  IsFiniteSet(Owing(p)) /\ Cardinality(Owing(p)) \in Nat
BY AdminConsoleAssumption, FS_Subset, FS_CardinalityType DEF Owing

\* The announcement that is typed.
WaitingPost == IF bulletin.typed /\ ~bulletin.sending THEN 1 ELSE 0

LEMMA BulletinTypes ==
  ASSUME MailTyped
  PROVE  /\ bulletins \in Nat /\ unknown.bulletin \in Nat /\ WaitingPost \in {0, 1}
         /\ \A p \in Folk : posts[p] \in Nat
BY DEF MailTyped, WaitingPost

\* The page's side of an announcement.
LEMMA BulletinForm ==
  ASSUME ConsoleInv, TypeBulletin \/ AskBulletin
  PROVE  ConsoleInv'
<1>1. ErrandsTyped /\ TablesTyped /\ DrawerTyped /\ MailTyped /\ LetterInv /\ BulletinInv
  BY ConsoleTypedIs DEF ConsoleInv
<1>2. UNCHANGED <<recs, desk, turning, sought, errand, opened, letter, letters, misheard, posts, unknown>>
  BY DEF TypeBulletin, AskBulletin, tableVars, mailVars
<1>3. /\ ErrandsTyped' /\ TablesTyped' /\ LetterInv' /\ Announcing' = Announcing
      /\ \A p : Owing(p)' = Owing(p)
  BY <1>1, <1>2, LetterKept DEF ErrandsTyped, ErrandFits, TablesTyped, Announcing, Owing
<1>4. CASE TypeBulletin
  <2>1. /\ query.kind = "none" /\ query' = query /\ ~bulletin.typed
        /\ bulletin' = [bulletin EXCEPT !.typed = TRUE] /\ bulletins' = bulletins + 1
    BY <1>4 DEF TypeBulletin, Clear
  <2>2. MailTyped' /\ bulletin'.sending = bulletin.sending /\ bulletin'.typed
    <3>1. bulletin \in [typed : BOOLEAN, sending : BOOLEAN] /\ bulletins \in Nat
      BY <1>1 DEF MailTyped
    <3>2. bulletins' \in Nat
      BY <2>1, <3>1
    <3>3. bulletin' \in [typed : BOOLEAN, sending : BOOLEAN] /\ bulletin'.sending = bulletin.sending
      BY <2>1, <3>1
    <3>4. bulletin'.typed = TRUE
      BY <2>1, <3>1
    <3>5. QED
      BY <1>1, <1>2, <3>2, <3>3, <3>4 DEF MailTyped
  <2>3. \A p \in Folk : posts'[p] + Cardinality(Owing(p)') + WaitingPost' <= bulletins' + unknown'.bulletin
    <3>1. WaitingPost = 0 /\ WaitingPost' <= 1 /\ WaitingPost' \in Nat
      BY <2>1, <2>2 DEF WaitingPost
    <3>2. ASSUME NEW p \in Folk PROVE posts[p] + Cardinality(Owing(p)) + WaitingPost <= bulletins + unknown.bulletin
      BY <1>1 DEF BulletinInv, WaitingPost
    <3>3. QED
      BY <1>1, <1>2, <1>3, <2>1, <3>1, <3>2, BulletinTypes, OwingFinite
  <2>4. BulletinInv'
    BY <1>1, <1>2, <1>3, <2>1, <2>2, <2>3 DEF BulletinInv, WaitingPost
  <2>5. QED
    BY <1>1, <1>2, <1>3, <2>1, <2>2, <2>4, DrawerKept
    DEF ConsoleInv, ConsoleTyped, ErrandsTyped, TablesTyped, DrawerTyped, MailTyped
<1>5. CASE AskBulletin
  <2>1. /\ bulletin.typed /\ ~bulletin.sending /\ query' = [NoQuery EXCEPT !.kind = "bulletin"]
        /\ UNCHANGED <<bulletin, bulletins>>
    BY <1>5 DEF AskBulletin, mailVars
  <2>2. MailTyped' /\ BulletinInv'
    BY <1>1, <1>2, <1>3, <2>1 DEF MailTyped, BulletinInv
  <2>3. DrawerTyped'
    BY <1>1, <1>2, <2>1 DEF DrawerTyped, NoQuery
  <2>4. QED
    BY <1>3, <2>2, <2>3 DEF ConsoleInv, ConsoleTyped, ErrandsTyped, TablesTyped, DrawerTyped, MailTyped
<1>6. QED
  BY <1>4, <1>5

\* What becomes of the requests when that of k goes on.
LEMMA OneErrandGoes ==
  ASSUME NEW k \in Errands, ErrandTo(k)
  PROVE  /\ \A p : Owing(p)' \in {Owing(p) \ {k}, Owing(p) \cup {k}}
         /\ \A p : k \in Owing(p)' <=> errand'[k].kind = "bulletin" /\ (errand'[k].pc = "sent" \/ p \in errand'[k].to)
         /\ Announcing' \in {Announcing \ {k}, Announcing \cup {k}}
         /\ k \in Announcing' <=> errand'[k].kind = "bulletin" /\ errand'[k].pc \in {"sent", "running"}
<1>1. \A p : /\ k \in Owing(p)' <=> errand'[k].kind = "bulletin" /\ (errand'[k].pc = "sent" \/ p \in errand'[k].to)
             /\ Owing(p)' \ {k} = Owing(p) \ {k}
  BY DEF Owing, ErrandTo
<1>2. /\ k \in Announcing' <=> errand'[k].kind = "bulletin" /\ errand'[k].pc \in {"sent", "running"}
      /\ Announcing' \ {k} = Announcing \ {k}
  BY DEF Announcing, ErrandTo
<1>3. \A S, T : S \ {k} = T \ {k} => S \in {T \ {k}, T \cup {k}}
  <2>1. ASSUME NEW S, NEW T, S \ {k} = T \ {k} PROVE S \in {T \ {k}, T \cup {k}}
    <3>1. CASE k \in S
      BY <2>1, <3>1
    <3>2. CASE k \notin S
      BY <2>1, <3>2
    <3>3. QED
      BY <3>1, <3>2
  <2>2. QED
    BY <2>1
<1>4. QED
  BY <1>1, <1>2, <1>3

\* What one of an announcement's steps must show.
LEMMA BulletinRest ==
  ASSUME ConsoleInv, NEW k \in Errands, ErrandTo(k), errand[k].kind # "letter", errand'[k].kind # "letter",
         UNCHANGED <<recs, tableVars, opened, letter, letters, misheard, bulletins>>,
         unknown'.letter = unknown.letter, MailTyped',
         query' = query \/ query' = NoQuery,
         Announcing' # {} => bulletin'.sending, \A i, j \in Announcing' : i = j,
         query'.kind = "bulletin" => bulletin'.typed /\ ~bulletin'.sending,
         \A p \in Folk :
            posts[p] + Cardinality(Owing(p)) + WaitingPost <= bulletins + unknown.bulletin
            => posts'[p] + Cardinality(Owing(p)') + WaitingPost' <= bulletins + unknown'.bulletin
  PROVE  ConsoleInv'
<1>1. ErrandsTyped /\ TablesTyped /\ DrawerTyped /\ MailTyped /\ LetterInv /\ BulletinInv
  BY ConsoleTypedIs DEF ConsoleInv
<1>2. TablesTyped' /\ ErrandsTyped'
  BY <1>1 DEF TablesTyped, tableVars, ErrandTo
<1>3. DrawerTyped'
  <2>1. CASE query' = query
    BY <1>1, <2>1, DrawerKept
  <2>2. CASE query' = NoQuery
    <3>1. /\ query' \in [kind : {"none", "delete", "bulletin"}, row : Entries \cup {NoEntry}, drawn : BOOLEAN]
          /\ query'.kind = "none"
      BY <2>2 DEF NoQuery
    <3>2. QED
      BY <1>1, <3>1 DEF DrawerTyped
  <2>3. QED
    BY <2>1, <2>2
<1>4. LetterInv'
  BY <1>1, LetterKept DEF ErrandTo
<1>5. \A p \in Folk : posts[p] + Cardinality(Owing(p)) + WaitingPost <= bulletins + unknown.bulletin
  BY <1>1 DEF BulletinInv, WaitingPost
<1>6. BulletinInv'
  BY <1>5 DEF BulletinInv, WaitingPost
<1>7. QED
  BY <1>2, <1>3, <1>4, <1>6 DEF ConsoleInv, ConsoleTyped, ErrandsTyped, TablesTyped, DrawerTyped, MailTyped

\* An announcement is sent.
LEMMA SendBulletinStep ==
  ASSUME ConsoleInv, NEW k \in Errands, SendBulletin(k)
  PROVE  ConsoleInv'
<1> DEFINE q == [NoErrand EXCEPT !.kind = "bulletin", !.pc = "sent"]
<1>1. ErrandsTyped /\ MailTyped /\ BulletinInv
  BY ConsoleTypedIs DEF ConsoleInv
<1>2. /\ query.kind = "bulletin" /\ errand[k].kind = "none" /\ query' = NoQuery
      /\ bulletin' = [bulletin EXCEPT !.sending = TRUE] /\ errand' = [errand EXCEPT ![k] = q]
      /\ UNCHANGED <<recs, tableVars, opened, letter, letters, posts, misheard, bulletins, unknown>>
  BY DEF SendBulletin, Spare
<1>3. q \in ErrandRow /\ ErrandFits(q) /\ q.kind = "bulletin" /\ q.pc = "sent"
  BY NoErrandFits DEF ErrandRow, ErrandFits, NoErrand
<1> HIDE DEF q
<1>4. ErrandTo(k) /\ errand'[k] = q
  BY <1>1, <1>2, <1>3, ErrandAs
<1>5. bulletin.typed /\ ~bulletin.sending /\ Announcing = {}
  BY <1>1, <1>2 DEF BulletinInv
<1>6. bulletin' \in [typed : BOOLEAN, sending : BOOLEAN] /\ bulletin'.sending
  BY <1>1, <1>2 DEF MailTyped
<1>7. MailTyped'
  BY <1>1, <1>2, <1>6 DEF MailTyped
<1>8. WaitingPost = 1 /\ WaitingPost' = 0
  BY <1>5, <1>6 DEF WaitingPost
<1>9. \A p : Owing(p)' = Owing(p) \cup {k} /\ k \notin Owing(p)
  BY <1>2, <1>3, <1>4, OneErrandGoes DEF Owing
<1>10. \A p : Cardinality(Owing(p)') = Cardinality(Owing(p)) + 1
  BY <1>9, OwingFinite, FS_AddElement
<1>11. Announcing' = {k}
  BY <1>3, <1>4, <1>5, OneErrandGoes
<1>12. ASSUME NEW p \in Folk, posts[p] + Cardinality(Owing(p)) + WaitingPost <= bulletins + unknown.bulletin
       PROVE  posts'[p] + Cardinality(Owing(p)') + WaitingPost' <= bulletins + unknown'.bulletin
  BY <1>1, <1>2, <1>8, <1>10, <1>12, OwingFinite, BulletinTypes
<1>13. query'.kind # "bulletin" /\ errand[k].kind # "letter" /\ errand'[k].kind # "letter"
  BY <1>2, <1>3, <1>4 DEF NoQuery
<1>14. QED
  BY <1>2, <1>4, <1>6, <1>7, <1>11, <1>12, <1>13, BulletinRest

\* The server mails it.
LEMMA ServeBulletinStep ==
  ASSUME ConsoleInv, NEW k \in Errands, ReadUsers(k) \/ \E p \in Folk : MailUser(k, p)
  PROVE  ConsoleInv'
<1>1. ErrandsTyped /\ MailTyped /\ BulletinInv
  BY ConsoleTypedIs DEF ConsoleInv
<1>2. errand[k] \in ErrandRow /\ ErrandFits(errand[k])
  BY <1>1 DEF ErrandsTyped
<1>3. CASE ReadUsers(k)
  <2> DEFINE q == [errand[k] EXCEPT !.pc = "running", !.to = {p \in Folk : Stands(p)}]
  <2>1. /\ errand[k].kind = "bulletin" /\ errand[k].pc = "sent" /\ errand' = [errand EXCEPT ![k] = q]
        /\ UNCHANGED <<recs, tableVars, opened, query, mailVars>>
    BY <1>3 DEF ReadUsers
  <2>2. q \in ErrandRow /\ q.kind = "bulletin" /\ q.pc = "running" /\ q.row = errand[k].row
    BY <1>2, <2>1 DEF ErrandRow
  <2>3. ErrandFits(q)
    BY <2>2 DEF ErrandFits
  <2> HIDE DEF q
  <2>4. ErrandTo(k) /\ errand'[k] = q
    BY <1>1, <2>1, <2>2, <2>3, ErrandAs
  <2>5. UNCHANGED <<letter, bulletin, letters, posts, misheard, bulletins, unknown>> /\ WaitingPost' = WaitingPost
    BY <2>1 DEF mailVars, WaitingPost
  <2>6. MailTyped'
    BY <1>1, <2>5 DEF MailTyped
  <2>7. Announcing = {k} /\ bulletin.sending /\ query.kind # "bulletin"
    BY <2>1, OneBulletin
  <2>8. Announcing' = {k}
    BY <2>2, <2>4, <2>7, OneErrandGoes
  <2>9. \A p : Owing(p)' \subseteq Owing(p)
    BY <2>1, <2>4, OneErrandGoes DEF Owing
  <2>10. \A p : Cardinality(Owing(p)') <= Cardinality(Owing(p)) /\ Cardinality(Owing(p)') \in Nat
    BY <2>9, OwingFinite, FS_Subset, FS_CardinalityType
  <2>11. ASSUME NEW p \in Folk, posts[p] + Cardinality(Owing(p)) + WaitingPost <= bulletins + unknown.bulletin
         PROVE  posts'[p] + Cardinality(Owing(p)') + WaitingPost' <= bulletins + unknown'.bulletin
    BY <1>1, <2>5, <2>10, <2>11, OwingFinite, BulletinTypes
  <2>12. QED
    BY <2>1, <2>2, <2>4, <2>5, <2>6, <2>7, <2>8, <2>11, BulletinRest
<1>4. ASSUME NEW p \in Folk, MailUser(k, p) PROVE ConsoleInv'
  <2> DEFINE q == [errand[k] EXCEPT !.to = errand[k].to \ {p}]
  <2>1. /\ errand[k].kind = "bulletin" /\ p \in errand[k].to /\ errand' = [errand EXCEPT ![k] = q]
        /\ posts' = [posts EXCEPT ![p] = @ + 1]
        /\ UNCHANGED <<recs, tableVars, opened, query, letter, bulletin, letters, misheard, bulletins, unknown>>
    BY <1>4 DEF MailUser
  <2>2. errand[k].pc \in {"running", "lost"}
    BY <1>2, <2>1 DEF ErrandFits
  <2>3. /\ q \in ErrandRow /\ q.kind = "bulletin" /\ q.pc = errand[k].pc /\ q.row = errand[k].row
        /\ q.to = errand[k].to \ {p}
    BY <1>2, <2>1 DEF ErrandRow
  <2>4. ErrandFits(q)
    BY <2>2, <2>3 DEF ErrandFits
  <2> HIDE DEF q
  <2>5. ErrandTo(k) /\ errand'[k] = q
    BY <1>1, <2>1, <2>3, <2>4, ErrandAs
  <2>6. MailTyped' /\ WaitingPost' = WaitingPost
    BY <1>1, <2>1 DEF MailTyped, WaitingPost
  <2>7. Announcing' = Announcing
    BY <2>1, <2>3, <2>5, OneErrandGoes DEF Announcing
  <2>8. Owing(p)' = Owing(p) \ {k} /\ k \in Owing(p) /\ \A r : r # p => Owing(r)' = Owing(r)
    <3>1. k \in Owing(p) /\ k \notin Owing(p)'
      BY <2>1, <2>2, <2>3, <2>5, OneErrandGoes DEF Owing
    <3>2. \A r : r # p => (k \in Owing(r) <=> k \in Owing(r)')
      BY <2>1, <2>3, <2>5, OneErrandGoes DEF Owing
    <3>3. \A r : Owing(r)' \in {Owing(r) \ {k}, Owing(r) \cup {k}}
      BY <2>5, OneErrandGoes
    <3>4. Owing(p)' = Owing(p) \ {k}
      BY <3>1, <3>3
    <3>5. ASSUME NEW r, r # p PROVE Owing(r)' = Owing(r)
      <4>1. CASE k \in Owing(r)
        BY <3>2, <3>3, <3>5, <4>1
      <4>2. CASE k \notin Owing(r)
        BY <3>2, <3>3, <3>5, <4>2
      <4>3. QED
        BY <4>1, <4>2
    <3>6. QED
      BY <3>1, <3>4, <3>5
  <2>9. Cardinality(Owing(p)') = Cardinality(Owing(p)) - 1
    BY <2>8, OwingFinite, FS_RemoveElement
  <2>10. ASSUME NEW r \in Folk, posts[r] + Cardinality(Owing(r)) + WaitingPost <= bulletins + unknown.bulletin
         PROVE  posts'[r] + Cardinality(Owing(r)') + WaitingPost' <= bulletins + unknown'.bulletin
    <3>1. posts \in [Folk -> Nat] /\ bulletins \in Nat /\ unknown.bulletin \in Nat /\ WaitingPost \in {0, 1}
      BY <1>1, BulletinTypes DEF MailTyped
    <3>2. CASE r = p
      <4>1. posts'[p] = posts[p] + 1
        BY <2>1, <3>1
      <4>2. QED
        BY <2>1, <2>6, <2>9, <2>10, <3>1, <3>2, <4>1, OwingFinite
    <3>3. CASE r # p
      <4>1. posts'[r] = posts[r]
        BY <2>1, <3>1, <3>3
      <4>2. QED
        BY <2>1, <2>6, <2>8, <2>10, <3>1, <3>3, <4>1
    <3>4. QED
      BY <3>2, <3>3
  <2>11. /\ Announcing' # {} => bulletin'.sending
         /\ \A i, j \in Announcing' : i = j
         /\ query'.kind = "bulletin" => bulletin'.typed /\ ~bulletin'.sending
    BY <1>1, <2>1, <2>7 DEF BulletinInv
  <2>12. QED
    BY <2>1, <2>3, <2>5, <2>6, <2>10, <2>11, BulletinRest
<1>5. QED
  BY <1>3, <1>4

\* It ends, is refused, or the page hears nothing of it.
LEMMA EndBulletinStep ==
  ASSUME ConsoleInv, NEW k \in Errands, BulletinDone(k) \/ BulletinRefused(k) \/ BulletinLost(k)
  PROVE  ConsoleInv'
<1>1. ErrandsTyped /\ MailTyped /\ BulletinInv
  BY ConsoleTypedIs DEF ConsoleInv
<1>2. errand[k] \in ErrandRow /\ ErrandFits(errand[k])
  BY <1>1 DEF ErrandsTyped
<1>3. /\ errand[k].kind = "bulletin"
      /\ UNCHANGED <<recs, tableVars, opened, query, letter, letters, posts, misheard, bulletins>>
  BY DEF BulletinDone, BulletinRefused, BulletinLost
<1>4. bulletin \in [typed : BOOLEAN, sending : BOOLEAN] /\ unknown \in [letter : Nat, bulletin : Nat]
  BY <1>1 DEF MailTyped
<1>5. CASE BulletinDone(k)
  <2>1. /\ errand[k].pc \in {"running", "lost"} /\ errand[k].to = {} /\ unknown' = unknown
        /\ bulletin' = IF errand[k].pc = "running" THEN [typed |-> FALSE, sending |-> FALSE] ELSE bulletin
        /\ errand' = [errand EXCEPT ![k] = NoErrand]
    BY <1>5 DEF BulletinDone
  <2>2. ErrandTo(k) /\ errand'[k] = NoErrand
    BY <1>1, <2>1, ErrandEnds
  <2>3. bulletin' \in [typed : BOOLEAN, sending : BOOLEAN]
    BY <1>4, <2>1
  <2>4. MailTyped'
    BY <1>1, <1>3, <2>1, <2>3 DEF MailTyped
  <2>5. \A p : Owing(p)' = Owing(p)
    <3>1. \A p : k \notin Owing(p) /\ k \notin Owing(p)'
      BY <2>1, <2>2, NoErrandFits, OneErrandGoes DEF Owing
    <3>2. \A p : Owing(p)' \in {Owing(p) \ {k}, Owing(p) \cup {k}}
      BY <2>2, OneErrandGoes
    <3>3. QED
      BY <3>1, <3>2
  <2>6. WaitingPost' <= WaitingPost /\ WaitingPost' \in {0, 1}
    BY <1>4, <2>1, <2>3 DEF WaitingPost
  <2>7. Announcing' \in {Announcing \ {k}, Announcing \cup {k}} /\ k \notin Announcing'
    BY <2>2, NoErrandFits, OneErrandGoes
  <2>8. Announcing' = Announcing \ {k}
    BY <2>7
  <2>9. /\ Announcing' # {} => bulletin'.sending
        /\ \A i, j \in Announcing' : i = j
        /\ query'.kind = "bulletin" => bulletin'.typed /\ ~bulletin'.sending
    <3>1. CASE errand[k].pc = "running"
      <4>1. Announcing = {k} /\ query.kind # "bulletin"
        BY <1>3, <3>1, OneBulletin
      <4>2. QED
        BY <1>3, <2>8, <4>1
    <3>2. CASE errand[k].pc = "lost"
      BY <1>1, <1>3, <2>1, <2>8, <3>2 DEF BulletinInv
    <3>3. QED
      BY <2>1, <3>1, <3>2
  <2>10. ASSUME NEW p \in Folk, posts[p] + Cardinality(Owing(p)) + WaitingPost <= bulletins + unknown.bulletin
         PROVE  posts'[p] + Cardinality(Owing(p)') + WaitingPost' <= bulletins + unknown'.bulletin
    BY <1>1, <1>3, <2>1, <2>5, <2>6, <2>10, OwingFinite, BulletinTypes
  <2>11. QED
    BY <1>3, <2>1, <2>2, <2>4, <2>9, <2>10, NoErrandFits, BulletinRest
<1>6. CASE BulletinRefused(k)
  <2>1. /\ errand[k].pc = "sent" /\ unknown' = unknown /\ bulletin' = [bulletin EXCEPT !.sending = FALSE]
        /\ errand' = [errand EXCEPT ![k] = NoErrand]
    BY <1>6 DEF BulletinRefused
  <2>2. ErrandTo(k) /\ errand'[k] = NoErrand
    BY <1>1, <2>1, ErrandEnds
  <2>3. bulletin' \in [typed : BOOLEAN, sending : BOOLEAN]
    BY <1>4, <2>1
  <2>4. MailTyped'
    BY <1>1, <1>3, <2>1, <2>3 DEF MailTyped
  <2>5. Announcing = {k} /\ bulletin.sending /\ query.kind # "bulletin"
    BY <1>3, <2>1, OneBulletin
  <2>6. \A p : Owing(p)' = Owing(p) \ {k} /\ k \in Owing(p)
    <3>1. \A p : k \in Owing(p) /\ k \notin Owing(p)'
      BY <1>3, <2>1, <2>2, NoErrandFits, OneErrandGoes DEF Owing
    <3>2. \A p : Owing(p)' \in {Owing(p) \ {k}, Owing(p) \cup {k}}
      BY <2>2, OneErrandGoes
    <3>3. QED
      BY <3>1, <3>2
  <2>7. \A p : Cardinality(Owing(p)') = Cardinality(Owing(p)) - 1
    BY <2>6, OwingFinite, FS_RemoveElement
  <2>8. Announcing' = {}
    <3>1. Announcing' \in {Announcing \ {k}, Announcing \cup {k}} /\ k \notin Announcing'
      BY <2>2, NoErrandFits, OneErrandGoes
    <3>2. QED
      BY <2>5, <3>1
  <2>9. WaitingPost = 0 /\ WaitingPost' \in {0, 1}
    BY <2>3, <2>5 DEF WaitingPost
  <2>10. ASSUME NEW p \in Folk, posts[p] + Cardinality(Owing(p)) + WaitingPost <= bulletins + unknown.bulletin
         PROVE  posts'[p] + Cardinality(Owing(p)') + WaitingPost' <= bulletins + unknown'.bulletin
    BY <1>1, <1>3, <2>1, <2>7, <2>9, <2>10, OwingFinite, BulletinTypes
  <2>11. QED
    BY <1>3, <2>1, <2>2, <2>4, <2>5, <2>8, <2>10, NoErrandFits, BulletinRest
<1>7. CASE BulletinLost(k)
  <2> DEFINE q == [errand[k] EXCEPT !.pc = "lost"]
  <2>1. /\ errand[k].pc = "running" /\ unknown' = [unknown EXCEPT !.bulletin = @ + 1]
        /\ bulletin' = [bulletin EXCEPT !.sending = FALSE] /\ errand' = [errand EXCEPT ![k] = q]
    BY <1>7 DEF BulletinLost
  <2>2. q \in ErrandRow /\ q.kind = "bulletin" /\ q.pc = "lost" /\ q.row = errand[k].row /\ q.to = errand[k].to
    BY <1>2, <1>3 DEF ErrandRow
  <2>3. ErrandFits(q)
    BY <2>2 DEF ErrandFits
  <2> HIDE DEF q
  <2>4. ErrandTo(k) /\ errand'[k] = q
    BY <1>1, <2>1, <2>2, <2>3, ErrandAs
  <2>5. bulletin' \in [typed : BOOLEAN, sending : BOOLEAN]
    BY <1>4, <2>1
  <2>6. /\ unknown' \in [letter : Nat, bulletin : Nat] /\ unknown'.letter = unknown.letter
        /\ unknown'.bulletin = unknown.bulletin + 1
    BY <1>4, <2>1
  <2>7. MailTyped'
    BY <1>1, <1>3, <2>5, <2>6 DEF MailTyped
  <2>8. Announcing = {k} /\ bulletin.sending /\ query.kind # "bulletin"
    BY <1>3, <2>1, OneBulletin
  <2>9. \A p : Owing(p)' = Owing(p)
    <3>1. \A p : k \in Owing(p) <=> k \in Owing(p)'
      BY <1>3, <2>1, <2>2, <2>4, OneErrandGoes DEF Owing
    <3>2. \A p : Owing(p)' \in {Owing(p) \ {k}, Owing(p) \cup {k}}
      BY <2>4, OneErrandGoes
    <3>3. ASSUME NEW p PROVE Owing(p)' = Owing(p)
      <4>1. CASE k \in Owing(p)
        BY <3>1, <3>2, <4>1
      <4>2. CASE k \notin Owing(p)
        BY <3>1, <3>2, <4>2
      <4>3. QED
        BY <4>1, <4>2
    <3>4. QED
      BY <3>3
  <2>10. Announcing' = {}
    <3>1. Announcing' \in {Announcing \ {k}, Announcing \cup {k}} /\ k \notin Announcing'
      BY <2>2, <2>4, OneErrandGoes
    <3>2. QED
      BY <2>8, <3>1
  <2>11. WaitingPost = 0 /\ WaitingPost' \in {0, 1}
    BY <2>5, <2>8 DEF WaitingPost
  <2>12. ASSUME NEW p \in Folk, posts[p] + Cardinality(Owing(p)) + WaitingPost <= bulletins + unknown.bulletin
         PROVE  posts'[p] + Cardinality(Owing(p)') + WaitingPost' <= bulletins + unknown'.bulletin
    BY <1>1, <1>3, <2>6, <2>9, <2>11, <2>12, OwingFinite, BulletinTypes
  <2>13. QED
    BY <1>3, <2>2, <2>4, <2>6, <2>7, <2>8, <2>10, <2>12, BulletinRest
<1>8. QED
  BY <1>5, <1>6, <1>7

LEMMA ConsoleStep == ConsoleInv /\ [ConsoleNext]_consoleVars => ConsoleInv'
<1> SUFFICES ASSUME ConsoleInv, [ConsoleNext]_consoleVars PROVE ConsoleInv'
  OBVIOUS
<1>1. CASE UNCHANGED consoleVars
  <2>1. ErrandsTyped /\ TablesTyped /\ DrawerTyped
    BY ConsoleTypedIs DEF ConsoleInv
  <2>2. UNCHANGED <<recs, desk, turning, sought, errand, opened, query, mailVars>>
    BY <1>1 DEF consoleVars, tableVars
  <2>3. ErrandsTyped' /\ TablesTyped' /\ DrawerTyped'
    BY <2>1, <2>2, DrawerKept DEF ErrandsTyped, ErrandFits, TablesTyped
  <2>4. QED
    BY <2>2, <2>3, NoMailStep
<1>2. CASE ConsoleNext
  <2>1. ASSUME NEW k \in Errands,
               \/ \E t \in Desks : FirstRows(k, t)
               \/ \E t \in Desks : \E hits \in {RowsOf(t)} \cup {{r} : r \in RowsOf(t)} : Search(k, t, hits)
               \/ GetRows(k) \/ SetRows(k) \/ FetchRowsFails(k)
        PROVE  ConsoleInv'
    BY <2>1, RowsStep
  <2>2. ASSUME NEW k \in Errands,
               \/ \E r \in Entries : ToggleOnDesk(k, r)
               \/ \E w \in Spaces, paid \in BOOLEAN : SetPlan(k, w, paid)
               \/ \E p \in Folk : VerifyUserEmail(k, p)
               \/ ToggleInDrawer(k)
        PROVE  ConsoleInv'
    BY <2>2, SwitchStep
  <2>3. ASSUME NEW k \in Errands,
               \/ StoreChange(k) \/ MarkVerified(k) \/ StoreDeletion(k)
               \/ ChangeDone(k) \/ PutFails(k) \/ OthersFail(k) \/ DeletionDone(k)
        PROVE  ConsoleInv'
    BY <2>3, StoredStep, ChangeEndsStep
  <2>4. ASSUME NEW k \in Errands,
               \/ EmailTenant(k) \/ MailOwner(k) \/ LetterAnswered(k) \/ SendBulletin(k)
               \/ ReadUsers(k) \/ \E p \in Folk : MailUser(k, p)
               \/ BulletinDone(k) \/ BulletinRefused(k) \/ BulletinLost(k)
        PROVE  ConsoleInv'
    BY <2>4, LetterStep, SendBulletinStep, ServeBulletinStep, EndBulletinStep
  <2>5. CASE \/ \E r \in Entries : ChangedElsewhere(r) \/ \E drawn \in BOOLEAN : AskDeletion(r, drawn)
             \/ Decline \/ CloseDrawer \/ \E k \in Errands : Confirm(k)
    BY <2>5, QuestionStep
  <2>6. CASE \/ \E w \in Spaces : OpenTenantDrawer(w)
             \/ TypeLetter \/ TypeBulletin \/ AskBulletin
    BY <2>6, DrawerHolds, BulletinForm
  <2>7. QED
    BY <1>2, <2>1, <2>2, <2>3, <2>4, <2>5, <2>6 DEF ConsoleNext
<1>3. QED
  BY <1>1, <1>2

LEMMA ConsoleSays == ConsoleInv => LetterOfOne /\ AnnouncedOnce
<1> SUFFICES ASSUME ConsoleInv PROVE LetterOfOne /\ AnnouncedOnce
  OBVIOUS
<1>1. MailTyped /\ LetterInv /\ BulletinInv
  BY ConsoleTypedIs DEF ConsoleInv
<1>2. LetterOfOne
  <2>1. letters \in Nat /\ unknown.letter \in Nat
    BY <1>1 DEF MailTyped
  <2>2. letters <= 1 + unknown.letter
    BY <1>1, <2>1 DEF LetterInv
  <2>3. QED
    BY <1>1, <2>2 DEF LetterInv, LetterOfOne
<1>3. AnnouncedOnce
  <2>1. ASSUME NEW p \in Folk PROVE posts[p] <= bulletins + unknown.bulletin
    <3>1. posts[p] + Cardinality(Owing(p)) + WaitingPost <= bulletins + unknown.bulletin
      BY <1>1 DEF BulletinInv, WaitingPost
    <3>2. QED
      BY <1>1, <3>1, OwingFinite, BulletinTypes
  <2>2. QED
    BY <2>1 DEF AnnouncedOnce
<1>4. QED
  BY <1>2, <1>3

-----------------------------------------------------------------------------
(* CampaignPage: the cards.                                                   *)

\* A list that is on its way, and the one that is shown, is right but for what was written since it was read.
RollInv ==
    /\ \A k \in Presses : roll[k].pc = "answered" =>
          \A b \in Bulletins \ roll[k].moved : roll[k].list[b] = bstatus[b]
    /\ ~shading /\ single => \A b \in Bulletins \ moved : campaigns[b] = bstatus[b]

LEMMA RollInit == CampaignPageInit => RollInv
<1> SUFFICES ASSUME CampaignPageInit PROVE RollInv
  OBVIOUS
<1>1. \A k \in Presses : roll[k].pc = "idle"
  BY DEF CampaignPageInit, NoRoll
<1>2. QED
  BY <1>1 DEF CampaignPageInit, RollInv

LEMMA RollKept ==
  ASSUME RollInv, UNCHANGED <<bstatus, campaignShown>>
  PROVE  RollInv'
BY DEF RollInv, campaignShown

\* A status is written.
LEMMA RollBecomes ==
  ASSUME CampaignInv, RollInv, NEW b \in Bulletins, NEW status, Become(b, status)
  PROVE  RollInv'
<1>1. bstatus \in [Bulletins -> Statuses] /\ roll \in [Presses -> RollRow]
  BY CampaignTypedIs DEF CampaignInv, PageTyped
<1>2. \A c \in Bulletins \ {b} : bstatus'[c] = bstatus[c]
  BY <1>1 DEF Become
<1>3. ASSUME NEW k \in Presses
      PROVE  /\ roll'[k].pc = roll[k].pc /\ roll'[k].list = roll[k].list
             /\ roll[k].pc = "answered" => roll'[k].moved = roll[k].moved \cup {b}
  <2>1. roll[k] \in RollRow
    BY <1>1
  <2>2. roll'[k] = IF roll[k].pc = "answered" THEN [roll[k] EXCEPT !.moved = @ \cup {b}] ELSE roll[k]
    BY DEF Become
  <2>3. QED
    BY <2>1, <2>2 DEF RollRow
<1>4. UNCHANGED <<campaigns, shading, single>> /\ moved' = moved \cup {b}
  BY DEF Become
<1>5. ASSUME NEW k \in Presses, roll'[k].pc = "answered", NEW c \in Bulletins \ roll'[k].moved
      PROVE  roll'[k].list[c] = bstatus'[c]
  BY <1>2, <1>3, <1>5 DEF RollInv
<1>6. ASSUME ~shading' /\ single', NEW c \in Bulletins \ moved' PROVE campaigns'[c] = bstatus'[c]
  BY <1>2, <1>4, <1>6 DEF RollInv
<1>7. QED
  BY <1>5, <1>6 DEF RollInv

\* The list is asked for.
LEMMA RollAsked ==
  ASSUME CampaignInv, RollInv, NEW k \in Presses, FetchCampaigns(k), UNCHANGED bstatus
  PROVE  RollInv'
<1>1. roll \in [Presses -> RollRow]
  BY CampaignTypedIs DEF CampaignInv, PageTyped
<1>2. \A j \in Presses : roll'[j] = roll[j] \/ roll'[j].pc = "asked"
  BY <1>1 DEF FetchCampaigns, RollRow
<1>3. QED
  BY <1>2 DEF RollInv, FetchCampaigns

LEMMA RollAnswers ==
  ASSUME CampaignInv, RollInv, NEW k \in Presses, FindCampaigns(k) \/ SetCampaigns(k) \/ FetchCampaignsFails(k)
  PROVE  RollInv'
<1>1. roll \in [Presses -> RollRow] /\ NoRoll.pc = "idle"
  BY CampaignTypedIs DEF CampaignInv, PageTyped, NoRoll
<1>2. CASE FindCampaigns(k)
  <2>1. /\ UNCHANGED <<bstatus, campaigns, shading, single, moved>>
        /\ roll' = [roll EXCEPT ![k] = [pc |-> "answered", list |-> bstatus, moved |-> {}]]
    BY <1>2 DEF FindCampaigns
  <2>2. \A j \in Presses : roll'[j] = roll[j] \/ roll'[j].list = bstatus
    BY <1>1, <2>1
  <2>3. QED
    BY <2>1, <2>2 DEF RollInv
<1>3. CASE SetCampaigns(k)
  <2>1. /\ UNCHANGED <<bstatus, single>> /\ roll[k].pc = "answered"
        /\ campaigns' = roll[k].list /\ moved' = roll[k].moved /\ roll' = [roll EXCEPT ![k] = NoRoll]
    BY <1>3 DEF SetCampaigns
  <2>2. \A j \in Presses : roll'[j] = roll[j] \/ roll'[j].pc = "idle"
    BY <1>1, <2>1
  <2>3. QED
    BY <2>1, <2>2 DEF RollInv
<1>4. CASE FetchCampaignsFails(k)
  <2>1. UNCHANGED bstatus /\ ~single' /\ roll' = [roll EXCEPT ![k] = NoRoll]
    BY <1>4 DEF FetchCampaignsFails
  <2>2. \A j \in Presses : roll'[j] = roll[j] \/ roll'[j].pc = "idle"
    BY <1>1, <2>1
  <2>3. QED
    BY <2>1, <2>2 DEF RollInv
<1>5. QED
  BY <1>2, <1>3, <1>4

LEMMA RollStep ==
  ASSUME CampaignInv, RollInv, [CampaignPageNext]_campaignPageVars
  PROVE  RollInv'
<1>1. DeedsTyped /\ Cron \in Senders
  BY CampaignTypedIs DEF CampaignInv, Senders
<1>2. ASSUME NEW s \in Senders, deed[s].pc # "idle" PROVE deed[s].id \in Bulletins
  BY <1>1, <1>2 DEF DeedsTyped, DeedInOrder
<1>3. ASSUME NEW k \in Presses,
             FirstRoll(k) \/ Created(k) \/ \E j \in Presses : DeedDone(j, k)
      PROVE RollInv'
  <2>1. FetchCampaigns(k) /\ UNCHANGED bstatus
    BY <1>3 DEF FirstRoll, Created, DeedDone
  <2>2. QED
    BY <2>1, RollAsked
<1>4. ASSUME NEW k \in Presses,
             Decide(k) \/ CheckCancellable(k) \/ DeedFails(k)
      PROVE RollInv'
  BY <1>4, RollKept DEF Decide, CheckCancellable, DeedFails
<1>5. CASE \/ \E b \in Bulletins : ViewDetails(b) \/ AskOnCard(b) \/ CronFinds(b)
           \/ \E s \in Senders : CheckSendable(s)
           \/ CloseDetails \/ AskInDrawer \/ FillForm \/ CloseDraft \/ CreateCampaign \/ CreateFails
           \/ UNCHANGED campaignPageVars
  <2>1. UNCHANGED <<bstatus, campaignShown>>
    BY <1>5 DEF ViewDetails, AskOnCard, CronFinds, CheckSendable, CloseDetails, AskInDrawer, FillForm, CloseDraft,
       CreateCampaign, CreateFails, campaignPageVars
  <2>2. QED
    BY <2>1, RollKept
<1>6. ASSUME NEW s \in Senders, MarkSending(s) \/ MarkSent(s) \/ (s \in Presses /\ CancelCampaign(s)) \/ (s = Cron /\ CronParks)
      PROVE RollInv'
  <2>1. deed[s].pc # "idle" /\ \E status : Become(deed[s].id, status)
    BY <1>6 DEF MarkSending, MarkSent, CancelCampaign, CronParks
  <2>2. QED
    BY <1>2, <2>1, RollBecomes
<1>7. ASSUME NEW b \in Bulletins, NEW status \in Sendable, StoreCampaign(b, status) PROVE RollInv'
  BY <1>7, RollBecomes DEF StoreCampaign
<1>8. Presses \subseteq Senders
  BY DEF Senders
<1>9. QED
  BY <1>1, <1>3, <1>4, <1>5, <1>6, <1>7, <1>8, RollAnswers DEF CampaignPageNext

LEMMA RollShows == RollInv => CampaignsShown
BY DEF RollInv, CampaignsShown

-----------------------------------------------------------------------------
(* AdminConsole: the tables and the drawer.                                   *)

Changes == {"put", "verify", "delete"}
\* The changes of a row that are under way, and what a table should show of it.
Upon(r) == {k \in Errands : errand[k].kind \in Changes /\ errand[k].row = r}
Wanted(r) == IF r \in sought THEN recs[r] ELSE Gone

ErrandRight(e) ==
    /\ e.kind \in Changes => e.pc \in {"sent", "stored"}
    /\ e.kind = "list" => e.pc \in {"sent", "answered"}
    /\ e.kind = "verify" => e.row \in Folk
    /\ e.drawn => e.row \in Spaces

\* A change is of a row of its kind; two at once, or one while the list is read, race.
ChangesInv ==
    /\ \A k \in Errands : ErrandRight(errand[k])
    /\ query.drawn => query.row \in Spaces
    /\ raced \subseteq Entries /\ sure \subseteq Desks /\ blurred \in BOOLEAN
    /\ \A r \in Entries \ raced : \A j, k \in Upon(r) : j = k
    /\ \A t \in Desks : RowsAsked(t) # {} => \A r \in RowsOf(t) \ raced : Upon(r) = {}

\* What a table shows of the row that a change is about.
DeskDuring(e) ==
    LET r == e.row IN
    IF r \notin sought THEN desk[r] = Gone
    ELSE /\ e.kind = "put" /\ e.pc = "sent" => recs[r] \in Entry /\ desk[r] = [recs[r] EXCEPT ![e.field] = e.value]
         /\ e.kind = "put" /\ e.pc = "stored" => desk[r] = recs[r]
         /\ e.kind # "put" /\ e.pc = "sent" => desk[r] = recs[r]
         /\ e.kind = "verify" /\ e.pc = "stored" => desk[r] \in Entry /\ recs[r] = [desk[r] EXCEPT !.grade = TRUE]

RowFine(r) == /\ Upon(r) = {} => desk[r] = Wanted(r)
              /\ \A k \in Upon(r) : DeskDuring(errand[k])

\* A table whose last request was alone.
SureInv(t) ==
    t \in sure =>
       /\ \A j, k \in RowsAsked(t) : j = k
       /\ RowsAsked(t) # {} => t \in turning
       /\ \A k \in RowsAsked(t) :
             /\ errand[k].seek = sought \cap RowsOf(t)
             /\ errand[k].pc = "answered" => \A r \in RowsOf(t) \ raced : errand[k].list[r] = Wanted(r)
       /\ RowsAsked(t) = {} => \A r \in RowsOf(t) \ raced : RowFine(r)

\* What the drawer shows while a change of its workspace is under way.
DrawnDuring(e) ==
    /\ e.kind = "put" /\ e.field = "on" => e.value = ~opened.shows.on
    /\ e.pc = "sent" => recs[e.row] = opened.shows
    /\ e.kind = "put" /\ e.pc = "stored" => recs[e.row] = [opened.shows EXCEPT ![e.field] = e.value]

PickFine(w) == /\ Upon(w) = {} => opened.shows = recs[w]
               /\ \A k \in Upon(w) : DrawnDuring(errand[k])

PickInv ==
    opened.open /\ ~blurred =>
       /\ \A w \in Spaces : \A k \in Upon(w) : w = opened.row /\ errand[k].drawn
       /\ query.kind = "delete" => query.row = opened.row /\ query.drawn
       /\ opened.row \notin raced => PickFine(opened.row)

DesksInv == ChangesInv /\ (\A t \in Desks : SureInv(t)) /\ PickInv

LEMMA DesksInit == ConsoleInit => DesksInv
<1> SUFFICES ASSUME ConsoleInit PROVE DesksInv
  OBVIOUS
<1>1. \A k \in Errands : errand[k] = NoErrand
  BY DEF ConsoleInit
<1>2. NoErrand.kind = "none" /\ NoErrand.drawn = FALSE
  BY DEF NoErrand
<1>3. (\A r : Upon(r) = {}) /\ \A t : RowsAsked(t) = {}
  BY <1>1, <1>2 DEF Upon, RowsAsked, Changes
<1>4. sure = {} /\ raced = {} /\ blurred = FALSE /\ opened.open = FALSE /\ query.drawn = FALSE
  BY DEF ConsoleInit, NoPick, NoQuery
<1>5. ChangesInv
  BY <1>1, <1>2, <1>3, <1>4 DEF ChangesInv, ErrandRight, Changes
<1>6. QED
  BY <1>4, <1>5 DEF DesksInv, SureInv, PickInv

\* What a step of one request leaves alone.
LEMMA UponOthers ==
  ASSUME NEW k \in Errands, \A j \in Errands \ {k} : errand'[j] = errand[j], NEW r,
         errand[k].kind \in Changes => errand[k].row # r, errand'[k].kind \in Changes => errand'[k].row # r
  PROVE  Upon(r)' = Upon(r) /\ \A j \in Upon(r) : errand'[j] = errand[j]
BY DEF Upon

LEMMA AskedOthers ==
  ASSUME NEW k \in Errands, \A j \in Errands \ {k} : errand'[j] = errand[j], NEW t,
         errand[k].kind = "list" => errand[k].row # t, errand'[k].kind = "list" => errand'[k].row # t
  PROVE  RowsAsked(t)' = RowsAsked(t) /\ \A j \in RowsAsked(t) : errand'[j] = errand[j]
BY DEF RowsAsked

LEMMA RowKept ==
  ASSUME NEW r, RowFine(r), desk'[r] = desk[r], recs'[r] = recs[r], r \in sought' <=> r \in sought,
         Upon(r)' = Upon(r), \A j \in Upon(r) : errand'[j] = errand[j], \A j \in Upon(r) : errand[j].row = r
  PROVE  RowFine(r)'
<1>1. Wanted(r)' = Wanted(r)
  BY DEF Wanted
<1>2. ASSUME NEW j \in Upon(r) PROVE DeskDuring(errand[j])'
  <2>1. DeskDuring(errand[j]) /\ errand'[j] = errand[j] /\ errand[j].row = r
    BY <1>2 DEF RowFine
  <2>2. QED
    BY <2>1 DEF DeskDuring
<1>3. QED
  BY <1>1, <1>2 DEF RowFine

LEMMA UponRow == \A r : \A j \in Upon(r) : j \in Errands /\ errand[j].kind \in Changes /\ errand[j].row = r
BY DEF Upon

LEMMA DeskRows ==
  /\ \A r \in Entries : DeskOf(r) \in Desks /\ r \in RowsOf(DeskOf(r))
  /\ \A t \in Desks : RowsOf(t) \subseteq Entries /\ \A r \in RowsOf(t) : DeskOf(r) = t
  /\ \A r \in Spaces : DeskOf(r) = "tenants" /\ r \in RowsOf("tenants")
  /\ RowsOf("tenants") = Spaces /\ RowsOf("users") = Folk
BY AdminConsoleAssumption DEF DeskOf, Desks, RowsOf, Entries

\* A table of which no list is asked for or given by this step.
LEMMA SureRows ==
  ASSUME NEW t \in Desks, SureInv(t), RowsAsked(t)' = RowsAsked(t), \A j \in RowsAsked(t) : errand'[j] = errand[j],
         t \in sure' => t \in sure, t \in turning => t \in turning',
         sought' \cap RowsOf(t) = sought \cap RowsOf(t), raced \subseteq raced',
         RowsAsked(t) # {} => \A r \in RowsOf(t) \ raced' : recs'[r] = recs[r],
         RowsAsked(t) = {} /\ t \in sure /\ (\A r \in RowsOf(t) \ raced : RowFine(r))
            => \A r \in RowsOf(t) \ raced' : RowFine(r)'
  PROVE  SureInv(t)'
<1> SUFFICES ASSUME t \in sure' PROVE SureInv(t)'
  BY DEF SureInv
<1>1. t \in sure
  OBVIOUS
<1>2. (\A j, k \in RowsAsked(t)' : j = k) /\ (RowsAsked(t)' # {} => t \in turning')
  BY <1>1 DEF SureInv
<1>3. ASSUME NEW k \in RowsAsked(t)'
      PROVE  /\ errand'[k].seek = sought' \cap RowsOf(t)
             /\ errand'[k].pc = "answered" => \A r \in RowsOf(t) \ raced' : errand'[k].list[r] = Wanted(r)'
  <2>1. errand'[k] = errand[k] /\ k \in RowsAsked(t)
    BY <1>3
  <2>2. errand'[k].seek = sought' \cap RowsOf(t)
    BY <1>1, <2>1 DEF SureInv
  <2>3. ASSUME errand'[k].pc = "answered", NEW r \in RowsOf(t) \ raced' PROVE errand'[k].list[r] = Wanted(r)'
    <3>1. errand[k].list[r] = Wanted(r)
      BY <1>1, <2>1, <2>3 DEF SureInv
    <3>2. recs'[r] = recs[r] /\ (r \in sought' <=> r \in sought)
      BY <2>1, <2>3
    <3>3. QED
      BY <2>1, <3>1, <3>2 DEF Wanted
  <2>4. QED
    BY <2>2, <2>3
<1>4. RowsAsked(t)' = {} => \A r \in RowsOf(t) \ raced' : RowFine(r)'
  BY <1>1 DEF SureInv
<1>5. QED
  BY <1>1, <1>2, <1>3, <1>4 DEF SureInv

\* A table that a step leaves alone.
LEMMA SureKept ==
  ASSUME NEW t \in Desks, SureInv(t), RowsAsked(t)' = RowsAsked(t), \A j \in RowsAsked(t) : errand'[j] = errand[j],
         t \in sure' => t \in sure, t \in turning => t \in turning',
         sought' \cap RowsOf(t) = sought \cap RowsOf(t), raced \subseteq raced',
         \A r \in RowsOf(t) \ raced' : /\ recs'[r] = recs[r] /\ desk'[r] = desk[r] /\ Upon(r)' = Upon(r)
                                       /\ \A j \in Upon(r) : errand'[j] = errand[j]
  PROVE  SureInv(t)'
<1>1. ASSUME NEW r \in RowsOf(t) \ raced', RowFine(r) PROVE RowFine(r)'
  <2>1. r \in sought' <=> r \in sought
    OBVIOUS
  <2>2. QED
    BY <1>1, <2>1, RowKept, UponRow
<1>2. QED
  BY <1>1, SureRows

\* A drawer that a step leaves alone.
LEMMA PickKept ==
  ASSUME PickInv, opened' = opened, blurred => blurred', raced \subseteq raced',
         opened.row \notin raced' => recs'[opened.row] = recs[opened.row],
         query' = query \/ query'.kind # "delete",
         \A w \in Spaces : Upon(w)' \subseteq Upon(w) /\ \A j \in Upon(w)' : errand'[j] = errand[j],
         opened.row \notin raced' => Upon(opened.row)' = Upon(opened.row), opened.open => opened.row \in Spaces
  PROVE  PickInv'
<1> SUFFICES ASSUME opened.open, ~blurred' PROVE PickInv'
  BY DEF PickInv
<1>1. ~blurred
  OBVIOUS
<1>2. \A w \in Spaces : \A k \in Upon(w)' : w = opened'.row /\ errand'[k].drawn
  BY <1>1 DEF PickInv
<1>3. query'.kind = "delete" => query'.row = opened'.row /\ query'.drawn
  BY <1>1 DEF PickInv
<1>4. ASSUME opened.row \notin raced' PROVE PickFine(opened.row)'
  <2>1. PickFine(opened.row) /\ recs'[opened.row] = recs[opened.row] /\ Upon(opened.row)' = Upon(opened.row)
    BY <1>1, <1>4 DEF PickInv
  <2>2. ASSUME NEW k \in Upon(opened.row) PROVE DrawnDuring(errand[k])'
    <3>1. errand'[k] = errand[k] /\ errand[k].row = opened.row /\ DrawnDuring(errand[k])
      BY <2>1, <2>2, UponRow DEF PickFine
    <3>2. QED
      BY <2>1, <3>1 DEF DrawnDuring
  <2>3. QED
    BY <2>1, <2>2 DEF PickFine
<1>5. QED
  BY <1>2, <1>3, <1>4 DEF PickInv

\* What one request becomes.
LEMMA ChangesKept ==
  ASSUME ConsoleInv, ChangesInv, NEW k \in Errands, \A j \in Errands \ {k} : errand'[j] = errand[j],
         ErrandRight(errand'[k]), query'.drawn => query'.row \in Spaces,
         raced \subseteq raced', raced' \subseteq Entries, sure' \subseteq Desks, blurred' \in BOOLEAN,
         \/ errand'[k].kind \notin Changes
         \/ errand[k].kind \in Changes /\ errand'[k].row = errand[k].row
         \/ errand'[k].row \in raced'
         \/ /\ Upon(errand'[k].row) = {} /\ errand'[k].row \in Entries
            /\ RowsAsked(DeskOf(errand'[k].row)) \subseteq {k} /\ errand'[k].kind # "list",
         \/ errand'[k].kind # "list"
         \/ errand[k].kind = "list" /\ errand'[k].row = errand[k].row
         \/ \A j \in Changing(errand'[k].row) \ {k} : errand[j].row \in raced'
  PROVE  ChangesInv'
<1>1. \A j \in Errands : ErrandRight(errand'[j])
  BY DEF ChangesInv
<1>2. ASSUME NEW r \in Entries \ raced', NEW i \in Upon(r)', NEW j \in Upon(r)' PROVE i = j
  <2>1. r \in Entries \ raced /\ \A a, b \in Upon(r) : a = b
    BY <1>2 DEF ChangesInv
  <2>2. \A a \in Upon(r)' \ {k} : a \in Upon(r)
    BY DEF Upon
  <2>3. CASE k \notin Upon(r)'
    BY <1>2, <2>1, <2>2, <2>3
  <2>4. CASE k \in Upon(r)'
    <3>1. errand'[k].kind \in Changes /\ errand'[k].row = r
      BY <2>4 DEF Upon
    <3>2. k \in Upon(r) \/ Upon(r) = {}
      BY <1>2, <3>1 DEF Upon
    <3>3. QED
      BY <1>2, <2>1, <2>2, <3>2
  <2>5. QED
    BY <2>3, <2>4
<1>3. ASSUME NEW t \in Desks, RowsAsked(t)' # {}, NEW r \in RowsOf(t) \ raced' PROVE Upon(r)' = {}
  <2>1. r \in Entries /\ DeskOf(r) = t /\ r \notin raced
    BY DeskRows
  <2>2. SUFFICES ASSUME NEW j \in Upon(r)' PROVE FALSE
    OBVIOUS
  <2>3. j \in Errands /\ errand'[j].kind \in Changes /\ errand'[j].row = r
    BY <2>2 DEF Upon
  <2>4. PICK i \in Errands : errand'[i].kind = "list" /\ errand'[i].row = t
    BY <1>3 DEF RowsAsked
  <2>5. i # j
    BY <2>3, <2>4 DEF Changes
  <2>6. CASE i # k /\ j # k
    <3>1. i \in RowsAsked(t) /\ j \in Upon(r)
      BY <2>3, <2>4, <2>6 DEF RowsAsked, Upon
    <3>2. QED
      BY <2>1, <3>1 DEF ChangesInv
  <2>7. CASE i = k
    <3>1. errand[j] = errand'[j] /\ j \in Upon(r) /\ j \in Changing(t) \ {k}
      BY <2>1, <2>3, <2>5, <2>7 DEF Upon, Changing, Changes
    <3>2. errand[k].kind = "list" /\ errand'[k].row = errand[k].row
      BY <1>3, <2>3, <2>4, <2>7, <3>1
    <3>3. k \in RowsAsked(t)
      BY <2>4, <2>7, <3>2 DEF RowsAsked
    <3>4. QED
      BY <2>1, <3>1, <3>3 DEF ChangesInv
  <2>8. CASE j = k
    <3>1. i \in RowsAsked(t) /\ i # k
      BY <2>4, <2>5, <2>8 DEF RowsAsked
    <3>2. ~(Upon(errand'[k].row) = {} /\ RowsAsked(DeskOf(errand'[k].row)) \subseteq {k})
      BY <2>1, <2>3, <2>8, <3>1
    <3>3. k \in Upon(r)
      BY <1>3, <2>3, <2>8, <3>2 DEF Upon
    <3>4. QED
      BY <2>1, <3>1, <3>3 DEF ChangesInv
  <2>9. QED
    BY <2>6, <2>7, <2>8
<1>4. QED
  BY <1>1, <1>2, <1>3 DEF ChangesInv

\* A step of a letter or an announcement, of another administrator, or of what the page asks.
LEMMA DesksRest ==
  ASSUME ConsoleInv, DesksInv,
         \A k \in Errands : errand'[k] = errand[k] \/ (~(errand[k].kind \in Changes \cup {"list"})
                                                       /\ ~(errand'[k].kind \in Changes \cup {"list"})
                                                       /\ ErrandRight(errand'[k])),
         UNCHANGED tableVars, raced \subseteq raced', raced' \subseteq Entries,
         \A r \in Entries \ raced' : recs'[r] = recs[r], UNCHANGED blurred, opened' = opened,
         query' = query \/ (query'.kind # "delete" /\ ~query'.drawn)
  PROVE  DesksInv'
<1>1. UNCHANGED <<desk, turning, sought, sure>>
  BY DEF tableVars
<1>2. ChangesInv /\ (\A t \in Desks : SureInv(t)) /\ PickInv
  BY DEF DesksInv
<1>3. \A r : Upon(r)' = Upon(r) /\ \A j \in Upon(r) : errand'[j] = errand[j]
  BY DEF Upon
<1>4. \A t : RowsAsked(t)' = RowsAsked(t) /\ \A j \in RowsAsked(t) : errand'[j] = errand[j]
  BY DEF RowsAsked
<1>5. ChangesInv'
  <2>1. ASSUME NEW k \in Errands PROVE ErrandRight(errand'[k])
    <3>1. CASE errand'[k] = errand[k]
      BY <1>2, <3>1 DEF ChangesInv
    <3>2. QED
      BY <3>1
  <2>2. QED
    BY <1>1, <1>2, <1>3, <1>4, <2>1 DEF ChangesInv
<1>6. ASSUME NEW t \in Desks PROVE SureInv(t)'
  <2>1. RowsOf(t) \subseteq Entries
    BY DeskRows
  <2>2. QED
    BY <1>1, <1>2, <1>3, <1>4, <2>1, SureKept
<1>7. PickInv'
  <2>1. opened.open => opened.row \in Spaces
    BY DEF ConsoleInv, ConsoleTyped
  <2>2. CASE opened.open
    <3>1. opened.row \in Entries
      BY <2>1, <2>2 DEF Entries
    <3>2. QED
      BY <1>2, <1>3, <2>1, <3>1, PickKept
  <2>3. CASE ~opened.open
    BY <2>3 DEF PickInv
  <2>4. QED
    BY <2>2, <2>3
<1>8. QED
  BY <1>5, <1>6, <1>7 DEF DesksInv

LEMMA DesksMailStep ==
  ASSUME ConsoleInv, DesksInv,
         \/ \E k \in Errands : \/ EmailTenant(k) \/ MailOwner(k) \/ LetterAnswered(k) \/ SendBulletin(k) \/ ReadUsers(k)
                               \/ (\E p \in Folk : MailUser(k, p))
                               \/ BulletinDone(k) \/ BulletinRefused(k) \/ BulletinLost(k)
         \/ \E r \in Entries : ChangedElsewhere(r)
         \/ Decline \/ TypeLetter \/ TypeBulletin \/ AskBulletin
  PROVE  DesksInv'
<1>1. NoQuery.kind = "none" /\ ~NoQuery.drawn /\ NoErrand.kind = "none" /\ ~NoErrand.drawn
  BY DEF NoQuery, NoErrand
<1>2. raced \subseteq Entries
  BY DEF DesksInv, ChangesInv
<1>3. \A k \in Errands : errand[k] \in ErrandRow
  BY DEF ConsoleInv, ConsoleTyped
<1>4. ASSUME NEW k \in Errands,
             \/ EmailTenant(k) \/ MailOwner(k) \/ LetterAnswered(k) \/ SendBulletin(k) \/ ReadUsers(k)
             \/ (\E p \in Folk : MailUser(k, p))
             \/ BulletinDone(k) \/ BulletinRefused(k) \/ BulletinLost(k)
      PROVE  DesksInv'
  <2>1. /\ UNCHANGED <<tableVars, recs, opened, raced, blurred>>
        /\ query' = query \/ query' = NoQuery
    BY <1>4
    DEF EmailTenant, MailOwner, LetterAnswered, SendBulletin, ReadUsers, MailUser, BulletinDone, BulletinRefused,
        BulletinLost
  <2>2. errand[k].kind \in {"none", "letter", "bulletin"}
    BY <1>4
    DEF EmailTenant, MailOwner, LetterAnswered, SendBulletin, ReadUsers, MailUser, BulletinDone, BulletinRefused,
        BulletinLost, Spare
  <2>3. /\ \A j \in Errands \ {k} : errand'[j] = errand[j]
        /\ errand'[k].kind \in {"none", "letter", "bulletin"}
        /\ errand'[k].drawn => errand[k].drawn /\ errand'[k].row = errand[k].row
    <3>1. CASE EmailTenant(k) \/ SendBulletin(k)
      <4>1. PICK q : errand' = [errand EXCEPT ![k] = q] /\ q.kind \in {"letter", "bulletin"} /\ ~q.drawn
        <5>1. ASSUME EmailTenant(k)
              PROVE  \E q : errand' = [errand EXCEPT ![k] = q] /\ q.kind \in {"letter", "bulletin"} /\ ~q.drawn
          <6> DEFINE q == [NoErrand EXCEPT !.kind = "letter", !.pc = "sent", !.row = opened.row]
          <6>1. q.kind = "letter" /\ ~q.drawn
            BY <1>1, NoErrandFits DEF ErrandRow
          <6>2. errand' = [errand EXCEPT ![k] = q]
            BY <5>1 DEF EmailTenant
          <6> HIDE DEF q
          <6>3. QED
            BY <6>1, <6>2
        <5>2. ASSUME SendBulletin(k)
              PROVE  \E q : errand' = [errand EXCEPT ![k] = q] /\ q.kind \in {"letter", "bulletin"} /\ ~q.drawn
          <6> DEFINE q == [NoErrand EXCEPT !.kind = "bulletin", !.pc = "sent"]
          <6>1. q.kind = "bulletin" /\ ~q.drawn
            BY <1>1, NoErrandFits DEF ErrandRow
          <6>2. errand' = [errand EXCEPT ![k] = q]
            BY <5>2 DEF SendBulletin
          <6> HIDE DEF q
          <6>3. QED
            BY <6>1, <6>2
        <5>3. QED
          BY <3>1, <5>1, <5>2
      <4>2. QED
        BY <4>1 DEF ConsoleInv, ConsoleTyped
    <3>2. CASE MailOwner(k) \/ ReadUsers(k) \/ BulletinLost(k) \/ \E p \in Folk : MailUser(k, p)
      BY <1>3, <2>2, <3>2 DEF MailOwner, ReadUsers, BulletinLost, MailUser, ConsoleInv, ConsoleTyped, ErrandRow
    <3>3. CASE LetterAnswered(k) \/ BulletinDone(k) \/ BulletinRefused(k)
      BY <1>1, <1>3, <3>3 DEF LetterAnswered, BulletinDone, BulletinRefused, ConsoleInv, ConsoleTyped
    <3>4. QED
      BY <1>4, <3>1, <3>2, <3>3
  <2>4. ErrandRight(errand'[k])
    <3>1. ErrandRight(errand[k])
      BY DEF DesksInv, ChangesInv
    <3>2. QED
      BY <2>3, <3>1 DEF ErrandRight, Changes
  <2>5. \A j \in Errands : errand'[j] = errand[j] \/ (~(errand[j].kind \in Changes \cup {"list"})
                                                       /\ ~(errand'[j].kind \in Changes \cup {"list"})
                                                       /\ ErrandRight(errand'[j]))
    BY <2>2, <2>3, <2>4 DEF Changes
  <2>6. QED
    BY <1>1, <1>2, <2>1, <2>5, DesksRest
<1>5. ASSUME NEW r \in Entries, ChangedElsewhere(r) PROVE DesksInv'
  <2>1. /\ UNCHANGED <<tableVars, errand, opened, query, blurred>> /\ raced' = raced \cup {r}
        /\ recs' \in {[recs EXCEPT ![r].on = ~@], [recs EXCEPT ![r] = Gone]}
    BY <1>5 DEF ChangedElsewhere
  <2>2. \A x \in Entries \ raced' : recs'[x] = recs[x]
    BY <2>1 DEF ConsoleInv, ConsoleTyped, RowsKept
  <2>3. QED
    BY <1>2, <2>1, <2>2, DesksRest
<1>6. CASE Decline \/ TypeLetter \/ TypeBulletin \/ AskBulletin
  <2>1. /\ UNCHANGED <<tableVars, errand, recs, opened, raced, blurred>>
        /\ query' = query \/ query' = NoQuery \/ query' = [NoQuery EXCEPT !.kind = "bulletin"]
    BY <1>6 DEF Decline, TypeLetter, TypeBulletin, AskBulletin
  <2>2. query' = query \/ (query'.kind # "delete" /\ ~query'.drawn)
    BY <1>1, <2>1 DEF NoQuery
  <2>3. QED
    BY <1>2, <2>1, <2>2, DesksRest
<1>7. QED
  BY <1>4, <1>5, <1>6

\* A step that changes what the page asks, or the drawer, and nothing else.
LEMMA DesksStill ==
  ASSUME DesksInv, UNCHANGED <<errand, tableVars, recs, raced>>, blurred' \in BOOLEAN,
         query'.drawn => query'.row \in Spaces
  PROVE  ChangesInv' /\ \A t \in Desks : SureInv(t)'
<1>1. UNCHANGED <<desk, turning, sought, sure>>
  BY DEF tableVars
<1>2. ChangesInv /\ \A t \in Desks : SureInv(t)
  BY DEF DesksInv
<1>3. (\A r : Upon(r)' = Upon(r)) /\ \A t : RowsAsked(t)' = RowsAsked(t)
  BY DEF Upon, RowsAsked
<1>4. ChangesInv'
  BY <1>1, <1>2, <1>3 DEF ChangesInv
<1>5. ASSUME NEW t \in Desks PROVE SureInv(t)'
  BY <1>1, <1>2, <1>3, SureKept
<1>6. QED
  BY <1>4, <1>5

LEMMA DesksDrawerStep ==
  ASSUME ConsoleInv, DesksInv,
         \/ \E w \in Spaces : OpenTenantDrawer(w)
         \/ CloseDrawer
         \/ \E r \in Entries, drawn \in BOOLEAN : AskDeletion(r, drawn)
  PROVE  DesksInv'
<1>1. ChangesInv /\ (\A t \in Desks : SureInv(t)) /\ PickInv /\ blurred \in BOOLEAN
  BY DEF DesksInv, ChangesInv
<1>2. TablesTyped /\ DrawerTyped
  BY ConsoleTypedIs DEF ConsoleInv
<1>3. ASSUME NEW w \in Spaces, OpenTenantDrawer(w) PROVE DesksInv'
  <2>1. /\ UNCHANGED <<errand, tableVars, recs, raced, query>> /\ OnDesk(w)
        /\ opened' = [open |-> TRUE, row |-> w, shows |-> desk[w]]
        /\ blurred' = (Changing("tenants") # {} \/ "tenants" \notin sure)
    BY <1>3 DEF OpenTenantDrawer
  <2>2. ChangesInv' /\ \A t \in Desks : SureInv(t)'
    BY <1>1, <2>1, DesksStill DEF ChangesInv
  <2>3. PickInv'
    <3> SUFFICES ASSUME ~blurred' PROVE PickInv'
      BY DEF PickInv
    <3>1. Changing("tenants") = {} /\ "tenants" \in sure /\ "tenants" \in Desks
      BY <2>1 DEF Desks
    <3>2. ASSUME NEW x \in Spaces PROVE Upon(x) = {}
      <4>1. DeskOf(x) = "tenants"
        BY DeskRows
      <4>2. QED
        BY <3>1, <4>1 DEF Upon, Changing, Changes
    <3>3. query.kind = "none" /\ desk[w] # Gone /\ "tenants" \notin turning
      BY <2>1, DeskRows DEF OnDesk, Clear, OnShow
    <3>4. ASSUME w \notin raced PROVE desk[w] = recs[w]
      <4>1. RowsAsked("tenants") = {}
        BY <1>1, <3>1, <3>3 DEF SureInv
      <4>2. RowFine(w)
        BY <1>1, <3>1, <3>4, <4>1, DeskRows DEF SureInv
      <4>3. QED
        BY <3>2, <3>3, <4>2 DEF RowFine, Wanted
    <3>5. (\A x \in Spaces : Upon(x)' = {}) /\ recs' = recs /\ raced' = raced /\ query' = query
      BY <2>1, <3>2 DEF Upon
    <3>6. opened'.row = w /\ opened'.shows = desk[w]
      BY <2>1
    <3>7. w \notin raced => PickFine(w)'
      BY <3>4, <3>5, <3>6 DEF PickFine
    <3>8. QED
      BY <3>3, <3>5, <3>6, <3>7 DEF PickInv
  <2>4. QED
    BY <2>2, <2>3 DEF DesksInv
<1>4. CASE CloseDrawer
  <2>1. UNCHANGED <<errand, tableVars, recs, raced, query, blurred>> /\ opened' = [opened EXCEPT !.open = FALSE]
    BY <1>4 DEF CloseDrawer
  <2>2. ChangesInv' /\ \A t \in Desks : SureInv(t)'
    BY <1>1, <2>1, DesksStill DEF ChangesInv
  <2>3. ~opened'.open
    BY <1>2, <2>1 DEF DrawerTyped
  <2>4. QED
    BY <2>2, <2>3 DEF DesksInv, PickInv
<1>5. ASSUME NEW r \in Entries, NEW drawn \in BOOLEAN, AskDeletion(r, drawn) PROVE DesksInv'
  <2>1. /\ UNCHANGED <<errand, tableVars, recs, raced, opened, blurred>>
        /\ IF drawn THEN InDrawer /\ opened.row = r ELSE OnDesk(r)
        /\ query' = [kind |-> "delete", row |-> r, drawn |-> opened.row = r]
    BY <1>5 DEF AskDeletion
  <2>2. query'.row = r /\ (query'.drawn <=> opened.row = r)
    BY <2>1
  <2>3. query'.drawn => query'.row \in Spaces
    BY <1>2, <2>2, AdminConsoleAssumption DEF DrawerTyped, Entries
  <2>4. ChangesInv' /\ \A t \in Desks : SureInv(t)'
    BY <1>1, <2>1, <2>3, DesksStill
  <2>5. PickInv'
    <3> SUFFICES ASSUME opened.open, ~blurred PROVE PickInv'
      BY <2>1 DEF PickInv
    <3>1. opened.row = r
      BY <2>1 DEF OnDesk
    <3>2. \A x : Upon(x)' = Upon(x)
      BY <2>1 DEF Upon
    <3>3. opened.row \notin raced => PickFine(opened.row)'
      BY <1>1, <2>1, <3>2 DEF PickInv, PickFine, DrawnDuring
    <3>4. QED
      BY <1>1, <2>1, <2>2, <3>1, <3>2, <3>3 DEF PickInv
  <2>6. QED
    BY <2>4, <2>5 DEF DesksInv
<1>6. QED
  BY <1>3, <1>4, <1>5

-----------------------------------------------------------------------------
\* A change that is asked for.
LEMMA IssueIs ==
  ASSUME ConsoleInv, NEW k \in Errands, NEW kind, NEW r, NEW field, NEW value, NEW drawn,
         Issue(k, kind, r, field, value, drawn)
  PROVE  /\ \A j \in Errands \ {k} : errand'[j] = errand[j]
         /\ errand'[k].kind = kind /\ errand'[k].pc = "sent" /\ errand'[k].row = r /\ errand'[k].field = field
         /\ errand'[k].value = value /\ errand'[k].drawn = drawn
         /\ raced \subseteq raced' /\ raced' \subseteq raced \cup {r}
         /\ r \notin raced' => RowsAsked(DeskOf(r)) = {} /\ ~(opened.open /\ blurred) /\ Upon(r) = {}
<1> DEFINE q == [NoErrand EXCEPT !.kind = kind, !.pc = "sent", !.row = r, !.field = field, !.value = value,
                                 !.seek = sought \cap RowsOf(DeskOf(r)), !.drawn = drawn]
<1>1. /\ q.kind = kind /\ q.pc = "sent" /\ q.row = r /\ q.field = field /\ q.value = value /\ q.drawn = drawn
  BY DEF NoErrand
<1>2. errand' = [errand EXCEPT ![k] = q]
  BY DEF Issue
<1> HIDE DEF q
<1>3. errand'[k] = q /\ \A j \in Errands \ {k} : errand'[j] = errand[j]
  BY <1>2 DEF ConsoleInv, ConsoleTyped
<1>4. r \notin raced' => RowsAsked(DeskOf(r)) = {} /\ ~(opened.open /\ blurred) /\ Upon(r) = {}
  <2> SUFFICES ASSUME r \notin raced'
               PROVE  RowsAsked(DeskOf(r)) = {} /\ ~(opened.open /\ blurred) /\ Upon(r) = {}
    OBVIOUS
  <2>1. ~(\/ RowsAsked(DeskOf(r)) # {} \/ (opened.open /\ blurred)
          \/ \E j \in Changing(DeskOf(r)) : errand[j].row = r)
    BY DEF Issue
  <2>2. Upon(r) = {}
    BY <2>1 DEF Upon, Changing, Changes
  <2>3. QED
    BY <2>1, <2>2
<1>5. raced \subseteq raced' /\ raced' \subseteq raced \cup {r}
  BY DEF Issue
<1>6. QED
  BY <1>1, <1>3, <1>4, <1>5

LEMMA IssueHolds ==
  ASSUME ConsoleInv, DesksInv, NEW k \in Errands, errand[k].kind = "none",
         NEW kind \in Changes, NEW r \in Entries, NEW field, NEW value, NEW drawn \in BOOLEAN,
         Issue(k, kind, r, field, value, drawn), drawn => r \in Spaces, kind = "verify" => r \in Folk,
         \A x \in Entries \ {r} : desk'[x] = desk[x],
         UNCHANGED <<recs, turning, sought, sure, blurred, opened>>, query' = query \/ query' = NoQuery,
         opened.open /\ ~blurred /\ r \in Spaces => r = opened.row /\ drawn,
         r \notin raced' /\ desk[r] = Wanted(r) /\ (opened.open /\ r = opened.row => opened.shows = recs[r])
            => DeskDuring(errand[k])',
         r \notin raced' /\ opened.open /\ r = opened.row /\ opened.shows = recs[r] => DrawnDuring(errand[k])'
  PROVE  DesksInv'
<1>1. ChangesInv /\ (\A t \in Desks : SureInv(t)) /\ PickInv
  BY DEF DesksInv
<1>2. /\ \A j \in Errands \ {k} : errand'[j] = errand[j]
      /\ errand'[k].kind = kind /\ errand'[k].pc = "sent" /\ errand'[k].row = r /\ errand'[k].drawn = drawn
      /\ raced \subseteq raced' /\ raced' \subseteq raced \cup {r}
      /\ r \notin raced' => RowsAsked(DeskOf(r)) = {} /\ ~(opened.open /\ blurred) /\ Upon(r) = {}
  BY IssueIs
<1>3. kind # "list" /\ kind \in {"put", "verify", "delete"}
  BY DEF Changes
<1>4. ChangesInv'
  <2>1. ErrandRight(errand'[k])
    BY <1>2, <1>3 DEF ErrandRight
  <2>2. query'.drawn => query'.row \in Spaces
    BY <1>1 DEF ChangesInv, NoQuery
  <2>3. raced' \subseteq Entries /\ sure' \subseteq Desks /\ blurred' \in BOOLEAN
    BY <1>1, <1>2 DEF ChangesInv
  <2>4. QED
    BY <1>1, <1>2, <1>3, <2>1, <2>2, <2>3, ChangesKept
<1>5. ASSUME NEW x, x # r PROVE Upon(x)' = Upon(x) /\ \A j \in Upon(x) : errand'[j] = errand[j]
  BY <1>2, <1>5, UponOthers DEF Changes
<1>6. Upon(r)' = Upon(r) \cup {k}
  BY <1>2 DEF Upon
<1>7. ASSUME NEW t \in Desks PROVE SureInv(t)'
  <2>1. RowsAsked(t)' = RowsAsked(t) /\ \A j \in RowsAsked(t) : errand'[j] = errand[j]
    BY <1>2, <1>3, AskedOthers
  <2>2. ASSUME RowsAsked(t) = {}, t \in sure, \A x \in RowsOf(t) \ raced : RowFine(x),
               NEW x \in RowsOf(t) \ raced'
        PROVE  RowFine(x)'
    <3>1. x \in Entries /\ DeskOf(x) = t /\ RowFine(x)
      BY <1>2, <2>2, DeskRows
    <3>2. CASE x # r
      <4>1. desk'[x] = desk[x]
        BY <3>1, <3>2
      <4>2. QED
        BY <1>5, <3>1, <3>2, <4>1, RowKept, UponRow
    <3>3. CASE x = r
      <4>1. Upon(r) = {} /\ desk[r] = Wanted(r)
        BY <1>2, <2>2, <3>1, <3>3 DEF RowFine
      <4>2. opened.open /\ r = opened.row => opened.shows = recs[r]
        BY <1>1, <1>2, <2>2, <3>3, <4>1 DEF PickInv, PickFine
      <4>3. DeskDuring(errand[k])'
        BY <2>2, <3>3, <4>1, <4>2
      <4>4. Upon(x)' = {k}
        BY <1>6, <3>3, <4>1
      <4>5. QED
        BY <4>3, <4>4 DEF RowFine
    <3>4. QED
      BY <3>2, <3>3
  <2>3. QED
    BY <1>1, <1>2, <2>1, <2>2, SureRows
<1>8. PickInv'
  <2> SUFFICES ASSUME opened.open, ~blurred PROVE PickInv'
    BY DEF PickInv
  <2>1. opened.row \in Spaces
    BY DEF ConsoleInv, ConsoleTyped
  <2>2. ASSUME NEW w \in Spaces, NEW j \in Upon(w)' PROVE w = opened'.row /\ errand'[j].drawn
    <3>1. CASE j = k
      <4>1. w = r
        BY <1>2, <2>2, <3>1 DEF Upon
      <4>2. QED
        BY <1>2, <3>1, <4>1
    <3>2. CASE j # k
      <4>1. j \in Upon(w) /\ errand'[j] = errand[j]
        BY <1>2, <2>2, <3>2 DEF Upon
      <4>2. QED
        BY <1>1, <4>1 DEF PickInv
    <3>3. QED
      BY <3>1, <3>2
  <2>3. query'.kind = "delete" => query'.row = opened'.row /\ query'.drawn
    BY <1>1 DEF PickInv, NoQuery
  <2>4. ASSUME opened.row \notin raced' PROVE PickFine(opened.row)'
    <3>1. PickFine(opened.row)
      BY <1>1, <1>2, <2>4 DEF PickInv
    <3>2. CASE opened.row # r
      <4>1. Upon(opened.row)' = Upon(opened.row) /\ \A j \in Upon(opened.row) : errand'[j] = errand[j]
        BY <1>5, <3>2
      <4>2. ASSUME NEW j \in Upon(opened.row) PROVE DrawnDuring(errand[j])'
        <5>1. DrawnDuring(errand[j]) /\ errand'[j] = errand[j]
          BY <3>1, <4>1, <4>2 DEF PickFine
        <5>2. QED
          BY <5>1 DEF DrawnDuring
      <4>3. QED
        BY <3>1, <4>1, <4>2 DEF PickFine
    <3>3. CASE opened.row = r
      <4>1. Upon(r) = {} /\ opened.shows = recs[r]
        BY <1>2, <2>4, <3>1, <3>3 DEF PickFine
      <4>2. DrawnDuring(errand[k])' /\ Upon(opened.row)' = {k}
        BY <1>6, <2>4, <3>3, <4>1
      <4>3. QED
        BY <4>2 DEF PickFine
    <3>4. QED
      BY <3>2, <3>3
  <2>5. QED
    BY <2>2, <2>3, <2>4 DEF PickInv
<1>9. QED
  BY <1>4, <1>7, <1>8 DEF DesksInv

LEMMA DesksToggle ==
  ASSUME ConsoleInv, DesksInv, NEW k \in Errands, NEW r \in Entries, NEW shows, Toggle(k, r, shows),
         \/ OnDesk(r) /\ shows = desk[r]
         \/ InDrawer /\ r = opened.row /\ shows = opened.shows
  PROVE  DesksInv'
<1>1. TablesTyped /\ DrawerTyped
  BY ConsoleTypedIs DEF ConsoleInv
<1>2. /\ errand[k].kind = "none" /\ Issue(k, "put", r, "on", ~shows.on, opened.row = r)
      /\ desk' = IF OnShow(r) THEN [desk EXCEPT ![r].on = ~desk[r].on] ELSE desk
      /\ UNCHANGED <<recs, turning, sought, sure, opened, query, blurred>>
  BY DEF Toggle, Spare
<1>3. desk \in RowsKept /\ (OnShow(r) => desk[r] \in Entry /\ desk[r] # Gone)
  BY <1>1 DEF TablesTyped, RowsKept, OnShow
<1>4. OnShow(r) => (~desk[r].on) \in BOOLEAN
  OBVIOUS
<1>5. /\ \A x \in Entries \ {r} : desk'[x] = desk[x]
      /\ OnShow(r) => desk'[r] = [desk[r] EXCEPT !.on = ~desk[r].on]
      /\ ~OnShow(r) => desk'[r] = desk[r]
  <2>1. CASE OnShow(r)
    <3> DEFINE v == ~desk[r].on
    <3>1. v \in BOOLEAN /\ desk' = [desk EXCEPT ![r].on = v]
      BY <1>2, <2>1
    <3> HIDE DEF v
    <3>2. desk'[r] = [desk[r] EXCEPT !.on = v] /\ \A x \in Entries \ {r} : desk'[x] = desk[x]
      BY <1>3, <2>1, <3>1 DEF RowsKept
    <3>3. QED
      BY <2>1, <3>2 DEF v
  <2>2. CASE ~OnShow(r)
    BY <1>2, <2>2
  <2>3. QED
    BY <2>1, <2>2
<1>6. /\ errand'[k].kind = "put" /\ errand'[k].pc = "sent" /\ errand'[k].row = r /\ errand'[k].field = "on"
      /\ errand'[k].value = ~shows.on
  <2> DEFINE v == ~shows.on  d == (opened.row = r)
  <2>1. Issue(k, "put", r, "on", v, d)
    BY <1>2
  <2> HIDE DEF v, d
  <2>2. /\ errand'[k].kind = "put" /\ errand'[k].pc = "sent" /\ errand'[k].row = r /\ errand'[k].field = "on"
        /\ errand'[k].value = v
    BY <2>1, IssueIs
  <2>3. QED
    BY <2>2 DEF v
<1>7. (opened.row = r => r \in Spaces) /\ (opened.open /\ InDrawer => opened.shows \in Entry)
  BY <1>1, AdminConsoleAssumption DEF DrawerTyped, Entries, InDrawer
<1>8. ASSUME r \notin raced', desk[r] = Wanted(r), opened.open /\ r = opened.row => opened.shows = recs[r]
      PROVE  DeskDuring(errand[k])'
  <2>1. CASE r \notin sought
    <3>1. desk[r] = Gone
      BY <1>8, <2>1 DEF Wanted
    <3>2. desk'[r] = Gone
      BY <1>5, <3>1 DEF OnShow
    <3>3. QED
      BY <1>2, <1>6, <2>1, <3>2 DEF DeskDuring
  <2>2. CASE r \in sought
    <3>1. desk[r] = recs[r]
      BY <1>8, <2>2 DEF Wanted
    <3>2. OnShow(r) /\ shows = desk[r]
      <4>1. CASE OnDesk(r) /\ shows = desk[r]
        BY <4>1 DEF OnDesk
      <4>2. CASE InDrawer /\ r = opened.row /\ shows = opened.shows
        <5>1. shows = recs[r] /\ shows \in Entry
          BY <1>7, <1>8, <4>2 DEF InDrawer
        <5>2. Gone \notin Entry
          BY DEF Gone, Entry
        <5>3. QED
          BY <3>1, <5>1, <5>2 DEF OnShow
      <4>3. QED
        BY <4>1, <4>2
    <3>3. recs[r] \in Entry /\ desk'[r] = [recs[r] EXCEPT !.on = ~shows.on]
      BY <1>3, <1>5, <3>1, <3>2
    <3>4. desk'[r] = [recs'[r] EXCEPT ![errand'[k].field] = errand'[k].value]
      BY <1>2, <1>6, <3>3
    <3>5. QED
      BY <1>2, <1>6, <2>2, <3>3, <3>4 DEF DeskDuring
  <2>3. QED
    BY <2>1, <2>2
<1>9. ASSUME r \notin raced', r = opened.row, opened.shows = recs[r], opened.open PROVE DrawnDuring(errand[k])'
  <2>1. shows = opened.shows
    BY <1>9 DEF OnDesk
  <2>2. QED
    BY <1>2, <1>6, <1>9, <2>1 DEF DrawnDuring
<1>10. opened.open /\ ~blurred /\ r \in Spaces => r = opened.row
  BY DEF OnDesk
<1>11. "put" \in Changes /\ (opened.row = r) \in BOOLEAN
  BY DEF Changes
<1>12. QED
  BY <1>2, <1>5, <1>7, <1>8, <1>9, <1>10, <1>11, IssueHolds

LEMMA DesksSwitchStep ==
  ASSUME ConsoleInv, DesksInv, NEW k \in Errands,
         \/ \E r \in Entries : ToggleOnDesk(k, r)
         \/ \E w \in Spaces, paid \in BOOLEAN : SetPlan(k, w, paid)
         \/ \E p \in Folk : VerifyUserEmail(k, p)
         \/ ToggleInDrawer(k) \/ Confirm(k)
  PROVE  DesksInv'
<1>1. TablesTyped /\ DrawerTyped
  BY ConsoleTypedIs DEF ConsoleInv
<1>2. ASSUME NEW r \in Entries, ToggleOnDesk(k, r) PROVE DesksInv'
  BY <1>2, DesksToggle DEF ToggleOnDesk
<1>3. CASE ToggleInDrawer(k)
  <2>1. opened.row \in Entries
    BY <1>1, <1>3 DEF DrawerTyped, ToggleInDrawer, InDrawer, Entries
  <2>2. QED
    BY <1>3, <2>1, DesksToggle DEF ToggleInDrawer
<1>4. ASSUME NEW w \in Spaces, NEW paid \in BOOLEAN, SetPlan(k, w, paid) PROVE DesksInv'
  <2>1. /\ errand[k].kind = "none" /\ Issue(k, "put", w, "grade", paid, opened.row = w)
        /\ desk' = IF OnShow(w) THEN [desk EXCEPT ![w].grade = paid] ELSE desk
        /\ UNCHANGED <<recs, turning, sought, sure, opened, query, blurred>>
        /\ OnDesk(w) \/ (InDrawer /\ opened.row = w)
    BY <1>4 DEF SetPlan, Spare
  <2>2. w \in Entries /\ (opened.row = w) \in BOOLEAN /\ "put" \in Changes
    BY DEF Entries, Changes
  <2>3. desk \in RowsKept /\ (OnShow(w) => desk[w] \in Entry /\ desk[w] # Gone)
    BY <1>1, <2>2 DEF TablesTyped, RowsKept, OnShow
  <2>4. /\ \A x \in Entries \ {w} : desk'[x] = desk[x]
        /\ OnShow(w) => desk'[w] = [desk[w] EXCEPT !.grade = paid]
        /\ ~OnShow(w) => desk'[w] = desk[w]
    <3>1. CASE OnShow(w)
      <4>1. desk' = [desk EXCEPT ![w].grade = paid]
        BY <2>1, <3>1
      <4>2. desk'[w] = [desk[w] EXCEPT !.grade = paid] /\ \A x \in Entries \ {w} : desk'[x] = desk[x]
        BY <2>2, <2>3, <3>1, <4>1 DEF RowsKept
      <4>3. QED
        BY <3>1, <4>2
    <3>2. CASE ~OnShow(w)
      BY <2>1, <3>2
    <3>3. QED
      BY <3>1, <3>2
  <2>5. /\ errand'[k].kind = "put" /\ errand'[k].pc = "sent" /\ errand'[k].row = w /\ errand'[k].field = "grade"
        /\ errand'[k].value = paid
    BY <2>1, IssueIs
  <2>6. ASSUME w \notin raced', desk[w] = Wanted(w), opened.open /\ w = opened.row => opened.shows = recs[w]
        PROVE  DeskDuring(errand[k])'
    <3>1. CASE w \notin sought
      <4>1. desk[w] = Gone
        BY <2>6, <3>1 DEF Wanted
      <4>2. desk'[w] = Gone
        BY <2>4, <4>1 DEF OnShow
      <4>3. QED
        BY <2>1, <2>5, <3>1, <4>2 DEF DeskDuring
    <3>2. CASE w \in sought
      <4>1. desk[w] = recs[w]
        BY <2>6, <3>2 DEF Wanted
      <4>2. OnShow(w)
        <5>1. CASE OnDesk(w)
          BY <5>1 DEF OnDesk
        <5>2. CASE InDrawer /\ opened.row = w
          <6>1. recs[w] \in Entry
            BY <1>1, <2>6, <5>2 DEF DrawerTyped, InDrawer
          <6>2. Gone \notin Entry
            BY DEF Gone, Entry
          <6>3. QED
            BY <4>1, <6>1, <6>2 DEF OnShow
        <5>3. QED
          BY <2>1, <5>1, <5>2
      <4>3. recs[w] \in Entry /\ desk'[w] = [recs[w] EXCEPT !.grade = paid]
        BY <2>3, <2>4, <4>1, <4>2
      <4>4. desk'[w] = [recs'[w] EXCEPT ![errand'[k].field] = errand'[k].value]
        BY <2>1, <2>5, <4>3
      <4>5. QED
        BY <2>1, <2>5, <3>2, <4>3, <4>4 DEF DeskDuring
    <3>3. QED
      BY <3>1, <3>2
  <2>7. w = opened.row /\ opened.shows = recs[w] => DrawnDuring(errand[k])'
    BY <2>1, <2>5 DEF DrawnDuring
  <2>8. opened.open => w = opened.row
    BY <2>1 DEF OnDesk
  <2>9. QED
    BY <2>1, <2>2, <2>4, <2>6, <2>7, <2>8, IssueHolds
<1>5. ASSUME NEW p \in Folk, VerifyUserEmail(k, p) PROVE DesksInv'
  <2>1. /\ errand[k].kind = "none" /\ Issue(k, "verify", p, "grade", TRUE, FALSE)
        /\ UNCHANGED <<recs, desk, turning, sought, sure, opened, query, blurred>>
    BY <1>5 DEF VerifyUserEmail, Spare, tableVars
  <2>2. p \in Entries /\ p \notin Spaces /\ "verify" \in Changes
    BY AdminConsoleAssumption DEF Entries, Changes
  <2>3. /\ errand'[k].kind = "verify" /\ errand'[k].pc = "sent" /\ errand'[k].row = p
    BY <2>1, IssueIs
  <2>4. desk[p] = Wanted(p) => DeskDuring(errand[k])'
    BY <2>1, <2>3 DEF DeskDuring, Wanted
  <2>5. p # opened.row
    BY <1>1, <2>2, AdminConsoleAssumption DEF DrawerTyped
  <2>6. QED
    BY <2>1, <2>2, <2>4, <2>5, IssueHolds
<1>6. CASE Confirm(k)
  <2>1. /\ errand[k].kind = "none" /\ Issue(k, "delete", query.row, "on", FALSE, query.drawn)
        /\ UNCHANGED <<recs, desk, turning, sought, sure, opened, blurred>> /\ query' = NoQuery
        /\ query.kind = "delete"
    BY <1>6 DEF Confirm, Spare, tableVars
  <2>2. query.row \in Entries /\ query.drawn \in BOOLEAN /\ "delete" \in Changes
    BY <1>1, <2>1 DEF DrawerTyped, Changes
  <2>3. query.drawn => query.row \in Spaces
    BY DEF DesksInv, ChangesInv
  <2>4. opened.open /\ ~blurred => query.row = opened.row /\ query.drawn
    BY <2>1 DEF DesksInv, PickInv
  <2>5. /\ errand'[k].kind = "delete" /\ errand'[k].pc = "sent" /\ errand'[k].row = query.row
    BY <2>1, IssueIs
  <2>6. desk[query.row] = Wanted(query.row) => DeskDuring(errand[k])'
    BY <2>1, <2>5 DEF DeskDuring, Wanted
  <2>7. opened.shows = recs[query.row] => DrawnDuring(errand[k])'
    BY <2>1, <2>5 DEF DrawnDuring
  <2>8. QED
    BY <2>1, <2>2, <2>3, <2>4, <2>6, <2>7, IssueHolds
<1>7. QED
  BY <1>2, <1>3, <1>4, <1>5, <1>6

-----------------------------------------------------------------------------
\* The server stores a change.
LEMMA DesksStoredStep ==
  ASSUME ConsoleInv, DesksInv, NEW k \in Errands, StoreChange(k) \/ MarkVerified(k) \/ StoreDeletion(k)
  PROVE  DesksInv'
<1> DEFINE e == errand[k]  r == e.row
<1>1. ChangesInv /\ (\A t \in Desks : SureInv(t)) /\ PickInv
  BY DEF DesksInv
<1>2. TablesTyped /\ DrawerTyped /\ e \in ErrandRow /\ ErrandFits(e)
  BY ConsoleTypedIs DEF ConsoleInv, ErrandsTyped
<1>3. /\ e.kind \in Changes /\ e.pc = "sent" /\ recs[r] # Gone
      /\ errand' = [errand EXCEPT ![k].pc = "stored"]
      /\ UNCHANGED <<desk, turning, sought, sure, opened, query, blurred>>
      /\ raced \subseteq raced'
  BY DEF StoreChange, MarkVerified, StoreDeletion, tableVars, Changes, Stands
<1>4. r \in Entries /\ e.field \in {"on", "grade"} /\ recs[r] \in Entry
  BY <1>2, <1>3 DEF ErrandRow, ErrandFits, Changes, TablesTyped, RowsKept
<1>5. /\ \A j \in Errands \ {k} : errand'[j] = errand[j]
      /\ errand'[k].kind = e.kind /\ errand'[k].row = r /\ errand'[k].field = e.field
      /\ errand'[k].value = e.value /\ errand'[k].drawn = e.drawn /\ errand'[k].pc = "stored"
  BY <1>2, <1>3 DEF ConsoleInv, ConsoleTyped, ErrandRow
<1>6. /\ \A x \in Entries \ raced' : x # r => recs'[x] = recs[x]
      /\ e.kind = "put" => recs'[r] = [recs[r] EXCEPT ![e.field] = e.value]
      /\ e.kind = "verify" => recs'[r] = [recs[r] EXCEPT !.grade = TRUE]
      /\ raced' \subseteq Entries
  <2>1. CASE StoreChange(k)
    <3>1. /\ e.kind = "put" /\ recs' = [recs EXCEPT ![r][e.field] = e.value] /\ raced' = raced
      BY <2>1 DEF StoreChange
    <3>2. QED
      BY <1>1, <1>2, <1>4, <3>1 DEF TablesTyped, RowsKept, ChangesInv
  <2>2. CASE MarkVerified(k)
    <3>1. /\ e.kind = "verify" /\ recs' = [recs EXCEPT ![r].grade = TRUE] /\ raced' = raced
      BY <2>2 DEF MarkVerified
    <3>2. QED
      BY <1>1, <1>2, <1>4, <3>1 DEF TablesTyped, RowsKept, ChangesInv
  <2>3. CASE StoreDeletion(k)
    <3> DEFINE owned == IF r \in Folk THEN Owns[r] ELSE {}
    <3>1. /\ e.kind = "delete" /\ recs' = [x \in Entries |-> IF x \in {r} \cup owned THEN Gone ELSE recs[x]]
          /\ raced' = raced \cup owned
      BY <2>3 DEF StoreDeletion
    <3>2. owned \subseteq Entries
      BY AdminConsoleAssumption DEF Entries
    <3> HIDE DEF owned
    <3>3. QED
      BY <1>1, <3>1, <3>2 DEF ChangesInv
  <2>4. QED
    BY <2>1, <2>2, <2>3
<1> HIDE DEF e
<1>7. (\A x : Upon(x)' = Upon(x)) /\ k \in Upon(r) /\ \A t : RowsAsked(t)' = RowsAsked(t)
  BY <1>3, <1>5 DEF Upon, RowsAsked, e
<1>8. r \notin raced => Upon(r) = {k} /\ RowsAsked(DeskOf(r)) = {}
  BY <1>1, <1>4, <1>7, DeskRows DEF ChangesInv
<1>9. \A x : x # r => \A j \in Upon(x) : errand'[j] = errand[j]
  BY <1>5 DEF Upon, e
<1>10. ChangesInv'
  <2>1. ErrandRight(errand'[k])
    <3>1. ErrandRight(e)
      BY <1>1 DEF ChangesInv, e
    <3>2. QED
      BY <1>3, <1>5, <3>1 DEF ErrandRight, Changes
  <2>2. errand[k].kind \in Changes /\ errand'[k].row = errand[k].row /\ errand'[k].kind # "list"
    BY <1>3, <1>5 DEF Changes, e
  <2>3. query'.drawn => query'.row \in Spaces
    BY <1>1, <1>3 DEF ChangesInv
  <2>4. sure' \subseteq Desks /\ blurred' \in BOOLEAN
    BY <1>1, <1>3 DEF ChangesInv
  <2>5. QED
    BY <1>1, <1>3, <1>5, <1>6, <2>1, <2>2, <2>3, <2>4, ChangesKept
<1>11. ASSUME NEW t \in Desks PROVE SureInv(t)'
  <2>1. \A j \in RowsAsked(t) : errand'[j] = errand[j]
    BY <1>3, <1>5 DEF RowsAsked, Changes, e
  <2>2. ASSUME RowsAsked(t) # {}, NEW x \in RowsOf(t) \ raced' PROVE recs'[x] = recs[x]
    <3>1. x \in Entries /\ DeskOf(x) = t
      BY DeskRows
    <3>2. x # r
      BY <1>3, <1>8, <2>2, <3>1
    <3>3. QED
      BY <1>6, <2>2, <3>1, <3>2
  <2>3. ASSUME \A x \in RowsOf(t) \ raced : RowFine(x), NEW x \in RowsOf(t) \ raced' PROVE RowFine(x)'
    <3>1. x \in Entries /\ DeskOf(x) = t /\ RowFine(x)
      BY <1>3, <2>3, DeskRows
    <3>2. CASE x # r
      <4>1. recs'[x] = recs[x]
        BY <1>6, <2>3, <3>1, <3>2
      <4>2. QED
        BY <1>3, <1>7, <1>9, <3>1, <3>2, <4>1, RowKept, UponRow
    <3>3. CASE x = r
      <4>1. Upon(r) = {k} /\ DeskDuring(e)
        BY <1>3, <1>7, <1>8, <2>3, <3>1, <3>3 DEF RowFine, e
      <4>2. DeskDuring(errand[k])'
        <5>1. CASE r \notin sought
          BY <1>3, <1>5, <4>1, <5>1 DEF DeskDuring
        <5>2. CASE r \in sought /\ e.kind = "put"
          BY <1>3, <1>5, <1>6, <4>1, <5>2 DEF DeskDuring
        <5>3. CASE r \in sought /\ e.kind = "verify"
          <6>1. desk'[r] = recs[r] /\ recs'[r] = [recs[r] EXCEPT !.grade = TRUE]
            BY <1>3, <1>6, <4>1, <5>3 DEF DeskDuring
          <6>2. desk'[r] \in Entry /\ recs'[r] = [desk'[r] EXCEPT !.grade = TRUE]
            BY <1>4, <6>1
          <6>3. r \in sought' /\ errand'[k].row = r /\ errand'[k].kind = "verify" /\ errand'[k].pc = "stored"
            BY <1>3, <1>5, <5>3
          <6>4. QED
            BY <6>2, <6>3 DEF DeskDuring
        <5>4. CASE r \in sought /\ e.kind = "delete"
          BY <1>3, <1>5, <4>1, <5>4 DEF DeskDuring
        <5>5. QED
          BY <1>3, <5>1, <5>2, <5>3, <5>4 DEF Changes
      <4>3. QED
        BY <1>7, <3>3, <4>1, <4>2 DEF RowFine
    <3>4. QED
      BY <3>2, <3>3
  <2>4. QED
    BY <1>1, <1>3, <1>7, <2>1, <2>2, <2>3, SureRows
<1>12. PickInv'
  <2> SUFFICES ASSUME opened.open, ~blurred PROVE PickInv'
    BY <1>3 DEF PickInv
  <2>1. opened.row \in Spaces
    BY <1>2 DEF DrawerTyped
  <2>2. r \in Spaces => r = opened.row /\ e.drawn
    BY <1>1, <1>7 DEF PickInv, e
  <2>3. CASE r \notin Spaces
    <3>1. opened.row \in Entries /\ opened.row # r
      BY <2>1, <2>3 DEF Entries
    <3>2. \A w \in Spaces : Upon(w)' \subseteq Upon(w) /\ \A j \in Upon(w)' : errand'[j] = errand[j]
      BY <1>7, <1>9, <2>3
    <3>3. opened.row \notin raced' => recs'[opened.row] = recs[opened.row]
      BY <1>6, <3>1
    <3>4. QED
      BY <1>1, <1>3, <1>7, <2>1, <3>2, <3>3, PickKept
  <2>4. CASE r \in Spaces
    <3>1. r = opened.row /\ e.kind # "verify"
      <4>1. ErrandRight(e)
        BY <1>1 DEF ChangesInv, e
      <4>2. QED
        BY <2>2, <2>4, <4>1, AdminConsoleAssumption DEF ErrandRight
    <3>2. ASSUME NEW w \in Spaces, NEW j \in Upon(w)' PROVE w = opened'.row /\ errand'[j].drawn
      <4>1. j \in Upon(w) /\ errand'[j].drawn = errand[j].drawn
        BY <1>5, <1>7, <3>2 DEF e, Upon
      <4>2. QED
        BY <1>1, <1>3, <4>1 DEF PickInv
    <3>3. ASSUME opened.row \notin raced' PROVE PickFine(opened.row)'
      <4>1. Upon(r) = {k} /\ DrawnDuring(e)
        BY <1>1, <1>3, <1>8, <3>1, <3>3 DEF PickInv, PickFine, e
      <4>2. recs[r] = opened.shows
        BY <1>3, <4>1 DEF DrawnDuring
      <4>3. CASE e.kind = "put"
        <5>1. recs'[r] = [opened.shows EXCEPT ![e.field] = e.value]
          BY <1>6, <4>2, <4>3
        <5>2. e.field = "on" => e.value = ~opened.shows.on
          BY <4>1, <4>3 DEF DrawnDuring
        <5>3. DrawnDuring(errand[k])'
          BY <1>3, <1>5, <5>1, <5>2 DEF DrawnDuring
        <5>4. QED
          BY <1>3, <1>7, <3>1, <4>1, <5>3 DEF PickFine
      <4>4. CASE e.kind = "delete"
        <5>1. DrawnDuring(errand[k])'
          BY <1>5, <4>4 DEF DrawnDuring
        <5>2. QED
          BY <1>3, <1>7, <3>1, <4>1, <5>1 DEF PickFine
      <4>5. QED
        BY <1>3, <3>1, <4>3, <4>4 DEF Changes
    <3>4. QED
      BY <1>1, <1>3, <3>1, <3>2, <3>3 DEF PickInv
  <2>5. QED
    BY <2>3, <2>4
<1>13. QED
  BY <1>10, <1>11, <1>12 DEF DesksInv

-----------------------------------------------------------------------------
\* A list is asked for, by a request that was free or had changed a row of the table.
LEMMA FetchSure ==
  ASSUME ConsoleInv, DesksInv, NEW k \in Errands, NEW t \in Desks, NEW seek, FetchRows(k, t, seek),
         \/ errand[k].kind = "none"
         \/ errand[k].kind \in Changes /\ DeskOf(errand[k].row) = t /\ errand[k].row \in Entries,
         recs' = recs, \A x \in Desks \ {t} : sought' \cap RowsOf(x) = sought \cap RowsOf(x),
         query'.drawn => query'.row \in Spaces, blurred' \in BOOLEAN
  PROVE  /\ ChangesInv' /\ \A x \in Desks : SureInv(x)'
         /\ errand'[k].kind = "list" /\ \A j \in Errands \ {k} : errand'[j] = errand[j]
         /\ raced \subseteq raced' /\ desk' = desk
<1> DEFINE q == [NoErrand EXCEPT !.kind = "list", !.pc = "sent", !.row = t, !.seek = seek]
<1>1. q.kind = "list" /\ q.pc = "sent" /\ q.row = t /\ q.seek = seek /\ ~q.drawn
  BY DEF NoErrand
<1>2. /\ errand' = [errand EXCEPT ![k] = q] /\ turning' = turning \cup {t} /\ desk' = desk
      /\ sure' = IF RowsAsked(t) = {} /\ seek = sought' \cap RowsOf(t) THEN sure \cup {t} ELSE sure \ {t}
      /\ raced' = raced \cup {errand[j].row : j \in Changing(t) \ {k}}
  BY DEF FetchRows
<1> HIDE DEF q
<1>3. errand'[k] = q /\ \A j \in Errands \ {k} : errand'[j] = errand[j]
  BY <1>2 DEF ConsoleInv, ConsoleTyped
<1>4. ChangesInv /\ \A x \in Desks : SureInv(x)
  BY DEF DesksInv
<1>5. ChangesInv'
  <2>1. ErrandRight(errand'[k])
    BY <1>1, <1>3 DEF ErrandRight, Changes
  <2>2. raced' \subseteq Entries
    <3>1. \A j \in Changing(t) : errand[j].row \in Entries
      BY DEF Changing, ConsoleInv, ConsoleTyped, ErrandFits
    <3>2. QED
      BY <1>2, <1>4, <3>1 DEF ChangesInv
  <2>3. raced \subseteq raced' /\ sure' \subseteq Desks
    BY <1>2, <1>4 DEF ChangesInv
  <2>4. \A j \in Changing(errand'[k].row) \ {k} : errand[j].row \in raced'
    BY <1>1, <1>2, <1>3
  <2>5. errand'[k].kind \notin Changes
    BY <1>1, <1>3 DEF Changes
  <2>6. QED
    BY <1>3, <1>4, <2>1, <2>2, <2>3, <2>4, <2>5, ChangesKept
<1>6. SureInv(t)'
  <2> SUFFICES ASSUME t \in sure' PROVE SureInv(t)'
    BY DEF SureInv
  <2>1. RowsAsked(t) = {} /\ seek = sought' \cap RowsOf(t)
    BY <1>2
  <2>2. RowsAsked(t)' = {k}
    BY <1>1, <1>3, <2>1 DEF RowsAsked
  <2>3. t \in turning' /\ errand'[k].seek = sought' \cap RowsOf(t) /\ errand'[k].pc = "sent"
    BY <1>1, <1>2, <1>3, <2>1
  <2>4. QED
    BY <2>2, <2>3 DEF SureInv
<1>7. ASSUME NEW x \in Desks, x # t PROVE SureInv(x)'
  <2>1. RowsAsked(x)' = RowsAsked(x) /\ \A j \in RowsAsked(x) : errand'[j] = errand[j]
    BY <1>1, <1>3, <1>7, AskedOthers DEF Changes
  <2>2. (x \in sure' => x \in sure) /\ (x \in turning => x \in turning') /\ raced \subseteq raced'
    BY <1>2, <1>7
  <2>3. ASSUME NEW r \in RowsOf(x) \ raced'
        PROVE  Upon(r)' = Upon(r) /\ \A j \in Upon(r) : errand'[j] = errand[j]
    <3>1. DeskOf(r) = x
      BY DeskRows
    <3>2. errand[k].kind \in Changes => errand[k].row # r
      BY <1>7, <3>1 DEF Changes
    <3>3. errand'[k].kind \notin Changes
      BY <1>1, <1>3 DEF Changes
    <3>4. QED
      BY <1>3, <3>2, <3>3, UponOthers
  <2>4. QED
    BY <1>2, <1>4, <1>7, <2>1, <2>2, <2>3, SureKept
<1>8. QED
  BY <1>1, <1>2, <1>3, <1>5, <1>6, <1>7

\* A drawer beside a request that is no change.
LEMMA PickBeside ==
  ASSUME ConsoleInv, PickInv, NEW k \in Errands, \A j \in Errands \ {k} : errand'[j] = errand[j],
         errand[k].kind \notin Changes, errand'[k].kind \notin Changes,
         UNCHANGED <<opened, blurred, query, recs>>, raced \subseteq raced'
  PROVE  PickInv'
<1>1. \A x : Upon(x)' = Upon(x) /\ \A j \in Upon(x) : errand'[j] = errand[j]
  BY UponOthers
<1>2. opened.open => opened.row \in Spaces
  BY DEF ConsoleInv, ConsoleTyped
<1>3. QED
  BY <1>1, <1>2, PickKept

LEMMA DesksListStep ==
  ASSUME ConsoleInv, DesksInv, NEW k \in Errands,
         \/ \E t \in Desks : FirstRows(k, t)
         \/ \E t \in Desks : \E hits \in {RowsOf(t)} \cup {{r} : r \in RowsOf(t)} : Search(k, t, hits)
         \/ GetRows(k) \/ SetRows(k) \/ FetchRowsFails(k)
  PROVE  DesksInv'
<1>1. ChangesInv /\ (\A t \in Desks : SureInv(t)) /\ PickInv
  BY DEF DesksInv
<1>2. blurred \in BOOLEAN /\ (query.drawn => query.row \in Spaces) /\ raced \subseteq Entries /\ sure \subseteq Desks
  BY <1>1 DEF ChangesInv
<1>3. /\ errand[k] \in ErrandRow /\ ErrandFits(errand[k]) /\ ErrandRight(errand[k])
      /\ \A q : errand' = [errand EXCEPT ![k] = q]
                   => errand'[k] = q /\ \A j \in Errands \ {k} : errand'[j] = errand[j]
  BY <1>1 DEF ConsoleInv, ConsoleTyped, ChangesInv
<1>4. ASSUME NEW t \in Desks, NEW seek, FetchRows(k, t, seek), errand[k].kind = "none",
             UNCHANGED <<recs, opened, query, blurred>>,
             \A x \in Desks \ {t} : sought' \cap RowsOf(x) = sought \cap RowsOf(x)
      PROVE  DesksInv'
  <2>1. /\ ChangesInv' /\ \A x \in Desks : SureInv(x)'
        /\ errand'[k].kind = "list" /\ \A j \in Errands \ {k} : errand'[j] = errand[j]
        /\ raced \subseteq raced'
    BY <1>2, <1>4, FetchSure
  <2>2. PickInv'
    BY <1>1, <1>4, <2>1, PickBeside DEF Changes
  <2>3. QED
    BY <2>1, <2>2 DEF DesksInv
<1>5. ASSUME NEW t \in Desks, FirstRows(k, t) PROVE DesksInv'
  <2>1. /\ FetchRows(k, t, sought \cap RowsOf(t)) /\ errand[k].kind = "none"
        /\ UNCHANGED <<recs, opened, query, blurred, sought>>
    BY <1>5 DEF FirstRows, Spare
  <2>2. QED
    BY <1>4, <2>1
<1>6. ASSUME NEW t \in Desks, NEW hits \in {RowsOf(t)} \cup {{r} : r \in RowsOf(t)}, Search(k, t, hits)
      PROVE  DesksInv'
  <2>1. /\ FetchRows(k, t, hits) /\ errand[k].kind = "none" /\ UNCHANGED <<recs, opened, query, blurred>>
        /\ sought' = (sought \ RowsOf(t)) \cup hits
    BY <1>6 DEF Search, Spare
  <2>2. ASSUME NEW x \in Desks \ {t} PROVE sought' \cap RowsOf(x) = sought \cap RowsOf(x)
    <3>1. hits \subseteq RowsOf(t) /\ RowsOf(t) \cap RowsOf(x) = {}
      BY <2>2, DeskRows
    <3>2. QED
      BY <2>1, <3>1
  <2>3. QED
    BY <1>4, <2>1, <2>2
<1> DEFINE t == errand[k].row
<1>7. ASSUME GetRows(k) \/ SetRows(k) \/ FetchRowsFails(k)
      PROVE  /\ errand[k].kind = "list" /\ errand[k].pc \in {"sent", "answered"} /\ t \in Desks
             /\ k \in RowsAsked(t)
             /\ UNCHANGED <<recs, opened, query, blurred, raced, sought>>
             /\ sure' \subseteq sure
  BY <1>3, <1>7 DEF GetRows, SetRows, FetchRowsFails, ErrandFits, ErrandRight, tableVars, RowsAsked
<1>8. ASSUME GetRows(k) \/ SetRows(k) \/ FetchRowsFails(k),
             \A j \in Errands \ {k} : errand'[j] = errand[j], ErrandRight(errand'[k]),
             errand'[k].kind = "none" \/ (errand'[k].kind = "list" /\ errand'[k].row = t),
             NEW d, d = t, SureInv(d)',
             \A x \in Desks \ {t} : \A r \in RowsOf(x) : desk'[r] = desk[r],
             \A x \in Desks \ {t} : x \in turning => x \in turning'
      PROVE  DesksInv'
  <2>1. ChangesInv'
    <3>1. errand'[k].kind \notin Changes
      BY <1>8 DEF Changes
    <3>2. sure' \subseteq Desks /\ blurred' \in BOOLEAN /\ raced' \subseteq Entries /\ raced \subseteq raced'
      BY <1>2, <1>7, <1>8
    <3>3. query'.drawn => query'.row \in Spaces
      BY <1>2, <1>7, <1>8
    <3>4. errand'[k].kind = "list" => errand[k].kind = "list" /\ errand'[k].row = errand[k].row
      BY <1>7, <1>8
    <3>5. QED
      BY <1>1, <1>8, <3>1, <3>2, <3>3, <3>4, ChangesKept
  <2>2. \A r : Upon(r)' = Upon(r) /\ \A j \in Upon(r) : errand'[j] = errand[j]
    BY <1>7, <1>8, UponOthers DEF Changes
  <2>3. ASSUME NEW x \in Desks \ {t} PROVE SureInv(x)'
    <3>1. RowsAsked(x)' = RowsAsked(x) /\ \A j \in RowsAsked(x) : errand'[j] = errand[j]
      BY <1>8, <2>3, AskedOthers
    <3>2. QED
      BY <1>1, <1>7, <1>8, <2>2, <2>3, <3>1, SureKept
  <2>4. PickInv'
    BY <1>1, <1>7, <1>8, PickBeside DEF Changes
  <2>5. \A x \in Desks : SureInv(x)'
    BY <1>8, <2>3
  <2>6. QED
    BY <2>1, <2>4, <2>5 DEF DesksInv
<1>9. CASE GetRows(k)
  <2> DEFINE l == [r \in Entries |-> IF r \in errand[k].seek THEN recs[r] ELSE Gone]
             q == [errand[k] EXCEPT !.pc = "answered", !.list = l]
  <2>1. errand' = [errand EXCEPT ![k] = q] /\ UNCHANGED <<desk, turning, sought, sure>>
    BY <1>9 DEF GetRows, tableVars
  <2>2. q.kind = "list" /\ q.row = t /\ q.pc = "answered" /\ q.seek = errand[k].seek /\ q.list = l
        /\ q.drawn = errand[k].drawn
    BY <1>3, <1>7, <1>9 DEF ErrandRow
  <2> HIDE DEF q
  <2>3. errand'[k] = q /\ \A j \in Errands \ {k} : errand'[j] = errand[j]
    BY <1>3, <2>1
  <2>4. PICK d : d = t
    OBVIOUS
  <2>5. SureInv(d)'
    <3> SUFFICES ASSUME d \in sure PROVE SureInv(d)'
      BY <2>1 DEF SureInv
    <3>1. d \in Desks /\ k \in RowsAsked(d) /\ UNCHANGED <<recs, raced>>
      BY <1>7, <1>9, <2>4
    <3>2. RowsAsked(d) = {k} /\ d \in turning /\ errand[k].seek = sought \cap RowsOf(d)
      BY <1>1, <3>1 DEF SureInv
    <3>3. RowsAsked(d)' = {k}
      BY <2>2, <2>3, <2>4, <3>2 DEF RowsAsked
    <3>4. ASSUME NEW r \in RowsOf(d) PROVE errand'[k].list[r] = Wanted(r)'
      <4>1. r \in Entries
        BY <3>1, DeskRows
      <4>2. l[r] = Wanted(r)
        BY <3>2, <4>1 DEF Wanted
      <4>3. QED
        BY <2>1, <2>2, <2>3, <3>1, <4>2 DEF Wanted
    <3>5. errand'[k].seek = sought' \cap RowsOf(d)
      BY <2>1, <2>2, <2>3, <3>2
    <3>6. QED
      BY <2>1, <3>2, <3>3, <3>4, <3>5 DEF SureInv
  <2>6. ErrandRight(errand'[k])
    BY <1>3, <2>2, <2>3 DEF ErrandRight, Changes
  <2>7. QED
    BY <1>8, <1>9, <2>1, <2>2, <2>3, <2>4, <2>5, <2>6
<1>10. NoErrand.kind = "none" /\ ErrandRight(NoErrand)
  BY DEF NoErrand, ErrandRight, Changes
<1>11. CASE SetRows(k)
  <2>1. /\ errand[k].pc = "answered" /\ turning' = turning \ {t} /\ sure' = sure
        /\ desk' = [r \in Entries |-> IF r \in RowsOf(t) THEN errand[k].list[r] ELSE desk[r]]
        /\ errand' = [errand EXCEPT ![k] = NoErrand]
    BY <1>11 DEF SetRows
  <2>2. errand'[k] = NoErrand /\ \A j \in Errands \ {k} : errand'[j] = errand[j]
    BY <1>3, <2>1
  <2>3. t \in Desks /\ k \in RowsAsked(t) /\ UNCHANGED <<recs, raced, sought>>
    BY <1>7, <1>11
  <2>4. PICK d : d = t
    OBVIOUS
  <2>5. SureInv(d)'
    <3> SUFFICES ASSUME d \in sure PROVE SureInv(d)'
      BY <2>1 DEF SureInv
    <3>1. RowsAsked(d) = {k} /\ \A r \in RowsOf(d) \ raced : errand[k].list[r] = Wanted(r)
      BY <1>1, <2>1, <2>3, <2>4 DEF SureInv
    <3>2. RowsAsked(d)' = {}
      BY <1>10, <2>2, <3>1 DEF RowsAsked
    <3>3. ASSUME NEW r \in RowsOf(d) \ raced' PROVE RowFine(r)'
      <4>1. r \in Entries /\ Upon(r) = {}
        BY <1>1, <2>3, <2>4, <3>1, <3>3, DeskRows DEF ChangesInv
      <4>2. Upon(r)' = {}
        BY <1>10, <2>2, <4>1 DEF Upon, Changes
      <4>3. desk'[r] = Wanted(r)
        BY <2>1, <2>3, <2>4, <3>1, <3>3, <4>1
      <4>4. QED
        BY <2>3, <4>2, <4>3 DEF RowFine, Wanted
    <3>4. QED
      BY <3>2, <3>3 DEF SureInv
  <2>6. ASSUME NEW x \in Desks \ {t}, NEW r \in RowsOf(x) PROVE desk'[r] = desk[r]
    <3>1. r \in Entries /\ r \notin RowsOf(t)
      BY <2>3, <2>6, DeskRows
    <3>2. QED
      BY <2>1, <3>1
  <2>7. QED
    BY <1>8, <1>10, <1>11, <2>1, <2>2, <2>4, <2>5, <2>6
<1>12. CASE FetchRowsFails(k)
  <2>1. /\ turning' = turning \ {t} /\ sure' = sure \ {t} /\ desk' = desk
        /\ errand' = [errand EXCEPT ![k] = NoErrand]
    BY <1>12 DEF FetchRowsFails
  <2>2. errand'[k] = NoErrand /\ \A j \in Errands \ {k} : errand'[j] = errand[j]
    BY <1>3, <2>1
  <2>3. PICK d : d = t
    OBVIOUS
  <2>4. SureInv(d)'
    BY <2>1, <2>3 DEF SureInv
  <2>5. QED
    BY <1>8, <1>10, <1>12, <2>1, <2>2, <2>3, <2>4
<1>13. QED
  BY <1>5, <1>6, <1>9, <1>11, <1>12

\* A drawer when a change ends.
LEMMA PickEnds ==
  ASSUME ConsoleInv, DesksInv, NEW k \in Errands, errand[k].kind \in Changes,
         \A j \in Errands \ {k} : errand'[j] = errand[j], errand'[k].kind \notin Changes,
         UNCHANGED <<recs, query>>, blurred => blurred', raced \subseteq raced',
         opened'.open => opened.open /\ opened'.row = opened.row,
         opened'.open /\ ~blurred' /\ errand[k].row # opened.row => opened' = opened,
         opened'.open /\ ~blurred' /\ errand[k].row = opened.row /\ opened.row \notin raced'
            /\ DrawnDuring(errand[k]) /\ errand[k].drawn => opened'.shows = recs[opened.row]
  PROVE  PickInv'
<1> SUFFICES ASSUME opened'.open, ~blurred' PROVE PickInv'
  BY DEF PickInv
<1>1. /\ ChangesInv /\ PickInv /\ opened.open /\ ~blurred /\ opened.row \in Spaces /\ opened'.row = opened.row
      /\ opened.row \in Entries
  BY DEF DesksInv, ConsoleInv, ConsoleTyped, Entries
<1>2. ASSUME NEW w PROVE Upon(w)' = Upon(w) \ {k} /\ \A j \in Upon(w)' : errand'[j] = errand[j]
  BY DEF Upon
<1>3. ASSUME NEW w \in Spaces, NEW j \in Upon(w)' PROVE w = opened'.row /\ errand'[j].drawn
  BY <1>1, <1>2, <1>3 DEF PickInv
<1>4. query'.kind = "delete" => query'.row = opened'.row /\ query'.drawn
  BY <1>1 DEF PickInv
<1>5. ASSUME opened.row \notin raced' PROVE PickFine(opened.row)'
  <2>1. PickFine(opened.row)
    BY <1>1, <1>5 DEF PickInv
  <2>2. CASE errand[k].row # opened.row
    <3>1. opened' = opened /\ Upon(opened.row)' = Upon(opened.row)
      BY <1>2, <2>2 DEF Upon
    <3>2. ASSUME NEW j \in Upon(opened.row) PROVE DrawnDuring(errand[j])'
      <4>1. DrawnDuring(errand[j]) /\ errand'[j] = errand[j]
        BY <1>2, <2>1, <3>1, <3>2 DEF PickFine
      <4>2. QED
        BY <3>1, <4>1 DEF DrawnDuring
    <3>3. QED
      BY <2>1, <3>1, <3>2 DEF PickFine
  <2>3. CASE errand[k].row = opened.row
    <3>1. k \in Upon(opened.row)
      BY <2>3 DEF Upon
    <3>2. Upon(opened.row) = {k} /\ DrawnDuring(errand[k]) /\ errand[k].drawn
      BY <1>1, <1>5, <2>1, <3>1 DEF ChangesInv, PickFine, PickInv
    <3>3. Upon(opened.row)' = {} /\ opened'.shows = recs[opened.row]
      BY <1>1, <1>2, <1>5, <2>3, <3>2
    <3>4. QED
      BY <1>1, <3>3 DEF PickFine
  <2>4. QED
    BY <2>2, <2>3
<1>6. QED
  BY <1>1, <1>3, <1>4, <1>5 DEF PickInv

LEMMA DesksEndStep ==
  ASSUME ConsoleInv, DesksInv, NEW k \in Errands,
         ChangeDone(k) \/ OthersFail(k) \/ PutFails(k) \/ DeletionDone(k)
  PROVE  DesksInv'
<1>1. ChangesInv /\ (\A t \in Desks : SureInv(t)) /\ PickInv
  BY DEF DesksInv
<1>2. blurred \in BOOLEAN /\ (query.drawn => query.row \in Spaces) /\ raced \subseteq Entries /\ sure \subseteq Desks
  BY <1>1 DEF ChangesInv
<1>3. /\ errand[k] \in ErrandRow /\ ErrandFits(errand[k]) /\ ErrandRight(errand[k])
      /\ errand[k].kind \in Changes /\ UNCHANGED <<recs, query, sought>>
  BY <1>1 DEF ConsoleInv, ConsoleTyped, ChangesInv, ChangeDone, OthersFail, PutFails, DeletionDone, tableVars, Changes
<1>4. /\ errand[k].row \in Entries /\ errand[k].pc \in {"sent", "stored"} /\ errand[k].field \in {"on", "grade"}
      /\ DrawerTyped /\ TablesTyped
  BY <1>3, ConsoleTypedIs DEF ErrandFits, ErrandRight, Changes, ErrandRow, ConsoleInv
<1>5. NoPick.open = FALSE /\ NoErrand.kind = "none" /\ ErrandRight(NoErrand)
  BY DEF NoPick, NoErrand, ErrandRight, Changes
<1>6. CASE PutFails(k) \/ DeletionDone(k)
  <2>1. /\ FetchRows(k, DeskOf(errand[k].row), errand[k].seek)
        /\ (blurred' = (blurred \/ errand[k].drawn)) \/ blurred' = blurred
    BY <1>6 DEF PutFails, DeletionDone
  <2>2. DeskOf(errand[k].row) \in Desks /\ blurred' \in BOOLEAN
    BY <1>2, <1>4, <2>1, DeskRows
  <2>3. /\ ChangesInv' /\ \A x \in Desks : SureInv(x)'
        /\ errand'[k].kind = "list" /\ \A j \in Errands \ {k} : errand'[j] = errand[j]
        /\ raced \subseteq raced'
    BY <1>2, <1>3, <1>4, <2>1, <2>2, FetchSure
  <2>4. PickInv'
    <3>1. errand'[k].kind \notin Changes
      BY <2>3 DEF Changes
    <3>2. blurred => blurred'
      BY <2>1
    <3>3. opened'.open => opened.open /\ opened' = opened
      BY <1>5, <1>6 DEF PutFails, DeletionDone
    <3>4. opened'.open /\ errand[k].drawn => blurred'
      BY <1>5, <1>6 DEF PutFails, DeletionDone
    <3>5. QED
      BY <1>3, <2>3, <3>1, <3>2, <3>3, <3>4, PickEnds
  <2>5. QED
    BY <2>3, <2>4 DEF DesksInv
<1>7. CASE ChangeDone(k) \/ OthersFail(k)
  <2>1. errand' = [errand EXCEPT ![k] = NoErrand] /\ UNCHANGED <<turning, sure, blurred>>
    BY <1>7 DEF ChangeDone, OthersFail, tableVars
  <2>2. errand'[k] = NoErrand /\ \A j \in Errands \ {k} : errand'[j] = errand[j]
    BY <2>1 DEF ConsoleInv, ConsoleTyped
  <2>3. raced \subseteq raced' /\ raced' \subseteq raced \cup {errand[k].row}
    BY <1>7 DEF ChangeDone, OthersFail
  <2>4. ChangesInv'
    <3>1. raced' \subseteq Entries /\ sure' \subseteq Desks /\ blurred' \in BOOLEAN
      BY <1>2, <1>4, <2>1, <2>3
    <3>2. QED
      BY <1>1, <1>2, <1>3, <1>5, <2>2, <2>3, <3>1, ChangesKept DEF Changes
  <2>5. desk' \in [Entries -> Entry \cup {Gone}] /\ \A x \in Entries : x # errand[k].row => desk'[x] = desk[x]
    <3>1. \/ desk' = desk
          \/ desk[errand[k].row] # Gone /\ desk' = [desk EXCEPT ![errand[k].row].grade = TRUE]
      BY <1>7 DEF ChangeDone, OthersFail, tableVars, OnShow
    <3>2. desk \in RowsKept
      BY <1>4 DEF TablesTyped
    <3>3. desk[errand[k].row] # Gone => [desk EXCEPT ![errand[k].row].grade = TRUE] \in RowsKept
      BY <1>4, <3>2, RowChanged
    <3>4. QED
      BY <1>4, <3>1, <3>2, <3>3 DEF RowsKept
  <2>6. PICK r : r = errand[k].row
    OBVIOUS
  <2>7. ASSUME r \notin raced', DeskDuring(errand[k]) PROVE desk'[r] = Wanted(r)
    <3>1. CASE r \notin sought
      <4>1. desk[r] = Gone
        BY <2>6, <2>7, <3>1 DEF DeskDuring
      <4>2. desk' = desk
        BY <1>7, <2>6, <4>1 DEF ChangeDone, OthersFail, OnShow, tableVars
      <4>3. QED
        BY <3>1, <4>1, <4>2 DEF Wanted
    <3>2. CASE r \in sought /\ errand[k].kind = "put"
      <4>1. ChangeDone(k) /\ desk' = desk /\ errand[k].pc = "stored"
        BY <1>7, <3>2 DEF ChangeDone, OthersFail
      <4>2. QED
        BY <2>6, <2>7, <3>2, <4>1 DEF DeskDuring, Wanted
    <3>3. CASE r \in sought /\ errand[k].kind # "put" /\ errand[k].pc = "sent"
      <4>1. desk' = desk
        BY <1>7, <3>3 DEF ChangeDone, OthersFail, tableVars
      <4>2. QED
        BY <2>6, <2>7, <3>3, <4>1 DEF DeskDuring, Wanted
    <3>4. CASE r \in sought /\ errand[k].kind # "put" /\ errand[k].pc = "stored"
      <4>1. ChangeDone(k)
        BY <1>7, <2>6, <2>7, <3>4 DEF OthersFail
      <4>2. errand[k].kind = "verify"
        BY <3>4, <4>1 DEF ChangeDone
      <4>3. desk[r] \in Entry /\ recs[r] = [desk[r] EXCEPT !.grade = TRUE]
        BY <2>6, <2>7, <3>4, <4>2 DEF DeskDuring
      <4>4. desk[r] # Gone
        BY <4>3 DEF Entry, Gone
      <4>5. desk' = [desk EXCEPT ![r].grade = TRUE]
        BY <2>6, <4>1, <4>2, <4>4 DEF ChangeDone, OnShow
      <4>6. desk'[r] = [desk[r] EXCEPT !.grade = TRUE]
        BY <1>4, <2>6, <4>5 DEF TablesTyped, RowsKept
      <4>7. QED
        BY <3>4, <4>3, <4>6 DEF Wanted
    <3>5. QED
      BY <1>4, <3>1, <3>2, <3>3, <3>4
  <2>8. ASSUME NEW t \in Desks PROVE SureInv(t)'
    <3>1. RowsAsked(t)' = RowsAsked(t) /\ \A j \in RowsAsked(t) : errand'[j] = errand[j]
      BY <1>3, <1>5, <2>2, AskedOthers DEF Changes
    <3>2. ASSUME \A x \in RowsOf(t) \ raced : RowFine(x), NEW x \in RowsOf(t) \ raced' PROVE RowFine(x)'
      <4>1. x \in Entries /\ x \notin raced /\ RowFine(x)
        BY <2>3, <3>2, DeskRows
      <4>2. CASE x # r
        <5>1. Upon(x)' = Upon(x) /\ \A j \in Upon(x) : errand'[j] = errand[j]
          BY <1>5, <2>2, <2>6, <4>2, UponOthers DEF Changes
        <5>2. desk'[x] = desk[x]
          BY <2>5, <2>6, <4>1, <4>2
        <5>3. QED
          BY <1>3, <4>1, <5>1, <5>2, RowKept, UponRow
      <4>3. CASE x = r
        <5>1. k \in Upon(x)
          BY <1>3, <2>6, <4>3 DEF Upon
        <5>2. Upon(x) = {k} /\ DeskDuring(errand[k])
          BY <1>1, <4>1, <5>1 DEF ChangesInv, RowFine
        <5>3. Upon(x)' = {}
          BY <1>5, <2>2, <5>2 DEF Upon, Changes
        <5>4. desk'[x] = Wanted(x)
          BY <2>7, <3>2, <4>3, <5>2
        <5>5. Wanted(x)' = Wanted(x)
          BY <1>3 DEF Wanted
        <5>6. QED
          BY <5>3, <5>4, <5>5 DEF RowFine
      <4>4. QED
        BY <4>2, <4>3
    <3>3. QED
      BY <1>1, <1>3, <2>1, <2>3, <3>1, <3>2, SureRows
  <2>9. PickInv'
    <3>1. errand'[k].kind \notin Changes
      BY <1>5, <2>2 DEF Changes
    <3>2. CASE OthersFail(k)
      <4>1. opened' = opened
        BY <3>2 DEF OthersFail
      <4>2. ASSUME errand[k].row \notin raced', DrawnDuring(errand[k]) PROVE recs[errand[k].row] = opened.shows
        <5>1. errand[k].pc = "sent"
          BY <1>4, <3>2, <4>2 DEF OthersFail
        <5>2. QED
          BY <4>2, <5>1 DEF DrawnDuring
      <4>3. QED
        BY <1>3, <2>1, <2>2, <2>3, <3>1, <4>1, <4>2, PickEnds
    <3>3. CASE ChangeDone(k)
      <4> DEFINE e == errand[k]
      <4>1. /\ opened' = IF ~e.drawn \/ opened.row = NoEntry THEN opened
                         ELSE IF e.field = "on" THEN [opened EXCEPT !.shows.on = ~@]
                         ELSE [opened EXCEPT !.shows.grade = e.value]
            /\ e.kind \in {"put", "verify"} /\ e.pc = "stored"
        BY <3>3 DEF ChangeDone
      <4>2. opened'.open = opened.open /\ opened'.row = opened.row
        BY <1>4, <4>1 DEF DrawerTyped
      <4>3. ASSUME opened.open, ~blurred, e.row # opened.row PROVE opened' = opened
        <5>1. ~e.drawn
          <6>1. ASSUME e.drawn PROVE FALSE
            <7>1. e.row \in Spaces /\ k \in Upon(e.row)
              BY <1>3, <6>1 DEF ErrandRight, Upon
            <7>2. QED
              BY <1>1, <4>3, <7>1 DEF PickInv
          <6>2. QED
            BY <6>1
        <5>2. QED
          BY <4>1, <5>1
      <4>4. ASSUME opened.open, e.row = opened.row, DrawnDuring(e), e.drawn PROVE opened'.shows = recs[opened.row]
        <5>1. opened.row \in Spaces /\ opened.row # NoEntry /\ e.kind = "put"
          BY <1>3, <1>4, <4>1, <4>4, AdminConsoleAssumption DEF DrawerTyped, ErrandRight
        <5>2. recs[e.row] = [opened.shows EXCEPT ![e.field] = e.value]
          BY <4>1, <4>4, <5>1 DEF DrawnDuring
        <5>3. CASE e.field = "on"
          <6>1. opened' = [opened EXCEPT !.shows = [opened.shows EXCEPT !.on = ~opened.shows.on]]
            BY <4>1, <4>4, <5>1, <5>3
          <6>2. opened'.shows = [opened.shows EXCEPT !.on = ~opened.shows.on]
            BY <1>4, <6>1 DEF DrawerTyped
          <6>3. e.value = ~opened.shows.on
            BY <4>4, <5>1, <5>3 DEF DrawnDuring
          <6>4. QED
            BY <4>4, <5>2, <5>3, <6>2, <6>3
        <5>4. CASE e.field = "grade"
          <6>1. opened' = [opened EXCEPT !.shows = [opened.shows EXCEPT !.grade = e.value]]
            BY <4>1, <4>4, <5>1, <5>4
          <6>2. opened'.shows = [opened.shows EXCEPT !.grade = e.value]
            BY <1>4, <6>1 DEF DrawerTyped
          <6>3. QED
            BY <4>4, <5>2, <5>4, <6>2
        <5>5. QED
          BY <1>4, <5>3, <5>4
      <4>5. QED
        BY <1>3, <2>1, <2>2, <2>3, <3>1, <4>2, <4>3, <4>4, PickEnds
    <3>4. QED
      BY <1>7, <3>2, <3>3
  <2>10. QED
    BY <2>4, <2>8, <2>9 DEF DesksInv
<1>8. QED
  BY <1>6, <1>7

LEMMA DesksStep ==
  ASSUME ConsoleInv, DesksInv, [ConsoleNext]_consoleVars
  PROVE  DesksInv'
<1>1. CASE ConsoleNext
  BY <1>1, DesksListStep, DesksSwitchStep, DesksStoredStep, DesksEndStep, DesksMailStep, DesksDrawerStep
  DEF ConsoleNext
<1>2. CASE UNCHANGED consoleVars
  <2>1. UNCHANGED <<recs, tableVars, errand, opened, query, raced, blurred>>
    BY <1>2 DEF consoleVars
  <2>2. raced \subseteq Entries
    BY DEF DesksInv, ChangesInv
  <2>3. QED
    BY <2>1, <2>2, DesksRest
<1>3. QED
  BY <1>1, <1>2

LEMMA DesksShow == ConsoleInv /\ DesksInv => TablesTrue /\ DrawerTrue
<1> SUFFICES ASSUME ConsoleInv, DesksInv PROVE TablesTrue /\ DrawerTrue
  OBVIOUS
<1>1. ASSUME NEW t \in sure, t \notin turning, RowsAsked(t) = {}, Changing(t) = {}, NEW r \in RowsOf(t) \ raced
      PROVE  desk[r] = Wanted(r)
  <2>1. t \in Desks /\ SureInv(t)
    BY DEF DesksInv, ChangesInv
  <2>2. RowFine(r) /\ DeskOf(r) = t
    BY <1>1, <2>1, DeskRows DEF SureInv
  <2>3. Upon(r) = {}
    BY <1>1, <2>2 DEF Upon, Changing, Changes
  <2>4. QED
    BY <2>2, <2>3 DEF RowFine
<1>2. ASSUME opened.open, ~blurred, opened.row \notin raced, Changing("tenants") = {}
      PROVE  opened.shows = recs[opened.row]
  <2>1. opened.row \in Spaces /\ PickFine(opened.row)
    BY <1>2 DEF ConsoleInv, ConsoleTyped, DesksInv, PickInv
  <2>2. Upon(opened.row) = {}
    BY <1>2, <2>1, DeskRows DEF Upon, Changing, Changes
  <2>3. QED
    BY <2>1, <2>2 DEF PickFine
<1>3. QED
  BY <1>1, <1>2 DEF TablesTrue, DrawerTrue, Wanted

-----------------------------------------------------------------------------
(* The types of the parts' state, beside what their invariants say of it.     *)

\* Posts arrive as often as the bound lets them.
ArrivalsWithin ==
    /\ \A p \in Posts : arrivals[p] <= MaxPosts
    /\ channels \subseteq Platforms /\ ingestFaults \in 0..MaxIngestFaults

LEMMA ArrivalsInit == IngestInit => ArrivalsWithin
  BY IngestAssumption DEF IngestInit, ArrivalsWithin

LEMMA ArrivalsStep == KnownInv /\ ArrivalsWithin /\ [IngestNext]_ingestVars => ArrivalsWithin'
<1> SUFFICES ASSUME KnownInv, ArrivalsWithin, [IngestNext]_ingestVars
             PROVE  ArrivalsWithin'
  OBVIOUS
<1>1. ASSUME UNCHANGED <<arrivals, channels, ingestFaults>> PROVE ArrivalsWithin'
  BY <1>1 DEF ArrivalsWithin
<1>2. ASSUME NEW h \in Hooks, HandlePost(h) PROVE ArrivalsWithin'
  BY <1>1, <1>2 DEF HandlePost, FindRequest, RecordRequest, NextItem, FindConnection, FindMessage, RecordMessage,
     FindContact, CountContacts, CreateContact, FindThread, CreateThread, SaveMessage, StartFlows, world
<1>3. ASSUME NEW h \in Hooks, NEW p \in Posts, Arrive(h, p) PROVE ArrivalsWithin'
  <2>1. IsFiniteSet(Posts) /\ arrivals \in [Posts -> Nat] /\ MaxPosts \in Nat
    BY IngestAssumption DEF KnownInv, IngestTyped
  <2>2. IsFiniteSet(Deliveries) /\ arrivals[p] <= Cardinality(Deliveries)
    BY <2>1, CountedRows DEF Deliveries
  <2>3. Cardinality(Deliveries) \in Nat /\ Cardinality(Deliveries) < MaxPosts
    BY <1>3, <2>2, FS_CardinalityType DEF Arrive
  <2>4. arrivals[p] + 1 <= MaxPosts
    BY <2>1, <2>2, <2>3
  <2>5. arrivals' = [arrivals EXCEPT ![p] = arrivals[p] + 1] /\ UNCHANGED <<channels, ingestFaults>>
    BY <1>3 DEF Arrive
  <2>6. \A q \in Posts : arrivals'[q] <= MaxPosts
    BY <2>1, <2>4, <2>5 DEF ArrivalsWithin
  <2>7. QED
    BY <2>5, <2>6 DEF ArrivalsWithin
<1>4. ASSUME UNCHANGED <<arrivals, channels>>, ingestFaults < MaxIngestFaults, ingestFaults' = ingestFaults + 1
      PROVE  ArrivalsWithin'
  BY <1>4, IngestAssumption DEF ArrivalsWithin
<1>5. ASSUME NEW h \in Hooks, IngestFail(h) PROVE ArrivalsWithin'
  BY <1>4, <1>5 DEF IngestFail
<1>6. CASE IngestCrash
  BY <1>4, <1>6 DEF IngestCrash
<1>7. ASSUME NEW ch \in Platforms, DisconnectChannel(ch) PROVE ArrivalsWithin'
  BY <1>7 DEF DisconnectChannel, ArrivalsWithin
<1>8. QED
  BY <1>1, <1>2, <1>3, <1>5, <1>6, <1>7 DEF IngestNext, ingestVars, world

LEMMA PostsTyped == KnownInv /\ ContactInv /\ ArrivalsWithin => IngestTypeOK
<1> SUFFICES ASSUME KnownInv, ContactInv, ArrivalsWithin PROVE IngestTypeOK
  OBVIOUS
<1>1. arrivals \in [Posts -> 0..MaxPosts]
  <2>1. arrivals \in [Posts -> Nat] /\ MaxPosts \in Nat
    BY IngestAssumption DEF KnownInv, IngestTyped
  <2>2. QED
    BY <2>1 DEF ArrivalsWithin
<1>2. QED
  BY <1>1 DEF IngestTypeOK, KnownInv, IngestTyped, Hook, ContactInv, ContactsTyped, ArrivalsWithin

\* What the user does, and what fails, is counted up to the bounds.
PressesWithin == presses \in 0..MaxPresses /\ bulletinFaults \in 0..MaxBulletinFaults

LEMMA PressesInit == CampaignPageInit => PressesWithin
  BY CampaignPageAssumption DEF CampaignPageInit, PressesWithin

LEMMA PressesStep == PressesWithin /\ [CampaignPageNext]_campaignPageVars => PressesWithin'
<1> SUFFICES ASSUME PressesWithin, [CampaignPageNext]_campaignPageVars
             PROVE  PressesWithin'
  OBVIOUS
<1>1. ASSUME UNCHANGED presses \/ Press, UNCHANGED bulletinFaults \/ Mishap PROVE PressesWithin'
  BY <1>1, CampaignPageAssumption DEF PressesWithin, Press, Mishap
<1>2. ASSUME NEW k \in Presses,
             FirstRoll(k) \/ FindCampaigns(k) \/ SetCampaigns(k) \/ FetchCampaignsFails(k) \/ Created(k)
      PROVE  PressesWithin'
  BY <1>1, <1>2 DEF FirstRoll, FindCampaigns, SetCampaigns, FetchCampaignsFails, Created
<1>3. ASSUME NEW k \in Presses,
             \/ Decide(k) \/ CheckCancellable(k) \/ CancelCampaign(k) \/ DeedFails(k)
             \/ \E j \in Presses : DeedDone(k, j)
      PROVE  PressesWithin'
  BY <1>1, <1>3 DEF Decide, CheckCancellable, CancelCampaign, DeedFails, DeedDone
<1>4. ASSUME NEW s \in Senders, CheckSendable(s) \/ MarkSending(s) \/ MarkSent(s) PROVE PressesWithin'
  BY <1>1, <1>4 DEF CheckSendable, MarkSending, MarkSent
<1>5. ASSUME NEW b \in Bulletins,
             ViewDetails(b) \/ AskOnCard(b) \/ CronFinds(b) \/ \E status \in Sendable : StoreCampaign(b, status)
      PROVE  PressesWithin'
  BY <1>1, <1>5 DEF ViewDetails, AskOnCard, CronFinds, StoreCampaign
<1>6. ASSUME CloseDetails \/ AskInDrawer \/ CronParks \/ FillForm \/ CloseDraft \/ CreateCampaign \/ CreateFails
      PROVE  PressesWithin'
  BY <1>1, <1>6 DEF CloseDetails, AskInDrawer, CronParks, FillForm, CloseDraft, CreateCampaign, CreateFails
<1>7. CASE UNCHANGED campaignPageVars
  BY <1>1, <1>7 DEF campaignPageVars
<1>8. QED
  BY <1>2, <1>3, <1>4, <1>5, <1>6, <1>7 DEF CampaignPageNext

LEMMA CampaignsTyped == CampaignInv /\ PressesWithin => CampaignPageTypeOK
<1> SUFFICES ASSUME CampaignInv, PressesWithin PROVE CampaignPageTypeOK
  OBVIOUS
<1>1. \A s \in Senders : deed[s].kind \in {"none", "execute", "cancel"} /\ deed[s].id \in Bulletins \cup {NoBulletin}
  BY DEF CampaignInv, CampaignTyped, DeedsTyped, DeedRow
<1>2. QED
  BY <1>1 DEF CampaignPageTypeOK, CampaignInv, CampaignTyped, PressesWithin

WishesWithin == wishes \in 0..MaxWishes /\ consoleFaults \in 0..MaxConsoleFaults

LEMMA WishesInit == ConsoleInit => WishesWithin
  BY AdminConsoleAssumption DEF ConsoleInit, WishesWithin

LEMMA WishesStep == WishesWithin /\ [ConsoleNext]_consoleVars => WishesWithin'
<1> SUFFICES ASSUME WishesWithin, [ConsoleNext]_consoleVars
             PROVE  WishesWithin'
  OBVIOUS
<1>1. ASSUME UNCHANGED wishes \/ Wish, UNCHANGED consoleFaults \/ Upset PROVE WishesWithin'
  BY <1>1, AdminConsoleAssumption DEF WishesWithin, Wish, Upset
<1>2. ASSUME NEW k \in Errands,
             \/ \E t \in Desks : FirstRows(k, t)
             \/ \E t \in Desks : \E rows \in {RowsOf(t)} \cup {{r} : r \in RowsOf(t)} : Search(k, t, rows)
             \/ GetRows(k) \/ SetRows(k) \/ FetchRowsFails(k)
      PROVE  WishesWithin'
  BY <1>1, <1>2 DEF FirstRows, Search, GetRows, SetRows, FetchRowsFails
<1>3. ASSUME NEW k \in Errands,
             \/ \E r \in Entries : ToggleOnDesk(k, r)
             \/ \E w \in Spaces, paid \in BOOLEAN : SetPlan(k, w, paid)
             \/ \E p \in Folk : VerifyUserEmail(k, p)
             \/ ToggleInDrawer(k) \/ StoreChange(k) \/ MarkVerified(k) \/ ChangeDone(k)
      PROVE  WishesWithin'
  BY <1>1, <1>3 DEF ToggleOnDesk, SetPlan, VerifyUserEmail, ToggleInDrawer, Toggle, StoreChange, MarkVerified, ChangeDone
<1>4. ASSUME NEW k \in Errands,
             PutFails(k) \/ OthersFail(k) \/ Confirm(k) \/ StoreDeletion(k) \/ DeletionDone(k)
      PROVE  WishesWithin'
  BY <1>1, <1>4 DEF PutFails, OthersFail, Trouble, Confirm, StoreDeletion, DeletionDone
<1>5. ASSUME NEW k \in Errands,
             \/ EmailTenant(k) \/ MailOwner(k) \/ LetterAnswered(k) \/ SendBulletin(k) \/ ReadUsers(k)
             \/ BulletinDone(k) \/ BulletinRefused(k) \/ BulletinLost(k) \/ \E p \in Folk : MailUser(k, p)
      PROVE  WishesWithin'
  BY <1>1, <1>5 DEF EmailTenant, MailOwner, LetterAnswered, Trouble, SendBulletin, ReadUsers, BulletinDone,
     BulletinRefused, BulletinLost, MailUser
<1>6. ASSUME NEW r \in Entries, ChangedElsewhere(r) \/ \E drawn \in BOOLEAN : AskDeletion(r, drawn) PROVE WishesWithin'
  BY <1>1, <1>6 DEF ChangedElsewhere, AskDeletion
<1>7. ASSUME \/ \E w \in Spaces : OpenTenantDrawer(w)
             \/ Decline \/ CloseDrawer \/ TypeLetter \/ TypeBulletin \/ AskBulletin
      PROVE  WishesWithin'
  BY <1>1, <1>7 DEF OpenTenantDrawer, Decline, CloseDrawer, TypeLetter, TypeBulletin, AskBulletin
<1>8. CASE UNCHANGED consoleVars
  BY <1>1, <1>8 DEF consoleVars
<1>9. QED
  BY <1>2, <1>3, <1>4, <1>5, <1>6, <1>7, <1>8 DEF ConsoleNext

LEMMA EntriesTyped == ConsoleInv /\ DesksInv /\ WishesWithin => ConsoleTypeOK
<1> SUFFICES ASSUME ConsoleInv, DesksInv, WishesWithin PROVE ConsoleTypeOK
  OBVIOUS
<1>1. \A k \in Errands : errand[k].row \in Entries \cup Desks \cup {NoEntry}
  BY DEF ConsoleInv, ConsoleTyped, ErrandRow
<1>2. {recs, desk} \subseteq [Entries -> Entry \cup {Gone}]
  BY DEF ConsoleInv, ConsoleTyped, RowsKept
<1>3. {blurred, misheard, bulletin.typed, bulletin.sending} \subseteq BOOLEAN
  BY DEF ConsoleInv, ConsoleTyped, DesksInv, ChangesInv
<1>4. {opened.row, letter.to, letter.says} \subseteq Spaces \cup {NoEntry} /\ query.row \in Entries \cup {NoEntry}
  BY DEF ConsoleInv, ConsoleTyped
<1>5. turning \subseteq Desks /\ sure \subseteq Desks /\ UNION {sought, raced} \subseteq Entries
  BY DEF ConsoleInv, ConsoleTyped, DesksInv, ChangesInv
<1>6. QED
  BY <1>1, <1>2, <1>3, <1>4, <1>5 DEF ConsoleTypeOK, WishesWithin

===============================================================================

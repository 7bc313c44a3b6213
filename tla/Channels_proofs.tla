--------------------------- MODULE Channels_proofs --------------------------
(* Theorems about Channels, for every set of tenants, pages and requests.   *)
EXTENDS Channels, FiniteSetTheorems, TLAPS

-----------------------------------------------------------------------------
(* What a handler holds where.                                              *)

Asking == {"find", "update", "limit", "create", "rename", "rmrules", "rmrow", "rule"}

\* A request at work has a tenant and a page, the cron at its write a page.
Shapes ==
    \A h \in Handlers :
        /\ pc[h] \in Asking => h \in Requests /\ who[h] \in Tenants /\ asset[h] \in Assets
        /\ pc[h] = "store" => asset[h] \in Assets

\* Ids are never used again.
Ids ==
    /\ \A a \in Assets : row[a] <= rows
    /\ \A h \in Handlers : held[h] <= rows /\ \A c \in batch[h] : c.row <= rows

\* As long as the row a callback found stands, it is its tenant's.
HeldRow ==
    \A h \in Handlers :
        pc[h] = "update" /\ Stands(h) => owner[asset[h]] = who[h]

Inv == TypeOK /\ Shapes /\ Ids /\ HeldRow

-----------------------------------------------------------------------------
(* How a handler moves on.                                                  *)

Others(h) ==
    \A g \in Handlers \ {h} :
        /\ pc'[g] = pc[g] /\ who'[g] = who[g] /\ asset'[g] = asset[g]
        /\ held'[g] = held[g] /\ batch'[g] = batch[g]

\* It stays with its page.
Stays(h, l) ==
    /\ Others(h) /\ pc'[h] = l
    /\ who'[h] = who[h] /\ asset'[h] = asset[h] /\ batch'[h] = batch[h]

\* It is done with its page, and may turn to another.
Freed(h) ==
    /\ Others(h) /\ held'[h] = 0 /\ batch'[h] = batch[h]
    /\ \/ pc'[h] = "idle"
       \/ pc'[h] = "find" /\ who'[h] = who[h] /\ asset'[h] \in Assets

LEMMA EndFreed ==
  ASSUME HandlersType, NEW h \in Handlers, End(h)
  PROVE  HandlersType' /\ Freed(h)
<1>1. << >> \in Seq(Assets)
  OBVIOUS
<1>2. QED
  BY <1>1 DEF HandlersType, End, Goto, PCs, Grants, Freed, Others

LEMMA TakeFreed ==
  ASSUME HandlersType, NEW h \in Handlers, NEW a \in Assets, NEW pages \in Seq(Assets),
         Take(h, a, pages)
  PROVE  HandlersType' /\ Freed(h)
  BY DEF HandlersType, Take, Goto, PCs, Freed, Others

LEMMA NextFreed ==
  ASSUME HandlersType, NEW h \in Handlers, NextPage(h)
  PROVE  HandlersType' /\ Freed(h)
<1>1. CASE Len(list[h]) <= 1
  BY <1>1, EndFreed DEF NextPage
<1>2. CASE ~(Len(list[h]) <= 1)
  <2>1. list[h] \in Seq(Assets)
    BY DEF HandlersType
  <2>2. list[h][2] \in Assets /\ Tail(list[h]) \in Seq(Assets)
    BY <1>2, <2>1
  <2>3. Take(h, list[h][2], Tail(list[h]))
    BY <1>2 DEF NextPage
  <2>4. QED
    BY <2>2, <2>3, TakeFreed
<1>3. QED
  BY <1>1, <1>2

LEMMA ConnectedFreed ==
  ASSUME HandlersType, NEW h \in Handlers, asset[h] \in Assets, Connected(h)
  PROVE  HandlersType' /\ Freed(h)
<1>1. CASE grant[h] # "typed" /\ OnPage(h) /\ Linked[asset[h]] # NoAsset
  <2>1. Linked[asset[h]] \in Assets /\ list[h] \in Seq(Assets)
    BY <1>1, ChannelsAssumption DEF HandlersType
  <2>2. QED
    BY <1>1, <2>1, TakeFreed DEF Connected
<1>2. CASE ~(grant[h] # "typed" /\ OnPage(h) /\ Linked[asset[h]] # NoAsset)
  BY <1>2, NextFreed DEF Connected
<1>3. QED
  BY <1>1, <1>2

LEMMA ThrownFreed ==
  ASSUME HandlersType, NEW h \in Handlers, Thrown(h)
  PROVE  HandlersType' /\ Freed(h)
  BY EndFreed, NextFreed DEF Thrown

LEMMA GotoStays ==
  ASSUME HandlersType, NEW h \in Handlers, NEW l \in PCs, Goto(h, l), UNCHANGED locals
  PROVE  HandlersType' /\ Stays(h, l) /\ held'[h] = held[h]
  BY DEF HandlersType, Goto, locals, Stays, Others

LEMMA BeginEnters ==
  ASSUME HandlersType, NEW h \in Handlers, NEW l \in PCs, NEW t \in Tenants,
         NEW pages \in Seq(Assets), pages # << >>, NEW new \in Grants, NEW id \in Nat,
         Begin(h, l, t, pages, new, id)
  PROVE  /\ HandlersType' /\ Others(h)
         /\ pc[h] = "idle" /\ pc'[h] = l /\ who'[h] = t /\ asset'[h] = Head(pages)
         /\ asset'[h] \in Assets /\ held'[h] = id /\ batch'[h] = batch[h]
<1>1. Head(pages) \in Assets
  OBVIOUS
<1>2. QED
  BY <1>1 DEF HandlersType, Begin, At, Goto, Others

-----------------------------------------------------------------------------
(* The invariant, action by action.                                         *)

LEMMA SameRows == ASSUME RowsType, UNCHANGED connection PROVE RowsType'
  BY DEF RowsType, connection

LEMMA SameRules == ASSUME RulesType, UNCHANGED rulesets PROVE RulesType'
  BY DEF RulesType, rulesets

LEMMA SameHistory == ASSUME HistoryType, UNCHANGED <<history, time>> PROVE HistoryType'
  BY DEF HistoryType, history, tokens, time

\* The connections keep their ids and tenants.
Kept == UNCHANGED <<owner, row, rows>>

LEMMA EnterInv ==
  ASSUME Inv, NEW h \in Requests, NEW l \in Asking \ {"update"}, NEW t \in Tenants,
         NEW pages \in Seq(Assets), pages # << >>, NEW new \in Grants,
         NEW id \in Nat, id <= rows,
         Begin(h, l, t, pages, new, id),
         UNCHANGED <<connection, rulesets, history, time>>
  PROVE  Inv'
<1>1. h \in Handlers /\ l \in PCs
  BY DEF Handlers, Asking, PCs
<1>2. /\ HandlersType' /\ Others(h)
      /\ pc[h] = "idle" /\ pc'[h] = l /\ who'[h] = t /\ asset'[h] = Head(pages)
      /\ asset'[h] \in Assets /\ held'[h] = id /\ batch'[h] = batch[h]
  BY <1>1, BeginEnters DEF Inv, TypeOK
<1>3. TypeOK'
  BY <1>2, SameRows, SameRules, SameHistory DEF Inv, TypeOK
<1>4. Shapes'
  BY <1>2 DEF Inv, Shapes, Others, Asking
<1>5. Ids'
  BY <1>1, <1>2 DEF Inv, Ids, Others, connection, history
<1>6. HeldRow'
  BY <1>2 DEF Inv, HeldRow, Others, Stands, connection
<1>7. QED
  BY <1>3, <1>4, <1>5, <1>6 DEF Inv

LEMMA StayInv ==
  ASSUME Inv, NEW h \in Handlers, NEW l \in Asking \ {"update"}, pc[h] \in Asking,
         HandlersType', Stays(h, l), held'[h] = held[h],
         RowsType', RulesType', HistoryType', Kept
  PROVE  Inv'
<1>1. Shapes'
  BY DEF Inv, Shapes, Stays, Others, Asking
<1>2. Ids'
  BY DEF Inv, Ids, Stays, Others, Kept
<1>3. HeldRow'
  BY DEF Inv, HeldRow, Stays, Others, Stands, Kept
<1>4. QED
  BY <1>1, <1>2, <1>3 DEF Inv, TypeOK

\* A handler leaves its page while rows keep their ids, or one goes.
LEMMA FreedInv ==
  ASSUME Inv, NEW h \in Handlers, pc[h] \in Asking,
         HandlersType', Freed(h), RowsType', RulesType', HistoryType',
         rows' = rows,
         \A a \in Assets : row'[a] \in {row[a], 0},
         \A a \in Assets : row'[a] # 0 => owner'[a] = owner[a]
  PROVE  Inv'
<1>1. Shapes'
  BY DEF Inv, Shapes, Freed, Others, Asking
<1>2. Ids'
  <2>1. rows \in Nat
    BY DEF Inv, TypeOK, HistoryType
  <2>2. QED
    BY <2>1 DEF Inv, Ids, Freed, Others
<1>3. HeldRow'
  <2>1. SUFFICES ASSUME NEW g \in Handlers, pc'[g] = "update", Stands(g)'
                 PROVE  owner'[asset'[g]] = who'[g]
    BY DEF HeldRow
  <2>2. g # h /\ pc[g] = "update" /\ asset'[g] = asset[g] /\ who'[g] = who[g] /\ held'[g] = held[g]
    BY <2>1 DEF Freed, Others
  <2>3. asset[g] \in Assets
    BY <2>2 DEF Inv, Shapes, Asking
  <2>4. Stands(g) /\ row'[asset[g]] # 0
    BY <2>1, <2>2, <2>3 DEF Stands
  <2>5. QED
    BY <2>2, <2>3, <2>4 DEF Inv, HeldRow
<1>4. QED
  BY <1>1, <1>2, <1>3 DEF Inv, TypeOK

LEMMA TokenType ==
  ASSUME RowsType, HistoryType, NEW a \in Assets, NEW kind, StoreToken(a, kind)
  PROVE  /\ issued' \in [Assets -> Nat] /\ updated' \in [Assets -> Nat]
         /\ renamed' \subseteq Assets /\ lasting' \subseteq Assets
      /\ refused' \in [Assets -> Nat]
  BY DEF RowsType, HistoryType, StoreToken, Touched

LEMMA AskInv == ASSUME Inv, NEW h \in Handlers, Ask(h) PROVE Inv'
<1>1. PICK t \in Tenants :
        \/ \E offer \in Offers : Callback(h, t, offer)
        \/ \E a \in Assets : \/ AddConnection(h, t, a)
                             \/ AskRename(h, t, a)
                             \/ AskRemove(h, t, a)
                             \/ AskRule(h, t, a)
  BY DEF Ask
<1>2. ASSUME NEW offer \in Offers, Callback(h, t, offer) PROVE Inv'
  <2>1. offer \in Seq(Assets) /\ offer # << >> /\ 0 <= rows
    BY <1>2, ChannelsAssumption DEF Inv, TypeOK, HistoryType
  <2>2. QED
    BY <1>2, <2>1, EnterInv DEF Callback, Asking, Grants
<1>3. ASSUME NEW a \in Assets PROVE <<a>> \in Seq(Assets) /\ <<a>> # << >>
  OBVIOUS
<1>4. ASSUME NEW a \in Assets PROVE row[a] \in Nat /\ row[a] <= rows /\ 0 <= rows
  BY <1>4 DEF Inv, TypeOK, RowsType, HistoryType, Ids
<1>5. ASSUME NEW a \in Assets, AddConnection(h, t, a) PROVE Inv'
  BY <1>3, <1>4, <1>5, EnterInv DEF AddConnection, Asking, Grants
<1>6. ASSUME NEW a \in Assets, AskRename(h, t, a) PROVE Inv'
  BY <1>3, <1>4, <1>6, EnterInv DEF AskRename, Asking, Grants
<1>7. ASSUME NEW a \in Assets, AskRemove(h, t, a) PROVE Inv'
  BY <1>3, <1>4, <1>7, EnterInv DEF AskRemove, Asking, Grants
<1>8. ASSUME NEW a \in Assets, AskRule(h, t, a) PROVE Inv'
  BY <1>3, <1>4, <1>8, EnterInv DEF AskRule, Asking, Grants
<1>9. QED
  BY <1>1, <1>2, <1>5, <1>6, <1>7, <1>8

LEMMA FindInv == ASSUME Inv, NEW h \in Handlers, FindExisting(h) PROVE Inv'
<1> USE DEF FindExisting, At
<1>1. RowsType' /\ RulesType' /\ HistoryType' /\ Kept
  BY SameRows, SameRules, SameHistory DEF Inv, TypeOK, Kept, connection, history
<1>2. pc[h] \in Asking /\ asset[h] \in Assets
  BY DEF Inv, Shapes, Asking
<1>3. CASE Goto(h, "limit") /\ UNCHANGED locals
  BY <1>1, <1>2, <1>3, GotoStays, StayInv DEF Inv, TypeOK, PCs, Asking
<1>4. CASE NextPage(h)
  <2>1. HandlersType' /\ Freed(h)
    BY <1>4, NextFreed DEF Inv, TypeOK
  <2>2. QED
    BY <1>1, <1>2, <2>1, FreedInv DEF Kept
<1>5. CASE /\ row[asset[h]] # 0 /\ grant[h] # "typed" /\ owner[asset[h]] = who[h]
           /\ Goto(h, "update")
           /\ held' = [held EXCEPT ![h] = row[asset[h]]]
           /\ UNCHANGED <<who, list, asset, grant, batch>>
  <2>1. row[asset[h]] \in Nat
    BY <1>2 DEF Inv, TypeOK, RowsType
  <2>2. HandlersType'
    BY <1>5, <2>1 DEF Inv, TypeOK, HandlersType, Goto, PCs
  <2>3. Stays(h, "update") /\ held'[h] = row[asset[h]]
    BY <1>5 DEF Inv, TypeOK, HandlersType, Goto, Stays, Others
  <2>4. Shapes'
    BY <1>2, <2>3 DEF Inv, Shapes, Stays, Others, Asking
  <2>5. Ids'
    BY <1>1, <1>2, <2>3 DEF Inv, Ids, Stays, Others, Kept
  <2>6. HeldRow'
    BY <1>1, <1>5, <2>3 DEF Inv, HeldRow, Stays, Others, Stands, Kept
  <2>7. QED
    BY <1>1, <2>2, <2>4, <2>5, <2>6 DEF Inv, TypeOK
<1>6. QED
  BY <1>3, <1>4, <1>5

LEMMA UpdateInv == ASSUME Inv, NEW h \in Handlers, UpdateConnection(h) PROVE Inv' /\ Kept
<1> USE DEF UpdateConnection, At
<1>1. pc[h] \in Asking /\ asset[h] \in Assets /\ who[h] \in Tenants
  BY DEF Inv, Shapes, Asking
<1>2. RulesType'
  BY SameRules DEF Inv, TypeOK
<1>3. CASE Stands(h)
  <2>1. owner' = owner
    BY <1>1, <1>3 DEF Inv, HeldRow, TypeOK, RowsType
  <2>2. RowsType' /\ HistoryType'
    BY <1>1, <1>3, <2>1, TokenType DEF Inv, TypeOK, RowsType, HistoryType, tokens, time
  <2>3. HandlersType' /\ Freed(h)
    BY <1>1, <1>3, ConnectedFreed DEF Inv, TypeOK
  <2>4. QED
    BY <1>1, <1>2, <2>1, <2>2, <2>3, FreedInv DEF Kept
<1>4. CASE ~Stands(h)
  <2>1. RowsType' /\ HistoryType' /\ Kept
    BY <1>4 DEF Inv, TypeOK, RowsType, HistoryType, Kept, time, tokens
  <2>2. HandlersType' /\ Freed(h)
    BY <1>4, ThrownFreed DEF Inv, TypeOK
  <2>3. QED
    BY <1>1, <1>2, <2>1, <2>2, FreedInv DEF Kept
<1>5. QED
  BY <1>3, <1>4

LEMMA LimitInv == ASSUME Inv, NEW h \in Handlers, EnforceLimit(h) PROVE Inv'
<1> USE DEF EnforceLimit, At
<1>1. RowsType' /\ RulesType' /\ HistoryType' /\ Kept
  BY SameRows, SameRules, SameHistory DEF Inv, TypeOK, Kept, connection, history
<1>2. pc[h] \in Asking
  BY DEF Asking
<1>3. CASE Thrown(h)
  BY <1>1, <1>2, <1>3, ThrownFreed, FreedInv DEF Inv, TypeOK, Kept
<1>4. CASE Goto(h, "create") /\ UNCHANGED locals
  BY <1>1, <1>2, <1>4, GotoStays, StayInv DEF Inv, TypeOK, PCs, Asking
<1>5. QED
  BY <1>3, <1>4

LEMMA CreateInv == ASSUME Inv, NEW h \in Handlers, CreateConnection(h) PROVE Inv'
<1> USE DEF CreateConnection, At
<1>1. pc[h] \in Asking /\ asset[h] \in Assets /\ who[h] \in Tenants
  BY DEF Inv, Shapes, Asking
<1>2. RulesType'
  BY SameRules DEF Inv, TypeOK
<1>3. CASE row[asset[h]] = 0
  <2>1. rows \in Nat /\ rows' = rows + 1
    BY <1>3 DEF Inv, TypeOK, HistoryType
  <2>2. RowsType' /\ HistoryType'
    <3>1. /\ issued' \in [Assets -> Nat] /\ updated' \in [Assets -> Nat]
          /\ renamed' \subseteq Assets /\ lasting' \subseteq Assets
      /\ refused' \in [Assets -> Nat]
      BY <1>1, <1>3, TokenType DEF Inv, TypeOK
    <3>2. HistoryType'
      BY <1>3, <2>1, <3>1 DEF Inv, TypeOK, HistoryType, tokens, time
    <3>3. /\ owner' \in [Assets -> Tenants \cup {NoTenant}] /\ row' \in [Assets -> Nat]
          /\ live' \in [Assets -> BOOLEAN]
      <4>1. owner' \in [Assets -> Tenants \cup {NoTenant}]
        BY <1>1, <1>3 DEF Inv, TypeOK, RowsType
      <4>2. row' \in [Assets -> Nat]
        BY <1>1, <1>3, <2>1 DEF Inv, TypeOK, RowsType
      <4>3. live' \in [Assets -> BOOLEAN]
        BY <1>1, <1>3 DEF Inv, TypeOK, RowsType
      <4>4. QED
        BY <4>1, <4>2, <4>3
    <3>4. \A a \in Assets : row'[a] = 0 <=> owner'[a] = NoTenant
      <4>1. owner'[asset[h]] # NoTenant /\ row'[asset[h]] # 0
        BY <1>1, <1>3, <2>1, ChannelsAssumption DEF Inv, TypeOK, RowsType
      <4>2. \A a \in Assets \ {asset[h]} : row'[a] = row[a] /\ owner'[a] = owner[a]
        BY <1>1, <1>3 DEF Inv, TypeOK, RowsType
      <4>3. QED
        BY <4>1, <4>2 DEF Inv, TypeOK, RowsType
    <3>5. QED
      BY <3>1, <3>2, <3>3, <3>4 DEF RowsType
  <2>3. HandlersType' /\ Freed(h)
    BY <1>1, <1>3, ConnectedFreed DEF Inv, TypeOK
  <2>4. Shapes'
    BY <1>1, <2>3 DEF Inv, Shapes, Freed, Others, Asking
  <2>5. Ids'
    <3>1. \A a \in Assets : row'[a] <= rows'
      BY <1>1, <1>3, <2>1 DEF Inv, TypeOK, RowsType, Ids
    <3>2. \A g \in Handlers : held'[g] <= rows'
      <4>1. \A g \in Handlers : held'[g] \in {held[g], 0}
        BY <2>3 DEF Freed, Others
      <4>2. \A g \in Handlers : held[g] \in Nat /\ held[g] <= rows
        BY DEF Inv, TypeOK, HandlersType, Ids
      <4>3. QED
        BY <2>1, <4>1, <4>2
    <3>3. \A g \in Handlers : \A c \in batch'[g] : c.row <= rows'
      <4>1. \A g \in Handlers : batch'[g] = batch[g]
        BY <2>3 DEF Freed, Others
      <4>2. \A g \in Handlers : \A c \in batch[g] : c.row \in Nat /\ c.row <= rows
        BY DEF Inv, TypeOK, HandlersType, Ids
      <4>3. QED
        BY <2>1, <4>1, <4>2
    <3>4. QED
      BY <3>1, <3>2, <3>3 DEF Ids
  <2>6. HeldRow'
    <3>1. SUFFICES ASSUME NEW g \in Handlers, pc'[g] = "update", Stands(g)'
                   PROVE  owner'[asset'[g]] = who'[g]
      BY DEF HeldRow
    <3>2. g # h /\ pc[g] = "update" /\ asset'[g] = asset[g] /\ who'[g] = who[g] /\ held'[g] = held[g]
      BY <2>3, <3>1 DEF Freed, Others
    <3>3. asset[g] \in Assets /\ held[g] \in Nat /\ held[g] <= rows
      BY <3>2 DEF Inv, Shapes, Asking, TypeOK, HandlersType, Ids
    <3>4. asset[g] # asset[h]
      BY <1>1, <1>3, <2>1, <3>1, <3>2, <3>3 DEF Stands, Inv, TypeOK, RowsType
    <3>5. Stands(g) /\ owner'[asset[g]] = owner[asset[g]]
      BY <1>1, <1>3, <3>1, <3>2, <3>3, <3>4 DEF Stands, Inv, TypeOK, RowsType
    <3>6. QED
      BY <3>2, <3>5 DEF Inv, HeldRow
  <2>7. QED
    BY <1>2, <2>2, <2>3, <2>4, <2>5, <2>6 DEF Inv, TypeOK
<1>4. CASE row[asset[h]] # 0
  <2>1. RowsType' /\ HistoryType' /\ Kept
    BY <1>4 DEF Inv, TypeOK, RowsType, HistoryType, Kept, time, connection, tokens
  <2>2. HandlersType' /\ Freed(h)
    BY <1>4, ThrownFreed DEF Inv, TypeOK
  <2>3. QED
    BY <1>1, <1>2, <2>1, <2>2, FreedInv DEF Kept
<1>5. QED
  BY <1>3, <1>4

LEMMA RenameInv == ASSUME Inv, NEW h \in Handlers, Rename(h) PROVE Inv' /\ Kept
<1> USE DEF Rename, At
<1>1. pc[h] \in Asking /\ asset[h] \in Assets
  BY DEF Inv, Shapes, Asking
<1>2. RowsType' /\ RulesType' /\ HistoryType' /\ Kept
  BY <1>1, SameRules DEF Inv, TypeOK, RowsType, HistoryType, Touched, Kept, time
<1>3. HandlersType' /\ Freed(h)
  BY EndFreed DEF Inv, TypeOK
<1>4. QED
  BY <1>1, <1>2, <1>3, FreedInv DEF Kept

LEMMA RemoveRulesInv == ASSUME Inv, NEW h \in Handlers, RemoveRules(h) PROVE Inv' /\ Kept
<1> USE DEF RemoveRules, At
<1>1. pc[h] \in Asking /\ asset[h] \in Assets
  BY DEF Inv, Shapes, Asking
<1>2. RowsType' /\ RulesType' /\ HistoryType' /\ Kept
  BY <1>1, SameRows, SameHistory DEF Inv, TypeOK, RulesType, Kept, connection, history
<1>3. HandlersType' /\ Stays(h, "rmrow") /\ held'[h] = held[h]
  BY GotoStays DEF Inv, TypeOK, PCs
<1>4. QED
  BY <1>1, <1>2, <1>3, StayInv DEF Asking

LEMMA RemoveRowInv == ASSUME Inv, NEW h \in Handlers, RemoveRow(h) PROVE Inv'
<1> USE DEF RemoveRow, At
<1>1. pc[h] \in Asking /\ asset[h] \in Assets
  BY DEF Inv, Shapes, Asking
<1>2. HandlersType' /\ Freed(h)
  BY EndFreed DEF Inv, TypeOK
<1>3. CASE Stands(h)
  <2>1. RowsType'
    <3>1. /\ owner' \in [Assets -> Tenants \cup {NoTenant}] /\ row' \in [Assets -> Nat]
          /\ live' \in [Assets -> BOOLEAN]
          /\ issued' \in [Assets -> Nat] /\ updated' \in [Assets -> Nat]
      <4>1. owner' \in [Assets -> Tenants \cup {NoTenant}]
        BY <1>1, <1>3 DEF Inv, TypeOK, RowsType
      <4>2. row' \in [Assets -> Nat] /\ issued' \in [Assets -> Nat] /\ updated' \in [Assets -> Nat]
        BY <1>1, <1>3 DEF Inv, TypeOK, RowsType
      <4>3. live' \in [Assets -> BOOLEAN]
        BY <1>1, <1>3 DEF Inv, TypeOK, RowsType
      <4>4. QED
        BY <4>1, <4>2, <4>3
    <3>2. owner'[asset[h]] = NoTenant /\ row'[asset[h]] = 0
      BY <1>1, <1>3 DEF Inv, TypeOK, RowsType
    <3>3. \A a \in Assets \ {asset[h]} : row'[a] = row[a] /\ owner'[a] = owner[a]
      BY <1>1, <1>3 DEF Inv, TypeOK, RowsType
    <3>4. QED
      BY <3>1, <3>2, <3>3 DEF Inv, TypeOK, RowsType
  <2>2. RulesType'
    BY <1>1, <1>3 DEF Inv, TypeOK, RulesType
  <2>3. HistoryType'
    BY <1>3 DEF Inv, TypeOK, HistoryType, tokens, time
  <2>4. /\ rows' = rows
        /\ \A a \in Assets : row'[a] \in {row[a], 0}
        /\ \A a \in Assets : row'[a] # 0 => owner'[a] = owner[a]
    BY <1>1, <1>3 DEF Inv, TypeOK, RowsType
  <2>5. QED
    BY <1>1, <1>2, <2>1, <2>2, <2>3, <2>4, FreedInv
<1>4. CASE ~Stands(h)
  <2>1. RowsType' /\ RulesType' /\ HistoryType' /\ Kept
    BY <1>4, SameRows DEF Inv, TypeOK, RulesType, HistoryType, Kept, connection, time, tokens
  <2>2. QED
    BY <1>1, <1>2, <2>1, FreedInv DEF Kept
<1>5. QED
  BY <1>3, <1>4

LEMMA WriteRuleInv == ASSUME Inv, NEW h \in Handlers, WriteRule(h) PROVE Inv' /\ Kept
<1> USE DEF WriteRule, At
<1>1. pc[h] \in Asking /\ asset[h] \in Assets
  BY DEF Inv, Shapes, Asking
<1>2. RowsType' /\ HistoryType' /\ Kept
  BY SameRows, SameHistory DEF Inv, TypeOK, Kept, connection, history
<1>3. RulesType'
  BY <1>1 DEF Inv, TypeOK, RulesType
<1>4. HandlersType' /\ Freed(h)
  BY EndFreed DEF Inv, TypeOK
<1>5. QED
  BY <1>1, <1>2, <1>3, <1>4, FreedInv DEF Kept

\* The cron reads and writes rows without moving them.
LEMMA CronInv ==
  ASSUME Inv, NEW h \in Handlers, Kept,
         RowsType', RulesType', HistoryType', HandlersType',
         \A g \in Handlers : pc'[g] \in Asking => pc[g] = pc'[g] /\ g # h,
         \A g \in Handlers \ {h} : pc'[g] = pc[g],
         \A g \in Handlers \ {h} : asset'[g] = asset[g] /\ held'[g] = held[g],
         who' = who, pc'[h] = "store" => asset'[h] \in Assets,
         held'[h] <= rows,
         \A g \in Handlers : \A c \in batch'[g] : c.row <= rows
  PROVE  Inv'
<1>1. Shapes'
  BY DEF Inv, Shapes, Asking
<1>2. Ids'
  BY DEF Inv, Ids, Kept
<1>3. HeldRow'
  BY DEF Inv, HeldRow, Stands, Kept, Asking
<1>4. QED
  BY <1>1, <1>2, <1>3 DEF Inv, TypeOK

LEMMA FetchInv == ASSUME Inv, NEW h \in Handlers, FetchAging(h) PROVE Inv' /\ Kept
<1> USE DEF FetchAging, At
<1> DEFINE aging == {[asset |-> a, row |-> row[a]] : a \in {x \in Assets : Aged(x)}}
<1>1. RowsType' /\ RulesType' /\ Kept
  BY SameRows, SameRules DEF Inv, TypeOK, Kept, connection, history
<1>2. HistoryType'
  BY DEF Inv, TypeOK, HistoryType, history, tokens
<1>3. aging \in SUBSET [asset: Assets, row: Nat] /\ \A c \in aging : c.row <= rows
  BY DEF Inv, TypeOK, RowsType, Ids
<1>4. batch' = [batch EXCEPT ![h] = aging]
  OBVIOUS
<1>5. /\ batch' \in [Handlers -> SUBSET [asset: Assets, row: Nat]]
      /\ batch'[h] = aging /\ \A g \in Handlers \ {h} : batch'[g] = batch[g]
  BY <1>3, <1>4 DEF Inv, TypeOK, HandlersType
<1>6. pc'[h] \in {"idle", "exchange"} /\ pc' \in [Handlers -> PCs]
      /\ \A g \in Handlers \ {h} : pc'[g] = pc[g]
  BY DEF Inv, TypeOK, HandlersType, Goto, PCs
<1>7. HandlersType'
  BY <1>5, <1>6 DEF Inv, TypeOK, HandlersType
<1>8. held'[h] <= rows /\ \A g \in Handlers : \A c \in batch'[g] : c.row <= rows
  BY <1>3, <1>5 DEF Inv, Ids
<1>9. QED
  BY <1>1, <1>2, <1>6, <1>7, <1>8, CronInv DEF Asking

LEMMA ExchangeInv == ASSUME Inv, NEW h \in Handlers, Exchange(h) PROVE Inv' /\ Kept
<1> USE DEF Exchange, At
<1>1. RowsType' /\ RulesType' /\ Kept
  BY SameRows, SameRules DEF Inv, TypeOK, Kept, connection
<1>2. PICK c \in batch[h] :
        /\ batch' = [batch EXCEPT ![h] = @ \ {c}]
        /\ \/ /\ Goto(h, "store")
              /\ asset' = [asset EXCEPT ![h] = c.asset]
              /\ held' = [held EXCEPT ![h] = c.row]
              /\ UNCHANGED refused
           \/ /\ refused' = IF row[c.asset] = c.row
                            THEN [refused EXCEPT ![c.asset] = @ + 1] ELSE refused
              /\ Goto(h, IF batch'[h] = {} THEN "idle" ELSE "exchange")
              /\ UNCHANGED <<asset, held>>
  OBVIOUS
<1>3. c.asset \in Assets /\ c.row \in Nat /\ c.row <= rows
  BY DEF Inv, TypeOK, HandlersType, Ids
<1>4. HistoryType'
  BY <1>2 DEF Inv, TypeOK, HistoryType, tokens, time
<1>5. /\ batch' \in [Handlers -> SUBSET [asset: Assets, row: Nat]]
      /\ \A g \in Handlers : batch'[g] \subseteq batch[g]
  BY <1>2 DEF Inv, TypeOK, HandlersType
<1>6. /\ pc'[h] \in {"idle", "exchange", "store"} /\ pc' \in [Handlers -> PCs]
      /\ \A g \in Handlers \ {h} : pc'[g] = pc[g]
  BY <1>2 DEF Inv, TypeOK, HandlersType, Goto, PCs
<1>7. /\ asset' \in [Handlers -> Assets \cup {NoAsset}] /\ held' \in [Handlers -> Nat]
      /\ \A g \in Handlers \ {h} : asset'[g] = asset[g] /\ held'[g] = held[g]
      /\ held'[h] <= rows
  BY <1>2, <1>3 DEF Inv, TypeOK, HandlersType, Ids
<1>8. pc'[h] = "store" => asset'[h] \in Assets
  BY <1>2, <1>3 DEF Inv, TypeOK, HandlersType, Goto
<1>9. HandlersType'
  BY <1>5, <1>6, <1>7 DEF Inv, TypeOK, HandlersType
<1>10. \A g \in Handlers : \A d \in batch'[g] : d.row <= rows
  BY <1>5 DEF Inv, Ids
<1>11. QED
  BY <1>1, <1>4, <1>6, <1>7, <1>8, <1>9, <1>10, CronInv DEF Asking

LEMMA StoreInv == ASSUME Inv, NEW h \in Handlers, Store(h) PROVE Inv' /\ Kept
<1> USE DEF Store, At
<1>1. asset[h] \in Assets
  BY DEF Inv, Shapes
<1>2. RulesType' /\ Kept
  BY SameRules DEF Inv, TypeOK, Kept
<1>3. /\ issued' \in [Assets -> Nat] /\ updated' \in [Assets -> Nat]
      /\ renamed' \subseteq Assets /\ lasting' \subseteq Assets
      /\ refused' \in [Assets -> Nat]
  BY <1>1, TokenType DEF tokens, Inv, TypeOK, RowsType, HistoryType
<1>4. RowsType' /\ HistoryType'
  BY <1>3 DEF Inv, TypeOK, RowsType, HistoryType, tokens, time
<1>5. /\ pc'[h] \in {"idle", "exchange"} /\ pc' \in [Handlers -> PCs]
      /\ \A g \in Handlers \ {h} : pc'[g] = pc[g]
  BY DEF Inv, TypeOK, HandlersType, Goto, PCs
<1>6. /\ asset' \in [Handlers -> Assets \cup {NoAsset}] /\ held' \in [Handlers -> Nat]
      /\ \A g \in Handlers \ {h} : asset'[g] = asset[g] /\ held'[g] = held[g]
      /\ held'[h] <= rows
  BY DEF Inv, TypeOK, HandlersType, HistoryType
<1>7. HandlersType'
  BY <1>5, <1>6 DEF Inv, TypeOK, HandlersType
<1>8. \A g \in Handlers : \A d \in batch'[g] : d.row <= rows
  BY DEF Inv, Ids
<1>9. QED
  BY <1>2, <1>4, <1>5, <1>6, <1>7, <1>8, CronInv DEF Asking

\* The world touches no handler and moves no row.
LEMMA WorldInv ==
  ASSUME Inv, (\E a \in Assets : Revoke(a)) \/ Tick \/ UNCHANGED vars
  PROVE  Inv' /\ Kept
<1>1. UNCHANGED <<pc, locals, rulesets>> /\ Kept
  BY DEF Revoke, Tick, vars, Kept, connection, history
<1>2. HandlersType' /\ RulesType' /\ Shapes' /\ Ids' /\ HeldRow'
  BY <1>1 DEF Inv, TypeOK, HandlersType, RulesType, Shapes, Ids, HeldRow, Stands, Kept, locals, rulesets
<1>3. RowsType' /\ HistoryType'
  <2>1. CASE \E a \in Assets : Revoke(a)
    <3>1. PICK a \in Assets : Revoke(a)
      BY <2>1
    <3>2. HistoryType'
      BY <3>1, SameHistory DEF Revoke, Inv, TypeOK
    <3>3. updated' \in [Assets -> Nat] /\ UNCHANGED <<owner, row, issued>>
      BY <3>1 DEF Revoke, Touched, Inv, TypeOK, RowsType, HistoryType
    <3>4. live' \in [Assets -> BOOLEAN]
      <4>1. live \in [Assets -> BOOLEAN] /\ live' = [live EXCEPT ![a] = FALSE]
        BY <3>1 DEF Revoke, Inv, TypeOK, RowsType
      <4>2. QED
        BY <4>1
    <3>5. QED
      BY <3>2, <3>3, <3>4 DEF Inv, TypeOK, RowsType
  <2>2. CASE Tick
    <3>1. RowsType'
      BY <2>2, SameRows DEF Tick, Inv, TypeOK
    <3>2. HistoryType'
      <4>1. today' \in Nat
        BY <2>2 DEF Tick, Inv, TypeOK, HistoryType
      <4>2. ran' = FALSE /\ UNCHANGED <<tokens, rows>>
        BY <2>2 DEF Tick, history, tokens
      <4>3. QED
        BY <4>1, <4>2 DEF tokens, Inv, TypeOK, HistoryType
    <3>3. QED
      BY <3>1, <3>2
  <2>3. CASE UNCHANGED vars
    BY <2>3, SameRows, SameHistory DEF vars, Inv, TypeOK
  <2>4. QED
    BY <2>1, <2>2, <2>3
<1>4. QED
  BY <1>1, <1>2, <1>3 DEF Inv, TypeOK

LEMMA InitInv == Init => Inv
<1> SUFFICES ASSUME Init PROVE Inv
  OBVIOUS
<1>1. << >> \in Seq(Assets)
  OBVIOUS
<1>2. RowsType /\ RulesType /\ HistoryType
  BY DEF Init, RowsType, RulesType, HistoryType, All
<1>3. HandlersType
  BY <1>1 DEF Init, HandlersType, Everyone, Grants, PCs
<1>4. Shapes /\ Ids /\ HeldRow
  BY DEF Init, Shapes, Ids, HeldRow, Asking, All, Everyone
<1>5. QED
  BY <1>2, <1>3, <1>4 DEF Inv, TypeOK

LEMMA StepInv == Inv /\ [Next]_vars => Inv'
<1> SUFFICES ASSUME Inv, [Next]_vars PROVE Inv'
  OBVIOUS
<1>1. ASSUME NEW h \in Handlers, Ask(h) \/ FetchAging(h) \/ Handle(h) PROVE Inv'
  BY <1>1, AskInv, FetchInv, FindInv, UpdateInv, LimitInv, CreateInv, RenameInv,
     RemoveRulesInv, RemoveRowInv, WriteRuleInv, ExchangeInv, StoreInv DEF Handle
<1>2. CASE (\E a \in Assets : Revoke(a)) \/ Tick \/ UNCHANGED vars
  BY <1>2, WorldInv
<1>3. QED
  BY <1>1, <1>2 DEF Next

LEMMA Invariant == Spec => []Inv
  BY InitInv, StepInv, PTL DEF Spec

\* Every reachable state is well typed: addConnection to refreshExpiringTokens.
THEOREM WellTyped == Spec => []TypeOK
<1>1. Inv => TypeOK
  BY DEF Inv
<1>2. QED
  BY <1>1, Invariant, PTL

-----------------------------------------------------------------------------
(* A page changes hands only by a removal.                                  *)

\* From the invariant: an update finds its own tenant in the row that stands,
\* a creation no tenant, and only a removal clears it.
THEOREM KeptByOwner == Spec => PageKeepsOwner
<1>1. ASSUME Inv, [Next]_vars, NEW a \in Assets, owner[a] # NoTenant
      PROVE  owner'[a] \in {owner[a], NoTenant}
  <2>1. ASSUME NEW h \in Handlers, Ask(h)
        PROVE  owner' = owner
    BY <2>1 DEF Ask, Callback, AddConnection, AskRename, AskRemove, AskRule, connection
  <2>2. ASSUME NEW h \in Handlers, CreateConnection(h)
        PROVE  owner'[a] \in {owner[a], NoTenant}
    <3>1. asset[h] \in Assets
      BY <1>1, <2>2 DEF Inv, Shapes, Asking, CreateConnection, At
    <3>2. row[asset[h]] = 0 => asset[h] # a
      BY <1>1, <3>1 DEF Inv, TypeOK, RowsType
    <3>3. QED
      BY <1>1, <2>2, <3>1, <3>2 DEF Inv, TypeOK, RowsType, CreateConnection, connection
  <2>3. ASSUME NEW h \in Handlers, RemoveRow(h)
        PROVE  owner'[a] \in {owner[a], NoTenant}
    BY <1>1, <2>3 DEF Inv, TypeOK, RowsType, RemoveRow, connection
  <2>4. ASSUME NEW h \in Handlers, FindExisting(h) \/ EnforceLimit(h)
        PROVE  owner' = owner
    BY <2>4 DEF FindExisting, EnforceLimit, connection
  <2>5. ASSUME NEW h \in Handlers, Handle(h)
        PROVE  owner'[a] \in {owner[a], NoTenant}
    BY <1>1, <2>2, <2>3, <2>4, <2>5, UpdateInv, RenameInv, RemoveRulesInv, WriteRuleInv,
       ExchangeInv, StoreInv DEF Handle, Kept
  <2>6. ASSUME NEW h \in Handlers, FetchAging(h)
        PROVE  owner' = owner
    BY <2>6 DEF FetchAging, connection
  <2>7. CASE (\E b \in Assets : Revoke(b)) \/ Tick \/ UNCHANGED vars
    BY <1>1, <2>7, WorldInv DEF Kept
  <2>8. QED
    BY <1>1, <2>1, <2>5, <2>6, <2>7 DEF Next
<1>2. Inv /\ [Next]_vars => [\A a \in Assets : owner[a] # NoTenant => owner'[a] \in {owner[a], NoTenant}]_vars
  BY <1>1
<1>3. QED
  BY <1>2, Invariant, PTL DEF Spec, PageKeepsOwner

-----------------------------------------------------------------------------
(* A rule outlives its channel only if it was written during the removal.   *)

\* Between the two writes of a removal, the channel has only such rules.
RuleInv ==
    /\ RulesGoWithChannel
    /\ \A h \in Handlers : At(h, "rmrow") /\ Stands(h) => ruled[asset[h]] \subseteq late

\* Whoever is between the two writes was there before.
Settled ==
    \A g \in Handlers :
        pc'[g] = "rmrow" => pc[g] = "rmrow" /\ asset'[g] = asset[g] /\ held'[g] = held[g]

LEMMA CalmStep ==
  ASSUME Inv, RuleInv, UNCHANGED rulesets, Settled,
         \A b \in Assets : row'[b] \in {row[b], rows + 1}
  PROVE  RuleInv'
<1>1. ASSUME NEW g \in Handlers, pc'[g] = "rmrow", Stands(g)'
      PROVE  ruled'[asset'[g]] \subseteq late'
  <2>1. /\ pc[g] = "rmrow" /\ asset'[g] = asset[g] /\ held'[g] = held[g]
        /\ asset[g] \in Assets
    BY <1>1 DEF Settled, Inv, Shapes, Asking
  <2>2. held[g] \in Nat /\ held[g] <= rows /\ rows \in Nat
    BY DEF Inv, TypeOK, HandlersType, HistoryType, Ids
  <2>3. Stands(g)
    BY <1>1, <2>1, <2>2 DEF Stands
  <2>4. QED
    BY <2>1, <2>3 DEF RuleInv, At, rulesets
<1>2. QED
  BY <1>1 DEF RuleInv, RulesGoWithChannel, At, rulesets

LEMMA EndSettled ==
  ASSUME HandlersType, NEW h \in Handlers, Freed(h) \/ \E l \in PCs \ {"rmrow"} : Stays(h, l)
  PROVE  Settled
  BY DEF Freed, Stays, Others, Settled, HandlersType

LEMMA RuleStep ==
  ASSUME Inv, RuleInv, [Next]_vars
  PROVE  RuleInv'
<1> USE DEF RuleInv, RulesGoWithChannel, At
<1>1. ASSUME NEW h \in Handlers, RemoveRules(h) PROVE RuleInv'
  <2>1. asset[h] \in Assets
    BY <1>1 DEF RemoveRules, Inv, Shapes, Asking
  <2>2. /\ UNCHANGED <<everywhere, late, row, asset, held>>
        /\ \A g \in Handlers \ {h} : pc'[g] = pc[g]
        /\ \A b \in Assets : ruled'[b] \subseteq ruled[b]
        /\ Stands(h) => ruled'[asset[h]] = {}
    BY <1>1, <2>1 DEF RemoveRules, Goto, Inv, TypeOK, HandlersType, RulesType, connection, locals
  <2>3. ASSUME NEW g \in Handlers, pc'[g] = "rmrow", Stands(g)' PROVE ruled'[asset[g]] \subseteq late
    <3>1. Stands(g)
      BY <2>2, <2>3 DEF Stands
    <3>2. CASE g = h
      BY <2>2, <3>1, <3>2
    <3>3. CASE g # h
      BY <2>2, <2>3, <3>1, <3>3 DEF Inv, Shapes, Asking
    <3>4. QED
      BY <3>2, <3>3
  <2>4. QED
    BY <2>2, <2>3
<1>2. ASSUME NEW h \in Handlers, WriteRule(h) PROVE RuleInv'
  <2>1. asset[h] \in Assets /\ Freed(h)
    BY <1>2, EndFreed DEF WriteRule, Inv, TypeOK, Shapes, Asking
  <2>2. UNCHANGED <<everywhere, row>>
    BY <1>2 DEF WriteRule, connection
  <2>3. CASE ~Stands(h)
    BY <1>2, <2>1, <2>2, <2>3 DEF WriteRule, Freed, Others, Stands
  <2>4. CASE Stands(h)
    <3>1. PICK r \in Rules \ written :
            /\ ruled' = [ruled EXCEPT ![asset[h]] = @ \cup {r}]
            /\ late' = IF BeingRemoved(held[h]) THEN late \cup {r} ELSE late
      BY <1>2, <2>4 DEF WriteRule
    <3>2. ASSUME NEW g \in Handlers, pc'[g] = "rmrow", Stands(g)'
          PROVE  ruled'[asset'[g]] \subseteq late'
      <4>1. /\ g # h /\ pc[g] = "rmrow" /\ asset'[g] = asset[g] /\ held'[g] = held[g]
            /\ g \in Requests /\ asset[g] \in Assets
        BY <2>1, <3>2 DEF Freed, Others, Inv, Shapes, Asking
      <4>2. Stands(g)
        BY <2>2, <3>2, <4>1 DEF Stands
      <4>3. CASE asset[g] = asset[h]
        <5>1. held[g] = held[h]
          BY <2>4, <4>2, <4>3 DEF Stands
        <5>2. late' = late \cup {r}
          BY <3>1, <4>1, <5>1 DEF BeingRemoved
        <5>3. ruled'[asset[g]] = ruled[asset[g]] \cup {r}
          BY <3>1, <4>1, <4>3 DEF Inv, TypeOK, RulesType
        <5>4. QED
          BY <4>1, <4>2, <5>2, <5>3
      <4>4. CASE asset[g] # asset[h]
        BY <3>1, <4>1, <4>2, <4>4 DEF Inv, TypeOK, RulesType
      <4>5. QED
        BY <4>3, <4>4
    <3>3. everywhere' \subseteq late'
      BY <2>2, <3>1
    <3>4. QED
      BY <3>2, <3>3
  <2>5. QED
    BY <2>3, <2>4
<1>3. ASSUME NEW h \in Handlers, RemoveRow(h) PROVE RuleInv'
  <2>1. asset[h] \in Assets /\ Freed(h) /\ late' = late
    BY <1>3, EndFreed DEF RemoveRow, Inv, TypeOK, Shapes, Asking
  <2>2. everywhere' \subseteq late
    BY <1>3, <2>1 DEF RemoveRow
  <2>3. \A b \in Assets : ruled'[b] \subseteq ruled[b] /\ row'[b] \in {row[b], 0}
    BY <1>3, <2>1 DEF RemoveRow, Inv, TypeOK, RulesType, RowsType, connection
  <2>4. ASSUME NEW g \in Handlers, pc'[g] = "rmrow", Stands(g)'
        PROVE  ruled'[asset'[g]] \subseteq late
    <3>1. /\ pc[g] = "rmrow" /\ asset'[g] = asset[g] /\ held'[g] = held[g] /\ asset[g] \in Assets
      BY <2>1, <2>4 DEF Freed, Others, Inv, Shapes, Asking
    <3>2. Stands(g)
      BY <2>3, <2>4, <3>1 DEF Stands
    <3>3. QED
      BY <2>3, <3>1, <3>2
  <2>5. QED
    BY <2>1, <2>2, <2>4
<1>4. ASSUME NEW h \in Handlers, Ask(h) PROVE RuleInv'
  <2>1. UNCHANGED <<row, rulesets>> /\ Settled
    <3>1. PICK t \in Tenants :
            \/ \E offer \in Offers : Callback(h, t, offer)
            \/ \E a \in Assets : \/ AddConnection(h, t, a)
                                 \/ AskRename(h, t, a)
                                 \/ AskRemove(h, t, a)
                                 \/ AskRule(h, t, a)
      BY <1>4 DEF Ask
    <3>2. UNCHANGED <<row, rulesets>>
      BY <3>1 DEF Callback, AddConnection, AskRename, AskRemove, AskRule, connection
    <3>3. ASSUME NEW l \in PCs \ {"rmrow"}, NEW pages, NEW new, NEW id, Begin(h, l, t, pages, new, id)
          PROVE  Settled
      BY <3>3 DEF Begin, Goto, Settled, Inv, TypeOK, HandlersType
    <3>4. Settled
      BY <3>1, <3>3 DEF Callback, AddConnection, AskRename, AskRemove, AskRule, PCs
    <3>5. QED
      BY <3>2, <3>4
  <2>2. QED
    BY <1>1, <2>1, CalmStep
<1>5. ASSUME NEW h \in Handlers, FindExisting(h) PROVE RuleInv'
  <2>1. UNCHANGED <<row, rulesets>>
    BY <1>5 DEF FindExisting, connection
  <2>2. Settled
    <3>1. CASE NextPage(h)
      BY <3>1, NextFreed, EndSettled DEF Inv, TypeOK
    <3>2. CASE Goto(h, "limit") /\ UNCHANGED locals
      BY <3>2 DEF Goto, Settled, Inv, TypeOK, HandlersType, locals
    <3>3. CASE Goto(h, "update") /\ held' = [held EXCEPT ![h] = row[asset[h]]] /\ UNCHANGED asset
      BY <3>3 DEF Goto, Settled, Inv, TypeOK, HandlersType
    <3>4. QED
      BY <1>5, <3>1, <3>2, <3>3 DEF FindExisting
  <2>3. QED
    BY <2>1, <2>2, CalmStep
<1>6. ASSUME NEW h \in Handlers, UpdateConnection(h) \/ CreateConnection(h) PROVE RuleInv'
  <2>1. asset[h] \in Assets /\ rows \in Nat
    BY <1>6 DEF UpdateConnection, CreateConnection, At, Inv, Shapes, Asking, TypeOK, HistoryType
  <2>2. UNCHANGED rulesets
    BY <1>6 DEF UpdateConnection, CreateConnection
  <2>3. \A b \in Assets : row'[b] \in {row[b], rows + 1}
    BY <1>6, <2>1 DEF UpdateConnection, CreateConnection, connection, Inv, TypeOK, RowsType
  <2>4. Connected(h) \/ Thrown(h)
    BY <1>6 DEF UpdateConnection, CreateConnection
  <2>5. Settled
    BY <2>1, <2>4, ConnectedFreed, ThrownFreed, EndSettled DEF Inv, TypeOK
  <2>6. QED
    BY <2>2, <2>3, <2>5, CalmStep
<1>7. ASSUME NEW h \in Handlers, EnforceLimit(h) PROVE RuleInv'
  <2>1. UNCHANGED <<row, rulesets>>
    BY <1>7 DEF EnforceLimit, connection
  <2>2. Settled
    <3>1. CASE Thrown(h)
      BY <3>1, ThrownFreed, EndSettled DEF Inv, TypeOK
    <3>2. CASE Goto(h, "create") /\ UNCHANGED locals
      BY <3>2 DEF Goto, Settled, Inv, TypeOK, HandlersType, locals
    <3>3. QED
      BY <1>7, <3>1, <3>2 DEF EnforceLimit
  <2>3. QED
    BY <2>1, <2>2, CalmStep
<1>8. ASSUME NEW h \in Handlers, Rename(h) PROVE RuleInv'
  <2>1. UNCHANGED <<row, rulesets>> /\ End(h)
    BY <1>8 DEF Rename
  <2>2. QED
    BY <2>1, EndFreed, EndSettled, CalmStep DEF Inv, TypeOK
<1>9. ASSUME NEW h \in Handlers, FetchAging(h) \/ Exchange(h) \/ Store(h) PROVE RuleInv'
  <2>1. UNCHANGED rulesets
    BY <1>9 DEF FetchAging, Exchange, Store
  <2>2. row' = row
    BY <1>9, FetchInv, ExchangeInv, StoreInv DEF Inv, Kept
  <2>3. /\ pc[h] # "rmrow" /\ pc'[h] # "rmrow"
        /\ \A g \in Handlers \ {h} : pc'[g] = pc[g]
    BY <1>9 DEF FetchAging, Exchange, Store, At, Goto, Inv, TypeOK, HandlersType
  <2>4. \A g \in Handlers \ {h} : asset'[g] = asset[g] /\ held'[g] = held[g]
    BY <1>9 DEF FetchAging, Exchange, Store, Inv, TypeOK, HandlersType
  <2>5. QED
    BY <2>1, <2>2, <2>3, <2>4, CalmStep DEF Settled
<1>10. CASE (\E a \in Assets : Revoke(a)) \/ Tick \/ UNCHANGED vars
  <2>1. UNCHANGED <<row, rulesets, pc, locals>>
    BY <1>10 DEF Revoke, Tick, vars, connection
  <2>2. QED
    BY <2>1, CalmStep DEF Settled, locals
<1>11. QED
  BY <1>1, <1>2, <1>3, <1>4, <1>5, <1>6, <1>7, <1>8, <1>9, <1>10 DEF Next, Handle

\* A rule of one channel never becomes a rule for all of them, except in the
\* window of removeConnection.
THEOREM RulesFollowChannel == Spec => []RulesGoWithChannel
<1>1. Init => RuleInv
  BY DEF Init, RuleInv, RulesGoWithChannel, At, Everyone
<1>2. Inv /\ RuleInv /\ [Next]_vars => RuleInv'
  BY RuleStep
<1>3. RuleInv => RulesGoWithChannel
  BY DEF RuleInv
<1>4. QED
  BY <1>1, <1>2, <1>3, Invariant, PTL DEF Spec

-----------------------------------------------------------------------------
(* Overlapping requests exceed the limit of the plan by one connection each. *)

\* What counts against the limit.
Used(t) == Cardinality(Owned(t)) + Cardinality(Passed(t))

LEMMA Finite ==
  ASSUME NEW t
  PROVE  /\ IsFiniteSet(Owned(t)) /\ IsFiniteSet(Passed(t))
         /\ Cardinality(Owned(t)) \in Nat /\ Cardinality(Passed(t)) \in Nat
         /\ Cardinality(Passed(t)) <= Cardinality(Requests)
         /\ Cardinality(Requests) \in Nat /\ MaxConnections \in Nat
<1>1. IsFiniteSet(Assets) /\ IsFiniteSet(Requests) /\ MaxConnections \in Nat
  BY ChannelsAssumption
<1>2. Owned(t) \subseteq Assets /\ Passed(t) \subseteq Requests
  BY DEF Owned, Passed
<1>3. QED
  BY <1>1, <1>2, FS_Subset, FS_CardinalityType

LEMMA Shrinks ==
  ASSUME NEW t, Owned(t)' \subseteq Owned(t), Passed(t)' \subseteq Passed(t)
  PROVE  Used(t)' <= Used(t)
<1>1. IsFiniteSet(Owned(t)) /\ IsFiniteSet(Passed(t))
  BY Finite
<1>2. /\ Cardinality(Owned(t)') <= Cardinality(Owned(t))
      /\ Cardinality(Passed(t)') <= Cardinality(Passed(t))
  BY <1>1, FS_Subset
<1>3. IsFiniteSet(Owned(t)') /\ IsFiniteSet(Passed(t)')
  BY <1>1, FS_Subset
<1>4. /\ Cardinality(Owned(t)') \in Nat /\ Cardinality(Passed(t)') \in Nat
      /\ Cardinality(Owned(t)) \in Nat /\ Cardinality(Passed(t)) \in Nat
  BY <1>1, <1>3, FS_CardinalityType
<1>5. QED
  BY <1>2, <1>4 DEF Used

\* Nobody passes the check and nobody gets a page.
Calm ==
    \A t \in Tenants : Owned(t)' \subseteq Owned(t) /\ Passed(t)' \subseteq Passed(t)

LEMMA FreedPassed ==
  ASSUME HandlersType, NEW h \in Handlers, Freed(h), NEW t
  PROVE  Passed(t)' = Passed(t) \ {h}
  BY DEF Freed, Others, Passed, At, HandlersType, Handlers

LEMMA CalmUnlessPassing ==
  ASSUME Inv, NEW h \in Handlers,
         Ask(h) \/ FetchAging(h) \/ FindExisting(h) \/ UpdateConnection(h) \/ Rename(h)
         \/ RemoveRules(h) \/ RemoveRow(h) \/ WriteRule(h) \/ Exchange(h) \/ Store(h)
  PROVE  Calm
<1>1. CASE RemoveRow(h)
  <2>1. Freed(h)
    BY <1>1, EndFreed DEF RemoveRow, Inv, TypeOK
  <2>2. \A t \in Tenants : Owned(t)' \subseteq Owned(t)
    BY <1>1, ChannelsAssumption DEF RemoveRow, Owned, Inv, TypeOK, RowsType, connection
  <2>3. QED
    BY <2>1, <2>2, FreedPassed DEF Calm, Inv, TypeOK
<1>2. CASE UpdateConnection(h) \/ Rename(h) \/ WriteRule(h)
  <2>1. Kept
    BY <1>2, UpdateInv, RenameInv, WriteRuleInv
  <2>2. asset[h] \in Assets
    BY <1>2 DEF UpdateConnection, Rename, WriteRule, At, Inv, Shapes, Asking
  <2>3. Freed(h)
    BY <1>2, <2>2, ConnectedFreed, ThrownFreed, EndFreed
       DEF UpdateConnection, Rename, WriteRule, Inv, TypeOK
  <2>4. QED
    BY <2>1, <2>3, FreedPassed DEF Calm, Kept, Owned, Inv, TypeOK
<1>3. CASE Ask(h) \/ FindExisting(h) \/ RemoveRules(h) \/ FetchAging(h) \/ Exchange(h) \/ Store(h)
  <2>1. owner' = owner
    <3>1. CASE Ask(h)
      BY <3>1 DEF Ask, Callback, AddConnection, AskRename, AskRemove, AskRule, connection
    <3>2. CASE FindExisting(h)
      BY <3>2 DEF FindExisting, connection
    <3>3. QED
      BY <1>3, <3>1, <3>2, RemoveRulesInv, FetchInv, ExchangeInv, StoreInv DEF Kept
  <2>2. ASSUME NEW t \in Tenants PROVE Passed(t)' \subseteq Passed(t)
    <3>1. CASE Ask(h)
      <4>1. PICK u \in Tenants :
              \/ \E offer \in Offers : Callback(h, u, offer)
              \/ \E a \in Assets : \/ AddConnection(h, u, a)
                                   \/ AskRename(h, u, a)
                                   \/ AskRemove(h, u, a)
                                   \/ AskRule(h, u, a)
        BY <3>1 DEF Ask
      <4>2. ASSUME NEW l \in PCs \ {"create"}, NEW pages, NEW new, NEW id, Begin(h, l, u, pages, new, id)
            PROVE  Passed(t)' \subseteq Passed(t)
        BY <4>2 DEF Begin, Goto, At, Passed, Inv, TypeOK, HandlersType, Handlers
      <4>3. QED
        BY <4>1, <4>2 DEF Callback, AddConnection, AskRename, AskRemove, AskRule, PCs
    <3>2. CASE FindExisting(h)
      <4>1. CASE NextPage(h)
        BY <4>1, NextFreed, FreedPassed DEF Inv, TypeOK
      <4>2. CASE (Goto(h, "limit") \/ Goto(h, "update")) /\ UNCHANGED who
        BY <4>2 DEF Goto, At, Passed, Inv, TypeOK, HandlersType, Handlers
      <4>3. QED
        BY <3>2, <4>1, <4>2 DEF FindExisting, locals
    <3>3. CASE RemoveRules(h) \/ FetchAging(h) \/ Exchange(h) \/ Store(h)
      <4>1. who' = who /\ \A g \in Handlers : pc'[g] = "create" => pc[g] = "create"
        BY <3>3 DEF RemoveRules, FetchAging, Exchange, Store, Goto, locals, Inv, TypeOK, HandlersType
      <4>2. QED
        BY <4>1 DEF Passed, At, Handlers
    <3>4. QED
      BY <1>3, <3>1, <3>2, <3>3
  <2>3. QED
    BY <2>1, <2>2 DEF Calm, Owned
<1>4. QED
  BY <1>1, <1>2, <1>3

LEMMA BoundStep ==
  ASSUME Inv, ConnectionsBounded, [Next]_vars
  PROVE  ConnectionsBounded'
<1> SUFFICES ASSUME NEW t \in Tenants
             PROVE  Used(t)' <= MaxConnections + Cardinality(Requests) - 1
  BY DEF ConnectionsBounded, Used
<1>1. Used(t) <= MaxConnections + Cardinality(Requests) - 1 /\ Used(t) \in Nat
  BY Finite DEF ConnectionsBounded, Used
<1>2. /\ Cardinality(Owned(t)') \in Nat /\ Cardinality(Passed(t)') \in Nat
      /\ Cardinality(Passed(t)') <= Cardinality(Requests)
      /\ Cardinality(Requests) \in Nat /\ MaxConnections \in Nat
      /\ Used(t)' = Cardinality(Owned(t)') + Cardinality(Passed(t)')
  <2>1. IsFiniteSet(Assets) /\ IsFiniteSet(Requests) /\ MaxConnections \in Nat
    BY ChannelsAssumption
  <2>2. Owned(t)' \subseteq Assets /\ Passed(t)' \subseteq Requests
    BY DEF Owned, Passed
  <2>3. QED
    BY <2>1, <2>2, FS_Subset, FS_CardinalityType DEF Used
<1>3. CASE Calm
  <2>1. Used(t)' <= Used(t)
    BY <1>3, Shrinks DEF Calm
  <2>2. QED
    BY <1>1, <1>2, <2>1
<1>4. ASSUME NEW h \in Handlers, EnforceLimit(h)
      PROVE  Used(t)' <= MaxConnections + Cardinality(Requests) - 1
  <2>1. Owned(t)' = Owned(t)
    BY <1>4 DEF EnforceLimit, Owned, connection
  <2>2. CASE Thrown(h)
    <3>1. Passed(t)' \subseteq Passed(t)
      BY <2>2, ThrownFreed, FreedPassed DEF Inv, TypeOK
    <3>2. QED
      BY <1>1, <1>2, <2>1, <3>1, Shrinks
  <2>3. CASE ~(Cardinality(Owned(who[h])) >= MaxConnections) /\ Goto(h, "create") /\ UNCHANGED locals
    <3>1. CASE who[h] = t
      <4>1. Cardinality(Owned(t)) < MaxConnections
        BY <2>3, <3>1, Finite
      <4>2. QED
        BY <1>2, <2>1, <4>1, Finite
    <3>2. CASE who[h] # t
      <4>1. Passed(t)' \subseteq Passed(t)
        BY <2>3, <3>2 DEF Passed, At, Goto, locals, Inv, TypeOK, HandlersType, Handlers
      <4>2. QED
        BY <1>1, <1>2, <2>1, <4>1, Shrinks
    <3>3. QED
      BY <3>1, <3>2
  <2>4. QED
    BY <1>4, <2>2, <2>3 DEF EnforceLimit
<1>5. ASSUME NEW h \in Handlers, CreateConnection(h)
      PROVE  Used(t)' <= MaxConnections + Cardinality(Requests) - 1
  <2>1. h \in Requests /\ asset[h] \in Assets /\ Freed(h)
    BY <1>5, ConnectedFreed, ThrownFreed DEF CreateConnection, At, Inv, TypeOK, Shapes, Asking
  <2>2. Passed(t)' = Passed(t) \ {h}
    BY <2>1, FreedPassed DEF Inv, TypeOK
  <2>3. CASE row[asset[h]] = 0 /\ who[h] = t
    <3>1. h \in Passed(t)
      BY <1>5, <2>1, <2>3 DEF CreateConnection, Passed
    <3>2. Cardinality(Passed(t)') = Cardinality(Passed(t)) - 1
      BY <2>2, <3>1, Finite, FS_RemoveElement
    <3>3. Owned(t)' = Owned(t) \cup {asset[h]}
      BY <1>5, <2>1, <2>3 DEF CreateConnection, Owned, Inv, TypeOK, RowsType
    <3>4. Cardinality(Owned(t)') <= Cardinality(Owned(t)) + 1
      <4>1. IsFiniteSet(Owned(t)) /\ Cardinality(Owned(t)) \in Nat
        BY Finite
      <4>2. Cardinality(Owned(t) \cup {asset[h]}) <= Cardinality(Owned(t)) + 1
        BY <4>1, FS_AddElement
      <4>3. QED
        BY <3>3, <4>2
    <3>5. QED
      BY <1>1, <1>2, <3>2, <3>4, Finite DEF Used
  <2>4. CASE ~(row[asset[h]] = 0 /\ who[h] = t)
    <3>1. Owned(t)' \subseteq Owned(t)
      BY <1>5, <2>1, <2>4 DEF CreateConnection, Owned, connection, Inv, TypeOK, RowsType
    <3>2. Passed(t)' \subseteq Passed(t)
      BY <2>2
    <3>3. QED
      BY <1>1, <1>2, <3>1, <3>2, Shrinks
  <2>5. QED
    BY <2>3, <2>4
<1>6. CASE (\E a \in Assets : Revoke(a)) \/ Tick \/ UNCHANGED vars
  <2>1. UNCHANGED <<owner, pc, who>>
    BY <1>6 DEF Revoke, Tick, vars, connection, locals
  <2>2. Calm
    BY <2>1 DEF Calm, Owned, Passed, At
  <2>3. QED
    BY <1>3, <2>2
<1>7. QED
  BY <1>3, <1>4, <1>5, <1>6, CalmUnlessPassing DEF Next, Handle

\* However many requests connect pages at the same time, and whatever lists of
\* pages their callbacks walk through.
THEOREM LimitHolds == Spec => []ConnectionsBounded
<1>1. Init => ConnectionsBounded
  <2> SUFFICES ASSUME Init, NEW t \in Tenants
               PROVE  Cardinality(Owned(t)) + Cardinality(Passed(t))
                        <= MaxConnections + Cardinality(Requests) - 1
    BY DEF ConnectionsBounded
  <2>1. Owned(t) = {} /\ Passed(t) = {}
    BY ChannelsAssumption DEF Init, Owned, Passed, At, All, Everyone, Handlers
  <2>2. Cardinality(Requests) # 0
    BY ChannelsAssumption, FS_EmptySet
  <2>3. QED
    BY <2>1, <2>2, Finite, FS_EmptySet
<1>2. Inv /\ ConnectionsBounded /\ [Next]_vars => ConnectionsBounded'
  BY BoundStep
<1>3. QED
  BY <1>1, <1>2, Invariant, PTL DEF Spec

-----------------------------------------------------------------------------
(* A token is renewed in time.                                              *)

Trusted(a) == live[a] /\ a \in Expiring /\ a \notin renamed

\* The token of the row is what it was.
Untouched(a) ==
    row'[a] = row[a] /\ issued'[a] = issued[a] /\ updated'[a] = updated[a] /\ refused'[a] = refused[a]

\* The cron has the row on its list, or a new token for it in hand.
Pending(a) ==
    \E h \in Handlers : \/ [asset |-> a, row |-> row[a]] \in batch[h]
                        \/ pc[h] = "store" /\ asset[h] = a /\ held[h] = row[a]

\* What the cron of a day has dealt with is younger, by the end of the day,
\* than RefreshAge and the renewals that Graph refused.
FreshInv ==
    /\ \A h \in Handlers : pc[h] \notin {"exchange", "store"} => batch[h] = {}
    /\ \A a \in Assets : live[a] => row[a] # 0
    /\ \A a \in Assets : Trusted(a) =>
          /\ updated[a] = issued[a] /\ issued[a] <= today
          /\ today <= issued[a] + RefreshAge + refused[a] + 1
          /\ ran /\ ~Pending(a) => today <= issued[a] + RefreshAge + refused[a]

LEMMA Numbers ==
  ASSUME Inv
  PROVE  /\ today \in Nat /\ ran \in BOOLEAN
         /\ RefreshAge \in Nat /\ TokenLife \in Nat
         /\ \A a \in Assets : issued[a] \in Nat /\ updated[a] \in Nat /\ row[a] \in Nat
                           /\ refused[a] \in Nat
  BY ChannelsAssumption DEF Inv, TypeOK, RowsType, HistoryType

\* A request renews a token or leaves it as it is.
LEMMA RequestFresh ==
  ASSUME Inv, FreshInv, NEW h \in Handlers, Others(h), batch'[h] = batch[h],
         pc[h] \notin {"exchange", "store"}, pc'[h] \notin {"exchange", "store"},
         UNCHANGED time,
         \A a \in Assets : live'[a] => row'[a] # 0,
         \A a \in Assets : Trusted(a)' =>
            \/ issued'[a] = today /\ updated'[a] = today /\ refused'[a] = 0
            \/ Trusted(a) /\ Untouched(a)
  PROVE  FreshInv'
<1>1. today' = today /\ ran' = ran
  BY DEF time
<1>2. \A a \in Assets : row'[a] = row[a] /\ Pending(a) => Pending(a)'
  BY DEF Pending, Others
<1>3. ASSUME NEW a \in Assets, Trusted(a)'
      PROVE  /\ updated'[a] = issued'[a] /\ issued'[a] <= today'
             /\ today' <= issued'[a] + RefreshAge + refused'[a] + 1
             /\ ran' /\ ~Pending(a)' => today' <= issued'[a] + RefreshAge + refused'[a]
  <2>1. CASE issued'[a] = today /\ updated'[a] = today /\ refused'[a] = 0
    BY <1>1, <2>1, Numbers
  <2>2. CASE Trusted(a) /\ Untouched(a)
    BY <1>1, <1>2, <2>2 DEF FreshInv, Untouched
  <2>3. QED
    BY <1>3, <2>1, <2>2
<1>4. \A g \in Handlers : pc'[g] \notin {"exchange", "store"} => batch'[g] = {}
  BY DEF FreshInv, Others
<1>5. QED
  BY <1>1, <1>3, <1>4 DEF FreshInv

\* What a row may become: a new token, or as before.
LEMMA IssuedFresh ==
  ASSUME Inv, FreshInv, NEW b \in Assets, NEW kind, StoreToken(b, kind), NEW a \in Assets, a \in Expiring,
         a = b \/ (live'[a] = live[a] /\ row'[a] = row[a]), Trusted(a)'
  PROVE  \/ issued'[a] = today /\ updated'[a] = today /\ refused'[a] = 0
         \/ Trusted(a) /\ Untouched(a)
  BY DEF StoreToken, Touched, Trusted, Untouched, Inv, TypeOK, RowsType, HistoryType

LEMMA AskShape ==
  ASSUME Inv, NEW h \in Handlers, Ask(h)
  PROVE  /\ Others(h) /\ batch'[h] = batch[h] /\ pc[h] = "idle"
         /\ pc'[h] \in Asking /\ UNCHANGED <<connection, history, time>>
<1>1. \A l \in PCs : \A t, pages, new, id : Begin(h, l, t, pages, new, id)
        => Others(h) /\ batch'[h] = batch[h] /\ pc[h] = "idle" /\ pc'[h] = l
  BY DEF Begin, At, Goto, Others, Inv, TypeOK, HandlersType
<1>2. QED
  BY <1>1 DEF Ask, Callback, AddConnection, AskRename, AskRemove, AskRule, Asking, PCs

LEMMA HandleFresh ==
  ASSUME Inv, FreshInv, NEW h \in Handlers,
         \/ Ask(h) \/ FindExisting(h) \/ UpdateConnection(h) \/ EnforceLimit(h) \/ CreateConnection(h)
         \/ Rename(h) \/ RemoveRules(h) \/ RemoveRow(h) \/ WriteRule(h)
  PROVE  FreshInv'
<1> DEFINE Quiet == /\ Others(h) /\ batch'[h] = batch[h]
                    /\ pc[h] \notin {"exchange", "store"} /\ pc'[h] \notin {"exchange", "store"}
<1>1. Freed(h) \/ (\E l \in Asking : Stays(h, l)) =>
         Others(h) /\ batch'[h] = batch[h] /\ pc'[h] \notin {"exchange", "store"}
  BY DEF Freed, Stays, Asking
<1>2. HandlersType /\ (pc[h] \in Asking => asset[h] \in Assets)
  BY DEF Inv, TypeOK, Shapes
<1>3. ASSUME Quiet, UNCHANGED <<connection, history, time>> PROVE FreshInv'
  <2>1. UNCHANGED <<row, live, issued, updated, renamed, refused, time>>
    BY <1>3 DEF connection, history, tokens
  <2>2. QED
    BY <1>3, <2>1, RequestFresh DEF FreshInv, Trusted, Untouched
<1>4. CASE Ask(h)
  BY <1>3, <1>4, AskShape DEF Asking
<1>5. CASE FindExisting(h)
  <2>1. Others(h) /\ batch'[h] = batch[h] /\ pc'[h] \in {"limit", "update", "idle", "find"}
    <3>1. CASE NextPage(h)
      BY <1>2, <3>1, NextFreed DEF Freed
    <3>2. CASE \E l \in {"limit", "update"} : Goto(h, l) /\ UNCHANGED <<who, list, asset, grant, batch>>
                                            /\ \A g \in Handlers \ {h} : held'[g] = held[g]
      BY <1>2, <3>2 DEF Goto, HandlersType, Others
    <3>3. QED
      BY <1>2, <1>5, <3>1, <3>2 DEF FindExisting, locals, HandlersType
  <2>2. QED
    BY <1>3, <1>5, <2>1 DEF FindExisting, At
<1>6. CASE EnforceLimit(h)
  <2>1. Others(h) /\ batch'[h] = batch[h] /\ pc'[h] \in {"create", "idle", "find"}
    BY <1>2, <1>6, GotoStays, ThrownFreed DEF EnforceLimit, Stays, Freed, PCs
  <2>2. QED
    BY <1>3, <1>6, <2>1 DEF EnforceLimit, At
<1>7. CASE RemoveRules(h)
  <2>1. Others(h) /\ batch'[h] = batch[h] /\ pc'[h] = "rmrow"
    BY <1>2, <1>7, GotoStays DEF RemoveRules, Stays, PCs
  <2>2. QED
    BY <1>3, <1>7, <2>1 DEF RemoveRules, At
<1>8. CASE WriteRule(h)
  <2>1. Others(h) /\ batch'[h] = batch[h] /\ pc'[h] \in {"idle", "find"}
    BY <1>2, <1>8, EndFreed DEF WriteRule, Freed
  <2>2. QED
    BY <1>3, <1>8, <2>1 DEF WriteRule, At
<1>9. CASE UpdateConnection(h)
  <2>1. asset[h] \in Assets /\ pc[h] = "update"
    BY <1>2, <1>9 DEF UpdateConnection, At, Asking
  <2>2. Quiet /\ UNCHANGED <<row, live, time>>
    BY <1>2, <1>9, <2>1, ConnectedFreed, ThrownFreed DEF UpdateConnection, Freed
  <2>3. CASE Stands(h)
    BY <1>9, <2>1, <2>2, <2>3, IssuedFresh, RequestFresh DEF UpdateConnection, FreshInv, Trusted
  <2>4. CASE ~Stands(h)
    BY <1>9, <2>2, <2>4, RequestFresh DEF UpdateConnection, FreshInv, Trusted, Untouched, tokens
  <2>5. QED
    BY <2>3, <2>4
<1>10. CASE CreateConnection(h)
  <2>1. asset[h] \in Assets /\ pc[h] = "create"
    BY <1>2, <1>10 DEF CreateConnection, At, Asking
  <2>2. Quiet /\ UNCHANGED time
    BY <1>2, <1>10, <2>1, ConnectedFreed, ThrownFreed DEF CreateConnection, Freed
  <2>3. CASE row[asset[h]] = 0
    <3>1. /\ StoreToken(asset[h], grant[h])
          /\ row' = [row EXCEPT ![asset[h]] = rows + 1] /\ live' = [live EXCEPT ![asset[h]] = TRUE]
      BY <1>10, <2>3 DEF CreateConnection
    <3>2. rows + 1 # 0
      BY DEF Inv, TypeOK, HistoryType
    <3>3. \A a \in Assets \ {asset[h]} : row'[a] = row[a] /\ live'[a] = live[a]
      BY <3>1 DEF Inv, TypeOK, RowsType
    <3>4. row'[asset[h]] = rows + 1
      BY <2>1, <3>1 DEF Inv, TypeOK, RowsType
    <3>5. \A a \in Assets : live'[a] => row'[a] # 0
      BY <3>2, <3>3, <3>4 DEF FreshInv
    <3>6. ASSUME NEW a \in Assets, Trusted(a)'
          PROVE  \/ issued'[a] = today /\ updated'[a] = today /\ refused'[a] = 0
                 \/ Trusted(a) /\ Untouched(a)
      BY <2>1, <3>1, <3>3, <3>6, IssuedFresh DEF Trusted
    <3>7. QED
      BY <2>2, <3>5, <3>6, RequestFresh
  <2>4. CASE row[asset[h]] # 0
    BY <1>10, <2>2, <2>4, RequestFresh DEF CreateConnection, connection, FreshInv, Trusted, Untouched, tokens
  <2>5. QED
    BY <2>3, <2>4
<1>11. CASE Rename(h)
  <2>1. asset[h] \in Assets /\ pc[h] = "rename"
    BY <1>2, <1>11 DEF Rename, At, Asking
  <2>2. Quiet /\ UNCHANGED <<row, live, issued, refused, time>>
    BY <1>2, <1>11, <2>1, EndFreed DEF Rename, Freed
  <2>3. \A a \in Assets : Trusted(a)' => Trusted(a) /\ updated'[a] = updated[a]
    BY <1>11, <2>1, <2>2 DEF Rename, Touched, Trusted, Inv, TypeOK, RowsType
  <2>4. QED
    BY <2>2, <2>3, RequestFresh DEF FreshInv, Untouched
<1>12. CASE RemoveRow(h)
  <2>1. asset[h] \in Assets /\ pc[h] = "rmrow"
    BY <1>2, <1>12 DEF RemoveRow, At, Asking
  <2>2. Quiet /\ UNCHANGED time
    BY <1>2, <1>12, <2>1, EndFreed DEF RemoveRow, Freed
  <2>3. \A a \in Assets : live'[a] => live[a] /\ Untouched(a) /\ (a \in renamed => a \in renamed')
    BY <1>12, <2>1 DEF RemoveRow, connection, tokens, Untouched, Inv, TypeOK, RowsType, HistoryType
  <2>4. \A a \in Assets : live'[a] => row'[a] # 0
    BY <2>3 DEF FreshInv, Untouched
  <2>5. QED
    BY <2>2, <2>3, <2>4, RequestFresh DEF Trusted
<1>13. QED
  BY <1>4, <1>5, <1>6, <1>7, <1>8, <1>9, <1>10, <1>11, <1>12

LEMMA FetchFresh ==
  ASSUME Inv, FreshInv, NEW h \in Handlers, FetchAging(h)
  PROVE  FreshInv'
<1> DEFINE aging == {[asset |-> a, row |-> row[a]] : a \in {x \in Assets : Aged(x)}}
<1>1. /\ batch'[h] = aging /\ \A g \in Handlers \ {h} : batch'[g] = batch[g]
      /\ \A g \in Handlers \ {h} : pc'[g] = pc[g]
      /\ pc'[h] = IF aging = {} THEN "idle" ELSE "exchange"
      /\ ran' = TRUE /\ today' = today
      /\ UNCHANGED <<row, live, issued, updated, renamed, refused>>
  BY DEF FetchAging, Goto, Inv, TypeOK, HandlersType, connection, history, tokens
<1>2. ASSUME NEW a \in Assets, Trusted(a), ~Pending(a)'
      PROVE  today <= issued[a] + RefreshAge + refused[a]
  <2>1. [asset |-> a, row |-> row[a]] \notin aging
    BY <1>1, <1>2 DEF Pending
  <2>2. ~Aged(a)
    BY <2>1
  <2>3. ~(issued[a] + RefreshAge < today)
    BY <1>2, <2>2 DEF Aged, Trusted, FreshInv
  <2>4. QED
    BY <2>3, Numbers
<1>3. ASSUME NEW a \in Assets, Trusted(a)'
      PROVE  /\ updated'[a] = issued'[a] /\ issued'[a] <= today'
             /\ today' <= issued'[a] + RefreshAge + refused'[a] + 1
             /\ ran' /\ ~Pending(a)' => today' <= issued'[a] + RefreshAge + refused'[a]
  BY <1>1, <1>2, <1>3 DEF FreshInv, Trusted
<1>4. \A g \in Handlers : pc'[g] \notin {"exchange", "store"} => batch'[g] = {}
  BY <1>1 DEF FreshInv
<1>5. QED
  BY <1>1, <1>3, <1>4 DEF FreshInv

LEMMA ExchangeFresh ==
  ASSUME Inv, FreshInv, NEW h \in Handlers, Exchange(h)
  PROVE  FreshInv'
<1>1. PICK c \in batch[h] :
        /\ batch' = [batch EXCEPT ![h] = @ \ {c}]
        /\ \/ /\ Goto(h, "store")
              /\ asset' = [asset EXCEPT ![h] = c.asset]
              /\ held' = [held EXCEPT ![h] = c.row]
              /\ UNCHANGED refused
           \/ /\ refused' = IF row[c.asset] = c.row
                            THEN [refused EXCEPT ![c.asset] = @ + 1] ELSE refused
              /\ Goto(h, IF batch'[h] = {} THEN "idle" ELSE "exchange")
              /\ UNCHANGED <<asset, held>>
  BY DEF Exchange
<1>2. /\ pc[h] = "exchange" /\ today' = today /\ ran' = ran
      /\ UNCHANGED <<row, live, issued, updated, renamed>>
  BY DEF Exchange, At, connection, time
<1>3. /\ batch'[h] = batch[h] \ {c} /\ \A g \in Handlers \ {h} : batch'[g] = batch[g]
      /\ \A g \in Handlers \ {h} : pc'[g] = pc[g] /\ asset'[g] = asset[g] /\ held'[g] = held[g]
  BY <1>1 DEF Goto, Inv, TypeOK, HandlersType
<1>4. \/ /\ pc'[h] = "store" /\ asset'[h] = c.asset /\ held'[h] = c.row /\ refused' = refused
      \/ /\ refused' = IF row[c.asset] = c.row
                       THEN [refused EXCEPT ![c.asset] = @ + 1] ELSE refused
         /\ pc'[h] = IF batch'[h] = {} THEN "idle" ELSE "exchange"
  BY <1>1 DEF Goto, Inv, TypeOK, HandlersType
<1>5. ASSUME NEW a \in Assets, Pending(a), ~Pending(a)'
      PROVE  refused'[a] = refused[a] + 1
  <2>1. PICK g \in Handlers : \/ [asset |-> a, row |-> row[a]] \in batch[g]
                              \/ pc[g] = "store" /\ asset[g] = a /\ held[g] = row[a]
    BY <1>5 DEF Pending
  <2>2. g = h
    BY <1>2, <1>3, <1>5, <2>1 DEF Pending
  <2>3. c = [asset |-> a, row |-> row[a]]
    BY <1>2, <1>3, <1>5, <2>1, <2>2 DEF Pending
  <2>4. ~(pc'[h] = "store" /\ asset'[h] = a /\ held'[h] = row[a])
    BY <1>2, <1>5 DEF Pending
  <2>5. c.asset = a /\ c.row = row[a]
    BY <2>3
  <2>6. refused' = [refused EXCEPT ![a] = @ + 1]
    BY <1>4, <2>4, <2>5
  <2>7. QED
    BY <2>6 DEF Inv, TypeOK, HistoryType
<1>6. \A a \in Assets : refused'[a] \in {refused[a], refused[a] + 1}
  BY <1>4 DEF Inv, TypeOK, HistoryType
<1>7. ASSUME NEW a \in Assets, Trusted(a)'
      PROVE  /\ updated'[a] = issued'[a] /\ issued'[a] <= today'
             /\ today' <= issued'[a] + RefreshAge + refused'[a] + 1
             /\ ran' /\ ~Pending(a)' => today' <= issued'[a] + RefreshAge + refused'[a]
  <2>1. /\ updated[a] = issued[a] /\ issued[a] <= today
        /\ today <= issued[a] + RefreshAge + refused[a] + 1
        /\ ran /\ ~Pending(a) => today <= issued[a] + RefreshAge + refused[a]
    BY <1>2, <1>7 DEF FreshInv, Trusted
  <2>2. QED
    BY <1>2, <1>5, <1>6, <2>1, Numbers
<1>8. \A g \in Handlers : pc'[g] \notin {"exchange", "store"} => batch'[g] = {}
  BY <1>3, <1>4 DEF FreshInv
<1>9. QED
  BY <1>2, <1>7, <1>8 DEF FreshInv

LEMMA StoreFresh ==
  ASSUME Inv, FreshInv, NEW h \in Handlers, Store(h)
  PROVE  FreshInv'
<1>1. /\ pc[h] = "store" /\ asset[h] \in Assets
      /\ today' = today /\ ran' = ran
      /\ UNCHANGED <<row, live, batch>>
  BY DEF Store, At, time, Inv, Shapes
<1>2. /\ \A g \in Handlers \ {h} : pc'[g] = pc[g] /\ asset'[g] = asset[g] /\ held'[g] = held[g]
      /\ pc'[h] = IF batch[h] = {} THEN "idle" ELSE "exchange"
  BY DEF Store, Goto, Inv, TypeOK, HandlersType
<1>3. \A a \in Assets \ {asset[h]} : Pending(a) => Pending(a)'
  BY <1>1, <1>2 DEF Pending
<1>4. ASSUME NEW a \in Assets, Trusted(a)'
      PROVE  /\ updated'[a] = issued'[a] /\ issued'[a] <= today'
             /\ today' <= issued'[a] + RefreshAge + refused'[a] + 1
             /\ ran' /\ ~Pending(a)' => today' <= issued'[a] + RefreshAge + refused'[a]
  <2>1. CASE issued'[a] = today /\ updated'[a] = today /\ refused'[a] = 0
    BY <1>1, <2>1, Numbers
  <2>2. CASE /\ Trusted(a) /\ Untouched(a)
             /\ a # asset[h] \/ ~Stands(h)
    <3>1. ~Pending(a)' => ~Pending(a)
      <4>1. CASE a # asset[h]
        BY <1>3, <4>1
      <4>2. CASE a = asset[h] /\ ~Stands(h)
        <5>1. live[a] /\ row[a] # 0
          BY <2>2 DEF Trusted, FreshInv
        <5>2. held[h] # row[a]
          BY <4>2, <5>1 DEF Stands
        <5>3. QED
          BY <1>1, <1>2, <5>2 DEF Pending
      <4>3. QED
        BY <2>2, <4>1, <4>2
    <3>2. QED
      BY <1>1, <2>2, <3>1 DEF FreshInv, Untouched
  <2>3. CASE Stands(h)
    <3>1. StoreToken(asset[h], "long")
      BY <2>3 DEF Store
    <3>2. a = asset[h] => issued'[a] = today /\ updated'[a] = today /\ refused'[a] = 0
      BY <1>1, <1>4, <3>1 DEF StoreToken, Touched, Trusted, Inv, TypeOK, RowsType, HistoryType
    <3>3. a # asset[h] => Trusted(a) /\ Untouched(a)
      BY <1>1, <1>4, <3>1 DEF StoreToken, Touched, Trusted, Untouched, Inv, TypeOK, RowsType, HistoryType
    <3>4. QED
      BY <2>1, <2>2, <3>2, <3>3
  <2>4. CASE ~Stands(h)
    BY <1>1, <1>4, <2>2, <2>4 DEF Store, Trusted, Untouched, tokens
  <2>5. QED
    BY <2>3, <2>4
<1>5. \A g \in Handlers : pc'[g] \notin {"exchange", "store"} => batch'[g] = {}
  BY <1>1, <1>2 DEF FreshInv
<1>6. QED
  BY <1>1, <1>4, <1>5 DEF FreshInv

LEMMA TickFresh ==
  ASSUME Inv, FreshInv, Tick
  PROVE  FreshInv'
<1>1. /\ \A h \in Handlers : pc[h] = "idle"
      /\ ran = TRUE /\ ran' = FALSE /\ today' = today + 1
      /\ UNCHANGED <<pc, batch, refused, row, live, issued, updated, renamed>>
  BY DEF Tick, At, connection, history, tokens, locals, Inv, TypeOK, HistoryType
<1>2. \A a : ~Pending(a)
  BY <1>1 DEF Pending, FreshInv
<1>3. ASSUME NEW a \in Assets, Trusted(a)'
      PROVE  updated'[a] = issued'[a] /\ issued'[a] <= today' /\ today' <= issued'[a] + RefreshAge + refused'[a] + 1
  <2>1. updated[a] = issued[a] /\ issued[a] <= today /\ today <= issued[a] + RefreshAge + refused[a]
    BY <1>1, <1>2, <1>3 DEF FreshInv, Trusted
  <2>2. QED
    BY <1>1, <2>1, Numbers
<1>4. QED
  BY <1>1, <1>3 DEF FreshInv

LEMMA RevokeFresh ==
  ASSUME Inv, FreshInv, NEW b \in Assets, Revoke(b)
  PROVE  FreshInv'
<1>1. UNCHANGED <<pc, asset, held, batch, row, issued, tokens, today, ran>>
  BY DEF Revoke, history, tokens, time, locals
<1>2. \A a \in Assets : live'[a] => live[a] /\ updated'[a] = updated[a]
  BY DEF Revoke, Touched, Inv, TypeOK, RowsType
<1>3. \A a : Pending(a)' <=> Pending(a)
  BY <1>1 DEF Pending
<1>4. QED
  BY <1>1, <1>2, <1>3 DEF FreshInv, Trusted, tokens

LEMMA FreshStep ==
  ASSUME Inv, FreshInv, [Next]_vars
  PROVE  FreshInv'
<1>1. ASSUME NEW h \in Handlers, Ask(h) \/ FetchAging(h) \/ Handle(h) PROVE FreshInv'
  BY <1>1, HandleFresh, FetchFresh, ExchangeFresh, StoreFresh DEF Handle
<1>2. CASE UNCHANGED vars
  BY <1>2 DEF vars, connection, history, tokens, time, locals, FreshInv, Trusted, Pending
<1>3. QED
  BY <1>1, <1>2, TickFresh, RevokeFresh DEF Next

\* The run of every day reaches each token that is RefreshAge old, so that no token of a channel that was
\* not renamed is older than RefreshAge + 1 days and the days on which Graph refused it; one that was good
\* for TokenLife days when it was stored has not expired before it was refused for all the days between
\* the two ages: whatever requests connect, remove and revoke channels meanwhile.
THEOREM TokensRefreshed == Spec => []RefreshedInTime
<1>1. Init => FreshInv
  BY ChannelsAssumption DEF Init, FreshInv, Trusted, Everyone, All
<1>2. Inv /\ FreshInv /\ [Next]_vars => FreshInv'
  BY FreshStep
<1>3. Inv /\ FreshInv => RefreshedInTime
  <2> SUFFICES ASSUME Inv, FreshInv, NEW a \in Expiring \ renamed, live[a]
               PROVE  /\ today - issued[a] <= RefreshAge + 1 + refused[a]
                      /\ refused[a] < TokenLife - RefreshAge => today - issued[a] <= TokenLife
    BY DEF RefreshedInTime
  <2>1. a \in Assets
    BY ChannelsAssumption
  <2>2. today <= issued[a] + RefreshAge + refused[a] + 1
    BY <2>1 DEF FreshInv, Trusted
  <2>3. today - issued[a] <= RefreshAge + 1 + refused[a]
    BY <2>1, <2>2, Numbers
  <2>4. refused[a] < TokenLife - RefreshAge => today - issued[a] <= TokenLife
    BY <2>1, <2>2, Numbers
  <2>5. QED
    BY <2>3, <2>4
<1>4. QED
  BY <1>1, <1>2, <1>3, Invariant, PTL DEF Spec
=============================================================================

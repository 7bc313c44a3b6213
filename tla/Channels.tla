------------------------------ MODULE Channels ------------------------------
(***************************************************************************)
(* ChannelsService: tenants connect the pages and accounts they manage up  *)
(* to the limit of their plan, rename and remove them, write rules for     *)
(* them, and a daily cron renews the tokens that near their end.  Nothing  *)
(* is in a transaction: an action is the code between two awaits.          *)
(***************************************************************************)
EXTENDS Integers, Sequences, FiniteSets

CONSTANTS
    Tenants,
    NoTenant,
    Assets,          \* (platform, platformId) pairs: pages, accounts, bots
    NoAsset,
    Linked,          \* the Instagram account of a page, or NoAsset
    Expiring,        \* assets of Facebook and Instagram
    Offers,          \* the pages a callback may get from /me/accounts
    Rules,           \* rules the owners may write
    MaxConnections,  \* of the plan
    Requests,        \* API requests handled at the same time
    Crons,           \* runs of the daily cron
    RefreshAge,      \* days without an update after which a token is renewed
    TokenLife,       \* days a token is good for
    MaxRefusals,     \* bound on how often Graph refuses to renew one token
    MaxDay,          \* bound on the clock
    MaxRows          \* bound on the connections ever created

Handlers == Requests \cup Crons

ASSUME ChannelsAssumption ==
    /\ NoTenant \notin Tenants /\ NoAsset \notin Assets
    /\ Tenants # {} /\ Assets # {} /\ Requests # {} /\ Requests \cap Crons = {}
    /\ Linked \in [Assets -> Assets \cup {NoAsset}]
    /\ Expiring \subseteq Assets
    /\ Offers \subseteq Seq(Assets) /\ << >> \notin Offers
    /\ {MaxConnections, MaxRefusals, MaxDay, MaxRows} \subseteq Nat
    /\ RefreshAge \in Nat /\ TokenLife \in Nat
    /\ RefreshAge < TokenLife
    /\ IsFiniteSet(Assets) /\ IsFiniteSet(Requests)

VARIABLES
    \* PlatformConnection: tenantId, id (0: no row), isActive, the day its
    \* token was stored, and updatedAt
    owner, row, live, issued, updated,
    ruled,           \* AutoReplyRule rows of a connection
    everywhere,      \* AutoReplyRule rows whose connectionId has become null
    \* what happened so far
    written,         \* the rules ever written
    late,            \* those written between the two writes of a removal
    renamed,         \* assets renamed since their token was stored
    lasting,         \* assets whose token was good for TokenLife days when stored
    refused,         \* how often Graph has refused to renew the stored token
    rows, today, ran,
    \* the handlers
    pc, who, list, asset, grant, held, batch

connection == <<owner, row, live, issued, updated>>
rulesets == <<ruled, everywhere, written, late>>
tokens == <<renamed, lasting, refused>>
history == <<tokens, rows>>
time == <<today, ran>>
locals == <<who, list, asset, grant, held, batch>>
vars == <<connection, rulesets, history, time, pc, locals>>

\* What token a request brings: one typed in by hand, of unknown age or none
\* at all, or one of a login, which may have failed to exchange it for a
\* long-lived one.
Grants == {"none", "typed", "short", "long"}

PCs == {"idle", "find", "update", "limit", "create", "rename", "rmrules", "rmrow",
        "rule", "exchange", "store"}

RowsType ==
    /\ owner \in [Assets -> Tenants \cup {NoTenant}]
    /\ row \in [Assets -> Nat]
    /\ live \in [Assets -> BOOLEAN]
    /\ issued \in [Assets -> Nat] /\ updated \in [Assets -> Nat]
    /\ \A a \in Assets : row[a] = 0 <=> owner[a] = NoTenant

RulesType ==
    /\ ruled \in [Assets -> SUBSET Rules]
    /\ everywhere \subseteq Rules /\ written \subseteq Rules /\ late \subseteq Rules

HistoryType ==
    /\ renamed \subseteq Assets /\ lasting \subseteq Assets
    /\ refused \in [Assets -> Nat]
    /\ rows \in Nat /\ today \in Nat /\ ran \in BOOLEAN

HandlersType ==
    /\ pc \in [Handlers -> PCs]
    /\ who \in [Handlers -> Tenants \cup {NoTenant}]
    /\ list \in [Handlers -> Seq(Assets)]
    /\ asset \in [Handlers -> Assets \cup {NoAsset}]
    /\ grant \in [Handlers -> Grants]
    /\ held \in [Handlers -> Nat]
    /\ batch \in [Handlers -> SUBSET [asset: Assets, row: Nat]]

TypeOK == RowsType /\ RulesType /\ HistoryType /\ HandlersType

All(v) == [a \in Assets |-> v]
Everyone(v) == [h \in Handlers |-> v]

Init ==
    /\ owner = All(NoTenant) /\ row = All(0) /\ live = All(FALSE)
    /\ issued = All(0) /\ updated = All(0)
    /\ ruled = All({}) /\ everywhere = {} /\ written = {} /\ late = {}
    /\ renamed = {} /\ lasting = {} /\ refused = All(0) /\ rows = 0 /\ today = 0 /\ ran = FALSE
    /\ pc = Everyone("idle") /\ who = Everyone(NoTenant) /\ list = Everyone(<< >>)
    /\ asset = Everyone(NoAsset) /\ grant = Everyone("none")
    /\ held = Everyone(0) /\ batch = Everyone({})

-----------------------------------------------------------------------------
(* Moving through a handler                                                *)

At(h, l) == pc[h] = l
Goto(h, l) == pc' = [pc EXCEPT ![h] = l]

\* What a request is about: its tenant, its pages and the first of them.
Begin(h, l, t, pages, brings, read) ==
    /\ At(h, "idle")
    /\ Goto(h, l)
    /\ who' = [who EXCEPT ![h] = t]
    /\ list' = [list EXCEPT ![h] = pages]
    /\ asset' = [asset EXCEPT ![h] = Head(pages)]
    /\ grant' = [grant EXCEPT ![h] = brings]
    /\ held' = [held EXCEPT ![h] = read]
    /\ UNCHANGED batch

End(h) ==
    /\ Goto(h, "idle")
    /\ who' = [who EXCEPT ![h] = NoTenant]
    /\ list' = [list EXCEPT ![h] = << >>]
    /\ asset' = [asset EXCEPT ![h] = NoAsset]
    /\ grant' = [grant EXCEPT ![h] = "none"]
    /\ held' = [held EXCEPT ![h] = 0]
    /\ UNCHANGED batch

\* The row the handler has read, by its id.
Stands(h) == held[h] # 0 /\ row[asset[h]] = held[h]

OnPage(h) == asset[h] = Head(list[h])

Take(h, a, pages) ==
    /\ Goto(h, "find")
    /\ asset' = [asset EXCEPT ![h] = a]
    /\ list' = [list EXCEPT ![h] = pages]
    /\ held' = [held EXCEPT ![h] = 0]
    /\ UNCHANGED <<who, grant, batch>>

NextPage(h) ==
    IF Len(list[h]) <= 1 THEN End(h) ELSE Take(h, list[h][2], Tail(list[h]))

\* After a page, its Instagram account.
Connected(h) ==
    IF grant[h] # "typed" /\ OnPage(h) /\ Linked[asset[h]] # NoAsset
    THEN Take(h, Linked[asset[h]], list[h])
    ELSE NextPage(h)

\* An exception that is no ConflictException: the plan's limit ends the
\* callback's loop, others fail the callback, and for a linked account all of
\* them are swallowed.
Thrown(h) == IF OnPage(h) THEN End(h) ELSE NextPage(h)

-----------------------------------------------------------------------------
(* addConnection, upsertConnection and the callbacks                       *)

\* handleFacebookCallback, handleInstagramCallback, connectTelegram; a callback
\* goes on with the short-lived token when Graph does not exchange it.
Callback(h, t, offer) ==
    /\ h \in Requests /\ rows < MaxRows
    /\ \E brings \in {"short", "long"} : Begin(h, "find", t, offer, brings, 0)
    /\ UNCHANGED <<connection, rulesets, history, time>>

AddConnection(h, t, a) ==
    /\ h \in Requests /\ rows < MaxRows
    /\ Begin(h, "find", t, <<a>>, "typed", 0)
    /\ UNCHANGED <<connection, rulesets, history, time>>

FindExisting(h) ==
    /\ At(h, "find")
    /\ \/ /\ row[asset[h]] = 0
          /\ Goto(h, "limit")
          /\ UNCHANGED locals
       \/ /\ row[asset[h]] # 0 /\ (grant[h] = "typed" \/ owner[asset[h]] # who[h])
          /\ NextPage(h)
       \/ /\ row[asset[h]] # 0 /\ grant[h] # "typed" /\ owner[asset[h]] = who[h]
          /\ Goto(h, "update")
          /\ held' = [held EXCEPT ![h] = row[asset[h]]]
          /\ UNCHANGED <<who, list, asset, grant, batch>>
    /\ UNCHANGED <<connection, rulesets, history, time>>

\* The days of a bot's row are of no use to anybody and stay 0.
Touched(a) == updated' = [updated EXCEPT ![a] = IF a \in Expiring THEN today ELSE 0]

\* Graph is trusted only with what it has just exchanged.
StoreToken(a, kind) ==
    /\ issued' = [issued EXCEPT ![a] = IF a \in Expiring THEN today ELSE 0]
    /\ Touched(a)
    /\ renamed' = renamed \ {a}
    /\ lasting' = IF kind = "long" THEN lasting \cup ({a} \cap Expiring) ELSE lasting \ {a}
    /\ refused' = [refused EXCEPT ![a] = 0]

\* Seeded fault: the row is updated by its platform id.
UpdateByAsset(h) ==
    /\ At(h, "update")
    /\ IF row[asset[h]] # 0
       THEN /\ owner' = [owner EXCEPT ![asset[h]] = who[h]]
            /\ StoreToken(asset[h], grant[h])
            /\ Connected(h)
       ELSE Thrown(h) /\ UNCHANGED <<owner, issued, updated, tokens>>
    /\ UNCHANGED <<row, live, rulesets, rows, time>>

\* By id, tenantId included; isActive is left as it is.
UpdateConnection(h) ==
    /\ At(h, "update")
    /\ IF Stands(h)
       THEN /\ owner' = [owner EXCEPT ![asset[h]] = who[h]]
            /\ StoreToken(asset[h], grant[h])
            /\ Connected(h)
       ELSE Thrown(h) /\ UNCHANGED <<owner, issued, updated, tokens>>
    /\ UNCHANGED <<row, live, rulesets, rows, time>>

Owned(t) == {a \in Assets : owner[a] = t}

\* Seeded fault: one connection too many.
EnforceLimitLoosely(h) ==
    /\ At(h, "limit")
    /\ IF Cardinality(Owned(who[h])) > MaxConnections
       THEN Thrown(h)
       ELSE Goto(h, "create") /\ UNCHANGED locals
    /\ UNCHANGED <<connection, rulesets, history, time>>

EnforceLimit(h) ==
    /\ At(h, "limit")
    /\ IF Cardinality(Owned(who[h])) >= MaxConnections
       THEN Thrown(h)
       ELSE Goto(h, "create") /\ UNCHANGED locals
    /\ UNCHANGED <<connection, rulesets, history, time>>

\* (platform, platformId) is unique.
CreateConnection(h) ==
    /\ At(h, "create")
    /\ IF row[asset[h]] = 0
       THEN /\ rows' = rows + 1
            /\ row' = [row EXCEPT ![asset[h]] = rows']
            /\ owner' = [owner EXCEPT ![asset[h]] = who[h]]
            /\ live' = [live EXCEPT ![asset[h]] = TRUE]
            /\ StoreToken(asset[h], grant[h])
            /\ Connected(h)
       ELSE Thrown(h) /\ UNCHANGED <<connection, tokens, rows>>
    /\ UNCHANGED <<rulesets, time>>

-----------------------------------------------------------------------------
(* updateConnection: only the name, but updatedAt moves with every update  *)

AskRename(h, t, a) ==
    /\ h \in Requests /\ owner[a] = t
    /\ Begin(h, "rename", t, <<a>>, "none", row[a])
    /\ UNCHANGED <<connection, rulesets, history, time>>

Rename(h) ==
    /\ At(h, "rename")
    /\ IF Stands(h)
       THEN /\ Touched(asset[h])
            /\ renamed' = renamed \cup ({asset[h]} \cap Expiring)
       ELSE UNCHANGED <<updated, renamed>>
    /\ End(h)
    /\ UNCHANGED <<owner, row, live, issued, lasting, refused, rulesets, rows, time>>

-----------------------------------------------------------------------------
(* removeConnection: first the rules of the connection, then its row.  The *)
(* schema sets the connectionId of a rule that is left to null, and a rule *)
(* without one answers on every channel of its tenant.                     *)

AskRemove(h, t, a) ==
    /\ h \in Requests /\ owner[a] = t
    /\ Begin(h, "rmrules", t, <<a>>, "none", row[a])
    /\ UNCHANGED <<connection, rulesets, history, time>>

\* Seeded fault: the rules are left to the schema.
SkipRules(h) ==
    /\ At(h, "rmrules")
    /\ Goto(h, "rmrow")
    /\ UNCHANGED <<connection, rulesets, history, time, locals>>

RemoveRules(h) ==
    /\ At(h, "rmrules")
    /\ IF Stands(h) THEN ruled' = [ruled EXCEPT ![asset[h]] = {}] ELSE UNCHANGED ruled
    /\ Goto(h, "rmrow")
    /\ UNCHANGED <<connection, everywhere, written, late, history, time, locals>>

\* Seeded fault: a removed connection keeps its tenant.
RemoveRowSoftly(h) ==
    /\ At(h, "rmrow")
    /\ row' = [row EXCEPT ![asset[h]] = 0]
    /\ End(h)
    /\ UNCHANGED <<owner, live, issued, updated, rulesets, history, time>>

RemoveRow(h) ==
    /\ At(h, "rmrow")
    /\ IF Stands(h)
       THEN /\ owner' = [owner EXCEPT ![asset[h]] = NoTenant]
            /\ row' = [row EXCEPT ![asset[h]] = 0]
            /\ live' = [live EXCEPT ![asset[h]] = FALSE]
            /\ issued' = [issued EXCEPT ![asset[h]] = 0]
            /\ updated' = [updated EXCEPT ![asset[h]] = 0]
            /\ renamed' = renamed \ {asset[h]} /\ lasting' = lasting \ {asset[h]}
            /\ refused' = [refused EXCEPT ![asset[h]] = 0]
            /\ everywhere' = everywhere \cup ruled[asset[h]]
            /\ ruled' = [ruled EXCEPT ![asset[h]] = {}]
       ELSE UNCHANGED <<connection, tokens, everywhere, ruled>>
    /\ End(h)
    /\ UNCHANGED <<written, late, rows, time>>

-----------------------------------------------------------------------------
(* RulesService.create for a connection                                    *)

AskRule(h, t, a) ==
    /\ h \in Requests /\ owner[a] = t /\ written # Rules
    /\ Begin(h, "rule", t, <<a>>, "none", row[a])
    /\ UNCHANGED <<connection, rulesets, history, time>>

BeingRemoved(id) == \E h \in Requests : At(h, "rmrow") /\ held[h] = id

\* The foreign key refuses the rule of a row that is gone.
WriteRule(h) ==
    /\ At(h, "rule")
    /\ IF Stands(h)
       THEN \E r \in Rules \ written :
               /\ ruled' = [ruled EXCEPT ![asset[h]] = @ \cup {r}]
               /\ written' = written \cup {r}
               /\ late' = IF BeingRemoved(held[h]) THEN late \cup {r} ELSE late
       ELSE UNCHANGED <<ruled, written, late>>
    /\ End(h)
    /\ UNCHANGED <<connection, everywhere, history, time>>

-----------------------------------------------------------------------------
(* refreshExpiringTokens                                                   *)

Aged(a) == live[a] /\ a \in Expiring /\ updated[a] + RefreshAge < today

FetchAging(h) ==
    /\ h \in Crons /\ At(h, "idle") /\ ~ran
    /\ ran' = TRUE
    /\ batch' = [batch EXCEPT ![h] = {[asset |-> a, row |-> row[a]] : a \in {x \in Assets : Aged(x)}}]
    /\ Goto(h, IF batch'[h] = {} THEN "idle" ELSE "exchange")
    /\ UNCHANGED <<connection, rulesets, history, today, who, list, asset, grant, held>>

\* Graph answers with a new token, or refuses, times out or returns the same; a
\* row without a token is passed over as if it had refused.
Exchange(h) ==
    /\ At(h, "exchange")
    /\ \E c \in batch[h] :
          /\ batch' = [batch EXCEPT ![h] = @ \ {c}]
          /\ \/ /\ Goto(h, "store")
                /\ asset' = [asset EXCEPT ![h] = c.asset]
                /\ held' = [held EXCEPT ![h] = c.row]
                /\ UNCHANGED refused
             \/ /\ refused[c.asset] < MaxRefusals
                /\ refused' = IF row[c.asset] = c.row
                              THEN [refused EXCEPT ![c.asset] = @ + 1] ELSE refused
                /\ Goto(h, IF batch'[h] = {} THEN "idle" ELSE "exchange")
                /\ UNCHANGED <<asset, held>>
    /\ UNCHANGED <<connection, rulesets, renamed, lasting, rows, time, who, list, grant>>

\* Seeded fault: the renewed token is not written.
StoreNothing(h) ==
    /\ At(h, "store")
    /\ Goto(h, IF batch[h] = {} THEN "idle" ELSE "exchange")
    /\ asset' = [asset EXCEPT ![h] = NoAsset]
    /\ held' = [held EXCEPT ![h] = 0]
    /\ UNCHANGED <<connection, rulesets, history, time, who, list, grant, batch>>

\* An update of a row that is gone throws, and the loop goes on.
Store(h) ==
    /\ At(h, "store")
    /\ IF Stands(h) THEN StoreToken(asset[h], "long") ELSE UNCHANGED <<issued, updated, tokens>>
    /\ Goto(h, IF batch[h] = {} THEN "idle" ELSE "exchange")
    /\ asset' = [asset EXCEPT ![h] = NoAsset]
    /\ held' = [held EXCEPT ![h] = 0]
    /\ UNCHANGED <<owner, row, live, rulesets, rows, time, who, list, grant, batch>>

-----------------------------------------------------------------------------
(* The world                                                               *)

\* sendMessage is told that the token was revoked; nothing sets it back.
Revoke(a) ==
    /\ live[a]
    /\ live' = [live EXCEPT ![a] = FALSE]
    /\ Touched(a)
    /\ UNCHANGED <<owner, row, issued, rulesets, history, time, pc, locals>>

\* No request lasts over the hour of the cron, and the cron runs every day.
Tick ==
    /\ today < MaxDay /\ ran
    /\ \A h \in Handlers : At(h, "idle")
    /\ today' = today + 1
    /\ ran' = FALSE
    /\ UNCHANGED <<connection, rulesets, history, pc, locals>>

Ask(h) ==
    \E t \in Tenants :
       \/ \E offer \in Offers : Callback(h, t, offer)
       \/ \E a \in Assets : \/ AddConnection(h, t, a)
                            \/ AskRename(h, t, a)
                            \/ AskRemove(h, t, a)
                            \/ AskRule(h, t, a)

Handle(h) ==
    \/ FindExisting(h) \/ UpdateConnection(h) \/ EnforceLimit(h) \/ CreateConnection(h)
    \/ Rename(h) \/ RemoveRules(h) \/ RemoveRow(h) \/ WriteRule(h)
    \/ Exchange(h) \/ Store(h)

Next ==
    \/ \E h \in Handlers : Ask(h) \/ FetchAging(h) \/ Handle(h)
    \/ \E a \in Assets : Revoke(a)
    \/ Tick

Spec == Init /\ [][Next]_vars

-----------------------------------------------------------------------------
(* Properties                                                              *)

\* The limit of the plan is checked before the row is created: a request that
\* has passed the check counts as if it had its connection, and requests that
\* overlap exceed the limit by one each, never by more, whichever pages their
\* callbacks walk through (enforceConnectionLimit, 89).
Passed(t) == {h \in Requests : At(h, "create") /\ who[h] = t}
ConnectionsBounded ==
    \A t \in Tenants :
       Cardinality(Owned(t)) + Cardinality(Passed(t))
          <= MaxConnections + Cardinality(Requests) - 1

\* A page that is somebody's goes to another tenant only by a removal: no
\* callback of another tenant takes it over, also when it was removed and
\* connected again in between (upsertConnection, 213-226).
PageKeepsOwner ==
    [][\A a \in Assets : owner[a] # NoTenant => owner'[a] \in {owner[a], NoTenant}]_vars

\* A rule of one channel answers on all channels of the tenant only if it was
\* written while its channel was being removed (removeConnection, 186-192).
RulesGoWithChannel == everywhere \subseteq late

\* The cron comes to every token in time: what is stored is never older than
\* RefreshAge + 1 days and the days on which Graph refused, so that a token that
\* was long-lived when it was stored has not expired while the service believes
\* it good, unless Graph refused it up to its end.  By name excepted are the
\* tokens the service is wrong about: one typed in by hand or kept short-lived
\* because a login could not exchange it (not lasting), of which only the day it
\* was stored is known, and that of a channel renamed since, as every update of
\* a row counts as a renewal (refreshExpiringTokens, 786-795).
RefreshedInTime ==
    \A a \in Expiring \ renamed : live[a] =>
       /\ today - issued[a] <= RefreshAge + 1 + refused[a]
       /\ a \in lasting /\ refused[a] < TokenLife - RefreshAge
          => today - issued[a] <= TokenLife
=============================================================================

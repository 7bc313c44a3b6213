# Verification of Hubqa

Hubqa is a NestJS backend (`src/backend/src`) with a Next.js frontend
(`src/frontend/src`).  It receives the comments and messages of a tenant's
Facebook, Instagram, WhatsApp and Telegram channels, keeps them in an inbox,
answers them by rules, flows and AI, and sends broadcasts.  This directory holds
TLA+ modules of its core logic, the TLC configurations that check them and
proofs checked by TLAPS.

Two facts are behind most of the models.  The backend is a single Node process
(or several) over PostgreSQL through Prisma, almost nothing is in a
transaction, webhooks are handled concurrently, and two crons fire every minute
whether or not their previous run has ended: every `await` is a point where
another handler may run, and what a handler read before it may be stale after
it.  And the pages of the dashboard send requests without waiting for earlier
ones, and show whatever answer comes as if it were the latest: every answer is
a point where what is shown may stop being what is stored.  An action of the
models is the code between two awaits; what a handler keeps in a local variable
is state of that handler.

## The system

| component | state it keeps | operations | interacts with | what makes it correct |
|---|---|---|---|---|
| Webhook endpoint (`webhooks.controller.ts`) | `WebhookDeduplication` by request id | verify, receive | hands the body to the service, answers 200 whatever happens | an authentic event is handed over once |
| Webhook automation (`webhooks.service.ts`, Meta part) | dedup rows, `Conversation`, `Message`, `Subscriber`, `AuditLog`, `triggerCount`, `FallbackLog` | comment, private message, story reply; rule, flow, AI, fallback | Graph API, flow engine, AI, notifications | recorded at most once and lost in no way but two, answered by one source, the plan's quota and the 24-hour limit passed by overlap only |
| WhatsApp and Telegram ingestion (same file) | the same rows | message, status update | flow engine | stored once; who has a conversation is heard |
| Flow engine (`flows/`) | `FlowExecution`, its log, tags of a `Subscriber` | start, walk, pause, cron resume, save | Graph API, quota rows, connections | one walker, no step twice, nothing stuck RUNNING |
| Broadcasts (`broadcasts/`, its page) | `Broadcast.status`, `sentCount` | create, schedule, execute, cancel, cron | inbox, channels, subscribers | one copy per contact, final states final, nothing stuck SENDING |
| Inbox (`inbox/`, its page) | `Message`, status, assignment; the chat, the list and the header shown | send, assign, read, list | Graph, Telegram, sockets | every message listed once and as stored |
| Channels (`channels/`, their page) | `PlatformConnection` with tokens; cards, webhook words, dialogs | connect, remove, refresh tokens, check and repair webhooks | Graph, plan limits | the plan's limit, a page belongs to one tenant, rules end with their channel, long-lived tokens are renewed before they end |
| Rules (`rules/`, their page) | `AutoReplyRule`; dialog, list, selection | create, edit, clone, toggle, delete, bulk | | a rule is never overwritten by another |
| Flow editor (`flows.service.ts`, its page) | `Flow` with nodes and edges; the drawing | draw, save, open, delete, drip wizard | flow engine | what is drawn is what is stored |
| Subscribers (`subscribers/`, their page) | tags of a `Subscriber`; list, filters, drawer | list, tag | flow engine | no tag lost |
| Plan limits (`common/plan-limits.ts`) | none | look up | everything counted | |
| Graph client (`common/graph-api-*.ts`) | none | request with retries, error classes | Meta | no repetition of what was answered; ends in time |
| Authentication (`auth/`, the pages outside the dashboard, `auth-context.tsx`, `api.ts`) | `User`, codes, reset tokens; the browser's session | register, verify, log in, reset, guard, log out | mail | codes and links serve once; a tab acts for whom it shows |
| Team (`team/`) | `TeamInvitation`, `TenantMember` | invite, accept, cancel, role, remove | mail | one owner, an invitation serves once |
| Administration (`admin/`, its page) | `Tenant`, `User`; tables, drawer, letters | suspend, plan, delete, announce | mail | an administrator stays, a workspace has its owner |
| Public API and keys (`public-api/`, developer tab) | `ApiKey`, counts in memory, webhook secret | make, revoke, admit | | key limit, rate limit, the secret shown is the one that signs |
| Platform settings (`settings/`) | rows and a copy in memory | read, save | | the copy is what is stored |
| Keyword matching, Telegram API, encryption, SSRF guard, media, mail, dashboard statistics | none of consequence | | | |

The behaviours that are hard to test are listed with their lines in
`PROJECT.json` under `hazards`.  They come in six families:

* check, then await, then act (quota, 24-hour limit, contact limit, broadcast
  status, dedup row, key limit), by two handlers at once;
* several writes without a transaction, one of which fails;
* a row kept across an await and used stale (the cron's batch, the tag list, the
  purchase-intent flag, the saved variables of a flow);
* a platform that delivered although the call reported a failure;
* a process that dies between two writes, with no recovery but the crons;
* a page that shows answers in the order they come, or writes a form over what
  somebody else stored meanwhile.

## The modules

`AutoReply.tla` - one handler per delivered event, with a program counter whose
labels are the awaits of `processComment`, `processPrivateDM`,
`handleStoryEvent` and what they call.  An event has a kind, a customer and
an optional id (an event without one is not deduplicated).  Rules are records of
the fields that steer control: their trigger, sequence length or legacy fields,
whether they send private messages.  Texts, media and templates are left out;
a keyword either matches or not, which is part of the event.  Time is a clock
that `Tick` advances, with three windows (hour, 24 hours, month).

`FlowEngine.tla` - `processEvent` and `startExecution` by hooks, the walk of
`runSteps` with every step type, `resumeDueExecutions` by crons that overlap.
The flow is a graph the owner may replace at any time (`SaveFlow`); a
handler walks the graph it read.

`Broadcasts.tla` - `BroadcastsService` with the part of `InboxService` it sends
through.  `Campaign.tla` is what it promises the owner: a draft is scheduled,
sent and finished, each contact of its audience gets a copy at most once, a
cancelled or sent campaign is final.

`Channels.tla` - connecting by a callback (a list of pages, each followed by
its Instagram account) or by hand, renaming, removing, rules written meanwhile,
and the daily renewal of tokens, whose time is a day counter.

`GraphClient.tla` - `graphApiRequest` with its attempts, waits and error classes,
and the two requests of a publication.  `RemoteCall.tla` is what its callers rely
on: a report is final, "done" is reported only of what Meta did, and at most three
copies exist.

`Ingest.tla` - the endpoint's ledger of request ids and the handling of WhatsApp
posts and Telegram updates by overlapping requests, repeated, failing and cut
short.  `Team.tla` and `Accounts.tla` - invitations, roles and removals;
registration, codes, reset links, passwords; by overlapping requests.
`Administration.tla` - administrators, suspensions, deletions.  `PublicApi.tla` -
keys and the guard with its window.  `PlatformSettings.tla` - the rows and the
copy in memory.

The pages, each with the service behind it and answers that come in any order or
not at all: `LiveInbox.tla` (a chat, the message being sent, the socket),
`ConversationList.tla` (tabs, filters, status, assignment, the header),
`RuleEditor.tla` (list, dialog, selection, bulk requests), `MessageSequence.tla`
(the objects the dialog of the rules page shares with the row it lists),
`FlowEditor.tla`, `Subscribers.tla`, `ChannelPage.tla`, `CampaignPage.tla`,
`AdminConsole.tla`, `Preferences.tla` and `DeveloperTab.tla` (the settings page),
and `Sessions.tla` (the session all tabs of a browser share, the guard of the
dashboard, the interceptors of every request, the forms outside the dashboard).

`MC_Services.tla` puts the parts of the last two paragraphs, and GraphClient, in
one instance.  They share no row, no variable and no call, so interleaving them
would add nothing: `part` says whose behaviour is being explored, and the others
rest.  What two components do share is in one module: the channel and its rules,
a broadcast and the inbox it sends through, the page and its service.

`Selection.tla` is what `filter` makes of a list, for the inbox page.

`MC_*.tla` give the constants values that a configuration cannot write.
`*_proofs.tla` hold theorems.

Some modules define an operator next to an action with the comment "Seeded
fault".  It is the action with a plausible mistake and is not part of the
specification; it is there to show that a property notices the mistake.

How the state of each module corresponds to the code:

| module | variables | code |
|---|---|---|
| AutoReply | `dedup`, `conv`, `inbound`, `auditLog`, `triggerCount`, ... | the Prisma tables the webhook service writes |
| | `pc` and the variables grouped in `locals` | the await a handler is suspended at, and its local variables |
| | `answers`, `alerts`, `deliveries` | history: what customers and the owner got, what Meta delivered |
| | `beaten`, `cut`, `offGate` | history: the events that properties except by name |
| FlowEngine | `execution`, `tenant`, `logs` | `FlowExecution`; steps, contacts and connection; audit, step log and message rows |
| | `outside` | history: what customers and the team received |
| Broadcasts | `status`, `due`, `sentCount`, `conv`, `tenant` | `Broadcast`, `Conversation`, `PlatformConnection` |
| | `received`, `executions` | history: the copies each contact got, how often execute() began sending |
| Channels | `connection`, `ruled`, `everywhere` | `PlatformConnection`; `AutoReplyRule` with and without a connection |
| | `written`, `late`, `renamed`, `lasting`, `refused` | history |
| GraphClient | `call` | the locals of a call; `acted`, `unheard`: history at Meta |
| Ingest | `requests`, `ledger`, `contacts`, `threads`, `inbox` | `WebhookDeduplication`, `Subscriber`, `Conversation`, `Message` |
| Team, Accounts, Administration, PublicApi | `member`, `invitation`; `user` and link rows; `recs`; `issued` | their tables; `request` and the like: the locals of a handler; `bucket`: `requestCounts` |
| PlatformSettings | `setting`; `cached`, `copy` | `PlatformSetting`; the service's `cache` |
| the pages | what is named after a `useState` | that state of the component; a request is a record with where it is (`sent`, `answered`) and what it carries |

## What the runs check

Every run is over a small instance that TLC exhausts.  "race" and "faults" runs
have two handlers, because most of the disagreements need two; "serial"
runs have one, because the property is promised only without overlap.

| run | instance | what it shows |
|---|---|---|
| `AutoReply_race` | 2 handlers; a comment, a message, a story reply of one customer and the page's own comment; a rule with a public reply and two private messages; flow, AI and fallback on; handlers may die; 1 reply per hour; clock 0..1 | types; an answer never precedes the row of its event; the hourly quota is exceeded by overlap only, and by no more than what was in flight; one source answers an event; `triggerCount` agrees with the audit log |
| `AutoReply_fair` | 2 handlers that may be cut short; first messages of three customers, one without an id, one identified and delivered twice; a flow that answers and charges; a quota of one; room for one contact; suspension | an identified event is recorded and charged at most once; the contact limit is exceeded by overlap only; a delivered event is recorded in the end, or it is one of the two losses listed below, or its handler died before claiming it, so that the next delivery starts over |
| `AutoReply_gate` | 2 handlers that may be cut short; two comments and a story reply of a new customer, a sequence rule and a legacy rule, time-outs after delivery, a window of one tick and a clock of 0..1 | the handlers bring one event each past the 24-hour gate, and no more, of those the gate can see; a claimed event is recorded, but for the handler that died between the two rows and for those beaten to the conversation, fewer than the handlers |
| `Broadcasts_faults` | 1 cron, 1 request, a known and an unknown contact, 1 rejected call or crash, 1 removal of the channel | types; one copy per contact and execution; `sentCount` never exceeds the contacts who got a copy |
| `Broadcasts_serial` | one actor that is cron and request by turns, two broadcasts, 1 removal | the service implements `Campaign` |
| `Broadcasts_fair` | 1 cron, 1 request, no faults | nothing stays SENDING unattended; a due broadcast is executed or parked; an execution ends |
| `Broadcasts_parked` | 1 cron, 1 request, 1 contact | *violated*: see the disagreements |
| `FlowEngine_fair` | 2 executions (a message, a comment), 2 crons, flows with a cycle and with no step, the channel removed at any time | RUNNING means somebody walks; final states are final; every walk ends; what is due is resumed |
| `FlowEngine_faults` | 1 execution of a commenter, 2 crons, flows with two waits, tags, other step ids, 1 fault | types; one walker; a reply is charged before it is delivered and charged once, and a comment gets at most one private reply |
| `FlowEngine_repeat` | 2 executions, 2 crons, a flow with two waits | *violated* |
| `Channels_race` | 2 tenants, 2 requests, a page and its Instagram account, both with tokens that end; logins that exchange the token or fail to, tokens typed in; a plan of 1 connection, 1 rule, 2 rows, days 0..2, one refusal per token | types; the limit is exceeded by overlap only; a page changes hands only by a removal; a rule outlives its channel only if written during the removal; the cron comes to each token in time, and one that was long-lived when stored ends only if Graph refused it to the end |
| `Services` | nineteen parts, one at a time: two requests, tabs or administrators, two rows, 1 failure, lost answer, restart or stranger's change in each | see below |

The properties of `Services`, each the conjunction of what the parts promise:

* `CallsBounded`, `RemotePromise` (GraphClient): a job is done once more only for
  an attempt that was not heard of; a call ends within its attempts and waits; the
  client implements `RemoteCall`.
* `RecordedOnce`: a WhatsApp or Telegram message is stored once and its customer
  once per request that looked for him; a campaign is sent once and a cancelled one
  not at all, up to the overlaps named; an administrator's letter goes to the
  workspace it shows, an announcement once to each user per answer.
* `KnownCustomerHeard`: whoever has a conversation is heard.
* `MailedSecretsServe`: invitations, codes and reset links serve once, and serve:
  two requests with one link, two codes one of which replaces the other, a code
  mailed by the slower of two requests.
* `CopyIsStored`: the settings in memory are those stored.
* `PagesTruthful`: each page, once nothing is on its way, shows what is stored, up
  to exceptions that are named where the property is stated; each exception is
  needed (without it TLC finds a violation).  That of the inbox is the last of its
  list below: a list of a chat that was left replaces that of the open one.
* `NothingOverwritten`: a save never replaces one thing by another: a flow by a
  different drawing, a rule by one that was begun as new, tags, settings, a webhook.
* `Governed`: the platform keeps an administrator, a workspace its owner; a tab
  acts for the person it shows.
* `ApiLimits`: the key limit is exceeded by overlap only, and over a stretch as
  long as a window fewer than two budgets pass, or one more per restart.  With a
  budget of 2 the burst at the boundary of two windows is met: the bound is reached.

Why these bounds are enough to meet the interesting cases: a quota, contact
limit or plan of 1 or 2 is reached and overrun by two handlers; windows of 1
and 2 ticks under a clock of 1 let an answer be inside and outside of a window; a
redelivery needs 2 deliveries; an event lost to another handler, or a gate that two
pass, needs two events of one customer at two handlers; a stale claim needs a flow
with two waits; a page taken over needs 2 rows; a renewal that is refused once and
still in time needs 3 days; two passwords by one link, or a code that replaces
another, need 4 passwords and codes; a burst on both sides of a boundary needs a
budget of 2; crossing answers need 2 requests; an answer for another row needs 2
rows; a second save over a lost one needs a second click.

`MaxClock`, `MaxDay`, `MaxDeliveries` (per event), `MaxSchedules`, `MaxRemovals`,
`MaxFaults`, `MaxRows`, `MaxRefusals` (per token) and, in the parts of `Services`,
the constants beginning with `Max` that their modules mark as bounds cap what the
environment does and nothing in the code.  In ConversationList, RuleEditor,
ChannelPage and CampaignPage the bound on the user's acts includes what goes wrong.
Two configurations have one more bound each, a CONSTRAINT, which the theorems do
not have.  In `Services` (`OverlapUntilFailure`), in the five parts where any
request may fail at any await (team, accounts, administration, the inbox page, the
administrators' page), requests overlap until one fails and come one at a time
after it; so do those of the public API after a restart; and no session is over
any more when a third password or code is made.  In `Channels_race`
(`OverlapAtFirst`) requests overlap on the first day, come one at a time beside the
cron on the second, and the last day is the cron's.  Deadlock is not checked: an
idle backend with no event left and its clock at the bound stops rightly.

## Fairness

`FairSpec` of a module gives weak fairness to `Handle(h)`, the next step of
handler h, and to the fetch of the cron.  The code justifies it: a promise that
is awaited settles (every call of Graph has a 15-second timeout and at most two
retries, `TimeBounded`; Prisma settles or throws), the event loop runs what is
ready, and `@Cron(EVERY_MINUTE)` fires for ever.  Nothing obliges Meta to deliver,
an owner to click, a clock to pass or a channel to return; the liveness properties
start from what has happened (an event *delivered*, a broadcast *due*).  Those of the
crons are checked without crashes, as the crons resume nothing that was RUNNING or
SENDING when the process died; `EventuallyRecorded` is checked with handlers that die
anywhere, and names what is lost by it.  `Services` states no liveness: no part of it promises
any, a request that is not answered is simply over.

## Where code and documentation disagree

The runs with a violation state a sentence of the repository and show a
behaviour against it; `PROJECT.json` has the details under `findings`.

* `Broadcasts_parked` - the cron parks as DRAFT whatever its `execute` refuses,
  a broadcast that was cancelled or sent in between included.
* `FlowEngine_repeat` - the claim of the cron tests only PAUSED: an execution
  that another run resumed and parked again is walked from the old step.

Others are known from the modelling and have no run of their own; the properties
name them as exceptions, or are checked where they cannot occur.

Webhooks, flows, broadcasts, channels:

* the row that claims an event is written before the work
  (`webhooks.service.ts:570`, 1309): a handler that dies or throws after it loses
  the event, since every redelivery is taken for a repetition; and when two first
  events of a customer meet, the loser of the unique conversation (701, 1365) throws and
  its event is lost as well (`NoSilentLoss` names both, and that there is no third);
* handlers that overlap pass the 24-hour gate together, one event each
  (`OneTriggeredDm`), and the private text or media of a legacy rule does not ask it
  (1797-1943); nor does the gate see a message that was delivered by a call that
  timed out, or whose handler died before it wrote the row;
* the buying-intent alert is tested on a stale row (`webhooks.service.ts:1033`);
  the fallback text writes no quota row and no signature that its own guard looks
  for (1284);
* `applyTag` writes back the whole list it read (`flow-engine.service.ts:480`); the
  comment id is not among what a paused execution saves (200-202, 298-303,
  378-385), so the first private reply after a pause goes to a recipient Meta does
  not accept; the drip wizard saves a trigger without `nextStepId`, and such a flow
  never starts (106, 127);
* two executions of a broadcast may both read DRAFT (`CampaignPromise`, one
  actor), and an exception outside the try of the loop leaves it SENDING
  (`NeverStuck`, no faults);
* a failure between the creation of a flow execution and its walk leaves it
  RUNNING (`RunningIsAlive`, no faults);
* renaming a channel counts as a renewal of its token, and reconnecting a revoked
  channel does not make it active (`RefreshedInTime` speaks of channels that are
  active and not renamed); a token that a login could not exchange is stored
  short-lived (`channels.service.ts:276-287`, 417-425), one typed in is of unknown
  age (159-170), and both are taken as good for 50 days from the day they are
  stored; the tokens of a direct Instagram login are renewed at Facebook's endpoint
  (808) instead of their own, which the model treats as a Graph that may refuse; connecting Telegram reports success though `setWebhook`
  failed; removing a channel leaves Meta's subscription;
* a wait after a rate limit is capped at 30 seconds where a comment counts on the
  20 seconds a webhook has (`graph-api-client.ts:173-176`); a publication whose
  container is answered without a body is reported as done.

Accounts, team, administration:

* sessions survive a change of the password (`jwt.strategy.ts:44-47` and
  `cross-feature.e2e-spec.ts:1069-1074` say otherwise: the token carries no
  signature of it); logging out is local to the browser; a late 401 of an old
  request clears a newer session of all tabs; a stale tab writes its user beside
  another person's token;
* an expired invitation is refused as "active"; assignments of people who left
  stay; an administrator can delete his own workspace; the page of the
  administrators sends a name that is ignored and a notification that has no
  endpoint, lets a late answer turn the drawer of another workspace, and reports a
  letter in another workspace's drawer; a letter or announcement sent again after
  a lost answer is mailed twice.

Pages of the dashboard:

* inbox: a list of a chat that was left, when it comes after that of the open one,
  replaces it and stays (`page.tsx:307-311`: the answer is not compared with the open
  chat), and a list that fails to come leaves the former chat's under the new header;
  skipped events need a refresh although the comment (283-287) says not; an
  answer to a status or assignment change is shown in whichever chat is open
  (205-243); an error of the list stays (253, 619); "mark as read" writes nothing,
  so the badge of an open conversation stays; a draft is kept when another chat is
  chosen, and the reply mode is that of the messages still shown;
* rules: the dialog edits cards and quick replies of the listed row in place
  (514-520, 1388-1606), so they stay after "cancel"; bulk actions act on rows a
  filter hides; "cancel" keeps the rule being edited; cleared media, sequences and
  quick replies are not stored as cleared; saving activates; a clone loses its
  channel;
* subscribers: a list may be that of older filters; a tag is saved by writing the
  whole list; a drawer may be replaced by that of another customer;
* broadcasts: the channel chosen is not sent; SENDING looks like a draft;
  cancelling while it is being sent ends as SENT;
* channels: a check and a repair may run together; an answer closes whatever
  dialog is open; the error banner of a callback appears though some pages were
  connected;
* settings: when loading fails, saving stores the defaults; saving one name drops
  what was typed for the other; loading the developer tab replaces a typed webhook
  URL; a lost answer leaves the old signing secret on the screen; the button for
  language and time zone does nothing.

## What is proved

Theorems hold for every value of the constants that satisfies the assumptions of
the modules: any number of handlers, events, customers, executions, requests, any
flow, any plan, window and clock.  TLC first checked every invariant the proofs
use.  Every theorem below is `Spec => []P` (or `Spec => P` for an action property)
of a property P some run checks, and every property of every passing run has one,
but for the five liveness properties.

What a part of `Services` promises is proved from that part's own actions.  The
lemmas are in three modules, each about parts that have no variable in common:
`Parts_proofs` (settings, calls, keys, administrators, members, accounts, sessions,
channels page, inbox, conversations), `Records_proofs` (ingestion, campaigns,
administrators' page) and `Edits_proofs` (flow editor, rules, sequences,
subscribers, settings page).  For an invariant XInv of a part they prove that
`Init` of the part gives it, that `XInv /\ [Next]_vars => XInv'` - one lemma per
action, under it one step per conjunct the action can disturb - and that it gives
what the part promises.  `Services_proofs` composes them: a step of the
composition is one of the part or leaves it alone (the lemmas called `...Rest`).

| theorem | property | inductive invariant, and what it adds |
|---|---|---|
| **AutoReply_proofs** | | |
| `TypeCorrect` | `TypeOK` | itself, one lemma per group of variables |
| `ExactlyOnce` | `AtMostOnce` | `OnceInv`: a handler past the ledger owns its event, nobody else works on it, and it is neither recorded nor charged before its owner's write; the unique key of the ledger carries it |
| `InboxFirst` | `RepliesFollowInbound` | `AnsweredInv`: a handler at a send has its event in the inbox |
| `QuotaHolds` | `QuotaOvershoot` | `QuotaInv`: the rows of each window and the handlers between `hasReplyQuota` and their row, counted together, stay below the limit plus the number of handlers less one: only the admission raises the sum |
| `ContactsHold` | `ContactsBounded` | `ContactInv`, `AddingInv`: the unique conversation lets one handler per customer look for the contact; adders count as contacts |
| `LedgerHolds` | `TriggerLedger` | itself, with the types: counter and rows differ by the handlers between the two writes |
| `SingleSource` | `OneSource` | `SourceInv`, from `OnceInv`: before the first send the event has no answer, and while a rule sends all answers are that rule's.  Assumes that Graph reports what it delivered (`MayTimeout = FALSE`): after a time-out the code does go on to the next source |
| `ClaimedIsRecorded` | `NoSilentLoss` | `LossInv`: the owner of a claimed event is on its way to the row, and one that stops before it is counted as cut short or beaten; `BeatInv`: once a customer's conversation exists, the events beaten to it and those of handlers still about to create it are together fewer than the handlers.  No hypothesis: the two losses are the disagreements above |
| `OneTriggerADay` | `OneTriggeredDm` | `DmInv`: every triggered message is behind the customer's last row or has a handler about to write it, and whoever may send has found none within the window, so the events behind the messages of a window are counted with the handlers past the gate.  No hypothesis: the events the gate cannot see are excepted by name (`offGate`) |
| **FlowEngine_proofs** | | |
| `TypeCorrect` | `TypeOK` | `Typed`, `OnStep`: a walk is on a step of the flow it read |
| `OneWalkerAtATime` | `OneWalker` | `WalkInv`: who walks an execution walks it alone, one that is being created has one creator, what was fetched exists; the conditional update of the claim carries it |
| `LawfulSends` | `SendsAreLawful` | `PaidInv` (a walker past the charge has charged once, one before it never) and `ReplyInv` (who still holds the comment id has not used it, nor has anybody) |
| `NeverAbandoned` | `RunningIsAlive` while `faults = 0` | `AliveInv` with `BusyInv`: RUNNING has exactly one handler busy with it |
| `EndIsFinal` | `Lifecycle` | the same invariant.  Assumes `MaxFaults = 0`: the cron's catch may otherwise fail an execution another handler has completed |
| **Broadcasts_proofs** | | |
| `TypeCorrect` | `TypeOK` | itself |
| `NoSecondCopy` | `OneCopyPerExecution` | copies, handlers that still owe one and the executions begun are counted together (`Budget`) |
| `CountIsHonest` | `SentCountHonest` | `Tally`: what a run has counted are customers who got a copy; needs the finiteness of the audience |
| `NotLeftSending` | `NeverStuck` | `Calm`.  Assumes no fault, no removal and a conversation with every contact, the cases in which the code does leave SENDING behind |
| `SerialRefinement` | `CampaignPromise` | the service implements `Campaign`: `SerialInv` says of the one actor where in `execute()` the row's state and each contact's copy are; every step maps to a step of `Campaign` or a stutter.  Assumes one actor and no fault; with two, TLC shows `Broadcasts_parked` |
| **Channels_proofs** | | |
| `WellTyped` | `TypeOK` | `Inv`: a request at work has a tenant and a page, ids are never reused, the row a callback holds is its tenant's |
| `KeptByOwner` | `PageKeepsOwner` | the same: the update after the unprotected read names the row by id, and an id does not come back |
| `RulesFollowChannel` | `RulesGoWithChannel` | `RuleInv`: between the two writes of a removal the channel has only late rules |
| `LimitHolds` | `ConnectionsBounded` | a request past the check counts as a connection: only the check raises the sum |
| `TokensRefreshed` | `RefreshedInTime` | `FreshInv`: the age of a token, the refusals it has met and the days the daily run is behind are bounded together, whatever token it is; that it has not ended follows only for one that was long-lived when it was stored |
| **Services_proofs** | | |
| `CopyStored` | `CopyIsStored` | `CopyInv`: a reader that no save has overtaken holds what is stored |
| `CallsWithin` | `CallsBounded` | `GraphInv`: acts are bounded by attempts nobody heard of, time by the stage |
| `RemoteImplemented` | `RemotePromise` | the Graph client implements `RemoteCall`, from `GraphInv` |
| `LimitsHold` | `ApiLimits` | `ApiInv`: requests past the count of keys are counted as keys; what a window has admitted is bounded by the counter, and what an earlier one admitted by its budget, of which the request that opened it has left the stretch by the time the next opens |
| `KnownHeard` | `KnownCustomerHeard` | `KnownInv`: a heard item that is not in the inbox is still to come in some request's post, or is the item that request is storing |
| `RecordedHolds` | `RecordedOnce` | `OnceInv` (at most one request is between the claim of a message and its row, none once it is stored) and `ContactInv` (customers stored and requests that looked for one and found none are counted together, so are welcomes); `CampaignInv` (a campaign that was not doubled has one request in hand, and what was sent is marked so; of one cancelled in quiet there is none; campaigns made are bounded by answers lost); `ConsoleInv` (announcements sent and requests that owe one are counted together, and what left is bounded by what was typed and what answers were lost) |
| `MailedServe` | `MailedSecretsServe` | `TeamInv` (requests carry what they have read of the invitation; acceptances under way and members made are counted together; closing comes last) and `SecretInv` (a code about to be mailed is in the row or a newer one is; a link not yet marked has set no password) |
| `GovernedHolds` | `Governed` | `AdminInv` (a deletion has read all its user owns, and reaches the user when none of it is left), `TeamInv`, and `SessionInv` (a tab that has missed nothing shows the session of the store; unless the session began beside other requests, every request on its way carries its token) |
| `OverwritesHold` | `NothingOverwritten` | `DrawingInv` (a tab, a save and an answer that name a flow have its drawing), `TopicInv` (the same of a rule's dialog), `TagsInv` (the list, the drawer and the request that writes tags hold what is stored, or the change they missed is named), `PrefInv` (a pane holds what it read or what was typed), `HookInv` (a tab that knows of no change shows the url that is stored, and so does the load on its way) |
| `PagesHold` | `PagesTruthful` | per page, what is shown and what each answer on its way will show differ from what is stored only by events still under way: those above and `MailInv`, `RollInv`, `DesksInv`, `DeskInv`, `NamesInv`, `DrawnInv` (a tab that waits for a save shows what the save carries; a branch has one connection), `RollOfRules`, `TableInv`, `TalkInv`, `PageInv`, `ListingInv`, `ThreadsInv`, and `SeqInv`: what the dialog may write refers only to what it may write, and is part of no template and of no row it was not opened for |
| `TypesHold` | `ServicesTypeOK` | the invariants above, which carry most types, and those that say what is counted stays within its bound and what is numbered was given (`...Within`, `...Typed`) |

Hypotheses such as one actor, `MaxFaults = 0` or `MayTimeout = FALSE` (the last in
`SingleSource` alone, of the webhooks) appear only where the property is false without them; the run that checks the property has
the same restriction, and the disagreements above say what happens otherwise.
Assumptions on constants are those of the modules (`...Assumption`), which TLC
evaluates on every run: finiteness of the sets that are counted, bounds that are
numbers, and what a name cannot be (a reset link is no six-digit code).

What the attempts found in the model: `SessionStands` was not inductive, since
`burdened` is reset when somebody signs in again while `ousted` was not; a
forgotten session is now recorded with whether it was burdened, and the property
is stronger.  The
answer to the mailed link is remembered as lost (`untold`) wherever a page that
waits for it is left: it was not, when the tab was closed.  The walk of FlowEngine,
the settings' readers, the requests of the team, the tabs of the conversations and
the posts of ingestion needed assumptions that were tacit (finite sets, bounds that
are numbers, names that are no rows); they are now stated in the modules.
Ingestion bounded what is posted by a fold over the posts; it counts deliveries
now, a set, and means the same.  `LetterOfOne` said nothing of how many letters
leave; it does now.  MessageSequence named an object by the next free number, which
made "the dialog writes only in objects it may" a matter of history; an object is
now known by when and as what it was made, and the invariant says of every row
and template which objects it is made of.  And `ServicesTypeOK` was a CASE over the
part being explored; it is the conjunction of the types of the parts, each where
the part is explored.

Only model-checked:

* the liveness properties `EventuallyRecorded`, `WalkEnds`, `DueIsResumed`,
  `DueIsTaken`, `SendingEnds`: fairness and ENABLED are beyond the prover;
* the two properties that are violated, for the reason given.

No theorem depends on a recursive definition.  `SelectSeq` is one, so the inbox
selects the entries of a list by their places (`Selection`), which the proofs
reason about by counting.  What a fold over a sequence computes for every input would need induction over
data; the proofs use only what one step of it does.

## What is not modelled, and why

* The contents of messages, templates, media and prompts, and the pure function of
  strings that matches keywords: no property reads them.
* Encryption, the SSRF guard, file storage, mail templates, statistics, the
  dictionaries, the landing page, the layout and the general components of the
  frontend: stateless, pure I/O, or without a state that matters here.
* Of the inbox, notes, tags and canned replies; of the rules page, its search,
  filters, post picker, test trigger and logs; of the flow editor, a step's
  configuration and a flow's switch; of the team page, everything: lists and forms
  over single requests.
* Deleting a flow under its executions, its statistics, and which flow an event
  matches (any may).
* In Channels, the OAuth exchange and state, publishing and the ENTERPRISE plan
  without a limit.  A day ends only between requests.

## Plan

Done: the modules above, their runs, and a theorem for every safety and action
property of every passing run.  Left:

1. Liveness stays with TLC (see above).  It would gain from runs with three handlers,
   which are beyond the time a run is given here.
2. The parts of the code the inventory leaves out: keyword matching and templates
   are functions of texts, which these models abstract.
3. The parts marked "partly" name in `PROJECT.json` which operations are left.

--------------------------- MODULE Services_proofs ----------------------------
(* The theorems about the composition MC_Services: every behaviour of it is a *)
(* behaviour of one part while the others rest, so that what the modules of   *)
(* the parts' proofs show of a part holds of the whole.                       *)
EXTENDS MC_Services, Parts_proofs, Records_proofs, Edits_proofs

-----------------------------------------------------------------------------
(* A step of the composition is one of a part, or leaves it alone.              *)

LEMMA SettingsRest == [ServicesNext]_servicesVars => [SettingsNext]_settingVars
<1>1. ServicesNext => [SettingsNext]_settingVars
  BY DEF ServicesNext, OthersRest
<1>2. UNCHANGED servicesVars => UNCHANGED settingVars
  BY DEF servicesVars
<1>3. QED
  BY <1>1, <1>2

LEMMA GraphRest == [ServicesNext]_servicesVars => [GraphNext]_gvars
<1>1. ServicesNext => [GraphNext]_gvars
  BY DEF ServicesNext, OthersRest
<1>2. UNCHANGED servicesVars => UNCHANGED gvars
  BY DEF servicesVars
<1>3. QED
  BY <1>1, <1>2

LEMMA ApiRest == [ServicesNext]_servicesVars => [ApiNext]_apiVars
<1>1. ServicesNext => [ApiNext]_apiVars
  BY DEF ServicesNext, OthersRest
<1>2. UNCHANGED servicesVars => UNCHANGED apiVars
  BY DEF servicesVars
<1>3. QED
  BY <1>1, <1>2

LEMMA AdminRest == [ServicesNext]_servicesVars => [AdminNext]_adminVars
<1>1. ServicesNext => [AdminNext]_adminVars
  BY DEF ServicesNext, OthersRest
<1>2. UNCHANGED servicesVars => UNCHANGED adminVars
  BY DEF servicesVars
<1>3. QED
  BY <1>1, <1>2

LEMMA TeamRest == [ServicesNext]_servicesVars => [TeamNext]_teamVars
<1>1. ServicesNext => [TeamNext]_teamVars
  BY DEF ServicesNext, OthersRest
<1>2. UNCHANGED servicesVars => UNCHANGED teamVars
  BY DEF servicesVars
<1>3. QED
  BY <1>1, <1>2

LEMMA AccountsRest == [ServicesNext]_servicesVars => [AccountsNext]_accountVars
<1>1. ServicesNext => [AccountsNext]_accountVars
  BY DEF ServicesNext, OthersRest
<1>2. UNCHANGED servicesVars => UNCHANGED accountVars
  BY DEF servicesVars
<1>3. QED
  BY <1>1, <1>2

LEMMA SessionsRest == [ServicesNext]_servicesVars => [SessionsNext]_sessionVars
<1>1. ServicesNext => [SessionsNext]_sessionVars
  BY DEF ServicesNext, OthersRest
<1>2. UNCHANGED servicesVars => UNCHANGED sessionVars
  BY DEF servicesVars
<1>3. QED
  BY <1>1, <1>2

LEMMA IngestRest == [ServicesNext]_servicesVars => [IngestNext]_ingestVars
<1>1. ServicesNext => [IngestNext]_ingestVars
  BY DEF ServicesNext, OthersRest
<1>2. UNCHANGED servicesVars => UNCHANGED ingestVars
  BY DEF servicesVars
<1>3. QED
  BY <1>1, <1>2

LEMMA CampaignRest == [ServicesNext]_servicesVars => [CampaignPageNext]_campaignPageVars
<1>1. ServicesNext => [CampaignPageNext]_campaignPageVars
  BY DEF ServicesNext, OthersRest
<1>2. UNCHANGED servicesVars => UNCHANGED campaignPageVars
  BY DEF servicesVars
<1>3. QED
  BY <1>1, <1>2

LEMMA ConsoleRest == [ServicesNext]_servicesVars => [ConsoleNext]_consoleVars
<1>1. ServicesNext => [ConsoleNext]_consoleVars
  BY DEF ServicesNext, OthersRest
<1>2. UNCHANGED servicesVars => UNCHANGED consoleVars
  BY DEF servicesVars
<1>3. QED
  BY <1>1, <1>2

LEMMA DeveloperRest == [ServicesNext]_servicesVars => [DeveloperNext]_deskVars
<1>1. ServicesNext => [DeveloperNext]_deskVars
  BY DEF ServicesNext, OthersRest
<1>2. UNCHANGED servicesVars => UNCHANGED deskVars
  BY DEF servicesVars
<1>3. QED
  BY <1>1, <1>2

LEMMA RulesRest == [ServicesNext]_servicesVars => [RulesNext]_ruleVars
<1>1. ServicesNext => [RulesNext]_ruleVars
  BY DEF ServicesNext, OthersRest
<1>2. UNCHANGED servicesVars => UNCHANGED ruleVars
  BY DEF servicesVars
<1>3. QED
  BY <1>1, <1>2

LEMMA PreferencesRest == [ServicesNext]_servicesVars => [PreferencesNext]_preferenceVars
<1>1. ServicesNext => [PreferencesNext]_preferenceVars
  BY DEF ServicesNext, OthersRest
<1>2. UNCHANGED servicesVars => UNCHANGED preferenceVars
  BY DEF servicesVars
<1>3. QED
  BY <1>1, <1>2

LEMMA EditorRest == [ServicesNext]_servicesVars => [EditorNext]_editorVars
<1>1. ServicesNext => [EditorNext]_editorVars
  BY DEF ServicesNext, OthersRest
<1>2. UNCHANGED servicesVars => UNCHANGED editorVars
  BY DEF servicesVars
<1>3. QED
  BY <1>1, <1>2

LEMMA SubsRest == [ServicesNext]_servicesVars => [SubsNext]_subVars
<1>1. ServicesNext => [SubsNext]_subVars
  BY DEF ServicesNext, OthersRest
<1>2. UNCHANGED servicesVars => UNCHANGED subVars
  BY DEF servicesVars
<1>3. QED
  BY <1>1, <1>2

LEMMA PageRest == [ServicesNext]_servicesVars => [ChannelPageNext]_channelPageVars
<1>1. ServicesNext => [ChannelPageNext]_channelPageVars
  BY DEF ServicesNext, OthersRest
<1>2. UNCHANGED servicesVars => UNCHANGED channelPageVars
  BY DEF servicesVars
<1>3. QED
  BY <1>1, <1>2

LEMMA InboxRest == [ServicesNext]_servicesVars => [InboxNext]_inboxVars
<1>1. ServicesNext => [InboxNext]_inboxVars
  BY DEF ServicesNext, OthersRest
<1>2. UNCHANGED servicesVars => UNCHANGED inboxVars
  BY DEF servicesVars
<1>3. QED
  BY <1>1, <1>2

LEMMA ListRest == [ServicesNext]_servicesVars => [ListNext]_conversationVars
<1>1. ServicesNext => [ListNext]_conversationVars
  BY DEF ServicesNext, OthersRest
<1>2. UNCHANGED servicesVars => UNCHANGED conversationVars
  BY DEF servicesVars
<1>3. QED
  BY <1>1, <1>2

LEMMA SequenceRest == [ServicesNext]_servicesVars => [SequenceNext]_sequenceVars
<1>1. ServicesNext => [SequenceNext]_sequenceVars
  BY DEF ServicesNext, OthersRest
<1>2. UNCHANGED servicesVars => UNCHANGED sequenceVars
  BY DEF servicesVars
<1>3. QED
  BY <1>1, <1>2

-----------------------------------------------------------------------------
(* What the parts promise.                                                      *)

\* Between saves every reader is given what is stored, for any number of readers, administrators and saves
\* that overlap: only a copy read before a save ended and stored after it, and a save that broke off, leave
\* an old setting in memory.
THEOREM CopyStored == ServicesSpec => []CopyIsStored
<1>1. ServicesInit => SettingsInv
  BY SettingsInvInit DEF ServicesInit
<1>2. SettingsInv /\ [ServicesNext]_servicesVars => SettingsInv'
  BY SettingsInvStep, SettingsRest
<1>3. SettingsInv => CopyIsStored
  BY DEF SettingsInv, CopyInv
<1>4. QED
  BY <1>1, <1>2, <1>3, PTL DEF ServicesSpec

\* Whatever the Graph API answers, and for any error codes: a job is carried out once more than it was meant to
\* only for an attempt the client did not hear of, and a call ends within the time of its stages.
THEOREM CallsWithin == ServicesSpec => []CallsBounded
<1>1. ServicesInit => GraphInv
  BY GraphInvInit DEF ServicesInit
<1>2. GraphInv /\ [ServicesNext]_servicesVars => GraphInv'
  BY GraphInvStep, GraphRest
<1>3. ASSUME GraphInv PROVE CallsBounded
  <2>1. ASSUME NEW c \in Calls, NEW s \in Stages PROVE acted[c][s] <= unheard[c][s] + 1
    BY <1>3 DEF GraphInv, CallInv
  <2>2. ASSUME NEW c \in Calls
        PROVE  call[c].spent <= (IF call[c].kind = "publish" THEN 2 ELSE 1) * StageTime
    <3>1. CallInv(call[c], acted[c], unheard[c]) /\ call[c].attempt \in 0..MaxRetries /\ call[c].spent \in Nat
      BY <1>3, CallFacts
    <3>2. QED
      BY <3>1 DEF CallInv, StageTime, MaxRetries, Timeout, WaitCap
  <2>3. QED
    BY <2>1, <2>2 DEF CallsBounded, CopiesExplained, TimeBounded, StageTime
<1>4. QED
  BY <1>1, <1>2, <1>3, PTL DEF ServicesSpec

\* The client with its retries, its codes and the two steps of a publication implements RemoteCall: a call is
\* reported once, "done" only of what Meta did, and at most three copies exist.
THEOREM RemoteImplemented == ServicesSpec => RemotePromise
<1>1. ServicesInit => GraphInv /\ Remote!RemoteInit
  BY GraphInvInit DEF ServicesInit, GraphInit, Remote!RemoteInit, Report, Idle, Stages
<1>2. GraphInv /\ [ServicesNext]_servicesVars => GraphInv'
  BY GraphInvStep, GraphRest
<1>3. GraphInv /\ GraphInv' /\ [ServicesNext]_servicesVars => [Remote!RemoteNext]_(Remote!rvars)
  BY RemoteStep, GraphRest
<1>4. QED
  BY <1>1, <1>2, <1>3, PTL DEF ServicesSpec, RemotePromise, Remote!RemoteSpec

\* However many keys are requested and made at the same time, the limit of keys is exceeded by the overlaps only;
\* and however requests, ticks and restarts follow, any stretch of a window's length admits fewer of one key than
\* two budgets and one for each restart.
THEOREM LimitsHold == ServicesSpec => []ApiLimits
<1>1. ServicesInit => ApiInv
  BY ApiInvInit DEF ServicesInit
<1>2. ApiInv /\ [ServicesNext]_servicesVars => ApiInv'
  BY ApiInvStep, ApiRest
<1>3. ApiInv => ApiLimits
  BY DEF ApiInv, ApiLimits
<1>4. QED
  BY <1>1, <1>2, <1>3, PTL DEF ServicesSpec

\* For any number of people, invitations, accounts, links and codes, and whichever requests overlap, fail between two
\* of their writes or are repeated: an invitation and a mailed link serve only requests that had read them before they
\* were closed, or after one that failed half way, whoever's invitation is closed is a member, and a mailed code works
\* until a newer one is in the row.
THEOREM MailedServe == ServicesSpec => []MailedSecretsServe
<1>1. ServicesInit => TeamInv /\ SecretInv
  BY TeamInvInit, SecretInvInit DEF ServicesInit
<1>2. TeamInv /\ SecretInv /\ [ServicesNext]_servicesVars => TeamInv' /\ SecretInv'
  BY TeamRest, TeamStep, AccountsRest, SecretStep
<1>3. ASSUME TeamInv, SecretInv PROVE MailedSecretsServe
  <2>1. InvitationServesOnce /\ ClosedLast /\ LinkServesOnce
    BY <1>3 DEF TeamInv, SecretInv
  <2>2. MailedCodeWorks
    <3>1. \A code \in 1..MaxSecrets : code \in Nat
      BY AccountsAssumption
    <3>2. \A a \in Addresses, code \in 1..MaxSecrets : <<a, code>> \in inMail => Serves(a, code)
      BY <1>3, <3>1 DEF SecretInv
    <3>3. QED
      BY <3>2 DEF MailedCodeWorks, Serves
  <2>3. QED
    BY <2>1, <2>2 DEF MailedSecretsServe
<1>4. QED
  BY <1>1, <1>2, <1>3, PTL DEF ServicesSpec

\* For any number of administrators, workspaces, members, tabs and sign-ins: the platform keeps an administrator and
\* every workspace its one owner, a tab saves for the person it shows, and no session that is accepted is forgotten
\* for a 401 of another, up to what tabs missed and to a sign-in page that was left.
THEOREM GovernedHolds == ServicesSpec => []Governed
<1>1. ServicesInit => AdminInv /\ TeamInv /\ SessionInv
  BY AdminInvInit, TeamInvInit, SessionInvInit DEF ServicesInit
<1>2. AdminInv /\ TeamInv /\ SessionInv /\ [ServicesNext]_servicesVars => AdminInv' /\ TeamInv' /\ SessionInv'
  BY AdminRest, AdminStep, TeamRest, TeamStep, SessionsRest, SessionStep
<1>3. ASSUME AdminInv, TeamInv, SessionInv PROVE Governed
  <2>1. SomeAdminStays /\ WorkspaceHasOwner /\ OneOwner /\ SavedForShown /\ SessionStands
    BY <1>3, SessionsKept DEF AdminInv, TeamInv
  <2>2. QED
    BY <2>1 DEF Governed
<1>4. QED
  BY <1>1, <1>2, <1>3, PTL DEF ServicesSpec

\* However the posts of any number of messages are repeated and overlap, and whichever channels go: a message of a
\* customer who has a conversation is in the inbox once its post was answered and nobody works on it, unless a query
\* failed.
THEOREM KnownHeard == ServicesSpec => []KnownCustomerHeard
<1>1. ServicesInit => KnownInv
  BY KnownInit DEF ServicesInit
<1>2. KnownInv /\ [ServicesNext]_servicesVars => KnownInv'
  BY KnownStep, IngestRest
<1>3. ASSUME KnownInv PROVE KnownCustomerHeard
  <2> SUFFICES ASSUME NEW p \in Posts, NEW i \in heard, ~(ingestFaults > 0), ~(inbox[i] > 0),
                      i \in ItemsOf(p), p \in answered
               PROVE  \E h \in Hooks : i \in Elems(hook[h].todo)
    BY DEF KnownCustomerHeard, Elems
  <2>1. IngestTyped /\ NotDropped /\ ingestFaults = 0
    BY <1>3 DEF KnownInv, IngestTyped
  <2>2. CASE i \in ledger
    <3>1. PICK h \in Hooks : Storable(hook[h]) /\ Item(h) = i
      BY <2>1, <2>2 DEF NotDropped
    <3>2. hook[h].pc \notin Apart
      BY <3>1 DEF Storable, Apart, Early
    <3>3. QED
      BY <1>3, <3>1, <3>2, AtItem
  <2>3. CASE i \notin ledger
    BY <2>1, <2>3 DEF NotDropped
  <2>4. QED
    BY <2>2, <2>3
<1>4. QED
  BY <1>1, <1>2, <1>3, PTL DEF ServicesSpec

\* However posts are repeated and overlap, queries fail and the process ends, for any number of requests, customers
\* and messages: a message is in the inbox once, a customer is stored and welcomed once for each request that looked
\* for him together; whatever the broadcasts page and the cron ask for, a campaign is sent once and a cancelled one
\* stays so, and an administrator's letters and announcements go out once for each answer, up to what each names.
THEOREM RecordedHolds == ServicesSpec => []RecordedOnce
<1>1. ServicesInit => KnownInv /\ OnceInv /\ ContactInv /\ CampaignInv /\ ConsoleInv
  BY KnownInit, OnceInit, ContactInit, CampaignInvInit, ConsoleInvInit DEF ServicesInit
<1>2. /\ KnownInv /\ OnceInv /\ ContactInv /\ CampaignInv /\ ConsoleInv /\ [ServicesNext]_servicesVars
      => KnownInv' /\ OnceInv' /\ ContactInv' /\ CampaignInv' /\ ConsoleInv'
  BY IngestRest, KnownStep, OnceStep, ContactInvStep, CampaignRest, CampaignStep, ConsoleRest, ConsoleStep
<1>3. ASSUME KnownInv, OnceInv, ContactInv, CampaignInv, ConsoleInv PROVE RecordedOnce
  <2>1. MessageOnce /\ ContactOnce
    BY <1>3, IngestSays
  <2>2. SentOnce /\ CancelHolds /\ FormMakesOne
    BY <1>3, CampaignSays
  <2>3. LetterOfOne /\ AnnouncedOnce
    BY <1>3, ConsoleSays
  <2>4. QED
    BY <2>1, <2>2, <2>3 DEF RecordedOnce
<1>4. QED
  BY <1>1, <1>2, <1>3, PTL DEF ServicesSpec

\* For any number of tabs, flows, rules, subscribers, settings and requests: no save of a flow, of a rule, of tags,
\* of the settings or of the webhook writes over what the user did not mean, up to the ways that each property names.
THEOREM OverwritesHold == ServicesSpec => NothingOverwritten
<1>1. ServicesInit => DrawingInv /\ TopicInv /\ TagsInv /\ PrefInv /\ HookInv
  BY DrawingInit, TopicInit, TagsInit, PrefInit, HookInit DEF ServicesInit
<1>2. DrawingInv /\ [ServicesNext]_servicesVars => DrawingInv' /\ [FlowLine]_editorVars
  BY EditorRest, DrawingStep
<1>3. TopicInv /\ [ServicesNext]_servicesVars => TopicInv' /\ [TopicLine]_ruleVars
  BY RulesRest, TopicStep
<1>4. TagsInv /\ [ServicesNext]_servicesVars => TagsInv' /\ [TagsLine]_subVars
  BY SubsRest, TagsStep
<1>5. PrefInv /\ [ServicesNext]_servicesVars => PrefInv' /\ [SettingsLine]_preferenceVars
  BY PreferencesRest, PrefStep
<1>6. HookInv /\ [ServicesNext]_servicesVars => HookInv' /\ [HookLine]_deskVars
  BY DeveloperRest, HookStep
<1>7. QED
  BY <1>1, <1>2, <1>3, <1>4, <1>5, <1>6, PTL
  DEF ServicesSpec, NothingOverwritten, FlowKeepsDrawing, RuleKeepsTopic, TagsKept, SettingsKept, HookKept,
      FlowLine, TopicLine, TagsLine, SettingsLine, HookLine

\* For any number of tabs, rows, requests, answers and faults: each page shows what is stored once nothing is on its
\* way, up to the gaps that the properties name.
THEOREM PagesHold == ServicesSpec => []PagesTruthful
<1>1. ServicesInit => SessionInv /\ MailInv /\ CampaignInv /\ RollInv /\ ConsoleInv /\ DesksInv
  BY SessionInvInit, MailInit, CampaignInvInit, RollInit, ConsoleInvInit, DesksInit DEF ServicesInit
<1>2. ServicesInit => HookInv /\ DeskInv /\ PrefInv /\ NamesInv /\ TopicInv /\ RollOfRules
  BY HookInit, DeskInit, PrefInit, NamesInit, TopicInit, RollOfRulesInit DEF ServicesInit
<1>3. ServicesInit => TagsInv /\ TableInv /\ TalkInv /\ PageInv /\ DrawingInv /\ DrawnInv
  BY TagsInit, TableInit, PageInit, DrawingInit, DrawnInit DEF ServicesInit
<1>4. SessionInv /\ MailInv /\ [ServicesNext]_servicesVars => SessionInv' /\ MailInv'
  BY SessionsRest, SessionStep, MailStep
<1>5. CampaignInv /\ RollInv /\ [ServicesNext]_servicesVars => CampaignInv' /\ RollInv'
  BY CampaignRest, CampaignStep, RollStep
<1>6. ConsoleInv /\ DesksInv /\ [ServicesNext]_servicesVars => ConsoleInv' /\ DesksInv'
  BY ConsoleRest, ConsoleStep, DesksStep
<1>7. HookInv /\ DeskInv /\ [ServicesNext]_servicesVars => HookInv' /\ DeskInv'
  BY DeveloperRest, HookStep, DeskStep
<1>8. PrefInv /\ NamesInv /\ [ServicesNext]_servicesVars => PrefInv' /\ NamesInv'
  BY PreferencesRest, PrefStep, CaptionsStep
<1>9. TopicInv /\ RollOfRules /\ [ServicesNext]_servicesVars => TopicInv' /\ RollOfRules'
  BY RulesRest, TopicStep, RollOfRulesStep
<1>10. TagsInv /\ TableInv /\ TalkInv /\ [ServicesNext]_servicesVars => TagsInv' /\ TableInv' /\ TalkInv'
  BY SubsRest, TagsStep, TableStep
<1>11. PageInv /\ [ServicesNext]_servicesVars => PageInv'
  BY PageRest, ScreenStep
<1>12. DrawingInv /\ DrawnInv /\ [ServicesNext]_servicesVars => DrawingInv' /\ DrawnInv'
  BY EditorRest, DrawingStep, DrawnStep
<1>13. ServicesInit => ListingInv /\ ThreadsInv /\ SeqInv
  BY ListingInit, ThreadsInit, SequencesInit DEF ServicesInit
<1>14. ListingInv /\ [ServicesNext]_servicesVars => ListingInv'
  BY InboxRest, ListingStep
<1>15. ThreadsInv /\ [ServicesNext]_servicesVars => ThreadsInv'
  BY ListRest, ThreadsStep
<1>16. SeqInv /\ [ServicesNext]_servicesVars => SeqInv'
  BY SequenceRest, SequenceStep
<1>17. ASSUME SessionInv, MailInv, CampaignInv, RollInv, ConsoleInv, DesksInv, HookInv, DeskInv, PrefInv, NamesInv,
              TopicInv, RollOfRules, TagsInv, TableInv, TalkInv, PageInv, DrawnInv, ListingInv, ThreadsInv, SeqInv
       PROVE  PagesTruthful
  <2>1. StoreAgrees /\ LinkPageTells /\ CampaignsShown /\ TablesTrue /\ DrawerTrue
    BY <1>17, SessionsKept, LinkTells, RollShows, DesksShow
  <2>2. KeysListed /\ SecretSigns /\ SettingsShown /\ NamesShown /\ RulesListed /\ DrawnIsStored
    BY <1>17, DeskShows, PreferencesShow, RulesShow, EditorShows
  <2>3. SubscribersListed /\ DrawerOfOne /\ ChannelsShown /\ HealthTrue /\ BannerTrue /\ BotHeard
    BY <1>17, SubscribersShow, PageShows
  <2>4. ListedOnce /\ ListedFaithfully /\ ConversationsListed /\ HeaderTrue /\ RowsKeptAsRead /\ TemplatesKept
    BY <1>17, ListingShows, ThreadsShow, SequenceShows
  <2>5. QED
    BY <2>1, <2>2, <2>3, <2>4 DEF PagesTruthful
<1>18. QED
  BY <1>1, <1>2, <1>3, <1>4, <1>5, <1>6, <1>7, <1>8, <1>9, <1>10, <1>11, <1>12, <1>13, <1>14, <1>15, <1>16, <1>17,
     PTL DEF ServicesSpec

\* For any values of the constants, every part keeps its state of its type: rows, tabs, requests and answers name what
\* there is, in a step that it can be at, the numbers of edits are those that were given, and what is counted stays
\* within its bound.
THEOREM TypesHold == ServicesSpec => []ServicesTypeOK
<1> DEFINE Server == /\ GraphInv /\ UnheardWithin /\ AdminInv /\ RowsRefer /\ TeamInv /\ PeopleWithin
                     /\ SecretInv /\ MinuteWithin /\ SessionInv /\ SignedWithin /\ SettingsInv /\ ApiInv
           Receiver == /\ KnownInv /\ ContactInv /\ ArrivalsWithin /\ ListingInv /\ ThreadsInv /\ SeqInv
           Pages == /\ PageInv /\ MarksWithin /\ CampaignInv /\ PressesWithin
                    /\ ConsoleInv /\ DesksInv /\ WishesWithin
           Editing == /\ DrawingInv /\ NumbersWithin /\ CountsWithin /\ TopicInv /\ TopicsWithin
                      /\ TagsInv /\ ActsWithin
           Forms == /\ PrefInv /\ NamesInv /\ StrokesWithin /\ NamesAged
                    /\ HookInv /\ UrlsGiven /\ KeysErased
<1>1. ServicesInit => Server
  BY GraphInvInit, UnheardInit, AdminInvInit, RowsReferInit, TeamInvInit, PeopleInit, SecretInvInit, MinuteInit,
     SessionInvInit, SignedInit, SettingsInvInit, ApiInvInit
  DEF ServicesInit
<1>2. ServicesInit => Receiver /\ Pages
  BY KnownInit, ContactInit, ArrivalsInit, ListingInit, ThreadsInit, SequencesInit, PageInit, MarksInit,
     CampaignInvInit, PressesInit, ConsoleInvInit, DesksInit, WishesInit
  DEF ServicesInit
<1>3. ServicesInit => Editing /\ Forms
  BY DrawingInit, NumbersInit, TopicInit, TopicsWithinInit, TagsInit, ActsInit, PrefInit, NamesInit, StrokesInit,
     NamesAgedInit, HookInit, UrlsGivenInit, KeysErasedInit
  DEF ServicesInit
<1>4. Server /\ [ServicesNext]_servicesVars => Server'
  <2> SUFFICES ASSUME Server, [ServicesNext]_servicesVars PROVE Server'
    OBVIOUS
  <2>1. GraphInv' /\ UnheardWithin'
    BY GraphRest, GraphInvStep, UnheardStep
  <2>2. AdminInv' /\ RowsRefer'
    BY AdminRest, AdminStep, RowsReferStep
  <2>3. TeamInv' /\ PeopleWithin'
    BY TeamRest, TeamStep, PeopleStep
  <2>4. SecretInv' /\ MinuteWithin'
    BY AccountsRest, SecretStep, MinuteStep
  <2>5. SessionInv' /\ SignedWithin'
    BY SessionsRest, SessionStep, SignedStep
  <2>6. SettingsInv' /\ ApiInv'
    BY SettingsRest, SettingsInvStep, ApiRest, ApiInvStep
  <2>7. QED
    BY <2>1, <2>2, <2>3, <2>4, <2>5, <2>6
<1>5. Receiver /\ [ServicesNext]_servicesVars => Receiver'
  <2> SUFFICES ASSUME Receiver, [ServicesNext]_servicesVars PROVE Receiver'
    OBVIOUS
  <2>1. KnownInv' /\ ContactInv' /\ ArrivalsWithin'
    BY IngestRest, KnownStep, ContactInvStep, ArrivalsStep
  <2>2. ListingInv' /\ ThreadsInv'
    BY InboxRest, ListingStep, ListRest, ThreadsStep
  <2>3. SeqInv'
    BY SequenceRest, SequenceStep
  <2>4. QED
    BY <2>1, <2>2, <2>3
<1>6. Pages /\ [ServicesNext]_servicesVars => Pages'
  <2> SUFFICES ASSUME Pages, [ServicesNext]_servicesVars PROVE Pages'
    OBVIOUS
  <2>1. PageInv' /\ MarksWithin'
    BY PageRest, ScreenStep, MarksStep
  <2>2. CampaignInv' /\ PressesWithin'
    BY CampaignRest, CampaignStep, PressesStep
  <2>3. ConsoleInv' /\ DesksInv' /\ WishesWithin'
    BY ConsoleRest, ConsoleStep, DesksStep, WishesStep
  <2>4. QED
    BY <2>1, <2>2, <2>3
<1>7. Editing /\ [ServicesNext]_servicesVars => Editing'
  <2> SUFFICES ASSUME Editing, [ServicesNext]_servicesVars PROVE Editing'
    OBVIOUS
  <2>1. DrawingInv' /\ NumbersWithin' /\ CountsWithin'
    BY EditorRest, DrawingStep, NumbersStep, CountsStep
  <2>2. TopicInv' /\ TopicsWithin'
    BY RulesRest, TopicStep, TopicsWithinStep
  <2>3. TagsInv' /\ ActsWithin'
    BY SubsRest, TagsStep, ActsStep
  <2>4. QED
    BY <2>1, <2>2, <2>3
<1>8. Forms /\ [ServicesNext]_servicesVars => Forms'
  <2> SUFFICES ASSUME Forms, [ServicesNext]_servicesVars PROVE Forms'
    OBVIOUS
  <2>1. PrefInv' /\ NamesInv' /\ StrokesWithin'
    BY PreferencesRest, PrefStep, CaptionsStep, StrokesStep
  <2>2. PrefTyped /\ caption \in [Captions -> Nat] /\ DeveloperTyped
    BY DEF PrefInv, NamesInv, HookInv
  <2>3. NamesAged'
    BY <2>2, PreferencesRest, NamesAgedStep
  <2>4. HookInv' /\ UrlsGiven' /\ KeysErased'
    BY <2>2, DeveloperRest, HookStep, UrlsGivenStep, KeysErasedStep
  <2>5. QED
    BY <2>1, <2>3, <2>4
<1>9. ASSUME Server, Receiver, Pages, Editing, Forms PROVE ServicesTypeOK
  <2>1. GraphTypeOK /\ AdminTypeOK /\ TeamTypeOK /\ AccountsTypeOK /\ SessionsTypeOK
    BY <1>9, CallsTyped, PlatformTyped, TeamRowsTyped, AccountRowsTyped, SessionsTyped
  <2>2. SettingsTypeOK /\ ApiTypeOK
    BY <1>9 DEF SettingsInv, ApiInv, ApiTyped
  <2>3. IngestTypeOK /\ InboxTypeOK /\ ListTypeOK /\ SequenceTypeOK
    BY <1>9, PostsTyped, ListingShows, ThreadsShow, SequenceShows
  <2>4. ChannelPageTypeOK /\ CampaignPageTypeOK /\ ConsoleTypeOK
    BY <1>9, ScreenRowsTyped, CampaignsTyped, EntriesTyped
  <2>5. EditorTypeOK /\ RulesTypeOK /\ SubsTypeOK
    BY <1>9, DrawingsTyped, RulesRowsTyped, SubsRowsTyped
  <2>6. PreferencesTypeOK /\ DeveloperTypeOK
    <3>1. caption \in [Captions -> Nat] /\ DeveloperTyped
      BY <1>9 DEF NamesInv, HookInv
    <3>2. QED
      BY <1>9, <3>1, FormsTyped, DeveloperRowsTyped
  <2>7. QED
    BY <2>1, <2>2, <2>3, <2>4, <2>5, <2>6 DEF ServicesTypeOK
<1> HIDE DEF Server, Receiver, Pages, Editing, Forms
<1>10. QED
  BY <1>1, <1>2, <1>3, <1>4, <1>5, <1>6, <1>7, <1>8, <1>9, PTL DEF ServicesSpec
===============================================================================

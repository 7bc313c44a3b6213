----------------------------- MODULE MC_Services -----------------------------
(* The parts of the system that share no row, no variable and no call, in one *)
(* instance for TLC: a behaviour is one of any part, while the others rest.   *)
EXTENDS GraphClient, Ingest, Team, Accounts, PlatformSettings, LiveInbox, FlowEditor, RuleEditor, Administration,
        PublicApi, Subscribers, ChannelPage, CampaignPage, AdminConsole, Sessions, Preferences,
        DeveloperTab, ConversationList, MessageSequence, TLC

CONSTANTS a1, a2, x1, x2,
          Running    \* the parts that run
VARIABLE part    \* the part whose behaviour this is

\* a1 and a2 are whoever acts at the same time, x1 and x2 things acted upon, in whichever part runs.
Symmetry == Permutations({a1, a2}) \cup Permutations({x1, x2})

\* Two WhatsApp posts, one with a status update and one without a request id, and two Telegram updates of one chat.
MCContent == "w1" :> <<"m1", "s1">> @@ "w2" :> <<"m2">> @@ "u1" :> <<"m3">> @@ "u2" :> <<"m4">>
MCSender == [i \in Items |-> IF i \in {"m3", "m4"} THEN "bob" ELSE "ann"]
MCRequestId == [p \in Posts |-> p = "w1"]

MCOwner == "w" :> "ann" @@ "x" :> "bob"
MCJoined == {<<"ann", "x">>}
MCOwns == [p \in Folk |-> IF p = "bob" THEN Spaces ELSE {}]

ServicesInit ==
    /\ part \in Running
    /\ GraphInit /\ IngestInit /\ TeamInit /\ AccountsInit /\ SettingsInit
    /\ InboxInit /\ EditorInit /\ RulesInit /\ AdminInit /\ ApiInit /\ SubsInit /\ ChannelPageInit
    /\ CampaignPageInit /\ ConsoleInit /\ SessionsInit /\ PreferencesInit /\ DeveloperInit
    /\ ListInit /\ SequenceInit
    /\ part # "page" => connected = {} /\ webhook = [p \in FbPages |-> "none"]
    /\ part # "list" => order = <<>>
    /\ part # "sequence" => \A r \in SeqRules : storedMessages[r] = <<>>
    /\ part # "campaigns" => bstatus = [b \in Bulletins |-> "none"]

\* What does not run stays as it begins.
OthersRest ==
    /\ UNCHANGED part
    /\ part # "graph" => UNCHANGED gvars
    /\ part # "ingest" => UNCHANGED ingestVars
    /\ part # "team" => UNCHANGED teamVars
    /\ part # "accounts" => UNCHANGED accountVars
    /\ part # "settings" => UNCHANGED settingVars
    /\ part # "inbox" => UNCHANGED inboxVars
    /\ part # "editor" => UNCHANGED editorVars
    /\ part # "rules" => UNCHANGED ruleVars
    /\ part # "admin" => UNCHANGED adminVars
    /\ part # "api" => UNCHANGED apiVars
    /\ part # "subs" => UNCHANGED subVars
    /\ part # "page" => UNCHANGED channelPageVars
    /\ part # "campaigns" => UNCHANGED campaignPageVars
    /\ part # "console" => UNCHANGED consoleVars
    /\ part # "sessions" => UNCHANGED sessionVars
    /\ part # "prefs" => UNCHANGED preferenceVars
    /\ part # "developer" => UNCHANGED deskVars
    /\ part # "list" => UNCHANGED conversationVars
    /\ part # "sequence" => UNCHANGED sequenceVars

ServicesNext ==
    /\ OthersRest
    /\ \/ part = "graph" /\ GraphNext
       \/ part = "ingest" /\ IngestNext
       \/ part = "team" /\ TeamNext
       \/ part = "accounts" /\ AccountsNext
       \/ part = "settings" /\ SettingsNext
       \/ part = "inbox" /\ InboxNext
       \/ part = "editor" /\ EditorNext
       \/ part = "rules" /\ RulesNext
       \/ part = "admin" /\ AdminNext
       \/ part = "api" /\ ApiNext
       \/ part = "subs" /\ SubsNext
       \/ part = "page" /\ ChannelPageNext
       \/ part = "campaigns" /\ CampaignPageNext
       \/ part = "console" /\ ConsoleNext
       \/ part = "sessions" /\ SessionsNext
       \/ part = "prefs" /\ PreferencesNext
       \/ part = "developer" /\ DeveloperNext
       \/ part = "list" /\ ListNext
       \/ part = "sequence" /\ SequenceNext

servicesVars ==
    <<part, gvars, ingestVars, teamVars, accountVars, settingVars, inboxVars, editorVars, ruleVars, adminVars,
      apiVars, subVars, channelPageVars, campaignPageVars, consoleVars, sessionVars, preferenceVars, deskVars,
      conversationVars, sequenceVars>>

ServicesSpec == ServicesInit /\ [][ServicesNext]_servicesVars

\* Bounds: requests overlap until one fails, and come one at a time after that, in the parts where any may fail
\* anywhere; sessions end before the third password or code is made.
AtMostOne(busy) == Cardinality(busy) <= 1
OverlapUntilFailure ==
    /\ teamFaults > 0 => AtMostOne({r \in TeamRequests : request[r].pc # "idle"})
    /\ accountFaults > 0 => AtMostOne({v \in Visitors : visit[v].pc # "idle"})
    /\ secret > 2 => revoked = {}
    /\ reboots > 0 => AtMostOne({r \in KeyRequests : kreq[r].pc # "idle"})
    /\ adminFaults > 0 => AtMostOne({r \in AdminRequests : areq[r].pc # "idle"})
    /\ inboxFaults > 0 => AtMostOne({l \in Loads : loads[l].pc # "idle"})
    /\ consoleFaults > 0 => AtMostOne({k \in Errands : ~Spare(k)})

\* The state that every part keeps (the fields and locals of each handler named above).
ServicesTypeOK ==
    /\ part = "graph" => GraphTypeOK
    /\ part = "ingest" => IngestTypeOK
    /\ part = "team" => TeamTypeOK
    /\ part = "accounts" => AccountsTypeOK
    /\ part = "settings" => SettingsTypeOK
    /\ part = "inbox" => InboxTypeOK
    /\ part = "editor" => EditorTypeOK
    /\ part = "rules" => RulesTypeOK
    /\ part = "admin" => AdminTypeOK
    /\ part = "api" => ApiTypeOK
    /\ part = "subs" => SubsTypeOK
    /\ part = "page" => ChannelPageTypeOK
    /\ part = "campaigns" => CampaignPageTypeOK
    /\ part = "console" => ConsoleTypeOK
    /\ part = "sessions" => SessionsTypeOK
    /\ part = "prefs" => PreferencesTypeOK
    /\ part = "developer" => DeveloperTypeOK
    /\ part = "list" => ListTypeOK
    /\ part = "sequence" => SequenceTypeOK

----------------------------------------------------------------------------
(* What the parts promise, one question at a time.                           *)

\* The client of the Graph API repeats a job only for want of an answer, and ends in time (graphApiRequest).
CallsBounded == CopiesExplained /\ TimeBounded

\* However posts are repeated and overlap, a message is stored once, and a customer once for each request that
\* looked for him (processWhatsAppMessage, processTelegramUpdate); however often the broadcasts page and the cron ask,
\* a campaign is sent once and a cancelled one stays so, up to the overlaps each names (execute, cancel); an
\* administrator's letter or announcement reaches whom it is for, once for each answer (emailTenant,
\* sendAnnouncement).
RecordedOnce ==
    CASE part = "ingest"    -> MessageOnce /\ ContactOnce
      [] part = "campaigns" -> SentOnce /\ CancelHolds /\ FormMakesOne
      [] part = "console"   -> LetterOfOne /\ AnnouncedOnce
      [] OTHER              -> TRUE

\* A code or link in somebody's mail works until it is used, replaced or expired, and then no more, but for
\* requests that had read it before (acceptInvitation, verifyEmail, resetPassword).
MailedSecretsServe ==
    CASE part = "team"     -> InvitationServesOnce /\ ClosedLast
      [] part = "accounts" -> LinkServesOnce /\ MailedCodeWorks
      [] OTHER             -> TRUE

\* What the pages show is what is stored, up to the gaps each of them names, such as the list of a chat that was
\* left, which comes last and replaces that of the open one (the inbox, the flow editor, the rules, subscribers,
\* channels, broadcasts and settings pages of the dashboard, the administrators' page, those outside, and the session
\* the browser keeps).
PagesTruthful ==
    CASE part = "inbox"     -> ListedOnce /\ ListedFaithfully
      [] part = "editor"    -> DrawnIsStored
      [] part = "rules"     -> RulesListed
      [] part = "subs"      -> SubscribersListed /\ DrawerOfOne
      [] part = "page"      -> ChannelsShown /\ HealthTrue /\ BannerTrue /\ BotHeard
      [] part = "campaigns" -> CampaignsShown
      [] part = "console"   -> TablesTrue /\ DrawerTrue
      [] part = "sessions"  -> StoreAgrees /\ LinkPageTells
      [] part = "prefs"     -> SettingsShown /\ NamesShown
      [] part = "developer" -> KeysListed /\ SecretSigns
      [] part = "list"     -> ConversationsListed /\ HeaderTrue
      [] part = "sequence" -> RowsKeptAsRead /\ TemplatesKept
      [] OTHER              -> TRUE

\* A page never stores one thing over another, up to the ways in which it does that each of them names
\* (handleSaveFlow, handleSaveRule, handleAddTag, handleSaveAi, handleSaveWebhook).
NothingOverwritten == FlowKeepsDrawing /\ RuleKeepsTopic /\ TagsKept /\ SettingsKept /\ HookKept

\* The platform has an administrator, a workspace its owner, and no other (admin.service.ts, team.service.ts); a tab
\* acts for the person it shows, and a session stands, up to the tabs that had missed a change (api.ts,
\* auth-context.tsx).
Governed ==
    CASE part = "admin" -> SomeAdminStays /\ WorkspaceHasOwner
      [] part = "team"  -> OneOwner
      [] part = "sessions" -> SavedForShown /\ SessionStands
      [] OTHER          -> TRUE

\* Overlapping requests pass the limits of the public API by a bounded number (ApiKeysController, ApiKeyGuard).
ApiLimits == KeysBounded /\ WindowBounded
=============================================================================

SPECIFICATION ServicesSpec
CONSTANTS
    a1 = a1
    a2 = a2
    x1 = x1
    x2 = x2
    Running = {"graph", "ingest", "team", "accounts", "settings", "inbox", "editor", "rules", "admin", "api", "subs", "page", "campaigns", "console", "sessions", "prefs", "developer", "list", "sequence"}
    Calls = {"call"}
    Codes = {1, 2, 17, 190}
    Hooks = {a1, a2}
    Posts = {"w1", "w2", "u1", "u2"}
    Whatsapp = {"w1", "w2"}
    NoPost = "none"
    Items = {"m1", "m2", "m3", "m4", "s1"}
    Bare = {"s1"}
    Customers = {"ann", "bob"}
    MaxSubscribers = 3
    MaxPosts = 2
    MaxIngestFaults = 1
    RequestId <- MCRequestId
    Content <- MCContent
    Sender <- MCSender
    TeamRequests = {a1, a2}
    People = {"own", "ann"}
    Owner = "own"
    Invitations = {"i"}
    NoInvitation = "none"
    MaxTeamFaults = 1
    Visitors = {a1, a2}
    Addresses = {"ann"}
    NoAddress = "none"
    Links = {i1}
    NoLink = "none"
    MaxSecrets = 4
    MaxAccountFaults = 1
    Keys = {x1, x2}
    Readers = {a1, a2}
    Admins = {a1, a2}
    MaxSaves = 2
    MaxSettingsFaults = 1
    Chats = {x1, x2}
    NoChat = "none"
    Loads = {a1, a2}
    MaxMessages = 1
    MaxInboxFaults = 1
    Editors = {"tab"}
    Flows = {x1, x2}
    NoFlow = "none"
    Nodes = {"m", "q", "t", "u"}
    NoNode = "null"
    Triggers = {"t", "u"}
    Conditions = {"q"}
    MaxEdits = 3
    MaxLost = 1
    RuleIds = {x1, x2}
    NoRule = "none"
    Scopes = {"page"}
    Anywhere = "all"
    Parts = {"media", "sequence"}
    RuleCalls = {a1, a2}
    MaxTopics = 2
    MaxClicks = 3
    MaxRuleFaults = 1
    Users = {"ann", "bob"}
    NoUser = "none"
    Workspaces = {"w", "x"}
    NoWorkspace = "none"
    OwnerOf <- MCOwner
    Joined <- MCJoined
    Founders = {"ann"}
    AdminRequests = {a1, a2}
    MaxAdminFaults = 1
    ApiKeys = {x1, x2}
    NoKey = "none"
    KeyLimit = 1
    Window = 2
    Budget = 2
    KeyRequests = {a1, a2}
    MaxTime = 2
    MaxReboots = 1
    Subs = {x1, x2}
    NoSub = "none"
    Tags = {"t", "v"}
    Every = "all"
    Fetches = {a1, a2}
    MaxActs = 2
    MaxSubFaults = 1
    FbPages = {"fb"}
    Bot = "bot"
    Number = "num"
    NoCard = "none"
    Asks = {a1, a2}
    MaxTaps = 2
    MaxChannelFaults = 1
    Bulletins = {x1, x2}
    NoBulletin = "none"
    Presses = {a1, a2}
    Cron = "cron"
    MaxPresses = 2
    MaxBulletinFaults = 1
    Spaces = {x1, x2}
    Folk = {"me"}
    Me = "me"
    NoEntry = "none"
    Owns <- MCOwns
    Errands = {a1, a2}
    MaxWishes = 2
    MaxConsoleFaults = 1
    Tabs = {a1, a2}
    Persons = {x1, x2}
    NoPerson = "none"
    MaxSessions = 2
    MaxVisits = 6
    MaxSessionFaults = 1
    Panes = {a1, a2}
    Knobs = {x1, x2}
    Captions = {"person", "company"}
    MaxStrokes = 4
    MaxPreferenceFaults = 1
    ApiRows = {x1, x2}
    NoApiRow = "none"
    DeskLoads = {a1, a2}
    MaxDeeds = 3
    MaxDeskFaults = 1
    Threads = {x1, x2}
    NoThread = "none"
    Mates = {"mate"}
    NoMate = "nobody"
    ThreadStatuses = {"OPEN", "RESOLVED"}
    PageCalls = {a1, a2}
    MaxTurns = 3
    MaxPageFaults = 1
    SeqRules = {x1, x2}
    NoSeqRule = "none"
    MostMessages = 3
    MostEntries = 2
    MaxTouches = 3
INVARIANT ServicesTypeOK
INVARIANT CallsBounded
INVARIANT KnownCustomerHeard
INVARIANT RecordedOnce
INVARIANT MailedSecretsServe
INVARIANT CopyIsStored
INVARIANT PagesTruthful
INVARIANT Governed
INVARIANT ApiLimits
PROPERTY RemotePromise
PROPERTY NothingOverwritten
SYMMETRY Symmetry
CONSTRAINT OverlapUntilFailure
CHECK_DEADLOCK FALSE

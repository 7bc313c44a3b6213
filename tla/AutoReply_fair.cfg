SPECIFICATION FairSpec
CONSTANTS
    h1 = h1
    h2 = h2
    Handlers = {h1, h2}
    Events = {"d1", "bd", "x1"}
    Users = {"alice", "bob", "carol"}
    Rules = {"quiet"}
    NoRule = "none"
    MaxPerHour = 1
    MaxPerMonth <- MCUnlimited
    MaxSubscribers = 1
    HourWindow = 1
    DmWindow = 2
    MonthLength = 2
    MaxClock = 0
    MaxDeliveries <- MCAgain
    FeaturesOn = {"flow", "suspend"}
    MayAbort = TRUE
    MayTimeout = FALSE
    EventInfo <- MCEventInfo
    RuleShape <- MCRuleShape
INVARIANT AtMostOnce
INVARIANT ContactsBounded
PROPERTY EventuallyRecorded
CHECK_DEADLOCK FALSE

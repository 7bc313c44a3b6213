SPECIFICATION Spec
CONSTANTS
    h1 = h1
    h2 = h2
    Handlers = {h1, h2}
    Events = {"c1", "c2", "s1"}
    Users = {"alice"}
    Rules = {"quiet", "text"}
    NoRule = "none"
    MaxPerHour <- MCUnlimited
    MaxPerMonth <- MCUnlimited
    MaxSubscribers <- MCUnlimited
    HourWindow = 1
    DmWindow = 1
    MonthLength = 2
    MaxClock = 1
    MaxDeliveries <- MCOnce
    FeaturesOn = {}
    MayAbort = TRUE
    MayTimeout = TRUE
    EventInfo <- MCEventInfo
    RuleShape <- MCRuleShape
INVARIANT OneTriggeredDm
INVARIANT NoSilentLoss
SYMMETRY MCSymmetry
CHECK_DEADLOCK FALSE

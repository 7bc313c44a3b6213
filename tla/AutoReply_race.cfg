SPECIFICATION Spec
CONSTANTS
    h1 = h1
    h2 = h2
    Handlers = {h1, h2}
    Events = {"c1", "d1", "s1", "o1"}
    Users = {"alice"}
    Rules = {"seq"}
    NoRule = "none"
    MaxPerHour = 1
    MaxPerMonth <- MCUnlimited
    MaxSubscribers <- MCUnlimited
    HourWindow = 1
    DmWindow = 2
    MonthLength = 2
    MaxClock = 1
    MaxDeliveries <- MCOnce
    FeaturesOn = {"flow", "ai", "fallback"}
    MayAbort = TRUE
    MayTimeout = FALSE
    EventInfo <- MCEventInfo
    RuleShape <- MCRuleShape
INVARIANT TypeOK
INVARIANT RepliesFollowInbound
INVARIANT QuotaOvershoot
INVARIANT OneSource
INVARIANT TriggerLedger
SYMMETRY MCSymmetry
CHECK_DEADLOCK FALSE

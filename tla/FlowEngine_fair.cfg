SPECIFICATION FairSpec
CONSTANTS
    w1 = w1
    k1 = k1
    k2 = k2
    Executions = {"msg", "cmt"}
    Tags = {"vip"}
    Steps = {"a", "b", "c", "d"}
    NoStep = "end"
    NoTag = "none"
    Flows = {"loop", "empty"}
    Hooks = {w1}
    Crons = {k1, k2}
    Take = 2
    MaxHops = 5
    MaxContacts = 1
    MaxFaults = 0
    MayCrash = FALSE
    MayDisconnect = TRUE
    Graphs <- MCGraphs
    Customer <- MCCustomer
    FromComment <- MCFromComment
INVARIANT RunningIsAlive
PROPERTY Lifecycle
PROPERTY WalkEnds
PROPERTY DueIsResumed
CHECK_DEADLOCK FALSE

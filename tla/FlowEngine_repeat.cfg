SPECIFICATION Spec
CONSTANTS
    w1 = w1
    k1 = k1
    k2 = k2
    Executions = {"msg", "cmt"}
    Tags = {"vip"}
    Steps = {"a", "b", "c", "d"}
    NoStep = "end"
    NoTag = "none"
    Flows = {"twice"}
    Hooks = {w1}
    Crons = {k1, k2}
    Take = 2
    MaxHops = 5
    MaxContacts = 1
    MaxFaults = 0
    MayCrash = FALSE
    MayDisconnect = FALSE
    Graphs <- MCGraphs
    Customer <- MCCustomer
    FromComment <- MCFromComment
INVARIANT StepOnce
CHECK_DEADLOCK FALSE

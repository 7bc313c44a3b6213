SPECIFICATION Spec
CONSTANTS
    w1 = w1
    k1 = k1
    k2 = k2
    Executions = {"cmt"}
    Tags = {"vip"}
    Steps = {"a", "b", "c", "d"}
    NoStep = "end"
    NoTag = "none"
    Flows = {"twice", "reply", "tagged", "fresh"}
    Hooks = {w1}
    Crons = {k1, k2}
    Take = 2
    MaxHops = 5
    MaxContacts = 1
    MaxFaults = 1
    MayCrash = TRUE
    MayDisconnect = FALSE
    Graphs <- MCGraphs
    Customer <- MCCustomer
    FromComment <- MCFromComment
INVARIANT TypeOK
INVARIANT OneWalker
INVARIANT SendsAreLawful
SYMMETRY MCSymmetry
CHECK_DEADLOCK FALSE

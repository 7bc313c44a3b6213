SPECIFICATION Spec
CONSTANTS
    k1 = k1
    r1 = r1
    Broadcasts = {"all"}
    Contacts = {"ann"}
    Crons = {k1}
    Requests = {r1}
    Known = {"ann"}
    MaxSchedules = 1
    MaxFaults = 0
    MaxRemovals = 0
    Segment <- MCSegment
PROPERTY FinalIsFinal
CHECK_DEADLOCK FALSE

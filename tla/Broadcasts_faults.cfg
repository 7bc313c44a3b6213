SPECIFICATION Spec
CONSTANTS
    k1 = k1
    r1 = r1
    Broadcasts = {"all"}
    Contacts = {"ann", "bob"}
    Crons = {k1}
    Requests = {r1}
    Known = {"ann"}
    MaxSchedules = 1
    MaxFaults = 1
    MaxRemovals = 1
    Segment <- MCSegment
INVARIANT TypeOK
INVARIANT OneCopyPerExecution
INVARIANT SentCountHonest
CHECK_DEADLOCK FALSE

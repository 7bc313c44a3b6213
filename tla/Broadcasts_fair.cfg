SPECIFICATION FairSpec
CONSTANTS
    k1 = k1
    r1 = r1
    Broadcasts = {"all"}
    Contacts = {"ann", "bob"}
    Crons = {k1}
    Requests = {r1}
    Known = {"ann", "bob"}
    MaxSchedules = 1
    MaxFaults = 0
    MaxRemovals = 0
    Segment <- MCSegment
INVARIANT NeverStuck
PROPERTY DueIsTaken
PROPERTY SendingEnds
CHECK_DEADLOCK FALSE

SPECIFICATION Spec
CONSTANTS
    a = a
    Broadcasts = {"all", "vip"}
    Contacts = {"ann", "bob"}
    Crons = {a}
    Requests = {a}
    Known = {"ann", "bob"}
    MaxSchedules = 1
    MaxFaults = 0
    MaxRemovals = 1
    Segment <- MCSegment
PROPERTY CampaignPromise
CHECK_DEADLOCK FALSE

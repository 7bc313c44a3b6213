SPECIFICATION Spec
CONSTANTS
    r1 = r1
    r2 = r2
    k1 = k1
    ta = ta
    tb = tb
    Tenants = {ta, tb}
    NoTenant = "none"
    Assets = {"page", "gram"}
    NoAsset = "nothing"
    Expiring = {"page", "gram"}
    Rules = {"rule"}
    MaxConnections = 1
    Requests = {r1, r2}
    Crons = {k1}
    RefreshAge = 0
    TokenLife = 1
    MaxRefusals = 1
    MaxDay = 2
    MaxRows = 2
    Linked <- MCLinked
    Offers <- MCOffers
INVARIANT TypeOK
INVARIANT ConnectionsBounded
INVARIANT RulesGoWithChannel
INVARIANT RefreshedInTime
PROPERTY PageKeepsOwner
SYMMETRY MCSymmetry
CHECK_DEADLOCK FALSE
CONSTRAINT OverlapAtFirst

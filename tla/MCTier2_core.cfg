CONSTANTS
    ana = ana
    bob = bob
    k1 = k1
    k2 = k2
    a1 = a1
    a2 = a2
    NoAddress = NoAddress
    NoKey = NoKey
    Leads <- MCLeads2
    AddressOf <- MCOwnAddress
    Keys = {k1}
    Categories = {"family", "client"}
    GroupLeads = {}
    TestCohortMax = 1
    TestTTL = 2
    ContextMaxTurns = 2
    CrashesHappen = TRUE
    MaxNow = 3
SPECIFICATION Spec
INVARIANTS TypeOK CohortCap NoContextWithoutGrant
PROPERTIES BlockedUntilUnblocked WindowMovedByContact ExpiryToldOnce UndisclosedOnlyByCrash ImplementsLedger

CONSTANTS
    ana = ana
    bob = bob
    k1 = k1
    k2 = k2
    a1 = a1
    a2 = a2
    NoAddress = NoAddress
    NoKey = NoKey
    Leads <- MCLeads2
    AddressOf <- MCSameAddress
    Keys = {k1, k2, NoKey}
    Categories = {"family"}
    GroupLeads = {bob}
    TestCohortMax = 1
    TestTTL = 1
    ContextMaxTurns = 2
    CrashesHappen = TRUE
    MaxNow = 1
SPECIFICATION Spec
PROPERTIES ServedUnderOpenGrant BlockCoversPerson

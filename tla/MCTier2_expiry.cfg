CONSTANTS
    ana = ana
    bob = bob
    k1 = k1
    k2 = k2
    a1 = a1
    a2 = a2
    NoAddress = NoAddress
    NoKey = NoKey
    Leads <- MCLeads2
    AddressOf <- MCOwnAddress
    Keys = {k1}
    Categories = {"family"}
    GroupLeads = {}
    TestCohortMax = 2
    TestTTL = 1
    ContextMaxTurns = 1
    CrashesHappen = FALSE
    MaxNow = 2
SPECIFICATION FairSpec
PROPERTIES DisclosedBeforeServed ExpiryNoticeTried

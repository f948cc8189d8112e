CONSTANTS
    ana = ana
    bob = bob
    k1 = k1
    k2 = k2
    a1 = a1
    n1 = n1
    c1 = c1
    c2 = c2
    c3 = c3
    NoAddress = NoAddress
    NoKey = NoKey
    Leads = {ana, bob}
    AddressOf <- MCGroupAnon
    Keys = {k1}
    Categories = {"family"}
    Channelled = {}
    GroupLeads = {bob}
    TestCohortMax = 1
    TestTTL = 1
    ContextMaxTurns = 0
    CrashesHappen = FALSE
    MaxNow = 0
    Alerts = {n1}
    Commands = {c1, c2, c3}
    RefOf <- MCRefOf
    ActionOf <- MCActionOf
SPECIFICATION IntakeSpec
PROPERTIES UnboundAlertApprovesNobody

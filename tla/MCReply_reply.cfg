CONSTANTS
    ana = ana
    k1 = k1
    k2 = k2
    a1 = a1
    t1 = t1
    m1 = m1
    w1 = w1
    w2 = w2
    NoAddress = NoAddress
    NoKey = NoKey
    NoMessage = NoMessage
    NoThread = NoThread
    Leads = {ana}
    AddressOf <- MCAddressOf
    Keys = {k1}
    Categories = {"family"}
    Channelled = {"family"}
    GroupLeads = {}
    TestCohortMax = 1
    TestTTL = 1
    ContextMaxTurns = 0
    CrashesHappen = TRUE
    MaxNow = 0
    Messages = {m1}
    ThreadOf <- MCThreadOf
    Threads = {t1}
    LeadOf <- MCLeadOf
    Transports = {"stub", "held", "bridge"}
    BodyOf <- MCOwnBody
    Workers = {w1, w2}
    MaxSends = 2
SPECIFICATION FairReplySpec
INVARIANTS ReplyTypeOK AtMostOneSend VerifiedInSource
PROPERTIES OutcomeIsFinal ImplementsDesk ReplyCompletes

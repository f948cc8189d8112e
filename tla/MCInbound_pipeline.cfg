CONSTANTS
    m1 = m1
    m2 = m2
    m3 = m3
    Messages = {m1, m2, m3}
    Orders = {"tier2", "tier1"}
    MaxReplies = 1
    MaxTier2Replies = 0
    AckCooldown = 1
    Day = 2
    SeenDelay = 1
    MaxCrashes = 1
    MaxNow = 4
SPECIFICATION Spec
SYMMETRY Symmetry
INVARIANTS InboundTypeOK AnsweredOnce TwiceTheLimit RunsOnceUnlessLost EachRelayTried
PROPERTIES RemindsUndecidedOnce ImplementsMailbox
CONSTRAINT OneFailure

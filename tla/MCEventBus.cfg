SPECIFICATION FairSpec
CONSTANTS
    Events = {e1, e2}
    Contents = {c1, c2}
    NoEvent = NoEvent
    Dispatchers = {p1, p2}
    NoClaim = NoClaim
    MaxAttempts = 2
    MaxRedrives = 1
INVARIANTS EffectivelyOnce ClaimsAreExclusive
PROPERTIES EveryEventSettles ImplementsDelivery
CHECK_DEADLOCK FALSE

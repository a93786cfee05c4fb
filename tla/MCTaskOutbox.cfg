SPECIFICATION FairOutboxSpec
CONSTANTS
    Tasks = {t1}
    Errors = {}
    NoError = NoError
    RetryKeys = {k1}
    RetryLimits = {1}
    NoEvent = NoEvent
    Dispatchers = {p1, p2}
    NoClaim = NoClaim
    MaxAttempts = 2
    MaxRedrives = 1
PROPERTIES  CompletionIsReported
CHECK_DEADLOCK FALSE

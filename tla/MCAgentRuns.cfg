SPECIFICATION Spec
CONSTANTS
    w1 = w1
    w2 = w2
    owner = owner
    p1 = p1
    p2 = p2
    Workers <- MCWorkers
    Console = owner
    Callers <- MCCallers
    Providers <- MCProviders
    Primary = p1
    TaskRoute = p2
    Fallbacks <- MCFallbacks
    Configured <- MCProviders
    Adapter <- MCAdapter
    MaxRetries = 1
    TokenBudget = 5
    WorstCase = 2
    Usages = {2, 3}
    MaxRecoveries = 1
    MaxFaults = 2
CONSTRAINT ConsoleFirst
INVARIANT OneExecutor
INVARIANT OperationWithinBudget
INVARIANT AudienceIsBounded
PROPERTY EndIsFinal
PROPERTY RunsEnd

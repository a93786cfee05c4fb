SPECIFICATION Spec
CONSTANTS
    w1 = w1
    m1 = m1
    Workers <- MCWorkers
    Maintenance = m1
    Clients <- MCClients
    HarnessOutcomes = {"succeeded"}
    MaxFaults = 1
    MaxRecoveries = 1
INVARIANT LaunchedOnce
INVARIANT LaunchIsAuthorized
INVARIANT SuccessLeavesNothing
PROPERTY ImplementsGovernedExecution
CHECK_DEADLOCK FALSE

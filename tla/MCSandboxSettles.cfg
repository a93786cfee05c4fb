SPECIFICATION FairSpec
CONSTANTS
    w1 = w1
    m1 = m1
    Workers <- MCWorkers
    Maintenance = m1
    Clients <- MCClients
    HarnessOutcomes = {"succeeded"}
    MaxFaults = 1
    MaxRecoveries = 0
PROPERTY ExecutionSettles
CHECK_DEADLOCK FALSE

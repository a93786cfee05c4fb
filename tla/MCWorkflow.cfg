SPECIFICATION FairSpec
CONSTANTS
    StepCount = 4
    StepType <- MCStepType
    DependsOn <- MCDependsOn
    MaxRetries <- MCMaxRetries
    Conditional <- MCConditional
    Compensable <- MCCompensable
    Workers = {w1, w2}
    Keys = {k1, k2}
    MaxRecoveries = 1
INVARIANTS  CheckpointsNeedTheOwner CompensationInReverse
    DependenciesFirst 
PROPERTIES FailedStepCompensates  NoRunIsForgotten
CHECK_DEADLOCK FALSE

SPECIFICATION Spec
CONSTANTS
    StepCount = 4
    StepType <- MCStepType
    DependsOn <- MCDependsOn
    MaxRetries <- MCMaxRetries
    Conditional <- MCConditional
    Compensable <- MCCompensable
    Workers = {w1}
    Keys = {k1}
    MaxRecoveries = 1
PROPERTIES CancellationIsFinal
CHECK_DEADLOCK FALSE

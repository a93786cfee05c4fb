SPECIFICATION Spec
CONSTANTS
    NoError = NoError
    NoEvent = NoEvent
    Tasks = {t1, t2, t3}
    Errors = {e1}
    RetryKeys = {k1, k2}
    RetryLimits = {2}
SYMMETRY Symmetry
INVARIANTS StartedOnCompletedDependencies AcyclicDependencies RetryAccounting OutboxAgreesWithLedger
CHECK_DEADLOCK FALSE

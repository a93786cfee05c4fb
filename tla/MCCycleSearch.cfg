SPECIFICATION SearchSpec
CONSTANTS Nodes = {t1, t2, t3, t4}
INVARIANTS AnswerIsRight
CHECK_DEADLOCK FALSE

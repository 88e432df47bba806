CONSTANTS
    Jobs = {j1, j2}
    MaxDepth = 4
SPECIFICATION Spec
CHECK_DEADLOCK FALSE
INVARIANTS SubjobsSound ReportsFirstError
PROPERTIES CompositeEnds

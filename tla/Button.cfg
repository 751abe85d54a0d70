SPECIFICATION Spec
CONSTANT MaxChanges = 8
INVARIANTS
    TypeOK
    NoEventInvented
    LoneFunctionMissesNothing
CHECK_DEADLOCK FALSE

SPECIFICATION Spec
CONSTANT Bytes <- MCBytes
INVARIANTS
    TypeOK
    
CHECK_DEADLOCK FALSE

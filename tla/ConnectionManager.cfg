SPECIFICATION Spec
CONSTANT MaxCalls = 3
INVARIANTS TypeOK StoppedIsClosed
 
CHECK_DEADLOCK FALSE

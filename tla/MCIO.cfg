

SPECIFICATION Spec
INVARIANTS SocketsAreSound    
CHECK_DEADLOCK FALSE



SPECIFICATION Spec
INVARIANTS  HeapsAreSound
 
CHECK_DEADLOCK FALSE

SPECIFICATION Spec
INVARIANT NoCircularWait
CHECK_DEADLOCK FALSE

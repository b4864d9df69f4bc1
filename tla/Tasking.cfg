SPECIFICATION Spec
INVARIANT StartsAsPrepared
CHECK_DEADLOCK FALSE

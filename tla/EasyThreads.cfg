SPECIFICATION Spec
INVARIANT BothIncrementsCount
CHECK_DEADLOCK FALSE

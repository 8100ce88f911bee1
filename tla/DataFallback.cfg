SPECIFICATION Spec
INVARIANT FallbackReachesCaller
CHECK_DEADLOCK FALSE

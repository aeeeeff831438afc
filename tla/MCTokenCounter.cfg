SPECIFICATION Spec
CONSTANT MaxChars = 8
INVARIANTS
    CountIsExact
    EstimateInProportion
CHECK_DEADLOCK FALSE

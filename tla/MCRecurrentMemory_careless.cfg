CONSTANTS
    Size = 3
    MaxPos = 4
    Delta <- MCDelta
    Setups <- Careless
SPECIFICATION Spec
INVARIANTS StateIsTrue
CHECK_DEADLOCK FALSE

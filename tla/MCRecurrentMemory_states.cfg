CONSTANTS
    Size = 3
    MaxPos = 4
    Delta <- MCDelta
    Setups <- MCSetups
SPECIFICATION Spec
INVARIANTS CellsBelong StateIsTrue
CHECK_DEADLOCK FALSE

CONSTANTS
    Size = 3
    MaxPos = 4
    Delta <- MCDelta
    Setups <- HolesOnly
SPECIFICATION Spec
INVARIANTS EmptyIsZeroed
CHECK_DEADLOCK FALSE

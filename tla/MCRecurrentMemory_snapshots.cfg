CONSTANTS
    Size = 3
    MaxPos = 4
    Delta <- MCDelta
    Setups <- DraftsOnly
SPECIFICATION Spec
INVARIANTS SnapshotsStayValid
CHECK_DEADLOCK FALSE

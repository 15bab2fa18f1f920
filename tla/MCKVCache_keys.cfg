CONSTANTS
    NSeqs = 2
    Size = 4
    MaxPos = 6
    Tok <- Tokens
    t1 = t1
    t2 = t2
    Ranges <- MCRanges
    Delta <- MCDelta
    Shapes <- MCShapes
    SplitBatches <- MCSplitBatches
    Setups <- MCSetups
SYMMETRY SameTokens
SPECIFICATION Spec
INVARIANTS CellsAgree SplitsAreWhole
PROPERTIES NoHoles KeepsSequences
CHECK_DEADLOCK FALSE

\* What NoHoles and KeepsSequences except or their setups leave out, each of which TLC finds:
\*   Setups         PROPERTIES
\*   WindowOnly     PrepareRestores    a trial purges tokens that are not put back
\*   WindowOnly     NeverHoles         and the ubatches leave a hole there
\*   RopeDiv        KeepsSequences     seq_div ropes a key to the wrong position
\*   SharedShift    KeepsSequences     seq_add moves a cell for its other sequences too
\*   Careless       KeepsSequences     a state is saved or restored with updates pending
CONSTANTS
    NSeqs = 2
    Size = 4
    MaxPos = 6
    Tok <- Tokens
    t1 = t1
    t2 = t2
    Ranges <- MCRanges
    Delta <- MCDelta
    Shapes <- MCShapes
    SplitBatches = {}
    Setups <- WindowOnly
SYMMETRY SameTokens
SPECIFICATION Spec
PROPERTIES NeverHoles
CHECK_DEADLOCK FALSE

CONSTANTS
    NSlots = 2
    NCtx = 8
    NBatch = 4
    NUbatch = 2
    Token <- MCToken
    Eos = 0
    Wrong = 3
    Continue <- MCContinue
    MaxDraft = 1
    CheckpointOffsets <- MCOffsets
    MaxCheckpoints = 2
    CheckpointStep = 1
    Setups <- MCSetups
SPECIFICATION FairSpec
INVARIANTS CacheIsTrue NothingAborts
PROPERTIES EveryRequestEnds Refines

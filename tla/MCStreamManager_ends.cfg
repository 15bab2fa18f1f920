CONSTANTS
    c1 = c1
    s1 = s1
    NoSession = NoSession
    Session = {s1, s2}
    Reader = {r1}
    Conv = {c1}
    ConvOf <- OneConvOf
    ConvRead <- OneConvRead
    CapBytes = 2
    From = {1}
    ChunkLen <- AllSizes
    NResults = 1
    MayDrop = {s2}
    MayHangUp = {r1}
    MayEndEarly = {s2}
    MayDelete = {s1}
    MayStop = TRUE
SPECIFICATION FairSpec
INVARIANTS BuffersAreWindows ReadsAreContiguous EndMeansAll OrphansAreClosed DoneMeansTold
PROPERTIES EveryReaderEnds CancelEndsProducer

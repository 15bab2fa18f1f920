CONSTANTS
    c1 = c1
    s1 = s1
    NoSession = NoSession
    Session = {s1}
    Reader = {r1}
    Conv = {c1}
    ConvOf <- OneConvOf
    ConvRead <- OneConvRead
    CapBytes = 2
    From = {0}
    ChunkLen <- OneByte
    NResults = 2
    MayDrop = {}
    MayHangUp = {}
    MayEndEarly = {}
    MayDelete = {}
    MayStop = FALSE
SPECIFICATION Spec
INVARIANTS LostMeans400

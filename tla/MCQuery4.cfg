\* Seven vertices, 256 networks, all methods.  The query ends.
SPECIFICATION Spec
CONSTANTS
    N = 7
    Queries <- QueriesHere
    GivenUp = 1000000
    NSamples = 2
    SampleDegree = 2
    SmallSum = 4
    WordBits = 2
    ByteBits = 1
    ByteSize = 4
    Group = 2
    Chunk = 2
INVARIANTS BoundsHold LimitDepthExact MostCentral
PROPERTIES CentralityFalls Answered
CHECK_DEADLOCK FALSE

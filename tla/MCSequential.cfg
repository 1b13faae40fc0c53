SPECIFICATION SeqSpec
CONSTANTS
    \* HashMap
    k1 = k1
    k2 = k2
    k3 = k3
    k4 = k4
    Keys = {k1, k2, k3, k4}
    Values = {x, y}
    Absent = absent
    Hash <- HashOf
    MinCapacity = 4
    MaxCapacity = 8
    \* Words and Allocator
    Word = 16
    MaxAlign = 4
    Null = null
    Junk = junk
    \* Arena
    Bases = {4, 8}
    Capacities = {7, 12}
    Sizes = {0, 3, 5, 15}
    Aligns = {0, 2, 4, 8}
    \* Pool
    PtrSize = 2
    BlockSizes = {0, 1, 2, 4, 5, 8, 12, 13, 15}
    BlockCounts = {0, 1, 2, 3, 4, 15}
    MaxTotal = 15
    \* Vector
    Elems = {x, y}
    ElemSizes = {1, 2, 3, 5}
    Wanted = {0, 1, 3, 6, 9, 15}
    VectorMinCapacity = 2
    VectorLimit = 7
    \* StringBuilder
    Chars = {"a", "b"}
    Nul = nul
    Views <- MCViews
    Hints = {0, 1, 5, 11, 15}
    SbMinCapacity = 2
    SbLimit = 14
    \* LinkedList
    Nodes = {n1, n2, n3, n4}
    Sentinel = sentinel
    NoNode = noNode
    \* ErrorContext
    Statuses = {"io", "oom"}
    Messages <- MCMessages
    NoMessage = noMessage
    MsgNul = nul
    MaxDepth = 2
    MessageCap = 3
    \* StrView, Parse and Path
    SplitTexts <- MCSplitTexts
    Sep = ";"
    MaxOuts = {0, 1, 2, 5}
    ParseTexts <- MCParseTexts
    NoText = noText
    Radixes = {0, 1, 8, 10, 16, 36}
    IntMax = 63
    Scratch = 4
    FloatMax = 90
    Segments <- MCSegments
    NoSegment = noSegment
    OutSizes = {0, 1, 2, 4, 6}
    PathNul = nul
    Untouched = untouched
INVARIANTS TableSound WellPlaced PoolSound VectorIsSequence AlwaysTerminated ListIsDeque TrailKept SplitExact  PathJoins
PROPERTY ImplementsMap

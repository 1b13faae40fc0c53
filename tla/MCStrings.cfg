SPECIFICATION StringsSpec
CONSTANTS
    SplitTexts <- MCSplitTexts
    Sep = ";"
    MaxOuts = {0, 1, 2, 5}
    ParseTexts <- MCParseTexts
    NoText = noText
    Radixes = {0, 1, 8, 10, 16, 36}
    IntMax = 63
    Scratch = 4
    FloatMax = 90
    Segments <- MCSegments
    NoSegment = noSegment
    OutSizes = {0, 1, 2, 4, 6}
    PathNul = nul
    Untouched = untouched
INVARIANT EmptyViewOneField

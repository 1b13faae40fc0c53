SPECIFICATION FileSpec
CONSTANTS
    Writers = {w1}
    Readers = {}
    Inodes = {i1, i2, i3, i4}
    None = none
    Size = 2
    Chunk = 1
    MaxVersion = 2
SYMMETRY Symmetry
INVARIANT Durable

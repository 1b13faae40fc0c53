SPECIFICATION FileSpec
CONSTANTS
    Writers = {w1}
    Readers = {r1}
    Inodes = {i1, i2, i3, i4}
    None = none
    Size = 2
    Chunk = 1
    MaxVersion = 2
SYMMETRY Symmetry
INVARIANTS NeverHalfWritten ReadsOneVersion
PROPERTY InstallsOwnVersion

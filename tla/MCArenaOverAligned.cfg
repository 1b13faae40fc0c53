SPECIFICATION ArenaSpec
CONSTANTS
    Word = 16
    MaxAlign = 4
    Bases = {4, 8}
    Capacities = {7, 12}
    Sizes = {0, 3, 5, 15}
    Aligns = {0, 2, 4, 8}
INVARIANT Aligned

SPECIFICATION Spec
CONSTANTS
    Values = {a, b}
    Nodes = {n1, n2, n3}
    Null = null
    Garbage = garbage
INVARIANTS NoUseAfterFree NoLeak
PROPERTY ImplementsFifo

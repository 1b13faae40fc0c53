SPECIFICATION Spec
CONSTANTS
    Values = {a, b}
    Capacity = 2
    Word = 8
    Observers = {"producer", "consumer"}
    Garbage = garbage
INVARIANTS NoSlotRace CountInRange
PROPERTY ImplementsFifo

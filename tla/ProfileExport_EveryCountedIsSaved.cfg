SPECIFICATION Spec
CONSTANTS
    Runs = {r1}
    cpu = cpu
    memory = memory
    heap = heap
    Types = {cpu, memory, heap}
    Listings <- MCRepeated
    SafeName <- MCSafeName
    MaxTime = 0
INVARIANT EveryCountedIsSaved
CHECK_DEADLOCK FALSE

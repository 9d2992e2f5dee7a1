SPECIFICATION Spec
CONSTANTS
    Runs = {r1, r2}
    cpu = cpu
    memory = memory
    heap = heap
    Types = {cpu, memory, heap}
    Listings <- MCListings
    SafeName <- MCSafeName
    MaxTime = 1
INVARIANTS TypeOK CountedIsSaved AtMostOneLateFile
PROPERTY EveryTypeTried
SYMMETRY RunsAlike
CHECK_DEADLOCK FALSE

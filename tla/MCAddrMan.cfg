CONSTANTS
    a = a
    a8 = a8
    b = b
    c = c
    d = d
    s1 = s1
    s2 = s2
    Services = {a, a8, b, c, d}
    Host <- MCHost
    Sources = {s1, s2}
    Buckets = {1, 2}
    Positions = {1, 2}
    NewBucket <- MCNewBucket
    NewPosition <- MCNewPosition
    TriedSlots = {1, 2}
    TriedSlot <- MCTriedSlot
    MaxRefs = 2
    MaxCollisions = 2
    MaxIds = 4
    MaxRead = 0
    MaxShuffled = 2
SPECIFICATION Spec
INVARIANTS
    TablesExact
    AssertionsHold
    CollisionsAreReal
    DumpRestores
PROPERTY EvictedGoHome

SPECIFICATION Spec
CONSTANTS
    w1 = w1
    w2 = w2
    noFile = noFile
    old = old
    NoFile = noFile
    Old = old
    N = 2
    Len <- MCLen
    Writer = {w1, w2}
    Overwrite = {w1}
    Modes <- MCModes
INVARIANTS
    TypeOK
PROPERTIES
    WritesAtomic
    TargetStays

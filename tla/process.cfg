SPECIFICATION FairSpec
CONSTANTS
    c1 = c1
    c2 = c2
    t1 = t1
    o1 = o1
    noWorker = noWorker
    NoWorker = noWorker
    Other = {o1}
    Client = {c1, c2}
    Conn = {t1}
    HsCap = 1
    SessCap = 1
    FwdCap = 1
INVARIANTS
    TypeOK
    NothingLeft
    CancelHasCause
    NeverStuck
PROPERTIES
    FirstErrorKept
    Exits

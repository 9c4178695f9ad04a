SPECIFICATION FairSpec
CONSTANTS
    e1 = e1
    m1 = m1
    s1 = s1
    Exec = {e1}
    ExecAck = {m1}
    Streams = {s1}
    TaskCap = 1
    StreamCap = 1
INVARIANTS
    TypeOK
    DrainedAtExit
    QuietBeforeHeartbeat
    HolderServed
    NeverStuck
PROPERTIES
    CallsKept
    CallsAnswered
    NodeEnds

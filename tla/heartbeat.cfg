SPECIFICATION Spec
CONSTANTS
    FirstTimeout = 4
    Interval = 5
    HbTimeout = 8
    IdleTimeout = 9
    MaxDelay = 1
    MaxSkew = 1
INVARIANTS
    TypeOK
    NoFalseAlarm
    SilenceNoticed

SPECIFICATION PwaSpec
CONSTANTS
    Session = {s1}
    Caller = {s1}
    IdleTicks = 2
    NoSession = NoSession
    EarlyBye = FALSE
INVARIANT NoOrphanCall
CHECK_DEADLOCK FALSE

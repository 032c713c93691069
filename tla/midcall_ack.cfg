SPECIFICATION MidSpec
CONSTANTS
    Chore = {"NgnRe", "ExtRe"}
    MaxCSeq = 4
INVARIANT EveryLegAcked
CHECK_DEADLOCK FALSE

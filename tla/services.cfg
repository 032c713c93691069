SPECIFICATION Spec
CONSTANTS
    Session = {s1}
    Caller = {s1}
    IdleTicks = 2
    NoSession = NoSession
    EarlyBye = FALSE
    Grants = {1, 3}
    RetryDelay = 2
    HasPassword = TRUE
    Aor = {a1, a2}
    None = None
    MaxExpires = 2
    Asked = {0, 3}
    Requests = 3
    InternalId = {i1, i2}
    MaxInternal = 1
    IntercomEnabled = TRUE
    Rec = {r1}
    MaxSamples = 2
    Crashes = 1
    Chore = {"ExtRe", "NgnRe", "ExtBye", "NgnBye", "Refer"}
    MaxCSeq = 6
INVARIANTS TypeOK CallsKept
PROPERTIES SessionWindsUp RegistrationsKept   MidCallAnswered
CHECK_DEADLOCK FALSE

SPECIFICATION Spec
CONSTANTS
    Dialer = {d1, d2}
    MinInterval = 2
    Steps <- BackoffSteps
    DefaultWait = 3
    MaxWait = 4
    Jitter = 1
    Statuses = {404, 486, 503}
    RetryAfters = {2}
    NoTime = NoTime
    Horizon = 5
    Modulus = 8
    Window = 3
    Depth = 2
    FirstIndex = 6
    LastIndex = 9
    Absent = Absent
    MaxGap = 2
    Durations = {3}
    FrameLen = 2
    Repeats = 1
    MaxFrames = 2
    Cid = {c1, c2}
    Slots = 1
    Digit = {x1}
    HasConsumer = TRUE
    LogSize = 1
    MaxSms = 2
    Sender = {t1}
    TopPort = 7
    BridgePort = 6
    MaxHolds = 3
    MaxRequests = 3
    Source = {x1, x2}
    LastNumber = 3
    PlayoutDepth = 1
    MaxBlocks = 1
    LossField = 4
    CountField = 2
    MaxEvents = 5
    RtpTicks = 2
    NoStamp = NoStamp
    Leg = {l1, l2}
    CommandSlots = 2
    MediaBuffer = 1
    MaxLines = 2
    PushAor = {a1}
    Browser = {b1, b2}
    MaxEndpoints = 2
    TokenLife = 1
    MaxRings = 1
    Hours = 3
    Weekday = {"Mon", "Tue"}
    Number = {"n1", "n2"}
    Name = {"alice", "bob"}
    Alias <- DialAlias
    IntercomOn = TRUE
    MaxRestarts = 1
    NbFrame = 2
    Ratio = 6
    MaxFrame = 72
    Delay = 1
    Path = {p1, p2, p3}
    MaxTraces = 2
    MaxBytes = 6
    MaxRecords = 4
    CallId = {c1, c2, c3}
    MaxCalls = 2
    MaxMarks = 5
    RelPrack = {p1, p2}
    RelT2 = 2
    RelLimit = 6
    Presses = 2
    KeyChar = {"d", "x"}
    MaxMillis = 1
INVARIANTS TypeOK   MediaReleased  
CHECK_DEADLOCK FALSE

SPECIFICATION FairSpec
CONSTANTS
    Request = {r1}
    CallId = {r1}
    CallOf <- TwoCalls
    Aor = {a1}
    AorOf <- OneAor
    Faulty = {r1}
    Transferable = {r1}
    Wrap = 8
    None = None
PROPERTIES CancelInTimeIsFinal EveryInviteAnswered
CHECK_DEADLOCK FALSE

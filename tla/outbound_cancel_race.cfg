SPECIFICATION Spec
CONSTANTS
    Request = {r1}
    CallId = {r1}
    CallOf <- TwoCalls
    Aor = {a1}
    AorOf <- OneAor
    Faulty = {}
    Transferable = {}
    Wrap = 8
    None = None
INVARIANT CancelledNotAnswered
CHECK_DEADLOCK FALSE

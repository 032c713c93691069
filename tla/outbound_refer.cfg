SPECIFICATION Spec
CONSTANTS
    Request = {r1}
    CallId = {r1}
    CallOf <- TwoCalls
    Aor = {a1}
    AorOf <- OneAor
    Faulty = {}
    Transferable = {r1}
    Wrap = 8
    None = None
INVARIANT GaugeNotBelowZero
CHECK_DEADLOCK FALSE

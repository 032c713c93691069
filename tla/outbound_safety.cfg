SPECIFICATION Spec
CONSTANTS
    Request = {r1, r2}
    CallId = {r1, r2}
    CallOf <- TwoCalls
    Aor = {a1}
    AorOf <- OneAor
    Faulty = {r2}
    Transferable = {}
    Wrap = 8
    None = None
INVARIANTS RegistryInverse NoForgottenDialog OneNgnBye GaugeExact LogTruthful
PROPERTY ImplementsService
CHECK_DEADLOCK FALSE

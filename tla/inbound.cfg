SPECIFICATION FairSpec
CONSTANTS
    SipLeg = {s1}
    WebLeg = {w1}
    SipStatus = {503}
    None = None
    Prack = {p1, p2}
    GoodRAck = {p1}
    Bye = {b1}
    Others = 1
    HastyBye = FALSE
INVARIANTS TypeOK PrackBeforeAnswer NoForgottenCall WinnerUndisturbed RefusalIsBest
           ReleasedWhenOver 
PROPERTIES ImplementsService EveryInviteAnswered WaitersDrain
CHECK_DEADLOCK FALSE

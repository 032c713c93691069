SPECIFICATION FairSpec
CONSTANTS
    Plan = {p1}
    InviteTx <- MCInviteTx
    NonInviteTx <- MCNonInviteTx
    FirstTx <- MCFirst
    RetryTx <- MCRetry
    CancelTx <- MCCancel
    HasCredentials = FALSE
    MaxQueue = 1
    Codes = {"1xx", "2xx", "Non2xx"}
    OtherCodes = {"1xx", "2xx"}
PROPERTIES InviteReturns CancelReturns TableDrains
CHECK_DEADLOCK FALSE

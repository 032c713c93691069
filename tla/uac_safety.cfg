SPECIFICATION Spec
CONSTANTS
    Plan = {p1}
    InviteTx <- MCInviteTx
    NonInviteTx <- MCNonInviteTx
    FirstTx <- MCFirst
    RetryTx <- MCRetry
    CancelTx <- MCCancel
    HasCredentials = TRUE
    MaxQueue = 1
    Codes = {"1xx", "2xx", "401"}
    OtherCodes = {"2xx"}
INVARIANTS TypeOK CancelOnlyAfterProvisional EveryEntryOwned FinalPublishedFirst
PROPERTIES ProgressMonotone 
CHECK_DEADLOCK FALSE

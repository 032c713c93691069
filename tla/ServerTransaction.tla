------------------------- MODULE ServerTransaction --------------------------
(***************************************************************************)
(* The server transaction of one INVITE (src/sip/transaction.rs).  respond *)
(* sends, then moves the state; a final response starts a task with timers *)
(* G and H that repeats it.  Dropping the transaction aborts that task.    *)
(* handle_ack and handle_retransmit, which would end or trigger the        *)
(* repetition, have no caller outside the tests: the receive loop gives    *)
(* every ACK and every repeated request to the handler instead.            *)
(***************************************************************************)
EXTENDS Naturals

VARIABLES
    txState,   \* ServerTransaction.state
    txTimer    \* its timer task; while it is "Running", Timer G repeats the response

txVars == <<txState, txTimer>>

TxInit == txState = "None" /\ txTimer = "Off"

TxNew == txState' = "Proceeding" /\ UNCHANGED txTimer

\* A final response always restarts the timer task, a second one too.
TxRespond(code) ==
    /\ txState' = IF code >= 200 THEN "Completed" ELSE txState
    /\ txTimer' = IF code >= 200 THEN "Running" ELSE txTimer

\* 32 s without an ACK.
TimerH ==
    /\ txTimer = "Running"
    /\ txTimer' = "Ended"
    /\ UNCHANGED txState

\* Drop: the last Arc is gone.
TxDrop ==
    /\ txTimer' = IF txTimer = "Running" THEN "Aborted" ELSE txTimer
    /\ UNCHANGED txState

TxTypeOK ==
    /\ txState \in {"None", "Proceeding", "Completed"}
    /\ txTimer \in {"Off", "Running", "Ended", "Aborted"}
=============================================================================

-------------------------------- MODULE Uac ---------------------------------
(***************************************************************************)
(* The user agent client on top of the transaction layer (src/sip/uac.rs): *)
(* Uac::invite with its single re-authentication, and Uac::cancel_pending, *)
(* which runs in another task (the handler of an extension's CANCEL).      *)
(*                                                                         *)
(* A plan is one InvitePlan.  Its INVITE uses the branch FirstTx[p]; the   *)
(* INVITE repeated with credentials is a new transaction, RetryTx[p].  The *)
(* CANCEL is the non-INVITE transaction CancelTx[p].                       *)
(***************************************************************************)
EXTENDS TransactionLayer

CONSTANTS
    Plan,         \* the InvitePlans the transaction users drive
    FirstTx, RetryTx, CancelTx,  \* their transactions, functions on Plan
    HasCredentials               \* auth_username and auth_password are set

ASSUME PlanAssumption ==
    /\ FirstTx \in [Plan -> InviteTx]
    /\ RetryTx \in [Plan -> InviteTx]
    /\ CancelTx \in [Plan -> NonInviteTx]
    /\ \A p, q \in Plan : /\ p # q => FirstTx[p] # FirstTx[q]
                          /\ p # q => RetryTx[p] # RetryTx[q]
                          /\ p # q => CancelTx[p] # CancelTx[q]
                          /\ FirstTx[p] # RetryTx[q]
    /\ HasCredentials \in BOOLEAN

VARIABLES
    invite,   \* where Uac::invite stands for each plan
    cancel,   \* where Uac::cancel_pending stands for each plan
    seen1xx   \* history: INVITEs for which the receive loop processed a 1xx

uacVars == <<invite, cancel, seen1xx>>
vars == <<layerVars, uacVars>>

InviteStages == {"Idle", "First", "Retry", "Established", "Failed", "Err"}
CancelStages == {"Idle", "Subscribed", "Waiting", "Sending", "AwaitFinal",
                 "Sent", "NotSent", "Err"}

Init ==
    /\ LayerInit
    /\ invite = [p \in Plan |-> "Idle"]
    /\ cancel = [p \in Plan |-> "Idle"]
    /\ seen1xx = {}

-----------------------------------------------------------------------------
(* Uac::invite                                                             *)

InviteTo(p, stage) == invite' = [invite EXCEPT ![p] = stage]

InviteStart(p) ==
    /\ invite[p] = "Idle"
    /\ CreateClient(FirstTx[p])
    /\ InviteTo(p, "First")
    /\ UNCHANGED <<cancel, seen1xx>>

\* A 401/407 is answered once, with credentials, under a new branch: the
\* retry's client transaction is created in the same breath.
Challenged(p) == HasCredentials /\ outcome[FirstTx[p]] = "401"

\* Mutant: the retry reuses the branch of the first INVITE.
InviteRetrySameBranch(p) ==
    /\ invite[p] = "First"
    /\ task[FirstTx[p]] = "Done"
    /\ Challenged(p)
    /\ clients' = clients \cup {FirstTx[p]}
    /\ provisional' = provisional \cup {FirstTx[p]}
    /\ task' = [task EXCEPT ![FirstTx[p]] = "Spawned"]
    /\ InviteTo(p, "Retry")
    /\ UNCHANGED <<progress, queue, state, outcome, absorber, dispatch,
                   requests, responses, acked, cancel, seen1xx>>

InviteRetry(p) ==
    /\ invite[p] = "First"
    /\ task[FirstTx[p]] = "Done"
    /\ Challenged(p)
    /\ CreateClient(RetryTx[p])
    /\ InviteTo(p, "Retry")
    /\ UNCHANGED <<cancel, seen1xx>>

\* What a final outcome of the last INVITE means to the caller: finalize_2xx
\* makes the dialog of a 2xx and sends its ACK, or fails at either; any other
\* final response is a failure; a transport error or Timer B is an error.
Concluded(r) == CASE r = "2xx" -> {"Established", "Err"}
                  [] r = "Err" -> {"Err"}
                  [] OTHER     -> {"Failed"}

InviteReturn(p) ==
    /\ \/ /\ invite[p] = "First"
          /\ task[FirstTx[p]] = "Done"
          /\ ~Challenged(p)
          /\ \E s \in Concluded(outcome[FirstTx[p]]) : InviteTo(p, s)
       \/ /\ invite[p] = "Retry"
          /\ task[RetryTx[p]] = "Done"
          /\ \E s \in Concluded(outcome[RetryTx[p]]) : InviteTo(p, s)
    /\ UNCHANGED <<layerVars, cancel, seen1xx>>

-----------------------------------------------------------------------------
(* Uac::cancel_pending                                                     *)

CancelTo(p, stage) == cancel' = [cancel EXCEPT ![p] = stage]

\* provisional_watch: no table entry means the INVITE is taken to be over.
CancelSubscribe(p) ==
    /\ cancel[p] = "Idle"
    /\ CancelTo(p, IF FirstTx[p] \in provisional THEN "Subscribed" ELSE "NotSent")
    /\ UNCHANGED <<layerVars, invite, seen1xx>>

\* Mutant: a CANCEL is sent without waiting for a 1xx.
OnProgressEager(v) == IF v = "Final" THEN "NotSent" ELSE "Sending"

OnProgress(v) == CASE v = "Pending"     -> "Waiting"
                   [] v = "Provisional" -> "Sending"
                   [] v = "Final"       -> "NotSent"

CancelRead(p) ==
    /\ cancel[p] = "Subscribed"
    /\ CancelTo(p, OnProgress(progress[FirstTx[p]]))
    /\ UNCHANGED <<layerVars, invite, seen1xx>>

\* changed() wakes up on a new value, which may have moved on meanwhile.
CancelWake(p) ==
    /\ cancel[p] = "Waiting"
    /\ progress[FirstTx[p]] # "Pending"
    /\ CancelTo(p, OnProgress(progress[FirstTx[p]]))
    /\ UNCHANGED <<layerVars, invite, seen1xx>>

\* All senders of the watch are gone: the table's and the receive loop's clone.
WatchClosed(t) ==
    /\ t \notin provisional
    /\ dispatch.at # "Idle" => ~(dispatch.id = t /\ dispatch.watch)

CancelClosed(p) ==
    /\ cancel[p] = "Waiting"
    /\ progress[FirstTx[p]] = "Pending"
    /\ WatchClosed(FirstTx[p])
    /\ CancelTo(p, "NotSent")
    /\ UNCHANGED <<layerVars, invite, seen1xx>>

\* CANCEL_PROVISIONAL_WAIT has passed.
CancelTimeout(p) ==
    /\ cancel[p] = "Waiting"
    /\ CancelTo(p, "Err")
    /\ UNCHANGED <<layerVars, invite, seen1xx>>

CancelSend(p) ==
    /\ cancel[p] = "Sending"
    /\ CreateClient(CancelTx[p])
    /\ CancelTo(p, "AwaitFinal")
    /\ UNCHANGED <<invite, seen1xx>>

\* Mutant: an error of the CANCEL transaction is not passed on.
CancelReturnOnResponse(p) ==
    /\ cancel[p] = "AwaitFinal"
    /\ task[CancelTx[p]] = "Done"
    /\ outcome[CancelTx[p]] # "Err"
    /\ CancelTo(p, "Sent")
    /\ UNCHANGED <<layerVars, invite, seen1xx>>

CancelReturn(p) ==
    /\ cancel[p] = "AwaitFinal"
    /\ task[CancelTx[p]] = "Done"
    /\ CancelTo(p, IF outcome[CancelTx[p]] = "Err" THEN "Err" ELSE "Sent")
    /\ UNCHANGED <<layerVars, invite, seen1xx>>

-----------------------------------------------------------------------------
\* The watch step of the layer, with the history of the 1xx it processed.
Watch ==
    /\ DispatchWatch
    /\ seen1xx' = IF dispatch.code \in Provisionals
                  THEN seen1xx \cup {dispatch.id} ELSE seen1xx
    /\ UNCHANGED <<invite, cancel>>

Layer == Watch \/ (LayerTasks /\ UNCHANGED uacVars)

InviteStep(p) == InviteStart(p) \/ InviteRetry(p) \/ InviteReturn(p)

CancelStep(p) ==
    \/ CancelSubscribe(p) \/ CancelRead(p) \/ CancelWake(p) \/ CancelClosed(p)
    \/ CancelTimeout(p) \/ CancelSend(p) \/ CancelReturn(p)

Next == Layer \/ \E p \in Plan : InviteStep(p) \/ CancelStep(p)

Spec == Init /\ [][Next]_vars

\* The tokio runtime polls every task that is ready and fires every timer
\* that is due.  Nothing is assumed of the peer or the network.
Fairness ==
    /\ \A t \in Tx :
          /\ WF_vars(task[t] = "Spawned" /\ (FirstSend(t) \/ SendFails(t)) /\ UNCHANGED uacVars)
          /\ WF_vars((RecvFinal(t) \/ TimerBF(t)) /\ UNCHANGED uacVars)
          /\ WF_vars((Finish(t) \/ TimerD(t)) /\ UNCHANGED uacVars)
    /\ WF_vars(Watch \/ (DispatchQueue /\ UNCHANGED uacVars))
    /\ \A p \in Plan : /\ WF_vars(InviteRetry(p) \/ InviteReturn(p))
                       /\ WF_vars(CancelStep(p) /\ cancel[p] # "Idle")

FairSpec == Spec /\ Fairness
-----------------------------------------------------------------------------
(* Properties                                                              *)

TypeOK ==
    /\ LayerTypeOK
    /\ invite \in [Plan -> InviteStages]
    /\ cancel \in [Plan -> CancelStages]
    /\ seen1xx \subseteq Tx

\* RFC 3261 9.1, the reason for the watch: a CANCEL transaction exists only
\* when a provisional response to that INVITE had been processed before.
CancelOnlyAfterProvisional ==
    \A p \in Plan : task[CancelTx[p]] # "None" => FirstTx[p] \in seen1xx

Rank(v) == CASE v = "Pending" -> 0 [] v = "Provisional" -> 1 [] v = "Final" -> 2

\* The watch never goes back, whatever order responses arrive in.
ProgressMonotone ==
    [][\A t \in InviteTx : Rank(progress'[t]) >= Rank(progress[t])]_vars

\* The user agent drives the transaction layer only through its interface.
ImplementsLayer == LayerSpec

\* Uac::invite and Uac::cancel_pending always return.
InviteReturns ==
    \A p \in Plan : invite[p] # "Idle" ~> invite[p] \in {"Established", "Failed", "Err"}

CancelReturns ==
    \A p \in Plan : cancel[p] # "Idle" ~> cancel[p] \in {"Sent", "NotSent", "Err"}

\* The transaction table drains: no entry outlives its transaction.
TableDrains == <>[](clients = {} /\ provisional = {})

\* The facts that make CancelOnlyAfterProvisional inductive: a watch that says
\* Provisional, and a cancel_pending about to send, both rest on a 1xx.
ProvisionalSeen ==
    \A t \in InviteTx : progress[t] = "Provisional" => t \in seen1xx

SendingSeen ==
    \A p \in Plan : cancel[p] = "Sending" => FirstTx[p] \in seen1xx

CancelInv == ProvisionalSeen /\ SendingSeen /\ CancelOnlyAfterProvisional
=============================================================================

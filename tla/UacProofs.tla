------------------------------ MODULE UacProofs -----------------------------
(***************************************************************************)
(* What holds of the transaction layer for every set of transactions and   *)
(* every bound: type correctness, that a table entry always has an owner,  *)
(* and that a final response is announced on the watch before run()        *)
(* returns it.  And of the user agent client for every set of plans: it    *)
(* implements the layer's specification, inherits its theorems, and never  *)
(* sends a CANCEL before a provisional response.                           *)
(***************************************************************************)
EXTENDS Uac, TLAPS

\* One step of the layer keeps every variable in its type.
LEMMA LayerTypeStep == LayerTypeOK /\ [LayerNext]_layerVars => LayerTypeOK'
<1> SUFFICES ASSUME LayerTypeOK, [LayerNext]_layerVars PROVE LayerTypeOK'
  OBVIOUS
<1> USE LayerAssumption DEF LayerTypeOK, Tx
<1>1. ASSUME NEW t \in Tx, CreateClient(t) PROVE LayerTypeOK'
  BY <1>1 DEF CreateClient, InitialState, Tasks, States
<1>2. ASSUME NEW t \in Tx, FirstSend(t) PROVE LayerTypeOK'
  BY <1>2 DEF FirstSend, Tasks
<1>3. ASSUME NEW t \in Tx, SendFails(t) PROVE LayerTypeOK'
  <2>1. <<>> \in Seq(UsedCodes) OBVIOUS
  <2>2. QED BY <1>3, <2>1 DEF SendFails, ReturnWith, Tasks, Outcomes
<1>4. ASSUME NEW t \in Tx, RecvProvisional(t) PROVE LayerTypeOK'
  BY <1>4 DEF RecvProvisional, States
<1>5. ASSUME NEW t \in Tx, RecvFinal(t) PROVE LayerTypeOK'
  <2>1. queue[t] \in Seq(UsedCodes) /\ Tail(queue[t]) \in Seq(UsedCodes) /\ <<>> \in Seq(UsedCodes)
    BY <1>5 DEF RecvFinal, Acks
  <2>2. Head(queue[t]) \in Outcomes
    BY <1>5 DEF RecvFinal, Acks, Outcomes
  <2>3. QED BY <1>5, <2>1, <2>2 DEF RecvFinal, Acks, ReturnWith, Tasks, States
<1>6. ASSUME NEW t \in Tx, Retransmit(t) PROVE LayerTypeOK'
  BY <1>6 DEF Retransmit
<1>7. ASSUME NEW t \in Tx, TimerBF(t) PROVE LayerTypeOK'
  <2>1. <<>> \in Seq(UsedCodes) OBVIOUS
  <2>2. QED BY <1>7, <2>1 DEF TimerBF, ReturnWith, Tasks, Outcomes, States
<1>8. ASSUME NEW t \in Tx, Finish(t) PROVE LayerTypeOK'
  BY <1>8 DEF Finish, DropClient, Tasks
<1>9. ASSUME NEW t \in Tx, Absorb(t) PROVE LayerTypeOK'
  BY <1>9 DEF Absorb
<1>10. ASSUME NEW t \in Tx, TimerD(t) PROVE LayerTypeOK'
  <2>1. <<>> \in Seq(UsedCodes) OBVIOUS
  <2>2. QED BY <1>10, <2>1 DEF TimerD, DropClient
<1>11. ASSUME NEW m \in responses, DispatchLookup(m) PROVE LayerTypeOK'
  <2>1. m.id \in Tx /\ m.code \in UsedCodes
    BY DEF Response
  <2>2. dispatch' \in Dispatching
    BY <1>11, <2>1 DEF DispatchLookup, Dispatching
  <2>3. QED BY <1>11, <2>2 DEF DispatchLookup
<1>12. ASSUME DispatchWatch PROVE LayerTypeOK'
  <2>1. dispatch \in Dispatching
    BY <1>12 DEF DispatchWatch, Idle
  <2>2. dispatch' \in Dispatching
    BY <1>12, <2>1 DEF DispatchWatch, Dispatching
  <2>3. progress' \in [InviteTx -> Progress]
    BY <1>12 DEF DispatchWatch, Advance, ProgressOf, Progress
  <2>4. QED BY <1>12, <2>2, <2>3 DEF DispatchWatch
<1>13. ASSUME DispatchQueue PROVE LayerTypeOK'
  <2>1. dispatch \in Dispatching
    BY <1>13 DEF DispatchQueue, Idle
  <2>2. dispatch.id \in Tx /\ dispatch.code \in UsedCodes
    BY <2>1 DEF Dispatching
  <2>3. queue' \in [Tx -> Seq(UsedCodes)]
    BY <1>13, <2>2 DEF DispatchQueue
  <2>4. QED BY <1>13, <2>3 DEF DispatchQueue
<1>14. ASSUME NEW t \in Tx, NEW c \in UsedCodes, PeerAnswers(t, c) PROVE LayerTypeOK'
  BY <1>14 DEF PeerAnswers, Response
<1>15. ASSUME NEW t \in Tx, LoseRequest(t) PROVE LayerTypeOK'
  BY <1>15 DEF LoseRequest
<1>16. CASE UNCHANGED layerVars
  BY <1>16 DEF layerVars
<1>17. QED
  BY <1>1, <1>2, <1>3, <1>4, <1>5, <1>6, <1>7, <1>8, <1>9, <1>10, <1>11,
     <1>12, <1>13, <1>14, <1>15, <1>16
  DEF LayerNext, LayerStep, LayerTasks, TxStep

\* Every variable of the transaction layer always holds a value of its type.
THEOREM LayerTypeCorrect == LayerSpec => []LayerTypeOK
<1>1. LayerInit => LayerTypeOK
  <2>1. <<>> \in Seq(UsedCodes) OBVIOUS
  <2>2. QED
    BY <2>1 DEF LayerInit, LayerTypeOK, Progress, States, Tasks, Outcomes, Idle
<1>2. QED
  BY <1>1, LayerTypeStep, PTL DEF LayerSpec

-----------------------------------------------------------------------------
\* Ownership of table entries is preserved, provided that an ACK can be built
\* for every non-2xx response.
LEMMA OwnerStep ==
    ASSUME "NoTo" \notin UsedCodes
    PROVE  LayerTypeOK /\ OwnerInv /\ [LayerNext]_layerVars => OwnerInv'
<1> SUFFICES ASSUME LayerTypeOK, OwnerInv, [LayerNext]_layerVars PROVE OwnerInv'
  OBVIOUS
<1> USE DEF OwnerInv, EveryEntryOwned, ReturnedOwned
<1>1. ASSUME NEW t \in Tx, CreateClient(t) PROVE OwnerInv'
  BY <1>1 DEF CreateClient, LayerTypeOK
<1>2. ASSUME NEW t \in Tx, FirstSend(t) PROVE OwnerInv'
  BY <1>2 DEF FirstSend, LayerTypeOK
<1>3. ASSUME NEW t \in Tx, SendFails(t) PROVE OwnerInv'
  BY <1>3 DEF SendFails, ReturnWith, LayerTypeOK, NonSuccess
<1>4. ASSUME NEW t \in Tx, RecvFinal(t) PROVE OwnerInv'
  <2>1. queue[t] \in Seq(UsedCodes) /\ Head(queue[t]) # "NoTo"
    BY <1>4 DEF RecvFinal, Acks, LayerTypeOK
  <2>2. t \in InviteTx /\ Head(queue[t]) \in NonSuccess => t \in absorber'
    BY <1>4, <2>1 DEF RecvFinal, Acks
  <2>3. absorber \subseteq absorber' /\ clients' = clients
    BY <1>4 DEF RecvFinal, Acks
  <2>4. /\ task' = [task EXCEPT ![t] = "Returning"]
        /\ outcome' = [outcome EXCEPT ![t] = Head(queue[t])]
    BY <1>4 DEF RecvFinal, Acks, ReturnWith
  <2>5. QED BY <2>2, <2>3, <2>4 DEF LayerTypeOK
<1>5. ASSUME NEW t \in Tx, TimerBF(t) PROVE OwnerInv'
  BY <1>5 DEF TimerBF, ReturnWith, LayerTypeOK, NonSuccess
<1>6. ASSUME NEW t \in Tx, Finish(t) PROVE OwnerInv'
  BY <1>6 DEF Finish, AbsorberOwnsCleanup, DropClient, LayerTypeOK
<1>7. ASSUME NEW t \in Tx, TimerD(t) PROVE OwnerInv'
  BY <1>7 DEF TimerD, DropClient
<1>8. CASE UNCHANGED <<clients, task, outcome, absorber>>
  BY <1>8
<1>9. QED
  BY <1>1, <1>2, <1>3, <1>4, <1>5, <1>6, <1>7, <1>8
  DEF LayerNext, LayerStep, LayerTasks, TxStep, layerVars, RecvProvisional,
      Retransmit, Absorb, DispatchLookup, DispatchWatch, DispatchQueue,
      PeerAnswers, LoseRequest

\* No transaction is ever left in the table without a task that will remove
\* it, for any number of transactions: the code's cleanup is complete as long
\* as every 300-699 response has the To header the ACK needs.
THEOREM EntriesOwned ==
    ASSUME "NoTo" \notin UsedCodes
    PROVE  LayerSpec => []EveryEntryOwned
<1>1. LayerInit => OwnerInv
  BY DEF LayerInit, OwnerInv, EveryEntryOwned, ReturnedOwned
<1>2. OwnerInv => EveryEntryOwned
  BY DEF OwnerInv
<1>3. QED
  BY <1>1, <1>2, OwnerStep, LayerTypeCorrect, PTL DEF LayerSpec

-----------------------------------------------------------------------------
\* A final response is announced on the watch before it can be returned.
LEMMA PublishStep == LayerTypeOK /\ PublishInv /\ [LayerNext]_layerVars => PublishInv'
<1> SUFFICES ASSUME LayerTypeOK, PublishInv, [LayerNext]_layerVars PROVE PublishInv'
  OBVIOUS
<1> USE LayerAssumption
    DEF PublishInv, TablesAgree, DispatchPublished, QueuePublished,
        FinalPublishedFirst, Tx
<1>1. ASSUME NEW t \in Tx, CreateClient(t) PROVE PublishInv'
  BY <1>1 DEF CreateClient
<1>2. ASSUME NEW t \in Tx, SendFails(t) PROVE PublishInv'
  <2>1. QueuePublished'
    BY <1>2 DEF SendFails, LayerTypeOK
  <2>2. FinalPublishedFirst'
    BY <1>2 DEF SendFails, ReturnWith, LayerTypeOK, Finals, NonSuccess
  <2>3. QED BY <1>2, <2>1, <2>2 DEF SendFails
<1>3. ASSUME NEW t \in Tx, RecvProvisional(t) PROVE PublishInv'
  <2>1. QueuePublished'
    BY <1>3 DEF RecvProvisional, LayerTypeOK
  <2>2. QED BY <1>3, <2>1 DEF RecvProvisional
<1>4. ASSUME NEW t \in Tx, RecvFinal(t) PROVE PublishInv'
  <2>1. QueuePublished'
    BY <1>4 DEF RecvFinal, Acks, LayerTypeOK
  <2>2. t \in InviteTx => progress[t] = "Final"
    BY <1>4 DEF RecvFinal, Acks, LayerTypeOK
  <2>3. FinalPublishedFirst'
    BY <1>4, <2>2 DEF RecvFinal, Acks, ReturnWith, LayerTypeOK
  <2>4. QED BY <1>4, <2>1, <2>3 DEF RecvFinal, Acks
<1>5. ASSUME NEW t \in Tx, TimerBF(t) PROVE PublishInv'
  <2>1. QueuePublished'
    BY <1>5 DEF TimerBF, LayerTypeOK
  <2>2. FinalPublishedFirst'
    BY <1>5 DEF TimerBF, ReturnWith, LayerTypeOK, Finals, NonSuccess
  <2>3. QED BY <1>5, <2>1, <2>2 DEF TimerBF
<1>6. ASSUME NEW t \in Tx, Finish(t) PROVE PublishInv'
  BY <1>6 DEF Finish, DropClient
<1>7. ASSUME NEW t \in Tx, Absorb(t) PROVE PublishInv'
  <2>1. QueuePublished'
    BY <1>7 DEF Absorb, LayerTypeOK
  <2>2. QED BY <1>7, <2>1 DEF Absorb
<1>8. ASSUME NEW t \in Tx, TimerD(t) PROVE PublishInv'
  <2>1. QueuePublished'
    BY <1>8 DEF TimerD, LayerTypeOK
  <2>2. QED BY <1>8, <2>1 DEF TimerD, DropClient
<1>9. ASSUME NEW m \in responses, DispatchLookup(m) PROVE PublishInv'
  BY <1>9 DEF DispatchLookup
<1>10. ASSUME DispatchWatch PROVE PublishInv'
  <2>1. dispatch \in Dispatching
    BY <1>10 DEF DispatchWatch, Idle, LayerTypeOK
  <2>2. \A t \in InviteTx : progress[t] = "Final" => progress'[t] = "Final"
    BY <1>10 DEF DispatchWatch, Advance, LayerTypeOK
  <2>3. /\ dispatch'.at = "Queue" /\ dispatch'.id = dispatch.id
        /\ dispatch'.code = dispatch.code /\ dispatch'.client = dispatch.client
        /\ dispatch'.watch = dispatch.watch
    BY <1>10, <2>1 DEF DispatchWatch, Dispatching
  <2>4. dispatch.watch /\ dispatch.id \in InviteTx /\ dispatch.code \in Finals
           => progress'[dispatch.id] = "Final"
    BY <1>10 DEF DispatchWatch, Advance, ProgressOf, LayerTypeOK, Progress,
                 Finals, NonSuccess, Provisionals
  <2>5. DispatchPublished'
    BY <1>10, <2>3, <2>4 DEF DispatchWatch
  <2>6. QED BY <1>10, <2>2, <2>5 DEF DispatchWatch
<1>11. ASSUME DispatchQueue PROVE PublishInv'
  <2>1. dispatch \in Dispatching
    BY <1>11 DEF DispatchQueue, Idle, LayerTypeOK
  <2>2. dispatch.id \in Tx /\ dispatch.code \in UsedCodes
    BY <2>1 DEF Dispatching
  <2>3. QueuePublished'
    BY <1>11, <2>2 DEF DispatchQueue, LayerTypeOK
  <2>4. QED BY <1>11, <2>3 DEF DispatchQueue, Idle
<1>12. CASE UNCHANGED <<clients, provisional, progress, queue, outcome, dispatch>>
  BY <1>12
<1>13. QED
  BY <1>1, <1>2, <1>3, <1>4, <1>5, <1>6, <1>7, <1>8, <1>9, <1>10, <1>11, <1>12
  DEF LayerNext, LayerStep, LayerTasks, TxStep, layerVars, FirstSend,
      Retransmit, PeerAnswers, LoseRequest

\* Whenever run() has returned a final response, the watch of that INVITE says
\* Final, so no CANCEL can be started for it: for all transactions and bounds.
THEOREM FinalsPublished == LayerSpec => []FinalPublishedFirst
<1>1. LayerInit => PublishInv
  BY DEF LayerInit, PublishInv, TablesAgree, DispatchPublished, QueuePublished,
         FinalPublishedFirst, Idle, Tx, Finals, NonSuccess
<1>2. PublishInv => FinalPublishedFirst
  BY DEF PublishInv
<1>3. QED
  BY <1>1, <1>2, PublishStep, LayerTypeCorrect, PTL DEF LayerSpec
-----------------------------------------------------------------------------
\* Every step of the user agent client is a step of the transaction layer or
\* leaves the layer alone.
LEMMA UacStepIsLayerStep == [Next]_vars => [LayerNext]_layerVars
<1> SUFFICES ASSUME [Next]_vars PROVE [LayerNext]_layerVars
  OBVIOUS
<1>1. ASSUME NEW p \in Plan, InviteStep(p) PROVE [LayerNext]_layerVars
  <2>1. FirstTx[p] \in Tx /\ RetryTx[p] \in Tx
    BY PlanAssumption DEF Tx
  <2>2. QED
    BY <1>1, <2>1 DEF InviteStep, InviteStart, InviteRetry, InviteReturn, LayerNext
<1>2. ASSUME NEW p \in Plan, CancelStep(p) PROVE [LayerNext]_layerVars
  <2>1. CancelTx[p] \in Tx
    BY PlanAssumption DEF Tx
  <2>2. QED
    BY <1>2, <2>1 DEF CancelStep, CancelSubscribe, CancelRead, CancelWake,
                      CancelClosed, CancelTimeout, CancelSend, CancelReturn, LayerNext
<1>3. CASE Layer
  BY <1>3 DEF Layer, Watch, LayerStep, LayerNext
<1>4. CASE UNCHANGED vars
  BY <1>4 DEF vars
<1>5. QED BY <1>1, <1>2, <1>3, <1>4 DEF Next

\* Uac::invite and Uac::cancel_pending drive the layer only through its
\* interface: the user agent's specification implements the layer's.
THEOREM UacImplementsLayer == Spec => ImplementsLayer
<1>1. Init => LayerInit
  BY DEF Init
<1>2. QED
  BY <1>1, UacStepIsLayerStep, PTL DEF Spec, LayerSpec, ImplementsLayer

\* The watch of an INVITE never moves backwards.
THEOREM WatchMonotone == Spec => ProgressMonotone
<1>1. LayerTypeOK /\ [Next]_vars =>
        [\A t \in InviteTx : Rank(progress'[t]) >= Rank(progress[t])]_vars
  <2> SUFFICES ASSUME LayerTypeOK, [LayerNext]_layerVars, NEW t \in InviteTx
               PROVE  Rank(progress'[t]) >= Rank(progress[t])
    BY UacStepIsLayerStep
  <2>1. CASE DispatchWatch
    BY <2>1 DEF DispatchWatch, Advance, ProgressOf, LayerTypeOK, Progress, Rank
  <2>2. CASE UNCHANGED progress
    BY <2>2 DEF LayerTypeOK, Progress, Rank
  <2>3. QED
    BY <2>1, <2>2
    DEF LayerNext, LayerStep, LayerTasks, TxStep, layerVars, CreateClient,
        FirstSend, SendFails, RecvProvisional, RecvFinal, Retransmit,
        TimerBF, Finish, Absorb, TimerD, DispatchLookup, DispatchQueue,
        PeerAnswers, LoseRequest
<1>2. Spec => []LayerTypeOK
  BY UacImplementsLayer, LayerTypeCorrect, PTL DEF ImplementsLayer
<1>3. QED
  BY <1>1, <1>2, PTL DEF Spec, ProgressMonotone

-----------------------------------------------------------------------------
\* One step keeps every cancel_pending resting on a processed 1xx.
LEMMA CancelStepInv == TypeOK /\ CancelInv /\ [Next]_vars => CancelInv'
<1> SUFFICES ASSUME TypeOK, CancelInv, [Next]_vars PROVE CancelInv'
  OBVIOUS
<1> USE DEF CancelInv, ProvisionalSeen, SendingSeen, CancelOnlyAfterProvisional
<1>a. \A p \in Plan : /\ FirstTx[p] \in InviteTx /\ RetryTx[p] \in InviteTx
                      /\ CancelTx[p] \in NonInviteTx
                      /\ FirstTx[p] \in Tx /\ RetryTx[p] \in Tx /\ CancelTx[p] \in Tx
                      /\ \A q \in Plan : /\ FirstTx[p] # CancelTx[q]
                                         /\ RetryTx[p] # CancelTx[q]
                                         /\ p # q => CancelTx[p] # CancelTx[q]
  BY PlanAssumption, LayerAssumption DEF Tx
<1>b. task \in [Tx -> Tasks] /\ progress \in [InviteTx -> Progress]
  BY DEF TypeOK, LayerTypeOK
<1>1. ASSUME NEW p \in Plan, InviteStep(p) PROVE CancelInv'
  <2>1. UNCHANGED <<progress, cancel, seen1xx>>
    BY <1>1 DEF InviteStep, InviteStart, InviteRetry, InviteReturn, CreateClient,
                layerVars
  <2>2. \A q \in Plan : task'[CancelTx[q]] = task[CancelTx[q]]
    BY <1>1, <1>a, <1>b DEF InviteStep, InviteStart, InviteRetry, InviteReturn,
                            CreateClient, layerVars
  <2>3. QED BY <2>1, <2>2
<1>2. ASSUME NEW p \in Plan, CancelStep(p) PROVE CancelInv'
  <2>1. UNCHANGED <<progress, seen1xx>>
    BY <1>2 DEF CancelStep, CancelSubscribe, CancelRead, CancelWake, CancelClosed,
                CancelTimeout, CancelSend, CancelReturn, CreateClient, layerVars
  <2>2. SendingSeen'
    <3>1. cancel'[p] = "Sending" => progress[FirstTx[p]] = "Provisional"
      BY <1>2, <1>a, <1>b
      DEF CancelStep, CancelSubscribe, CancelRead, CancelWake, CancelClosed,
          CancelTimeout, CancelSend, CancelReturn, CancelTo, OnProgress, TypeOK,
          Progress
    <3>2. \A q \in Plan : q # p => cancel'[q] = cancel[q]
      BY <1>2 DEF CancelStep, CancelSubscribe, CancelRead, CancelWake,
                  CancelClosed, CancelTimeout, CancelSend, CancelReturn, CancelTo, TypeOK
    <3>3. QED BY <2>1, <3>1, <3>2, <1>a
  <2>3. CancelOnlyAfterProvisional'
    <3>1. CASE CancelSend(p)
      BY <3>1, <2>1, <1>a, <1>b DEF CancelSend, CreateClient
    <3>2. CASE UNCHANGED task
      BY <3>2, <2>1
    <3>3. QED
      BY <1>2, <3>1, <3>2 DEF CancelStep, CancelSubscribe, CancelRead, CancelWake,
                  CancelClosed, CancelTimeout, CancelReturn, layerVars
  <2>4. QED BY <2>1, <2>2, <2>3
<1>3. CASE Watch
  <2>1. UNCHANGED <<cancel, task>> /\ seen1xx \subseteq seen1xx'
    BY <1>3 DEF Watch, DispatchWatch
  <2>2. ProvisionalSeen'
    BY <1>3, <1>b DEF Watch, DispatchWatch, Advance, ProgressOf
  <2>3. QED BY <2>1, <2>2
<1>4. CASE LayerTasks /\ UNCHANGED uacVars
  <2>1. UNCHANGED <<progress, cancel, seen1xx>>
    BY <1>4 DEF uacVars, LayerTasks, TxStep, FirstSend, SendFails,
       RecvProvisional, RecvFinal, Retransmit, TimerBF, Finish, Absorb, TimerD,
       DispatchLookup, DispatchQueue, PeerAnswers, LoseRequest
  <2>2. \A t \in Tx : task[t] = "None" => task'[t] = "None"
    BY <1>4, <1>b DEF LayerTasks, TxStep, FirstSend, SendFails, ReturnWith,
       RecvProvisional, RecvFinal, Retransmit, TimerBF, Finish, Absorb, TimerD,
       DispatchLookup, DispatchQueue, PeerAnswers, LoseRequest
  <2>3. QED BY <2>1, <2>2, <1>a
<1>5. CASE UNCHANGED vars
  BY <1>5 DEF vars, layerVars, uacVars
<1>6. QED
  BY <1>1, <1>2, <1>3, <1>4, <1>5 DEF Next, Layer

\* Every variable of the user agent client holds a value of its type.
THEOREM UacTypeCorrect == Spec => []TypeOK
<1>1. Init => TypeOK
  <2>1. <<>> \in Seq(UsedCodes) OBVIOUS
  <2>2. QED
    BY <2>1 DEF Init, LayerInit, TypeOK, LayerTypeOK, Progress, States, Tasks,
                Outcomes, Idle, InviteStages, CancelStages
<1>2. TypeOK /\ [Next]_vars => TypeOK'
  <2> SUFFICES ASSUME TypeOK, [Next]_vars PROVE TypeOK'
    OBVIOUS
  <2>1. LayerTypeOK'
    BY UacStepIsLayerStep, LayerTypeStep DEF TypeOK
  <2>2. ASSUME NEW p \in Plan, InviteStep(p) PROVE TypeOK'
    BY <2>1, <2>2 DEF TypeOK, InviteStep, InviteStart, InviteRetry, InviteReturn,
                      InviteTo, Concluded, InviteStages
  <2>3. ASSUME NEW p \in Plan, CancelStep(p) PROVE TypeOK'
    <3>1. progress[FirstTx[p]] \in Progress
      BY PlanAssumption DEF TypeOK, LayerTypeOK
    <3>2. QED
      BY <2>1, <2>3, <3>1
      DEF TypeOK, CancelStep, CancelSubscribe, CancelRead, CancelWake,
          CancelClosed, CancelTimeout, CancelSend, CancelReturn, CancelTo,
          OnProgress, CancelStages, Progress
  <2>4. CASE Watch
    <3>1. dispatch.id \in Tx
      BY <2>4 DEF Watch, DispatchWatch, TypeOK, LayerTypeOK, Idle, Dispatching
    <3>2. QED BY <2>1, <2>4, <3>1 DEF TypeOK, Watch
  <2>5. CASE LayerTasks /\ UNCHANGED uacVars
    BY <2>1, <2>5 DEF TypeOK, uacVars
  <2>6. CASE UNCHANGED vars
    BY <2>1, <2>6 DEF TypeOK, vars, uacVars
  <2>7. QED BY <2>2, <2>3, <2>4, <2>5, <2>6 DEF Next, Layer
<1>3. QED BY <1>1, <1>2, PTL DEF Spec

\* RFC 3261 9.1 for every set of plans: cancel_pending sends a CANCEL only for
\* an INVITE whose provisional response the layer has processed.
THEOREM CancelWaitsForProvisional == Spec => []CancelOnlyAfterProvisional
<1>1. Init => CancelInv
  BY PlanAssumption, LayerAssumption
  DEF Init, LayerInit, CancelInv, ProvisionalSeen, SendingSeen,
      CancelOnlyAfterProvisional, Tx
<1>2. CancelInv => CancelOnlyAfterProvisional
  BY DEF CancelInv
<1>3. QED
  BY <1>1, <1>2, CancelStepInv, UacTypeCorrect, PTL DEF Spec
=============================================================================

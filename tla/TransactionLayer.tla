-------------------------- MODULE TransactionLayer --------------------------
(***************************************************************************)
(* The client half of the SIP transaction layer (src/sip/transaction.rs):  *)
(* ClientTransaction::run, the Timer D absorber, the TransactionTable and  *)
(* the receive loop that dispatches responses into it.                     *)
(*                                                                         *)
(* Every client transaction is a task of its own; the receive loop is one  *)
(* more task.  They share the table, which is locked for single lookups,   *)
(* insertions and removals only.  The peer and the UDP network are the     *)
(* environment: requests may be lost, responses may be lost, delayed,      *)
(* duplicated and reordered.                                               *)
(***************************************************************************)
EXTENDS Naturals, Sequences

CONSTANTS
    InviteTx,     \* the INVITE client transactions (one per Via branch)
    NonInviteTx,  \* the client transactions of any other method
    Codes,        \* the kinds of response the peer gives to an INVITE
    OtherCodes,   \* and to a request of any other method
    MaxQueue      \* bound: responses waiting in one transaction's channel

Provisionals == {"1xx"}
\* "401" is a 401/407 whose Digest challenge can be parsed, "Non2xx" any other
\* 300-699 response; "NoTo" is a 300-699 response that carries no To header,
\* for which build_non2xx_ack cannot build an ACK.
NonSuccess == {"401", "Non2xx", "NoTo"}
Finals     == {"2xx"} \cup NonSuccess
AllCodes   == Provisionals \cup Finals

ASSUME LayerAssumption ==
    /\ InviteTx \cap NonInviteTx = {}
    /\ Codes \subseteq AllCodes
    /\ OtherCodes \subseteq AllCodes
    /\ MaxQueue \in Nat \ {0}

Tx == InviteTx \cup NonInviteTx

VARIABLES
    clients,      \* TransactionTable.clients: the registered transactions
    provisional,  \* TransactionTable.provisional: INVITEs with a watch sender
    progress,     \* the value in each INVITE's watch channel
    queue,        \* the mpsc channel from the receive loop to a transaction
    state,        \* ClientTransaction.state
    task,         \* where the task that send_request spawned stands
    outcome,      \* what run() returned
    absorber,     \* transactions whose Timer D absorber task is alive
    dispatch,     \* the receive loop's position inside dispatch_response
    requests,     \* requests in flight to the peer
    responses,    \* responses sent to us: each may arrive late, twice or never
    acked         \* transactions whose final response the layer itself acknowledged

layerVars == <<clients, provisional, progress, queue, state, task, outcome,
               absorber, dispatch, requests, responses, acked>>

Progress == {"Pending", "Provisional", "Final"}
States   == {"Unsent", "Calling", "Trying", "Proceeding", "Completed", "Terminated"}
Tasks    == {"None", "Spawned", "Running", "Returning", "Done"}
Outcomes == {"None", "Err"} \cup Finals

UsedCodes == Codes \cup OtherCodes

Response == [id : Tx, code : UsedCodes]

\* The receive loop is between two datagrams.
Idle == [at |-> "Idle"]

\* Inside dispatch_response: the senders cloned under the table lock, then the
\* watch is advanced, then the response goes into the transaction's channel.
Dispatching == [at : {"Watch", "Queue"}, id : Tx, code : UsedCodes,
                client : BOOLEAN, watch : BOOLEAN]

LayerInit ==
    /\ clients = {}
    /\ provisional = {}
    /\ progress = [t \in InviteTx |-> "Pending"]
    /\ queue = [t \in Tx |-> <<>>]
    /\ state = [t \in Tx |-> "Unsent"]
    /\ task = [t \in Tx |-> "None"]
    /\ outcome = [t \in Tx |-> "None"]
    /\ absorber = {}
    /\ dispatch = Idle
    /\ requests = {}
    /\ responses = {}
    /\ acked = {}

-----------------------------------------------------------------------------
(* send_request and ClientTransaction::run                                 *)

InitialState(t) == IF t \in InviteTx THEN "Calling" ELSE "Trying"

\* create_client inserts both table entries under one lock; send_request then
\* spawns the task that will run the transaction.
CreateClient(t) ==
    /\ task[t] = "None"
    /\ state' = [state EXCEPT ![t] = InitialState(t)]
    /\ clients' = clients \cup {t}
    /\ provisional' = IF t \in InviteTx THEN provisional \cup {t} ELSE provisional
    /\ task' = [task EXCEPT ![t] = "Spawned"]
    /\ UNCHANGED <<progress, queue, outcome, absorber, dispatch, requests,
                   responses, acked>>

\* run() puts the request on the wire and starts its timers.
FirstSend(t) ==
    /\ task[t] = "Spawned"
    /\ task' = [task EXCEPT ![t] = "Running"]
    /\ requests' = requests \cup {t}
    /\ UNCHANGED <<clients, provisional, progress, queue, state, outcome, absorber,
                   dispatch, responses, acked>>

\* run() returns with result r; its receiver is dropped with it.
ReturnWith(t, r) ==
    /\ task' = [task EXCEPT ![t] = "Returning"]
    /\ outcome' = [outcome EXCEPT ![t] = r]

\* Timer A (INVITE) only resends in Calling; Timer E (other methods) always.
MayResend(t) == t \in InviteTx => state[t] = "Calling"

\* The first send_to, or one of a retransmission, fails: run() returns the
\* error at once and leaves its state as it is.
SendFails(t) ==
    /\ task[t] = "Spawned" \/ (task[t] = "Running" /\ MayResend(t))
    /\ ReturnWith(t, "Err")
    /\ queue' = [queue EXCEPT ![t] = <<>>]
    /\ UNCHANGED <<clients, provisional, progress, state, absorber, dispatch,
                   requests, responses, acked>>

RecvProvisional(t) ==
    /\ task[t] = "Running"
    /\ queue[t] # <<>>
    /\ Head(queue[t]) \in Provisionals
    /\ state' = [state EXCEPT ![t] = "Proceeding"]
    /\ queue' = [queue EXCEPT ![t] = Tail(@)]
    /\ UNCHANGED <<clients, provisional, progress, task, outcome, absorber,
                   dispatch, requests, responses, acked>>

\* Mutant: every final response is acknowledged and absorbed.
AcksAlways(t, code) == code # "NoTo"

\* The ACK of a 300-699 response is the layer's, and needs the To header.
Acks(t, code) == t \in InviteTx /\ code \in NonSuccess \ {"NoTo"}

\* A final response ends run().  An INVITE answered 300-699 is acknowledged
\* here, and if the ACK could be built its receiver moves to an absorber task.
RecvFinal(t) ==
    LET code == Head(queue[t])
        acks == Acks(t, code)
    IN  /\ task[t] = "Running"
        /\ queue[t] # <<>>
        /\ code \in Finals
        /\ state' = [state EXCEPT ![t] = "Completed"]
        /\ ReturnWith(t, code)
        /\ absorber' = IF acks THEN absorber \cup {t} ELSE absorber
        /\ acked' = IF acks THEN acked \cup {t} ELSE acked
        /\ queue' = [queue EXCEPT ![t] = IF acks THEN Tail(@) ELSE <<>>]
        /\ UNCHANGED <<clients, provisional, progress, dispatch, requests, responses>>

\* Timer A or Timer E sends the request again.
Retransmit(t) ==
    /\ task[t] = "Running"
    /\ MayResend(t)
    /\ t \notin requests
    /\ requests' = requests \cup {t}
    /\ UNCHANGED <<clients, provisional, progress, queue, state, task, outcome,
                   absorber, dispatch, responses, acked>>

\* Mutant: a provisional response stops Timer B/F.
TimerBFUntil1xx(t) ==
    /\ task[t] = "Running"
    /\ state[t] # "Proceeding"
    /\ state' = [state EXCEPT ![t] = "Terminated"]
    /\ ReturnWith(t, "Err")
    /\ queue' = [queue EXCEPT ![t] = <<>>]
    /\ UNCHANGED <<clients, provisional, progress, absorber, dispatch,
                   requests, responses, acked>>

\* Timer B/F runs from the first send and is not stopped by a 1xx.  It races
\* with responses that already wait in the channel.
TimerBF(t) ==
    /\ task[t] = "Running"
    /\ state' = [state EXCEPT ![t] = "Terminated"]
    /\ ReturnWith(t, "Err")
    /\ queue' = [queue EXCEPT ![t] = <<>>]
    /\ UNCHANGED <<clients, provisional, progress, absorber, dispatch,
                   requests, responses, acked>>

\* Mutant: only one of the two tables is cleaned.
DropClientHalf(t) == clients' = clients \ {t} /\ UNCHANGED provisional

DropClient(t) ==
    /\ clients' = clients \ {t}
    /\ provisional' = provisional \ {t}

\* Mutant: the status class is not looked at.
AbsorberOwnsInvite(t) == t \in InviteTx /\ outcome[t] \in Finals

AbsorberOwnsCleanup(t) == t \in InviteTx /\ outcome[t] \in NonSuccess

\* The spawned task removes the entry unless the absorber will, and hands the
\* result to the caller of send_request.
Finish(t) ==
    /\ task[t] = "Returning"
    /\ task' = [task EXCEPT ![t] = "Done"]
    /\ IF AbsorberOwnsCleanup(t) THEN UNCHANGED <<clients, provisional>>
                                 ELSE DropClient(t)
    /\ UNCHANGED <<progress, queue, state, outcome, absorber, dispatch,
                   requests, responses, acked>>

-----------------------------------------------------------------------------
(* spawn_completed_absorber                                                *)

\* Every further final response is answered with the same ACK; a late 1xx is
\* ignored.
Absorb(t) ==
    /\ t \in absorber
    /\ queue[t] # <<>>
    /\ queue' = [queue EXCEPT ![t] = Tail(@)]
    /\ acked' = IF Head(queue[t]) \in Finals THEN acked \cup {t} ELSE acked
    /\ UNCHANGED <<clients, provisional, progress, state, task, outcome,
                   absorber, dispatch, requests, responses>>

TimerD(t) ==
    /\ t \in absorber
    /\ absorber' = absorber \ {t}
    /\ queue' = [queue EXCEPT ![t] = <<>>]
    /\ DropClient(t)
    /\ UNCHANGED <<progress, state, task, outcome, dispatch, requests,
                   responses, acked>>

-----------------------------------------------------------------------------
(* recv_loop and dispatch_response                                         *)

\* Look the transaction up and clone both senders, under the table lock.
DispatchLookup(m) ==
    /\ dispatch = Idle
    /\ m \in responses
    /\ dispatch' = [at |-> "Watch", id |-> m.id, code |-> m.code,
                    client |-> m.id \in clients,
                    watch |-> m.id \in provisional]
    /\ UNCHANGED <<clients, provisional, progress, queue, state, task, outcome,
                   absorber, requests, responses, acked>>

ProgressOf(code) == IF code \in Provisionals THEN "Provisional" ELSE "Final"

\* Mutant: the last response wins.
AdvanceAlways(cur, code) == ProgressOf(code)

\* Mutant: the first response wins.
AdvanceOnce(cur, code) == IF cur = "Pending" THEN ProgressOf(code) ELSE cur

\* should_advance: Pending goes anywhere, Provisional only to Final.
Advance(cur, code) ==
    IF cur = "Pending" \/ (cur = "Provisional" /\ ProgressOf(code) = "Final")
    THEN ProgressOf(code) ELSE cur

\* The watch is advanced without the lock, on the cloned sender.
DispatchWatch ==
    /\ dispatch.at = "Watch"
    /\ dispatch' = [dispatch EXCEPT !.at = "Queue"]
    /\ progress' = IF dispatch.watch
                   THEN [progress EXCEPT ![dispatch.id] = Advance(@, dispatch.code)]
                   ELSE progress
    /\ UNCHANGED <<clients, provisional, queue, state, task, outcome, absorber,
                   requests, responses, acked>>

\* The receiving end exists while run() or the absorber holds it.
Receiving(t) == task[t] \in {"Spawned", "Running"} \/ t \in absorber

\* The response goes to the transaction; one nobody receives any more is lost.
DispatchQueue ==
    /\ dispatch.at = "Queue"
    /\ Len(queue[dispatch.id]) < MaxQueue
    /\ dispatch' = Idle
    /\ queue' = IF dispatch.client /\ Receiving(dispatch.id)
                THEN [queue EXCEPT ![dispatch.id] = Append(@, dispatch.code)]
                ELSE queue
    /\ UNCHANGED <<clients, provisional, progress, state, task, outcome,
                   absorber, requests, responses, acked>>

-----------------------------------------------------------------------------
(* Environment: the peer UAS and the UDP network.                          *)

\* A peer that holds the request answers it.  It commits to one final
\* response and sends no provisional one after it; datagrams in flight may
\* still arrive in any order.
PeerAnswers(t, c) ==
    /\ t \in requests
    /\ c \in IF t \in InviteTx THEN Codes ELSE OtherCodes
    /\ \A m \in responses : m.id = t => m.code \notin Finals
    /\ responses' = responses \cup {[id |-> t, code |-> c]}
    /\ UNCHANGED <<clients, provisional, progress, queue, state, task, outcome,
                   absorber, dispatch, requests, acked>>

\* A request is lost; only while the transaction could still repeat it does
\* that differ from a peer that never answers.
LoseRequest(t) ==
    /\ t \in requests
    /\ task[t] = "Running"
    /\ requests' = requests \ {t}
    /\ UNCHANGED <<clients, provisional, progress, queue, state, task, outcome,
                   absorber, dispatch, responses, acked>>

-----------------------------------------------------------------------------
\* What a transaction's own tasks do.
TxStep(t) ==
    \/ FirstSend(t) \/ SendFails(t)
    \/ RecvProvisional(t) \/ RecvFinal(t)
    \/ Retransmit(t) \/ TimerBF(t) \/ Finish(t)
    \/ Absorb(t) \/ TimerD(t)

\* Everything but the step that advances a watch.
LayerTasks ==
    \/ \E t \in Tx : TxStep(t)
    \/ \E m \in responses : DispatchLookup(m)
    \/ DispatchQueue
    \/ \E t \in Tx : \E c \in UsedCodes : PeerAnswers(t, c)
    \/ \E t \in Tx : LoseRequest(t)

LayerStep == LayerTasks \/ DispatchWatch

LayerNext == LayerStep \/ \E t \in Tx : CreateClient(t)

LayerSpec == LayerInit /\ [][LayerNext]_layerVars

-----------------------------------------------------------------------------
(* Properties                                                              *)

LayerTypeOK ==
    /\ clients \subseteq Tx
    /\ provisional \subseteq InviteTx
    /\ progress \in [InviteTx -> Progress]
    /\ queue \in [Tx -> Seq(UsedCodes)]
    /\ state \in [Tx -> States]
    /\ task \in [Tx -> Tasks]
    /\ outcome \in [Tx -> Outcomes]
    /\ absorber \subseteq InviteTx
    /\ dispatch \in Dispatching \cup {Idle}
    /\ requests \subseteq Tx
    /\ responses \subseteq Response
    /\ acked \subseteq InviteTx

\* Every entry of the transaction table has a task that will remove it:
\* the one that runs the transaction, or the Timer D absorber.
EveryEntryOwned ==
    \A t \in clients : task[t] \in {"Spawned", "Running", "Returning"} \/ t \in absorber

\* When run() returns a final response, the watch already says so: a
\* cancel_pending that starts afterwards never sends a CANCEL for it.
FinalPublishedFirst ==
    \A t \in InviteTx : outcome[t] \in Finals => progress[t] = "Final"

-----------------------------------------------------------------------------
(* The facts that make the properties inductive.                           *)

\* A task about to leave its entry to the absorber has one, or Timer D has
\* already removed the entry.
ReturnedOwned ==
    \A t \in InviteTx :
        task[t] = "Returning" /\ outcome[t] \in NonSuccess /\ t \in clients
            => t \in absorber

\* The two maps of the table hold the same INVITEs.
TablesAgree == provisional = clients \cap InviteTx

\* A final response travels behind the watch that announces it.
DispatchPublished ==
    dispatch.at # "Idle" /\ dispatch.id \in InviteTx =>
        /\ dispatch.client => dispatch.watch
        /\ dispatch.at = "Queue" /\ dispatch.watch /\ dispatch.code \in Finals
              => progress[dispatch.id] = "Final"

QueuePublished ==
    \A t \in InviteTx : \A i \in 1..Len(queue[t]) :
        queue[t][i] \in Finals => progress[t] = "Final"

OwnerInv   == EveryEntryOwned /\ ReturnedOwned
PublishInv == TablesAgree /\ DispatchPublished /\ QueuePublished /\ FinalPublishedFirst
=============================================================================

----------------------------- MODULE InboundCall ----------------------------
(***************************************************************************)
(* A call from the NGN (src/call/orchestrator.rs, NgnInboundHandler): the  *)
(* server transaction of its INVITE (module ServerTransaction), the fork   *)
(* that rings the extensions (module Fork), the reliable 180 and its       *)
(* PRACK, the voicemail, and everything that may end the call.             *)
(*                                                                         *)
(* The NGN's INVITE, CANCEL, PRACKs, ACK and BYEs each run in a task of    *)
(* their own, and so does the end of a browser's WebSocket session.  They  *)
(* meet in the handler's tables, which are locked one at a time.  There is *)
(* one call; Others counts the calls that are up besides it.               *)
(***************************************************************************)
EXTENDS Fork, ServerTransaction

CONSTANTS
    Prack, GoodRAck,  \* the NGN's PRACKs, and those whose RAck matches
    Bye,              \* the NGN's BYE and its retransmissions
    Others,           \* calls in the gauge besides this one
    HastyBye          \* may a BYE overtake the end of handle_invite?

ASSUME InboundAssumption ==
    /\ GoodRAck \subseteq Prack /\ Others \in Nat
    /\ HastyBye \in BOOLEAN

VARIABLES
    stage,       \* where handle_invite stands
    reliable,    \* its INVITE supports 100rel
    finals,      \* final responses sent to the NGN
    pending,     \* the call is in the table of server transactions
    inFlight,    \* its Notify is in the table of cancellable INVITEs
    cancel,      \* the NGN's CANCEL: "Idle", "Notified", "Missed"
    rel,         \* rc100rel: the state of the reliable 180
    relTx,       \* its oneshot: "None", "Held", "Taken", "Sent"
    prack,       \* where handle_prack stands
    bridge,      \* the media bridge
    active,      \* the call is in the table of active calls
    webActive,   \* webrtc_active: the browser leg that won, or None
    dialog,      \* that entry has a UAS dialog to send a BYE on
    voicemail,   \* the call is in voicemail_active
    bye,         \* where handle_bye stands
    removed,     \* the BYEs that took the call out of active
    session,     \* where the end of each browser's session stands
    gauge,       \* Metrics.call_active
    log,         \* the call's entry in the call log
    ngn          \* the NGN's side of the dialog: "None", "Up", "Down"

handlerVars == <<stage, reliable, finals, cancel>>
relVars == <<rel, relTx, prack>>
tableVars == <<active, webActive, dialog, voicemail, bridge>>
endVars == <<bye, removed, session>>
countVars == <<gauge, log>>
vars == <<forkVars, txVars, handlerVars, pending, inFlight, relVars, tableVars, endVars,
          countVars, ngn>>

Stages == {"Idle", "Trying", "Rang", "InFlight", "Forked", "WaitPrack",
           "Decide", "Bridged", "Answered", "Web", "Count", "Recording", "VmAnswered",
           "Refused", "Cleanup", "Done"}
Running == Stages \ {"Idle", "Done"}
ByeStages == {"Idle", "Active", "Voicemail", "Bridge", "Web", "Done"}
SessionStages == {"Open", "Close", "SendBye", "Active", "Dec", "CancelAll", "Done"}

Init ==
    /\ ForkInit /\ TxInit
    /\ stage = "Idle" /\ reliable = FALSE /\ finals = <<>> /\ cancel = "Idle"
    /\ pending = FALSE /\ inFlight = FALSE
    /\ rel = FALSE /\ relTx = "None" /\ prack = [p \in Prack |-> "Idle"]
    /\ bridge = "None" /\ active = FALSE /\ webActive = None /\ dialog = FALSE
    /\ voicemail = FALSE
    /\ bye = [b \in Bye |-> "Idle"] /\ removed = {} /\ session = [w \in WebLeg |-> "Open"]
    /\ gauge = Others /\ log = "None" /\ ngn = "None"

To(s) == stage' = s
\* inc_call_active; dec_call_active does nothing at zero.
Inc == gauge' = gauge + 1
Dec == gauge' = IF gauge = 0 THEN 0 ELSE gauge - 1

-----------------------------------------------------------------------------
(* handle_invite                                                           *)

\* The transaction goes into pending, 100 out, the call into the log.
Accept ==
    /\ stage = "Idle"
    /\ To("Trying")
    /\ reliable' \in BOOLEAN
    /\ TxNew
    /\ pending' = TRUE
    /\ log' = "Open"
    /\ UNCHANGED <<forkVars, finals, cancel, inFlight, relVars, tableVars, endVars, gauge, ngn>>

\* A final response other than 200: once it is out, the caller removes the
\* transaction from pending and closes the log entry.
Refuse(code, outcome) ==
    /\ To("Refused")
    /\ finals' = Append(finals, code)
    /\ TxRespond(code)
    /\ log' = outcome

\* An unsupported Require (420), a session timer too short (422), a To tag that
\* no outbound call knows (481).
RefuseRequest ==
    /\ stage = "Trying"
    /\ \E code \in {420, 422, 481} : Refuse(code, "Failed")
    /\ UNCHANGED <<forkVars, reliable, cancel, pending, inFlight, relVars, tableVars, endVars,
                   gauge, ngn>>

\* routing_rules.evaluate leaves no binding, and there is no voicemail (480).
NoBinding ==
    /\ stage = "Trying"
    /\ Refuse(480, "Missed")
    /\ UNCHANGED <<forkVars, reliable, cancel, pending, inFlight, relVars, tableVars, endVars,
                   gauge, ngn>>

\* 180; a reliable one has its state in rc100rel before it is sent.
Ring ==
    /\ stage = "Trying"
    /\ To("Rang")
    /\ TxRespond(180)
    /\ rel' = reliable
    /\ relTx' = IF reliable THEN "Held" ELSE relTx
    /\ UNCHANGED <<forkVars, reliable, finals, cancel, pending, inFlight, prack, tableVars,
                   endVars, countVars, ngn>>

EnterInFlight ==
    /\ stage = "Rang"
    /\ To("InFlight")
    /\ inFlight' = TRUE
    /\ UNCHANGED <<forkVars, txVars, reliable, finals, cancel, pending, relVars, tableVars,
                   endVars, countVars, ngn>>

\* The select polls the CANCEL first: only without one does the fork advance.
StartFork ==
    /\ stage = "InFlight" /\ cancel # "Notified"
    /\ StartLegs
    /\ UNCHANGED <<txVars, handlerVars, pending, inFlight, relVars, tableVars, endVars,
                   countVars, ngn>>

\* Mutant: without biased, a fork that is over may win over the CANCEL.
UnbiasedResult ==
    /\ stage = "InFlight" /\ fork = "Done"
    /\ To("Forked")
    /\ inFlight' = FALSE
    /\ UNCHANGED <<forkVars, txVars, reliable, finals, cancel, pending, relVars, tableVars,
                   endVars, countVars, ngn>>

\* The select takes the fork's result, and the Notify leaves the table.
ForkResult ==
    /\ stage = "InFlight" /\ fork = "Done" /\ cancel # "Notified"
    /\ To("Forked")
    /\ inFlight' = FALSE
    /\ UNCHANGED <<forkVars, txVars, reliable, finals, cancel, pending, relVars, tableVars,
                   endVars, countVars, ngn>>

\* The select takes the CANCEL: the fork is dropped, 487 sent.
CancelBranch ==
    /\ stage = "InFlight" /\ cancel = "Notified"
    /\ Refuse(487, "Missed")
    /\ DropFork
    /\ rel' = FALSE
    /\ inFlight' = FALSE
    /\ UNCHANGED <<legVars, wsVars, registryVars, reliable, cancel, pending, relTx, prack,
                   tableVars, endVars, gauge, ngn>>

\* wait_for_prack takes the receiver; without state there is nothing to wait for.
BeginWait ==
    /\ stage = "Forked"
    /\ To(IF rel THEN "WaitPrack" ELSE "Decide")
    /\ UNCHANGED <<forkVars, txVars, reliable, finals, cancel, pending, inFlight, relVars,
                   tableVars, endVars, countVars, ngn>>

PrackArrived ==
    /\ stage = "WaitPrack" /\ relTx = "Sent"
    /\ To("Decide")
    /\ UNCHANGED <<forkVars, txVars, reliable, finals, cancel, pending, inFlight, relVars,
                   tableVars, endVars, countVars, ngn>>

\* Mutant: the wait has no timer.
PrackNeverLate == FALSE /\ UNCHANGED vars

\* Mutant: the handler goes on after the 408.
PrackTimeoutGoesOn ==
    /\ stage = "WaitPrack" /\ relTx # "Sent"
    /\ To("Decide")
    /\ finals' = Append(finals, 408)
    /\ TxRespond(408)
    /\ rel' = FALSE
    /\ UNCHANGED <<forkVars, reliable, cancel, pending, inFlight, relTx, prack, tableVars,
                   endVars, countVars, ngn>>

\* 32 s pass: 408, whatever the fork's result; the leg that won is left alone.
PrackTimeout ==
    /\ stage = "WaitPrack" /\ relTx # "Sent"
    /\ Refuse(408, "Failed")
    /\ rel' = FALSE
    /\ UNCHANGED <<forkVars, reliable, cancel, pending, inFlight, relTx, prack, tableVars,
                   endVars, gauge, ngn>>

\* start_bridge_for_inbound puts the call into active.  Where it fails the
\* browser is told, 502 is sent, and the log entry stays open.
StartBridge ==
    /\ stage = "Decide" /\ result = "Answered"
    /\ To("Bridged")
    /\ bridge' = "Up" /\ active' = TRUE
    /\ UNCHANGED <<forkVars, txVars, reliable, finals, cancel, pending, inFlight, relVars,
                   webActive, dialog, voicemail, endVars, countVars, ngn>>

BridgeFails ==
    /\ stage = "Decide" /\ result = "Answered"
    /\ Refuse(502, log)
    /\ rel' = FALSE
    /\ IF winner \in WebLeg THEN Shows(winner, "Quiet") ELSE UNCHANGED browser
    /\ UNCHANGED <<leg, waiter, wsVars, registryVars, collectVars, reliable, cancel, pending,
                   inFlight, relTx, prack, tableVars, endVars, gauge, ngn>>

\* 200 to the NGN.
Answer ==
    /\ stage = "Bridged"
    /\ To("Answered")
    /\ finals' = Append(finals, 200)
    /\ TxRespond(200)
    /\ ngn' = "Up"
    /\ UNCHANGED <<forkVars, reliable, cancel, pending, inFlight, relVars, tableVars, endVars,
                   countVars>>

\* active.entry(call_id).or_insert(None)
EnterActive ==
    /\ stage = "Answered"
    /\ To("Web")
    /\ active' = TRUE
    /\ UNCHANGED <<forkVars, txVars, reliable, finals, cancel, pending, inFlight, relVars,
                   webActive, dialog, voicemail, bridge, endVars, countVars, ngn>>

\* A browser that won is entered with the dialog, where one could be made.
EnterWebActive ==
    /\ stage = "Web"
    /\ To("Count")
    /\ IF winner \in WebLeg THEN webActive' = winner /\ dialog' \in BOOLEAN
                            ELSE UNCHANGED <<webActive, dialog>>
    /\ UNCHANGED <<forkVars, txVars, reliable, finals, cancel, pending, inFlight, relVars,
                   active, voicemail, bridge, endVars, countVars, ngn>>

\* Mutant: a call that goes to the voicemail is counted twice.
CountsTwice ==
    /\ stage \in {"Count", "Recording"}
    /\ To(IF stage = "Recording" THEN "Count" ELSE "Cleanup")
    /\ Inc
    /\ UNCHANGED <<forkVars, txVars, reliable, finals, cancel, pending, inFlight, relVars,
                   tableVars, endVars, log, ngn>>

CountCall ==
    /\ stage \in {"Count", "Recording"}
    /\ To("Cleanup")
    /\ Inc
    /\ UNCHANGED <<forkVars, txVars, reliable, finals, cancel, pending, inFlight, relVars,
                   tableVars, endVars, log, ngn>>

\* No leg answered, or none is bound: try_start_voicemail sends 200 ...
StartVoicemail ==
    /\ \/ stage = "Trying"
       \/ stage = "Decide" /\ result \in {"AllFailed", "Timeout"}
    /\ To("VmAnswered")
    /\ finals' = Append(finals, 200)
    /\ TxRespond(200)
    /\ ngn' = "Up"
    /\ UNCHANGED <<forkVars, reliable, cancel, pending, inFlight, relVars, tableVars, endVars,
                   countVars>>

\* ... and enters the recording.
EnterVoicemail ==
    /\ stage = "VmAnswered"
    /\ To("Recording")
    /\ voicemail' = TRUE
    /\ UNCHANGED <<forkVars, txVars, reliable, finals, cancel, pending, inFlight, relVars,
                   active, webActive, dialog, bridge, endVars, countVars, ngn>>

\* ... or there is no voicemail, and the fork's failure is passed on.
RefuseCall ==
    /\ stage = "Decide" /\ result \in {"AllFailed", "Timeout"}
    /\ Refuse(IF result = "Timeout" THEN 408 ELSE IF lastStatus = None THEN 486 ELSE lastStatus,
              "Missed")
    /\ UNCHANGED <<forkVars, reliable, cancel, pending, inFlight, relVars, tableVars, endVars,
                   gauge, ngn>>

\* pending.remove after a refusal.
ForgetTx ==
    /\ stage = "Refused"
    /\ To("Cleanup")
    /\ pending' = FALSE
    /\ UNCHANGED <<forkVars, txVars, reliable, finals, cancel, inFlight, relVars, tableVars,
                   endVars, countVars, ngn>>

\* cleanup_rc100rel, and handle_invite returns: its reference to the
\* transaction goes, and with the last one the transaction.
Finish ==
    /\ stage = "Cleanup"
    /\ To("Done")
    /\ rel' = FALSE
    /\ IF pending THEN UNCHANGED txVars ELSE TxDrop
    /\ UNCHANGED <<forkVars, reliable, finals, cancel, pending, inFlight, relTx, prack, tableVars,
                   endVars, countVars, ngn>>

\* Another task removes the call from pending.
Unpend ==
    /\ pending' = FALSE
    /\ IF stage = "Done" THEN TxDrop ELSE UNCHANGED txVars

-----------------------------------------------------------------------------
(* handle_inbound: CANCEL, ACK, PRACK                                      *)

\* 200 to the CANCEL; the INVITE's Notify is found only while it is in flight.
HandleCancel ==
    /\ cancel = "Idle" /\ stage # "Idle" /\ finals = <<>>
    /\ cancel' = IF inFlight THEN "Notified" ELSE "Missed"
    /\ UNCHANGED <<forkVars, txVars, stage, reliable, finals, pending, inFlight, relVars,
                   tableVars, endVars, countVars, ngn>>

HandleAck ==
    /\ finals # <<>> /\ pending
    /\ Unpend
    /\ UNCHANGED <<forkVars, handlerVars, inFlight, relVars, tableVars, endVars, countVars, ngn>>

PrackTo(p, s) == prack' = [prack EXCEPT ![p] = s]

\* Mutant: any RAck will do.
PrackUnmatched(p) ==
    /\ prack[p] = "Idle" /\ reliable /\ stage \notin {"Idle", "Trying"}
    /\ IF rel
       THEN PrackTo(p, IF relTx = "Held" THEN "Took" ELSE "Again")
            /\ relTx' = IF relTx = "Held" THEN "Taken" ELSE relTx
       ELSE PrackTo(p, "Done") /\ UNCHANGED relTx
    /\ UNCHANGED <<forkVars, txVars, handlerVars, pending, inFlight, rel, tableVars, endVars,
                   countVars, ngn>>

\* handle_prack: 481 without a state or with another RAck, else the sender is
\* taken out of the state.
HandlePrack(p) ==
    /\ prack[p] = "Idle" /\ reliable /\ stage \notin {"Idle", "Trying"}
    /\ IF rel /\ p \in GoodRAck
       THEN PrackTo(p, IF relTx = "Held" THEN "Took" ELSE "Again")
            /\ relTx' = IF relTx = "Held" THEN "Taken" ELSE relTx
       ELSE PrackTo(p, "Done") /\ UNCHANGED relTx
    /\ UNCHANGED <<forkVars, txVars, handlerVars, pending, inFlight, rel, tableVars, endVars,
                   countVars, ngn>>

\* 200 to the PRACK, the 180 is no longer repeated, the waiter is told.
AnswerPrack(p) ==
    /\ prack[p] \in {"Took", "Again"}
    /\ PrackTo(p, "Clean")
    /\ relTx' = IF prack[p] = "Took" THEN "Sent" ELSE relTx
    /\ UNCHANGED <<forkVars, txVars, handlerVars, pending, inFlight, rel, tableVars, endVars,
                   countVars, ngn>>

CleanPrack(p) ==
    /\ prack[p] = "Clean"
    /\ PrackTo(p, "Done")
    /\ rel' = FALSE
    /\ UNCHANGED <<forkVars, txVars, handlerVars, pending, inFlight, relTx, tableVars, endVars,
                   countVars, ngn>>

-----------------------------------------------------------------------------
(* handle_bye                                                              *)

ByeTo(b, s) == bye' = [bye EXCEPT ![b] = s]

\* The NGN hangs up, or repeats its BYE.
ReceiveBye(b) ==
    /\ bye[b] = "Idle"
    /\ ngn = "Up" \/ \E c \in Bye : bye[c] # "Idle"
    /\ HastyBye \/ stage = "Done"
    /\ ByeTo(b, "Active")
    /\ ngn' = "Down"
    /\ UNCHANGED <<forkVars, txVars, handlerVars, pending, inFlight, relVars, tableVars, removed, session,
                   countVars>>

\* The call leaves pending and active; whoever removes it decrements.
ByeActive(b) ==
    /\ bye[b] = "Active"
    /\ ByeTo(b, "Voicemail")
    /\ Unpend
    /\ removed' = IF active THEN removed \cup {b} ELSE removed
    /\ active' = FALSE
    /\ IF active THEN Dec /\ log' = "Answered" ELSE UNCHANGED countVars
    /\ UNCHANGED <<forkVars, handlerVars, inFlight, relVars, webActive, dialog, voicemail, bridge,
                   session, ngn>>

\* Mutant: the recording goes on.
ByeKeepsRecording(b) ==
    /\ bye[b] = "Voicemail"
    /\ ByeTo(b, "Bridge")
    /\ UNCHANGED <<forkVars, txVars, handlerVars, pending, inFlight, relVars, tableVars, removed, session,
                   countVars, ngn>>

ByeVoicemail(b) ==
    /\ bye[b] = "Voicemail"
    /\ ByeTo(b, "Bridge")
    /\ voicemail' = FALSE
    /\ IF voicemail THEN Dec /\ log' = "Answered" ELSE UNCHANGED countVars
    /\ UNCHANGED <<forkVars, txVars, handlerVars, pending, inFlight, relVars, active, webActive,
                   dialog, bridge, removed, session, ngn>>

\* CallManager::terminate, by the BYE that removed the call.
ByeBridge(b) ==
    /\ bye[b] = "Bridge"
    /\ ByeTo(b, "Web")
    /\ bridge' = IF b \in removed /\ bridge = "Up" THEN "Down" ELSE bridge
    /\ UNCHANGED <<forkVars, txVars, handlerVars, pending, inFlight, relVars, active, webActive,
                   dialog, voicemail, removed, session, countVars, ngn>>

\* The browser in the call is told.
ByeWeb(b) ==
    /\ bye[b] = "Web"
    /\ ByeTo(b, "Done")
    /\ webActive' = None
    /\ IF webActive # None THEN Shows(webActive, "Quiet") ELSE UNCHANGED browser
    /\ UNCHANGED <<leg, waiter, wsVars, registryVars, collectVars, txVars, handlerVars, pending,
                   inFlight, relVars, active, dialog, voicemail, bridge, removed, session, countVars, ngn>>

-----------------------------------------------------------------------------
(* The end of a browser's session (run_session, webrtc/signaling.rs)       *)

SessionTo(w, s) == session' = [session EXCEPT ![w] = s]

\* The browser goes away, or hangs up: its receive loop ends.
SessionEnds(w) ==
    /\ session[w] = "Open"
    /\ SessionTo(w, "Close")
    /\ UNCHANGED <<forkVars, txVars, handlerVars, pending, inFlight, relVars, tableVars, bye, removed,
                   countVars, ngn>>

\* close_pwa_inbound_for_ws takes the session's calls out of webrtc_active ...
CloseInbound(w) ==
    /\ session[w] = "Close"
    /\ SessionTo(w, IF webActive = w THEN "SendBye" ELSE "CancelAll")
    /\ webActive' = IF webActive = w THEN None ELSE webActive
    /\ UNCHANGED <<forkVars, txVars, handlerVars, pending, inFlight, relVars, active, dialog,
                   voicemail, bridge, bye, removed, countVars, ngn>>

\* Mutant: nobody tells the NGN.
SendByeSkipped(w) ==
    /\ session[w] = "SendBye"
    /\ SessionTo(w, "Active")
    /\ UNCHANGED <<forkVars, txVars, handlerVars, pending, inFlight, relVars, tableVars, bye, removed,
                   countVars, ngn>>

\* ... sends a BYE where the entry has a dialog ...
SendBye(w) ==
    /\ session[w] = "SendBye"
    /\ SessionTo(w, "Active")
    /\ ngn' = IF dialog THEN "Down" ELSE ngn
    /\ UNCHANGED <<forkVars, txVars, handlerVars, pending, inFlight, relVars, tableVars, bye, removed,
                   countVars>>

\* ... takes the call out of active and pending, and its bridge down ...
CloseActive(w) ==
    /\ session[w] = "Active"
    /\ SessionTo(w, "Dec")
    /\ active' = FALSE
    /\ bridge' = IF active /\ bridge = "Up" THEN "Down" ELSE bridge
    /\ Unpend
    /\ UNCHANGED <<forkVars, handlerVars, inFlight, relVars, webActive, dialog, voicemail, bye, removed,
                   countVars, ngn>>

\* ... and decrements, whether active still had the call or not.
CloseDec(w) ==
    /\ session[w] = "Dec"
    /\ SessionTo(w, "CancelAll")
    /\ Dec /\ log' = "Answered"
    /\ UNCHANGED <<forkVars, txVars, handlerVars, pending, inFlight, relVars, tableVars, bye, removed, ngn>>

\* PendingAnswers::cancel_all, and the session is over.
CancelAll(w) ==
    /\ session[w] = "CancelAll"
    /\ SessionTo(w, "Done")
    /\ waiter' = Cancelled({w})
    /\ browser' = [browser EXCEPT ![w] = "Quiet"]
    /\ wsOpen' = wsOpen \ {w}
    /\ UNCHANGED <<leg, sink, registryVars, collectVars, txVars, handlerVars, pending, inFlight, relVars,
                   tableVars, bye, removed, countVars, ngn>>

\* sweep_webrtc_active: an entry whose sink is closed is dropped, no more.
Sweep ==
    /\ webActive # None /\ webActive \notin sink
    /\ webActive' = None
    /\ UNCHANGED <<forkVars, txVars, handlerVars, pending, inFlight, relVars, active, dialog,
                   voicemail, bridge, endVars, countVars, ngn>>

-----------------------------------------------------------------------------
Outside == <<txVars, handlerVars, pending, inFlight, relVars, tableVars, endVars, countVars, ngn>>

Invite ==
    \/ RefuseRequest \/ NoBinding \/ Ring \/ EnterInFlight \/ StartFork \/ ForkResult
    \/ CancelBranch \/ BeginWait \/ PrackArrived \/ PrackTimeout \/ StartBridge \/ BridgeFails
    \/ Answer \/ EnterActive \/ EnterWebActive \/ CountCall \/ StartVoicemail \/ EnterVoicemail
    \/ RefuseCall \/ ForgetTx \/ Finish
ForkRuns == ForkStep /\ stage = "InFlight" /\ cancel # "Notified" /\ UNCHANGED Outside
LegRuns(l) == LegStep(l) /\ UNCHANGED Outside
UserReplies(w) == \E a \in {"Sdp", "Decline"} : Deliver(w, a) /\ UNCHANGED Outside
SinkCloses(w) == ForwarderEnds(w) /\ UNCHANGED Outside
PrackRuns(p) == AnswerPrack(p) \/ CleanPrack(p)
ByeRuns(b) == ByeActive(b) \/ ByeVoicemail(b) \/ ByeBridge(b) \/ ByeWeb(b)
CloseRuns(w) == CloseInbound(w) \/ SendBye(w) \/ CloseActive(w) \/ CloseDec(w) \/ CancelAll(w)
Timers ==
    /\ TimerH
    /\ UNCHANGED <<forkVars, handlerVars, pending, inFlight, relVars, tableVars, endVars,
                   countVars, ngn>>

Next ==
    \/ Accept \/ Invite \/ ForkRuns \/ Timers \/ Sweep
    \/ \E l \in Leg : LegRuns(l)
    \/ \E w \in WebLeg : UserReplies(w) \/ SessionEnds(w) \/ CloseRuns(w) \/ SinkCloses(w)
    \/ HandleCancel \/ HandleAck
    \/ \E p \in Prack : HandlePrack(p) \/ PrackRuns(p)
    \/ \E b \in Bye : ReceiveBye(b) \/ ByeRuns(b)

Spec == Init /\ [][Next]_vars

\* The runtime does not stop while a task can run, and timers expire.  No task
\* loops here, so each of them gets its turn.  Nothing is assumed of the NGN or
\* of the users.
Runtime ==
    \/ Invite \/ ForkRuns
    \/ \E l \in Leg : LegRuns(l)
    \/ \E p \in Prack : PrackRuns(p)
    \/ \E b \in Bye : ByeRuns(b)
    \/ \E w \in WebLeg : CloseRuns(w)
Fairness == WF_vars(Runtime)
FairSpec == Spec /\ Fairness

-----------------------------------------------------------------------------
HandlerTypeOK ==
    /\ stage \in Stages /\ finals \in Seq(200..699) /\ cancel \in {"Idle", "Notified", "Missed"}
    /\ inFlight \in BOOLEAN /\ bye \in [Bye -> ByeStages] /\ ngn \in {"None", "Up", "Down"}
    /\ gauge \in 0..(Others + 1)
RelTypeOK ==
    /\ reliable \in BOOLEAN /\ rel \in BOOLEAN /\ relTx \in {"None", "Held", "Taken", "Sent"}
    /\ prack \in [Prack -> {"Idle", "Took", "Again", "Clean", "Done"}]
TableTypeOK ==
    /\ pending \in BOOLEAN /\ active \in BOOLEAN /\ voicemail \in BOOLEAN /\ dialog \in BOOLEAN
    /\ webActive \in WebLeg \cup {None} /\ bridge \in {"None", "Up", "Down"}
    /\ removed \subseteq Bye /\ session \in [WebLeg -> SessionStages]
    /\ log \in {"None", "Open", "Missed", "Failed", "Answered"}
TypeOK == ForkTypeOK /\ TxTypeOK /\ HandlerTypeOK /\ RelTypeOK /\ TableTypeOK

\* The handler implements InboundService: one final response, a 200 only with
\* a party that has picked up (a leg that is up, or the recorder), and no other
\* party afterwards.
Answered == finals # <<>> /\ Head(finals) = 200
Service == INSTANCE InboundService WITH
    Party <- Leg \cup {"Recorder"},
    call  <- IF stage = "Idle" THEN "None"
             ELSE IF finals = <<>> THEN "Offered"
             ELSE IF Len(finals) > 1 THEN "Over"
             ELSE IF ~Answered THEN "Refused"
             ELSE IF ngn = "Down" THEN "Over" ELSE "Answered",
    ready <- {l \in Leg : leg[l] = "Up"} \cup (IF Answered /\ winner = None THEN {"Recorder"} ELSE {}),
    party <- IF ~Answered THEN None ELSE IF winner = None THEN "Recorder" ELSE winner
ImplementsService == Service!Spec

\* RFC 3262: after a reliable 180 (handle_invite) the 200 waits for its PRACK,
\* whichever of handle_prack, wait_for_prack and the clean-up runs first: one with
\* a matching RAck has been answered.  It need not be the one that has the sender:
\* a repeated PRACK may overtake the first one and clean up before it.
PrackBeforeAnswer ==
    Answered /\ relTx # "None" =>
        relTx # "Held" /\ \E p \in GoodRAck : prack[p] \in {"Clean", "Done"}

\* A call that the NGN takes for established can be found by its BYE (active,
\* voicemail_active), or is just being entered.  A browser's call without a
\* dialog is the exception: close_pwa_inbound_for_ws gives it up without a BYE.
NoForgottenCall ==
    ngn = "Up" => \/ active \/ voicemail
                  \/ stage \in {"Answered", "VmAnswered"}
                  \/ ~dialog /\ \E w \in WebLeg : winner = w /\ session[w] \notin {"Open", "Close"}

\* The browser in webrtc_active has not been told to stop, by the fork's drain
\* or by anyone else.
WinnerUndisturbed ==
    webActive # None /\ webActive \in wsOpen => browser[webActive] = "InCall"

\* A refusal the handler passes on is of the best class among the statuses the
\* fork received (RFC 3261 16.7), in whatever order the legs failed.
RefusalIsBest ==
    stage = "Refused" /\ result = "AllFailed" /\ Head(finals) \notin {408, 487, 502} =>
        \A r \in received :
            r.status # Errored =>
                final_response_class_rank(Head(finals)) >= final_response_class_rank(r.status)

Quiescent ==
    /\ stage = "Done"
    /\ \A b \in Bye : bye[b] \in {"Idle", "Done"}
    /\ \A w \in WebLeg : session[w] \in {"Open", "Done"}

\* Once the call is over and every task has returned, no table, bridge,
\* recording or browser is left with it.
ReleasedWhenOver ==
    Quiescent /\ ngn = "Down" =>
        /\ ~active /\ ~voicemail /\ webActive = None /\ bridge # "Up"
        /\ winner \in WebLeg => browser[winner] = "Quiet"

\* handle_invite answers: neither the fork nor the PRACK can hold it for ever.
EveryInviteAnswered == stage = "Trying" ~> finals # <<>>

\* A CANCEL that finds the INVITE in flight makes it a 487, even when the fork
\* is decided at the same moment.
CancelInTimeIs487 == cancel = "Notified" /\ finals # <<>> => finals = <<487>>

\* No answer is awaited for ever: every entry of PendingAnswers is delivered,
\* cancelled, or withdrawn by its leg, also when a CANCEL dropped the fork.
WaitersDrain == \A w \in WebLeg : waiter[w] = "Open" ~> waiter[w] # "Open"
=============================================================================

------------------------------ MODULE PwaCall -------------------------------
(***************************************************************************)
(* Calls that a browser makes to the NGN (call/orchestrator.rs,            *)
(* handle_pwa_outbound_offer_impl and what ends or holds such a call).     *)
(* The offer is answered at once; the INVITE runs in a task that outlives  *)
(* the session.  A peer's media channel can be taken once, so a session    *)
(* makes one call.  The call is ended by the browser's Bye, by the end of  *)
(* its session (module PwaSession) or by the NGN's BYE.                    *)
(***************************************************************************)
EXTENDS PwaSession

CONSTANTS
    Caller,     \* the sessions that make a call
    EarlyBye    \* may the NGN's BYE overtake the end of the task?

ASSUME PwaAssumption == Caller \subseteq Session /\ EarlyBye \in BOOLEAN

VARIABLES
    task,       \* where the spawned task stands
    far,        \* the NGN's side of the call: "None", "Up", "Down"
    entry,      \* callers in webrtc_outbound_active
    media,      \* the call's bridge: "None", "Up", "Down"
    inCalls,    \* Metrics.call_active
    journal,    \* the call's entry in the call log
    retried,    \* callers whose second INVITE, with a Call-ID of its own, is the call
    hold,       \* WebRtcOutboundEntry.hold_state
    offered,    \* WebRtcOutboundEntry.last_ngn_offer_sdp asks for hold
    farHold,    \* the NGN has the call on hold
    unsure,     \* callers whose last Re-INVITE got no answer
    reinvite,   \* set_hold: "None", or the hold it asks for, or "Commit"
    asked,      \* that hold
    closing,    \* where close_pwa_outbound_for_ws stands
    ngnBye      \* where handle_bye stands

callVars == <<task, far, entry, media, inCalls, journal, retried>>
holdVars == <<hold, offered, farHold, unsure, reinvite, asked>>
overVars == <<closing, ngnBye>>
pwaVars == <<sessionVars, callVars, holdVars, overVars>>

TaskStages == {"None", "Inviting", "RetryWait", "Retrying", "Attach", "Count", "Insert", "Done"}

PwaInit ==
    /\ SessionInit
    /\ task = [s \in Caller |-> "None"]
    /\ far = [s \in Caller |-> "None"]
    /\ entry = {} /\ retried = {} /\ unsure = {}
    /\ media = [s \in Caller |-> "None"]
    /\ inCalls = 0
    /\ journal = [s \in Caller |-> "None"]
    /\ hold = [s \in Caller |-> FALSE]
    /\ offered = [s \in Caller |-> FALSE]
    /\ farHold = [s \in Caller |-> FALSE]
    /\ reinvite = [s \in Caller |-> "None"]
    /\ asked = [s \in Caller |-> FALSE]
    /\ closing = [s \in Caller |-> "None"]
    /\ ngnBye = [s \in Caller |-> "None"]

TaskTo(s, t) == task' = [task EXCEPT ![s] = t]
FarTo(s, f) == far' = [far EXCEPT ![s] = f]

\* record_end finds the entry only under the Call-ID of the first INVITE.
Ended(s, outcome) ==
    journal' = [journal EXCEPT ![s] = IF s \in retried THEN @ ELSE outcome]
DecCalls == inCalls' = IF inCalls = 0 THEN 0 ELSE inCalls - 1

-----------------------------------------------------------------------------
(* The task                                                                *)

\* ClientMessage::Offer with a target.  The rate limiter, the browser's SDP and
\* the sockets may refuse it (OtherFrame); else the task starts with record_start.
Offer(s) ==
    /\ Frame(s) /\ task[s] = "None"
    /\ TaskTo(s, "Inviting")
    /\ journal' = [journal EXCEPT ![s] = "Open"]
    /\ UNCHANGED <<recvLoop, keepalive, forwarder, socket, binding, hasAor, far, entry, media,
                   inCalls, retried, holdVars, overVars>>

\* The call failed: the log and the browser are told.
Fails(s) ==
    /\ TaskTo(s, "Done")
    /\ journal' = [journal EXCEPT ![s] = "Failed"]
    /\ UNCHANGED <<far, retried>>

\* Uac::invite returns; decide_retry may ask for a second attempt.
InviteReturns(s) ==
    /\ task[s] = "Inviting"
    /\ \/ TaskTo(s, "Attach") /\ FarTo(s, "Up") /\ UNCHANGED <<journal, retried>>
       \/ TaskTo(s, "RetryWait") /\ UNCHANGED <<far, journal, retried>>
       \/ Fails(s)
    /\ UNCHANGED <<sessionVars, entry, media, inCalls, holdVars, overVars>>

\* After the wait the task looks at the sink, which is closed only once its
\* forwarder has ended.
RetryFires(s) ==
    /\ task[s] = "RetryWait"
    /\ IF forwarder[s] = "Ended" THEN Fails(s)
       ELSE TaskTo(s, "Retrying") /\ UNCHANGED <<far, journal, retried>>
    /\ UNCHANGED <<sessionVars, entry, media, inCalls, holdVars, overVars>>

RetryReturns(s) ==
    /\ task[s] = "Retrying"
    /\ \/ /\ TaskTo(s, "Attach") /\ FarTo(s, "Up")
          /\ retried' = retried \cup {s} /\ UNCHANGED journal
       \/ Fails(s)
    /\ UNCHANGED <<sessionVars, entry, media, inCalls, holdVars, overVars>>

\* Mutant: a call that gets no bridge is left to the NGN.
AttachKeepsDialog(s) ==
    /\ task[s] = "Attach"
    /\ \/ TaskTo(s, "Count") /\ media' = [media EXCEPT ![s] = "Up"] /\ UNCHANGED far
       \/ TaskTo(s, "Done") /\ UNCHANGED <<media, far>>
    /\ UNCHANGED <<sessionVars, entry, inCalls, journal, retried, holdVars, overVars>>

\* The bridge starts; without an RTP address, a CallManager or a successful
\* attach the call is ended with a BYE, and its log entry stays open.
AttachBridge(s) ==
    /\ task[s] = "Attach"
    /\ \/ TaskTo(s, "Count") /\ media' = [media EXCEPT ![s] = "Up"] /\ UNCHANGED far
       \/ TaskTo(s, "Done") /\ FarTo(s, "Down") /\ UNCHANGED media
    /\ UNCHANGED <<sessionVars, entry, inCalls, journal, retried, holdVars, overVars>>

CountPwaCall(s) ==
    /\ task[s] = "Count"
    /\ TaskTo(s, "Insert")
    /\ inCalls' = inCalls + 1
    /\ UNCHANGED <<sessionVars, far, entry, media, journal, retried, holdVars, overVars>>

\* The entry goes in whether the session is still there or not.
InsertEntry(s) ==
    /\ task[s] = "Insert"
    /\ TaskTo(s, "Done")
    /\ entry' = entry \cup {s}
    /\ UNCHANGED <<sessionVars, far, media, inCalls, journal, retried, holdVars, overVars>>

-----------------------------------------------------------------------------
(* close_pwa_outbound_for_ws, in the receive loop                          *)

Closing(s) == recvLoop[s] \in {"ByeClose", "ExitClose"}
LoopAfterClose(s) == LoopTo(s, IF recvLoop[s] = "ByeClose" THEN "ByeUnregister"
                                                           ELSE "ExitUnregister")
Rest(s) == UNCHANGED <<keepalive, forwarder, permits, quiet, socket, binding, hasAor, holdVars>>

NothingToClose(s) ==
    /\ Closing(s)
    /\ s \in Caller => s \notin entry /\ closing[s] = "None"
    /\ LoopAfterClose(s)
    /\ UNCHANGED <<callVars, overVars>> /\ Rest(s)

\* Mutant: the entry is looked up and removed when the BYE is out.
CloseLooksUp(s) ==
    /\ Closing(s) /\ closing[s] = "None" /\ s \in entry
    /\ closing' = [closing EXCEPT ![s] = "Bye"]
    /\ UNCHANGED <<recvLoop, callVars, ngnBye>> /\ Rest(s)

\* extract_if: the entry leaves the table before anything else is done.
CloseTakes(s) ==
    /\ Closing(s) /\ closing[s] = "None" /\ s \in entry
    /\ entry' = entry \ {s}
    /\ closing' = [closing EXCEPT ![s] = "Bye"]
    /\ UNCHANGED <<recvLoop, task, far, media, inCalls, journal, retried, ngnBye>> /\ Rest(s)

CloseSendsBye(s) ==
    /\ closing[s] = "Bye"
    /\ FarTo(s, "Down")
    /\ closing' = [closing EXCEPT ![s] = "Release"]
    /\ UNCHANGED <<recvLoop, task, entry, media, inCalls, journal, retried, ngnBye>> /\ Rest(s)

CloseReleases(s) ==
    /\ closing[s] = "Release"
    /\ media' = [media EXCEPT ![s] = "Down"]
    /\ DecCalls /\ Ended(s, "Answered")
    /\ closing' = [closing EXCEPT ![s] = "None"]
    /\ LoopAfterClose(s)
    /\ UNCHANGED <<task, far, entry, retried, ngnBye>> /\ Rest(s)

-----------------------------------------------------------------------------
(* handle_bye, for a call in webrtc_outbound_active                        *)

NgnHangsUp(s) ==
    /\ far[s] = "Up" /\ ngnBye[s] = "None"
    /\ EarlyBye \/ task[s] = "Done"
    /\ FarTo(s, "Down")
    /\ ngnBye' = [ngnBye EXCEPT ![s] = "Received"]
    /\ UNCHANGED <<sessionVars, task, entry, media, inCalls, journal, retried, holdVars, closing>>

\* Whoever removes the entry ends the call; a BYE that finds none is forgotten.
NgnByeTakes(s) ==
    /\ ngnBye[s] = "Received"
    /\ ngnBye' = [ngnBye EXCEPT ![s] = IF s \in entry THEN "Release" ELSE "Done"]
    /\ entry' = entry \ {s}
    /\ UNCHANGED <<sessionVars, task, far, media, inCalls, journal, retried, holdVars, closing>>

\* Bridge, gauge, log, a Bye to the browser, the dialog terminated.
NgnByeReleases(s) ==
    /\ ngnBye[s] = "Release"
    /\ ngnBye' = [ngnBye EXCEPT ![s] = "Done"]
    /\ media' = [media EXCEPT ![s] = "Down"]
    /\ DecCalls /\ Ended(s, "Answered")
    /\ UNCHANGED <<sessionVars, task, far, entry, retried, holdVars, closing>>

-----------------------------------------------------------------------------
(* set_hold                                                                *)

\* The entry is looked up, the new offer made from the last one.
HoldAsked(s) ==
    /\ Frame(s) /\ s \in entry
    /\ LoopTo(s, "Busy")
    /\ \E h \in BOOLEAN : asked' = [asked EXCEPT ![s] = h]
    /\ reinvite' = [reinvite EXCEPT ![s] = "Sent"]
    /\ UNCHANGED <<keepalive, forwarder, socket, binding, hasAor, callVars, overVars,
                   hold, offered, farHold, unsure>>

\* The NGN accepts, refuses, or is not heard: it may have accepted nevertheless.
ReinviteReturns(s) ==
    /\ reinvite[s] = "Sent"
    /\ \/ /\ far[s] = "Up"
          /\ farHold' = [farHold EXCEPT ![s] = asked[s]]
          /\ reinvite' = [reinvite EXCEPT ![s] = "Commit"]
          /\ UNCHANGED <<recvLoop, unsure>>
       \/ /\ reinvite' = [reinvite EXCEPT ![s] = "None"] /\ LoopTo(s, "Recv")
          /\ UNCHANGED <<farHold, unsure>>
       \/ /\ reinvite' = [reinvite EXCEPT ![s] = "None"] /\ LoopTo(s, "Recv")
          /\ \E h \in {asked[s], farHold[s]} : farHold' = [farHold EXCEPT ![s] = h]
          /\ unsure' = unsure \cup {s}
    /\ UNCHANGED <<keepalive, forwarder, permits, quiet, socket, binding, hasAor, callVars, overVars,
                   hold, offered, asked>>

\* Mutant: the offer is remembered, the state is not.
HoldForgets(s) ==
    /\ reinvite[s] = "Commit"
    /\ offered' = [offered EXCEPT ![s] = asked[s]]
    /\ unsure' = unsure \ {s}
    /\ reinvite' = [reinvite EXCEPT ![s] = "None"] /\ LoopTo(s, "Recv")
    /\ UNCHANGED <<keepalive, forwarder, permits, quiet, socket, binding, hasAor, callVars, overVars,
                   farHold, asked, hold>>

HoldCommits(s) ==
    /\ reinvite[s] = "Commit"
    /\ hold' = [hold EXCEPT ![s] = asked[s]]
    /\ offered' = [offered EXCEPT ![s] = asked[s]]
    /\ unsure' = unsure \ {s}
    /\ reinvite' = [reinvite EXCEPT ![s] = "None"] /\ LoopTo(s, "Recv")
    /\ UNCHANGED <<keepalive, forwarder, permits, quiet, socket, binding, hasAor, callVars, overVars,
                   farHold, asked>>

\* The last clone of the sink is dropped: the forwarder's channel ends.
ForwarderDrains(s) ==
    /\ forwarder[s] = "Run" /\ recvLoop[s] = "Done"
    /\ binding # s
    /\ s \in Caller => task[s] \in {"None", "Done"} /\ s \notin entry
    /\ forwarder' = [forwarder EXCEPT ![s] = "Ended"]
    /\ UNCHANGED <<recvLoop, keepalive, permits, quiet, socket, binding, hasAor, callVars, holdVars,
                   overVars>>

-----------------------------------------------------------------------------
NotCalls == UNCHANGED <<callVars, holdVars, overVars>>

TaskRuns(s) == InviteReturns(s) \/ RetryFires(s) \/ RetryReturns(s) \/ AttachBridge(s)
               \/ CountPwaCall(s) \/ InsertEntry(s)
RecvRuns(s) == \/ RecvTask(s) /\ NotCalls
               \/ NothingToClose(s)
               \/ s \in Caller /\ (CloseTakes(s) \/ CloseSendsBye(s) \/ CloseReleases(s)
                                   \/ ReinviteReturns(s) \/ HoldCommits(s))
KeepRuns(s) == KeepTask(s) /\ NotCalls
ForwarderRuns(s) == (ForwarderFails(s) /\ NotCalls) \/ ForwarderDrains(s)
ByeRunsPwa(s) == NgnByeTakes(s) \/ NgnByeReleases(s)

PwaNext ==
    \/ \E s \in Session : (SessionEnv(s) /\ NotCalls) \/ RecvRuns(s) \/ KeepRuns(s) \/ ForwarderRuns(s)
    \/ \E s \in Caller : \/ Offer(s) \/ TaskRuns(s) \/ NgnHangsUp(s) \/ ByeRunsPwa(s)
                         \/ HoldAsked(s)

PwaSpec == PwaInit /\ [][PwaNext]_pwaVars

-----------------------------------------------------------------------------
PwaTypeOK ==
    /\ SessionTypeOK
    /\ task \in [Caller -> TaskStages]
    /\ far \in [Caller -> {"None", "Up", "Down"}]
    /\ entry \subseteq Caller /\ retried \subseteq Caller /\ unsure \subseteq Caller
    /\ media \in [Caller -> {"None", "Up", "Down"}]
    /\ inCalls \in Nat
    /\ journal \in [Caller -> {"None", "Open", "Failed", "Answered"}]
    /\ hold \in [Caller -> BOOLEAN] /\ offered \in [Caller -> BOOLEAN]
    /\ farHold \in [Caller -> BOOLEAN] /\ asked \in [Caller -> BOOLEAN]
    /\ reinvite \in [Caller -> {"None", "Sent", "Commit"}]
    /\ closing \in [Caller -> {"None", "Bye", "Release"}]
    /\ ngnBye \in [Caller -> {"None", "Received", "Release", "Done"}]

\* A call that is up at the NGN is in webrtc_outbound_active, on its way there,
\* or being closed: one of the two BYE paths can always find it.
PwaCallFindable ==
    \A s \in Caller : far[s] = "Up" =>
        s \in entry \/ task[s] \in {"Attach", "Count", "Insert"} \/ closing[s] = "Bye"

\* call_active counts the calls that were counted and whose end has not been
\* reached by the one of close_pwa_outbound_for_ws and handle_bye that took the
\* entry.
PwaGaugeExact ==
    inCalls = Cardinality({s \in Caller : \/ task[s] = "Insert" \/ s \in entry
                                          \/ closing[s] # "None" \/ ngnBye[s] = "Release"})

\* Once set_hold has returned with an answer, sabiden and the NGN agree on who
\* is on hold, and the next offer starts from there.
HoldAgrees ==
    \A s \in Caller : reinvite[s] = "None" /\ s \notin unsure =>
        hold[s] = farHold[s] /\ offered[s] = farHold[s]

\* The three together: whatever the session, its keepalive, the call's task and the
\* NGN do at the same time, a browser's call can be found, is counted once and has
\* one state of hold.
PwaCallsKept == PwaCallFindable /\ PwaGaugeExact /\ HoldAgrees

\* A session whose socket is gone is wound up, noticed by whichever of its
\* three tasks: the receive loop's clean-up runs and the keepalive stops.
SessionWindsUp ==
    \A s \in Session : (socket[s] # "Up") ~> (recvLoop[s] = "Done" /\ keepalive[s] = "Ended")

\* "however the WS falls, the NGN dialog does not stay": when the session is
\* over and the call's task too, the NGN holds no call of it.
NoOrphanCall ==
    \A s \in Caller : recvLoop[s] = "Done" /\ task[s] = "Done" =>
        s \notin entry /\ far[s] # "Up"
=============================================================================

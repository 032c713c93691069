---------------------------- MODULE InternalCall ----------------------------
(***************************************************************************)
(* Calls between extensions (call/intercom.rs and the dispatch_... parts   *)
(* of call/orchestrator.rs).  Caller and callee are a SIP phone or a       *)
(* browser each; every combination has a dispatch function of its own,     *)
(* with the same steps in different orders.  A browser that calls is       *)
(* answered before its callee is rung, a phone after.  Several calls run   *)
(* at the same time and meet in InternalCallRegistry.                      *)
(***************************************************************************)
EXTENDS Naturals, FiniteSets

CONSTANTS
    InternalId,      \* the calls
    MaxInternal,     \* IntercomConfig.max_concurrent_internal_calls
    IntercomEnabled  \* IntercomConfig.enabled

ASSUME InternalAssumption ==
    IsFiniteSet(InternalId) /\ MaxInternal \in Nat /\ IntercomEnabled \in BOOLEAN

VARIABLES
    icall,      \* each call: its parties, its task and what they have been told
    internal    \* InternalCallRegistry: the calls entered

internalVars == <<icall, internal>>

Kinds == {"Sip", "Pwa"}
InternalStages == {"Idle", "Offer", "Prepare", "CreateOffer", "Register", "Push", "Await", "Accept",
                   "Invite", "Endpoint", "Answer", "Attach", "Enter", "Done"}
\* "Up": has a 200 or an SDP answer; "Refused": an error; "Released": a BYE or a
\* closed peer; "Gone": hung up by itself.
PartyStates == {"None", "Ringing", "Up", "Refused", "Released", "Gone"}

InternalInit ==
    /\ icall = [c \in InternalId |-> [from |-> "Sip", to |-> "Sip", stage |-> "Idle", caller |-> "None",
                                  callee |-> "None", waiter |-> "None", bridge |-> FALSE]]
    /\ internal = {}

At(c, s) == icall[c].stage = s
ToStage(c, s) == icall' = [icall EXCEPT ![c].stage = s] /\ UNCHANGED internal

Becomes(c, i) == icall' = [icall EXCEPT ![c] = i] /\ UNCHANGED internal
Call(c, f, t, s) == At(c, s) /\ icall[c].from = f /\ icall[c].to = t

\* The call has failed.  A browser is sent an error, and closed once it had its
\* answer; a phone gets a final response, unless it has one.
FailWith(c, calleeState) ==
    Becomes(c, [icall[c] EXCEPT !.stage = "Done", !.callee = calleeState,
                    !.caller = IF @ # "Up" THEN "Refused"
                               ELSE IF icall[c].from = "Pwa" THEN "Released" ELSE "Up"])

-----------------------------------------------------------------------------
(* Dispatch                                                                *)

\* can_accept looks at the table, which the call enters only when it is up.
Admits == IntercomEnabled /\ Cardinality(internal) < MaxInternal

\* A browser's call whose target has a binding (dispatch_pwa_internal_call).
DispatchPwa(c, t) ==
    /\ At(c, "Idle")
    /\ Becomes(c, [icall[c] EXCEPT !.from = "Pwa", !.to = t,
                       !.stage = IF Admits THEN "Offer" ELSE "Done",
                       !.caller = IF Admits THEN @ ELSE "Refused"])

\* peer.handle_offer.  Towards a browser the answer goes out at once.
CallerOffer(c) ==
    /\ At(c, "Offer")
    /\ \/ Becomes(c, IF icall[c].to = "Pwa"
                     THEN [icall[c] EXCEPT !.stage = "CreateOffer", !.caller = "Up"]
                     ELSE [icall[c] EXCEPT !.stage = "Prepare"])
       \/ FailWith(c, "None")

\* A phone's call: 486, or 503, 488 and 500 when a part, the caller's RTP address
\* or a socket is missing (dispatch_sip_ua_internal_invite).
DispatchSip(c, t) ==
    /\ At(c, "Idle")
    /\ \/ /\ Admits
          /\ Becomes(c, [icall[c] EXCEPT !.from = "Sip", !.to = t,
                             !.stage = IF t = "Pwa" THEN "CreateOffer" ELSE "Prepare"])
       \/ Becomes(c, [icall[c] EXCEPT !.from = "Sip", !.to = t, !.stage = "Done", !.caller = "Refused"])

\* Browser to phone: the media channel, a socket, the SDP; then the answer goes out.
PreparePwaToSip(c) ==
    /\ Call(c, "Pwa", "Sip", "Prepare")
    /\ \/ Becomes(c, [icall[c] EXCEPT !.stage = "Invite", !.caller = "Up"])
       \/ FailWith(c, "None")

\* Phone to phone: the second socket and the SDP for the callee.
PrepareSipToSip(c) ==
    /\ Call(c, "Sip", "Sip", "Prepare")
    /\ ToStage(c, "Invite") \/ FailWith(c, "None")

-----------------------------------------------------------------------------
(* A browser as callee                                                     *)

CreateCalleeOffer(c) ==
    /\ At(c, "CreateOffer")
    /\ ToStage(c, "Register") \/ FailWith(c, "None")

\* PendingAnswers::register
RegisterCallee(c) ==
    /\ At(c, "Register")
    /\ Becomes(c, [icall[c] EXCEPT !.stage = "Push", !.waiter = "Open"])

Rung(c) == Becomes(c, [icall[c] EXCEPT !.stage = "Await", !.callee = "Ringing"])
\* The waiter is given up, the callee left as it is said.
AbandonsCallee(c, calleeState) ==
    Becomes(c, [icall[c] EXCEPT !.stage = "Done", !.waiter = "Cancelled", !.callee = calleeState,
                    !.caller = IF icall[c].from = "Pwa" THEN "Released" ELSE "Refused"])

\* The offer goes into the callee's WebSocket, or the waiter is cancelled; a
\* phone's call also closes the callee's peer.
PushFromPwa(c) == Call(c, "Pwa", "Pwa", "Push") /\ (Rung(c) \/ AbandonsCallee(c, "None"))
PushFromSip(c) == Call(c, "Sip", "Pwa", "Push") /\ (Rung(c) \/ AbandonsCallee(c, "Released"))

\* The user picks up or declines; the callee's session ends (cancel_all).
CalleeReplies(c) ==
    /\ At(c, "Await") /\ icall[c].waiter = "Open"
    /\ \E w \in {"Sdp", "Decline", "Cancelled"} : Becomes(c, [icall[c] EXCEPT !.waiter = w])

\* The oneshot resolves, or 30 s pass.  A browser's callee is not told of the
\* timeout and rings on.
AwaitFromPwa(c) ==
    /\ Call(c, "Pwa", "Pwa", "Await")
    /\ CASE icall[c].waiter = "Sdp" -> ToStage(c, "Accept")
         [] icall[c].waiter = "Decline" -> AbandonsCallee(c, "Refused")
         [] icall[c].waiter = "Cancelled" -> AbandonsCallee(c, "Gone")
         [] OTHER -> AbandonsCallee(c, icall[c].callee)

\* With a phone as caller every way out but the answer closes the callee's peer.
AwaitFromSip(c) ==
    /\ Call(c, "Sip", "Pwa", "Await")
    /\ IF icall[c].waiter = "Sdp" THEN ToStage(c, "Accept") ELSE AbandonsCallee(c, "Released")

\* accept_answer and the media channels of both browsers.
AcceptFromPwa(c) ==
    /\ Call(c, "Pwa", "Pwa", "Accept")
    /\ \/ Becomes(c, [icall[c] EXCEPT !.stage = "Attach", !.callee = "Up"])
       \/ FailWith(c, "Released")

\* accept_answer, the callee's media channel, the SDP for the phone.
AcceptFromSip(c) ==
    /\ Call(c, "Sip", "Pwa", "Accept")
    /\ \/ Becomes(c, [icall[c] EXCEPT !.stage = "Answer", !.callee = "Up"])
       \/ FailWith(c, "Released")

-----------------------------------------------------------------------------
(* A phone as callee                                                       *)

\* invite_intercom: established; refused; no answer.
Invites(c) ==
    \/ Becomes(c, [icall[c] EXCEPT !.stage = "Endpoint", !.callee = "Up"])
    \/ FailWith(c, "Refused")
InviteFromPwa(c) == Call(c, "Pwa", "Sip", "Invite") /\ Invites(c)
InviteFromSip(c) == Call(c, "Sip", "Sip", "Invite") /\ Invites(c)

\* The RTP address of the callee's 200, or a BYE to it.
EndpointForPwa(c) ==
    /\ Call(c, "Pwa", "Sip", "Endpoint")
    /\ ToStage(c, "Attach") \/ FailWith(c, "Released")

\* The same, and the SDP for the phone that calls.
EndpointForSip(c) ==
    /\ Call(c, "Sip", "Sip", "Endpoint")
    /\ ToStage(c, "Answer") \/ FailWith(c, "Released")

-----------------------------------------------------------------------------
(* Both are there                                                          *)

\* 200 to the phone that calls.  When it cannot be sent the callee is released
\* and the caller hears nothing.
AnswerCaller(c) ==
    /\ At(c, "Answer")
    /\ \/ Becomes(c, [icall[c] EXCEPT !.stage = "Attach", !.caller = "Up"])
       \/ Becomes(c, [icall[c] EXCEPT !.stage = "Done", !.callee = "Released"])

Bridged(c) == Becomes(c, [icall[c] EXCEPT !.stage = "Enter", !.bridge = TRUE])

\* The bridge starts and CallManager takes it, or both are released ...
AttachPwaToPwa(c) == Call(c, "Pwa", "Pwa", "Attach") /\ (Bridged(c) \/ FailWith(c, "Released"))
AttachPwaToSip(c) == Call(c, "Pwa", "Sip", "Attach") /\ (Bridged(c) \/ FailWith(c, "Released"))
\* ... but a phone that calls has its 200, and no dialog to send it a BYE in.
AttachSipToPwa(c) == Call(c, "Sip", "Pwa", "Attach") /\ (Bridged(c) \/ FailWith(c, "Released"))

\* Mutant: the callee keeps a call that has no bridge.
AttachForgetsCallee(c) == Call(c, "Sip", "Sip", "Attach") /\ (Bridged(c) \/ FailWith(c, "Up"))

AttachSipToSip(c) == Call(c, "Sip", "Sip", "Attach") /\ (Bridged(c) \/ FailWith(c, "Released"))

\* register_call, without a second look at the limit.
Entered(c) ==
    /\ icall' = [icall EXCEPT ![c].stage = "Done"]
    /\ internal' = internal \cup {c}
EnterFromPwa(c) == At(c, "Enter") /\ icall[c].from = "Pwa" /\ Entered(c)
EnterFromSip(c) == At(c, "Enter") /\ icall[c].from = "Sip" /\ Entered(c)

\* A party hangs up.  No handler of a BYE or of a closed session looks into
\* InternalCallRegistry: the entry, the bridge and the other party stay.
InternalHangsUp(c) ==
    /\ c \in internal
    /\ \/ icall[c].caller = "Up" /\ icall' = [icall EXCEPT ![c].caller = "Gone"]
       \/ icall[c].callee = "Up" /\ icall' = [icall EXCEPT ![c].callee = "Gone"]
    /\ UNCHANGED internal

-----------------------------------------------------------------------------
InternalTask(c) ==
    \/ CallerOffer(c) \/ PreparePwaToSip(c) \/ PrepareSipToSip(c)
    \/ CreateCalleeOffer(c) \/ RegisterCallee(c) \/ PushFromPwa(c) \/ PushFromSip(c)
    \/ AwaitFromPwa(c) \/ AwaitFromSip(c) \/ AcceptFromPwa(c) \/ AcceptFromSip(c)
    \/ InviteFromPwa(c) \/ InviteFromSip(c) \/ EndpointForPwa(c) \/ EndpointForSip(c)
    \/ AnswerCaller(c)
    \/ AttachPwaToPwa(c) \/ AttachPwaToSip(c) \/ AttachSipToPwa(c) \/ AttachSipToSip(c)
    \/ EnterFromPwa(c) \/ EnterFromSip(c)

InternalNext ==
    \E c \in InternalId : \/ \E t \in Kinds : DispatchPwa(c, t) \/ DispatchSip(c, t)
                          \/ InternalTask(c) \/ CalleeReplies(c) \/ InternalHangsUp(c)

InternalTypeOK ==
    /\ icall \in [InternalId -> [from : Kinds, to : Kinds, stage : InternalStages, caller : PartyStates,
                             callee : PartyStates, waiter : {"None", "Open", "Sdp", "Decline", "Cancelled"},
                             bridge : BOOLEAN]]
    /\ internal \subseteq InternalId

\* What a call leaves behind: both parties, a bridge and an entry, or none of
\* them; the one exception is a phone whose 200 was out before the bridge failed.
Whole(c) ==
    LET i == icall[c] IN
    IF c \in internal THEN i.bridge /\ i.caller \in {"Up", "Gone"} /\ i.callee \in {"Up", "Gone"}
    ELSE ~i.bridge /\ i.callee # "Up" /\ (i.caller = "Up" => i.from = "Sip" /\ i.callee = "Released")

\* However the callee behaves, a dispatched call comes to an end in which nobody
\* is left in half a call.
InternalCallSettles == <>[](\A c \in InternalId : At(c, "Idle") \/ (At(c, "Done") /\ Whole(c)))
=============================================================================

---------------------------- MODULE OutboundCall ----------------------------
(***************************************************************************)
(* An extension's call to the NGN (src/call/orchestrator.rs):              *)
(* UasEventHandler and its OutboundCallRegistry, a back-to-back user agent *)
(* with one SIP dialog to the extension and one to the NGN.                *)
(*                                                                         *)
(* Every event (INVITE, CANCEL, BYE, REFER, an expired registration) is    *)
(* handled by a task of its own.  The registry is locked for one operation *)
(* at a time, never across two, and every await is a point where the other *)
(* tasks run.  Uac::invite and Uac::cancel_pending (module Uac) appear     *)
(* here as their results.                                                  *)
(*                                                                         *)
(* A request is one received INVITE, and names the NGN dialog it leads to: *)
(* of its two attempts at most one is established.  Two requests with the  *)
(* same Call-ID are an INVITE and its retransmission.                      *)
(***************************************************************************)
EXTENDS Naturals, FiniteSets

CONSTANTS
    Request,        \* the INVITEs the extensions send
    CallId, CallOf, \* the extension leg's Call-ID of each request
    Aor, AorOf,     \* the extension that sent it
    Faulty,         \* requests whose 200 OK may fail to be sent, or to make a dialog
    Transferable,   \* calls whose extension may send a REFER
    Wrap,           \* the gauge counts modulo this (2^64)
    None

ASSUME CallAssumption ==
    /\ IsFiniteSet(Request)
    /\ CallOf \in [Request -> CallId]
    /\ AorOf \in [Request -> Aor]
    /\ Faulty \subseteq Request
    /\ Transferable \subseteq CallId
    /\ Wrap \in Nat /\ Cardinality(Request) < Wrap
    /\ None \notin Request \cup CallId

VARIABLES
    stage,         \* where handle_invite stands for each request
    result,        \* what Uac::invite returned last
    wasCancelled,  \* handle_invite's local: the flag as it loaded it
    flagged,       \* requests whose PendingOutbound.cancelled_flag is set
    pending,       \* registry: Call-ID -> INVITE in progress
    byExt,         \* registry: Call-ID -> established call
    ngnToExt,      \* registry: NGN dialog -> Call-ID
    cancel,        \* where handle_ext_cancel stands for each Call-ID
    cancelReq,     \* and the request whose PendingOutbound it holds
    closing,       \* where each task that ends a call stands
    gauge,         \* Metrics.call_active
    log,           \* CallLog: the outcome recorded for each Call-ID
    finals,        \* final responses sent to the extension's INVITE
    ngn,           \* the NGN dialog, from the ACK of its 2xx on
    byes,          \* BYEs sent on the NGN dialog
    extDown        \* requests whose extension leg a BYE has ended

registry == <<pending, byExt, ngnToExt>>
inviteVars == <<stage, result, wasCancelled>>
cancelVars == <<flagged, cancel, cancelReq>>
legVars == <<finals, ngn, byes, extDown>>
vars == <<inviteVars, cancelVars, registry, closing, gauge, log, legVars>>

Kinds == {"ExtBye", "NgnBye", "Unregister", "Refer"}
Results == {"Established", "Failed", "Err"}
InProgress == {"Inviting", "RetryWait", "Retrying"}
\* handle_invite ends in Done, or early: Stranded when the call is answered and
\* has no extension dialog, Unanswered when the 200 OK could not be sent.
Stages == {"Idle", "Accepted", "Load", "Take", "Handle", "Insert", "Done",
           "Stranded", "Unanswered"} \cup InProgress
CloseStages == {"Idle", "Transferring", "Drained", "Bye", "Remove", "Dec", "Sub", "Done"}
Outcomes == {"Answered", "Failed", "Cancelled"}
Finals == {"200", "487", "Refused", "Failed"}

Init ==
    /\ stage = [r \in Request |-> "Idle"]
    /\ result = [r \in Request |-> "None"]
    /\ wasCancelled = [r \in Request |-> FALSE]
    /\ flagged = {}
    /\ pending = [c \in CallId |-> None]
    /\ byExt = [c \in CallId |-> None]
    /\ ngnToExt = [r \in Request |-> None]
    /\ cancel = [c \in CallId |-> "Idle"]
    /\ cancelReq = [c \in CallId |-> None]
    /\ closing = [k \in Kinds |-> [r \in Request |-> "Idle"]]
    /\ gauge = 0
    /\ log = [c \in CallId |-> "None"]
    /\ finals = [r \in Request |-> {}]
    /\ ngn = [r \in Request |-> "None"]
    /\ byes = [r \in Request |-> 0]
    /\ extDown = {}

To(r, s) == stage' = [stage EXCEPT ![r] = s]
Answers(r, f) == finals' = [finals EXCEPT ![r] = @ \cup {f}]

\* CallLog::record_start keeps an entry that exists; record_end overwrites.
RecordStart(c) == log' = [log EXCEPT ![c] = IF @ = "None" THEN "Open" ELSE @]
RecordEnd(c, o) == log' = [log EXCEPT ![c] = IF @ = "None" THEN "None" ELSE o]

-----------------------------------------------------------------------------
(* UasEventHandler::handle_invite                                          *)

\* The extension UAS has answered 100 and the event has a task.
Receive(r) ==
    /\ stage[r] = "Idle"
    /\ To(r, "Accepted")
    /\ UNCHANGED <<result, wasCancelled, cancelVars, registry, closing, gauge, log, legVars>>

\* A call to oneself, to an extension while the intercom is off (480), or one
\* too many for the rate limiter (503).
Refuse(r) ==
    /\ stage[r] = "Accepted"
    /\ To(r, "Done")
    /\ Answers(r, "Refused")
    /\ UNCHANGED <<result, wasCancelled, cancelVars, registry, closing, gauge, log,
                   ngn, byes, extDown>>

\* insert_pending, then Uac::invite begins.
Start(r) ==
    /\ stage[r] = "Accepted"
    /\ To(r, "Inviting")
    /\ RecordStart(CallOf[r])
    /\ pending' = [pending EXCEPT ![CallOf[r]] = r]
    /\ UNCHANGED <<result, wasCancelled, cancelVars, byExt, ngnToExt, closing, gauge, legVars>>

\* Uac::invite returns.  With a 2xx it has sent the ACK: the NGN dialog is up.
Returns(r, o) ==
    /\ result' = [result EXCEPT ![r] = o]
    /\ ngn' = IF o = "Established" THEN [ngn EXCEPT ![r] = "Up"] ELSE ngn
    /\ UNCHANGED <<wasCancelled, cancelVars, registry, closing, gauge, log,
                   finals, byes, extDown>>

\* decide_retry: only a 500, 486 or 503 without a long Retry-After is retried.
InviteResult(r, o) ==
    /\ stage[r] = "Inviting"
    /\ Returns(r, o)
    /\ \/ To(r, "Load")
       \/ o = "Failed" /\ To(r, "RetryWait")

\* The sleep ends or the CANCEL's notification ends it; either way the flag
\* decides whether the second attempt is made.
RetryWake(r) ==
    /\ stage[r] = "RetryWait"
    /\ To(r, IF r \in flagged THEN "Load" ELSE "Retrying")
    /\ UNCHANGED <<result, wasCancelled, cancelVars, registry, closing, gauge, log, legVars>>

RetryResult(r, o) ==
    /\ stage[r] = "Retrying"
    /\ Returns(r, o)
    /\ To(r, "Load")

\* Mutant: the flag is not read again after the INVITE.
LoadFlagNot(r) ==
    /\ stage[r] = "Load"
    /\ To(r, "Take")
    /\ UNCHANGED <<result, wasCancelled, cancelVars, registry, closing, gauge, log, legVars>>

\* The flag is read first, and only then, after waiting for the registry's
\* lock, is the pending entry taken away from later CANCELs.
LoadFlag(r) ==
    /\ stage[r] = "Load"
    /\ To(r, "Take")
    /\ wasCancelled' = [wasCancelled EXCEPT ![r] = r \in flagged]
    /\ UNCHANGED <<result, cancelVars, registry, closing, gauge, log, legVars>>

TakePending(r) ==
    /\ stage[r] = "Take"
    /\ To(r, "Handle")
    /\ pending' = [pending EXCEPT ![CallOf[r]] = None]
    /\ UNCHANGED <<result, wasCancelled, cancelVars, byExt, ngnToExt, closing, gauge,
                   log, legVars>>

\* Mutant: the BYE is built and not sent.
ReleaseNgnNot(r) == UNCHANGED <<byes, ngn>>

\* UacDialog::send_bye.
ReleaseNgn(r) ==
    /\ byes' = [byes EXCEPT ![r] = @ + 1]
    /\ ngn' = [ngn EXCEPT ![r] = "Down"]

\* Established after all: close the NGN leg, the extension gets its 487 from
\* the CANCEL's handler.
EstablishedCancelled(r) ==
    /\ stage[r] = "Handle" /\ result[r] = "Established" /\ wasCancelled[r]
    /\ To(r, "Done")
    /\ ReleaseNgn(r)
    /\ RecordEnd(CallOf[r], "Cancelled")
    /\ UNCHANGED <<result, wasCancelled, cancelVars, registry, closing, gauge,
                   finals, extDown>>

\* inc_call_active.
Counts(r) == gauge' = IF gauge + 1 = Wrap THEN 0 ELSE gauge + 1

\* Mutant: the 200 OK is sent although the CANCEL was noticed.
AnswerAnyway(r) ==
    /\ stage[r] = "Handle" /\ result[r] = "Established"
    /\ Answers(r, "200")
    /\ Counts(r)
    /\ \/ To(r, "Insert")
       \/ r \in Faulty /\ To(r, "Stranded")
    /\ UNCHANGED <<result, wasCancelled, cancelVars, registry, closing, log,
                   ngn, byes, extDown>>

\* The 200 OK goes to the extension and the call is counted, before there is
\* an entry for it; if Dialog::from_uas_invite fails there will never be one.
Answer(r) ==
    /\ stage[r] = "Handle" /\ result[r] = "Established" /\ ~wasCancelled[r]
    /\ Answers(r, "200")
    /\ Counts(r)
    /\ \/ To(r, "Insert")
       \/ r \in Faulty /\ To(r, "Stranded")
    /\ UNCHANGED <<result, wasCancelled, cancelVars, registry, closing, log,
                   ngn, byes, extDown>>

\* The 200 OK cannot be sent: the handler returns the error.
AnswerFails(r) ==
    /\ stage[r] = "Handle" /\ result[r] = "Established" /\ ~wasCancelled[r]
    /\ r \in Faulty
    /\ To(r, "Unanswered")
    /\ UNCHANGED <<result, wasCancelled, cancelVars, registry, closing, gauge, log, legVars>>

InsertConfirmed(r) ==
    /\ stage[r] = "Insert"
    /\ To(r, "Done")
    /\ ngnToExt' = [ngnToExt EXCEPT ![r] = CallOf[r]]
    /\ byExt' = [byExt EXCEPT ![CallOf[r]] = r]
    /\ UNCHANGED <<result, wasCancelled, cancelVars, pending, closing, gauge, log, legVars>>

\* The NGN's refusal is passed on, whether or not a CANCEL came before it.
Failed(r) ==
    /\ stage[r] = "Handle" /\ result[r] = "Failed"
    /\ To(r, "Done")
    /\ RecordEnd(CallOf[r], "Failed")
    /\ Answers(r, "Failed")
    /\ UNCHANGED <<result, wasCancelled, cancelVars, registry, closing, gauge,
                   ngn, byes, extDown>>

\* Mutant: an error is always recorded as the caller's CANCEL.
ErroredCancelled(r) ==
    /\ stage[r] = "Handle" /\ result[r] = "Err"
    /\ To(r, "Done")
    /\ RecordEnd(CallOf[r], "Cancelled")
    /\ IF wasCancelled[r] THEN UNCHANGED finals ELSE Answers(r, "Failed")
    /\ UNCHANGED <<result, wasCancelled, cancelVars, registry, closing, gauge,
                   ngn, byes, extDown>>

\* Transport error or Timer B: 503, unless the CANCEL's handler answers.
Errored(r) ==
    /\ stage[r] = "Handle" /\ result[r] = "Err"
    /\ To(r, "Done")
    /\ IF wasCancelled[r]
       THEN RecordEnd(CallOf[r], "Cancelled") /\ UNCHANGED finals
       ELSE RecordEnd(CallOf[r], "Failed") /\ Answers(r, "Failed")
    /\ UNCHANGED <<result, wasCancelled, cancelVars, registry, closing, gauge,
                   ngn, byes, extDown>>

-----------------------------------------------------------------------------
(* handle_ext_cancel                                                       *)

CancelTo(c, s) == cancel' = [cancel EXCEPT ![c] = s]

\* Without a pending INVITE the CANCEL has no effect.
CancelLookup(c) ==
    /\ cancel[c] = "Idle"   \* bound: one CANCEL per call
    /\ \E r \in Request : CallOf[r] = c /\ stage[r] # "Idle"
    /\ CancelTo(c, IF pending[c] = None THEN "Done" ELSE "Got")
    /\ cancelReq' = [cancelReq EXCEPT ![c] = pending[c]]
    /\ UNCHANGED <<inviteVars, flagged, registry, closing, gauge, log, legVars>>

CancelFlag(c) ==
    /\ cancel[c] = "Got"
    /\ CancelTo(c, "Flagged")
    /\ flagged' = flagged \cup {cancelReq[c]}
    /\ UNCHANGED <<inviteVars, cancelReq, registry, closing, gauge, log, legVars>>

\* Mutant: a CANCEL that was not sent is not answered with 487.
CancelAnswerNot(c) ==
    /\ cancel[c] = "Flagged"
    /\ CancelTo(c, "Done")
    /\ UNCHANGED <<inviteVars, flagged, cancelReq, registry, closing, gauge, log, legVars>>

\* Uac::cancel_pending has returned, whatever it returned: 487.
CancelAnswer(c) ==
    /\ cancel[c] = "Flagged"
    /\ CancelTo(c, "Done")
    /\ Answers(cancelReq[c], "487")
    /\ UNCHANGED <<inviteVars, flagged, cancelReq, registry, closing, gauge, log,
                   ngn, byes, extDown>>

-----------------------------------------------------------------------------
(* The tasks that end an established call                                  *)

Closes(k, r, s) == closing' = [closing EXCEPT ![k][r] = s]

\* Mutant: the reverse map keeps its half.
RemoveByExtHalf(c) == byExt' = [byExt EXCEPT ![c] = None] /\ UNCHANGED ngnToExt

\* Mutant: the entry is looked up and left in place.
LookupByExt(c) == UNCHANGED <<byExt, ngnToExt>>

RemoveByExt(c) ==
    /\ byExt' = [byExt EXCEPT ![c] = None]
    /\ ngnToExt' = [ngnToExt EXCEPT ![byExt[c]] = None]

\* The extension knows the call from the 200 OK on, and hangs up.
HungUp(c) == {r \in Request : CallOf[r] = c /\ "200" \in finals[r] /\ r \notin extDown}

\* handle_ext_bye: 200, then remove_by_ext.
ExtBye(c) ==
    /\ HungUp(c) # {}
    /\ extDown' = extDown \cup HungUp(c)
    /\ IF byExt[c] = None
       THEN UNCHANGED <<byExt, ngnToExt, closing>>
       ELSE RemoveByExt(c) /\ Closes("ExtBye", byExt[c], "Bye")
    /\ UNCHANGED <<inviteVars, cancelVars, pending, gauge, log, finals, ngn, byes>>

\* handle_bye, try_forward_bye, handle_ngn_bye: lookup_by_ngn, remove_by_ngn.
NgnBye(r) ==
    /\ ngn[r] = "Up"
    /\ ngn' = [ngn EXCEPT ![r] = "Down"]
    /\ LET c == ngnToExt[r]
       IN  IF c = None \/ byExt[c] = None
           THEN UNCHANGED <<byExt, ngnToExt, closing>>
           ELSE /\ byExt' = [byExt EXCEPT ![c] = None]
                /\ ngnToExt' = [ngnToExt EXCEPT ![r] = None]
                /\ Closes("NgnBye", byExt[c], "Bye")
    /\ UNCHANGED <<inviteVars, cancelVars, pending, gauge, log, finals, byes, extDown>>

\* handle_ext_unregister: drain_by_aor takes all calls of the extension, which
\* are then closed one after the other.
EntriesOf(a) == {r \in Request : AorOf[r] = a /\ byExt[CallOf[r]] = r}

Unregister(a) ==
    LET drained == EntriesOf(a)
    IN  /\ drained # {}
        /\ byExt' = [c \in CallId |-> IF byExt[c] \in drained THEN None ELSE byExt[c]]
        /\ ngnToExt' = [r \in Request |-> IF r \in drained THEN None ELSE ngnToExt[r]]
        /\ closing' = [closing EXCEPT !["Unregister"] =
                          [r \in Request |-> IF r \in drained THEN "Drained" ELSE @[r]]]
        /\ UNCHANGED <<inviteVars, cancelVars, pending, gauge, log, legVars>>

NextDrained(r) ==
    /\ closing["Unregister"][r] = "Drained"
    /\ \A q \in Request : AorOf[q] = AorOf[r] =>
          closing["Unregister"][q] \notin {"Bye", "Dec", "Sub"}
    /\ Closes("Unregister", r, "Bye")
    /\ UNCHANGED <<inviteVars, cancelVars, registry, gauge, log, legVars>>

\* handle_ext_refer: lookup_by_ext leaves the entry in place while the
\* transfer target is invited.  Bound: one REFER per call.
ReferStart(c) ==
    LET r == byExt[c]
    IN  /\ c \in Transferable
        /\ r # None
        /\ closing["Refer"][r] = "Idle"
        /\ r \notin extDown
        /\ Closes("Refer", r, "Transferring")
        /\ UNCHANGED <<inviteVars, cancelVars, registry, gauge, log, legVars>>

\* The target answers and the old call is torn down, or it is kept.
ReferOutcome(r, s) ==
    /\ closing["Refer"][r] = "Transferring"
    /\ Closes("Refer", r, s)
    /\ UNCHANGED <<inviteVars, cancelVars, registry, gauge, log, legVars>>

\* UacDialog::send_bye to the NGN, and the BYE to the extension that has not
\* itself asked for the end of the call.
SendBye(k, r) ==
    /\ closing[k][r] = "Bye"
    /\ Closes(k, r, IF k = "Refer" THEN "Remove" ELSE "Dec")
    /\ IF k = "NgnBye"
       THEN UNCHANGED <<ngn, byes>>
       ELSE ReleaseNgn(r)
    /\ extDown' = IF k \in {"NgnBye", "Refer"} THEN extDown \cup {r} ELSE extDown
    /\ UNCHANGED <<inviteVars, cancelVars, registry, gauge, log, finals>>

\* After a transfer the entry is removed by Call-ID, if it is still there.
RemoveTransferred(r) ==
    /\ closing["Refer"][r] = "Remove"
    /\ Closes("Refer", r, "Dec")
    /\ IF byExt[CallOf[r]] = None THEN UNCHANGED <<byExt, ngnToExt>>
                                  ELSE RemoveByExt(CallOf[r])
    /\ UNCHANGED <<inviteVars, cancelVars, pending, gauge, log, legVars>>

\* The outcome is recorded by the extension's BYE and the transfer only.
Closed(k, r) ==
    /\ Closes(k, r, "Done")
    /\ IF k \in {"ExtBye", "Refer"} THEN RecordEnd(CallOf[r], "Answered")
                                    ELSE UNCHANGED log

\* Mutant: the NGN's BYE does not uncount the call.
DecLoadExtOnly(k, r) ==
    /\ closing[k][r] = "Dec"
    /\ IF gauge > 0 /\ k # "NgnBye" THEN Closes(k, r, "Sub") /\ UNCHANGED log
                                    ELSE Closed(k, r)
    /\ UNCHANGED <<inviteVars, cancelVars, registry, gauge, legVars>>

\* dec_call_active reads the gauge, and in a second step subtracts if what it
\* read was not zero.
DecLoad(k, r) ==
    /\ closing[k][r] = "Dec"
    /\ IF gauge > 0 THEN Closes(k, r, "Sub") /\ UNCHANGED log ELSE Closed(k, r)
    /\ UNCHANGED <<inviteVars, cancelVars, registry, gauge, legVars>>

DecSub(k, r) ==
    /\ closing[k][r] = "Sub"
    /\ gauge' = IF gauge = 0 THEN Wrap - 1 ELSE gauge - 1
    /\ Closed(k, r)
    /\ UNCHANGED <<inviteVars, cancelVars, registry, legVars>>

-----------------------------------------------------------------------------
InviteStep(r) ==
    \/ Refuse(r) \/ Start(r)
    \/ \E o \in Results : InviteResult(r, o) \/ RetryResult(r, o)
    \/ RetryWake(r) \/ LoadFlag(r) \/ TakePending(r)
    \/ EstablishedCancelled(r) \/ Answer(r) \/ AnswerFails(r) \/ InsertConfirmed(r)
    \/ Failed(r) \/ Errored(r)

CancelStep(c) == CancelFlag(c) \/ CancelAnswer(c)

CloseStep(k, r) ==
    \/ k = "Refer" /\ (ReferOutcome(r, "Bye") \/ ReferOutcome(r, "Done") \/ RemoveTransferred(r))
    \/ k = "Unregister" /\ NextDrained(r)
    \/ SendBye(k, r) \/ DecLoad(k, r) \/ DecSub(k, r)

\* What the extensions and the NGN may do next.
Event ==
    \/ \E r \in Request : Receive(r) \/ NgnBye(r)
    \/ \E c \in CallId : CancelLookup(c) \/ ExtBye(c) \/ ReferStart(c)
    \/ \E a \in Aor : Unregister(a)

Next ==
    \/ Event
    \/ \E r \in Request : InviteStep(r)
    \/ \E c \in CallId : CancelStep(c)
    \/ \E k \in Kinds : \E r \in Request : CloseStep(k, r)

Spec == Init /\ [][Next]_vars

\* Every spawned handler runs on: Uac::invite and Uac::cancel_pending return
\* (Uac!InviteReturns, Uac!CancelReturns), and so does every other await.
Fairness ==
    /\ \A r \in Request : WF_vars(InviteStep(r))
    /\ \A c \in CallId : WF_vars(CancelStep(c))
    /\ \A k \in Kinds : \A r \in Request : WF_vars(CloseStep(k, r))

FairSpec == Spec /\ Fairness
-----------------------------------------------------------------------------
(* Properties                                                              *)

TypeOK ==
    /\ stage \in [Request -> Stages]
    /\ result \in [Request -> Results \cup {"None"}]
    /\ wasCancelled \in [Request -> BOOLEAN]
    /\ flagged \subseteq Request
    /\ pending \in [CallId -> Request \cup {None}]
    /\ byExt \in [CallId -> Request \cup {None}]
    /\ ngnToExt \in [Request -> CallId \cup {None}]
    /\ cancel \in [CallId -> {"Idle", "Got", "Flagged", "Done"}]
    /\ cancelReq \in [CallId -> Request \cup {None}]
    /\ \A c \in CallId : cancel[c] \in {"Got", "Flagged"} => cancelReq[c] \in Request
    /\ closing \in [Kinds -> [Request -> CloseStages]]
    /\ gauge \in Nat
    /\ log \in [CallId -> Outcomes \cup {"None", "Open"}]
    /\ finals \in [Request -> SUBSET Finals]
    /\ ngn \in [Request -> {"None", "Up", "Down"}]
    /\ byes \in [Request -> Nat]
    /\ extDown \subseteq Request

\* The registry's two maps are inverse: whichever leg's Call-ID a BYE carries,
\* it finds the same call, and no removal leaves half an entry behind.
RegistryInverse ==
    \A c \in CallId, r \in Request : byExt[c] = r <=> ngnToExt[r] = c

\* Some task is going to send a BYE on r's NGN dialog.
ByeDue(r) ==
    \E k \in Kinds \ {"NgnBye"} : closing[k][r] \in {"Drained", "Bye"}

\* No NGN dialog is forgotten: once handle_invite is done, a dialog that is
\* still up (and billed) is in the registry, where every way to end the call
\* finds it, or a task is on its way to end it.  The two error paths that
\* return early after the 2xx (Stranded, Unanswered) are the exception.
NoForgottenDialog ==
    \A r \in Request :
        ngn[r] = "Up" /\ stage[r] = "Done" => byExt[CallOf[r]] = r \/ ByeDue(r)

\* However CANCEL, BYEs of both sides and the end of a registration overlap,
\* at most one BYE goes out on an NGN dialog.
OneNgnBye == \A r \in Request : byes[r] <= 1

\* Tasks that took an entry out of the registry and still have to uncount it.
Uncounting == {h \in (Kinds \ {"Refer"}) \X Request :
                  closing[h[1]][h[2]] \in {"Drained", "Bye", "Dec", "Sub"}}

\* Calls answered without an extension dialog stay counted for ever.
Stranded == {r \in Request : stage[r] = "Stranded"}

\* call_active is exact: it counts the calls in the registry, those about to
\* enter it, those being closed and the stranded ones.
GaugeExact ==
    gauge = Cardinality({c \in CallId : byExt[c] # None})
            + Cardinality({r \in Request : stage[r] = "Insert"})
            + Cardinality(Uncounting) + Cardinality(Stranded)

\* A CANCEL whose flag is set before Uac::invite has returned is final: the
\* extension never gets a 200 OK for that INVITE, and the NGN leg is released even
\* if the NGN answered or a retry was made.
CancelInTimeIsFinal ==
    \A r \in Request :
        /\ [](r \in flagged /\ stage[r] \in InProgress => []("200" \notin finals[r]))
        /\ r \in flagged /\ stage[r] \in InProgress ~> stage[r] = "Done" /\ ngn[r] # "Up"

\* Every INVITE of an extension gets a final response, from handle_invite or
\* from the CANCEL's handler, unless the socket refuses to send it.
EveryInviteAnswered ==
    \A r \in Request : stage[r] # "Idle" ~> finals[r] # {} \/ stage[r] = "Unanswered"

\* What the call log says of an INVITE happened: "cancelled" means that the
\* caller did cancel and never got a 200 OK, "answered" that it did get one,
\* "failed" that there is no acknowledged NGN dialog.
LogTruthful ==
    \A r \in Request :
        /\ log[CallOf[r]] = "Cancelled" => r \in flagged /\ "200" \notin finals[r]
        /\ log[CallOf[r]] = "Answered" => "200" \in finals[r]
        /\ log[CallOf[r]] = "Failed" => ngn[r] = "None"

\* The two legs of a call as the extension and the NGN see them.
CallerLeg(r) ==
    IF "200" \in finals[r] THEN IF r \in extDown THEN "Over" ELSE "Answered"
    ELSE IF finals[r] \cap {"Refused", "Failed"} # {} THEN "Refused"
    ELSE IF wasCancelled[r] THEN "Withdrawn"
    ELSE IF stage[r] = "Idle" THEN "None" ELSE "Offered"

CarrierLeg(r) ==
    IF byes[r] > 0 THEN "Released" ELSE IF ngn[r] = "Down" THEN "Ended" ELSE ngn[r]

\* The handlers implement OutboundService, whatever CANCELs, BYEs of both sides,
\* transfers and retransmitted INVITEs overlap: a 200 OK to the extension only
\* with an NGN dialog behind it and no CANCEL noticed, an error only where there
\* is none and none follows, and a BYE to the NGN only for a call that was
\* answered or whose CANCEL was noticed.
Service == INSTANCE OutboundService WITH
    caller <- [r \in Request |-> CallerLeg(r)],
    carrier <- [r \in Request |-> CarrierLeg(r)],
    asked <- flagged,
    confirmed <- {r \in Request : "487" \in finals[r]}

ImplementsService == Service!Spec

-----------------------------------------------------------------------------
(* What the repository says and the code does not do                       *)

\* A CANCEL answered 487 means that the call is not established.
CancelledNotAnswered == \A r \in Request : ~({"487", "200"} \subseteq finals[r])

\* When one dialog of the call ends, the other is ended too: no call stays in
\* the registry with one leg gone.
ByePropagates ==
    \A c \in CallId : byExt[c] # None => ngn[byExt[c]] = "Up" /\ byExt[c] \notin extDown

\* The gauge never goes below zero (where an unsigned counter wraps).
GaugeNotBelowZero == gauge <= Cardinality(Request)
-----------------------------------------------------------------------------
(* The facts that make the safety properties inductive.                    *)

\* An entry belongs to a finished handle_invite, and so does every task that
\* ends its call.
EntryOfCall ==
    \A c \in CallId : byExt[c] # None => CallOf[byExt[c]] = c /\ stage[byExt[c]] = "Done"

ClosingIsDone ==
    \A k \in Kinds : \A r \in Request : closing[k][r] # "Idle" => stage[r] = "Done"

\* The NGN dialog comes with Uac::invite's 2xx, and is gone when a transfer
\* removes the entry.
DialogAfter2xx ==
    \A r \in Request :
        /\ stage[r] \in {"Idle", "Accepted"} \cup InProgress => ngn[r] = "None"
        /\ stage[r] \in {"Load", "Take", "Handle"} /\ result[r] # "Established" => ngn[r] = "None"
        /\ closing["Refer"][r] = "Remove" => ngn[r] # "Up"

DialogInv == RegistryInverse /\ EntryOfCall /\ ClosingIsDone /\ DialogAfter2xx
             /\ NoForgottenDialog

\* Taking the entry out of the registry is what gives a task the right to
\* send the BYE, and only one task can take it.
RightToBye ==
    \A r \in Request :
        /\ stage[r] # "Done" => byes[r] = 0
        /\ byExt[CallOf[r]] = r => byes[r] = 0 /\ \A k \in Kinds : closing[k][r] = "Idle"
        /\ closing["Refer"][r] = "Idle"
        /\ \A k \in Kinds : closing[k][r] \in {"Drained", "Bye"} => byes[r] = 0
        /\ \A j, k \in Kinds : j # k /\ closing[j][r] # "Idle" => closing[k][r] = "Idle"

ByeInv == OneNgnBye /\ RightToBye

\* The calls call_active should count: from the 200 OK to the uncounting.
Counted == {r \in Request : byExt[CallOf[r]] = r \/ stage[r] \in {"Insert", "Stranded"}
                            \/ \E k \in Kinds : closing[k][r] \in {"Drained", "Bye", "Dec", "Sub"}}

\* A call with an entry or a closing task has been answered, an answered call
\* is logged neither as cancelled nor as failed, and handle_invite has loaded
\* only flags that were set.
AnsweredFirst ==
    \A r \in Request :
        /\ byExt[CallOf[r]] = r => "200" \in finals[r]
        /\ \A k \in Kinds : closing[k][r] # "Idle" => "200" \in finals[r]
        /\ stage[r] = "Insert" => "200" \in finals[r]
        /\ "200" \in finals[r] => stage[r] \in {"Insert", "Stranded", "Done"}

LogFollows ==
    \A r \in Request :
        /\ log[CallOf[r]] # "None" => stage[r] \notin {"Idle", "Accepted"}
        /\ log[CallOf[r]] \in {"Cancelled", "Failed"} => stage[r] = "Done" /\ "200" \notin finals[r]
        /\ wasCancelled[r] => r \in flagged

LogInv == LogTruthful /\ AnsweredFirst /\ LogFollows

\* A CANCEL that came in time: its flag is set and handle_invite will see it,
\* or has seen it.
CancelSeen(r) ==
    /\ r \in flagged /\ "200" \notin finals[r]
    /\ \/ stage[r] \in InProgress \cup {"Load", "Done"}
       \/ stage[r] \in {"Take", "Handle"} /\ wasCancelled[r]

\* What the two legs of a call know of each other.  While handle_invite is at
\* work the extension has seen at most the CANCEL's 487 and no BYE was sent.
BeforeAnswer ==
    \A r \in Request :
        /\ stage[r] \in {"Idle", "Accepted", "Load"} \cup InProgress => ~wasCancelled[r]
        /\ stage[r] \notin {"Insert", "Stranded", "Done"} => finals[r] \subseteq {"487"}
        /\ stage[r] # "Done" => byes[r] = 0
        /\ stage[r] \in {"Idle", "Accepted"} \cup InProgress => ngn[r] = "None"
        /\ stage[r] = "RetryWait" => result[r] = "Failed"
        /\ stage[r] \in {"Load", "Take", "Handle"} =>
              (result[r] = "Established" <=> ngn[r] # "None")

\* An answered call has an NGN dialog, a refused one has none, and only an
\* answered one has an entry, a task that ends it, or a BYE.
LegsAgree ==
    \A r \in Request :
        /\ "200" \in finals[r] => ngn[r] # "None" /\ ~wasCancelled[r]
        /\ finals[r] \cap {"Refused", "Failed"} # {} => ngn[r] = "None" /\ "200" \notin finals[r]
        /\ byes[r] > 0 => ngn[r] = "Down"
        /\ r \in extDown \/ stage[r] = "Insert" => "200" \in finals[r]
        /\ \A c \in CallId : byExt[c] = r => "200" \in finals[r] /\ stage[r] = "Done"
        /\ \A k \in Kinds : closing[k][r] # "Idle" => "200" \in finals[r] /\ stage[r] = "Done"

\* A flag belongs to an INVITE that was received, a loaded flag and a 487 to a
\* flag that was set.
FlagsAgree ==
    /\ \A r \in Request :
          /\ r \in flagged => stage[r] # "Idle"
          /\ wasCancelled[r] \/ "487" \in finals[r] => r \in flagged
    /\ \A c \in CallId :
          /\ pending[c] # None => stage[pending[c]] # "Idle"
          /\ cancelReq[c] # None => stage[cancelReq[c]] # "Idle"
          /\ cancel[c] = "Flagged" => cancelReq[c] \in flagged

LegsInv == BeforeAnswer /\ LegsAgree /\ FlagsAgree
=============================================================================

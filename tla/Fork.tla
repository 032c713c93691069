-------------------------------- MODULE Fork --------------------------------
(***************************************************************************)
(* fork_to_bindings (src/call/orchestrator.rs): one NGN INVITE rings every *)
(* bound extension.  A SIP binding gets a leg that runs Uac::invite, a     *)
(* browser one that runs run_webrtc_leg: make an offer, register a waiter  *)
(* for its answer, join the fork's leg registry, push the offer, wait.     *)
(* Legs report through a channel; the first one that is established wins.  *)
(*                                                                         *)
(* Every leg is a task of its own on a multi-threaded runtime, so each     *)
(* lock and each message is a step.  A browser is what it shows: the last  *)
(* of the Offer, Cancel and Bye that were put into its WebSocket.          *)
(***************************************************************************)
EXTENDS Naturals, Sequences, FiniteSets

CONSTANTS
    SipLeg, WebLeg,  \* the bindings that the registrar had for the call
    SipStatus,       \* final responses an extension may refuse with
    None

Leg == SipLeg \cup WebLeg

ASSUME ForkAssumption ==
    /\ IsFiniteSet(Leg) /\ SipLeg \cap WebLeg = {}
    /\ SipStatus \subseteq 300..699
    /\ None \notin Leg \cup Nat

VARIABLES
    leg,         \* where each leg's task stands
    waiter,      \* PendingAnswers: the oneshot each browser leg waits on
    browser,     \* what each browser shows
    wsOpen,      \* browsers whose session is not over
    sink,        \* browsers whose WsSink still takes messages
    registry,    \* WebRtcLegRegistry.legs
    closed,      \* WebRtcLegRegistry.closed
    inbox,       \* leg results that fork_to_bindings has not received yet
    received,    \* statuses and errors it has received
    lastStatus,  \* the status it would answer with
    fork,        \* where fork_to_bindings stands
    result,      \* the ForkResult it has decided on
    winner       \* the established leg it chose

legVars == <<leg, waiter, browser>>
registryVars == <<registry, closed>>
collectVars == <<inbox, received, lastStatus, fork, result, winner>>
wsVars == <<wsOpen, sink>>
forkVars == <<legVars, wsVars, registryVars, collectVars>>

LegStages == {"Idle", "Inviting", "Offering", "Register", "Join", "Late", "Push",
              "Waiting", "Accept", "Up", "Over"}
WaiterStates == {"None", "Open", "Sdp", "Decline", "Cancelled"}
BrowserStates == {"Quiet", "Ringing", "InCall"}
ForkStages == {"Idle", "Collect", "Drain", "Done", "Dropped"}
ForkResults == {"None", "Answered", "AllFailed", "Timeout"}
Errored == 0

ForkInit ==
    /\ leg = [l \in Leg |-> "Idle"]
    /\ waiter = [w \in WebLeg |-> "None"]
    /\ browser = [w \in WebLeg |-> "Quiet"]
    /\ wsOpen = WebLeg /\ sink = WebLeg
    /\ registry = {} /\ closed = FALSE
    /\ inbox = <<>> /\ received = {} /\ lastStatus = None
    /\ fork = "Idle" /\ result = "None" /\ winner = None

LegTo(l, s) == leg' = [leg EXCEPT ![l] = s]
Shows(w, s) == browser' = [browser EXCEPT ![w] = IF w \in wsOpen THEN s ELSE @]

\* The leg ends and sends its LegResult; a receiver that is gone loses it.
Report(l, s, status) ==
    /\ LegTo(l, s)
    /\ inbox' = IF fork = "Collect" THEN Append(inbox, [from |-> l, status |-> status])
                ELSE inbox
    /\ UNCHANGED <<received, lastStatus, fork, result, winner>>

-----------------------------------------------------------------------------
(* PendingAnswers: the answers that legs wait for, by Call-ID              *)

\* Remove the entry: the leg's oneshot fails, unless it has its answer.
Cancelled(ws) == [w \in WebLeg |-> IF w \in ws /\ waiter[w] = "Open"
                                   THEN "Cancelled" ELSE waiter[w]]

\* The browser answers or declines; without an entry nothing is delivered.
Deliver(w, answer) ==
    /\ browser[w] = "Ringing" /\ w \in wsOpen
    /\ waiter[w] = "Open"
    /\ waiter' = [waiter EXCEPT ![w] = answer]
    /\ browser' = [browser EXCEPT ![w] = IF answer = "Sdp" THEN "InCall" ELSE "Quiet"]
    /\ UNCHANGED <<leg, wsVars, registryVars, collectVars>>

\* The forwarder of a session that is over fails to write a message, and ends.
ForwarderEnds(w) ==
    /\ w \in sink \ wsOpen
    /\ sink' = sink \ {w}
    /\ UNCHANGED <<legVars, wsOpen, registryVars, collectVars>>

-----------------------------------------------------------------------------
(* The SIP leg                                                             *)

\* Uac::invite returns (module Uac).  Nobody cancels it when another leg wins.
SipAnswers(l) ==
    /\ leg[l] = "Inviting" /\ l \in SipLeg
    /\ \/ Report(l, "Up", 200)
       \/ \E s \in SipStatus \cup {Errored} : Report(l, "Over", s)
    /\ UNCHANGED <<waiter, browser, wsVars, registryVars>>

-----------------------------------------------------------------------------
(* run_webrtc_leg                                                          *)

CreateOffer(w) ==
    /\ leg[w] = "Offering"
    /\ \/ LegTo(w, "Register") /\ UNCHANGED collectVars
       \/ Report(w, "Over", Errored)
    /\ UNCHANGED <<waiter, browser, wsVars, registryVars>>

RegisterWaiter(w) ==
    /\ leg[w] = "Register"
    /\ LegTo(w, "Join")
    /\ waiter' = [waiter EXCEPT ![w] = "Open"]
    /\ UNCHANGED <<browser, wsVars, registryVars, collectVars>>

\* try_register_webrtc_leg: closed is tested and the leg added under one lock.
TryRegister(w) ==
    /\ leg[w] = "Join"
    /\ IF closed THEN LegTo(w, "Late") /\ UNCHANGED registry
                 ELSE LegTo(w, "Push") /\ registry' = registry \cup {w}
    /\ UNCHANGED <<waiter, browser, wsVars, closed, collectVars>>

\* The fork was decided meanwhile: the leg withdraws, and cancels for itself.
StandDown(w) ==
    /\ leg[w] = "Late"
    /\ waiter' = Cancelled({w})
    /\ Shows(w, "Quiet")
    /\ Report(w, "Over", Errored)
    /\ UNCHANGED <<wsVars, registryVars>>

\* The sink takes the offer as long as its forwarder lives, which may be longer
\* than the session.
PushOffer(w) ==
    /\ leg[w] = "Push"
    /\ IF w \in sink
       THEN /\ LegTo(w, "Waiting") /\ Shows(w, "Ringing")
            /\ UNCHANGED <<waiter, collectVars>>
       ELSE /\ waiter' = Cancelled({w}) /\ UNCHANGED browser
            /\ Report(w, "Over", Errored)
    /\ UNCHANGED <<wsVars, registryVars>>

\* Mutant: the waiter stays behind when the leg gives up.
KeepsWaiter(w) ==
    /\ leg[w] = "Waiting"
    /\ UNCHANGED <<waiter, browser, wsVars, registryVars>>
    /\ CASE waiter[w] = "Sdp"       -> LegTo(w, "Accept") /\ UNCHANGED collectVars
         [] waiter[w] = "Decline"   -> Report(w, "Over", 603)
         [] waiter[w] = "Cancelled" -> Report(w, "Over", Errored)
         [] waiter[w] = "Open"      -> Report(w, "Over", 408)

\* The oneshot resolves, or leg_timeout passes and the leg withdraws its entry.
AwaitAnswer(w) ==
    /\ leg[w] = "Waiting"
    /\ CASE waiter[w] = "Sdp"       -> LegTo(w, "Accept") /\ UNCHANGED collectVars
         [] waiter[w] = "Decline"   -> Report(w, "Over", 603)
         [] waiter[w] = "Cancelled" -> Report(w, "Over", Errored)
         [] waiter[w] = "Open"      -> Report(w, "Over", 408)
    /\ waiter' = Cancelled({w})
    /\ UNCHANGED <<browser, wsVars, registryVars>>

\* peer.accept_answer; on failure the peer is closed.
AcceptAnswer(w) ==
    /\ leg[w] = "Accept"
    /\ Report(w, "Up", 200) \/ Report(w, "Over", Errored)
    /\ UNCHANGED <<waiter, browser, wsVars, registryVars>>

-----------------------------------------------------------------------------
(* fork_to_bindings                                                        *)

\* The future is polled for the first time: every leg gets its task.
StartLegs ==
    /\ fork = "Idle"
    /\ fork' = "Collect"
    /\ leg' = [l \in Leg |-> IF l \in SipLeg THEN "Inviting" ELSE "Offering"]
    /\ UNCHANGED <<waiter, browser, wsVars, registryVars, inbox, received, lastStatus, result, winner>>

final_response_class_rank(code) ==
    CASE code \div 100 = 6 -> 4
      [] code \div 100 = 4 -> 3
      [] code \div 100 = 5 -> 2
      [] code \div 100 = 3 -> 1
      [] OTHER -> 0

\* Mutant: the last status to arrive is kept.
LatestStatus(current, new) == TRUE

should_replace_status(current, new) ==
    \/ current = None
    \/ final_response_class_rank(new) > final_response_class_rank(current)

\* One result is taken from the channel.  The first 200 wins, a 6xx ends the
\* fork at once, and so does the last leg's failure.
Collect ==
    /\ fork = "Collect" /\ inbox # <<>>
    /\ LET r == Head(inbox)
           decided == \/ r.status = 200
                      \/ r.status \div 100 = 6
                      \/ Cardinality(received) + 1 >= Cardinality(Leg)
       IN
       /\ inbox' = Tail(inbox)
       /\ received' = received \cup {r}
       /\ winner' = IF r.status = 200 THEN r.from ELSE winner
       /\ lastStatus' = IF /\ r.status \notin {200, Errored}
                           /\ should_replace_status(lastStatus, r.status)
                        THEN r.status ELSE lastStatus
       /\ fork' = IF decided THEN "Drain" ELSE fork
       /\ result' = IF r.status = 200 THEN "Answered"
                    ELSE IF decided THEN "AllFailed" ELSE result
    /\ UNCHANGED <<legVars, wsVars, registryVars>>

\* The deadline passes; what is still in the channel is lost.
Deadline ==
    /\ fork = "Collect"
    /\ fork' = "Drain" /\ result' = "Timeout"
    /\ UNCHANGED <<legVars, wsVars, registryVars, inbox, received, lastStatus, winner>>

DrainExcept(spared) ==
    /\ fork = "Drain"
    /\ fork' = "Done"
    /\ closed' = TRUE /\ registry' = {}
    /\ waiter' = Cancelled(registry \ spared)
    /\ browser' = [w \in WebLeg |-> IF w \in (registry \ spared) \cap wsOpen
                                    THEN "Quiet" ELSE browser[w]]
    /\ inbox' = <<>>
    /\ UNCHANGED <<leg, wsVars, received, lastStatus, result, winner>>

\* Mutant: the winner's own browser is told to stop as well.
DrainAll == DrainExcept({})

\* close_and_drain_webrtc_legs, then Cancel to every leg but the winner.
Drain == DrainExcept({winner})

\* The future is dropped by the caller's select; the legs' tasks go on.
DropFork ==
    /\ fork' = "Dropped" /\ inbox' = <<>>
    /\ UNCHANGED <<received, lastStatus, result, winner>>

LegStep(l) ==
    \/ SipAnswers(l)
    \/ l \in WebLeg /\ \/ CreateOffer(l) \/ RegisterWaiter(l) \/ TryRegister(l)
                       \/ StandDown(l) \/ PushOffer(l) \/ AwaitAnswer(l) \/ AcceptAnswer(l)
ForkStep == Collect \/ Deadline \/ Drain

-----------------------------------------------------------------------------
ForkTypeOK ==
    /\ leg \in [Leg -> LegStages]
    /\ waiter \in [WebLeg -> WaiterStates]
    /\ browser \in [WebLeg -> BrowserStates]
    /\ wsOpen \subseteq sink /\ sink \subseteq WebLeg /\ registry \subseteq WebLeg /\ closed \in BOOLEAN
    /\ inbox \in Seq([from : Leg, status : Nat])
    /\ received \subseteq [from : Leg, status : Nat]
    /\ lastStatus \in Nat \cup {None}
    /\ fork \in ForkStages /\ result \in ForkResults
    /\ winner \in Leg \cup {None}
=============================================================================

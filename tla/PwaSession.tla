----------------------------- MODULE PwaSession -----------------------------
(***************************************************************************)
(* The WebSocket sessions of one browser extension (run_session,           *)
(* webrtc/signaling.rs).  A session is three tasks: the receive loop, which *)
(* handles one message after the other, the keepalive loop and the          *)
(* forwarder that writes what the sink was given.  They stop one another    *)
(* through a tokio Notify, which wakes one waiter per call and keeps at     *)
(* most one permit when nobody waits.                                      *)
(***************************************************************************)
EXTENDS Naturals, FiniteSets

CONSTANTS
    Session,      \* the browser's sessions; a reconnect opens the next one
    IdleTicks,    \* idle_timeout, in keepalive intervals
    NoSession

ASSUME SessionAssumption ==
    /\ IsFiniteSet(Session) /\ NoSession \notin Session
    /\ IdleTicks \in Nat \ {0}

VARIABLES
    recvLoop,   \* where the receive loop and the code after it stand
    keepalive,  \* where run_keepalive_loop stands
    forwarder,  \* "Off", "Run", "Ended"
    permits,    \* notifications that waiters of the Notify have not used yet
    quiet,      \* keepalive intervals since the last frame, up to IdleTicks
    socket,     \* "Up"; "Silent": the network is gone; "Broken": known to both ends
    binding,    \* the session the registrar has for the extension
    hasAor      \* sessions that will unregister the extension when they end

sessionVars == <<recvLoop, keepalive, forwarder, permits, quiet, socket, binding, hasAor>>

LoopStages == {"None", "Recv", "Busy", "Record", "ByeClose", "ByeUnregister", "Exit", "ExitClose",
               "ExitUnregister", "Done"}

SessionInit ==
    /\ recvLoop = [s \in Session |-> "None"]
    /\ keepalive = [s \in Session |-> "Off"]
    /\ forwarder = [s \in Session |-> "Off"]
    /\ permits = [s \in Session |-> 0]
    /\ quiet = [s \in Session |-> 0]
    /\ socket = [s \in Session |-> "Up"]
    /\ binding = NoSession /\ hasAor = {}

LoopTo(s, l) == recvLoop' = [recvLoop EXCEPT ![s] = l]

\* Both loops wait for the Notify in a select.
Waiters(s) == Cardinality({t \in {"loop", "keep"} : IF t = "loop" THEN recvLoop[s] = "Recv"
                                                      ELSE keepalive[s] = "Wait"})
AtMost(n, m) == IF n < m THEN n ELSE m

\* notify_one, n times in a row.
Notify(s, n) == permits' = [permits EXCEPT ![s] = AtMost(@ + n, Waiters(s) + 1)]
\* A waiter leaves the select through its other branch and passes on what it got.
LeavesSelect(s) == permits' = [permits EXCEPT ![s] = AtMost(@, Waiters(s))]
\* A waiter takes a notification.
Notified(s) == permits[s] > 0 /\ permits' = [permits EXCEPT ![s] = @ - 1]

\* A frame arrives: any of them counts as a sign of life.
Frame(s) ==
    /\ recvLoop[s] = "Recv" /\ socket[s] = "Up"
    /\ quiet' = [quiet EXCEPT ![s] = 0]
    /\ LeavesSelect(s)

-----------------------------------------------------------------------------
(* The receive loop                                                        *)

\* The browser connects; with its last session over or not.
OpenSession(s) ==
    /\ recvLoop[s] = "None"
    /\ LoopTo(s, "Recv")
    /\ keepalive' = [keepalive EXCEPT ![s] = "Wait"]
    /\ forwarder' = [forwarder EXCEPT ![s] = "Run"]
    /\ UNCHANGED <<permits, quiet, socket, binding, hasAor>>

\* A Pong, an ICE candidate, a message that is refused.
OtherFrame(s) ==
    /\ Frame(s)
    /\ UNCHANGED <<recvLoop, keepalive, forwarder, socket, binding, hasAor>>

\* RecordStart and RecordStop: the loop waits until the recorder has started, or
\* has written its files, and receives nothing meanwhile.
RecordMessage(s) ==
    /\ Frame(s)
    /\ LoopTo(s, "Record")
    /\ UNCHANGED <<keepalive, forwarder, socket, binding, hasAor>>
RecordReplies(s) ==
    /\ recvLoop[s] = "Record"
    /\ LoopTo(s, "Recv")
    /\ UNCHANGED <<keepalive, forwarder, permits, quiet, socket, binding, hasAor>>

\* ClientMessage::Register: the registrar replaces the binding it has.
Register(s) ==
    /\ Frame(s)
    /\ binding' = s
    /\ hasAor' = hasAor \cup {s}
    /\ UNCHANGED <<recvLoop, keepalive, forwarder, socket>>

\* ClientMessage::Bye: the calls are closed, then the loop is left.
ByeMessage(s) ==
    /\ Frame(s)
    /\ LoopTo(s, "ByeClose")
    /\ UNCHANGED <<keepalive, forwarder, socket, binding, hasAor>>

\* unregister(aor) removes whatever binding the extension has.
Unregistered(s) ==
    /\ binding' = IF s \in hasAor THEN NoSession ELSE binding
    /\ hasAor' = hasAor \ {s}

ByeUnregister(s) ==
    /\ recvLoop[s] = "ByeUnregister"
    /\ LoopTo(s, "Exit")
    /\ Unregistered(s)
    /\ UNCHANGED <<keepalive, forwarder, permits, quiet, socket>>

\* The socket ends, or the loop is told to.
RecvEnds(s) ==
    /\ recvLoop[s] = "Recv"
    /\ LoopTo(s, "Exit")
    /\ \/ socket[s] = "Broken" /\ LeavesSelect(s)
       \/ Notified(s)
    /\ UNCHANGED <<keepalive, forwarder, quiet, socket, binding, hasAor>>

ExitNotify(s) ==
    /\ recvLoop[s] = "Exit"
    /\ LoopTo(s, "ExitClose")
    /\ Notify(s, 1)
    /\ UNCHANGED <<keepalive, forwarder, quiet, socket, binding, hasAor>>

\* unregister, peer.close, and run_session returns.
ExitUnregister(s) ==
    /\ recvLoop[s] = "ExitUnregister"
    /\ LoopTo(s, "Done")
    /\ Unregistered(s)
    /\ UNCHANGED <<keepalive, forwarder, permits, quiet, socket>>

-----------------------------------------------------------------------------
(* The keepalive loop and the forwarder                                    *)

KeepTo(s, k) == keepalive' = [keepalive EXCEPT ![s] = k]

KeepWakes(s) ==
    /\ keepalive[s] = "Wait"
    /\ \/ KeepTo(s, "Ping") /\ LeavesSelect(s)
          /\ quiet' = [quiet EXCEPT ![s] = AtMost(@ + 1, IdleTicks)]
       \/ KeepTo(s, "Ended") /\ Notified(s) /\ UNCHANGED quiet
    /\ UNCHANGED <<recvLoop, forwarder, socket, binding, hasAor>>

\* Mutant: the idle session is closed without waking the receive loop.
KeepGivesUpAlone(s) ==
    /\ keepalive[s] = "Ping"
    /\ IF quiet[s] >= IdleTicks \/ socket[s] = "Broken"
       THEN KeepTo(s, "Ended")
       ELSE KeepTo(s, "Wait")
    /\ UNCHANGED <<permits, recvLoop, forwarder, quiet, socket, binding, hasAor>>

\* Nothing received for idle_timeout, or the Ping cannot be sent: the receive
\* loop is told and the keepalive ends.
KeepPing(s) ==
    /\ keepalive[s] = "Ping"
    /\ IF quiet[s] >= IdleTicks \/ socket[s] = "Broken"
       THEN KeepTo(s, "Ended") /\ Notify(s, 1)
       ELSE KeepTo(s, "Wait") /\ UNCHANGED permits
    /\ UNCHANGED <<recvLoop, forwarder, quiet, socket, binding, hasAor>>

\* A message cannot be written: the forwarder wakes both loops and ends, and
\* from then on the sink is closed.
ForwarderFails(s) ==
    /\ forwarder[s] = "Run" /\ socket[s] = "Broken"
    /\ forwarder' = [forwarder EXCEPT ![s] = "Ended"]
    /\ Notify(s, 2)
    /\ UNCHANGED <<recvLoop, keepalive, quiet, socket, binding, hasAor>>

\* The network between the browser and the gateway.
LoseNetwork(s) ==
    /\ recvLoop[s] # "None" /\ socket[s] = "Up"
    /\ socket' = [socket EXCEPT ![s] = "Silent"] \/ socket' = [socket EXCEPT ![s] = "Broken"]
    /\ UNCHANGED <<recvLoop, keepalive, forwarder, permits, quiet, binding, hasAor>>

RecvTask(s) ==
    RecordReplies(s) \/ ByeUnregister(s) \/ RecvEnds(s) \/ ExitNotify(s) \/ ExitUnregister(s)
KeepTask(s) == KeepWakes(s) \/ KeepPing(s)
SessionEnv(s) ==
    \/ OpenSession(s) \/ OtherFrame(s) \/ RecordMessage(s) \/ Register(s) \/ ByeMessage(s)
    \/ LoseNetwork(s)

SessionTypeOK ==
    /\ recvLoop \in [Session -> LoopStages]
    /\ keepalive \in [Session -> {"Off", "Wait", "Ping", "Ended"}]
    /\ forwarder \in [Session -> {"Off", "Run", "Ended"}]
    /\ permits \in [Session -> 0..3]
    /\ quiet \in [Session -> 0..IdleTicks]
    /\ socket \in [Session -> {"Up", "Silent", "Broken"}]
    /\ binding \in Session \cup {NoSession} /\ hasAor \subseteq Session
=============================================================================

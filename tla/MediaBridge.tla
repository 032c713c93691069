----------------------------- MODULE MediaBridge ----------------------------
(***************************************************************************)
(* The media bridges of calls (call/bridge.rs), the CallManager that owns  *)
(* them (call/manager.rs), how a handler starts one (bind a port for the   *)
(* NGN leg, rewrite the SDP, start the two loops, create_call, attach),    *)
(* how the two ends of a call stop it at the same time, and the digits     *)
(* that are injected meanwhile (call/dtmf.rs).                             *)
(***************************************************************************)
EXTENDS Naturals, Sequences, FiniteSets

CONSTANTS
    Cid,        \* CallIds
    Slots,      \* the even ports from NGN_RTP_PORT_MIN to NGN_RTP_PORT_MAX
    Digit       \* key presses

ASSUME MediaAssumption == IsFiniteSet(Cid) /\ Slots \in Nat \ {0} /\ IsFiniteSet(Digit)

VARIABLES
    mstage,     \* where the handler that starts a bridge stands
    mkind,      \* the kind of MediaBridge
    tries,      \* attempts of bind_ngn_rtp_socket
    portNext,   \* NGN_RTP_PORT_NEXT, as a slot
    port,       \* the slot a call's NGN socket is bound to, as a set of at most one
    calls,      \* CallManager.calls
    mloop,      \* the two loops of each call's bridge
    stopping,   \* where the call's two terminators stand
    digit,      \* the injection of each key press: the call and the packets left
    stray       \* calls the NGN was sent a packet for after their end

mediaVars == <<mstage, mkind, tries, portNext, port, calls, mloop, stopping, digit, stray>>

\* "Ngn": Relay, Transcode and WebRtcAudio have a leg to the NGN; "Peers":
\* WebRtcRelay joins two browsers.
BridgeKinds == {"Ngn", "Peers"}
StartStages == {"None", "Bind", "Ephemeral", "Rewrite", "Create", "Up", "Failed", "Transparent"}
Ends2 == {"Bye", "Close"}      \* an NGN BYE, and the other side hanging up
Ways == {"down", "up"}         \* from the NGN, and to it

MediaInit ==
    /\ mstage = [c \in Cid |-> "None"] /\ mkind = [c \in Cid |-> "Ngn"]
    /\ tries = [c \in Cid |-> 0] /\ portNext = 0
    /\ port = [c \in Cid |-> {}] /\ calls = {}
    /\ mloop = [c \in Cid |-> [w \in Ways |-> "Off"]]
    /\ stopping = [c \in Cid |-> [e \in Ends2 |-> "Idle"]]
    /\ digit = [x \in Digit |-> [of |-> {}, packets |-> <<>>]]
    /\ stray = {}

StageTo(c, s) == mstage' = [mstage EXCEPT ![c] = s]
NoStop == UNCHANGED <<stopping, digit, stray>>

-----------------------------------------------------------------------------
(* start_bridge_for_inbound; prepare_ and finalize_outbound_bridge; the    *)
(* bridges of browsers and of internal calls                               *)

\* Without a CallManager or an SDP the SDP is passed through.  Two browsers are
\* joined without a socket.
StartsBridge(c, k) ==
    /\ mstage[c] = "None"
    /\ \/ StageTo(c, IF k = "Peers" THEN "Create" ELSE "Bind")
       \/ StageTo(c, "Transparent")
    /\ mkind' = [mkind EXCEPT ![c] = k]
    /\ UNCHANGED <<tries, portNext, port, calls, mloop>> /\ NoStop

\* bind_ngn_rtp_socket: the next slot, for as many attempts as there are slots.
\* The counter is shared with every other call.
BindTry(c) ==
    /\ mstage[c] = "Bind"
    /\ portNext' = (portNext + 1) % Slots
    /\ tries' = [tries EXCEPT ![c] = @ + 1]
    /\ IF \A d \in Cid : portNext \notin port[d]
       THEN port' = [port EXCEPT ![c] = {portNext}] /\ StageTo(c, "Rewrite")
       ELSE StageTo(c, IF tries[c] + 1 = Slots THEN "Ephemeral" ELSE "Bind") /\ UNCHANGED port
    /\ UNCHANGED <<mkind, calls, mloop>> /\ NoStop

\* Then an even port the system has free (a slot beyond the range), or an error.
BindEphemeral(c) ==
    /\ mstage[c] = "Ephemeral"
    /\ \/ LET free == {p \in Slots..(Slots + Cardinality(Cid)) : \A d \in Cid : p \notin port[d]}
          IN  port' = [port EXCEPT ![c] = {CHOOSE p \in free : \A q \in free : p <= q}]
              /\ StageTo(c, "Rewrite")
       \/ StageTo(c, "Failed") /\ UNCHANGED port
    /\ UNCHANGED <<mkind, tries, portNext, calls, mloop>> /\ NoStop

\* The second socket and the SDP; an error drops the sockets.
RewriteSdp(c) ==
    /\ mstage[c] = "Rewrite"
    /\ \/ StageTo(c, "Create") /\ UNCHANGED port
       \/ StageTo(c, "Failed") /\ port' = [port EXCEPT ![c] = {}]
    /\ UNCHANGED <<mkind, tries, portNext, calls, mloop>> /\ NoStop

\* RtpBridge::start and its like spawn the two loops; create_call makes an id
\* nobody else knows, and attach_media_bridge hands the bridge over.
AttachMedia(c) ==
    /\ mstage[c] = "Create"
    /\ StageTo(c, "Up")
    /\ mloop' = [mloop EXCEPT ![c] = [w \in Ways |-> "Run"]]
    /\ calls' = calls \cup {c}
    /\ UNCHANGED <<mkind, tries, portNext, port>> /\ NoStop

-----------------------------------------------------------------------------
(* forward_loop and relay_loop                                             *)

\* A loop copies packets until its socket or its peer fails; the other runs on,
\* and nobody is told.
LoopEnds(c, w) ==
    /\ mloop[c][w] = "Run"
    /\ mloop' = [mloop EXCEPT ![c][w] = "Off"]
    /\ UNCHANGED <<mstage, mkind, tries, portNext, port, calls>> /\ NoStop

-----------------------------------------------------------------------------
(* CallManager::terminate                                                  *)

StopTo(c, e, s) == stopping' = [stopping EXCEPT ![c][e] = s]

\* The entry is removed under the lock, with it the bridge is this task's.
TerminateTakes(c, e) ==
    /\ mstage[c] = "Up" /\ stopping[c][e] = "Idle"
    /\ StopTo(c, e, IF c \notin calls THEN "Done" ELSE "Stop1")
    /\ calls' = calls \ {c}
    /\ UNCHANGED <<mstage, mkind, tries, portNext, port, mloop, digit, stray>>

\* stop aborts a loop and waits for it, then the other.
StopFirst(c, e) ==
    /\ stopping[c][e] = "Stop1"
    /\ StopTo(c, e, "Stop2")
    /\ mloop' = [mloop EXCEPT ![c]["down"] = "Off"]
    /\ UNCHANGED <<mstage, mkind, tries, portNext, port, calls, digit, stray>>

\* Mutant: only the first loop is stopped.
StopForgets(c, e) ==
    /\ stopping[c][e] = "Stop2"
    /\ StopTo(c, e, "Done")
    /\ port' = [port EXCEPT ![c] = {}]
    /\ UNCHANGED <<mstage, mkind, tries, portNext, calls, mloop, digit, stray>>

\* The last handle of the sockets goes with the bridge.
StopSecond(c, e) ==
    /\ stopping[c][e] = "Stop2"
    /\ StopTo(c, e, "Done")
    /\ mloop' = [mloop EXCEPT ![c]["up"] = "Off"]
    /\ port' = [port EXCEPT ![c] = {}]
    /\ UNCHANGED <<mstage, mkind, tries, portNext, calls, digit, stray>>

-----------------------------------------------------------------------------
(* DTMF                                                                    *)

\* build_dtmf_packet_sequence, in units of period_ms: updates until the duration
\* is reached, the marker on the first of them, then the end three times.
DtmfPackets(duration, period) ==
    LET updates == (duration + period - 1) \div period
    IN  [i \in 1..(updates + 3) |->
            [marker |-> i = 1, end |-> i > updates,
             length |-> IF i * period < duration THEN i * period ELSE duration]]

\* An INFO of a phone or a Dtmf message of a browser: the digit is one of the
\* sixteen, the call's table has the bridge's id.
PressKey(x, c) ==
    /\ digit[x].of = {} /\ mstage[c] = "Up"
    /\ digit' = [digit EXCEPT ![x] = [of |-> {c}, packets |-> DtmfPackets(1, 1)]]
    /\ UNCHANGED <<mstage, mkind, tries, portNext, port, calls, mloop, stopping, stray>>

\* Mutant: the bridge is looked up once for all packets.
InjectUnlocked(x, c) ==
    /\ digit[x].of = {c} /\ digit[x].packets # <<>>
    /\ digit' = [digit EXCEPT ![x].packets = Tail(@)]
    /\ stray' = IF "Done" \in {stopping[c][e] : e \in Ends2} THEN stray \cup {c} ELSE stray
    /\ UNCHANGED <<mstage, mkind, tries, portNext, port, calls, mloop, stopping>>

\* inject_to_ngn looks the call up and sends under one lock; the first error
\* ends the digit.
Inject(x, c) ==
    /\ digit[x].of = {c} /\ digit[x].packets # <<>>
    /\ \/ /\ c \in calls /\ mkind[c] = "Ngn"
          /\ digit' = [digit EXCEPT ![x].packets = Tail(@)]
          /\ stray' = IF "Done" \in {stopping[c][e] : e \in Ends2} THEN stray \cup {c} ELSE stray
       \/ digit' = [digit EXCEPT ![x].packets = <<>>] /\ UNCHANGED stray
    /\ UNCHANGED <<mstage, mkind, tries, portNext, port, calls, mloop, stopping>>

-----------------------------------------------------------------------------
MediaNext ==
    \/ \E c \in Cid : \/ \E k \in BridgeKinds : StartsBridge(c, k)
                      \/ BindTry(c) \/ BindEphemeral(c) \/ RewriteSdp(c)
                      \/ AttachMedia(c)
                      \/ \E w \in Ways : LoopEnds(c, w)
                      \/ \E e \in Ends2 : TerminateTakes(c, e) \/ StopFirst(c, e) \/ StopSecond(c, e)
    \/ \E x \in Digit, c \in Cid : PressKey(x, c) \/ Inject(x, c)

MediaSpec == MediaInit /\ [][MediaNext]_mediaVars

MediaTypeOK ==
    /\ mstage \in [Cid -> StartStages] /\ mkind \in [Cid -> BridgeKinds]
    /\ tries \in [Cid -> 0..Slots] /\ portNext \in 0..(Slots - 1)
    /\ \A c \in Cid : IsFiniteSet(port[c]) /\ Cardinality(port[c]) <= 1
    /\ calls \subseteq Cid
    /\ mloop \in [Cid -> [Ways -> {"Off", "Run"}]]
    /\ stopping \in [Cid -> [Ends2 -> {"Idle", "Stop1", "Stop2", "Done"}]]
    /\ stray \subseteq Cid

\* A bridge is nobody's: it failed to start, or its entry is gone and none of
\* the two ends is stopping it.
Released(c) ==
    \/ mstage[c] \in {"None", "Failed", "Transparent"}
    \/ mstage[c] = "Up" /\ c \notin calls /\ \A e \in Ends2 : stopping[c][e] \in {"Idle", "Done"}

\* However starts that fail, digits and the two ends of the calls interleave, a
\* bridge that is nobody's runs no loop and holds no port, and the NGN hears
\* nothing more of a call whose bridge was stopped.
MediaReleased ==
    /\ \A c \in Cid : Released(c) => port[c] = {} /\ \A w \in Ways : mloop[c][w] = "Off"
    /\ stray = {}
=============================================================================

--------------------------- MODULE PeerConnection ---------------------------
(***************************************************************************)
(* The WebRTC end of a browser's WebSocket session                         *)
(* (webrtc/str0m_session.rs, webrtc/peer.rs): one peer per session, used   *)
(* by every call the session has.  The calls of PeerSession are commands   *)
(* over a bounded queue to run_loop, which owns the media engine and       *)
(* answers each over a channel of its own.                                 *)
(*                                                                         *)
(* The callers are the legs of calls to the browser (run_webrtc_leg, and   *)
(* the internal calls alike) and "web", the session's receive loop.  The   *)
(* engine (str0m) is external: it knows a media line once both ends do,    *)
(* and says so by an event only where the browser made the offer.          *)
(***************************************************************************)
EXTENDS Naturals, Sequences

CONSTANTS
    Leg,           \* tasks that ring the browser
    CommandSlots,  \* mpsc::channel::<Command>(32)
    MediaBuffer,   \* MEDIA_RX_BUFFER
    MaxLines       \* bound: media lines made, by either side

ASSUME PeerAssumption ==
    "web" \notin Leg /\ {CommandSlots, MediaBuffer, MaxLines} \subseteq Nat \ {0}

VARIABLES
    pcLoop,     \* "Unbound", "Up", "Over"; StubPeerSession is "Stub" or "StubClosed"
    pcQueue,    \* cmd_tx: who asks for what
    pcCaller,   \* per caller: where it is, and the reply it has
    pcPending,  \* pending_offer: the line it is about; 0: none
    pcMid,      \* audio_mid; 0: none
    pcLines,    \* engine: the number of lines made, and those both ends know
    pcEvents,   \* engine: events not polled yet
    pcTold,     \* candidates for the browser; sent_local_cand is whether there are any
    pcMedia     \* media_in_rx: who has it, and the frames in it

pcVars == <<pcLoop, pcQueue, pcCaller, pcPending, pcMid, pcLines, pcEvents, pcTold, pcMedia>>

Caller == Leg \cup {"web"}

\* Stages in which a caller awaits its reply.
Awaiting == {"Offering", "Answering", "Dialling", "Describing", "AddingCandidate"}

PeerInit ==
    /\ pcLoop = "Unbound" /\ pcQueue = <<>>
    /\ pcCaller = [c \in Caller |-> [stage |-> "Idle", reply |-> "None"]]
    /\ pcPending = 0 /\ pcMid = 0
    /\ pcLines = [made |-> 0, known |-> {}]
    /\ pcEvents = <<>> /\ pcTold = <<>>
    /\ pcMedia = [holder |-> "Session", frames |-> 0]
-----------------------------------------------------------------------------
(* The session's calls                                                     *)

\* Str0mPeerSession::new: bind_udp_in_range tries a limited number of ports of the
\* range; without one the session does not start.  "stub" is the other backend.
StartSession(backend, bound) ==
    /\ pcLoop = "Unbound"
    /\ pcLoop' = CASE backend = "stub" -> "Stub" [] ~bound -> "Over" [] OTHER -> "Up"
    /\ UNCHANGED <<pcQueue, pcCaller, pcPending, pcMid, pcLines, pcEvents, pcTold, pcMedia>>

\* The browser's description: its audio formats in order, and those with an rtpmap.
SessionDescription == [formats : {<<>>, <<0>>, <<18>>, <<97>>, <<111, 0>>}, maps : {{}, {111}}]

NoAnswer == [pt |-> 0, map |-> FALSE]

\* build_minimal_answer and rtpmap_for_answer: the first format, with the rtpmap of
\* its number; a dynamic number without one cannot be answered.
MinimalAnswer(d) ==
    IF d.formats = <<>> THEN NoAnswer
    ELSE LET pt == Head(d.formats)
         IN CASE pt \in {0, 8} \cup d.maps -> [pt |-> pt, map |-> TRUE]
              [] pt < 96 -> [pt |-> pt, map |-> FALSE]
              [] OTHER -> NoAnswer

\* A command into the queue and a wait for its answer; the send waits for a slot,
\* and both fail once the loop is over.  The stub answers at once: an offer is
\* always there, a description is taken if it has audio (build_minimal_answer), a
\* candidate until it is closed.
Ask(c, op, stage, good) ==
    /\ CASE pcLoop = "Up" ->
              /\ Len(pcQueue) < CommandSlots
              /\ pcQueue' = Append(pcQueue, [by |-> c, op |-> op, good |-> good])
              /\ pcCaller' = [pcCaller EXCEPT ![c] = [stage |-> stage, reply |-> "None"]]
         [] pcLoop \in {"Stub", "StubClosed"} ->
              /\ pcCaller' = [pcCaller EXCEPT ![c] = [stage |-> stage, reply |->
                     IF IF op = "AddRemoteCandidate" THEN pcLoop = "Stub" ELSE good THEN "Ok" ELSE "Err"]]
              /\ UNCHANGED pcQueue
         [] OTHER ->
              /\ pcCaller' = [pcCaller EXCEPT ![c] = [stage |-> stage, reply |-> "Err"]]
              /\ UNCHANGED pcQueue
    /\ UNCHANGED <<pcLoop, pcPending, pcMid, pcLines, pcEvents, pcTold, pcMedia>>

\* Command::Close: best effort, nobody waits for it.
Close(c) ==
    /\ pcQueue' = IF pcLoop = "Up" THEN Append(pcQueue, [by |-> c, op |-> "Close", good |-> TRUE]) ELSE pcQueue
    /\ pcLoop = "Up" => Len(pcQueue) < CommandSlots
    /\ pcLoop' = IF pcLoop = "Stub" THEN "StubClosed" ELSE pcLoop

\* A call to the browser asks the peer for an offer.
RingBrowser(l) ==
    /\ pcLoop # "Unbound" /\ pcCaller[l].stage = "Idle" /\ pcLines.made < MaxLines
    /\ Ask(l, "CreateOffer", "Offering", TRUE)

\* The offer goes to the browser, or there is none and the leg is over.
OfferMade(l) ==
    /\ pcCaller[l].stage = "Offering" /\ pcCaller[l].reply # "None"
    /\ pcCaller' = [pcCaller EXCEPT ![l] =
           [stage |-> IF @.reply = "Ok" THEN "Offered" ELSE "Idle", reply |-> "None"]]
    /\ UNCHANGED <<pcLoop, pcQueue, pcPending, pcMid, pcLines, pcEvents, pcTold, pcMedia>>

\* The browser declines, does not answer in time, or somebody else did: the peer is
\* not told.
OfferUnanswered(l) ==
    /\ pcCaller[l].stage = "Offered"
    /\ pcCaller' = [pcCaller EXCEPT ![l] = [stage |-> "Idle", reply |-> "None"]]
    /\ UNCHANGED <<pcLoop, pcQueue, pcPending, pcMid, pcLines, pcEvents, pcTold, pcMedia>>

BrowserAnswers(l, good) ==
    /\ pcCaller[l].stage = "Offered"
    /\ Ask(l, "AcceptAnswer", "Answering", good)

\* take_media_rx: once per session, never from the stub.
TakesMedia(c) == pcLoop \notin {"Stub", "StubClosed"} /\ pcMedia.holder = "Session"

\* Mutant: the leg leaves a peer that did not take the answer as it is.
LeavesPeerOpen(l) ==
    /\ pcCaller[l].stage = "Answering" /\ pcCaller[l].reply # "None"
    /\ IF pcCaller[l].reply = "Ok"
       THEN /\ pcCaller' = [pcCaller EXCEPT ![l] = [stage |-> "InCall", reply |-> "None"]]
            /\ pcMedia' = IF TakesMedia(l) THEN [pcMedia EXCEPT !.holder = l] ELSE pcMedia
       ELSE /\ pcCaller' = [pcCaller EXCEPT ![l] = [stage |-> "Idle", reply |-> "None"]]
            /\ UNCHANGED pcMedia
    /\ UNCHANGED <<pcLoop, pcQueue, pcPending, pcMid, pcLines, pcEvents, pcTold>>

\* The call is up, with the media unless an earlier call took them; or the answer
\* was not taken and the peer is closed.
AnswerTaken(l) ==
    /\ pcCaller[l].stage = "Answering" /\ pcCaller[l].reply # "None"
    /\ IF pcCaller[l].reply = "Ok"
       THEN /\ pcCaller' = [pcCaller EXCEPT ![l] = [stage |-> "InCall", reply |-> "None"]]
            /\ pcMedia' = IF TakesMedia(l) THEN [pcMedia EXCEPT !.holder = l] ELSE pcMedia
            /\ UNCHANGED <<pcLoop, pcQueue>>
       ELSE /\ pcCaller' = [pcCaller EXCEPT ![l] = [stage |-> "Idle", reply |-> "None"]]
            /\ Close(l)
            /\ UNCHANGED pcMedia
    /\ UNCHANGED <<pcPending, pcMid, pcLines, pcEvents, pcTold>>

\* ClientMessage::Offer with a target (Dialling) or without; ClientMessage::Ice.
BrowserOffers(dialling, d) ==
    /\ pcLoop # "Unbound" /\ pcCaller["web"].stage = "Idle" /\ pcLines.made < MaxLines
    /\ Ask("web", "AcceptOffer", IF dialling THEN "Dialling" ELSE "Describing",
           IF pcLoop = "Up" THEN d.formats # <<>> ELSE MinimalAnswer(d) # NoAnswer)

BrowserCandidate(good) ==
    /\ pcLoop # "Unbound" /\ pcCaller["web"].stage = "Idle"
    /\ Ask("web", "AddRemoteCandidate", "AddingCandidate", good)

\* An outgoing call needs the media and is refused without them.
WebReplied ==
    LET w == pcCaller["web"]
        up == w.stage = "Dialling" /\ w.reply = "Ok" /\ TakesMedia("web")
    IN /\ w.stage \in Awaiting /\ w.reply # "None"
       /\ pcCaller' = [pcCaller EXCEPT !["web"] = [stage |-> IF up THEN "InCall" ELSE "Idle", reply |-> "None"]]
       /\ pcMedia' = IF up THEN [pcMedia EXCEPT !.holder = "web"] ELSE pcMedia
       /\ UNCHANGED <<pcLoop, pcQueue, pcPending, pcMid, pcLines, pcEvents, pcTold>>

\* The call ends; its bridge drops the receiver.
CallOver(c) ==
    /\ pcCaller[c].stage = "InCall"
    /\ pcCaller' = [pcCaller EXCEPT ![c] = [stage |-> "Idle", reply |-> "None"]]
    /\ pcMedia' = IF pcMedia.holder = c THEN [holder |-> "Nobody", frames |-> 0] ELSE pcMedia
    /\ UNCHANGED <<pcLoop, pcQueue, pcPending, pcMid, pcLines, pcEvents, pcTold>>

\* ClientMessage::Bye, or the end of the session.
SessionCloses ==
    /\ pcLoop \in {"Up", "Stub"} /\ pcCaller["web"].stage \in {"Idle", "InCall"}
    /\ Close("web")
    /\ UNCHANGED <<pcCaller, pcPending, pcMid, pcLines, pcEvents, pcTold, pcMedia>>

\* A bridge hands over a frame for the browser.
SendMedia(c) ==
    /\ pcLoop = "Up" /\ pcCaller[c].stage = "InCall" /\ pcMedia.holder = c
    /\ Len(pcQueue) < CommandSlots
    /\ pcQueue' = Append(pcQueue, [by |-> c, op |-> "SendMedia", good |-> TRUE])
    /\ UNCHANGED <<pcLoop, pcCaller, pcPending, pcMid, pcLines, pcEvents, pcTold, pcMedia>>

BridgeReads ==
    /\ pcMedia.holder \in Caller /\ pcMedia.frames > 0
    /\ pcMedia' = [pcMedia EXCEPT !.frames = @ - 1]
    /\ UNCHANGED <<pcLoop, pcQueue, pcCaller, pcPending, pcMid, pcLines, pcEvents, pcTold>>
-----------------------------------------------------------------------------
(* run_loop: what the engine has to say goes before the next command       *)

Taken == [Head(pcQueue) EXCEPT !.op = IF pcLoop = "Up" /\ pcEvents = <<>> THEN @ ELSE "None"]

Replies(r) == pcCaller' = [pcCaller EXCEPT ![Taken.by].reply = r]

\* accept_offer: the line is known to both ends, and an event will say so.
AcceptOffer ==
    /\ pcQueue # <<>> /\ Taken.op = "AcceptOffer"
    /\ IF Taken.good
       THEN /\ pcLines' = [made |-> pcLines.made + 1, known |-> pcLines.known \cup {pcLines.made + 1}]
            /\ pcEvents' = Append(pcEvents, "MediaAdded") /\ Replies("Ok")
       ELSE Replies("Err") /\ UNCHANGED <<pcLines, pcEvents>>
    /\ pcQueue' = Tail(pcQueue)
    /\ UNCHANGED <<pcLoop, pcPending, pcMid, pcTold, pcMedia>>

\* Mutant: the line is left to an event that never comes.
WaitsForEvent ==
    /\ pcQueue # <<>> /\ Taken.op = "CreateOffer"
    /\ IF pcPending # 0 THEN Replies("Err") /\ UNCHANGED <<pcPending, pcLines>>
       ELSE /\ pcPending' = pcLines.made + 1
            /\ pcLines' = [pcLines EXCEPT !.made = @ + 1]
            /\ Replies("Ok")
    /\ pcQueue' = Tail(pcQueue)
    /\ UNCHANGED <<pcLoop, pcMid, pcEvents, pcTold, pcMedia>>

\* Mutant: an offer that is refused is not answered.
RefusesSilently ==
    /\ pcQueue # <<>> /\ Taken.op = "CreateOffer"
    /\ IF pcPending # 0 THEN UNCHANGED <<pcCaller, pcPending, pcMid, pcLines>>
       ELSE /\ pcPending' = pcLines.made + 1
            /\ pcMid' = IF pcMid = 0 THEN pcLines.made + 1 ELSE pcMid
            /\ pcLines' = [pcLines EXCEPT !.made = @ + 1]
            /\ Replies("Ok")
    /\ pcQueue' = Tail(pcQueue)
    /\ UNCHANGED <<pcLoop, pcEvents, pcTold, pcMedia>>

\* create_offer: one offer at a time; the new line is the audio line if none is.
CreateOffer ==
    /\ pcQueue # <<>> /\ Taken.op = "CreateOffer"
    /\ IF pcPending # 0 THEN Replies("Err") /\ UNCHANGED <<pcPending, pcMid, pcLines>>
       ELSE /\ pcPending' = pcLines.made + 1
            /\ pcMid' = IF pcMid = 0 THEN pcLines.made + 1 ELSE pcMid
            /\ pcLines' = [pcLines EXCEPT !.made = @ + 1]
            /\ Replies("Ok")
    /\ pcQueue' = Tail(pcQueue)
    /\ UNCHANGED <<pcLoop, pcEvents, pcTold, pcMedia>>

\* accept_answer: the pending offer is taken first, a bad answer loses it.
AcceptAnswer ==
    /\ pcQueue # <<>> /\ Taken.op = "AcceptAnswer"
    /\ pcPending' = 0
    /\ IF pcPending # 0 /\ Taken.good
       THEN pcLines' = [pcLines EXCEPT !.known = @ \cup {pcPending}] /\ Replies("Ok")
       ELSE Replies("Err") /\ UNCHANGED pcLines
    /\ pcQueue' = Tail(pcQueue)
    /\ UNCHANGED <<pcLoop, pcMid, pcEvents, pcTold, pcMedia>>

\* add_remote_candidate: an empty or unreadable one is refused.
AddRemoteCandidate ==
    /\ pcQueue # <<>> /\ Taken.op = "AddRemoteCandidate"
    /\ Replies(IF Taken.good THEN "Ok" ELSE "Err")
    /\ pcQueue' = Tail(pcQueue)
    /\ UNCHANGED <<pcLoop, pcPending, pcMid, pcLines, pcEvents, pcTold, pcMedia>>

\* write_media goes out if the audio line is one both ends know.
Writable == pcMid \in pcLines.known

WriteMedia ==
    /\ pcQueue # <<>> /\ Taken.op = "SendMedia"
    /\ pcQueue' = Tail(pcQueue)
    /\ UNCHANGED <<pcLoop, pcCaller, pcPending, pcMid, pcLines, pcEvents, pcTold, pcMedia>>

\* Close is taken, the socket fails, or the engine is no longer alive: the loop ends
\* and the queue goes with it, so that who waits for an answer gets an error.
SessionEnds ==
    /\ pcLoop = "Up"
    /\ pcLoop' = "Over" /\ pcQueue' = <<>> /\ pcEvents' = <<>>
    /\ pcCaller' = [c \in Caller |->
           IF \E i \in DOMAIN pcQueue : pcQueue[i].by = c /\ pcQueue[i].op \notin {"SendMedia", "Close"}
           THEN [pcCaller[c] EXCEPT !.reply = "Err"] ELSE pcCaller[c]]
    /\ UNCHANGED <<pcPending, pcMid, pcLines, pcTold, pcMedia>>

\* From the network: the connection's state changes, or media arrive.
NetworkInput(e) ==
    /\ pcLoop = "Up" /\ pcEvents = <<>> /\ pcLines.known # {}
    /\ e = "IceState" => pcTold = <<>>     \* later ones change nothing
    /\ pcEvents' = <<e>>
    /\ UNCHANGED <<pcLoop, pcQueue, pcCaller, pcPending, pcMid, pcLines, pcTold, pcMedia>>

\* handle_event: the only candidate and the end of candidates, once; the first audio
\* line; a frame for the bridge unless the buffer is full or nobody is left to read.
HandleEvent ==
    /\ pcLoop = "Up" /\ pcEvents # <<>>
    /\ pcEvents' = Tail(pcEvents)
    /\ pcTold' = IF Head(pcEvents) = "IceState" /\ pcTold = <<>> THEN <<"host", "end">> ELSE pcTold
    /\ pcMid' = IF Head(pcEvents) = "MediaAdded" /\ pcMid = 0 THEN pcLines.made ELSE pcMid
    /\ pcMedia' = IF Head(pcEvents) = "MediaData" /\ pcMedia.holder # "Nobody" /\ pcMedia.frames < MediaBuffer
                  THEN [pcMedia EXCEPT !.frames = @ + 1] ELSE pcMedia
    /\ UNCHANGED <<pcLoop, pcQueue, pcCaller, pcPending, pcLines>>

PeerNext ==
    \/ \E b \in {"str0m", "stub"}, ok \in BOOLEAN : StartSession(b, ok)
    \/ \E l \in Leg : RingBrowser(l) \/ OfferMade(l) \/ OfferUnanswered(l) \/ AnswerTaken(l)
    \/ \E l \in Leg, g \in BOOLEAN : BrowserAnswers(l, g)
    \/ \E dialling \in BOOLEAN, d \in SessionDescription : BrowserOffers(dialling, d)
    \/ \E g \in BOOLEAN : BrowserCandidate(g)
    \/ WebReplied
    \/ \E c \in Caller : CallOver(c) \/ SendMedia(c)
    \/ SessionCloses
    \/ BridgeReads
    \/ AcceptOffer \/ CreateOffer \/ AcceptAnswer \/ AddRemoteCandidate \/ WriteMedia
    \/ SessionEnds
    \/ \E e \in {"IceState", "MediaData"} : NetworkInput(e)
    \/ HandleEvent
-----------------------------------------------------------------------------
PeerTypeOK ==
    /\ pcLoop \in {"Unbound", "Up", "Over", "Stub", "StubClosed"}
    /\ Len(pcQueue) <= CommandSlots
    /\ \A c \in Caller : pcCaller[c].reply \in {"None", "Ok", "Err"}
    /\ pcLines.known \subseteq 1..pcLines.made
    /\ pcMedia.holder \in Caller \cup {"Session", "Nobody"} /\ pcMedia.frames \in 0..MediaBuffer

\* Nobody waits for an answer that cannot come: a caller without its reply has its
\* command in the queue of a loop that runs, whatever failed or closed in between.
CallersServed ==
    \A c \in Caller : pcCaller[c].stage \in Awaiting /\ pcCaller[c].reply = "None" =>
        pcLoop = "Up" /\ \E i \in DOMAIN pcQueue : pcQueue[i].by = c

\* What the stub answers is something the browser offered, and named where its number
\* says nothing.
StubAnswersFit ==
    \A d \in SessionDescription : LET a == MinimalAnswer(d)
                           IN a # NoAnswer => /\ \E i \in DOMAIN d.formats : d.formats[i] = a.pt
                                              /\ a.pt >= 96 => a.map

\* The peer is about to be closed by a leg whose answer it did not take.
Doomed == \/ \E i \in DOMAIN pcQueue : pcQueue[i].op = "Close"
          \/ \E l \in Leg : pcCaller[l].stage = "Answering" /\ pcCaller[l].reply = "Err"

\* Once a media line is known to both ends, what a bridge sends the browser goes out
\* on it, whoever made the offer and however earlier calls of the session ended;
\* but for an offer the browser never answered, which the peer still holds.
AudioHasALine ==
    pcLoop = "Up" /\ pcLines.known # {} /\ pcEvents = <<>> /\ pcPending = 0 /\ ~Doomed => Writable
=============================================================================

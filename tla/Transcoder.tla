----------------------------- MODULE Transcoder -----------------------------
(***************************************************************************)
(* The loops of call/transcoder.rs that carry one direction of a call:     *)
(* ngn_to_web_loop and web_to_ngn_loop read through a jitter buffer, the   *)
(* loops of a WebRtcAudioBridge do not; towards the NGN Opus frames of any *)
(* length are cut into frames of 20 ms.  The stream that goes out has a    *)
(* source, numbers and timestamps of its own.  Sound is not modelled, only *)
(* how much of it there is.                                                *)
(***************************************************************************)
EXTENDS JitterBuffer

CONSTANTS
    MaxGap,      \* MAX_INGRESS_GAP
    Durations,   \* lengths of an Opus frame, in units of which FrameLen are 20 ms
    FrameLen,       \* WB_FRAME_SAMPLES
    Repeats,     \* bound: packets that come late or twice
    MaxFrames    \* bound: frames sent

ASSUME TranscoderAssumption ==
    /\ MaxGap \in Nat \ {0} /\ MaxGap < Modulus /\ Durations \subseteq Nat /\ FrameLen \in Nat \ {0}
    /\ Repeats \in Nat /\ MaxFrames \in Nat

VARIABLES
    direction,   \* the loop; "Off" before the bridge starts and when the loop is over
    direct,      \* WebRtcAudioConfig.direct_pcmu_passthrough
    pulled,      \* the packet in hand, or Absent
    egSeq,       \* RtpEgressState.seq
    egTs,        \* RtpEgressState.timestamp, in frames
    egSource,    \* RtpEgressState.ssrc: "Own", or "Rotated" after a collision
    egIngress,   \* RtpEgressState.last_ingress_seq
    egStart,     \* the packet that set it first
    egNoted,     \* the packet that set it last
    egAnchor,    \* RtpEgressState.anchor: the timestamp of the first packet sent
    egSent,      \* RtpEgressState.sent_packets
    egClamped,   \* more than MaxGap packets were skipped at once
    toPeer,      \* the address to send to is known
    accum,       \* OpusToPcmuAccum.buf, its length
    chunks       \* frames cut and not sent yet

egVars == <<egSeq, egTs, egSource, egIngress, egStart, egNoted, egAnchor, egSent, egClamped>>
tcVars == <<jbVars, egVars, direction, direct, pulled, toPeer, accum, chunks>>

WebDirections == {"ngn_to_web", "web_to_ngn"}
PeerDirections == {"ngn_to_peer", "peer_to_ngn"}
Directions == WebDirections \cup PeerDirections
Buffered == direction \in WebDirections

TranscoderInit ==
    /\ JitterInit
    /\ direction = "Off" /\ direct = FALSE
    /\ pulled = Absent /\ egSeq = Modulus - 2 /\ egTs = 0 /\ egSource = "Own"
    /\ egIngress = Absent /\ egStart = Absent /\ egNoted = Absent /\ egAnchor = Absent
    /\ egSent = 0 /\ egClamped = FALSE
    /\ toPeer = FALSE /\ accum = 0 /\ chunks = 0

-----------------------------------------------------------------------------
(* The outgoing stream                                                     *)

\* note_ingress_seq: the numbers that were lost on the way in are skipped on the
\* way out, up to MAX_INGRESS_GAP of them.
RawGap(i) == (Raw(i) - egIngress) % Modulus

\* Mutant: the difference of the numbers without the wrap.
GapUnwrapped(i) == IF egIngress = Absent \/ Raw(i) <= egIngress THEN 1
                   ELSE IF Raw(i) - egIngress > MaxGap THEN MaxGap
                   ELSE Raw(i) - egIngress

Gap(i) == IF egIngress = Absent THEN 1
          ELSE IF RawGap(i) = 0 THEN 1
          ELSE IF RawGap(i) > MaxGap THEN MaxGap
          ELSE RawGap(i)
NoteIngress(i) ==
    /\ egIngress' = Raw(i)
    /\ egStart' = IF egIngress = Absent THEN i ELSE egStart
    /\ egNoted' = i
    /\ egClamped' = (egClamped \/ (egNoted # Absent /\ i - egNoted > MaxGap))

\* next: one number and one frame of time.
Advance(skip) ==
    /\ egSeq' = (egSeq + skip + 1) % Modulus
    /\ egTs' = egTs + 1
\* record_sent, unless the socket refuses the packet.
RecordSent ==
    \/ egSent' = egSent + 1 /\ egAnchor' = IF egAnchor = Absent THEN egTs ELSE egAnchor
    \/ UNCHANGED <<egSent, egAnchor>>

-----------------------------------------------------------------------------
(* The loops                                                               *)

\* TranscodingBridge::start.  The address to send to may be known from the SDP.
StartLoop(d) ==
    /\ direction = "Off" /\ newest = Absent /\ d \in WebDirections
    /\ direction' = d
    /\ toPeer' \in BOOLEAN
    /\ UNCHANGED <<jbVars, egVars, direct, pulled, accum, chunks>>

\* WebRtcAudioBridge::start: a browser that has PCMU needs no codec.
StartPeerLoop(d) ==
    /\ direction = "Off" /\ newest = Absent /\ d \in PeerDirections
    /\ direction' = d
    /\ direct' \in BOOLEAN /\ toPeer' \in BOOLEAN
    /\ UNCHANGED <<jbVars, egVars, pulled, accum, chunks>>

\* stop aborts the loop wherever it stands.
StopLoop ==
    /\ Buffered /\ newest # Absent
    /\ direction' = "Off"
    /\ UNCHANGED <<jbVars, egVars, direct, pulled, toPeer, accum, chunks>>

\* WebRtcAudioBridge::stop, its Drop, or the peer's channel is closed.
StopPeerLoop ==
    /\ direction \in PeerDirections /\ newest # Absent
    /\ direction' = "Off"
    /\ UNCHANGED <<jbVars, egVars, direct, pulled, toPeer, accum, chunks>>

\* Resampler or codec cannot be set up: the loop is over before its first packet.
CodecMissing ==
    /\ direction # "Off" /\ ~direct /\ newest = Absent
    /\ newest' = FirstIndex /\ direction' = "Off"
    /\ UNCHANGED <<jbQueue, jbNext, jbLast, jbCycles, jbFirst, jbStats, jbPulled, egVars, direct,
                   pulled, toPeer, accum, chunks>>

\* check_and_rotate_on_collision: a colliding source makes the outgoing stream
\* change its own; numbers, timestamps and counts go on.
MayCollide == egSource' \in {egSource, "Rotated"}

\* A packet of the codec and of its length (others are counted and dropped).
Receive(i) ==
    /\ Buffered /\ pulled = Absent /\ chunks = 0 /\ Arrivable(i)
    /\ jbStats.duplicates + jbStats.late < Repeats /\ egTs < MaxFrames
    /\ MayCollide /\ Push(i)
    /\ UNCHANGED <<egSeq, egTs, egIngress, egStart, egNoted, egAnchor, egSent, egClamped, direction, direct,
                   pulled, toPeer, accum, chunks>>

\* Without a buffer a packet is worked on when it comes; what the browser sends
\* has been through its session, which knows of no collision.
ReceivePeer(i) ==
    /\ direction \in PeerDirections /\ pulled = Absent /\ chunks = 0 /\ Arrivable(i)
    /\ egTs < MaxFrames
    /\ IF direction = "ngn_to_peer" THEN MayCollide ELSE UNCHANGED egSource
    /\ pulled' = i /\ newest' = i
    /\ UNCHANGED <<jbQueue, jbNext, jbLast, jbCycles, jbFirst, jbStats, jbPulled, egSeq, egTs,
                   egIngress, egStart, egNoted, egAnchor, egSent, egClamped, direction, direct, toPeer,
                   accum, chunks>>

\* The 20 ms tick: the buffer gives a packet or nothing.
PullTick ==
    /\ Buffered /\ pulled = Absent /\ chunks = 0
    /\ PullNumber # Absent
    /\ Pulls(PullNumber)
    /\ pulled' = jbQueue[PullNumber]
    /\ UNCHANGED <<egVars, direction, direct, toPeer, accum, chunks>>

\* Resampling or the codec fails: the packet is dropped, its number not noted.
TranscodeFails ==
    /\ direction # "Off" /\ pulled # Absent /\ ~direct
    /\ pulled' = Absent
    /\ UNCHANGED <<jbVars, egVars, direction, direct, toPeer, accum, chunks>>

\* Towards the browser: one packet in, one packet out.
SendFrame ==
    /\ pulled # Absent /\ direction = "ngn_to_web"
    /\ pulled' = Absent
    /\ IF toPeer
       THEN NoteIngress(pulled) /\ Advance(Gap(pulled) - 1) /\ RecordSent
       ELSE UNCHANGED <<egSeq, egTs, egIngress, egStart, egNoted, egAnchor, egSent, egClamped>>
    /\ UNCHANGED <<jbVars, egSource, direction, direct, toPeer, accum, chunks>>

\* A WebRTC peer numbers and counts its packets itself: only the timestamp of
\* the outgoing stream is used.  A peer that is gone ends the loop (StopLoop).
SendPeerFrame ==
    /\ pulled # Absent /\ direction = "ngn_to_peer"
    /\ pulled' = Absent
    /\ NoteIngress(pulled) /\ Advance(Gap(pulled) - 1)
    /\ UNCHANGED <<jbVars, egSource, egAnchor, egSent, direction, direct, toPeer, accum, chunks>>

\* OpusToPcmuAccum: the frame is added to what is left of the last ones and cut.
Accumulate ==
    \E d \in Durations : LET all == accum + d IN
        /\ accum' = all % FrameLen
        /\ chunks' = IF toPeer THEN all \div FrameLen ELSE 0

\* Towards the NGN.
Cut ==
    /\ pulled # Absent /\ direction = "web_to_ngn"
    /\ pulled' = Absent
    /\ NoteIngress(pulled) /\ egSeq' = (egSeq + Gap(pulled) - 1) % Modulus
    /\ Accumulate
    /\ UNCHANGED <<jbVars, egTs, egSource, egAnchor, egSent, direction, direct, toPeer>>

\* Without a buffer the numbers that came in are not looked at, and PCMU of the
\* browser is passed as it is.
CutPeer ==
    /\ pulled # Absent /\ direction = "peer_to_ngn"
    /\ pulled' = Absent
    /\ IF direct THEN chunks' = (IF toPeer THEN 1 ELSE 0) /\ UNCHANGED accum ELSE Accumulate
    /\ UNCHANGED <<jbVars, egVars, direction, direct, toPeer>>

\* The frames go out one by one; a socket error drops the rest of them.
SendChunk ==
    /\ direction # "Off" /\ chunks > 0
    /\ Advance(0) /\ RecordSent
    /\ chunks' \in {chunks - 1, 0}
    /\ UNCHANGED <<jbVars, egSource, egIngress, egStart, egNoted, egClamped, direction, direct, pulled,
                   toPeer, accum>>

\* The other loop learns the address.
PeerLearnt ==
    /\ direction # "Off" /\ ~toPeer /\ toPeer' = TRUE
    /\ UNCHANGED <<jbVars, egVars, direction, direct, pulled, accum, chunks>>

TranscoderNext ==
    \/ \E d \in Directions : StartLoop(d) \/ StartPeerLoop(d)
    \/ StopLoop \/ StopPeerLoop \/ CodecMissing
    \/ \E i \in FirstIndex..LastIndex : Receive(i) \/ ReceivePeer(i)
    \/ PullTick \/ TranscodeFails \/ SendFrame \/ SendPeerFrame \/ Cut \/ CutPeer \/ SendChunk
    \/ PeerLearnt

TranscoderSpec == TranscoderInit /\ [][TranscoderNext]_tcVars

-----------------------------------------------------------------------------
TranscoderTypeOK ==
    /\ JitterTypeOK
    /\ direction \in Directions \cup {"Off"} /\ direct \in BOOLEAN /\ toPeer \in BOOLEAN
    /\ egSeq \in 0..(Modulus - 1) /\ egTs \in Nat /\ egSource \in {"Own", "Rotated"}
    /\ egIngress \in (0..(Modulus - 1)) \cup {Absent}
    /\ {pulled, egStart, egNoted, egAnchor} \subseteq Nat \cup {Absent}
    /\ egSent \in Nat /\ egSent <= egTs /\ egClamped \in BOOLEAN
    /\ accum \in 0..(FrameLen - 1) /\ chunks \in Nat

\* What was lost on the way in shows as lost on the way out, and nothing else
\* does: the numbers of the browser's stream advance as those of the NGN's,
\* also over packets the codec refused and over both wraps.
EgressMirrorsIngress ==
    direction = "ngn_to_web" /\ egIngress # Absent /\ ~egClamped =>
        (egSeq - (Modulus - 2)) % Modulus = (egIngress - Raw(egStart) + 1) % Modulus

\* From the NGN's socket to the browser's: the order of the packets, the count of
\* the lost ones and the numbers of the stream sent on survive loss, repetition,
\* reordering and both wraps.
EgressFaithful == NumberedAsSent /\ LossAccounted /\ EgressMirrorsIngress
=============================================================================

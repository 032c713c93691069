----------------------------- MODULE RtpSession -----------------------------
(***************************************************************************)
(* An RTP stream with its RTCP reports: RtpSession (rtp/session.rs) over   *)
(* the packets of rtp/packet.rs and the reports of rtp/rtcp.rs, and the    *)
(* outgoing half RtpEgressState with rtcp_sr_sender_loop of                *)
(* call/transcoder.rs.  Numbers are extended ones (JitterBuffer shows how  *)
(* they come about); of a payload only its presence is kept.               *)
(***************************************************************************)
EXTENDS Integers, FiniteSets

CONSTANTS
    Source,       \* remote sources, their SSRCs
    LastNumber,   \* bound: the last number of a source
    PlayoutDepth, \* the depth of the session's jitter buffers
    MaxBlocks,    \* report blocks in a report (31)
    LossField,    \* cumulative_lost is kept modulo this (2^24)
    CountField,   \* packet_count is kept modulo this (2^32)
    MaxEvents,    \* bound: packets, reports and ticks in a behaviour
    RtpTicks,     \* bound: the clock
    NoStamp       \* None of an Option

ASSUME RtpSessionAssumption ==
    /\ IsFiniteSet(Source) /\ LastNumber \in Nat /\ PlayoutDepth \in Nat \ {0}
    /\ MaxBlocks \in Nat \ {0} /\ LossField \in Nat \ {0} /\ CountField \in Nat \ {0}
    /\ {MaxEvents, RtpTicks} \subseteq Nat /\ NoStamp \notin Int

VARIABLES
    rtpNow,      \* the clock
    rtpEvents,   \* packets, reports and ticks so far
    tx,          \* the outgoing stream: its packets, what is counted and announced
    gone,        \* packets the socket took
    rx,          \* per source: the session's JitterBuffer with its statistics
    lastReported,\* last_reported_per_ssrc: expected and received
    remoteSr,    \* remote_last_sr_recv: the stamp of an SR and when it came
    srAt,        \* when an SR with that stamp arrived (reference)
    blocks,      \* the report blocks of the last SR or RR
    tally        \* per source: losses reported, cumulative loss at the last report

rtpVars == <<rtpNow, rtpEvents, tx, gone, rx, lastReported, remoteSr, srAt, blocks, tally>>

NoBuffer == [received |-> 0, base |-> NoStamp, max |-> 0, queue |-> {}, next |-> NoStamp]

RtpInit ==
    /\ rtpNow = 0 /\ rtpEvents = 0
    /\ tx = [kind |-> "Session", stage |-> "Idle", ts |-> 0, sentAt |-> NoStamp, marker |-> FALSE,
             counted |-> 0, anchor |-> NoStamp, reported |-> NoStamp, goneThen |-> 0]
    /\ gone = 0
    /\ rx = [s \in {} |-> NoBuffer]
    /\ lastReported = [s \in Source |-> [expected |-> 0, received |-> 0]]
    /\ remoteSr = [s \in {} |-> 0] /\ srAt = [m \in {} |-> 0]
    /\ blocks = [s \in {} |-> 0]
    /\ tally = [s \in Source |-> [reported |-> 0, cumulative |-> 0]]

Event == rtpEvents < MaxEvents /\ rtpEvents' = rtpEvents + 1

Clock ==
    /\ Event /\ rtpNow < RtpTicks /\ rtpNow' = rtpNow + 1
    /\ UNCHANGED <<tx, gone, rx, lastReported, remoteSr, srAt, blocks, tally>>

-----------------------------------------------------------------------------
(* Sending                                                                 *)

\* The egress of a transcoding loop instead of a session: it has reports of its
\* own and receives nothing.
UseEgress ==
    /\ Event /\ tx.kind = "Session" /\ gone = 0 /\ tx.stage = "Idle" /\ DOMAIN rx = {} /\ rtpNow = 0
    /\ tx.reported = NoStamp /\ DOMAIN remoteSr = {}
    /\ tx' = [tx EXCEPT !.kind = "Egress"]
    /\ UNCHANGED <<rtpNow, gone, rx, lastReported, remoteSr, srAt, blocks, tally>>

\* send_ulaw: number and timestamp are taken, a pause of 30 ms or more (two
\* ticks) sets the marker.  send_payload takes its marker from the caller.
TakeNumber ==
    /\ Event /\ tx.stage = "Idle"
    /\ tx' = [tx EXCEPT !.stage = "Sending", !.ts = @ + 1, !.sentAt = rtpNow,
                        !.marker = tx.sentAt # NoStamp => rtpNow - tx.sentAt >= 2]
    /\ UNCHANGED <<rtpNow, gone, rx, lastReported, remoteSr, srAt, blocks, tally>>

\* The socket takes the packet, or the function returns its error: the number is
\* used up and nothing counted.
SocketSends ==
    /\ tx.stage = "Sending"
    /\ \/ gone' = gone + 1 /\ tx' = [tx EXCEPT !.stage = "Counting"]
       \/ tx' = [tx EXCEPT !.stage = "Idle"] /\ UNCHANGED gone
    /\ UNCHANGED <<rtpNow, rtpEvents, rx, lastReported, remoteSr, srAt, blocks, tally>>

\* Mutant: a packet counts from the moment it has its number.
CountsAll ==
    /\ tx.stage \in {"Sending", "Counting"}
    /\ tx' = [tx EXCEPT !.stage = "Idle", !.counted = @ + 1]
    /\ UNCHANGED <<rtpNow, rtpEvents, gone, rx, lastReported, remoteSr, srAt, blocks, tally>>

\* record_sent anchors the clock at the first packet that went out.
CountSent ==
    /\ tx.stage = "Counting"
    /\ tx' = [tx EXCEPT !.stage = "Idle", !.counted = @ + 1,
                        !.anchor = IF @ = NoStamp THEN [at |-> rtpNow, ts |-> tx.ts - 1] ELSE @]
    /\ UNCHANGED <<rtpNow, rtpEvents, gone, rx, lastReported, remoteSr, srAt, blocks, tally>>

-----------------------------------------------------------------------------
(* Receiving                                                               *)

\* RtpPacket::from_bytes refuses what is shorter than its own header fields or
\* of another version (nothing happens then); a new source gets a buffer.
BufferOf(s) == IF s \in DOMAIN rx THEN rx[s] ELSE NoBuffer
Larger(m, n) == IF m > n THEN m ELSE n
WithBuffer(s, b) == [r \in DOMAIN rx \cup {s} |-> IF r = s THEN b ELSE rx[r]]
IngestPacket(s, n) ==
    LET b == BufferOf(s)
        seen == [b EXCEPT !.base = IF @ = NoStamp THEN n ELSE @, !.max = Larger(@, n)]
        refused == (b.next # NoStamp /\ n < b.next) \/ n \in b.queue
    IN /\ Event /\ tx.kind = "Session"
       /\ rx' = WithBuffer(s, IF refused THEN seen
                              ELSE [seen EXCEPT !.received = @ + 1, !.queue = @ \cup {n}])
       /\ UNCHANGED <<rtpNow, tx, gone, lastReported, remoteSr, srAt, blocks, tally>>

\* pull: in order, over a gap only when the buffer is full.
Pull(s) ==
    /\ Event /\ s \in DOMAIN rx
    /\ LET b == rx[s]
           first == CHOOSE n \in b.queue : \A m \in b.queue : n <= m
       IN /\ b.queue # {}
          /\ b.next = NoStamp \/ b.next # first => Cardinality(b.queue) >= PlayoutDepth
          /\ rx' = [rx EXCEPT ![s].queue = @ \ {first}, ![s].next = first + 1]
    /\ UNCHANGED <<rtpNow, tx, gone, lastReported, remoteSr, srAt, blocks, tally>>

\* record_remote_sr: the stamp is the middle of the sender's clock (middle32),
\* taken when the SR left; it may have been under way for some time.
Stamps == 0..RtpTicks
RecordRemoteSr(s, stamp) ==
    /\ Event /\ tx.kind = "Session" /\ stamp <= rtpNow
    /\ remoteSr' = [r \in DOMAIN remoteSr \cup {s} |->
                       IF r = s THEN [stamp |-> stamp, at |-> rtpNow] ELSE remoteSr[r]]
    /\ srAt' = [m \in DOMAIN srAt \cup {stamp} |->
                   IF m \in DOMAIN srAt THEN srAt[m] \cup (IF m = stamp THEN {rtpNow} ELSE {})
                   ELSE {rtpNow}]
    /\ UNCHANGED <<rtpNow, tx, gone, rx, lastReported, blocks, tally>>

-----------------------------------------------------------------------------
(* Reports                                                                 *)

Expected(s) == rx[s].max - rx[s].base + 1
Cumulative(s) == Expected(s) - rx[s].received

\* fraction_lost works on the packets since the last report about this source,
\* with both differences cut off at zero.
NotBelowZero(n) == IF n < 0 THEN 0 ELSE n
LostInterval(s) ==
    NotBelowZero(NotBelowZero(Expected(s) - lastReported[s].expected)
                 - NotBelowZero(rx[s].received - lastReported[s].received))

\* Mutant: the time since this session's own last report.
StampOwnReport(s) ==
    IF s \in DOMAIN remoteSr
    THEN [lsr |-> remoteSr[s].stamp, dlsr |-> rtpNow - (IF tx.sentAt = NoStamp THEN 0 ELSE tx.sentAt)]
    ELSE [lsr |-> NoStamp, dlsr |-> 0]

\* LSR and DLSR belong to the last SR of the source; without one both are zero.
RoundTrip(s) ==
    IF s \in DOMAIN remoteSr
    THEN [lsr |-> remoteSr[s].stamp, dlsr |-> rtpNow - remoteSr[s].at]
    ELSE [lsr |-> NoStamp, dlsr |-> 0]

\* to_bytes and from_bytes: a number on the wire has the width of its field.
InField(n, size) == n % size

BlockFor(s) ==
    [cumulative |-> InField(NotBelowZero(Cumulative(s)), LossField), lost |-> LostInterval(s),
     highest |-> rx[s].max, trip |-> RoundTrip(s), at |-> rtpNow]

\* Mutant: what is remembered is remembered of every source.
NotesAll(reported) == DOMAIN rx
\* last_reported is updated for the sources that got a block.
Noted(reported) == reported

\* build_report_blocks: at most 31 sources, in the order of a hash map.
BuildBlocks(reported) ==
    /\ reported \subseteq DOMAIN rx
    /\ Cardinality(reported) = Cardinality(DOMAIN rx) \/ Cardinality(reported) = MaxBlocks
    /\ Cardinality(reported) <= MaxBlocks
    /\ blocks' = [s \in reported |-> BlockFor(s)]
    /\ lastReported' = [s \in Source |->
          IF s \in Noted(reported) THEN [expected |-> Expected(s), received |-> rx[s].received]
          ELSE lastReported[s]]
    /\ tally' = [s \in Source |->
          IF s \notin reported THEN tally[s]
          ELSE [reported |-> tally[s].reported + LostInterval(s),
                cumulative |-> Cumulative(s)]]

\* The timestamp of a session's report is the one of the packet to come, that of
\* an egress the one the clock has reached since its anchor.
SrTimestamp ==
    IF tx.kind = "Session" \/ tx.anchor = NoStamp THEN tx.ts
    ELSE tx.anchor.ts + (rtpNow - tx.anchor.at)
SenderReport == [count |-> InField(tx.counted, CountField), ts |-> SrTimestamp]

\* build_sr of a session.
SendSr ==
    /\ Event /\ tx.kind = "Session"
    /\ tx' = [tx EXCEPT !.goneThen = gone, !.reported = SenderReport]
    /\ \E reported \in SUBSET DOMAIN rx : BuildBlocks(reported)
    /\ UNCHANGED <<rtpNow, gone, rx, remoteSr, srAt>>

\* rtcp_sr_sender_loop: every five seconds, once the peer's address is known, and
\* without blocks.
SendEgressSr ==
    /\ Event /\ tx.kind = "Egress"
    /\ tx' = [tx EXCEPT !.goneThen = gone, !.reported = SenderReport]
    /\ UNCHANGED <<rtpNow, gone, rx, lastReported, remoteSr, srAt, blocks, tally>>

\* build_rr.
SendRr ==
    /\ Event /\ tx.kind = "Session" /\ DOMAIN rx # {}
    /\ \E reported \in SUBSET DOMAIN rx : BuildBlocks(reported)
    /\ UNCHANGED <<rtpNow, tx, gone, rx, remoteSr, srAt>>

RtpNext ==
    \/ Clock \/ UseEgress \/ TakeNumber \/ SocketSends \/ CountSent
    \/ \E s \in Source : Pull(s) \/ \E n \in 1..LastNumber : IngestPacket(s, n)
    \/ \E s \in Source, m \in Stamps : RecordRemoteSr(s, m)
    \/ SendSr \/ SendEgressSr \/ SendRr

RtpSpec == RtpInit /\ [][RtpNext]_rtpVars

-----------------------------------------------------------------------------
RtpTypeOK ==
    /\ rtpNow \in 0..RtpTicks /\ gone \in Nat /\ rtpEvents \in 0..MaxEvents
    /\ tx.kind \in {"Session", "Egress"} /\ tx.stage \in {"Idle", "Sending", "Counting"}
    /\ tx.counted \in Nat /\ tx.marker \in BOOLEAN
    /\ DOMAIN rx \subseteq Source /\ DOMAIN remoteSr \subseteq Source /\ DOMAIN blocks \subseteq Source
    /\ \A s \in DOMAIN rx : rx[s].queue \subseteq 1..LastNumber /\ rx[s].received \in Nat

\* A Sender Report, made while another task is between socket and counter, never
\* claims a packet the socket did not take, and lags by at most that one.
SrCountsWhatLeft ==
    tx.reported # NoStamp =>
        \E k \in {0, 1} : tx.goneThen >= k /\ tx.reported.count = (tx.goneThen - k) % CountField

\* Every loss is reported: over all intervals the reports tell of at least the
\* loss that is left at the last one, although packets come late and repeated,
\* and a report has room for only some of the sources.
LossReported == \A s \in Source : tally[s].reported >= tally[s].cumulative

\* The round trip the remote end computes is the true one: the delay in a block
\* is the time since an SR with that stamp arrived.
RoundTripTrue ==
    \A s \in DOMAIN blocks :
        blocks[s].trip.lsr # NoStamp =>
            blocks[s].at - blocks[s].trip.dlsr \in srAt[blocks[s].trip.lsr]

ReportsTrue == SrCountsWhatLeft /\ LossReported /\ RoundTripTrue
=============================================================================

---------------------------- MODULE SdpExchange -----------------------------
(***************************************************************************)
(* The session descriptions the gateway passes on: what an extension, a    *)
(* browser or the NGN says is read (sdp/parser.rs), cut down to what the   *)
(* NGN takes (sdp/negotiation.rs, sdp/builder.rs) and pointed at the       *)
(* gateway's own sockets, and the media bridge is chosen from the codecs   *)
(* of both sides (call/codec_pipeline.rs).                                 *)
(*                                                                         *)
(* A description is its first audio section and the few attributes the     *)
(* rewriting tells apart: "ice" is any attribute that both the NGN's list  *)
(* and the conversion to AVP take away, "xr" one that only the NGN's list  *)
(* has, "group" one that only the conversion has.  Other media sections    *)
(* pass as they are.  A port is a number up to TopPort, 65535 in the code. *)
(***************************************************************************)
EXTENDS Naturals, Sequences, SequencesExt

CONSTANTS
    TopPort,      \* u16::MAX
    BridgePort,   \* the port of the gateway's socket towards the NGN
    MaxHolds      \* bound: hold requests in a call

ASSUME SdpAssumption == TopPort \in Nat /\ BridgePort \in 1..TopPort /\ MaxHolds \in Nat

VARIABLES
    sdpCall,    \* where the exchange is, and which way it goes
    heard,      \* what the extension or the browser said
    fromNgn,    \* what the NGN said
    toNgn,      \* what went to the NGN, Silent before
    toExt,      \* what the extension was told, Silent before
    plan,       \* the media plan: 0 to relay, or the payload type of Opus
    firstOffer, \* the browser call's first offer to the NGN
    holdWish    \* the direction the browser last asked for and got

sdpVars == <<sdpCall, heard, fromNgn, toNgn, toExt, plan, firstOffer, holdWish>>

PCMU == 0
PCMA == 8
DTMF == 101
OpusPt == 111
DiscardPort == 2   \* stands for port 9

\* A payload type with its encoding and its clock rate in kHz.
Map(pt, name, rate) == [pt |-> pt, name |-> name, rate |-> rate]

\* The codecs of a description: static types may come without an rtpmap, and an
\* extension may use 101 for something else.
Menu ==
    {[fmts |-> <<PCMU>>, maps |-> {}, fmtp |-> {}],
     [fmts |-> <<PCMA>>, maps |-> {Map(PCMA, "PCMA", 8)}, fmtp |-> {}],
     [fmts |-> <<PCMU, DTMF>>, maps |-> {Map(PCMU, "PCMU", 8), Map(DTMF, "DTMF", 8)}, fmtp |-> {DTMF}],
     [fmts |-> <<OpusPt, DTMF>>, maps |-> {Map(OpusPt, "opus", 48), Map(DTMF, "DTMF", 48)}, fmtp |-> {OpusPt}],
     [fmts |-> <<OpusPt, PCMU>>, maps |-> {Map(OpusPt, "opus", 48), Map(PCMU, "PCMU", 8)}, fmtp |-> {OpusPt}]}

\* Where a description wants its media: session and media level c=, and port.
Place ==
    {[conn |-> "peer", mconn |-> "None", port |-> TopPort],
     [conn |-> "zero", mconn |-> "None", port |-> DiscardPort],
     [conn |-> "None", mconn |-> "peer", port |-> 4],
     [conn |-> "None", mconn |-> "None", port |-> 4]}

\* SessionDescription.  An rtcp or ptime of 0 is one that is not there.
Described(m, d, r, p, a) ==
    [parses |-> TRUE, audio |-> TRUE, fmts |-> m.fmts, maps |-> m.maps, fmtp |-> m.fmtp,
     dir |-> d, ptime |-> IF d = "None" THEN 0 ELSE 30, rtcp |-> r, port |-> p.port, conn |-> p.conn,
     mconn |-> p.mconn, attrs |-> a, proto |-> IF "ice" \in a THEN "SAVPF" ELSE "AVP", version |-> 0]
Description ==
    {Described(m, d, r, p, a) : m \in Menu, d \in {"None", "sendonly"}, r \in {0, 4}, p \in Place,
                                a \in {{}, {"xr"}, {"ice", "group", "xr"}}}

\* parse fails, or finds no m=audio; nothing else of such a description is looked at.
Plain == CHOOSE s \in Description : s.conn = "peer" /\ s.attrs = {} /\ s.maps = {}
Illegible == [Plain EXCEPT !.parses = FALSE]
Audioless == [Plain EXCEPT !.audio = FALSE]
Silent == [Plain EXCEPT !.parses = FALSE, !.audio = FALSE]

Received == Description \cup {Illegible, Audioless}
FromSip == {s \in Received : "ice" \notin s.attrs}
FromBrowser == {s \in Received : s.audio /\ s.parses => "ice" \in s.attrs}
\* The NGN: PCMU, with or without DTMF, at an address of its own.
FromNgn == {s \in FromSip : s.attrs = {} /\ s.rtcp = 0 /\ s.conn # "zero" /\ s.mconn = "None"
                            /\ s.fmts[1] = PCMU}

SdpInit ==
    /\ sdpCall = [stage |-> "Idle", way |-> "Out", bridged |-> FALSE, holds |-> 0]
    /\ heard = Silent /\ fromNgn = Silent /\ toNgn = Silent /\ toExt = Silent
    /\ plan = 0 /\ firstOffer = Silent /\ holdWish = "None"
-----------------------------------------------------------------------------
(* The rewriting                                                           *)

\* port.saturating_add(1).
RtcpPort(p) == IF p = TopPort THEN TopPort ELSE p + 1

\* Mutant: RTCP stays where the other side had it.
RewritesRtpOnly(s, addr, port) ==
    [s EXCEPT !.conn = addr, !.port = IF s.audio THEN port ELSE @, !.mconn = "None", !.version = @ + 1]

\* rewrite_rtp_endpoint, of a description that parses.
RewriteEndpoint(s, addr, port) ==
    IF s.audio
    THEN [s EXCEPT !.conn = addr, !.port = port, !.mconn = "None", !.version = @ + 1,
                   !.rtcp = IF @ = 0 THEN 0 ELSE RtcpPort(port)]
    ELSE [s EXCEPT !.conn = addr, !.version = @ + 1]

\* is_unsupported_by_ngn, and is_unsupported_by_ngn_answer, which is the same list.
Unsupported == {"ice", "xr"}
UnsupportedInAnswer == {"ice", "xr"}

\* AllowedCodec's own rtpmap.
DefaultMap(pt) == IF pt = PCMU THEN Map(PCMU, "PCMU", 8) ELSE Map(DTMF, "DTMF", 8)

\* Mutant: an rtpmap is kept for its number alone, whatever its clock rate.
SubsetByNumber(s, allowed) ==
    LET kept == {m \in s.maps : m.pt \in Range(allowed)}
    IN [s EXCEPT !.fmts = allowed, !.attrs = @ \ Unsupported,
                 !.maps = kept \cup {DefaultMap(pt) : pt \in Range(allowed) \ {m.pt : m \in kept}},
                 !.fmtp = (@ \cap Range(allowed)) \cup (Range(allowed) \cap {DTMF})]

\* apply_codec_subset: the list of formats is replaced, an rtpmap is kept for its
\* number and its clock rate, and what is missing is added.
CodecSubset(s, allowed) ==
    LET kept == {m \in s.maps : m.pt \in Range(allowed) /\ m.rate = 8}
    IN [s EXCEPT !.fmts = allowed, !.attrs = @ \ Unsupported,
                 !.maps = kept \cup {DefaultMap(pt) : pt \in Range(allowed) \ {m.pt : m \in kept}},
                 !.fmtp = (@ \cap Range(allowed)) \cup (Range(allowed) \cap {DTMF})]

EnsurePtime(s, ms) == IF s.parses /\ s.audio /\ s.ptime = 0 THEN [s EXCEPT !.ptime = ms] ELSE s
EnsureRtcp(s) == IF s.rtcp = 0 THEN [s EXCEPT !.rtcp = RtcpPort(s.port)] ELSE s

\* Negotiator::apply; what does not parse is passed on as it is.
Negotiated(s, allowed) ==
    IF s.parses /\ s.audio THEN EnsureRtcp(EnsurePtime(CodecSubset(s, allowed), 20)) ELSE s

\* convert_savpf_to_avp, of a description that parses and has audio.
SavpfToAvp(s) == [s EXCEPT !.proto = "AVP", !.attrs = @ \ {"ice", "group"}, !.rtcp = 0]

\* apply_audio_direction.
WithDirection(s, d) == IF s.parses /\ s.audio THEN [s EXCEPT !.dir = d] ELSE s

\* restrict_answer_to_ngn_offer_subset: the formats of the offer that the answer
\* has too; none is an error, as is a description that cannot be read.
Common(offer, answer) ==
    LET keep[n \in 0..Len(offer.fmts)] ==
            IF n = 0 THEN <<>>
            ELSE IF offer.fmts[n] \in Range(answer.fmts) THEN Append(keep[n - 1], offer.fmts[n]) ELSE keep[n - 1]
    IN keep[Len(offer.fmts)]
Restrictable(offer, answer) ==
    offer.parses /\ offer.audio /\ answer.parses /\ answer.audio /\ Common(offer, answer) # <<>>
Restricted(offer, answer) ==
    LET keep == Range(Common(offer, answer))
    IN [answer EXCEPT !.fmts = Common(offer, answer), !.attrs = @ \ UnsupportedInAnswer,
                      !.maps = {m \in @ : m.pt \in keep}, !.fmtp = @ \cap keep]

\* extract_rtp_endpoint finds an address.
HasEndpoint(s) == s.parses /\ s.audio /\ (s.mconn # "None" \/ s.conn # "None")

\* is_undirected_or_webrtc_placeholder_sdp.
Placeholder(s) == s.conn = "zero" /\ s.port = DiscardPort /\ s.audio
-----------------------------------------------------------------------------
(* The codec of a leg and the media plan                                   *)

OpusOf(s) == {m.pt : m \in {n \in s.maps : n.name = "opus"}}
HasPcmu(s) == s.audio /\ (PCMU \in Range(s.fmts) \/ \E m \in s.maps : m.name = "PCMU")

\* Mutant: PCMU is looked for first.
DetectsPcmuFirst(s) ==
    IF HasPcmu(s) THEN "Pcmu" ELSE IF OpusOf(s) # {} THEN "Opus" ELSE "Unknown"

\* LegCodec::detect.
Detect(s) ==
    IF OpusOf(s) # {} THEN "Opus" ELSE IF HasPcmu(s) THEN "Pcmu" ELSE "Unknown"

\* select_media_plan.
MediaPlan(ngn, ext) ==
    IF Detect(ngn) = "Pcmu" /\ Detect(ext) = "Opus" THEN CHOOSE pt \in OpusOf(ext) : TRUE ELSE 0
-----------------------------------------------------------------------------
(* The exchanges                                                           *)

\* force_rewrite_sdp_for_ngn keeps the port it finds.
Forced(s) == IF s.parses THEN RewriteEndpoint(s, "ngn", s.port) ELSE s

\* prepare_outbound_bridge; bridging: a manager is there and the sockets bind.
ExtOffers(o, bridging) ==
    LET ready == bridging /\ HasEndpoint(o)
    IN /\ sdpCall.stage = "Idle"
       /\ sdpCall' = [sdpCall EXCEPT !.stage = "Offered", !.way = "Out", !.bridged = ready]
       /\ heard' = o
       /\ toNgn' = Negotiated(IF ready THEN RewriteEndpoint(o, "ngn", BridgePort) ELSE Forced(o),
                              <<PCMU, DTMF>>)
       /\ UNCHANGED <<fromNgn, toExt, plan, firstOffer, holdWish>>

\* finalize_outbound_bridge: the extension is answered with its own offer, pointed
\* at the gateway, or with the NGN's answer where there is no bridge.
NgnAnswersExt(a) ==
    LET ready == sdpCall.bridged /\ HasEndpoint(a)
    IN /\ sdpCall.stage = "Offered"
       /\ sdpCall' = [sdpCall EXCEPT !.stage = "Agreed", !.bridged = ready]
       /\ fromNgn' = a
       /\ toExt' = IF ready THEN RewriteEndpoint(heard, "ext", BridgePort) ELSE a
       /\ plan' = IF ready THEN MediaPlan(a, heard) ELSE 0
       /\ UNCHANGED <<heard, toNgn, firstOffer, holdWish>>

\* handle_ext_reinvite.  The NGN's answer is passed to the extension as it is.
ExtReoffers(o) ==
    /\ sdpCall.stage = "Agreed"
    /\ sdpCall' = [sdpCall EXCEPT !.stage = "Reoffered", !.bridged = FALSE]
    /\ heard' = o
    /\ toNgn' = Negotiated(Forced(o), <<PCMU, DTMF>>)
    /\ toExt' = fromNgn
    /\ UNCHANGED <<fromNgn, plan, firstOffer, holdWish>>

\* handle_pwa_outbound_offer_impl: the browser's answer becomes the NGN's offer.
PwaOffers(b) ==
    /\ sdpCall.stage = "Idle"
    /\ heard' = b
    /\ IF b.parses /\ b.audio
       THEN LET o == RewriteEndpoint(Negotiated(SavpfToAvp(b), <<PCMU>>), "ngn", BridgePort)
            IN /\ toNgn' = o /\ firstOffer' = o
               /\ sdpCall' = [sdpCall EXCEPT !.stage = "Talking", !.way = "Pwa", !.bridged = TRUE]
       ELSE /\ sdpCall' = [sdpCall EXCEPT !.stage = "Failed", !.way = "Pwa"]
            /\ UNCHANGED <<toNgn, firstOffer>>
    /\ holdWish' = b.dir
    /\ UNCHANGED <<fromNgn, toExt, plan>>

\* Mutant: a direction that is there already stays.
HoldKeepsFirst(d) ==
    /\ sdpCall.stage = "Talking" /\ sdpCall.holds < MaxHolds
    /\ sdpCall' = [sdpCall EXCEPT !.holds = @ + 1]
    /\ toNgn' = IF toNgn.dir = "None" THEN WithDirection(toNgn, d) ELSE toNgn
    /\ holdWish' = d
    /\ UNCHANGED <<heard, fromNgn, toExt, plan, firstOffer>>

\* set_hold, which the NGN accepts, and keeps as last_ngn_offer_sdp.
SetHold(d) ==
    /\ sdpCall.stage = "Talking" /\ sdpCall.holds < MaxHolds
    /\ sdpCall' = [sdpCall EXCEPT !.holds = @ + 1]
    /\ toNgn' = WithDirection(toNgn, d)
    /\ holdWish' = d
    /\ UNCHANGED <<heard, fromNgn, toExt, plan, firstOffer>>

\* A refusal leaves last_ngn_offer_sdp and the direction as they were.
HoldRefused ==
    /\ sdpCall.stage = "Talking" /\ sdpCall.holds < MaxHolds
    /\ sdpCall' = [sdpCall EXCEPT !.holds = @ + 1]
    /\ UNCHANGED <<heard, fromNgn, toNgn, toExt, plan, firstOffer, holdWish>>

\* handle_invite of the NGN, an extension's or a browser's answer in hand: the 200
\* has what start_bridge_for_inbound makes of it, the answer itself where nothing
\* bridges, and 502 where that must not be.
NgnOffers(o) ==
    /\ sdpCall.stage = "Idle"
    /\ sdpCall' = [sdpCall EXCEPT !.stage = "Ringing", !.way = "In"]
    /\ fromNgn' = o
    /\ UNCHANGED <<heard, toNgn, toExt, plan, firstOffer, holdWish>>

\* run_webrtc_leg converts the browser's answer if it can.
LegBody(e) == IF "ice" \in e.attrs THEN SavpfToAvp(e) ELSE e

\* extract_ptime_from_offer, ensure_ptime_in_answer.
PtimeOfOffer(body) ==
    IF fromNgn.parses /\ fromNgn.audio /\ fromNgn.ptime # 0 THEN EnsurePtime(body, fromNgn.ptime) ELSE body

InboundAnswered(e, manager) ==
    LET body == LegBody(e)
        web == "ice" \in e.attrs
        bridges == manager /\ HasEndpoint(fromNgn) /\ Restrictable(fromNgn, body)
                   /\ (web \/ HasEndpoint(body))
    IN /\ sdpCall.stage = "Ringing"
       /\ heard' = e
       /\ \/ /\ bridges
             /\ toNgn' = PtimeOfOffer(RewriteEndpoint(Restricted(fromNgn, body), "ngn", BridgePort))
             /\ plan' = IF web THEN 0 ELSE MediaPlan(fromNgn, body)
             /\ sdpCall' = [sdpCall EXCEPT !.stage = "Answered", !.bridged = TRUE]
          \/ /\ ~bridges /\ (manager \/ Placeholder(body))
             /\ sdpCall' = [sdpCall EXCEPT !.stage = "Failed"]
             /\ UNCHANGED <<toNgn, plan>>
          \/ /\ ~manager /\ ~Placeholder(body)
             /\ toNgn' = PtimeOfOffer(body)
             /\ sdpCall' = [sdpCall EXCEPT !.stage = "Answered"]
             /\ UNCHANGED plan
       /\ UNCHANGED <<fromNgn, toExt, firstOffer, holdWish>>

\* try_start_voicemail answers with the NGN's own offer.
VoicemailAnswers ==
    /\ sdpCall.stage = "Ringing" /\ fromNgn.parses
    /\ toNgn' = RewriteEndpoint(fromNgn, "ngn", BridgePort)
    /\ sdpCall' = [sdpCall EXCEPT !.stage = "Answered", !.bridged = TRUE]
    /\ UNCHANGED <<heard, fromNgn, toExt, plan, firstOffer, holdWish>>

SdpNext ==
    \/ sdpCall.stage = "Idle"
       /\ \/ \E o \in FromSip, b \in BOOLEAN : ExtOffers(o, b)
          \/ \E b \in FromBrowser : PwaOffers(b)
          \/ \E o \in FromNgn : NgnOffers(o)
    \/ sdpCall.stage = "Offered" /\ \E a \in FromNgn : NgnAnswersExt(a)
    \/ sdpCall.stage = "Agreed" /\ \E m \in Menu, d \in {"None", "sendonly"} :
           ExtReoffers([heard EXCEPT !.fmts = m.fmts, !.maps = m.maps, !.fmtp = m.fmtp, !.dir = d])
    \/ \E d \in {"sendonly", "sendrecv"} : SetHold(d)
    \/ HoldRefused
    \/ sdpCall.stage = "Ringing" /\ \E e \in Received, m \in BOOLEAN : InboundAnswered(e, m)
    \/ VoicemailAnswers
-----------------------------------------------------------------------------
SdpTypeOK ==
    /\ sdpCall.stage \in {"Idle", "Offered", "Agreed", "Reoffered", "Talking", "Ringing", "Answered", "Failed"}
    /\ sdpCall.way \in {"Out", "Pwa", "In"} /\ sdpCall.bridged \in BOOLEAN
    /\ sdpCall.holds \in 0..MaxHolds
    /\ plan \in {0, OpusPt}
    /\ holdWish \in {"None", "sendrecv", "sendonly"}

\* What the gateway itself tells the NGN, the NGN can use, whoever said it first
\* and whichever way it came (Issues #66, #121, #138): the audio is where the
\* gateway listens, and RTCP one port above; only formats the NGN takes, or
\* offered, each described and none left over; nothing of WebRTC; and never the
\* 0.0.0.0:9 of a browser.
NgnSdpSound ==
    /\ toNgn.parses => ~Placeholder(toNgn)
    /\ toNgn.parses /\ toNgn.audio /\ (sdpCall.way = "In" => sdpCall.bridged) =>
           /\ toNgn.conn = "ngn" /\ toNgn.mconn = "None"
           /\ sdpCall.bridged => toNgn.port = BridgePort
           /\ toNgn.rtcp \in {0, RtcpPort(toNgn.port)}
           /\ toNgn.attrs = {}
           /\ toNgn.fmts # <<>> /\ toNgn.fmtp \subseteq Range(toNgn.fmts)
           /\ \A m \in toNgn.maps : m.pt \in Range(toNgn.fmts)
           /\ sdpCall.way = "In" => Range(toNgn.fmts) \subseteq Range(fromNgn.fmts)
           /\ sdpCall.way # "In" => /\ Range(toNgn.fmts) \subseteq {PCMU, DTMF}
                                    /\ {m.pt : m \in toNgn.maps} = Range(toNgn.fmts)
                                    /\ \A m \in toNgn.maps : m.rate = 8

\* However often a browser's call is put on hold and taken back, accepted or
\* refused, the NGN's last offer is the first one with the direction the browser
\* last got (set_hold, apply_audio_direction).
HoldKeepsMedia ==
    sdpCall.stage = "Talking" => toNgn = [firstOffer EXCEPT !.dir = holdWish]

\* Opus is never relayed to an NGN that has PCMU, and a transcoder works between
\* a type the extension was told and one the NGN was (select_media_plan).
PlanFits ==
    sdpCall.stage \in {"Agreed", "Answered"} /\ sdpCall.bridged /\ toNgn.attrs = {}
        /\ "ice" \notin heard.attrs =>
           /\ plan = 0 /\ Detect(fromNgn) = "Pcmu" /\ heard # Silent => OpusOf(heard) = {}
           /\ plan # 0 => plan \in Range(heard.fmts) /\ HasPcmu(fromNgn)
=============================================================================

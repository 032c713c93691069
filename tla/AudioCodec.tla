----------------------------- MODULE AudioCodec -----------------------------
(***************************************************************************)
(* Sound (rtp/mod.rs, rtp/codec): mu-law samples, computed as the code     *)
(* computes them over every 16-bit sample, and the lengths of the frames   *)
(* on their way through the resamplers and Opus.                           *)
(***************************************************************************)
EXTENDS Integers, FiniteSets

CONSTANTS
    NbFrame,     \* NB_FRAME_SAMPLES
    Ratio,       \* WIDE_BAND_RATE / NARROW_BAND_RATE
    MaxFrame,    \* OPUS_MAX_FRAME_SAMPLES, in samples of WbFrame
    Delay        \* bound: samples a resampler keeps back or gives late

ASSUME CodecAssumption ==
    /\ {NbFrame, Ratio, MaxFrame} \subseteq Nat \ {0} /\ Delay \in Nat
    /\ MaxFrame >= NbFrame * Ratio

VARIABLES
    level,      \* the sample in hand
    lower,      \* the one below it, decoded from its byte
    frame,      \* the frame in hand: what it is and how many samples it has
    refused     \* a stage did not take the frame

codecVars == <<level, lower, frame, refused>>

MinSample == -32768              \* i16::MIN
MaxSample == 32767               \* i16::MAX
WbFrame == NbFrame * Ratio       \* WB_FRAME_SAMPLES = OPUS_FRAME_SAMPLES
NoFrame == [form |-> "None", len |-> 0]

-----------------------------------------------------------------------------
(* mu-law                                                                  *)

Bias == 132
Clip == 32635
Abs(s) == IF s < 0 THEN -s ELSE s

\* The magnitude, clipped, with the bias that makes segments of powers of two.
Biased(s) == (IF Abs(s) > Clip THEN Clip ELSE Abs(s)) + Bias

\* The segment: the highest set bit, counted from bit 7.
Segment(m) == CHOOSE e \in 0..7 : (e = 0 \/ m >= 2^(e + 7)) /\ (e = 7 \/ m < 2^(e + 8))

\* encode_ulaw; the byte is sent inverted.
EncodeUlaw(s) ==
    LET m == Biased(s)
        mantissa == (m \div 2^(Segment(m) + 3)) % 16
    IN 255 - ((IF s < 0 THEN 128 ELSE 0) + 16 * Segment(m) + mantissa)

\* Mutant: the byte is read as it is sent.
DecodesUninverted(b) ==
    LET val == ((b % 16) * 8 + Bias) * 2^((b \div 16) % 8) - Bias
    IN IF b >= 128 THEN -val ELSE val

\* decode_ulaw: the middle of the interval.
DecodeUlaw(b) ==
    LET byte == 255 - b
        val == ((byte % 16) * 8 + Bias) * 2^((byte \div 16) % 8) - Bias
    IN IF byte >= 128 THEN -val ELSE val

-----------------------------------------------------------------------------
(* Frames                                                                  *)

CodecInit == level = MinSample /\ lower = MinSample /\ frame = NoFrame /\ refused = FALSE

\* Any sample, and the one below it as it is heard.
TakeSample(s) ==
    /\ frame = NoFrame
    /\ level' = s
    /\ lower' = DecodeUlaw(EncodeUlaw(s - 1))
    /\ UNCHANGED <<frame, refused>>

\* What the conversion of a frame gives, or that it is refused: a resampler takes a
\* frame of its length only, and what comes out is cut or filled up (resize).
Stage(from, wants, to, gives) ==
    /\ frame.form = from /\ ~refused
    /\ IF frame.len = wants THEN frame' = [form |-> to, len |-> gives] /\ UNCHANGED refused
                            ELSE refused' = TRUE /\ UNCHANGED frame
    /\ UNCHANGED <<level, lower>>

\* A frame of 20 ms from the NGN, decoded, or an Opus packet of any length from the
\* browser; an empty packet asks for concealment.
NgnFrame ==
    /\ frame = NoFrame /\ frame' = [form |-> "Narrow", len |-> NbFrame]
    /\ UNCHANGED <<level, lower, refused>>

\* Vec::resize: the samples that are kept, and zeros up to n.
Resize(out, n) == Cardinality({i \in 1..n : i <= out}) + Cardinality({i \in 1..n : i > out})

\* Mutant: what the resampler gives is passed on.
UpsampleAsIs(out) == Stage("Narrow", NbFrame, "Wide", out)
\* UpsamplerNbToWb::process; out is what FastFixedIn gives.
Upsample(out) == Stage("Narrow", NbFrame, "Wide", Resize(out, WbFrame))

\* OpusEncoder::encode.
OpusEncode == Stage("Wide", WbFrame, "Opus", WbFrame)

\* OpusDecoder::decode: a buffer as long as the packet says, or the longest.
Buffer(n) == IF n \in 1..MaxFrame THEN n ELSE MaxFrame
OpusDecode(n) ==
    /\ frame.form = "Opus" /\ frame' = [form |-> "Back", len |-> Buffer(IF n = 0 THEN WbFrame ELSE n)]
    /\ UNCHANGED <<level, lower, refused>>

\* DownsamplerWbToNb::process.
Downsample(out) == Stage("Back", WbFrame, "Done", Resize(out, NbFrame))

CodecNext ==
    \/ level = MinSample /\ \E s \in MinSample + 1..MaxSample : TakeSample(s)
    \/ level = MinSample /\ (\/ NgnFrame \/ OpusEncode \/ \E n \in {0, WbFrame} : OpusDecode(n)
                             \/ \E out \in WbFrame - Delay..WbFrame + Delay : Upsample(out)
                             \/ \E out \in NbFrame - Delay..NbFrame + Delay : Downsample(out))
-----------------------------------------------------------------------------
CodecTypeOK ==
    /\ level \in MinSample..MaxSample /\ EncodeUlaw(level) \in 0..255
    /\ frame.len \in Nat /\ refused \in BOOLEAN

\* Mu-law as the NGN hears it, for every sample: the error is at most half a step of
\* its segment, louder samples stay louder, and coding again what was decoded, as
\* a call that is bridged twice does, loses no more (encode_ulaw, decode_ulaw).
UlawFaithful ==
    LET heard == DecodeUlaw(EncodeUlaw(level))
    IN /\ Abs(level) <= Clip => Abs(level - heard) <= 2^(Segment(Biased(level)) + 2)
       /\ lower <= heard
       /\ DecodeUlaw(EncodeUlaw(heard)) = heard

\* No stage refuses what the one before it made of a frame of the NGN, whatever the
\* resamplers keep back (UpsamplerNbToWb, OpusEncoder, OpusDecoder, DownsamplerWbToNb).
StagesFit == ~refused
=============================================================================

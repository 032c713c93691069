-------------------------------- MODULE Dtmf --------------------------------
(***************************************************************************)
(* A key pressed on a phone (SIP INFO) or in a browser (a Dtmf message),   *)
(* from there to the telephone-events the far end reads (call/dtmf.rs and  *)
(* the handlers in call/orchestrator.rs).  A call is in one of three       *)
(* tables, by who called whom; its bridge is the CallManager's.  Every     *)
(* INFO has a task of its own, so that the packets of two keys may mix.    *)
(***************************************************************************)
EXTENDS Naturals, Sequences, FiniteSets

CONSTANTS
    Presses,      \* the number of key presses
    KeyChar,      \* the characters pressed
    MaxMillis     \* a bound on the clock

ASSUME DtmfAssumption == Presses \in Nat /\ MaxMillis \in Nat

VARIABLES
    press,      \* each key press: who, which call and character, what is left to send;
                \* whole: it was for a call that had a bridge, and all of it was sent
    tone,       \* each call's entry in its table
    toneBridge, \* calls whose bridge is in the CallManager
    millis,     \* the clock
    line        \* what arrived at the far end of each call

dtmfVars == <<press, tone, toneBridge, millis, line>>

\* OutboundCallRegistry, webrtc_outbound_active, and NgnInboundHandler.active.
ToneCall == {"FromPhone", "FromBrowser", "FromNgn"}
NoBridge == {}
Press == 1..Presses

DtmfInit ==
    /\ press = [k \in Press |-> [by |-> "Nobody", call |-> "FromPhone", char |-> "none", answer |-> 0,
                                 packets |-> <<>>, at |-> 0, whole |-> FALSE]]
    /\ tone = [c \in ToneCall |-> "None"] /\ toneBridge = {}
    /\ millis = 0 /\ line = [c \in ToneCall |-> {}]

-----------------------------------------------------------------------------
(* call/dtmf.rs                                                            *)

Keypad == <<"0", "1", "2", "3", "4", "5", "6", "7", "8", "9", "*", "#", "A", "B", "C", "D">>
Capital(d) == CASE d = "a" -> "A" [] d = "b" -> "B" [] d = "c" -> "C" [] d = "d" -> "D" [] OTHER -> d

\* Mutant: the letters begin where the star is.
LettersFromTen(d) ==
    IF Capital(d) \in {"A", "B", "C", "D"} THEN {e \in 10..13 : Keypad[e + 3] = Capital(d)}
                                          ELSE {e \in 0..11 : Keypad[e + 1] = d}

\* The event of a character, or none.
digit_to_event(d) == {e \in 0..15 : Keypad[e + 1] = Capital(d)}
event_to_digit(e) == Keypad[e + 1]

\* TelephoneEvent, in four bytes.
into_payload(t) == <<t.event, (IF t.end THEN 128 ELSE 0) + (t.volume % 64),
                     t.duration \div 256, t.duration % 256>>
from_payload(b) == [event |-> b[1], end |-> b[2] >= 128, volume |-> b[2] % 64,
                    duration |-> 256 * b[3] + b[4]]

Least(a, b) == IF a < b THEN a ELSE b
Most(a, b) == IF a < b THEN b ELSE a

\* Updates every period until the duration is reached, then the end three times;
\* one timestamp for all of them, the marker on the first.  8 units are 1 ms.
build_dtmf_packet_sequence(event, start, ms, period, volume) ==
    LET total == Least(Most(ms, 1) * 8, 65535)
        step == IF period = 0 THEN total ELSE Most(Least(period * 8, 65535), 1)
        updates == (total + step - 1) \div step
    IN  [i \in 1..(updates + 3) |->
            [marker |-> i = 1, sequence |-> ((start % 65536) + i - 1) % 65536, timestamp |-> start,
             payload |-> into_payload([event |-> event, end |-> i > updates, volume |-> volume,
                                       duration |-> Least(i * step, total)])]]

\* The bodies of INFO: dtmf-relay with or without a Signal line, dtmf with or
\* without a character, another type.
BodyType == {"relay", "plain", "other"}
parsed(type, chars) == IF type = "other" THEN <<>> ELSE chars

-----------------------------------------------------------------------------
(* The handlers.  A Call-ID no table has is that of a call that is over.   *)

\* The keys are numbered in the order they are pressed.
NextPress(k) == press[k].by = "Nobody" /\ \A j \in 1..(k - 1) : press[j].by # "Nobody"

\* The call's bridge, as its table has it: none for a call that is not there and
\* for one whose SDP was passed through.
BridgeOf(c) == IF tone[c] = "Bridged" THEN {c} ELSE NoBridge

\* inject_dtmf_event_to_ngn: 100 ms, 50 ms, volume 10, the clock as timestamp.  A
\* character that is no key, or one for a call without a bridge, is dropped.
Starts(k, by, c, d, answer, bridge) ==
    press' = IF digit_to_event(d) = {} \/ tone[c] # "Bridged"
             THEN [press EXCEPT ![k].by = by, ![k].answer = answer]
             ELSE [press EXCEPT ![k] =
                 [by |-> by, call |-> c, char |-> d, answer |-> answer, at |-> millis, whole |-> TRUE,
                  packets |-> IF bridge = NoBridge THEN <<>>
                              ELSE build_dtmf_packet_sequence(CHOOSE e \in digit_to_event(d) : TRUE,
                                                              millis, 100, 50, 10)]]

\* handle_ext_info: 415, or 200 and then the lookups.
HandleInfo(k, type, chars) ==
    /\ NextPress(k)
    /\ IF parsed(type, chars) = <<>>
       THEN press' = [press EXCEPT ![k].by = "Info", ![k].answer = 415]
       ELSE Starts(k, "Info", "FromPhone", Head(chars), 200, BridgeOf("FromPhone"))
    /\ UNCHANGED <<tone, toneBridge, millis, line>>

\* Mutant: the answer of the first handler counts.
FirstHandlerOnly(c) == IF c = "FromBrowser" THEN BridgeOf(c) ELSE NoBridge

\* CompositePwaDtmfHandler: the calls of browsers first, then those from the NGN.
BrowsersBridge(c) == BridgeOf(c)

\* ClientMessage::Dtmf, handled one at a time.  More or fewer characters than one
\* are dropped.
HandleDtmf(k, c, chars) ==
    /\ NextPress(k)
    /\ \A j \in Press : press[j].by = "Browser" => press[j].packets = <<>>
    /\ IF Len(chars) # 1 THEN press' = [press EXCEPT ![k].by = "Browser"]
       ELSE Starts(k, "Browser", c, Head(chars), 0, BrowsersBridge(c))
    /\ UNCHANGED <<tone, toneBridge, millis, line>>

\* inject_to_ngn, packet by packet, until the bridge is gone or cannot send.
InjectTone(k) ==
    LET p == press[k] IN
    /\ p.packets # <<>>
    /\ \/ /\ p.call \in toneBridge
          /\ press' = [press EXCEPT ![k].packets = Tail(@)]
          /\ line' = [line EXCEPT ![p.call] = @ \cup {Head(p.packets)}]
       \/ /\ press' = [press EXCEPT ![k].packets = <<>>, ![k].whole = FALSE]
          /\ UNCHANGED line
    /\ UNCHANGED <<tone, toneBridge, millis>>

\* A call is up; without a bridge if its SDP was passed through.  Bound: the calls are
\* up before the first key; to a key pressed earlier they are as calls that are over.
ToneCallUp(c) ==
    /\ tone[c] = "None" /\ c \notin toneBridge /\ \A k \in Press : press[k].by = "Nobody"
    /\ \/ tone' = [tone EXCEPT ![c] = "Bridged"] /\ toneBridge' = toneBridge \cup {c}
       \/ c # "FromBrowser" /\ tone' = [tone EXCEPT ![c] = "Transparent"] /\ UNCHANGED toneBridge
    /\ UNCHANGED <<press, millis, line>>

\* It leaves its table, and its bridge is stopped.
ToneCallLeaves(c) ==
    /\ tone[c] \in {"Bridged", "Transparent"}
    /\ tone' = [tone EXCEPT ![c] = "None"]
    /\ UNCHANGED <<press, toneBridge, millis, line>>
ToneBridgeStops(c) ==
    /\ tone[c] = "None" /\ c \in toneBridge
    /\ toneBridge' = toneBridge \ {c}
    /\ UNCHANGED <<press, tone, millis, line>>

Millisecond ==
    /\ millis < MaxMillis
    /\ millis' = millis + 1
    /\ UNCHANGED <<press, tone, toneBridge, line>>

-----------------------------------------------------------------------------
DtmfNext ==
    \/ \E k \in Press, chars \in {<<>>} \cup {<<d>> : d \in KeyChar} :
           \/ \E c \in ToneCall \ {"FromPhone"} : HandleDtmf(k, c, chars)
           \/ \E type \in BodyType : HandleInfo(k, type, chars)
    \/ \E k \in Press : InjectTone(k)
    \/ \E c \in ToneCall : ToneCallUp(c) \/ ToneCallLeaves(c) \/ ToneBridgeStops(c)
    \/ Millisecond

DtmfTypeOK ==
    /\ \A k \in Press : press[k].by \in {"Nobody", "Info", "Browser"} /\ press[k].call \in ToneCall
                        /\ press[k].answer \in {0, 200, 415} /\ press[k].at \in 0..MaxMillis
                        /\ Len(press[k].packets) <= 5
    /\ tone \in [ToneCall -> {"None", "Bridged", "Transparent"}]
    /\ toneBridge \subseteq ToneCall /\ millis \in 0..MaxMillis

\* What the far end of a call reads: it tells key presses apart by timestamp.
ReadAt(c, t) == {from_payload(q.payload) : q \in {r \in line[c] : r.timestamp = t}}
AloneInMillisecond(k) ==
    \A j \in Press \ {k} : press[j].call = press[k].call /\ press[j].char # "none" => press[j].at # press[k].at

\* However keys, calls and their ends mix: a tone on a line is that of a key
\* pressed in that call, and a key of a call with a bridge whose packets all went out
\* is read there as one tone of 100 ms with an end and with the key's own digit,
\* unless another key of the call fell into the same millisecond.
KeysHeard ==
    /\ \A c \in ToneCall : \A q \in line[c] :
           \E k \in Press : /\ press[k].call = c /\ press[k].at = q.timestamp
                            /\ event_to_digit(from_payload(q.payload).event) = Capital(press[k].char)
    /\ \A k \in Press :
           LET p == press[k]
               read == ReadAt(p.call, p.at)
           IN  p.packets = <<>> /\ p.whole /\ AloneInMillisecond(k) =>
                   /\ \A e \in read : event_to_digit(e.event) = Capital(p.char)
                   /\ {e.duration : e \in {f \in read : f.end}} = {800}
=============================================================================

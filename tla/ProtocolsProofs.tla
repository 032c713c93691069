--------------------------- MODULE ProtocolsProofs --------------------------
(***************************************************************************)
(* Proofs about the media path, the formats and the tables of MCProtocols, *)
(* for every value of their constants.                                     *)
(***************************************************************************)
EXTENDS MCProtocols, TLAPS, FiniteSetTheorems, WellFoundedInduction

-----------------------------------------------------------------------------
(* Numbers that wrap                                                       *)

\* Every integer is a multiple of m and a remainder.
LEMMA Divides ==
    ASSUME NEW m \in Nat \ {0}, NEW i \in Int
    PROVE  (i % m) \in 0..(m - 1) /\ \E q \in Int : i = q * m + (i % m)
<1>1. i \div m \in Int /\ i = (i \div m) * m + (i % m) /\ (i % m) \in 0..(m - 1)
  OBVIOUS
<1> QED
  BY <1>1

\* And there is one such remainder.
LEMMA Remainder ==
    ASSUME NEW m \in Nat \ {0}, NEW i \in Int, NEW q \in Int, NEW r \in 0..(m - 1), i = q * m + r
    PROVE  i % m = r
  OBVIOUS

\* Multiples add up.
LEMMA Multiples == \A p, q, m \in Int : (p - q) * m = p * m - q * m /\ (p + q) * m = p * m + q * m
  OBVIOUS

\* Between -2m and 2m there are three multiples of m.
LEMMA FewMultiples ==
    ASSUME NEW m \in Nat \ {0}, NEW k \in Int, -(2 * m) < k * m, k * m < 2 * m
    PROVE  k \in {-1, 0, 1}
  OBVIOUS

\* The remainders of numbers less than m apart differ as the numbers do, or by m more or less.
LEMMA Wraps ==
    ASSUME NEW m \in Nat \ {0}, NEW a \in Int, NEW b \in Int, b - a < m, a - b < m
    PROVE  (b % m) - (a % m) \in {b - a, b - a - m, b - a + m}
<1> DEFINE x == a % m
           y == b % m
<1>1. PICK q \in Int : a = q * m + x
  BY Divides
<1>2. PICK p \in Int : b = p * m + y
  BY Divides
<1>3. x \in 0..(m - 1) /\ y \in 0..(m - 1)
  BY Divides
<1> HIDE DEF x, y
<1>4. q * m \in Int /\ p * m \in Int /\ (p - q) * m = p * m - q * m
  BY Multiples
<1>5. (p - q) * m = (b - a) - (y - x)
  BY <1>1, <1>2, <1>3, <1>4
<1>6. (p - q) \in {-1, 0, 1}
  BY <1>3, <1>5, FewMultiples
<1>7. y - x \in {b - a, b - a - m, b - a + m}
  BY <1>3, <1>5, <1>6
<1> QED
  BY <1>7 DEF x, y

\* Numbers a multiple of m apart have the same remainder.
LEMMA SameClass ==
    ASSUME NEW m \in Nat \ {0}, NEW a \in Int, NEW b \in Int, NEW k \in Int, b = a + k * m
    PROVE  b % m = a % m
<1> DEFINE x == a % m
<1>1. PICK q \in Int : a = q * m + x
  BY Divides
<1>2. x \in 0..(m - 1)
  BY Divides
<1> HIDE DEF x
<1>3. b = (q + k) * m + x /\ q + k \in Int
  BY <1>1, <1>2, Multiples
<1>4. b % m = x
  BY <1>2, <1>3, Remainder
<1> QED
  BY <1>4 DEF x

\* What has the same remainder still has it when the same is added.
LEMMA AddSame ==
    ASSUME NEW m \in Nat \ {0}, NEW a \in Int, NEW b \in Int, a % m = b % m, NEW g \in Int
    PROVE  (a + g) % m = (b + g) % m
<1> DEFINE x == a % m
<1>1. PICK q \in Int : a = q * m + x
  BY Divides
<1>2. PICK p \in Int : b = p * m + x
  BY Divides
<1>3. x \in Int
  BY Divides
<1> HIDE DEF x
<1> DEFINE c == a + g
           d == b + g
           k == q - p
<1>4. c = d + k * m /\ k \in Int /\ c \in Int /\ d \in Int
  BY <1>1, <1>2, <1>3, Multiples
<1> HIDE DEF c, d, k
<1>5. c % m = d % m
  BY <1>4, SameClass
<1> QED
  BY <1>5 DEF c, d

\* A set of natural numbers has a least one.
LEMMA LeastNatural ==
    ASSUME NEW T \in SUBSET Nat, T # {}
    PROVE  \E x \in T : \A y \in T : x <= y
<1> DEFINE Less == {ss \in Nat \X Nat : ss[1] < ss[2]}
<1>1. OpToRel(<, Nat) = Less
  BY Zenon DEF OpToRel
<1>2. IsWellFoundedOn(Less, Nat)
  BY <1>1, NatLessThanWellFounded, Zenon
<1> HIDE DEF Less
<1>3. PICK x \in T : \A y \in T : ~(<<y, x>> \in Less)
  BY <1>2, WFMin
<1>4. ASSUME NEW y \in T PROVE x <= y
  <2>1. <<y, x>> \in Nat \X Nat /\ <<y, x>>[1] = y /\ <<y, x>>[2] = x
    OBVIOUS
  <2>2. ~(y < x)
    BY <1>3, <2>1 DEF Less
  <2> QED
    BY <2>2
<1> QED
  BY <1>4

-----------------------------------------------------------------------------
(* The jitter buffer and the outgoing stream                               *)

\* By how much the packets are ahead of their numbers.
Offset == newest - (jbCycles + jbLast)

\* What TranscoderTypeOK leaves open: the statistics are a record.
StreamTypes ==
    /\ TranscoderTypeOK
    /\ jbStats \in [received : Nat, lost : Nat, duplicates : Nat, late : Nat,
                    base : Int \cup {Absent}, max : Int]
    /\ newest \in Nat \cup {Absent}

\* Nothing has arrived yet.
StreamFresh ==
    /\ newest = Absent =>
           jbLast = Absent /\ pulled = Absent /\ chunks = 0 /\ egNoted = Absent /\ egSeq = Modulus - 2
    /\ jbLast = Absent => Numbers = {} /\ jbNext = Absent /\ jbCycles = 0
    /\ jbLast # Absent => newest # Absent /\ direction \notin PeerDirections
    /\ direction \in WebDirections /\ newest # Absent => jbLast # Absent

\* The number of a packet is the packet less the offset: those of the last one, of those
\* in the buffer and of the one in hand.
NumbersFollow ==
    jbLast # Absent => jbLast = Raw(newest) /\ \A n \in Numbers : jbQueue[n] - n = Offset

\* Pulling goes upwards.
PullsUpwards ==
    /\ jbNext = Absent => jbPulled = 0 /\ jbStats.lost = 0
    /\ jbNext # Absent => jbFirst # Absent /\ \A n \in Numbers : n >= jbNext

\* So does what is sent on.
NotesUpwards ==
    direction \in WebDirections =>
        /\ pulled # Absent => jbNext # Absent /\ pulled = jbNext - 1 + Offset
        /\ egNoted # Absent => jbNext # Absent /\ egNoted <= jbNext - 1 + Offset
                               /\ (pulled # Absent => egNoted < pulled)

\* The last number noted is that of the last packet noted.
NotesAgree ==
    /\ egNoted = Absent => egIngress = Absent
    /\ egNoted # Absent => egIngress = Raw(egNoted) /\ egStart # Absent
    /\ direction = "ngn_to_web" => chunks = 0 /\ (egNoted = Absent => egSeq = Modulus - 2)

StreamInv ==
    /\ StreamTypes /\ StreamFresh /\ NumbersFollow /\ PullsUpwards /\ NotesUpwards /\ NotesAgree
    /\ LossAccounted /\ EgressMirrorsIngress

\* A number on the wire.
LEMMA RawType == \A i \in Int : Raw(i) \in 0..(Modulus - 1) /\ Modulus \in Nat \ {0}
<1>1. Modulus \in Nat \ {0}
  BY JitterAssumption
<1> QED
  BY <1>1, Divides DEF Raw

\* extend_seq recovers the number of a packet within the window, and follows the newest.
LEMMA ExtendsRight ==
    ASSUME StreamInv, jbLast # Absent, NEW i \in Nat, Arrivable(i), Tracks(Raw(i)),
           newest' = IF newest = Absent THEN i ELSE IF i > newest THEN i ELSE newest
    PROVE  /\ Extended(Raw(i)) = i - Offset
           /\ jbLast' # Absent /\ jbLast' = Raw(newest') /\ Offset' = Offset
           /\ jbCycles' \in Nat
<1> DEFINE r == Raw(i)
           s == Raw(newest)
<1>1. newest \in Nat /\ jbLast = s /\ jbCycles \in Nat /\ Absent \notin Int
  BY JitterAssumption DEF StreamInv, StreamTypes, StreamFresh, NumbersFollow, TranscoderTypeOK, JitterTypeOK
<1>2. r \in 0..(Modulus - 1) /\ s \in 0..(Modulus - 1)
  BY <1>1, RawType
<1>3. i - newest <= Window /\ newest - i < Window /\ Window \in Nat /\ Modulus \in Nat /\ 2 * Window < Modulus
  BY <1>1, JitterAssumption DEF Arrivable
<1>4. r - s \in {i - newest, i - newest - Modulus, i - newest + Modulus}
  <2>1. Modulus \in Nat \ {0} /\ i \in Int /\ newest \in Int /\ i - newest < Modulus /\ newest - i < Modulus
    BY <1>1, <1>3
  <2> QED
    BY <2>1, Wraps DEF Raw
<1>5. newest' = IF i > newest THEN i ELSE newest
  BY <1>1
<1>6. /\ jbLast' = IF r - s < -Window \/ r - s \in 1..Window THEN r ELSE s
      /\ jbCycles' = IF r - s < -Window THEN jbCycles + Modulus ELSE jbCycles
  BY <1>1 DEF Tracks, Ahead
<1>7. Extended(r) = IF r - s < -Window THEN jbCycles + Modulus + r
                    ELSE IF r - s > Window THEN jbCycles - Modulus + r ELSE jbCycles + r
  BY <1>1 DEF Extended, Ahead
<1>8. Offset = newest - (jbCycles + s) /\ Offset' = newest' - (jbCycles' + jbLast')
  BY <1>1 DEF Offset
<1>9. jbLast' = IF i > newest THEN r ELSE s
  <2> HIDE DEF r, s
  <2> QED
    BY <1>1, <1>2, <1>3, <1>4, <1>6
<1>10. jbLast' = Raw(newest')
  BY <1>5, <1>9
<1> HIDE DEF r, s
<1>11. Extended(r) = i - Offset /\ Offset' = Offset /\ jbCycles' \in Nat
  BY <1>1, <1>2, <1>3, <1>4, <1>5, <1>6, <1>7, <1>8, <1>9
<1> QED
  BY <1>1, <1>2, <1>9, <1>10, <1>11 DEF r

\* push: the packet gets its number, whichever of the three ways it goes.
LEMMA PushNumbers ==
    ASSUME StreamInv, NEW i \in Nat, Arrivable(i), Push(i), newest # Absent => jbLast # Absent
    PROVE  /\ jbLast' # Absent /\ newest' # Absent /\ newest' \in Nat /\ NumbersFollow'
           /\ jbLast' \in 0..(Modulus - 1) /\ jbCycles' \in Nat
           /\ jbLast # Absent => Offset' = Offset
           /\ Extended(Raw(i)) \in Int
           /\ \A m \in Numbers' : m \in Int /\ jbQueue'[m] \in Nat
           /\ \A m \in Numbers' : m \in Numbers \/ (jbNext # Absent => m >= jbNext)
<1> DEFINE n == Extended(Raw(i))
<1>1. Raw(i) \in 0..(Modulus - 1) /\ Absent \notin Int
  BY RawType, JitterAssumption
<1>2. /\ Tracks(Raw(i))
      /\ newest' = IF newest = Absent THEN i ELSE IF i > newest THEN i ELSE newest
      /\ \/ UNCHANGED jbQueue
         \/ /\ ~(jbNext # Absent /\ n < jbNext)
            /\ jbQueue' = [m \in Numbers \cup {n} |-> IF m = n THEN i ELSE jbQueue[m]]
  BY DEF Push
<1>3. newest' \in Nat
  BY <1>2 DEF StreamInv, StreamTypes
<1>4. /\ n \in Int /\ jbLast' = Raw(newest') /\ n = i - Offset' /\ jbCycles' \in Nat
      /\ jbLast # Absent => Offset' = Offset
      /\ \A m \in Numbers : jbQueue[m] - m = Offset'
  <2>1. CASE jbLast # Absent
    <3>1. n = i - Offset /\ jbLast' = Raw(newest') /\ Offset' = Offset /\ jbCycles' \in Nat
      BY <1>2, <2>1, ExtendsRight
    <3>2. Offset \in Int
      BY <2>1 DEF Offset, StreamInv, StreamTypes, StreamFresh, TranscoderTypeOK, JitterTypeOK
    <3> QED
      BY <2>1, <3>1, <3>2 DEF StreamInv, NumbersFollow
  <2>2. CASE jbLast = Absent
    <3>1. jbCycles = 0 /\ Numbers = {} /\ newest = Absent
      BY <2>2 DEF StreamInv, StreamFresh
    <3>2. n = Raw(i) /\ jbLast' = Raw(i) /\ jbCycles' = 0 /\ newest' = i
      BY <1>2, <2>2, <3>1 DEF Extended, Tracks
    <3> QED
      BY <1>1, <2>2, <3>1, <3>2 DEF Offset
  <2> QED
    BY <2>1, <2>2
<1>5. jbLast' \in 0..(Modulus - 1) /\ jbLast' # Absent /\ newest' # Absent
  BY <1>1, <1>3, <1>4, RawType
<1>6. Offset' \in Int
  BY <1>3, <1>4, <1>5 DEF Offset
<1>7. \A m \in Numbers : m \in Int /\ jbQueue[m] \in Nat
  BY DEF StreamInv, StreamTypes, TranscoderTypeOK, JitterTypeOK
<1> HIDE DEF n
<1>8. CASE UNCHANGED jbQueue
  BY <1>3, <1>4, <1>5, <1>7, <1>8 DEF Numbers, NumbersFollow, n
<1>9. CASE /\ ~(jbNext # Absent /\ n < jbNext)
           /\ jbQueue' = [m \in Numbers \cup {n} |-> IF m = n THEN i ELSE jbQueue[m]]
  <2>1. Numbers' = Numbers \cup {n} /\ \A m \in Numbers' : jbQueue'[m] = IF m = n THEN i ELSE jbQueue[m]
    BY <1>9 DEF Numbers
  <2>2. \A m \in Numbers' : m \in Int /\ jbQueue'[m] \in Nat /\ jbQueue'[m] - m = Offset'
    BY <1>4, <1>6, <1>7, <2>1
  <2>3. jbNext # Absent => n >= jbNext
    BY <1>4, <1>9 DEF StreamInv, StreamTypes, TranscoderTypeOK, JitterTypeOK
  <2>4. NumbersFollow'
    BY <1>4, <2>2 DEF NumbersFollow
  <2> QED
    BY <1>3, <1>4, <1>5, <2>1, <2>2, <2>3, <2>4 DEF n
<1> QED
  BY <1>2, <1>8, <1>9

\* pull takes the lowest number there is, and starts from where it stopped.
LEMMA PullsLowest ==
    ASSUME StreamInv, PullNumber # Absent
    PROVE  /\ PullNumber \in Numbers /\ PullNumber \in Int /\ \A m \in Numbers : PullNumber <= m
           /\ jbNext = Absent => Start = PullNumber
           /\ jbNext # Absent => Start = jbNext /\ jbNext <= PullNumber
<1>1. \A m \in Numbers : m \in Int /\ jbQueue[m] \in Nat
  BY DEF StreamInv, StreamTypes, TranscoderTypeOK, JitterTypeOK
<1>2. jbNext # Absent => jbNext \in Int /\ \A m \in Numbers : m >= jbNext
  BY DEF StreamInv, StreamTypes, TranscoderTypeOK, JitterTypeOK, PullsUpwards
<1>3. ASSUME Numbers # {} PROVE Lowest \in Numbers /\ \A m \in Numbers : Lowest <= m
  <2> DEFINE T == {jbQueue[m] : m \in Numbers}
  <2>1. jbLast # Absent /\ Offset \in Int /\ \A m \in Numbers : jbQueue[m] = m + Offset
    <3>1. jbLast # Absent
      BY <1>3 DEF StreamInv, StreamFresh
    <3>2. Offset \in Int
      BY <3>1 DEF Offset, StreamInv, StreamTypes, StreamFresh, TranscoderTypeOK, JitterTypeOK
    <3> QED
      BY <1>1, <3>1, <3>2 DEF StreamInv, NumbersFollow
  <2>2. T \in SUBSET Nat /\ T # {}
    BY <1>1, <1>3
  <2>3. PICK x \in T : \A y \in T : x <= y
    BY <2>2, LeastNatural
  <2>4. PICK k \in Numbers : x = jbQueue[k]
    BY <2>3
  <2>5. \A m \in Numbers : k <= m
    <3>1. ASSUME NEW m \in Numbers PROVE k <= m
      <4>1. jbQueue[k] <= jbQueue[m]
        BY <2>3, <2>4
      <4> QED
        BY <1>1, <2>1, <4>1
    <3> QED
      BY <3>1
  <2> QED
    BY <2>4, <2>5, Zenon DEF Lowest
<1>4. ASSUME ~(Cardinality(Numbers) < Depth) PROVE Numbers # {}
  <2>1. Cardinality({}) = 0 /\ 0 < Depth
    BY FS_EmptySet, JitterAssumption
  <2> QED
    BY <1>4, <2>1
<1>5. CASE jbNext = Absent
  <2>1. Start = Lowest /\ Numbers # {}
    BY <1>4, <1>5 DEF PullNumber, Start
  <2> QED
    BY <1>1, <1>3, <1>5, <2>1 DEF PullNumber
<1>6. CASE jbNext # Absent
  <2>1. Start = jbNext
    BY <1>6 DEF Start
  <2>2. CASE jbNext \in Numbers
    BY <1>1, <1>2, <1>6, <2>1, <2>2 DEF PullNumber
  <2>3. CASE jbNext \notin Numbers
    <3>1. Numbers # {} /\ PullNumber = Lowest
      BY <1>4, <1>6, <2>1, <2>3 DEF PullNumber
    <3> QED
      BY <1>1, <1>2, <1>3, <1>6, <2>1, <3>1
  <2> QED
    BY <2>2, <2>3
<1> QED
  BY <1>5, <1>6

\* What the loops do outside of the buffer leaves its books alone.
LEMMA BufferKept ==
    ASSUME StreamInv, UNCHANGED jbVars, StreamTypes'
    PROVE  NumbersFollow' /\ PullsUpwards' /\ LossAccounted' /\ UNCHANGED <<Numbers, Offset>>
  BY DEF StreamInv, jbVars, NumbersFollow, PullsUpwards, LossAccounted, Offset, Numbers

\* A loop starts with nothing in hand.
LEMMA LoopStarts ==
    ASSUME StreamInv, NEW d \in Directions, StartLoop(d) \/ StartPeerLoop(d)
    PROVE  StreamInv'
<1>1. /\ newest = Absent /\ direction' = d /\ UNCHANGED <<jbVars, egVars, pulled, accum, chunks>>
      /\ toPeer' \in BOOLEAN /\ direct' \in BOOLEAN
  BY DEF StartLoop, StartPeerLoop, StreamInv, StreamTypes, TranscoderTypeOK
<1>2. jbLast = Absent /\ pulled = Absent /\ chunks = 0 /\ egNoted = Absent /\ egSeq = Modulus - 2 /\ egIngress = Absent
  BY <1>1 DEF StreamInv, StreamFresh, NotesAgree
<1>3. StreamTypes'
  BY <1>1 DEF StreamInv, StreamTypes, TranscoderTypeOK, JitterTypeOK, jbVars, egVars, Numbers
<1>4. StreamFresh'
  BY <1>1, <1>2 DEF StreamInv, StreamFresh, jbVars, egVars, Numbers
<1>5. NotesUpwards' /\ NotesAgree' /\ EgressMirrorsIngress'
  BY <1>1, <1>2 DEF NotesUpwards, NotesAgree, EgressMirrorsIngress, egVars
<1>6. NumbersFollow' /\ PullsUpwards' /\ LossAccounted'
  BY <1>1, <1>3, BufferKept
<1> QED
  BY <1>3, <1>4, <1>5, <1>6 DEF StreamInv

\* A loop that is over sends nothing on.
LEMMA LoopStops ==
    ASSUME StreamInv, StopLoop \/ StopPeerLoop \/ CodecMissing
    PROVE  StreamInv'
<1> USE DEF StreamInv
<1>1. /\ direction' = "Off" /\ UNCHANGED <<egVars, direct, pulled, toPeer, accum, chunks>>
      /\ \/ newest # Absent /\ UNCHANGED jbVars
         \/ newest = Absent /\ newest' = FirstIndex
            /\ UNCHANGED <<jbQueue, jbNext, jbLast, jbCycles, jbFirst, jbStats, jbPulled>>
  BY DEF StopLoop, StopPeerLoop, CodecMissing
<1>2. FirstIndex \in Nat /\ Absent \notin Int
  BY JitterAssumption
<1>3. StreamTypes'
  BY <1>1, <1>2 DEF StreamTypes, TranscoderTypeOK, JitterTypeOK, jbVars, egVars, Numbers
<1>4. StreamFresh' /\ NumbersFollow' /\ PullsUpwards' /\ LossAccounted'
  BY <1>1, <1>2 DEF StreamFresh, NumbersFollow, PullsUpwards, LossAccounted, Offset, jbVars, egVars, Numbers,
     PeerDirections, WebDirections
<1>5. NotesUpwards' /\ NotesAgree' /\ EgressMirrorsIngress'
  BY <1>1, <1>2 DEF NotesUpwards, NotesAgree, EgressMirrorsIngress, WebDirections, egVars
<1> QED
  BY <1>3, <1>4, <1>5

\* A packet arrives at the buffer.
LEMMA Receives ==
    ASSUME StreamInv, NEW i \in FirstIndex..LastIndex, Receive(i)
    PROVE  StreamInv'
<1>0. i \in Nat /\ FirstIndex \in Nat /\ Absent \notin Int
  BY JitterAssumption
<1>1. /\ direction \in WebDirections /\ pulled = Absent /\ chunks = 0 /\ Arrivable(i) /\ Push(i)
      /\ egSource' \in {egSource, "Rotated"}
      /\ UNCHANGED <<egSeq, egTs, egIngress, egStart, egNoted, egAnchor, egSent, egClamped, direction, direct,
                     pulled, toPeer, accum, chunks, jbNext, jbFirst, jbPulled>>
  BY DEF Receive, Buffered, MayCollide, Push
<1>2. newest # Absent => jbLast # Absent
  BY <1>1 DEF StreamInv, StreamFresh
<1>3. /\ jbLast' # Absent /\ newest' # Absent /\ newest' \in Nat /\ NumbersFollow'
      /\ jbLast' \in 0..(Modulus - 1) /\ jbCycles' \in Nat
      /\ jbLast # Absent => Offset' = Offset
      /\ Extended(Raw(i)) \in Int
      /\ \A m \in Numbers' : m \in Int /\ jbQueue'[m] \in Nat
      /\ \A m \in Numbers' : m \in Numbers \/ (jbNext # Absent => m >= jbNext)
  BY <1>0, <1>1, <1>2, PushNumbers
<1>4. jbStats' \in [received : Nat, lost : Nat, duplicates : Nat, late : Nat, base : Int \cup {Absent}, max : Int]
      /\ jbStats'.lost = jbStats.lost
  <2> DEFINE n == Extended(Raw(i))
             seen == [jbStats EXCEPT !.base = IF @ = Absent THEN n ELSE @,
                                     !.max = IF jbStats.base = Absent \/ n > @ THEN n ELSE @]
             Stats == [received : Nat, lost : Nat, duplicates : Nat, late : Nat, base : Int \cup {Absent}, max : Int]
  <2>1. /\ n \in Int /\ jbStats \in Stats
        /\ jbStats' \in {[seen EXCEPT !.late = @ + 1], [seen EXCEPT !.duplicates = @ + 1], [seen EXCEPT !.received = @ + 1]}
    BY <1>1, <1>3 DEF Push, StreamInv, StreamTypes
  <2> HIDE DEF n
  <2>2. seen \in Stats /\ seen.lost = jbStats.lost
    BY <2>1
  <2> HIDE DEF seen
  <2>3. jbStats' \in Stats /\ jbStats'.lost = seen.lost
    BY <2>1, <2>2
  <2> QED
    BY <2>2, <2>3
<1>5. StreamTypes'
  <2>1. JitterTypeOK'
    BY <1>0, <1>1, <1>3, <1>4 DEF StreamInv, StreamTypes, TranscoderTypeOK, JitterTypeOK
  <2> QED
    BY <1>1, <1>3, <1>4, <2>1 DEF StreamInv, StreamTypes, TranscoderTypeOK
<1>6. StreamFresh' /\ PullsUpwards' /\ LossAccounted'
  BY <1>1, <1>3, <1>4 DEF StreamInv, StreamFresh, PullsUpwards, LossAccounted, WebDirections, PeerDirections
<1>7. NotesUpwards'
  <2>1. egNoted # Absent => jbLast # Absent
    BY <1>1 DEF StreamInv, NotesUpwards, StreamFresh
  <2> QED
    BY <1>1, <1>3, <2>1 DEF StreamInv, NotesUpwards
<1>8. NotesAgree' /\ EgressMirrorsIngress'
  BY <1>1 DEF StreamInv, NotesAgree, EgressMirrorsIngress
<1> QED
  BY <1>3, <1>5, <1>6, <1>7, <1>8 DEF StreamInv

\* Without a buffer a packet is in hand at once.
LEMMA ReceivesPeer ==
    ASSUME StreamInv, NEW i \in FirstIndex..LastIndex, ReceivePeer(i)
    PROVE  StreamInv'
<1>0. i \in Nat /\ FirstIndex \in Nat /\ Absent \notin Int
  BY JitterAssumption
<1>1. /\ direction \in PeerDirections /\ pulled = Absent /\ chunks = 0
      /\ egSource' \in {egSource, "Rotated"} /\ pulled' = i /\ newest' = i
      /\ UNCHANGED <<jbQueue, jbNext, jbLast, jbCycles, jbFirst, jbStats, jbPulled, egSeq, egTs,
                     egIngress, egStart, egNoted, egAnchor, egSent, egClamped, direction, direct, toPeer,
                     accum, chunks>>
  BY DEF ReceivePeer, MayCollide
<1>2. jbLast = Absent /\ direction \notin WebDirections /\ direction # "ngn_to_web"
  BY <1>1 DEF StreamInv, StreamFresh, PeerDirections, WebDirections
<1>3. StreamTypes'
  BY <1>0, <1>1 DEF StreamInv, StreamTypes, TranscoderTypeOK, JitterTypeOK, Numbers
<1>4. StreamFresh' /\ NumbersFollow' /\ PullsUpwards' /\ LossAccounted'
  BY <1>0, <1>1, <1>2 DEF StreamInv, StreamFresh, NumbersFollow, PullsUpwards, LossAccounted, Numbers
<1>5. NotesUpwards' /\ NotesAgree' /\ EgressMirrorsIngress'
  BY <1>1, <1>2 DEF StreamInv, NotesUpwards, NotesAgree, EgressMirrorsIngress
<1> QED
  BY <1>3, <1>4, <1>5 DEF StreamInv

\* The tick takes a packet out of the buffer.
LEMMA Ticks ==
    ASSUME StreamInv, PullTick
    PROVE  StreamInv'
<1> DEFINE n == PullNumber
<1>0. Absent \notin Int
  BY JitterAssumption
<1>1. /\ direction \in WebDirections /\ pulled = Absent /\ chunks = 0 /\ n # Absent
      /\ jbQueue' = [m \in Numbers \ {n} |-> jbQueue[m]]
      /\ jbFirst' = IF jbNext = Absent THEN n ELSE jbFirst
      /\ jbNext' = n + 1 /\ jbPulled' = jbPulled + 1
      /\ jbStats' = [jbStats EXCEPT !.lost = @ + (n - Start)]
      /\ pulled' = jbQueue[n]
      /\ UNCHANGED <<jbLast, jbCycles, newest, egVars, direction, direct, toPeer, accum, chunks>>
  BY DEF PullTick, Pulls, Buffered
<1>2. /\ n \in Numbers /\ n \in Int /\ \A m \in Numbers : n <= m
      /\ jbNext = Absent => Start = n
      /\ jbNext # Absent => Start = jbNext /\ jbNext <= n
  BY <1>1, PullsLowest
<1> HIDE DEF n
<1>3. jbLast # Absent /\ newest # Absent /\ Offset \in Int /\ jbQueue[n] = n + Offset /\ jbQueue[n] \in Nat
  <2>1. jbLast # Absent /\ newest # Absent
    BY <1>2 DEF StreamInv, StreamFresh
  <2>2. Offset \in Int
    BY <2>1 DEF Offset, StreamInv, StreamTypes, TranscoderTypeOK, JitterTypeOK
  <2> QED
    BY <1>2, <2>1, <2>2 DEF StreamInv, NumbersFollow, StreamTypes, TranscoderTypeOK, JitterTypeOK
<1>4. Numbers' = Numbers \ {n} /\ (\A m \in Numbers' : jbQueue'[m] = jbQueue[m]) /\ Offset' = Offset
  BY <1>1 DEF Numbers, Offset
<1>5. n - Start \in Nat /\ Start \in Int
  BY <1>2 DEF StreamInv, StreamTypes, TranscoderTypeOK, JitterTypeOK
<1>6. /\ jbStats' \in [received : Nat, lost : Nat, duplicates : Nat, late : Nat, base : Int \cup {Absent}, max : Int]
      /\ jbStats'.lost = jbStats.lost + (n - Start)
  <2> DEFINE d == n - Start
  <2>1. jbStats' = [jbStats EXCEPT !.lost = @ + d] /\ d \in Nat
    BY <1>1, <1>5
  <2> HIDE DEF d
  <2>2. jbStats \in [received : Nat, lost : Nat, duplicates : Nat, late : Nat, base : Int \cup {Absent}, max : Int]
    BY DEF StreamInv, StreamTypes
  <2>3. /\ jbStats' \in [received : Nat, lost : Nat, duplicates : Nat, late : Nat, base : Int \cup {Absent}, max : Int]
        /\ jbStats'.lost = jbStats.lost + d
    BY <2>1, <2>2
  <2> QED
    BY <2>3 DEF d
<1>7. StreamTypes'
  <2>1. JitterTypeOK'
    BY <1>0, <1>1, <1>2, <1>4, <1>6 DEF StreamInv, StreamTypes, TranscoderTypeOK, JitterTypeOK
  <2> QED
    BY <1>1, <1>3, <1>6, <2>1 DEF StreamInv, StreamTypes, TranscoderTypeOK, egVars
<1>8. StreamFresh'
  BY <1>1, <1>3 DEF StreamInv, StreamFresh, WebDirections, PeerDirections, egVars
<1>9. NumbersFollow'
  BY <1>1, <1>4 DEF StreamInv, NumbersFollow
<1>10. PullsUpwards'
  <2>1. \A m \in Numbers' : m >= n + 1
    BY <1>2, <1>4 DEF StreamInv, StreamTypes, TranscoderTypeOK, JitterTypeOK
  <2> QED
    BY <1>0, <1>1, <1>2, <2>1 DEF StreamInv, PullsUpwards
<1>11. LossAccounted'
  <2>1. jbStats.lost \in Nat /\ jbPulled \in Nat /\ jbFirst \in Int \cup {Absent} /\ jbNext \in Int \cup {Absent}
    BY DEF StreamInv, StreamTypes, TranscoderTypeOK, JitterTypeOK
  <2>2. CASE jbNext = Absent
    BY <1>1, <1>2, <1>5, <1>6, <2>1, <2>2 DEF StreamInv, PullsUpwards, LossAccounted
  <2>3. CASE jbNext # Absent
    <3>1. jbFirst \in Int /\ jbFirst' = jbFirst /\ jbNext \in Int /\ Start = jbNext
          /\ jbNext - jbFirst = jbPulled + jbStats.lost
      BY <1>1, <1>2, <2>1, <2>3 DEF StreamInv, PullsUpwards, LossAccounted
    <3> QED
      BY <1>1, <1>2, <1>6, <2>1, <3>1 DEF LossAccounted
  <2> QED
    BY <2>2, <2>3
<1>12. NotesUpwards'
  <2>1. egNoted # Absent => jbNext # Absent /\ egNoted <= jbNext - 1 + Offset /\ egNoted \in Nat /\ jbNext \in Int
    BY <1>1 DEF StreamInv, NotesUpwards, StreamTypes, TranscoderTypeOK, JitterTypeOK
  <2>2. egNoted # Absent => egNoted < n + Offset
    BY <1>2, <1>3, <2>1
  <2>3. pulled' = jbNext' - 1 + Offset' /\ jbNext' # Absent /\ egNoted' = egNoted /\ pulled' = n + Offset
    BY <1>0, <1>1, <1>2, <1>3, <1>4 DEF egVars
  <2>4. egNoted # Absent => egNoted <= n + Offset
    BY <1>2, <1>3, <2>1, <2>2
  <2> QED
    BY <1>2, <1>3, <2>2, <2>3, <2>4 DEF NotesUpwards
<1>13. NotesAgree' /\ EgressMirrorsIngress'
  BY <1>1 DEF StreamInv, NotesAgree, EgressMirrorsIngress, egVars
<1> QED
  BY <1>7, <1>8, <1>9, <1>10, <1>11, <1>12, <1>13 DEF StreamInv

\* NoteIngress in the types: what the stream knows of the packets that came in.
LEMMA NotesType ==
    ASSUME StreamTypes, NEW i \in Nat, NoteIngress(i)
    PROVE  /\ egIngress' \in 0..(Modulus - 1) /\ egIngress' # Absent /\ egNoted' = i
           /\ egStart' \in Nat \cup {Absent} /\ egClamped' \in BOOLEAN
           /\ egIngress # Absent => egStart' = egStart
           /\ egIngress = Absent => egStart' = i
<1>1. Raw(i) \in 0..(Modulus - 1) /\ Absent \notin Int
  BY RawType, JitterAssumption
<1>2. egClamped' \in BOOLEAN
  BY DEF NoteIngress
<1> QED
  BY <1>1, <1>2 DEF NoteIngress, StreamTypes, TranscoderTypeOK

\* The outgoing number wraps.
LEMMA SeqType ==
    ASSUME NEW s \in Int, NEW k \in Int
    PROVE  ((s + k) % Modulus) \in 0..(Modulus - 1) /\ (Modulus - 2) \in 0..(Modulus - 1)
<1>1. Modulus \in Nat \ {0} /\ Modulus - 2 >= 0 /\ s + k \in Int
  BY JitterAssumption
<1>2. \A j \in Int : (j % Modulus) \in 0..(Modulus - 1)
  BY <1>1, Divides
<1> QED
  BY <1>1, <1>2

\* A gap is one number at least.
LEMMA GapType ==
    ASSUME StreamTypes, NEW i \in Nat
    PROVE  Gap(i) \in Nat \ {0}
<1>1. egIngress # Absent => RawGap(i) \in Nat
  <2>1. Raw(i) \in Int /\ Modulus \in Nat \ {0}
    BY RawType
  <2>2. egIngress # Absent => egIngress \in Int
    BY DEF StreamTypes, TranscoderTypeOK
  <2>3. egIngress # Absent => Raw(i) - egIngress \in Int
    BY <2>1, <2>2
  <2>4. \A j \in Int : (j % Modulus) \in Nat
    BY <2>1, Divides
  <2> QED
    BY <2>3, <2>4 DEF RawGap
<1> QED
  BY <1>1, TranscoderAssumption DEF Gap

\* The gap is the true one for a packet at most MaxGap later than the last one noted.
LEMMA GapIsTrue ==
    ASSUME StreamTypes, NotesAgree, NEW i \in Nat, egNoted # Absent, egNoted < i, ~(i - egNoted > MaxGap)
    PROVE  Gap(i) = i - egNoted /\ (Raw(i) - egIngress) \in {Gap(i), Gap(i) - Modulus, Gap(i) + Modulus}
<1> DEFINE g == i - egNoted
           w == Raw(i) - Raw(egNoted)
<1>1. /\ egNoted \in Nat /\ egIngress = Raw(egNoted) /\ egIngress # Absent
      /\ Modulus \in Nat \ {0} /\ MaxGap \in Nat /\ MaxGap < Modulus
  <2>1. egNoted \in Nat /\ egIngress = Raw(egNoted) /\ Absent \notin Int
    BY JitterAssumption DEF StreamTypes, TranscoderTypeOK, NotesAgree
  <2> QED
    BY <2>1, RawType, TranscoderAssumption
<1>2. g \in 1..MaxGap /\ g \in 0..(Modulus - 1) /\ g \in Int
  BY <1>1
<1>3. w \in {g, g - Modulus, g + Modulus}
  <2>1. i \in Int /\ egNoted \in Int /\ i - egNoted < Modulus /\ egNoted - i < Modulus
    BY <1>1, <1>2
  <2> QED
    BY <1>1, <2>1, Wraps DEF Raw
<1> HIDE DEF g, w
<1>4. w % Modulus = g
  <2>1. \E k \in Int : w = k * Modulus + g
    <3>1. w = 0 * Modulus + g \/ w = (-1) * Modulus + g \/ w = 1 * Modulus + g
      BY <1>1, <1>2, <1>3
    <3> QED
      BY <3>1
  <2>2. w \in Int
    BY <1>1, <1>2, <1>3
  <2> QED
    BY <1>1, <1>2, <2>1, <2>2, Remainder
<1>5. RawGap(i) = g
  BY <1>1, <1>4 DEF RawGap, w
<1>6. Gap(i) = g
  BY <1>1, <1>2, <1>5 DEF Gap
<1> QED
  BY <1>1, <1>3, <1>6 DEF g, w

\* A packet is sent on: the numbers move on by as much as the packets did.
LEMMA MirrorsOn ==
    ASSUME StreamInv, direction = "ngn_to_web", pulled # Absent, NoteIngress(pulled),
           egSeq' = (egSeq + (Gap(pulled) - 1) + 1) % Modulus, UNCHANGED direction
    PROVE  EgressMirrorsIngress'
<1> DEFINE i == pulled
           A == egSeq - (Modulus - 2)
           B == egIngress - Raw(egStart) + 1
<1>0. i \in Nat /\ Modulus \in Nat \ {0} /\ egSeq \in Int /\ StreamTypes /\ Absent \notin Int
  BY RawType, JitterAssumption DEF StreamInv, StreamTypes, TranscoderTypeOK
<1>1. Raw(i) \in Int
  BY <1>0, RawType
<1>2. CASE egNoted = Absent
  <2>1. egIngress = Absent /\ egSeq = Modulus - 2
    BY <1>2 DEF StreamInv, NotesAgree
  <2>2. Gap(i) = 1 /\ egIngress' = Raw(i) /\ egStart' = i
    BY <2>1 DEF Gap, NoteIngress
  <2>3. egSeq' = Modulus - 1
    <3>1. egSeq' = (Modulus - 1) % Modulus
      BY <1>0, <2>1, <2>2
    <3>2. Modulus - 1 = 0 * Modulus + (Modulus - 1) /\ (Modulus - 1) \in 0..(Modulus - 1) /\ Modulus - 1 \in Int
      BY <1>0
    <3> QED
      BY <1>0, <3>1, <3>2, Remainder
  <2>4. egSeq' - (Modulus - 2) = 1 /\ egIngress' - Raw(egStart') + 1 = 1
    BY <1>0, <1>1, <2>2, <2>3
  <2> QED
    BY <2>4 DEF EgressMirrorsIngress
<1>3. CASE egNoted # Absent /\ ~egClamped'
  <2>1. ~egClamped /\ ~(i - egNoted > MaxGap) /\ egIngress' = Raw(i)
    BY <1>3 DEF NoteIngress
  <2>2. egNoted < i /\ egIngress = Raw(egNoted) /\ egStart # Absent /\ egNoted \in Nat /\ egStart \in Nat
    BY <1>3 DEF StreamInv, NotesUpwards, NotesAgree, WebDirections, StreamTypes, TranscoderTypeOK
  <2>3. egIngress \in Int /\ egIngress # Absent /\ Raw(egStart) \in Int
    BY <1>0, <2>2, RawType
  <2>4. egStart' = egStart
    BY <2>3 DEF NoteIngress
  <2>5. A % Modulus = B % Modulus /\ A \in Int /\ B \in Int
    BY <1>0, <2>1, <2>3 DEF StreamInv, EgressMirrorsIngress
  <2> DEFINE g == Gap(i)
  <2>6. g \in Int /\ (Raw(i) - egIngress) \in {g, g - Modulus, g + Modulus}
    <3>1. g = i - egNoted /\ (Raw(i) - egIngress) \in {g, g - Modulus, g + Modulus}
      BY <1>0, <1>3, <2>1, <2>2, GapIsTrue DEF StreamInv
    <3> QED
      BY <1>0, <2>2, <3>1
  <2> HIDE DEF g
  <2>7. (A + g) % Modulus = (B + g) % Modulus
    <3> HIDE DEF A, B
    <3> QED
      BY <1>0, <2>5, <2>6, AddSame
  <2>8. (egSeq' - (Modulus - 2)) % Modulus = (A + g) % Modulus
    <3> DEFINE s == egSeq + g
               e == egSeq'
               X == e - (Modulus - 2)
               Y == A + g
    <3>1. s \in Int /\ e = s % Modulus
      BY <1>0, <2>6 DEF g
    <3>2. PICK q \in Int : s = q * Modulus + e
      BY <1>0, <3>1, Divides
    <3>3. e \in Int
      BY <1>0, <3>1, Divides
    <3>4. Y = s - (Modulus - 2) /\ Y \in Int /\ X \in Int
      BY <1>0, <2>6, <3>3
    <3> HIDE DEF s, e
    <3>5. Y = X + q * Modulus
      BY <1>0, <3>2, <3>3, <3>4
    <3> HIDE DEF X, Y
    <3>6. Y % Modulus = X % Modulus
      BY <1>0, <3>4, <3>5, SameClass
    <3> QED
      BY <3>6 DEF X, Y, e
  <2>9. (egIngress' - Raw(egStart') + 1) % Modulus = (B + g) % Modulus
    <3> DEFINE X == Raw(i) - Raw(egStart) + 1
               Y == B + g
    <3>1. X \in Int /\ Y \in Int /\ (X = Y + 0 * Modulus \/ X = Y + (-1) * Modulus \/ X = Y + 1 * Modulus)
      BY <1>0, <1>1, <2>3, <2>6
    <3>2. \E k \in Int : X = Y + k * Modulus
      BY <3>1
    <3> HIDE DEF X, Y
    <3>3. X % Modulus = Y % Modulus
      BY <1>0, <3>1, <3>2, SameClass
    <3> QED
      BY <2>1, <2>4, <3>3 DEF X, Y
  <2> QED
    BY <2>7, <2>8, <2>9 DEF EgressMirrorsIngress
<1>4. CASE egNoted # Absent /\ egClamped'
  BY <1>4 DEF EgressMirrorsIngress
<1> QED
  BY <1>2, <1>3, <1>4

\* RecordSent counts a packet whose timestamp has been used.
LEMMA SentType ==
    ASSUME StreamTypes, egTs' = egTs + 1, RecordSent
    PROVE  egTs' \in Nat /\ egSent' \in Nat /\ egSent' <= egTs' /\ egAnchor' \in Nat \cup {Absent}
  BY DEF StreamTypes, TranscoderTypeOK, RecordSent

\* The frames cut out of what is there.
LEMMA CutType ==
    ASSUME StreamTypes, toPeer' = toPeer, Accumulate
    PROVE  accum' \in 0..(FrameLen - 1) /\ chunks' \in Nat
<1>1. PICK d \in Durations : accum' = (accum + d) % FrameLen
                             /\ chunks' = IF toPeer THEN (accum + d) \div FrameLen ELSE 0
  BY DEF Accumulate
<1>2. FrameLen \in Nat \ {0} /\ accum + d \in Nat
  BY TranscoderAssumption DEF StreamTypes, TranscoderTypeOK
<1> DEFINE all == accum + d
<1> HIDE DEF all
<1>3. (all \div FrameLen) \in Nat /\ (all % FrameLen) \in 0..(FrameLen - 1)
  BY <1>2 DEF all
<1> QED
  BY <1>1, <1>3 DEF all

\* A packet that was in hand has been dealt with: it was noted, or neither it nor its number was.
LEMMA DealtWith ==
    ASSUME StreamInv, StreamTypes', UNCHANGED <<jbVars, direction>>, direction # "Off",
           pulled # Absent, pulled' = Absent, EgressMirrorsIngress',
           \/ NoteIngress(pulled)
           \/ UNCHANGED <<egIngress, egStart, egNoted, egSeq>>,
           direction = "ngn_to_web" => chunks' = 0
    PROVE  StreamInv'
<1>0. pulled \in Nat /\ newest # Absent
  BY DEF StreamInv, StreamTypes, TranscoderTypeOK, StreamFresh
<1>1. NumbersFollow' /\ PullsUpwards' /\ LossAccounted' /\ Numbers' = Numbers /\ Offset' = Offset
  BY BufferKept
<1>2. StreamFresh'
  BY <1>0, <1>1 DEF StreamInv, StreamFresh, jbVars
<1>3. CASE NoteIngress(pulled)
  <2>1. /\ egIngress' # Absent /\ egIngress' = Raw(pulled) /\ egNoted' = pulled
        /\ (egIngress # Absent => egStart' = egStart) /\ (egIngress = Absent => egStart' = pulled)
    BY <1>0, <1>3, NotesType DEF StreamInv, NoteIngress
  <2>2. egStart' # Absent
    BY <1>0, <2>1 DEF StreamInv, NotesAgree
  <2>3. NotesAgree'
    BY <1>0, <2>1, <2>2, JitterAssumption DEF StreamInv, NotesAgree
  <2>4. NotesUpwards'
    <3>1. direction \in WebDirections => jbNext \in Int /\ jbNext # Absent /\ pulled = jbNext - 1 + Offset
      BY DEF StreamInv, NotesUpwards, StreamTypes, TranscoderTypeOK, JitterTypeOK
    <3> QED
      BY <1>0, <1>1, <2>1, <3>1 DEF NotesUpwards, jbVars
  <2> QED
    BY <1>1, <1>2, <2>3, <2>4 DEF StreamInv
<1>4. CASE UNCHANGED <<egIngress, egStart, egNoted, egSeq>>
  <2>1. NotesAgree'
    BY <1>4 DEF StreamInv, NotesAgree
  <2>2. NotesUpwards'
    BY <1>1, <1>4 DEF StreamInv, NotesUpwards, jbVars
  <2> QED
    BY <1>1, <1>2, <2>1, <2>2 DEF StreamInv
<1> QED
  BY <1>3, <1>4

\* The types of the buffer are kept with it.
LEMMA JitterKept ==
    ASSUME StreamTypes, UNCHANGED jbVars
    PROVE  JitterTypeOK' /\ newest' \in Nat \cup {Absent}
           /\ jbStats' \in [received : Nat, lost : Nat, duplicates : Nat, late : Nat,
                            base : Int \cup {Absent}, max : Int]
  BY DEF StreamTypes, TranscoderTypeOK, JitterTypeOK, jbVars, Numbers

\* One packet in, one packet out.
LEMMA SendsFrame ==
    ASSUME StreamInv, SendFrame \/ SendPeerFrame
    PROVE  StreamInv'
<1>1. /\ pulled # Absent /\ pulled' = Absent /\ direction \in {"ngn_to_web", "ngn_to_peer"} /\ StreamTypes
      /\ UNCHANGED <<jbVars, egSource, direction, direct, toPeer, accum, chunks>>
  BY DEF SendFrame, SendPeerFrame, StreamInv
<1>2. pulled \in Nat /\ egSeq \in Int
  BY <1>1 DEF StreamTypes, TranscoderTypeOK
<1>3. CASE NoteIngress(pulled) /\ Advance(Gap(pulled) - 1)
           /\ (RecordSent \/ UNCHANGED <<egAnchor, egSent>>)
  <2>1. Gap(pulled) \in Nat
    BY <1>1, <1>2, GapType
  <2>2. egSeq' = (egSeq + (Gap(pulled) - 1) + 1) % Modulus /\ egTs' = egTs + 1
    BY <1>3 DEF Advance
  <2>3. egSeq' \in 0..(Modulus - 1)
    <3> DEFINE k == (Gap(pulled) - 1) + 1
    <3>1. k \in Int /\ egSeq' = (egSeq + k) % Modulus
      BY <1>2, <2>1, <2>2
    <3> HIDE DEF k
    <3> QED
      BY <1>2, <3>1, SeqType
  <2>4. egTs' \in Nat /\ egSent' \in Nat /\ egSent' <= egTs' /\ egAnchor' \in Nat \cup {Absent}
    <3>1. CASE RecordSent
      BY <1>1, <2>2, <3>1, SentType
    <3>2. CASE UNCHANGED <<egAnchor, egSent>>
      BY <1>1, <2>2, <3>2 DEF StreamTypes, TranscoderTypeOK
    <3> QED
      BY <1>3, <3>1, <3>2
  <2>5. egIngress' \in 0..(Modulus - 1) /\ egNoted' = pulled /\ egStart' \in Nat \cup {Absent} /\ egClamped' \in BOOLEAN
    BY <1>1, <1>2, <1>3, NotesType
  <2>6. StreamTypes'
    <3>1. JitterTypeOK' /\ newest' \in Nat \cup {Absent}
          /\ jbStats' \in [received : Nat, lost : Nat, duplicates : Nat, late : Nat,
                           base : Int \cup {Absent}, max : Int]
      BY <1>1, JitterKept
    <3> QED
      BY <1>1, <1>2, <2>3, <2>4, <2>5, <3>1 DEF StreamTypes, TranscoderTypeOK
  <2>7. EgressMirrorsIngress'
    <3>1. CASE direction = "ngn_to_web"
      BY <1>1, <1>3, <2>2, <3>1, MirrorsOn
    <3>2. CASE direction # "ngn_to_web"
      BY <1>1, <3>2 DEF EgressMirrorsIngress
    <3> QED
      BY <3>1, <3>2
  <2>8. direction = "ngn_to_web" => chunks' = 0
    BY <1>1 DEF StreamInv, NotesAgree
  <2> QED
    BY <1>1, <1>3, <2>6, <2>7, <2>8, DealtWith
<1>4. CASE UNCHANGED <<egSeq, egTs, egIngress, egStart, egNoted, egAnchor, egSent, egClamped>>
  <2>1. StreamTypes'
    <3>1. JitterTypeOK' /\ newest' \in Nat \cup {Absent}
          /\ jbStats' \in [received : Nat, lost : Nat, duplicates : Nat, late : Nat,
                           base : Int \cup {Absent}, max : Int]
      BY <1>1, JitterKept
    <3> QED
      BY <1>1, <1>4, <3>1 DEF StreamTypes, TranscoderTypeOK
  <2>2. EgressMirrorsIngress'
    BY <1>1, <1>4 DEF StreamInv, EgressMirrorsIngress
  <2>3. direction = "ngn_to_web" => chunks' = 0
    BY <1>1 DEF StreamInv, NotesAgree
  <2> QED
    BY <1>1, <1>4, <2>1, <2>2, <2>3, DealtWith
<1> QED
  BY <1>3, <1>4 DEF SendFrame, SendPeerFrame

\* Towards the NGN the packet is cut into frames.
LEMMA CutsFrames ==
    ASSUME StreamInv, Cut \/ CutPeer
    PROVE  StreamInv'
<1>1. /\ pulled # Absent /\ pulled' = Absent /\ direction \in {"web_to_ngn", "peer_to_ngn"} /\ StreamTypes
      /\ UNCHANGED <<jbVars, egTs, egSource, egAnchor, egSent, direction, direct, toPeer>>
  BY DEF Cut, CutPeer, StreamInv, egVars
<1>2. pulled \in Nat /\ egSeq \in Int
  BY <1>1 DEF StreamTypes, TranscoderTypeOK
<1>3. accum' \in 0..(FrameLen - 1) /\ chunks' \in Nat
  <2>1. CASE Accumulate
    BY <1>1, <2>1, CutType
  <2>2. CASE chunks' = (IF toPeer THEN 1 ELSE 0) /\ UNCHANGED accum
    BY <1>1, <2>2 DEF StreamTypes, TranscoderTypeOK
  <2> QED
    BY <2>1, <2>2 DEF Cut, CutPeer
<1>4. \/ NoteIngress(pulled) /\ egSeq' = (egSeq + Gap(pulled) - 1) % Modulus
      \/ UNCHANGED <<egIngress, egStart, egNoted, egSeq, egClamped>>
  BY DEF Cut, CutPeer, egVars
<1>5. /\ egSeq' \in 0..(Modulus - 1)
      /\ egIngress' \in (0..(Modulus - 1)) \cup {Absent} /\ egNoted' \in Nat \cup {Absent}
      /\ egStart' \in Nat \cup {Absent} /\ egClamped' \in BOOLEAN
  <2>1. CASE NoteIngress(pulled) /\ egSeq' = (egSeq + Gap(pulled) - 1) % Modulus
    <3>1. Gap(pulled) \in Nat
      BY <1>1, <1>2, GapType
    <3> DEFINE k == Gap(pulled) - 1
    <3>2. k \in Int /\ egSeq' = (egSeq + k) % Modulus
      BY <1>2, <2>1, <3>1
    <3> HIDE DEF k
    <3>3. egSeq' \in 0..(Modulus - 1)
      BY <1>2, <3>2, SeqType
    <3> QED
      BY <1>1, <1>2, <2>1, <3>3, NotesType
  <2>2. CASE UNCHANGED <<egIngress, egStart, egNoted, egSeq, egClamped>>
    BY <1>1, <2>2 DEF StreamTypes, TranscoderTypeOK
  <2> QED
    BY <1>4, <2>1, <2>2
<1>6. StreamTypes'
  <2>1. JitterTypeOK' /\ newest' \in Nat \cup {Absent}
        /\ jbStats' \in [received : Nat, lost : Nat, duplicates : Nat, late : Nat,
                         base : Int \cup {Absent}, max : Int]
    BY <1>1, JitterKept
  <2> QED
    BY <1>1, <1>3, <1>5, <2>1 DEF StreamTypes, TranscoderTypeOK
<1>7. EgressMirrorsIngress' /\ direction # "Off" /\ direction # "ngn_to_web"
  BY <1>1 DEF EgressMirrorsIngress
<1> QED
  BY <1>1, <1>4, <1>6, <1>7, DealtWith

\* A packet the codec refuses, and what goes on besides the packets.
LEMMA StreamRest ==
    ASSUME StreamInv, TranscodeFails \/ SendChunk \/ PeerLearnt \/ UNCHANGED tcVars
    PROVE  StreamInv'
<1>0. StreamTypes
  BY DEF StreamInv
<1>1. CASE TranscodeFails
  <2>1. StreamTypes'
    BY <1>0, <1>1 DEF TranscodeFails, StreamTypes, TranscoderTypeOK, JitterTypeOK, jbVars, egVars, Numbers
  <2>2. EgressMirrorsIngress' /\ (direction = "ngn_to_web" => chunks' = 0)
    BY <1>1 DEF TranscodeFails, StreamInv, EgressMirrorsIngress, NotesAgree, egVars
  <2> QED
    BY <1>1, <2>1, <2>2, DealtWith DEF TranscodeFails, egVars
<1>2. CASE SendChunk
  <2>1. /\ chunks > 0 /\ chunks' \in {chunks - 1, 0} /\ chunks \in Nat /\ egSeq \in Int
        /\ egSeq' = (egSeq + 0 + 1) % Modulus /\ egTs' = egTs + 1 /\ RecordSent
        /\ UNCHANGED <<jbVars, egSource, egIngress, egStart, egNoted, egClamped, direction, direct, pulled,
                       toPeer, accum>>
    BY <1>0, <1>2 DEF SendChunk, Advance, StreamTypes, TranscoderTypeOK
  <2>2. newest # Absent /\ direction # "ngn_to_web"
    BY <2>1 DEF StreamInv, StreamFresh, NotesAgree
  <2>3. egSeq' \in 0..(Modulus - 1)
    <3> DEFINE k == 0 + 1
    <3>1. k \in Int /\ egSeq' = (egSeq + k) % Modulus
      BY <2>1
    <3> HIDE DEF k
    <3> QED
      BY <2>1, <3>1, SeqType
  <2>4. egTs' \in Nat /\ egSent' \in Nat /\ egSent' <= egTs' /\ egAnchor' \in Nat \cup {Absent} /\ chunks' \in Nat
    BY <1>0, <2>1, SentType
  <2>5. JitterTypeOK' /\ newest' \in Nat \cup {Absent}
        /\ jbStats' \in [received : Nat, lost : Nat, duplicates : Nat, late : Nat,
                         base : Int \cup {Absent}, max : Int]
    BY <1>0, <2>1, JitterKept
  <2>6. StreamTypes'
    BY <1>0, <2>1, <2>3, <2>4, <2>5 DEF StreamTypes, TranscoderTypeOK
  <2>7. NumbersFollow' /\ PullsUpwards' /\ LossAccounted' /\ Numbers' = Numbers /\ Offset' = Offset
    BY <2>1, <2>6, BufferKept
  <2>8. StreamFresh'
    BY <2>1, <2>2, <2>7 DEF StreamInv, StreamFresh, jbVars
  <2>9. NotesUpwards' /\ NotesAgree' /\ EgressMirrorsIngress'
    BY <2>1, <2>2, <2>7 DEF StreamInv, NotesUpwards, NotesAgree, EgressMirrorsIngress, jbVars
  <2> QED
    BY <2>6, <2>7, <2>8, <2>9 DEF StreamInv
<1>3. CASE PeerLearnt \/ UNCHANGED tcVars
  <2>1. UNCHANGED <<jbVars, egVars, direction, direct, pulled, accum, chunks>> /\ toPeer' \in BOOLEAN
    BY <1>0, <1>3 DEF PeerLearnt, tcVars, StreamTypes, TranscoderTypeOK
  <2>2. StreamTypes'
    BY <1>0, <2>1 DEF StreamTypes, TranscoderTypeOK, JitterTypeOK, jbVars, egVars, Numbers
  <2>3. NumbersFollow' /\ PullsUpwards' /\ LossAccounted' /\ Numbers' = Numbers /\ Offset' = Offset
    BY <2>1, <2>2, BufferKept
  <2>4. StreamFresh'
    BY <2>1, <2>3 DEF StreamInv, StreamFresh, jbVars, egVars
  <2>5. NotesUpwards' /\ NotesAgree' /\ EgressMirrorsIngress'
    BY <2>1, <2>3 DEF StreamInv, NotesUpwards, NotesAgree, EgressMirrorsIngress, jbVars, egVars
  <2> QED
    BY <2>2, <2>3, <2>4, <2>5 DEF StreamInv
<1> QED
  BY <1>1, <1>2, <1>3

\* Every step of the loops keeps the invariant of the stream.
LEMMA StreamStep == StreamInv /\ [TranscoderNext]_tcVars => StreamInv'
<1> SUFFICES ASSUME StreamInv, [TranscoderNext]_tcVars PROVE StreamInv'
  OBVIOUS
<1> QED
  BY LoopStarts, LoopStops, Receives, ReceivesPeer, Ticks, SendsFrame, CutsFrames, StreamRest DEF TranscoderNext

\* It holds before the first packet.
LEMMA StreamInit == TranscoderInit => StreamInv
<1> SUFFICES ASSUME TranscoderInit PROVE StreamInv
  OBVIOUS
<1>1. /\ jbQueue = [n \in {} |-> 0] /\ Numbers = {} /\ jbNext = Absent /\ jbLast = Absent /\ jbFirst = Absent
      /\ jbCycles = 0 /\ jbPulled = 0 /\ newest = Absent
      /\ jbStats = [received |-> 0, lost |-> 0, duplicates |-> 0, late |-> 0, base |-> Absent, max |-> 0]
  BY DEF TranscoderInit, JitterInit, Numbers
<1>2. Modulus - 2 \in 0..(Modulus - 1) /\ 0 \in 0..(FrameLen - 1)
  BY JitterAssumption, TranscoderAssumption
<1>3. StreamTypes
  <2>1. /\ jbStats \in [received : Nat, lost : Nat, duplicates : Nat, late : Nat,
                        base : Int \cup {Absent}, max : Int]
        /\ {jbStats.received, jbStats.lost, jbStats.duplicates, jbStats.late} \subseteq Nat
    BY <1>1
  <2>2. JitterTypeOK
    BY <1>1, <2>1 DEF JitterTypeOK
  <2>3. direct \in BOOLEAN /\ toPeer \in BOOLEAN /\ egClamped \in BOOLEAN
    BY DEF TranscoderInit
  <2>4. TranscoderTypeOK
    BY <1>2, <2>2, <2>3 DEF TranscoderInit, TranscoderTypeOK
  <2> QED
    BY <1>1, <2>1, <2>4 DEF StreamTypes
<1>4. StreamFresh /\ NumbersFollow /\ PullsUpwards /\ LossAccounted
  BY <1>1 DEF TranscoderInit, StreamFresh, NumbersFollow, PullsUpwards, LossAccounted, WebDirections, PeerDirections
<1>5. NotesUpwards /\ NotesAgree /\ EgressMirrorsIngress
  BY <1>1 DEF TranscoderInit, NotesUpwards, NotesAgree, EgressMirrorsIngress, WebDirections
<1> QED
  BY <1>3, <1>4, <1>5 DEF StreamInv

\* The packets in the buffer are as far apart as their numbers.
LEMMA StreamGood == StreamInv => EgressFaithful /\ TranscoderTypeOK
<1> SUFFICES ASSUME StreamInv PROVE NumberedAsSent
  BY DEF StreamInv, StreamTypes, EgressFaithful
<1>1. CASE jbLast = Absent
  BY <1>1 DEF StreamInv, StreamFresh, NumberedAsSent
<1>2. CASE jbLast # Absent
  <2>1. Offset \in Int
    BY <1>2 DEF Offset, StreamInv, StreamTypes, StreamFresh, TranscoderTypeOK, JitterTypeOK
  <2>2. \A n \in Numbers : n \in Int /\ jbQueue[n] \in Nat /\ jbQueue[n] - n = Offset
    BY <1>2 DEF StreamInv, StreamTypes, TranscoderTypeOK, JitterTypeOK, NumbersFollow
  <2> QED
    BY <2>1, <2>2 DEF NumberedAsSent
<1> QED
  BY <1>1, <1>2

-----------------------------------------------------------------------------
(* Requests and text messages: RequestDispatch                             *)

\* The messages in the log are the newest ones, in order and without a gap.
LogIsNewest ==
    /\ smsLog \in Seq(Nat) /\ Len(smsLog) <= LogSize /\ Len(smsLog) <= smsCount
    /\ smsCount > Len(smsLog) => Len(smsLog) = LogSize
    /\ \A i \in 1..Len(smsLog) : smsLog[i] = (smsCount - Len(smsLog)) + i

ReplySet == {<<>>} \cup {<<[status |-> s, tags |-> t]>> : s \in Nat, t \in {0, 1}}

Request == [stage : {"Idle", "Queued", "Logged", "Event", "Done"}, side : {"Ext", "Ngn"},
            method : ExtMethods, branch : BOOLEAN, to : {"None", "Plain", "Tagged"}, sms : Nat,
            finals : ReplySet]

\* A request has its answer when it is done, and not before.
Answered(q) ==
    /\ q.stage # "Done" => q.finals = <<>>
    /\ \/ q.finals = <<>>
       \/ \E s \in Nat : q.finals = <<[status |-> s, tags |-> IF q.to = "None" THEN 0 ELSE 1]>>

\* A message that is pushed is the newest in the log.
LEMMA PushedIsNewest ==
    ASSUME smsCount \in Nat, LogIsNewest, LogSms PROVE LogIsNewest' /\ smsCount' = smsCount + 1 /\ smsCount' <= MaxSms
<1> DEFINE n == smsCount + 1
           all == Append(smsLog, n)
<1>1. smsCount' = n /\ n \in Nat /\ smsCount' <= MaxSms /\ smsLog' = PushSms(n)
  BY DispatchAssumption DEF LogSms
<1>2. /\ smsLog \in Seq(Nat) /\ Len(smsLog) \in Nat /\ Len(smsLog) <= LogSize /\ Len(smsLog) <= smsCount
      /\ smsCount > Len(smsLog) => Len(smsLog) = LogSize
      /\ \A i \in 1..Len(smsLog) : smsLog[i] = (smsCount - Len(smsLog)) + i
  BY DEF LogIsNewest
<1>3. /\ all \in Seq(Nat) /\ Len(all) = Len(smsLog) + 1
      /\ \A i \in 1..Len(all) : all[i] = (n - Len(all)) + i
  BY <1>1, <1>2
<1> HIDE DEF n, all
<1>4. CASE LogSize = 0
  <2>1. smsLog' = smsLog /\ Len(smsLog) = 0
    BY <1>1, <1>2, <1>4 DEF PushSms
  <2> QED
    <3>1. Len(smsLog') = 0 /\ smsLog' \in Seq(Nat) /\ 1..Len(smsLog') = {}
      BY <1>2, <2>1
    <3> QED
      BY <1>1, <1>4, <3>1 DEF LogIsNewest, n
<1>5. CASE LogSize # 0 /\ Len(all) > LogSize
  <2>1. smsLog' = Tail(all)
    BY <1>1, <1>5 DEF PushSms, all
  <2>2. /\ Tail(all) \in Seq(Nat) /\ Len(Tail(all)) = Len(smsLog)
        /\ \A i \in 1..Len(Tail(all)) : Tail(all)[i] = all[i + 1]
    BY <1>2, <1>3
  <2>3. Len(smsLog) = LogSize
    BY <1>2, <1>3, <1>5, DispatchAssumption
  <2>4. ASSUME NEW i \in 1..Len(smsLog) PROVE smsLog'[i] = (n - Len(smsLog)) + i
    <3>1. i \in Nat /\ i + 1 \in 1..Len(all) /\ smsLog'[i] = all[i + 1]
      BY <1>2, <1>3, <2>1, <2>2
    <3>2. all[i + 1] = (n - Len(all)) + (i + 1)
      BY <1>3, <3>1
    <3> QED
      BY <1>1, <1>2, <1>3, <3>1, <3>2
  <2>5. smsLog' \in Seq(Nat) /\ Len(smsLog') = Len(smsLog) /\ Len(smsLog') <= smsCount'
    <3>1. smsLog' \in Seq(Nat)
      BY <2>1, <2>2
    <3>2. Len(smsLog') = Len(smsLog)
      BY <2>1, <2>2, Zenon
    <3> QED
      BY <1>1, <1>2, <3>1, <3>2 DEF n
  <2> QED
    BY <1>1, <2>3, <2>4, <2>5, DispatchAssumption DEF LogIsNewest, n
<1>6. CASE LogSize # 0 /\ ~(Len(all) > LogSize)
  <2>1. smsLog' = all
    BY <1>1, <1>6 DEF PushSms, all
  <2> QED
    <3>1. Len(smsLog) < LogSize /\ Len(smsLog) = smsCount
      BY <1>2, <1>3, <1>6, DispatchAssumption
    <3>2. Len(smsLog') = smsCount' /\ Len(smsLog') <= LogSize /\ smsLog' \in Seq(Nat) /\ smsCount' \in Nat
      BY <1>1, <1>2, <1>3, <2>1, <3>1, DispatchAssumption DEF n
    <3>3. \A i \in 1..Len(smsLog') : smsLog'[i] = (smsCount' - Len(smsLog')) + i
      BY <1>1, <1>3, <2>1
    <3> QED
      BY <1>1, <3>2, <3>3 DEF LogIsNewest, n
<1> QED
  BY <1>1, <1>4, <1>5, <1>6

\* Answering a request that has no answer yet gives it one, with one tag in To.
LEMMA AnswerGiven ==
    ASSUME NEW q \in Request, q.finals = <<>>, NEW s \in Nat, s # 100
    PROVE  LET r == Final(q, s) IN
           /\ r \in Request /\ Answered(r) /\ r.stage = "Done" /\ r.finals # <<>>
           /\ r.side = q.side /\ r.method = q.method /\ r.branch = q.branch /\ r.to = q.to /\ r.sms = q.sms
<1> DEFINE t == ToTags(q.to, s)
           one == <<[status |-> s, tags |-> t]>>
           r == Final(q, s)
<1>1. t = (IF q.to = "None" THEN 0 ELSE 1)
  BY DEF ToTags
<1>2. Append(q.finals, [status |-> s, tags |-> t]) = one
  OBVIOUS
<1>3. r = [q EXCEPT !.stage = "Done", !.finals = one]
  BY <1>2 DEF Final
<1>4. one # <<>> /\ one \in ReplySet
  BY <1>1 DEF ReplySet
<1> HIDE DEF one
<1>5. /\ r.stage = "Done" /\ r.finals = one /\ r.side = q.side /\ r.method = q.method /\ r.branch = q.branch
      /\ r.to = q.to /\ r.sms = q.sms /\ r \in Request
  BY <1>3, <1>4 DEF Request
<1>6. one = <<[status |-> s, tags |-> IF q.to = "None" THEN 0 ELSE 1]>>
  BY <1>1 DEF one
<1> HIDE DEF r
<1>7. Answered(r)
  BY <1>5, <1>6 DEF Answered
<1> QED
  BY <1>4, <1>5, <1>7 DEF r

\* The part of the invariant that is about the request in hand.
ReqInv ==
    /\ inReq \in Request /\ Answered(inReq)
    /\ inReq.side = "Ngn" => inReq.method \in NgnMethods
    /\ inReq.stage = "Done" /\ inReq.finals = <<>> =>
          inReq.method = "ACK" \/ ~inReq.branch \/ eventTx = "Closed"

\* The part that is about the messages.
SmsInv ==
    /\ inReq.sms <= smsCount
    /\ smsCount \in 0..MaxSms /\ smsSettled \subseteq 1..smsCount /\ LogIsNewest
    /\ smsOut \in [Sender -> {"Idle", "Out", "Sent", "Rejected", "Failed"}]

\* The invariant of requests and messages.
DispatchInv == ReqInv /\ SmsInv /\ eventTx \in {"None", "Open", "Closed"}

\* An answer keeps the part about the request.
LEMMA ReplyKeepsRequest ==
    ASSUME ReqInv, inReq.stage # "Done", NEW s \in Nat, s # 100, inReq' = Final(inReq, s)
    PROVE  ReqInv' /\ inReq'.sms = inReq.sms
<1>1. inReq \in Request /\ inReq.finals = <<>>
  BY DEF ReqInv, Answered
<1> DEFINE r == Final(inReq, s)
<1>2. /\ r \in Request /\ Answered(r) /\ r.stage = "Done" /\ r.finals # <<>>
      /\ r.side = inReq.side /\ r.method = inReq.method /\ r.sms = inReq.sms
  BY <1>1, AnswerGiven
<1>3. inReq' = r
  OBVIOUS
<1> HIDE DEF r
<1>4. Answered(inReq')
  BY <1>2, <1>3
<1> QED
  BY <1>2, <1>3, <1>4 DEF ReqInv, Answered

\* Nothing is lost of the messages while the log is left alone.
LEMMA MessagesUntouched ==
    ASSUME SmsInv, inReq'.sms <= smsCount, UNCHANGED <<smsLog, smsCount, smsSettled, smsOut>> PROVE SmsInv'
BY DEF SmsInv, LogIsNewest

\* A message is logged, and its sender answered or not.
LEMMA MessageLogged ==
    ASSUME SmsInv, LogSms, inReq'.sms <= smsCount + 1,
           smsSettled' \subseteq smsSettled \cup {smsCount + 1},
           smsOut' \in [Sender -> {"Idle", "Out", "Sent", "Rejected", "Failed"}]
    PROVE  SmsInv'
<1>1. smsCount \in Nat /\ LogIsNewest /\ smsSettled \subseteq 1..smsCount /\ MaxSms \in Nat
  BY DispatchAssumption DEF SmsInv
<1>2. LogIsNewest' /\ smsCount' = smsCount + 1 /\ smsCount' <= MaxSms
  BY <1>1, PushedIsNewest
<1> QED
  BY <1>1, <1>2 DEF SmsInv

\* What the tables of methods say is a final status.
LEMMA TablesFinal ==
    /\ \A m \in DOMAIN ExtTable : ExtTable[m] \in Nat /\ ExtTable[m] # 100
    /\ \A m \in DOMAIN NoConsumerTable : NoConsumerTable[m] \in Nat /\ NoConsumerTable[m] # 100
    /\ \A m \in NgnMethods \ {"ACK"} : NgnTable[m] \in Nat /\ NgnTable[m] # 100
<1>1. \A m \in DOMAIN ExtTable : ExtTable[m] \in Nat /\ ExtTable[m] # 100
  BY DEF ExtTable
<1>2. \A m \in DOMAIN NoConsumerTable : NoConsumerTable[m] \in Nat /\ NoConsumerTable[m] # 100
  BY DEF NoConsumerTable
<1>3. \A m \in NgnMethods \ {"ACK"} : NgnTable[m] \in Nat /\ NgnTable[m] # 100
  BY DEF NgnTable, NgnMethods, ExtMethods
<1> QED
  BY <1>1, <1>2, <1>3

\* A field other than the answer changes.
LEMMA RequestMoves ==
    ASSUME ReqInv, inReq.stage # "Done", NEW g \in {"Logged", "Event"}, NEW n \in Nat,
           inReq' = [inReq EXCEPT !.stage = g, !.sms = n]
    PROVE  ReqInv' /\ inReq'.sms = n
<1>1. inReq \in Request /\ inReq.finals = <<>> /\ (inReq.side = "Ngn" => inReq.method \in NgnMethods)
  BY DEF ReqInv, Answered
<1>2. /\ inReq' \in Request /\ inReq'.finals = <<>> /\ inReq'.stage = g /\ inReq'.sms = n
      /\ inReq'.side = inReq.side /\ inReq'.method = inReq.method
  BY <1>1 DEF Request
<1>3. Answered(inReq')
  BY <1>2 DEF Answered
<1> QED
  BY <1>1, <1>2, <1>3 DEF ReqInv, Answered

\* A request nobody can answer is dropped.
LEMMA RequestDropped ==
    ASSUME ReqInv, inReq.stage # "Done", inReq.method = "ACK" \/ ~inReq.branch \/ eventTx = "Closed",
           eventTx' = eventTx, inReq' = [inReq EXCEPT !.stage = "Done"]
    PROVE  ReqInv' /\ inReq'.sms = inReq.sms
<1>1. inReq \in Request /\ inReq.finals = <<>> /\ (inReq.side = "Ngn" => inReq.method \in NgnMethods)
  BY DEF ReqInv, Answered
<1>2. /\ inReq' \in Request /\ inReq'.finals = <<>> /\ inReq'.stage = "Done" /\ inReq'.sms = inReq.sms
      /\ inReq'.side = inReq.side /\ inReq'.method = inReq.method /\ inReq'.branch = inReq.branch
  BY <1>1 DEF Request
<1>3. Answered(inReq')
  BY <1>2 DEF Answered
<1> QED
  BY <1>1, <1>2, <1>3 DEF ReqInv, Answered

\* A datagram becomes a request, or is answered 400 where it stands.
LEMMA ReceivesRequest ==
    ASSUME DispatchInv, inReq.stage = "Idle",
           NEW d \in Legible, NEW side \in {"Ext", "Ngn"}, NEW m \in ExtMethods, RecvLoop(d, side, m)
    PROVE  DispatchInv'
<1> DEFINE b == (d.via = "Good")
           q == [Nobody EXCEPT !.stage = "Queued", !.side = side, !.method = m, !.branch = b, !.to = d.to]
<1>1. d \in Datagram
  BY DEF Legible
<1>2. d.to \in {"None", "Plain", "Tagged"} /\ b \in BOOLEAN
  BY <1>1 DEF Datagram
<1>3. inReq' = q \/ inReq' = Final(q, 400)
  BY DEF RecvLoop
<1> HIDE DEF b
<1>4. <<>> \in ReplySet
  BY DEF ReplySet
<1>5. Nobody \in Request /\ Nobody.sms = 0 /\ Nobody.finals = <<>>
  BY <1>4 DEF Nobody, Request, ExtMethods
<1>6. q \in Request /\ q.stage = "Queued" /\ q.side = side /\ q.method = m /\ q.sms = 0 /\ q.finals = <<>>
  BY <1>2, <1>5 DEF Request
<1>7. side = "Ngn" => m \in NgnMethods
  BY DEF RecvLoop
<1>8. UNCHANGED <<eventTx, smsLog, smsCount, smsSettled, smsOut>>
  BY DEF RecvLoop
<1> HIDE DEF q
<1>9. ReqInv' /\ inReq'.sms = 0
  <2>1. CASE inReq' = q
    <3>1. Answered(inReq')
      BY <1>6, <2>1 DEF Answered
    <3> QED
      BY <1>6, <1>7, <2>1, <3>1 DEF ReqInv, Answered
  <2>2. CASE inReq' = Final(q, 400)
    <3> DEFINE r == Final(q, 400)
    <3>1. /\ r \in Request /\ Answered(r) /\ r.stage = "Done" /\ r.finals # <<>>
          /\ r.side = q.side /\ r.method = q.method /\ r.sms = q.sms
      BY <1>6, AnswerGiven, 400 \in Nat, 400 # 100
    <3>2. inReq' = r
      BY <2>2
    <3> HIDE DEF r
    <3> QED
      BY <1>6, <1>7, <3>1, <3>2 DEF ReqInv, Answered
  <2> QED
    BY <1>3, <2>1, <2>2
<1>10. smsCount \in Nat /\ SmsInv
  BY DispatchAssumption DEF DispatchInv, SmsInv
<1>11. SmsInv'
  BY <1>8, <1>9, <1>10, MessagesUntouched
<1> QED
  BY <1>8, <1>9, <1>11 DEF DispatchInv

\* Every step keeps the invariant of requests and messages.
LEMMA RequestsKept == DispatchInv /\ [DispatchNext]_dispatchVars => DispatchInv'
<1> SUFFICES ASSUME DispatchInv, [DispatchNext]_dispatchVars PROVE DispatchInv'
  OBVIOUS
<1>1. /\ ReqInv /\ SmsInv /\ eventTx \in {"None", "Open", "Closed"}
      /\ smsCount \in Nat /\ inReq.sms \in Nat /\ inReq.sms <= smsCount /\ smsSettled \subseteq 1..smsCount
      /\ smsOut \in [Sender -> {"Idle", "Out", "Sent", "Rejected", "Failed"}]
      /\ inReq \in Request
  BY DispatchAssumption DEF DispatchInv, SmsInv, ReqInv, Request
<1>2. CASE RequestOver
  <2>1. <<>> \in ReplySet
    BY DEF ReplySet
  <2>2. inReq' = Nobody /\ Nobody \in Request /\ inReq'.sms = 0 /\ UNCHANGED <<eventTx, smsLog, smsCount, smsSettled, smsOut>>
    BY <1>2, <2>1 DEF RequestOver, Nobody, Request, ExtMethods
  <2>3. Answered(inReq') /\ inReq'.stage = "Idle" /\ inReq'.side = "Ext"
    BY <2>2 DEF Answered, Nobody
  <2>4. ReqInv'
    BY <2>2, <2>3 DEF ReqInv, Answered
  <2> QED
    BY <1>1, <2>2, <2>4, MessagesUntouched DEF DispatchInv
<1>3. CASE ExtDrops
  <2>1. /\ inReq.stage # "Done" /\ (inReq.method = "ACK" \/ ~inReq.branch)
        /\ inReq' = [inReq EXCEPT !.stage = "Done"]
        /\ UNCHANGED <<eventTx, smsLog, smsCount, smsSettled, smsOut>>
    BY <1>3 DEF ExtDrops, ExtHandles
  <2>2. ReqInv' /\ inReq'.sms = inReq.sms
    BY <1>1, <2>1, RequestDropped
  <2> QED
    BY <1>1, <2>1, <2>2, MessagesUntouched DEF DispatchInv
<1>4. CASE ExtAnswers
  <2>1. inReq.stage # "Done" /\ inReq.method \in DOMAIN ExtTable /\ UNCHANGED <<eventTx, smsOut>>
    BY <1>4 DEF ExtAnswers, ExtHandles
  <2>2. CASE /\ LogSms /\ inReq' = [Final(inReq, 200) EXCEPT !.sms = smsCount + 1]
             /\ smsSettled' = smsSettled \cup {smsCount + 1}
    <3> DEFINE r == Final(inReq, 200)
    <3>1. inReq.finals = <<>>
      BY <1>1, <2>1 DEF ReqInv, Answered
    <3>2. /\ r \in Request /\ Answered(r) /\ r.stage = "Done" /\ r.finals # <<>>
          /\ r.side = inReq.side /\ r.method = inReq.method
      BY <1>1, <3>1, AnswerGiven, 200 \in Nat, 200 # 100
    <3> HIDE DEF r
    <3>3. inReq' = [r EXCEPT !.sms = smsCount + 1] /\ smsCount + 1 \in Nat
      BY <1>1, <2>2 DEF r
    <3>4. /\ inReq' \in Request /\ inReq'.stage = "Done" /\ inReq'.finals = r.finals /\ inReq'.to = r.to
          /\ inReq'.side = inReq.side /\ inReq'.method = inReq.method /\ inReq'.sms = smsCount + 1
      BY <3>2, <3>3 DEF Request
    <3>5. Answered(inReq')
      BY <3>2, <3>4 DEF Answered
    <3>6. ReqInv'
      BY <1>1, <3>2, <3>4, <3>5 DEF ReqInv, Answered
    <3>7. SmsInv'
      <4>1. /\ inReq'.sms <= smsCount + 1 /\ smsSettled' \subseteq smsSettled \cup {smsCount + 1}
            /\ smsOut' \in [Sender -> {"Idle", "Out", "Sent", "Rejected", "Failed"}]
        BY <1>1, <2>1, <2>2, <3>4
      <4> QED
        BY <1>1, <2>2, <4>1, MessageLogged
    <3> QED
      BY <1>1, <2>1, <3>6, <3>7 DEF DispatchInv
  <2>3. CASE /\ inReq' = Final(inReq, ExtTable[inReq.method])
             /\ KeepSms /\ UNCHANGED smsSettled
    <3> DEFINE s == ExtTable[inReq.method]
    <3>1. s \in Nat /\ s # 100 /\ inReq' = Final(inReq, s)
      BY <2>1, <2>3, TablesFinal
    <3> HIDE DEF s
    <3>2. ReqInv' /\ inReq'.sms = inReq.sms
      BY <1>1, <2>1, <3>1, ReplyKeepsRequest
    <3> QED
      BY <1>1, <2>1, <2>3, <3>2, MessagesUntouched DEF DispatchInv, KeepSms
  <2> QED
    BY <1>4, <2>2, <2>3 DEF ExtAnswers
<1>5. CASE \E s \in Nat : /\ s # 100 /\ inReq.stage # "Done" /\ inReq' = Final(inReq, s)
                          /\ UNCHANGED <<eventTx, smsLog, smsCount, smsSettled, smsOut>>
  <2>1. ReqInv' /\ inReq'.sms = inReq.sms /\ UNCHANGED <<eventTx, smsLog, smsCount, smsSettled, smsOut>>
    BY <1>1, <1>5, ReplyKeepsRequest
  <2> QED
    BY <1>1, <2>1, MessagesUntouched DEF DispatchInv
<1>6. CASE ExtRegister \/ ExtRefusesInvite \/ EventAnswered
  <2>1. \A s \in {200, 400, 401, 403, 481} : s \in Nat /\ s # 100
    OBVIOUS
  <2>2. /\ inReq.stage # "Done" /\ UNCHANGED <<eventTx, smsLog, smsCount, smsSettled, smsOut>>
        /\ \E s \in {200, 400, 401, 403, 481} : inReq' = Final(inReq, s)
    BY <1>6 DEF ExtRegister, ExtRefusesInvite, EventAnswered, ExtHandles
  <2> QED
    BY <1>5, <2>1, <2>2
<1>7. CASE ExtForwards
  <2>1. /\ inReq.stage = "Queued" /\ inReq.method \in DOMAIN NoConsumerTable
        /\ UNCHANGED <<eventTx, smsLog, smsCount, smsSettled, smsOut>>
    BY <1>7 DEF ExtForwards, ExtHandles
  <2>2. CASE eventTx = "None"
    <3> DEFINE s == NoConsumerTable[inReq.method]
    <3>1. s \in Nat /\ s # 100 /\ inReq' = Final(inReq, s)
      BY <1>7, <2>1, <2>2, TablesFinal DEF ExtForwards
    <3> HIDE DEF s
    <3> QED
      BY <1>5, <2>1, <3>1
  <2>3. CASE eventTx = "Open"
    <3>1. inReq' = [inReq EXCEPT !.stage = "Event"]
      BY <1>7, <2>3 DEF ExtForwards
    <3>2. inReq' = [inReq EXCEPT !.stage = "Event", !.sms = inReq.sms]
      BY <1>1, <3>1 DEF Request
    <3>3. ReqInv' /\ inReq'.sms = inReq.sms
      BY <1>1, <2>1, <3>2, RequestMoves
    <3> QED
      BY <1>1, <2>1, <3>3, MessagesUntouched DEF DispatchInv
  <2>4. CASE eventTx = "Closed"
    <3>1. inReq' = [inReq EXCEPT !.stage = "Done"]
      BY <1>7, <2>4 DEF ExtForwards
    <3>2. ReqInv' /\ inReq'.sms = inReq.sms
      BY <1>1, <2>1, <2>4, <3>1, RequestDropped
    <3> QED
      BY <1>1, <2>1, <3>2, MessagesUntouched DEF DispatchInv
  <2> QED
    BY <1>1, <2>2, <2>3, <2>4
<1>8. CASE ConsumerEnds
  <2>1. eventTx = "Open" /\ eventTx' = "Closed" /\ UNCHANGED <<inReq, smsLog, smsCount, smsSettled, smsOut>>
    BY <1>8 DEF ConsumerEnds
  <2>2. ReqInv'
    BY <1>1, <2>1 DEF ReqInv, Answered
  <2> QED
    BY <1>1, <2>1, <2>2, MessagesUntouched DEF DispatchInv
<1>9. CASE NgnLogs
  <2>1. inReq.stage = "Queued" /\ UNCHANGED <<eventTx, smsSettled, smsOut>>
    BY <1>9 DEF NgnLogs
  <2>2. CASE LogSms /\ inReq' = [inReq EXCEPT !.stage = "Logged", !.sms = smsCount + 1]
    <3>1. smsCount + 1 \in Nat
      BY <1>1
    <3> DEFINE n == smsCount + 1
    <3>2. n \in Nat /\ inReq' = [inReq EXCEPT !.stage = "Logged", !.sms = n]
      BY <2>2, <3>1
    <3> HIDE DEF n
    <3>3. ReqInv' /\ inReq'.sms = n
      BY <1>1, <2>1, <3>2, RequestMoves
    <3>4. inReq'.sms <= smsCount + 1
      BY <1>1, <3>3 DEF n
    <3>5. SmsInv'
      BY <1>1, <2>1, <2>2, <3>4, MessageLogged
    <3> QED
      BY <1>1, <2>1, <3>3, <3>5 DEF DispatchInv
  <2>3. CASE inReq' = [inReq EXCEPT !.stage = "Logged"] /\ KeepSms
    <3>1. inReq' = [inReq EXCEPT !.stage = "Logged", !.sms = inReq.sms]
      BY <1>1, <2>3 DEF Request
    <3>2. ReqInv' /\ inReq'.sms = inReq.sms
      BY <1>1, <2>1, <3>1, RequestMoves
    <3> QED
      BY <1>1, <2>1, <2>3, <3>2, MessagesUntouched DEF DispatchInv, KeepSms
  <2> QED
    BY <1>9, <2>2, <2>3 DEF NgnLogs
<1>10. CASE NgnAnswers
  <2>1. /\ inReq.side = "Ngn" /\ inReq.stage # "Done" /\ UNCHANGED <<eventTx, smsLog, smsCount, smsOut>>
    BY <1>10 DEF NgnAnswers
  <2>2. CASE inReq.branch /\ inReq.method # "ACK"
    <3> DEFINE s == NgnTable[inReq.method]
    <3>1. inReq.method \in NgnMethods \ {"ACK"}
      BY <1>1, <2>1, <2>2 DEF ReqInv
    <3>2. s \in Nat /\ s # 100 /\ inReq' = Final(inReq, s) /\ smsSettled' = smsSettled \cup ({inReq.sms} \ {0})
      BY <1>10, <2>2, <3>1, TablesFinal DEF NgnAnswers
    <3> HIDE DEF s
    <3>3. ReqInv' /\ inReq'.sms = inReq.sms
      BY <1>1, <2>1, <3>2, ReplyKeepsRequest
    <3>4. smsSettled' \subseteq 1..smsCount
      <4>1. inReq.sms = 0 \/ inReq.sms \in 1..smsCount
        BY <1>1
      <4> QED
        BY <1>1, <3>2, <4>1
    <3>5. SmsInv'
      BY <1>1, <2>1, <3>3, <3>4 DEF SmsInv, LogIsNewest
    <3> QED
      BY <1>1, <2>1, <3>3, <3>5 DEF DispatchInv
  <2>3. CASE ~(inReq.branch /\ inReq.method # "ACK")
    <3>1. inReq' = [inReq EXCEPT !.stage = "Done"] /\ UNCHANGED smsSettled
      BY <1>10, <2>3 DEF NgnAnswers
    <3>2. ReqInv' /\ inReq'.sms = inReq.sms
      BY <1>1, <2>1, <2>3, <3>1, RequestDropped
    <3> QED
      BY <1>1, <2>1, <3>1, <3>2, MessagesUntouched DEF DispatchInv
  <2> QED
    BY <2>2, <2>3
<1>11. ASSUME NEW t \in Sender, SmsRefused(t) \/ SmsLeaves(t) \/ SmsAnswered(t) \/ SmsFails(t)
       PROVE  DispatchInv'
  <2>1. /\ smsOut' \in [Sender -> {"Idle", "Out", "Sent", "Rejected", "Failed"}]
        /\ UNCHANGED <<inReq, eventTx>>
    BY <1>1, <1>11 DEF SmsRefused, SmsLeaves, SmsAnswered, SmsFails
  <2>2. ReqInv'
    BY <1>1, <2>1 DEF ReqInv, Answered
  <2>3. CASE SmsAnswered(t)
    <3>1. /\ LogSms /\ inReq'.sms <= smsCount + 1 /\ smsSettled' \subseteq smsSettled \cup {smsCount + 1}
      BY <1>1, <2>1, <2>3 DEF SmsAnswered
    <3>2. SmsInv'
      BY <1>1, <2>1, <3>1, MessageLogged
    <3> QED
      BY <1>1, <2>1, <2>2, <3>2 DEF DispatchInv
  <2>4. CASE SmsRefused(t) \/ SmsLeaves(t) \/ SmsFails(t)
    <3>1. UNCHANGED <<smsLog, smsCount, smsSettled>>
      BY <2>4 DEF SmsRefused, SmsLeaves, SmsFails
    <3>2. SmsInv'
      BY <1>1, <2>1, <3>1 DEF SmsInv, LogIsNewest
    <3> QED
      BY <1>1, <2>1, <2>2, <3>2 DEF DispatchInv
  <2> QED
    BY <1>11, <2>3, <2>4
<1>12. CASE UNCHANGED dispatchVars
  <2>1. UNCHANGED <<inReq, eventTx, smsLog, smsCount, smsSettled, smsOut>>
    BY <1>12 DEF dispatchVars
  <2>2. ReqInv'
    BY <1>1, <2>1 DEF ReqInv, Answered
  <2> QED
    BY <1>1, <2>1, <2>2, MessagesUntouched DEF DispatchInv
<1>13. CASE inReq.stage = "Idle" /\ \E d \in Legible, side \in {"Ext", "Ngn"}, m \in ExtMethods : RecvLoop(d, side, m)
  BY <1>13, ReceivesRequest
<1> QED
  BY <1>2, <1>3, <1>4, <1>6, <1>7, <1>8, <1>9, <1>10, <1>11, <1>12, <1>13 DEF DispatchNext

\* It holds before the first datagram.
LEMMA RequestsStart == DispatchInit => DispatchInv
<1> SUFFICES ASSUME DispatchInit PROVE DispatchInv
  OBVIOUS
<1>1. <<>> \in ReplySet
  BY DEF ReplySet
<1>2. inReq = Nobody /\ Nobody \in Request /\ Nobody.sms = 0 /\ Nobody.stage = "Idle" /\ Nobody.side = "Ext"
      /\ Nobody.finals = <<>>
  BY <1>1 DEF DispatchInit, Nobody, Request, ExtMethods
<1>3. ReqInv
  BY <1>2 DEF ReqInv, Answered
<1>4. smsLog = <<>> /\ smsCount = 0 /\ smsSettled = {} /\ smsOut = [t \in Sender |-> "Idle"]
  BY DEF DispatchInit
<1>5. smsOut \in [Sender -> {"Idle", "Out", "Sent", "Rejected", "Failed"}]
  BY <1>4
<1>6. LogIsNewest
  BY <1>4, DispatchAssumption DEF LogIsNewest
<1>7. SmsInv
  BY <1>2, <1>4, <1>5, <1>6, DispatchAssumption DEF SmsInv
<1>8. eventTx \in {"None", "Open", "Closed"}
  BY DEF DispatchInit
<1> QED
  BY <1>3, <1>7, <1>8 DEF DispatchInv

\* A sequence is one over any set its elements are in.
LEMMA RangeTyped ==
    ASSUME NEW S, NEW T, NEW s \in Seq(S), \A i \in 1..Len(s) : s[i] \in T PROVE s \in Seq(T)
OBVIOUS

\* What the invariant says of requests and of messages.
LEMMA RequestsGood == DispatchInv => AnsweredOnce /\ SmsKept /\ DispatchTypeOK
<1> SUFFICES ASSUME DispatchInv PROVE AnsweredOnce /\ SmsKept /\ DispatchTypeOK
  OBVIOUS
<1>1. /\ ReqInv /\ SmsInv /\ inReq \in Request /\ LogIsNewest /\ LogSize \in Nat /\ MaxSms \in Nat
      /\ smsCount \in 0..MaxSms /\ smsSettled \subseteq 1..smsCount
  BY DispatchAssumption DEF DispatchInv, ReqInv, SmsInv
<1>2. /\ smsLog \in Seq(Nat) /\ Len(smsLog) \in Nat /\ Len(smsLog) <= LogSize /\ Len(smsLog) <= smsCount
      /\ smsCount > Len(smsLog) => Len(smsLog) = LogSize
      /\ \A i \in 1..Len(smsLog) : smsLog[i] = (smsCount - Len(smsLog)) + i
  BY <1>1 DEF LogIsNewest
<1>3. AnsweredOnce
  <2>1. inReq.finals = <<>> \/ \E s \in Nat : inReq.finals = <<[status |-> s, tags |-> IF inReq.to = "None" THEN 0 ELSE 1]>>
    BY <1>1 DEF ReqInv, Answered
  <2>2. /\ Len(inReq.finals) <= 1
        /\ \A i \in 1..Len(inReq.finals) : inReq.finals[i].tags = (IF inReq.to = "None" THEN 0 ELSE 1)
    <3>1. CASE inReq.finals = <<>>
      BY <3>1
    <3>2. CASE inReq.finals # <<>>
      <4>1. PICK s \in Nat : inReq.finals = <<[status |-> s, tags |-> IF inReq.to = "None" THEN 0 ELSE 1]>>
        BY <2>1, <3>2
      <4> DEFINE a == [status |-> s, tags |-> IF inReq.to = "None" THEN 0 ELSE 1]
      <4>2. inReq.finals = <<a>> /\ a.tags = (IF inReq.to = "None" THEN 0 ELSE 1)
        BY <4>1
      <4> HIDE DEF a
      <4>3. Len(inReq.finals) = 1 /\ inReq.finals[1] = a
        BY <4>2
      <4> QED
        BY <4>2, <4>3
    <3> QED
      BY <3>1, <3>2
  <2> QED
    BY <1>1, <2>2 DEF AnsweredOnce, ReqInv
<1>4. SmsKept
  <2>1. ASSUME NEW n \in smsSettled PROVE n \in ToSet(smsLog) \/ n + LogSize <= smsCount
    <3>1. n \in Nat /\ n <= smsCount /\ smsCount \in Nat
      BY <1>1
    <3> DEFINE k == Len(smsLog)
    <3>2. k \in Nat /\ k <= smsCount /\ (smsCount > k => k = LogSize) /\ n \in 1..smsCount
      BY <1>1, <1>2
    <3> HIDE DEF k
    <3>3. CASE n <= smsCount - k
      BY <1>1, <3>1, <3>3, <3>2
    <3>4. CASE ~(n <= smsCount - k)
      <4> DEFINE i == n - (smsCount - k)
      <4>1. i \in 1..k /\ (smsCount - k) + i = n
        BY <3>1, <3>4, <3>2
      <4> HIDE DEF i
      <4>2. smsLog[i] = n /\ i \in DOMAIN smsLog
        BY <1>2, <4>1 DEF k
      <4> QED
        BY <4>2 DEF ToSet
    <3> QED
      BY <3>3, <3>4
  <2>2. \A i, j \in 1..Len(smsLog) : i < j => smsLog[i] < smsLog[j]
    <3> SUFFICES ASSUME NEW i \in 1..Len(smsLog), NEW j \in 1..Len(smsLog), i < j PROVE smsLog[i] < smsLog[j]
      OBVIOUS
    <3>1. smsLog[i] = (smsCount - Len(smsLog)) + i /\ smsLog[j] = (smsCount - Len(smsLog)) + j
      BY <1>2
    <3> QED
      BY <1>1, <1>2, <3>1
  <2> QED
    BY <1>2, <2>1, <2>2 DEF SmsKept
<1>5. DispatchTypeOK
  <2>1. smsLog \in Seq(1..MaxSms)
    <3> DEFINE T == 1..MaxSms
    <3>1. \A i \in 1..Len(smsLog) : smsLog[i] \in T
      BY <1>1, <1>2
    <3> HIDE DEF T
    <3>2. smsLog \in Seq(T)
      BY <1>2, <3>1, RangeTyped
    <3> QED
      BY <3>2 DEF T
  <2>2. smsSettled \subseteq 1..MaxSms
    BY <1>1
  <2> QED
    BY <1>1, <2>1, <2>2 DEF DispatchTypeOK, DispatchInv, SmsInv, Request
<1> QED
  BY <1>3, <1>4, <1>5

-----------------------------------------------------------------------------
(* The start of the program: Startup                                       *)

\* A stage that is listed once is followed by the next one.
LEMMA StageFollows ==
    ASSUME NEW k \in Nat, k \in DOMAIN Stages, NEW s, Stages[k] = s, \A i \in DOMAIN Stages : Stages[i] = s => i = k
    PROVE  After(s) = Stages[k + 1]
<1> DEFINE c == CHOOSE i \in DOMAIN Stages : Stages[i] = s
<1>1. c \in DOMAIN Stages /\ Stages[c] = s
  BY Zenon
<1>2. c = k
  BY <1>1
<1> HIDE DEF c
<1>3. After(s) = Stages[c + 1]
  BY DEF After, c
<1> QED
  BY <1>2, <1>3

\* The stages follow one another as they are listed.
LEMMA StagesFollow ==
    /\ After("config") = "transcription"
    /\ After("transcription") = "recording"
    /\ After("recording") = "push"
    /\ After("push") = "voicemail"
    /\ After("voicemail") = "sms"
    /\ After("sms") = "ngn"
    /\ After("ngn") = "uas"
    /\ After("uas") = "inbound"
    /\ After("inbound") = "give log"
    /\ After("give log") = "give forwarder"
    /\ After("give forwarder") = "give push"
    /\ After("give push") = "give recording"
    /\ After("give recording") = "give sms"
    /\ After("give sms") = "spawn"
    /\ After("spawn") = "http"
    /\ After("http") = "register"
    /\ After("register") = "run"
<1>1. DOMAIN Stages = 1..18
  BY DEF Stages
<1>2. /\ Stages[1] = "config" /\ Stages[2] = "transcription" /\ Stages[3] = "recording"
      /\ Stages[4] = "push" /\ Stages[5] = "voicemail" /\ Stages[6] = "sms"
      /\ Stages[7] = "ngn" /\ Stages[8] = "uas" /\ Stages[9] = "inbound"
      /\ Stages[10] = "give log" /\ Stages[11] = "give forwarder" /\ Stages[12] = "give push"
      /\ Stages[13] = "give recording" /\ Stages[14] = "give sms" /\ Stages[15] = "spawn"
      /\ Stages[16] = "http" /\ Stages[17] = "register" /\ Stages[18] = "run"
  BY DEF Stages
<1>3. \A i \in DOMAIN Stages : \/ i = 1 \/ i = 2 \/ i = 3 \/ i = 4 \/ i = 5 \/ i = 6 \/ i = 7 \/ i = 8 \/ i = 9
                             \/ i = 10 \/ i = 11 \/ i = 12 \/ i = 13 \/ i = 14 \/ i = 15 \/ i = 16 \/ i = 17 \/ i = 18
  BY <1>1
<1>4. ASSUME NEW k \in DOMAIN Stages, NEW i \in DOMAIN Stages, Stages[i] = Stages[k] PROVE i = k
  <2>1. CASE k = 1
    BY <1>2, <1>3, <1>4, <2>1
  <2>2. CASE k = 2
    BY <1>2, <1>3, <1>4, <2>2
  <2>3. CASE k = 3
    BY <1>2, <1>3, <1>4, <2>3
  <2>4. CASE k = 4
    BY <1>2, <1>3, <1>4, <2>4
  <2>5. CASE k = 5
    BY <1>2, <1>3, <1>4, <2>5
  <2>6. CASE k = 6
    BY <1>2, <1>3, <1>4, <2>6
  <2>7. CASE k = 7
    BY <1>2, <1>3, <1>4, <2>7
  <2>8. CASE k = 8
    BY <1>2, <1>3, <1>4, <2>8
  <2>9. CASE k = 9
    BY <1>2, <1>3, <1>4, <2>9
  <2>10. CASE k = 10
    BY <1>2, <1>3, <1>4, <2>10
  <2>11. CASE k = 11
    BY <1>2, <1>3, <1>4, <2>11
  <2>12. CASE k = 12
    BY <1>2, <1>3, <1>4, <2>12
  <2>13. CASE k = 13
    BY <1>2, <1>3, <1>4, <2>13
  <2>14. CASE k = 14
    BY <1>2, <1>3, <1>4, <2>14
  <2>15. CASE k = 15
    BY <1>2, <1>3, <1>4, <2>15
  <2>16. CASE k = 16
    BY <1>2, <1>3, <1>4, <2>16
  <2>17. CASE k = 17
    BY <1>2, <1>3, <1>4, <2>17
  <2>18. CASE k = 18
    BY <1>2, <1>3, <1>4, <2>18
  <2> QED
    BY <1>3, <2>1, <2>2, <2>3, <2>4, <2>5, <2>6, <2>7, <2>8, <2>9, <2>10, <2>11, <2>12, <2>13, <2>14, <2>15, <2>16, <2>17, <2>18
<1>5. \A k \in DOMAIN Stages : After(Stages[k]) = Stages[k + 1]
  BY <1>1, <1>4, StageFollows
<1>6. /\ After(Stages[1]) = Stages[2] /\ After(Stages[2]) = Stages[3] /\ After(Stages[3]) = Stages[4]
      /\ After(Stages[4]) = Stages[5] /\ After(Stages[5]) = Stages[6] /\ After(Stages[6]) = Stages[7]
      /\ After(Stages[7]) = Stages[8] /\ After(Stages[8]) = Stages[9] /\ After(Stages[9]) = Stages[10]
      /\ After(Stages[10]) = Stages[11] /\ After(Stages[11]) = Stages[12] /\ After(Stages[12]) = Stages[13]
      /\ After(Stages[13]) = Stages[14] /\ After(Stages[14]) = Stages[15] /\ After(Stages[15]) = Stages[16]
      /\ After(Stages[16]) = Stages[17] /\ After(Stages[17]) = Stages[18]
  BY <1>1, <1>5
<1>7. After("config") = "transcription" /\ After("transcription") = "recording" /\ After("recording") = "push"
  BY <1>2, <1>6
<1>8. After("push") = "voicemail" /\ After("voicemail") = "sms" /\ After("sms") = "ngn"
  BY <1>2, <1>6
<1>9. After("ngn") = "uas" /\ After("uas") = "inbound" /\ After("inbound") = "give log"
  BY <1>2, <1>6
<1>10. After("give log") = "give forwarder" /\ After("give forwarder") = "give push" /\ After("give push") = "give recording"
  BY <1>2, <1>6
<1>11. After("give recording") = "give sms" /\ After("give sms") = "spawn" /\ After("spawn") = "http"
  BY <1>2, <1>6
<1>12. After("http") = "register" /\ After("register") = "run"
  BY <1>2, <1>6
<1> QED
  BY <1>7, <1>8, <1>9, <1>10, <1>11, <1>12

\* The stages in which nothing is served yet, and those up to the sockets.
Unserved == {"config", "transcription", "recording", "push", "voicemail", "sms", "ngn", "uas", "inbound"}
Late == {"http", "register", "run"}
AllStages == Unserved \cup {"give log", "give forwarder", "give push", "give recording", "give sms", "spawn"} \cup Late

\* The stages in which the handler of the NGN's requests still lacks a feature.
Lacking(f) ==
    CASE f = "log" -> {"give log"}
      [] f = "forwarder" -> {"give log", "give forwarder"}
      [] f = "push" -> {"give log", "give forwarder", "give push"}
      [] f = "recording" -> {"give log", "give forwarder", "give push", "give recording"}
      [] f = "sms" -> {"give log", "give forwarder", "give push", "give recording", "give sms"}
      [] OTHER -> {}

\* Only what exists is given.
GivenExists == \A g \in given : g[2] \in made
\* The NGN's handler serves once it is made, and has what its stage promises.
NgnWired ==
    /\ stage \in Unserved \cup {"exited"} => serving = {}
    /\ stage \notin Unserved \cup {"exited"} /\ conf.uas => "Ngn" \in serving
    /\ "Ngn" \in serving => \A f \in made \cap Uses["Ngn"] : stage \in Lacking(f) \/ <<"Ngn", f>> \in given
\* So does the extensions'.
UasWired ==
    /\ stage \notin Unserved \cup {"exited"} \/ stage = "inbound" => ("log" \in made => <<"Uas", "log">> \in given)
    /\ stage \in {"give sms", "spawn"} \cup Late => ("recording" \in made => <<"Uas", "recording">> \in given)
    /\ stage \in {"spawn"} \cup Late => ("sms" \in made => <<"Uas", "sms">> \in given)
    /\ "Uas" \in serving => stage \in Late
\* The browsers' server is spawned with all there is.
HttpWired ==
    /\ "Http" \in serving => stage \in {"register", "run"} /\ Complete("Http")
    /\ "Ws" \in serving => stage \in {"register", "run"} /\ Complete("Ws") /\ conf.uas
\* A program that starts for the first time is known to the NGN when all is wired.
FirstStart == restarts = 0 => ~missed /\ (known \/ asked => stage = "run")

StartInv ==
    /\ stage \in AllStages \cup {"exited"} /\ serving \subseteq {"Ngn", "Uas", "Http", "Ws"}
    /\ made \subseteq Feature \cup {"log", "forwarder"} /\ restarts \in 0..MaxRestarts /\ missed \in BOOLEAN
    /\ GivenExists /\ NgnWired /\ UasWired /\ HttpWired /\ FirstStart
    /\ known \in BOOLEAN /\ asked \in BOOLEAN

\* In the stages before the sockets nothing has been given to a handler that serves.
LEMMA LoadsFeatures ==
    ASSUME StartInv, stage \in Unserved \ {"inbound"}, stage' \in Unserved \cup {"exited"},
           stage = "uas" \/ stage' # "inbound",
           \A g \in given' : g[2] \in made', made' \subseteq Feature \cup {"log", "forwarder"},
           stage' = "inbound" => ("log" \in made' => <<"Uas", "log">> \in given'),
           UNCHANGED <<serving, asked, known, missed, restarts>>
    PROVE  StartInv'
<1>1. serving' = {} /\ stage \notin {"run"} \cup Late \cup {"spawn", "give sms"}
  BY DEF StartInv, NgnWired, Unserved, Late
<1>2. stage' \notin {"give sms", "spawn"} \cup Late /\ stage' \in AllStages \cup {"exited"}
  BY DEF Unserved, Late, AllStages
<1>3. GivenExists' /\ NgnWired' /\ HttpWired'
  BY <1>1 DEF GivenExists, NgnWired, HttpWired
<1>4. UasWired'
  BY <1>1, <1>2 DEF UasWired
<1>5. FirstStart'
  BY <1>1 DEF StartInv, FirstStart
<1> QED
  BY <1>1, <1>2, <1>3, <1>4, <1>5 DEF StartInv

\* The configuration, the features and the sockets.
LEMMA LoadStep ==
    ASSUME StartInv,
           \/ \E file, flags, uas, secret : Load(file, flags, uas, secret)
           \/ LoadFails
           \/ \E works \in BOOLEAN : BindNgn(works) \/ BindUas(works) \/ \E f \in Feature : MakeFeature(f, works)
    PROVE  StartInv'
<1>1. GivenExists /\ made \subseteq Feature \cup {"log", "forwarder"}
  BY DEF StartInv
<1>2. CASE (\E file, flags, uas, secret : Load(file, flags, uas, secret)) \/ LoadFails
  <2>1. /\ stage = "config" /\ stage' \in {"transcription", "exited"}
        /\ UNCHANGED <<made, given, serving, asked, known, missed, restarts>>
    BY <1>2, StagesFollow DEF Load, LoadFails, Goes, Exits
  <2>2. \A g \in given' : g[2] \in made'
    BY <1>1, <2>1 DEF GivenExists
  <2> QED
    BY <1>1, <2>1, <2>2, LoadsFeatures DEF Unserved
<1>3. ASSUME NEW works \in BOOLEAN, BindNgn(works) PROVE StartInv'
  <2>1. /\ stage = "ngn" /\ stage' \in {"uas", "exited"} /\ made' = made \cup {"log", "forwarder"}
        /\ UNCHANGED <<given, serving, asked, known, missed, restarts>>
    BY <1>3, StagesFollow DEF BindNgn, Goes, Exits
  <2>2. \A g \in given' : g[2] \in made'
    BY <1>1, <2>1 DEF GivenExists
  <2> QED
    BY <1>1, <2>1, <2>2, LoadsFeatures DEF Unserved
<1>4. ASSUME NEW works \in BOOLEAN, BindUas(works) PROVE StartInv'
  <2>1. /\ stage = "uas" /\ stage' \in {"inbound", "exited"}
        /\ UNCHANGED <<made, serving, asked, known, missed, restarts>>
        /\ given' = given \cup Give("Uas", {"log"}) \cup (IF conf.uas THEN Give("Uas", {"sms"}) ELSE {})
    BY <1>4, StagesFollow DEF BindUas, Goes, Exits
  <2>2. \A g \in given' : g[2] \in made'
    BY <1>1, <2>1 DEF GivenExists, Give
  <2>3. "log" \in made' => <<"Uas", "log">> \in given'
    BY <2>1 DEF Give, Uses
  <2> QED
    BY <1>1, <2>1, <2>2, <2>3, LoadsFeatures DEF Unserved
<1>5. ASSUME NEW works \in BOOLEAN, NEW f \in Feature, MakeFeature(f, works) PROVE StartInv'
  <2>1. stage = f /\ stage' = After(f) /\ UNCHANGED <<serving, asked, known, missed, restarts>>
    BY <1>5 DEF MakeFeature, Goes
  <2>2. stage \in Feature /\ stage' \in Unserved \ {"inbound"}
    BY <2>1, StagesFollow DEF Feature, Unserved
  <2>3. made' \subseteq Feature \cup {"log", "forwarder"} /\ made \subseteq made'
    BY <1>1, <1>5 DEF MakeFeature
  <2>4. \A g \in given' : g[2] \in made'
    BY <1>1, <1>5, <2>3 DEF GivenExists, MakeFeature
  <2> QED
    BY <2>1, <2>2, <2>3, <2>4, LoadsFeatures DEF Unserved, Feature
<1> QED
  BY <1>2, <1>3, <1>4, <1>5

\* The NGN's handler serves as soon as it is made.
LEMMA WiresInbound == ASSUME StartInv, WireInbound PROVE StartInv'
<1>1. /\ stage = "inbound" /\ stage' = "give log"
      /\ serving' = (IF conf.uas THEN serving \cup {"Ngn"} ELSE serving)
      /\ given' = (IF conf.uas THEN given \cup Give("Ngn", {"voicemail"}) ELSE given)
      /\ asked' = (asked /\ conf.uas) /\ UNCHANGED <<conf, made, known, missed, restarts>>
  BY StagesFollow DEF WireInbound, Goes
<1>2. serving = {} /\ GivenExists /\ UasWired /\ FirstStart
  BY <1>1 DEF StartInv, NgnWired, Unserved
<1>3. GivenExists' /\ UasWired' /\ HttpWired'
  BY <1>1, <1>2 DEF GivenExists, UasWired, HttpWired, Give, Late, Unserved
<1>4. NgnWired'
  <2>1. stage' \notin Unserved \cup {"exited"} /\ (conf'.uas => "Ngn" \in serving')
    BY <1>1, <1>2 DEF Unserved
  <2>2. ASSUME "Ngn" \in serving', NEW f \in made' \cap Uses["Ngn"]
        PROVE  stage' \in Lacking(f) \/ <<"Ngn", f>> \in given'
    <3>1. conf.uas
      BY <1>1, <1>2, <2>2
    <3>2. f \in {"log", "forwarder", "push", "recording", "sms", "voicemail"}
      BY <2>2 DEF Uses
    <3>3. CASE f = "voicemail"
      BY <1>1, <2>2, <3>1, <3>3 DEF Give
    <3>4. CASE f # "voicemail"
      BY <1>1, <3>2, <3>4 DEF Lacking
    <3> QED
      BY <3>3, <3>4
  <2> QED
    BY <2>1, <2>2 DEF NgnWired
<1>5. FirstStart' /\ asked' \in BOOLEAN
  BY <1>1, <1>2 DEF FirstStart
<1> QED
  BY <1>1, <1>3, <1>4, <1>5 DEF StartInv, AllStages

\* A feature is given to the handlers that are there.
LEMMA GivesFeature ==
    ASSUME StartInv,
           \/ \E f \in {"log", "forwarder", "push"} : GiveInbound(f)
           \/ \E f \in {"recording", "sms"} : GiveBoth(f)
    PROVE  StartInv'
<1>1. PICK f \in {"log", "forwarder", "push", "recording", "sms"} :
        /\ stage = GiveStage[f] /\ stage' = After(GiveStage[f])
        /\ given' = given \cup (IF f \in {"recording", "sms"} THEN Give("Uas", {f}) ELSE {})
                          \cup (IF "Ngn" \in serving THEN Give("Ngn", {f}) ELSE {})
        /\ UNCHANGED <<conf, made, serving, asked, known, missed, restarts>>
  BY DEF GiveInbound, GiveBoth, Goes
<1>2. GivenExists /\ NgnWired /\ UasWired /\ HttpWired /\ FirstStart
  BY DEF StartInv
<1>3. /\ f = "log" => stage = "give log" /\ stage' = "give forwarder"
      /\ f = "forwarder" => stage = "give forwarder" /\ stage' = "give push"
      /\ f = "push" => stage = "give push" /\ stage' = "give recording"
      /\ f = "recording" => stage = "give recording" /\ stage' = "give sms"
      /\ f = "sms" => stage = "give sms" /\ stage' = "spawn"
  <2>1. /\ GiveStage["log"] = "give log" /\ GiveStage["forwarder"] = "give forwarder" /\ GiveStage["push"] = "give push"
        /\ GiveStage["recording"] = "give recording" /\ GiveStage["sms"] = "give sms"
    BY DEF GiveStage
  <2> QED
    BY <1>1, <2>1, StagesFollow
<1>4. /\ stage \in {"give log", "give forwarder", "give push", "give recording", "give sms"}
      /\ stage' \in {"give forwarder", "give push", "give recording", "give sms", "spawn"}
  BY <1>1, <1>3
<1>5. GivenExists' /\ HttpWired' /\ FirstStart' /\ serving' \cap {"Uas", "Http", "Ws"} = {}
  BY <1>1, <1>2, <1>4 DEF GivenExists, UasWired, HttpWired, FirstStart, Give, Late
<1>6. NgnWired'
  <2>1. stage' \notin Unserved \cup {"exited"} /\ (conf'.uas => "Ngn" \in serving')
    BY <1>1, <1>2, <1>4 DEF Unserved, NgnWired
  <2>2. ASSUME "Ngn" \in serving', NEW h \in made' \cap Uses["Ngn"]
        PROVE  stage' \in Lacking(h) \/ <<"Ngn", h>> \in given'
    <3>1. "Ngn" \in serving /\ h \in made \cap Uses["Ngn"] /\ (stage \in Lacking(h) \/ <<"Ngn", h>> \in given)
      BY <1>1, <1>2, <2>2 DEF NgnWired
    <3>2. CASE h = f
      BY <1>1, <3>1, <3>2 DEF Give
    <3>3. CASE h # f
      <4>1. h \in {"log", "forwarder", "push", "recording", "sms", "voicemail"}
        BY <3>1 DEF Uses
      <4>2. stage \in Lacking(h) => stage' \in Lacking(h)
        <5>1. CASE f = "log"
          BY <1>3, <3>3, <4>1, <5>1 DEF Lacking
        <5>2. CASE f = "forwarder"
          BY <1>3, <3>3, <4>1, <5>2 DEF Lacking
        <5>3. CASE f = "push"
          BY <1>3, <3>3, <4>1, <5>3 DEF Lacking
        <5>4. CASE f = "recording"
          BY <1>3, <3>3, <4>1, <5>4 DEF Lacking
        <5>5. CASE f = "sms"
          BY <1>3, <3>3, <4>1, <5>5 DEF Lacking
        <5> QED
          BY <1>1, <5>1, <5>2, <5>3, <5>4, <5>5
      <4> QED
        BY <1>1, <3>1, <4>2
    <3> QED
      BY <3>2, <3>3
  <2> QED
    BY <2>1, <2>2 DEF NgnWired
<1>7. UasWired'
  <2>1. "log" \in made' => <<"Uas", "log">> \in given'
    BY <1>1, <1>2, <1>4 DEF UasWired, Unserved
  <2>2. stage' \in {"give sms", "spawn"} \cup Late => ("recording" \in made' => <<"Uas", "recording">> \in given')
    BY <1>1, <1>2, <1>3 DEF UasWired, Give, Uses, Late
  <2>3. stage' \in {"spawn"} \cup Late => ("sms" \in made' => <<"Uas", "sms">> \in given')
    BY <1>1, <1>2, <1>3 DEF UasWired, Give, Uses, Late
  <2> QED
    BY <1>5, <2>1, <2>2, <2>3 DEF UasWired
<1> QED
  BY <1>1, <1>4, <1>5, <1>6, <1>7 DEF StartInv, AllStages

\* The extensions and the browsers are served, and the number is registered.
LEMMA ServesAll == ASSUME StartInv, SpawnUas \/ StartHttp \/ Register PROVE StartInv'
<1>1. GivenExists /\ NgnWired /\ UasWired /\ HttpWired /\ FirstStart
  BY DEF StartInv
<1>2. CASE SpawnUas
  <2>1. /\ stage = "spawn" /\ stage' = "http" /\ serving' = (IF conf.uas THEN serving \cup {"Uas"} ELSE serving)
        /\ UNCHANGED <<conf, made, given, asked, known, missed, restarts>>
    BY <1>2, StagesFollow DEF SpawnUas, Goes
  <2>2. GivenExists' /\ HttpWired' /\ FirstStart' /\ UasWired'
    BY <1>1, <2>1 DEF GivenExists, HttpWired, FirstStart, UasWired, Unserved, Late
  <2>3. NgnWired'
    <3>1. ASSUME "Ngn" \in serving', NEW f \in made' \cap Uses["Ngn"] PROVE <<"Ngn", f>> \in given'
      <4>1. f \in {"log", "forwarder", "push", "recording", "sms", "voicemail"} /\ "Ngn" \in serving
        BY <2>1, <3>1 DEF Uses
      <4>2. stage \notin Lacking(f)
        BY <2>1, <4>1 DEF Lacking
      <4> QED
        BY <1>1, <2>1, <3>1, <4>1, <4>2 DEF NgnWired
    <3> QED
      BY <1>1, <2>1, <3>1 DEF NgnWired, Unserved
  <2> QED
    BY <2>1, <2>2, <2>3 DEF StartInv, AllStages, Late
<1>3. CASE StartHttp
  <2>1. /\ stage = "http" /\ stage' = "register"
        /\ given' = given \cup Give("Http", Uses["Http"]) \cup (IF Gateway THEN Give("Ws", Uses["Ws"]) ELSE {})
        /\ serving' = serving \cup {"Http"} \cup (IF Gateway THEN {"Ws"} ELSE {})
        /\ UNCHANGED <<conf, made, asked, known, missed, restarts>>
    BY <1>3, StagesFollow DEF StartHttp, Goes, Uses
  <2>2. GivenExists' /\ FirstStart' /\ UasWired'
    BY <1>1, <2>1 DEF GivenExists, FirstStart, UasWired, Unserved, Late, Give
  <2>3. HttpWired'
    BY <1>1, <2>1 DEF HttpWired, Complete, Give, Gateway
  <2>4. NgnWired'
    <3>1. ASSUME "Ngn" \in serving', NEW f \in made' \cap Uses["Ngn"] PROVE <<"Ngn", f>> \in given'
      <4>1. f \in {"log", "forwarder", "push", "recording", "sms", "voicemail"} /\ "Ngn" \in serving
        BY <2>1, <3>1 DEF Uses
      <4>2. stage \notin Lacking(f)
        BY <2>1, <4>1 DEF Lacking
      <4> QED
        BY <1>1, <2>1, <3>1, <4>1, <4>2 DEF NgnWired
    <3> QED
      BY <1>1, <2>1, <3>1 DEF NgnWired, Unserved
  <2> QED
    BY <2>1, <2>2, <2>3, <2>4 DEF StartInv, AllStages, Late
<1>4. CASE Register
  <2>1. /\ stage = "register" /\ stage' = "run" /\ known' = TRUE
        /\ UNCHANGED <<conf, made, given, serving, asked, missed, restarts>>
    BY <1>4, StagesFollow DEF Register, Goes
  <2>2. GivenExists' /\ HttpWired' /\ FirstStart' /\ UasWired'
    BY <1>1, <2>1 DEF GivenExists, HttpWired, Complete, FirstStart, UasWired, Unserved, Late
  <2>3. NgnWired'
    <3>1. ASSUME "Ngn" \in serving', NEW f \in made' \cap Uses["Ngn"] PROVE <<"Ngn", f>> \in given'
      <4>1. f \in {"log", "forwarder", "push", "recording", "sms", "voicemail"} /\ "Ngn" \in serving
        BY <2>1, <3>1 DEF Uses
      <4>2. stage \notin Lacking(f)
        BY <2>1, <4>1 DEF Lacking
      <4> QED
        BY <1>1, <2>1, <3>1, <4>1, <4>2 DEF NgnWired
    <3> QED
      BY <1>1, <2>1, <3>1 DEF NgnWired, Unserved
  <2> QED
    BY <2>1, <2>2, <2>3 DEF StartInv, AllStages, Late
<1> QED
  BY <1>2, <1>3, <1>4

\* Servers end, and the NGN asks, whatever the stage.
LEMMA RunsOn ==
    ASSUME StartInv,
           \/ \E e \in {"Uas", "Http", "Ws"} : ServerEnds(e)
           \/ NgnAsks \/ \E f \in Uses["Ngn"] : NgnServed(f)
           \/ BindingExpires \/ UNCHANGED startVars
    PROVE  StartInv'
<1>1. GivenExists /\ NgnWired /\ UasWired /\ HttpWired /\ FirstStart
  BY DEF StartInv
<1>2. /\ UNCHANGED <<conf, stage, made, given, restarts>> /\ serving' \subseteq serving
      /\ "Ngn" \in serving => "Ngn" \in serving'
  BY DEF ServerEnds, NgnAsks, NgnServed, BindingExpires, startVars
<1>3. /\ known' \in BOOLEAN /\ asked' \in BOOLEAN /\ missed' \in BOOLEAN
  BY DEF StartInv, ServerEnds, NgnAsks, NgnServed, BindingExpires, startVars
<1>4. restarts = 0 /\ (known' \/ asked') => stage = "run"
  BY <1>1 DEF FirstStart, ServerEnds, NgnAsks, NgnServed, BindingExpires, startVars
<1>5. restarts = 0 => ~missed'
  <2>1. CASE missed' = missed
    BY <1>1, <2>1 DEF FirstStart
  <2>2. ASSUME NEW f \in Uses["Ngn"], NgnServed(f), restarts = 0 PROVE ~missed'
    <3>1. stage = "run" /\ ~missed /\ "Ngn" \in serving /\ missed' = (missed \/ (f \in made /\ <<"Ngn", f>> \notin given))
      BY <1>1, <2>2 DEF FirstStart, NgnServed
    <3>2. stage \notin Lacking(f)
      BY <3>1 DEF Lacking
    <3> QED
      BY <1>1, <2>2, <3>1, <3>2 DEF NgnWired
  <2> QED
    BY <2>1, <2>2 DEF ServerEnds, NgnAsks, BindingExpires, startVars
<1>6. GivenExists' /\ NgnWired' /\ UasWired' /\ HttpWired'
  BY <1>1, <1>2 DEF GivenExists, NgnWired, UasWired, HttpWired, Complete
<1>7. FirstStart'
  BY <1>2, <1>4, <1>5 DEF FirstStart
<1> QED
  BY <1>2, <1>3, <1>6, <1>7 DEF StartInv

\* The process starts again with nothing.
LEMMA StartsAgain == ASSUME StartInv, Restart PROVE StartInv'
<1>1. /\ restarts < MaxRestarts /\ restarts' = restarts + 1 /\ restarts \in 0..MaxRestarts /\ MaxRestarts \in Nat
      /\ stage' = "config" /\ made' = {} /\ given' = {} /\ serving' = {}
      /\ asked' = FALSE /\ UNCHANGED <<known, missed>>
  BY StartupAssumption DEF Restart, StartInv
<1>2. restarts' \in 0..MaxRestarts /\ restarts' # 0
  BY <1>1
<1>3. GivenExists' /\ NgnWired' /\ UasWired' /\ HttpWired' /\ FirstStart'
  BY <1>1, <1>2 DEF GivenExists, NgnWired, UasWired, HttpWired, FirstStart, Unserved, Late
<1>4. asked' \in BOOLEAN
  BY <1>1
<1> QED
  BY <1>1, <1>2, <1>3, <1>4 DEF StartInv, AllStages, Unserved

\* Every step keeps the invariant of the start.
LEMMA StartKept == StartInv /\ [StartNext]_startVars => StartInv'
<1> SUFFICES ASSUME StartInv, [StartNext]_startVars PROVE StartInv'
  OBVIOUS
<1>1. Uses.Ngn = Uses["Ngn"]
  OBVIOUS
<1>2. \/ \E file, flags, uas, secret : Load(file, flags, uas, secret)
      \/ LoadFails
      \/ \E works \in BOOLEAN : BindNgn(works) \/ BindUas(works) \/ \E f \in Feature : MakeFeature(f, works)
      \/ WireInbound
      \/ \E f \in {"log", "forwarder", "push"} : GiveInbound(f)
      \/ \E f \in {"recording", "sms"} : GiveBoth(f)
      \/ SpawnUas \/ StartHttp \/ Register
      \/ \E e \in {"Uas", "Http", "Ws"} : ServerEnds(e)
      \/ NgnAsks \/ \E f \in Uses["Ngn"] : NgnServed(f)
      \/ Restart \/ BindingExpires \/ UNCHANGED startVars
  BY <1>1 DEF StartNext
<1> QED
  BY <1>2, LoadStep, WiresInbound, GivesFeature, ServesAll, RunsOn, StartsAgain

\* It holds when the program is first started.
LEMMA StartStarts == StartInit => StartInv
<1> SUFFICES ASSUME StartInit PROVE StartInv
  OBVIOUS
<1>1. known \in BOOLEAN /\ asked \in BOOLEAN /\ missed \in BOOLEAN
  BY DEF StartInit
<1>2. GivenExists /\ NgnWired /\ UasWired /\ HttpWired /\ FirstStart
  BY DEF StartInit, GivenExists, NgnWired, UasWired, HttpWired, FirstStart, Unserved, Late
<1> QED
  BY <1>1, <1>2, StartupAssumption DEF StartInit, StartInv, AllStages, Unserved

\* What the invariant says of the features.
LEMMA StartGood == StartInv => FeatureEverywhere /\ FirstStartMissesNothing
<1> SUFFICES ASSUME StartInv PROVE FeatureEverywhere /\ FirstStartMissesNothing
  OBVIOUS
<1>1. /\ GivenExists /\ NgnWired /\ UasWired /\ HttpWired /\ FirstStart
      /\ serving \subseteq {"Ngn", "Uas", "Http", "Ws"}
  BY DEF StartInv
<1>2. stage \in {"register", "run"} /\ "Ngn" \in serving => Complete("Ngn")
  <2> SUFFICES ASSUME stage \in {"register", "run"}, "Ngn" \in serving, NEW f \in made \cap Uses["Ngn"]
               PROVE  <<"Ngn", f>> \in given
    BY DEF Complete
  <2>1. stage \notin Lacking(f)
    BY DEF Lacking
  <2> QED
    BY <1>1, <2>1 DEF NgnWired
<1>3. ASSUME "Uas" \in serving PROVE Complete("Uas")
  <2>1. /\ stage \in Late
        /\ \A f \in {"log", "recording", "sms"} : f \in made => <<"Uas", f>> \in given
    BY <1>1, <1>3 DEF UasWired, Late, Unserved
  <2>2. Uses["Uas"] = {"log", "recording", "sms"}
    BY DEF Uses
  <2> QED
    BY <2>1, <2>2 DEF Complete
<1>4. ASSUME "Ws" \in serving, "push" \in made PROVE <<"Ngn", "push">> \in given
  <2>1. stage \in {"register", "run"} /\ conf.uas
    BY <1>1, <1>4 DEF HttpWired
  <2>2. "Ngn" \in serving /\ "push" \in Uses["Ngn"]
    BY <1>1, <2>1 DEF NgnWired, Unserved, Uses
  <2> QED
    BY <1>2, <1>4, <2>1, <2>2 DEF Complete
<1>5. \A e \in serving \ {"Ngn"} : Complete(e)
  BY <1>1, <1>3 DEF HttpWired
<1> QED
  BY <1>1, <1>2, <1>4, <1>5 DEF FeatureEverywhere, FirstStartMissesNothing, GivenExists, FirstStart

-----------------------------------------------------------------------------
(* The peer of a browser's session: PeerConnection                         *)

Requests == {"CreateOffer", "AcceptAnswer", "AcceptOffer", "AddRemoteCandidate"}
Command == [by : Caller, op : Requests \cup {"SendMedia", "Close"}, good : BOOLEAN]
CallerState == [stage : {"Idle", "Offered", "InCall"} \cup Awaiting, reply : {"None", "Ok", "Err"}]

AwaitsReply(c) == pcCaller[c].stage \in Awaiting /\ pcCaller[c].reply = "None"

\* A request in the queue is its caller's only one, and the caller waits for it.
QueueInv ==
    /\ \A i \in 1..Len(pcQueue) : pcQueue[i].op \in Requests =>
          /\ AwaitsReply(pcQueue[i].by)
          /\ pcQueue[i].op = "AcceptAnswer" => pcQueue[i].by \in Leg /\ pcCaller[pcQueue[i].by].stage = "Answering"
    /\ \A i, j \in 1..Len(pcQueue) :
          pcQueue[i].op \in Requests /\ pcQueue[j].op \in Requests /\ pcQueue[i].by = pcQueue[j].by => i = j

\* Who waits has its request in the queue of a loop that runs.
WaitersServed ==
    \A c \in Caller : AwaitsReply(c) =>
        pcLoop = "Up" /\ \E i \in 1..Len(pcQueue) : pcQueue[i].by = c /\ pcQueue[i].op \in Requests

\* The audio line is one both ends know, or none is, or it is about to be.
LineInv ==
    pcLoop \in {"Unbound", "Up"} =>
        \/ Doomed
        \/ pcMid \in pcLines.known
        \/ pcMid = 0 /\ pcPending = 0 /\ (pcLines.known = {} \/ pcEvents = <<"MediaAdded">>)
        \/ pcMid # 0 /\ pcPending = pcMid

\* Nobody calls a session that has not begun.
NotBegun == pcLoop = "Unbound" => \A c \in Caller : pcCaller[c].stage = "Idle"

PeerTypes ==
    /\ pcQueue \in Seq(Command) /\ pcCaller \in [Caller -> CallerState]
    /\ pcLoop \in {"Unbound", "Up", "Over", "Stub", "StubClosed"}
    /\ pcMid \in Nat /\ pcPending \in Nat /\ pcLines \in [made : Nat, known : SUBSET Nat]
    /\ pcEvents \in {<<>>, <<"MediaAdded">>, <<"IceState">>, <<"MediaData">>}
    /\ pcEvents = <<"MediaAdded">> => pcLines.made \in pcLines.known

PeerInv == PeerTypes /\ QueueInv /\ WaitersServed /\ LineInv /\ NotBegun

\* A caller that waits for nothing asks: its request is the last in the queue.
LEMMA Enqueued ==
    ASSUME PeerInv, NEW c \in Caller, ~AwaitsReply(c), NEW op \in Requests, NEW g \in Awaiting, NEW good \in BOOLEAN,
           op = "AcceptAnswer" => c \in Leg /\ g = "Answering", pcLoop = "Up",
           ~(pcCaller[c].stage = "Answering"),
           pcQueue' = Append(pcQueue, [by |-> c, op |-> op, good |-> good]),
           pcCaller' = [pcCaller EXCEPT ![c] = [stage |-> g, reply |-> "None"]],
           UNCHANGED <<pcLoop, pcPending, pcMid, pcLines, pcEvents>>
    PROVE  PeerInv'
<1> DEFINE x == [by |-> c, op |-> op, good |-> good]
           n == Len(pcQueue)
           s == [stage |-> g, reply |-> "None"]
<1>1. x \in Command /\ x.by = c /\ x.op = op
  BY DEF Command
<1>2. s \in CallerState /\ s.stage = g /\ s.reply = "None"
  BY DEF CallerState
<1>3. pcQueue \in Seq(Command) /\ pcCaller \in [Caller -> CallerState] /\ pcQueue' = Append(pcQueue, x)
      /\ pcCaller' = [pcCaller EXCEPT ![c] = s]
  BY DEF PeerInv, PeerTypes
<1> HIDE DEF x, s
<1>4. /\ pcQueue' \in Seq(Command) /\ n \in Nat /\ Len(pcQueue') = n + 1 /\ pcQueue'[n + 1] = x
      /\ \A i \in 1..n : pcQueue'[i] = pcQueue[i] /\ pcQueue[i] \in Command
  BY <1>1, <1>3
<1>5. /\ pcCaller' \in [Caller -> CallerState] /\ pcCaller'[c] = s
      /\ \A d \in Caller : d # c => pcCaller'[d] = pcCaller[d]
  BY <1>2, <1>3
<1>6. AwaitsReply(c)' /\ \A d \in Caller : d # c => AwaitsReply(d)' = AwaitsReply(d)
  BY <1>2, <1>5 DEF AwaitsReply
<1> HIDE DEF n
<1>7. \A i \in 1..(n + 1) : i \in 1..n \/ i = n + 1
  BY <1>4
<1>8. \A i \in 1..n : pcQueue[i].by \in Caller /\ (pcQueue[i].op \in Requests => pcQueue[i].by # c)
  BY <1>4 DEF PeerInv, QueueInv, Command, n
<1>9. QueueInv'
  <2>1. ASSUME NEW i \in 1..(n + 1), pcQueue'[i].op \in Requests
        PROVE  /\ pcCaller'[pcQueue'[i].by].stage \in Awaiting /\ pcCaller'[pcQueue'[i].by].reply = "None"
               /\ pcQueue'[i].op = "AcceptAnswer" => pcQueue'[i].by \in Leg /\ pcCaller'[pcQueue'[i].by].stage = "Answering"
    <3>1. CASE i \in 1..n
      <4>1. pcQueue'[i] = pcQueue[i] /\ pcQueue[i].by \in Caller /\ pcQueue[i].by # c
        BY <1>4, <1>8, <2>1, <3>1
      <4>2. /\ AwaitsReply(pcQueue[i].by)
            /\ pcQueue[i].op = "AcceptAnswer" => pcQueue[i].by \in Leg /\ pcCaller[pcQueue[i].by].stage = "Answering"
        BY <2>1, <3>1, <4>1 DEF PeerInv, QueueInv, n
      <4>3. pcCaller'[pcQueue[i].by] = pcCaller[pcQueue[i].by]
        BY <1>5, <4>1
      <4> QED
        BY <4>1, <4>2, <4>3 DEF AwaitsReply
    <3>2. CASE i = n + 1
      BY <1>1, <1>2, <1>4, <1>5, <3>2 DEF AwaitsReply
    <3> QED
      BY <1>7, <3>1, <3>2
  <2>2. ASSUME NEW i \in 1..(n + 1), NEW j \in 1..(n + 1), pcQueue'[i].op \in Requests, pcQueue'[j].op \in Requests,
               pcQueue'[i].by = pcQueue'[j].by
        PROVE  i = j
    <3>1. CASE i \in 1..n /\ j \in 1..n
      BY <1>4, <2>2, <3>1 DEF PeerInv, QueueInv, n
    <3>2. CASE i = n + 1 /\ j \in 1..n
      BY <1>1, <1>4, <1>8, <2>2, <3>2
    <3>3. CASE i \in 1..n /\ j = n + 1
      BY <1>1, <1>4, <1>8, <2>2, <3>3
    <3> QED
      BY <1>7, <3>1, <3>2, <3>3
  <2> QED
    BY <1>4, <2>1, <2>2 DEF QueueInv, AwaitsReply
<1>10. WaitersServed'
  <2> SUFFICES ASSUME NEW d \in Caller, AwaitsReply(d)'
               PROVE  pcLoop' = "Up" /\ \E i \in 1..Len(pcQueue') : pcQueue'[i].by = d /\ pcQueue'[i].op \in Requests
    BY DEF WaitersServed
  <2>1. CASE d = c
    BY <1>1, <1>4, <2>1
  <2>2. CASE d # c
    <3>1. PICK i \in 1..n : pcQueue[i].by = d /\ pcQueue[i].op \in Requests
      BY <1>6, <2>2 DEF PeerInv, WaitersServed, n
    <3>2. i \in 1..(n + 1)
      BY <1>4, <3>1
    <3> QED
      BY <1>4, <3>1, <3>2
  <2> QED
    BY <2>1, <2>2
<1>11. LineInv'
  <2>1. Doomed => Doomed'
    <3>1. ASSUME NEW i \in DOMAIN pcQueue, pcQueue[i].op = "Close" PROVE Doomed'
      <4>1. i \in 1..n /\ i \in DOMAIN pcQueue' /\ pcQueue'[i].op = "Close"
        BY <1>3, <1>4, <3>1 DEF n
      <4> QED
        BY <4>1 DEF Doomed
    <3>2. ASSUME NEW l \in Leg, pcCaller[l].stage = "Answering", pcCaller[l].reply = "Err" PROVE Doomed'
      BY <1>5, <3>2 DEF Doomed, Caller
    <3> QED
      BY <3>1, <3>2 DEF Doomed
  <2> QED
    BY <2>1 DEF PeerInv, LineInv
<1> QED
  BY <1>4, <1>5, <1>9, <1>10, <1>11 DEF PeerInv, PeerTypes, NotBegun

\* A caller that waits for nothing goes on to where it waits for nothing, and may
\* leave a frame or Close in the queue.
LEMMA CallerGoesOn ==
    ASSUME PeerInv, NEW c \in Caller, ~AwaitsReply(c), NEW s \in CallerState,
           ~(s.stage \in Awaiting /\ s.reply = "None"),
           NEW x \in Command, x.op \notin Requests,
           pcQueue' = pcQueue \/ pcQueue' = Append(pcQueue, x),
           pcCaller' = [pcCaller EXCEPT ![c] = s],
           c \in Leg /\ pcCaller[c].stage = "Answering" /\ pcCaller[c].reply = "Err" /\ pcLoop = "Up" =>
               x.op = "Close" /\ pcQueue' = Append(pcQueue, x),
           pcLoop = "Unbound" => s.stage = "Idle",
           pcLoop' = pcLoop \/ (pcLoop = "Stub" /\ pcLoop' = "StubClosed"),
           UNCHANGED <<pcPending, pcMid, pcLines, pcEvents>>
    PROVE  PeerInv'
<1> DEFINE n == Len(pcQueue)
<1>1. pcQueue \in Seq(Command) /\ pcCaller \in [Caller -> CallerState]
  BY DEF PeerInv, PeerTypes
<1>2. /\ pcQueue' \in Seq(Command) /\ n \in Nat /\ Len(pcQueue') \in {n, n + 1}
      /\ \A i \in 1..n : pcQueue'[i] = pcQueue[i] /\ pcQueue[i] \in Command
      /\ \A i \in 1..Len(pcQueue') : i \in 1..n \/ pcQueue'[i] = x
  <2>1. CASE pcQueue' = pcQueue
    BY <1>1, <2>1
  <2>2. CASE pcQueue' = Append(pcQueue, x)
    <3>1. pcQueue' \in Seq(Command) /\ n \in Nat /\ Len(pcQueue') = n + 1 /\ pcQueue'[n + 1] = x
          /\ \A i \in 1..n : pcQueue'[i] = pcQueue[i] /\ pcQueue[i] \in Command
      BY <1>1, <2>2
    <3> QED
      BY <3>1
  <2> QED
    BY <2>1, <2>2
<1>3. /\ pcCaller' \in [Caller -> CallerState] /\ pcCaller'[c] = s
      /\ \A d \in Caller : d # c => pcCaller'[d] = pcCaller[d]
  BY <1>1
<1> HIDE DEF n
<1>4. \A i \in 1..n : pcQueue[i].by \in Caller /\ (pcQueue[i].op \in Requests => pcQueue[i].by # c)
  BY <1>2 DEF PeerInv, QueueInv, Command, n
<1>5. \A i \in 1..Len(pcQueue') : pcQueue'[i].op \in Requests =>
         i \in 1..n /\ pcQueue'[i] = pcQueue[i] /\ pcQueue[i].by \in Caller /\ pcQueue[i].by # c
  BY <1>2, <1>4
<1>6. QueueInv'
  <2>1. ASSUME NEW i \in 1..Len(pcQueue'), pcQueue'[i].op \in Requests
        PROVE  /\ pcCaller'[pcQueue'[i].by].stage \in Awaiting /\ pcCaller'[pcQueue'[i].by].reply = "None"
               /\ pcQueue'[i].op = "AcceptAnswer" => pcQueue'[i].by \in Leg /\ pcCaller'[pcQueue'[i].by].stage = "Answering"
    <3>1. i \in 1..n /\ pcQueue'[i] = pcQueue[i] /\ pcQueue[i].by \in Caller /\ pcQueue[i].by # c
      BY <1>5, <2>1
    <3>2. /\ AwaitsReply(pcQueue[i].by)
          /\ pcQueue[i].op = "AcceptAnswer" => pcQueue[i].by \in Leg /\ pcCaller[pcQueue[i].by].stage = "Answering"
      BY <2>1, <3>1 DEF PeerInv, QueueInv, n
    <3>3. pcCaller'[pcQueue[i].by] = pcCaller[pcQueue[i].by]
      BY <1>3, <3>1
    <3> QED
      BY <3>1, <3>2, <3>3 DEF AwaitsReply
  <2>2. ASSUME NEW i \in 1..Len(pcQueue'), NEW j \in 1..Len(pcQueue'), pcQueue'[i].op \in Requests,
               pcQueue'[j].op \in Requests, pcQueue'[i].by = pcQueue'[j].by
        PROVE  i = j
    BY <1>5, <2>2 DEF PeerInv, QueueInv, n
  <2> QED
    BY <2>1, <2>2 DEF QueueInv, AwaitsReply
<1>7. WaitersServed'
  <2> SUFFICES ASSUME NEW d \in Caller, AwaitsReply(d)'
               PROVE  pcLoop' = "Up" /\ \E i \in 1..Len(pcQueue') : pcQueue'[i].by = d /\ pcQueue'[i].op \in Requests
    BY DEF WaitersServed
  <2>1. d # c /\ AwaitsReply(d)
    BY <1>3 DEF AwaitsReply
  <2>2. pcLoop = "Up" /\ \E i \in 1..n : pcQueue[i].by = d /\ pcQueue[i].op \in Requests
    BY <2>1 DEF PeerInv, WaitersServed, n
  <2>3. PICK i \in 1..n : pcQueue[i].by = d /\ pcQueue[i].op \in Requests
    BY <2>2
  <2>4. i \in 1..Len(pcQueue')
    BY <1>2, <2>3
  <2> QED
    BY <1>2, <2>2, <2>3, <2>4
<1>8. LineInv'
  <2>1. ASSUME pcLoop \in {"Unbound", "Up"}, Doomed PROVE Doomed'
    <3>1. ASSUME NEW i \in DOMAIN pcQueue, pcQueue[i].op = "Close" PROVE Doomed'
      <4>1. i \in 1..n /\ i \in DOMAIN pcQueue' /\ pcQueue'[i].op = "Close"
        BY <1>1, <1>2, <3>1 DEF n
      <4> QED
        BY <4>1 DEF Doomed
    <3>2. ASSUME NEW l \in Leg, pcCaller[l].stage = "Answering", pcCaller[l].reply = "Err" PROVE Doomed'
      <4>1. CASE l # c
        BY <1>3, <3>2, <4>1 DEF Doomed, Caller
      <4>2. CASE l = c
        <5>1. pcLoop = "Up"
          BY <2>1, <3>2, <4>2 DEF PeerInv, NotBegun
        <5>2. x.op = "Close" /\ pcQueue' = Append(pcQueue, x)
          BY <3>2, <4>2, <5>1
        <5>3. n + 1 \in DOMAIN pcQueue' /\ pcQueue'[n + 1] = x
          BY <1>1, <5>2 DEF n
        <5> QED
          BY <5>2, <5>3 DEF Doomed
      <4> QED
        BY <4>1, <4>2
    <3> QED
      BY <2>1, <3>1, <3>2 DEF Doomed
  <2> QED
    BY <2>1 DEF PeerInv, LineInv
<1>9. NotBegun'
  BY <1>3 DEF PeerInv, NotBegun
<1> QED
  BY <1>2, <1>3, <1>6, <1>7, <1>8, <1>9 DEF PeerInv, PeerTypes

\* The request at the head of the queue is answered.
LEMMA RequestServed ==
    ASSUME PeerInv, pcQueue # <<>>, Head(pcQueue).op \in Requests, NEW r \in {"Ok", "Err"},
           pcQueue' = Tail(pcQueue), pcLoop' = pcLoop,
           pcCaller' = [pcCaller EXCEPT ![Head(pcQueue).by].reply = r]
    PROVE  /\ QueueInv' /\ WaitersServed' /\ NotBegun' /\ (Doomed => Doomed')
           /\ pcQueue' \in Seq(Command) /\ pcCaller' \in [Caller -> CallerState]
           /\ Head(pcQueue).op = "AcceptAnswer" /\ r = "Err" => Doomed'
<1> DEFINE n == Len(pcQueue)
           c == Head(pcQueue).by
<1>1. pcQueue \in Seq(Command) /\ pcCaller \in [Caller -> CallerState]
  BY DEF PeerInv, PeerTypes
<1>2. /\ pcQueue' \in Seq(Command) /\ n \in Nat \ {0} /\ Len(pcQueue') = n - 1 /\ Head(pcQueue) = pcQueue[1]
      /\ \A i \in 1..n : pcQueue[i] \in Command
      /\ \A i \in 1..(n - 1) : pcQueue'[i] = pcQueue[i + 1]
  BY <1>1
<1>3. c \in Caller /\ c = pcQueue[1].by /\ pcQueue[1].op \in Requests /\ 1 \in 1..n
  BY <1>2 DEF Command
<1>4. AwaitsReply(c) /\ (pcQueue[1].op = "AcceptAnswer" => c \in Leg /\ pcCaller[c].stage = "Answering")
  BY <1>3 DEF PeerInv, QueueInv, n
<1> HIDE DEF n, c
<1>5. /\ pcCaller' \in [Caller -> CallerState] /\ pcCaller'[c].stage = pcCaller[c].stage /\ pcCaller'[c].reply = r
      /\ \A d \in Caller : d # c => pcCaller'[d] = pcCaller[d]
  <2>1. pcCaller' = [pcCaller EXCEPT ![c].reply = r]
    BY DEF c
  <2> QED
    BY <1>1, <1>3, <2>1 DEF CallerState
<1>6. \A i \in 1..(n - 1) : /\ i + 1 \in 1..n /\ i + 1 # 1 /\ pcQueue'[i] = pcQueue[i + 1]
                            /\ pcQueue[i + 1].by \in Caller
                            /\ pcQueue[i + 1].op \in Requests => pcQueue[i + 1].by # c
  <2> SUFFICES ASSUME NEW i \in 1..(n - 1)
               PROVE  /\ i + 1 \in 1..n /\ i + 1 # 1 /\ pcQueue'[i] = pcQueue[i + 1] /\ pcQueue[i + 1].by \in Caller
                      /\ pcQueue[i + 1].op \in Requests => pcQueue[i + 1].by # c
    OBVIOUS
  <2>1. i + 1 \in 1..n /\ i + 1 # 1
    BY <1>2
  <2>2. pcQueue[i + 1] \in Command /\ pcQueue'[i] = pcQueue[i + 1]
    BY <1>2, <2>1
  <2>3. pcQueue[i + 1].op \in Requests => pcQueue[i + 1].by # c
    BY <1>3, <2>1 DEF PeerInv, QueueInv, n
  <2> QED
    BY <2>1, <2>2, <2>3 DEF Command
<1>7. QueueInv'
  <2>1. ASSUME NEW i \in 1..(n - 1), pcQueue'[i].op \in Requests
        PROVE  /\ pcCaller'[pcQueue'[i].by].stage \in Awaiting /\ pcCaller'[pcQueue'[i].by].reply = "None"
               /\ pcQueue'[i].op = "AcceptAnswer" => pcQueue'[i].by \in Leg /\ pcCaller'[pcQueue'[i].by].stage = "Answering"
    <3> DEFINE k == i + 1
    <3>1. k \in 1..n /\ pcQueue'[i] = pcQueue[k] /\ pcQueue[k].by \in Caller /\ pcQueue[k].by # c
      BY <1>6, <2>1
    <3> HIDE DEF k
    <3>2. /\ AwaitsReply(pcQueue[k].by)
          /\ pcQueue[k].op = "AcceptAnswer" => pcQueue[k].by \in Leg /\ pcCaller[pcQueue[k].by].stage = "Answering"
      BY <2>1, <3>1 DEF PeerInv, QueueInv, n
    <3>3. pcCaller'[pcQueue[k].by] = pcCaller[pcQueue[k].by]
      BY <1>5, <3>1
    <3> QED
      BY <3>1, <3>2, <3>3 DEF AwaitsReply
  <2>2. ASSUME NEW i \in 1..(n - 1), NEW j \in 1..(n - 1), pcQueue'[i].op \in Requests,
               pcQueue'[j].op \in Requests, pcQueue'[i].by = pcQueue'[j].by
        PROVE  i = j
    <3>1. i + 1 = j + 1
      <4>1. /\ i + 1 \in 1..n /\ j + 1 \in 1..n /\ pcQueue[i + 1].op \in Requests /\ pcQueue[j + 1].op \in Requests
            /\ pcQueue[i + 1].by = pcQueue[j + 1].by
        BY <1>6, <2>2
      <4> QED
        BY <4>1 DEF PeerInv, QueueInv, n
    <3> QED
      BY <3>1
  <2> QED
    BY <1>2, <2>1, <2>2 DEF QueueInv, AwaitsReply
<1>8. WaitersServed'
  <2> SUFFICES ASSUME NEW d \in Caller, AwaitsReply(d)'
               PROVE  pcLoop' = "Up" /\ \E i \in 1..Len(pcQueue') : pcQueue'[i].by = d /\ pcQueue'[i].op \in Requests
    BY DEF WaitersServed
  <2>1. d # c /\ AwaitsReply(d)
    BY <1>5 DEF AwaitsReply
  <2>2. pcLoop = "Up" /\ \E i \in 1..n : pcQueue[i].by = d /\ pcQueue[i].op \in Requests
    BY <2>1 DEF PeerInv, WaitersServed, n
  <2>3. PICK i \in 1..n : pcQueue[i].by = d /\ pcQueue[i].op \in Requests
    BY <2>2
  <2>4. i # 1 /\ i - 1 \in 1..(n - 1) /\ (i - 1) + 1 = i
    BY <1>2, <1>3, <2>1, <2>3
  <2>5. pcQueue'[i - 1] = pcQueue[i]
    BY <1>2, <2>4
  <2> QED
    BY <1>2, <2>2, <2>3, <2>4, <2>5
<1>9. Doomed => Doomed'
  <2>1. ASSUME NEW i \in DOMAIN pcQueue, pcQueue[i].op = "Close" PROVE Doomed'
    <3>1. i \in 1..n /\ i # 1
      BY <1>1, <1>3, <2>1 DEF n, Requests
    <3>2. i - 1 \in 1..(n - 1) /\ (i - 1) + 1 = i
      BY <1>2, <3>1
    <3>3. pcQueue'[i - 1] = pcQueue[i] /\ DOMAIN pcQueue' = 1..(n - 1)
      BY <1>2, <3>2
    <3> QED
      BY <2>1, <3>2, <3>3 DEF Doomed
  <2>2. ASSUME NEW l \in Leg, pcCaller[l].stage = "Answering", pcCaller[l].reply = "Err" PROVE Doomed'
    <3>1. l # c /\ l \in Caller
      BY <1>4, <2>2 DEF AwaitsReply, Caller
    <3> QED
      BY <1>5, <2>2, <3>1 DEF Doomed
  <2> QED
    BY <2>1, <2>2 DEF Doomed
<1>10. Head(pcQueue).op = "AcceptAnswer" /\ r = "Err" => Doomed'
  BY <1>2, <1>4, <1>5 DEF Doomed
<1>11. NotBegun'
  BY <1>5, <1>3 DEF PeerInv, NotBegun
<1> QED
  BY <1>2, <1>5, <1>7, <1>8, <1>9, <1>10, <1>11

\* What run_loop takes is the head of the queue, once the engine is silent.
LEMMA TakenIsHead ==
    ASSUME PeerInv, pcQueue # <<>>, NEW op \in Requests \cup {"SendMedia"}, Taken.op = op
    PROVE  /\ Head(pcQueue).op = op /\ Taken.by = Head(pcQueue).by /\ Taken.good = Head(pcQueue).good
           /\ pcLoop = "Up" /\ pcEvents = <<>>
<1>1. pcQueue \in Seq(Command)
  BY DEF PeerInv, PeerTypes
<1> DEFINE h == Head(pcQueue)
<1>2. h \in Command
  BY <1>1
<1> HIDE DEF h
<1>3. Taken = [h EXCEPT !.op = IF pcLoop = "Up" /\ pcEvents = <<>> THEN @ ELSE "None"]
  BY DEF Taken, h
<1>4. Taken.op = (IF pcLoop = "Up" /\ pcEvents = <<>> THEN h.op ELSE "None") /\ Taken.by = h.by /\ Taken.good = h.good
  BY <1>2, <1>3 DEF Command
<1>5. op # "None"
  BY DEF Requests
<1> QED
  BY <1>4, <1>5 DEF h

\* A call of PeerSession.
LEMMA Asked ==
    ASSUME PeerInv, NEW c \in Caller, ~AwaitsReply(c), pcCaller[c].stage # "Answering", pcLoop # "Unbound",
           NEW op \in Requests, NEW g \in Awaiting, NEW good \in BOOLEAN,
           op = "AcceptAnswer" => c \in Leg /\ g = "Answering", Ask(c, op, g, good)
    PROVE  PeerInv'
<1>1. UNCHANGED <<pcLoop, pcPending, pcMid, pcLines, pcEvents>>
  BY DEF Ask
<1>2. CASE pcLoop = "Up"
  <2>1. /\ pcQueue' = Append(pcQueue, [by |-> c, op |-> op, good |-> good])
        /\ pcCaller' = [pcCaller EXCEPT ![c] = [stage |-> g, reply |-> "None"]]
    BY <1>2 DEF Ask
  <2> QED
    BY <1>1, <1>2, <2>1, Enqueued
<1>3. CASE pcLoop # "Up"
  <2>1. PICK r \in {"Ok", "Err"} : pcCaller' = [pcCaller EXCEPT ![c] = [stage |-> g, reply |-> r]] /\ pcQueue' = pcQueue
    <3>1. CASE pcLoop \in {"Stub", "StubClosed"}
      BY <1>3, <3>1 DEF Ask
    <3>2. CASE pcLoop \notin {"Stub", "StubClosed"}
      BY <1>3, <3>2 DEF Ask
    <3> QED
      BY <3>1, <3>2
  <2> DEFINE s == [stage |-> g, reply |-> r]
             x == [by |-> c, op |-> "SendMedia", good |-> TRUE]
  <2>2. s \in CallerState /\ s.reply # "None"
    BY DEF CallerState
  <2>3. x \in Command /\ x.op = "SendMedia" /\ x.op \notin Requests
    BY DEF Command, Requests
  <2>4. pcCaller' = [pcCaller EXCEPT ![c] = s]
    BY <2>1
  <2> HIDE DEF s, x
  <2> QED
    BY <1>1, <1>3, <2>1, <2>2, <2>3, <2>4, CallerGoesOn
<1> QED
  BY <1>2, <1>3

\* The legs and the session ask, or go on with their replies.
LEMMA CallersAct ==
    ASSUME PeerInv,
           \/ \E l \in Leg : RingBrowser(l) \/ OfferMade(l) \/ OfferUnanswered(l) \/ AnswerTaken(l)
           \/ \E l \in Leg, g \in BOOLEAN : BrowserAnswers(l, g)
           \/ \E dialling \in BOOLEAN, d \in SessionDescription : BrowserOffers(dialling, d)
           \/ \E g \in BOOLEAN : BrowserCandidate(g)
           \/ WebReplied
           \/ \E c \in Caller : CallOver(c) \/ SendMedia(c)
           \/ SessionCloses
    PROVE  PeerInv'
<1> DEFINE Frame(c) == [by |-> c, op |-> "SendMedia", good |-> TRUE]
           Shut(c) == [by |-> c, op |-> "Close", good |-> TRUE]
           Rest(g) == [stage |-> g, reply |-> "None"]
<1>1. /\ \A c \in Caller : Frame(c) \in Command /\ Frame(c).op \notin Requests
                           /\ Shut(c) \in Command /\ Shut(c).op \notin Requests /\ Shut(c).op = "Close"
      /\ \A g \in {"Idle", "Offered", "InCall"} :
            Rest(g) \in CallerState /\ Rest(g).stage = g /\ Rest(g).stage \notin Awaiting
      /\ Leg \subseteq Caller /\ "web" \in Caller
  BY DEF Command, Requests, CallerState, Caller, Awaiting
<1>2. /\ pcCaller \in [Caller -> CallerState]
      /\ \A c \in Caller : pcCaller[c].stage \notin Awaiting \/ pcCaller[c].reply # "None" => ~AwaitsReply(c)
      /\ \A c \in Caller : pcLoop = "Unbound" => pcCaller[c].stage = "Idle"
      /\ \A g \in {"Idle", "Offered", "InCall"} : g \notin Awaiting /\ g # "Answering"
      /\ {"Offering", "Answering", "Dialling", "Describing", "AddingCandidate"} \subseteq Awaiting
  BY DEF PeerInv, PeerTypes, AwaitsReply, NotBegun, Awaiting
<1> HIDE DEF Frame, Shut, Rest
<1>3. ASSUME NEW l \in Leg, RingBrowser(l) PROVE PeerInv'
  <2>1. pcLoop # "Unbound" /\ pcCaller[l].stage = "Idle" /\ Ask(l, "CreateOffer", "Offering", TRUE)
    BY <1>3 DEF RingBrowser
  <2>2. "CreateOffer" \in Requests /\ "CreateOffer" # "AcceptAnswer" /\ TRUE \in BOOLEAN
    BY DEF Requests
  <2> QED
    BY <1>1, <1>2, <2>1, <2>2, Asked
<1>4. ASSUME NEW l \in Leg, NEW g \in BOOLEAN, BrowserAnswers(l, g) PROVE PeerInv'
  <2>1. pcCaller[l].stage = "Offered" /\ Ask(l, "AcceptAnswer", "Answering", g)
    BY <1>4 DEF BrowserAnswers
  <2>2. "AcceptAnswer" \in Requests /\ pcLoop # "Unbound"
    BY <1>1, <1>2, <2>1 DEF Requests
  <2> QED
    BY <1>1, <1>2, <2>1, <2>2, Asked
<1>5. ASSUME NEW dialling \in BOOLEAN, NEW d \in SessionDescription, BrowserOffers(dialling, d) PROVE PeerInv'
  <2> DEFINE good == (IF pcLoop = "Up" THEN d.formats # <<>> ELSE MinimalAnswer(d) # NoAnswer)
             g == IF dialling THEN "Dialling" ELSE "Describing"
  <2>1. pcLoop # "Unbound" /\ pcCaller["web"].stage = "Idle" /\ Ask("web", "AcceptOffer", g, good)
    BY <1>5 DEF BrowserOffers
  <2>2. good \in BOOLEAN /\ g \in Awaiting /\ "AcceptOffer" \in Requests /\ "AcceptOffer" # "AcceptAnswer"
    BY DEF Awaiting, Requests
  <2> HIDE DEF good, g
  <2> QED
    BY <1>1, <1>2, <2>1, <2>2, Asked
<1>6. ASSUME NEW g \in BOOLEAN, BrowserCandidate(g) PROVE PeerInv'
  <2>1. pcLoop # "Unbound" /\ pcCaller["web"].stage = "Idle" /\ Ask("web", "AddRemoteCandidate", "AddingCandidate", g)
    BY <1>6 DEF BrowserCandidate
  <2>2. "AddRemoteCandidate" \in Requests /\ "AddRemoteCandidate" # "AcceptAnswer"
    BY DEF Requests
  <2> QED
    BY <1>1, <1>2, <2>1, <2>2, Asked
<1>7. ASSUME NEW c \in Caller, ~AwaitsReply(c), NEW g \in {"Idle", "Offered", "InCall"},
             pcCaller' = [pcCaller EXCEPT ![c] = Rest(g)], pcLoop = "Unbound" => g = "Idle",
             \/ /\ ~(pcCaller[c].stage = "Answering" /\ pcCaller[c].reply = "Err")
                /\ UNCHANGED <<pcLoop, pcQueue>>
             \/ Close(c),
             UNCHANGED <<pcPending, pcMid, pcLines, pcEvents>>
      PROVE  PeerInv'
  <2> DEFINE s == Rest(g)
             x == Shut(c)
  <2>1. s \in CallerState /\ s.stage \notin Awaiting /\ (pcLoop = "Unbound" => s.stage = "Idle")
    BY <1>1, <1>7
  <2>2. x \in Command /\ x.op \notin Requests /\ x.op = "Close"
    BY <1>1
  <2>3. /\ pcQueue' = pcQueue \/ pcQueue' = Append(pcQueue, x)
        /\ pcCaller[c].stage = "Answering" /\ pcCaller[c].reply = "Err" /\ pcLoop = "Up" => pcQueue' = Append(pcQueue, x)
        /\ pcLoop' = pcLoop \/ (pcLoop = "Stub" /\ pcLoop' = "StubClosed")
    BY <1>7 DEF Close, Shut
  <2> HIDE DEF s, x
  <2>4. pcCaller' = [pcCaller EXCEPT ![c] = s]
    BY <1>7 DEF s
  <2> QED
    BY <1>7, <2>1, <2>2, <2>3, <2>4, CallerGoesOn
<1>8. ASSUME NEW l \in Leg, OfferMade(l) \/ OfferUnanswered(l) PROVE PeerInv'
  <2>1. PICK g \in {"Idle", "Offered"} : pcCaller' = [pcCaller EXCEPT ![l] = Rest(g)]
    BY <1>8 DEF OfferMade, OfferUnanswered, Rest
  <2>2. /\ ~AwaitsReply(l) /\ pcCaller[l].stage # "Answering" /\ pcLoop # "Unbound"
        /\ UNCHANGED <<pcLoop, pcQueue, pcPending, pcMid, pcLines, pcEvents>>
    BY <1>1, <1>2, <1>8 DEF OfferMade, OfferUnanswered
  <2> QED
    BY <1>1, <1>7, <2>1, <2>2
<1>9. ASSUME NEW l \in Leg, AnswerTaken(l) PROVE PeerInv'
  <2>1. /\ ~AwaitsReply(l) /\ pcLoop # "Unbound" /\ UNCHANGED <<pcPending, pcMid, pcLines, pcEvents>>
    BY <1>1, <1>2, <1>9 DEF AnswerTaken
  <2>2. CASE pcCaller[l].reply = "Ok"
    <3>1. pcCaller' = [pcCaller EXCEPT ![l] = Rest("InCall")] /\ UNCHANGED <<pcLoop, pcQueue>>
      BY <1>9, <2>2 DEF AnswerTaken, Rest
    <3> QED
      BY <1>1, <1>7, <2>1, <2>2, <3>1
  <2>3. CASE pcCaller[l].reply # "Ok"
    <3>1. pcCaller' = [pcCaller EXCEPT ![l] = Rest("Idle")] /\ Close(l)
      BY <1>9, <2>3 DEF AnswerTaken, Rest
    <3> QED
      BY <1>1, <1>7, <2>1, <3>1
  <2> QED
    BY <2>2, <2>3
<1>10. CASE WebReplied
  <2>1. PICK g \in {"Idle", "InCall"} : pcCaller' = [pcCaller EXCEPT !["web"] = Rest(g)]
    BY <1>10 DEF WebReplied, Rest
  <2>2. /\ pcCaller["web"].stage \in Awaiting /\ pcCaller["web"].reply # "None"
        /\ UNCHANGED <<pcLoop, pcQueue, pcPending, pcMid, pcLines, pcEvents>>
    BY <1>10 DEF WebReplied
  <2>3. ~AwaitsReply("web") /\ pcLoop # "Unbound"
    BY <1>1, <1>2, <2>2
  <2> DEFINE s == Rest(g)
             x == Frame("web")
  <2>4. s \in CallerState /\ s.stage \notin Awaiting /\ x \in Command /\ x.op \notin Requests
    BY <1>1
  <2>5. pcCaller' = [pcCaller EXCEPT !["web"] = s]
    BY <2>1
  <2> HIDE DEF s, x
  <2> QED
    BY <1>1, <2>2, <2>3, <2>4, <2>5, PeerAssumption, CallerGoesOn
<1>11. ASSUME NEW c \in Caller, CallOver(c) PROVE PeerInv'
  <2>1. /\ pcCaller' = [pcCaller EXCEPT ![c] = Rest("Idle")] /\ pcCaller[c].stage = "InCall"
        /\ UNCHANGED <<pcLoop, pcQueue, pcPending, pcMid, pcLines, pcEvents>>
    BY <1>11 DEF CallOver, Rest
  <2> QED
    BY <1>1, <1>2, <1>7, <2>1
<1>12. ASSUME NEW c \in Caller, ~AwaitsReply(c), pcCaller[c].stage # "Answering", pcCaller' = pcCaller,
              NEW x \in Command, x.op \notin Requests, pcQueue' = pcQueue \/ pcQueue' = Append(pcQueue, x),
              pcLoop' = pcLoop \/ (pcLoop = "Stub" /\ pcLoop' = "StubClosed"),
              UNCHANGED <<pcPending, pcMid, pcLines, pcEvents>>
       PROVE  PeerInv'
  <2> DEFINE s == pcCaller[c]
  <2>1. s \in CallerState /\ pcCaller' = [pcCaller EXCEPT ![c] = s] /\ (pcLoop = "Unbound" => s.stage = "Idle")
        /\ ~(s.stage \in Awaiting /\ s.reply = "None")
    BY <1>2, <1>12 DEF AwaitsReply
  <2> HIDE DEF s
  <2> QED
    BY <1>12, <2>1, CallerGoesOn
<1>13. ASSUME NEW c \in Caller, SendMedia(c) PROVE PeerInv'
  <2>1. /\ pcQueue' = Append(pcQueue, Frame(c)) /\ pcCaller[c].stage = "InCall"
        /\ UNCHANGED <<pcLoop, pcCaller, pcPending, pcMid, pcLines, pcEvents>>
    BY <1>13 DEF SendMedia, Frame
  <2> QED
    BY <1>1, <1>2, <1>12, <2>1
<1>14. CASE SessionCloses
  <2>1. /\ pcCaller["web"].stage \in {"Idle", "InCall"} /\ UNCHANGED <<pcCaller, pcPending, pcMid, pcLines, pcEvents>>
        /\ pcQueue' = pcQueue \/ pcQueue' = Append(pcQueue, Shut("web"))
        /\ pcLoop' = pcLoop \/ (pcLoop = "Stub" /\ pcLoop' = "StubClosed")
    BY <1>14 DEF SessionCloses, Close, Shut
  <2>2. ~AwaitsReply("web") /\ pcCaller["web"].stage # "Answering"
    BY <1>1, <1>2, <2>1
  <2> QED
    BY <1>1, <1>12, <2>1, <2>2
<1> QED
  BY <1>3, <1>4, <1>5, <1>6, <1>8, <1>9, <1>10, <1>11, <1>13, <1>14

\* The loop answers the request at the head of its queue.
LEMMA LoopAnswers ==
    ASSUME PeerInv, AcceptOffer \/ CreateOffer \/ AcceptAnswer \/ AddRemoteCandidate PROVE PeerInv'
<1>1. /\ pcMid \in Nat /\ pcPending \in Nat /\ pcLines.made \in Nat /\ pcLines.known \subseteq Nat
      /\ pcLines = [made |-> pcLines.made, known |-> pcLines.known] /\ pcLines \in [made : Nat, known : SUBSET Nat]
      /\ pcLoop \in {"Unbound", "Up", "Over", "Stub", "StubClosed"}
  BY DEF PeerInv, PeerTypes
<1>2. CASE AcceptOffer
  <2>1. pcQueue # <<>> /\ Taken.op = "AcceptOffer" /\ pcQueue' = Tail(pcQueue) /\ UNCHANGED <<pcLoop, pcPending, pcMid>>
    BY <1>2 DEF AcceptOffer
  <2>2. Head(pcQueue).op = "AcceptOffer" /\ Taken.by = Head(pcQueue).by /\ pcLoop = "Up" /\ pcEvents = <<>> /\ Head(pcQueue).op \in Requests
    BY <2>1, TakenIsHead DEF Requests
  <2>3. PICK r \in {"Ok", "Err"} :
          /\ pcCaller' = [pcCaller EXCEPT ![Head(pcQueue).by].reply = r]
          /\ \/ /\ pcLines' = [made |-> pcLines.made + 1, known |-> pcLines.known \cup {pcLines.made + 1}]
                /\ pcEvents' = <<"MediaAdded">>
             \/ UNCHANGED <<pcLines, pcEvents>>
    BY <1>2, <2>2 DEF AcceptOffer, Replies
  <2>4. /\ QueueInv' /\ WaitersServed' /\ NotBegun' /\ (Doomed => Doomed')
        /\ pcQueue' \in Seq(Command) /\ pcCaller' \in [Caller -> CallerState]
    BY <2>1, <2>2, <2>3, RequestServed
  <2>5. /\ pcLines' \in [made : Nat, known : SUBSET Nat] /\ pcLines.known \subseteq pcLines'.known
        /\ pcEvents' \in {<<>>, <<"MediaAdded">>} /\ (pcEvents' = <<"MediaAdded">> => pcLines'.made \in pcLines'.known)
        /\ (UNCHANGED <<pcLines, pcEvents>>) \/ pcEvents' = <<"MediaAdded">>
    BY <1>1, <2>2, <2>3
  <2>6. LineInv'
    BY <2>1, <2>2, <2>4, <2>5 DEF PeerInv, LineInv
  <2> QED
    BY <1>1, <2>1, <2>4, <2>5, <2>6 DEF PeerInv, PeerTypes
<1>3. CASE CreateOffer
  <2>1. pcQueue # <<>> /\ Taken.op = "CreateOffer" /\ pcQueue' = Tail(pcQueue) /\ UNCHANGED <<pcLoop, pcEvents>>
    BY <1>3 DEF CreateOffer
  <2>2. Head(pcQueue).op = "CreateOffer" /\ Taken.by = Head(pcQueue).by /\ pcLoop = "Up" /\ pcEvents = <<>> /\ Head(pcQueue).op \in Requests
    BY <2>1, TakenIsHead DEF Requests
  <2>3. PICK r \in {"Ok", "Err"} :
          /\ pcCaller' = [pcCaller EXCEPT ![Head(pcQueue).by].reply = r]
          /\ \/ /\ pcPending = 0 /\ pcPending' = pcLines.made + 1
                /\ pcMid' = (IF pcMid = 0 THEN pcLines.made + 1 ELSE pcMid)
                /\ pcLines' = [pcLines EXCEPT !.made = @ + 1]
             \/ UNCHANGED <<pcPending, pcMid, pcLines>>
    BY <1>3, <2>2 DEF CreateOffer, Replies
  <2>4. /\ QueueInv' /\ WaitersServed' /\ NotBegun' /\ (Doomed => Doomed')
        /\ pcQueue' \in Seq(Command) /\ pcCaller' \in [Caller -> CallerState]
    BY <2>1, <2>2, <2>3, RequestServed
  <2>5. pcLines' \in [made : Nat, known : SUBSET Nat] /\ pcLines'.known = pcLines.known /\ pcMid' \in Nat /\ pcPending' \in Nat
        /\ (pcEvents' = <<"MediaAdded">> => pcLines'.made \in pcLines'.known)
    BY <1>1, <2>1, <2>2, <2>3
  <2>6. LineInv'
    <3>1. CASE UNCHANGED <<pcPending, pcMid, pcLines>>
      BY <2>1, <2>4, <3>1 DEF PeerInv, LineInv
    <3>2. CASE pcPending = 0 /\ pcPending' = pcLines.made + 1 /\ pcMid = 0 /\ pcMid' = pcLines.made + 1
      BY <1>1, <3>2 DEF LineInv
    <3>3. CASE pcPending = 0 /\ pcMid # 0 /\ pcMid' = pcMid
      BY <2>1, <2>2, <2>4, <2>5, <3>3 DEF PeerInv, LineInv
    <3> QED
      BY <2>3, <3>1, <3>2, <3>3
  <2> QED
    BY <1>1, <2>1, <2>2, <2>4, <2>5, <2>6 DEF PeerInv, PeerTypes
<1>4. CASE AcceptAnswer
  <2>1. /\ pcQueue # <<>> /\ Taken.op = "AcceptAnswer" /\ pcQueue' = Tail(pcQueue) /\ pcPending' = 0
        /\ UNCHANGED <<pcLoop, pcMid, pcEvents>>
    BY <1>4 DEF AcceptAnswer
  <2>2. Head(pcQueue).op = "AcceptAnswer" /\ Taken.by = Head(pcQueue).by /\ pcLoop = "Up" /\ pcEvents = <<>> /\ Head(pcQueue).op \in Requests
    BY <2>1, TakenIsHead DEF Requests
  <2>3. PICK r \in {"Ok", "Err"} :
          /\ pcCaller' = [pcCaller EXCEPT ![Head(pcQueue).by].reply = r]
          /\ \/ pcPending # 0 /\ pcLines' = [pcLines EXCEPT !.known = @ \cup {pcPending}]
             \/ r = "Err" /\ UNCHANGED pcLines
    BY <1>4, <2>2 DEF AcceptAnswer, Replies
  <2>4. /\ QueueInv' /\ WaitersServed' /\ NotBegun' /\ (Doomed => Doomed') /\ (r = "Err" => Doomed')
        /\ pcQueue' \in Seq(Command) /\ pcCaller' \in [Caller -> CallerState]
    BY <2>1, <2>2, <2>3, RequestServed
  <2>5. /\ pcLines' \in [made : Nat, known : SUBSET Nat] /\ pcLines.known \subseteq pcLines'.known
        /\ pcPending # 0 /\ r # "Err" => pcPending \in pcLines'.known
    BY <1>1, <2>3
  <2>6. LineInv'
    <3>1. CASE r = "Err"
      BY <2>4, <3>1 DEF LineInv
    <3>2. CASE r # "Err"
      <4>1. pcPending # 0 /\ pcPending \in pcLines'.known
        BY <2>3, <2>5, <3>2
      <4> QED
        BY <2>1, <2>2, <2>4, <2>5, <4>1 DEF PeerInv, LineInv
    <3> QED
      BY <3>1, <3>2
  <2> QED
    BY <1>1, <2>1, <2>2, <2>4, <2>5, <2>6 DEF PeerInv, PeerTypes
<1>5. CASE AddRemoteCandidate
  <2>1. /\ pcQueue # <<>> /\ Taken.op = "AddRemoteCandidate" /\ pcQueue' = Tail(pcQueue)
        /\ UNCHANGED <<pcLoop, pcPending, pcMid, pcLines, pcEvents>>
    BY <1>5 DEF AddRemoteCandidate
  <2>2. Taken.by = Head(pcQueue).by /\ Head(pcQueue).op \in Requests
    BY <2>1, TakenIsHead DEF Requests
  <2>3. PICK r \in {"Ok", "Err"} : pcCaller' = [pcCaller EXCEPT ![Head(pcQueue).by].reply = r]
    BY <1>5, <2>2 DEF AddRemoteCandidate, Replies
  <2>4. /\ QueueInv' /\ WaitersServed' /\ NotBegun' /\ (Doomed => Doomed')
        /\ pcQueue' \in Seq(Command) /\ pcCaller' \in [Caller -> CallerState]
    BY <2>1, <2>2, <2>3, RequestServed
  <2> QED
    BY <2>1, <2>4 DEF PeerInv, PeerTypes, LineInv
<1> QED
  BY <1>2, <1>3, <1>4, <1>5

\* A frame at the head of the queue is written or dropped.
LEMMA FrameWritten == ASSUME PeerInv, WriteMedia PROVE PeerInv'
<1> DEFINE n == Len(pcQueue)
<1>1. /\ pcQueue # <<>> /\ pcQueue' = Tail(pcQueue) /\ Head(pcQueue).op = "SendMedia" /\ pcQueue \in Seq(Command)
      /\ UNCHANGED <<pcLoop, pcCaller, pcPending, pcMid, pcLines, pcEvents>>
  BY TakenIsHead DEF WriteMedia, PeerInv, PeerTypes
<1>2. /\ pcQueue' \in Seq(Command) /\ n \in Nat \ {0} /\ Len(pcQueue') = n - 1 /\ Head(pcQueue) = pcQueue[1]
      /\ \A i \in 1..(n - 1) : pcQueue'[i] = pcQueue[i + 1]
  BY <1>1
<1>3. pcQueue[1].op = "SendMedia" /\ "SendMedia" \notin Requests /\ "SendMedia" # "Close"
  BY <1>1, <1>2 DEF Requests
<1> HIDE DEF n
<1>4. \A i \in 1..(n - 1) : i + 1 \in 1..n
  BY <1>2
<1>5. \A i \in 1..n : i = 1 \/ (i - 1 \in 1..(n - 1) /\ pcQueue'[i - 1] = pcQueue[i])
  <2> SUFFICES ASSUME NEW i \in 1..n, i # 1 PROVE i - 1 \in 1..(n - 1) /\ pcQueue'[i - 1] = pcQueue[i]
    OBVIOUS
  <2>1. i - 1 \in 1..(n - 1) /\ (i - 1) + 1 = i
    BY <1>2
  <2> QED
    BY <1>2, <2>1
<1>6. QueueInv'
  <2>1. ASSUME NEW i \in 1..(n - 1), pcQueue'[i].op \in Requests
        PROVE  /\ pcCaller'[pcQueue'[i].by].stage \in Awaiting /\ pcCaller'[pcQueue'[i].by].reply = "None"
               /\ pcQueue'[i].op = "AcceptAnswer" => pcQueue'[i].by \in Leg /\ pcCaller'[pcQueue'[i].by].stage = "Answering"
    <3> DEFINE k == i + 1
    <3>1. k \in 1..n /\ pcQueue'[i] = pcQueue[k]
      BY <1>2, <1>4
    <3> HIDE DEF k
    <3> QED
      BY <1>1, <2>1, <3>1 DEF PeerInv, QueueInv, n, AwaitsReply
  <2>2. ASSUME NEW i \in 1..(n - 1), NEW j \in 1..(n - 1), pcQueue'[i].op \in Requests,
               pcQueue'[j].op \in Requests, pcQueue'[i].by = pcQueue'[j].by
        PROVE  i = j
    <3>1. /\ i + 1 \in 1..n /\ j + 1 \in 1..n /\ pcQueue[i + 1].op \in Requests /\ pcQueue[j + 1].op \in Requests
          /\ pcQueue[i + 1].by = pcQueue[j + 1].by
      BY <1>2, <1>4, <2>2
    <3>2. i + 1 = j + 1
      BY <3>1 DEF PeerInv, QueueInv, n
    <3> QED
      BY <3>2
  <2> QED
    BY <1>2, <2>1, <2>2 DEF QueueInv, AwaitsReply
<1>7. WaitersServed'
  <2> SUFFICES ASSUME NEW d \in Caller, AwaitsReply(d)'
               PROVE  pcLoop' = "Up" /\ \E i \in 1..Len(pcQueue') : pcQueue'[i].by = d /\ pcQueue'[i].op \in Requests
    BY DEF WaitersServed
  <2>1. pcLoop = "Up" /\ \E i \in 1..n : pcQueue[i].by = d /\ pcQueue[i].op \in Requests
    BY <1>1 DEF PeerInv, WaitersServed, n, AwaitsReply
  <2>2. PICK i \in 1..n : pcQueue[i].by = d /\ pcQueue[i].op \in Requests
    BY <2>1
  <2>3. i - 1 \in 1..(n - 1) /\ pcQueue'[i - 1] = pcQueue[i]
    BY <1>3, <1>5, <2>2
  <2> QED
    BY <1>1, <1>2, <2>1, <2>2, <2>3
<1>8. Doomed => Doomed'
  <2>1. ASSUME NEW i \in DOMAIN pcQueue, pcQueue[i].op = "Close" PROVE Doomed'
    <3>1. i \in 1..n
      BY <1>1, <2>1 DEF n
    <3>2. i - 1 \in 1..(n - 1) /\ pcQueue'[i - 1] = pcQueue[i]
      BY <1>3, <1>5, <2>1, <3>1
    <3>3. i - 1 \in DOMAIN pcQueue'
      BY <1>2, <3>2
    <3> QED
      BY <2>1, <3>2, <3>3 DEF Doomed
  <2> QED
    BY <1>1, <2>1 DEF Doomed
<1> QED
  BY <1>1, <1>2, <1>6, <1>7, <1>8 DEF PeerInv, PeerTypes, LineInv, NotBegun

\* The session starts, or the engine and the network have their turn: nobody's
\* request is touched.
LEMMA EngineActs ==
    ASSUME PeerInv,
           \/ \E b \in {"str0m", "stub"}, ok \in BOOLEAN : StartSession(b, ok)
           \/ BridgeReads
           \/ \E e \in {"IceState", "MediaData"} : NetworkInput(e)
           \/ HandleEvent
    PROVE  PeerInv'
<1>1. UNCHANGED <<pcQueue, pcCaller, pcPending, pcLines>>
  BY DEF StartSession, BridgeReads, NetworkInput, HandleEvent
<1>2. QueueInv' /\ Doomed' = Doomed
  BY <1>1 DEF PeerInv, QueueInv, AwaitsReply, Doomed
<1>3. CASE \E b \in {"str0m", "stub"}, ok \in BOOLEAN : StartSession(b, ok)
  <2>1. /\ pcLoop = "Unbound" /\ pcLoop' \in {"Stub", "Over", "Up"} /\ UNCHANGED <<pcMid, pcEvents>>
    BY <1>3 DEF StartSession
  <2>2. WaitersServed'
    BY <1>1, <2>1 DEF PeerInv, NotBegun, WaitersServed, AwaitsReply, Awaiting
  <2> QED
    BY <1>1, <1>2, <2>1, <2>2 DEF PeerInv, PeerTypes, LineInv, NotBegun
<1>4. CASE BridgeReads
  <2>1. UNCHANGED <<pcLoop, pcMid, pcEvents>>
    BY <1>4 DEF BridgeReads
  <2> QED
    BY <1>1, <1>2, <2>1 DEF PeerInv, PeerTypes, LineInv, NotBegun, WaitersServed, AwaitsReply
<1>5. ASSUME NEW e \in {"IceState", "MediaData"}, NetworkInput(e) PROVE PeerInv'
  <2>1. pcEvents = <<>> /\ pcEvents' = <<e>> /\ UNCHANGED <<pcLoop, pcMid>>
    BY <1>5 DEF NetworkInput
  <2>2. /\ pcEvents' \in {<<>>, <<"MediaAdded">>, <<"IceState">>, <<"MediaData">>}
        /\ pcEvents # <<"MediaAdded">> /\ pcEvents' # <<"MediaAdded">>
    BY <2>1
  <2>3. LineInv'
    BY <1>1, <1>2, <2>1, <2>2 DEF PeerInv, LineInv
  <2> QED
    BY <1>1, <1>2, <2>1, <2>2, <2>3 DEF PeerInv, PeerTypes, NotBegun, WaitersServed, AwaitsReply
<1>6. CASE HandleEvent
  <2>1. /\ pcLoop = "Up" /\ pcEvents # <<>> /\ pcEvents' = Tail(pcEvents) /\ pcLoop' = pcLoop
        /\ pcMid' = IF Head(pcEvents) = "MediaAdded" /\ pcMid = 0 THEN pcLines.made ELSE pcMid
    BY <1>6 DEF HandleEvent
  <2>2. /\ pcEvents \in {<<"MediaAdded">>, <<"IceState">>, <<"MediaData">>}
        /\ pcLines \in [made : Nat, known : SUBSET Nat] /\ pcMid \in Nat
    BY <2>1 DEF PeerInv, PeerTypes
  <2>3. /\ pcEvents' = <<>> /\ pcEvents' # <<"MediaAdded">>
        /\ (Head(pcEvents) = "MediaAdded") = (pcEvents = <<"MediaAdded">>)
    <3>1. CASE pcEvents = <<"MediaAdded">>
      BY <2>1, <3>1
    <3>2. CASE pcEvents = <<"IceState">>
      BY <2>1, <3>2
    <3>3. CASE pcEvents = <<"MediaData">>
      BY <2>1, <3>3
    <3> QED
      BY <2>2, <3>1, <3>2, <3>3
  <2>4. pcEvents = <<"MediaAdded">> => pcLines.made \in pcLines.known
    BY DEF PeerInv, PeerTypes
  <2>5. pcMid' \in Nat
    BY <2>1, <2>2
  <2>6. LineInv'
    <3>1. CASE pcEvents = <<"MediaAdded">> /\ pcMid = 0
      BY <1>1, <2>1, <2>3, <2>4, <3>1 DEF LineInv
    <3>2. CASE ~(pcEvents = <<"MediaAdded">> /\ pcMid = 0)
      <4>1. pcMid' = pcMid
        BY <2>1, <2>3, <3>2
      <4> QED
        BY <1>1, <1>2, <2>1, <3>2, <4>1 DEF PeerInv, LineInv
    <3> QED
      BY <3>1, <3>2
  <2> QED
    BY <1>1, <1>2, <2>1, <2>3, <2>5, <2>6 DEF PeerInv, PeerTypes, NotBegun, WaitersServed, AwaitsReply
<1> QED
  BY <1>3, <1>4, <1>5, <1>6

\* The loop ends: whoever waits has a request in the queue and gets an error.
LEMMA PeerLoopEnds == ASSUME PeerInv, SessionEnds PROVE PeerInv'
<1>1. /\ pcLoop' = "Over" /\ pcQueue' = <<>> /\ pcEvents' = <<>> /\ UNCHANGED <<pcPending, pcMid, pcLines>>
      /\ pcCaller' = [c \in Caller |->
           IF \E i \in DOMAIN pcQueue : pcQueue[i].by = c /\ pcQueue[i].op \notin {"SendMedia", "Close"}
           THEN [pcCaller[c] EXCEPT !.reply = "Err"] ELSE pcCaller[c]]
  BY DEF SessionEnds
<1>2. pcQueue \in Seq(Command) /\ pcCaller \in [Caller -> CallerState]
  BY DEF PeerInv, PeerTypes
<1>3. ASSUME NEW c \in Caller PROVE pcCaller'[c] \in CallerState /\ ~AwaitsReply(c)'
  <2> DEFINE s == pcCaller[c]
             e == [s EXCEPT !.reply = "Err"]
  <2>1. s \in CallerState /\ e \in CallerState /\ e.reply = "Err"
    BY <1>2 DEF CallerState
  <2>2. pcCaller'[c] \in {s, e}
    BY <1>1
  <2>3. ASSUME AwaitsReply(c) PROVE pcCaller'[c] = e
    <3>1. PICK i \in 1..Len(pcQueue) : pcQueue[i].by = c /\ pcQueue[i].op \in Requests
      BY <2>3 DEF PeerInv, WaitersServed
    <3>2. i \in DOMAIN pcQueue /\ pcQueue[i].op \notin {"SendMedia", "Close"}
      BY <1>2, <3>1 DEF Requests
    <3> QED
      BY <1>1, <3>1, <3>2
  <2>4. AwaitsReply(c) = (s.stage \in Awaiting /\ s.reply = "None")
    BY DEF AwaitsReply
  <2> HIDE DEF s, e
  <2>5. ~(pcCaller'[c].stage \in Awaiting /\ pcCaller'[c].reply = "None")
    BY <2>1, <2>2, <2>3, <2>4
  <2> QED
    BY <2>1, <2>2, <2>5 DEF AwaitsReply
<1>4. pcCaller' \in [Caller -> CallerState]
  BY <1>1, <1>3
<1>5. pcQueue' \in Seq(Command) /\ Len(pcQueue') = 0 /\ pcEvents' # <<"MediaAdded">>
  BY <1>1
<1>6. QueueInv'
  BY <1>5 DEF QueueInv
<1>7. WaitersServed'
  BY <1>3 DEF WaitersServed
<1>8. LineInv' /\ NotBegun'
  BY <1>1 DEF LineInv, NotBegun
<1>9. PeerTypes'
  BY <1>1, <1>4, <1>5 DEF PeerInv, PeerTypes
<1> QED
  BY <1>6, <1>7, <1>8, <1>9 DEF PeerInv

\* Every step of a peer keeps its invariant.
LEMMA PeerKept == PeerInv /\ [PeerNext]_pcVars => PeerInv'
<1> SUFFICES ASSUME PeerInv, [PeerNext]_pcVars PROVE PeerInv'
  OBVIOUS
<1>1. CASE UNCHANGED pcVars
  BY <1>1 DEF pcVars, PeerInv, PeerTypes, QueueInv, WaitersServed, LineInv, NotBegun, AwaitsReply, Doomed
<1>2. CASE PeerNext
  <2>1. \/ \/ \E l \in Leg : RingBrowser(l) \/ OfferMade(l) \/ OfferUnanswered(l) \/ AnswerTaken(l)
           \/ \E l \in Leg, g \in BOOLEAN : BrowserAnswers(l, g)
           \/ \E dialling \in BOOLEAN, d \in SessionDescription : BrowserOffers(dialling, d)
           \/ \E g \in BOOLEAN : BrowserCandidate(g)
           \/ WebReplied
           \/ \E c \in Caller : CallOver(c) \/ SendMedia(c)
           \/ SessionCloses
        \/ AcceptOffer \/ CreateOffer \/ AcceptAnswer \/ AddRemoteCandidate
        \/ WriteMedia
        \/ SessionEnds
        \/ \/ \E b \in {"str0m", "stub"}, ok \in BOOLEAN : StartSession(b, ok)
           \/ BridgeReads
           \/ \E e \in {"IceState", "MediaData"} : NetworkInput(e)
           \/ HandleEvent
    BY <1>2, Zenon DEF PeerNext
  <2> QED
    BY <2>1, CallersAct, LoopAnswers, FrameWritten, EngineActs, PeerLoopEnds, Zenon
<1> QED
  BY <1>1, <1>2

\* A session that has not begun has no line and nobody that waits.
LEMMA PeerStarts == PeerInit => PeerInv
<1> SUFFICES ASSUME PeerInit PROVE PeerInv
  OBVIOUS
<1>1. \A c \in Caller : pcCaller[c] = [stage |-> "Idle", reply |-> "None"]
  BY DEF PeerInit
<1>2. [stage |-> "Idle", reply |-> "None"] \in CallerState /\ "Idle" \notin Awaiting
  BY DEF CallerState, Awaiting
<1>3. pcCaller \in [Caller -> CallerState]
  BY <1>2 DEF PeerInit
<1>4. \A c \in Caller : ~AwaitsReply(c) /\ pcCaller[c].stage = "Idle"
  BY <1>1, <1>2 DEF AwaitsReply
<1>5. /\ pcQueue = <<>> /\ pcQueue \in Seq(Command) /\ Len(pcQueue) = 0 /\ pcEvents = <<>> /\ pcEvents # <<"MediaAdded">>
      /\ pcMid = 0 /\ pcPending = 0 /\ pcLines = [made |-> 0, known |-> {}] /\ pcLoop = "Unbound"
  BY DEF PeerInit
<1>6. PeerTypes
  BY <1>3, <1>5 DEF PeerTypes
<1>7. QueueInv /\ WaitersServed /\ NotBegun
  BY <1>4, <1>5 DEF QueueInv, WaitersServed, NotBegun
<1>8. LineInv
  BY <1>5 DEF LineInv
<1> QED
  BY <1>6, <1>7, <1>8 DEF PeerInv

\* What the invariant of a peer says of its callers and of its audio line.
LEMMA PeerGood == PeerInv => CallersServed /\ AudioHasALine
<1> SUFFICES ASSUME PeerInv PROVE CallersServed /\ AudioHasALine
  OBVIOUS
<1>1. DOMAIN pcQueue = 1..Len(pcQueue)
  BY DEF PeerInv, PeerTypes
<1>2. CallersServed
  BY <1>1 DEF PeerInv, WaitersServed, AwaitsReply, CallersServed
<1>3. AudioHasALine
  <2> SUFFICES ASSUME pcLoop = "Up", pcLines.known # {}, pcEvents = <<>>, pcPending = 0, ~Doomed
               PROVE  pcMid \in pcLines.known
    BY DEF AudioHasALine, Writable
  <2>1. pcEvents # <<"MediaAdded">>
    OBVIOUS
  <2> QED
    BY <2>1 DEF PeerInv, LineInv
<1> QED
  BY <1>2, <1>3

-----------------------------------------------------------------------------
(* The reports about a stream: RtpSession                                  *)

\* tx and a buffer have the fields they have.
TxShape == tx = [kind |-> tx.kind, stage |-> tx.stage, ts |-> tx.ts, sentAt |-> tx.sentAt, marker |-> tx.marker,
                 counted |-> tx.counted, anchor |-> tx.anchor, reported |-> tx.reported, goneThen |-> tx.goneThen]

BufferShape(b) == DOMAIN b = {"received", "base", "max", "queue", "next"}

\* The counter lags behind the socket by the packet between the two.
CountInv ==
    /\ TxShape /\ gone \in Nat /\ tx.counted \in Nat
    /\ gone = tx.counted + (IF tx.stage = "Counting" THEN 1 ELSE 0)
    /\ SrCountsWhatLeft

\* What was told of a source is what it had lost then, and it has received no less since.
LossInv ==
    /\ DOMAIN rx \subseteq Source /\ rx = [s \in DOMAIN rx |-> rx[s]]
    /\ \A s \in DOMAIN rx : BufferShape(rx[s]) /\ rx[s].received \in Nat /\ rx[s].base \in Int /\ rx[s].max \in Int
    /\ \A s \in Source :
          /\ lastReported[s].expected \in Int /\ lastReported[s].received \in Nat
          /\ tally[s].reported \in Int
          /\ tally[s].cumulative = lastReported[s].expected - lastReported[s].received
          /\ tally[s].reported >= tally[s].cumulative
          /\ s \in DOMAIN rx => lastReported[s].received <= rx[s].received
          /\ s \notin DOMAIN rx => lastReported[s].received = 0

\* The stamps of blocks and of the SRs kept are those of SRs that came.
StampInv ==
    /\ rtpNow \in Nat
    /\ \A s \in DOMAIN remoteSr : /\ remoteSr[s].stamp \in DOMAIN srAt /\ remoteSr[s].at \in Nat
                                  /\ remoteSr[s].at \in srAt[remoteSr[s].stamp]
    /\ \A s \in DOMAIN blocks : blocks[s].trip.lsr # NoStamp =>
          blocks[s].trip.lsr \in DOMAIN srAt /\ blocks[s].at - blocks[s].trip.dlsr \in srAt[blocks[s].trip.lsr]

ReportInv == CountInv /\ LossInv /\ StampInv

\* A report tells of the losses since the last one about the source, and of its last SR.
LEMMA BlocksTrue ==
    ASSUME LossInv, StampInv, NEW reported \in SUBSET DOMAIN rx, BuildBlocks(reported),
           UNCHANGED <<rtpNow, rx, remoteSr, srAt>>
    PROVE  LossInv' /\ StampInv'
<1>1. /\ blocks' = [s \in reported |-> BlockFor(s)]
      /\ lastReported' = [s \in Source |->
            IF s \in reported THEN [expected |-> Expected(s), received |-> rx[s].received] ELSE lastReported[s]]
      /\ tally' = [s \in Source |->
            IF s \notin reported THEN tally[s]
            ELSE [reported |-> tally[s].reported + LostInterval(s), cumulative |-> Cumulative(s)]]
  BY DEF BuildBlocks, Noted
<1>2. ASSUME NEW s \in Source
      PROVE  /\ lastReported'[s].expected \in Int /\ lastReported'[s].received \in Nat
             /\ tally'[s].reported \in Int
             /\ tally'[s].cumulative = lastReported'[s].expected - lastReported'[s].received
             /\ tally'[s].reported >= tally'[s].cumulative
             /\ s \in DOMAIN rx => lastReported'[s].received <= rx[s].received
             /\ s \notin DOMAIN rx => lastReported'[s].received = 0
  <2>1. CASE s \notin reported
    <3>1. lastReported'[s] = lastReported[s] /\ tally'[s] = tally[s]
      BY <1>1, <2>1
    <3> QED
      BY <3>1 DEF LossInv
  <2>2. CASE s \in reported
    <3> DEFINE e == Expected(s)
               r == rx[s].received
               pe == lastReported[s].expected
               pr == lastReported[s].received
    <3>1. /\ lastReported'[s] = [expected |-> e, received |-> r]
          /\ tally'[s] = [reported |-> tally[s].reported + LostInterval(s), cumulative |-> e - r]
      BY <1>1, <2>2 DEF Cumulative
    <3>2. /\ s \in DOMAIN rx /\ e \in Int /\ r \in Nat /\ pe \in Int /\ pr \in Nat /\ pr <= r
          /\ tally[s].reported \in Int /\ tally[s].reported >= pe - pr
      BY <2>2 DEF LossInv, Expected
    <3>3. LostInterval(s) = NotBelowZero(NotBelowZero(e - pe) - NotBelowZero(r - pr))
      BY DEF LostInterval
    <3> HIDE DEF e, r, pe, pr
    <3>4. LostInterval(s) \in Int /\ LostInterval(s) >= (e - pe) - (r - pr)
      BY <3>2, <3>3 DEF NotBelowZero
    <3>5. /\ lastReported'[s].expected = e /\ lastReported'[s].received = r
          /\ tally'[s].reported = tally[s].reported + LostInterval(s) /\ tally'[s].cumulative = e - r
      BY <3>1
    <3>6. tally[s].reported + LostInterval(s) \in Int /\ tally[s].reported + LostInterval(s) >= e - r
      BY <3>2, <3>4
    <3> QED
      BY <3>2, <3>5, <3>6 DEF r
  <2> QED
    BY <2>1, <2>2
<1>3. LossInv'
  BY <1>2 DEF LossInv, BufferShape
<1>4. ASSUME NEW s \in DOMAIN blocks', blocks'[s].trip.lsr # NoStamp
      PROVE  /\ blocks'[s].trip.lsr \in DOMAIN srAt
             /\ blocks'[s].at - blocks'[s].trip.dlsr \in srAt[blocks'[s].trip.lsr]
  <2>1. blocks'[s].trip = RoundTrip(s) /\ blocks'[s].at = rtpNow
    BY <1>1, <1>4 DEF BlockFor
  <2>2. CASE s \in DOMAIN remoteSr
    <3>1. RoundTrip(s).lsr = remoteSr[s].stamp /\ RoundTrip(s).dlsr = rtpNow - remoteSr[s].at
      BY <2>2 DEF RoundTrip
    <3>2. remoteSr[s].at \in Nat /\ rtpNow \in Nat /\ remoteSr[s].stamp \in DOMAIN srAt
          /\ remoteSr[s].at \in srAt[remoteSr[s].stamp]
      BY <2>2 DEF StampInv
    <3>3. rtpNow - (rtpNow - remoteSr[s].at) = remoteSr[s].at
      BY <3>2
    <3> QED
      BY <2>1, <3>1, <3>2, <3>3
  <2>3. CASE s \notin DOMAIN remoteSr
    BY <1>4, <2>1, <2>3 DEF RoundTrip
  <2> QED
    BY <2>2, <2>3
<1>5. StampInv'
  BY <1>4 DEF StampInv
<1> QED
  BY <1>3, <1>5

\* Steps that send: the number, the socket, the counter, and the reports of tx.
LEMMA SendersCount ==
    ASSUME CountInv, RtpNext PROVE CountInv'
<1> USE DEF CountInv, TxShape
<1>1. CASE UNCHANGED <<tx, gone>>
  BY <1>1 DEF SrCountsWhatLeft
<1>2. CASE UseEgress
  <2>1. tx' = [tx EXCEPT !.kind = "Egress"] /\ gone' = gone
    BY <1>2 DEF UseEgress
  <2>2. /\ tx'.stage = tx.stage /\ tx'.counted = tx.counted /\ tx'.reported = tx.reported /\ tx'.goneThen = tx.goneThen
        /\ TxShape'
    BY <2>1
  <2> QED
    BY <2>1, <2>2 DEF SrCountsWhatLeft
<1>3. CASE TakeNumber
  <2>1. /\ tx' = [tx EXCEPT !.stage = "Sending", !.ts = @ + 1, !.sentAt = rtpNow,
                        !.marker = tx.sentAt # NoStamp => rtpNow - tx.sentAt >= 2]
        /\ gone' = gone /\ tx.stage = "Idle"
    BY <1>3 DEF TakeNumber
  <2>2. /\ tx'.stage = "Sending" /\ tx'.counted = tx.counted /\ tx'.reported = tx.reported /\ tx'.goneThen = tx.goneThen
        /\ TxShape'
    BY <2>1
  <2> QED
    BY <2>1, <2>2 DEF SrCountsWhatLeft
<1>4. CASE SocketSends
  <2>1. PICK g \in {"Counting", "Idle"} : /\ tx' = [tx EXCEPT !.stage = g] /\ tx.stage = "Sending"
                                          /\ gone' = IF g = "Counting" THEN gone + 1 ELSE gone
    BY <1>4 DEF SocketSends
  <2>2. /\ tx'.stage = g /\ tx'.counted = tx.counted /\ tx'.reported = tx.reported /\ tx'.goneThen = tx.goneThen
        /\ TxShape'
    BY <2>1
  <2> QED
    BY <2>1, <2>2 DEF SrCountsWhatLeft
<1>5. CASE CountSent
  <2>1. PICK a : tx' = [tx EXCEPT !.stage = "Idle", !.counted = @ + 1, !.anchor = a] /\ gone' = gone /\ tx.stage = "Counting"
    BY <1>5 DEF CountSent
  <2>2. /\ tx'.stage = "Idle" /\ tx'.counted = tx.counted + 1 /\ tx'.reported = tx.reported /\ tx'.goneThen = tx.goneThen
        /\ TxShape'
    BY <2>1
  <2> QED
    BY <2>1, <2>2 DEF SrCountsWhatLeft
<1>6. CASE tx' = [tx EXCEPT !.goneThen = gone, !.reported = SenderReport] /\ gone' = gone
  <2>1. SenderReport.count = tx.counted % CountField
    BY DEF SenderReport, InField
  <2>2. /\ tx'.stage = tx.stage /\ tx'.counted = tx.counted /\ tx'.reported = SenderReport /\ tx'.goneThen = gone
        /\ TxShape'
    BY <1>6
  <2>3. PICK k \in {0, 1} : gone >= k /\ tx.counted = gone - k
    BY DEF CountInv
  <2>4. SrCountsWhatLeft'
    BY <2>1, <2>2, <2>3 DEF SrCountsWhatLeft
  <2> QED
    BY <1>6, <2>2, <2>4
<1> QED
  BY <1>1, <1>2, <1>3, <1>4, <1>5, <1>6
  DEF RtpNext, Clock, Pull, IngestPacket, RecordRemoteSr, SendSr, SendEgressSr, SendRr

\* A packet that comes never takes a received one back, whatever becomes of it.
LEMMA PacketIn ==
    ASSUME LossInv, NEW s \in Source, NEW n \in 1..LastNumber, IngestPacket(s, n) PROVE LossInv'
<1> DEFINE b == BufferOf(s)
           seen == [b EXCEPT !.base = IF @ = NoStamp THEN n ELSE @, !.max = Larger(@, n)]
           unwanted == (b.next # NoStamp /\ n < b.next) \/ n \in b.queue
           full == [seen EXCEPT !.received = @ + 1, !.queue = @ \cup {n}]
           c == IF unwanted THEN seen ELSE full
<1>1. rx' = WithBuffer(s, c) /\ UNCHANGED <<lastReported, tally>>
  BY DEF IngestPacket
<1>2. /\ BufferShape(b) /\ b.received \in Nat /\ b.max \in Int /\ (b.base = NoStamp \/ b.base \in Int)
      /\ s \in Source => lastReported[s].received <= b.received /\ lastReported[s].received \in Nat
  <2>1. CASE s \in DOMAIN rx
    BY <2>1 DEF LossInv, BufferOf
  <2>2. CASE s \notin DOMAIN rx
    <3>1. b = NoBuffer
      BY <2>2 DEF BufferOf
    <3> QED
      BY <2>2, <3>1 DEF LossInv, NoBuffer, BufferShape
  <2> QED
    BY <2>1, <2>2
<1>3. n \in Int
  BY RtpSessionAssumption
<1> HIDE DEF b, unwanted
<1>4. BufferShape(c) /\ c.received \in Nat /\ c.received >= b.received /\ c.base \in Int /\ c.max \in Int
  <2>1. BufferShape(seen) /\ seen.received = b.received /\ seen.base \in Int /\ seen.max \in Int
    BY <1>2, <1>3 DEF BufferShape, Larger
  <2> HIDE DEF seen
  <2>2. BufferShape(full) /\ full.received = b.received + 1 /\ full.base \in Int /\ full.max \in Int
    BY <2>1 DEF BufferShape
  <2> HIDE DEF full
  <2> QED
    BY <1>2, <2>1, <2>2
<1> HIDE DEF c
<1>5. /\ DOMAIN rx' = DOMAIN rx \cup {s} /\ rx'[s] = c /\ rx' = [r \in DOMAIN rx' |-> rx'[r]]
      /\ \A r \in DOMAIN rx : r # s => rx'[r] = rx[r]
  BY <1>1 DEF WithBuffer
<1>6. \A r \in DOMAIN rx' :
         BufferShape(rx'[r]) /\ rx'[r].received \in Nat /\ rx'[r].base \in Int /\ rx'[r].max \in Int
  BY <1>4, <1>5 DEF LossInv
<1>7. \A r \in Source : /\ r \in DOMAIN rx' => lastReported[r].received <= rx'[r].received
                        /\ r \notin DOMAIN rx' => r \notin DOMAIN rx
  <2> SUFFICES ASSUME NEW r \in Source, r \in DOMAIN rx' PROVE lastReported[r].received <= rx'[r].received
    BY <1>5
  <2>1. CASE r = s
    BY <1>2, <1>4, <1>5, <2>1
  <2>2. CASE r # s
    BY <1>5, <2>2 DEF LossInv
  <2> QED
    BY <2>1, <2>2
<1>8. \A r \in Source : /\ lastReported'[r] = lastReported[r] /\ tally'[r] = tally[r]
  BY <1>1
<1> QED
  BY <1>5, <1>6, <1>7, <1>8 DEF LossInv, BufferShape

\* A packet that is played leaves the counts alone.
LEMMA PacketPlayed == ASSUME LossInv, NEW s \in Source, Pull(s) PROVE LossInv'
<1>1. PICK q, f : rx' = [rx EXCEPT ![s].queue = q, ![s].next = f] /\ s \in DOMAIN rx /\ UNCHANGED <<lastReported, tally>>
  <2> DEFINE first == CHOOSE n \in rx[s].queue : \A m \in rx[s].queue : n <= m
  <2>1. rx' = [rx EXCEPT ![s].queue = rx[s].queue \ {first}, ![s].next = first + 1]
    BY DEF Pull, LossInv
  <2> HIDE DEF first
  <2> QED
    BY <2>1 DEF Pull
<1> DEFINE b == rx[s]
           c == [b EXCEPT !.queue = q, !.next = f]
<1>2. BufferShape(b) /\ b.received \in Nat /\ b.base \in Int /\ b.max \in Int
  BY <1>1 DEF LossInv
<1>3. /\ DOMAIN rx' = DOMAIN rx /\ rx'[s] = c /\ rx' = [r \in DOMAIN rx' |-> rx'[r]]
      /\ \A r \in DOMAIN rx : r # s => rx'[r] = rx[r]
  BY <1>1 DEF LossInv
<1> HIDE DEF b
<1>4. BufferShape(c) /\ c.received = b.received /\ c.base = b.base /\ c.max = b.max
  BY <1>2 DEF BufferShape
<1> HIDE DEF c
<1>6. \A r \in DOMAIN rx' :
         BufferShape(rx'[r]) /\ rx'[r].received \in Nat /\ rx'[r].base \in Int /\ rx'[r].max \in Int
  BY <1>2, <1>3, <1>4 DEF LossInv
<1>7. \A r \in DOMAIN rx : rx'[r].received = rx[r].received
  BY <1>3, <1>4 DEF b
<1>8. \A r \in Source : lastReported'[r] = lastReported[r] /\ tally'[r] = tally[r]
  BY <1>1
<1> QED
  BY <1>3, <1>6, <1>7, <1>8 DEF LossInv, BufferShape

\* An SR that comes adds its time to those of its stamp.
LEMMA SrIn == ASSUME StampInv, NEW s \in Source, NEW m \in Stamps, RecordRemoteSr(s, m) PROVE StampInv'
<1>1. /\ remoteSr' = [r \in DOMAIN remoteSr \cup {s} |->
                       IF r = s THEN [stamp |-> m, at |-> rtpNow] ELSE remoteSr[r]]
      /\ srAt' = [k \in DOMAIN srAt \cup {m} |->
                   IF k \in DOMAIN srAt THEN srAt[k] \cup (IF k = m THEN {rtpNow} ELSE {}) ELSE {rtpNow}]
      /\ UNCHANGED <<rtpNow, blocks>>
  BY DEF RecordRemoteSr
<1>2. /\ \A k \in DOMAIN srAt : k \in DOMAIN srAt' /\ srAt[k] \subseteq srAt'[k]
      /\ m \in DOMAIN srAt' /\ rtpNow \in srAt'[m]
  BY <1>1
<1>3. ASSUME NEW r \in DOMAIN remoteSr'
      PROVE  remoteSr'[r].stamp \in DOMAIN srAt' /\ remoteSr'[r].at \in Nat /\ remoteSr'[r].at \in srAt'[remoteSr'[r].stamp]
  <2>1. CASE r = s
    <3>1. remoteSr'[r].stamp = m /\ remoteSr'[r].at = rtpNow
      BY <1>1, <2>1
    <3> QED
      BY <1>2, <3>1 DEF StampInv
  <2>2. CASE r # s
    <3>1. r \in DOMAIN remoteSr /\ remoteSr'[r] = remoteSr[r]
      BY <1>1, <1>3, <2>2
    <3> QED
      BY <1>2, <3>1 DEF StampInv
  <2> QED
    BY <2>1, <2>2
<1>4. ASSUME NEW r \in DOMAIN blocks, blocks[r].trip.lsr # NoStamp
      PROVE  blocks[r].trip.lsr \in DOMAIN srAt' /\ blocks[r].at - blocks[r].trip.dlsr \in srAt'[blocks[r].trip.lsr]
  BY <1>2, <1>4 DEF StampInv
<1> QED
  BY <1>1, <1>3, <1>4 DEF StampInv

\* Every step of a stream keeps the invariant of its reports.
LEMMA ReportsKept == ReportInv /\ [RtpNext]_rtpVars => ReportInv'
<1> SUFFICES ASSUME ReportInv, [RtpNext]_rtpVars PROVE ReportInv'
  OBVIOUS
<1>1. CASE UNCHANGED rtpVars
  BY <1>1 DEF rtpVars, ReportInv, CountInv, TxShape, SrCountsWhatLeft, LossInv, BufferShape, StampInv
<1>2. CASE RtpNext
  <2>1. CountInv'
    BY <1>2, SendersCount DEF ReportInv
  <2>2. ASSUME UNCHANGED <<rx, lastReported, tally>> PROVE LossInv'
    BY <2>2 DEF ReportInv, LossInv, BufferShape
  <2>3. ASSUME UNCHANGED <<remoteSr, srAt, blocks>>, rtpNow' \in Nat PROVE StampInv'
    BY <2>3 DEF ReportInv, StampInv
  <2>4. rtpNow \in Nat
    BY DEF ReportInv, StampInv
  <2>5. CASE Clock
    <3>1. rtpNow' \in Nat
      BY <2>4, <2>5 DEF Clock
    <3> QED
      BY <2>1, <2>2, <2>3, <2>5, <3>1 DEF ReportInv, Clock
  <2>6. CASE UseEgress \/ TakeNumber \/ SocketSends \/ CountSent \/ SendEgressSr
    <3>1. UNCHANGED <<rtpNow, rx, lastReported, tally, remoteSr, srAt, blocks>>
      BY <2>6 DEF UseEgress, TakeNumber, SocketSends, CountSent, SendEgressSr
    <3> QED
      BY <2>1, <2>2, <2>3, <2>4, <3>1 DEF ReportInv
  <2>7. ASSUME NEW s \in Source, NEW n \in 1..LastNumber, IngestPacket(s, n) PROVE ReportInv'
    <3>1. LossInv'
      BY <2>7, PacketIn DEF ReportInv
    <3>2. UNCHANGED <<rtpNow, remoteSr, srAt, blocks>>
      BY <2>7 DEF IngestPacket
    <3> QED
      BY <2>1, <2>3, <2>4, <3>1, <3>2 DEF ReportInv
  <2>8. ASSUME NEW s \in Source, Pull(s) PROVE ReportInv'
    <3>1. LossInv'
      BY <2>8, PacketPlayed DEF ReportInv
    <3>2. UNCHANGED <<rtpNow, remoteSr, srAt, blocks>>
      BY <2>8 DEF Pull
    <3> QED
      BY <2>1, <2>3, <2>4, <3>1, <3>2 DEF ReportInv
  <2>9. ASSUME NEW s \in Source, NEW m \in Stamps, RecordRemoteSr(s, m) PROVE ReportInv'
    <3>1. StampInv'
      BY <2>9, SrIn DEF ReportInv
    <3>2. UNCHANGED <<rx, lastReported, tally>>
      BY <2>9 DEF RecordRemoteSr
    <3> QED
      BY <2>1, <2>2, <3>1, <3>2 DEF ReportInv
  <2>10. CASE SendSr \/ SendRr
    <3>1. PICK reported \in SUBSET DOMAIN rx : BuildBlocks(reported)
      BY <2>10 DEF SendSr, SendRr
    <3>2. UNCHANGED <<rtpNow, rx, remoteSr, srAt>>
      BY <2>10 DEF SendSr, SendRr
    <3> QED
      BY <2>1, <3>1, <3>2, BlocksTrue DEF ReportInv
  <2> QED
    BY <1>2, <2>5, <2>6, <2>7, <2>8, <2>9, <2>10 DEF RtpNext
<1> QED
  BY <1>1, <1>2

\* A stream begins with nothing sent, received or told.
LEMMA ReportsStart == RtpInit => ReportInv
<1> SUFFICES ASSUME RtpInit PROVE ReportInv
  OBVIOUS
<1>1. CountInv
  <2>1. /\ tx = [kind |-> "Session", stage |-> "Idle", ts |-> 0, sentAt |-> NoStamp, marker |-> FALSE,
                 counted |-> 0, anchor |-> NoStamp, reported |-> NoStamp, goneThen |-> 0]
        /\ gone = 0
    BY DEF RtpInit
  <2>2. TxShape /\ tx.stage = "Idle" /\ tx.counted = 0 /\ tx.reported = NoStamp
    BY <2>1 DEF TxShape
  <2> QED
    BY <2>1, <2>2 DEF CountInv, SrCountsWhatLeft
<1>2. LossInv
  <2>1. DOMAIN rx = {} /\ rx = [s \in DOMAIN rx |-> rx[s]]
    BY DEF RtpInit
  <2>2. \A s \in Source : /\ lastReported[s].expected = 0 /\ lastReported[s].received = 0
                          /\ tally[s].reported = 0 /\ tally[s].cumulative = 0
    BY DEF RtpInit
  <2> QED
    BY <2>1, <2>2 DEF LossInv
<1>3. StampInv
  <2>1. DOMAIN remoteSr = {} /\ DOMAIN blocks = {} /\ rtpNow = 0
    BY DEF RtpInit
  <2> QED
    BY <2>1 DEF StampInv
<1> QED
  BY <1>1, <1>2, <1>3 DEF ReportInv

\* What the invariant says of the reports.
LEMMA ReportsGood == ReportInv => ReportsTrue
  BY DEF ReportInv, CountInv, LossInv, StampInv, ReportsTrue, LossReported, RoundTripTrue

-----------------------------------------------------------------------------
(* The reliable 180: ReliableRinging                                       *)
RelTypes ==
    /\ relHandler \in RelOver \cup {"Idle", "Forking", "Waiting"} /\ relEntry \in BOOLEAN /\ relPermit \in BOOLEAN
    /\ relTask \in [on : BOOLEAN, due : Nat, interval : Nat]
    /\ relPracks \in [RelPrack -> {"Idle", "Found", "Took", "Answered", "Notified", "Refused", "Failed", "Done"}]
    /\ relNow \in Nat /\ relSends \in Seq(Nat)

\* A PRACK could not be answered.
AFailedPrack == \E p \in RelPrack : relPracks[p] = "Failed"

\* Who keeps the task running, and what the handler of the INVITE has heard.
RelStateInv ==
    /\ relHandler = "Idle" => /\ relSender = "State" /\ relSends = <<>> /\ ~relTask.on
                             /\ \A p \in RelPrack : relPracks[p] = "Idle"
    /\ relTask.on /\ ~relEntry => RelHolders # {}
    /\ relSender = "Sent" /\ relTask.on => relPermit
    /\ relHandler \in {"TimedOut", "Cancelled"} => ~relEntry
    /\ relHandler = "Final" => ~relEntry \/ relSender = "Sent" \/ AFailedPrack
    /\ relSender = "Dropped" => AFailedPrack

\* The task repeats when its pause is over, and the pauses only grow.
PauseInv ==
    LET n == Len(relSends) IN
    /\ relTask.on => /\ relNow <= relTask.due /\ relTask.interval <= RelT2
                     /\ n > 0 => relTask.due = relSends[n] + relTask.interval
                     /\ n > 1 => relSends[n] - relSends[n - 1] <= relTask.interval
    /\ RepeatsGrow

RingingInv == RelTypes /\ RelStateInv /\ PauseInv

\* A PRACK's handler goes on: who has the state, and who has failed.
LEMMA PrackGoesOn ==
    ASSUME RelTypes, NEW p \in RelPrack,
           NEW s \in {"Idle", "Found", "Took", "Answered", "Notified", "Refused", "Failed", "Done"}, PrackTo(p, s)
    PROVE  /\ relPracks' \in [RelPrack -> {"Idle", "Found", "Took", "Answered", "Notified", "Refused", "Failed", "Done"}]
           /\ relPracks'[p] = s
           /\ relPracks[p] # "Failed" \/ s = "Failed" => (AFailedPrack => AFailedPrack')
           /\ s \in {"Found", "Took", "Answered", "Notified", "Refused"} => RelHolders' # {}
           /\ RelHolders \ {p} \subseteq RelHolders'
           /\ relPracks[p] \in {"Idle", "Done", "Failed"} => RelHolders \subseteq RelHolders'
<1>1. relPracks' = [relPracks EXCEPT ![p] = s]
      /\ relPracks \in [RelPrack -> {"Idle", "Found", "Took", "Answered", "Notified", "Refused", "Failed", "Done"}]
  BY DEF PrackTo, RelTypes
<1>2. relPracks'[p] = s /\ \A q \in RelPrack : q # p => relPracks'[q] = relPracks[q]
  BY <1>1
<1> QED
  BY <1>1, <1>2 DEF AFailedPrack, RelHolders

\* The state is let go of: the task goes with it if nobody has it any more.
LEMMA TaskDropped ==
    ASSUME RelTypes, NEW e \in BOOLEAN, NEW h, relTask' = TaskAfterDrop(e, h)
    PROVE  /\ relTask' \in [on : BOOLEAN, due : Nat, interval : Nat]
           /\ relTask'.on => relTask' = relTask /\ (e \/ h # {})
           /\ relTask'.due = relTask.due /\ relTask'.interval = relTask.interval
  BY DEF RelTypes, TaskAfterDrop

\* The handler of the INVITE takes a step.
LEMMA HandlerRings ==
    ASSUME RelTypes, RelStateInv,
           RingReliably \/ RelCancelled \/ RelWait \/ RelReceived \/ RelTimeout \/ RelFinish
    PROVE  /\ RelTypes' /\ RelStateInv' /\ UNCHANGED <<relNow, relSends>>
           /\ relTask'.on /\ relHandler # "Idle" => relTask' = relTask
           /\ relHandler = "Idle" => relTask'.due = relNow + 1 /\ relTask'.interval = 1
<1> USE DEF RelTypes
<1>1. UNCHANGED <<relPermit, relSender, relPracks, relNow, relSends>> /\ RelHolders' = RelHolders /\ AFailedPrack' = AFailedPrack
  BY DEF RingReliably, RelCancelled, RelWait, RelReceived, RelTimeout, RelFinish, RelHolders, AFailedPrack
<1>2. CASE RingReliably
  <2>1. /\ relHandler = "Idle" /\ relTask' = [on |-> TRUE, due |-> relNow + 1, interval |-> 1] /\ relEntry' = TRUE
        /\ relHandler' \in {"Forking", "RingFailed"}
    BY <1>2 DEF RingReliably
  <2>2. relTask' \in [on : BOOLEAN, due : Nat, interval : Nat] /\ relTask'.due = relNow + 1 /\ relTask'.interval = 1
    BY <2>1
  <2>3. RelStateInv'
    BY <1>1, <2>1 DEF RelStateInv
  <2> QED
    BY <1>1, <2>1, <2>2, <2>3 DEF RelOver
<1>3. CASE RelCancelled \/ RelTimeout \/ RelFinish
  <2>1. /\ relEntry' = FALSE /\ relTask' = TaskAfterDrop(FALSE, RelHolders) /\ relHandler # "Idle"
        /\ relHandler' \in {"Cancelled", "TimedOut", "Final"}
    BY <1>3 DEF RelCancelled, RelTimeout, RelFinish, CleanRel
  <2>2. relTask' \in [on : BOOLEAN, due : Nat, interval : Nat] /\ (relTask'.on => relTask' = relTask /\ RelHolders # {})
    BY <2>1, TaskDropped
  <2>3. RelStateInv'
    BY <1>1, <2>1, <2>2 DEF RelStateInv
  <2> QED
    BY <1>1, <2>1, <2>2, <2>3 DEF RelOver
<1>4. CASE RelWait \/ RelReceived
  <2>1. /\ relHandler # "Idle" /\ relHandler' \in {"Waiting", "Final"} /\ UNCHANGED <<relEntry, relTask>>
        /\ relHandler' = "Final" => ~relEntry \/ relSender \in {"Sent", "Dropped"}
    BY <1>4 DEF RelWait, RelReceived
  <2>2. RelStateInv'
    BY <1>1, <2>1 DEF RelStateInv
  <2> QED
    BY <1>1, <2>1, <2>2 DEF RelOver
<1> QED
  BY <1>2, <1>3, <1>4

\* A PRACK's handler takes a step.
LEMMA PrackRings ==
    ASSUME RelTypes, RelStateInv, NEW p \in RelPrack,
           \/ RelPrackFinds(p) \/ RelPrackTakes(p) \/ RelPrackAnswers(p) \/ RelPrackNotifies(p) \/ RelPrackDone(p)
    PROVE  /\ RelTypes' /\ RelStateInv' /\ UNCHANGED <<relNow, relSends>> /\ relHandler # "Idle"
           /\ relTask'.on => relTask' = relTask
<1>1. UNCHANGED <<relHandler, relNow, relSends>>
  BY DEF RelPrackFinds, RelPrackTakes, RelPrackAnswers, RelPrackNotifies, RelPrackDone, RelElse
<1>2. p \notin {"State", "Sent", "Dropped"} /\ relHandler # "Idle"
  BY RelAssumption DEF RelStateInv, RelPrackFinds, RelPrackTakes, RelPrackAnswers, RelPrackNotifies, RelPrackDone
<1>3. CASE RelPrackFinds(p)
  <2>1. PICK s \in {"Found", "Done"} : PrackTo(p, s)
    BY <1>3 DEF RelPrackFinds
  <2>2. relHandler # "Idle" /\ relPracks[p] = "Idle" /\ UNCHANGED <<relEntry, relTask, relPermit, relSender>>
    BY <1>3 DEF RelPrackFinds
  <2>3. RelTypes' /\ (AFailedPrack => AFailedPrack') /\ RelHolders \subseteq RelHolders'
    BY <1>1, <2>1, <2>2, PrackGoesOn DEF RelTypes
  <2> QED
    BY <1>1, <2>2, <2>3 DEF RelStateInv
<1>4. CASE RelPrackTakes(p)
  <2>1. PICK s \in {"Took", "Refused"} : PrackTo(p, s)
    BY <1>4 DEF RelPrackTakes
  <2>2. relPracks[p] = "Found" /\ UNCHANGED <<relEntry, relTask, relPermit>> /\ relSender' \in {relSender, p}
    BY <1>4 DEF RelPrackTakes
  <2>3. RelTypes' /\ (AFailedPrack => AFailedPrack') /\ RelHolders' # {}
    BY <1>1, <2>1, <2>2, PrackGoesOn DEF RelTypes
  <2>4. relHandler = "Final" /\ relSender = "Sent" => relSender' = "Sent"
    BY <1>4 DEF RelPrackTakes
  <2> QED
    BY <1>1, <1>2, <2>2, <2>3, <2>4 DEF RelStateInv
<1>5. CASE RelPrackAnswers(p)
  <2>1. relPracks[p] = "Took" /\ UNCHANGED <<relEntry, relPermit>>
    BY <1>5 DEF RelPrackAnswers
  <2>2. CASE PrackTo(p, "Answered") /\ UNCHANGED <<relSender, relTask>>
    <3>1. RelTypes' /\ (AFailedPrack => AFailedPrack') /\ RelHolders' # {}
      BY <1>1, <2>1, <2>2, PrackGoesOn DEF RelTypes
    <3> QED
      BY <1>1, <1>2, <2>1, <2>2, <3>1 DEF RelStateInv
  <2>3. CASE /\ PrackTo(p, "Failed")
             /\ relSender' = IF relSender = p THEN "Dropped" ELSE relSender
             /\ relTask' = TaskAfterDrop(relEntry, RelHolders \ {p})
    <3>1. relEntry \in BOOLEAN
      BY DEF RelTypes
    <3>2. /\ relTask' \in [on : BOOLEAN, due : Nat, interval : Nat]
          /\ relTask'.on => relTask' = relTask /\ (relEntry \/ RelHolders \ {p} # {})
      BY <2>3, <3>1, TaskDropped
    <3>3. /\ relPracks' \in [RelPrack -> {"Idle", "Found", "Took", "Answered", "Notified", "Refused", "Failed", "Done"}]
          /\ AFailedPrack' /\ RelHolders \ {p} \subseteq RelHolders'
      BY <2>3, PrackGoesOn DEF AFailedPrack
    <3>4. RelTypes'
      BY <1>1, <2>1, <3>2, <3>3 DEF RelTypes
    <3> QED
      BY <1>1, <1>2, <2>1, <2>3, <3>2, <3>3, <3>4 DEF RelStateInv
  <2> QED
    BY <1>5, <2>2, <2>3 DEF RelPrackAnswers
<1>6. CASE RelPrackNotifies(p)
  <2>1. /\ relPracks[p] = "Answered" /\ PrackTo(p, "Notified") /\ relPermit' = TRUE /\ UNCHANGED <<relEntry, relTask>>
        /\ relSender' = IF relSender = p THEN "Sent" ELSE relSender
    BY <1>6 DEF RelPrackNotifies
  <2>2. RelTypes' /\ (AFailedPrack => AFailedPrack') /\ RelHolders' # {}
    BY <1>1, <2>1, PrackGoesOn DEF RelTypes
  <2> QED
    BY <1>1, <1>2, <2>1, <2>2 DEF RelStateInv
<1>7. CASE RelPrackDone(p)
  <2>1. /\ relPracks[p] \in {"Notified", "Refused"} /\ PrackTo(p, "Done") /\ UNCHANGED <<relPermit, relSender>>
        /\ relEntry' = (relEntry /\ relPracks[p] = "Refused") /\ relTask' = TaskAfterDrop(relEntry', RelHolders \ {p})
    BY <1>7 DEF RelPrackDone
  <2>2. relEntry' \in BOOLEAN /\ (relEntry' => relEntry)
    BY <2>1 DEF RelTypes
  <2>3. /\ relTask' \in [on : BOOLEAN, due : Nat, interval : Nat]
        /\ relTask'.on => relTask' = relTask /\ (relEntry' \/ RelHolders \ {p} # {})
    BY <2>1, <2>2, TaskDropped
  <2>4. /\ relPracks' \in [RelPrack -> {"Idle", "Found", "Took", "Answered", "Notified", "Refused", "Failed", "Done"}]
        /\ (AFailedPrack => AFailedPrack') /\ RelHolders \ {p} \subseteq RelHolders'
    BY <2>1, PrackGoesOn
  <2>5. RelTypes'
    BY <1>1, <2>1, <2>2, <2>3, <2>4 DEF RelTypes
  <2> QED
    BY <1>1, <1>2, <2>1, <2>2, <2>3, <2>4, <2>5 DEF RelStateInv
<1> QED
  BY <1>3, <1>4, <1>5, <1>6, <1>7

\* The task takes a step, or time passes.
LEMMA TaskRings ==
    ASSUME RelTypes, RelStateInv, PauseInv, RepeatRinging \/ RelNotified \/ RelTick
    PROVE  RelTypes' /\ RelStateInv' /\ PauseInv'
<1> DEFINE n == Len(relSends)
<1>1. /\ UNCHANGED <<relHandler, relEntry, relSender, relPracks>> /\ RelHolders' = RelHolders /\ AFailedPrack' = AFailedPrack
      /\ relTask.on \in BOOLEAN /\ relTask.due \in Nat /\ relTask.interval \in Nat /\ relNow \in Nat
      /\ relSends \in Seq(Nat) /\ n \in Nat /\ \A i \in 1..n : relSends[i] \in Nat
  BY DEF RepeatRinging, RelNotified, RelTick, RelHolders, AFailedPrack, RelTypes
<1>2. ASSUME relTask' = [relTask EXCEPT !.on = FALSE], relSends' = relSends, relNow' = relNow, relPermit' \in BOOLEAN
      PROVE  RelTypes' /\ RelStateInv' /\ PauseInv'
  <2>1. relTask' \in [on : BOOLEAN, due : Nat, interval : Nat] /\ ~relTask'.on
    BY <1>2 DEF RelTypes
  <2> QED
    BY <1>1, <1>2, <2>1 DEF RelTypes, RelStateInv, PauseInv, RepeatsGrow
<1>3. CASE RelNotified
  BY <1>2, <1>3 DEF RelNotified
<1>4. CASE RelTick
  <2>1. /\ relNow' = relNow + 1 /\ (relTask.on => relNow < relTask.due)
        /\ UNCHANGED <<relTask, relPermit, relSends>>
    BY <1>4 DEF RelTick
  <2>2. PauseInv'
    BY <1>1, <2>1 DEF PauseInv, RepeatsGrow
  <2> QED
    BY <1>1, <2>1, <2>2 DEF RelTypes, RelStateInv
<1>5. CASE RepeatRinging /\ relTask' = [relTask EXCEPT !.on = FALSE] /\ relSends' = relSends
  BY <1>2, <1>5 DEF RepeatRinging, RelTypes
<1>6. ASSUME RepeatRinging, relSends' = Append(relSends, relNow),
             relTask' = [relTask EXCEPT
                 !.interval = IF 2 * relTask.interval < RelT2 THEN 2 * relTask.interval ELSE RelT2,
                 !.due = relNow + (IF 2 * relTask.interval < RelT2 THEN 2 * relTask.interval ELSE RelT2)]
      PROVE  RelTypes' /\ RelStateInv' /\ PauseInv'
  <2> DEFINE next == IF 2 * relTask.interval < RelT2 THEN 2 * relTask.interval ELSE RelT2
  <2>1. relTask.on /\ relNow >= relTask.due /\ UNCHANGED <<relPermit, relNow>>
    BY <1>6 DEF RepeatRinging
  <2>2. relNow = relTask.due /\ relTask.interval <= RelT2 /\ relHandler # "Idle"
        /\ (n > 0 => relTask.due = relSends[n] + relTask.interval)
        /\ (n > 1 => relSends[n] - relSends[n - 1] <= relTask.interval)
    BY <1>1, <2>1 DEF PauseInv, RelStateInv
  <2>3. next \in Nat /\ next <= RelT2 /\ relTask.interval <= next
    BY <1>1, <2>2, RelAssumption
  <2> HIDE DEF next
  <2>4. /\ relTask' \in [on : BOOLEAN, due : Nat, interval : Nat] /\ relTask'.on = relTask.on
        /\ relTask'.interval = next /\ relTask'.due = relNow + next
    <3>1. relTask' = [relTask EXCEPT !.interval = next, !.due = relNow + next]
      BY <1>6 DEF next
    <3> DEFINE d == relNow + next
    <3>2. d \in Nat
      BY <1>1, <2>3
    <3> HIDE DEF d
    <3>3. relTask' = [relTask EXCEPT !.interval = next, !.due = d]
      BY <3>1 DEF d
    <3>4. relTask \in [on : BOOLEAN, due : Nat, interval : Nat]
      BY DEF RelTypes
    <3>5. relTask' \in [on : BOOLEAN, due : Nat, interval : Nat] /\ relTask'.on = relTask.on
      BY <2>3, <3>2, <3>3, <3>4
    <3>6. relTask'.interval = next /\ relTask'.due = d
      BY <3>3, <3>4
    <3> QED
      BY <3>5, <3>6 DEF d
  <2>5. /\ relSends' \in Seq(Nat) /\ Len(relSends') = n + 1 /\ relSends'[n + 1] = relNow
        /\ \A i \in 1..n : relSends'[i] = relSends[i]
    BY <1>1, <1>6
  <2> HIDE DEF n
  <2>6. n > 0 => relSends'[n + 1] - relSends'[n] = relTask.interval
    <3>1. n > 0 => n \in 1..n
      BY <1>1
    <3> QED
      BY <1>1, <2>2, <2>5, <3>1
  <2>7. RepeatsGrow'
    <3> SUFFICES ASSUME NEW i \in 1..((n + 1) - 2)
                 PROVE  relSends'[i + 2] - relSends'[i + 1] >= relSends'[i + 1] - relSends'[i]
      BY <2>5 DEF RepeatsGrow
    <3>1. i \in 1..n /\ i + 1 \in 1..n /\ i \in Nat
      BY <1>1
    <3>2. CASE i + 2 \in 1..n
      <4>1. i \in 1..(n - 2)
        BY <1>1, <3>1, <3>2
      <4>2. relSends[i + 2] - relSends[i + 1] >= relSends[i + 1] - relSends[i]
        BY <4>1 DEF PauseInv, RepeatsGrow, n
      <4> QED
        BY <2>5, <3>1, <3>2, <4>2
    <3>3. CASE i + 2 = n + 1
      <4>1. i + 1 = n /\ n > 1 /\ i = n - 1
        BY <1>1, <3>1, <3>3
      <4>2. relSends'[i + 2] - relSends'[i + 1] = relTask.interval
        BY <2>6, <3>3, <4>1
      <4>3. relSends'[i + 1] - relSends'[i] <= relTask.interval
        <5>1. relSends'[i + 1] = relSends[n] /\ relSends'[i] = relSends[n - 1]
          BY <2>5, <3>1, <4>1
        <5> QED
          BY <2>2, <4>1, <5>1
      <4>4. relSends'[i + 1] \in Nat /\ relSends'[i] \in Nat
        BY <1>1, <2>5, <3>1 DEF n
      <4> QED
        BY <1>1, <4>2, <4>3, <4>4
    <3> QED
      BY <1>1, <3>1, <3>2, <3>3
  <2>8. PauseInv'
    <3>1. relNow' <= relTask'.due /\ relTask'.interval <= RelT2 /\ relTask'.due = relSends'[n + 1] + relTask'.interval
      BY <1>1, <2>1, <2>3, <2>4, <2>5
    <3>2. n + 1 > 1 => relSends'[n + 1] - relSends'[(n + 1) - 1] <= relTask'.interval
      <4>1. (n + 1) - 1 = n /\ (n + 1 > 1 => n > 0)
        BY <1>1
      <4> QED
        BY <1>1, <2>3, <2>4, <2>6, <4>1
    <3> QED
      BY <2>5, <2>7, <3>1, <3>2 DEF PauseInv
  <2> QED
    BY <1>1, <2>1, <2>2, <2>4, <2>5, <2>8 DEF RelTypes, RelStateInv
<1> QED
  BY <1>3, <1>4, <1>5, <1>6 DEF RepeatRinging

\* Every step of the reliable 180 keeps its invariant.
LEMMA RingingKept == RingingInv /\ [RelNext]_relVars2 => RingingInv'
<1> SUFFICES ASSUME RingingInv, [RelNext]_relVars2 PROVE RingingInv'
  OBVIOUS
<1> USE DEF RingingInv
<1>1. CASE UNCHANGED relVars2
  BY <1>1 DEF relVars2, RelTypes, RelStateInv, PauseInv, RepeatsGrow, RelHolders, AFailedPrack
<1>2. CASE RingReliably \/ RelCancelled \/ RelWait \/ RelReceived \/ RelTimeout \/ RelFinish
  <2>1. /\ RelTypes' /\ RelStateInv' /\ UNCHANGED <<relNow, relSends>>
        /\ relTask'.on /\ relHandler # "Idle" => relTask' = relTask
        /\ relHandler = "Idle" => relTask'.due = relNow + 1 /\ relTask'.interval = 1
    BY <1>2, HandlerRings
  <2>2. CASE relHandler # "Idle"
    BY <2>1, <2>2 DEF PauseInv, RepeatsGrow
  <2>3. CASE relHandler = "Idle"
    <3>1. relSends = <<>> /\ Len(relSends') = 0
      BY <2>1, <2>3 DEF RelStateInv
    <3> QED
      BY <2>1, <2>3, <3>1, RelAssumption DEF PauseInv, RepeatsGrow, RelTypes
  <2> QED
    BY <2>1, <2>2, <2>3
<1>3. ASSUME NEW p \in RelPrack,
             \/ RelPrackFinds(p) \/ RelPrackTakes(p) \/ RelPrackAnswers(p) \/ RelPrackNotifies(p) \/ RelPrackDone(p)
      PROVE  RingingInv'
  <2>1. RelTypes' /\ RelStateInv' /\ UNCHANGED <<relNow, relSends>> /\ (relTask'.on => relTask' = relTask)
    BY <1>3, PrackRings
  <2> QED
    BY <2>1 DEF PauseInv, RepeatsGrow
<1>4. CASE RepeatRinging \/ RelNotified \/ RelTick
  BY <1>4, TaskRings
<1> QED
  BY <1>1, <1>2, <1>3, <1>4 DEF RelNext

\* Before the 180 nothing repeats it and nobody has acknowledged it.
LEMMA RingingStarts == RelInit => RingingInv
<1> SUFFICES ASSUME RelInit PROVE RingingInv
  OBVIOUS
<1>1. relTask \in [on : BOOLEAN, due : Nat, interval : Nat] /\ ~relTask.on /\ relSends \in Seq(Nat) /\ Len(relSends) = 0
  BY DEF RelInit
<1>2. RelTypes
  BY <1>1 DEF RelInit, RelTypes
<1>3. RelStateInv
  BY <1>1 DEF RelInit, RelStateInv
<1>4. PauseInv
  BY <1>1 DEF PauseInv, RepeatsGrow
<1> QED
  BY <1>2, <1>3, <1>4 DEF RingingInv

\* What the invariant says of the repetition.
LEMMA RingingGood == RingingInv => RepeatsGrow /\ RepeatsEnd
<1> SUFFICES ASSUME RingingInv PROVE RepeatsGrow /\ RepeatsEnd
  OBVIOUS
<1>1. RepeatsGrow
  BY DEF RingingInv, PauseInv
<1>2. relTask.on => ~RelConfirmed \/ RelHolders # {} \/ relPermit
  BY DEF RingingInv, RelStateInv, RelConfirmed
<1>3. relTask.on /\ relHandler \in RelOver \ {"RingFailed"} =>
           \/ RelHolders # {} \/ relPermit
           \/ relHandler = "Final" /\ relEntry /\ AFailedPrack
  BY DEF RingingInv, RelStateInv, RelOver
<1> QED
  BY <1>1, <1>2, <1>3 DEF RepeatsEnd, AFailedPrack

-----------------------------------------------------------------------------
(* What is dialled: CallRouting                                            *)

\* A call between extensions stays in the house, step by step: whoever comes or goes
\* ends what was said about the last call.
LEMMA HouseKept == StaysInTheHouse /\ [RoutingNext]_routingVars => StaysInTheHouse'
<1> SUFFICES ASSUME StaysInTheHouse, [RoutingNext]_routingVars PROVE StaysInTheHouse'
  OBVIOUS
<1>1. CASE UNCHANGED <<dialled, present>>
  BY <1>1 DEF StaysInTheHouse
<1>2. CASE dialled' = NoDial
  <2>1. dialled'.to = "None" /\ dialled'.kind = NotGiven /\ NotGiven # "Sip"
    BY <1>2 DEF NoDial, NotGiven
  <2> QED
    BY <2>1 DEF StaysInTheHouse
<1>3. ASSUME NEW by, NEW t, ExtensionDials(by, t) PROVE StaysInTheHouse'
  <2> DEFINE to == IF IsSelf(by, t) THEN "480"
                   ELSE IF Classify(t).to = "Internal" /\ ~IntercomOn THEN "480" ELSE Classify(t).to
  <2>1. dialled' = [by |-> by, kind |-> "Sip", target |-> t, to |-> to, aor |-> Classify(t).aor] /\ present' = present
    BY <1>3 DEF ExtensionDials
  <2>2. /\ to = "Internal" => Contains(present, Resolve(t)) /\ Classify(t).aor = Resolve(t) /\ Resolve(t) # by
        /\ to = "Ngn" => ~Contains(present, Resolve(t)) /\ Classify(t).aor = t
    BY DEF Classify, IsSelf
  <2> HIDE DEF to
  <2>3. dialled'.by = by /\ dialled'.to = to /\ dialled'.target = t /\ dialled'.aor = Classify(t).aor
    BY <2>1
  <2> QED
    BY <2>1, <2>2, <2>3 DEF StaysInTheHouse
<1>4. ASSUME NEW by, NEW t, BrowserDials(by, t) PROVE StaysInTheHouse'
  <2> DEFINE to == IF ~Dialable(t) THEN "invalid_target" ELSE IF IntercomOn THEN Classify(t).to ELSE "Ngn"
             aor == IF IntercomOn THEN Classify(t).aor ELSE t
  <2>1. dialled' = [by |-> by, kind |-> "Web", target |-> t, to |-> to, aor |-> aor] /\ present' = present
    BY <1>4 DEF BrowserDials
  <2>2. /\ to = "Internal" => Contains(present, aor)
        /\ to = "Ngn" => aor = t
    BY DEF Classify
  <2> HIDE DEF to, aor
  <2>3. dialled'.kind = "Web" /\ dialled'.to = to /\ dialled'.target = t /\ dialled'.aor = aor
    BY <2>1
  <2> QED
    BY <2>1, <2>2, <2>3 DEF StaysInTheHouse
<1> QED
  BY <1>1, <1>2, <1>3, <1>4 DEF RoutingNext, routingVars, LoadRules, CallComesIn, Appear, Leave

-----------------------------------------------------------------------------
(* Samples and frames: AudioCodec                                          *)

\* What a byte says of the magnitude with its bias.
Heard(m) == (((m \div 2^(Segment(m) + 3)) % 16) * 8 + Bias) * 2^Segment(m) - Bias

\* The segments cut the magnitudes up.
LEMMA SegmentIs ==
    ASSUME NEW m \in Nat, 132 <= m, m < 32768
    PROVE  /\ 132 <= m /\ m < 256 => Segment(m) = 0
           /\ 256 <= m /\ m < 512 => Segment(m) = 1
           /\ 512 <= m /\ m < 1024 => Segment(m) = 2
           /\ 1024 <= m /\ m < 2048 => Segment(m) = 3
           /\ 2048 <= m /\ m < 4096 => Segment(m) = 4
           /\ 4096 <= m /\ m < 8192 => Segment(m) = 5
           /\ 8192 <= m /\ m < 16384 => Segment(m) = 6
           /\ 16384 <= m /\ m < 32768 => Segment(m) = 7
<1> DEFINE InSegment(e) == (e = 0 \/ m >= 2^(e + 7)) /\ (e = 7 \/ m < 2^(e + 8))
<1>1. \E e \in 0..7 : InSegment(e)
  <2>1. CASE 132 <= m /\ m < 256
    <3>1. InSegment(0)
      BY <2>1
    <3> QED
      BY <3>1
  <2>2. CASE 256 <= m /\ m < 512
    <3>1. InSegment(1)
      BY <2>2
    <3> QED
      BY <3>1
  <2>3. CASE 512 <= m /\ m < 1024
    <3>1. InSegment(2)
      BY <2>3
    <3> QED
      BY <3>1
  <2>4. CASE 1024 <= m /\ m < 2048
    <3>1. InSegment(3)
      BY <2>4
    <3> QED
      BY <3>1
  <2>5. CASE 2048 <= m /\ m < 4096
    <3>1. InSegment(4)
      BY <2>5
    <3> QED
      BY <3>1
  <2>6. CASE 4096 <= m /\ m < 8192
    <3>1. InSegment(5)
      BY <2>6
    <3> QED
      BY <3>1
  <2>7. CASE 8192 <= m /\ m < 16384
    <3>1. InSegment(6)
      BY <2>7
    <3> QED
      BY <3>1
  <2>8. CASE 16384 <= m /\ m < 32768
    <3>1. InSegment(7)
      BY <2>8
    <3> QED
      BY <3>1
  <2> QED
    BY <2>1, <2>2, <2>3, <2>4, <2>5, <2>6, <2>7, <2>8
<1>2. Segment(m) = CHOOSE e \in 0..7 : InSegment(e)
  BY DEF Segment
<1> DEFINE s == Segment(m)
<1>3. s \in 0..7 /\ InSegment(s)
  <2> HIDE DEF InSegment
  <2> QED
    BY <1>1, <1>2
<1> HIDE DEF s
<1>4. s = 0 => 132 <= m /\ m < 256
  BY <1>3
<1>5. s = 1 => 256 <= m /\ m < 512
  BY <1>3
<1>6. s = 2 => 512 <= m /\ m < 1024
  BY <1>3
<1>7. s = 3 => 1024 <= m /\ m < 2048
  BY <1>3
<1>8. s = 4 => 2048 <= m /\ m < 4096
  BY <1>3
<1>9. s = 5 => 4096 <= m /\ m < 8192
  BY <1>3
<1>10. s = 6 => 8192 <= m /\ m < 16384
  BY <1>3
<1>11. s = 7 => 16384 <= m /\ m < 32768
  BY <1>3
<1>12. s = 0 \/ s = 1 \/ s = 2 \/ s = 3 \/ s = 4 \/ s = 5 \/ s = 6 \/ s = 7
  BY <1>3
<1> HIDE DEF InSegment
<1>13. /\ 132 <= m /\ m < 256 => s = 0
       /\ 256 <= m /\ m < 512 => s = 1
       /\ 512 <= m /\ m < 1024 => s = 2
       /\ 1024 <= m /\ m < 2048 => s = 3
       /\ 2048 <= m /\ m < 4096 => s = 4
       /\ 4096 <= m /\ m < 8192 => s = 5
       /\ 8192 <= m /\ m < 16384 => s = 6
       /\ 16384 <= m /\ m < 32768 => s = 7
  BY <1>4, <1>5, <1>6, <1>7, <1>8, <1>9, <1>10, <1>11, <1>12
<1> QED
  BY <1>13 DEF s

\* What is heard, segment by segment: the middle of the step the magnitude is in.
HeardIn(m, p) == ((m \div (8 * p)) - 16) * (8 * p) + 132 * (p - 1)

LEMMA HeardBySegment ==
    ASSUME NEW m \in Nat, 132 <= m, m < 32768
    PROVE  /\ 132 <= m /\ m < 256 => Heard(m) = HeardIn(m, 1)
           /\ 256 <= m /\ m < 512 => Heard(m) = HeardIn(m, 2)
           /\ 512 <= m /\ m < 1024 => Heard(m) = HeardIn(m, 4)
           /\ 1024 <= m /\ m < 2048 => Heard(m) = HeardIn(m, 8)
           /\ 2048 <= m /\ m < 4096 => Heard(m) = HeardIn(m, 16)
           /\ 4096 <= m /\ m < 8192 => Heard(m) = HeardIn(m, 32)
           /\ 8192 <= m /\ m < 16384 => Heard(m) = HeardIn(m, 64)
           /\ 16384 <= m /\ m < 32768 => Heard(m) = HeardIn(m, 128)
<1>1. ASSUME 132 <= m /\ m < 256 PROVE Heard(m) = HeardIn(m, 1)
  <2>1. Segment(m) = 0
    BY <1>1, SegmentIs
  <2>2. 2^(Segment(m) + 3) = 8 /\ 2^Segment(m) = 1
    BY <2>1
  <2>3. Heard(m) = (((m \div 8) % 16) * 8 + 132) * 1 - 132
    BY <2>2 DEF Heard, Bias
  <2>4. (m \div 8) % 16 = (m \div 8) - 16
    BY <1>1
  <2> QED
    BY <2>3, <2>4 DEF HeardIn
<1>2. ASSUME 256 <= m /\ m < 512 PROVE Heard(m) = HeardIn(m, 2)
  <2>1. Segment(m) = 1
    BY <1>2, SegmentIs
  <2>2. 2^(Segment(m) + 3) = 16 /\ 2^Segment(m) = 2
    BY <2>1
  <2>3. Heard(m) = (((m \div 16) % 16) * 8 + 132) * 2 - 132
    BY <2>2 DEF Heard, Bias
  <2>4. (m \div 16) % 16 = (m \div 16) - 16
    BY <1>2
  <2> QED
    BY <2>3, <2>4 DEF HeardIn
<1>3. ASSUME 512 <= m /\ m < 1024 PROVE Heard(m) = HeardIn(m, 4)
  <2>1. Segment(m) = 2
    BY <1>3, SegmentIs
  <2>2. 2^(Segment(m) + 3) = 32 /\ 2^Segment(m) = 4
    BY <2>1
  <2>3. Heard(m) = (((m \div 32) % 16) * 8 + 132) * 4 - 132
    BY <2>2 DEF Heard, Bias
  <2>4. (m \div 32) % 16 = (m \div 32) - 16
    BY <1>3
  <2> QED
    BY <2>3, <2>4 DEF HeardIn
<1>4. ASSUME 1024 <= m /\ m < 2048 PROVE Heard(m) = HeardIn(m, 8)
  <2>1. Segment(m) = 3
    BY <1>4, SegmentIs
  <2>2. 2^(Segment(m) + 3) = 64 /\ 2^Segment(m) = 8
    BY <2>1
  <2>3. Heard(m) = (((m \div 64) % 16) * 8 + 132) * 8 - 132
    BY <2>2 DEF Heard, Bias
  <2>4. (m \div 64) % 16 = (m \div 64) - 16
    BY <1>4
  <2> QED
    BY <2>3, <2>4 DEF HeardIn
<1>5. ASSUME 2048 <= m /\ m < 4096 PROVE Heard(m) = HeardIn(m, 16)
  <2>1. Segment(m) = 4
    BY <1>5, SegmentIs
  <2>2. 2^(Segment(m) + 3) = 128 /\ 2^Segment(m) = 16
    BY <2>1
  <2>3. Heard(m) = (((m \div 128) % 16) * 8 + 132) * 16 - 132
    BY <2>2 DEF Heard, Bias
  <2>4. (m \div 128) % 16 = (m \div 128) - 16
    BY <1>5
  <2> QED
    BY <2>3, <2>4 DEF HeardIn
<1>6. ASSUME 4096 <= m /\ m < 8192 PROVE Heard(m) = HeardIn(m, 32)
  <2>1. Segment(m) = 5
    BY <1>6, SegmentIs
  <2>2. 2^(Segment(m) + 3) = 256 /\ 2^Segment(m) = 32
    BY <2>1
  <2>3. Heard(m) = (((m \div 256) % 16) * 8 + 132) * 32 - 132
    BY <2>2 DEF Heard, Bias
  <2>4. (m \div 256) % 16 = (m \div 256) - 16
    BY <1>6
  <2> QED
    BY <2>3, <2>4 DEF HeardIn
<1>7. ASSUME 8192 <= m /\ m < 16384 PROVE Heard(m) = HeardIn(m, 64)
  <2>1. Segment(m) = 6
    BY <1>7, SegmentIs
  <2>2. 2^(Segment(m) + 3) = 512 /\ 2^Segment(m) = 64
    BY <2>1
  <2>3. Heard(m) = (((m \div 512) % 16) * 8 + 132) * 64 - 132
    BY <2>2 DEF Heard, Bias
  <2>4. (m \div 512) % 16 = (m \div 512) - 16
    BY <1>7
  <2> QED
    BY <2>3, <2>4 DEF HeardIn
<1>8. ASSUME 16384 <= m /\ m < 32768 PROVE Heard(m) = HeardIn(m, 128)
  <2>1. Segment(m) = 7
    BY <1>8, SegmentIs
  <2>2. 2^(Segment(m) + 3) = 1024 /\ 2^Segment(m) = 128
    BY <2>1
  <2>3. Heard(m) = (((m \div 1024) % 16) * 8 + 132) * 128 - 132
    BY <2>2 DEF Heard, Bias
  <2>4. (m \div 1024) % 16 = (m \div 1024) - 16
    BY <1>8
  <2> QED
    BY <2>3, <2>4 DEF HeardIn
<1> QED
  BY <1>1, <1>2, <1>3, <1>4, <1>5, <1>6, <1>7, <1>8

\* What is heard is at most half a step of its segment away, is heard as itself, and
\* is not below what is heard of a smaller magnitude.
LEMMA HeardNear ==
    ASSUME NEW m \in Nat, 132 <= m, m < 32768
    PROVE  /\ Heard(m) \in Nat /\ Heard(m) <= 32124
           /\ (m - 132) - Heard(m) <= 2^(Segment(m) + 2)
           /\ Heard(m) - (m - 132) <= 2^(Segment(m) + 2)
           /\ Heard(Heard(m) + 132) = Heard(m)
           /\ m + 1 < 32768 => Heard(m) <= Heard(m + 1)
<1>1. CASE 132 <= m /\ m < 256
  <2> DEFINE h == HeardIn(m, 1)
  <2>1. Segment(m) = 0 /\ Heard(m) = h
    BY <1>1, SegmentIs, HeardBySegment
  <2>2. 2^(Segment(m) + 2) = 4
    BY <2>1
  <2>3. /\ h \in Nat /\ h <= 120
        /\ (m - 132) - h <= 4 /\ h - (m - 132) <= 4
        /\ 132 <= h + 132 /\ h + 132 < 256
        /\ HeardIn(h + 132, 1) = h
    BY <1>1 DEF HeardIn
  <2>4. h + 132 \in Nat /\ 132 <= h + 132 /\ h + 132 < 32768
    BY <2>3
  <2>5. Heard(h + 132) = HeardIn(h + 132, 1)
    <3> DEFINE n == h + 132
    <3> HIDE DEF n
    <3>1. n \in Nat /\ 132 <= n /\ n < 32768 /\ 132 <= n /\ n < 256
      BY <2>3, <2>4 DEF n
    <3>2. Heard(n) = HeardIn(n, 1)
      BY <3>1, HeardBySegment
    <3> QED
      BY <3>2 DEF n
  <2>6. m + 1 < 32768 => h <= Heard(m + 1)
    <3> DEFINE n == m + 1
    <3>0. n \in Nat /\ 132 <= n /\ n = m + 1
      OBVIOUS
    <3> HIDE DEF n
    <3>1. CASE n < 256
      <4>1. Heard(n) = HeardIn(n, 1)
        BY <1>1, <3>0, <3>1, HeardBySegment
      <4>2. h <= HeardIn(n, 1)
        BY <3>0 DEF HeardIn
      <4> QED
        BY <4>1, <4>2 DEF n
    <3>2. CASE n = 256
      <4>1. Heard(n) = HeardIn(n, 2)
        BY <3>0, <3>2, HeardBySegment
      <4>2. HeardIn(n, 2) = 132
        BY <3>2 DEF HeardIn
      <4> QED
        BY <2>3, <4>1, <4>2 DEF n
    <3> QED
      BY <1>1, <3>0, <3>1, <3>2
  <2> HIDE DEF h
  <2> QED
    BY <2>1, <2>2, <2>3, <2>5, <2>6
<1>2. CASE 256 <= m /\ m < 512
  <2> DEFINE h == HeardIn(m, 2)
  <2>1. Segment(m) = 1 /\ Heard(m) = h
    BY <1>2, SegmentIs, HeardBySegment
  <2>2. 2^(Segment(m) + 2) = 8
    BY <2>1
  <2>3. /\ h \in Nat /\ h <= 372
        /\ (m - 132) - h <= 8 /\ h - (m - 132) <= 8
        /\ 256 <= h + 132 /\ h + 132 < 512
        /\ HeardIn(h + 132, 2) = h
    BY <1>2 DEF HeardIn
  <2>4. h + 132 \in Nat /\ 132 <= h + 132 /\ h + 132 < 32768
    BY <2>3
  <2>5. Heard(h + 132) = HeardIn(h + 132, 2)
    <3> DEFINE n == h + 132
    <3> HIDE DEF n
    <3>1. n \in Nat /\ 132 <= n /\ n < 32768 /\ 256 <= n /\ n < 512
      BY <2>3, <2>4 DEF n
    <3>2. Heard(n) = HeardIn(n, 2)
      BY <3>1, HeardBySegment
    <3> QED
      BY <3>2 DEF n
  <2>6. m + 1 < 32768 => h <= Heard(m + 1)
    <3> DEFINE n == m + 1
    <3>0. n \in Nat /\ 132 <= n /\ n = m + 1
      OBVIOUS
    <3> HIDE DEF n
    <3>1. CASE n < 512
      <4>1. Heard(n) = HeardIn(n, 2)
        BY <1>2, <3>0, <3>1, HeardBySegment
      <4>2. h <= HeardIn(n, 2)
        BY <3>0 DEF HeardIn
      <4> QED
        BY <4>1, <4>2 DEF n
    <3>2. CASE n = 512
      <4>1. Heard(n) = HeardIn(n, 4)
        BY <3>0, <3>2, HeardBySegment
      <4>2. HeardIn(n, 4) = 396
        BY <3>2 DEF HeardIn
      <4> QED
        BY <2>3, <4>1, <4>2 DEF n
    <3> QED
      BY <1>2, <3>0, <3>1, <3>2
  <2> HIDE DEF h
  <2> QED
    BY <2>1, <2>2, <2>3, <2>5, <2>6
<1>3. CASE 512 <= m /\ m < 1024
  <2> DEFINE h == HeardIn(m, 4)
  <2>1. Segment(m) = 2 /\ Heard(m) = h
    BY <1>3, SegmentIs, HeardBySegment
  <2>2. 2^(Segment(m) + 2) = 16
    BY <2>1
  <2>3. /\ h \in Nat /\ h <= 876
        /\ (m - 132) - h <= 16 /\ h - (m - 132) <= 16
        /\ 512 <= h + 132 /\ h + 132 < 1024
        /\ HeardIn(h + 132, 4) = h
    BY <1>3 DEF HeardIn
  <2>4. h + 132 \in Nat /\ 132 <= h + 132 /\ h + 132 < 32768
    BY <2>3
  <2>5. Heard(h + 132) = HeardIn(h + 132, 4)
    <3> DEFINE n == h + 132
    <3> HIDE DEF n
    <3>1. n \in Nat /\ 132 <= n /\ n < 32768 /\ 512 <= n /\ n < 1024
      BY <2>3, <2>4 DEF n
    <3>2. Heard(n) = HeardIn(n, 4)
      BY <3>1, HeardBySegment
    <3> QED
      BY <3>2 DEF n
  <2>6. m + 1 < 32768 => h <= Heard(m + 1)
    <3> DEFINE n == m + 1
    <3>0. n \in Nat /\ 132 <= n /\ n = m + 1
      OBVIOUS
    <3> HIDE DEF n
    <3>1. CASE n < 1024
      <4>1. Heard(n) = HeardIn(n, 4)
        BY <1>3, <3>0, <3>1, HeardBySegment
      <4>2. h <= HeardIn(n, 4)
        BY <3>0 DEF HeardIn
      <4> QED
        BY <4>1, <4>2 DEF n
    <3>2. CASE n = 1024
      <4>1. Heard(n) = HeardIn(n, 8)
        BY <3>0, <3>2, HeardBySegment
      <4>2. HeardIn(n, 8) = 924
        BY <3>2 DEF HeardIn
      <4> QED
        BY <2>3, <4>1, <4>2 DEF n
    <3> QED
      BY <1>3, <3>0, <3>1, <3>2
  <2> HIDE DEF h
  <2> QED
    BY <2>1, <2>2, <2>3, <2>5, <2>6
<1>4. CASE 1024 <= m /\ m < 2048
  <2> DEFINE h == HeardIn(m, 8)
  <2>1. Segment(m) = 3 /\ Heard(m) = h
    BY <1>4, SegmentIs, HeardBySegment
  <2>2. 2^(Segment(m) + 2) = 32
    BY <2>1
  <2>3. /\ h \in Nat /\ h <= 1884
        /\ (m - 132) - h <= 32 /\ h - (m - 132) <= 32
        /\ 1024 <= h + 132 /\ h + 132 < 2048
        /\ HeardIn(h + 132, 8) = h
    BY <1>4 DEF HeardIn
  <2>4. h + 132 \in Nat /\ 132 <= h + 132 /\ h + 132 < 32768
    BY <2>3
  <2>5. Heard(h + 132) = HeardIn(h + 132, 8)
    <3> DEFINE n == h + 132
    <3> HIDE DEF n
    <3>1. n \in Nat /\ 132 <= n /\ n < 32768 /\ 1024 <= n /\ n < 2048
      BY <2>3, <2>4 DEF n
    <3>2. Heard(n) = HeardIn(n, 8)
      BY <3>1, HeardBySegment
    <3> QED
      BY <3>2 DEF n
  <2>6. m + 1 < 32768 => h <= Heard(m + 1)
    <3> DEFINE n == m + 1
    <3>0. n \in Nat /\ 132 <= n /\ n = m + 1
      OBVIOUS
    <3> HIDE DEF n
    <3>1. CASE n < 2048
      <4>1. Heard(n) = HeardIn(n, 8)
        BY <1>4, <3>0, <3>1, HeardBySegment
      <4>2. h <= HeardIn(n, 8)
        BY <3>0 DEF HeardIn
      <4> QED
        BY <4>1, <4>2 DEF n
    <3>2. CASE n = 2048
      <4>1. Heard(n) = HeardIn(n, 16)
        BY <3>0, <3>2, HeardBySegment
      <4>2. HeardIn(n, 16) = 1980
        BY <3>2 DEF HeardIn
      <4> QED
        BY <2>3, <4>1, <4>2 DEF n
    <3> QED
      BY <1>4, <3>0, <3>1, <3>2
  <2> HIDE DEF h
  <2> QED
    BY <2>1, <2>2, <2>3, <2>5, <2>6
<1>5. CASE 2048 <= m /\ m < 4096
  <2> DEFINE h == HeardIn(m, 16)
  <2>1. Segment(m) = 4 /\ Heard(m) = h
    BY <1>5, SegmentIs, HeardBySegment
  <2>2. 2^(Segment(m) + 2) = 64
    BY <2>1
  <2>3. /\ h \in Nat /\ h <= 3900
        /\ (m - 132) - h <= 64 /\ h - (m - 132) <= 64
        /\ 2048 <= h + 132 /\ h + 132 < 4096
        /\ HeardIn(h + 132, 16) = h
    BY <1>5 DEF HeardIn
  <2>4. h + 132 \in Nat /\ 132 <= h + 132 /\ h + 132 < 32768
    BY <2>3
  <2>5. Heard(h + 132) = HeardIn(h + 132, 16)
    <3> DEFINE n == h + 132
    <3> HIDE DEF n
    <3>1. n \in Nat /\ 132 <= n /\ n < 32768 /\ 2048 <= n /\ n < 4096
      BY <2>3, <2>4 DEF n
    <3>2. Heard(n) = HeardIn(n, 16)
      BY <3>1, HeardBySegment
    <3> QED
      BY <3>2 DEF n
  <2>6. m + 1 < 32768 => h <= Heard(m + 1)
    <3> DEFINE n == m + 1
    <3>0. n \in Nat /\ 132 <= n /\ n = m + 1
      OBVIOUS
    <3> HIDE DEF n
    <3>1. CASE n < 4096
      <4>1. Heard(n) = HeardIn(n, 16)
        BY <1>5, <3>0, <3>1, HeardBySegment
      <4>2. h <= HeardIn(n, 16)
        BY <3>0 DEF HeardIn
      <4> QED
        BY <4>1, <4>2 DEF n
    <3>2. CASE n = 4096
      <4>1. Heard(n) = HeardIn(n, 32)
        BY <3>0, <3>2, HeardBySegment
      <4>2. HeardIn(n, 32) = 4092
        BY <3>2 DEF HeardIn
      <4> QED
        BY <2>3, <4>1, <4>2 DEF n
    <3> QED
      BY <1>5, <3>0, <3>1, <3>2
  <2> HIDE DEF h
  <2> QED
    BY <2>1, <2>2, <2>3, <2>5, <2>6
<1>6. CASE 4096 <= m /\ m < 8192
  <2> DEFINE h == HeardIn(m, 32)
  <2>1. Segment(m) = 5 /\ Heard(m) = h
    BY <1>6, SegmentIs, HeardBySegment
  <2>2. 2^(Segment(m) + 2) = 128
    BY <2>1
  <2>3. /\ h \in Nat /\ h <= 7932
        /\ (m - 132) - h <= 128 /\ h - (m - 132) <= 128
        /\ 4096 <= h + 132 /\ h + 132 < 8192
        /\ HeardIn(h + 132, 32) = h
    BY <1>6 DEF HeardIn
  <2>4. h + 132 \in Nat /\ 132 <= h + 132 /\ h + 132 < 32768
    BY <2>3
  <2>5. Heard(h + 132) = HeardIn(h + 132, 32)
    <3> DEFINE n == h + 132
    <3> HIDE DEF n
    <3>1. n \in Nat /\ 132 <= n /\ n < 32768 /\ 4096 <= n /\ n < 8192
      BY <2>3, <2>4 DEF n
    <3>2. Heard(n) = HeardIn(n, 32)
      BY <3>1, HeardBySegment
    <3> QED
      BY <3>2 DEF n
  <2>6. m + 1 < 32768 => h <= Heard(m + 1)
    <3> DEFINE n == m + 1
    <3>0. n \in Nat /\ 132 <= n /\ n = m + 1
      OBVIOUS
    <3> HIDE DEF n
    <3>1. CASE n < 8192
      <4>1. Heard(n) = HeardIn(n, 32)
        BY <1>6, <3>0, <3>1, HeardBySegment
      <4>2. h <= HeardIn(n, 32)
        BY <3>0 DEF HeardIn
      <4> QED
        BY <4>1, <4>2 DEF n
    <3>2. CASE n = 8192
      <4>1. Heard(n) = HeardIn(n, 64)
        BY <3>0, <3>2, HeardBySegment
      <4>2. HeardIn(n, 64) = 8316
        BY <3>2 DEF HeardIn
      <4> QED
        BY <2>3, <4>1, <4>2 DEF n
    <3> QED
      BY <1>6, <3>0, <3>1, <3>2
  <2> HIDE DEF h
  <2> QED
    BY <2>1, <2>2, <2>3, <2>5, <2>6
<1>7. CASE 8192 <= m /\ m < 16384
  <2> DEFINE h == HeardIn(m, 64)
  <2>1. Segment(m) = 6 /\ Heard(m) = h
    BY <1>7, SegmentIs, HeardBySegment
  <2>2. 2^(Segment(m) + 2) = 256
    BY <2>1
  <2>3. /\ h \in Nat /\ h <= 15996
        /\ (m - 132) - h <= 256 /\ h - (m - 132) <= 256
        /\ 8192 <= h + 132 /\ h + 132 < 16384
        /\ HeardIn(h + 132, 64) = h
    BY <1>7 DEF HeardIn
  <2>4. h + 132 \in Nat /\ 132 <= h + 132 /\ h + 132 < 32768
    BY <2>3
  <2>5. Heard(h + 132) = HeardIn(h + 132, 64)
    <3> DEFINE n == h + 132
    <3> HIDE DEF n
    <3>1. n \in Nat /\ 132 <= n /\ n < 32768 /\ 8192 <= n /\ n < 16384
      BY <2>3, <2>4 DEF n
    <3>2. Heard(n) = HeardIn(n, 64)
      BY <3>1, HeardBySegment
    <3> QED
      BY <3>2 DEF n
  <2>6. m + 1 < 32768 => h <= Heard(m + 1)
    <3> DEFINE n == m + 1
    <3>0. n \in Nat /\ 132 <= n /\ n = m + 1
      OBVIOUS
    <3> HIDE DEF n
    <3>1. CASE n < 16384
      <4>1. Heard(n) = HeardIn(n, 64)
        BY <1>7, <3>0, <3>1, HeardBySegment
      <4>2. h <= HeardIn(n, 64)
        BY <3>0 DEF HeardIn
      <4> QED
        BY <4>1, <4>2 DEF n
    <3>2. CASE n = 16384
      <4>1. Heard(n) = HeardIn(n, 128)
        BY <3>0, <3>2, HeardBySegment
      <4>2. HeardIn(n, 128) = 16764
        BY <3>2 DEF HeardIn
      <4> QED
        BY <2>3, <4>1, <4>2 DEF n
    <3> QED
      BY <1>7, <3>0, <3>1, <3>2
  <2> HIDE DEF h
  <2> QED
    BY <2>1, <2>2, <2>3, <2>5, <2>6
<1>8. CASE 16384 <= m /\ m < 32768
  <2> DEFINE h == HeardIn(m, 128)
  <2>1. Segment(m) = 7 /\ Heard(m) = h
    BY <1>8, SegmentIs, HeardBySegment
  <2>2. 2^(Segment(m) + 2) = 512
    BY <2>1
  <2>3. /\ h \in Nat /\ h <= 32124
        /\ (m - 132) - h <= 512 /\ h - (m - 132) <= 512
        /\ 16384 <= h + 132 /\ h + 132 < 32768
        /\ HeardIn(h + 132, 128) = h
    BY <1>8 DEF HeardIn
  <2>4. h + 132 \in Nat /\ 132 <= h + 132 /\ h + 132 < 32768
    BY <2>3
  <2>5. Heard(h + 132) = HeardIn(h + 132, 128)
    <3> DEFINE n == h + 132
    <3> HIDE DEF n
    <3>1. n \in Nat /\ 132 <= n /\ n < 32768 /\ 16384 <= n /\ n < 32768
      BY <2>3, <2>4 DEF n
    <3>2. Heard(n) = HeardIn(n, 128)
      BY <3>1, HeardBySegment
    <3> QED
      BY <3>2 DEF n
  <2>6. m + 1 < 32768 => h <= Heard(m + 1)
    <3> DEFINE n == m + 1
    <3>0. n \in Nat /\ 132 <= n /\ n = m + 1
      OBVIOUS
    <3> HIDE DEF n
    <3>1. CASE n < 32768
      <4>1. Heard(n) = HeardIn(n, 128)
        BY <1>8, <3>0, <3>1, HeardBySegment
      <4>2. h <= HeardIn(n, 128)
        BY <3>0 DEF HeardIn
      <4> QED
        BY <4>1, <4>2 DEF n
    <3> QED
      BY <3>0, <3>1 DEF n
  <2> HIDE DEF h
  <2> QED
    BY <2>1, <2>2, <2>3, <2>5, <2>6
<1> QED
  BY <1>1, <1>2, <1>3, <1>4, <1>5, <1>6, <1>7, <1>8

\* A byte that is sent says what is heard.
LEMMA SentIsHeard ==
    ASSUME NEW s \in Int, -32768 <= s, s <= 32767
    PROVE  /\ EncodeUlaw(s) \in Nat /\ EncodeUlaw(s) <= 255
           /\ Biased(s) \in Nat /\ 132 <= Biased(s) /\ Biased(s) < 32768
           /\ DecodeUlaw(EncodeUlaw(s)) = IF s < 0 THEN -Heard(Biased(s)) ELSE Heard(Biased(s))
<1> DEFINE m == Biased(s)
           e == Segment(m)
           k == (m \div 2^(e + 3)) % 16
           x == (IF s < 0 THEN 128 ELSE 0) + 16 * e + k
<1>1. m \in Nat /\ 132 <= m /\ m < 32768
  BY DEF Biased, Bias, Clip, Abs
<1>2. e \in 0..7
  <2> HIDE DEF m
  <2> QED
    BY <1>1, SegmentIs
<1>3. 2^(e + 3) \in Nat \ {0}
  <2> HIDE DEF e
  <2>1. CASE e = 0
    BY <2>1
  <2>2. CASE e = 1
    BY <2>2
  <2>3. CASE e = 2
    BY <2>3
  <2>4. CASE e = 3
    BY <2>4
  <2>5. CASE e = 4
    BY <2>5
  <2>6. CASE e = 5
    BY <2>6
  <2>7. CASE e = 6
    BY <2>7
  <2>8. CASE e = 7
    BY <2>8
  <2> QED
    BY <1>2, <2>1, <2>2, <2>3, <2>4, <2>5, <2>6, <2>7, <2>8
<1>4. k \in 0..15
  <2> DEFINE p == 2^(e + 3)
  <2> HIDE DEF p, m, e
  <2>1. p \in Nat \ {0}
    BY <1>3 DEF p
  <2>2. (m \div p) \in Int
    BY <1>1, <2>1
  <2>3. (m \div p) % 16 \in 0..15
    BY <2>2
  <2> QED
    BY <2>3 DEF p
<1>5. EncodeUlaw(s) = 255 - x
  BY DEF EncodeUlaw
<1>6. Heard(m) = (k * 8 + 132) * 2^e - 132
  BY DEF Heard, Bias
<1> HIDE DEF m, e, k
<1>7. x \in Nat /\ x <= 255 /\ x % 16 = k /\ (x \div 16) % 8 = e /\ (x >= 128 <=> s < 0)
  BY <1>2, <1>4
<1>8. DecodeUlaw(255 - x) = IF x >= 128 THEN -(((x % 16) * 8 + 132) * 2^((x \div 16) % 8) - 132)
                                        ELSE ((x % 16) * 8 + 132) * 2^((x \div 16) % 8) - 132
  <2> HIDE DEF x
  <2>1. 255 - (255 - x) = x
    BY <1>7
  <2> QED
    BY <2>1 DEF DecodeUlaw, Bias
<1> HIDE DEF x
<1>9. DecodeUlaw(255 - x) = IF s < 0 THEN -Heard(m) ELSE Heard(m)
  BY <1>6, <1>7, <1>8
<1>10. EncodeUlaw(s) \in Nat /\ EncodeUlaw(s) <= 255
  BY <1>5, <1>7
<1> QED
  BY <1>1, <1>5, <1>9, <1>10 DEF m

\* A sample as it is heard after one and after two codings, and next to the one below.
LEMMA SampleHeard ==
    ASSUME NEW s \in Int, -32768 <= s, s <= 32767
    PROVE  LET sound == DecodeUlaw(EncodeUlaw(s))
           IN  /\ sound \in Int /\ -32124 <= sound /\ sound <= 32124
               /\ Abs(s) <= Clip => Abs(s - sound) <= 2^(Segment(Biased(s)) + 2)
               /\ DecodeUlaw(EncodeUlaw(sound)) = sound
<1> DEFINE m == Biased(s)
           h == Heard(m)
           sound == DecodeUlaw(EncodeUlaw(s))
           step == 2^(Segment(m) + 2)
<1>1. m \in Nat /\ 132 <= m /\ m < 32768 /\ sound = IF s < 0 THEN -h ELSE h
  BY SentIsHeard
<1>2. Abs(s) <= Clip => m = Abs(s) + 132
  BY DEF Biased, Bias, Clip, Abs
<1> HIDE DEF m
<1>3. h \in Nat /\ h <= 32124 /\ (m - 132) - h <= step /\ h - (m - 132) <= step /\ Heard(h + 132) = h
  BY <1>1, HeardNear
<1>4. step \in Int
  <2> DEFINE e == Segment(m)
  <2> HIDE DEF e
  <2>1. e \in 0..7
    BY <1>1, SegmentIs DEF e
  <2>2. 2^(e + 2) \in Int
    BY <2>1
  <2> QED
    BY <2>2 DEF e
<1> HIDE DEF h, sound, step
<1>5. sound \in Int /\ -32124 <= sound /\ sound <= 32124
  BY <1>1, <1>3
<1>6. Abs(s) <= Clip => Abs(s - sound) <= step
  BY <1>1, <1>2, <1>3, <1>4 DEF Abs
<1>7. DecodeUlaw(EncodeUlaw(sound)) = sound
  <2>1. Biased(sound) = h + 132
    BY <1>1, <1>3 DEF Biased, Abs, Clip, Bias
  <2>2. DecodeUlaw(EncodeUlaw(sound)) = IF sound < 0 THEN -Heard(Biased(sound)) ELSE Heard(Biased(sound))
    BY <1>5, SentIsHeard
  <2> QED
    BY <1>1, <1>3, <2>1, <2>2
<1> QED
  BY <1>5, <1>6, <1>7 DEF sound, step, m

\* Louder samples stay louder.
LEMMA LouderHeard ==
    ASSUME NEW s \in Int, -32768 < s, s <= 32767
    PROVE  DecodeUlaw(EncodeUlaw(s - 1)) <= DecodeUlaw(EncodeUlaw(s))
<1> DEFINE r == s - 1
           m == Biased(s)
           n == Biased(r)
<1>1. r \in Int /\ -32768 <= r /\ r <= 32767 /\ (r < 0 <=> s <= 0)
  OBVIOUS
<1>2. IF s > 0 THEN m \in {n, n + 1} ELSE n \in {m, m + 1}
  BY DEF Biased, Abs, Clip, Bias
<1> HIDE DEF r
<1>3. /\ m \in Nat /\ 132 <= m /\ m < 32768
      /\ DecodeUlaw(EncodeUlaw(s)) = IF s < 0 THEN -Heard(m) ELSE Heard(m)
  BY SentIsHeard
<1>4. /\ n \in Nat /\ 132 <= n /\ n < 32768
      /\ DecodeUlaw(EncodeUlaw(r)) = IF r < 0 THEN -Heard(n) ELSE Heard(n)
  BY <1>1, SentIsHeard
<1> HIDE DEF m, n
<1>5. Heard(m) \in Nat /\ Heard(n) \in Nat
  BY <1>3, <1>4, HeardNear
<1>6. m = n + 1 => Heard(n) <= Heard(m)
  BY <1>3, <1>4, HeardNear
<1>7. n = m + 1 => Heard(m) <= Heard(n)
  BY <1>3, <1>4, HeardNear
<1>8. IF s > 0 THEN Heard(n) <= Heard(m) ELSE Heard(m) <= Heard(n)
  BY <1>2, <1>5, <1>6, <1>7
<1>9. DecodeUlaw(EncodeUlaw(r)) <= DecodeUlaw(EncodeUlaw(s))
  BY <1>1, <1>3, <1>4, <1>5, <1>8
<1> QED
  BY <1>9 DEF r

\* A frame that is cut or filled up to n samples has n.
LEMMA ResizedTo ==
    ASSUME NEW out \in Int, NEW n \in Nat
    PROVE  Resize(out, n) = n
<1> DEFINE kept == {i \in 1..n : i <= out}
           zeros == {i \in 1..n : i > out}
<1>1. IsFiniteSet(1..n) /\ Cardinality(1..n) = n
  BY FS_Interval
<1>2. kept \subseteq 1..n /\ zeros \subseteq 1..n /\ kept \cup zeros = 1..n /\ kept \cap zeros = {}
  OBVIOUS
<1> HIDE DEF kept, zeros
<1>3. IsFiniteSet(kept) /\ IsFiniteSet(zeros)
  BY <1>1, <1>2, FS_Subset
<1>4. Cardinality(kept \cup zeros) = Cardinality(kept) + Cardinality(zeros)
  <2>1. Cardinality(kept \cup zeros) = Cardinality(kept) + Cardinality(zeros) - Cardinality(kept \cap zeros)
    BY <1>3, FS_Union
  <2>2. Cardinality(kept \cap zeros) = 0
    BY <1>2, FS_EmptySet
  <2>3. Cardinality(kept) \in Nat /\ Cardinality(zeros) \in Nat
    BY <1>3, FS_CardinalityType
  <2> QED
    BY <2>1, <2>2, <2>3
<1>5. Cardinality(kept) + Cardinality(zeros) = n
  BY <1>1, <1>2, <1>4
<1> QED
  BY <1>5 DEF Resize, kept, zeros

\* A frame has the length its form promises.
FrameFits ==
    /\ frame.form \in {"None", "Narrow", "Wide", "Opus", "Back", "Done"}
    /\ frame.len = CASE frame.form = "None" -> 0
                     [] frame.form \in {"Narrow", "Done"} -> NbFrame
                     [] OTHER -> WbFrame

SampleInv ==
    /\ level \in Int /\ MinSample <= level /\ level <= MaxSample
    /\ IF level = MinSample THEN lower = MinSample ELSE lower = DecodeUlaw(EncodeUlaw(level - 1))

CodecInv == SampleInv /\ FrameFits /\ refused = FALSE

LEMMA CodecStarts == CodecInit => CodecInv
  BY DEF CodecInit, CodecInv, SampleInv, FrameFits, NoFrame, MinSample, MaxSample

\* A stage that gets what it wants hands on what it gives.
LEMMA StageFits ==
    ASSUME CodecInv, NEW from, NEW wants, NEW to, NEW gives, Stage(from, wants, to, gives),
           frame.form = from => frame.len = wants
    PROVE  UNCHANGED <<level, lower, refused>> /\ frame' = [form |-> to, len |-> gives]
  BY DEF Stage

LEMMA CodecKept == CodecInv /\ [CodecNext]_codecVars => CodecInv'
<1> SUFFICES ASSUME CodecInv, [CodecNext]_codecVars PROVE CodecInv'
  OBVIOUS
<1>0. NbFrame \in Nat /\ WbFrame \in Nat /\ WbFrame \in 1..MaxFrame /\ Delay \in Nat
  <2>1. NbFrame \in Nat /\ Ratio \in Nat /\ NbFrame > 0 /\ Ratio > 0 /\ MaxFrame \in Nat /\ Delay \in Nat
    BY CodecAssumption
  <2>2. NbFrame * Ratio \in Nat /\ NbFrame * Ratio > 0
    BY <2>1
  <2> QED
    BY <2>1, <2>2, CodecAssumption DEF WbFrame
<1>1. ASSUME NEW s \in MinSample + 1..MaxSample, TakeSample(s) PROVE CodecInv'
  <2>1. s \in Int /\ MinSample < s /\ s <= MaxSample
    <3>1. MinSample \in Int /\ MaxSample \in Int
      BY DEF MinSample, MaxSample
    <3> QED
      BY <3>1
  <2>2. SampleInv'
    BY <1>1, <2>1 DEF TakeSample, SampleInv, MinSample
  <2> QED
    BY <1>1, <2>2 DEF TakeSample, CodecInv, FrameFits
<1>2. ASSUME UNCHANGED <<level, lower, refused>>, NEW f \in {"Narrow", "Wide", "Opus", "Back", "Done"},
             frame' = [form |-> f, len |-> IF f \in {"Narrow", "Done"} THEN NbFrame ELSE WbFrame]
      PROVE  CodecInv'
  <2>1. frame'.form = f /\ frame'.len = IF f \in {"Narrow", "Done"} THEN NbFrame ELSE WbFrame
    BY <1>2
  <2>2. FrameFits'
    BY <2>1 DEF FrameFits
  <2>3. SampleInv' /\ refused' = FALSE
    BY <1>2 DEF CodecInv, SampleInv
  <2> QED
    BY <2>2, <2>3 DEF CodecInv
<1>3. CASE NgnFrame
  BY <1>2, <1>3 DEF NgnFrame
<1>4. CASE OpusEncode
  <2>1. frame.form = "Wide" => frame.len = WbFrame
    BY DEF CodecInv, FrameFits
  <2> QED
    BY <1>2, <1>4, <2>1, StageFits DEF OpusEncode
<1>5. ASSUME NEW n \in {0, WbFrame}, OpusDecode(n) PROVE CodecInv'
  <2>1. Buffer(IF n = 0 THEN WbFrame ELSE n) = WbFrame
    BY <1>0 DEF Buffer
  <2> QED
    BY <1>2, <1>5, <2>1 DEF OpusDecode
<1>6. ASSUME NEW out \in WbFrame - Delay..WbFrame + Delay, Upsample(out) PROVE CodecInv'
  <2>1. Resize(out, WbFrame) = WbFrame
    BY <1>0, ResizedTo
  <2>2. frame.form = "Narrow" => frame.len = NbFrame
    BY DEF CodecInv, FrameFits
  <2> QED
    BY <1>2, <1>6, <2>1, <2>2, StageFits DEF Upsample
<1>7. ASSUME NEW out \in NbFrame - Delay..NbFrame + Delay, Downsample(out) PROVE CodecInv'
  <2>1. Resize(out, NbFrame) = NbFrame
    BY <1>0, ResizedTo
  <2>2. frame.form = "Back" => frame.len = WbFrame
    BY DEF CodecInv, FrameFits
  <2> QED
    BY <1>2, <1>7, <2>1, <2>2, StageFits DEF Downsample
<1>8. CASE UNCHANGED codecVars
  BY <1>8 DEF codecVars, CodecInv, SampleInv, FrameFits
<1> QED
  BY <1>1, <1>3, <1>4, <1>5, <1>6, <1>7, <1>8 DEF CodecNext

LEMMA CodecSound == CodecInv => CodecTypeOK /\ UlawFaithful /\ StagesFit
<1> SUFFICES ASSUME CodecInv PROVE CodecTypeOK /\ UlawFaithful /\ StagesFit
  OBVIOUS
<1>1. level \in Int /\ -32768 <= level /\ level <= 32767
  BY DEF CodecInv, SampleInv, MinSample, MaxSample
<1>2. EncodeUlaw(level) \in 0..255
  <2> DEFINE most == 255
  <2>1. most \in Nat /\ EncodeUlaw(level) \in Nat /\ EncodeUlaw(level) <= most
    BY <1>1, SentIsHeard
  <2> HIDE DEF most
  <2>2. EncodeUlaw(level) \in 0..most
    BY <2>1
  <2> QED
    BY <2>2, Zenon DEF most
<1>3. frame.len \in Nat
  <2>1. NbFrame \in Nat /\ Ratio \in Nat
    BY CodecAssumption
  <2>2. WbFrame \in Nat
    BY <2>1 DEF WbFrame
  <2> QED
    BY <2>1, <2>2 DEF CodecInv, FrameFits
<1>4. lower <= DecodeUlaw(EncodeUlaw(level))
  <2>1. CASE level = MinSample
    BY <1>1, <2>1, SampleHeard DEF CodecInv, SampleInv, MinSample
  <2>2. CASE level # MinSample
    BY <1>1, <2>2, LouderHeard DEF CodecInv, SampleInv, MinSample
  <2> QED
    BY <2>1, <2>2
<1>5. UlawFaithful
  BY <1>1, <1>4, SampleHeard DEF UlawFaithful
<1>6. level \in MinSample..MaxSample
  <2>1. MinSample \in Int /\ MaxSample \in Int
    BY DEF MinSample, MaxSample
  <2> QED
    BY <2>1 DEF CodecInv, SampleInv
<1> QED
  BY <1>2, <1>3, <1>5, <1>6 DEF CodecTypeOK, StagesFit, CodecInv

-----------------------------------------------------------------------------
(* Keys: Dtmf                                                              *)

\* The packets of a key, and what is left of them when n are sent.
Burst(d, t) == build_dtmf_packet_sequence(CHOOSE e \in digit_to_event(d) : TRUE, t, 100, 50, 10)
Rest(b, n) == [i \in 1..(5 - n) |-> b[i + n]]

\* A packet as the far end reads it.
Read(q) == from_payload(q.payload)

KeyEvent(e, end, n) == [event |-> e, end |-> end, volume |-> 10, duration |-> n]

\* A payload of one key is read as it was meant: which is the update and which the end.
LEMMA PayloadRead ==
    ASSUME NEW e, NEW end \in BOOLEAN, NEW n \in Nat
    PROVE  /\ from_payload(into_payload(KeyEvent(e, end, n))).event = e
           /\ from_payload(into_payload(KeyEvent(e, end, n))).end = end
           /\ from_payload(into_payload(KeyEvent(e, end, n))).duration = n
<1> DEFINE b == into_payload(KeyEvent(e, end, n))
<1>1. /\ b[1] = e /\ b[2] = (IF end THEN 128 ELSE 0) + 10 /\ b[3] = n \div 256 /\ b[4] = n % 256
  BY DEF into_payload, KeyEvent
<1> HIDE DEF b
<1>2. b[2] >= 128 <=> end
  BY <1>1
<1>3. 256 * b[3] + b[4] = n
  BY <1>1
<1>4. /\ from_payload(b).event = b[1] /\ from_payload(b).end = (b[2] >= 128)
      /\ from_payload(b).duration = 256 * b[3] + b[4]
  BY DEF from_payload
<1>5. from_payload(b).event = e /\ from_payload(b).duration = n
  BY <1>1, <1>3, <1>4
<1>6. from_payload(b).end = end
  BY <1>2, <1>4
<1> QED
  BY <1>5, <1>6 DEF b

\* A burst is two updates and three ends, all of one millisecond and one key.
LEMMA BurstRead ==
    ASSUME NEW d, digit_to_event(d) # {}, NEW t \in Nat, NEW i \in 1..5
    PROVE  /\ Burst(d, t)[i].timestamp = t
           /\ event_to_digit(Read(Burst(d, t)[i]).event) = Capital(d)
           /\ (Read(Burst(d, t)[i]).end <=> i > 2)
           /\ i > 1 => Read(Burst(d, t)[i]).duration = 800
<1> DEFINE e == CHOOSE x \in digit_to_event(d) : TRUE
           n == Least(i * 400, 800)
<1>1. e \in digit_to_event(d)
  OBVIOUS
<1>2. e \in 0..15 /\ Keypad[e + 1] = Capital(d)
  BY <1>1 DEF digit_to_event
<1> HIDE DEF e
<1>3. Least(Most(100, 1) * 8, 65535) = 800 /\ Most(Least(50 * 8, 65535), 1) = 400
  BY DEF Least, Most
<1>4. (800 + 400 - 1) \div 400 = 2
  OBVIOUS
<1>5. n \in {400, 800} /\ (i > 1 => n = 800)
  BY DEF Least
<1> HIDE DEF n
<1>6. Burst(d, t)[i] = [marker |-> i = 1, sequence |-> ((t % 65536) + i - 1) % 65536, timestamp |-> t,
                       payload |-> into_payload(KeyEvent(e, i > 2, n))]
  <2> DEFINE span == Least(Most(100, 1) * 8, 65535)
             step == Most(Least(50 * 8, 65535), 1)
             updates == (span + step - 1) \div step
             packet(j) == [marker |-> j = 1, sequence |-> ((t % 65536) + j - 1) % 65536, timestamp |-> t,
                           payload |-> into_payload(KeyEvent(e, j > updates, Least(j * step, span)))]
  <2>1. Burst(d, t) = [j \in 1..(updates + 3) |-> packet(j)]
    BY DEF Burst, build_dtmf_packet_sequence, e, KeyEvent
  <2>2. span = 800 /\ step = 400
    BY <1>3
  <2> HIDE DEF span, step
  <2>3. updates = 2
    BY <1>4, <2>2
  <2> HIDE DEF updates, packet
  <2>4. Burst(d, t)[i] = packet(i)
    BY <2>1, <2>3
  <2> QED
    BY <2>2, <2>3, <2>4 DEF packet, n
<1>7. /\ Burst(d, t)[i].timestamp = t
      /\ Burst(d, t)[i].payload = into_payload(KeyEvent(e, i > 2, n))
  BY <1>6
<1> DEFINE last == i > 2
<1>8. last \in BOOLEAN
  OBVIOUS
<1> HIDE DEF last
<1>9. /\ from_payload(into_payload(KeyEvent(e, last, n))).event = e
      /\ from_payload(into_payload(KeyEvent(e, last, n))).end = last
      /\ from_payload(into_payload(KeyEvent(e, last, n))).duration = n
  <2>1. n \in Nat
    BY <1>5
  <2> QED
    BY <1>8, <2>1, PayloadRead
<1>10. Read(Burst(d, t)[i]).event = e /\ Read(Burst(d, t)[i]).end = last /\ Read(Burst(d, t)[i]).duration = n
  BY <1>7, <1>9 DEF Read, last
<1>11. Read(Burst(d, t)[i]).end <=> last
  BY <1>10
<1>12. Read(Burst(d, t)[i]).end <=> i > 2
  BY <1>11 DEF last
<1> QED
  BY <1>2, <1>5, <1>7, <1>10, <1>12 DEF event_to_digit

\* Sending one packet leaves the rest of the others.
LEMMA RestShrinks ==
    ASSUME NEW b, NEW n \in 0..5
    PROVE  /\ Len(Rest(b, n)) = 5 - n
           /\ Rest(b, n) = <<>> <=> n = 5
           /\ n < 5 => Head(Rest(b, n)) = b[n + 1] /\ Tail(Rest(b, n)) = Rest(b, n + 1)
<1> DEFINE T == {b[i] : i \in 1..5}
<1>1. Rest(b, n) \in Seq(T) /\ Len(Rest(b, n)) = 5 - n
  BY DEF Rest
<1>2. Rest(b, n) = <<>> <=> n = 5
  BY <1>1
<1>3. ASSUME n < 5 PROVE Head(Rest(b, n)) = b[n + 1] /\ Tail(Rest(b, n)) = Rest(b, n + 1)
  <2> DEFINE s == Rest(b, n)
             r == Rest(b, n + 1)
  <2>1. s \in Seq(T) /\ Len(s) = 5 - n /\ s # <<>> /\ \A i \in 1..(5 - n) : s[i] = b[i + n]
    BY <1>1, <1>2, <1>3 DEF Rest
  <2>2. r \in Seq(T) /\ Len(r) = 4 - n /\ \A i \in 1..(4 - n) : r[i] = b[i + n + 1]
    BY <1>3 DEF Rest
  <2> HIDE DEF s, r, T
  <2>3. Head(s) = b[n + 1]
    BY <1>3, <2>1
  <2>4. Tail(s) \in Seq(T) /\ Len(Tail(s)) = 4 - n /\ \A i \in 1..(4 - n) : Tail(s)[i] = s[i + 1]
    BY <2>1
  <2>5. \A i \in 1..(4 - n) : Tail(s)[i] = r[i]
    BY <1>3, <2>1, <2>2, <2>4
  <2>6. Tail(s) = r
    BY <2>2, <2>4, <2>5
  <2> QED
    BY <2>3, <2>6 DEF s, r
<1> QED
  BY <1>1, <1>2, <1>3

LEMMA BurstDomain ==
    ASSUME NEW d, NEW t
    PROVE  Burst(d, t) = [i \in 1..5 |-> Burst(d, t)[i]]
<1> DEFINE e == CHOOSE x \in digit_to_event(d) : TRUE
           span == Least(Most(100, 1) * 8, 65535)
           step == Most(Least(50 * 8, 65535), 1)
           updates == (span + step - 1) \div step
           packet(j) == [marker |-> j = 1, sequence |-> ((t % 65536) + j - 1) % 65536, timestamp |-> t,
                         payload |-> into_payload([event |-> e, end |-> j > updates, volume |-> 10,
                                                   duration |-> Least(j * step, span)])]
<1>1. Burst(d, t) = [j \in 1..(updates + 3) |-> packet(j)]
  BY DEF Burst, build_dtmf_packet_sequence
<1>2. span = 800 /\ step = 400
  BY DEF Least, Most
<1> HIDE DEF span, step, packet
<1>3. updates + 3 = 5
  BY <1>2
<1> HIDE DEF updates
<1> QED
  BY <1>1, <1>3

\* What may be left to send, and what may arrive.
Rests == {<<>>} \cup {Rest(Burst(d, t), n) : d \in KeyChar, t \in 0..MaxMillis, n \in 0..5}
PressRecord == [by : {"Nobody", "Info", "Browser"}, call : ToneCall, char : KeyChar \cup {"none"},
                answer : {0, 200, 415}, packets : Rests, at : 0..MaxMillis, whole : BOOLEAN]

\* A key press that is a key has sent the first n packets of its burst, and if it
\* was not given up they are on the line.
Sending(p, l) ==
    \E n \in 0..5 : /\ p.packets = Rest(Burst(p.char, p.at), n)
                    /\ p.whole => \A i \in 1..n : Burst(p.char, p.at)[i] \in l
PressOK(p, l) ==
    /\ p.by = "Nobody" => p.char = "none"
    /\ p.char = "none" => p.packets = <<>> /\ ~p.whole
    /\ p.char # "none" => digit_to_event(p.char) # {} /\ Sending(p, l)

\* A packet on a line is one of a key of that call.
PacketOf(q, p, c) ==
    /\ p.call = c /\ p.char # "none"
    /\ \E i \in 1..5 : q = Burst(p.char, p.at)[i]
LineFrom == \A c \in ToneCall : \A q \in line[c] : \E k \in Press : PacketOf(q, press[k], c)

DtmfTypes ==
    /\ press \in [Press -> PressRecord]
    /\ tone \in [ToneCall -> {"None", "Bridged", "Transparent"}]
    /\ toneBridge \subseteq ToneCall /\ millis \in 0..MaxMillis
    /\ DOMAIN line = ToneCall

DtmfInv == DtmfTypes /\ (\A k \in Press : PressOK(press[k], line[press[k].call])) /\ LineFrom

\* The placeholder is no key.
LEMMA NoneIsNoKey == digit_to_event("none") = {}
<1>1. Capital("none") = "none"
  BY DEF Capital
<1>2. \A e \in 0..15 : Keypad[e + 1] # "none"
  BY DEF Keypad
<1> QED
  BY <1>1, <1>2 DEF digit_to_event

LEMMA DtmfStarts == DtmfInit => DtmfInv
<1> SUFFICES ASSUME DtmfInit PROVE DtmfInv
  OBVIOUS
<1> DEFINE p == [by |-> "Nobody", call |-> "FromPhone", char |-> "none", answer |-> 0,
                 packets |-> <<>>, at |-> 0, whole |-> FALSE]
<1>1. p \in PressRecord
  BY DtmfAssumption DEF PressRecord, Rests, ToneCall
<1>2. \A l : PressOK(p, l)
  BY DEF PressOK
<1> HIDE DEF p
<1>3. press = [k \in Press |-> p]
  BY DEF DtmfInit, p
<1>4. DtmfTypes
  <2>1. press \in [Press -> PressRecord]
    BY <1>1, <1>3
  <2>2. millis \in 0..MaxMillis /\ toneBridge \subseteq ToneCall
    BY DtmfAssumption DEF DtmfInit
  <2>3. tone \in [ToneCall -> {"None", "Bridged", "Transparent"}] /\ DOMAIN line = ToneCall
    BY DEF DtmfInit
  <2> QED
    BY <2>1, <2>2, <2>3 DEF DtmfTypes
<1>5. \A k \in Press : PressOK(press[k], line[press[k].call])
  BY <1>2, <1>3
<1>6. LineFrom
  BY DEF DtmfInit, LineFrom
<1> QED
  BY <1>4, <1>5, <1>6 DEF DtmfInv

\* A line only gets longer.
LEMMA SendingStays ==
    ASSUME NEW p, NEW l, NEW m, l \subseteq m, PressOK(p, l)
    PROVE  PressOK(p, m)
  BY DEF PressOK, Sending

\* A key press that is not a key touches nothing but its answer.
Answers(k, by, a) ==
    \/ press' = [press EXCEPT ![k].by = by, ![k].answer = a]
    \/ a = press[k].answer /\ press' = [press EXCEPT ![k].by = by]

LEMMA PressAnswered ==
    ASSUME DtmfInv, NEW k \in Press, press[k].by = "Nobody",
           NEW by \in {"Info", "Browser"}, NEW a \in {0, 200, 415},
           Answers(k, by, a), UNCHANGED <<tone, toneBridge, millis, line>>
    PROVE  DtmfInv'
<1>1. press \in [Press -> PressRecord] /\ press[k] \in PressRecord
  BY DEF DtmfInv, DtmfTypes
<1> DEFINE p == press[k]
           q == press'[k]
<1>2. press' \in [Press -> PressRecord] /\ \A j \in Press : j # k => press'[j] = press[j]
  BY <1>1 DEF PressRecord, Answers
<1>3. q.by = by /\ q.call = p.call /\ q.char = p.char /\ q.packets = p.packets /\ q.at = p.at
  BY <1>1 DEF PressRecord, Answers
<1>4. q.whole = p.whole
  BY <1>1 DEF PressRecord, Answers
<1>5. p.char = "none" /\ p.packets = <<>> /\ ~p.whole
  BY DEF DtmfInv, PressOK
<1> HIDE DEF p, q
<1>6. PressOK(q, line[q.call])
  BY <1>3, <1>4, <1>5 DEF PressOK
<1>7. \A j \in Press : PressOK(press'[j], line'[press'[j].call])
  <2> SUFFICES ASSUME NEW j \in Press PROVE PressOK(press'[j], line[press'[j].call])
    OBVIOUS
  <2>1. CASE j = k
    BY <1>6, <2>1 DEF q
  <2>2. CASE j # k
    BY <1>2, <2>2 DEF DtmfInv
  <2> QED
    BY <2>1, <2>2
<1>8. LineFrom'
  <2> SUFFICES ASSUME NEW c \in ToneCall, NEW r \in line[c] PROVE \E j \in Press : PacketOf(r, press'[j], c)
    BY DEF LineFrom
  <2>1. PICK j \in Press : PacketOf(r, press[j], c)
    BY DEF DtmfInv, LineFrom
  <2>2. j # k
    BY <1>5, <2>1 DEF PacketOf, p
  <2> QED
    BY <1>2, <2>1, <2>2
<1> QED
  BY <1>2, <1>7, <1>8 DEF DtmfInv, DtmfTypes

\* A key press starts.
LEMMA PressStarts ==
    ASSUME DtmfInv, NEW k \in Press, press[k].by = "Nobody",
           NEW by \in {"Info", "Browser"}, NEW c \in ToneCall, NEW d \in KeyChar, NEW a \in {0, 200},
           Starts(k, by, c, d, a, BridgeOf(c)), UNCHANGED <<tone, toneBridge, millis, line>>
    PROVE  DtmfInv'
<1>1. CASE digit_to_event(d) = {} \/ tone[c] # "Bridged"
  <2>1. Answers(k, by, a)
    BY <1>1 DEF Starts, Answers
  <2> QED
    BY <2>1, PressAnswered
<1>2. CASE ~(digit_to_event(d) = {} \/ tone[c] # "Bridged")
  <2> DEFINE b == Burst(d, millis)
             q == [by |-> by, call |-> c, char |-> d, answer |-> a, at |-> millis, whole |-> TRUE,
                   packets |-> b]
  <2>1. BridgeOf(c) # NoBridge
    BY <1>2 DEF BridgeOf, NoBridge
  <2>2. press' = [press EXCEPT ![k] = q]
    BY <1>2, <2>1 DEF Starts, Burst
  <2>3. millis \in 0..MaxMillis /\ millis \in Nat /\ press \in [Press -> PressRecord]
    BY DtmfAssumption DEF DtmfInv, DtmfTypes
  <2>4. b = Rest(b, 0)
    <3>1. b = [i \in 1..5 |-> b[i]]
      BY BurstDomain
    <3> HIDE DEF b
    <3>2. \A i \in 1..5 : b[i + 0] = b[i]
      OBVIOUS
    <3> QED
      BY <3>1, <3>2 DEF Rest
  <2>5. d # "none"
    BY <1>2, NoneIsNoKey
  <2> HIDE DEF b
  <2>6. Rest(b, 0) \in Rests
    BY <2>3 DEF Rests, b
  <2>7. q \in PressRecord
    BY <2>3, <2>4, <2>6 DEF PressRecord
  <2>8. q.by = by /\ q.char = d /\ q.packets = b /\ q.at = millis
    OBVIOUS
  <2> HIDE DEF q
  <2>9. \A l : PressOK(q, l)
    <3> SUFFICES ASSUME NEW l PROVE PressOK(q, l)
      OBVIOUS
    <3>1. Burst(q.char, q.at) = b
      BY <2>8 DEF b
    <3>2. Sending(q, l)
      <4>1. q.packets = Rest(Burst(q.char, q.at), 0) /\ \A i \in 1..0 : Burst(q.char, q.at)[i] \in l
        BY <2>4, <2>8, <3>1
      <4> QED
        BY <4>1 DEF Sending
    <3> QED
      BY <1>2, <2>5, <2>8, <3>2 DEF PressOK
  <2>10. press' \in [Press -> PressRecord] /\ press'[k] = q /\ \A j \in Press : j # k => press'[j] = press[j]
    BY <2>2, <2>3, <2>7
  <2>11. \A j \in Press : PressOK(press'[j], line'[press'[j].call])
    <3> SUFFICES ASSUME NEW j \in Press PROVE PressOK(press'[j], line[press'[j].call])
      OBVIOUS
    <3>1. CASE j = k
      BY <2>9, <2>10, <3>1
    <3>2. CASE j # k
      BY <2>10, <3>2 DEF DtmfInv
    <3> QED
      BY <3>1, <3>2
  <2>12. LineFrom'
    <3> SUFFICES ASSUME NEW e \in ToneCall, NEW r \in line[e] PROVE \E j \in Press : PacketOf(r, press'[j], e)
      BY DEF LineFrom
    <3>1. PICK j \in Press : PacketOf(r, press[j], e)
      BY DEF DtmfInv, LineFrom
    <3>2. j # k
      BY <3>1 DEF PacketOf, DtmfInv, PressOK
    <3> QED
      BY <2>10, <3>1, <3>2
  <2> QED
    BY <2>10, <2>11, <2>12 DEF DtmfInv, DtmfTypes
<1> QED
  BY <1>1, <1>2

\* A packet goes out, or the burst is given up.
LEMMA ToneInjected ==
    ASSUME DtmfInv, NEW k \in Press, InjectTone(k)
    PROVE  DtmfInv'
<1> DEFINE p == press[k]
           q == press'[k]
           b == Burst(p.char, p.at)
<1>1. press \in [Press -> PressRecord] /\ p \in PressRecord /\ p.call \in ToneCall /\ DOMAIN line = ToneCall
  BY DEF DtmfInv, DtmfTypes, PressRecord
<1>2. p.packets # <<>> /\ UNCHANGED <<tone, toneBridge, millis>>
  BY DEF InjectTone
<1>3. p.char # "none" /\ digit_to_event(p.char) # {} /\ Sending(p, line[p.call])
  BY <1>2 DEF DtmfInv, PressOK
<1>4. PICK n \in 0..5 : p.packets = Rest(b, n) /\ (p.whole => \A i \in 1..n : b[i] \in line[p.call])
  BY <1>3 DEF Sending
<1>5. n \in 0..4 /\ Head(p.packets) = b[n + 1] /\ Tail(p.packets) = Rest(b, n + 1)
  <2> HIDE DEF b
  <2>1. n # 5
    BY <1>2, <1>4, RestShrinks
  <2>2. n < 5
    BY <2>1
  <2> QED
    <3>1. n \in 0..4
      BY <2>2
    <3>2. Head(Rest(b, n)) = b[n + 1] /\ Tail(Rest(b, n)) = Rest(b, n + 1)
      BY <2>2, RestShrinks
    <3> QED
      BY <1>4, <3>1, <3>2
<1>6. p.char \in KeyChar /\ p.at \in 0..MaxMillis
  BY <1>1, <1>3 DEF PressRecord
<1>7. Rest(b, n + 1) \in Rests /\ <<>> \in Rests
  BY <1>5, <1>6 DEF Rests
<1>8. Rest(b, 5) = <<>>
  BY RestShrinks
<1>9. CASE /\ press' = [press EXCEPT ![k].packets = Tail(@)]
           /\ line' = [line EXCEPT ![p.call] = @ \cup {Head(p.packets)}]
  <2>1. press' = [press EXCEPT ![k].packets = Rest(b, n + 1)]
    BY <1>1, <1>5, <1>9
  <2>2. /\ press' \in [Press -> PressRecord] /\ \A j \in Press : j # k => press'[j] = press[j]
        /\ q.by = p.by /\ q.call = p.call /\ q.char = p.char /\ q.at = p.at /\ q.packets = Rest(b, n + 1)
    <3> DEFINE r == Rest(b, n + 1)
    <3>1. r \in Rests /\ press' = [press EXCEPT ![k].packets = r]
      BY <1>7, <2>1
    <3> HIDE DEF r
    <3>2. press' \in [Press -> PressRecord]
      BY <1>1, <3>1 DEF PressRecord
    <3>3. \A j \in Press : j # k => press'[j] = press[j]
      BY <1>1, <3>1
    <3>4. q.by = p.by /\ q.call = p.call /\ q.char = p.char /\ q.at = p.at /\ q.packets = r
      BY <1>1, <3>1 DEF PressRecord
    <3> QED
      BY <3>2, <3>3, <3>4 DEF r
  <2>3. q.whole = p.whole
    BY <1>1, <2>1 DEF PressRecord
  <2>4. /\ DOMAIN line' = ToneCall /\ \A c \in ToneCall : line[c] \subseteq line'[c]
        /\ line'[p.call] = line[p.call] \cup {b[n + 1]}
        /\ \A c \in ToneCall : c # p.call => line'[c] = line[c]
    BY <1>1, <1>5, <1>9
  <2> HIDE DEF q, b
  <2>5. Sending(q, line'[q.call])
    <3>1. Burst(q.char, q.at) = b
      BY <2>2 DEF b
    <3>2. n + 1 \in 0..5
      BY <1>5
    <3>3. ASSUME q.whole, NEW i \in 1..(n + 1) PROVE b[i] \in line'[q.call]
      <4>1. CASE i = n + 1
        BY <2>2, <2>4, <4>1
      <4>2. CASE i \in 1..n
        BY <1>4, <2>2, <2>3, <2>4, <3>3, <4>2
      <4> QED
        BY <4>1, <4>2
    <3> QED
      BY <2>2, <3>1, <3>2, <3>3 DEF Sending
  <2>6. PressOK(q, line'[q.call])
    <3>1. q.by # "Nobody"
      BY <1>3, <2>2 DEF DtmfInv, PressOK
    <3> QED
      BY <1>3, <2>2, <2>5, <3>1 DEF PressOK
  <2>7. \A j \in Press : PressOK(press'[j], line'[press'[j].call])
    <3> SUFFICES ASSUME NEW j \in Press PROVE PressOK(press'[j], line'[press'[j].call])
      OBVIOUS
    <3>1. CASE j = k
      BY <2>6, <3>1 DEF q
    <3>2. CASE j # k
      <4>1. press[j].call \in ToneCall /\ PressOK(press[j], line[press[j].call])
        BY <1>1 DEF DtmfInv, PressRecord
      <4>2. line[press[j].call] \subseteq line'[press[j].call]
        BY <2>4, <4>1
      <4> QED
        BY <2>2, <3>2, <4>1, <4>2, SendingStays
    <3> QED
      BY <3>1, <3>2
  <2>8. LineFrom'
    <3> SUFFICES ASSUME NEW c \in ToneCall, NEW r \in line'[c] PROVE \E j \in Press : PacketOf(r, press'[j], c)
      BY DEF LineFrom
    <3>1. CASE r \in line[c]
      <4>1. PICK j \in Press : PacketOf(r, press[j], c)
        BY <3>1 DEF DtmfInv, LineFrom
      <4>2. press'[j].call = press[j].call /\ press'[j].char = press[j].char /\ press'[j].at = press[j].at
        BY <2>2 DEF q
      <4> QED
        BY <4>1, <4>2 DEF PacketOf
    <3>2. CASE r \notin line[c]
      <4>1. c = p.call /\ r = b[n + 1]
        BY <2>4, <3>2
      <4>2. PacketOf(r, q, c)
        BY <1>3, <1>5, <2>2, <4>1 DEF PacketOf, b
      <4> QED
        BY <4>2 DEF q
    <3> QED
      BY <3>1, <3>2
  <2> QED
    BY <1>2, <2>2, <2>4, <2>7, <2>8 DEF DtmfInv, DtmfTypes
<1>10. CASE press' = [press EXCEPT ![k].packets = <<>>, ![k].whole = FALSE] /\ UNCHANGED line
  <2>1. /\ press' \in [Press -> PressRecord] /\ \A j \in Press : j # k => press'[j] = press[j]
        /\ q.by = p.by /\ q.call = p.call /\ q.char = p.char /\ q.at = p.at /\ q.packets = <<>>
    <3>1. press' \in [Press -> PressRecord]
      <4> DEFINE nothing == <<>>
                 no == FALSE
                 by == {"Nobody", "Info", "Browser"}
                 char == KeyChar \cup {"none"}
                 answer == {0, 200, 415}
                 at == 0..MaxMillis
                 flag == BOOLEAN
                 R == [by : by, call : ToneCall, char : char, answer : answer, packets : Rests, at : at, whole : flag]
      <4>1. R = PressRecord
        BY DEF PressRecord
      <4>2. press \in [Press -> R]
        BY <1>1, <4>1
      <4>3. /\ nothing \in Rests /\ no \in flag
            /\ press' = [press EXCEPT ![k].packets = nothing, ![k].whole = no]
        BY <1>7, <1>10
      <4> HIDE DEF nothing, no, by, char, answer, at, flag
      <4>4. press' \in [Press -> R]
        BY <4>2, <4>3
      <4> QED
        BY <4>1, <4>4
    <3>2. \A j \in Press : j # k => press'[j] = press[j]
      BY <1>1, <1>10
    <3>3. q.by = p.by /\ q.call = p.call /\ q.char = p.char /\ q.at = p.at /\ q.packets = <<>>
      BY <1>1, <1>10 DEF PressRecord
    <3> QED
      BY <3>1, <3>2, <3>3
  <2>2. ~q.whole
    BY <1>1, <1>10 DEF PressRecord
  <2> HIDE DEF q, b
  <2>3. Sending(q, line'[q.call])
    <3>1. Burst(q.char, q.at) = b
      BY <2>1 DEF b
    <3>2. q.packets = Rest(Burst(q.char, q.at), 5)
      BY <1>8, <2>1, <3>1
    <3> QED
      BY <2>2, <3>2 DEF Sending
  <2>4. PressOK(q, line'[q.call])
    <3>1. q.by # "Nobody"
      BY <1>3, <2>1 DEF DtmfInv, PressOK
    <3> QED
      BY <1>3, <2>1, <2>3, <3>1 DEF PressOK
  <2>5. \A j \in Press : PressOK(press'[j], line'[press'[j].call])
    <3> SUFFICES ASSUME NEW j \in Press PROVE PressOK(press'[j], line'[press'[j].call])
      OBVIOUS
    <3>1. CASE j = k
      BY <2>4, <3>1 DEF q
    <3>2. CASE j # k
      BY <1>10, <2>1, <3>2 DEF DtmfInv
    <3> QED
      BY <3>1, <3>2
  <2>6. LineFrom'
    <3> SUFFICES ASSUME NEW c \in ToneCall, NEW r \in line[c] PROVE \E j \in Press : PacketOf(r, press'[j], c)
      BY <1>10 DEF LineFrom
    <3>1. PICK j \in Press : PacketOf(r, press[j], c)
      BY DEF DtmfInv, LineFrom
    <3>2. press'[j].call = press[j].call /\ press'[j].char = press[j].char /\ press'[j].at = press[j].at
      BY <2>1 DEF q
    <3> QED
      BY <3>1, <3>2 DEF PacketOf
  <2> QED
    BY <1>1, <1>2, <1>10, <2>1, <2>5, <2>6 DEF DtmfInv, DtmfTypes
<1> QED
  BY <1>9, <1>10 DEF InjectTone

LEMMA DtmfKept == DtmfInv /\ [DtmfNext]_dtmfVars => DtmfInv'
<1> SUFFICES ASSUME DtmfInv, [DtmfNext]_dtmfVars PROVE DtmfInv'
  OBVIOUS
<1>0. ASSUME UNCHANGED <<press, line>>, tone' \in [ToneCall -> {"None", "Bridged", "Transparent"}],
             toneBridge' \subseteq ToneCall, millis' \in 0..MaxMillis
      PROVE  DtmfInv'
  BY <1>0 DEF DtmfInv, DtmfTypes, LineFrom
<1>1. ASSUME NEW k \in Press, NEW chars \in {<<>>} \cup {<<d>> : d \in KeyChar},
             NEW c \in ToneCall \ {"FromPhone"}, HandleDtmf(k, c, chars)
      PROVE  DtmfInv'
  <2>1. press[k].by = "Nobody" /\ UNCHANGED <<tone, toneBridge, millis, line>>
    BY <1>1 DEF HandleDtmf, NextPress
  <2>2. CASE Len(chars) # 1
    <3>1. Answers(k, "Browser", press[k].answer)
      BY <1>1, <2>2 DEF HandleDtmf, Answers
    <3>2. press[k].answer \in {0, 200, 415}
      BY DEF DtmfInv, DtmfTypes, PressRecord
    <3> QED
      BY <2>1, <3>1, <3>2, PressAnswered
  <2>3. CASE Len(chars) = 1
    <3>1. PICK d \in KeyChar : chars = <<d>>
      BY <2>3
    <3>2. Starts(k, "Browser", c, d, 0, BridgeOf(c))
      BY <1>1, <2>3, <3>1 DEF HandleDtmf, BrowsersBridge
    <3> QED
      BY <2>1, <3>2, PressStarts
  <2> QED
    BY <2>2, <2>3
<1>2. ASSUME NEW k \in Press, NEW chars \in {<<>>} \cup {<<d>> : d \in KeyChar}, NEW type \in BodyType,
             HandleInfo(k, type, chars)
      PROVE  DtmfInv'
  <2>1. press[k].by = "Nobody" /\ UNCHANGED <<tone, toneBridge, millis, line>>
    BY <1>2 DEF HandleInfo, NextPress
  <2>2. CASE parsed(type, chars) = <<>>
    <3>1. Answers(k, "Info", 415)
      BY <1>2, <2>2 DEF HandleInfo, Answers
    <3> QED
      BY <2>1, <3>1, PressAnswered
  <2>3. CASE parsed(type, chars) # <<>>
    <3>1. PICK d \in KeyChar : chars = <<d>>
      BY <2>3 DEF parsed
    <3>2. Head(chars) = d
      BY <3>1
    <3>3. Starts(k, "Info", "FromPhone", d, 200, BridgeOf("FromPhone"))
      BY <1>2, <2>3, <3>2 DEF HandleInfo
    <3> QED
      BY <2>1, <3>3, PressStarts DEF ToneCall
  <2> QED
    BY <2>2, <2>3
<1>3. ASSUME NEW c \in ToneCall, ToneCallUp(c) \/ ToneCallLeaves(c) \/ ToneBridgeStops(c) PROVE DtmfInv'
  <2>1. UNCHANGED <<press, line, millis>>
    BY <1>3 DEF ToneCallUp, ToneCallLeaves, ToneBridgeStops
  <2>2. tone \in [ToneCall -> {"None", "Bridged", "Transparent"}] /\ toneBridge \subseteq ToneCall /\ millis \in 0..MaxMillis
    BY DEF DtmfInv, DtmfTypes
  <2>3. tone' \in [ToneCall -> {"None", "Bridged", "Transparent"}] /\ toneBridge' \subseteq ToneCall
    BY <1>3, <2>2 DEF ToneCallUp, ToneCallLeaves, ToneBridgeStops
  <2> QED
    BY <1>0, <2>1, <2>2, <2>3
<1>4. CASE Millisecond
  <2>1. millis' \in 0..MaxMillis
    BY <1>4, DtmfAssumption DEF Millisecond, DtmfInv, DtmfTypes
  <2> QED
    BY <1>0, <1>4, <2>1 DEF Millisecond, DtmfInv, DtmfTypes
<1>5. CASE UNCHANGED dtmfVars
  BY <1>0, <1>5 DEF dtmfVars, DtmfInv, DtmfTypes
<1> QED
  BY <1>1, <1>2, <1>3, <1>4, <1>5, ToneInjected DEF DtmfNext

LEMMA KeysAreHeard == DtmfInv => DtmfTypeOK /\ KeysHeard
<1> SUFFICES ASSUME DtmfInv PROVE DtmfTypeOK /\ KeysHeard
  OBVIOUS
<1>1. ASSUME NEW k \in Press PROVE press[k].char # "none" => digit_to_event(press[k].char) # {} /\ press[k].at \in Nat
  BY DtmfAssumption DEF DtmfInv, DtmfTypes, PressRecord, PressOK
<1>2. ASSUME NEW c \in ToneCall, NEW q \in line[c]
      PROVE  \E k \in Press : /\ press[k].call = c /\ press[k].at = q.timestamp
                              /\ event_to_digit(from_payload(q.payload).event) = Capital(press[k].char)
  <2>1. PICK k \in Press : PacketOf(q, press[k], c)
    BY DEF DtmfInv, LineFrom
  <2>2. PICK i \in 1..5 : q = Burst(press[k].char, press[k].at)[i]
    BY <2>1 DEF PacketOf
  <2>3. press[k].call = c /\ press[k].char # "none"
    BY <2>1 DEF PacketOf
  <2> QED
    BY <1>1, <2>2, <2>3, BurstRead DEF Read
<1>3. ASSUME NEW k \in Press, press[k].packets = <<>>, press[k].whole, AloneInMillisecond(k)
      PROVE  LET p == press[k]
                 read == ReadAt(p.call, p.at)
             IN  /\ \A e \in read : event_to_digit(e.event) = Capital(p.char)
                 /\ {e.duration : e \in {f \in read : f.end}} = {800}
  <2> DEFINE p == press[k]
             b == Burst(p.char, p.at)
             here == {r \in line[p.call] : r.timestamp = p.at}
  <2>1. p.char # "none" /\ Sending(p, line[p.call]) /\ p.call \in ToneCall
    BY <1>3 DEF DtmfInv, PressOK, DtmfTypes, PressRecord
  <2>2. digit_to_event(p.char) # {} /\ p.at \in Nat
    BY <1>1, <2>1
  <2>3. \A i \in 1..5 : b[i] \in line[p.call]
    <3>1. PICK n \in 0..5 : p.packets = Rest(b, n) /\ \A i \in 1..n : b[i] \in line[p.call]
      BY <1>3, <2>1 DEF Sending
    <3>2. n = 5
      BY <1>3, <3>1, RestShrinks
    <3> QED
      BY <3>1, <3>2
  <2>4. \A i \in 1..5 : /\ b[i].timestamp = p.at /\ event_to_digit(Read(b[i]).event) = Capital(p.char)
                        /\ (Read(b[i]).end <=> i > 2) /\ (i > 1 => Read(b[i]).duration = 800)
    BY <2>2, BurstRead
  <2>5. ASSUME NEW r \in here PROVE \E i \in 1..5 : r = b[i]
    <3>1. PICK j \in Press : PacketOf(r, press[j], p.call)
      BY <2>1 DEF DtmfInv, LineFrom
    <3>2. PICK i \in 1..5 : r = Burst(press[j].char, press[j].at)[i]
      BY <3>1 DEF PacketOf
    <3>3. press[j].call = p.call /\ press[j].char # "none"
      BY <3>1 DEF PacketOf
    <3>4. r.timestamp = press[j].at
      BY <1>1, <3>2, <3>3, BurstRead
    <3>5. j = k
      BY <1>3, <3>3, <3>4 DEF AloneInMillisecond
    <3> QED
      BY <3>2, <3>5
  <2> HIDE DEF p, b
  <2>6. \A r \in here : event_to_digit(Read(r).event) = Capital(p.char) /\ (Read(r).end => Read(r).duration = 800)
    <3> SUFFICES ASSUME NEW r \in here
                 PROVE  event_to_digit(Read(r).event) = Capital(p.char) /\ (Read(r).end => Read(r).duration = 800)
      OBVIOUS
    <3>1. PICK i \in 1..5 : r = b[i]
      BY <2>5
    <3>2. (Read(r).end <=> i > 2) /\ (i > 1 => Read(r).duration = 800) /\ event_to_digit(Read(r).event) = Capital(p.char)
      BY <2>4, <3>1
    <3> QED
      BY <3>2
  <2>7. b[5] \in here /\ Read(b[5]).end /\ Read(b[5]).duration = 800
    <3>1. b[5].timestamp = p.at /\ Read(b[5]).end /\ Read(b[5]).duration = 800
      BY <2>4
    <3> QED
      BY <2>3, <3>1
  <2> HIDE DEF here
  <2>8. ReadAt(p.call, p.at) = {Read(r) : r \in here}
    BY DEF ReadAt, Read, here
  <2>9. \A e \in ReadAt(p.call, p.at) : event_to_digit(e.event) = Capital(p.char) /\ (e.end => e.duration = 800)
    BY <2>6, <2>8
  <2>10. \E e \in ReadAt(p.call, p.at) : e.end /\ e.duration = 800
    BY <2>7, <2>8
  <2>11. {e.duration : e \in {f \in ReadAt(p.call, p.at) : f.end}} = {800}
    BY <2>9, <2>10
  <2> QED
    BY <2>9, <2>11 DEF p
<1>4. KeysHeard
  BY <1>2, <1>3 DEF KeysHeard
<1>5. ASSUME NEW k \in Press PROVE Len(press[k].packets) <= 5
  <2>1. press[k].packets \in Rests
    BY DEF DtmfInv, DtmfTypes, PressRecord
  <2>2. CASE press[k].packets = <<>>
    BY <2>2
  <2>3. CASE press[k].packets # <<>>
    <3>1. PICK d \in KeyChar, t \in 0..MaxMillis, n \in 0..5 : press[k].packets = Rest(Burst(d, t), n)
      BY <2>1, <2>3 DEF Rests
    <3>2. Len(press[k].packets) = 5 - n
      BY <3>1, RestShrinks
    <3> QED
      BY <3>2
  <2> QED
    BY <2>2, <2>3
<1>6. DtmfTypeOK
  BY <1>5 DEF DtmfTypeOK, DtmfInv, DtmfTypes, PressRecord
<1> QED
  BY <1>4, <1>6

-----------------------------------------------------------------------------
(* The components share no state: a step of the whole is a step of the one *)
(* in focus, and the others rest.                                          *)

\* A step of the whole, seen by the components the theorems are about.
LEMMA OneInFocus ==
    [Next]_vars => /\ [TranscoderNext]_tcVars /\ [DispatchNext]_dispatchVars
                   /\ [StartNext]_startVars /\ [PeerNext]_pcVars /\ [RtpNext]_rtpVars
                   /\ [RelNext]_relVars2 /\ [RoutingNext]_routingVars
                   /\ [CodecNext]_codecVars /\ [DtmfNext]_dtmfVars
<1> SUFFICES ASSUME [Next]_vars
             PROVE  /\ [TranscoderNext]_tcVars /\ [DispatchNext]_dispatchVars
                    /\ [StartNext]_startVars /\ [PeerNext]_pcVars /\ [RtpNext]_rtpVars
                    /\ [RelNext]_relVars2 /\ [RoutingNext]_routingVars
                    /\ [CodecNext]_codecVars /\ [DtmfNext]_dtmfVars
  OBVIOUS
<1>1. CASE LimiterStep(LimiterNext)
  BY <1>1 DEF LimiterStep
<1>2. CASE MediaStep(TranscoderNext)
  BY <1>2 DEF MediaStep
<1>3. CASE BridgeStep(MediaNext)
  BY <1>3 DEF BridgeStep
<1>4. CASE DispatchStep(DispatchNext)
  BY <1>4 DEF DispatchStep
<1>5. CASE SdpStep(SdpNext)
  BY <1>5 DEF SdpStep
<1>6. CASE RequestsStep(RequestsNext)
  BY <1>6 DEF RequestsStep
<1>7. CASE RtpStep(RtpNext)
  BY <1>7 DEF RtpStep
<1>8. CASE PeerStep(PeerNext)
  BY <1>8 DEF PeerStep
<1>9. CASE PushStep(PushNext)
  BY <1>9 DEF PushStep
<1>10. CASE RoutingStep(RoutingNext)
  BY <1>10 DEF RoutingStep
<1>11. CASE StartStep(StartNext)
  BY <1>11 DEF StartStep
<1>12. CASE CodecStep(CodecNext)
  BY <1>12 DEF CodecStep
<1>13. CASE TraceStep(TraceNext)
  BY <1>13 DEF TraceStep
<1>14. CASE LogStep(LogNext)
  BY <1>14 DEF LogStep
<1>15. CASE RingingStep(RelNext)
  BY <1>15 DEF RingingStep
<1>16. CASE KeysStep(DtmfNext)
  BY <1>16 DEF KeysStep
<1>17. CASE UNCHANGED vars
  BY <1>17 DEF vars
<1> QED
  BY <1>1, <1>2, <1>3, <1>4, <1>5, <1>6, <1>7, <1>8, <1>9, <1>10, <1>11, <1>12, <1>13, <1>14, <1>15, <1>16, <1>17 DEF Next

\* What was lost on the way in shows as lost on the way out and nothing else does,
\* whatever is lost, repeated, reordered or refused by the codec and however often
\* the numbers wrap: the packets in the buffer are as far apart as their numbers, the
\* counted losses are those of the numbers pulled, and the stream to the browser is
\* numbered as the NGN's, unless more than MAX_INGRESS_GAP packets are skipped at once
\* (call/jitter.rs; RtpEgressState and the loops of call/transcoder.rs).
THEOREM StreamNumbered == Spec => []EgressFaithful
<1>1. Init => StreamInv
  BY StreamInit DEF Init
<1>2. StreamInv /\ [Next]_vars => StreamInv'
  BY OneInFocus, StreamStep
<1>3. StreamInv => EgressFaithful
  BY StreamGood
<1> QED
  BY <1>1, <1>2, <1>3, PTL DEF Spec

\* Whichever layer answers a request (the receive loop, the tables of the UAS and of the
\* NGN side, the consumer of an event), it is answered at most once and with one tag in
\* To, and left unanswered only where nobody can answer it (sip/transaction.rs recv_loop,
\* ExtensionUas::handle_request, NgnInboundHandler::handle_inbound).
THEOREM RequestAnsweredOnce == Spec => []AnsweredOnce
<1>1. Init => DispatchInv
  BY RequestsStart DEF Init
<1>2. DispatchInv /\ [Next]_vars => DispatchInv'
  BY OneInFocus, RequestsKept
<1>3. DispatchInv => AnsweredOnce
  BY RequestsGood
<1> QED
  BY <1>1, <1>2, <1>3, PTL DEF Spec

\* A message whose sender was told so is in the log until as many newer ones have come as
\* the log holds, whatever its size, and the log is in order, though the extensions, the
\* NGN and the browsers write to it at once (call/message_log.rs MessageLog::push).
THEOREM MessageKept == Spec => []SmsKept
<1>1. Init => DispatchInv
  BY RequestsStart DEF Init
<1>2. DispatchInv /\ [Next]_vars => DispatchInv'
  BY OneInFocus, RequestsKept
<1>3. DispatchInv => SmsKept
  BY RequestsGood
<1> QED
  BY <1>1, <1>2, <1>3, PTL DEF Spec

\* A feature is at every entry point or at none: what could not be made is offered
\* nowhere, whoever serves the extensions or the browsers has all there is from its
\* first request on, and so has the NGN's handler before the number is registered
\* (main.rs run_register).
THEOREM FeaturesWired == Spec => []FeatureEverywhere
<1>1. Init => StartInv
  BY StartStarts DEF Init
<1>2. StartInv /\ [Next]_vars => StartInv'
  BY OneInFocus, StartKept
<1>3. StartInv => FeatureEverywhere
  BY StartGood
<1> QED
  BY <1>1, <1>2, <1>3, PTL DEF Spec

\* A program that starts for the first time handles no request of the NGN with handlers it
\* has not finished: the number is registered last (main.rs run_register).
THEOREM FirstStartComplete == Spec => []FirstStartMissesNothing
<1>1. Init => StartInv
  BY StartStarts DEF Init
<1>2. StartInv /\ [Next]_vars => StartInv'
  BY OneInFocus, StartKept
<1>3. StartInv => FirstStartMissesNothing
  BY StartGood
<1> QED
  BY <1>1, <1>2, <1>3, PTL DEF Spec

\* Nobody that asked a browser's peer waits for an answer that cannot come: the request
\* is in the queue of a loop that runs, whatever failed or closed in between, for any
\* number of legs and any queue (webrtc/str0m_session.rs run_loop).
THEOREM CallersNeverStranded == Spec => []CallersServed
<1>1. Init => PeerInv
  BY PeerStarts DEF Init
<1>2. PeerInv /\ [Next]_vars => PeerInv'
  BY OneInFocus, PeerKept
<1>3. PeerInv => CallersServed
  BY PeerGood
<1> QED
  BY <1>1, <1>2, <1>3, PTL DEF Spec

\* Once a media line is known to both ends, what a bridge sends the browser goes out on
\* it, whoever made the offer and however the session's earlier calls ended, but for an
\* offer never answered, which the peer still holds (webrtc/str0m_session.rs create_offer,
\* accept_answer, accept_offer, handle_event).
THEOREM AudioReachesALine == Spec => []AudioHasALine
<1>1. Init => PeerInv
  BY PeerStarts DEF Init
<1>2. PeerInv /\ [Next]_vars => PeerInv'
  BY OneInFocus, PeerKept
<1>3. PeerInv => AudioHasALine
  BY PeerGood
<1> QED
  BY <1>1, <1>2, <1>3, PTL DEF Spec

\* What RTCP tells the far end is true, for any number of sources, reports and repeated,
\* late or lost packets: a Sender Report claims no packet the socket did not take and
\* misses at most the one being counted, no loss goes unreported though a report has room
\* for some of the sources only, and the delay in a block is the time since an SR with its
\* stamp came (rtp/session.rs build_report_blocks, build_sr and build_rr).
THEOREM ReportsCorrect == Spec => []ReportsTrue
<1>1. Init => ReportInv
  BY ReportsStart DEF Init
<1>2. ReportInv /\ [Next]_vars => ReportInv'
  BY OneInFocus, ReportsKept
<1>3. ReportInv => ReportsTrue
  BY ReportsGood
<1> QED
  BY <1>1, <1>2, <1>3, PTL DEF Spec

\* The reliable 180 is repeated at growing distances, for every T2 and time limit, and
\* by nobody once its PRACK is through or the call is over, unless a PRACK is being handled
\* or its 200 could not be sent, however many PRACKs come at once
\* (call/orchestrator.rs spawn_reliable_provisional_retransmit, handle_prack, wait_for_prack).
THEOREM RingingNotLeftOn == Spec => [](RepeatsGrow /\ RepeatsEnd)
<1>1. Init => RingingInv
  BY RingingStarts DEF Init
<1>2. RingingInv /\ [Next]_vars => RingingInv'
  BY OneInFocus, RingingKept
<1>3. RingingInv => RepeatsGrow /\ RepeatsEnd
  BY RingingGood
<1> QED
  BY <1>1, <1>2, <1>3, PTL DEF Spec

\* For any names and aliases: an extension's call to one that is there does not go to the
\* NGN, nobody calls himself by SIP, and what goes to the NGN is what was dialled
\* (call/intercom.rs classify_dial_target, UasEventHandler::handle_invite).
THEOREM CallsStayInTheHouse == Spec => []StaysInTheHouse
<1>1. Init => StaysInTheHouse
  <2> SUFFICES ASSUME Init PROVE StaysInTheHouse
    OBVIOUS
  <2>1. dialled = NoDial
    BY DEF Init, RoutingInit
  <2>2. dialled.to = "None" /\ dialled.kind = NotGiven /\ NotGiven # "Sip"
    BY <2>1 DEF NoDial, NotGiven
  <2> QED
    BY <2>2 DEF StaysInTheHouse
<1>2. StaysInTheHouse /\ [Next]_vars => StaysInTheHouse'
  BY OneInFocus, HouseKept
<1> QED
  BY <1>1, <1>2, PTL DEF Spec

\* What the NGN and the browser hear and learn of a stream is what happened to it, for
\* every stream, modulus, number of sources, legs, lines and keys: its numbers and losses
\* and the reports about it (above); each of the 65536 samples is heard within half a step
\* of its segment, in order, and as itself when it is coded again (rtp/mod.rs encode_ulaw,
\* decode_ulaw); no stage refuses what the one before it made of a frame, whatever a
\* resampler keeps back (rtp/codec); and a key is read at the far end of its call, and of
\* no other, as one tone of 100 ms with the key's own digit, however the packets of keys
\* mix, unless two keys of the call fell into one millisecond (call/dtmf.rs).
THEOREM StreamKeptFaithful == Spec => []StreamFaithful
<1> DEFINE Inv == CodecInv /\ DtmfInv
<1>1. Init => Inv
  BY CodecStarts, DtmfStarts DEF Init
<1>2. Inv /\ [Next]_vars => Inv'
  BY OneInFocus, CodecKept, DtmfKept
<1>3. Inv => UlawFaithful /\ StagesFit /\ KeysHeard
  BY CodecSound, KeysAreHeard
<1>4. Spec => [](UlawFaithful /\ StagesFit /\ KeysHeard)
  BY <1>1, <1>2, <1>3, PTL DEF Spec
<1>5. EgressFaithful /\ ReportsTrue /\ AudioHasALine /\ UlawFaithful /\ StagesFit /\ KeysHeard => StreamFaithful
  BY DEF StreamFaithful
<1> QED
  BY <1>4, <1>5, StreamNumbered, ReportsCorrect, AudioReachesALine, PTL

=============================================================================

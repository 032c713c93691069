---------------------------- MODULE JitterBuffer ----------------------------
(***************************************************************************)
(* The jitter buffer of the transcoding loops (rtp/jitter.rs) behind a     *)
(* network that loses, repeats and reorders.  A packet is its index in the *)
(* stream; on the wire it carries the index modulo 2^16.                   *)
(***************************************************************************)
EXTENDS Integers, FiniteSets

CONSTANTS
    Modulus,     \* 2^16
    Window,      \* SEQ_REORDER_WINDOW
    Depth,       \* JITTER_DEPTH
    FirstIndex,  \* the stream's first packet
    LastIndex,   \* bound: its last packet
    Absent       \* None of an Option

ASSUME JitterAssumption ==
    /\ Modulus \in Nat /\ Window \in Nat \ {0} /\ 2 * Window < Modulus
    /\ Depth \in Nat \ {0}
    /\ FirstIndex \in 0..(Modulus - 1) /\ LastIndex \in Nat /\ Absent \notin Int

VARIABLES
    jbQueue,    \* JitterBuffer.queue: the packet under each extended number
    jbNext,     \* next_pull_seq
    jbLast,     \* last_seq_raw
    jbCycles,   \* seq_cycles
    jbFirst,    \* the number the first pull started from
    jbStats,    \* received, lost, duplicates, late_drops, base_seq_ext, max_seq_ext
    jbPulled,   \* packets pulled
    newest      \* the newest packet that has arrived

jbVars == <<jbQueue, jbNext, jbLast, jbCycles, jbFirst, jbStats, jbPulled, newest>>

Raw(i) == i % Modulus
Numbers == DOMAIN jbQueue
Lowest == CHOOSE n \in Numbers : \A m \in Numbers : n <= m

JitterInit ==
    /\ jbQueue = [n \in {} |-> 0]
    /\ jbNext = Absent /\ jbLast = Absent /\ jbFirst = Absent
    /\ jbCycles = 0 /\ jbPulled = 0 /\ newest = Absent
    /\ jbStats = [received |-> 0, lost |-> 0, duplicates |-> 0, late |-> 0,
                  base |-> Absent, max |-> 0]

-----------------------------------------------------------------------------
(* extend_seq: the number and what it does to last_seq_raw and seq_cycles  *)

Ahead(raw) == raw - jbLast

\* Mutant: a packet from before the wrap is counted in the new cycle.
ForgetsWrap(raw) ==
    IF jbLast = Absent THEN raw
    ELSE IF Ahead(raw) < -Window THEN jbCycles + Modulus + raw
    ELSE jbCycles + raw

Extended(raw) ==
    IF jbLast = Absent THEN raw
    ELSE IF Ahead(raw) < -Window THEN jbCycles + Modulus + raw
    ELSE IF Ahead(raw) > Window THEN jbCycles - Modulus + raw
    ELSE jbCycles + raw

Tracks(raw) ==
    /\ jbLast' = IF jbLast = Absent THEN raw
                 ELSE IF Ahead(raw) < -Window \/ Ahead(raw) \in 1..Window THEN raw
                 ELSE jbLast
    /\ jbCycles' = IF jbLast # Absent /\ Ahead(raw) < -Window THEN jbCycles + Modulus ELSE jbCycles

\* push: a number below the next one to pull is late, one in the queue is a
\* duplicate; both have moved max_seq_ext.
Push(i) ==
    LET n == Extended(Raw(i))
        seen == [jbStats EXCEPT !.base = IF @ = Absent THEN n ELSE @,
                                !.max = IF jbStats.base = Absent \/ n > @ THEN n ELSE @]
    IN /\ Tracks(Raw(i))
       /\ newest' = IF newest = Absent THEN i ELSE IF i > newest THEN i ELSE newest
       /\ IF jbNext # Absent /\ n < jbNext
          THEN jbStats' = [seen EXCEPT !.late = @ + 1] /\ UNCHANGED jbQueue
          ELSE IF n \in Numbers
          THEN jbStats' = [seen EXCEPT !.duplicates = @ + 1] /\ UNCHANGED jbQueue
          ELSE /\ jbStats' = [seen EXCEPT !.received = @ + 1]
               /\ jbQueue' = [m \in Numbers \cup {n} |-> IF m = n THEN i ELSE jbQueue[m]]
       /\ UNCHANGED <<jbNext, jbFirst, jbPulled>>

\* What the network may deliver next: nothing further back than the window.
Arrivable(i) == newest # Absent => i > newest - Window /\ i <= newest + Window

-----------------------------------------------------------------------------
(* pull                                                                    *)

\* The number to pull, or Absent: the buffer fills to its depth before the first
\* pull, and waits for a missing number until it holds its depth.
Start == IF jbNext = Absent THEN Lowest ELSE jbNext
PullNumber ==
    IF jbNext = Absent /\ Cardinality(Numbers) < Depth THEN Absent
    ELSE IF Start \in Numbers THEN Start
    ELSE IF Cardinality(Numbers) < Depth THEN Absent
    ELSE Lowest

\* Mutant: the loss is the difference the wrong way round.
PullsSwapped(n) ==
    /\ jbQueue' = [m \in Numbers \ {n} |-> jbQueue[m]]
    /\ jbFirst' = IF jbNext = Absent THEN n ELSE jbFirst
    /\ jbNext' = n + 1 /\ jbPulled' = jbPulled + 1
    /\ jbStats' = [jbStats EXCEPT !.lost = @ + (Start - n)]
    /\ UNCHANGED <<jbLast, jbCycles, newest>>

\* A number that was skipped is lost.
Pulls(n) ==
    /\ jbQueue' = [m \in Numbers \ {n} |-> jbQueue[m]]
    /\ jbFirst' = IF jbNext = Absent THEN n ELSE jbFirst
    /\ jbNext' = n + 1 /\ jbPulled' = jbPulled + 1
    /\ jbStats' = [jbStats EXCEPT !.lost = @ + (n - Start)]
    /\ UNCHANGED <<jbLast, jbCycles, newest>>

-----------------------------------------------------------------------------
JitterTypeOK ==
    /\ \A n \in Numbers : n \in Int /\ jbQueue[n] \in Nat
    /\ {jbNext, jbFirst, newest} \subseteq Int \cup {Absent}
    /\ jbLast \in (0..(Modulus - 1)) \cup {Absent}
    /\ jbCycles \in Nat /\ jbPulled \in Nat
    /\ {jbStats.received, jbStats.lost, jbStats.duplicates, jbStats.late} \subseteq Nat

\* Reordering across the wrap of the 16-bit number does not disturb the order:
\* the packets in the buffer are numbered as they were sent.
NumberedAsSent == \A m, n \in Numbers : jbQueue[n] - jbQueue[m] = n - m

\* Every number between the first pull and the next is accounted for, as pulled
\* or as lost, whatever was late, repeated or skipped.
LossAccounted == jbNext # Absent => jbNext - jbFirst = jbPulled + jbStats.lost
=============================================================================

-------------------------- MODULE SignallingProofs --------------------------
(***************************************************************************)
(* What holds of the requests of a dialog, of the session descriptions, of *)
(* push and the sessions of browsers, of the routing of calls, of the      *)
(* repeated 180, of the trace and of the call log, for every value of      *)
(* their constants.                                                        *)
(***************************************************************************)
EXTENDS ProtocolsProofs, SequenceTheorems, RateLimiterProofs, MediaBridgeProofs

(* The call log                                                            *)

Outcomes == {"Answered", "Cancelled"}
LogEntry == [call : CallId, outcome : Outcomes \cup {"None"}, ended : Nat]
EndNote == [outcome : Outcomes, at : Nat]

\* What a line of the log says of its end is what record_end was told of its call.
EndNoted(e) ==
    IF ends[e.call] = <<>> THEN e.outcome = "None"
    ELSE e.outcome = ends[e.call][1].outcome /\ e.ended = ends[e.call][Len(ends[e.call])].at

\* The log is the newest of the calls begun, each of them once.
LogInv ==
    /\ marks \in Nat /\ marks <= MaxMarks
    /\ entries \in Seq(LogEntry) /\ begun \in Seq(CallId)
    /\ ends \in [CallId -> Seq(EndNote)]
    /\ Len(entries) <= MaxCalls /\ Len(entries) <= Len(begun)
    /\ Len(entries) < Len(begun) => Len(entries) = MaxCalls
    /\ \A i \in 1..Len(entries) : entries[i].call = begun[Len(begun) - Len(entries) + i]
    /\ \A i, j \in 1..Len(entries) : entries[i].call = entries[j].call => i = j
    /\ \A i \in 1..Len(entries) : EndNoted(entries[i])

LEMMA CallStarted == ASSUME LogInv, NEW c \in CallId, RecordStart(c) PROVE LogInv'
<1>a. MaxCalls \in Nat /\ MaxMarks \in Nat
  BY CallLogAssumption
<1>0. marks < MaxMarks /\ marks' = marks + 1 /\ marks \in Nat
  BY DEF RecordStart, LogInv
<1>1. CASE Logged(c) \/ MaxCalls = 0
  <2>1. entries' = entries /\ begun' = begun /\ ends' = ends
    BY <1>1 DEF RecordStart
  <2>2. marks' \in Nat /\ marks' <= MaxMarks
    BY <1>0, <1>a
  <2>3. \A i \in 1..Len(entries) : EndNoted(entries[i])'
    BY <2>1 DEF LogInv, EndNoted
  <2> QED
    BY <2>1, <2>2, <2>3 DEF LogInv
<1>2. CASE ~Logged(c) /\ MaxCalls # 0
  <2> DEFINE new == [call |-> c, outcome |-> "None", ended |-> 0]
             all == Append(entries, new)
             n == Len(entries)
             drop == IF Len(all) > MaxCalls THEN Len(all) - MaxCalls ELSE 0
  <2>1. new \in LogEntry /\ new.call = c /\ new.outcome = "None"
    BY DEF LogEntry
  <2>2. /\ entries \in Seq(LogEntry) /\ n \in Nat /\ begun \in Seq(CallId) /\ n <= MaxCalls /\ n <= Len(begun)
        /\ n < Len(begun) => n = MaxCalls
        /\ Len(begun) \in Nat
    BY DEF LogInv
  <2>3. /\ entries' = SubSeq(all, 1 + drop, Len(all)) /\ begun' = Append(begun, c)
        /\ ends' = [ends EXCEPT ![c] = <<>>] /\ marks < MaxMarks /\ marks' = marks + 1
    BY <1>2 DEF RecordStart
  <2> HIDE DEF new
  <2>4. /\ all \in Seq(LogEntry) /\ Len(all) = n + 1
        /\ \A i \in 1..n : all[i] = entries[i]
        /\ all[n + 1] = new
    BY <2>1, <2>2
  <2>5. drop \in {0, 1} /\ (drop = 1 <=> n = MaxCalls)
    BY <2>2, <2>4, <1>a
  <2> DEFINE m == n + 1 - drop
  <2> HIDE DEF all, drop, n
  <2>6. m \in 1..n + 1
    <3>1. CASE drop = 0
      BY <2>2, <3>1
    <3>2. CASE drop = 1
      BY <2>2, <2>5, <3>2, <1>a, <1>2
    <3> QED
      BY <2>5, <3>1, <3>2
  <2>7. /\ entries' \in Seq(LogEntry) /\ Len(entries') = m
        /\ \A i \in 1..m : entries'[i] = all[i + drop]
    <3>1. 1 + drop \in 1..Len(all) + 1 /\ Len(all) \in 0..Len(all)
      BY <2>4, <2>5, <2>2
    <3>2. Len(all) - (1 + drop) + 1 = m
      BY <2>4, <2>5, <2>2
    <3> QED
      BY <2>3, <2>4, <2>5, <2>2, <2>6, <3>1, <3>2
  <2> DEFINE k == Len(begun)
  <2>8. /\ begun' \in Seq(CallId) /\ Len(begun') = k + 1 /\ begun'[k + 1] = c
        /\ \A i \in 1..k : begun'[i] = begun[i]
    BY <2>2, <2>3
  <2>9. /\ m <= MaxCalls /\ m <= k + 1 /\ (m < k + 1 => m = MaxCalls)
    BY <2>2, <2>5, <1>a
  <2>10. \A i \in 1..n : entries[i].call = begun[k - n + i] /\ entries[i].call # c
    BY <1>2, <2>2 DEF LogInv, Logged, n
  <2>11. ASSUME NEW i \in 1..m
         PROVE  /\ entries'[i].call = begun'[k + 1 - m + i]
                /\ i + drop \in 1..n + 1
                /\ i + drop = n + 1 => entries'[i] = new
                /\ i + drop # n + 1 => i + drop \in 1..n /\ entries'[i] = entries[i + drop]
    <3>1. i + drop \in 1..n + 1
      BY <2>5, <2>6, <2>2
    <3>2. CASE i + drop = n + 1
      <4>1. entries'[i] = new
        BY <3>2, <2>7, <2>4
      <4>2. k + 1 - m + i = k + 1
        BY <3>2, <2>2, <2>5
      <4> QED
        BY <3>1, <3>2, <4>1, <4>2, <2>1, <2>8
    <3>3. CASE i + drop # n + 1
      <4>1. i + drop \in 1..n
        BY <3>1, <3>3, <2>2, <2>5
      <4>2. entries'[i] = entries[i + drop]
        BY <4>1, <2>7, <2>4
      <4>3. k + 1 - m + i = k - n + (i + drop)
        BY <2>2, <2>5
      <4>4. k - n + (i + drop) \in 1..k
        BY <4>1, <2>2, <2>5
      <4> QED
        BY <3>1, <3>3, <4>1, <4>2, <4>3, <4>4, <2>10, <2>8
    <3> QED
      BY <3>2, <3>3
  <2>12. \A i, j \in 1..m : entries'[i].call = entries'[j].call => i = j
    <3> SUFFICES ASSUME NEW i \in 1..m, NEW j \in 1..m, entries'[i].call = entries'[j].call
                 PROVE  i = j
      OBVIOUS
    <3>1. \A p, q \in 1..n : entries[p].call = entries[q].call => p = q
      BY DEF LogInv, n
    <3>2. i + drop \in 1..n + 1 /\ j + drop \in 1..n + 1
      BY <2>11
    <3>3. CASE i + drop = n + 1 /\ j + drop = n + 1
      BY <3>3, <2>5, <2>2
    <3>4. CASE i + drop = n + 1 /\ j + drop # n + 1
      BY <3>4, <2>11, <2>10, <2>1
    <3>5. CASE i + drop # n + 1 /\ j + drop = n + 1
      BY <3>5, <2>11, <2>10, <2>1
    <3>6. CASE i + drop # n + 1 /\ j + drop # n + 1
      <4>1. i + drop = j + drop
        BY <3>6, <2>11, <3>1
      <4> QED
        BY <4>1, <2>5, <2>2
    <3> QED
      BY <3>3, <3>4, <3>5, <3>6
  <2>13. /\ ends \in [CallId -> Seq(EndNote)]
         /\ \A i \in 1..n : EndNoted(entries[i])
         /\ \A i \in 1..n : entries[i].call \in CallId
    <3>1. ends \in [CallId -> Seq(EndNote)]
      BY DEF LogInv
    <3>2. \A i \in 1..n : EndNoted(entries[i])
      BY DEF LogInv, n
    <3>3. \A i \in 1..n : entries[i] \in LogEntry
      BY <2>2 DEF n
    <3> QED
      BY <3>1, <3>2, <3>3 DEF LogEntry
  <2>14. ends' \in [CallId -> Seq(EndNote)] /\ ends'[c] = <<>> /\ \A d \in CallId \ {c} : ends'[d] = ends[d]
    BY <2>13, <2>3
  <2>15. \A i \in 1..m : EndNoted(entries[i])'
    <3> SUFFICES ASSUME NEW i \in 1..m PROVE EndNoted(entries[i])'
      OBVIOUS
    <3>1. CASE i + drop = n + 1
      BY <3>1, <2>11, <2>1, <2>14 DEF EndNoted
    <3>2. CASE i + drop # n + 1
      <4>1. i + drop \in 1..n /\ entries'[i] = entries[i + drop]
        BY <3>2, <2>11
      <4> DEFINE e == entries[i + drop]
      <4>2. EndNoted(e) /\ e.call \in CallId /\ e.call # c /\ entries'[i] = e
        BY <4>1, <2>10, <2>13
      <4> HIDE DEF e
      <4>3. ends'[e.call] = ends[e.call]
        BY <4>2, <2>14
      <4> QED
        BY <4>2, <4>3 DEF EndNoted
    <3> QED
      BY <3>1, <3>2
  <2>16. marks' \in Nat /\ marks' <= MaxMarks
    BY <2>3, <1>a DEF LogInv
  <2>17. \A i \in 1..m : entries'[i].call = begun'[k + 1 - m + i]
    BY <2>11
  <2>00. m \in Nat /\ k \in Nat
    BY <2>2, <2>6
  <2> HIDE DEF m, k
  <2>18. Len(entries') = m /\ Len(begun') = k + 1
    BY <2>7, <2>8
  <2>19. \A i \in 1..Len(entries') : EndNoted(entries[i])'
    BY <2>15, <2>18
  <2>20. \A i \in 1..Len(entries') : entries'[i].call = begun'[Len(begun') - Len(entries') + i]
    <3> SUFFICES ASSUME NEW i \in 1..m PROVE entries'[i].call = begun'[(k + 1) - m + i]
      BY <2>18
    <3> QED
      BY <2>17, <2>00
  <2>21. \A i, j \in 1..Len(entries') : entries'[i].call = entries'[j].call => i = j
    BY <2>12, <2>18
  <2>22. /\ Len(entries') <= MaxCalls /\ Len(entries') <= Len(begun')
         /\ Len(entries') < Len(begun') => Len(entries') = MaxCalls
    BY <2>9, <2>18
  <2> QED
    BY <2>7, <2>8, <2>14, <2>16, <2>19, <2>20, <2>21, <2>22 DEF LogInv
<1> QED
  BY <1>1, <1>2

LEMMA CallEnded == ASSUME LogInv, NEW c \in CallId, NEW o \in Outcomes, RecordEnd(c, o) PROVE LogInv'
<1>a. MaxCalls \in Nat /\ MaxMarks \in Nat
  BY CallLogAssumption
<1>0. marks \in Nat /\ marks' = marks + 1 /\ marks' <= MaxMarks /\ begun' = begun
  BY <1>a DEF LogInv, RecordEnd
<1>1. CASE ~Logged(c)
  BY <1>1, <1>0 DEF LogInv, RecordEnd, EndNoted
<1>2. CASE Logged(c)
  <2> DEFINE n == Len(entries)
             note == [outcome |-> o, at |-> marks']
             told(e) == [call |-> c, outcome |-> o, ended |-> IF e.outcome = "None" THEN marks' ELSE e.ended]
  <2>1. entries \in Seq(LogEntry) /\ n \in Nat /\ DOMAIN entries = 1..n /\ ends \in [CallId -> Seq(EndNote)]
    BY DEF LogInv
  <2>2. \A e \in LogEntry : told(e) \in LogEntry
    BY <1>0 DEF LogEntry
  <2>3. note \in EndNote
    BY <1>0 DEF EndNote
  <2>4. /\ entries' = [i \in 1..n |-> IF entries[i].call # c THEN entries[i] ELSE told(entries[i])]
        /\ ends' = [ends EXCEPT ![c] = <<note>> \o @]
    BY <1>2, <2>1 DEF RecordEnd
  <2> HIDE DEF told, note
  <2>5. entries' \in Seq(LogEntry) /\ Len(entries') = n
    <3>1. entries' \in [1..n -> LogEntry]
      BY <2>1, <2>2, <2>4
    <3> QED
      BY <3>1, <2>1
  <2>6. \A i \in 1..n : entries'[i].call = entries[i].call
    BY <2>4 DEF told
  <2>7. /\ <<note>> \o ends[c] \in Seq(EndNote) /\ <<note>> \o ends[c] # <<>>
        /\ (<<note>> \o ends[c])[1] = note
        /\ Len(<<note>> \o ends[c]) = 1 + Len(ends[c])
        /\ ends[c] = <<>> => (<<note>> \o ends[c])[Len(<<note>> \o ends[c])] = note
        /\ ends[c] # <<>> => (<<note>> \o ends[c])[Len(<<note>> \o ends[c])] = ends[c][Len(ends[c])]
    BY <2>1, <2>3
  <2>8. /\ ends' \in [CallId -> Seq(EndNote)] /\ ends'[c] = <<note>> \o ends[c]
        /\ \A d \in CallId \ {c} : ends'[d] = ends[d]
    BY <2>1, <2>4, <2>7
  <2>9. \A i \in 1..n : EndNoted(entries[i])'
    <3> SUFFICES ASSUME NEW i \in 1..n PROVE EndNoted(entries[i])'
      OBVIOUS
    <3>0. EndNoted(entries[i])
      BY DEF LogInv
    <3>00. entries[i] \in LogEntry
      BY <2>1
    <3>1. EndNoted(entries[i]) /\ entries[i].call \in CallId
      BY <3>0, <3>00 DEF LogEntry
    <3>2. CASE entries[i].call # c
      BY <3>1, <3>2, <2>4, <2>8 DEF EndNoted
    <3>3. CASE entries[i].call = c
      <4>1. entries'[i] = told(entries[i])
        BY <3>3, <2>4
      <4>2. entries'[i].call = c /\ entries'[i].outcome = o
            /\ entries'[i].ended = IF entries[i].outcome = "None" THEN marks' ELSE entries[i].ended
        BY <4>1 DEF told
      <4>3. note.outcome = o /\ note.at = marks'
        BY DEF note
      <4>4. CASE ends[c] = <<>>
        BY <4>2, <4>3, <4>4, <3>1, <3>3, <2>7, <2>8 DEF EndNoted
      <4>5. CASE ends[c] # <<>>
        <5>1. entries[i].outcome = ends[c][1].outcome /\ entries[i].ended = ends[c][Len(ends[c])].at
          BY <3>1, <3>3, <4>5 DEF EndNoted
        <5>2. ends[c][1] \in EndNote
          BY <2>1, <4>5
        <5>3. entries[i].outcome # "None"
          BY <5>1, <5>2 DEF EndNote, Outcomes
        <5> QED
          BY <4>2, <4>3, <4>5, <5>1, <5>3, <2>7, <2>8 DEF EndNoted
      <4> QED
        BY <4>4, <4>5
    <3> QED
      BY <3>2, <3>3
  <2> QED
    <3>1. \A i \in 1..Len(entries') : EndNoted(entries[i])'
      BY <2>9, <2>5
    <3>2. /\ \A i \in 1..n : entries[i].call = begun[Len(begun) - n + i]
          /\ \A i, j \in 1..n : entries[i].call = entries[j].call => i = j
          /\ begun \in Seq(CallId) /\ n <= MaxCalls /\ n <= Len(begun) /\ (n < Len(begun) => n = MaxCalls)
      BY DEF LogInv
    <3>3. /\ \A i \in 1..n : entries'[i].call = begun[Len(begun) - n + i]
          /\ \A i, j \in 1..n : entries'[i].call = entries'[j].call => i = j
      BY <3>2, <2>6
    <3> HIDE DEF n
    <3> QED
      BY <1>0, <2>5, <2>8, <3>1, <3>2, <3>3 DEF LogInv
<1> QED
  BY <1>1, <1>2

LEMMA LogKept == LogInv /\ [LogNext]_logVars => LogInv'
<1> SUFFICES ASSUME LogInv, [LogNext]_logVars PROVE LogInv'
  OBVIOUS
<1>1. CASE UNCHANGED logVars
  BY <1>1 DEF LogInv, logVars, EndNoted
<1>2. CASE LogNext
  BY <1>2, CallStarted, CallEnded DEF LogNext, Outcomes
<1> QED
  BY <1>1, <1>2

LEMMA LogStarts == LogInit => LogInv
<1> SUFFICES ASSUME LogInit PROVE LogInv
  OBVIOUS
<1>1. MaxCalls \in Nat /\ MaxMarks \in Nat
  BY CallLogAssumption
<1> QED
  BY <1>1 DEF LogInit, LogInv

LEMMA LogGood == LogInv => LogTypeOK /\ LogIsRecent
<1> SUFFICES ASSUME LogInv PROVE LogTypeOK /\ LogIsRecent
  OBVIOUS
<1>a. MaxCalls \in Nat /\ MaxMarks \in Nat
  BY CallLogAssumption
<1> DEFINE n == Len(entries)
           k == Len(begun)
<1>1. /\ entries \in Seq(LogEntry) /\ begun \in Seq(CallId) /\ n \in Nat /\ k \in Nat
      /\ n <= MaxCalls /\ n <= k /\ (n < k => n = MaxCalls) /\ DOMAIN entries = 1..n
  BY DEF LogInv
<1> HIDE DEF n, k
<1>2. Min({MaxCalls, k}) = n
  <2>1. n \in {MaxCalls, k} /\ \A y \in {MaxCalls, k} : n <= y
    BY <1>1, <1>a
  <2>2. \A x \in {MaxCalls, k} : (\A y \in {MaxCalls, k} : x <= y) => x = n
    BY <1>1, <1>a
  <2> QED
    BY <2>1, <2>2 DEF Min
<1>3. Min({MaxCalls, n}) = n
  <2>1. n \in {MaxCalls, n} /\ \A y \in {MaxCalls, n} : n <= y
    BY <1>1, <1>a
  <2>2. \A x \in {MaxCalls, n} : (\A y \in {MaxCalls, n} : x <= y) => x = n
    BY <1>1, <1>a
  <2> QED
    BY <2>1, <2>2 DEF Min
<1>4. \A i \in 1..n : Recent(MaxCalls)[i] = entries[n - i + 1]
  <2> DEFINE s == SubSeq(entries, n - n + 1, n)
  <2>1. Recent(MaxCalls) = Reverse(s)
    BY <1>3 DEF Recent, n
  <2>2. s \in Seq(LogEntry) /\ Len(s) = n /\ \A i \in 1..n : s[i] = entries[i]
    BY <1>1 DEF n
  <2> HIDE DEF s
  <2>3. Reverse(s) = [i \in 1..n |-> s[(n - i) + 1]]
    BY <2>2 DEF Reverse
  <2> QED
    BY <2>1, <2>2, <2>3, <1>1
<1>5. [i \in 1..n |-> Recent(MaxCalls)[i].call] = [i \in 1..n |-> begun[k - i + 1]]
  <2> SUFFICES ASSUME NEW i \in 1..n PROVE Recent(MaxCalls)[i].call = begun[k - i + 1]
    OBVIOUS
  <2>1. n - i + 1 \in 1..n /\ k - n + (n - i + 1) = k - i + 1
    BY <1>1
  <2>2. \A j \in 1..n : entries[j].call = begun[k - n + j]
    BY DEF LogInv, n, k
  <2> QED
    BY <1>4, <2>1, <2>2
<1>6. IsInjective([i \in DOMAIN entries |-> entries[i].call])
  <2>1. \A i, j \in 1..n : entries[i].call = entries[j].call => i = j
    BY DEF LogInv, n
  <2> QED
    BY <1>1, <2>1 DEF IsInjective
<1>7. \A i \in DOMAIN entries : LET es == ends[entries[i].call] IN
              IF es = <<>> THEN entries[i].outcome = "None"
              ELSE entries[i].outcome = Head(es).outcome /\ entries[i].ended = Last(es).at
  <2> SUFFICES ASSUME NEW i \in 1..n
               PROVE  LET es == ends[entries[i].call] IN
              IF es = <<>> THEN entries[i].outcome = "None"
              ELSE entries[i].outcome = Head(es).outcome /\ entries[i].ended = Last(es).at
    BY <1>1
  <2>1. EndNoted(entries[i]) /\ ends \in [CallId -> Seq(EndNote)]
    BY DEF LogInv, n
  <2>a. entries[i] \in LogEntry
    BY <1>1 DEF n
  <2>2. entries[i].call \in CallId
    BY <2>a DEF LogEntry
  <2>3. ends[entries[i].call] \in Seq(EndNote)
    BY <2>1, <2>2
  <2> QED
    BY <2>1, <2>3 DEF EndNoted, Last
<1>8. LogTypeOK
  BY <1>a DEF LogInv, LogTypeOK
<1>9. LogIsRecent
  BY <1>2, <1>5, <1>6, <1>7 DEF LogIsRecent, n, k
<1> QED
  BY <1>8, <1>9

-----------------------------------------------------------------------------
(* Sessions, subscriptions and the ringing of browsers                     *)

Subscription == PushAor \X (Browser \X Nat)
PushResult == {"None", "Ok", "Gone", "Rejected", "Transient"}

\* An endpoint is once in the list at most.
OnceEach(s) == \A i, j \in DOMAIN s : s[i] = s[j] => i = j

LEMMA TakenOut ==
    ASSUME NEW S, NEW s \in Seq(S), NEW e, OnceEach(s)
    PROVE  /\ Without(s, e) \in Seq(S) /\ OnceEach(Without(s, e))
           /\ \A i \in DOMAIN Without(s, e) : Without(s, e)[i] # e
           /\ \A i \in DOMAIN s : s[i] # e => \E j \in DOMAIN Without(s, e) : Without(s, e)[j] = s[i]
<1>1. CASE ~\E i \in 1..Len(s) : s[i] = e
  BY <1>1 DEF Without, RemoveFirst
<1>2. CASE \E i \in 1..Len(s) : s[i] = e
  <2>1. PICK p \in 1..Len(s) : s[p] = e
    BY <1>2
  <2>2. {i \in 1..Len(s) : s[i] = e} = {p}
    BY <2>1 DEF OnceEach
  <2>3. SelectInSeq(s, LAMBDA v : v = e) = p
    <3>1. Min({p}) = p
      BY DEF Min
    <3> QED
      BY <2>2, <3>1 DEF SelectInSeq
  <2> DEFINE n == Len(s)
             u == SubSeq(s, 1, p - 1)
             v == SubSeq(s, p + 1, n)
             w == u \o v
  <2>4. Without(s, e) = w
    BY <1>2, <2>3 DEF Without, RemoveFirst, RemoveAt
  <2>5. n \in Nat /\ p \in 1..n /\ DOMAIN s = 1..n
    BY <2>1
  <2>6. u \in Seq(S) /\ Len(u) = p - 1 /\ \A i \in 1..p - 1 : u[i] = s[i]
    BY <2>5
  <2>7. v \in Seq(S) /\ Len(v) = n - p /\ \A i \in 1..n - p : v[i] = s[p + i]
    <3>1. p + 1 \in 1..n + 1 /\ n \in p..n /\ n - (p + 1) + 1 = n - p
      BY <2>5
    <3>2. v \in Seq(S) /\ Len(v) = n - (p + 1) + 1 /\ \A i \in 1..n - (p + 1) + 1 : v[i] = s[(p + 1) + i - 1]
      <4>1. p + 1 \in Int /\ n \in Int /\ \A i \in p + 1..n : s[i] \in S
        BY <2>5
      <4>2. /\ v \in Seq(S) /\ Len(v) = IF p + 1 <= n THEN n - (p + 1) + 1 ELSE 0
            /\ \A i \in 1..n - (p + 1) + 1 : v[i] = s[(p + 1) + i - 1]
        <5> HIDE DEF n
        <5> QED
          BY <4>1, SubSeqProperties
      <4> HIDE DEF n, v
      <4>3. ~(p + 1 <= n) => n - (p + 1) + 1 = 0
        BY <2>5
      <4> QED
        BY <4>2, <4>3
    <3>3. \A i \in 1..n - p : (p + 1) + i - 1 = p + i
      BY <2>5
    <3> QED
      BY <3>1, <3>2, <3>3
  <2> HIDE DEF n, u, v
  <2>8. w \in Seq(S) /\ Len(w) = n - 1 /\ DOMAIN w = 1..n - 1
    <3>1. Len(u) + Len(v) = n - 1
      BY <2>5, <2>6, <2>7
    <3>2. w \in Seq(S) /\ Len(w) = Len(u) + Len(v)
      BY <2>6, <2>7
    <3> QED
      BY <3>1, <3>2
  <2>9. \A i \in 1..n - 1 : w[i] = IF i < p THEN s[i] ELSE s[i + 1]
    <3> SUFFICES ASSUME NEW i \in 1..n - 1 PROVE w[i] = IF i < p THEN s[i] ELSE s[i + 1]
      OBVIOUS
    <3>1. CASE i < p
      <4>1. i \in 1..Len(u)
        BY <3>1, <2>5, <2>6
      <4>2. w[i] = u[i]
        BY <4>1, <2>6, <2>7
      <4> QED
        BY <4>1, <4>2, <3>1, <2>6
    <3>2. CASE ~(i < p)
      <4>1. i - Len(u) \in 1..Len(v) /\ i \in Len(u) + 1..Len(u) + Len(v) /\ p + (i - Len(u)) = i + 1
        BY <3>2, <2>5, <2>6, <2>7
      <4>2. w[i] = v[i - Len(u)]
        BY <4>1, <2>6, <2>7
      <4> QED
        BY <4>1, <4>2, <3>2, <2>7
    <3> QED
      BY <3>1, <3>2
  <2> HIDE DEF w
  <2>10. \A i, j \in 1..n : s[i] = s[j] => i = j
    BY <2>5 DEF OnceEach
  <2>11. OnceEach(w)
    BY <2>5, <2>8, <2>9, <2>10 DEF OnceEach
  <2>12. \A i \in 1..n - 1 : w[i] # e
    BY <2>1, <2>5, <2>9, <2>10
  <2>13. \A i \in 1..n : s[i] # e => \E j \in 1..n - 1 : w[j] = s[i]
    <3> SUFFICES ASSUME NEW i \in 1..n, s[i] # e PROVE \E j \in 1..n - 1 : w[j] = s[i]
      OBVIOUS
    <3>1. CASE i < p
      BY <3>1, <2>5, <2>9
    <3>2. CASE i > p
      <4>1. i - 1 \in 1..n - 1 /\ w[i - 1] = s[i]
        BY <3>2, <2>5, <2>9
      <4> QED
        BY <4>1
    <3> QED
      BY <3>1, <3>2, <2>1, <2>5
  <2> QED
    BY <2>4, <2>5, <2>8, <2>11, <2>12, <2>13
<1> QED
  BY <1>1, <1>2

\* A round of notifications: the extensions still to come and those listed are
\* different, what was listed has been tried or is in hand.
RingOK(x) ==
    /\ x \in [stage : {"None", "Next", "Sent", "Done"}, aors : Seq(PushAor), subs : Seq(Subscription),
              result : PushResult, listed : SUBSET (PushAor \X Nat \X (Browser \X Nat)),
              tried : SUBSET Subscription]
    /\ OnceEach(x.aors)
    /\ \A l \in x.listed : \A i \in DOMAIN x.aors : x.aors[i] # l[1]
    /\ \A l, m \in x.listed : l[1] = m[1] /\ l[3] = m[3] => l = m
    /\ \A l \in x.listed : <<l[1], l[3]>> \in x.tried \/ \E i \in DOMAIN x.subs : x.subs[i] = <<l[1], l[3]>>
    /\ x.stage \in {"None", "Done"} => x.subs = <<>>
    /\ x.stage = "None" => x.listed = {}
    /\ x.stage = "Sent" => x.subs # <<>> /\ Head(x.subs) \in x.tried

PushTypes ==
    /\ now \in Nat /\ now <= TokenLife
    /\ session \in [Browser -> PushAor \cup {NoClaims}]
    /\ opened \in [Browser -> [token : Token \cup {NoToken}, at : Nat]]
    /\ endpoint \in [Browser -> 0..MaxEndpoints]
    /\ confirmed \subseteq Subscription
    /\ pushStore \in [PushAor -> Seq(Browser \X Nat)]
    /\ DOMAIN ring = Rings

StoreInv ==
    /\ \A a \in PushAor : OnceEach(pushStore[a])
    /\ \A c \in confirmed : c[2] \notin goneEnds =>
           \E i \in DOMAIN pushStore[c[1]] : pushStore[c[1]][i] = c[2]

RoundsInv ==
    /\ \A r \in Rings : RingOK(ring[r])
    /\ \A r \in Rings : ring[r].stage = "Sent" /\ ring[r].result = "Gone" => Head(ring[r].subs)[2] \in goneEnds

PushInv == PushTypes /\ SessionIsGenuine /\ StoreInv /\ RoundsInv

LEMMA PushGood == PushInv => PushTypeOK /\ SessionIsGenuine /\ SubscriptionKept /\ EveryoneNotified
<1> SUFFICES ASSUME PushInv PROVE PushTypeOK /\ SubscriptionKept /\ EveryoneNotified
  BY DEF PushInv
<1>1. PushTypeOK
  <2>1. \A r \in Rings : ring[r].stage \in {"None", "Next", "Sent", "Done"}
    BY DEF PushInv, RoundsInv, RingOK
  <2>2. TokenLife \in Nat
    BY PushAssumption
  <2> QED
    BY <2>1, <2>2 DEF PushInv, PushTypes, PushTypeOK
<1>2. SubscriptionKept
  <2> SUFFICES ASSUME NEW c \in confirmed, c[2] \notin goneEnds
               PROVE  Cardinality({i \in DOMAIN pushStore[c[1]] : pushStore[c[1]][i] = c[2]}) = 1
    BY DEF SubscriptionKept
  <2>1. PICK i \in DOMAIN pushStore[c[1]] : pushStore[c[1]][i] = c[2]
    BY DEF PushInv, StoreInv
  <2>2. c[1] \in PushAor
    BY DEF PushInv, PushTypes, Subscription
  <2>3. OnceEach(pushStore[c[1]])
    BY <2>2 DEF PushInv, StoreInv
  <2>4. {j \in DOMAIN pushStore[c[1]] : pushStore[c[1]][j] = c[2]} = {i}
    BY <2>1, <2>3 DEF OnceEach
  <2> QED
    BY <2>4, FS_Singleton
<1>3. EveryoneNotified
  <2> SUFFICES ASSUME NEW r \in Rings
               PROVE  /\ ring[r].stage = "Done" => \A l \in ring[r].listed : <<l[1], l[3]>> \in ring[r].tried
                      /\ \A l, m \in ring[r].listed : l[1] = m[1] /\ l[3] = m[3] => l = m
    BY DEF EveryoneNotified
  <2> DEFINE x == ring[r]
  <2>1. RingOK(x)
    BY DEF PushInv, RoundsInv
  <2> HIDE DEF x
  <2>2. /\ x.stage = "Done" => \A l \in x.listed : <<l[1], l[3]>> \in x.tried
        /\ \A l, m \in x.listed : l[1] = m[1] /\ l[3] = m[3] => l = m
    BY <2>1 DEF RingOK
  <2> QED
    BY <2>2 DEF x
<1> QED
  BY <1>1, <1>2, <1>3

LEMMA PushStarts == PushInit => PushInv
<1> SUFFICES ASSUME PushInit PROVE PushInv
  OBVIOUS
<1>1. PushTypes
  <2>1. TokenLife \in Nat /\ MaxEndpoints \in Nat
    BY PushAssumption
  <2> QED
    BY <2>1 DEF PushInit, PushTypes, Rings
<1>2. SessionIsGenuine
  BY DEF PushInit, SessionIsGenuine
<1>3. StoreInv
  BY DEF PushInit, StoreInv, OnceEach
<1>4. RoundsInv
  <2> DEFINE x == [stage |-> "None", aors |-> <<>>, subs |-> <<>>, result |-> "None", listed |-> {}, tried |-> {}]
  <2>1. \A r \in Rings : ring[r] = x
    BY DEF PushInit
  <2>2. RingOK(x) /\ x.stage = "None"
    BY DEF RingOK, OnceEach, PushResult
  <2> HIDE DEF x
  <2> QED
    BY <2>1, <2>2 DEF RoundsInv
<1> QED
  BY <1>1, <1>2, <1>3, <1>4 DEF PushInv

LEMMA SessionsChange ==
    ASSUME PushInv, NEW b \in Browser, (\E t \in Token : Connect(b, t)) \/ Disconnect(b)
    PROVE  PushInv'
<1>0. /\ now' = now /\ endpoint' = endpoint /\ goneEnds' = goneEnds /\ confirmed' = confirmed
      /\ pushStore' = pushStore /\ ring' = ring
  BY DEF Connect, Disconnect
<1>1. StoreInv' /\ RoundsInv'
  <2>1. StoreInv'
    BY <1>0 DEF PushInv, StoreInv
  <2>2. RoundsInv'
    BY <1>0 DEF PushInv, RoundsInv
  <2> QED
    BY <2>1, <2>2
<1>2. CASE \E t \in Token : Connect(b, t)
  <2>1. PICK t \in Token : Connect(b, t)
    BY <1>2
  <2>2. /\ session' = [session EXCEPT ![b] = t.ext] /\ opened' = [opened EXCEPT ![b] = [token |-> t, at |-> now]]
        /\ t.signed /\ now < t.expiry
    BY <2>1 DEF Connect, Verifies
  <2>3. t.ext \in PushAor \cup {NoClaims}
    BY DEF Token, NoClaims
  <2>4. PushTypes'
    BY <1>0, <2>2, <2>3 DEF PushInv, PushTypes
  <2>5. SessionIsGenuine'
    <3> SUFFICES ASSUME NEW d \in Browser, session'[d] # NoClaims
                 PROVE  /\ opened'[d].token.signed /\ opened'[d].token.ext = session'[d]
                        /\ opened'[d].at < opened'[d].token.expiry
      BY DEF SessionIsGenuine
    <3>0. session \in [Browser -> PushAor \cup {NoClaims}] /\ DOMAIN opened = Browser
      BY DEF PushInv, PushTypes
    <3>1. CASE d = b
      <4>1. session'[d] = t.ext /\ opened'[d] = [token |-> t, at |-> now]
        BY <3>0, <3>1, <2>2
      <4> QED
        BY <4>1, <2>2
    <3>2. CASE d # b
      <4>1. session'[d] = session[d] /\ opened'[d] = opened[d]
        BY <3>0, <3>2, <2>2
      <4> QED
        BY <4>1 DEF PushInv, SessionIsGenuine
    <3> QED
      BY <3>1, <3>2
  <2> QED
    BY <1>1, <2>4, <2>5 DEF PushInv
<1>3. CASE Disconnect(b)
  <2>1. session' = [session EXCEPT ![b] = NoClaims] /\ opened' = [opened EXCEPT ![b] = [token |-> NoToken, at |-> 0]]
    BY <1>3 DEF Disconnect
  <2>2. PushTypes'
    BY <1>0, <2>1 DEF PushInv, PushTypes
  <2>3. SessionIsGenuine'
    <3>0. session \in [Browser -> PushAor \cup {NoClaims}] /\ DOMAIN opened = Browser
      BY DEF PushInv, PushTypes
    <3>1. session'[b] = NoClaims /\ \A d \in Browser \ {b} : session'[d] = session[d] /\ opened'[d] = opened[d]
      BY <3>0, <2>1
    <3> QED
      BY <3>1 DEF PushInv, SessionIsGenuine
  <2> QED
    BY <1>1, <2>2, <2>3 DEF PushInv
<1> QED
  BY <1>2, <1>3

LEMMA EndpointsChange ==
    ASSUME PushInv, Tick \/ \E b \in Browser : GetEndpoint(b) \/ EndpointGone(b)
    PROVE  PushInv'
<1>0. /\ session' = session /\ opened' = opened /\ confirmed' = confirmed
      /\ pushStore' = pushStore /\ ring' = ring
  BY DEF Tick, GetEndpoint, EndpointGone
<1>1. goneEnds \subseteq goneEnds'
  BY DEF Tick, GetEndpoint, EndpointGone
<1>2. TokenLife \in Nat /\ MaxEndpoints \in Nat
  BY PushAssumption
<1>3. now' \in Nat /\ now' <= TokenLife
  BY <1>2 DEF PushInv, PushTypes, Tick, GetEndpoint, EndpointGone
<1>4. endpoint' \in [Browser -> 0..MaxEndpoints]
  <2>1. CASE endpoint' = endpoint
    BY <2>1 DEF PushInv, PushTypes
  <2>2. CASE \E b \in Browser : GetEndpoint(b)
    BY <2>2, <1>2 DEF PushInv, PushTypes, GetEndpoint
  <2> QED
    BY <2>1, <2>2 DEF Tick, EndpointGone
<1>5. PushTypes'
  BY <1>0, <1>3, <1>4 DEF PushInv, PushTypes
<1>6. SessionIsGenuine'
  BY <1>0 DEF PushInv, SessionIsGenuine
<1>7. StoreInv'
  BY <1>0, <1>1 DEF PushInv, StoreInv
<1>8. RoundsInv'
  BY <1>0, <1>1 DEF PushInv, RoundsInv
<1> QED
  BY <1>5, <1>6, <1>7, <1>8 DEF PushInv

LEMMA Subscribes ==
    ASSUME PushInv, NEW b \in Browser, NEW v \in BOOLEAN, PushSubscribe(b, v)
    PROVE  PushInv'
<1>0. /\ now' = now /\ session' = session /\ opened' = opened /\ endpoint' = endpoint
      /\ goneEnds' = goneEnds /\ ring' = ring
  BY DEF PushSubscribe
<1>1. SessionIsGenuine'
  BY <1>0 DEF PushInv, SessionIsGenuine
<1>2. RoundsInv'
  BY <1>0 DEF PushInv, RoundsInv
<1> DEFINE a == session[b]
           e == End(b)
           old == pushStore[a]
           new == Append(Without(old, e), e)
<1>3. a \in PushAor
  BY DEF PushInv, PushTypes, PushSubscribe
<1>4. e \in Browser \X Nat
  <2>1. endpoint[b] \in Nat
    BY PushAssumption DEF PushInv, PushTypes
  <2> QED
    BY <2>1 DEF End
<1>5. pushStore \in [PushAor -> Seq(Browser \X Nat)] /\ confirmed \subseteq Subscription
  BY DEF PushInv, PushTypes
<1>6. CASE v = FALSE
  <2>1. pushStore' = pushStore /\ confirmed' = confirmed
    BY <1>6 DEF PushSubscribe
  <2>2. PushTypes' /\ StoreInv'
    BY <2>1, <1>0 DEF PushInv, PushTypes, StoreInv
  <2> QED
    BY <2>2, <1>1, <1>2 DEF PushInv
<1>7. CASE v = TRUE
  <2>1. pushStore' = [pushStore EXCEPT ![a] = new] /\ confirmed' = confirmed \cup {<<a, e>>}
    BY <1>7 DEF PushSubscribe, Upsert
  <2> HIDE DEF a, e
  <2>2. old \in Seq(Browser \X Nat) /\ OnceEach(old)
    BY <1>3, <1>5 DEF PushInv, StoreInv
  <2> DEFINE w == Without(old, e)
  <2> HIDE DEF old
  <2>3. /\ w \in Seq(Browser \X Nat) /\ OnceEach(w)
        /\ \A i \in DOMAIN w : w[i] # e
        /\ \A i \in DOMAIN old : old[i] # e => \E j \in DOMAIN w : w[j] = old[i]
    BY <2>2, TakenOut
  <2> HIDE DEF w
  <2>4. /\ new \in Seq(Browser \X Nat) /\ Len(w) \in Nat /\ DOMAIN w = 1..Len(w)
        /\ DOMAIN new = 1..Len(w) + 1 /\ new[Len(w) + 1] = e
        /\ \A i \in 1..Len(w) : new[i] = w[i]
    BY <2>3, <1>4 DEF w
  <2>5. OnceEach(new)
    BY <2>3, <2>4 DEF OnceEach
  <2> HIDE DEF new
  <2>6. pushStore' \in [PushAor -> Seq(Browser \X Nat)] /\ pushStore'[a] = new
        /\ \A c \in PushAor \ {a} : pushStore'[c] = pushStore[c]
    BY <2>1, <2>4, <1>3, <1>5
  <2>7. PushTypes'
    BY <1>0, <2>1, <2>6, <1>3, <1>4, <1>5 DEF PushInv, PushTypes, Subscription
  <2>8. \A c \in PushAor : OnceEach(pushStore'[c])
    BY <2>5, <2>6 DEF PushInv, StoreInv
  <2>9. ASSUME NEW c \in confirmed', c[2] \notin goneEnds
        PROVE  \E i \in DOMAIN pushStore'[c[1]] : pushStore'[c[1]][i] = c[2]
    <3>0. \E i \in DOMAIN new : new[i] = e
      BY <2>4
    <3>1. CASE c = <<a, e>>
      BY <3>0, <3>1, <2>6
    <3>2. CASE c # <<a, e>>
      <4>1. c \in confirmed /\ c \in Subscription
        BY <3>2, <2>1, <1>5
      <4>2. PICK i \in DOMAIN pushStore[c[1]] : pushStore[c[1]][i] = c[2]
        BY <2>9, <4>1 DEF PushInv, StoreInv
      <4>3. c[1] \in PushAor /\ c = <<c[1], c[2]>>
        BY <4>1 DEF Subscription
      <4>4. CASE c[1] # a
        BY <4>2, <4>3, <4>4, <2>6
      <4>5. CASE c[1] = a
        <5>1. i \in DOMAIN old /\ old[i] = c[2] /\ c[2] # e
          BY <4>2, <4>3, <4>5, <3>2 DEF old
        <5>2. PICK j \in DOMAIN w : w[j] = c[2]
          BY <5>1, <2>3
        <5>3. j \in DOMAIN new /\ new[j] = c[2]
          BY <5>2, <2>4
        <5> QED
          BY <5>3, <4>5, <2>6
      <4> QED
        BY <4>4, <4>5
    <3> QED
      BY <3>1, <3>2
  <2>10. StoreInv'
    BY <2>8, <2>9, <1>0 DEF StoreInv
  <2> QED
    BY <2>7, <2>10, <1>1, <1>2 DEF PushInv
<1> QED
  BY <1>6, <1>7

LEMMA RoundMoves ==
    ASSUME PushInv, NEW r \in Rings, NEW x, ring' = [ring EXCEPT ![r] = x], RingOK(x),
           x.stage = "Sent" /\ x.result = "Gone" => Head(x.subs)[2] \in goneEnds,
           UNCHANGED <<now, session, opened, endpoint, goneEnds, confirmed>>
    PROVE  RoundsInv' /\ SessionIsGenuine' /\ DOMAIN ring' = Rings
           /\ (PushTypes' <=> pushStore' \in [PushAor -> Seq(Browser \X Nat)])
<1>1. DOMAIN ring = Rings
  BY DEF PushInv, PushTypes
<1>2. DOMAIN ring' = Rings /\ ring'[r] = x /\ \A q \in Rings \ {r} : ring'[q] = ring[q]
  BY <1>1
<1>3. \A q \in Rings : RingOK(ring'[q])
  BY <1>2 DEF PushInv, RoundsInv
<1>4. ASSUME NEW q \in Rings, ring'[q].stage = "Sent", ring'[q].result = "Gone"
      PROVE  Head(ring'[q].subs)[2] \in goneEnds
  <2>1. CASE q = r
    BY <1>2, <1>4, <2>1
  <2>2. CASE q # r
    BY <1>2, <1>4, <2>2 DEF PushInv, RoundsInv
  <2> QED
    BY <2>1, <2>2
<1>5. RoundsInv'
  BY <1>3, <1>4 DEF RoundsInv
<1>6. SessionIsGenuine'
  BY DEF PushInv, SessionIsGenuine
<1>7. PushTypes' <=> pushStore' \in [PushAor -> Seq(Browser \X Nat)]
  BY <1>2 DEF PushInv, PushTypes, Rings
<1> QED
  BY <1>2, <1>5, <1>6, <1>7

LEMMA RoundStarts ==
    ASSUME PushInv, NEW r \in Rings,
           NEW aors \in SetToSeqs(PushAor) \cup {<<a>> : a \in PushAor}, CallRings(r, aors)
    PROVE  PushInv'
<1> DEFINE x == [ring[r] EXCEPT !.stage = "Next", !.aors = aors]
           y == ring[r]
<1>1. aors \in Seq(PushAor) /\ OnceEach(aors)
  <2>1. CASE aors \in SetToSeqs(PushAor)
    <3> DEFINE n == Cardinality(PushAor)
    <3>1. n \in Nat
      BY PushAssumption, FS_CardinalityType
    <3>2. aors \in [1..n -> PushAor] /\ \A i, j \in 1..n : i # j => aors[i] # aors[j]
      BY <2>1 DEF SetToSeqs
    <3> QED
      BY <3>1, <3>2 DEF OnceEach
  <2>2. CASE \E a \in PushAor : aors = <<a>>
    BY <2>2 DEF OnceEach
  <2> QED
    BY <2>1, <2>2
<1>2. RingOK(y) /\ y.stage = "None"
  BY DEF CallRings, PushInv, RoundsInv
<1>3. ring' = [ring EXCEPT ![r] = x]
  BY DEF CallRings
<1> HIDE DEF y
<1>4. RingOK([y EXCEPT !.stage = "Next", !.aors = aors])
  BY <1>1, <1>2 DEF RingOK
<1>5. RingOK(x) /\ x.stage = "Next"
  BY <1>2, <1>4 DEF y, RingOK
<1> HIDE DEF x
<1>6. UNCHANGED <<now, session, opened, endpoint, goneEnds, confirmed, pushStore>>
  BY DEF CallRings
<1>7. RoundsInv' /\ SessionIsGenuine' /\ PushTypes'
  BY <1>3, <1>5, <1>6, RoundMoves DEF PushInv, PushTypes
<1>8. StoreInv'
  BY <1>6 DEF PushInv, StoreInv
<1> QED
  BY <1>7, <1>8 DEF PushInv

LEMMA RoundLists == ASSUME PushInv, NEW r \in Rings, ListSubscriptions(r) PROVE PushInv'
<1> DEFINE y == ring[r]
<1>0. UNCHANGED <<now, session, opened, endpoint, goneEnds, confirmed, pushStore>>
  BY DEF ListSubscriptions
<1>1. RingOK(y) /\ y.stage = "Next" /\ y.subs = <<>>
  BY DEF ListSubscriptions, PushInv, RoundsInv
<1>2. pushStore \in [PushAor -> Seq(Browser \X Nat)] /\ StoreInv
  BY DEF PushInv, PushTypes
<1>3. ASSUME NEW x, ring' = [ring EXCEPT ![r] = x], RingOK(x), x.stage # "Sent"
      PROVE  PushInv'
  <2>1. RoundsInv' /\ SessionIsGenuine' /\ PushTypes'
    BY <1>0, <1>2, <1>3, RoundMoves
  <2>2. StoreInv'
    BY <1>0, <1>2 DEF StoreInv
  <2> QED
    BY <2>1, <2>2 DEF PushInv
<1>4. CASE ring[r].aors = <<>>
  <2> DEFINE x == [y EXCEPT !.stage = "Done"]
  <2>1. ring' = [ring EXCEPT ![r] = x]
    BY <1>4 DEF ListSubscriptions
  <2> HIDE DEF y
  <2>2. RingOK(x) /\ x.stage = "Done"
    BY <1>1 DEF RingOK
  <2> HIDE DEF x
  <2> QED
    BY <1>3, <2>1, <2>2
<1>5. CASE ring[r].aors # <<>>
  <2> DEFINE a == Head(y.aors)
             s == pushStore[a]
             subs == [i \in DOMAIN s |-> <<a, s[i]>>]
             more == {<<a, i, s[i]>> : i \in DOMAIN s}
             x == [y EXCEPT !.subs = subs, !.listed = @ \cup more, !.aors = Tail(@)]
  <2>1. ring' = [ring EXCEPT ![r] = x]
    BY <1>5 DEF ListSubscriptions
  <2>2. y.aors # <<>> /\ y.aors \in Seq(PushAor) /\ OnceEach(y.aors)
    BY <1>5, <1>1 DEF RingOK
  <2> HIDE DEF y
  <2>3. /\ a \in PushAor /\ Tail(y.aors) \in Seq(PushAor) /\ OnceEach(Tail(y.aors))
        /\ \A i \in DOMAIN Tail(y.aors) : Tail(y.aors)[i] # a
        /\ \A i \in DOMAIN Tail(y.aors) : i + 1 \in DOMAIN y.aors /\ Tail(y.aors)[i] = y.aors[i + 1]
        /\ 1 \in DOMAIN y.aors /\ y.aors[1] = a
    BY <2>2 DEF OnceEach
  <2> HIDE DEF a
  <2>4. s \in Seq(Browser \X Nat) /\ OnceEach(s) /\ Len(s) \in Nat /\ DOMAIN s = 1..Len(s)
    BY <2>3, <1>2 DEF StoreInv
  <2> HIDE DEF s
  <2>5. subs \in Seq(Subscription) /\ DOMAIN subs = DOMAIN s
    <3>1. subs \in [1..Len(s) -> Subscription]
      BY <2>3, <2>4 DEF Subscription
    <3> QED
      BY <3>1, <2>4
  <2>6. \A l \in more : /\ l[1] = a /\ l \in PushAor \X Nat \X (Browser \X Nat)
                        /\ l[2] \in DOMAIN s /\ l[3] = s[l[2]] /\ l = <<a, l[2], l[3]>>
    BY <2>3, <2>4
  <2>7. \A l \in more : \E i \in DOMAIN subs : subs[i] = <<l[1], l[3]>>
    BY <2>6
  <2>8. \A l, m \in more : l[3] = m[3] => l = m
    <3> SUFFICES ASSUME NEW l \in more, NEW m \in more, l[3] = m[3] PROVE l = m
      OBVIOUS
    <3>1. /\ l[2] \in DOMAIN s /\ l[3] = s[l[2]] /\ l = <<a, l[2], l[3]>>
          /\ m[2] \in DOMAIN s /\ m[3] = s[m[2]] /\ m = <<a, m[2], m[3]>>
      BY <2>6
    <3>2. l[2] = m[2]
      BY <3>1, <2>4 DEF OnceEach
    <3> HIDE DEF more
    <3> QED
      BY <3>1, <3>2
  <2> HIDE DEF subs, more
  <2>9. /\ y.listed \in SUBSET (PushAor \X Nat \X (Browser \X Nat))
        /\ \A l \in y.listed : \A i \in DOMAIN y.aors : y.aors[i] # l[1]
        /\ \A l, m \in y.listed : l[1] = m[1] /\ l[3] = m[3] => l = m
        /\ \A l \in y.listed : <<l[1], l[3]>> \in y.tried
    BY <1>1 DEF RingOK
  <2> DEFINE listed == y.listed \cup more
  <2>10. listed \in SUBSET (PushAor \X Nat \X (Browser \X Nat))
    BY <2>6, <2>9
  <2>11. \A l \in listed : \A i \in DOMAIN Tail(y.aors) : Tail(y.aors)[i] # l[1]
    BY <2>3, <2>6, <2>9
  <2>12. \A l, m \in listed : l[1] = m[1] /\ l[3] = m[3] => l = m
    BY <2>3, <2>6, <2>8, <2>9
  <2>13. \A l \in listed : <<l[1], l[3]>> \in y.tried \/ \E i \in DOMAIN subs : subs[i] = <<l[1], l[3]>>
    BY <2>7, <2>9
  <2> HIDE DEF listed
  <2>14. /\ x \in [stage : {"None", "Next", "Sent", "Done"}, aors : Seq(PushAor), subs : Seq(Subscription),
                   result : PushResult, listed : SUBSET (PushAor \X Nat \X (Browser \X Nat)),
                   tried : SUBSET Subscription]
         /\ x.stage = "Next" /\ x.aors = Tail(y.aors) /\ x.subs = subs /\ x.listed = listed /\ x.tried = y.tried
    BY <1>1, <2>3, <2>5, <2>10 DEF RingOK, listed
  <2> HIDE DEF x
  <2>15. RingOK(x) /\ x.stage # "Sent"
    BY <2>3, <2>11, <2>12, <2>13, <2>14 DEF RingOK
  <2> QED
    BY <1>3, <2>1, <2>15
<1> QED
  BY <1>4, <1>5

LEMMA RoundSends ==
    ASSUME PushInv, NEW r \in Rings, NEW result \in PushResult, SendPush(r, result)
    PROVE  PushInv'
<1> DEFINE y == ring[r]
           x == [y EXCEPT !.stage = "Sent", !.result = result, !.tried = @ \cup {Head(y.subs)}]
<1>0. UNCHANGED <<now, session, opened, endpoint, goneEnds, confirmed, pushStore>>
  BY DEF SendPush
<1>1. RingOK(y) /\ y.stage = "Next" /\ y.subs # <<>>
  BY DEF SendPush, PushInv, RoundsInv
<1>2. pushStore \in [PushAor -> Seq(Browser \X Nat)] /\ StoreInv
  BY DEF PushInv, PushTypes
<1>3. ring' = [ring EXCEPT ![r] = x]
  BY DEF SendPush
<1>4. result = "Gone" => Head(y.subs)[2] \in goneEnds
  BY DEF SendPush
<1> HIDE DEF y
<1>5. Head(y.subs) \in Subscription
  BY <1>1 DEF RingOK
<1>6. /\ x \in [stage : {"None", "Next", "Sent", "Done"}, aors : Seq(PushAor), subs : Seq(Subscription),
                 result : PushResult, listed : SUBSET (PushAor \X Nat \X (Browser \X Nat)),
                 tried : SUBSET Subscription]
      /\ x.stage = "Sent" /\ x.aors = y.aors /\ x.subs = y.subs /\ x.listed = y.listed
      /\ x.result = result /\ x.tried = y.tried \cup {Head(y.subs)}
  BY <1>1, <1>5 DEF RingOK
<1> HIDE DEF x
<1>7. RingOK(x)
  BY <1>1, <1>6 DEF RingOK
<1>8. x.stage = "Sent" /\ x.result = "Gone" => Head(x.subs)[2] \in goneEnds
  BY <1>4, <1>6
<1>9. RoundsInv' /\ SessionIsGenuine' /\ PushTypes'
  BY <1>0, <1>2, <1>3, <1>7, <1>8, RoundMoves
<1>10. StoreInv'
  BY <1>0, <1>2 DEF StoreInv
<1> QED
  BY <1>9, <1>10 DEF PushInv

LEMMA RoundGoesOn == ASSUME PushInv, NEW r \in Rings, PushSent(r) PROVE PushInv'
<1> DEFINE y == ring[r]
           h == Head(y.subs)
           x == [y EXCEPT !.stage = "Next", !.result = "None", !.subs = Tail(@)]
<1>0. UNCHANGED <<now, session, opened, endpoint, goneEnds, confirmed>>
  BY DEF PushSent
<1>1. RingOK(y) /\ y.stage = "Sent"
  BY DEF PushSent, PushInv, RoundsInv
<1>2. pushStore \in [PushAor -> Seq(Browser \X Nat)] /\ StoreInv /\ confirmed \subseteq Subscription
  BY DEF PushInv, PushTypes
<1>3. ring' = [ring EXCEPT ![r] = x]
  BY DEF PushSent
<1>4. y.result = "Gone" => h[2] \in goneEnds
  BY <1>1 DEF PushInv, RoundsInv
<1>5. pushStore' = RemoveIfGone(h, y.result)
  BY DEF PushSent
<1> HIDE DEF y
<1>6. /\ y.subs \in Seq(Subscription) /\ y.subs # <<>> /\ h \in y.tried /\ h \in Subscription
      /\ Tail(y.subs) \in Seq(Subscription)
      /\ \A i \in DOMAIN y.subs : y.subs[i] = h \/ (i - 1 \in DOMAIN Tail(y.subs) /\ Tail(y.subs)[i - 1] = y.subs[i])
  <2>1. y.subs \in Seq(Subscription) /\ y.subs # <<>> /\ h \in y.tried
    BY <1>1 DEF RingOK
  <2> QED
    BY <2>1
<1>7. /\ x \in [stage : {"None", "Next", "Sent", "Done"}, aors : Seq(PushAor), subs : Seq(Subscription),
                 result : PushResult, listed : SUBSET (PushAor \X Nat \X (Browser \X Nat)),
                 tried : SUBSET Subscription]
      /\ x.stage = "Next" /\ x.aors = y.aors /\ x.subs = Tail(y.subs) /\ x.listed = y.listed
      /\ x.tried = y.tried
  BY <1>1, <1>6 DEF RingOK, PushResult
<1> HIDE DEF x, h
<1>8. \A l \in y.listed : <<l[1], l[3]>> \in y.tried \/ \E i \in DOMAIN Tail(y.subs) : Tail(y.subs)[i] = <<l[1], l[3]>>
  <2> SUFFICES ASSUME NEW l \in y.listed, <<l[1], l[3]>> \notin y.tried
               PROVE  \E i \in DOMAIN Tail(y.subs) : Tail(y.subs)[i] = <<l[1], l[3]>>
    OBVIOUS
  <2>1. PICK i \in DOMAIN y.subs : y.subs[i] = <<l[1], l[3]>>
    BY <1>1 DEF RingOK
  <2>2. i - 1 \in DOMAIN Tail(y.subs) /\ Tail(y.subs)[i - 1] = y.subs[i]
    BY <2>1, <1>6
  <2> QED
    BY <2>1, <2>2
<1>9. RingOK(x)
  <2>1. /\ OnceEach(y.aors)
        /\ \A l \in y.listed : \A i \in DOMAIN y.aors : y.aors[i] # l[1]
        /\ \A l, m \in y.listed : l[1] = m[1] /\ l[3] = m[3] => l = m
    BY <1>1 DEF RingOK
  <2> QED
    BY <1>7, <1>8, <2>1 DEF RingOK
<1>10. /\ pushStore' \in [PushAor -> Seq(Browser \X Nat)] /\ StoreInv'
  <2>1. CASE y.result # "Gone"
    <3>1. pushStore' = pushStore
      BY <1>5, <2>1 DEF RemoveIfGone
    <3> QED
      BY <3>1, <1>0, <1>2 DEF StoreInv
  <2>2. CASE y.result = "Gone"
    <3> DEFINE a == h[1]
               e == h[2]
               old == pushStore[a]
               new == Without(old, e)
    <3>1. pushStore' = [pushStore EXCEPT ![a] = new] /\ e \in goneEnds /\ a \in PushAor
      BY <1>4, <1>5, <1>6, <2>2 DEF RemoveIfGone, Subscription
    <3>2. old \in Seq(Browser \X Nat) /\ OnceEach(old)
      BY <1>2, <3>1 DEF StoreInv
    <3> HIDE DEF a, e, old
    <3>3. /\ new \in Seq(Browser \X Nat) /\ OnceEach(new)
          /\ \A i \in DOMAIN old : old[i] # e => \E j \in DOMAIN new : new[j] = old[i]
      BY <3>2, TakenOut
    <3> HIDE DEF new
    <3>4. pushStore' \in [PushAor -> Seq(Browser \X Nat)] /\ pushStore'[a] = new
          /\ \A c \in PushAor \ {a} : pushStore'[c] = pushStore[c]
      BY <3>1, <3>3, <1>2
    <3>5. \A c \in PushAor : OnceEach(pushStore'[c])
      BY <3>3, <3>4, <1>2 DEF StoreInv
    <3>6. ASSUME NEW c \in confirmed, c[2] \notin goneEnds
          PROVE  \E i \in DOMAIN pushStore'[c[1]] : pushStore'[c[1]][i] = c[2]
      <4>1. PICK i \in DOMAIN pushStore[c[1]] : pushStore[c[1]][i] = c[2]
        BY <3>6, <1>2 DEF StoreInv
      <4>2. c[1] \in PushAor /\ c[2] # e
        BY <3>1, <3>6, <1>2 DEF Subscription
      <4>3. CASE c[1] # a
        BY <4>1, <4>2, <4>3, <3>4
      <4>4. CASE c[1] = a
        <5>1. i \in DOMAIN old /\ old[i] = c[2]
          BY <4>1, <4>4 DEF old
        <5> QED
          BY <5>1, <4>2, <4>4, <3>3, <3>4
      <4> QED
        BY <4>3, <4>4
    <3> QED
      BY <1>0, <3>4, <3>5, <3>6 DEF StoreInv
  <2> QED
    BY <2>1, <2>2
<1>11. RoundsInv' /\ SessionIsGenuine' /\ PushTypes'
  BY <1>0, <1>3, <1>7, <1>9, <1>10, RoundMoves
<1> QED
  BY <1>10, <1>11 DEF PushInv

LEMMA PushKept == PushInv /\ [PushNext]_pushVars => PushInv'
<1> SUFFICES ASSUME PushInv, [PushNext]_pushVars PROVE PushInv'
  OBVIOUS
<1>1. CASE UNCHANGED pushVars
  <2>1. /\ now' = now /\ session' = session /\ opened' = opened /\ endpoint' = endpoint
        /\ goneEnds' = goneEnds /\ confirmed' = confirmed /\ pushStore' = pushStore /\ ring' = ring
    BY <1>1 DEF pushVars
  <2>2. PushTypes' /\ SessionIsGenuine'
    BY <2>1 DEF PushInv, PushTypes, SessionIsGenuine
  <2>3. StoreInv' /\ RoundsInv'
    BY <2>1 DEF PushInv, StoreInv, RoundsInv
  <2> QED
    BY <2>2, <2>3 DEF PushInv
<1>2. CASE \E b \in Browser : (\E t \in Token : Connect(b, t)) \/ Disconnect(b)
  BY <1>2, SessionsChange
<1>3. CASE Tick \/ \E b \in Browser : GetEndpoint(b) \/ EndpointGone(b)
  BY <1>3, EndpointsChange
<1>4. CASE \E b \in Browser, v \in BOOLEAN : PushSubscribe(b, v)
  BY <1>4, Subscribes
<1>5. CASE \E r \in Rings, aors \in SetToSeqs(PushAor) \cup {<<a>> : a \in PushAor} : CallRings(r, aors)
  BY <1>5, RoundStarts
<1>6. CASE \E r \in Rings : ListSubscriptions(r) \/ PushSent(r)
  BY <1>6, RoundLists, RoundGoesOn
<1>7. CASE \E r \in Rings, result \in {"Ok", "Gone", "Rejected", "Transient"} : SendPush(r, result)
  BY <1>7, RoundSends DEF PushResult
<1> QED
  BY <1>1, <1>2, <1>3, <1>4, <1>5, <1>6, <1>7 DEF PushNext

-----------------------------------------------------------------------------
(* The requests of a dialog                                                *)

HopSet == {Server, Target} \cup Hops("edge") \cup Hops("core")

\* A path of proxies: different ones, none of them the fallback or the peer.
WellPath(p) ==
    /\ p \in Seq(HopSet)
    /\ \A i \in 1..Len(p) : p[i] # Server /\ p[i] # Target /\ (p[i].lr \/ p[i].ip)
    /\ \A i, j \in 1..Len(p) : p[i] = p[j] => i = j

LEMMA HopsDiffer == Server \in HopSet /\ Target \in HopSet /\ Server # Target /\ Target.ip
<1>1. Server.name = "pcscf" /\ Target.name = "contact"
  BY DEF Server, Target, Hop
<1>2. Target.ip
  BY DEF Target, Hop
<1> QED
  BY <1>1, <1>2 DEF HopSet

LEMMA HopsOf ==
    ASSUME NEW x, NEW h \in Hops(x)
    PROVE  h.name = x /\ (h.lr \/ h.ip)
<1>1. h = Hop(x, TRUE, TRUE) \/ h = Hop(x, TRUE, FALSE) \/ h = Hop(x, FALSE, TRUE)
  BY DEF Hops
<1>2. h.name = x
  BY <1>1 DEF Hop
<1>3. CASE h = Hop(x, TRUE, TRUE) \/ h = Hop(x, TRUE, FALSE)
  <2>1. h.lr
    BY <1>3 DEF Hop
  <2> QED
    BY <1>2, <2>1
<1>4. CASE h = Hop(x, FALSE, TRUE)
  <2>1. h.ip
    BY <1>4 DEF Hop
  <2> QED
    BY <1>2, <2>1
<1> QED
  BY <1>1, <1>3, <1>4

LEMMA PathsWell == \A p \in Paths : WellPath(p) /\ Len(p) <= 2
<1> SUFFICES ASSUME NEW p \in Paths PROVE WellPath(p) /\ Len(p) <= 2
  OBVIOUS
<1>0. Server.name = "pcscf" /\ Target.name = "contact"
  BY DEF Server, Target, Hop
<1>1. CASE p = <<>>
  BY <1>1 DEF WellPath
<1>2. CASE \E h \in Hops("edge") : p = <<h>>
  <2>1. PICK h \in Hops("edge") : p = <<h>>
    BY <1>2
  <2>2. h.name = "edge" /\ h \in HopSet /\ (h.lr \/ h.ip)
    BY HopsOf DEF HopSet
  <2>3. h # Server /\ h # Target
    BY <1>0, <2>2
  <2> QED
    BY <2>1, <2>2, <2>3 DEF WellPath
<1>3. CASE \E h \in Hops("edge"), k \in Hops("core") : p = <<h, k>>
  <2>1. PICK h \in Hops("edge"), k \in Hops("core") : p = <<h, k>>
    BY <1>3
  <2>2. h.name = "edge" /\ h \in HopSet /\ (h.lr \/ h.ip)
    BY HopsOf DEF HopSet
  <2>3. k.name = "core" /\ k \in HopSet /\ (k.lr \/ k.ip)
    BY HopsOf DEF HopSet
  <2>4. h # Server /\ h # Target /\ k # Server /\ k # Target /\ h # k
    BY <1>0, <2>2, <2>3
  <2>5. p \in Seq(HopSet) /\ Len(p) = 2 /\ p[1] = h /\ p[2] = k
    BY <2>1, <2>2, <2>3
  <2>6. \A i \in 1..Len(p) : p[i] # Server /\ p[i] # Target /\ (p[i].lr \/ p[i].ip)
    BY <2>2, <2>3, <2>4, <2>5
  <2>7. \A i, j \in 1..Len(p) : p[i] = p[j] => i = j
    BY <2>4, <2>5
  <2> QED
    BY <2>5, <2>6, <2>7 DEF WellPath
<1> QED
  BY <1>1, <1>2, <1>3 DEF Paths

LEMMA LinesRead ==
    ASSUME NEW rr \in Seq(HopSet), Len(rr) <= 2, NEW l \in Lines(rr)
    PROVE  Values(l) = rr
<1>1. CASE l = <<rr>>
  <2> DEFINE F(f) == [i \in 1..1 |-> IF i = 1 THEN l[i] ELSE f[i - 1] \o l[i]]
             g == CHOOSE f : f = F(f)
  <2>1. Len(l) = 1 /\ l[1] = rr
    BY <1>1
  <2>2. [i \in 1..1 |-> rr] = F([i \in 1..1 |-> rr])
    BY <2>1
  <2>3. g = F(g)
    <3> HIDE DEF F
    <3> QED
      BY <2>2
  <2>4. g[1] = rr
    BY <2>1, <2>3
  <2>5. Values(l) = g[1]
    BY <2>1 DEF Values, FlattenSeq
  <2> QED
    BY <2>4, <2>5
<1>2. CASE l = [i \in DOMAIN rr |-> <<rr[i]>>] /\ Len(rr) = 0
  <2>1. rr = <<>> /\ l = <<>>
    BY <1>2
  <2> QED
    BY <2>1 DEF Values, FlattenSeq
<1>3. CASE l = [i \in DOMAIN rr |-> <<rr[i]>>] /\ Len(rr) = 1
  <2> DEFINE F(f) == [i \in 1..1 |-> IF i = 1 THEN l[i] ELSE f[i - 1] \o l[i]]
             g == CHOOSE f : f = F(f)
  <2>1. l = <<<<rr[1]>>>> /\ rr = <<rr[1]>>
    BY <1>3
  <2>a. Len(l) = 1 /\ l[1] = rr
    BY <2>1
  <2>2. [i \in 1..1 |-> rr] = F([i \in 1..1 |-> rr])
    BY <2>a
  <2>3. g = F(g)
    <3> HIDE DEF F
    <3> QED
      BY <2>2
  <2>4. g[1] = rr
    BY <2>a, <2>3
  <2>5. Values(l) = g[1]
    BY <2>a DEF Values, FlattenSeq
  <2> QED
    BY <2>4, <2>5
<1>4. CASE l = [i \in DOMAIN rr |-> <<rr[i]>>] /\ Len(rr) = 2
  <2> DEFINE F(f) == [i \in 1..2 |-> IF i = 1 THEN l[i] ELSE f[i - 1] \o l[i]]
             g == CHOOSE f : f = F(f)
             k == [i \in 1..2 |-> IF i = 1 THEN <<rr[1]>> ELSE rr]
  <2>1. l = <<<<rr[1]>>, <<rr[2]>>>> /\ rr = <<rr[1], rr[2]>>
    BY <1>4
  <2>a. Len(l) = 2 /\ l[1] = <<rr[1]>> /\ l[2] = <<rr[2]>>
    BY <2>1
  <2>b. <<rr[1]>> \o <<rr[2]>> = rr
    BY <2>1
  <2>2. k = F(k)
    <3>1. \A i \in 1..2 : F(k)[i] = k[i]
      <4>1. k[1] = <<rr[1]>> /\ k[2] = rr
        OBVIOUS
      <4>2. F(k)[1] = l[1] /\ F(k)[2] = k[1] \o l[2]
        OBVIOUS
      <4>3. \A i \in 1..2 : i = 1 \/ i = 2
        OBVIOUS
      <4> HIDE DEF F, k
      <4> QED
        BY <4>1, <4>2, <4>3, <2>a, <2>b
    <3> QED
      BY <3>1
  <2>3. g = F(g)
    <3> HIDE DEF F, k
    <3> QED
      BY <2>2
  <2>4. g[1] = <<rr[1]>>
    <3>1. F(g)[1] = l[1]
      OBVIOUS
    <3> QED
      BY <3>1, <2>3, <2>a
  <2>5. g[2] = rr
    <3>1. ASSUME NEW f, f[1] = <<rr[1]>> PROVE F(f)[2] = rr
      <4>1. f[1] \o l[2] = rr
        BY <3>1, <2>a, <2>b
      <4>2. ASSUME NEW i \in 1..2, i # 1 PROVE F(f)[i] = f[i - 1] \o l[i]
        BY <4>2, Zenon
      <4>3. 2 \in 1..2 /\ 2 # 1 /\ 2 - 1 = 1
        OBVIOUS
      <4> HIDE DEF F
      <4> QED
        BY <4>1, <4>2, <4>3, Zenon
    <3>2. F(g)[2] = rr
      <4> HIDE DEF F, g
      <4> QED
        BY <3>1, <2>4
    <3> HIDE DEF F, g
    <3> QED
      BY <3>2, <2>3
  <2>6. Values(l) = g[2]
    BY <2>a DEF Values, FlattenSeq
  <2> HIDE DEF g
  <2> QED
    BY <2>5, <2>6
<1>5. Len(rr) = 0 \/ Len(rr) = 1 \/ Len(rr) = 2
  <2> DEFINE n == Len(rr)
  <2>1. n \in Nat /\ n <= 2
    OBVIOUS
  <2> HIDE DEF n
  <2>2. n = 0 \/ n = 1 \/ n = 2
    BY <2>1
  <2> QED
    BY <2>2 DEF n
<1>6. l = <<rr>> \/ l = [i \in DOMAIN rr |-> <<rr[i]>>]
  BY DEF Lines
<1> QED
  BY <1>1, <1>2, <1>3, <1>4, <1>5, <1>6

LEMMA RouteIsPath ==
    ASSUME NEW p \in Paths
    PROVE  /\ \A l \in Lines(Reverse(p)) : UacRoute(l) = p
           /\ \A l \in Lines(p) : UasRoute(l) = p
<1>1. p \in Seq(HopSet) /\ Len(p) <= 2
  BY PathsWell DEF WellPath
<1> DEFINE q == Reverse(p)
<1>2. q \in Seq(HopSet) /\ Len(q) = Len(p) /\ \A i \in 1..Len(p) : q[i] = p[(Len(p) - i) + 1]
  BY <1>1 DEF Reverse
<1> HIDE DEF q
<1>3. Reverse(q) = p
  <2>1. \A i \in 1..Len(p) : q[(Len(p) - i) + 1] = p[i]
    <3> SUFFICES ASSUME NEW i \in 1..Len(p) PROVE q[(Len(p) - i) + 1] = p[i]
      OBVIOUS
    <3> DEFINE n == Len(p)
    <3>1. n \in Nat
      BY <1>1
    <3> HIDE DEF n
    <3>2. (n - i) + 1 \in 1..n /\ (n - ((n - i) + 1)) + 1 = i
      BY <3>1 DEF n
    <3> QED
      BY <3>2, <1>2 DEF n
  <2>2. Reverse(q) = [i \in 1..Len(p) |-> q[(Len(p) - i) + 1]]
    BY <1>2 DEF Reverse
  <2> QED
    BY <1>1, <2>1, <2>2
<1>4. \A l \in Lines(q) : Values(l) = q
  BY <1>1, <1>2, LinesRead
<1>5. \A l \in Lines(p) : Values(l) = p
  BY <1>1, LinesRead
<1> QED
  BY <1>3, <1>4, <1>5 DEF UacRoute, UasRoute, q

-----------------------------------------------------------------------------
\* A request on its way, with R of its path before it.
Underway(w, R) ==
    /\ R = <<>> => w.at = Target /\ w.uri = Target /\ w.route = <<>>
    /\ R # <<>> => \/ (w.at = Server \/ w.at = R[1]) /\ R[1].lr /\ w.uri = Target /\ w.route = R
                   \/ w.at = R[1] /\ ~R[1].lr /\ w.uri = R[1] /\ w.route = Append(Tail(R), Target)

\* What in-dialog requests start from.
LEMMA SetsOut ==
    ASSUME NEW d, NEW p, d.routes = p, d.target = Target, WellPath(p), NEW m, NEW n, NEW b
    PROVE  LET w == InDialogRequest(d, m, n, b)
           IN  w.seen = <<>> /\ w.from = d.local /\ w.to = d.remote /\ w.method = m /\ w.cseq = n /\ Underway(w, p)
<1> DEFINE w == InDialogRequest(d, m, n, b)
<1>1. w.seen = <<>> /\ w.from = d.local /\ w.to = d.remote /\ w.method = m /\ w.cseq = n
  BY DEF InDialogRequest
<1>2. w.uri = UriAndRoute(d).uri /\ w.route = UriAndRoute(d).route /\ w.at = NextHop(d)
  BY DEF InDialogRequest
<1> HIDE DEF w
<1>3. CASE p = <<>>
  <2>1. w.uri = Target /\ w.route = <<>>
    BY <1>2, <1>3 DEF UriAndRoute
  <2>2. w.at = Target
    BY <1>2, <1>3, HopsDiffer DEF NextHop
  <2> QED
    BY <1>1, <1>3, <2>1, <2>2 DEF Underway, w
<1>4. CASE p # <<>>
  <2>1. Head(p) = p[1] /\ (p[1].lr \/ p[1].ip)
    BY <1>4 DEF WellPath
  <2>2. w.at = IF p[1].ip THEN p[1] ELSE Server
    BY <1>2, <1>4, <2>1 DEF NextHop
  <2>3. CASE p[1].lr
    <3>1. w.uri = Target /\ w.route = p
      BY <1>2, <1>4, <2>1, <2>3 DEF UriAndRoute
    <3> QED
      BY <1>1, <1>4, <2>2, <2>3, <3>1 DEF Underway, w
  <2>4. CASE ~p[1].lr
    <3>1. w.uri = p[1] /\ w.route = Append(Tail(p), Target)
      BY <1>2, <1>4, <2>1, <2>4 DEF UriAndRoute
    <3> QED
      BY <1>1, <1>4, <2>1, <2>2, <2>4, <3>1 DEF Underway, w
  <2> QED
    BY <2>3, <2>4
<1> QED
  BY <1>3, <1>4

LEMMA Shifted ==
    \A n, m \in Nat : /\ \A i \in 1..m : n + i \in 1..n + m
                      /\ \A i, j \in 1..m : n + i = n + j => i = j
OBVIOUS

LEMMA RestOfPath ==
    ASSUME NEW p, WellPath(p), NEW s \in Seq(HopSet), NEW R \in Seq(HopSet), p = s \o R
    PROVE  WellPath(R)
<1> DEFINE n == Len(s)
           m == Len(R)
<1>1. n \in Nat /\ m \in Nat
  OBVIOUS
<1>2. Len(p) = n + m /\ \A i \in 1..m : R[i] = p[n + i]
  OBVIOUS
<1>a. /\ \A i \in 1..n + m : p[i] # Server /\ p[i] # Target /\ (p[i].lr \/ p[i].ip)
      /\ \A i, j \in 1..n + m : p[i] = p[j] => i = j
  BY <1>2 DEF WellPath
<1> HIDE DEF n, m
<1>3. \A i \in 1..m : n + i \in 1..n + m
  BY <1>1, Shifted, Zenon
<1>4. \A i \in 1..m : R[i] # Server /\ R[i] # Target /\ (R[i].lr \/ R[i].ip)
  <2> SUFFICES ASSUME NEW i \in 1..m PROVE R[i] # Server /\ R[i] # Target /\ (R[i].lr \/ R[i].ip)
    BY Zenon
  <2>1. n + i \in 1..n + m /\ R[i] = p[n + i]
    BY <1>2, <1>3, Zenon
  <2>2. p[n + i] # Server /\ p[n + i] # Target /\ (p[n + i].lr \/ p[n + i].ip)
    BY <2>1, <1>a, Zenon
  <2> QED
    BY <2>1, <2>2, Zenon
<1>5. \A i, j \in 1..m : R[i] = R[j] => i = j
  <2> SUFFICES ASSUME NEW i \in 1..m, NEW j \in 1..m, R[i] = R[j] PROVE i = j
    OBVIOUS
  <2>1. n + i \in 1..n + m /\ n + j \in 1..n + m /\ p[n + i] = p[n + j]
    BY <1>2, <1>3
  <2>2. n + i = n + j
    BY <2>1, <1>a, Zenon
  <2> QED
    BY <2>2, <1>1, Shifted, Zenon
<1> QED
  BY <1>4, <1>5 DEF WellPath, m

LEMMA OneFurther ==
    ASSUME NEW s \in Seq(HopSet), NEW R \in Seq(HopSet), R # <<>>
    PROVE  /\ s \o R = Append(s, R[1]) \o Tail(R)
           /\ Append(s, R[1]) \in Seq(HopSet) /\ Tail(R) \in Seq(HopSet)
<1>1. Append(s, R[1]) \in Seq(HopSet) /\ Tail(R) \in Seq(HopSet) /\ R[1] \in HopSet
  OBVIOUS
<1> DEFINE a == Append(s, R[1])
           t == Tail(R)
           n == Len(s)
           m == Len(R)
<1>2. n \in Nat /\ m \in Nat /\ m >= 1
  OBVIOUS
<1>3. Len(a) = n + 1 /\ (\A i \in 1..n : a[i] = s[i]) /\ a[n + 1] = R[1]
  OBVIOUS
<1>4. Len(t) = m - 1 /\ \A i \in 1..m - 1 : t[i] = R[i + 1]
  OBVIOUS
<1>5. Len(s \o R) = n + m /\ (\A i \in 1..n : (s \o R)[i] = s[i]) /\ (\A i \in 1..m : (s \o R)[n + i] = R[i])
  OBVIOUS
<1>a. a \in Seq(HopSet) /\ t \in Seq(HopSet)
  BY <1>1
<1> HIDE DEF a, t
<1>6. Len(a \o t) = (n + 1) + (m - 1) /\ (\A i \in 1..n + 1 : (a \o t)[i] = a[i])
      /\ (\A i \in 1..m - 1 : (a \o t)[n + 1 + i] = t[i])
  <2>1. Len(a \o t) = Len(a) + Len(t) /\ (\A i \in 1..Len(a) : (a \o t)[i] = a[i])
        /\ (\A i \in 1..Len(t) : (a \o t)[Len(a) + i] = t[i])
    BY <1>a
  <2>2. Len(a) = n + 1 /\ Len(t) = m - 1
    BY <1>3, <1>4
  <2> QED
    BY <2>1, <2>2, Zenon
<1>7. s \o R \in Seq(HopSet) /\ a \o t \in Seq(HopSet)
  BY <1>a
<1> DEFINE u == s \o R
           v == a \o t
<1> HIDE DEF u, v, n, m
<1>8. \A i \in 1..n + m : u[i] = v[i]
  <2> SUFFICES ASSUME NEW i \in 1..n + m PROVE u[i] = v[i]
    OBVIOUS
  <2>1. CASE i <= n
    BY <2>1, <1>2, <1>3, <1>5, <1>6 DEF u, v
  <2>2. CASE i = n + 1
    <3>1. u[n + 1] = R[1]
      BY <1>2, <1>5 DEF u
    <3>2. v[n + 1] = R[1]
      BY <1>2, <1>3, <1>6 DEF v
    <3> QED
      BY <2>2, <3>1, <3>2
  <2>3. CASE i > n + 1
    <3> DEFINE k == i - (n + 1)
    <3>1. k \in 1..m - 1 /\ n + (k + 1) = i /\ n + 1 + k = i /\ k + 1 \in 1..m
      BY <2>3, <1>2
    <3> HIDE DEF k
    <3>2. u[i] = R[k + 1]
      BY <3>1, <1>5 DEF u
    <3>3. v[i] = t[k] /\ t[k] = R[k + 1]
      BY <3>1, <1>4, <1>6 DEF v
    <3> QED
      BY <3>2, <3>3
  <2> QED
    BY <2>1, <2>2, <2>3, <1>2
<1>9. Len(u) = n + m /\ Len(v) = n + m
  BY <1>2, <1>5, <1>6 DEF u, v
<1>b. u \in Seq(HopSet) /\ v \in Seq(HopSet)
  BY <1>7 DEF u, v
<1>10. u = v
  BY <1>b, <1>8, <1>9, SeqEqual, Zenon
<1> QED
  BY <1>1, <1>10 DEF u, v, a, t

Auths == {<<>>} \cup {Compute(c, q, Server) : c \in {"None", "Right", "Wrong"}, q \in Qops}
RequestOnPath ==
    [method : {"None", "INVITE", "ACK", "BYE", "NOTIFY", "Answered"}, branch : Nat, cseq : Nat,
     uri : HopSet, route : Seq(HopSet), at : HopSet, seen : Seq(HopSet),
     from : {"", "ours"}, to : {"", "refused", "theirs"}, auth : Auths]

\* What a proxy makes of a request, and where it sends it.
Onward(w) ==
    LET mine == w.at
        unstrict == w.uri = mine /\ w.route # <<>>
        uri == IF unstrict THEN Last(w.route) ELSE w.uri
        whole == IF unstrict THEN Front(w.route) ELSE w.route
        rest == IF whole # <<>> /\ Head(whole) = mine THEN Tail(whole) ELSE whole
    IN  IF rest = <<>> THEN uri ELSE Head(rest)
Forwarded(w) ==
    LET mine == w.at
        unstrict == w.uri = mine /\ w.route # <<>>
        uri == IF unstrict THEN Last(w.route) ELSE w.uri
        whole == IF unstrict THEN Front(w.route) ELSE w.route
        rest == IF whole # <<>> /\ Head(whole) = mine THEN Tail(whole) ELSE whole
        next == IF rest = <<>> THEN uri ELSE Head(rest)
        strict == rest # <<>> /\ ~Head(rest).lr
    IN  IF next = mine THEN NoRequest
        ELSE [w EXCEPT !.seen = IF mine = Server THEN @ ELSE Append(@, mine), !.at = next,
                       !.uri = IF strict THEN next ELSE uri,
                       !.route = IF strict THEN Append(Tail(rest), uri) ELSE rest]

OnTheWay(w, p) ==
    /\ WellPath(p) /\ w \in RequestOnPath /\ w.at # Target
    /\ \E R \in Seq(HopSet) : p = w.seen \o R /\ Underway(w, R)
StillOnTheWay(w, v, p) ==
    /\ v \in RequestOnPath /\ v.method = w.method /\ v.cseq = w.cseq /\ v.from = w.from /\ v.to = w.to
    /\ \E Q \in Seq(HopSet) : p = v.seen \o Q /\ Underway(v, Q)
    /\ Onward(w) # w.at

LEMMA ProxyKeepsCourse == \A w, p : OnTheWay(w, p) => StillOnTheWay(w, Forwarded(w), p)
<1> SUFFICES ASSUME NEW w, NEW p, OnTheWay(w, p) PROVE StillOnTheWay(w, Forwarded(w), p)
  BY Zenon
<1>a. WellPath(p) /\ w \in RequestOnPath /\ w.at # Target
  BY DEF OnTheWay
<1>b. PICK R \in Seq(HopSet) : p = w.seen \o R /\ Underway(w, R)
  BY Zenon DEF OnTheWay
<1> SUFFICES ASSUME NEW w2, w2 = Forwarded(w)
             PROVE  /\ w2 \in RequestOnPath /\ w2.method = w.method /\ w2.cseq = w.cseq /\ w2.from = w.from /\ w2.to = w.to
                    /\ \E Q \in Seq(HopSet) : p = w2.seen \o Q /\ Underway(w2, Q)
                    /\ Onward(w) # w.at
  BY Zenon DEF StillOnTheWay
<1> USE <1>a, <1>b
<1> DEFINE mine == w.at
           unstrict == w.uri = mine /\ w.route # <<>>
           uri == IF unstrict THEN Last(w.route) ELSE w.uri
           whole == IF unstrict THEN Front(w.route) ELSE w.route
           rest == IF whole # <<>> /\ Head(whole) = mine THEN Tail(whole) ELSE whole
           next == IF rest = <<>> THEN uri ELSE Head(rest)
           strict == rest # <<>> /\ ~Head(rest).lr
<1>0. /\ Onward(w) = next
      /\ w2 = IF next = mine THEN NoRequest
              ELSE [w EXCEPT !.seen = IF mine = Server THEN @ ELSE Append(@, mine), !.at = next,
                             !.uri = IF strict THEN next ELSE uri,
                             !.route = IF strict THEN Append(Tail(rest), uri) ELSE rest]
  BY Zenon DEF Onward, Forwarded
<1>1. R # <<>> /\ Len(R) \in Nat /\ Len(R) >= 1
  BY DEF Underway
<1>2. WellPath(R) /\ w.seen \in Seq(HopSet)
  BY RestOfPath DEF RequestOnPath
<1> DEFINE h == R[1]
           Q == Tail(R)
<1>3. /\ h \in HopSet /\ h # Server /\ h # Target /\ Q \in Seq(HopSet)
      /\ Q # <<>> => Head(Q) = Q[1] /\ Q[1] \in HopSet /\ Q[1] # h /\ Q[1] # Target /\ Q[1] # Server
      /\ Head(R) = h /\ p = Append(w.seen, h) \o Q /\ Append(w.seen, h) \in Seq(HopSet)
  <2>1. h \in HopSet /\ h # Server /\ h # Target /\ Head(R) = h
    <3>1. 1 \in 1..Len(R)
      BY <1>1
    <3>2. h # Server /\ h # Target
      BY <3>1, <1>2, Zenon DEF WellPath
    <3> QED
      BY <3>1, <3>2, <1>1
  <2>2. Q \in Seq(HopSet) /\ p = Append(w.seen, h) \o Q /\ Append(w.seen, h) \in Seq(HopSet)
    BY <1>1, <1>2, OneFurther
  <2>3. ASSUME Q # <<>>
        PROVE  Head(Q) = Q[1] /\ Q[1] \in HopSet /\ Q[1] # h /\ Q[1] # Target /\ Q[1] # Server
    <3>1. Q[1] = R[2] /\ 2 \in 1..Len(R) /\ 1 \in 1..Len(R)
      BY <2>3, <1>1
    <3>2. Q[1] \in HopSet /\ Head(Q) = Q[1]
      BY <2>2, <2>3
    <3>3. R[2] # R[1] /\ R[2] # Server /\ R[2] # Target
      <4>1. /\ \A i \in 1..Len(R) : R[i] # Server /\ R[i] # Target
            /\ \A i, j \in 1..Len(R) : R[i] = R[j] => i = j
        BY <1>2 DEF WellPath
      <4>2. 2 # 1
        OBVIOUS
      <4> QED
        BY <3>1, <4>1, <4>2, Zenon
    <3> QED
      BY <3>1, <3>2, <3>3
  <2> QED
    BY <2>1, <2>2, <2>3
<1>4. Server # Target /\ Server \in HopSet /\ Target \in HopSet
  BY HopsDiffer
<1> HIDE DEF h, Q
<1>5. CASE w.at = Server /\ h.lr /\ w.uri = Target /\ w.route = R
  <2>1. ~unstrict /\ uri = Target /\ whole = R
    BY <1>4, <1>5
  <2>2. rest = R
    BY <2>1, <1>1, <1>3, <1>5
  <2>3. next = h /\ ~strict
    BY <2>2, <1>1, <1>3, <1>5
  <2>4. next # mine
    BY <2>3, <1>3, <1>5
  <2>5. w2 = [w EXCEPT !.seen = w.seen, !.at = h, !.uri = Target, !.route = R]
    BY <2>1, <2>2, <2>3, <2>4, <1>0, <1>5
  <2>6. /\ w2 \in RequestOnPath /\ w2.method = w.method /\ w2.cseq = w.cseq /\ w2.from = w.from /\ w2.to = w.to
        /\ w2.seen = w.seen /\ w2.at = h /\ w2.uri = Target /\ w2.route = R
    BY <2>5, <1>2, <1>3, <1>4 DEF RequestOnPath
  <2>7. Underway(w2, R)
    BY <2>6, <1>1, <1>5 DEF Underway, h
  <2> QED
    BY <2>4, <2>6, <2>7, <1>0
<1>6. ASSUME w.at = h, rest = Q, uri = Target
      PROVE  /\ w2 \in RequestOnPath /\ w2.method = w.method /\ w2.cseq = w.cseq /\ w2.from = w.from /\ w2.to = w.to
             /\ p = w2.seen \o Q /\ Underway(w2, Q) /\ next # mine
  <2> DEFINE nx == IF Q = <<>> THEN Target ELSE Q[1]
             st == Q # <<>> /\ ~Q[1].lr
             ur == IF st THEN nx ELSE Target
             ro == IF st THEN Append(Tail(Q), Target) ELSE Q
  <2>1. next = nx /\ (strict <=> st) /\ nx # h /\ nx \in HopSet
    BY <1>3, <1>4, <1>6
  <2>2. ur \in HopSet /\ ro \in Seq(HopSet)
    <3>1. CASE st
      <4>1. Tail(Q) \in Seq(HopSet)
        BY <3>1, <1>3
      <4> QED
        BY <4>1, <3>1, <2>1, <1>4
    <3>2. CASE ~st
      BY <3>2, <1>3, <1>4
    <3> QED
      BY <3>1, <3>2
  <2>3. w2 = [w EXCEPT !.seen = Append(w.seen, h), !.at = nx, !.uri = ur, !.route = ro]
    BY <2>1, <1>0, <1>3, <1>6
  <2> HIDE DEF nx, ur, ro
  <2>4. /\ w2 \in RequestOnPath /\ w2.method = w.method /\ w2.cseq = w.cseq /\ w2.from = w.from /\ w2.to = w.to
        /\ w2.seen = Append(w.seen, h) /\ w2.at = nx /\ w2.uri = ur /\ w2.route = ro
    BY <2>1, <2>2, <2>3, <1>3 DEF RequestOnPath
  <2>5. Underway(w2, Q)
    BY <2>4 DEF Underway, nx, ur, ro
  <2> QED
    BY <2>1, <2>4, <2>5, <1>3, <1>6
<1>7. CASE w.at = h /\ h.lr /\ w.uri = Target /\ w.route = R
  <2>1. ~unstrict /\ uri = Target /\ whole = R
    BY <1>3, <1>7
  <2>2. rest = Q
    BY <2>1, <1>1, <1>3, <1>7 DEF Q
  <2> QED
    BY <1>0, <1>3, <1>6, <1>7, <2>1, <2>2
<1>8. CASE w.at = h /\ ~h.lr /\ w.uri = h /\ w.route = Append(Q, Target)
  <2>0. w.route # <<>> /\ Last(w.route) = Target /\ Front(w.route) = Q
    BY <1>3, <1>4, <1>8 DEF Last, Front
  <2>1. unstrict /\ uri = Target /\ whole = Q
    BY <1>8, <2>0
  <2>2. rest = Q
    BY <2>1, <1>3, <1>8
  <2> QED
    BY <1>0, <1>3, <1>6, <1>8, <2>1, <2>2
<1> QED
  BY <1>0, <1>1, <1>5, <1>7, <1>8 DEF Underway, h, Q

-----------------------------------------------------------------------------
CallStages == {"Idle", "Inviting", "Challenged", "Reinviting", "Up", "Down", "Failed"}
Calls == [stage : CallStages, role : {"Uac", "Uas"}, creds : {"None", "Right", "Wrong"}, path : Seq(HopSet),
          sent : 0..MaxRequests]
Dialogs == [local : {"", "ours"}, remote : {"", "theirs"}, target : {Target}, routes : Seq(HopSet), cseq : Nat]
Plans == [branch : Nat, cseq : Nat, auth : Auths]
Peers == [branch : Nat, cseq : Nat, invite : Nat, tag : {"", "refused", "theirs"}, from : {"", "ours"},
          verdict : {"Fine"}]

\* A request inside the dialog is one the far end will take, wherever it is on its
\* way.
Acceptable(w, d, c, f) ==
    /\ w.from = "ours" /\ w.to = "theirs"
    /\ \E R \in Seq(HopSet) : c.path = w.seen \o R /\ Underway(w, R)
    /\ w.method \in {"ACK", "Answered"} => w.cseq = f.invite
    /\ w.method \notin {"ACK", "Answered"} => f.cseq < w.cseq /\ w.cseq < d.cseq

\* The dialog is the one the far end knows.
SameDialog(d, c, f) ==
    /\ d.local = "ours" /\ d.remote = "theirs" /\ d.routes = c.path /\ WellPath(c.path)
    /\ f.from = "ours" /\ f.tag = "theirs" /\ f.cseq < d.cseq

\* Before there is a dialog: the far end's transaction is the last INVITE's.
SameInvite(c, p, f) ==
    c.stage \in {"Inviting", "Challenged", "Reinviting"} =>
        f.branch = p.branch /\ f.invite = p.cseq /\ f.from = "ours"

ReqTypes == /\ dlgCall \in Calls /\ dlg \in Dialogs /\ invitePlan \in Plans
            /\ wire \in RequestOnPath /\ farEnd \in Peers

PathInv ==
    /\ ReqTypes
    /\ dlgCall.stage \in {"Idle", "Inviting", "Challenged", "Reinviting", "Failed"} => dlg = NoDialog
    /\ dlgCall.stage = "Up" => dlg # NoDialog
    /\ dlgCall.stage = "Idle" => wire = NoRequest /\ farEnd.cseq = 0
    /\ dlgCall.stage \in {"Inviting", "Reinviting"} => wire.method = "INVITE"
    /\ SameInvite(dlgCall, invitePlan, farEnd)
    /\ dlg # NoDialog => SameDialog(dlg, dlgCall, farEnd)
    /\ dlg # NoDialog /\ wire.method # "None" => Acceptable(wire, dlg, dlgCall, farEnd)
    /\ dlg = NoDialog /\ wire.method = "ACK" =>
           wire.branch = farEnd.branch /\ wire.cseq = farEnd.invite /\ wire.to = farEnd.tag

LEMMA ReqGood == PathInv => RequestsTypeOK /\ RequestsAccepted
BY DEF PathInv, ReqTypes, Calls, CallStages, RequestOnPath, Peers, RequestsTypeOK, RequestsAccepted

LEMMA NothingSaid ==
    /\ NoRequest \in RequestOnPath /\ NoRequest.method = "None"
    /\ NoDialog \in Dialogs /\ NoDialog.local = ""
<1>1. <<>> \in Auths /\ <<>> \in Seq(HopSet) /\ Target \in HopSet
  BY HopsDiffer DEF Auths
<1> QED
  BY <1>1 DEF NoRequest, RequestOnPath, NoDialog, Dialogs

LEMMA ReqStarts == RequestsInit => PathInv
<1> SUFFICES ASSUME RequestsInit PROVE PathInv
  OBVIOUS
<1>1. <<>> \in Auths /\ <<>> \in Seq(HopSet) /\ 0 \in 0..MaxRequests
  BY RequestsAssumption DEF Auths
<1>2. ReqTypes
  <2>1. dlgCall \in Calls
    BY <1>1 DEF RequestsInit, Calls, CallStages
  <2>2. invitePlan \in Plans
    BY <1>1 DEF RequestsInit, Plans
  <2>3. farEnd \in Peers
    BY DEF RequestsInit, Peers
  <2> QED
    BY <2>1, <2>2, <2>3, NothingSaid DEF RequestsInit, ReqTypes
<1>3. dlgCall.stage = "Idle" /\ dlg = NoDialog /\ wire = NoRequest /\ farEnd.cseq = 0
  BY DEF RequestsInit
<1> QED
  BY <1>2, <1>3, NothingSaid DEF PathInv, SameInvite

LEMMA Blank == <<>> \in Auths /\ Server \in HopSet /\ Target \in HopSet /\ <<>> \in Seq(HopSet)
BY HopsDiffer DEF Auths

LEMMA InvitesOn ==
    ASSUME NEW pl \in Plans, NEW tg \in {"", "refused", "theirs"}
    PROVE  /\ InviteOn(pl) \in RequestOnPath /\ InviteOn(pl).method = "INVITE"
           /\ LET a == [InviteOn(pl) EXCEPT !.method = "ACK", !.to = tg, !.auth = <<>>]
              IN  a \in RequestOnPath /\ a.method = "ACK" /\ a.to = tg /\ a.branch = pl.branch /\ a.cseq = pl.cseq
<1>2. pl.branch \in Nat /\ pl.cseq \in Nat /\ pl.auth \in Auths
  BY DEF Plans
<1> DEFINE bb == pl.branch
           nn == pl.cseq
           aa == pl.auth
           inv == [NoRequest EXCEPT !.method = "INVITE", !.branch = bb, !.cseq = nn,
                                 !.from = "ours", !.at = Server, !.uri = Server, !.auth = aa]
<1>3. InviteOn(pl) = inv
  BY DEF InviteOn
<1>a. bb \in Nat /\ nn \in Nat /\ aa \in Auths
  BY <1>2
<1> HIDE DEF bb, nn, aa
<1>4. inv \in RequestOnPath /\ inv.method = "INVITE" /\ inv.branch = bb /\ inv.cseq = nn
  BY <1>a, NothingSaid, Blank DEF RequestOnPath
<1> HIDE DEF inv
<1> DEFINE ak == [inv EXCEPT !.method = "ACK", !.to = tg, !.auth = <<>>]
<1>5. ak \in RequestOnPath /\ ak.method = "ACK" /\ ak.to = tg /\ ak.branch = bb /\ ak.cseq = nn
  BY <1>4, Blank DEF RequestOnPath
<1> QED
  BY <1>3, <1>4, <1>5 DEF bb, nn

LEMMA ReqBuilds ==
    ASSUME PathInv, NEW c \in {"None", "Right", "Wrong"}, BuildInvite(c)
    PROVE  PathInv'
<1> DEFINE p == [branch |-> 1, cseq |-> 1, auth |-> <<>>]
<1>1. p \in Plans /\ p.branch = 1 /\ p.cseq = 1
  <2>1. <<>> \in Auths
    BY DEF Auths
  <2> QED
    BY <2>1 DEF Plans
<1>2. invitePlan' = p /\ wire' = InviteOn(p) /\ dlg' = dlg /\ dlg = NoDialog
  BY DEF BuildInvite, PathInv
<1> HIDE DEF p
<1>3. wire' \in RequestOnPath /\ wire'.method = "INVITE"
  BY <1>1, <1>2, InvitesOn
<1>4. dlgCall' \in Calls /\ dlgCall'.stage = "Inviting"
  BY DEF BuildInvite, PathInv, ReqTypes, Calls, CallStages
<1>5. farEnd' \in Peers /\ farEnd'.branch = 1 /\ farEnd'.invite = 1 /\ farEnd'.from = "ours"
  BY DEF BuildInvite, PathInv, ReqTypes, Peers
<1>6. ReqTypes'
  BY <1>1, <1>2, <1>3, <1>4, <1>5 DEF PathInv, ReqTypes
<1> QED
  BY <1>1, <1>2, <1>3, <1>4, <1>5, <1>6 DEF PathInv, SameInvite

LEMMA ReqRefused ==
    ASSUME PathInv, NEW c \in BOOLEAN, NEW r \in BOOLEAN, NgnRefuses(c, r)
    PROVE  PathInv'
<1>1. wire' \in RequestOnPath /\ wire'.method = "ACK" /\ wire'.to = "refused"
      /\ wire'.branch = invitePlan.branch /\ wire'.cseq = invitePlan.cseq
  <2>1. wire' = [InviteOn(invitePlan) EXCEPT !.method = "ACK", !.to = "refused", !.auth = <<>>]
    BY DEF NgnRefuses, Non2xxAck
  <2>2. invitePlan \in Plans
    BY DEF PathInv, ReqTypes
  <2> QED
    BY <2>1, <2>2, InvitesOn, Zenon
<1>2. dlg = NoDialog /\ dlg' = dlg /\ invitePlan' = invitePlan
  BY DEF NgnRefuses, PathInv
<1>3. dlgCall' \in Calls /\ dlgCall'.stage \in {"Challenged", "Failed"}
  <2> DEFINE st == IF c /\ r /\ dlgCall.creds # "None" /\ dlgCall.stage = "Inviting" THEN "Challenged" ELSE "Failed"
  <2>1. dlgCall' = [dlgCall EXCEPT !.stage = st]
    BY DEF NgnRefuses
  <2>2. st \in {"Challenged", "Failed"}
    OBVIOUS
  <2> HIDE DEF st
  <2> QED
    BY <2>1, <2>2 DEF PathInv, ReqTypes, Calls, CallStages
<1>4. farEnd' \in Peers /\ farEnd'.branch = farEnd.branch /\ farEnd'.invite = farEnd.invite
      /\ farEnd'.from = farEnd.from /\ farEnd'.tag = "refused"
  BY DEF NgnRefuses, PathInv, ReqTypes, Peers
<1>5. farEnd.branch = invitePlan.branch /\ farEnd.invite = invitePlan.cseq /\ farEnd.from = "ours"
  BY DEF NgnRefuses, PathInv, SameInvite
<1>6. ReqTypes'
  BY <1>1, <1>2, <1>3, <1>4 DEF PathInv, ReqTypes
<1> QED
  BY <1>1, <1>2, <1>3, <1>4, <1>5, <1>6 DEF PathInv, SameInvite

LEMMA RightIsRight ==
    ASSUME NEW q \in Qops
    PROVE  Verify(Compute("Right", q, Server), Server)
<1>1. CASE q = "auth"
  BY <1>1 DEF Compute, Verify
<1>2. CASE q # "auth"
  BY <1>2 DEF Compute, Verify
<1> QED
  BY <1>1, <1>2

LEMMA ReqRetried ==
    ASSUME PathInv, NEW q \in Qops, RetryWithAuth(q)
    PROVE  PathInv'
<1> DEFINE au == Compute(dlgCall.creds, q, Server)
           p == [branch |-> invitePlan.branch + 1, cseq |-> invitePlan.cseq + 1, auth |-> au]
<1>1. au \in Auths
  BY DEF PathInv, ReqTypes, Calls, Auths
<1>2. dlgCall.creds = "Right" => Verify(au, Server)
  BY RightIsRight
<1>3. /\ invitePlan' = p /\ wire' = InviteOn(p) /\ dlg' = dlg /\ dlg = NoDialog /\ p.auth = au
      /\ farEnd' = [farEnd EXCEPT !.branch = p.branch, !.invite = p.cseq, !.tag = "",
                                  !.verdict = IF dlgCall.creds = "Right" /\ ~Verify(p.auth, Server)
                                              THEN "Unauthorized" ELSE @]
  BY DEF RetryWithAuth, PathInv
<1> HIDE DEF au
<1>4. p \in Plans
  BY <1>1 DEF Plans, PathInv, ReqTypes
<1> HIDE DEF p
<1>5. wire' \in RequestOnPath /\ wire'.method = "INVITE"
  BY <1>3, <1>4, InvitesOn
<1>6. dlgCall' \in Calls /\ dlgCall'.stage = "Reinviting"
  BY DEF RetryWithAuth, PathInv, ReqTypes, Calls, CallStages
<1>7. farEnd' = [farEnd EXCEPT !.branch = p.branch, !.invite = p.cseq, !.tag = ""]
  BY <1>2, <1>3
<1>8. farEnd' \in Peers /\ farEnd'.branch = p.branch /\ farEnd'.invite = p.cseq /\ farEnd'.from = "ours"
  <2>1. farEnd.from = "ours" /\ farEnd \in Peers
    BY DEF PathInv, ReqTypes, SameInvite, RetryWithAuth
  <2>2. p.branch \in Nat /\ p.cseq \in Nat
    BY <1>4 DEF Plans
  <2> QED
    BY <1>7, <2>1, <2>2 DEF Peers
<1>9. ReqTypes'
  BY <1>3, <1>4, <1>5, <1>6, <1>8 DEF PathInv, ReqTypes
<1> QED
  BY <1>3, <1>5, <1>6, <1>8, <1>9 DEF PathInv, SameInvite

LEMMA RequestOf ==
    ASSUME NEW m \in {"None", "INVITE", "ACK", "BYE", "NOTIFY", "Answered"}, NEW b \in Nat, NEW k \in Nat,
           NEW u \in HopSet, NEW r \in Seq(HopSet), NEW at \in HopSet, NEW s \in Seq(HopSet),
           NEW fr \in {"", "ours"}, NEW to \in {"", "refused", "theirs"}, NEW au \in Auths
    PROVE  [method |-> m, branch |-> b, cseq |-> k, uri |-> u, route |-> r, at |-> at, seen |-> s,
            from |-> fr, to |-> to, auth |-> au] \in RequestOnPath
BY DEF RequestOnPath

LEMMA FirstAndRest ==
    \A r \in Seq(HopSet), h \in HopSet :
        r # <<>> => Head(r) \in HopSet /\ Append(Tail(r), h) \in Seq(HopSet)
OBVIOUS

LEMMA SetOutTyped ==
    ASSUME NEW d \in Dialogs, WellPath(d.routes),
           NEW m \in {"INVITE", "ACK", "BYE", "NOTIFY"}, NEW k \in Nat, NEW b \in Nat
    PROVE  InDialogRequest(d, m, k, b) \in RequestOnPath
<1> DEFINE rs == d.routes
           lo == d.local
           re == d.remote
           ur == UriAndRoute(d).uri
           ro == UriAndRoute(d).route
           nx == NextHop(d)
<1>1. d.target = Target /\ rs \in Seq(HopSet) /\ lo \in {"", "ours"} /\ re \in {"", "theirs"}
  BY DEF Dialogs
<1>2. /\ ur = IF rs = <<>> \/ Head(rs).lr THEN Target ELSE Head(rs)
      /\ ro = IF rs = <<>> \/ Head(rs).lr THEN rs ELSE Append(Tail(rs), Target)
      /\ nx = LET first == IF rs = <<>> THEN Target ELSE Head(rs) IN IF first.ip THEN first ELSE Server
  BY <1>1 DEF UriAndRoute, NextHop
<1>3. InDialogRequest(d, m, k, b) =
        [method |-> m, branch |-> b, cseq |-> k, uri |-> ur, route |-> ro, at |-> nx, seen |-> <<>>,
         from |-> lo, to |-> re, auth |-> <<>>]
  BY DEF InDialogRequest
<1> HIDE DEF rs, lo, re, ur, ro, nx
<1>4. ur \in HopSet /\ ro \in Seq(HopSet) /\ nx \in HopSet
  <2>1. rs # <<>> => Head(rs) \in HopSet /\ Append(Tail(rs), Target) \in Seq(HopSet)
    BY <1>1, Blank, FirstAndRest, Zenon
  <2> QED
    BY <2>1, <1>1, <1>2, Blank, Zenon
<1>5. m \in {"None", "INVITE", "ACK", "BYE", "NOTIFY", "Answered"} /\ lo \in {"", "ours"}
      /\ re \in {"", "refused", "theirs"}
  BY <1>1
<1> DEFINE em == <<>>
<1>6. em \in Seq(HopSet) /\ em \in Auths
  BY Blank
<1> HIDE DEF em
<1>7. [method |-> m, branch |-> b, cseq |-> k, uri |-> ur, route |-> ro, at |-> nx, seen |-> em,
         from |-> lo, to |-> re, auth |-> em] \in RequestOnPath
  BY <1>4, <1>5, <1>6 DEF RequestOnPath
<1> QED
  BY <1>3, <1>7, Zenon DEF em

\* A request that sets out in the dialog both ends know is one the far end will take.
LEMMA SetOutTaken ==
    ASSUME NEW d \in Dialogs, NEW c, NEW f, SameDialog(d, c, f),
           NEW m \in {"INVITE", "ACK", "BYE", "NOTIFY"}, NEW k \in Nat, NEW b \in Nat,
           NEW e, IF m = "ACK" THEN k = f.invite ELSE f.cseq < k /\ k < e.cseq
    PROVE  LET w == InDialogRequest(d, m, k, b)
           IN  w \in RequestOnPath /\ w.method = m /\ Acceptable(w, e, c, f)
<1> DEFINE w == InDialogRequest(d, m, k, b)
<1>1. d.routes = c.path /\ WellPath(c.path) /\ d.local = "ours" /\ d.remote = "theirs"
  BY DEF SameDialog
<1>2. w \in RequestOnPath
  BY <1>1, SetOutTyped
<1>3. d.target = Target
  BY DEF Dialogs
<1>4. w.seen = <<>> /\ w.from = d.local /\ w.to = d.remote /\ w.method = m /\ w.cseq = k /\ Underway(w, c.path)
  BY <1>1, <1>3, SetsOut, Zenon
<1> HIDE DEF w
<1>5. c.path \in Seq(HopSet) /\ c.path = w.seen \o c.path
  BY <1>1, <1>4 DEF WellPath
<1>6. \E R \in Seq(HopSet) : c.path = w.seen \o R /\ Underway(w, R)
  BY <1>4, <1>5, Zenon
<1>7. m # "Answered" /\ (w.method \in {"ACK", "Answered"} <=> m = "ACK")
  BY <1>4
<1>8. Acceptable(w, e, c, f)
  BY <1>1, <1>4, <1>6, <1>7 DEF Acceptable
<1> QED
  BY <1>2, <1>4, <1>8 DEF w

LEMMA ReqAccepted ==
    ASSUME PathInv, NEW p \in Paths, NEW l \in Lines(Reverse(p)), NEW ok \in BOOLEAN, NgnAccepts(p, l, ok)
    PROVE  PathInv'
<1>1. /\ dlg = NoDialog /\ wire.method = "INVITE" /\ invitePlan' = invitePlan
      /\ farEnd.invite = invitePlan.cseq /\ farEnd.from = "ours"
      /\ invitePlan.cseq \in Nat /\ invitePlan.branch \in Nat
  <2>1. dlgCall.stage \in {"Inviting", "Reinviting"} /\ invitePlan' = invitePlan
    BY DEF NgnAccepts
  <2>2. invitePlan.cseq \in Nat /\ invitePlan.branch \in Nat
    BY DEF PathInv, ReqTypes, Plans
  <2> QED
    BY <2>1, <2>2 DEF PathInv, SameInvite
<1>2. /\ farEnd' \in Peers /\ farEnd'.from = "ours" /\ farEnd'.tag = "theirs"
      /\ farEnd'.cseq = invitePlan.cseq /\ farEnd'.invite = invitePlan.cseq
  <2>1. farEnd' = [farEnd EXCEPT !.tag = "theirs", !.cseq = invitePlan.cseq]
    BY DEF NgnAccepts
  <2> QED
    BY <2>1, <1>1 DEF PathInv, ReqTypes, Peers
<1>3. CASE ~ok
  <2>1. dlg' = dlg /\ wire' = wire
    BY <1>3 DEF NgnAccepts
  <2>2. dlgCall' \in Calls /\ dlgCall'.stage = "Failed"
    BY <1>3 DEF NgnAccepts, PathInv, ReqTypes, Calls, CallStages
  <2>3. ReqTypes'
    BY <2>1, <2>2, <1>1, <1>2 DEF PathInv, ReqTypes
  <2> QED
    BY <2>1, <2>2, <2>3, <1>1 DEF PathInv, SameInvite
<1>4. CASE ok
  <2> DEFINE d == [local |-> "ours", remote |-> "theirs", target |-> Target, routes |-> UacRoute(l),
                   cseq |-> invitePlan.cseq + 1]
  <2>1. UacRoute(l) = p /\ WellPath(p) /\ p \in Seq(HopSet)
    BY RouteIsPath, PathsWell DEF WellPath
  <2>2. dlg' = d /\ wire' = InDialogRequest(d, "ACK", invitePlan.cseq, invitePlan.branch + 1)
    BY <1>4 DEF NgnAccepts
  <2>3. d \in Dialogs /\ d.local = "ours" /\ d.remote = "theirs" /\ d.routes = p /\ d.cseq = invitePlan.cseq + 1
    BY <2>1, <1>1 DEF Dialogs
  <2> HIDE DEF d
  <2>4. dlgCall' \in Calls /\ dlgCall'.stage = "Up" /\ dlgCall'.path = p
    BY <1>4, <2>1 DEF NgnAccepts, PathInv, ReqTypes, Calls, CallStages
  <2>5. SameDialog(d, dlgCall', farEnd')
    BY <2>1, <2>3, <2>4, <1>1, <1>2 DEF SameDialog
  <2>6. invitePlan.branch + 1 \in Nat
    BY <1>1
  <2>7. wire' \in RequestOnPath /\ wire'.method = "ACK" /\ Acceptable(wire', d, dlgCall', farEnd')
    BY <2>2, <2>3, <2>5, <2>6, <1>1, <1>2, SetOutTaken
  <2>8. d # NoDialog
    BY <2>3, NothingSaid
  <2>9. ReqTypes'
    BY <2>2, <2>3, <2>4, <2>7, <1>1, <1>2 DEF PathInv, ReqTypes
  <2> QED
    BY <2>2, <2>4, <2>5, <2>7, <2>8, <2>9 DEF PathInv, SameInvite
<1> QED
  BY <1>3, <1>4

LEMMA ReqExtInvites ==
    ASSUME PathInv, NEW p \in Paths, NEW l \in Lines(p), ExtInvites(p, l)
    PROVE  PathInv'
<1> DEFINE d == [local |-> "ours", remote |-> "theirs", target |-> Target, routes |-> UasRoute(l), cseq |-> 1]
<1>1. UasRoute(l) = p /\ WellPath(p) /\ p \in Seq(HopSet)
  BY RouteIsPath, PathsWell DEF WellPath
<1>2. dlg' = d /\ wire' = wire /\ wire = NoRequest /\ invitePlan' = invitePlan /\ farEnd.cseq = 0
  BY DEF ExtInvites, PathInv
<1>3. d \in Dialogs /\ d.local = "ours" /\ d.remote = "theirs" /\ d.routes = p /\ d.cseq = 1
  BY <1>1 DEF Dialogs
<1> HIDE DEF d
<1>4. dlgCall' \in Calls /\ dlgCall'.stage = "Up" /\ dlgCall'.path = p
  BY <1>1 DEF ExtInvites, PathInv, ReqTypes, Calls, CallStages
<1>5. farEnd' \in Peers /\ farEnd'.from = "ours" /\ farEnd'.tag = "theirs" /\ farEnd'.cseq = 0
  BY <1>2 DEF ExtInvites, PathInv, ReqTypes, Peers
<1>6. SameDialog(d, dlgCall', farEnd')
  BY <1>1, <1>3, <1>4, <1>5 DEF SameDialog
<1>7. d # NoDialog
  BY <1>3, NothingSaid
<1>8. ReqTypes'
  BY <1>2, <1>3, <1>4, <1>5 DEF PathInv, ReqTypes
<1> QED
  BY <1>2, <1>4, <1>6, <1>7, <1>8, NothingSaid DEF PathInv, SameInvite

LEMMA ReqSends ==
    ASSUME PathInv, NEW m \in {"BYE", "INVITE", "NOTIFY"}, SendInDialog(m)
    PROVE  PathInv'
<1>1. dlg # NoDialog /\ SameDialog(dlg, dlgCall, farEnd) /\ dlg \in Dialogs /\ dlg.cseq \in Nat
  <2>1. dlg # NoDialog /\ dlg \in Dialogs
    BY DEF SendInDialog, PathInv, ReqTypes
  <2> QED
    BY <2>1 DEF PathInv, Dialogs
<1>2. farEnd' = farEnd /\ invitePlan' = invitePlan
  BY DEF SendInDialog
<1>3. dlgCall' \in Calls /\ dlgCall'.path = dlgCall.path /\ dlgCall'.stage \in {"Up", "Down"}
  <2> DEFINE st == IF m = "BYE" THEN "Down" ELSE dlgCall.stage
             n == dlgCall.sent + 1
  <2>1. dlgCall' = [dlgCall EXCEPT !.sent = n, !.stage = st]
    BY DEF SendInDialog
  <2>2. st \in {"Up", "Down"}
    BY DEF SendInDialog
  <2>3. n \in 0..MaxRequests
    BY RequestsAssumption DEF SendInDialog, PathInv, ReqTypes, Calls
  <2> HIDE DEF st, n
  <2> QED
    BY <2>1, <2>2, <2>3 DEF PathInv, ReqTypes, Calls, CallStages
<1>4. /\ dlg' \in Dialogs /\ dlg'.cseq = dlg.cseq + 1 /\ dlg'.local = dlg.local /\ dlg'.remote = dlg.remote
      /\ dlg'.routes = dlg.routes
  <2> DEFINE n == dlg.cseq + 1
  <2>1. dlg' = [dlg EXCEPT !.cseq = n]
    BY DEF SendInDialog
  <2>2. n \in Nat /\ dlg \in Dialogs
    BY <1>1
  <2> HIDE DEF n
  <2>3. /\ dlg' \in Dialogs /\ dlg'.cseq = n /\ dlg'.local = dlg.local /\ dlg'.remote = dlg.remote
        /\ dlg'.routes = dlg.routes
    BY <2>1, <2>2 DEF Dialogs
  <2> QED
    BY <2>3 DEF n
<1>5. SameDialog(dlg', dlgCall', farEnd') /\ SameDialog(dlg, dlgCall', farEnd')
  <2>1. farEnd.cseq \in Nat
    BY DEF PathInv, ReqTypes, Peers
  <2> QED
    BY <1>1, <1>2, <1>3, <1>4, <2>1 DEF SameDialog
<1>6. wire' \in RequestOnPath /\ wire'.method = m /\ Acceptable(wire', dlg', dlgCall', farEnd')
  <2>1. wire' = InDialogRequest(dlg, m, dlg.cseq, 20 + dlgCall.sent)
    BY DEF SendInDialog
  <2>2. 20 + dlgCall.sent \in Nat
    BY RequestsAssumption DEF PathInv, ReqTypes, Calls
  <2>3. m # "ACK" /\ m \in {"INVITE", "ACK", "BYE", "NOTIFY"}
    OBVIOUS
  <2>4. farEnd'.cseq < dlg.cseq /\ dlg.cseq < dlg'.cseq
    BY <1>1, <1>2, <1>4 DEF SameDialog
  <2> QED
    BY <2>1, <2>2, <2>3, <2>4, <1>1, <1>5, SetOutTaken
<1>7. dlg' # NoDialog
  BY <1>5, NothingSaid DEF SameDialog
<1>8. ReqTypes'
  BY <1>2, <1>3, <1>4, <1>6 DEF PathInv, ReqTypes
<1> QED
  BY <1>3, <1>5, <1>6, <1>7, <1>8 DEF PathInv, SameInvite

LEMMA ReqAcks ==
    ASSUME PathInv, AckReinvite
    PROVE  PathInv'
<1>1. dlg # NoDialog /\ dlg \in Dialogs /\ wire \in RequestOnPath /\ dlgCall \in Calls /\ wire.method = "Answered"
  BY DEF AckReinvite, PathInv, ReqTypes
<1>2. SameDialog(dlg, dlgCall, farEnd) /\ Acceptable(wire, dlg, dlgCall, farEnd)
  BY <1>1 DEF PathInv
<1>a. wire.cseq = farEnd.invite
  BY <1>1, <1>2, Zenon DEF Acceptable
<1>3. wire.cseq = farEnd.invite /\ wire.cseq \in Nat /\ 30 + dlgCall.sent \in Nat
  <2>1. dlgCall.sent \in 0..MaxRequests
    BY <1>1 DEF Calls
  <2>2. wire.cseq \in Nat
    BY <1>1 DEF RequestOnPath
  <2> QED
    BY <1>a, <2>1, <2>2, RequestsAssumption
<1>4. wire' \in RequestOnPath /\ wire'.method = "ACK" /\ Acceptable(wire', dlg, dlgCall, farEnd)
  <2>1. wire' = InDialogRequest(dlg, "ACK", wire.cseq, 30 + dlgCall.sent)
    BY DEF AckReinvite
  <2> QED
    BY <2>1, <1>1, <1>2, <1>3, SetOutTaken
<1>5. dlg' = dlg /\ dlgCall' = dlgCall /\ farEnd' = farEnd /\ invitePlan' = invitePlan /\ dlgCall.stage = "Up"
  BY DEF AckReinvite
<1>6. ReqTypes'
  BY <1>4, <1>5 DEF PathInv, ReqTypes
<1> QED
  BY <1>1, <1>2, <1>4, <1>5, <1>6 DEF PathInv, SameInvite

LEMMA ReqForwarded ==
    ASSUME PathInv, ProxyForwards
    PROVE  PathInv'
<1>1. /\ dlg # NoDialog /\ wire.method # "None" /\ wire.at # Target /\ wire \in RequestOnPath
      /\ dlg' = dlg /\ dlgCall' = dlgCall /\ invitePlan' = invitePlan
  BY DEF ProxyForwards, PathInv, ReqTypes
<1>2. SameDialog(dlg, dlgCall, farEnd) /\ Acceptable(wire, dlg, dlgCall, farEnd)
  BY <1>1 DEF PathInv
<1>3. PICK R \in Seq(HopSet) : dlgCall.path = wire.seen \o R /\ Underway(wire, R)
  BY <1>2 DEF Acceptable
<1>4. WellPath(dlgCall.path)
  BY <1>2 DEF SameDialog
<1>a. wire' = Forwarded(wire)
  BY Zenon DEF ProxyForwards, Forwarded
<1>b. farEnd' = [farEnd EXCEPT !.verdict = IF Onward(wire) = wire.at THEN "Refused" ELSE @]
  BY Zenon DEF ProxyForwards, Onward
<1>5. /\ wire' \in RequestOnPath /\ wire'.method = wire.method /\ wire'.cseq = wire.cseq
      /\ wire'.from = wire.from /\ wire'.to = wire.to
      /\ \E Q \in Seq(HopSet) : dlgCall.path = wire'.seen \o Q /\ Underway(wire', Q)
      /\ Onward(wire) # wire.at
  <2>1. OnTheWay(wire, dlgCall.path)
    BY <1>1, <1>3, <1>4, Zenon DEF OnTheWay
  <2>2. StillOnTheWay(wire, Forwarded(wire), dlgCall.path)
    BY <2>1, ProxyKeepsCourse, Zenon
  <2> QED
    BY <2>2, <1>a, Zenon DEF StillOnTheWay
<1>6. farEnd' = farEnd
  BY <1>b, <1>5 DEF PathInv, ReqTypes, Peers
<1>7. Acceptable(wire', dlg, dlgCall, farEnd)
  BY <1>2, <1>5 DEF Acceptable
<1>8. ReqTypes'
  BY <1>1, <1>5, <1>6 DEF PathInv, ReqTypes
<1> QED
  BY <1>1, <1>2, <1>5, <1>6, <1>7, <1>8 DEF PathInv, SameInvite

LEMMA ReqTaken ==
    ASSUME PathInv, TakesInDialog
    PROVE  PathInv'
<1>1. /\ dlg # NoDialog /\ wire.method \notin {"None", "Answered"} /\ wire.at = Target /\ wire \in RequestOnPath
      /\ dlg' = dlg /\ dlgCall' = dlgCall /\ invitePlan' = invitePlan /\ farEnd \in Peers /\ dlg \in Dialogs
  BY DEF TakesInDialog, PathInv, ReqTypes
<1>2. SameDialog(dlg, dlgCall, farEnd) /\ Acceptable(wire, dlg, dlgCall, farEnd)
  BY <1>1 DEF PathInv
<1>3. PICK R \in Seq(HopSet) : dlgCall.path = wire.seen \o R /\ Underway(wire, R)
  BY <1>2 DEF Acceptable
<1>4. WellPath(dlgCall.path) /\ wire.seen \in Seq(HopSet)
  BY <1>1, <1>2 DEF SameDialog, RequestOnPath
<1>5. WellPath(R)
  BY <1>3, <1>4, RestOfPath
<1>6. R = <<>>
  <2> SUFFICES ASSUME R # <<>> PROVE FALSE
    OBVIOUS
  <2>1. 1 \in 1..Len(R)
    OBVIOUS
  <2>2. R[1] # Target
    BY <1>5, <2>1, Zenon DEF WellPath
  <2> QED
    BY <2>2, <1>1, <1>3, HopsDiffer, Zenon DEF Underway
<1>7. Followed
  <2>1. wire.uri = Target /\ wire.route = <<>>
    BY <1>3, <1>6 DEF Underway
  <2>2. wire.seen = dlgCall.path
    BY <1>3, <1>4, <1>6
  <2> QED
    BY <2>1, <2>2 DEF Followed
<1>8. /\ wire.from = farEnd.from /\ wire.to = farEnd.tag
      /\ wire.method = "ACK" => wire.cseq = farEnd.invite
      /\ wire.method # "ACK" => farEnd.cseq < wire.cseq /\ wire.cseq < dlg.cseq
  <2>1. wire.from = "ours" /\ wire.to = "theirs" /\ farEnd.from = "ours" /\ farEnd.tag = "theirs"
    BY <1>2, Zenon DEF Acceptable, SameDialog
  <2>2. wire.method \in {"ACK", "Answered"} <=> wire.method = "ACK"
    BY <1>1
  <2> QED
    BY <1>2, <2>1, <2>2, Zenon DEF Acceptable
<1> DEFINE cs == IF wire.method = "ACK" THEN farEnd.cseq ELSE wire.cseq
           iv == IF wire.method = "INVITE" THEN wire.cseq ELSE farEnd.invite
<1>9. wire.cseq \in Nat /\ farEnd.cseq \in Nat /\ farEnd.invite \in Nat /\ dlg.cseq \in Nat /\ farEnd.verdict = "Fine"
  BY <1>1 DEF RequestOnPath, Peers, Dialogs
<1>10. farEnd' = [farEnd EXCEPT !.verdict = "Fine", !.cseq = cs, !.invite = iv]
  <2> DEFINE ok == /\ Followed /\ wire.from = farEnd.from /\ wire.to = farEnd.tag
                   /\ IF wire.method = "ACK" THEN wire.cseq = farEnd.invite ELSE wire.cseq > farEnd.cseq
  <2>1. ok
    BY <1>7, <1>8, <1>9
  <2>2. farEnd' = [farEnd EXCEPT !.verdict = IF ok THEN @ ELSE "Refused",
                                 !.cseq = IF wire.method = "ACK" THEN @ ELSE wire.cseq,
                                 !.invite = IF wire.method = "INVITE" THEN wire.cseq ELSE @]
    BY DEF TakesInDialog
  <2> HIDE DEF ok
  <2> QED
    BY <2>1, <2>2, <1>9
<1>11. cs \in Nat /\ iv \in Nat /\ cs < dlg.cseq
  BY <1>2, <1>8, <1>9 DEF SameDialog
<1>a. wire.method = "INVITE" => iv = wire.cseq
  OBVIOUS
<1> HIDE DEF cs, iv
<1>12. /\ farEnd' \in Peers /\ farEnd'.cseq = cs /\ farEnd'.invite = iv /\ farEnd'.from = farEnd.from
       /\ farEnd'.tag = farEnd.tag
  BY <1>1, <1>10, <1>11 DEF Peers
<1>13. SameDialog(dlg, dlgCall, farEnd')
  BY <1>2, <1>11, <1>12 DEF SameDialog
<1>14. CASE wire.method = "INVITE"
  <2>1. wire' = [wire EXCEPT !.method = "Answered"]
    BY <1>14 DEF TakesInDialog
  <2>2. /\ wire' \in RequestOnPath /\ wire'.method = "Answered" /\ wire'.cseq = wire.cseq /\ wire'.seen = wire.seen
        /\ wire'.from = wire.from /\ wire'.to = wire.to /\ wire'.at = wire.at /\ wire'.uri = wire.uri
        /\ wire'.route = wire.route
    BY <2>1, <1>1 DEF RequestOnPath
  <2>3. Underway(wire', R)
    BY <2>2, <1>3, Zenon DEF Underway
  <2>4. \E S \in Seq(HopSet) : dlgCall.path = wire'.seen \o S /\ Underway(wire', S)
    BY <2>2, <2>3, <1>3, Zenon
  <2>5. wire'.from = "ours" /\ wire'.to = "theirs" /\ wire'.cseq = farEnd'.invite
    BY <1>2, <1>12, <1>14, <1>a, <2>2, Zenon DEF Acceptable
  <2>6. Acceptable(wire', dlg, dlgCall, farEnd')
    BY <2>2, <2>4, <2>5, Zenon DEF Acceptable
  <2>7. ReqTypes'
    BY <2>2, <1>1, <1>12 DEF PathInv, ReqTypes
  <2>8. dlgCall.stage \in {"Up", "Down"}
    BY <1>1 DEF PathInv, ReqTypes, Calls, CallStages
  <2> QED
    BY <2>2, <2>6, <2>7, <2>8, <1>1, <1>13 DEF PathInv, SameInvite
<1>15. CASE wire.method # "INVITE"
  <2>1. wire' = NoRequest
    BY <1>15 DEF TakesInDialog
  <2>2. ReqTypes'
    BY <2>1, <1>1, <1>12, NothingSaid DEF PathInv, ReqTypes
  <2>3. dlgCall.stage \in {"Up", "Down"}
    BY <1>1 DEF PathInv, ReqTypes, Calls, CallStages
  <2> QED
    BY <2>1, <2>2, <2>3, <1>1, <1>13, NothingSaid DEF PathInv, SameInvite
<1> QED
  BY <1>14, <1>15

LEMMA ReqNon2xx ==
    ASSUME PathInv, TakesNon2xxAck
    PROVE  PathInv'
<1>1. /\ dlg = NoDialog /\ wire.method = "ACK" /\ wire' = NoRequest
      /\ dlg' = dlg /\ dlgCall' = dlgCall /\ invitePlan' = invitePlan
  BY DEF TakesNon2xxAck
<1>2. farEnd' = farEnd
  BY <1>1 DEF TakesNon2xxAck, PathInv, ReqTypes, Peers
<1>3. ReqTypes'
  BY <1>1, <1>2, NothingSaid DEF PathInv, ReqTypes
<1>4. dlgCall.stage \notin {"Idle", "Inviting", "Reinviting"}
  BY <1>1, NothingSaid DEF PathInv
<1> QED
  BY <1>1, <1>2, <1>3, <1>4, NothingSaid DEF PathInv, SameInvite

LEMMA ReqResponds ==
    ASSUME PathInv, NEW v \in Via, RespondVia(v)
    PROVE  PathInv'
<1>1. /\ dlg = NoDialog /\ wire = NoRequest /\ wire' = wire /\ dlg' = dlg
      /\ invitePlan' = invitePlan /\ farEnd' = farEnd
  BY DEF RespondVia, PathInv
<1>2. dlgCall' \in Calls /\ dlgCall'.stage = "Down"
  BY DEF RespondVia, PathInv, ReqTypes, Calls, CallStages
<1>3. ReqTypes'
  BY <1>1, <1>2 DEF PathInv, ReqTypes
<1> QED
  BY <1>1, <1>2, <1>3, NothingSaid DEF PathInv, SameInvite

LEMMA ReqKept ==
    ASSUME PathInv, [RequestsNext]_dlgVars
    PROVE  PathInv'
<1>1. CASE UNCHANGED dlgVars
  BY <1>1 DEF dlgVars, PathInv, ReqTypes, SameInvite
<1>2. CASE RequestsNext
  BY <1>2, ReqBuilds, ReqRefused, ReqRetried, ReqAccepted, ReqExtInvites, ReqSends, ReqAcks, ReqForwarded,
     ReqTaken, ReqNon2xx, ReqResponds, Zenon DEF RequestsNext
<1> QED
  BY <1>1, <1>2

LEMMA ViaStarts == RequestsInit => ViaLeadsBack
<1> SUFFICES ASSUME RequestsInit PROVE ViaLeadsBack
  OBVIOUS
<1>1. arrived = [host |-> "src", rport |-> "None", received |-> "None"]
  BY DEF RequestsInit
<1>2. arrived.host = "src" /\ arrived.rport = "None"
  BY <1>1
<1> QED
  BY <1>2 DEF ViaLeadsBack

LEMMA ViaKept ==
    ASSUME ViaLeadsBack, [RequestsNext]_dlgVars
    PROVE  ViaLeadsBack'
<1>1. ASSUME NEW v \in Via, arrived' = Stamped(v) PROVE ViaLeadsBack'
  <2>1. v.host \in {"src", "nat", "name"} /\ v.rport \in {"None", "Empty", "Wrong"} /\ v.received = "None"
    BY DEF Via
  <2>2. /\ arrived'.host = v.host
        /\ arrived'.received = IF v.rport # "None" \/ v.host # "src" THEN "src" ELSE v.received
        /\ arrived'.rport = IF v.rport = "None" THEN v.rport ELSE "One"
    BY <1>1 DEF Stamped, Via
  <2> QED
    BY <2>1, <2>2 DEF ViaLeadsBack
<1>2. arrived' = arrived \/ \E v \in Via : arrived' = Stamped(v)
  BY DEF RequestsNext, dlgVars, BuildInvite, NgnRefuses, RetryWithAuth, NgnAccepts, ExtInvites, SendInDialog,
         AckReinvite, ProxyForwards, TakesInDialog, TakesNon2xxAck, RespondVia
<1> QED
  BY <1>1, <1>2 DEF ViaLeadsBack

-----------------------------------------------------------------------------
(* The session descriptions                                                *)

\* The payload types and rtpmaps there are, and SessionDescription.
Types4 == {PCMU, PCMA, DTMF, OpusPt}
MapOf == [pt : Types4, name : {"PCMU", "PCMA", "DTMF", "opus"}, rate : {8, 48}]
Desc == [parses : BOOLEAN, audio : BOOLEAN, fmts : Seq(Types4), maps : SUBSET MapOf, fmtp : SUBSET Types4,
         dir : {"None", "sendonly", "sendrecv"}, ptime : Nat, rtcp : Nat, port : Nat,
         conn : {"None", "peer", "zero", "ngn", "ext"}, mconn : {"None", "peer"},
         attrs : SUBSET {"ice", "xr", "group"}, proto : {"AVP", "SAVPF"}, version : Nat]

\* The formats are there and each attribute of a format is of one of them.
Coherent(s) ==
    /\ s.fmts # <<>> /\ s.fmtp \subseteq Range(s.fmts)
    /\ \A m \in s.maps : m.pt \in Range(s.fmts) /\ (m.name = "opus" => m.pt = OpusPt)

\* Every list of codecs a peer may send describes its own formats, and Opus is 111.
LEMMA MenuCoherent ==
    ASSUME NEW m \in Menu
    PROVE  /\ m.fmts \in Seq(Types4) /\ m.maps \in SUBSET MapOf /\ m.fmtp \in SUBSET Types4
           /\ m.fmts # <<>> /\ m.fmtp \subseteq Range(m.fmts) /\ Len(m.fmts) \in {1, 2}
           /\ \A x \in m.maps : x.pt \in Range(m.fmts) /\ (x.name = "opus" => x.pt = OpusPt)
<1> USE DEF PCMU, PCMA, DTMF, OpusPt
<1>1. CASE m = [fmts |-> <<PCMU>>, maps |-> {}, fmtp |-> {}]
  <2>1. m.fmts = <<0>> /\ m.maps = {} /\ m.fmtp = {}
    BY <1>1
  <2> QED
    BY <2>1 DEF Types4
<1>2. CASE m = [fmts |-> <<PCMA>>, maps |-> {Map(PCMA, "PCMA", 8)}, fmtp |-> {}]
  <2> DEFINE a == Map(PCMA, "PCMA", 8)
  <2>1. m.fmts = <<8>> /\ m.maps = {a} /\ m.fmtp = {}
    BY <1>2
  <2>2. a \in MapOf /\ a.pt = 8 /\ a.name = "PCMA"
    BY DEF Map, MapOf, Types4
  <2>3. Range(m.fmts) = {8} /\ m.fmts \in Seq(Types4)
    BY <2>1 DEF Range, Types4
  <2> HIDE DEF a
  <2> QED
    BY <2>1, <2>2, <2>3
<1>3. CASE m = [fmts |-> <<PCMU, DTMF>>, maps |-> {Map(PCMU, "PCMU", 8), Map(DTMF, "DTMF", 8)}, fmtp |-> {DTMF}]
  <2> DEFINE a == Map(PCMU, "PCMU", 8)
             b == Map(DTMF, "DTMF", 8)
  <2>1. m.fmts = <<0, 101>> /\ m.maps = {a, b} /\ m.fmtp = {101}
    BY <1>3
  <2>2. a \in MapOf /\ a.pt = 0 /\ a.name = "PCMU" /\ b \in MapOf /\ b.pt = 101 /\ b.name = "DTMF"
    BY DEF Map, MapOf, Types4
  <2>3. Range(m.fmts) = {0, 101} /\ m.fmts \in Seq(Types4)
    BY <2>1 DEF Range, Types4
  <2>4. {101} \subseteq Types4
    BY DEF Types4
  <2> HIDE DEF a, b
  <2> QED
    BY <2>1, <2>2, <2>3, <2>4
<1>4. CASE m = [fmts |-> <<OpusPt, DTMF>>, maps |-> {Map(OpusPt, "opus", 48), Map(DTMF, "DTMF", 48)}, fmtp |-> {OpusPt}]
  <2> DEFINE a == Map(OpusPt, "opus", 48)
             b == Map(DTMF, "DTMF", 48)
  <2>1. m.fmts = <<111, 101>> /\ m.maps = {a, b} /\ m.fmtp = {111}
    BY <1>4
  <2>2. a \in MapOf /\ a.pt = 111 /\ b \in MapOf /\ b.pt = 101 /\ b.name = "DTMF"
    BY DEF Map, MapOf, Types4
  <2>3. Range(m.fmts) = {111, 101} /\ m.fmts \in Seq(Types4)
    BY <2>1 DEF Range, Types4
  <2>4. {111} \subseteq Types4
    BY DEF Types4
  <2> HIDE DEF a, b
  <2> QED
    BY <2>1, <2>2, <2>3, <2>4
<1>5. CASE m = [fmts |-> <<OpusPt, PCMU>>, maps |-> {Map(OpusPt, "opus", 48), Map(PCMU, "PCMU", 8)}, fmtp |-> {OpusPt}]
  <2> DEFINE a == Map(OpusPt, "opus", 48)
             b == Map(PCMU, "PCMU", 8)
  <2>1. m.fmts = <<111, 0>> /\ m.maps = {a, b} /\ m.fmtp = {111}
    BY <1>5
  <2>2. a \in MapOf /\ a.pt = 111 /\ b \in MapOf /\ b.pt = 0 /\ b.name = "PCMU"
    BY DEF Map, MapOf, Types4
  <2>3. Range(m.fmts) = {111, 0} /\ m.fmts \in Seq(Types4)
    BY <2>1 DEF Range, Types4
  <2>4. {111} \subseteq Types4
    BY DEF Types4
  <2> HIDE DEF a, b
  <2> QED
    BY <2>1, <2>2, <2>3, <2>4
<1> QED
  BY <1>1, <1>2, <1>3, <1>4, <1>5 DEF Menu

\* The sets of attributes a description comes with.
AttrSets == {{}, {"xr"}, {"ice", "group", "xr"}}

LEMMA PlaceTyped ==
    ASSUME NEW p \in Place
    PROVE  p.port \in Nat /\ p.conn \in {"None", "peer", "zero"} /\ p.mconn \in {"None", "peer"}
BY SdpAssumption DEF Place, DiscardPort

LEMMA DescribedTyped ==
    ASSUME NEW s \in Description
    PROVE  s \in Desc /\ Coherent(s) /\ s.attrs \in AttrSets /\ s.parses /\ s.audio /\ Len(s.fmts) \in {1, 2}
<1>1. PICK m \in Menu, d \in {"None", "sendonly"}, r \in {0, 4}, p \in Place, a \in AttrSets :
        s = Described(m, d, r, p, a)
  BY DEF Description, AttrSets
<1> DEFINE f == m.fmts
           g == m.maps
           h == m.fmtp
           pt == IF d = "None" THEN 0 ELSE 30
           po == p.port
           co == p.conn
           mc == p.mconn
           pr == IF "ice" \in a THEN "SAVPF" ELSE "AVP"
<1>2. /\ f \in Seq(Types4) /\ g \in SUBSET MapOf /\ h \in SUBSET Types4
      /\ f # <<>> /\ h \subseteq Range(f) /\ Len(f) \in {1, 2}
      /\ \A x \in g : x.pt \in Range(f) /\ (x.name = "opus" => x.pt = OpusPt)
  BY MenuCoherent
<1>3. po \in Nat /\ co \in {"None", "peer", "zero", "ngn", "ext"} /\ mc \in {"None", "peer"}
  BY PlaceTyped
<1>4. pt \in Nat /\ pr \in {"AVP", "SAVPF"} /\ a \in SUBSET {"ice", "xr", "group"} /\ r \in Nat
      /\ d \in {"None", "sendonly", "sendrecv"}
  BY DEF AttrSets
<1>5. s = [parses |-> TRUE, audio |-> TRUE, fmts |-> f, maps |-> g, fmtp |-> h,
           dir |-> d, ptime |-> pt, rtcp |-> r, port |-> po, conn |-> co,
           mconn |-> mc, attrs |-> a, proto |-> pr, version |-> 0]
  BY <1>1 DEF Described
<1> HIDE DEF f, g, h, pt, po, co, mc, pr
<1>6. s \in Desc
  BY <1>2, <1>3, <1>4, <1>5 DEF Desc
<1>7. s.parses /\ s.audio
  BY <1>5, Zenon
<1>8. s.attrs = a /\ s.fmts = f /\ s.maps = g /\ s.fmtp = h
  BY <1>5
<1>9. Coherent(s)
  BY <1>2, <1>8, Zenon DEF Coherent
<1> QED
  BY <1>2, <1>6, <1>7, <1>8, <1>9

LEMMA PlainIs == Plain \in Description /\ Plain.conn = "peer" /\ Plain.attrs = {} /\ Plain.maps = {}
<1> DEFINE m == [fmts |-> <<PCMU>>, maps |-> {}, fmtp |-> {}]
           p == [conn |-> "peer", mconn |-> "None", port |-> TopPort]
           w == Described(m, "None", 0, p, {})
<1>1. m \in Menu /\ p \in Place
  BY DEF Menu, Place
<1>2. w.conn = "peer" /\ w.attrs = {} /\ w.maps = {}
  BY DEF Described
<1> HIDE DEF m, p
<1>3. w \in Description
  BY <1>1 DEF Description
<1> HIDE DEF w
<1>4. \E s \in Description : s.conn = "peer" /\ s.attrs = {} /\ s.maps = {}
  BY <1>2, <1>3
<1> QED
  BY <1>4 DEF Plain

LEMMA PlainTyped ==
    /\ Plain \in Desc /\ Coherent(Plain) /\ Plain.attrs = {} /\ Len(Plain.fmts) \in {1, 2} /\ Plain.conn = "peer"
    /\ Plain.maps = {}
BY PlainIs, DescribedTyped

LEMMA OddOnes ==
    /\ Illegible \in Desc /\ Coherent(Illegible) /\ Illegible.attrs = {} /\ Len(Illegible.fmts) \in {1, 2}
    /\ ~Illegible.parses
    /\ Audioless \in Desc /\ Coherent(Audioless) /\ Audioless.attrs = {} /\ Len(Audioless.fmts) \in {1, 2}
    /\ ~Audioless.audio
    /\ Silent \in Desc /\ Coherent(Silent) /\ Silent.attrs = {} /\ ~Silent.parses /\ ~Silent.audio
    /\ Silent.maps = {}
<1> DEFINE pl == Plain
<1>1. pl \in Desc /\ Coherent(pl) /\ pl.attrs = {} /\ Len(pl.fmts) \in {1, 2} /\ pl.maps = {}
  BY PlainTyped
<1> HIDE DEF pl
<1> DEFINE i == [pl EXCEPT !.parses = FALSE]
           a == [pl EXCEPT !.audio = FALSE]
           z == [pl EXCEPT !.parses = FALSE, !.audio = FALSE]
<1>2. i \in Desc /\ a \in Desc /\ z \in Desc
  BY <1>1 DEF Desc
<1>3. ~i.parses /\ ~a.audio /\ ~z.parses /\ ~z.audio
  BY <1>1 DEF Desc
<1>4. /\ i.fmts = pl.fmts /\ i.maps = pl.maps /\ i.fmtp = pl.fmtp /\ i.attrs = pl.attrs
      /\ a.fmts = pl.fmts /\ a.maps = pl.maps /\ a.fmtp = pl.fmtp /\ a.attrs = pl.attrs
      /\ z.fmts = pl.fmts /\ z.maps = pl.maps /\ z.fmtp = pl.fmtp /\ z.attrs = pl.attrs
  BY <1>1 DEF Desc
<1>5. i = Illegible /\ a = Audioless /\ z = Silent
  BY DEF pl, Illegible, Audioless, Silent
<1> HIDE DEF i, a, z
<1>6. Coherent(i) /\ Coherent(a) /\ Coherent(z)
  BY <1>1, <1>4 DEF Coherent
<1> QED
  BY <1>1, <1>2, <1>3, <1>4, <1>5, <1>6

\* So does every description that arrives.
LEMMA ReceivedTyped ==
    ASSUME NEW s \in Received
    PROVE  s \in Desc /\ Coherent(s) /\ s.attrs \in AttrSets /\ Len(s.fmts) \in {1, 2}
<1>1. CASE s \in Description
  BY <1>1, DescribedTyped
<1>2. CASE s = Illegible \/ s = Audioless
  BY <1>2, OddOnes DEF AttrSets
<1> QED
  BY <1>1, <1>2 DEF Received

-----------------------------------------------------------------------------
LEMMA RtcpTyped == \A p \in Nat : RtcpPort(p) \in Nat
BY SdpAssumption DEF RtcpPort

\* What is of the same formats and attributes of formats.
SameCodecs(r, s) ==
    r.fmts = s.fmts /\ r.maps = s.maps /\ r.fmtp = s.fmtp /\ r.attrs = s.attrs /\ r.dir = s.dir

\* rewrite_rtp_endpoint points the audio and its RTCP at the gateway and leaves the codecs.
LEMMA Rewritten ==
    ASSUME NEW s \in Desc, NEW addr \in {"ngn", "ext"}, NEW pn \in Nat,
           NEW r, r = RewriteEndpoint(s, addr, pn)
    PROVE  /\ r \in Desc /\ (r.parses <=> s.parses) /\ (r.audio <=> s.audio) /\ SameCodecs(r, s)
           /\ r.conn = addr
           /\ s.audio => r.port = pn /\ r.mconn = "None" /\ r.rtcp \in {0, RtcpPort(pn)}
<1> DEFINE v == s.version + 1
           x == IF s.rtcp = 0 THEN 0 ELSE RtcpPort(pn)
<1>1. v \in Nat /\ x \in Nat /\ x \in {0, RtcpPort(pn)}
  <2>1. s.version \in Nat
    BY DEF Desc
  <2>2. RtcpPort(pn) \in Nat
    BY RtcpTyped
  <2> QED
    BY <2>1, <2>2
<1>2. CASE s.audio
  <2>1. r = [s EXCEPT !.conn = addr, !.port = pn, !.mconn = "None", !.version = v, !.rtcp = x]
    BY <1>2 DEF RewriteEndpoint
  <2> HIDE DEF v, x
  <2>2. r \in Desc
    BY <1>1, <2>1 DEF Desc
  <2>3. (r.parses <=> s.parses) /\ (r.audio <=> s.audio)
    BY <2>1 DEF Desc
  <2>4. r.conn = addr /\ r.port = pn /\ r.mconn = "None" /\ r.rtcp = x
    BY <2>1 DEF Desc
  <2>5. SameCodecs(r, s)
    BY <2>1 DEF Desc, SameCodecs
  <2> QED
    BY <1>1, <2>2, <2>3, <2>4, <2>5
<1>3. CASE ~s.audio
  <2>1. r = [s EXCEPT !.conn = addr, !.version = v]
    BY <1>3 DEF RewriteEndpoint
  <2> HIDE DEF v
  <2>2. r \in Desc
    BY <1>1, <2>1 DEF Desc
  <2>3. (r.parses <=> s.parses) /\ (r.audio <=> s.audio)
    BY <2>1 DEF Desc
  <2>4. r.conn = addr
    BY <2>1 DEF Desc
  <2>5. SameCodecs(r, s)
    BY <2>1 DEF Desc, SameCodecs
  <2> QED
    BY <1>3, <2>2, <2>3, <2>4, <2>5
<1> QED
  BY <1>2, <1>3

\* Formats the NGN takes, each described and none left over.
ForNgn(s) ==
    /\ s.fmts # <<>> /\ Range(s.fmts) \subseteq {PCMU, DTMF} /\ s.fmtp \subseteq Range(s.fmts)
    /\ {m.pt : m \in s.maps} = Range(s.fmts)
    /\ \A m \in s.maps : m.rate = 8 /\ m.pt \in Range(s.fmts)

LEMMA DefaultMaps ==
    ASSUME NEW pt \in {PCMU, DTMF}
    PROVE  DefaultMap(pt) \in MapOf /\ DefaultMap(pt).pt = pt /\ DefaultMap(pt).rate = 8
<1>1. CASE pt = PCMU
  BY <1>1 DEF DefaultMap, Map, MapOf, Types4, PCMU, DTMF
<1>2. CASE pt = DTMF
  BY <1>2 DEF DefaultMap, Map, MapOf, Types4, PCMU, DTMF
<1> QED
  BY <1>1, <1>2

\* apply_codec_subset leaves the formats of the NGN, each described and none left over.
LEMMA Subsetted ==
    ASSUME NEW s \in Desc, NEW al \in {<<PCMU>>, <<PCMU, DTMF>>}, NEW r, r = CodecSubset(s, al)
    PROVE  /\ r \in Desc /\ (r.parses <=> s.parses) /\ (r.audio <=> s.audio) /\ ForNgn(r)
           /\ r.attrs = s.attrs \ {"ice", "xr"} /\ r.dir = s.dir /\ r.rtcp = s.rtcp /\ r.port = s.port
           /\ r.conn = s.conn /\ r.mconn = s.mconn
<1>1. /\ al \in Seq(Types4) /\ al # <<>>
      /\ Range(al) \subseteq {PCMU, DTMF} /\ Range(al) \subseteq Types4
  <2>1. CASE al = <<PCMU>>
    BY <2>1 DEF Range, Types4
  <2>2. CASE al = <<PCMU, DTMF>>
    BY <2>2 DEF Range, Types4
  <2> QED
    BY <2>1, <2>2
<1> DEFINE ra == Range(al)
           kept == {m \in s.maps : m.pt \in ra /\ m.rate = 8}
           mm == kept \cup {DefaultMap(pt) : pt \in ra \ {m.pt : m \in kept}}
           ff == (s.fmtp \cap ra) \cup (ra \cap {DTMF})
           aa == s.attrs \ {"ice", "xr"}
<1>2. r = [s EXCEPT !.fmts = al, !.attrs = aa, !.maps = mm, !.fmtp = ff]
  BY DEF CodecSubset, Unsupported
<1>3. s.maps \in SUBSET MapOf /\ s.fmtp \in SUBSET Types4 /\ s.attrs \in SUBSET {"ice", "xr", "group"}
  BY DEF Desc
<1> HIDE DEF ra
<1>4. ra \subseteq {PCMU, DTMF} /\ ra \subseteq Types4
  BY <1>1 DEF ra
<1>5. kept \in SUBSET MapOf /\ \A m \in kept : m.pt \in ra /\ m.rate = 8
  BY <1>3
<1>6. \A pt \in ra : DefaultMap(pt) \in MapOf /\ DefaultMap(pt).pt = pt /\ DefaultMap(pt).rate = 8
  BY <1>4, DefaultMaps
<1> HIDE DEF kept
<1>7. mm \in SUBSET MapOf /\ {m.pt : m \in mm} = ra /\ \A m \in mm : m.rate = 8 /\ m.pt \in ra
  <2>1. \A m \in mm : m \in MapOf /\ m.rate = 8 /\ m.pt \in ra
    BY <1>5, <1>6
  <2>2. \A pt \in ra : \E m \in mm : m.pt = pt
    <3> SUFFICES ASSUME NEW pt \in ra PROVE \E m \in mm : m.pt = pt
      OBVIOUS
    <3>1. CASE pt \in {m.pt : m \in kept}
      BY <3>1
    <3>2. CASE pt \notin {m.pt : m \in kept}
      <4>1. DefaultMap(pt) \in mm
        BY <3>2
      <4> QED
        BY <4>1, <1>6
    <3> QED
      BY <3>1, <3>2
  <2> HIDE DEF mm
  <2> QED
    BY <2>1, <2>2
<1>8. ff \in SUBSET Types4 /\ ff \subseteq ra
  BY <1>3, <1>4
<1>9. aa \in SUBSET {"ice", "xr", "group"}
  BY <1>3
<1> HIDE DEF mm, ff, aa
<1>10. r \in Desc
  BY <1>1, <1>2, <1>7, <1>8, <1>9 DEF Desc
<1>11. (r.parses <=> s.parses) /\ (r.audio <=> s.audio)
  BY <1>2 DEF Desc
<1>12. /\ r.fmts = al /\ r.attrs = aa /\ r.maps = mm /\ r.fmtp = ff /\ r.dir = s.dir /\ r.rtcp = s.rtcp
       /\ r.port = s.port /\ r.conn = s.conn /\ r.mconn = s.mconn
  BY <1>2 DEF Desc
<1>13. ForNgn(r)
  BY <1>1, <1>4, <1>7, <1>8, <1>12 DEF ForNgn, ra
<1> QED
  BY <1>10, <1>11, <1>12, <1>13 DEF aa

LEMMA PtimeEnsured ==
    ASSUME NEW s \in Desc, NEW ms \in Nat, NEW r, r = EnsurePtime(s, ms)
    PROVE  /\ r \in Desc /\ (r.parses <=> s.parses) /\ (r.audio <=> s.audio) /\ SameCodecs(r, s)
           /\ r.conn = s.conn /\ r.mconn = s.mconn /\ r.port = s.port /\ r.rtcp = s.rtcp
<1>1. r = s \/ r = [s EXCEPT !.ptime = ms]
  BY DEF EnsurePtime
<1>2. r \in Desc
  BY <1>1 DEF Desc
<1>3. (r.parses <=> s.parses) /\ (r.audio <=> s.audio)
  BY <1>1 DEF Desc
<1>4. SameCodecs(r, s) /\ r.conn = s.conn /\ r.mconn = s.mconn /\ r.port = s.port /\ r.rtcp = s.rtcp
  BY <1>1 DEF Desc, SameCodecs
<1> QED
  BY <1>2, <1>3, <1>4

LEMMA RtcpEnsured ==
    ASSUME NEW s \in Desc, NEW r, r = EnsureRtcp(s)
    PROVE  /\ r \in Desc /\ (r.parses <=> s.parses) /\ (r.audio <=> s.audio) /\ SameCodecs(r, s)
           /\ r.conn = s.conn /\ r.mconn = s.mconn /\ r.port = s.port /\ r.rtcp \in {s.rtcp, RtcpPort(s.port)}
<1> DEFINE x == RtcpPort(s.port)
<1>0. x \in Nat
  BY RtcpTyped DEF Desc
<1>1. r = s \/ r = [s EXCEPT !.rtcp = x]
  BY DEF EnsureRtcp
<1> HIDE DEF x
<1>2. r \in Desc
  BY <1>0, <1>1 DEF Desc
<1>3. (r.parses <=> s.parses) /\ (r.audio <=> s.audio)
  BY <1>1 DEF Desc
<1>4. SameCodecs(r, s) /\ r.conn = s.conn /\ r.mconn = s.mconn /\ r.port = s.port /\ r.rtcp \in {s.rtcp, x}
  BY <1>1 DEF Desc, SameCodecs
<1> QED
  BY <1>2, <1>3, <1>4 DEF x

\* Negotiator::apply does the same, for a description that has audio.
LEMMA NegotiatedFits ==
    ASSUME NEW s \in Desc, NEW al \in {<<PCMU>>, <<PCMU, DTMF>>}, NEW r, r = Negotiated(s, al)
    PROVE  /\ r \in Desc /\ (r.parses <=> s.parses) /\ (r.audio <=> s.audio)
           /\ r.conn = s.conn /\ r.port = s.port /\ r.mconn = s.mconn /\ r.dir = s.dir
           /\ s.parses /\ s.audio => /\ ForNgn(r) /\ r.attrs = s.attrs \ {"ice", "xr"}
                                     /\ r.rtcp \in {s.rtcp, RtcpPort(s.port)}
<1>1. CASE s.parses /\ s.audio
  <2> DEFINE a == CodecSubset(s, al)
             b == EnsurePtime(a, 20)
  <2>1. r = EnsureRtcp(b)
    BY <1>1 DEF Negotiated
  <2>2. /\ a \in Desc /\ (a.parses <=> s.parses) /\ (a.audio <=> s.audio) /\ ForNgn(a)
        /\ a.attrs = s.attrs \ {"ice", "xr"} /\ a.dir = s.dir /\ a.rtcp = s.rtcp /\ a.port = s.port
        /\ a.conn = s.conn /\ a.mconn = s.mconn
    BY Subsetted
  <2> HIDE DEF a
  <2>3. /\ b \in Desc /\ (b.parses <=> a.parses) /\ (b.audio <=> a.audio) /\ SameCodecs(b, a)
        /\ b.conn = a.conn /\ b.mconn = a.mconn /\ b.port = a.port /\ b.rtcp = a.rtcp
    <3>1. 20 \in Nat
      OBVIOUS
    <3> QED
      BY <2>2, <3>1, PtimeEnsured
  <2> HIDE DEF b
  <2>4. /\ r \in Desc /\ (r.parses <=> b.parses) /\ (r.audio <=> b.audio) /\ SameCodecs(r, b)
        /\ r.conn = b.conn /\ r.mconn = b.mconn /\ r.port = b.port /\ r.rtcp \in {b.rtcp, RtcpPort(b.port)}
    BY <2>1, <2>3, RtcpEnsured
  <2>5. r.fmts = a.fmts /\ r.maps = a.maps /\ r.fmtp = a.fmtp /\ r.attrs = a.attrs /\ r.dir = a.dir
    BY <2>3, <2>4 DEF SameCodecs
  <2>6. ForNgn(r)
    BY <2>2, <2>5 DEF ForNgn
  <2> QED
    BY <2>2, <2>3, <2>4, <2>5, <2>6
<1>2. CASE ~(s.parses /\ s.audio)
  <2>1. r = s
    BY <1>2 DEF Negotiated
  <2> QED
    BY <2>1, <1>2
<1> QED
  BY <1>1, <1>2

\* What the NGN is told where the gateway speaks for itself.
Fit(t) ==
    /\ t.conn = "ngn" /\ t.mconn = "None" /\ t.rtcp \in {0, RtcpPort(t.port)} /\ t.attrs = {}
    /\ t.fmts # <<>> /\ t.fmtp \subseteq Range(t.fmts) /\ \A m \in t.maps : m.pt \in Range(t.fmts)

LEMMA ForNgnFit ==
    ASSUME NEW t, ForNgn(t), t.conn = "ngn", t.mconn = "None", t.rtcp \in {0, RtcpPort(t.port)}, t.attrs = {}
    PROVE  Fit(t)
BY DEF Fit, ForNgn

\* An offer of an extension, as it goes out.
LEMMA SipOfferFits ==
    ASSUME NEW s \in Desc, s.attrs \subseteq {"xr"}, NEW pn \in Nat,
           NEW r, r = Negotiated(IF s.parses THEN RewriteEndpoint(s, "ngn", pn) ELSE s, <<PCMU, DTMF>>)
    PROVE  /\ r \in Desc
           /\ r.parses => ~Placeholder(r)
           /\ r.parses /\ r.audio => Fit(r) /\ ForNgn(r) /\ r.port = pn
<1>1. CASE s.parses
  <2> DEFINE w == RewriteEndpoint(s, "ngn", pn)
  <2>1. /\ w \in Desc /\ (w.parses <=> s.parses) /\ (w.audio <=> s.audio) /\ SameCodecs(w, s)
        /\ w.conn = "ngn"
        /\ s.audio => w.port = pn /\ w.mconn = "None" /\ w.rtcp \in {0, RtcpPort(pn)}
    BY Rewritten
  <2>2. r = Negotiated(w, <<PCMU, DTMF>>)
    BY <1>1
  <2> HIDE DEF w
  <2>3. /\ r \in Desc /\ (r.parses <=> w.parses) /\ (r.audio <=> w.audio)
        /\ r.conn = w.conn /\ r.port = w.port /\ r.mconn = w.mconn /\ r.dir = w.dir
        /\ w.parses /\ w.audio => /\ ForNgn(r) /\ r.attrs = w.attrs \ {"ice", "xr"}
                                  /\ r.rtcp \in {w.rtcp, RtcpPort(w.port)}
    BY <2>1, <2>2, NegotiatedFits
  <2>4. r.conn = "ngn"
    BY <2>1, <2>3
  <2>5. ~Placeholder(r)
    BY <2>4 DEF Placeholder
  <2>6. ASSUME r.audio PROVE Fit(r) /\ ForNgn(r) /\ r.port = pn
    <3>1. w.parses /\ w.audio /\ s.audio
      BY <2>1, <2>3, <2>6, <1>1
    <3>2. r.attrs = {}
      BY <2>1, <2>3, <3>1 DEF SameCodecs
    <3>3. r.port = pn /\ r.mconn = "None" /\ r.rtcp \in {0, RtcpPort(r.port)}
      BY <2>1, <2>3, <3>1
    <3> QED
      BY <2>3, <2>4, <3>1, <3>2, <3>3, ForNgnFit
  <2> QED
    BY <2>3, <2>5, <2>6
<1>2. CASE ~s.parses
  <2>1. r = Negotiated(s, <<PCMU, DTMF>>)
    BY <1>2
  <2>2. r \in Desc /\ (r.parses <=> s.parses)
    BY <2>1, NegotiatedFits
  <2> QED
    BY <2>2, <1>2
<1> QED
  BY <1>1, <1>2

\* convert_savpf_to_avp takes the attributes of WebRTC away.
LEMMA ToAvp ==
    ASSUME NEW s \in Desc, NEW r, r = SavpfToAvp(s)
    PROVE  /\ r \in Desc /\ (r.parses <=> s.parses) /\ (r.audio <=> s.audio)
           /\ r.fmts = s.fmts /\ r.maps = s.maps /\ r.fmtp = s.fmtp /\ r.dir = s.dir
           /\ r.attrs = s.attrs \ {"ice", "group"} /\ r.conn = s.conn /\ r.port = s.port
<1> DEFINE a == s.attrs \ {"ice", "group"}
<1>1. a \in SUBSET {"ice", "xr", "group"}
  <2>1. s.attrs \in SUBSET {"ice", "xr", "group"}
    BY DEF Desc
  <2> QED
    BY <2>1
<1> DEFINE z == 0
           q == "AVP"
<1>2. r = [s EXCEPT !.proto = q, !.attrs = a, !.rtcp = z]
  BY DEF SavpfToAvp
<1>a. z \in Nat /\ q \in {"AVP", "SAVPF"}
  OBVIOUS
<1> HIDE DEF a, z, q
<1>3. r \in Desc
  BY <1>1, <1>2, <1>a DEF Desc
<1>4. (r.parses <=> s.parses) /\ (r.audio <=> s.audio)
  BY <1>2 DEF Desc
<1>5. /\ r.fmts = s.fmts /\ r.maps = s.maps /\ r.fmtp = s.fmtp /\ r.dir = s.dir
      /\ r.attrs = a /\ r.conn = s.conn /\ r.port = s.port
  BY <1>2 DEF Desc
<1> QED
  BY <1>3, <1>4, <1>5 DEF a

LEMMA BridgeTyped == BridgePort \in Nat
BY SdpAssumption

\* The browser's answer, as the offer to the NGN.
LEMMA WebOfferFits ==
    ASSUME NEW s \in Desc, s.parses, s.audio,
           NEW r, r = RewriteEndpoint(Negotiated(SavpfToAvp(s), <<PCMU>>), "ngn", BridgePort)
    PROVE  /\ r \in Desc /\ r.parses /\ r.audio /\ Fit(r) /\ ForNgn(r) /\ r.port = BridgePort /\ r.dir = s.dir
           /\ ~Placeholder(r)
<1> DEFINE a == SavpfToAvp(s)
           b == Negotiated(a, <<PCMU>>)
<1>0. r = RewriteEndpoint(b, "ngn", BridgePort)
  OBVIOUS
<1>1. /\ a \in Desc /\ (a.parses <=> s.parses) /\ (a.audio <=> s.audio) /\ a.dir = s.dir
      /\ a.attrs = s.attrs \ {"ice", "group"}
  BY ToAvp
<1> HIDE DEF a
<1>2. /\ b \in Desc /\ (b.parses <=> a.parses) /\ (b.audio <=> a.audio) /\ b.dir = a.dir
      /\ a.parses /\ a.audio => ForNgn(b) /\ b.attrs = a.attrs \ {"ice", "xr"}
  BY <1>1, NegotiatedFits
<1> HIDE DEF b
<1>3. /\ r \in Desc /\ (r.parses <=> b.parses) /\ (r.audio <=> b.audio) /\ SameCodecs(r, b)
      /\ r.conn = "ngn"
      /\ b.audio => r.port = BridgePort /\ r.mconn = "None" /\ r.rtcp \in {0, RtcpPort(BridgePort)}
  BY <1>0, <1>2, BridgeTyped, Rewritten
<1>4. a.parses /\ a.audio /\ b.parses /\ b.audio /\ r.parses /\ r.audio
  BY <1>1, <1>2, <1>3
<1>5. r.fmts = b.fmts /\ r.maps = b.maps /\ r.fmtp = b.fmtp /\ r.attrs = b.attrs /\ r.dir = b.dir
  BY <1>3 DEF SameCodecs
<1>6. ForNgn(r)
  BY <1>2, <1>4, <1>5 DEF ForNgn
<1>7. r.attrs = {}
  <2>1. s.attrs \in SUBSET {"ice", "xr", "group"}
    BY DEF Desc
  <2> QED
    BY <2>1, <1>1, <1>2, <1>4, <1>5
<1>8. Fit(r)
  BY <1>3, <1>4, <1>6, <1>7, ForNgnFit
<1>9. ~Placeholder(r)
  BY <1>3 DEF Placeholder
<1> QED
  BY <1>1, <1>2, <1>3, <1>4, <1>5, <1>6, <1>8, <1>9

\* apply_audio_direction changes the direction alone.
LEMMA Directed ==
    ASSUME NEW s \in Desc, s.parses, s.audio, NEW d \in {"None", "sendonly", "sendrecv"},
           NEW r, r = WithDirection(s, d)
    PROVE  /\ r = [s EXCEPT !.dir = d] /\ r \in Desc /\ r.parses /\ r.audio /\ r.dir = d
           /\ r.fmts = s.fmts /\ r.maps = s.maps /\ r.fmtp = s.fmtp /\ r.attrs = s.attrs
           /\ r.conn = s.conn /\ r.mconn = s.mconn /\ r.port = s.port /\ r.rtcp = s.rtcp
<1>1. r = [s EXCEPT !.dir = d]
  BY DEF WithDirection
<1>2. r \in Desc
  BY <1>1 DEF Desc
<1>3. r.parses /\ r.audio
  BY <1>1 DEF Desc
<1>4. /\ r.fmts = s.fmts /\ r.maps = s.maps /\ r.fmtp = s.fmtp /\ r.attrs = s.attrs /\ r.dir = d
      /\ r.conn = s.conn /\ r.mconn = s.mconn /\ r.port = s.port /\ r.rtcp = s.rtcp
  BY <1>1 DEF Desc
<1> QED
  BY <1>1, <1>2, <1>3, <1>4

LEMMA InSequence ==
    ASSUME NEW S, NEW f \in Seq(S), NEW i \in 1..Len(f)
    PROVE  f[i] \in S /\ f[i] \in Range(f)
BY DEF Range

\* The formats in common, of an offer with one or two.
LEMMA CommonOf ==
    ASSUME NEW o \in Desc, Len(o.fmts) \in {1, 2}, NEW e \in Desc
    PROVE  Common(o, e) \in Seq(Types4) /\ Range(Common(o, e)) \subseteq Range(o.fmts)
<1> DEFINE fs == o.fmts
           R == Range(e.fmts)
           F(f) == [n \in 0..Len(fs) |->
                       IF n = 0 THEN <<>>
                       ELSE IF fs[n] \in R THEN Append(f[n - 1], fs[n]) ELSE f[n - 1]]
           g == CHOOSE f : f = F(f)
<1>1. Common(o, e) = g[Len(fs)]
  BY DEF Common
<1>2. fs \in Seq(Types4) /\ Len(fs) \in {1, 2}
  BY DEF Desc
<1> HIDE DEF fs, R
<1>3. CASE Len(fs) = 1
  <2> DEFINE k == [n \in 0..1 |-> IF n = 0 THEN <<>> ELSE IF fs[1] \in R THEN <<fs[1]>> ELSE <<>>]
  <2>1. \A n \in 0..1 : n = 0 \/ n = 1
    OBVIOUS
  <2>2. k[0] = <<>> /\ k[1] = IF fs[1] \in R THEN <<fs[1]>> ELSE <<>>
    OBVIOUS
  <2>3. F(k)[0] = <<>> /\ F(k)[1] = IF fs[1] \in R THEN Append(k[0], fs[1]) ELSE k[0]
    BY <1>3
  <2>4. k = F(k)
    <3>1. DOMAIN k = 0..1 /\ DOMAIN F(k) = 0..1
      BY <1>3
    <3>2. \A n \in 0..1 : k[n] = F(k)[n]
      <4>1. k[0] = F(k)[0]
        BY <2>2, <2>3
      <4>2. k[1] = F(k)[1]
        <5> HIDE DEF F, k
        <5> QED
          BY <2>2, <2>3
      <4> HIDE DEF F, k
      <4> QED
        BY <4>1, <4>2, <2>1
    <3>3. k = [n \in 0..1 |-> k[n]] /\ F(k) = [n \in 0..1 |-> F(k)[n]]
      BY <1>3
    <3> HIDE DEF F, k
    <3> QED
      BY <3>2, <3>3
  <2>5. g = F(g)
    <3> HIDE DEF F, k
    <3> QED
      BY <2>4
  <2>6. F(g)[0] = <<>> /\ F(g)[1] = IF fs[1] \in R THEN Append(g[0], fs[1]) ELSE g[0]
    BY <1>3
  <2> HIDE DEF F, g
  <2>7. g[0] = <<>> /\ g[1] = IF fs[1] \in R THEN Append(<<>>, fs[1]) ELSE <<>>
    BY <2>5, <2>6
  <2>8. fs[1] \in Types4 /\ fs[1] \in Range(fs)
    <3>1. 1 \in 1..Len(fs)
      BY <1>3
    <3> QED
      BY <1>2, <3>1, InSequence
  <2>9. g[1] \in Seq(Types4) /\ Range(g[1]) \subseteq Range(fs)
    BY <2>7, <2>8 DEF Range
  <2> QED
    BY <1>1, <1>3, <2>9 DEF fs
<1>4. CASE Len(fs) = 2
  <2> DEFINE k1 == IF fs[1] \in R THEN <<fs[1]>> ELSE <<>>
             k2 == IF fs[2] \in R THEN Append(k1, fs[2]) ELSE k1
             k == [n \in 0..2 |-> IF n = 0 THEN <<>> ELSE IF n = 1 THEN k1 ELSE k2]
  <2>1. \A n \in 0..2 : n = 0 \/ n = 1 \/ n = 2
    OBVIOUS
  <2>2. k[0] = <<>> /\ k[1] = k1 /\ k[2] = k2
    <3> HIDE DEF k1, k2
    <3> QED
      OBVIOUS
  <2>a. k1 = IF fs[1] \in R THEN Append(<<>>, fs[1]) ELSE <<>>
    OBVIOUS
  <2>3. \A f : /\ F(f)[0] = <<>> /\ F(f)[1] = IF fs[1] \in R THEN Append(f[0], fs[1]) ELSE f[0]
               /\ F(f)[2] = IF fs[2] \in R THEN Append(f[1], fs[2]) ELSE f[1]
    <3> SUFFICES ASSUME NEW f
                 PROVE  /\ F(f)[0] = <<>> /\ F(f)[1] = IF fs[1] \in R THEN Append(f[0], fs[1]) ELSE f[0]
                        /\ F(f)[2] = IF fs[2] \in R THEN Append(f[1], fs[2]) ELSE f[1]
      BY Zenon
    <3>1. ASSUME NEW n \in 0..2, n # 0
          PROVE  F(f)[n] = IF fs[n] \in R THEN Append(f[n - 1], fs[n]) ELSE f[n - 1]
      BY <1>4, <3>1, Zenon
    <3>2. F(f)[0] = <<>>
      BY <1>4
    <3>3. 1 \in 0..2 /\ 2 \in 0..2 /\ 1 # 0 /\ 2 # 0 /\ 1 - 1 = 0 /\ 2 - 1 = 1
      OBVIOUS
    <3> HIDE DEF F
    <3> QED
      BY <3>1, <3>2, <3>3, Zenon
  <2>4. k = F(k)
    <3>2. \A n \in 0..2 : k[n] = F(k)[n]
      <4> HIDE DEF F, k
      <4>1. k[0] = F(k)[0]
        BY <2>2, <2>3, Zenon
      <4>0. /\ F(k)[1] = IF fs[1] \in R THEN Append(k[0], fs[1]) ELSE k[0]
            /\ F(k)[2] = IF fs[2] \in R THEN Append(k[1], fs[2]) ELSE k[1]
        BY <2>3, Zenon
      <4>a. k2 = IF fs[2] \in R THEN Append(k1, fs[2]) ELSE k1
        OBVIOUS
      <4> HIDE DEF k1, k2
      <4>2. k[1] = F(k)[1]
        BY <2>2, <4>0, <2>a
      <4>3. k[2] = F(k)[2]
        BY <2>2, <4>0, <4>a
      <4> QED
        BY <4>1, <4>2, <4>3, <2>1
    <3>3. k = [n \in 0..2 |-> k[n]] /\ F(k) = [n \in 0..2 |-> F(k)[n]]
      BY <1>4
    <3> HIDE DEF F, k
    <3> QED
      BY <3>2, <3>3
  <2>5. g = F(g)
    <3> HIDE DEF F, k
    <3> QED
      BY <2>4
  <2> HIDE DEF F, g
  <2>7. g[1] = k1 /\ g[2] = k2
    <3>1. g[0] = <<>>
      BY <2>3, <2>5, Zenon
    <3>2. g[1] = k1
      BY <2>3, <2>5, <2>a, <3>1, Zenon
    <3> QED
      BY <2>3, <2>5, <3>2, Zenon
  <2>8. fs[1] \in Types4 /\ fs[1] \in Range(fs) /\ fs[2] \in Types4 /\ fs[2] \in Range(fs)
    <3>1. 1 \in 1..Len(fs) /\ 2 \in 1..Len(fs)
      BY <1>4
    <3> QED
      BY <1>2, <3>1, InSequence
  <2>9. k1 \in Seq(Types4) /\ Range(k1) \subseteq Range(fs)
    BY <2>8 DEF Range
  <2> HIDE DEF k1
  <2>10. k2 \in Seq(Types4) /\ Range(k2) \subseteq Range(fs)
    <3>1. CASE fs[2] \in R
      <4>1. k2 = Append(k1, fs[2])
        BY <3>1
      <4>2. Append(k1, fs[2]) \in Seq(Types4)
        BY <2>8, <2>9
      <4>3. Range(Append(k1, fs[2])) \subseteq Range(k1) \cup {fs[2]}
        BY <2>8, <2>9 DEF Range
      <4> QED
        BY <4>1, <4>2, <4>3, <2>8, <2>9
    <3>2. CASE fs[2] \notin R
      BY <3>2, <2>9
    <3> QED
      BY <3>1, <3>2
  <2> HIDE DEF k2
  <2> QED
    BY <1>1, <1>4, <2>7, <2>10 DEF fs
<1> QED
  BY <1>2, <1>3, <1>4

\* An answer of an extension or a browser, as it goes to the NGN.
LEMMA AnswerFits ==
    ASSUME NEW o \in Desc, Len(o.fmts) \in {1, 2}, NEW e \in Desc, Restrictable(o, e), e.attrs \subseteq {"xr"},
           NEW r, r = RewriteEndpoint(Restricted(o, e), "ngn", BridgePort)
    PROVE  /\ r \in Desc /\ r.parses /\ r.audio /\ Fit(r) /\ r.port = BridgePort
           /\ Range(r.fmts) \subseteq Range(o.fmts)
<1> DEFINE c == Common(o, e)
           rc == Range(c)
           mm == {m \in e.maps : m.pt \in rc}
           ff == e.fmtp \cap rc
           aa == e.attrs \ {"ice", "xr"}
           b == Restricted(o, e)
<1>1. c \in Seq(Types4) /\ rc \subseteq Range(o.fmts) /\ c # <<>>
  BY CommonOf DEF Restrictable
<1>2. e.parses /\ e.audio
  BY DEF Restrictable
<1>3. b = [e EXCEPT !.fmts = c, !.attrs = aa, !.maps = mm, !.fmtp = ff]
  BY DEF Restricted, UnsupportedInAnswer
<1>0. r = RewriteEndpoint(b, "ngn", BridgePort)
  OBVIOUS
<1>4. e.maps \in SUBSET MapOf /\ e.fmtp \in SUBSET Types4
  BY DEF Desc
<1> HIDE DEF c, b
<1>5. mm \in SUBSET MapOf /\ ff \in SUBSET Types4 /\ aa = {} /\ aa \in SUBSET {"ice", "xr", "group"} /\ ff \subseteq rc
      /\ \A m \in mm : m.pt \in rc
  BY <1>4
<1> HIDE DEF mm, ff, aa
<1>6. b \in Desc
  BY <1>1, <1>3, <1>5 DEF Desc
<1>7. b.parses /\ b.audio
  BY <1>2, <1>3 DEF Desc
<1>8. b.fmts = c /\ b.attrs = aa /\ b.maps = mm /\ b.fmtp = ff
  BY <1>3 DEF Desc
<1>9. /\ r \in Desc /\ (r.parses <=> b.parses) /\ (r.audio <=> b.audio) /\ SameCodecs(r, b)
      /\ r.conn = "ngn"
      /\ b.audio => r.port = BridgePort /\ r.mconn = "None" /\ r.rtcp \in {0, RtcpPort(BridgePort)}
  BY <1>0, <1>6, BridgeTyped, Rewritten
<1>10. r.fmts = c /\ r.maps = mm /\ r.fmtp = ff /\ r.attrs = {}
  BY <1>5, <1>8, <1>9 DEF SameCodecs
<1>11. Fit(r)
  BY <1>1, <1>5, <1>7, <1>9, <1>10 DEF Fit
<1> QED
  BY <1>1, <1>7, <1>9, <1>10, <1>11

-----------------------------------------------------------------------------
SdpStages == {"Idle", "Offered", "Agreed", "Reoffered", "Talking", "Ringing", "Answered", "Failed"}
Exchange == [stage : SdpStages, way : {"Out", "Pwa", "In"}, bridged : BOOLEAN, holds : 0..MaxHolds]

\* What the NGN said, as far as it matters.
NgnSays(f) == f \in Desc /\ Coherent(f) /\ f.attrs = {} /\ Len(f.fmts) \in {1, 2}

\* NgnSdpSound, of a description.
SoundFor(t, c, f) ==
    /\ t.parses => ~Placeholder(t)
    /\ t.parses /\ t.audio /\ (c.way = "In" => c.bridged) =>
           /\ Fit(t) /\ (c.bridged => t.port = BridgePort)
           /\ c.way = "In" => Range(t.fmts) \subseteq Range(f.fmts)
           /\ c.way # "In" => ForNgn(t)

SdpTypes ==
    /\ sdpCall \in Exchange /\ heard \in Desc /\ Coherent(heard) /\ toNgn \in Desc /\ firstOffer \in Desc
    /\ NgnSays(fromNgn) /\ plan \in {0, OpusPt} /\ holdWish \in {"None", "sendrecv", "sendonly"}

SdpInv ==
    /\ SdpTypes
    /\ sdpCall.stage \in {"Idle", "Ringing"} => toNgn = Silent /\ heard = Silent /\ plan = 0 /\ ~sdpCall.bridged
    /\ sdpCall.stage = "Ringing" => sdpCall.way = "In"
    /\ sdpCall.stage \in {"Offered", "Agreed"} => sdpCall.way = "Out" /\ heard.attrs \subseteq {"xr"}
    /\ sdpCall.stage = "Talking" => toNgn.parses /\ toNgn.audio /\ sdpCall.way = "Pwa"
    /\ SoundFor(toNgn, sdpCall, fromNgn)
    /\ HoldKeepsMedia
    /\ PlanFits

\* The invariant is what the run checks and more.
LEMMA SdpGood == SdpInv => SdpTypeOK /\ NgnSdpSound /\ HoldKeepsMedia /\ PlanFits
<1> SUFFICES ASSUME SdpInv PROVE SdpTypeOK /\ NgnSdpSound /\ HoldKeepsMedia /\ PlanFits
  OBVIOUS
<1>1. SdpTypeOK
  BY DEF SdpInv, SdpTypes, Exchange, SdpStages, SdpTypeOK
<1>2. SoundFor(toNgn, sdpCall, fromNgn)
  BY DEF SdpInv
<1>3. NgnSdpSound
  BY <1>2 DEF SoundFor, Fit, ForNgn, NgnSdpSound
<1> QED
  BY <1>1, <1>3 DEF SdpInv

LEMMA SilentKnown ==
    /\ Silent \in Desc /\ Coherent(Silent) /\ Silent.attrs = {} /\ ~Silent.parses /\ ~Silent.audio
    /\ Silent.maps = {} /\ Len(Silent.fmts) \in {1, 2}
<1>1. Silent.fmts = Plain.fmts
  BY PlainTyped DEF Silent, Desc
<1> QED
  BY <1>1, OddOnes, PlainTyped

LEMMA SdpStarts == SdpInit => SdpInv
<1> SUFFICES ASSUME SdpInit PROVE SdpInv
  OBVIOUS
<1>1. sdpCall = [stage |-> "Idle", way |-> "Out", bridged |-> FALSE, holds |-> 0]
      /\ heard = Silent /\ fromNgn = Silent /\ toNgn = Silent /\ plan = 0 /\ firstOffer = Silent /\ holdWish = "None"
  BY DEF SdpInit
<1>2. sdpCall \in Exchange
  BY <1>1, SdpAssumption DEF Exchange, SdpStages
<1>3. sdpCall.stage = "Idle"
  BY <1>1
<1>4. ~sdpCall.bridged
  BY <1>1, Zenon
<1>5. SdpTypes
  BY <1>1, <1>2, SilentKnown DEF SdpTypes, NgnSays
<1>6. SoundFor(toNgn, sdpCall, fromNgn)
  BY <1>1, SilentKnown DEF SoundFor
<1>7. HoldKeepsMedia /\ PlanFits
  BY <1>3 DEF HoldKeepsMedia, PlanFits
<1> QED
  BY <1>1, <1>3, <1>4, <1>5, <1>6, <1>7 DEF SdpInv
-----------------------------------------------------------------------------
LEMMA SipSays ==
    ASSUME NEW o \in FromSip
    PROVE  o \in Desc /\ Coherent(o) /\ o.attrs \subseteq {"xr"} /\ Len(o.fmts) \in {1, 2}
<1>1. o \in Received /\ "ice" \notin o.attrs
  BY DEF FromSip
<1>2. o \in Desc /\ Coherent(o) /\ o.attrs \in AttrSets /\ Len(o.fmts) \in {1, 2}
  BY <1>1, ReceivedTyped
<1> QED
  BY <1>1, <1>2 DEF AttrSets

LEMMA NgnSaid ==
    ASSUME NEW o \in FromNgn
    PROVE  NgnSays(o)
<1>1. o \in FromSip /\ o.attrs = {}
  BY DEF FromNgn
<1> QED
  BY <1>1, SipSays DEF NgnSays

\* prepare_outbound_bridge.
LEMMA OffersKept ==
    ASSUME SdpInv, NEW o \in FromSip, NEW b \in BOOLEAN, ExtOffers(o, b)
    PROVE  SdpInv'
<1> DEFINE ready == b /\ HasEndpoint(o)
           pn == IF ready THEN BridgePort ELSE o.port
<1>1. o \in Desc /\ Coherent(o) /\ o.attrs \subseteq {"xr"}
  BY SipSays
<1>2. /\ sdpCall.stage = "Idle" /\ heard' = o
      /\ sdpCall' = [sdpCall EXCEPT !.stage = "Offered", !.way = "Out", !.bridged = ready]
      /\ toNgn' = Negotiated(IF ready THEN RewriteEndpoint(o, "ngn", BridgePort) ELSE Forced(o), <<PCMU, DTMF>>)
      /\ UNCHANGED <<fromNgn, toExt, plan, firstOffer, holdWish>>
  BY DEF ExtOffers
<1>3. ready \in BOOLEAN
  BY DEF HasEndpoint
<1>4. ready => o.parses
  BY DEF HasEndpoint
<1>5. (IF ready THEN RewriteEndpoint(o, "ngn", BridgePort) ELSE Forced(o))
        = IF o.parses THEN RewriteEndpoint(o, "ngn", pn) ELSE o
  <2> HIDE DEF ready
  <2> QED
    BY <1>4, Zenon DEF Forced
<1>6. pn \in Nat
  BY <1>1, BridgeTyped DEF Desc
<1>7. ready => pn = BridgePort
  OBVIOUS
<1> HIDE DEF pn, ready
<1>8. sdpCall \in Exchange
  BY DEF SdpInv, SdpTypes
<1>9. sdpCall' \in Exchange /\ sdpCall'.stage = "Offered" /\ sdpCall'.way = "Out" /\ (sdpCall'.bridged <=> ready)
  <2>1. sdpCall' \in Exchange
    BY <1>2, <1>3, <1>8 DEF Exchange, SdpStages
  <2>2. sdpCall'.stage = "Offered" /\ sdpCall'.way = "Out"
    BY <1>2, <1>3, <1>8 DEF Exchange
  <2>3. sdpCall'.bridged <=> ready
    BY <1>2, <1>3, <1>8 DEF Exchange
  <2> QED
    BY <2>1, <2>2, <2>3
<1>10. /\ toNgn' \in Desc
       /\ toNgn'.parses => ~Placeholder(toNgn')
       /\ toNgn'.parses /\ toNgn'.audio => Fit(toNgn') /\ ForNgn(toNgn') /\ toNgn'.port = pn
  BY <1>1, <1>2, <1>5, <1>6, SipOfferFits
<1>11. SdpTypes'
  BY <1>1, <1>2, <1>9, <1>10 DEF SdpInv, SdpTypes
<1>12. SoundFor(toNgn, sdpCall, fromNgn)'
  BY <1>7, <1>9, <1>10 DEF SoundFor
<1>13. HoldKeepsMedia' /\ PlanFits'
  BY <1>9 DEF HoldKeepsMedia, PlanFits
<1> QED
  BY <1>1, <1>2, <1>9, <1>11, <1>12, <1>13 DEF SdpInv

\* What PlanFits asks of a plan made from the codecs of both sides.
LEMMA PlanMade ==
    ASSUME NEW n, NEW e, Coherent(e), NEW p, p = MediaPlan(n, e)
    PROVE  /\ p \in {0, OpusPt}
           /\ p = 0 /\ Detect(n) = "Pcmu" => OpusOf(e) = {}
           /\ p # 0 => p \in Range(e.fmts) /\ HasPcmu(n)
<1>1. \A x \in OpusOf(e) : x = OpusPt /\ x \in Range(e.fmts)
  BY DEF Coherent, OpusOf
<1>2. CASE Detect(n) = "Pcmu" /\ Detect(e) = "Opus"
  <2>1. OpusOf(e) # {}
    BY <1>2 DEF Detect
  <2>2. p \in OpusOf(e)
    BY <1>2, <2>1 DEF MediaPlan
  <2>3. p = OpusPt /\ p \in Range(e.fmts) /\ p # 0
    BY <1>1, <2>2 DEF OpusPt
  <2>4. HasPcmu(n)
    BY <1>2 DEF Detect
  <2> QED
    BY <2>3, <2>4
<1>3. CASE ~(Detect(n) = "Pcmu" /\ Detect(e) = "Opus")
  <2>1. p = 0
    BY <1>3 DEF MediaPlan
  <2>2. Detect(n) = "Pcmu" => OpusOf(e) = {}
    BY <1>3 DEF Detect
  <2> QED
    BY <2>1, <2>2
<1> QED
  BY <1>2, <1>3

\* finalize_outbound_bridge.
LEMMA AnswersKept ==
    ASSUME SdpInv, NEW a \in FromNgn, NgnAnswersExt(a)
    PROVE  SdpInv'
<1> DEFINE ready == sdpCall.bridged /\ HasEndpoint(a)
<1>1. NgnSays(a)
  BY NgnSaid
<1>2. /\ sdpCall.stage = "Offered" /\ fromNgn' = a
      /\ sdpCall' = [sdpCall EXCEPT !.stage = "Agreed", !.bridged = ready]
      /\ plan' = IF ready THEN MediaPlan(a, heard) ELSE 0
      /\ UNCHANGED <<heard, toNgn, firstOffer, holdWish>>
  BY DEF NgnAnswersExt
<1>3. SdpTypes /\ sdpCall \in Exchange /\ Coherent(heard)
  BY DEF SdpInv, SdpTypes
<1>4. ready \in BOOLEAN /\ (ready => sdpCall.bridged)
  BY DEF HasEndpoint
<1> HIDE DEF ready
<1>5. sdpCall.way = "Out" /\ heard.attrs \subseteq {"xr"}
  BY <1>2 DEF SdpInv
<1>7. sdpCall' \in Exchange /\ sdpCall'.stage = "Agreed" /\ sdpCall'.way = "Out" /\ (sdpCall'.bridged <=> ready)
  <2>1. sdpCall' \in Exchange
    BY <1>2, <1>3, <1>4, <1>5 DEF Exchange, SdpStages
  <2>2. sdpCall'.stage = "Agreed" /\ sdpCall'.way = "Out"
    BY <1>2, <1>3, <1>4, <1>5 DEF Exchange
  <2>3. sdpCall'.bridged <=> ready
    BY <1>2, <1>3, <1>4, <1>5 DEF Exchange
  <2> QED
    BY <2>1, <2>2, <2>3
<1>8. plan' \in {0, OpusPt}
  BY <1>2, <1>3, PlanMade
<1>9. SdpTypes'
  BY <1>1, <1>2, <1>3, <1>7, <1>8 DEF SdpTypes
<1>10. SoundFor(toNgn, sdpCall, fromNgn)
  BY DEF SdpInv
<1>11. SoundFor(toNgn, sdpCall, fromNgn)'
  BY <1>2, <1>4, <1>5, <1>7, <1>10 DEF SoundFor
<1>12. HoldKeepsMedia'
  BY <1>7 DEF HoldKeepsMedia
<1>13. PlanFits'
  BY <1>2, <1>3, <1>7, PlanMade DEF PlanFits
<1> QED
  BY <1>2, <1>5, <1>7, <1>9, <1>11, <1>12, <1>13 DEF SdpInv

\* handle_ext_reinvite.
LEMMA ReoffersKept ==
    ASSUME SdpInv, NEW m \in Menu, NEW d \in {"None", "sendonly"}, sdpCall.stage = "Agreed",
           ExtReoffers([heard EXCEPT !.fmts = m.fmts, !.maps = m.maps, !.fmtp = m.fmtp, !.dir = d])
    PROVE  SdpInv'
<1> DEFINE f == m.fmts
           g == m.maps
           h == m.fmtp
           o == [heard EXCEPT !.fmts = f, !.maps = g, !.fmtp = h, !.dir = d]
<1>1. /\ f \in Seq(Types4) /\ g \in SUBSET MapOf /\ h \in SUBSET Types4
      /\ f # <<>> /\ h \subseteq Range(f) /\ Len(f) \in {1, 2}
      /\ \A x \in g : x.pt \in Range(f) /\ (x.name = "opus" => x.pt = OpusPt)
  BY MenuCoherent
<1>2. /\ heard' = o
      /\ sdpCall' = [sdpCall EXCEPT !.stage = "Reoffered", !.bridged = FALSE]
      /\ toNgn' = Negotiated(Forced(o), <<PCMU, DTMF>>)
      /\ UNCHANGED <<fromNgn, plan, firstOffer, holdWish>>
  BY DEF ExtReoffers
<1> HIDE DEF f, g, h
<1>3. SdpTypes /\ sdpCall \in Exchange /\ heard \in Desc /\ heard.attrs \subseteq {"xr"} /\ sdpCall.way = "Out"
  BY DEF SdpInv, SdpTypes
<1>a. d \in {"None", "sendonly", "sendrecv"}
  OBVIOUS
<1>4. o \in Desc
  BY <1>1, <1>3, <1>a DEF Desc
<1>5. o.fmts = f /\ o.maps = g /\ o.fmtp = h /\ o.attrs = heard.attrs
  BY <1>3 DEF Desc
<1> HIDE DEF o
<1>6. Coherent(o)
  BY <1>1, <1>5 DEF Coherent
<1>7. o.port \in Nat
  BY <1>4 DEF Desc
<1>8. toNgn' = Negotiated(IF o.parses THEN RewriteEndpoint(o, "ngn", o.port) ELSE o, <<PCMU, DTMF>>)
  BY <1>2, Zenon DEF Forced
<1>9. /\ toNgn' \in Desc
      /\ toNgn'.parses => ~Placeholder(toNgn')
      /\ toNgn'.parses /\ toNgn'.audio => Fit(toNgn') /\ ForNgn(toNgn')
  <2>1. o.attrs \subseteq {"xr"}
    BY <1>3, <1>5
  <2> QED
    BY <1>4, <1>7, <1>8, <2>1, SipOfferFits
<1>11. sdpCall' \in Exchange /\ sdpCall'.stage = "Reoffered" /\ sdpCall'.way = "Out" /\ (sdpCall'.bridged <=> FALSE)
  <2>1. sdpCall' \in Exchange
    BY <1>2, <1>3 DEF Exchange, SdpStages
  <2>2. sdpCall'.stage = "Reoffered" /\ sdpCall'.way = "Out"
    BY <1>2, <1>3 DEF Exchange
  <2>3. sdpCall'.bridged <=> FALSE
    BY <1>2, <1>3 DEF Exchange
  <2> QED
    BY <2>1, <2>2, <2>3
<1>12. SdpTypes'
  BY <1>2, <1>3, <1>4, <1>6, <1>9, <1>11 DEF SdpTypes
<1>13. SoundFor(toNgn, sdpCall, fromNgn)'
  BY <1>9, <1>11 DEF SoundFor
<1>14. HoldKeepsMedia' /\ PlanFits'
  BY <1>11 DEF HoldKeepsMedia, PlanFits
<1> QED
  BY <1>11, <1>12, <1>13, <1>14 DEF SdpInv

\* handle_pwa_outbound_offer_impl.
LEMMA WebKept ==
    ASSUME SdpInv, NEW b \in FromBrowser, PwaOffers(b)
    PROVE  SdpInv'
<1>1. b \in Desc /\ Coherent(b)
  <2>1. b \in Received
    BY DEF FromBrowser
  <2> QED
    BY <2>1, ReceivedTyped
<1>2. /\ sdpCall.stage = "Idle" /\ heard' = b /\ holdWish' = b.dir
      /\ UNCHANGED <<fromNgn, toExt, plan>>
  BY DEF PwaOffers
<1>3. /\ SdpTypes /\ sdpCall \in Exchange /\ toNgn = Silent /\ SoundFor(toNgn, sdpCall, fromNgn)
      /\ toNgn \in Desc /\ firstOffer \in Desc
  BY <1>2 DEF SdpInv, SdpTypes
<1>4. b.dir \in {"None", "sendonly", "sendrecv"}
  BY <1>1 DEF Desc
<1>5. CASE b.parses /\ b.audio
  <2> DEFINE o == RewriteEndpoint(Negotiated(SavpfToAvp(b), <<PCMU>>), "ngn", BridgePort)
  <2>1. /\ toNgn' = o /\ firstOffer' = o
        /\ sdpCall' = [sdpCall EXCEPT !.stage = "Talking", !.way = "Pwa", !.bridged = TRUE]
    BY <1>5 DEF PwaOffers
  <2>2. /\ o \in Desc /\ o.parses /\ o.audio /\ Fit(o) /\ ForNgn(o) /\ o.port = BridgePort /\ o.dir = b.dir
        /\ ~Placeholder(o)
    BY <1>1, <1>5, WebOfferFits
  <2> HIDE DEF o
  <2>3. sdpCall' \in Exchange
    BY <1>3, <2>1 DEF Exchange, SdpStages
  <2>4. sdpCall'.stage = "Talking" /\ sdpCall'.way = "Pwa"
    BY <1>3, <2>1 DEF Exchange
  <2>5. SdpTypes'
    BY <1>1, <1>2, <1>3, <1>4, <2>1, <2>2, <2>3 DEF SdpTypes
  <2>6. SoundFor(toNgn, sdpCall, fromNgn)'
    BY <2>1, <2>2, <2>4 DEF SoundFor
  <2>7. o = [o EXCEPT !.dir = b.dir]
    BY <2>2 DEF Desc
  <2>8. HoldKeepsMedia'
    BY <1>2, <2>1, <2>7 DEF HoldKeepsMedia
  <2>9. PlanFits'
    BY <2>4 DEF PlanFits
  <2> QED
    BY <2>1, <2>2, <2>4, <2>5, <2>6, <2>8, <2>9 DEF SdpInv
<1>6. CASE ~(b.parses /\ b.audio)
  <2>1. /\ sdpCall' = [sdpCall EXCEPT !.stage = "Failed", !.way = "Pwa"]
        /\ UNCHANGED <<toNgn, firstOffer>>
    BY <1>6 DEF PwaOffers
  <2>3. sdpCall' \in Exchange
    BY <1>3, <2>1 DEF Exchange, SdpStages
  <2>4. sdpCall'.stage = "Failed" /\ sdpCall'.way = "Pwa"
    BY <1>3, <2>1 DEF Exchange
  <2>5. SdpTypes'
    BY <1>1, <1>2, <1>3, <1>4, <2>1, <2>3 DEF SdpTypes
  <2>6. SoundFor(toNgn, sdpCall, fromNgn)'
    BY <1>3, <2>1, SilentKnown DEF SoundFor
  <2>8. HoldKeepsMedia' /\ PlanFits'
    BY <2>4 DEF HoldKeepsMedia, PlanFits
  <2> QED
    BY <2>4, <2>5, <2>6, <2>8 DEF SdpInv
<1> QED
  BY <1>5, <1>6

\* set_hold, accepted or refused.
LEMMA HoldsKept ==
    ASSUME SdpInv, NEW d \in {"sendonly", "sendrecv"}, SetHold(d) \/ HoldRefused
    PROVE  SdpInv'
<1>1. /\ sdpCall.stage = "Talking" /\ sdpCall.holds < MaxHolds
      /\ sdpCall' = [sdpCall EXCEPT !.holds = @ + 1]
      /\ UNCHANGED <<heard, fromNgn, toExt, plan, firstOffer>>
  BY DEF SetHold, HoldRefused
<1>2. /\ SdpTypes /\ sdpCall \in Exchange /\ toNgn \in Desc /\ toNgn.parses /\ toNgn.audio /\ sdpCall.way = "Pwa"
      /\ firstOffer \in Desc /\ SoundFor(toNgn, sdpCall, fromNgn)
  BY <1>1 DEF SdpInv, SdpTypes
<1>a. toNgn = [firstOffer EXCEPT !.dir = holdWish]
  BY <1>1 DEF SdpInv, HoldKeepsMedia
<1> DEFINE n == sdpCall.holds + 1
<1>3. n \in 0..MaxHolds /\ sdpCall' = [sdpCall EXCEPT !.holds = n]
  BY <1>1, <1>2, SdpAssumption DEF Exchange
<1> HIDE DEF n
<1>4. sdpCall' \in Exchange
  BY <1>2, <1>3 DEF Exchange
<1>5. sdpCall'.stage = "Talking" /\ sdpCall'.way = "Pwa"
  BY <1>1, <1>2, <1>3 DEF Exchange
<1>6. sdpCall'.bridged <=> sdpCall.bridged
  BY <1>1, <1>2, <1>3 DEF Exchange
<1>7. PlanFits'
  BY <1>5 DEF PlanFits
<1>8. CASE SetHold(d)
  <2>1. toNgn' = WithDirection(toNgn, d) /\ holdWish' = d
    BY <1>8 DEF SetHold
  <2>a. d \in {"None", "sendonly", "sendrecv"}
    OBVIOUS
  <2>2. /\ toNgn' = [toNgn EXCEPT !.dir = d] /\ toNgn' \in Desc /\ toNgn'.parses /\ toNgn'.audio
        /\ toNgn'.fmts = toNgn.fmts /\ toNgn'.maps = toNgn.maps /\ toNgn'.fmtp = toNgn.fmtp
        /\ toNgn'.attrs = toNgn.attrs
        /\ toNgn'.conn = toNgn.conn /\ toNgn'.mconn = toNgn.mconn /\ toNgn'.port = toNgn.port
        /\ toNgn'.rtcp = toNgn.rtcp
    BY <1>2, <2>1, <2>a, Directed
  <2>3. toNgn' = [firstOffer EXCEPT !.dir = d]
    <3> DEFINE t == [firstOffer EXCEPT !.dir = holdWish]
    <3>1. [t EXCEPT !.dir = d] = [firstOffer EXCEPT !.dir = d]
      BY <1>2 DEF Desc
    <3> HIDE DEF t
    <3>2. toNgn = t
      BY <1>a DEF t
    <3> QED
      BY <2>2, <3>1, <3>2
  <2>4. HoldKeepsMedia'
    BY <1>1, <2>1, <2>3 DEF HoldKeepsMedia
  <2>5. SdpTypes'
    BY <1>1, <1>2, <1>4, <2>1, <2>2 DEF SdpTypes
  <2>6. SoundFor(toNgn, sdpCall, fromNgn)'
    <3>1. Fit(toNgn) /\ ForNgn(toNgn) /\ ~Placeholder(toNgn) /\ (sdpCall.bridged => toNgn.port = BridgePort)
      BY <1>2 DEF SoundFor
    <3>2. Fit(toNgn')
      BY <3>1, <2>2 DEF Fit
    <3>3. ForNgn(toNgn')
      BY <3>1, <2>2 DEF ForNgn
    <3>4. ~Placeholder(toNgn')
      BY <3>2 DEF Fit, Placeholder
    <3> QED
      BY <1>5, <1>6, <2>2, <3>1, <3>2, <3>3, <3>4 DEF SoundFor
  <2> QED
    BY <1>5, <1>7, <2>2, <2>4, <2>5, <2>6 DEF SdpInv
<1>9. CASE HoldRefused
  <2>1. UNCHANGED <<toNgn, holdWish>>
    BY <1>9 DEF HoldRefused
  <2>2. SdpTypes'
    BY <1>1, <1>2, <1>4, <2>1 DEF SdpTypes
  <2>3. SoundFor(toNgn, sdpCall, fromNgn)'
    BY <1>1, <1>2, <1>5, <1>6, <2>1 DEF SoundFor
  <2>4. HoldKeepsMedia'
    BY <1>1, <1>a, <2>1 DEF HoldKeepsMedia
  <2> QED
    BY <1>2, <1>5, <1>7, <2>1, <2>2, <2>3, <2>4 DEF SdpInv
<1> QED
  BY <1>8, <1>9

\* An INVITE of the NGN.
LEMMA RingsKept ==
    ASSUME SdpInv, NEW o \in FromNgn, NgnOffers(o)
    PROVE  SdpInv'
<1>1. /\ sdpCall.stage = "Idle" /\ fromNgn' = o
      /\ sdpCall' = [sdpCall EXCEPT !.stage = "Ringing", !.way = "In"]
      /\ UNCHANGED <<heard, toNgn, toExt, plan, firstOffer, holdWish>>
  BY DEF NgnOffers
<1>2. SdpTypes /\ sdpCall \in Exchange /\ toNgn = Silent /\ heard = Silent /\ plan = 0 /\ ~sdpCall.bridged
  BY <1>1 DEF SdpInv, SdpTypes
<1>3. sdpCall' \in Exchange
  BY <1>1, <1>2 DEF Exchange, SdpStages
<1>4. sdpCall'.stage = "Ringing" /\ sdpCall'.way = "In"
  BY <1>1, <1>2 DEF Exchange
<1>5. ~sdpCall'.bridged
  BY <1>1, <1>2 DEF Exchange
<1>6. NgnSays(o)
  BY NgnSaid
<1>7. SdpTypes'
  BY <1>1, <1>2, <1>3, <1>6 DEF SdpTypes
<1>8. SoundFor(toNgn, sdpCall, fromNgn)'
  BY <1>1, <1>2, SilentKnown DEF SoundFor
<1>9. HoldKeepsMedia' /\ PlanFits'
  BY <1>4 DEF HoldKeepsMedia, PlanFits
<1> QED
  BY <1>1, <1>2, <1>4, <1>5, <1>7, <1>8, <1>9 DEF SdpInv

\* try_start_voicemail.
LEMMA VoicemailKept ==
    ASSUME SdpInv, VoicemailAnswers
    PROVE  SdpInv'
<1>1. /\ sdpCall.stage = "Ringing" /\ fromNgn.parses
      /\ toNgn' = RewriteEndpoint(fromNgn, "ngn", BridgePort)
      /\ sdpCall' = [sdpCall EXCEPT !.stage = "Answered", !.bridged = TRUE]
      /\ UNCHANGED <<heard, fromNgn, toExt, plan, firstOffer, holdWish>>
  BY DEF VoicemailAnswers
<1>2. SdpTypes /\ sdpCall \in Exchange /\ heard = Silent /\ plan = 0 /\ NgnSays(fromNgn) /\ sdpCall.way = "In"
  BY <1>1 DEF SdpInv, SdpTypes
<1>3. sdpCall' \in Exchange
  BY <1>1, <1>2 DEF Exchange, SdpStages
<1>4. sdpCall'.stage = "Answered" /\ sdpCall'.way = "In"
  BY <1>1, <1>2 DEF Exchange
<1>5. /\ toNgn' \in Desc /\ (toNgn'.parses <=> fromNgn.parses) /\ (toNgn'.audio <=> fromNgn.audio)
      /\ SameCodecs(toNgn', fromNgn) /\ toNgn'.conn = "ngn"
      /\ fromNgn.audio => /\ toNgn'.port = BridgePort /\ toNgn'.mconn = "None"
                          /\ toNgn'.rtcp \in {0, RtcpPort(BridgePort)}
  BY <1>1, <1>2, BridgeTyped, Rewritten DEF NgnSays
<1>6. SdpTypes'
  BY <1>1, <1>2, <1>3, <1>5 DEF SdpTypes
<1>7. ~Placeholder(toNgn')
  BY <1>5 DEF Placeholder
<1>8. ASSUME toNgn'.audio PROVE Fit(toNgn') /\ toNgn'.port = BridgePort /\ Range(toNgn'.fmts) \subseteq Range(fromNgn.fmts)
  <2>1. toNgn'.fmts = fromNgn.fmts /\ toNgn'.maps = fromNgn.maps /\ toNgn'.fmtp = fromNgn.fmtp /\ toNgn'.attrs = {}
    BY <1>2, <1>5 DEF SameCodecs, NgnSays
  <2>2. Coherent(fromNgn)
    BY <1>2 DEF NgnSays
  <2>3. Fit(toNgn')
    BY <1>5, <1>8, <2>1, <2>2 DEF Fit, Coherent
  <2> QED
    BY <1>5, <1>8, <2>1, <2>3
<1>9. SoundFor(toNgn, sdpCall, fromNgn)'
  BY <1>1, <1>4, <1>7, <1>8 DEF SoundFor
<1>10. HoldKeepsMedia' /\ PlanFits'
  BY <1>1, <1>2, <1>4 DEF HoldKeepsMedia, PlanFits
<1> QED
  BY <1>4, <1>6, <1>9, <1>10 DEF SdpInv

\* The 200 of an extension or a browser, bridged, refused or passed on.
LEMMA InboundKept ==
    ASSUME SdpInv, NEW e \in Received, NEW manager \in BOOLEAN, InboundAnswered(e, manager)
    PROVE  SdpInv'
<1> DEFINE body == LegBody(e)
           web == "ice" \in e.attrs
           bridges == manager /\ HasEndpoint(fromNgn) /\ Restrictable(fromNgn, body) /\ (web \/ HasEndpoint(body))
<1>1. /\ sdpCall.stage = "Ringing" /\ heard' = e
      /\ UNCHANGED <<fromNgn, toExt, firstOffer, holdWish>>
  BY DEF InboundAnswered
<1>2. \/ /\ bridges
         /\ toNgn' = PtimeOfOffer(RewriteEndpoint(Restricted(fromNgn, body), "ngn", BridgePort))
         /\ plan' = IF web THEN 0 ELSE MediaPlan(fromNgn, body)
         /\ sdpCall' = [sdpCall EXCEPT !.stage = "Answered", !.bridged = TRUE]
      \/ /\ sdpCall' = [sdpCall EXCEPT !.stage = "Failed"]
         /\ UNCHANGED <<toNgn, plan>>
      \/ /\ ~Placeholder(body)
         /\ toNgn' = PtimeOfOffer(body)
         /\ sdpCall' = [sdpCall EXCEPT !.stage = "Answered"]
         /\ UNCHANGED plan
  BY DEF InboundAnswered
<1>3. /\ SdpTypes /\ sdpCall \in Exchange /\ toNgn = Silent /\ plan = 0 /\ NgnSays(fromNgn) /\ sdpCall.way = "In"
      /\ ~sdpCall.bridged
  BY <1>1 DEF SdpInv, SdpTypes
<1>4. e \in Desc /\ Coherent(e) /\ e.attrs \in AttrSets
  BY ReceivedTyped
<1>5. body \in Desc /\ body.attrs \subseteq {"xr"} /\ (~web => body = e)
  <2>1. CASE web
    <3>1. body = SavpfToAvp(e)
      BY <2>1 DEF LegBody
    <3>2. body \in Desc /\ body.attrs = e.attrs \ {"ice", "group"}
      BY <1>4, <3>1, ToAvp
    <3> QED
      BY <1>4, <2>1, <3>2 DEF AttrSets
  <2>2. CASE ~web
    BY <1>4, <2>2 DEF LegBody, AttrSets
  <2> QED
    BY <2>1, <2>2
<1>6. fromNgn \in Desc /\ Len(fromNgn.fmts) \in {1, 2} /\ fromNgn.ptime \in Nat
  BY <1>3 DEF NgnSays, Desc
<1> HIDE DEF body, web
<1>7. CASE /\ bridges
           /\ toNgn' = PtimeOfOffer(RewriteEndpoint(Restricted(fromNgn, body), "ngn", BridgePort))
           /\ plan' = IF web THEN 0 ELSE MediaPlan(fromNgn, body)
           /\ sdpCall' = [sdpCall EXCEPT !.stage = "Answered", !.bridged = TRUE]
  <2> DEFINE r == RewriteEndpoint(Restricted(fromNgn, body), "ngn", BridgePort)
  <2>1. Restrictable(fromNgn, body)
    BY <1>7
  <2>2. /\ r \in Desc /\ r.parses /\ r.audio /\ Fit(r) /\ r.port = BridgePort
        /\ Range(r.fmts) \subseteq Range(fromNgn.fmts)
    BY <1>5, <1>6, <2>1, AnswerFits
  <2>3. toNgn' = r \/ toNgn' = EnsurePtime(r, fromNgn.ptime)
    BY <1>7 DEF PtimeOfOffer
  <2> HIDE DEF r
  <2>4. /\ toNgn' \in Desc /\ (toNgn'.parses <=> r.parses) /\ (toNgn'.audio <=> r.audio)
        /\ toNgn'.fmts = r.fmts /\ toNgn'.maps = r.maps /\ toNgn'.fmtp = r.fmtp /\ toNgn'.attrs = r.attrs
        /\ toNgn'.conn = r.conn /\ toNgn'.mconn = r.mconn /\ toNgn'.port = r.port /\ toNgn'.rtcp = r.rtcp
    <3>1. CASE toNgn' = r
      BY <2>2, <3>1
    <3>2. CASE toNgn' = EnsurePtime(r, fromNgn.ptime)
      BY <1>6, <2>2, <3>2, PtimeEnsured DEF SameCodecs
    <3> QED
      BY <2>3, <3>1, <3>2
  <2>5. Fit(toNgn')
    BY <2>2, <2>4 DEF Fit
  <2>6. ~Placeholder(toNgn')
    BY <2>5 DEF Fit, Placeholder
  <2>7. sdpCall' \in Exchange
    BY <1>3, <1>7 DEF Exchange, SdpStages
  <2>8. sdpCall'.stage = "Answered" /\ sdpCall'.way = "In"
    BY <1>3, <1>7 DEF Exchange
  <2>9. SoundFor(toNgn, sdpCall, fromNgn)'
    BY <1>1, <2>2, <2>4, <2>5, <2>6, <2>8 DEF SoundFor
  <2>10. HoldKeepsMedia'
    BY <2>8 DEF HoldKeepsMedia
  <2>11. plan' \in {0, OpusPt} /\ PlanFits'
    <3>1. CASE web
      <4>1. plan' = 0 /\ "ice" \in heard'.attrs
        BY <1>1, <1>7, <3>1 DEF web
      <4> QED
        BY <4>1 DEF PlanFits
    <3>2. CASE ~web
      <4>1. plan' = MediaPlan(fromNgn, e)
        BY <1>5, <1>7, <3>2
      <4>2. /\ plan' \in {0, OpusPt}
            /\ plan' = 0 /\ Detect(fromNgn) = "Pcmu" => OpusOf(e) = {}
            /\ plan' # 0 => plan' \in Range(e.fmts) /\ HasPcmu(fromNgn)
        BY <1>4, <4>1, PlanMade
      <4> QED
        BY <1>1, <4>2 DEF PlanFits
    <3> QED
      BY <3>1, <3>2
  <2>12. SdpTypes'
    BY <1>1, <1>3, <1>4, <2>4, <2>7, <2>11 DEF SdpTypes
  <2> QED
    BY <2>8, <2>9, <2>10, <2>11, <2>12 DEF SdpInv
<1>8. CASE /\ sdpCall' = [sdpCall EXCEPT !.stage = "Failed"]
           /\ UNCHANGED <<toNgn, plan>>
  <2>1. sdpCall' \in Exchange
    BY <1>3, <1>8 DEF Exchange, SdpStages
  <2>2. sdpCall'.stage = "Failed" /\ sdpCall'.way = "In"
    BY <1>3, <1>8 DEF Exchange
  <2>3. SdpTypes'
    BY <1>1, <1>3, <1>4, <1>8, <2>1 DEF SdpTypes
  <2>4. SoundFor(toNgn, sdpCall, fromNgn)'
    BY <1>3, <1>8, SilentKnown DEF SoundFor
  <2>5. HoldKeepsMedia' /\ PlanFits'
    BY <2>2 DEF HoldKeepsMedia, PlanFits
  <2> QED
    BY <2>2, <2>3, <2>4, <2>5 DEF SdpInv
<1>9. CASE /\ ~Placeholder(body)
           /\ toNgn' = PtimeOfOffer(body)
           /\ sdpCall' = [sdpCall EXCEPT !.stage = "Answered"]
           /\ UNCHANGED plan
  <2>1. sdpCall' \in Exchange
    BY <1>3, <1>9 DEF Exchange, SdpStages
  <2>2. sdpCall'.stage = "Answered" /\ sdpCall'.way = "In"
    BY <1>3, <1>9 DEF Exchange
  <2>3. ~sdpCall'.bridged
    BY <1>3, <1>9 DEF Exchange
  <2>4. toNgn' = body \/ toNgn' = EnsurePtime(body, fromNgn.ptime)
    BY <1>9 DEF PtimeOfOffer
  <2>5. toNgn' \in Desc /\ (toNgn'.audio <=> body.audio) /\ toNgn'.conn = body.conn /\ toNgn'.port = body.port
    <3>1. CASE toNgn' = body
      BY <1>5, <3>1
    <3>2. CASE toNgn' = EnsurePtime(body, fromNgn.ptime)
      BY <1>5, <1>6, <3>2, PtimeEnsured
    <3> QED
      BY <2>4, <3>1, <3>2
  <2>6. ~Placeholder(toNgn')
    BY <1>9, <2>5 DEF Placeholder
  <2>7. SoundFor(toNgn, sdpCall, fromNgn)'
    BY <2>2, <2>3, <2>6 DEF SoundFor
  <2>8. SdpTypes'
    BY <1>1, <1>3, <1>4, <1>9, <2>1, <2>5 DEF SdpTypes
  <2>9. HoldKeepsMedia' /\ PlanFits'
    BY <2>2, <2>3 DEF HoldKeepsMedia, PlanFits
  <2> QED
    BY <2>2, <2>7, <2>8, <2>9 DEF SdpInv
<1> QED
  BY <1>2, <1>7, <1>8, <1>9

LEMMA SdpKept == SdpInv /\ [SdpNext]_sdpVars => SdpInv'
<1> SUFFICES ASSUME SdpInv, [SdpNext]_sdpVars PROVE SdpInv'
  OBVIOUS
<1>1. CASE UNCHANGED sdpVars
  BY <1>1 DEF sdpVars, SdpInv, SdpTypes, SoundFor, HoldKeepsMedia, PlanFits, NgnSays
<1>2. CASE \E o \in FromSip, b \in BOOLEAN : ExtOffers(o, b)
  BY <1>2, OffersKept, Zenon
<1>3. CASE \E b \in FromBrowser : PwaOffers(b)
  BY <1>3, WebKept, Zenon
<1>4. CASE \E o \in FromNgn : NgnOffers(o)
  BY <1>4, RingsKept, Zenon
<1>5. CASE \E a \in FromNgn : NgnAnswersExt(a)
  BY <1>5, AnswersKept, Zenon
<1>6. CASE sdpCall.stage = "Agreed" /\ \E m \in Menu, d \in {"None", "sendonly"} :
               ExtReoffers([heard EXCEPT !.fmts = m.fmts, !.maps = m.maps, !.fmtp = m.fmtp, !.dir = d])
  BY <1>6, ReoffersKept
<1>7. CASE \E d \in {"sendonly", "sendrecv"} : SetHold(d)
  BY <1>7, HoldsKept, Zenon
<1>8. CASE HoldRefused
  BY <1>8, HoldsKept
<1>9. CASE \E e \in Received, m \in BOOLEAN : InboundAnswered(e, m)
  BY <1>9, InboundKept, Zenon
<1>10. CASE VoicemailAnswers
  BY <1>10, VoicemailKept, Zenon
<1> QED
  BY <1>1, <1>2, <1>3, <1>4, <1>5, <1>6, <1>7, <1>8, <1>9, <1>10, Zenon DEF SdpNext

-----------------------------------------------------------------------------
(* What the stub answers, and how often the 180 is repeated                *)

\* The stub answers with a payload type of the offer, named if it is a dynamic one.
LEMMA StubFits == StubAnswersFit
<1> SUFFICES ASSUME NEW d \in SessionDescription, MinimalAnswer(d) # NoAnswer
             PROVE  /\ \E i \in DOMAIN d.formats : d.formats[i] = MinimalAnswer(d).pt
                    /\ MinimalAnswer(d).pt >= 96 => MinimalAnswer(d).map
  BY DEF StubAnswersFit
<1> DEFINE f == d.formats
           p == Head(f)
<1>1. f # <<>>
  BY DEF MinimalAnswer
<1>2. f \in {<<>>, <<0>>, <<18>>, <<97>>, <<111, 0>>}
  BY DEF SessionDescription
<1>a. f \in Seq(Nat)
  <2>1. <<>> \in Seq(Nat) /\ <<0>> \in Seq(Nat)
    OBVIOUS
  <2>2. <<18>> \in Seq(Nat) /\ <<97>> \in Seq(Nat)
    OBVIOUS
  <2>3. <<111, 0>> \in Seq(Nat)
    OBVIOUS
  <2> HIDE DEF f
  <2> QED
    BY <1>2, <2>1, <2>2, <2>3, Zenon
<1>3. p \in Nat /\ 1 \in DOMAIN f /\ f[1] = p
  <2> HIDE DEF f
  <2> QED
    BY <1>1, <1>a
<1> DEFINE yes == [pt |-> p, map |-> TRUE]
           no == [pt |-> p, map |-> FALSE]
<1>4. MinimalAnswer(d) = yes \/ (p < 96 /\ MinimalAnswer(d) = no)
  BY <1>1 DEF MinimalAnswer
<1> HIDE DEF p
<1>5. yes.pt = p /\ no.pt = p
  OBVIOUS
<1>6. yes.map
  BY Zenon
<1> HIDE DEF yes, no
<1>7. MinimalAnswer(d).pt = p
  BY <1>4, <1>5
<1>8. p < 96 \/ MinimalAnswer(d).map
  BY <1>4, <1>6
<1> QED
  BY <1>3, <1>7, <1>8

\* The pause after n repetitions, and when the next one is due.
AtMostT2(k) == IF k < RelT2 THEN k ELSE RelT2
Paced(n, pause, due) ==
    /\ n = 0 => pause = 1 /\ due >= 1
    /\ n = 1 => pause = AtMostT2(2) /\ due >= 1 + AtMostT2(2)
    /\ n = 2 => pause = AtMostT2(4) /\ due >= 1 + AtMostT2(2) + AtMostT2(4)
    /\ n >= 3 => pause = RelT2 /\ due + 1 >= RelT2 * (n - 1)

\* Repeating the 180 keeps the pace: the pause doubles up to T2.
LEMMA PacedOn ==
    ASSUME NEW n \in Nat, NEW pause \in Nat, NEW due \in Nat, NEW t \in Nat, t >= due, Paced(n, pause, due),
           NEW nx, nx = IF 2 * pause < RelT2 THEN 2 * pause ELSE RelT2
    PROVE  Paced(n + 1, nx, t + nx)
<1>1. RelT2 \in Nat /\ RelT2 >= 1 /\ RelT2 <= 8
  BY RelAssumption
<1>2. CASE n = 0
  BY <1>1, <1>2 DEF Paced, AtMostT2
<1>3. CASE n = 1
  BY <1>1, <1>3 DEF Paced, AtMostT2
<1>4. CASE n = 2
  BY <1>1, <1>4 DEF Paced, AtMostT2
<1>5. CASE n >= 3
  <2>1. nx = RelT2 /\ due + 1 >= RelT2 * (n - 1)
    BY <1>1, <1>5 DEF Paced
  <2>2. RelT2 * ((n + 1) - 1) = RelT2 * (n - 1) + RelT2
    BY <1>1
  <2> DEFINE x == RelT2 * (n - 1)
             y == RelT2 * ((n + 1) - 1)
  <2>3. x \in Int /\ y \in Int
    BY <1>1
  <2> HIDE DEF x, y
  <2>4. (t + nx) + 1 >= y
    BY <1>1, <2>1, <2>2, <2>3 DEF x, y
  <2> QED
    BY <1>5, <2>1, <2>4 DEF Paced, y
<1> QED
  BY <1>2, <1>3, <1>4, <1>5

\* While the limit has not passed, there is room for one repetition more.
LEMMA PacedBound ==
    ASSUME NEW n \in Nat, NEW pause \in Nat, NEW due \in Nat, NEW t \in Nat, t >= due, t < RelLimit,
           Paced(n, pause, due)
    PROVE  n + 1 <= RelLimit \div RelT2 + 2
<1>1. RelT2 \in Nat /\ RelT2 >= 1 /\ RelT2 <= 8 /\ RelLimit \in Nat
  BY RelAssumption
<1> DEFINE q == RelLimit \div RelT2
<1>2. q \in Nat /\ RelLimit < RelT2 * (q + 1)
  BY <1>1
<1> SUFFICES n + 1 <= q + 2
  OBVIOUS
<1> HIDE DEF q
<1>3. CASE n < 2
  BY <1>2, <1>3
<1>4. CASE n = 2
  <2>1. RelLimit >= RelT2
    BY <1>1, <1>4 DEF Paced, AtMostT2
  <2>2. q # 0
    BY <1>1, <1>2, <2>1
  <2> QED
    BY <1>2, <1>4, <2>2
<1>5. CASE n >= 3
  <2>1. RelT2 * (n - 1) <= RelLimit
    <3> DEFINE x == RelT2 * (n - 1)
    <3>1. x \in Int /\ due + 1 >= x
      BY <1>1, <1>5 DEF Paced
    <3> HIDE DEF x
    <3>2. x <= RelLimit
      BY <1>1, <3>1
    <3> QED
      BY <3>2 DEF x
  <2>2. ASSUME n - 1 >= q + 1 PROVE FALSE
    <3>1. RelT2 * (n - 1) >= RelT2 * (q + 1)
      BY <1>1, <1>2, <2>2
    <3> DEFINE x == RelT2 * (n - 1)
               y == RelT2 * (q + 1)
    <3>2. x \in Int /\ y \in Int
      BY <1>1, <1>2
    <3> HIDE DEF x, y
    <3> QED
      BY <1>1, <1>2, <2>1, <3>1, <3>2 DEF x, y
  <2> QED
    BY <1>2, <2>2
<1> QED
  BY <1>3, <1>4, <1>5

RepeatsFew ==
    /\ Len(relSends) <= RelLimit \div RelT2 + 2
    /\ relTask.on => Paced(Len(relSends), relTask.interval, relTask.due)

LEMMA FewStart == RelInit => RepeatsFew
<1>1. RelLimit \div RelT2 \in Nat
  BY RelAssumption
<1>2. RelInit => ~relTask.on
  BY DEF RelInit
<1>3. RelInit => Len(relSends) = 0
  BY DEF RelInit
<1> QED
  BY <1>1, <1>2, <1>3 DEF RepeatsFew

\* The number of repetitions is bounded by the time there is, step by step.
LEMMA FewKept == RingingInv /\ RepeatsFew /\ [RelNext]_relVars2 => RepeatsFew'
<1> SUFFICES ASSUME RingingInv, RepeatsFew, [RelNext]_relVars2 PROVE RepeatsFew'
  OBVIOUS
<1>1. RelTypes /\ RelStateInv
  BY DEF RingingInv
<1>2. CASE relSends' = relSends /\ (relTask'.on => relTask' = relTask)
  BY <1>2 DEF RepeatsFew
<1>3. CASE RingReliably
  <2>1. relSends = <<>> /\ relSends' = relSends
    BY <1>1, <1>3 DEF RelStateInv, RingReliably
  <2>2. relTask' = [on |-> TRUE, due |-> relNow + 1, interval |-> 1] /\ relNow \in Nat
    BY <1>1, <1>3 DEF RingReliably, RelTypes
  <2>3. relTask'.interval = 1 /\ relTask'.due >= 1
    BY <2>2
  <2>4. Len(relSends') = 0
    BY <2>1
  <2>5. Paced(0, relTask'.interval, relTask'.due)
    BY <2>3 DEF Paced
  <2> QED
    BY <2>1, <2>4, <2>5 DEF RepeatsFew
<1>4. CASE RepeatRinging
  <2>1. CASE relTask' = [relTask EXCEPT !.on = FALSE] /\ UNCHANGED relSends
    <3>1. ~relTask'.on
      BY <1>1, <2>1 DEF RelTypes
    <3> QED
      BY <2>1, <3>1 DEF RepeatsFew
  <2>2. CASE /\ relNow < RelLimit
             /\ relSends' = Append(relSends, relNow)
             /\ LET next == IF 2 * relTask.interval < RelT2 THEN 2 * relTask.interval ELSE RelT2
                IN  relTask' = [relTask EXCEPT !.interval = next, !.due = relNow + next]
    <3> DEFINE n == Len(relSends)
               iv == relTask.interval
               du == relTask.due
               nx == IF 2 * iv < RelT2 THEN 2 * iv ELSE RelT2
    <3>1. n \in Nat /\ iv \in Nat /\ du \in Nat /\ relNow \in Nat /\ relNow >= du /\ relTask.on
      BY <1>1, <1>4 DEF RelTypes, RepeatRinging
    <3>2. Paced(n, iv, du)
      BY <3>1 DEF RepeatsFew
    <3>3. Len(relSends') = n + 1
      BY <1>1, <2>2 DEF RelTypes
    <3>4. relTask'.interval = nx /\ relTask'.due = relNow + nx
      BY <1>1, <2>2 DEF RelTypes
    <3> HIDE DEF n, iv, du
    <3>5. Paced(n + 1, nx, relNow + nx)
      BY <3>1, <3>2, PacedOn
    <3>6. n + 1 <= RelLimit \div RelT2 + 2
      BY <2>2, <3>1, <3>2, PacedBound
    <3> QED
      BY <3>3, <3>4, <3>5, <3>6 DEF RepeatsFew
  <2> QED
    BY <1>4, <2>1, <2>2 DEF RepeatRinging
<1>5. CASE RelNotified
  <2>1. ~relTask'.on /\ relSends' = relSends
    BY <1>1, <1>5 DEF RelTypes, RelNotified
  <2> QED
    BY <2>1 DEF RepeatsFew
<1>6. CASE UNCHANGED relVars2 \/ RelTick
  <2>1. relSends' = relSends /\ relTask' = relTask
    BY <1>6 DEF relVars2, RelTick
  <2> QED
    BY <1>2, <2>1
<1>7. CASE RelCancelled \/ RelWait \/ RelReceived \/ RelTimeout \/ RelFinish
  <2>1. relSends' = relSends /\ (relTask' = relTask \/ relTask' = [relTask EXCEPT !.on = FALSE])
    BY <1>7 DEF RelCancelled, RelWait, RelReceived, RelTimeout, RelFinish, CleanRel, TaskAfterDrop
  <2>2. relTask'.on => relTask' = relTask
    BY <1>1, <2>1 DEF RelTypes
  <2> QED
    BY <1>2, <2>1, <2>2
<1>8. ASSUME NEW p \in RelPrack,
             \/ RelPrackFinds(p) \/ RelPrackTakes(p) \/ RelPrackAnswers(p) \/ RelPrackNotifies(p) \/ RelPrackDone(p)
      PROVE  RepeatsFew'
  <2>1. relSends' = relSends /\ (relTask' = relTask \/ relTask' = [relTask EXCEPT !.on = FALSE])
    BY <1>8 DEF RelPrackFinds, RelPrackTakes, RelPrackAnswers, RelPrackNotifies, RelPrackDone, RelElse, TaskAfterDrop
  <2>2. relTask'.on => relTask' = relTask
    BY <1>1, <2>1 DEF RelTypes
  <2> QED
    BY <1>2, <2>1, <2>2
<1> QED
  BY <1>3, <1>4, <1>5, <1>6, <1>7, <1>8, Zenon DEF RelNext
-----------------------------------------------------------------------------
(* Whom a call from the NGN is for                                         *)

\* What filter_bindings_by_aor has after each name.
Grows(f, m, w, all) ==
    /\ f[0] = <<>>
    /\ \A n \in 1..m : f[n] = IF Contains(all, w[n]) THEN Append(f[n - 1], w[n]) ELSE f[n - 1]

\* There is a sequence of partial results for every length.
LEMMA GrowsOn ==
    ASSUME NEW S, NEW w \in Seq(S), NEW all, NEW m \in 0..Len(w)
    PROVE  \E f \in [0..m -> Seq(S)] : Grows(f, m, w, all)
<1> DEFINE Bad == {k \in 0..Len(w) : ~\E f \in [0..k -> Seq(S)] : Grows(f, k, w, all)}
<1> SUFFICES ASSUME Bad # {} PROVE FALSE
  BY Zenon
<1>1. Bad \in SUBSET Nat
  OBVIOUS
<1>2. PICK k \in Bad : \A y \in Bad : k <= y
  BY <1>1, LeastNatural
<1>3. k \in 0..Len(w) /\ ~\E f \in [0..k -> Seq(S)] : Grows(f, k, w, all)
  OBVIOUS
<1>4. CASE k = 0
  <2> DEFINE f == [n \in 0..0 |-> <<>>]
  <2>1. f \in [0..0 -> Seq(S)] /\ f[0] = <<>>
    OBVIOUS
  <2> HIDE DEF f
  <2>2. Grows(f, 0, w, all)
    BY <2>1 DEF Grows
  <2> QED
    BY <1>3, <1>4, <2>1, <2>2
<1>5. CASE k # 0
  <2>1. k \in 1..Len(w) /\ k - 1 \in 0..Len(w) /\ k - 1 < k
    BY <1>3, <1>5
  <2>2. k - 1 \notin Bad
    <3> HIDE DEF Bad
    <3> QED
      BY <1>1, <1>2, <2>1
  <2>3. PICK f \in [0..(k - 1) -> Seq(S)] : Grows(f, k - 1, w, all)
    BY <2>1, <2>2
  <2> DEFINE last == IF Contains(all, w[k]) THEN Append(f[k - 1], w[k]) ELSE f[k - 1]
             g == [n \in 0..k |-> IF n = k THEN last ELSE f[n]]
  <2>4. f[k - 1] \in Seq(S) /\ w[k] \in S
    BY <2>1, <2>3
  <2>5. last \in Seq(S)
    BY <2>4
  <2> HIDE DEF last
  <2>6. g \in [0..k -> Seq(S)]
    BY <2>1, <2>3, <2>5
  <2>7. g[k] = last /\ \A n \in 0..(k - 1) : g[n] = f[n]
    BY <2>1
  <2> HIDE DEF g, Bad
  <2>8. ASSUME NEW n \in 1..k
        PROVE  g[n] = IF Contains(all, w[n]) THEN Append(g[n - 1], w[n]) ELSE g[n - 1]
    <3>1. n - 1 \in 0..(k - 1)
      BY <2>1
    <3>2. g[n - 1] = f[n - 1]
      BY <2>7, <3>1
    <3>3. CASE n = k
      BY <2>7, <3>2, <3>3 DEF last
    <3>4. CASE n # k
      <4>1. n \in 1..(k - 1) /\ n \in 0..(k - 1)
        BY <2>1, <3>4
      <4>2. f[n] = IF Contains(all, w[n]) THEN Append(f[n - 1], w[n]) ELSE f[n - 1]
        BY <2>3, <4>1 DEF Grows
      <4> QED
        BY <2>7, <3>2, <4>1, <4>2
    <3> QED
      BY <3>3, <3>4
  <2>9. g[0] = <<>>
    BY <2>1, <2>3, <2>7 DEF Grows
  <2>10. Grows(g, k, w, all)
    BY <2>8, <2>9 DEF Grows
  <2> QED
    BY <1>3, <2>6, <2>10
<1> QED
  BY <1>4, <1>5

\* Filter is the last of its partial results.
LEMMA FilterOf ==
    ASSUME NEW S, NEW w \in Seq(S), NEW all
    PROVE  \E g : Filter(all, w) = g[Len(w)] /\ Grows(g, Len(w), w, all)
<1> DEFINE L == Len(w)
           F(f) == [n \in 0..L |-> IF n = 0 THEN <<>>
                                   ELSE IF Contains(all, w[n]) THEN Append(f[n - 1], w[n]) ELSE f[n - 1]]
           g == CHOOSE f : f = F(f)
<1>1. Filter(all, w) = g[L]
  BY DEF Filter
<1>2. L \in Nat
  OBVIOUS
<1>3. PICK h \in [0..L -> Seq(S)] : Grows(h, L, w, all)
  <2>1. L \in 0..Len(w)
    OBVIOUS
  <2> QED
    BY <2>1, GrowsOn
<1> HIDE DEF L
<1>4. h = F(h)
  <2>1. ASSUME NEW n \in 0..L
        PROVE  h[n] = IF n = 0 THEN <<>> ELSE IF Contains(all, w[n]) THEN Append(h[n - 1], w[n]) ELSE h[n - 1]
    <3>1. CASE n = 0
      BY <1>3, <3>1 DEF Grows
    <3>2. CASE n # 0
      <4>1. n \in 1..L
        BY <1>2, <3>2
      <4> QED
        BY <1>3, <3>2, <4>1 DEF Grows
    <3> QED
      BY <3>1, <3>2
  <2>2. h = [n \in 0..L |-> h[n]]
    BY <1>3
  <2> QED
    BY <2>1, <2>2, Zenon
<1>5. g = F(g)
  <2> HIDE DEF F
  <2> QED
    BY <1>4, Zenon
<1>7. Grows(g, L, w, all)
  <2>1. F(g)[0] = <<>>
    BY <1>2
  <2>2. ASSUME NEW n \in 1..L
        PROVE  F(g)[n] = IF Contains(all, w[n]) THEN Append(g[n - 1], w[n]) ELSE g[n - 1]
    <3>1. n \in 0..L /\ n # 0
      BY <1>2
    <3> QED
      BY <3>1, Zenon
  <2> HIDE DEF F, g
  <2> QED
    BY <1>5, <2>1, <2>2 DEF Grows
<1> HIDE DEF g
<1> QED
  BY <1>1, <1>7 DEF L

LEMMA HasOneMore ==
    ASSUME NEW S, NEW s \in Seq(S), NEW x \in S, NEW a
    PROVE  Contains(Append(s, x), a) <=> Contains(s, a) \/ x = a
<1> DEFINE t == Append(s, x)
           L == Len(s)
<1>1. L \in Nat /\ Len(t) = L + 1 /\ t[L + 1] = x /\ \A i \in 1..L : t[i] = s[i]
  OBVIOUS
<1> HIDE DEF t, L
<1>2. (\E i \in 1..(L + 1) : t[i] = a) <=> (\E i \in 1..L : s[i] = a) \/ x = a
  BY <1>1
<1> QED
  BY <1>1, <1>2 DEF Contains, t, L

\* s is of those among the first m of w that are in all.
Keeps(s, m, w, all, S) ==
    s \in Seq(S) /\ \A a : Contains(s, a) <=> Contains(all, a) /\ \E i \in 1..m : w[i] = a

\* A partial result has what its part of the rule names and is there.
LEMMA GrownHas ==
    ASSUME NEW S, NEW w \in Seq(S), NEW all, NEW g, Grows(g, Len(w), w, all), NEW m \in 0..Len(w)
    PROVE  Keeps(g[m], m, w, all, S)
<1> DEFINE Right(k) == g[k] \in Seq(S) /\ \A a : Contains(g[k], a) <=> Contains(all, a) /\ \E i \in 1..k : w[i] = a
           Bad == {k \in 0..Len(w) : ~Right(k)}
<1> SUFFICES ASSUME Bad # {} PROVE FALSE
  BY Zenon DEF Keeps
<1>1. Bad \in SUBSET Nat
  OBVIOUS
<1>2. PICK k \in Bad : \A y \in Bad : k <= y
  BY <1>1, LeastNatural
<1>3. k \in 0..Len(w) /\ ~Right(k)
  OBVIOUS
<1>4. CASE k = 0
  <2>1. g[0] = <<>>
    BY DEF Grows
  <2>2. g[0] \in Seq(S) /\ \A a : ~Contains(g[0], a)
    BY <2>1 DEF Contains
  <2>3. ~\E i \in 1..0 : TRUE
    OBVIOUS
  <2> QED
    BY <1>3, <1>4, <2>2, <2>3
<1>5. CASE k # 0
  <2>1. k \in 1..Len(w) /\ k - 1 \in 0..Len(w) /\ k - 1 < k /\ k \in Nat
    BY <1>3, <1>5
  <2>2. k - 1 \notin Bad
    <3> HIDE DEF Bad
    <3> QED
      BY <1>1, <1>2, <2>1
  <2>3. Right(k - 1)
    BY <2>1, <2>2
  <2>4. w[k] \in S
    BY <2>1
  <2>5. g[k] = IF Contains(all, w[k]) THEN Append(g[k - 1], w[k]) ELSE g[k - 1]
    BY <2>1 DEF Grows
  <2> HIDE DEF Bad
  <2>6. \A a : (\E i \in 1..k : w[i] = a) <=> (\E i \in 1..(k - 1) : w[i] = a) \/ w[k] = a
    BY <2>1
  <2>7. CASE Contains(all, w[k])
    <3>1. g[k] = Append(g[k - 1], w[k]) /\ g[k - 1] \in Seq(S)
      BY <2>3, <2>5, <2>7
    <3>2. \A a : Contains(g[k], a) <=> Contains(g[k - 1], a) \/ w[k] = a
      BY <2>4, <3>1, HasOneMore
    <3>3. g[k] \in Seq(S)
      BY <2>4, <3>1
    <3>4. \A a : Contains(g[k - 1], a) <=> Contains(all, a) /\ \E i \in 1..(k - 1) : w[i] = a
      BY <2>3
    <3>5. \A a : Contains(g[k], a) <=> Contains(all, a) /\ \E i \in 1..k : w[i] = a
      BY <2>6, <2>7, <3>2, <3>4, Zenon
    <3> QED
      BY <1>3, <3>3, <3>5, Zenon
  <2>8. CASE ~Contains(all, w[k])
    <3>1. g[k] = g[k - 1] /\ g[k] \in Seq(S)
      BY <2>3, <2>5, <2>8
    <3>4. \A a : Contains(g[k], a) <=> Contains(all, a) /\ \E i \in 1..(k - 1) : w[i] = a
      BY <2>3, <3>1
    <3>5. \A a : Contains(g[k], a) <=> Contains(all, a) /\ \E i \in 1..k : w[i] = a
      BY <2>6, <2>8, <3>4, Zenon
    <3> QED
      BY <1>3, <3>1, <3>5, Zenon
  <2> QED
    BY <2>7, <2>8
<1> QED
  BY <1>4, <1>5

\* Filtering by two lists that agree on the names of the rule gives the same.
LEMMA GrownSame ==
    ASSUME NEW S, NEW w \in Seq(S), NEW all, NEW some, NEW g, NEW h,
           Grows(g, Len(w), w, all), Grows(h, Len(w), w, some),
           \A i \in 1..Len(w) : Contains(all, w[i]) <=> Contains(some, w[i]),
           NEW m \in 0..Len(w)
    PROVE  g[m] = h[m]
<1> DEFINE Bad == {k \in 0..Len(w) : g[k] # h[k]}
<1> SUFFICES ASSUME Bad # {} PROVE FALSE
  BY Zenon
<1>1. Bad \in SUBSET Nat
  OBVIOUS
<1>2. PICK k \in Bad : \A y \in Bad : k <= y
  BY <1>1, LeastNatural
<1>3. k \in 0..Len(w) /\ g[k] # h[k]
  OBVIOUS
<1>4. k # 0
  BY <1>3 DEF Grows
<1>5. k \in 1..Len(w) /\ k - 1 \in 0..Len(w) /\ k - 1 < k
  BY <1>3, <1>4
<1>6. k - 1 \notin Bad
  <2> HIDE DEF Bad
  <2> QED
    BY <1>1, <1>2, <1>5
<1>7. g[k - 1] = h[k - 1]
  BY <1>5, <1>6
<1>8. /\ g[k] = IF Contains(all, w[k]) THEN Append(g[k - 1], w[k]) ELSE g[k - 1]
      /\ h[k] = IF Contains(some, w[k]) THEN Append(h[k - 1], w[k]) ELSE h[k - 1]
      /\ Contains(all, w[k]) <=> Contains(some, w[k])
  BY <1>5 DEF Grows
<1> QED
  BY <1>3, <1>7, <1>8

\* filter_bindings_by_aor leaves those named that are there, in the order they are named.
LEMMA FilterRight ==
    ASSUME NEW S, NEW w \in Seq(S), NEW all
    PROVE  /\ Filter(all, w) \in Seq(S)
           /\ \A a : Contains(Filter(all, w), a) <=> Contains(w, a) /\ Contains(all, a)
           /\ Filter(Filter(all, w), w) = Filter(all, w)
<1> DEFINE r == Filter(all, w)
<1>1. PICK g : r = g[Len(w)] /\ Grows(g, Len(w), w, all)
  BY FilterOf
<1>2. Len(w) \in 0..Len(w)
  OBVIOUS
<1> HIDE DEF r
<1>3. r \in Seq(S) /\ \A a : Contains(r, a) <=> Contains(all, a) /\ \E i \in 1..Len(w) : w[i] = a
  <2> DEFINE m == Len(w)
  <2>1. m \in 0..Len(w) /\ Grows(g, Len(w), w, all)
    BY <1>1, <1>2
  <2> HIDE DEF m
  <2>2. Keeps(g[m], m, w, all, S)
    BY <2>1, GrownHas
  <2> QED
    BY <1>1, <2>2, Zenon DEF m, Keeps
<1>4. PICK h : Filter(r, w) = h[Len(w)] /\ Grows(h, Len(w), w, r)
  BY FilterOf
<1>5. \A i \in 1..Len(w) : Contains(all, w[i]) <=> Contains(r, w[i])
  BY <1>3
<1>6. Filter(r, w) = r
  BY <1>1, <1>2, <1>4, <1>5, GrownSame
<1>7. \A a : Contains(r, a) <=> Contains(w, a) /\ Contains(all, a)
  BY <1>3 DEF Contains
<1> QED
  BY <1>3, <1>6, <1>7 DEF r
-----------------------------------------------------------------------------
(* Routing rules                                                           *)

HourOfDay == 0..(Hours - 1)

\* The remainder in Since, resolved.
LEMMA SinceIs ==
    ASSUME NEW a \in HourOfDay, NEW h \in HourOfDay
    PROVE  Since(a, h) = IF a <= h THEN h - a ELSE h + Hours - a
<1>1. Hours \in Nat \ {0, 1}
  BY RoutingAssumption
<1>2. CASE a <= h
  <2>1. h + Hours - a = 1 * Hours + (h - a) /\ h - a \in 0..(Hours - 1) /\ h + Hours - a \in Int
    BY <1>1, <1>2 DEF HourOfDay
  <2>2. (h + Hours - a) % Hours = h - a
    <3> DEFINE i == h + Hours - a
               r == h - a
    <3>1. i = 1 * Hours + r /\ r \in 0..(Hours - 1) /\ i \in Int
      BY <2>1
    <3> HIDE DEF i, r
    <3>2. i % Hours = r
      BY <1>1, <3>1, Remainder
    <3> QED
      BY <3>2 DEF i, r
  <2> QED
    BY <1>2, <2>2 DEF Since
<1>3. CASE ~(a <= h)
  <2>1. h + Hours - a = 0 * Hours + (h + Hours - a) /\ h + Hours - a \in 0..(Hours - 1)
    BY <1>1, <1>3 DEF HourOfDay
  <2>2. (h + Hours - a) % Hours = h + Hours - a
    BY <1>1, <2>1, Remainder
  <2> QED
    BY <1>3, <2>2 DEF Since
<1> QED
  BY <1>2, <1>3

\* time_in_range is the hours from the start that are fewer than the length.
LEMMA RangeIsSpan ==
    ASSUME NEW a \in HourOfDay, NEW e \in HourOfDay, NEW h \in HourOfDay
    PROVE  TimeInRange(h, <<a, e>>) <=> Since(a, h) < Since(a, e)
<1>1. Hours \in Nat \ {0, 1}
  BY RoutingAssumption
<1>2. /\ Since(a, h) = IF a <= h THEN h - a ELSE h + Hours - a
      /\ Since(a, e) = IF a <= e THEN e - a ELSE e + Hours - a
  BY SinceIs
<1>3. TimeInRange(h, <<a, e>>) <=> /\ a # e
                                   /\ IF a < e THEN a <= h /\ h < e ELSE a <= h \/ h < e
  BY DEF TimeInRange
<1> QED
  BY <1>1, <1>2, <1>3 DEF HourOfDay

\* What the days, the span and the caller of a rule say, without an order.
RuleFits(r, day, hour, from) ==
    /\ r.days \in {NotGiven, day} /\ r.from \in {NotGiven, from}
    /\ r.span # AnyTime => Since(r.span[1], hour) < Since(r.span[1], r.span[2])

\* A rule that was validated matches when its criteria fit.
LEMMA MatchesIsFits ==
    ASSUME NEW r \in Rule, Valid(r), NEW day, NEW hour \in HourOfDay, NEW from
    PROVE  Matches(r, day, hour, from) <=> RuleFits(r, day, hour, from)
<1>1. Hours \in Nat \ {0, 1}
  BY RoutingAssumption
<1> DEFINE p == r.span
<1>2. p \in Spans /\ p # Unreadable
  BY DEF Rule, Valid
<1> HIDE DEF p
<1>3. CASE p = AnyTime
  BY <1>3 DEF Matches, RuleFits, p
<1>4. CASE p # AnyTime
  <2>1. PICK a \in HourOfDay, e \in HourOfDay : p = <<a, e>>
    <3>1. 0 \in HourOfDay /\ 1 \in HourOfDay /\ Hours - 1 \in HourOfDay
      BY <1>1 DEF HourOfDay
    <3> QED
      BY <1>2, <1>4, <3>1, Zenon DEF Spans
  <2>2. p[1] = a /\ p[2] = e
    BY <2>1
  <2>3. TimeInRange(hour, p) <=> Since(p[1], hour) < Since(p[1], p[2])
    BY <2>1, <2>2, RangeIsSpan
  <2> QED
    BY <1>2, <1>4, <2>3, Zenon DEF Matches, RuleFits, p
<1> QED
  BY <1>3, <1>4

-----------------------------------------------------------------------------

RulesTyped ==
    /\ rules \in Seq(Rule) /\ Len(rules) <= 2
    /\ \A i \in DOMAIN rules : Valid(rules[i])

\* The sort puts every rule in its place, and no two before each other.
LEMMA SortedRight ==
    ASSUME RulesTyped
    PROVE  /\ Sorted \in [DOMAIN rules -> DOMAIN rules]
           /\ \A m, n \in DOMAIN rules : m < n => Before(Sorted[m], Sorted[n])
           /\ \A i \in DOMAIN rules : \E n \in DOMAIN rules : Sorted[n] = i
           /\ \A i, j \in DOMAIN rules : ~(Before(i, j) /\ Before(j, i))
<1> DEFINE D == DOMAIN rules
           InOrder(f) == \A m, n \in D : m < n => Before(f[m], f[n])
<1>1. D = 1..Len(rules) /\ Len(rules) \in {0, 1, 2}
  <2>1. D = 1..Len(rules) /\ Len(rules) \in Nat /\ Len(rules) <= 2
    BY DEF RulesTyped
  <2> QED
    BY <2>1
<1>2. \A i \in D : rules[i].priority \in {0, 1}
  <2>1. \A i \in D : rules[i] \in Rule
    BY DEF RulesTyped
  <2> QED
    BY <2>1 DEF Rule
<1>3. \A i, j \in D : ~(Before(i, j) /\ Before(j, i)) /\ (i # j => Before(i, j) \/ Before(j, i))
  BY <1>1, <1>2 DEF Before
<1>4. \E f \in [D -> D] : InOrder(f)
  <2>1. CASE Len(rules) = 2
    <3>1. D = {1, 2}
      BY <1>1, <2>1
    <3>2. CASE Before(1, 2)
      <4> DEFINE f == [n \in D |-> n]
      <4>1. f \in [D -> D] /\ f[1] = 1 /\ f[2] = 2
        BY <3>1
      <4>2. InOrder(f)
        BY <3>1, <3>2, <4>1
      <4> HIDE DEF f, InOrder, D
      <4> QED
        BY <4>1, <4>2
    <3>3. CASE Before(2, 1)
      <4> DEFINE f == [n \in D |-> 3 - n]
      <4>1. f \in [D -> D] /\ f[1] = 2 /\ f[2] = 1
        BY <3>1
      <4>2. InOrder(f)
        BY <3>1, <3>3, <4>1
      <4> HIDE DEF f, InOrder, D
      <4> QED
        BY <4>1, <4>2
    <3> QED
      BY <1>3, <3>1, <3>2, <3>3
  <2>2. CASE Len(rules) # 2
    <3> DEFINE f == [n \in D |-> n]
    <3>1. f \in [D -> D]
      OBVIOUS
    <3>2. \A m, n \in D : ~(m < n)
      BY <1>1, <2>2
    <3>3. InOrder(f)
      BY <3>2
    <3> HIDE DEF f, InOrder, D
    <3> QED
      BY <3>1, <3>3
  <2> QED
    BY <2>1, <2>2
<1>5. Sorted = CHOOSE f \in [D -> D] : InOrder(f)
  BY DEF Sorted
<1>6. Sorted \in [D -> D] /\ InOrder(Sorted)
  <2> HIDE DEF InOrder, D
  <2> QED
    BY <1>4, <1>5, Zenon
<1> DEFINE f == Sorted
<1>7. f \in [D -> D] /\ InOrder(f)
  BY <1>6
<1> HIDE DEF f
<1>8. \A i \in D : \E n \in D : f[n] = i
  <2>1. CASE Len(rules) = 2
    <3>1. D = {1, 2}
      BY <1>1, <2>1
    <3>2. Before(f[1], f[2]) /\ f[1] \in {1, 2} /\ f[2] \in {1, 2}
      BY <1>7, <3>1
    <3>3. f[1] # f[2]
      BY <1>3, <3>1, <3>2
    <3> QED
      BY <3>1, <3>2, <3>3
  <2>2. CASE Len(rules) # 2
    <3>1. D = {} \/ D = {1}
      BY <1>1, <2>2
    <3> QED
      BY <1>7, <3>1
  <2> QED
    BY <2>1, <2>2
<1> QED
  BY <1>3, <1>6, <1>8, Zenon DEF f

-----------------------------------------------------------------------------
\* evaluate finds the rule that fits and that no other that fits goes before.
LEMMA EvaluateRight ==
    ASSUME RulesTyped, NEW day, NEW hour \in HourOfDay, NEW from,
           NEW F, F = {i \in DOMAIN rules : RuleFits(rules[i], day, hour, from)},
           NEW e, e = Evaluate(day, hour, from)
    PROVE  /\ F = {} => e = 0
           /\ F # {} => e \in F /\ \A j \in F \ {e} : Before(e, j)
<1> DEFINE D == DOMAIN rules
           f == Sorted
           found == {n \in D : Matches(rules[f[n]], day, hour, from)}
<1>1. /\ f \in [D -> D]
      /\ \A m, n \in D : m < n => Before(f[m], f[n])
      /\ \A i \in D : \E n \in D : f[n] = i
  BY SortedRight
<1>2. e = IF found = {} THEN 0 ELSE f[Min(found)]
  BY DEF Evaluate
<1>3. \A i \in D : rules[i] \in Rule /\ Valid(rules[i])
  BY DEF RulesTyped
<1>4. \A i \in D : Matches(rules[i], day, hour, from) <=> i \in F
  <2>1. \A i \in D : Matches(rules[i], day, hour, from) <=> RuleFits(rules[i], day, hour, from)
    BY <1>3, MatchesIsFits
  <2> QED
    BY <2>1
<1>5. D \subseteq Nat
  BY DEF RulesTyped
<1>6. F \subseteq D
  OBVIOUS
<1> HIDE DEF f, D
<1>7. found \subseteq D /\ \A n \in D : n \in found <=> f[n] \in F
  BY <1>1, <1>4
<1> HIDE DEF found
<1>8. CASE found = {}
  BY <1>1, <1>2, <1>6, <1>7, <1>8
<1>9. CASE found # {}
  <2>1. Min(found) \in found /\ \A n \in found : Min(found) <= n
    <3>1. \E x \in found : \A y \in found : x <= y
      <4>1. found \in SUBSET Nat
        BY <1>5, <1>7
      <4> QED
        BY <1>9, <4>1, LeastNatural
    <3> QED
      BY <3>1, Zenon DEF Min
  <2> DEFINE m == Min(found)
  <2>2. e = f[m] /\ m \in found /\ \A n \in found : m <= n
    BY <1>2, <1>9, <2>1
  <2> HIDE DEF m
  <2>3. e \in F
    BY <1>7, <2>2
  <2>4. ASSUME NEW j \in F, j # e
        PROVE  Before(e, j)
    <3>1. PICK n \in D : f[n] = j
      BY <1>1, <1>6
    <3>2. n \in found /\ m <= n /\ n # m /\ n \in Nat /\ m \in Nat /\ m \in D
      BY <1>5, <1>7, <2>2, <2>4, <3>1
    <3>3. m < n
      BY <3>2
    <3> QED
      BY <1>1, <2>2, <3>1, <3>2, <3>3
  <2> QED
    BY <2>3, <2>4
<1> QED
  BY <1>8, <1>9

-----------------------------------------------------------------------------
\* The extensions a rule names are a sequence of names.
LEMMA ForkTyped ==
    ASSUME NEW r \in Rule PROVE r.fork \in Seq(Name)
<1> DEFINE N == Cardinality(Name)
           q == SetToSeq(Name)
<1>1. IsFiniteSet(Name)
  BY RoutingAssumption
<1>2. N \in Nat /\ ExistsBijection(1..N, Name)
  BY <1>1, FS_CardinalityType
<1>3. \E f \in [1..N -> Name] : IsInjective(f)
  BY <1>2, Zenon DEF ExistsBijection, Bijection, Injection
<1>4. q \in [1..N -> Name]
  BY <1>3, Zenon DEF SetToSeq
<1> HIDE DEF N, q
<1>5. q \in Seq(Name) /\ Len(q) = N
  BY <1>2, <1>4
<1>6. Reverse(q) \in Seq(Name)
  <2>1. \A i \in 1..N : q[(N - i) + 1] \in Name
    BY <1>2, <1>4
  <2>2. Reverse(q) \in [1..N -> Name]
    BY <1>5, <2>1 DEF Reverse
  <2> QED
    BY <1>2, <2>2
<1>7. r.fork \in {<<>>, Reverse(q)}
  BY DEF Rule, q
<1>8. <<>> \in Seq(Name)
  OBVIOUS
<1> QED
  BY <1>6, <1>7, <1>8, Zenon

-----------------------------------------------------------------------------
\* A call is routed by rules that were validated when the program started.
RoutedInv ==
    /\ RulesTyped
    /\ ~started => incoming = NoCall
    /\ RoutedAsWritten

LEMMA RoutedStarts == RoutingInit => RoutedInv
<1> SUFFICES ASSUME RoutingInit PROVE RoutedInv
  OBVIOUS
<1>1. rules = <<>> /\ incoming = NoCall
  BY DEF RoutingInit
<1>2. RulesTyped
  BY <1>1 DEF RulesTyped
<1>3. RoutedAsWritten
  BY <1>1 DEF RoutedAsWritten
<1> QED
  BY <1>1, <1>2, <1>3 DEF RoutedInv

\* RoutedAsWritten, of any call, rules and extensions.
Written(c, rs, pr) ==
    LET fits == {i \in DOMAIN rs :
                    /\ rs[i].days \in {NotGiven, c.day} /\ rs[i].from \in {NotGiven, c.from}
                    /\ rs[i].span # AnyTime =>
                           Since(rs[i].span[1], c.hour) < Since(rs[i].span[1], rs[i].span[2])}
        first == {i \in fits : \A j \in fits \ {i} :
                    rs[j].priority < rs[i].priority \/ (rs[j].priority = rs[i].priority /\ i < j)}
    IN c # NoCall =>
        IF fits = {} THEN c.rung = pr
        ELSE /\ first = {c.rule}
             /\ \A a \in Name : Contains(c.rung, a)
                    <=> Contains(rs[c.rule].fork, a) /\ Contains(pr, a)
             /\ IsPrefix(c.rung, Filter(c.rung, rs[c.rule].fork))

\* Written is RoutedAsWritten, before and after a step.
LEMMA RoutedIsWritten ==
    /\ RoutedAsWritten <=> Written(incoming, rules, present)
    /\ RoutedAsWritten' <=> Written(incoming', rules', present')
<1>1. RoutedAsWritten <=> Written(incoming, rules, present)
  BY Zenon DEF RoutedAsWritten, Written
<1>2. RoutedAsWritten' <=> Written(incoming', rules', present')
  BY Zenon DEF RoutedAsWritten, Written, NoCall, NotGiven
<1> QED
  BY <1>1, <1>2

\* What RoutedAsWritten says of an incoming call that was given rule e and rung s.
LEMMA RoutedBy ==
    ASSUME RulesTyped, NEW day, NEW hour \in HourOfDay, NEW from, NEW e, e = Evaluate(day, hour, from),
           NEW s, s = IF e = 0 THEN present ELSE Filter(present, rules[e].fork),
           incoming' = [day |-> day, hour |-> hour, from |-> from, rule |-> e, rung |-> s],
           UNCHANGED <<rules, present>>
    PROVE  RoutedAsWritten'
<1> DEFINE F == {i \in DOMAIN rules : RuleFits(rules[i], day, hour, from)}
           first == {i \in F : \A j \in F \ {i} : Before(i, j)}
<1>1. /\ F = {} => e = 0
      /\ F # {} => e \in F /\ \A j \in F \ {e} : Before(e, j)
  <2>1. F = {i \in DOMAIN rules : RuleFits(rules[i], day, hour, from)}
    OBVIOUS
  <2> HIDE DEF F
  <2> QED
    BY <2>1, EvaluateRight
<1>2. F \subseteq DOMAIN rules /\ DOMAIN rules \subseteq Nat \ {0}
  BY DEF RulesTyped
<1>3. \A i, j \in DOMAIN rules : ~(Before(i, j) /\ Before(j, i))
  BY SortedRight
<1>4. /\ incoming'.day = day /\ incoming'.hour = hour /\ incoming'.from = from
      /\ incoming'.rule = e /\ incoming'.rung = s
  OBVIOUS
<1> DEFINE fits == {i \in DOMAIN rules :
                    /\ rules[i].days \in {NotGiven, incoming'.day} /\ rules[i].from \in {NotGiven, incoming'.from}
                    /\ rules[i].span # AnyTime =>
                           Since(rules[i].span[1], incoming'.hour) < Since(rules[i].span[1], rules[i].span[2])}
           ahead == {i \in fits : \A j \in fits \ {i} :
                    rules[j].priority < rules[i].priority \/ (rules[j].priority = rules[i].priority /\ i < j)}
<1>5. fits = F
  BY <1>4, Zenon DEF RuleFits
<1>6. \A i \in DOMAIN rules : rules[i].priority \in {0, 1}
  <2>1. \A i \in DOMAIN rules : rules[i] \in Rule
    BY DEF RulesTyped
  <2> QED
    BY <2>1 DEF Rule
<1>7. \A i, j \in DOMAIN rules : Before(i, j) <=>
          rules[j].priority < rules[i].priority \/ (rules[j].priority = rules[i].priority /\ i < j)
  BY <1>6 DEF Before
<1>8. ahead = first
  <2> HIDE DEF F, fits
  <2> QED
    BY <1>2, <1>5, <1>7
<1>9. F # {} => first = {e}
  <2> HIDE DEF F
  <2> QED
    BY <1>1, <1>2, <1>3
<1>10. F = {} => s = present
  BY <1>1
<1>11. ASSUME F # {}
       PROVE  /\ \A a \in Name : Contains(s, a) <=> Contains(rules[e].fork, a) /\ Contains(present, a)
              /\ IsPrefix(s, Filter(s, rules[e].fork))
  <2>1. e \in DOMAIN rules /\ e # 0
    BY <1>1, <1>2, <1>11
  <2> DEFINE w == rules[e].fork
  <2>2. w \in Seq(Name)
    <3>1. rules[e] \in Rule
      BY <2>1 DEF RulesTyped
    <3> QED
      BY <3>1, ForkTyped
  <2>3. s = Filter(present, w)
    BY <2>1
  <2> HIDE DEF w
  <2>4. /\ Filter(present, w) \in Seq(Name)
        /\ \A a : Contains(Filter(present, w), a) <=> Contains(w, a) /\ Contains(present, a)
        /\ Filter(Filter(present, w), w) = Filter(present, w)
    BY <2>2, FilterRight, Zenon
  <2>5. s \in Seq(Name) /\ Filter(s, w) = s
    BY <2>3, <2>4, Zenon
  <2>6. IsPrefix(s, Filter(s, w))
    <3>1. Len(s) <= Len(s)
      BY <2>5
    <3> QED
      BY <2>5, <3>1, Zenon DEF IsPrefix
  <2> QED
    BY <2>3, <2>4, <2>6, Zenon DEF w
<1>12. Written(incoming', rules, present) <=>
           (incoming' # NoCall => IF fits = {} THEN incoming'.rung = present
                     ELSE /\ ahead = {incoming'.rule}
                          /\ \A a \in Name : Contains(incoming'.rung, a)
                                 <=> Contains(rules[incoming'.rule].fork, a) /\ Contains(present, a)
                          /\ IsPrefix(incoming'.rung, Filter(incoming'.rung, rules[incoming'.rule].fork)))
  BY Zenon DEF Written
<1>13. Written(incoming', rules, present)
  <2> HIDE DEF F, fits, ahead, first
  <2> QED
    BY <1>4, <1>5, <1>8, <1>9, <1>10, <1>11, <1>12, Zenon
<1> QED
  BY <1>13, RoutedIsWritten

\* Calls are routed as written, step by step.
LEMMA RoutedKept == RoutedInv /\ [RoutingNext]_routingVars => RoutedInv'
<1> SUFFICES ASSUME RoutedInv, [RoutingNext]_routingVars PROVE RoutedInv'
  OBVIOUS
<1>1. RulesTyped /\ RoutedAsWritten /\ (~started => incoming = NoCall)
  BY DEF RoutedInv
<1>2. CASE UNCHANGED <<rules, present, incoming, started>>
  <2>1. RulesTyped'
    BY <1>1, <1>2 DEF RulesTyped
  <2>2. RoutedAsWritten'
    BY <1>1, <1>2, RoutedIsWritten
  <2> QED
    BY <1>1, <1>2, <2>1, <2>2 DEF RoutedInv
<1>3. CASE incoming' = NoCall /\ UNCHANGED rules
  <2>1. RulesTyped'
    BY <1>1, <1>3 DEF RulesTyped
  <2>2. RoutedAsWritten'
    BY <1>3, Zenon DEF RoutedAsWritten, NoCall
  <2> QED
    BY <1>3, <2>1, <2>2 DEF RoutedInv, NoCall
<1>4. ASSUME NEW r \in Rule, NEW q \in Rule, NEW rs \in {<<>>, <<r>>, <<r, q>>}, LoadRules(rs)
      PROVE  RoutedInv'
  <2>1. incoming' = NoCall /\ rules' = rs /\ \A i \in DOMAIN rs : Valid(rs[i])
    BY <1>1, <1>4 DEF LoadRules
  <2>2. rs \in Seq(Rule) /\ Len(rs) <= 2
    <3>1. <<>> \in Seq(Rule) /\ Len(<<>>) <= 2
      OBVIOUS
    <3>2. <<r>> \in Seq(Rule) /\ Len(<<r>>) <= 2
      OBVIOUS
    <3>3. <<r, q>> \in Seq(Rule) /\ Len(<<r, q>>) <= 2
      OBVIOUS
    <3> QED
      BY <3>1, <3>2, <3>3, Zenon
  <2>3. RulesTyped'
    BY <2>1, <2>2 DEF RulesTyped, Valid, Unreadable
  <2>4. RoutedAsWritten'
    BY <2>1, Zenon DEF RoutedAsWritten, NoCall
  <2> QED
    BY <2>1, <2>3, <2>4 DEF RoutedInv, NoCall
<1>5. ASSUME NEW d \in Weekday, NEW h \in 0..(Hours - 1), NEW n \in Number, CallComesIn(d, h, n)
      PROVE  RoutedInv'
  <2>1. started /\ UNCHANGED <<rules, started, present>>
    BY <1>5 DEF CallComesIn
  <2>2. RulesTyped'
    BY <1>1, <2>1 DEF RulesTyped
  <2>3. h \in HourOfDay
    BY DEF HourOfDay
  <2> DEFINE e == Evaluate(d, h, n)
             s == IF e = 0 THEN present ELSE Filter(present, rules[e].fork)
  <2>4. incoming' = [day |-> d, hour |-> h, from |-> n, rule |-> e, rung |-> s]
    BY <1>5 DEF CallComesIn
  <2>5. e = Evaluate(d, h, n) /\ s = IF e = 0 THEN present ELSE Filter(present, rules[e].fork)
    OBVIOUS
  <2> HIDE DEF e, s
  <2>6. RoutedAsWritten'
    BY <1>1, <2>1, <2>3, <2>4, <2>5, RoutedBy
  <2> QED
    BY <2>1, <2>2, <2>6 DEF RoutedInv
<1>6. ASSUME NEW a \in Name, Appear(a) \/ Leave(a) PROVE RoutedInv'
  BY <1>3, <1>6 DEF Appear, Leave
<1>7. ASSUME NEW by, NEW t, ExtensionDials(by, t) \/ BrowserDials(by, t) PROVE RoutedInv'
  BY <1>2, <1>7 DEF ExtensionDials, BrowserDials
<1>8. CASE UNCHANGED routingVars
  BY <1>2, <1>8 DEF routingVars
<1> QED
  BY <1>4, <1>5, <1>6, <1>7, <1>8, Zenon DEF RoutingNext

-----------------------------------------------------------------------------
(* The trace of the messages                                               *)

Sized == [path : Path, size : Nat]

\* g has the sums of the first sizes of ts.
Sums(g, L, ts) == g[0] = 0 /\ \A n \in 1..L : g[n] = g[n - 1] + ts[n].size

\* There are such sums.
LEMMA SumsOn ==
    ASSUME NEW ts \in Seq(Sized), NEW L \in 0..Len(ts)
    PROVE  \E g \in [0..L -> Nat] : Sums(g, L, ts)
<1> DEFINE There(k) == \E g \in [0..k -> Nat] : Sums(g, k, ts)
           Bad == {k \in 0..Len(ts) : ~There(k)}
<1> SUFFICES ASSUME Bad # {} PROVE FALSE
  BY Zenon
<1>1. Bad \in SUBSET Nat
  OBVIOUS
<1>2. PICK k \in Bad : \A y \in Bad : k <= y
  BY <1>1, LeastNatural
<1>3. k \in 0..Len(ts) /\ ~There(k)
  OBVIOUS
<1>4. CASE k = 0
  <2> DEFINE g == [n \in 0..0 |-> 0]
  <2>1. g \in [0..0 -> Nat] /\ Sums(g, 0, ts)
    BY DEF Sums
  <2> HIDE DEF g
  <2> QED
    BY <1>3, <1>4, <2>1
<1>5. CASE k # 0
  <2>1. k \in Nat /\ k \in 1..Len(ts) /\ k - 1 \in 0..Len(ts) /\ k - 1 < k
    BY <1>3, <1>5
  <2>2. k - 1 \notin Bad
    <3> HIDE DEF Bad
    <3> QED
      BY <1>1, <1>2, <2>1
  <2>3. PICK f \in [0..(k - 1) -> Nat] : Sums(f, k - 1, ts)
    BY <2>1, <2>2
  <2> DEFINE last == f[k - 1] + ts[k].size
             g == [n \in 0..k |-> IF n = k THEN last ELSE f[n]]
  <2>4. last \in Nat
    <3>1. k - 1 \in 0..(k - 1) /\ ts[k] \in Sized
      BY <2>1
    <3>2. f[k - 1] \in Nat /\ ts[k].size \in Nat
      BY <2>3, <3>1 DEF Sized
    <3> QED
      BY <3>2
  <2> HIDE DEF Bad
  <2>5. g \in [0..k -> Nat] /\ \A n \in 0..k : g[n] = IF n = k THEN last ELSE f[n]
    BY <2>1, <2>4
  <2> HIDE DEF g
  <2>6. ASSUME NEW n \in 1..k PROVE g[n] = g[n - 1] + ts[n].size
    <3>1. n \in 0..k /\ n - 1 \in 0..k /\ n - 1 # k /\ n - 1 \in 0..(k - 1)
      BY <2>1
    <3>2. g[n - 1] = f[n - 1]
      BY <2>5, <3>1
    <3>3. CASE n = k
      BY <2>5, <3>1, <3>2, <3>3
    <3>4. CASE n # k
      <4>1. n \in 1..(k - 1)
        BY <2>1, <3>4
      <4>2. f[n] = f[n - 1] + ts[n].size
        BY <2>3, <4>1 DEF Sums
      <4> QED
        BY <2>5, <3>1, <3>2, <3>4, <4>2
    <3> QED
      BY <3>3, <3>4
  <2>7. g[0] = 0
    BY <2>1, <2>3, <2>5 DEF Sums
  <2> QED
    BY <1>3, <2>5, <2>6, <2>7 DEF Sums
<1> QED
  BY <1>4, <1>5

\* Bytes is the last of the sums.
LEMMA BytesOf ==
    ASSUME NEW ts \in Seq(Sized)
    PROVE  \E g : Bytes(ts) = g[Len(ts)] /\ Sums(g, Len(ts), ts)
<1> DEFINE L == Len(ts)
           F(f) == [n \in 0..L |-> IF n = 0 THEN 0 ELSE f[n - 1] + ts[n].size]
           g == CHOOSE f : f = F(f)
<1>1. Bytes(ts) = g[L]
  BY DEF Bytes
<1>2. L \in Nat
  OBVIOUS
<1>3. PICK h \in [0..L -> Nat] : Sums(h, L, ts)
  <2>1. L \in 0..Len(ts)
    OBVIOUS
  <2> QED
    BY <2>1, SumsOn
<1> HIDE DEF L
<1>4. h = F(h)
  <2>1. ASSUME NEW n \in 0..L
        PROVE  h[n] = IF n = 0 THEN 0 ELSE h[n - 1] + ts[n].size
    <3>1. CASE n = 0
      BY <1>3, <3>1 DEF Sums
    <3>2. CASE n # 0
      <4>1. n \in 1..L
        BY <1>2, <3>2
      <4> QED
        BY <1>3, <3>2, <4>1 DEF Sums
    <3> QED
      BY <3>1, <3>2
  <2>2. h = [n \in 0..L |-> h[n]]
    BY <1>3
  <2> QED
    BY <2>1, <2>2, Zenon
<1>5. g = F(g)
  <2> HIDE DEF F
  <2> QED
    BY <1>4, Zenon
<1>6. Sums(g, L, ts)
  <2>1. F(g)[0] = 0
    BY <1>2
  <2>2. ASSUME NEW n \in 1..L
        PROVE  F(g)[n] = g[n - 1] + ts[n].size
    <3>1. n \in 0..L /\ n # 0
      BY <1>2
    <3> QED
      BY <3>1, Zenon
  <2> HIDE DEF F, g
  <2> QED
    BY <1>5, <2>1, <2>2 DEF Sums
<1> HIDE DEF g
<1> QED
  BY <1>1, <1>6 DEF L

\* Sums of a part that begins after the first n.
PartSums(us, h, ts, g, n) ==
    /\ ts \in Seq(Sized) /\ us \in Seq(Sized) /\ n \in Nat /\ n + Len(us) <= Len(ts)
    /\ \A k \in 1..Len(us) : us[k] = ts[n + k]
    /\ Sums(g, Len(ts), ts) /\ Sums(h, Len(us), us) /\ g[n] \in Nat
LEMMA SumsOfPart ==
    \A us, h, ts, g, n : PartSums(us, h, ts, g, n) => \A m \in 0..Len(us) : h[m] \in Nat /\ g[n + m] = g[n] + h[m]
<1> SUFFICES ASSUME NEW us, NEW h, NEW ts, NEW g, NEW n, PartSums(us, h, ts, g, n), NEW m \in 0..Len(us)
             PROVE  h[m] \in Nat /\ g[n + m] = g[n] + h[m]
  OBVIOUS
<1>a. /\ ts \in Seq(Sized) /\ us \in Seq(Sized) /\ n \in Nat /\ n + Len(us) <= Len(ts)
      /\ \A k \in 1..Len(us) : us[k] = ts[n + k]
      /\ Sums(g, Len(ts), ts) /\ Sums(h, Len(us), us) /\ g[n] \in Nat
  BY DEF PartSums
<1> DEFINE Right(k) == h[k] \in Nat /\ g[n + k] = g[n] + h[k]
           Bad == {k \in 0..Len(us) : ~Right(k)}
<1> SUFFICES ASSUME Bad # {} PROVE FALSE
  BY Zenon
<1>1. Bad \in SUBSET Nat
  BY <1>a
<1>2. PICK k \in Bad : \A y \in Bad : k <= y
  BY <1>1, LeastNatural
<1>3. k \in 0..Len(us) /\ ~Right(k)
  OBVIOUS
<1>4. k # 0
  <2>1. h[0] = 0 /\ n + 0 = n
    BY <1>a DEF Sums
  <2> QED
    BY <1>3, <1>a, <2>1
<1>5. k \in 1..Len(us) /\ k - 1 \in 0..Len(us) /\ k - 1 < k /\ k \in Nat
  BY <1>3, <1>4, <1>a
<1>6. k - 1 \notin Bad
  <2> HIDE DEF Bad
  <2> QED
    BY <1>1, <1>2, <1>5
<1>7. Right(k - 1)
  BY <1>5, <1>6
<1>8. h[k] = h[k - 1] + us[k].size /\ us[k].size \in Nat /\ us[k] = ts[n + k]
  <2>1. us[k] \in Sized
    BY <1>5, <1>a
  <2> QED
    BY <1>5, <1>a, <2>1 DEF Sums, Sized
<1>9. n + k \in 1..Len(ts) /\ (n + k) - 1 = n + (k - 1)
  <2>1. Len(ts) \in Nat /\ Len(us) \in Nat
    BY <1>a
  <2> QED
    BY <1>5, <1>a, <2>1
<1>10. g[n + k] = g[n + (k - 1)] + ts[n + k].size
  BY <1>9, <1>a DEF Sums
<1> DEFINE z == us[k].size
           x == h[k - 1]
           y == g[n + (k - 1)]
<1>11. h[k] = x + z /\ g[n + k] = y + z /\ z \in Nat /\ x \in Nat /\ y = g[n] + x
  BY <1>7, <1>8, <1>10
<1> HIDE DEF x, y, z
<1>12. h[k] \in Nat /\ g[n + k] = g[n] + h[k]
  BY <1>a, <1>11
<1> QED
  BY <1>3, <1>12

\* The bytes of a list are those of its two parts.
LEMMA BytesSplit ==
    ASSUME NEW ts \in Seq(Sized), NEW n \in 0..Len(ts)
    PROVE  /\ Bytes(ts) \in Nat
           /\ SubSeq(ts, 1, n) \in Seq(Sized) /\ SubSeq(ts, n + 1, Len(ts)) \in Seq(Sized)
           /\ Bytes(SubSeq(ts, 1, n)) \in Nat /\ Bytes(SubSeq(ts, n + 1, Len(ts))) \in Nat
           /\ Bytes(ts) = Bytes(SubSeq(ts, 1, n)) + Bytes(SubSeq(ts, n + 1, Len(ts)))
<1> DEFINE us == SubSeq(ts, 1, n)
           vs == SubSeq(ts, n + 1, Len(ts))
           L == Len(ts)
<1>1. L \in Nat /\ n \in Nat /\ n <= L
  OBVIOUS
<1>2. us \in Seq(Sized) /\ Len(us) = n /\ \A k \in 1..n : us[k] = ts[0 + k]
  OBVIOUS
<1>3. vs \in Seq(Sized) /\ Len(vs) = L - n /\ \A k \in 1..(L - n) : vs[k] = ts[n + k]
  OBVIOUS
<1>4. PICK g : Bytes(ts) = g[L] /\ Sums(g, L, ts)
  BY BytesOf
<1> HIDE DEF us, vs
<1>5. PICK hu : Bytes(us) = hu[n] /\ Sums(hu, n, us)
  BY <1>2, BytesOf
<1>6. PICK hv : Bytes(vs) = hv[L - n] /\ Sums(hv, L - n, vs)
  BY <1>3, BytesOf
<1>7. g[0] = 0 /\ g[0] \in Nat
  BY <1>4 DEF Sums
<1>8. hu[n] \in Nat /\ g[0 + n] = g[0] + hu[n]
  <2>1. 0 \in Nat /\ 0 + Len(us) <= Len(ts) /\ n \in 0..Len(us) /\ \A k \in 1..Len(us) : us[k] = ts[0 + k]
    BY <1>1, <1>2 DEF L
  <2>2. Sums(g, Len(ts), ts) /\ Sums(hu, Len(us), us)
    BY <1>2, <1>4, <1>5 DEF L
  <2>3. PartSums(us, hu, ts, g, 0)
    BY <1>2, <1>7, <2>1, <2>2 DEF PartSums
  <2> QED
    BY <2>1, <2>3, SumsOfPart
<1>9. g[n] = hu[n] /\ g[n] \in Nat
  BY <1>1, <1>7, <1>8
<1>10. hv[L - n] \in Nat /\ g[n + (L - n)] = g[n] + hv[L - n]
  <2> DEFINE m == L - n
  <2>1. n + Len(vs) <= Len(ts) /\ m \in 0..Len(vs) /\ \A k \in 1..Len(vs) : vs[k] = ts[n + k]
    BY <1>1, <1>3 DEF L
  <2>2. Sums(g, Len(ts), ts) /\ Sums(hv, Len(vs), vs)
    BY <1>3, <1>4, <1>6 DEF L
  <2>a. vs \in Seq(Sized) /\ n \in Nat
    BY <1>1, <1>3
  <2> HIDE DEF m
  <2>3. hv[m] \in Nat /\ g[n + m] = g[n] + hv[m]
    <3>1. PartSums(vs, hv, ts, g, n)
      BY <1>9, <2>a, <2>1, <2>2 DEF PartSums
    <3> QED
      BY <2>1, <3>1, SumsOfPart
  <2> QED
    BY <2>3 DEF m
<1>11. n + (L - n) = L
  BY <1>1
<1>12. /\ Bytes(ts) \in Nat
       /\ Bytes(us) \in Nat /\ Bytes(vs) \in Nat
       /\ Bytes(ts) = Bytes(us) + Bytes(vs)
  BY <1>4, <1>5, <1>6, <1>9, <1>10, <1>11
<1> QED
  BY <1>2, <1>3, <1>12 DEF us, vs

\* An empty list has no bytes.
LEMMA EmptyBytes == Bytes(<<>>) = 0
<1>1. PICK e : Bytes(<<>>) = e[Len(<<>>)] /\ Sums(e, Len(<<>>), <<>>)
  <2>1. <<>> \in Seq(Sized)
    OBVIOUS
  <2> QED
    BY <2>1, BytesOf
<1> QED
  BY <1>1 DEF Sums

\* One more adds its size.
LEMMA BytesGrow ==
    ASSUME NEW ts \in Seq(Sized), NEW t \in Sized
    PROVE  Bytes(Append(ts, t)) = Bytes(ts) + t.size /\ Bytes(ts) \in Nat
<1> DEFINE us == Append(ts, t)
           L == Len(ts)
<1>3. us \in Seq(Sized) /\ Len(us) = L + 1 /\ L \in Nat /\ us[L + 1] = t
  OBVIOUS
<1>4. SubSeq(us, 1, L) = ts
  OBVIOUS
<1> HIDE DEF us
<1>5. PICK g : Bytes(us) = g[L + 1] /\ Sums(g, L + 1, us)
  BY <1>3, BytesOf
<1>6. PICK h : Bytes(ts) = h[L] /\ Sums(h, L, ts)
  BY BytesOf
<1>7. g[0] = 0 /\ g[0] \in Nat
  BY <1>5 DEF Sums
<1>8. h[L] \in Nat /\ g[0 + L] = g[0] + h[L]
  <2>1. 0 + Len(ts) <= Len(us) /\ L \in 0..Len(ts) /\ \A k \in 1..Len(ts) : ts[k] = us[0 + k]
    BY <1>3 DEF us
  <2>2. Sums(g, Len(us), us) /\ Sums(h, Len(ts), ts)
    BY <1>3, <1>5, <1>6
  <2> QED
    <3>1. PartSums(ts, h, us, g, 0)
      BY <1>3, <1>7, <2>1, <2>2 DEF PartSums
    <3> QED
      BY <2>1, <3>1, SumsOfPart
<1>9. g[L + 1] = g[L] + us[L + 1].size
  <2>1. L + 1 \in 1..(L + 1) /\ (L + 1) - 1 = L
    BY <1>3
  <2> QED
    BY <1>5, <2>1 DEF Sums
<1>10. Bytes(us) = Bytes(ts) + t.size /\ Bytes(ts) \in Nat
  BY <1>3, <1>5, <1>6, <1>7, <1>8, <1>9
<1> QED
  BY <1>10 DEF us

-----------------------------------------------------------------------------
\* A file of the directory, as it is listed.
FileOf(q, dir) == [path |-> q, size |-> Len(dir[q])]

\* The files of S can be listed.
Sizes(S, dir) == S \subseteq Path /\ \A q \in S : Len(dir[q]) \in Nat

\* A listing is one of paths and sizes.
LEMMA ListedTyped ==
    ASSUME NEW S, NEW dir, Sizes(S, dir), NEW o \in Seq(S)
    PROVE  Listed(o, dir) \in Seq(Sized) /\ Len(Listed(o, dir)) = Len(o)
           /\ \A i \in 1..Len(o) : Listed(o, dir)[i] = FileOf(o[i], dir)
<1> DEFINE ls == Listed(o, dir)
<1>1. ls = [i \in 1..Len(o) |-> FileOf(o[i], dir)]
  BY DEF Listed, FileOf
<1>2. \A i \in 1..Len(o) : FileOf(o[i], dir) \in Sized
  <2> TAKE i \in 1..Len(o)
  <2>1. o[i] \in S
    OBVIOUS
  <2>2. o[i] \in Path /\ Len(dir[o[i]]) \in Nat
    BY <2>1 DEF Sizes
  <2> QED
    BY <2>2 DEF FileOf, Sized
<1> HIDE DEF ls
<1>3. Len(o) \in Nat
  OBVIOUS
<1> QED
  BY <1>1, <1>2, <1>3 DEF ls

\* Listing one file more.
LEMMA ListedOneMore ==
    ASSUME NEW S, NEW dir, Sizes(S, dir), NEW o \in Seq(S), NEW q \in S
    PROVE  Listed(Append(o, q), dir) = Append(Listed(o, dir), FileOf(q, dir))
<1> DEFINE p == Append(o, q)
           L == Len(o)
<1>1. p \in Seq(S) /\ Len(p) = L + 1 /\ L \in Nat /\ p[L + 1] = q /\ \A i \in 1..L : p[i] = o[i]
  OBVIOUS
<1> HIDE DEF p
<1> DEFINE a == Listed(p, dir)
           b == Listed(o, dir)
           f == FileOf(q, dir)
<1>2. a \in Seq(Sized) /\ Len(a) = L + 1 /\ \A i \in 1..(L + 1) : a[i] = FileOf(p[i], dir)
  BY <1>1, ListedTyped
<1>3. b \in Seq(Sized) /\ Len(b) = L /\ \A i \in 1..L : b[i] = FileOf(o[i], dir)
  BY ListedTyped
<1>4. a[L + 1] = f /\ \A i \in 1..L : a[i] = b[i]
  BY <1>1, <1>2, <1>3
<1>5. f \in Sized
  BY <1>1, <1>2, <1>4
<1> HIDE DEF a, b, f, L
<1>6. a = Append(b, f)
  BY <1>1, <1>2, <1>3, <1>4, <1>5
<1> QED
  BY <1>6 DEF p, a, b, f

\* o lists D, nothing twice.
Lists(o, D) ==
    /\ o \in Seq(D) /\ \A q \in D : \E i \in 1..Len(o) : o[i] = q
    /\ \A i, j \in 1..Len(o) : o[i] = o[j] => i = j

\* A list of D without repetitions is one of the orders of D.
LEMMA ListsIsSeq ==
    ASSUME NEW D, NEW o, Lists(o, D)
    PROVE  o \in SetToSeqs(D)
<1> DEFINE L == Len(o)
<1>1. L \in Nat /\ o \in [1..L -> D]
  BY DEF Lists
<1>2. o \in Injection(1..L, D)
  BY <1>1 DEF Lists, Injection, IsInjective
<1>3. o \in Surjection(1..L, D)
  BY <1>1 DEF Lists, Surjection
<1>4. ExistsBijection(1..L, D)
  BY <1>2, <1>3 DEF ExistsBijection, Bijection
<1> HIDE DEF L
<1>5. Cardinality(D) = L
  BY <1>1, <1>4, FS_CountingElements
<1>6. \A i, j \in 1..L : i # j => o[i] # o[j]
  BY DEF Lists, L
<1> QED
  BY <1>1, <1>5, <1>6 DEF SetToSeqs

\* Files of which each is on the list with its size have no more bytes than the list.
LEMMA FilesFit ==
    ASSUME NEW ts \in Seq(Sized), NEW S, NEW dir, Sizes(S, dir),
           \A q \in S : \E i \in 1..Len(ts) : ts[i] = FileOf(q, dir)
    PROVE  \E o \in SetToSeqs(S) : Bytes(Listed(o, dir)) <= Bytes(ts)
<1> DEFINE Among(D, n) == D \subseteq S /\ \A q \in D : \E i \in 1..n : ts[i] = FileOf(q, dir)
           Few(D, n) == \E o : Lists(o, D) /\ Bytes(Listed(o, dir)) <= Bytes(SubSeq(ts, 1, n))
           Right(n) == \A D : Among(D, n) => Few(D, n)
           Bad == {n \in 0..Len(ts) : ~Right(n)}
<1>1. Bad = {}
  <2> SUFFICES ASSUME Bad # {} PROVE FALSE
    OBVIOUS
  <2>1. Bad \in SUBSET Nat
    OBVIOUS
  <2>2. PICK k \in Bad : \A y \in Bad : k <= y
    BY <2>1, LeastNatural
  <2>3. k \in 0..Len(ts) /\ ~Right(k)
    OBVIOUS
  <2>4. PICK D : Among(D, k) /\ ~Few(D, k)
    BY <2>3
  <2>5. CASE k = 0
    <3>1. D = {}
      BY <2>4, <2>5
    <3>2. Lists(<<>>, D)
      BY <3>1 DEF Lists
    <3>3. Listed(<<>>, dir) = <<>>
      BY DEF Listed
    <3>4. Bytes(<<>>) = 0 /\ Bytes(SubSeq(ts, 1, k)) \in Nat
      <4>1. Bytes(SubSeq(ts, 1, k)) \in Nat
        BY <2>3, BytesSplit
      <4> QED
        BY <4>1, EmptyBytes
    <3> QED
      BY <2>4, <3>2, <3>3, <3>4
  <2>6. CASE k # 0
    <3>1. k \in Nat /\ k \in 1..Len(ts) /\ k - 1 \in 0..Len(ts) /\ k - 1 < k
      BY <2>3, <2>6
    <3>2. k - 1 \notin Bad
      <4> HIDE DEF Bad
      <4> QED
        BY <2>1, <2>2, <3>1
    <3>3. Right(k - 1)
      BY <3>1, <3>2
    <3> DEFINE before == SubSeq(ts, 1, k - 1)
               upto == SubSeq(ts, 1, k)
    <3>4. before \in Seq(Sized) /\ ts[k] \in Sized /\ upto = Append(before, ts[k])
      <4>1. before \in Seq(Sized) /\ Len(before) = k - 1 /\ upto \in Seq(Sized) /\ Len(upto) = k /\ ts[k] \in Sized
        BY <3>1
      <4>2. \A i \in 1..(k - 1) : before[i] = ts[i] /\ upto[i] = ts[i]
        BY <3>1
      <4>3. upto[k] = ts[k]
        BY <3>1
      <4> HIDE DEF before, upto, Bad
      <4>4. upto = Append(before, ts[k])
        BY <3>1, <4>1, <4>2, <4>3
      <4> QED
        BY <4>1, <4>4
    <3>5. Bytes(upto) = Bytes(before) + ts[k].size /\ Bytes(before) \in Nat /\ ts[k].size \in Nat
      BY <3>4, BytesGrow DEF Sized
    <3> HIDE DEF before, upto, Bad
    <3>6. ASSUME NEW q0 \in D, ts[k] = FileOf(q0, dir) PROVE FALSE
      <4> DEFINE E == D \ {q0}
      <4>1. ASSUME NEW q \in E PROVE \E i \in 1..(k - 1) : ts[i] = FileOf(q, dir)
        <5>1. PICK i \in 1..k : ts[i] = FileOf(q, dir)
          BY <2>4
        <5>2. FileOf(q, dir).path = q /\ FileOf(q0, dir).path = q0 /\ q # q0
          BY DEF FileOf
        <5>3. i # k
          BY <3>6, <5>1, <5>2
        <5>4. i \in 1..(k - 1)
          BY <3>1, <5>1, <5>3
        <5> QED
          BY <5>1, <5>4
      <4>2. Among(E, k - 1)
        BY <2>4, <4>1
      <4>3. PICK o : Lists(o, E) /\ Bytes(Listed(o, dir)) <= Bytes(before)
        BY <3>3, <4>2 DEF before
      <4>4. o \in Seq(S) /\ q0 \in S
        <5>1. o \in Seq(E) /\ E \subseteq S
          BY <2>4, <4>3 DEF Lists
        <5> QED
          BY <2>4, <5>1
      <4> DEFINE p == Append(o, q0)
                 ls == Listed(o, dir)
      <4>5. Listed(p, dir) = Append(ls, FileOf(q0, dir))
        BY <4>4, ListedOneMore
      <4>6. ls \in Seq(Sized)
        BY <4>4, ListedTyped
      <4>7. Bytes(Listed(p, dir)) = Bytes(ls) + ts[k].size /\ Bytes(ls) \in Nat
        BY <3>4, <3>6, <4>5, <4>6, BytesGrow
      <4>8. Lists(p, D)
        <5> DEFINE L == Len(o)
        <5>1. o \in Seq(E) /\ L \in Nat
          BY <4>3 DEF Lists
        <5>2. p \in Seq(D) /\ Len(p) = L + 1 /\ p[L + 1] = q0 /\ \A i \in 1..L : p[i] = o[i] /\ o[i] \in E
          <6>1. o \in Seq(D)
            BY <5>1
          <6> QED
            BY <5>1, <6>1
        <5>3. (\A q \in E : \E i \in 1..L : o[i] = q) /\ \A i, j \in 1..L : o[i] = o[j] => i = j
          BY <4>3 DEF Lists
        <5> HIDE DEF L, p
        <5>4. ASSUME NEW q \in D PROVE \E i \in 1..(L + 1) : p[i] = q
          <6>1. CASE q = q0
            BY <5>1, <5>2, <6>1
          <6>2. CASE q # q0
            <7>1. PICK i \in 1..L : o[i] = q
              BY <5>3, <6>2
            <7> QED
              BY <5>1, <5>2, <7>1
          <6> QED
            BY <6>1, <6>2
        <5>5. ASSUME NEW i \in 1..(L + 1), NEW j \in 1..(L + 1), p[i] = p[j] PROVE i = j
          <6>1. CASE i = L + 1 /\ j = L + 1
            BY <6>1
          <6>2. CASE i \in 1..L /\ j \in 1..L
            BY <5>2, <5>3, <5>5, <6>2
          <6>3. CASE i \in 1..L /\ j = L + 1
            BY <5>2, <5>5, <6>3
          <6>4. CASE i = L + 1 /\ j \in 1..L
            BY <5>2, <5>5, <6>4
          <6>5. (i = L + 1 \/ i \in 1..L) /\ (j = L + 1 \/ j \in 1..L)
            BY <5>1
          <6> QED
            BY <6>1, <6>2, <6>3, <6>4, <6>5
        <5> QED
          BY <5>2, <5>4, <5>5 DEF Lists
      <4> HIDE DEF p, ls
      <4>9. Bytes(Listed(p, dir)) <= Bytes(upto)
        BY <3>5, <4>3, <4>7 DEF ls
      <4> QED
        BY <2>4, <4>8, <4>9 DEF upto
    <3>7. CASE \A q \in D : ts[k] # FileOf(q, dir)
      <4>1. ASSUME NEW q \in D PROVE \E i \in 1..(k - 1) : ts[i] = FileOf(q, dir)
        <5>1. PICK i \in 1..k : ts[i] = FileOf(q, dir)
          BY <2>4
        <5>2. i # k
          BY <3>7, <5>1
        <5>3. i \in 1..(k - 1)
          BY <3>1, <5>1, <5>2
        <5> QED
          BY <5>1, <5>3
      <4>2. Among(D, k - 1)
        BY <2>4, <4>1
      <4>3. PICK o : Lists(o, D) /\ Bytes(Listed(o, dir)) <= Bytes(before)
        BY <3>3, <4>2 DEF before
      <4>4. Bytes(Listed(o, dir)) \in Nat
        <5>1. o \in Seq(S)
          BY <2>4, <4>3 DEF Lists
        <5>2. Listed(o, dir) \in Seq(Sized)
          BY <5>1, ListedTyped
        <5> QED
          BY <3>4, <5>2, BytesGrow
      <4>5. Bytes(Listed(o, dir)) <= Bytes(upto)
        BY <3>5, <4>3, <4>4
      <4> QED
        BY <2>4, <4>3, <4>5 DEF upto
    <3> QED
      BY <3>6, <3>7
  <2> QED
    BY <2>5, <2>6
<1>2. Right(Len(ts))
  <2>1. Len(ts) \in 0..Len(ts)
    OBVIOUS
  <2> QED
    BY <1>1, <2>1
<1>3. PICK o : Lists(o, S) /\ Bytes(Listed(o, dir)) <= Bytes(SubSeq(ts, 1, Len(ts)))
  BY <1>2
<1>4. SubSeq(ts, 1, Len(ts)) = ts
  OBVIOUS
<1>5. o \in SetToSeqs(S)
  BY <1>3, ListsIsSeq
<1> QED
  BY <1>3, <1>4, <1>5

-----------------------------------------------------------------------------
\* What is left of line i, and what is known after n lines.
Clean(m, i) ==
    LET body == \E j \in 1..i - 1 : m[j] = "blank"
    IN IF m[i] = "credentials" /\ ~body THEN "redacted" ELSE m[i]
HeadersStill(m, n) == \A j \in 1..n : m[j] # "blank"
ReadSoFar(m, n) == [out |-> [i \in 1..n |-> Clean(m, i)], headers |-> HeadersStill(m, n)]

\* One line of sanitize_message.
LEMMA LineSanitized ==
    ASSUME NEW m \in Seq(Line), NEW n \in 1..Len(m)
    PROVE  SanitizeLine(m[n], ReadSoFar(m, n - 1)) = ReadSoFar(m, n)
<1> DEFINE acc == ReadSoFar(m, n - 1)
           c == IF acc.headers /\ m[n] = "credentials" THEN "redacted" ELSE m[n]
<1>1. n \in Nat /\ n >= 1 /\ n - 1 \in Nat
  OBVIOUS
<1>2. acc.out = [i \in 1..(n - 1) |-> Clean(m, i)] /\ (acc.headers <=> HeadersStill(m, n - 1))
  BY DEF ReadSoFar
<1>3. c = Clean(m, n)
  BY <1>2 DEF HeadersStill, Clean
<1>4. (acc.headers /\ m[n] # "blank") <=> HeadersStill(m, n)
  <2>1. HeadersStill(m, n) <=> HeadersStill(m, n - 1) /\ m[n] # "blank"
    BY <1>1 DEF HeadersStill
  <2> QED
    BY <1>2, <2>1
<1>5. SanitizeLine(m[n], acc) = [out |-> Append(acc.out, c), headers |-> acc.headers /\ m[n] # "blank"]
  BY DEF SanitizeLine
<1> HIDE DEF acc, c
<1>6. Append(acc.out, c) = [i \in 1..n |-> Clean(m, i)]
  <2> DEFINE s == [i \in 1..(n - 1) |-> Clean(m, i)]
             t == [i \in 1..n |-> Clean(m, i)]
  <2>1. \A i \in 1..n : Clean(m, i) \in Line
    <3> TAKE i \in 1..n
    <3>1. m[i] \in Line /\ "redacted" \in Line
      BY <1>1 DEF Line
    <3> QED
      BY <3>1, Zenon DEF Clean
  <2>2. s \in Seq(Line) /\ Len(s) = n - 1 /\ \A i \in 1..(n - 1) : s[i] = Clean(m, i)
    BY <1>1, <2>1
  <2>3. t \in Seq(Line) /\ Len(t) = n /\ \A i \in 1..n : t[i] = Clean(m, i)
    BY <1>1, <2>1
  <2>4. c \in Line
    BY <1>1, <1>3, <2>1
  <2> HIDE DEF s, t
  <2>5. Append(s, c) = t
    BY <1>1, <1>3, <2>2, <2>3, <2>4
  <2> QED
    BY <1>2, <2>5 DEF s, t
<1>7. ReadSoFar(m, n) = [out |-> [i \in 1..n |-> Clean(m, i)], headers |-> HeadersStill(m, n)]
  BY DEF ReadSoFar
<1>8. SanitizeLine(m[n], acc) = ReadSoFar(m, n)
  <2> DEFINE B == acc.headers /\ m[n] # "blank"
             H == HeadersStill(m, n)
             X == Append(acc.out, c)
             Y == [i \in 1..n |-> Clean(m, i)]
  <2>1. B = H
    BY <1>4 DEF HeadersStill
  <2>2. SanitizeLine(m[n], acc) = [out |-> X, headers |-> B] /\ ReadSoFar(m, n) = [out |-> Y, headers |-> H] /\ X = Y
    BY <1>5, <1>6, <1>7
  <2> HIDE DEF B, H, X, Y
  <2> QED
    BY <2>1, <2>2
<1> QED
  BY <1>8 DEF acc

\* sanitize_message, line by line, hides the credentials of the headers and nothing else.
LEMMA SanitizedRight ==
    ASSUME NEW m \in Seq(Line)
    PROVE  /\ Sanitized(m) \in Seq(Line) /\ Len(Sanitized(m)) = Len(m)
           /\ \A i \in 1..Len(m) : Sanitized(m)[i] = Clean(m, i)
<1> DEFINE L == Len(m)
           Z == [out |-> <<>>, headers |-> TRUE]
           F(f) == [n \in 0..L |-> IF n = 0 THEN Z ELSE SanitizeLine(m[n], f[n - 1])]
           g == CHOOSE f : f = F(f)
           h == [n \in 0..L |-> ReadSoFar(m, n)]
<1>1. Sanitized(m) = g[L].out
  BY DEF Sanitized
<1>2. L \in Nat
  OBVIOUS
<1>3. ReadSoFar(m, 0) = Z
  <2>1. [i \in 1..0 |-> Clean(m, i)] = <<>>
    OBVIOUS
  <2>2. HeadersStill(m, 0) <=> TRUE
    BY DEF HeadersStill
  <2> QED
    BY <2>1, <2>2, Zenon DEF ReadSoFar
<1>4. \A n \in 1..L : SanitizeLine(m[n], ReadSoFar(m, n - 1)) = ReadSoFar(m, n)
  BY LineSanitized
<1> HIDE DEF L, Z
<1>5. h = F(h)
  <2>1. ASSUME NEW n \in 0..L
        PROVE  ReadSoFar(m, n) = IF n = 0 THEN Z ELSE SanitizeLine(m[n], h[n - 1])
    <3>1. CASE n = 0
      BY <1>3, <3>1
    <3>2. CASE n # 0
      <4>1. n \in 1..L /\ n - 1 \in 0..L
        BY <1>2, <3>2
      <4>2. h[n - 1] = ReadSoFar(m, n - 1)
        BY <4>1
      <4> QED
        BY <1>4, <3>2, <4>1, <4>2, Zenon
    <3> QED
      BY <3>1, <3>2
  <2> QED
    BY <2>1, Zenon
<1>6. g = F(g)
  <2> HIDE DEF F, h
  <2> QED
    BY <1>5, Zenon
<1>7. g[0] = Z /\ \A n \in 1..L : g[n] = SanitizeLine(m[n], g[n - 1])
  <2>1. F(g)[0] = Z
    BY <1>2
  <2>2. ASSUME NEW n \in 1..L PROVE F(g)[n] = SanitizeLine(m[n], g[n - 1])
    <3>1. n \in 0..L /\ n # 0
      BY <1>2
    <3> QED
      BY <3>1, Zenon
  <2> HIDE DEF F, g
  <2> QED
    BY <1>6, <2>1, <2>2
<1> HIDE DEF g, h, F
<1>8. g[L] = ReadSoFar(m, L)
  <2> DEFINE Bad == {k \in 0..L : g[k] # ReadSoFar(m, k)}
  <2>1. Bad \in SUBSET Nat
    BY <1>2
  <2>2. CASE Bad = {}
    BY <1>2, <2>2
  <2>3. CASE Bad # {}
    <3>1. PICK k \in Bad : \A y \in Bad : k <= y
      BY <2>1, <2>3, LeastNatural
    <3>2. k \in 0..L /\ g[k] # ReadSoFar(m, k)
      OBVIOUS
    <3>3. k # 0
      BY <1>3, <1>7, <3>2
    <3>4. k \in 1..L /\ k - 1 \in 0..L /\ k - 1 < k
      BY <1>2, <3>2, <3>3
    <3>5. k - 1 \notin Bad
      <4> HIDE DEF Bad
      <4> QED
        BY <2>1, <3>1, <3>4
    <3>6. g[k - 1] = ReadSoFar(m, k - 1)
      BY <3>4, <3>5
    <3> QED
      BY <1>4, <1>7, <3>2, <3>4, <3>6, Zenon
  <2> QED
    BY <2>2, <2>3
<1>9. Sanitized(m) = [i \in 1..L |-> Clean(m, i)]
  BY <1>1, <1>8 DEF ReadSoFar
<1>10. \A i \in 1..L : Clean(m, i) \in Line
  <2> TAKE i \in 1..L
  <2>1. m[i] \in Line /\ "redacted" \in Line
    BY DEF Line, L
  <2> QED
    BY <2>1, Zenon DEF Clean
<1>11. Sanitized(m) \in Seq(Line) /\ Len(Sanitized(m)) = L /\ \A i \in 1..L : Sanitized(m)[i] = Clean(m, i)
  <2> DEFINE t == [i \in 1..L |-> Clean(m, i)]
  <2>1. t \in Seq(Line) /\ Len(t) = L /\ \A i \in 1..L : t[i] = Clean(m, i)
    BY <1>2, <1>10
  <2> QED
    BY <1>9, <2>1, Zenon
<1> QED
  BY <1>11 DEF L

-----------------------------------------------------------------------------
\* rotate leaves the newest that fit.
LEMMA KeptRight ==
    ASSUME NEW ts \in Seq(Sized)
    PROVE  \E n \in 0..Len(ts) : Kept(ts) = SubSeq(ts, n + 1, Len(ts)) /\ Fits(Kept(ts))
<1> DEFINE L == Len(ts)
           Behind(n) == SubSeq(ts, n + 1, L)
           Good == {n \in 0..L : Fits(Behind(n))}
           FirstToFit(n) == Fits(Behind(n)) /\ \A k \in 0..(n - 1) : ~Fits(Behind(k))
<1>1. L \in Nat /\ L \in 0..L
  OBVIOUS
<1>2. Behind(L) = <<>>
  OBVIOUS
<1>3. Fits(<<>>)
  BY EmptyBytes, TraceAssumption DEF Fits
<1>4. Good \in SUBSET Nat /\ Good # {}
  <2>1. L \in Good
    BY <1>1, <1>2, <1>3
  <2> QED
    BY <2>1
<1>5. PICK n \in Good : \A y \in Good : n <= y
  BY <1>4, LeastNatural
<1>6. n \in 0..L /\ FirstToFit(n)
  <2>1. n \in 0..L /\ Fits(Behind(n))
    OBVIOUS
  <2>2. ASSUME NEW k \in 0..(n - 1) PROVE ~Fits(Behind(k))
    <3>1. k \in 0..L /\ k < n /\ k \in Nat /\ n \in Nat
      BY <1>1, <2>1
    <3>2. k \notin Good
      <4> HIDE DEF Good
      <4> QED
        BY <1>5, <3>1
    <3> QED
      BY <3>1, <3>2
  <2> QED
    BY <2>1, <2>2
<1> DEFINE c == CHOOSE x \in 0..L : FirstToFit(x)
<1>7. Kept(ts) = Behind(c)
  BY DEF Kept
<1>8. c \in 0..L /\ FirstToFit(c)
  <2> HIDE DEF FirstToFit, L
  <2> QED
    BY <1>6, Zenon
<1> HIDE DEF c
<1> QED
  BY <1>7, <1>8

-----------------------------------------------------------------------------
\* What a file may hold: a message without its credentials, or the beginning of one.
FileSound(f) ==
    \E m \in Messages : \E k \in {1, Len(m)} : Len(f) = k /\ \A i \in 1..k : f[i] = Clean(m, i)

\* Every file that has not escaped is on the list with its size.
OnTheList(ts, dir, away) ==
    \A q \in DOMAIN dir \ away : \E i \in 1..Len(ts) : ts[i] = FileOf(q, dir)

TraceInv ==
    /\ traces \in Seq(Sized) /\ total = Bytes(traces)
    /\ DOMAIN disk \subseteq Path /\ strays \subseteq Path /\ IsFiniteSet(DOMAIN disk)
    /\ \A q \in DOMAIN disk : disk[q] \in Seq(Line) /\ FileSound(disk[q])
    /\ OnTheList(traces, disk, strays)
    /\ ~fresh => Bytes(traces) <= MaxBytes

\* The messages have lines.
LEMMA MessagesAre == \A m \in Messages : m \in Seq(Line) /\ Len(m) \in Nat /\ Len(m) >= 1
<1> DEFINE a == <<"start", "credentials", "blank", "credentials">>
           b == <<"start", "header", "credentials">>
           c == <<"start">>
           Fine(m) == m \in Seq(Line) /\ Len(m) \in Nat /\ Len(m) >= 1
<1>1. a \in Seq(Line) /\ Len(a) = 4
  BY DEF Line
<1>2. b \in Seq(Line) /\ Len(b) = 3
  BY DEF Line
<1>3. c \in Seq(Line) /\ Len(c) = 1
  BY DEF Line
<1>4. Messages = {a, b, c}
  BY DEF Messages
<1>5. Fine(a) /\ Fine(b) /\ Fine(c)
  BY <1>1, <1>2, <1>3
<1> HIDE DEF a, b, c, Fine
<1>6. \A m \in Messages : Fine(m)
  BY <1>4, <1>5, Zenon
<1> QED
  BY <1>6 DEF Fine

\* The invariant says what is to be shown of the directory.
LEMMA TraceGood == TraceInv => TraceTypeOK /\ TraceContained
<1> SUFFICES ASSUME TraceInv PROVE TraceTypeOK /\ TraceContained
  OBVIOUS
<1>1. Range(traces) \subseteq Sized /\ \A i \in 1..Len(traces) : traces[i] \in Range(traces)
  BY DEF TraceInv, Range
<1>2. TraceTypeOK
  BY <1>1 DEF TraceTypeOK, TraceInv, Sized
<1>3. DOMAIN disk \subseteq {t.path : t \in Range(traces)} \cup strays
  <2> SUFFICES ASSUME NEW q \in DOMAIN disk \ strays PROVE q \in {t.path : t \in Range(traces)}
    OBVIOUS
  <2>1. PICK i \in 1..Len(traces) : traces[i] = FileOf(q, disk)
    BY DEF TraceInv, OnTheList
  <2>2. traces[i].path = q
    BY <2>1 DEF FileOf
  <2> QED
    BY <1>1, <2>2
<1>4. ASSUME ~fresh
      PROVE  \E order \in SetToSeqs(DOMAIN disk \ strays) : Bytes(Listed(order, disk)) <= MaxBytes
  <2> DEFINE S == DOMAIN disk \ strays
  <2>1. Sizes(S, disk)
    BY DEF Sizes, TraceInv
  <2>2. traces \in Seq(Sized) /\ \A q \in S : \E i \in 1..Len(traces) : traces[i] = FileOf(q, disk)
    BY DEF TraceInv, OnTheList
  <2>a. Bytes(traces) <= MaxBytes /\ Bytes(traces) \in Nat /\ MaxBytes \in Nat
    <3>1. 0 \in 0..Len(traces)
      BY <2>2
    <3> QED
      BY <1>4, <2>2, <3>1, BytesSplit, TraceAssumption DEF TraceInv
  <2> HIDE DEF S
  <2>3. PICK o \in SetToSeqs(S) : Bytes(Listed(o, disk)) <= Bytes(traces)
    BY <2>1, <2>2, FilesFit
  <2>4. Bytes(Listed(o, disk)) \in Nat
    <3>1. o \in Seq(S)
      <4>1. IsFiniteSet(S)
        <5>1. S \subseteq DOMAIN disk /\ IsFiniteSet(DOMAIN disk)
          BY DEF S, TraceInv
        <5> QED
          BY <5>1, FS_Subset
      <4>2. Cardinality(S) \in Nat
        BY <4>1, FS_CardinalityType
      <4>3. o \in [1..Cardinality(S) -> S]
        BY Zenon DEF SetToSeqs
      <4> QED
        BY <4>2, <4>3
    <3>2. Listed(o, disk) \in Seq(Sized)
      BY <2>1, <3>1, ListedTyped
    <3>3. 0 \in 0..Len(Listed(o, disk))
      BY <3>2
    <3> QED
      BY <3>2, <3>3, BytesSplit
  <2>5. Bytes(Listed(o, disk)) <= MaxBytes
    BY <2>a, <2>3, <2>4
  <2> QED
    BY <2>5 DEF S
<1>5. \A p \in DOMAIN disk : \E m \in Messages : \E k \in {1, Len(m)} :
           /\ Len(disk[p]) = k
           /\ \A i \in 1..k : LET body == \E j \in 1..i - 1 : m[j] = "blank"
                              IN disk[p][i] = IF m[i] = "credentials" /\ ~body THEN "redacted" ELSE m[i]
  BY Zenon DEF TraceInv, FileSound, Clean
<1>6. TraceContained
  BY <1>3, <1>4, <1>5, Zenon DEF TraceContained, TraceInv
<1> QED
  BY <1>2, <1>6

\* At first there is no file.
LEMMA TraceStarts == TraceInit => TraceInv
<1> SUFFICES ASSUME TraceInit PROVE TraceInv
  OBVIOUS
<1>1. traces = <<>> /\ total = 0 /\ disk = <<>> /\ strays = {} /\ fresh = TRUE
  BY DEF TraceInit
<1>2. DOMAIN disk = {}
  BY <1>1
<1>3. IsFiniteSet(DOMAIN disk)
  BY <1>2, FS_EmptySet
<1>4. traces \in Seq(Sized) /\ total = Bytes(traces)
  BY <1>1, EmptyBytes
<1> QED
  BY <1>1, <1>2, <1>3, <1>4 DEF TraceInv, OnTheList

\* What was not written to the end has escaped.
LEMMA TraceFails == ASSUME TraceInv, NEW p \in Path, NEW m \in Messages, RecordFails(p, m) PROVE TraceInv'
<1>1. traces' = traces /\ total' = total /\ fresh' = fresh
  BY DEF RecordFails
<1>2. CASE UNCHANGED <<disk, strays>>
  BY <1>1, <1>2 DEF TraceInv, OnTheList, FileOf
<1>3. CASE /\ disk' = [q \in DOMAIN disk \cup {p} |-> IF q = p THEN SubSeq(Sanitized(m), 1, 1) ELSE disk[q]]
           /\ strays' = strays \cup {p}
  <2> DEFINE f == SubSeq(Sanitized(m), 1, 1)
  <2>1. f \in Seq(Line) /\ FileSound(f)
    <3> DEFINE s == Sanitized(m)
    <3>1. m \in Seq(Line) /\ Len(m) >= 1 /\ Len(m) \in Nat
      BY MessagesAre
    <3>2. s \in Seq(Line) /\ Len(s) = Len(m) /\ s[1] = Clean(m, 1)
      BY <3>1, SanitizedRight
    <3> HIDE DEF s
    <3>3. SubSeq(s, 1, 1) \in Seq(Line) /\ Len(SubSeq(s, 1, 1)) = 1 /\ SubSeq(s, 1, 1)[1] = s[1]
      BY <3>1, <3>2
    <3> DEFINE t == SubSeq(s, 1, 1)
    <3>4. t \in Seq(Line) /\ Len(t) = 1 /\ \A i \in 1..1 : t[i] = Clean(m, i)
      BY <3>2, <3>3
    <3> HIDE DEF t
    <3>5. FileSound(t)
      BY <3>4 DEF FileSound
    <3> QED
      BY <3>4, <3>5 DEF t, s
  <2> HIDE DEF f
  <2>2. DOMAIN disk' = DOMAIN disk \cup {p} /\ \A q \in DOMAIN disk' : disk'[q] = IF q = p THEN f ELSE disk[q]
    BY <1>3 DEF f
  <2>3. IsFiniteSet(DOMAIN disk')
    <3>1. IsFiniteSet(DOMAIN disk)
      BY DEF TraceInv
    <3> QED
      BY <2>2, <3>1, FS_AddElement
  <2>4. \A q \in DOMAIN disk' : disk'[q] \in Seq(Line) /\ FileSound(disk'[q])
    BY <2>1, <2>2 DEF TraceInv
  <2>5. OnTheList(traces', disk', strays')
    <3> SUFFICES ASSUME NEW q \in DOMAIN disk' \ strays' PROVE \E i \in 1..Len(traces) : traces[i] = FileOf(q, disk')
      BY <1>1 DEF OnTheList
    <3>1. q \in DOMAIN disk \ strays /\ disk'[q] = disk[q]
      BY <1>3, <2>2
    <3>2. FileOf(q, disk') = FileOf(q, disk)
      BY <3>1 DEF FileOf
    <3> QED
      BY <3>1, <3>2 DEF TraceInv, OnTheList
  <2>6. DOMAIN disk' \subseteq Path /\ strays' \subseteq Path
    BY <1>3, <2>2 DEF TraceInv
  <2>7. traces' \in Seq(Sized) /\ total' = Bytes(traces') /\ (~fresh' => Bytes(traces') <= MaxBytes)
    BY <1>1 DEF TraceInv
  <2> QED
    BY <2>3, <2>4, <2>5, <2>6, <2>7 DEF TraceInv
<1> QED
  BY <1>2, <1>3 DEF RecordFails

\* open finds every file that is there.
LEMMA TraceReopened == ASSUME TraceInv, Reopen PROVE TraceInv'
<1>1. PICK order \in SetToSeqs(DOMAIN disk) : traces' = Listed(order, disk) /\ total' = Bytes(traces')
  BY DEF Reopen
<1>2. disk' = disk /\ strays' = {} /\ fresh' = TRUE
  BY DEF Reopen
<1> DEFINE D == DOMAIN disk
           N == Cardinality(D)
<1>3. IsFiniteSet(D) /\ N \in Nat
  BY FS_CardinalityType DEF TraceInv
<1>4. order \in [1..N -> D] /\ \A i, j \in 1..N : i # j => order[i] # order[j]
  BY <1>1, Zenon DEF SetToSeqs
<1>5. Sizes(D, disk)
  BY DEF Sizes, TraceInv
<1> HIDE DEF D, N
<1>6. order \in Seq(D) /\ Len(order) = N
  BY <1>3, <1>4
<1>7. \A q \in D : \E i \in 1..N : order[i] = q
  <2>1. order \in Injection(1..N, D)
    BY <1>4 DEF Injection, IsInjective
  <2>2. Cardinality(1..N) = N
    BY <1>3, FS_Interval
  <2>3. order \in Surjection(1..N, D)
    BY <1>3, <2>1, <2>2, FS_Injection DEF N
  <2> QED
    BY <2>3 DEF Surjection
<1>8. traces' \in Seq(Sized) /\ Len(traces') = N /\ \A i \in 1..N : traces'[i] = FileOf(order[i], disk)
  BY <1>1, <1>5, <1>6, ListedTyped
<1>9. OnTheList(traces', disk', strays')
  BY <1>2, <1>7, <1>8 DEF OnTheList, D
<1> QED
  BY <1>1, <1>2, <1>8, <1>9 DEF TraceInv

\* record: what goes from the list goes from the disk, or has escaped.
LEMMA TraceRecords ==
    ASSUME TraceInv, NEW p \in Path, NEW m \in Messages, NEW stuck, Record(p, m, stuck) PROVE TraceInv'
<1> DEFINE e == [path |-> p, size |-> Len(m)]
           all == Append(traces, e)
           K == Kept(all)
           R == Rotated(all)
           f == Sanitized(m)
           M == Len(all)
           T == Len(traces)
<1>1. m \in Seq(Line) /\ Len(m) >= 1 /\ Len(m) \in Nat
  BY MessagesAre
<1>2. f \in Seq(Line) /\ Len(f) = Len(m) /\ \A i \in 1..Len(m) : f[i] = Clean(m, i)
  BY <1>1, SanitizedRight
<1>3. FileSound(f)
  BY <1>1, <1>2 DEF FileSound
<1>4. e \in Sized /\ e.size = Len(m)
  BY <1>1 DEF Sized
<1>5. traces \in Seq(Sized) /\ total = Bytes(traces)
  BY DEF TraceInv
<1>6. traces' = K /\ total' = (total + Len(m)) - Bytes(SubSeq(all, 1, M - Len(K))) /\ fresh' = FALSE
  BY DEF Record
<1> DEFINE W == [q \in DOMAIN disk \cup {p} |-> IF q = p THEN f ELSE disk[q]]
<1>7. /\ stuck \subseteq R \cap DOMAIN W
      /\ disk' = [q \in (DOMAIN W \ R) \cup stuck |-> W[q]]
      /\ strays' = (strays \ (R \cup {p})) \cup stuck
  BY DEF Record
<1>8. DOMAIN W = DOMAIN disk \cup {p} /\ \A q \in DOMAIN W : W[q] = IF q = p THEN f ELSE disk[q]
  OBVIOUS
<1> HIDE DEF W, e, f
<1>9. all \in Seq(Sized) /\ M = T + 1 /\ T \in Nat /\ all[M] = e /\ \A i \in 1..T : all[i] = traces[i]
  BY <1>4, <1>5
<1>10. Bytes(all) = Bytes(traces) + Len(m) /\ Bytes(traces) \in Nat
  BY <1>4, <1>5, BytesGrow
<1> HIDE DEF all
<1>11. PICK n \in 0..M : K = SubSeq(all, n + 1, M) /\ Fits(K)
  BY <1>9, KeptRight
<1>12. K \in Seq(Sized) /\ Len(K) = M - n /\ M - Len(K) = n /\ \A i \in 1..(M - n) : K[i] = all[n + i]
  BY <1>9, <1>11
<1>13. R = {t.path : t \in Range(SubSeq(all, 1, n))}
  BY <1>12 DEF Rotated
<1>14. \A i \in 1..n : all[i].path \in R
  <2> TAKE i \in 1..n
  <2> DEFINE front == SubSeq(all, 1, n)
  <2>1. i \in DOMAIN front /\ front[i] = all[i]
    BY <1>9, <1>11
  <2> HIDE DEF front
  <2>2. all[i] \in Range(front)
    BY <2>1 DEF Range
  <2> QED
    BY <1>13, <2>2 DEF front
<1>15. Bytes(K) \in Nat /\ Bytes(all) = Bytes(SubSeq(all, 1, n)) + Bytes(K) /\ Bytes(SubSeq(all, 1, n)) \in Nat
  BY <1>9, <1>11, BytesSplit
<1>16. total' = Bytes(traces')
  <2> DEFINE b == Bytes(SubSeq(all, 1, n))
  <2>1. total' = (total + Len(m)) - b /\ Bytes(all) = b + Bytes(K) /\ b \in Nat
    BY <1>6, <1>12, <1>15
  <2> HIDE DEF b
  <2> QED
    BY <1>1, <1>5, <1>6, <1>10, <1>15, <2>1
<1>17. Bytes(traces') <= MaxBytes /\ traces' \in Seq(Sized)
  BY <1>6, <1>11, <1>12 DEF Fits
<1> HIDE DEF K, R
<1>18. DOMAIN disk' = (DOMAIN W \ R) \cup stuck /\ \A q \in DOMAIN disk' : q \in DOMAIN W /\ disk'[q] = IF q = p THEN f ELSE disk[q]
  BY <1>7, <1>8
<1>19. OnTheList(traces', disk', strays')
  <2> SUFFICES ASSUME NEW q \in DOMAIN disk' \ strays' PROVE \E i \in 1..Len(K) : K[i] = FileOf(q, disk')
    BY <1>6 DEF OnTheList
  <2>1. q \notin stuck /\ q \notin R /\ q \in DOMAIN W
    BY <1>7, <1>18
  <2>2. \E i \in 1..M : all[i] = FileOf(q, disk')
    <3>1. CASE q = p
      <4>1. disk'[q] = f
        BY <1>18, <3>1
      <4>2. FileOf(q, disk') = e
        BY <1>2, <3>1, <4>1 DEF FileOf, e
      <4> QED
        BY <1>9, <4>2
    <3>2. CASE q # p
      <4>1. q \in DOMAIN disk \ strays /\ disk'[q] = disk[q]
        BY <1>7, <1>8, <1>18, <2>1, <3>2
      <4>2. PICK i \in 1..T : traces[i] = FileOf(q, disk)
        BY <4>1 DEF TraceInv, OnTheList
      <4>3. FileOf(q, disk') = FileOf(q, disk)
        BY <4>1 DEF FileOf
      <4>4. i \in 1..M /\ all[i] = traces[i]
        BY <1>9
      <4> QED
        BY <4>2, <4>3, <4>4
    <3> QED
      BY <3>1, <3>2
  <2>3. PICK i \in 1..M : all[i] = FileOf(q, disk')
    BY <2>2
  <2>4. FileOf(q, disk').path = q
    BY DEF FileOf
  <2>5. i \notin 1..n
    BY <1>14, <2>1, <2>3, <2>4
  <2>6. i - n \in 1..(M - n) /\ n + (i - n) = i
    BY <1>9, <1>11, <2>5
  <2>7. K[i - n] = all[i]
    BY <1>12, <2>6
  <2> QED
    BY <1>12, <2>3, <2>6, <2>7
<1>20. \A q \in DOMAIN disk' : disk'[q] \in Seq(Line) /\ FileSound(disk'[q])
  BY <1>2, <1>3, <1>8, <1>18 DEF TraceInv
<1>21. DOMAIN disk' \subseteq Path /\ strays' \subseteq Path /\ DOMAIN disk' \subseteq DOMAIN disk \cup {p}
  BY <1>7, <1>8, <1>18 DEF TraceInv
<1>22. IsFiniteSet(DOMAIN disk')
  <2>1. IsFiniteSet(DOMAIN disk)
    BY DEF TraceInv
  <2>2. IsFiniteSet(DOMAIN disk \cup {p})
    BY <2>1, FS_AddElement
  <2> QED
    BY <1>21, <2>2, FS_Subset
<1> QED
  BY <1>6, <1>16, <1>17, <1>19, <1>20, <1>21, <1>22 DEF TraceInv

\* The directory is contained, step by step.
LEMMA TraceKept == TraceInv /\ [TraceNext]_traceVars => TraceInv'
<1> SUFFICES ASSUME TraceInv, [TraceNext]_traceVars PROVE TraceInv'
  OBVIOUS
<1>1. CASE UNCHANGED traceVars
  BY <1>1 DEF traceVars, TraceInv, OnTheList, FileOf
<1>2. CASE Reopen
  BY <1>2, TraceReopened
<1>3. ASSUME NEW p \in Path, NEW m \in Messages, RecordFails(p, m) PROVE TraceInv'
  BY <1>3, TraceFails
<1>4. ASSUME NEW p \in Path, NEW m \in Messages, NEW stuck, Record(p, m, stuck) PROVE TraceInv'
  BY <1>4, TraceRecords
<1> QED
  BY <1>1, <1>2, <1>3, <1>4, Zenon DEF TraceNext

-----------------------------------------------------------------------------
(* The types of the components whose invariants say less than their types  *)

\* Nothing has happened before the 180, and the clock stays within its bound.
RelBounds ==
    /\ RelTypeOK
    /\ relHandler = "Idle" => relNow = 0

\* At first nothing is due.
LEMMA RelBoundsStart == RelInit => RelBounds
<1> SUFFICES ASSUME RelInit PROVE RelBounds
  OBVIOUS
<1>1. RelEnd \in Nat /\ RelT2 \in Nat /\ RelEnd >= 1
  BY RelAssumption DEF RelEnd
<1>2. relTask \in [on : BOOLEAN, due : 0..RelEnd, interval : 0..RelT2]
  <2>1. 0 \in 0..RelEnd /\ 0 \in 0..RelT2
    BY <1>1
  <2> QED
    BY <2>1 DEF RelInit
<1>3. relSends \in Seq(0..RelLimit)
  BY DEF RelInit
<1> QED
  BY <1>1, <1>2, <1>3 DEF RelInit, RelBounds, RelTypeOK

\* The handler of the last reference takes its task along.
LEMMA DropTyped ==
    ASSUME RelTypeOK, NEW e, NEW H
    PROVE  TaskAfterDrop(e, H) \in [on : BOOLEAN, due : 0..RelEnd, interval : 0..RelT2]
BY DEF RelTypeOK, TaskAfterDrop

\* No step leaves the bounds: the last repetition is before the limit, its pause at most T2.
LEMMA RelBoundsKept ==
    ASSUME RelBounds, [RelNext]_relVars2, relHandler = "Idle" => ~relTask.on
    PROVE  RelBounds'
<1> DEFINE PrackStages == {"Idle", "Found", "Took", "Answered", "Notified", "Refused", "Failed", "Done"}
           Tasks == [on : BOOLEAN, due : 0..RelEnd, interval : 0..RelT2]
           Senders == {"State", "Sent", "Dropped"} \cup RelPrack
<1>0. /\ RelEnd \in Nat /\ RelT2 \in Nat /\ RelT2 >= 1 /\ RelLimit \in Nat
      /\ RelEnd >= RelLimit + RelT2 /\ RelEnd >= 1
  BY RelAssumption DEF RelEnd
<1>1. /\ relHandler \in RelOver \cup {"Idle", "Forking", "Waiting"}
      /\ relEntry \in BOOLEAN /\ relPermit \in BOOLEAN /\ relTask \in Tasks /\ relSender \in Senders
      /\ relPracks \in [RelPrack -> PrackStages]
      /\ relNow \in 0..RelEnd /\ relSince \in 0..RelEnd /\ relSends \in Seq(0..RelLimit)
      /\ relHandler = "Idle" => relNow = 0
  BY DEF RelBounds, RelTypeOK
<1>2. \A e, H : TaskAfterDrop(e, H) \in Tasks
  BY DropTyped DEF RelBounds
<1>3. \A p \in RelPrack, s \in PrackStages : PrackTo(p, s) => relPracks' \in [RelPrack -> PrackStages]
  BY <1>1 DEF PrackTo
<1>4. CASE RingReliably
  <2>1. relTask' \in Tasks
    <3>1. relNow = 0 /\ relTask' = [on |-> TRUE, due |-> relNow + 1, interval |-> 1]
      BY <1>1, <1>4 DEF RingReliably
    <3>2. relNow + 1 \in 0..RelEnd /\ 1 \in 0..RelT2
      BY <1>0, <3>1
    <3> QED
      BY <3>1, <3>2
  <2> QED
    BY <1>1, <1>4, <2>1 DEF RingReliably, RelBounds, RelTypeOK, RelOver
<1>5. CASE RelCancelled \/ RelTimeout \/ RelFinish
  <2>1. relTask' \in Tasks
    BY <1>2, <1>5 DEF RelCancelled, RelTimeout, RelFinish, CleanRel
  <2> QED
    BY <1>1, <1>5, <2>1 DEF RelCancelled, RelTimeout, RelFinish, CleanRel, RelBounds, RelTypeOK, RelOver
<1>6. CASE RelWait \/ RelReceived
  BY <1>1, <1>6 DEF RelWait, RelReceived, RelBounds, RelTypeOK, RelOver
<1>7. ASSUME NEW p \in RelPrack, RelPrackFinds(p) PROVE RelBounds'
  <2>1. relPracks' \in [RelPrack -> PrackStages]
    BY <1>3, <1>7 DEF RelPrackFinds
  <2> QED
    BY <1>1, <1>7, <2>1 DEF RelPrackFinds, RelElse, RelBounds, RelTypeOK
<1>8. ASSUME NEW p \in RelPrack, RelPrackTakes(p) PROVE RelBounds'
  <2>1. relPracks' \in [RelPrack -> PrackStages] /\ relSender' \in Senders
    BY <1>1, <1>3, <1>8 DEF RelPrackTakes
  <2> QED
    BY <1>1, <1>8, <2>1 DEF RelPrackTakes, RelElse, RelBounds, RelTypeOK
<1>9. ASSUME NEW p \in RelPrack, RelPrackAnswers(p) PROVE RelBounds'
  <2>1. relPracks' \in [RelPrack -> PrackStages] /\ relSender' \in Senders /\ relTask' \in Tasks
    BY <1>1, <1>2, <1>3, <1>9 DEF RelPrackAnswers
  <2> QED
    BY <1>1, <1>9, <2>1 DEF RelPrackAnswers, RelElse, RelBounds, RelTypeOK
<1>10. ASSUME NEW p \in RelPrack, RelPrackNotifies(p) PROVE RelBounds'
  <2>1. relPracks' \in [RelPrack -> PrackStages] /\ relSender' \in Senders
    BY <1>1, <1>3, <1>10 DEF RelPrackNotifies
  <2> QED
    BY <1>1, <1>10, <2>1 DEF RelPrackNotifies, RelElse, RelBounds, RelTypeOK
<1>11. ASSUME NEW p \in RelPrack, RelPrackDone(p) PROVE RelBounds'
  <2>1. relPracks' \in [RelPrack -> PrackStages] /\ relTask' \in Tasks
    BY <1>2, <1>3, <1>11 DEF RelPrackDone
  <2>2. relEntry' \in BOOLEAN
    BY <1>11, Zenon DEF RelPrackDone
  <2> QED
    BY <1>1, <1>11, <2>1, <2>2 DEF RelPrackDone, RelElse, RelBounds, RelTypeOK
<1>12. CASE RepeatRinging
  <2>1. relTask' \in Tasks /\ relSends' \in Seq(0..RelLimit)
    <3>1. CASE relTask' = [relTask EXCEPT !.on = FALSE] /\ UNCHANGED relSends
      BY <1>1, <3>1
    <3>2. CASE ~(relTask' = [relTask EXCEPT !.on = FALSE] /\ UNCHANGED relSends)
      <4> DEFINE next == IF 2 * relTask.interval < RelT2 THEN 2 * relTask.interval ELSE RelT2
      <4>1. /\ relNow < RelLimit /\ relSends' = Append(relSends, relNow)
            /\ relTask' = [relTask EXCEPT !.interval = next, !.due = relNow + next]
        BY <1>12, <3>2 DEF RepeatRinging
      <4>2. relTask.interval \in 0..RelT2
        BY <1>1
      <4>3. next \in 0..RelT2 /\ relNow + next \in 0..RelEnd /\ relNow \in 0..RelLimit
        BY <1>0, <1>1, <4>1, <4>2
      <4> HIDE DEF next
      <4>4. relTask' \in Tasks
        BY <1>1, <4>1, <4>3
      <4>5. relSends' \in Seq(0..RelLimit)
        BY <1>1, <4>1, <4>3
      <4> QED
        BY <4>4, <4>5
    <3> QED
      BY <3>1, <3>2
  <2> QED
    BY <1>1, <1>12, <2>1 DEF RepeatRinging, RelBounds, RelTypeOK
<1>13. CASE RelNotified
  <2>1. relTask' \in Tasks
    BY <1>1, <1>13 DEF RelNotified
  <2> QED
    BY <1>1, <1>13, <2>1 DEF RelNotified, RelBounds, RelTypeOK
<1>14. CASE RelTick
  BY <1>0, <1>1, <1>14 DEF RelTick, RelBounds, RelTypeOK
<1>16. CASE UNCHANGED relVars2
  BY <1>1, <1>16 DEF relVars2, RelBounds, RelTypeOK
<1> QED
  BY <1>4, <1>5, <1>6, <1>7, <1>8, <1>9, <1>10, <1>11, <1>12, <1>13, <1>14, <1>16 DEF RelNext

\* The outgoing stream is a session's or an egress', at one of its stages.
TxTyped ==
    /\ tx.kind \in {"Session", "Egress"} /\ tx.stage \in {"Idle", "Sending", "Counting"}
    /\ tx.counted \in Nat /\ tx.marker \in BOOLEAN

\* The buffers hold packets of their source.
RxTyped ==
    /\ DOMAIN rx \subseteq Source
    /\ \A s \in DOMAIN rx : rx[s].queue \subseteq 1..LastNumber /\ rx[s].received \in Nat

\* Sending, counting and reporting keep the types of the stream.
LEMMA TxKept ==
    ASSUME TxShape, TxTyped, [RtpNext]_rtpVars
    PROVE  TxTyped'
<1>1. CASE UNCHANGED tx
  BY <1>1 DEF TxTyped
<1>2. CASE UseEgress
  <2>1. tx' = [tx EXCEPT !.kind = "Egress"]
    BY <1>2 DEF UseEgress
  <2>2. tx'.kind = "Egress" /\ tx'.stage = tx.stage /\ tx'.counted = tx.counted /\ tx'.marker = tx.marker
    BY <2>1 DEF TxShape
  <2> QED
    BY <2>2 DEF TxTyped
<1>3. CASE TakeNumber
  <2> DEFINE m == tx.sentAt # NoStamp => rtpNow - tx.sentAt >= 2
  <2>0. m \in BOOLEAN
    OBVIOUS
  <2>1. tx' = [tx EXCEPT !.stage = "Sending", !.ts = @ + 1, !.sentAt = rtpNow, !.marker = m]
    BY <1>3, Zenon DEF TakeNumber
  <2> HIDE DEF m
  <2>2. tx'.kind = tx.kind /\ tx'.stage = "Sending" /\ tx'.counted = tx.counted
    BY <2>1 DEF TxShape
  <2>3. tx'.marker = m
    BY <2>1, Zenon DEF TxShape
  <2> QED
    BY <2>0, <2>2, <2>3 DEF TxTyped
<1>4. CASE SocketSends
  <2>1. PICK s \in {"Counting", "Idle"} : tx' = [tx EXCEPT !.stage = s]
    BY <1>4 DEF SocketSends
  <2>2. tx'.kind = tx.kind /\ tx'.stage = s /\ tx'.counted = tx.counted /\ tx'.marker = tx.marker
    BY <2>1 DEF TxShape
  <2> QED
    BY <2>2 DEF TxTyped
<1>5. CASE CountSent
  <2> DEFINE a == IF tx.anchor = NoStamp THEN [at |-> rtpNow, ts |-> tx.ts - 1] ELSE tx.anchor
  <2>1. tx' = [tx EXCEPT !.stage = "Idle", !.counted = @ + 1, !.anchor = a]
    BY <1>5 DEF CountSent
  <2> HIDE DEF a
  <2>2. tx'.kind = tx.kind /\ tx'.stage = "Idle" /\ tx'.counted = tx.counted + 1 /\ tx'.marker = tx.marker
    BY <2>1 DEF TxShape
  <2> QED
    BY <2>2 DEF TxTyped
<1>6. CASE SendSr \/ SendEgressSr
  <2> DEFINE r == SenderReport
  <2>1. tx' = [tx EXCEPT !.goneThen = gone, !.reported = r]
    BY <1>6 DEF SendSr, SendEgressSr
  <2> HIDE DEF r
  <2>2. tx'.kind = tx.kind /\ tx'.stage = tx.stage /\ tx'.counted = tx.counted /\ tx'.marker = tx.marker
    BY <2>1 DEF TxShape
  <2> QED
    BY <2>2 DEF TxTyped
<1>7. CASE SendRr
  BY <1>1, <1>7 DEF SendRr
<1>8. ASSUME NEW s \in Source, NEW n \in 1..LastNumber, IngestPacket(s, n) PROVE TxTyped'
  <2>1. UNCHANGED tx
    BY <1>8, Zenon DEF IngestPacket
  <2> QED
    BY <1>1, <2>1
<1>9. ASSUME NEW s \in Source, Pull(s) PROVE TxTyped'
  <2>1. UNCHANGED tx
    BY <1>9, Zenon DEF Pull
  <2> QED
    BY <1>1, <2>1
<1>10. ASSUME NEW s \in Source, NEW m \in Stamps, RecordRemoteSr(s, m) PROVE TxTyped'
  BY <1>1, <1>10 DEF RecordRemoteSr
<1>11. CASE Clock
  BY <1>1, <1>11 DEF Clock
<1>12. CASE UNCHANGED rtpVars
  BY <1>1, <1>12 DEF rtpVars
<1> QED
  BY <1>2, <1>3, <1>4, <1>5, <1>6, <1>7, <1>8, <1>9, <1>10, <1>11, <1>12, Zenon DEF RtpNext

\* So do receiving and pulling, of the buffers.
LEMMA RxKept ==
    ASSUME RxTyped, rx = [s \in DOMAIN rx |-> rx[s]], \A s \in DOMAIN rx : BufferShape(rx[s]), [RtpNext]_rtpVars
    PROVE  RxTyped'
<1>1. CASE UNCHANGED rx
  BY <1>1 DEF RxTyped
<1>2. ASSUME NEW s \in Source, Pull(s) PROVE RxTyped'
  <2> DEFINE b == rx[s]
             first == CHOOSE n \in b.queue : \A m \in b.queue : n <= m
  <2>1. s \in DOMAIN rx /\ rx' = [rx EXCEPT ![s].queue = @ \ {first}, ![s].next = first + 1]
    BY <1>2, Zenon DEF Pull
  <2> HIDE DEF first
  <2> DEFINE c == [b EXCEPT !.queue = @ \ {first}, !.next = first + 1]
  <2>2. rx' = [rx EXCEPT ![s] = c]
    BY <2>1
  <2>3. c.queue = b.queue \ {first} /\ c.received = b.received
    BY <2>1 DEF BufferShape
  <2> HIDE DEF c
  <2>4. DOMAIN rx' = DOMAIN rx /\ rx'[s] = c /\ \A r \in DOMAIN rx \ {s} : rx'[r] = rx[r]
    BY <2>1, <2>2
  <2> QED
    BY <2>1, <2>3, <2>4 DEF RxTyped
<1>3. ASSUME NEW s \in Source, NEW n \in 1..LastNumber, IngestPacket(s, n) PROVE RxTyped'
  <2> DEFINE b == BufferOf(s)
             seen == [b EXCEPT !.base = IF @ = NoStamp THEN n ELSE @, !.max = Larger(@, n)]
             unwanted == (b.next # NoStamp /\ n < b.next) \/ n \in b.queue
             c == IF unwanted THEN seen ELSE [seen EXCEPT !.received = @ + 1, !.queue = @ \cup {n}]
  <2>1. rx' = WithBuffer(s, c)
    BY <1>3, Zenon DEF IngestPacket
  <2>2. BufferShape(b) /\ b.queue \subseteq 1..LastNumber /\ b.received \in Nat
    <3>1. CASE s \in DOMAIN rx
      BY <3>1 DEF BufferOf, RxTyped
    <3>2. CASE s \notin DOMAIN rx
      <4>1. b = NoBuffer
        BY <3>2 DEF BufferOf
      <4> QED
        BY <4>1 DEF NoBuffer, BufferShape
    <3> QED
      BY <3>1, <3>2
  <2> HIDE DEF b
  <2>3. seen.queue = b.queue /\ seen.received = b.received /\ BufferShape(seen)
    BY <2>2 DEF BufferShape
  <2> HIDE DEF seen, unwanted
  <2>4. c.queue \subseteq 1..LastNumber /\ c.received \in Nat
    <3>1. CASE unwanted
      BY <2>2, <2>3, <3>1
    <3>2. CASE ~unwanted
      <4>1. c.queue = seen.queue \cup {n} /\ c.received = seen.received + 1
        BY <2>3, <3>2 DEF BufferShape
      <4> QED
        BY <2>2, <2>3, <4>1
    <3> QED
      BY <3>1, <3>2
  <2> HIDE DEF c
  <2>5. DOMAIN rx' = DOMAIN rx \cup {s} /\ \A r \in DOMAIN rx' : rx'[r] = IF r = s THEN c ELSE rx[r]
    BY <2>1 DEF WithBuffer
  <2> QED
    BY <2>4, <2>5 DEF RxTyped
<1>4. CASE Clock \/ UseEgress \/ TakeNumber \/ SocketSends \/ CountSent \/ SendSr \/ SendEgressSr \/ SendRr
  BY <1>1, <1>4 DEF Clock, UseEgress, TakeNumber, SocketSends, CountSent, SendSr, SendEgressSr, SendRr
<1>5. ASSUME NEW s \in Source, NEW m \in Stamps, RecordRemoteSr(s, m) PROVE RxTyped'
  BY <1>1, <1>5 DEF RecordRemoteSr
<1>6. CASE UNCHANGED rtpVars
  BY <1>1, <1>6 DEF rtpVars
<1> QED
  BY <1>2, <1>3, <1>4, <1>5, <1>6, Zenon DEF RtpNext

\* The clock and the number of events keep within their bounds, and reports are about sources.
RtpBounds ==
    /\ rtpNow \in 0..RtpTicks /\ rtpEvents \in 0..MaxEvents
    /\ DOMAIN remoteSr \subseteq Source /\ DOMAIN blocks \subseteq Source

\* A block is about a source that has a buffer.
LEMMA RtpBoundsKept ==
    ASSUME RtpBounds, RxTyped, [RtpNext]_rtpVars
    PROVE  RtpBounds'
<1>0. RtpTicks \in Nat /\ MaxEvents \in Nat
  BY RtpSessionAssumption
<1>1. rtpNow' \in 0..RtpTicks
  <2>1. CASE UNCHANGED rtpNow
    BY <2>1 DEF RtpBounds
  <2>2. CASE Clock
    BY <1>0, <2>2 DEF RtpBounds, Clock
  <2> QED
    BY <2>1, <2>2, Zenon DEF RtpNext, UseEgress, TakeNumber, SocketSends, CountSent, SendSr, SendEgressSr, SendRr,
                             Pull, IngestPacket, RecordRemoteSr, rtpVars
<1>2. rtpEvents' \in 0..MaxEvents
  <2>1. CASE UNCHANGED rtpEvents
    BY <2>1 DEF RtpBounds
  <2>2. CASE Event
    BY <1>0, <2>2 DEF RtpBounds, Event
  <2> QED
    BY <2>1, <2>2, Zenon DEF RtpNext, Clock, UseEgress, TakeNumber, SocketSends, CountSent, SendSr, SendEgressSr, SendRr,
                             Pull, IngestPacket, RecordRemoteSr, rtpVars
<1>3. DOMAIN remoteSr' \subseteq Source
  <2>1. CASE UNCHANGED remoteSr
    BY <2>1 DEF RtpBounds
  <2>2. ASSUME NEW s \in Source, NEW m \in Stamps, RecordRemoteSr(s, m) PROVE DOMAIN remoteSr' \subseteq Source
    <3>1. DOMAIN remoteSr' = DOMAIN remoteSr \cup {s}
      BY <2>2 DEF RecordRemoteSr
    <3> QED
      BY <3>1 DEF RtpBounds
  <2> QED
    BY <2>1, <2>2, Zenon DEF RtpNext, Clock, UseEgress, TakeNumber, SocketSends, CountSent, SendSr, SendEgressSr, SendRr,
                             Pull, IngestPacket, rtpVars
<1>4. DOMAIN blocks' \subseteq Source
  <2>1. CASE UNCHANGED blocks
    BY <2>1 DEF RtpBounds
  <2>2. ASSUME NEW R \in SUBSET DOMAIN rx, BuildBlocks(R) PROVE DOMAIN blocks' \subseteq Source
    <3>1. DOMAIN blocks' = R
      BY <2>2 DEF BuildBlocks
    <3> QED
      BY <3>1 DEF RxTyped
  <2> QED
    BY <2>1, <2>2, Zenon DEF RtpNext, Clock, UseEgress, TakeNumber, SocketSends, CountSent, SendSr, SendEgressSr, SendRr,
                             Pull, IngestPacket, RecordRemoteSr, rtpVars
<1> QED
  BY <1>1, <1>2, <1>3, <1>4 DEF RtpBounds

\* At first there is nothing.
LEMMA RtpTypesStart == RtpInit => TxTyped /\ RxTyped /\ RtpBounds
<1> SUFFICES ASSUME RtpInit PROVE TxTyped /\ RxTyped /\ RtpBounds
  OBVIOUS
<1>0. RtpTicks \in Nat /\ MaxEvents \in Nat
  BY RtpSessionAssumption
<1>1. TxTyped
  BY DEF RtpInit, TxTyped
<1>2. DOMAIN rx = {} /\ DOMAIN remoteSr = {} /\ DOMAIN blocks = {} /\ rtpNow = 0 /\ rtpEvents = 0
  BY DEF RtpInit
<1> QED
  BY <1>0, <1>1, <1>2 DEF RxTyped, RtpBounds

\* The queue has its slots, the lines their numbers, and the media somebody who reads them.
PeerBounds ==
    /\ Len(pcQueue) <= CommandSlots
    /\ pcLines.known \subseteq 1..pcLines.made /\ pcPending <= pcLines.made
    /\ pcMedia \in [holder : Caller \cup {"Session", "Nobody"}, frames : 0..MediaBuffer]

\* At first the queue is empty and there is no line.
LEMMA PeerBoundsStart == PeerInit => PeerBounds
<1> SUFFICES ASSUME PeerInit PROVE PeerBounds
  OBVIOUS
<1>1. Len(pcQueue) = 0 /\ pcLines.known = {} /\ pcLines.made = 0 /\ pcPending = 0
  BY DEF PeerInit
<1>2. 0 \in 0..MediaBuffer /\ CommandSlots \in Nat
  BY PeerAssumption
<1>3. pcMedia \in [holder : Caller \cup {"Session", "Nobody"}, frames : 0..MediaBuffer]
  BY <1>2 DEF PeerInit
<1> QED
  BY <1>1, <1>2, <1>3 DEF PeerBounds

\* The queue grows by one command where there is a slot, and shrinks otherwise.
LEMMA QueueBounded ==
    ASSUME NEW S, pcQueue \in Seq(S), Len(pcQueue) <= CommandSlots, [PeerNext]_pcVars
    PROVE  Len(pcQueue') <= CommandSlots
<1>0. CommandSlots \in Nat \ {0}
  BY PeerAssumption
<1>1. CASE UNCHANGED pcQueue
  BY <1>1
<1>2. CASE Len(pcQueue) < CommandSlots /\ \E x : pcQueue' = Append(pcQueue, x)
  BY <1>0, <1>2
<1>3. CASE pcQueue # <<>> /\ pcQueue' = Tail(pcQueue)
  BY <1>0, <1>3
<1>4. CASE pcQueue' = <<>>
  BY <1>0, <1>4
<1>5. ASSUME NEW c, NEW op, NEW s, NEW g, Ask(c, op, s, g) PROVE Len(pcQueue') <= CommandSlots
  <2>1. CASE pcLoop = "Up"
    BY <1>2, <1>5, <2>1 DEF Ask
  <2>2. CASE pcLoop # "Up"
    BY <1>1, <1>5, <2>2 DEF Ask
  <2> QED
    BY <2>1, <2>2
<1>6. ASSUME NEW c, Close(c) PROVE Len(pcQueue') <= CommandSlots
  <2>1. CASE pcLoop = "Up"
    BY <1>2, <1>6, <2>1 DEF Close
  <2>2. CASE pcLoop # "Up"
    BY <1>1, <1>6, <2>2 DEF Close
  <2> QED
    BY <2>1, <2>2
<1>7. ASSUME NEW l, RingBrowser(l) \/ (\E g \in BOOLEAN : BrowserAnswers(l, g)) PROVE Len(pcQueue') <= CommandSlots
  BY <1>5, <1>7, Zenon DEF RingBrowser, BrowserAnswers
<1>8. ASSUME NEW l, AnswerTaken(l) PROVE Len(pcQueue') <= CommandSlots
  BY <1>1, <1>6, <1>8, Zenon DEF AnswerTaken
<1>9. CASE \E dialling \in BOOLEAN, d \in SessionDescription : BrowserOffers(dialling, d)
  BY <1>5, <1>9, Zenon DEF BrowserOffers
<1>10. CASE \E g \in BOOLEAN : BrowserCandidate(g)
  BY <1>5, <1>10, Zenon DEF BrowserCandidate
<1>11. CASE SessionCloses
  BY <1>6, <1>11, Zenon DEF SessionCloses
<1>12. ASSUME NEW c, SendMedia(c) PROVE Len(pcQueue') <= CommandSlots
  BY <1>2, <1>12, Zenon DEF SendMedia
<1>13. CASE AcceptOffer \/ CreateOffer \/ AcceptAnswer \/ AddRemoteCandidate \/ WriteMedia
  BY <1>3, <1>13, Zenon DEF AcceptOffer, CreateOffer, AcceptAnswer, AddRemoteCandidate, WriteMedia
<1>14. CASE SessionEnds
  BY <1>4, <1>14 DEF SessionEnds
<1>15. CASE \/ \E b \in {"str0m", "stub"}, ok \in BOOLEAN : StartSession(b, ok)
            \/ \E l \in Leg : OfferMade(l) \/ OfferUnanswered(l)
            \/ WebReplied \/ (\E c \in Caller : CallOver(c)) \/ BridgeReads
            \/ (\E e \in {"IceState", "MediaData"} : NetworkInput(e)) \/ HandleEvent \/ UNCHANGED pcVars
  <2>1. UNCHANGED pcQueue
    BY <1>15, Zenon DEF StartSession, OfferMade, OfferUnanswered, WebReplied, CallOver, BridgeReads, NetworkInput,
                 HandleEvent, pcVars
  <2> QED
    BY <1>1, <2>1
<1> QED
  BY <1>7, <1>8, <1>9, <1>10, <1>11, <1>12, <1>13, <1>14, <1>15, Zenon DEF PeerNext

\* A line is numbered when it is made and known when both ends have it.
LEMMA LinesBounded ==
    ASSUME pcPending \in Nat, pcLines \in [made : Nat, known : SUBSET Nat],
           pcLines.known \subseteq 1..pcLines.made, pcPending <= pcLines.made, [PeerNext]_pcVars
    PROVE  pcLines'.known \subseteq 1..pcLines'.made /\ pcPending' <= pcLines'.made
<1> DEFINE n == pcLines.made
           K == pcLines.known
           Goal == pcLines'.known \subseteq 1..pcLines'.made /\ pcPending' <= pcLines'.made
<1>0. n \in Nat /\ pcPending \in Nat /\ K \subseteq 1..n /\ pcPending <= n /\ DOMAIN pcLines = {"made", "known"}
  OBVIOUS
<1>1. CASE UNCHANGED <<pcLines, pcPending>>
  BY <1>1
<1>2. CASE AcceptOffer
  <2>1. CASE UNCHANGED pcLines
    BY <1>1, <1>2, <2>1 DEF AcceptOffer
  <2>2. CASE pcLines' = [made |-> n + 1, known |-> K \cup {n + 1}]
    <3>1. pcLines'.made = n + 1 /\ pcLines'.known = K \cup {n + 1} /\ pcPending' = pcPending
      BY <1>2, <2>2 DEF AcceptOffer
    <3> HIDE DEF n, K
    <3>2. \A x \in K \cup {n + 1} : x \in 1..(n + 1)
      BY <1>0
    <3>3. pcPending <= n + 1
      BY <1>0
    <3> QED
      BY <3>1, <3>2, <3>3, Zenon
  <2> QED
    BY <1>2, <2>1, <2>2 DEF AcceptOffer
<1>3. CASE CreateOffer
  <2>1. CASE UNCHANGED <<pcLines, pcPending>>
    BY <1>1, <2>1
  <2>2. CASE pcPending' = n + 1 /\ pcLines' = [pcLines EXCEPT !.made = @ + 1]
    <3>1. pcLines'.made = n + 1 /\ pcLines'.known = K /\ pcPending' = n + 1
      BY <1>0, <2>2
    <3> HIDE DEF n, K
    <3> QED
      BY <1>0, <3>1
  <2> QED
    BY <1>3, <2>1, <2>2 DEF CreateOffer
<1>4. CASE AcceptAnswer
  <2>1. CASE UNCHANGED pcLines
    <3>1. pcPending' = 0 /\ pcLines'.made = n /\ pcLines'.known = K
      BY <1>4, <2>1 DEF AcceptAnswer
    <3> HIDE DEF n, K
    <3> QED
      BY <1>0, <3>1
  <2>2. CASE pcPending # 0 /\ pcLines' = [pcLines EXCEPT !.known = @ \cup {pcPending}]
    <3>1. pcLines'.made = n /\ pcLines'.known = K \cup {pcPending} /\ pcPending' = 0
      BY <1>0, <1>4, <2>2 DEF AcceptAnswer
    <3> HIDE DEF n, K
    <3> QED
      BY <1>0, <2>2, <3>1
  <2> QED
    BY <1>4, <2>1, <2>2 DEF AcceptAnswer
<1>5. ASSUME NEW c, NEW op, NEW s, NEW g, Ask(c, op, s, g) PROVE Goal
  BY <1>1, <1>5 DEF Ask
<1>6. ASSUME NEW l, NEW g, NEW d, RingBrowser(l) \/ BrowserAnswers(l, g) \/ BrowserOffers(g, d) \/ BrowserCandidate(g)
      PROVE  Goal
  BY <1>5, <1>6, Zenon DEF RingBrowser, BrowserAnswers, BrowserOffers, BrowserCandidate
<1>7. ASSUME NEW b, NEW ok, NEW c,
             \/ StartSession(b, ok) \/ OfferMade(c) \/ OfferUnanswered(c) \/ AnswerTaken(c)
             \/ WebReplied \/ CallOver(c) \/ SendMedia(c) \/ BridgeReads
             \/ SessionCloses \/ AddRemoteCandidate \/ WriteMedia \/ SessionEnds
             \/ NetworkInput(b) \/ HandleEvent \/ UNCHANGED pcVars
      PROVE  Goal
  <2>1. UNCHANGED <<pcLines, pcPending>>
    BY <1>7, Zenon DEF StartSession, OfferMade, OfferUnanswered, AnswerTaken, WebReplied, CallOver, SendMedia,
                 BridgeReads, SessionCloses, AddRemoteCandidate, WriteMedia, SessionEnds, NetworkInput,
                 HandleEvent, pcVars
  <2> QED
    BY <1>1, <2>1
<1> QED
  BY <1>2, <1>3, <1>4, <1>6, <1>7, Zenon DEF PeerNext

\* The media go from the session to one call and then to nobody; the buffer has its size.
LEMMA MediaBounded ==
    ASSUME [PeerNext]_pcVars, pcMedia \in [holder : Caller \cup {"Session", "Nobody"}, frames : 0..MediaBuffer]
    PROVE  pcMedia' \in [holder : Caller \cup {"Session", "Nobody"}, frames : 0..MediaBuffer]
<1> DEFINE M == [holder : Caller \cup {"Session", "Nobody"}, frames : 0..MediaBuffer]
<1>0. MediaBuffer \in Nat
  BY PeerAssumption
<1>1. CASE UNCHANGED pcMedia
  BY <1>1
<1>2. CASE \E c \in Caller : pcMedia' = [pcMedia EXCEPT !.holder = c]
  BY <1>2
<1>3. CASE pcMedia' = [holder |-> "Nobody", frames |-> 0]
  <2>1. 0 \in 0..MediaBuffer
    BY <1>0
  <2> QED
    BY <1>3, <2>1
<1>4. ASSUME NEW k \in 0..MediaBuffer, pcMedia' = [pcMedia EXCEPT !.frames = k] PROVE pcMedia' \in M
  BY <1>4
<1>5. CASE \E l \in Leg : AnswerTaken(l)
  BY <1>1, <1>2, <1>5 DEF AnswerTaken, Caller
<1>6. CASE WebReplied
  BY <1>1, <1>2, <1>6 DEF WebReplied, Caller
<1>7. CASE \E c \in Caller : CallOver(c)
  BY <1>1, <1>3, <1>7 DEF CallOver
<1>8. CASE BridgeReads
  <2>1. pcMedia' = [pcMedia EXCEPT !.frames = pcMedia.frames - 1] /\ pcMedia.frames > 0
    BY <1>8 DEF BridgeReads
  <2>2. pcMedia.frames - 1 \in 0..MediaBuffer
    BY <1>0, <2>1
  <2> QED
    BY <1>4, <2>1, <2>2
<1>9. CASE HandleEvent
  <2>1. CASE UNCHANGED pcMedia
    BY <1>1, <2>1
  <2>2. CASE pcMedia' # pcMedia
    <3>1. pcMedia' = [pcMedia EXCEPT !.frames = pcMedia.frames + 1] /\ pcMedia.frames < MediaBuffer
      BY <1>9, <2>2 DEF HandleEvent
    <3>2. pcMedia.frames + 1 \in 0..MediaBuffer
      BY <1>0, <3>1
    <3> QED
      BY <1>4, <3>1, <3>2
  <2> QED
    BY <2>1, <2>2
<1>10. ASSUME NEW c, NEW op, NEW s, NEW g, Ask(c, op, s, g) PROVE UNCHANGED pcMedia
  BY <1>10 DEF Ask
<1>11. ASSUME NEW l, NEW g, NEW d, RingBrowser(l) \/ BrowserAnswers(l, g) \/ BrowserOffers(g, d) \/ BrowserCandidate(g)
      PROVE  pcMedia' \in M
  BY <1>1, <1>10, <1>11, Zenon DEF RingBrowser, BrowserAnswers, BrowserOffers, BrowserCandidate
<1>12. ASSUME NEW b, NEW ok, NEW c,
              \/ StartSession(b, ok) \/ OfferMade(c) \/ OfferUnanswered(c)
              \/ SendMedia(c) \/ AcceptOffer \/ CreateOffer \/ AcceptAnswer
              \/ SessionCloses \/ AddRemoteCandidate \/ WriteMedia \/ SessionEnds
              \/ NetworkInput(b) \/ UNCHANGED pcVars
       PROVE  pcMedia' \in M
  <2>1. UNCHANGED pcMedia
    BY <1>12, Zenon DEF StartSession, OfferMade, OfferUnanswered, SendMedia, AcceptOffer, CreateOffer, AcceptAnswer,
                 SessionCloses, AddRemoteCandidate, WriteMedia, SessionEnds, NetworkInput, pcVars
  <2> QED
    BY <1>1, <2>1
<1> QED
  BY <1>5, <1>6, <1>7, <1>8, <1>9, <1>11, <1>12, Zenon DEF PeerNext

\* Who is there, which rule was found and where a call out went.
RouteTyped ==
    /\ present \in Seq(Name)
    /\ incoming.rule \in 0..Len(rules)
    /\ dialled.to \in {"None", "480", "invalid_target", "Internal", "Ngn"}

\* At first nobody is there.
LEMMA RouteTypesStart == RoutingInit => RouteTyped
<1> SUFFICES ASSUME RoutingInit PROVE RouteTyped
  OBVIOUS
<1>1. present = <<>> /\ rules = <<>> /\ incoming.rule = 0 /\ dialled.to = "None"
  BY DEF RoutingInit, NoCall, NoDial
<1> QED
  BY <1>1 DEF RouteTyped

\* Whoever comes, goes or calls, if the rule found is one of the rules.
LEMMA RouteTypesKept ==
    ASSUME RouteTyped, [RoutingNext]_routingVars, rules \in Seq(Rule), ~started => incoming = NoCall,
           \A d \in Weekday, h \in 0..(Hours - 1), n \in Number : Evaluate(d, h, n) \in 0..Len(rules)
    PROVE  RouteTyped'
<1> DEFINE To == {"None", "480", "invalid_target", "Internal", "Ngn"}
<1>0. Len(rules) \in Nat
  OBVIOUS
<1>1. CASE incoming' = NoCall /\ dialled' = NoDial /\ UNCHANGED rules /\ present' \in Seq(Name)
  <2>1. incoming'.rule = 0 /\ dialled'.to = "None"
    BY <1>1 DEF NoCall, NoDial
  <2> QED
    BY <1>0, <1>1, <2>1 DEF RouteTyped
<1>2. ASSUME NEW r \in Rule, NEW q \in Rule, NEW rs \in {<<>>, <<r>>, <<r, q>>}, LoadRules(rs) PROVE RouteTyped'
  <2>1. incoming' = NoCall /\ UNCHANGED <<present, dialled>> /\ rules' = rs
    BY <1>2 DEF LoadRules
  <2>2. Len(rs) \in Nat
    <3>1. Len(<<>>) = 0 /\ Len(<<r>>) = 1 /\ Len(<<r, q>>) = 2
      OBVIOUS
    <3>2. Len(rs) \in {0, 1, 2}
      BY <3>1, Zenon
    <3> QED
      BY <3>2
  <2>3. incoming'.rule = 0
    BY <2>1 DEF NoCall
  <2> HIDE DEF To
  <2> QED
    BY <2>1, <2>2, <2>3 DEF RouteTyped
<1>3. ASSUME NEW d \in Weekday, NEW h \in 0..(Hours - 1), NEW n \in Number, CallComesIn(d, h, n) PROVE RouteTyped'
  <2> DEFINE e == Evaluate(d, h, n)
             g == IF e = 0 THEN present ELSE Filter(present, rules[e].fork)
  <2>1. /\ incoming' = [day |-> d, hour |-> h, from |-> n, rule |-> e, rung |-> g]
        /\ UNCHANGED <<rules, present, dialled>>
    BY <1>3 DEF CallComesIn
  <2>2. e \in 0..Len(rules)
    OBVIOUS
  <2> HIDE DEF e, g
  <2>3. incoming'.rule = e
    BY <2>1
  <2> QED
    BY <2>1, <2>2, <2>3 DEF RouteTyped
<1>4. ASSUME NEW a \in Name, Appear(a) PROVE RouteTyped'
  <2>1. present' \in Seq(Name)
    BY <1>4 DEF Appear, RouteTyped
  <2> QED
    BY <1>1, <1>4, <2>1 DEF Appear
<1>5. ASSUME NEW a \in Name, Leave(a) PROVE RouteTyped'
  <2>1. PICK i \in DOMAIN present : present' = RemoveAt(present, i)
    BY <1>5, Zenon DEF Leave
  <2>2. present \in Seq(Name) /\ i \in 1..Len(present) /\ Len(present) \in Nat
    BY DEF RouteTyped
  <2>3. SubSeq(present, 1, i - 1) \in Seq(Name) /\ SubSeq(present, i + 1, Len(present)) \in Seq(Name)
    BY <2>2
  <2>4. present' \in Seq(Name)
    BY <2>1, <2>3 DEF RemoveAt
  <2> QED
    BY <1>1, <1>5, <2>4 DEF Leave
<1>6. \A t : Classify(t).to \in {"Internal", "Ngn"}
  BY DEF Classify
<1>7. ASSUME NEW by, NEW t, ExtensionDials(by, t) PROVE RouteTyped'
  <2> DEFINE to == IF IsSelf(by, t) THEN "480"
                   ELSE IF Classify(t).to = "Internal" /\ ~IntercomOn THEN "480" ELSE Classify(t).to
  <2>1. /\ dialled' = [by |-> by, kind |-> "Sip", target |-> t, to |-> to, aor |-> Classify(t).aor]
        /\ UNCHANGED <<rules, present, incoming>>
    BY <1>7 DEF ExtensionDials
  <2>2. to \in To
    BY <1>6
  <2> HIDE DEF to
  <2>3. dialled'.to = to
    BY <2>1
  <2> QED
    BY <2>1, <2>2, <2>3 DEF RouteTyped
<1>8. ASSUME NEW by, NEW t, BrowserDials(by, t) PROVE RouteTyped'
  <2> DEFINE to == IF ~Dialable(t) THEN "invalid_target" ELSE IF IntercomOn THEN Classify(t).to ELSE "Ngn"
             aor == IF IntercomOn THEN Classify(t).aor ELSE t
  <2>1. /\ dialled' = [by |-> by, kind |-> "Web", target |-> t, to |-> to, aor |-> aor]
        /\ UNCHANGED <<rules, present, incoming>>
    BY <1>8 DEF BrowserDials
  <2>2. to \in To
    BY <1>6
  <2> HIDE DEF to, aor
  <2>3. dialled'.to = to
    BY <2>1
  <2> QED
    BY <2>1, <2>2, <2>3 DEF RouteTyped
<1>9. CASE UNCHANGED routingVars
  BY <1>9 DEF routingVars, RouteTyped
<1>10. \A Z : {s \in Rule : s.span = AnyTime /\ s.days = Z} \subseteq Rule
  OBVIOUS
<1>11. CASE ~started /\ \E r \in Rule, q \in {s \in Rule : s.span = AnyTime /\ s.days = NotGiven} :
           \E rs \in {<<>>, <<r>>, <<r, q>>} : LoadRules(rs)
  BY <1>2, <1>11, Zenon
<1> QED
  BY <1>3, <1>4, <1>5, <1>7, <1>8, <1>9, <1>11, Zenon DEF RoutingNext

\* RoutingTypeOK speaks of who is there as a set.
LEMMA RouteTypesGood == RouteTyped => RoutingTypeOK
BY DEF RouteTyped, RoutingTypeOK, Range

\* The stages are those run_register goes through.
LEMMA StagesAll == AllStages \subseteq Range(Stages)
<1>1. /\ Stages[1] = "config" /\ Stages[2] = "transcription" /\ Stages[3] = "recording" /\ Stages[4] = "push"
      /\ Stages[5] = "voicemail" /\ Stages[6] = "sms" /\ Stages[7] = "ngn" /\ Stages[8] = "uas" /\ Stages[9] = "inbound"
  BY DEF Stages
<1>2. /\ Stages[10] = "give log" /\ Stages[11] = "give forwarder" /\ Stages[12] = "give push"
      /\ Stages[13] = "give recording" /\ Stages[14] = "give sms"
      /\ Stages[15] = "spawn" /\ Stages[16] = "http" /\ Stages[17] = "register" /\ Stages[18] = "run"
  BY DEF Stages
<1>3. DOMAIN Stages = 1..18
  BY DEF Stages
<1>4. \A i \in 1..18 : Stages[i] \in Range(Stages)
  BY <1>3, Zenon DEF Range
<1>5. /\ 1 \in 1..18 /\ 2 \in 1..18 /\ 3 \in 1..18 /\ 4 \in 1..18 /\ 5 \in 1..18 /\ 6 \in 1..18
      /\ 7 \in 1..18 /\ 8 \in 1..18 /\ 9 \in 1..18 /\ 10 \in 1..18 /\ 11 \in 1..18 /\ 12 \in 1..18
      /\ 13 \in 1..18 /\ 14 \in 1..18 /\ 15 \in 1..18 /\ 16 \in 1..18 /\ 17 \in 1..18 /\ 18 \in 1..18
  OBVIOUS
<1>6. Unserved \subseteq Range(Stages)
  BY <1>1, <1>4, <1>5, Zenon DEF Unserved
<1>7. {"give log", "give forwarder", "give push", "give recording", "give sms", "spawn"} \subseteq Range(Stages)
  BY <1>2, <1>4, <1>5, Zenon
<1>8. Late \subseteq Range(Stages)
  BY <1>2, <1>4, <1>5, Zenon DEF Late
<1> QED
  BY <1>6, <1>7, <1>8, Zenon DEF AllStages

\* What is served are the entry points.
LEMMA StartTyped ==
    ASSUME stage \in AllStages \cup {"exited"}, serving \subseteq {"Ngn", "Uas", "Http", "Ws"},
           made \subseteq Feature \cup {"log", "forwarder"}, restarts \in 0..MaxRestarts, missed \in BOOLEAN
    PROVE  StartTypeOK
<1>1. DOMAIN Uses = {"Ngn", "Uas", "Http", "Ws"}
  BY DEF Uses
<1> QED
  BY <1>1, StagesAll, Zenon DEF StartTypeOK

-----------------------------------------------------------------------------
(* The run as a whole                                                      *)

\* A step of the run is one of the component in focus; the others stand still.
LEMMA OneMoves ==
    [Next]_vars => /\ [LogNext]_logVars /\ [PushNext]_pushVars /\ [RequestsNext]_dlgVars /\ [SdpNext]_sdpVars
                   /\ [TraceNext]_traceVars /\ [LimiterNext]_limiterVars /\ [MediaNext]_mediaVars
<1> SUFFICES ASSUME [Next]_vars
             PROVE  /\ [LogNext]_logVars /\ [PushNext]_pushVars /\ [RequestsNext]_dlgVars /\ [SdpNext]_sdpVars
                    /\ [TraceNext]_traceVars /\ [LimiterNext]_limiterVars /\ [MediaNext]_mediaVars
  OBVIOUS
<1>1. CASE LimiterStep(LimiterNext)
  BY <1>1 DEF LimiterStep
<1>2. CASE MediaStep(TranscoderNext)
  BY <1>2 DEF MediaStep
<1>3. CASE BridgeStep(MediaNext)
  BY <1>3 DEF BridgeStep
<1>4. CASE DispatchStep(DispatchNext)
  BY <1>4 DEF DispatchStep
<1>5. CASE SdpStep(SdpNext)
  BY <1>5 DEF SdpStep
<1>6. CASE RequestsStep(RequestsNext)
  BY <1>6 DEF RequestsStep
<1>7. CASE RtpStep(RtpNext)
  BY <1>7 DEF RtpStep
<1>8. CASE PeerStep(PeerNext)
  BY <1>8 DEF PeerStep
<1>9. CASE PushStep(PushNext)
  BY <1>9 DEF PushStep
<1>10. CASE RoutingStep(RoutingNext)
  BY <1>10 DEF RoutingStep
<1>11. CASE StartStep(StartNext)
  BY <1>11 DEF StartStep
<1>12. CASE CodecStep(CodecNext)
  BY <1>12 DEF CodecStep
<1>13. CASE TraceStep(TraceNext)
  BY <1>13 DEF TraceStep
<1>14. CASE LogStep(LogNext)
  BY <1>14 DEF LogStep
<1>15. CASE RingingStep(RelNext)
  BY <1>15 DEF RingingStep
<1>16. CASE KeysStep(DtmfNext)
  BY <1>16 DEF KeysStep
<1>17. CASE UNCHANGED vars
  BY <1>17 DEF vars
<1> QED
  BY <1>1, <1>2, <1>3, <1>4, <1>5, <1>6, <1>7, <1>8, <1>9, <1>10, <1>11, <1>12, <1>13, <1>14, <1>15, <1>16, <1>17 DEF Next

\* The call log is the last calls, each once, the newest first, with the last outcome that
\* was reported and the time of the first, for any number of calls that overlap and any
\* size of the ring (observability/call_log.rs record_start, record_end, recent).
THEOREM LogIsOfTheLastCalls == Spec => []LogIsRecent
<1>1. Init => LogInv
  BY LogStarts DEF Init
<1>2. LogInv /\ [Next]_vars => LogInv'
  BY OneMoves, LogKept
<1>3. LogInv => LogIsRecent
  BY LogGood
<1> QED
  BY <1>1, <1>2, <1>3, PTL DEF Spec

\* A session speaks for the extension its token was signed for and was opened before the
\* token expired, for any set of browsers and names and any life of a token
\* (webrtc/auth.rs, webrtc/signaling.rs).
THEOREM SessionsGenuine == Spec => []SessionIsGenuine
<1>1. Init => PushInv
  BY PushStarts DEF Init
<1>2. PushInv /\ [Next]_vars => PushInv'
  BY OneMoves, PushKept
<1>3. PushInv => SessionIsGenuine
  BY PushGood
<1> QED
  BY <1>1, <1>2, <1>3, PTL DEF Spec

\* A confirmed subscription whose endpoint still exists is kept, once, whatever rounds of
\* notifications overlap with it and however they end; and a round reaches every
\* subscription it saw, none of them twice (webrtc/push.rs).
THEOREM SubscriptionsKept == Spec => [](SubscriptionKept /\ EveryoneNotified)
<1>1. Init => PushInv
  BY PushStarts DEF Init
<1>2. PushInv /\ [Next]_vars => PushInv'
  BY OneMoves, PushKept
<1>3. PushInv => (SubscriptionKept /\ EveryoneNotified)
  BY PushGood
<1> QED
  BY <1>1, <1>2, <1>3, PTL DEF Spec

\* Every request of the gateway passes the proxies of its dialog in order, loose or strict,
\* named or by address, is for the peer's Contact when it gets there, and belongs to a
\* transaction or a dialog the peer knows, in order; and the right password is never
\* refused, whatever the challenge (sip/dialog.rs, sip/uac.rs, sip/auth.rs).
THEOREM RequestsTaken == Spec => []RequestsAccepted
<1>1. Init => PathInv
  BY ReqStarts DEF Init
<1>2. PathInv /\ [Next]_vars => PathInv'
  BY OneMoves, ReqKept
<1>3. PathInv => RequestsAccepted
  BY ReqGood
<1> QED
  BY <1>1, <1>2, <1>3, PTL DEF Spec

\* A response leads back to where its request came from by its Via alone, whatever host and
\* rport the request gave (sip/transaction.rs apply_rport_to_via_for_response).
THEOREM ResponsesLeadBack == Spec => []ViaLeadsBack
<1>1. Init => ViaLeadsBack
  BY ViaStarts DEF Init
<1>2. ViaLeadsBack /\ [Next]_vars => ViaLeadsBack'
  BY OneMoves, ViaKept
<1> QED
  BY <1>1, <1>2, PTL DEF Spec

\* Whoever spoke first and whichever way a call goes, what the gateway tells the NGN the NGN
\* can use; a browser's call keeps its media through any number of holds; and the media plan
\* fits the codecs both sides were told, for every bridge port up to the top of the range
\* (sdp/negotiation.rs, sdp/builder.rs, call/codec_pipeline.rs, call/orchestrator.rs).
THEOREM DescriptionsSound == Spec => [](NgnSdpSound /\ HoldKeepsMedia /\ PlanFits)
<1>1. Init => SdpInv
  BY SdpStarts DEF Init
<1>2. SdpInv /\ [Next]_vars => SdpInv'
  BY OneMoves, SdpKept
<1>3. SdpInv => (NgnSdpSound /\ HoldKeepsMedia /\ PlanFits)
  BY SdpGood
<1> QED
  BY <1>1, <1>2, <1>3, PTL DEF Spec

\* A call from the NGN rings those the rules name for its day, hour and caller, whatever
\* their priorities and spans, over midnight or not, in the order they are named and only
\* those that are there; without a rule that fits it rings everyone (call/routing.rs
\* evaluate, time_in_range, filter_bindings_by_aor).
THEOREM CallsRouted == Spec => []RoutedAsWritten
<1>1. Init => RoutedInv
  BY RoutedStarts DEF Init
<1>2. RoutedInv /\ [Next]_vars => RoutedInv'
  BY OneInFocus, RoutedKept
<1>3. RoutedInv => RoutedAsWritten
  BY DEF RoutedInv
<1> QED
  BY <1>1, <1>2, <1>3, PTL DEF Spec

\* The reliable 180 is repeated at growing distances, no more often than the time there is
\* has room for, and by nobody once its PRACK is through or the call is over (as in
\* RingingNotLeftOn).
THEOREM RingingEnds == Spec => []RingingStops
<1>1. Init => RingingInv /\ RepeatsFew
  BY RingingStarts, FewStart DEF Init
<1>2. RingingInv /\ RepeatsFew /\ [Next]_vars => (RingingInv /\ RepeatsFew)'
  BY OneInFocus, RingingKept, FewKept
<1>3. RingingInv /\ RepeatsFew => RingingStops
  BY RingingGood DEF RepeatsFew, RingingStops
<1> QED
  BY <1>1, <1>2, <1>3, PTL DEF Spec

\* What goes over the wire in answer to a peer is what the peer can use, in all the parts
\* the theorems above and in ProtocolsProofs are about: requests answered once and taken,
\* messages kept, the 180 repeated while it has to be, descriptions of the media that fit,
\* calls to those they are for, and notifications to those that asked for them.
THEOREM SignallingKeptSound == Spec => []SignallingSound
<1>1. Spec => []StubAnswersFit
  BY StubFits, PTL
<1>2. /\ AnsweredOnce /\ SmsKept /\ RingingStops
      /\ (NgnSdpSound /\ HoldKeepsMedia /\ PlanFits)
      /\ CallersServed /\ StubAnswersFit
      /\ RequestsAccepted /\ ViaLeadsBack
      /\ RoutedAsWritten /\ StaysInTheHouse
      /\ SessionIsGenuine /\ (SubscriptionKept /\ EveryoneNotified)
      => SignallingSound
  BY DEF SignallingSound
<1> QED
  BY <1>1, <1>2, RequestAnsweredOnce, MessageKept, RingingEnds, DescriptionsSound, CallersNeverStranded,
     RequestsTaken, ResponsesLeadBack, CallsRouted, CallsStayInTheHouse, SessionsGenuine, SubscriptionsKept, PTL

\* The directory of the trace does not grow: whatever names coincide, whatever cannot be
\* removed or written, and across restarts, for any limits and any set of names; and no
\* file has credentials in its headers (observability/mod.rs SipTraceWriter, sanitize_message).
THEOREM TraceStaysContained == Spec => []TraceContained
<1>1. Init => TraceInv
  BY TraceStarts DEF Init
<1>2. TraceInv /\ [Next]_vars => TraceInv'
  BY OneMoves, TraceKept
<1>3. TraceInv => TraceContained
  BY TraceGood
<1> QED
  BY <1>1, <1>2, <1>3, PTL DEF Spec

\* What runs is what the operator configured and reads about: features wired at every entry
\* point or at none, nothing missed at the first start, the trace contained, and the log of
\* the last calls.
THEOREM OperatorKeptInformed == Spec => []OperatorInformed
<1>1. FeatureEverywhere /\ FirstStartMissesNothing /\ TraceContained /\ LogIsRecent => OperatorInformed
  BY DEF OperatorInformed
<1> QED
  BY <1>1, FeaturesWired, FirstStartComplete, TraceStaysContained, LogIsOfTheLastCalls, PTL

\* Every piece of state of the protocols keeps its type and its bounds, for every value
\* of the constants: the queue of commands, the frames for a bridge, the attempts to
\* bind a port, the pauses of a repeated 180, the entries of log and trace, the steps of
\* the start and the rule a call was routed by (the modules of this run).
THEOREM ProtocolsTyped == Spec => []TypeOK
<1>1. Spec => []LimiterTypeOK
  <2>1. Init => LimiterInv
    BY LimiterStarts DEF Init
  <2>2. LimiterInv /\ [Next]_vars => LimiterInv'
    BY LimiterSteps, OneMoves
  <2>3. LimiterInv => LimiterTypeOK
    BY DEF LimiterInv
  <2> QED
    BY <2>1, <2>2, <2>3, PTL DEF Spec
<1>2. Spec => []MediaTypeOK
  <2>1. Init => MediaInv /\ MediaCounts
    BY MediaStarts, CountsStart DEF Init
  <2>2. MediaInv /\ MediaCounts /\ [Next]_vars => MediaInv' /\ MediaCounts'
    BY MediaSteps, CountsStep, OneMoves
  <2> QED
    BY <2>1, <2>2, MediaTyped, PTL DEF Spec
<1>3. Spec => [](TranscoderTypeOK /\ DispatchTypeOK)
  <2>1. Init => StreamInv /\ DispatchInv
    BY StreamInit, RequestsStart DEF Init
  <2>2. StreamInv /\ DispatchInv /\ [Next]_vars => StreamInv' /\ DispatchInv'
    BY StreamStep, RequestsKept, OneInFocus
  <2>3. StreamInv /\ DispatchInv => TranscoderTypeOK /\ DispatchTypeOK
    BY StreamGood, RequestsGood
  <2> QED
    BY <2>1, <2>2, <2>3, PTL DEF Spec
<1>4. Spec => [](CodecTypeOK /\ DtmfTypeOK)
  <2>1. Init => CodecInv /\ DtmfInv
    BY CodecStarts, DtmfStarts DEF Init
  <2>2. CodecInv /\ DtmfInv /\ [Next]_vars => CodecInv' /\ DtmfInv'
    BY CodecKept, DtmfKept, OneInFocus
  <2>3. CodecInv /\ DtmfInv => CodecTypeOK /\ DtmfTypeOK
    BY CodecSound, KeysAreHeard
  <2> QED
    BY <2>1, <2>2, <2>3, PTL DEF Spec
<1>5. Spec => [](LogTypeOK /\ PushTypeOK /\ RequestsTypeOK /\ SdpTypeOK /\ TraceTypeOK)
  <2>1. Init => LogInv /\ PushInv /\ PathInv /\ SdpInv /\ TraceInv
    BY LogStarts, PushStarts, ReqStarts, SdpStarts, TraceStarts DEF Init
  <2>2. LogInv /\ PushInv /\ PathInv /\ SdpInv /\ TraceInv /\ [Next]_vars
            => LogInv' /\ PushInv' /\ PathInv' /\ SdpInv' /\ TraceInv'
    BY LogKept, PushKept, ReqKept, SdpKept, TraceKept, OneMoves
  <2>3. LogInv /\ PushInv /\ PathInv /\ SdpInv /\ TraceInv
            => LogTypeOK /\ PushTypeOK /\ RequestsTypeOK /\ SdpTypeOK /\ TraceTypeOK
    BY LogGood, PushGood, ReqGood, SdpGood, TraceGood
  <2> QED
    BY <2>1, <2>2, <2>3, PTL DEF Spec
<1>6. Spec => []RtpTypeOK
  <2>1. Init => ReportInv /\ TxTyped /\ RxTyped /\ RtpBounds
    BY ReportsStart, RtpTypesStart DEF Init
  <2>2. ReportInv => TxShape /\ rx = [s \in DOMAIN rx |-> rx[s]] /\ \A s \in DOMAIN rx : BufferShape(rx[s])
    BY DEF ReportInv, CountInv, LossInv
  <2>3. ReportInv /\ TxTyped /\ RxTyped /\ RtpBounds /\ [Next]_vars
            => ReportInv' /\ TxTyped' /\ RxTyped' /\ RtpBounds'
    BY <2>2, ReportsKept, TxKept, RxKept, RtpBoundsKept, OneInFocus
  <2>4. ReportInv /\ TxTyped /\ RxTyped /\ RtpBounds => RtpTypeOK
    BY DEF ReportInv, CountInv, TxTyped, RxTyped, RtpBounds, RtpTypeOK
  <2> QED
    BY <2>1, <2>3, <2>4, PTL DEF Spec
<1>7. Spec => []PeerTypeOK
  <2>1. Init => PeerInv /\ PeerBounds
    BY PeerStarts, PeerBoundsStart DEF Init
  <2>2. PeerInv /\ PeerBounds /\ [Next]_vars => PeerInv' /\ PeerBounds'
    <3> SUFFICES ASSUME PeerInv, PeerBounds, [Next]_vars PROVE PeerInv' /\ PeerBounds'
      OBVIOUS
    <3>1. [PeerNext]_pcVars
      BY OneInFocus
    <3>2. /\ pcQueue \in Seq(Command) /\ pcPending \in Nat /\ pcLines \in [made : Nat, known : SUBSET Nat]
      BY DEF PeerInv, PeerTypes
    <3>3. Len(pcQueue') <= CommandSlots
      BY <3>1, <3>2, QueueBounded DEF PeerBounds
    <3>4. pcLines'.known \subseteq 1..pcLines'.made /\ pcPending' <= pcLines'.made
      BY <3>1, <3>2, LinesBounded DEF PeerBounds
    <3>5. pcMedia' \in [holder : Caller \cup {"Session", "Nobody"}, frames : 0..MediaBuffer]
      BY <3>1, MediaBounded DEF PeerBounds
    <3>6. PeerInv'
      BY <3>1, PeerKept
    <3> QED
      BY <3>3, <3>4, <3>5, <3>6 DEF PeerBounds
  <2>3. PeerInv /\ PeerBounds => PeerTypeOK
    BY DEF PeerInv, PeerTypes, CallerState, PeerBounds, PeerTypeOK
  <2> QED
    BY <2>1, <2>2, <2>3, PTL DEF Spec
<1>8. Spec => []RoutingTypeOK
  <2>1. Init => RoutedInv /\ RouteTyped
    BY RoutedStarts, RouteTypesStart DEF Init
  <2>2. RoutedInv /\ RouteTyped /\ [Next]_vars => RoutedInv' /\ RouteTyped'
    <3> SUFFICES ASSUME RoutedInv, RouteTyped, [Next]_vars PROVE RoutedInv' /\ RouteTyped'
      OBVIOUS
    <3>1. [RoutingNext]_routingVars
      BY OneInFocus
    <3>2. RulesTyped /\ (~started => incoming = NoCall)
      BY DEF RoutedInv
    <3>3. ASSUME NEW d \in Weekday, NEW h \in 0..(Hours - 1), NEW n \in Number
          PROVE  Evaluate(d, h, n) \in 0..Len(rules)
      <4> DEFINE F == {i \in DOMAIN rules : RuleFits(rules[i], d, h, n)}
                 e == Evaluate(d, h, n)
      <4>1. F = {i \in DOMAIN rules : RuleFits(rules[i], d, h, n)} /\ e = Evaluate(d, h, n)
        OBVIOUS
      <4>2. F \subseteq DOMAIN rules /\ h \in HourOfDay
        BY DEF HourOfDay
      <4> HIDE DEF F, e
      <4>3. e = 0 \/ e \in F
        BY <3>2, <4>1, <4>2, EvaluateRight
      <4>4. rules \in Seq(Rule)
        BY <3>2 DEF RulesTyped
      <4>5. DOMAIN rules = 1..Len(rules) /\ Len(rules) \in Nat
        BY <4>4
      <4> QED
        BY <4>1, <4>2, <4>3, <4>5
    <3>4. rules \in Seq(Rule)
      BY <3>2 DEF RulesTyped
    <3>5. RouteTyped'
      BY <3>1, <3>2, <3>3, <3>4, RouteTypesKept
    <3> QED
      BY <3>1, <3>5, RoutedKept
  <2> QED
    BY <2>1, <2>2, RouteTypesGood, PTL DEF Spec
<1>9. Spec => []StartTypeOK
  <2>1. Init => StartInv
    BY StartStarts DEF Init
  <2>2. StartInv /\ [Next]_vars => StartInv'
    BY StartKept, OneInFocus
  <2>3. StartInv => StartTypeOK
    BY StartTyped DEF StartInv
  <2> QED
    BY <2>1, <2>2, <2>3, PTL DEF Spec
<1>10. Spec => []RelTypeOK
  <2>1. Init => RingingInv /\ RelBounds
    BY RingingStarts, RelBoundsStart DEF Init
  <2>2. RingingInv => (relHandler = "Idle" => ~relTask.on)
    BY DEF RingingInv, RelStateInv
  <2>3. RingingInv /\ RelBounds /\ [Next]_vars => RingingInv' /\ RelBounds'
    BY <2>2, RingingKept, RelBoundsKept, OneInFocus
  <2>4. RelBounds => RelTypeOK
    BY DEF RelBounds
  <2> QED
    BY <2>1, <2>3, <2>4, PTL DEF Spec
<1> QED
  BY <1>1, <1>2, <1>3, <1>4, <1>5, <1>6, <1>7, <1>8, <1>9, <1>10, PTL DEF TypeOK
=============================================================================

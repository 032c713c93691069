-------------------------- MODULE RateLimiterProofs -------------------------
(***************************************************************************)
(* The load on the NGN is bounded for every number of callers, every       *)
(* configuration of the limiter and of the retry, and every horizon.       *)
(***************************************************************************)
EXTENDS RateLimiter, FiniteSetTheorems, TLAPS

\* A call whose second INVITE may still come.
Owing == {d \in Dialer : dialing[d] \in {"First", "Wait"}}

\* The caller that waits knows what it was refused with.
RefusalKept == \A d \in Dialer : dialing[d] = "Wait" => refusal[d] \in Refusals

\* A call that was let through stands for two INVITEs at the most.
TwoPerCall == invites + Cardinality(Owing) <= 2 * allowed

\* Calls are let through min_interval apart.
CallsApart ==
    /\ lastAllowed = NoTime => allowed = 0
    /\ lastAllowed # NoTime => /\ lastAllowed <= clock
                               /\ allowed <= 1 + lastAllowed \div MinInterval

LimiterInv == LimiterTypeOK /\ RefusalKept /\ TwoPerCall /\ CallsApart

-----------------------------------------------------------------------------
(* Arithmetic                                                              *)

\* Whole intervals: a moment that is an interval later is in a later interval, and
\* no later moment is in an earlier one.
LEMMA Intervals ==
    ASSUME NEW m \in Nat, NEW n \in Nat, NEW k \in Nat \ {0}
    PROVE  /\ m \div k \in Nat
           /\ m <= n => m \div k <= n \div k
           /\ m + k <= n => m \div k + 1 <= n \div k
<1> DEFINE a == m \div k
           b == n \div k
<1>1. a \in Int /\ b \in Int
  OBVIOUS
<1>2. k * a <= m /\ m < k * (a + 1)
  OBVIOUS
<1>3. k * b <= n /\ n < k * (b + 1)
  OBVIOUS
<1> HIDE DEF a, b
<1>4. a \in Nat
  <2> SUFFICES ASSUME a + 1 <= 0 PROVE FALSE
    BY <1>1
  <2>1. k * (a + 1) <= 0
    BY <1>1
  <2> QED
    BY <1>2, <2>1, <1>1
<1>5. ASSUME m <= n PROVE a <= b
  <2> SUFFICES ASSUME b + 1 <= a PROVE FALSE
    BY <1>1
  <2>1. k * (b + 1) <= k * a
    BY <1>1
  <2> QED
    BY <1>1, <1>2, <1>3, <1>5, <2>1
<1>6. ASSUME m + k <= n PROVE a + 1 <= b
  <2> SUFFICES ASSUME b + 1 <= a + 1 PROVE FALSE
    BY <1>1
  <2>1. k * (b + 1) <= k * (a + 1)
    BY <1>1
  <2>2. k * (a + 1) = k * a + k
    BY <1>1
  <2> QED
    BY <1>1, <1>2, <1>3, <1>6, <2>1, <2>2
<1> QED
  BY <1>4, <1>5, <1>6 DEF a, b

-----------------------------------------------------------------------------
(* The parts of a step                                                     *)

\* Whatever the streak and the Retry-After, a call is not let through before
\* min_interval has passed.
LEMMA NotBefore ==
    ASSUME LimiterTypeOK, lastAllowed # NoTime, Allows
    PROVE  lastAllowed + MinInterval <= clock
<1>1. lastAllowed \in Nat /\ clock \in Nat /\ MinInterval \in Nat
  BY LimiterAssumption DEF LimiterTypeOK
<1>2. Backoff \in Nat /\ Backoff >= MinInterval
  <2>1. CASE streak = 0 \/ Steps = <<>>
    BY <2>1, <1>1 DEF Backoff
  <2>2. CASE streak # 0 /\ Steps # <<>>
    <3> DEFINE i == IF streak > Len(Steps) THEN Len(Steps) ELSE streak
    <3>1. i \in 1..Len(Steps)
      BY <2>2, LimiterAssumption DEF LimiterTypeOK
    <3>2. Steps[i] \in Nat
      BY <3>1, LimiterAssumption
    <3> QED
      BY <2>2, <3>2, <1>1 DEF Backoff, Later
  <2> QED
    BY <2>1, <2>2
<1>3. lastAllowed + Backoff <= AllowAt
  BY <1>1, <1>2 DEF AllowAt, Later, LimiterTypeOK
<1>4. AllowAt \in Int
  BY <1>1, <1>2 DEF AllowAt, Later, LimiterTypeOK
<1> QED
  BY <1>1, <1>2, <1>3, <1>4 DEF Allows

\* A report of a refusal keeps the types of what the limiter remembers.
LEMMA FailureType ==
    ASSUME LimiterTypeOK, NEW status, NEW after \in Nat \cup {NoTime}, Failure(status, after)
    PROVE  streak' \in Nat /\ retryUntil' \in Nat \cup {NoTime}
<1>1. clock \in Nat /\ streak \in Nat /\ retryUntil \in Nat \cup {NoTime}
  BY DEF LimiterTypeOK
<1>2. CASE status \in 500..599
  <2>1. after # NoTime => clock + after \in Nat
    BY <1>1
  <2>2. retryUntil # NoTime /\ after # NoTime => Later(retryUntil, clock + after) \in Nat
    BY <1>1, <2>1 DEF Later
  <2> QED
    BY <1>1, <1>2, <2>1, <2>2 DEF Failure
<1>3. CASE status \notin 500..599
  BY <1>1, <1>3 DEF Failure
<1> QED
  BY <1>2, <1>3

\* What a call is refused with has a Retry-After or none.
LEMMA RefusalParts ==
    ASSUME NEW r \in Refusals
    PROVE  r[2] \in Nat \cup {NoTime}
BY LimiterAssumption DEF Refusals

\* The calls that owe an INVITE are finitely many; one fewer when one of them ends.
LEMMA OwingFinite == IsFiniteSet(Owing) /\ Cardinality(Owing) \in Nat
BY FS_Subset, FS_CardinalityType, LimiterAssumption DEF Owing

\* With one dialer fewer that owes an INVITE the count falls by one, or stays if it owed none.
LEMMA FewerOwe ==
    ASSUME NEW d \in Dialer, Owing' = Owing \ {d}
    PROVE  /\ Cardinality(Owing') <= Cardinality(Owing)
           /\ d \in Owing => Cardinality(Owing') = Cardinality(Owing) - 1
           /\ Cardinality(Owing') \in Nat
<1>1. CASE d \in Owing
  <2>1. Cardinality(Owing') = Cardinality(Owing) - 1 /\ IsFiniteSet(Owing')
    BY <1>1, OwingFinite, FS_RemoveElement
  <2> QED
    BY <2>1, OwingFinite, FS_CardinalityType
<1>2. CASE d \notin Owing
  <2>1. Owing' = Owing
    BY <1>2
  <2> HIDE DEF Owing
  <2> QED
    BY <1>2, <2>1, OwingFinite
<1> QED
  BY <1>1, <1>2

\* With one dialer more that owes an INVITE the count rises by one.
LEMMA OneMoreOwes ==
    ASSUME NEW d \in Dialer, d \notin Owing, Owing' = Owing \cup {d}
    PROVE  Cardinality(Owing') = Cardinality(Owing) + 1
BY OwingFinite, FS_AddElement

\* A call that has ended, however, owes nothing, and keeps the invariant.
LEMMA EndsKeeps ==
    ASSUME LimiterInv, NEW d \in Dialer, Ends(d),
           streak' \in Nat, retryUntil' \in Nat \cup {NoTime},
           UNCHANGED <<clock, lastAllowed, allowed, invites>>
    PROVE  LimiterInv'
<1> USE DEF LimiterInv
<1>1. LimiterTypeOK'
  BY DEF LimiterTypeOK, Ends
<1>2. RefusalKept'
  BY DEF RefusalKept, Ends, LimiterTypeOK
<1>3. TwoPerCall'
  <2>1. Owing' = Owing \ {d}
    BY DEF Owing, Ends, LimiterTypeOK
  <2>2. Cardinality(Owing') <= Cardinality(Owing) /\ Cardinality(Owing') \in Nat
    BY <2>1, FewerOwe
  <2>3. allowed \in Nat /\ invites \in Nat /\ allowed' = allowed /\ invites' = invites
    BY DEF LimiterTypeOK
  <2> QED
    BY <2>2, <2>3, OwingFinite DEF TwoPerCall
<1>4. CallsApart'
  BY DEF CallsApart
<1> QED
  BY <1>1, <1>2, <1>3, <1>4

\* The end of a call that the NGN answered or refused.
LEMMA ConcludesKeeps ==
    ASSUME LimiterInv, NEW d \in Dialer, NEW R \in SUBSET Refusals, Concludes(d, R)
    PROVE  LimiterInv'
<1>1. streak' \in Nat /\ retryUntil' \in Nat \cup {NoTime}
  <2>1. CASE Success
    BY <2>1 DEF Success
  <2>2. CASE \E r \in R : Failure(r[1], r[2])
    <3>1. PICK r \in R : Failure(r[1], r[2])
      BY <2>2
    <3>2. r[2] \in Nat \cup {NoTime}
      BY RefusalParts
    <3> QED
      BY <3>1, <3>2, FailureType DEF LimiterInv
  <2>3. CASE Failure(503, NoTime)
    BY <2>3, FailureType DEF LimiterInv
  <2>4. CASE UNCHANGED <<streak, retryUntil>>
    BY <2>4 DEF LimiterInv, LimiterTypeOK
  <2> QED
    BY <2>1, <2>2, <2>3, <2>4 DEF Concludes
<1> QED
  BY <1>1, EndsKeeps DEF Concludes

-----------------------------------------------------------------------------
(* Every step                                                              *)

\* The inductive invariant holds at first.
LEMMA LimiterStarts == LimiterInit => LimiterInv
<1> SUFFICES ASSUME LimiterInit PROVE LimiterInv
  OBVIOUS
<1>1. LimiterTypeOK /\ RefusalKept /\ CallsApart
  BY LimiterAssumption DEF LimiterInit, LimiterTypeOK, RefusalKept, CallsApart
<1>2. Owing = {}
  BY DEF Owing, LimiterInit
<1>3. TwoPerCall
  BY <1>2, FS_EmptySet DEF TwoPerCall, LimiterInit
<1> QED
  BY <1>1, <1>3 DEF LimiterInv

\* The inductive invariant is kept by every step.
LEMMA LimiterSteps == LimiterInv /\ [LimiterNext]_limiterVars => LimiterInv'
<1> SUFFICES ASSUME LimiterInv, [LimiterNext]_limiterVars PROVE LimiterInv'
  OBVIOUS
<1>1. ASSUME NEW d \in Dialer, Dial(d) PROVE LimiterInv'
  <2>1. LimiterTypeOK'
    BY <1>1 DEF LimiterInv, LimiterTypeOK, Dial
  <2>2. RefusalKept'
    BY <1>1 DEF LimiterInv, RefusalKept, Dial, LimiterTypeOK
  <2>3. TwoPerCall'
    <3>1. d \notin Owing /\ Owing' = Owing \cup {d}
      BY <1>1 DEF Owing, Dial, LimiterInv, LimiterTypeOK
    <3>2. Cardinality(Owing') = Cardinality(Owing) + 1
      BY <3>1, OneMoreOwes
    <3>3. /\ allowed \in Nat /\ invites \in Nat /\ allowed' = allowed + 1 /\ invites' = invites + 1
          /\ TwoPerCall
      BY <1>1 DEF Dial, LimiterInv, LimiterTypeOK
    <3> QED
      BY <3>2, <3>3, OwingFinite DEF TwoPerCall
  <2>4. CallsApart'
    <3>1. clock \in Nat /\ allowed \in Nat /\ lastAllowed' = clock /\ clock' = clock
          /\ allowed' = allowed + 1 /\ MinInterval \in Nat \ {0}
      BY <1>1, LimiterAssumption DEF LimiterInv, LimiterTypeOK, Dial
    <3>2. allowed + 1 <= 1 + clock \div MinInterval
      <4>1. CASE lastAllowed = NoTime
        <5>1. clock \div MinInterval \in Nat
          BY <3>1, Intervals
        <5> QED
          BY <4>1, <5>1, <3>1 DEF LimiterInv, CallsApart
      <4>2. CASE lastAllowed # NoTime
        <5>1. lastAllowed \in Nat /\ allowed <= 1 + lastAllowed \div MinInterval
          BY <4>2 DEF LimiterInv, CallsApart, LimiterTypeOK
        <5>2. lastAllowed + MinInterval <= clock
          BY <1>1, <4>2, NotBefore DEF LimiterInv, Dial
        <5>3. lastAllowed \div MinInterval + 1 <= clock \div MinInterval
          BY <5>1, <5>2, <3>1, Intervals
        <5>4. lastAllowed \div MinInterval \in Nat /\ clock \div MinInterval \in Nat
          BY <5>1, <3>1, Intervals
        <5> HIDE DEF LimiterInv
        <5> QED
          BY <5>1, <5>3, <5>4, <3>1
      <4> QED
        BY <4>1, <4>2
    <3> QED
      BY <3>1, <3>2, LimiterAssumption DEF CallsApart
  <2> QED
    BY <2>1, <2>2, <2>3, <2>4 DEF LimiterInv
<1>2. ASSUME NEW d \in Dialer, FirstAnswered(d) PROVE LimiterInv'
  BY <1>2, ConcludesKeeps DEF FirstAnswered
<1>3. ASSUME NEW d \in Dialer, SecondAnswered(d) PROVE LimiterInv'
  BY <1>3, ConcludesKeeps DEF SecondAnswered
<1>4. ASSUME NEW d \in Dialer, RetryAborted(d) PROVE LimiterInv'
  <2>1. refusal[d][2] \in Nat \cup {NoTime}
    BY <1>4, RefusalParts DEF RetryAborted, LimiterInv, RefusalKept
  <2>2. streak' \in Nat /\ retryUntil' \in Nat \cup {NoTime}
    BY <1>4, <2>1, FailureType DEF RetryAborted, LimiterInv
  <2> QED
    BY <1>4, <2>2, EndsKeeps DEF RetryAborted
<1>5. ASSUME NEW d \in Dialer, FirstRefused(d) PROVE LimiterInv'
  <2>1. PICK r \in Refusals : /\ \E w \in Waits(r[2]) : wakeAt' = [wakeAt EXCEPT ![d] = clock + w]
                              /\ refusal' = [refusal EXCEPT ![d] = r]
    BY <1>5 DEF FirstRefused
  <2>2. \A w \in Waits(r[2]) : w \in Nat
    BY RefusalParts, LimiterAssumption DEF Waits, Later
  <2>3. LimiterTypeOK'
    <3>1. wakeAt' \in [Dialer -> Nat]
      BY <2>1, <2>2 DEF LimiterInv, LimiterTypeOK
    <3> QED
      BY <1>5, <2>1, <3>1 DEF LimiterInv, LimiterTypeOK, FirstRefused
  <2>4. RefusalKept'
    BY <1>5, <2>1 DEF LimiterInv, RefusalKept, FirstRefused, LimiterTypeOK
  <2>5. Owing' = Owing
    BY <1>5 DEF Owing, FirstRefused, LimiterInv, LimiterTypeOK
  <2>6. TwoPerCall' /\ CallsApart'
    BY <1>5, <2>5 DEF TwoPerCall, CallsApart, FirstRefused, LimiterInv
  <2> QED
    BY <2>3, <2>4, <2>6 DEF LimiterInv
<1>6. ASSUME NEW d \in Dialer, Retry(d) PROVE LimiterInv'
  <2>1. LimiterTypeOK' /\ RefusalKept'
    BY <1>6 DEF LimiterInv, LimiterTypeOK, RefusalKept, Retry
  <2>2. d \in Owing /\ Owing' = Owing \ {d}
    BY <1>6 DEF Owing, Retry, LimiterInv, LimiterTypeOK
  <2>3. TwoPerCall'
    <3>1. Cardinality(Owing') = Cardinality(Owing) - 1
      BY <2>2, FewerOwe
    <3>2. /\ allowed \in Nat /\ invites \in Nat /\ allowed' = allowed /\ invites' = invites + 1
          /\ TwoPerCall
      BY <1>6 DEF Retry, LimiterInv, LimiterTypeOK
    <3> QED
      BY <3>1, <3>2, OwingFinite DEF TwoPerCall
  <2>4. CallsApart'
    BY <1>6 DEF CallsApart, Retry, LimiterInv
  <2> QED
    BY <2>1, <2>3, <2>4 DEF LimiterInv
<1>7. ASSUME LimiterTick PROVE LimiterInv'
  <2>1. LimiterTypeOK' /\ RefusalKept'
    BY <1>7 DEF LimiterInv, LimiterTypeOK, RefusalKept, LimiterTick
  <2>2. TwoPerCall'
    <3>1. Owing' = Owing
      BY <1>7 DEF Owing, LimiterTick
    <3> QED
      BY <1>7, <3>1 DEF TwoPerCall, LimiterTick, LimiterInv
  <2>3. CallsApart'
    <3>1. lastAllowed # NoTime => lastAllowed \in Nat /\ clock \in Nat
      BY DEF LimiterInv, LimiterTypeOK
    <3> QED
      BY <1>7, <3>1 DEF CallsApart, LimiterTick, LimiterInv
  <2> QED
    BY <2>1, <2>2, <2>3 DEF LimiterInv
<1>8. ASSUME UNCHANGED limiterVars PROVE LimiterInv'
  <2>1. Owing' = Owing
    BY <1>8 DEF Owing, limiterVars
  <2> QED
    BY <1>8, <2>1 DEF LimiterInv, LimiterTypeOK, RefusalKept, TwoPerCall, CallsApart, limiterVars
<1> QED
  BY <1>1, <1>2, <1>3, <1>4, <1>5, <1>6, <1>7, <1>8 DEF LimiterNext, Denied

-----------------------------------------------------------------------------
(* The theorems                                                            *)

\* What the limiter and its callers keep has its type, for every configuration
\* (AorState, CarrierRetryConfig).
THEOREM LimiterTypeCorrect == LimiterSpec => []LimiterTypeOK
<1>1. LimiterInv => LimiterTypeOK
  BY DEF LimiterInv
<1> QED
  BY <1>1, LimiterStarts, LimiterSteps, PTL DEF LimiterSpec

\* check_and_record and the single retry bound the INVITEs the NGN gets by two for
\* every min_interval that has begun, for any number of callers, any backoff steps,
\* any Retry-After and any jitter.
THEOREM LoadBounded == LimiterSpec => []NgnLoadBounded
<1>1. LimiterInv => NgnLoadBounded
  <2> SUFFICES ASSUME LimiterInv PROVE NgnLoadBounded
    OBVIOUS
  <2>1. clock \in Nat /\ allowed \in Nat /\ invites \in Nat /\ MinInterval \in Nat \ {0}
    BY LimiterAssumption DEF LimiterInv, LimiterTypeOK
  <2>2. clock \div MinInterval \in Nat
    BY <2>1, Intervals
  <2>3. allowed <= 1 + clock \div MinInterval
    <3>1. CASE lastAllowed = NoTime
      BY <3>1, <2>1, <2>2 DEF LimiterInv, CallsApart
    <3>2. CASE lastAllowed # NoTime
      <4>1. lastAllowed \in Nat /\ lastAllowed <= clock /\ allowed <= 1 + lastAllowed \div MinInterval
        BY <3>2 DEF LimiterInv, CallsApart, LimiterTypeOK
      <4>2. lastAllowed \div MinInterval \in Nat /\ lastAllowed \div MinInterval <= clock \div MinInterval
        BY <4>1, <2>1, Intervals
      <4> QED
        BY <4>1, <4>2, <2>1, <2>2
    <3> QED
      BY <3>1, <3>2
  <2>4. invites <= 2 * allowed
    BY <2>1, OwingFinite DEF LimiterInv, TwoPerCall
  <2> QED
    BY <2>1, <2>2, <2>3, <2>4 DEF NgnLoadBounded
<1> QED
  BY <1>1, LimiterStarts, LimiterSteps, PTL DEF LimiterSpec
=============================================================================

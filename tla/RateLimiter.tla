----------------------------- MODULE RateLimiter ----------------------------
(***************************************************************************)
(* What holds the INVITEs to the NGN back: the limiter of one address of   *)
(* record (call/rate_limiter.rs) and the single automatic retry            *)
(* (call/carrier_retry.rs), used by calls that run at the same time.  The  *)
(* limiter is asked once per call; the retry does not ask it, and only the *)
(* last answer of a call is reported to it.  Time is counted in ticks.     *)
(***************************************************************************)
EXTENDS Integers, Sequences, FiniteSets

CONSTANTS
    Dialer,        \* the callers that share the address, one call at a time each
    MinInterval,   \* RateLimiterConfig.min_interval
    Steps,         \* RateLimiterConfig.failure_backoff_steps
    DefaultWait,   \* CarrierRetryConfig.default_wait
    MaxWait,       \* CarrierRetryConfig.max_wait
    Jitter,        \* CarrierRetryConfig.jitter
    Statuses,      \* the NGN's refusals
    RetryAfters,   \* values of its Retry-After
    NoTime,        \* no moment: None of an Option<Instant>
    Horizon        \* bound: the last moment of a behaviour

ASSUME LimiterAssumption ==
    /\ MinInterval \in Nat \ {0} /\ Steps \in Seq(Nat)
    /\ DefaultWait \in Nat /\ MaxWait \in Nat /\ Jitter \in Nat
    /\ Statuses \subseteq 300..699 /\ RetryAfters \subseteq Nat
    /\ NoTime \notin Nat /\ Horizon \in Nat /\ IsFiniteSet(Dialer)

VARIABLES
    clock,        \* Instant::now()
    lastAllowed,  \* AorState.last_allowed_at, NoTime before the first call
    streak,       \* AorState.failure_streak
    retryUntil,   \* AorState.retry_after_until
    dialing,      \* a caller's call: "Idle", "First", "Wait", "Second"
    wakeAt,       \* when a caller's retry is due
    refusal,      \* the refusal it waits after: status and Retry-After
    allowed,      \* calls the limiter has let through
    invites       \* INVITEs the NGN has been sent

limiterVars == <<clock, lastAllowed, streak, retryUntil, dialing, wakeAt, refusal, allowed, invites>>

LimiterInit ==
    /\ clock = 0 /\ lastAllowed = NoTime /\ streak = 0 /\ retryUntil = NoTime
    /\ dialing = [d \in Dialer |-> "Idle"]
    /\ wakeAt = [d \in Dialer |-> 0]
    /\ refusal = [d \in Dialer |-> <<>>]
    /\ allowed = 0 /\ invites = 0

Later(m, n) == IF m > n THEN m ELSE n

\* The wait after the last call: the step of the failures in a row, the last
\* step for more of them, and never less than min_interval.
Backoff ==
    IF streak = 0 \/ Steps = <<>> THEN MinInterval
    ELSE Later(MinInterval, Steps[IF streak > Len(Steps) THEN Len(Steps) ELSE streak])

AllowAt == LET until == lastAllowed + Backoff
           IN  IF retryUntil = NoTime THEN until ELSE Later(retryUntil, until)

\* Mutant: a caller that comes too early is counted and let through.
AllowsEarly == lastAllowed # NoTime => clock >= AllowAt - 1

\* check_and_record_at answers Allow.
Allows == lastAllowed # NoTime => clock >= AllowAt

\* round_up_secs: the Retry-After of a refused call is a whole second at least.
DeniedFor == Later(1, AllowAt - clock)

\* A call that is let through; the moment is recorded whatever becomes of it.
Dial(d) ==
    /\ dialing[d] = "Idle" /\ Allows
    /\ lastAllowed' = clock
    /\ retryUntil' = IF retryUntil # NoTime /\ retryUntil > clock THEN retryUntil ELSE NoTime
    /\ dialing' = [dialing EXCEPT ![d] = "First"]
    /\ allowed' = allowed + 1 /\ invites' = invites + 1
    /\ UNCHANGED <<clock, streak, wakeAt, refusal>>

\* Refused with 503 and a Retry-After: nothing is recorded.
Denied(d) ==
    /\ dialing[d] = "Idle" /\ ~Allows /\ DeniedFor >= 1
    /\ UNCHANGED limiterVars

-----------------------------------------------------------------------------
(* The answers of the NGN                                                  *)

\* record_success
Success ==
    /\ streak' = 0 /\ retryUntil' = NoTime

\* record_failure_at: only a 5xx counts, and the longest Retry-After holds.
Failure(status, after) ==
    IF status \in 500..599
    THEN /\ streak' = streak + 1
         /\ retryUntil' = IF after = NoTime THEN retryUntil
                          ELSE IF retryUntil = NoTime THEN clock + after
                          ELSE Later(retryUntil, clock + after)
    ELSE UNCHANGED <<streak, retryUntil>>

\* is_carrier_intermittent_reject
Intermittent(status) == status \in {486, 500, 503}

\* decide_retry, Retry-After included.
Retries(status, after) == Intermittent(status) /\ (after # NoTime => after <= MaxWait)

\* apply_jitter: the offset may shorten the Retry-After as well.
Waits(after) == {Later(0, (IF after = NoTime THEN DefaultWait ELSE after) + j) : j \in (-Jitter)..Jitter}

Refusals == Statuses \X (RetryAfters \cup {NoTime})

Ends(d) ==
    /\ dialing' = [dialing EXCEPT ![d] = "Idle"]
    /\ wakeAt' = [wakeAt EXCEPT ![d] = 0]
    /\ refusal' = [refusal EXCEPT ![d] = <<>>]

\* The call ends: established; refused; not heard of, which counts as 503 unless
\* the caller has cancelled.
Concludes(d, refusals) ==
    /\ Ends(d)
    /\ \/ Success
       \/ \E r \in refusals : Failure(r[1], r[2])
       \/ Failure(503, NoTime)
       \/ UNCHANGED <<streak, retryUntil>>
    /\ UNCHANGED <<clock, lastAllowed, allowed, invites>>

FirstAnswered(d) ==
    /\ dialing[d] = "First"
    /\ Concludes(d, {r \in Refusals : ~Retries(r[1], r[2])})

\* A refusal that may pass: it is not reported to the limiter yet.
FirstRefused(d) ==
    /\ dialing[d] = "First"
    /\ \E r \in Refusals :
          /\ Retries(r[1], r[2])
          /\ \E w \in Waits(r[2]) : wakeAt' = [wakeAt EXCEPT ![d] = clock + w]
          /\ refusal' = [refusal EXCEPT ![d] = r]
    /\ dialing' = [dialing EXCEPT ![d] = "Wait"]
    /\ UNCHANGED <<clock, lastAllowed, streak, retryUntil, allowed, invites>>

\* The second INVITE goes out without asking the limiter.
Retry(d) ==
    /\ dialing[d] = "Wait" /\ clock >= wakeAt[d]
    /\ dialing' = [dialing EXCEPT ![d] = "Second"]
    /\ invites' = invites + 1
    /\ UNCHANGED <<clock, lastAllowed, streak, retryUntil, wakeAt, refusal, allowed>>

\* The caller hung up during the wait: the first answer is reported after all.
RetryAborted(d) ==
    /\ dialing[d] = "Wait"
    /\ Ends(d) /\ Failure(refusal[d][1], refusal[d][2])
    /\ UNCHANGED <<clock, lastAllowed, allowed, invites>>

SecondAnswered(d) == dialing[d] = "Second" /\ Concludes(d, Refusals)

LimiterTick ==
    /\ clock < Horizon
    /\ \A d \in Dialer : dialing[d] = "Wait" => clock < wakeAt[d]
    /\ clock' = clock + 1
    /\ UNCHANGED <<lastAllowed, streak, retryUntil, dialing, wakeAt, refusal, allowed, invites>>

LimiterNext ==
    \/ \E d \in Dialer : \/ Dial(d) \/ Denied(d) \/ FirstAnswered(d) \/ FirstRefused(d)
                         \/ Retry(d) \/ RetryAborted(d) \/ SecondAnswered(d)
    \/ LimiterTick

LimiterSpec == LimiterInit /\ [][LimiterNext]_limiterVars

-----------------------------------------------------------------------------
LimiterTypeOK ==
    /\ clock \in Nat /\ streak \in Nat
    /\ lastAllowed \in Nat \cup {NoTime} /\ retryUntil \in Nat \cup {NoTime}
    /\ dialing \in [Dialer -> {"Idle", "First", "Wait", "Second"}]
    /\ wakeAt \in [Dialer -> Nat]
    /\ refusal \in [Dialer -> Refusals \cup {<<>>}]
    /\ allowed \in Nat /\ invites \in Nat

\* What the NGN is sent stays bounded however the calls, their answers and their
\* retries interleave: at most two INVITEs for each min_interval that has begun.
NgnLoadBounded == invites <= 2 * (1 + clock \div MinInterval)
=============================================================================

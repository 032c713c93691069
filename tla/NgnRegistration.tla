--------------------------- MODULE NgnRegistration --------------------------
(***************************************************************************)
(* The registration with the NGN (sip/register.rs): an endless loop that   *)
(* registers, sleeps for nine tenths of the granted time and registers     *)
(* again, or waits after a failure.  The flag it keeps is what the health  *)
(* checks report.  Time is counted in ticks; regLease is what the NGN      *)
(* really still grants.  The CSeq only grows and is left out.              *)
(***************************************************************************)
EXTENDS Naturals

CONSTANTS
    Grants,       \* values of Expires in the NGN's 200 OK, in ticks
    RetryDelay,   \* the wait after a failure (30 s), in ticks
    HasPassword   \* a password is configured

ASSUME RegAssumption ==
    /\ Grants \subseteq Nat \ {0} /\ RetryDelay \in Nat \ {0}
    /\ HasPassword \in BOOLEAN

VARIABLES
    regPhase,     \* "Plain" and "Digest": the request is out; "Sleep", "Backoff"
    regFlag,      \* Registrar.registered
    regTimer,     \* ticks left to sleep
    regLease,     \* ticks left of the NGN's binding
    regRoute,     \* the Service-Route and outbound proxy have been stored
    regGood       \* the NGN answers from now on, with 200 or a challenge

regVars == <<regPhase, regFlag, regTimer, regLease, regRoute, regGood>>

RegInit ==
    /\ regPhase = "Plain" /\ regFlag = FALSE
    /\ regTimer = 0 /\ regLease = 0 /\ regRoute = FALSE
    /\ regGood = FALSE

\* Mutant: the binding is refreshed when it is over.
RefreshLate(e) == e

\* (expires as f64 * 0.9) as u64
Refresh(e) == (9 * e) \div 10

\* 200 OK: parse_expires, with 3600 s where the header is missing.
Accepted ==
    /\ \E e \in Grants : regTimer' = Refresh(e) /\ regLease' = e
    /\ regPhase' = "Sleep" /\ regFlag' = TRUE /\ regRoute' = TRUE
    /\ UNCHANGED regGood

\* An error: run() clears the flag and waits.  The routes stay.
Failed ==
    /\ regPhase' = "Backoff" /\ regFlag' = FALSE
    /\ regTimer' = RetryDelay
    /\ UNCHANGED <<regLease, regRoute, regGood>>

\* The first REGISTER's answer: 200; a challenge, answered when there is a
\* password; any other status, or none (Timer F).
PlainAnswered ==
    /\ regPhase = "Plain"
    /\ \/ Accepted
       \/ HasPassword /\ regPhase' = "Digest"
          /\ UNCHANGED <<regFlag, regTimer, regLease, regRoute, regGood>>
       \/ (~regGood \/ ~HasPassword) /\ Failed

DigestAnswered ==
    /\ regPhase = "Digest"
    /\ Accepted \/ (~regGood /\ Failed)

\* Mutant: after a failure nobody tries again.
GivesUp ==
    /\ regPhase = "Sleep" /\ regTimer = 0
    /\ regPhase' = "Plain"
    /\ UNCHANGED <<regFlag, regTimer, regLease, regRoute, regGood>>

\* The sleep is over and the next REGISTER goes out, without credentials.
NextRegister ==
    /\ regPhase \in {"Sleep", "Backoff"} /\ regTimer = 0
    /\ regPhase' = "Plain"
    /\ UNCHANGED <<regFlag, regTimer, regLease, regRoute, regGood>>

Less(n) == IF n = 0 THEN 0 ELSE n - 1

\* A tick; while the task sleeps it wakes on time.
RegTick ==
    /\ regPhase \in {"Sleep", "Backoff"} => regTimer > 0
    /\ regTimer > 0 \/ regLease > 0
    /\ regTimer' = Less(regTimer) /\ regLease' = Less(regLease)
    /\ UNCHANGED <<regPhase, regFlag, regRoute, regGood>>

NgnRecovers == ~regGood /\ regGood' = TRUE /\ UNCHANGED <<regPhase, regFlag, regTimer, regLease, regRoute>>

RegTask == PlainAnswered \/ DigestAnswered \/ NextRegister
RegNext == RegTask \/ RegTick \/ NgnRecovers

RegTypeOK ==
    /\ regPhase \in {"Plain", "Digest", "Sleep", "Backoff"}
    /\ regFlag \in BOOLEAN /\ regRoute \in BOOLEAN /\ regGood \in BOOLEAN
    /\ regTimer \in Nat /\ regLease \in Nat

\* Between two REGISTERs the flag tells the truth: what the task sleeps is
\* shorter than what was granted, whatever was granted.
RegisteredIsTrue == regPhase = "Sleep" => regFlag /\ regLease > 0

\* The loop of run() comes back: once the NGN answers, the gateway is
\* registered, and stays so.
RegistersAgain == HasPassword /\ <>[]regGood => <>[]regFlag

\* What health and metrics may rely on: the registration is as true as the flag
\* says, and is regained after every failure.
RegistrationKept == []RegisteredIsTrue /\ RegistersAgain
=============================================================================

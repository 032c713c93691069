-------------------------- MODULE ReliableRinging ---------------------------
(***************************************************************************)
(* The reliable 180 of an NGN call whose INVITE supports 100rel            *)
(* (call/orchestrator.rs): a task repeats it until the PRACK, the handler  *)
(* of the INVITE waits for the PRACK before its final response, and the    *)
(* handlers of the PRACKs stop the one and wake the other.  All of them    *)
(* share Rc100relState; who drops the last reference to it aborts the      *)
(* task.  Module InboundCall has the call around it.                       *)
(***************************************************************************)
EXTENDS Naturals, Sequences, FiniteSets

CONSTANTS
    RelPrack,      \* the PRACKs, a repeated one included
    RelT2,         \* T2, in units of T1 (8)
    RelLimit       \* TIMER_LIMIT and PRACK_TIMER, in units of T1 (64)

ASSUME RelAssumption ==
    /\ IsFiniteSet(RelPrack) /\ {"State", "Sent", "Dropped"} \cap RelPrack = {}
    /\ RelT2 \in Nat \ {0} /\ RelT2 <= 8 /\ RelLimit \in Nat   \* three doublings from T1 to T2

VARIABLES
    relHandler,    \* where handle_invite stands
    relEntry,      \* rc100rel has the state
    relTask,       \* spawn_reliable_provisional_retransmit
    relPermit,     \* the Notify prack_received has a permit
    relSender,     \* prack_oneshot_tx: in the "State", the PRACK that took it, "Sent", "Dropped"
    relPracks,     \* where handle_prack stands with each PRACK
    relNow,        \* the time since the 180, in units of T1 (500 ms)
    relSince,      \* when wait_for_prack began
    relSends       \* when the 180 was repeated

relVars2 == <<relHandler, relEntry, relTask, relPermit, relSender, relPracks, relNow, relSince, relSends>>

RelEnd == 2 * RelLimit + RelT2     \* the last time of interest
RelOver == {"Final", "TimedOut", "Cancelled", "RingFailed"}

RelInit ==
    /\ relHandler = "Idle" /\ relEntry = FALSE
    /\ relTask = [on |-> FALSE, due |-> 0, interval |-> 0]
    /\ relPermit = FALSE /\ relSender = "State"
    /\ relPracks = [p \in RelPrack |-> "Idle"]
    /\ relNow = 0 /\ relSince = 0 /\ relSends = <<>>

\* The handlers of PRACKs that have the state in their hands.
RelHolders == {p \in RelPrack : relPracks[p] \in {"Found", "Took", "Answered", "Notified", "Refused"}}

\* Mutant: dropping the state leaves its task alone.
DropsWithoutAbort(entry, holders) == relTask

\* Drop for Rc100relState aborts the task, once nobody has the state any more.
TaskAfterDrop(entry, holders) ==
    IF ~entry /\ holders = {} THEN [relTask EXCEPT !.on = FALSE] ELSE relTask

-----------------------------------------------------------------------------
(* The handler of the INVITE                                               *)

\* The task is started and the state entered, then the 180 is sent; when that
\* fails the handler returns and leaves both.
RingReliably ==
    /\ relHandler = "Idle"
    /\ relTask' = [on |-> TRUE, due |-> relNow + 1, interval |-> 1]
    /\ relEntry' = TRUE
    /\ relHandler' \in {"Forking", "RingFailed"}
    /\ UNCHANGED <<relPermit, relSender, relPracks, relNow, relSince, relSends>>

\* cleanup_rc100rel
CleanRel == relEntry' = FALSE /\ relTask' = TaskAfterDrop(FALSE, RelHolders)

\* CANCEL ends the fork: clean up, then 487.
RelCancelled ==
    /\ relHandler = "Forking"
    /\ relHandler' = "Cancelled" /\ CleanRel
    /\ UNCHANGED <<relPermit, relSender, relPracks, relNow, relSince, relSends>>

\* wait_for_prack takes the receiver; when the state is gone the PRACK was there.
RelWait ==
    /\ relHandler = "Forking"
    /\ relHandler' = IF relEntry THEN "Waiting" ELSE "Final"
    /\ relSince' = relNow
    /\ UNCHANGED <<relEntry, relTask, relPermit, relSender, relPracks, relNow, relSends>>

\* The value, or the sender is gone without one, which counts as none to wait for.
RelReceived ==
    /\ relHandler = "Waiting" /\ relSender \in {"Sent", "Dropped"}
    /\ relHandler' = "Final"
    /\ UNCHANGED <<relEntry, relTask, relPermit, relSender, relPracks, relNow, relSince, relSends>>

\* The select is biased to the receiver.  Clean up, then 408.
RelTimeout ==
    /\ relHandler = "Waiting" /\ relSender \notin {"Sent", "Dropped"}
    /\ relNow >= relSince + RelLimit
    /\ relHandler' = "TimedOut" /\ CleanRel
    /\ UNCHANGED <<relPermit, relSender, relPracks, relNow, relSince, relSends>>

\* After the final response the state is cleaned up if it is still there.
RelFinish ==
    /\ relHandler = "Final" /\ relEntry
    /\ CleanRel
    /\ UNCHANGED <<relHandler, relPermit, relSender, relPracks, relNow, relSince, relSends>>

-----------------------------------------------------------------------------
(* handle_prack                                                            *)

PrackTo(p, s) == relPracks' = [relPracks EXCEPT ![p] = s]
RelElse == UNCHANGED <<relHandler, relNow, relSince, relSends>>

\* The state is looked up: 481 without it.
RelPrackFinds(p) ==
    /\ relHandler # "Idle" /\ relPracks[p] = "Idle"
    /\ PrackTo(p, IF relEntry THEN "Found" ELSE "Done")
    /\ UNCHANGED <<relEntry, relTask, relPermit, relSender>> /\ RelElse

\* RAck is compared under the state's lock: the sender is taken, which only the
\* first PRACK finds; or 481.
RelPrackTakes(p) ==
    /\ relPracks[p] = "Found"
    /\ \/ PrackTo(p, "Took") /\ relSender' = IF relSender = "State" THEN p ELSE relSender
       \/ PrackTo(p, "Refused") /\ UNCHANGED relSender
    /\ UNCHANGED <<relEntry, relTask, relPermit>> /\ RelElse

\* 200.  When it cannot be sent the handler returns and drops what it took.
RelPrackAnswers(p) ==
    /\ relPracks[p] = "Took"
    /\ \/ PrackTo(p, "Answered") /\ UNCHANGED <<relSender, relTask>>
       \/ /\ PrackTo(p, "Failed")
          /\ relSender' = IF relSender = p THEN "Dropped" ELSE relSender
          /\ relTask' = TaskAfterDrop(relEntry, RelHolders \ {p})
    /\ UNCHANGED <<relEntry, relPermit>> /\ RelElse

\* notify_one to the task, then the value to the handler of the INVITE.
RelPrackNotifies(p) ==
    /\ relPracks[p] = "Answered"
    /\ PrackTo(p, "Notified")
    /\ relPermit' = TRUE
    /\ relSender' = IF relSender = p THEN "Sent" ELSE relSender
    /\ UNCHANGED <<relEntry, relTask>> /\ RelElse

\* Clean up and return; a refused PRACK only returns.
RelPrackDone(p) ==
    /\ relPracks[p] \in {"Notified", "Refused"}
    /\ PrackTo(p, "Done")
    /\ relEntry' = (relEntry /\ relPracks[p] = "Refused")
    /\ relTask' = TaskAfterDrop(relEntry', RelHolders \ {p})
    /\ UNCHANGED <<relPermit, relSender>> /\ RelElse

-----------------------------------------------------------------------------
(* The task                                                                *)

\* The pause is over: the task ends after 32 s or when it cannot send, else it
\* repeats the 180 and doubles the pause up to T2.
RepeatRinging ==
    /\ relTask.on /\ relNow >= relTask.due
    /\ \/ relTask' = [relTask EXCEPT !.on = FALSE] /\ UNCHANGED relSends
       \/ /\ relNow < RelLimit
          /\ relSends' = Append(relSends, relNow)
          /\ LET next == IF 2 * relTask.interval < RelT2 THEN 2 * relTask.interval ELSE RelT2
             IN  relTask' = [relTask EXCEPT !.interval = next, !.due = relNow + next]
    /\ UNCHANGED <<relHandler, relEntry, relPermit, relSender, relPracks, relNow, relSince>>

\* It is notified; the permit of notify_one waits for it.
RelNotified ==
    /\ relTask.on /\ relPermit
    /\ relTask' = [relTask EXCEPT !.on = FALSE] /\ relPermit' = FALSE
    /\ UNCHANGED <<relHandler, relEntry, relSender, relPracks, relNow, relSince, relSends>>

\* Timers go off in time; what a task does between two awaits takes none.  Time is
\* of interest while the task or the handler of the INVITE is there.
RelTick ==
    /\ relHandler \in {"Forking", "Waiting"} \/ relTask.on
    /\ relNow < RelEnd
    /\ relTask.on => relNow < relTask.due /\ ~relPermit
    /\ relHandler = "Waiting" => relNow < relSince + RelLimit
    /\ relNow' = relNow + 1
    /\ UNCHANGED <<relHandler, relEntry, relTask, relPermit, relSender, relPracks, relSince, relSends>>

-----------------------------------------------------------------------------
RelNext ==
    \/ RingReliably \/ RelCancelled \/ RelWait \/ RelReceived \/ RelTimeout \/ RelFinish
    \/ \E p \in RelPrack : \/ RelPrackFinds(p) \/ RelPrackTakes(p) \/ RelPrackAnswers(p)
                           \/ RelPrackNotifies(p) \/ RelPrackDone(p)
    \/ RepeatRinging \/ RelNotified \/ RelTick

RelTypeOK ==
    /\ relHandler \in RelOver \cup {"Idle", "Forking", "Waiting"}
    /\ relEntry \in BOOLEAN /\ relPermit \in BOOLEAN
    /\ relTask \in [on : BOOLEAN, due : 0..RelEnd, interval : 0..RelT2]
    /\ relSender \in {"State", "Sent", "Dropped"} \cup RelPrack
    /\ relPracks \in [RelPrack -> {"Idle", "Found", "Took", "Answered", "Notified", "Refused",
                                   "Failed", "Done"}]
    /\ relNow \in 0..RelEnd /\ relSince \in 0..RelEnd
    /\ relSends \in Seq(0..RelLimit)

\* A PRACK was accepted, its 200 sent and its handler finished.
RelConfirmed == relSender = "Sent" /\ \E p \in RelPrack : relPracks[p] = "Done"

\* The 180 is repeated at growing distances.
RepeatsGrow ==
    \A i \in 1..(Len(relSends) - 2) : relSends[i + 2] - relSends[i + 1] >= relSends[i + 1] - relSends[i]

\* Nobody repeats the 180 once its PRACK is through or the call is over, unless a
\* PRACK is being handled or its 200 could not be sent.
RepeatsEnd ==
    /\ relTask.on => ~RelConfirmed \/ RelHolders # {} \/ relPermit
    /\ relTask.on /\ relHandler \in RelOver \ {"RingFailed"} =>
           \/ RelHolders # {} \/ relPermit
           \/ relHandler = "Final" /\ relEntry /\ \E p \in RelPrack : relPracks[p] = "Failed"

\* However the PRACKs, the CANCEL and the timers fall: the 180 is repeated at
\* growing distances, ten times in 32 s at the most, and no longer than it has to be.
RingingStops == Len(relSends) <= RelLimit \div RelT2 + 2 /\ RepeatsGrow /\ RepeatsEnd
=============================================================================

------------------------------ MODULE CallLog -------------------------------
(***************************************************************************)
(* The log of the last calls (observability/call_log.rs), a ring that      *)
(* calls are started and ended in from several tasks.                      *)
(***************************************************************************)
EXTENDS Naturals, Sequences, SequencesExt, FiniteSetsExt

CONSTANTS
    CallId,
    MaxCalls,     \* CallLog.max_size
    MaxMarks      \* bound: starts and ends logged

ASSUME CallLogAssumption == {MaxCalls, MaxMarks} \subseteq Nat

VARIABLES
    entries,    \* CallLog.entries, the oldest first
    begun,      \* every call logged, in the order of its first line
    ends,       \* per call, what record_end was told since its first line, the last first
    marks

logVars == <<entries, begun, ends, marks>>

LogInit == entries = <<>> /\ begun = <<>> /\ ends = [c \in CallId |-> <<>>] /\ marks = 0
-----------------------------------------------------------------------------
Logged(c) == \E i \in DOMAIN entries : entries[i].call = c

\* CallLog::record_start: a repeated INVITE is one call.
RecordStart(c) ==
    /\ marks < MaxMarks /\ marks' = marks + 1
    /\ IF Logged(c) \/ MaxCalls = 0 THEN UNCHANGED <<entries, begun, ends>>
       ELSE LET all == Append(entries, [call |-> c, outcome |-> "None", ended |-> 0])
            IN /\ entries' = SubSeq(all, 1 + (IF Len(all) > MaxCalls THEN Len(all) - MaxCalls ELSE 0), Len(all))
               /\ begun' = Append(begun, c) /\ ends' = [ends EXCEPT ![c] = <<>>]

\* Mutant: a later end also changes when the call ended.
EndsAgain(c, o) ==
    /\ marks < MaxMarks /\ marks' = marks + 1
    /\ IF Logged(c)
       THEN /\ entries' = [i \in DOMAIN entries |->
                  IF entries[i].call = c THEN [entries[i] EXCEPT !.outcome = o, !.ended = marks'] ELSE entries[i]]
            /\ ends' = [ends EXCEPT ![c] = <<[outcome |-> o, at |-> marks']>> \o @]
       ELSE UNCHANGED <<entries, ends>>
    /\ UNCHANGED begun

\* CallLog::record_end: the last outcome counts, the first end is when it ended.
RecordEnd(c, o) ==
    /\ marks < MaxMarks /\ marks' = marks + 1
    /\ IF Logged(c)
       THEN /\ entries' = [i \in DOMAIN entries |->
                  IF entries[i].call # c THEN entries[i]
                  ELSE [call |-> c, outcome |-> o,
                        ended |-> IF entries[i].outcome = "None" THEN marks' ELSE entries[i].ended]]
            /\ ends' = [ends EXCEPT ![c] = <<[outcome |-> o, at |-> marks']>> \o @]
       ELSE UNCHANGED <<entries, ends>>
    /\ UNCHANGED begun

\* CallLog::recent.
Recent(n) == Reverse(SubSeq(entries, Len(entries) - Min({n, Len(entries)}) + 1, Len(entries)))

LogNext == \E c \in CallId : RecordStart(c) \/ \E o \in {"Answered", "Cancelled"} : RecordEnd(c, o)
-----------------------------------------------------------------------------
LogTypeOK == Len(entries) <= MaxCalls /\ marks \in 0..MaxMarks

\* The log is the last calls, each once, the newest first, with the last outcome
\* that was reported and the time of the first.
LogIsRecent ==
    LET n == Min({MaxCalls, Len(begun)})
    IN /\ [i \in 1..Len(entries) |-> Recent(MaxCalls)[i].call] = [i \in 1..n |-> begun[Len(begun) - i + 1]]
       /\ IsInjective([i \in DOMAIN entries |-> entries[i].call])
       /\ \A i \in DOMAIN entries : LET es == ends[entries[i].call] IN
              IF es = <<>> THEN entries[i].outcome = "None"
              ELSE entries[i].outcome = Head(es).outcome /\ entries[i].ended = Last(es).at
=============================================================================

------------------------------ MODULE SipTrace ------------------------------
(***************************************************************************)
(* The trace of the SIP messages (SipTraceWriter of observability/mod.rs): *)
(* a directory kept within a number of files and of bytes.                 *)
(*                                                                         *)
(* A file is named after the millisecond, the direction, the method and    *)
(* the Call-ID, so that two messages may have the same name.  A message is *)
(* a sequence of lines, its size their number.                             *)
(***************************************************************************)
EXTENDS Naturals, Sequences, SequencesExt, FiniteSetsExt

CONSTANTS
    Path,         \* names of trace files
    MaxTraces,    \* MAX_FILES
    MaxBytes,     \* MAX_TOTAL_BYTES, in lines
    MaxRecords    \* bound: messages traced

ASSUME TraceAssumption == {MaxTraces, MaxBytes, MaxRecords} \subseteq Nat

VARIABLES
    traces,     \* TraceState.files: path and size, the oldest first
    total,      \* TraceState.total_bytes
    disk,       \* the directory: path -> what is in it
    strays,     \* paths on the disk the writer has lost sight of
    fresh,     \* nothing has been traced since open
    records

traceVars == <<traces, total, disk, strays, fresh, records>>

TraceInit ==
    traces = <<>> /\ total = 0 /\ disk = <<>> /\ strays = {} /\ fresh = TRUE /\ records = 0
-----------------------------------------------------------------------------
Line == {"start", "header", "credentials", "blank", "redacted"}
Messages == {<<"start", "credentials", "blank", "credentials">>, <<"start", "header", "credentials">>,
             <<"start">>}

\* Mutant: the end of the headers is not noticed.
SanitizedThroughout(m) == [i \in DOMAIN m |-> IF m[i] = "credentials" THEN "redacted" ELSE m[i]]

\* sanitize_message, line by line: Authorization and Proxy-Authorization of the
\* headers, in any case; the body is copied.
SanitizeLine(l, acc) ==
    [out     |-> Append(acc.out, IF acc.headers /\ l = "credentials" THEN "redacted" ELSE l),
     headers |-> acc.headers /\ l # "blank"]
Sanitized(m) ==
    LET after[n \in 0..Len(m)] ==
            IF n = 0 THEN [out |-> <<>>, headers |-> TRUE] ELSE SanitizeLine(m[n], after[n - 1])
    IN after[Len(m)].out

Bytes(ts) ==
    LET sum[n \in 0..Len(ts)] == IF n = 0 THEN 0 ELSE sum[n - 1] + ts[n].size
    IN sum[Len(ts)]

\* Files of a directory as the writer lists them.
Listed(order, dir) == [i \in DOMAIN order |-> [path |-> order[i], size |-> Len(dir[order[i]])]]

\* Mutant: only the number of files is looked at.
FitsByNumber(ts) == Len(ts) <= MaxTraces
\* The condition of rotate's loop.
Fits(ts) == Len(ts) <= MaxTraces /\ Bytes(ts) <= MaxBytes

\* rotate: the oldest go until the rest fits.
Kept(ts) == LET n == CHOOSE n \in 0..Len(ts) :
                        /\ Fits(SubSeq(ts, n + 1, Len(ts)))
                        /\ \A k \in 0..n - 1 : ~Fits(SubSeq(ts, k + 1, Len(ts)))
            IN SubSeq(ts, n + 1, Len(ts))
Rotated(ts) == {t.path : t \in Range(SubSeq(ts, 1, Len(ts) - Len(Kept(ts))))}

\* SipTraceWriter::record, under the lock; the files that could not be removed
\* are forgotten all the same.
Record(p, m, stuck) ==
    LET all == Append(traces, [path |-> p, size |-> Len(m)])
        written == [q \in DOMAIN disk \cup {p} |-> IF q = p THEN Sanitized(m) ELSE disk[q]]
    IN /\ records < MaxRecords
       /\ stuck \subseteq Rotated(all) \cap DOMAIN written
       /\ traces' = Kept(all)
       /\ total' = (total + Len(m)) - Bytes(SubSeq(all, 1, Len(all) - Len(Kept(all))))
       /\ disk' = [q \in (DOMAIN written \ Rotated(all)) \cup stuck |-> written[q]]
       /\ strays' = (strays \ (Rotated(all) \cup {p})) \cup stuck
       /\ fresh' = FALSE /\ records' = records + 1

\* The file cannot be made, or cannot be written to the end.
RecordFails(p, m) ==
    /\ records < MaxRecords /\ records' = records + 1
    /\ \/ UNCHANGED <<disk, strays>>
       \/ /\ disk' = [q \in DOMAIN disk \cup {p} |-> IF q = p THEN SubSeq(Sanitized(m), 1, 1) ELSE disk[q]]
          /\ strays' = strays \cup {p}
    /\ UNCHANGED <<traces, total, fresh>>

\* SipTraceWriter::open after a restart: the files that are there, by age; nothing
\* is removed yet.
Reopen ==
    /\ ~fresh /\ fresh' = TRUE
    /\ \E order \in SetToSeqs(DOMAIN disk) :
           /\ traces' = Listed(order, disk)
           /\ total' = Bytes(traces')
    /\ strays' = {}
    /\ UNCHANGED <<disk, records>>

TraceNext ==
    \/ \E p \in Path, m \in Messages :
           RecordFails(p, m) \/ \E stuck \in SUBSET (DOMAIN disk \cup {p}) : Record(p, m, stuck)
    \/ Reopen
-----------------------------------------------------------------------------
TraceTypeOK ==
    /\ Range(traces) \subseteq [path : Path, size : Nat]
    /\ DOMAIN disk \subseteq Path /\ strays \subseteq Path

\* The directory does not grow: what is on the disk and has not escaped the writer
\* (a file that could not be removed or not be written) is on its list, the list's
\* bytes are what it says, and from the first message on within the limits, also
\* when names coincide and after a restart, which finds the escaped files again; and
\* no file has credentials in its headers, while a body is as it was.
TraceContained ==
    /\ DOMAIN disk \subseteq {t.path : t \in Range(traces)} \cup strays
    /\ total = Bytes(traces)
    /\ ~fresh => \E order \in SetToSeqs(DOMAIN disk \ strays) : Bytes(Listed(order, disk)) <= MaxBytes
    /\ \A p \in DOMAIN disk : \E m \in Messages : \E k \in {1, Len(m)} :
           /\ Len(disk[p]) = k
           /\ \A i \in 1..k : LET body == \E j \in 1..i - 1 : m[j] = "blank"
                              IN disk[p][i] = IF m[i] = "credentials" /\ ~body THEN "redacted" ELSE m[i]
=============================================================================

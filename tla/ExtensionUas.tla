---------------------------- MODULE ExtensionUas ----------------------------
(***************************************************************************)
(* The extensions' server (sip/uas.rs) and its registrar                   *)
(* (sip/registrar.rs).  Requests are handled one after the other by the    *)
(* receive task; a second task purges expired bindings every 30 s; the     *)
(* browsers' sessions write to the same registrar.  An address of record   *)
(* has one binding.  What else the receive task answers is the subject of  *)
(* module RequestDispatch.                                                 *)
(***************************************************************************)
EXTENDS Naturals, FiniteSets

CONSTANTS
    Aor,          \* the configured extensions
    MaxExpires,   \* UasConfig.max_expires, in ticks
    Asked,        \* values of Expires in a REGISTER
    Requests,     \* bound: REGISTERs and browser sessions in a behaviour
    None

ASSUME UasAssumption ==
    /\ IsFiniteSet(Aor) /\ MaxExpires \in Nat \ {0} /\ Asked \subseteq Nat
    /\ Requests \in Nat /\ None \notin Aor

VARIABLES
    bindings,     \* ExtensionRegistrar.inner: ticks left, for each bound address
    viaWeb,       \* addresses whose binding is a browser's
    uasStage,     \* the receive task inside handle_register: "Idle", "Snap", "Set"
    uasAor,       \* the address it unregisters, or None
    uasCount,     \* the snapshot it has taken
    purgeStage,   \* the purge task: "Wait", "Tell", "Snap", "Set"
    purged,       \* addresses it has removed and not announced yet
    purgeCount,   \* the snapshot it has taken
    extGauge,     \* Metrics.extension_registered
    lapsed,       \* addresses announced with UasEvent::Unregister
    requests      \* the bound's counter

uasVars == <<bindings, viaWeb, uasStage, uasAor, uasCount, purgeStage, purged, purgeCount,
             extGauge, lapsed, requests>>

Bound == DOMAIN bindings
\* lookup and snapshot skip what is expired.
LiveBindings == {a \in Bound : bindings[a] > 0}
\* Mutant: whatever is asked is granted.
AsAsked(m, n) == m
\* parse_register_expires grants at most max_expires.
Minimum(m, n) == IF m < n THEN m ELSE n
Without(as) == [a \in Bound \ as |-> bindings[a]]
With(a, n) == [b \in Bound \cup {a} |-> IF b = a THEN n ELSE bindings[b]]

UasInit ==
    /\ bindings = [a \in {} |-> 0] /\ viaWeb = {}
    /\ uasStage = "Idle" /\ uasAor = None /\ uasCount = 0
    /\ purgeStage = "Wait" /\ purged = {} /\ purgeCount = 0
    /\ extGauge = 0 /\ lapsed = {} /\ requests = 0

\* register_with_transport: zero unregisters, anything else replaces.
RegisterBinding(a, n, web) ==
    /\ bindings' = IF n = 0 THEN Without({a}) ELSE With(a, n)
    /\ viaWeb' = IF n > 0 /\ web THEN viaWeb \cup {a} ELSE viaWeb \ {a}

Counted == requests < Requests /\ requests' = requests + 1

\* Accepted: the binding is written; an Expires of zero ends it.
AcceptRegister(a) ==
    /\ uasStage = "Idle" /\ Counted
    /\ \E n \in Asked : /\ RegisterBinding(a, Minimum(n, MaxExpires), FALSE)
                        /\ uasAor' = IF n = 0 THEN a ELSE None
    /\ uasStage' = "Snap"
    /\ UNCHANGED <<uasCount, purgeStage, purged, purgeCount, extGauge, lapsed>>

RegisterSnapshot ==
    /\ uasStage = "Snap"
    /\ uasStage' = "Set"
    /\ uasCount' = Cardinality(LiveBindings)
    /\ UNCHANGED <<bindings, viaWeb, uasAor, purgeStage, purged, purgeCount, extGauge, lapsed,
                   requests>>

\* The gauge, the event of an unregistration, 200 OK.
RegisterDone ==
    /\ uasStage = "Set"
    /\ uasStage' = "Idle"
    /\ extGauge' = uasCount
    /\ lapsed' = IF uasAor = None THEN lapsed ELSE lapsed \cup {uasAor}
    /\ uasAor' = None /\ uasCount' = 0
    /\ UNCHANGED <<bindings, viaWeb, purgeStage, purged, purgeCount, requests>>

\* A browser registers (process_client_message), or its session ends.
WebRegister(a) ==
    /\ Counted
    /\ RegisterBinding(a, MaxExpires, TRUE) \/ RegisterBinding(a, 0, TRUE)
    /\ UNCHANGED <<uasStage, uasAor, uasCount, purgeStage, purged, purgeCount, extGauge, lapsed>>

-----------------------------------------------------------------------------
(* The purge task                                                          *)

PurgeExpired ==
    /\ purgeStage = "Wait"
    /\ LET gone == Bound \ LiveBindings IN
       /\ bindings' = Without(gone)
       /\ viaWeb' = viaWeb \ gone
       /\ purged' = gone
    /\ purgeStage' = "Tell"
    /\ UNCHANGED <<uasStage, uasAor, uasCount, purgeCount, extGauge, lapsed, requests>>

PurgeTells ==
    /\ purgeStage = "Tell"
    /\ purgeStage' = "Snap"
    /\ lapsed' = lapsed \cup purged
    /\ purged' = {}
    /\ UNCHANGED <<bindings, viaWeb, uasStage, uasAor, uasCount, purgeCount, extGauge, requests>>

PurgeSnapshot ==
    /\ purgeStage = "Snap"
    /\ purgeStage' = "Set"
    /\ purgeCount' = Cardinality(LiveBindings)
    /\ UNCHANGED <<bindings, viaWeb, uasStage, uasAor, uasCount, purged, extGauge, lapsed, requests>>

\* Mutant: the purge leaves the gauge to handle_register.
PurgeKeepsGauge ==
    /\ purgeStage = "Set"
    /\ purgeStage' = "Wait" /\ purgeCount' = 0
    /\ UNCHANGED <<bindings, viaWeb, uasStage, uasAor, uasCount, purged, extGauge,
                   lapsed, requests>>

PurgeSets ==
    /\ purgeStage = "Set"
    /\ purgeStage' = "Wait"
    /\ extGauge' = purgeCount /\ purgeCount' = 0
    /\ UNCHANGED <<bindings, viaWeb, uasStage, uasAor, uasCount, purged, lapsed, requests>>

UasTick ==
    /\ LiveBindings # {}
    /\ bindings' = [a \in Bound |-> IF bindings[a] = 0 THEN 0 ELSE bindings[a] - 1]
    /\ UNCHANGED <<viaWeb, uasStage, uasAor, uasCount, purgeStage, purged, purgeCount, extGauge,
                   lapsed, requests>>

PurgeTask == PurgeExpired \/ PurgeTells \/ PurgeSnapshot \/ PurgeSets
RegisterTask == RegisterSnapshot \/ RegisterDone
UasNext ==
    \/ \E a \in Aor : AcceptRegister(a) \/ WebRegister(a)
    \/ RegisterTask \/ PurgeTask \/ UasTick

UasTypeOK ==
    /\ Bound \subseteq Aor /\ \A a \in Bound : bindings[a] \in 0..MaxExpires
    /\ viaWeb \subseteq Bound /\ purged \subseteq Aor /\ lapsed \subseteq Aor
    /\ uasStage \in {"Idle", "Snap", "Set"} /\ uasAor \in Aor \cup {None}
    /\ purgeStage \in {"Wait", "Tell", "Snap", "Set"}
    /\ {uasCount, purgeCount, extGauge} \subseteq 0..Cardinality(Aor)
    /\ requests \in 0..Requests

\* extension_registered is written from snapshots that two tasks take at
\* different moments, and browsers do not write it at all; it is right again
\* once the registrations rest.
ExtGaugeCatchesUp == <>[](extGauge = Cardinality(LiveBindings))
=============================================================================

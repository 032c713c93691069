------------------------- MODULE MediaBridgeProofs --------------------------
(***************************************************************************)
(* Whoever takes a call's entry out of the CallManager stops its bridge,   *)
(* and nobody else does: for every number of calls, ports and keys.        *)
(***************************************************************************)
EXTENDS MediaBridge, FiniteSetTheorems, TLAPS

\* The shape of what the steps below change.
MediaShape ==
    /\ mstage \in [Cid -> StartStages]
    /\ port = [c \in Cid |-> port[c]]
    /\ calls \subseteq Cid
    /\ mloop \in [Cid -> [Ways -> {"Off", "Run"}]]
    /\ stopping \in [Cid -> [Ends2 -> {"Idle", "Stop1", "Stop2", "Done"}]]

\* Before a bridge is attached nothing runs and nobody stops anything.
NotYetUp ==
    \A c \in Cid : mstage[c] # "Up" =>
        /\ c \notin calls
        /\ \A w \in Ways : mloop[c][w] = "Off"
        /\ \A e \in Ends2 : stopping[c][e] = "Idle"

\* A port is held from the binding on, until the start fails.
PortFromBinding ==
    \A c \in Cid : mstage[c] \in {"None", "Bind", "Ephemeral", "Failed", "Transparent"} => port[c] = {}

\* A call that is in the CallManager is being stopped by nobody.
EntryUntouched == \A c \in Cid : c \in calls => \A e \in Ends2 : stopping[c][e] = "Idle"

\* The loops are stopped one after the other.
DownStopped == \A c \in Cid, e \in Ends2 : stopping[c][e] = "Stop2" => mloop[c]["down"] = "Off"

MediaInv == MediaShape /\ NotYetUp /\ PortFromBinding /\ EntryUntouched /\ DownStopped /\ MediaReleased

\* The inductive invariant holds at first.
LEMMA MediaStarts == MediaInit => MediaInv
BY DEF MediaInit, MediaInv, MediaShape, NotYetUp, PortFromBinding, EntryUntouched, DownStopped,
       MediaReleased, Released, StartStages, Ways, Ends2

\* A step of a handler that starts a bridge and has not attached it yet: it moves its
\* own stage and its own port.
LEMMA StartKeepsMedia ==
    ASSUME MediaInv, NEW c \in Cid, NEW s \in StartStages \ {"Up"}, NEW S,
           mstage[c] # "Up", mstage' = [mstage EXCEPT ![c] = s],
           port' = [port EXCEPT ![c] = S],
           s \in {"None", "Bind", "Ephemeral", "Failed", "Transparent"} => S = {},
           UNCHANGED <<calls, mloop, stopping, stray>>
    PROVE  MediaInv'
<1>1. MediaShape'
  BY DEF MediaInv, MediaShape
<1>2. /\ mstage'[c] = s /\ port'[c] = S
      /\ \A d \in Cid \ {c} : mstage'[d] = mstage[d] /\ port'[d] = port[d]
  BY DEF MediaInv, MediaShape
<1>3. NotYetUp'
  BY <1>2 DEF MediaInv, NotYetUp
<1>4. PortFromBinding'
  BY <1>2 DEF MediaInv, PortFromBinding
<1>5. EntryUntouched' /\ DownStopped'
  BY DEF MediaInv, EntryUntouched, DownStopped
<1>6. MediaReleased'
  <2>1. stray' = {}
    BY DEF MediaInv, MediaReleased
  <2>2. ASSUME NEW d \in Cid, Released(d)' PROVE port'[d] = {} /\ \A w \in Ways : mloop'[d][w] = "Off"
    <3>1. CASE d = c
      BY <1>2, <2>2, <3>1 DEF MediaInv, NotYetUp, Released
    <3>2. CASE d # c
      <4>1. Released(d)
        BY <1>2, <2>2, <3>2 DEF Released
      <4> QED
        BY <1>2, <3>2, <4>1 DEF MediaInv, MediaReleased
    <3> QED
      BY <3>1, <3>2
  <2> QED
    BY <2>1, <2>2 DEF MediaReleased
<1> QED
  BY <1>1, <1>3, <1>4, <1>5, <1>6 DEF MediaInv

\* The inductive invariant is kept by every step.
LEMMA MediaSteps == MediaInv /\ [MediaNext]_mediaVars => MediaInv'
<1> SUFFICES ASSUME MediaInv, [MediaNext]_mediaVars PROVE MediaInv'
  OBVIOUS
<1> USE DEF MediaInv, StageTo, NoStop, StopTo
<1>0. ASSUME NEW c \in Cid PROVE port = [port EXCEPT ![c] = port[c]]
  BY DEF MediaShape
<1>1. ASSUME NEW c \in Cid, NEW k \in BridgeKinds, StartsBridge(c, k) PROVE MediaInv'
  <2>1. PICK s \in {"Create", "Bind", "Transparent"} : mstage' = [mstage EXCEPT ![c] = s]
    BY <1>1 DEF StartsBridge
  <2>2. port[c] = {}
    BY <1>1 DEF StartsBridge, PortFromBinding
  <2> QED
    BY <1>0, <1>1, <2>1, <2>2, StartKeepsMedia DEF StartsBridge, StartStages
<1>2. ASSUME NEW c \in Cid, BindTry(c) PROVE MediaInv'
  <2>1. CASE \A d \in Cid : portNext \notin port[d]
    BY <1>2, <2>1, StartKeepsMedia DEF BindTry, StartStages
  <2>2. CASE ~\A d \in Cid : portNext \notin port[d]
    <3>1. PICK s \in {"Ephemeral", "Bind"} : mstage' = [mstage EXCEPT ![c] = s]
      BY <1>2, <2>2 DEF BindTry
    <3>2. port[c] = {} /\ port' = port
      BY <1>2, <2>2 DEF BindTry, PortFromBinding
    <3> QED
      BY <1>0, <1>2, <3>1, <3>2, StartKeepsMedia DEF BindTry, StartStages
  <2> QED
    BY <2>1, <2>2
<1>3. ASSUME NEW c \in Cid, BindEphemeral(c) PROVE MediaInv'
  <2>1. mstage[c] = "Ephemeral" /\ port[c] = {} /\ UNCHANGED <<calls, mloop, stopping, stray>>
    BY <1>3 DEF BindEphemeral, PortFromBinding
  <2>2. CASE mstage' = [mstage EXCEPT ![c] = "Failed"] /\ port' = port
    BY <1>0, <2>1, <2>2, StartKeepsMedia DEF StartStages
  <2>3. CASE mstage' = [mstage EXCEPT ![c] = "Rewrite"] /\ \E S : port' = [port EXCEPT ![c] = S]
    <3>1. PICK S : port' = [port EXCEPT ![c] = S]
      BY <2>3
    <3> QED
      BY <2>1, <2>3, <3>1, StartKeepsMedia DEF StartStages
  <2> QED
    BY <1>3, <2>2, <2>3 DEF BindEphemeral
<1>4. ASSUME NEW c \in Cid, RewriteSdp(c) PROVE MediaInv'
  <2>1. CASE mstage' = [mstage EXCEPT ![c] = "Create"] /\ port' = port
    BY <1>0, <1>4, <2>1, StartKeepsMedia DEF RewriteSdp, StartStages
  <2>2. CASE mstage' = [mstage EXCEPT ![c] = "Failed"] /\ port' = [port EXCEPT ![c] = {}]
    BY <1>4, <2>2, StartKeepsMedia DEF RewriteSdp, StartStages
  <2> QED
    BY <1>4, <2>1, <2>2 DEF RewriteSdp
<1>5. ASSUME NEW c \in Cid, AttachMedia(c) PROVE MediaInv'
  <2>1. MediaShape'
    BY <1>5 DEF AttachMedia, MediaShape, StartStages
  <2>2. NotYetUp' /\ PortFromBinding' /\ EntryUntouched' /\ DownStopped'
    BY <1>5 DEF AttachMedia, MediaShape, NotYetUp, PortFromBinding, EntryUntouched, DownStopped
  <2>3. MediaReleased'
    BY <1>5 DEF AttachMedia, MediaShape, MediaReleased, Released
  <2> QED
    BY <2>1, <2>2, <2>3
<1>6. ASSUME NEW c \in Cid, NEW w \in Ways, LoopEnds(c, w) PROVE MediaInv'
  <2>1. MediaShape'
    BY <1>6 DEF LoopEnds, MediaShape
  <2>2. \A d \in Cid, v \in Ways : mloop[d][v] = "Off" => mloop'[d][v] = "Off"
    BY <1>6 DEF LoopEnds, MediaShape
  <2>3. NotYetUp' /\ PortFromBinding' /\ EntryUntouched' /\ DownStopped'
    BY <1>6, <2>2 DEF LoopEnds, NotYetUp, PortFromBinding, EntryUntouched, DownStopped, Ways
  <2>4. MediaReleased'
    BY <1>6, <2>2 DEF LoopEnds, MediaReleased, Released
  <2> QED
    BY <2>1, <2>3, <2>4
<1>7. ASSUME NEW c \in Cid, NEW e \in Ends2, TerminateTakes(c, e) PROVE MediaInv'
  <2>1. MediaShape'
    BY <1>7 DEF TerminateTakes, MediaShape
  <2>2. NotYetUp' /\ PortFromBinding' /\ EntryUntouched' /\ DownStopped'
    BY <1>7 DEF TerminateTakes, MediaShape, NotYetUp, PortFromBinding, EntryUntouched, DownStopped
  <2>3. MediaReleased'
    BY <1>7 DEF TerminateTakes, MediaShape, MediaReleased, Released
  <2> QED
    BY <2>1, <2>2, <2>3
<1>8. ASSUME NEW c \in Cid, NEW e \in Ends2, StopFirst(c, e) PROVE MediaInv'
  <2>1. MediaShape'
    BY <1>8 DEF StopFirst, MediaShape, Ways
  <2>2. NotYetUp' /\ PortFromBinding' /\ EntryUntouched' /\ DownStopped'
    BY <1>8 DEF StopFirst, MediaShape, NotYetUp, PortFromBinding, EntryUntouched, DownStopped, Ways
  <2>3. MediaReleased'
    BY <1>8 DEF StopFirst, MediaShape, MediaReleased, Released, NotYetUp, Ways
  <2> QED
    BY <2>1, <2>2, <2>3
<1>9. ASSUME NEW c \in Cid, NEW e \in Ends2, StopSecond(c, e) PROVE MediaInv'
  <2>1. MediaShape'
    BY <1>9 DEF StopSecond, MediaShape, Ways
  <2>2. NotYetUp' /\ PortFromBinding' /\ EntryUntouched' /\ DownStopped'
    BY <1>9 DEF StopSecond, MediaShape, NotYetUp, PortFromBinding, EntryUntouched, DownStopped, Ways
  <2>3. MediaReleased'
    BY <1>9 DEF StopSecond, MediaShape, MediaReleased, Released, NotYetUp, DownStopped, Ways
  <2> QED
    BY <2>1, <2>2, <2>3
<1>10. ASSUME NEW x \in Digit, NEW c \in Cid, PressKey(x, c) PROVE MediaInv'
  BY <1>10 DEF PressKey, MediaShape, NotYetUp, PortFromBinding, EntryUntouched, DownStopped,
               MediaReleased, Released
<1>11. ASSUME NEW x \in Digit, NEW c \in Cid, Inject(x, c) PROVE MediaInv'
  <2>1. stray' = stray
    BY <1>11 DEF Inject, EntryUntouched
  <2> QED
    BY <1>11, <2>1 DEF Inject, MediaShape, NotYetUp, PortFromBinding, EntryUntouched, DownStopped,
                       MediaReleased, Released
<1>12. ASSUME UNCHANGED mediaVars PROVE MediaInv'
  BY <1>12 DEF mediaVars, MediaShape, NotYetUp, PortFromBinding, EntryUntouched, DownStopped,
               MediaReleased, Released
<1> QED
  BY <1>1, <1>2, <1>3, <1>4, <1>5, <1>6, <1>7, <1>8, <1>9, <1>10, <1>11, <1>12 DEF MediaNext

\* CallManager::terminate called by both ends of a call, starts that fail at any
\* step and keys pressed meanwhile: a bridge that is nobody's has no loop and no
\* port, and the NGN gets no packet of a call whose bridge was stopped.
THEOREM BridgesReleased == MediaSpec => []MediaReleased
<1>1. MediaInv => MediaReleased
  BY DEF MediaInv
<1> QED
  BY <1>1, MediaStarts, MediaSteps, PTL DEF MediaSpec

\* The attempts to bind a port are counted from none, at most one for each slot; a
\* call has one port at the most.
MediaCounts ==
    /\ mkind \in [Cid -> BridgeKinds] /\ portNext \in 0..(Slots - 1)
    /\ tries \in [Cid -> 0..Slots]
    /\ \A c \in Cid : /\ mstage[c] = "None" => tries[c] = 0
                      /\ mstage[c] = "Bind" => tries[c] < Slots
                      /\ port[c] = {} \/ \E p : port[c] = {p}

\* The counts are right at first.
LEMMA CountsStart == MediaInit => MediaCounts
BY MediaAssumption DEF MediaInit, MediaCounts, BridgeKinds

\* They stay right: a step that leaves a stage leaves it for one that says no more.
LEMMA CountsStep == MediaInv /\ MediaCounts /\ [MediaNext]_mediaVars => MediaCounts'
<1> SUFFICES ASSUME MediaInv, MediaCounts, [MediaNext]_mediaVars PROVE MediaCounts'
  OBVIOUS
<1>0. /\ Slots \in Nat /\ Slots >= 1 /\ mstage \in [Cid -> StartStages] /\ port = [c \in Cid |-> port[c]]
      /\ mkind \in [Cid -> BridgeKinds] /\ portNext \in 0..(Slots - 1) /\ tries \in [Cid -> 0..Slots]
  BY MediaAssumption DEF MediaInv, MediaShape, MediaCounts
<1>1. ASSUME NEW c \in Cid, NEW k \in BridgeKinds, StartsBridge(c, k) PROVE MediaCounts'
  <2>1. PICK s \in {"Create", "Bind", "Transparent"} : mstage' = [mstage EXCEPT ![c] = s]
    BY <1>1 DEF StartsBridge, StageTo
  <2>2. tries[c] = 0 /\ UNCHANGED <<tries, portNext, port>> /\ mkind' = [mkind EXCEPT ![c] = k]
    BY <1>1 DEF StartsBridge, MediaCounts
  <2> QED
    BY <1>0, <2>1, <2>2 DEF MediaCounts
<1>2. ASSUME NEW c \in Cid, BindTry(c) PROVE MediaCounts'
  <2>1. tries[c] \in Nat /\ tries[c] < Slots
    BY <1>0, <1>2 DEF BindTry, MediaCounts
  <2>2. (portNext + 1) % Slots \in 0..(Slots - 1)
    BY <1>0
  <2>3. tries' = [tries EXCEPT ![c] = tries[c] + 1] /\ portNext' \in 0..(Slots - 1) /\ UNCHANGED mkind
    BY <1>2, <2>2 DEF BindTry
  <2>4. PICK s \in StartStages : mstage' = [mstage EXCEPT ![c] = s] /\ s # "None"
                                 /\ (s = "Bind" => tries[c] + 1 # Slots)
    BY <1>2 DEF BindTry, StageTo, StartStages
  <2>5. UNCHANGED port \/ \E p : port' = [port EXCEPT ![c] = {p}]
    BY <1>2 DEF BindTry
  <2>6. \A d \in Cid : port'[d] = {} \/ \E p : port'[d] = {p}
    BY <1>0, <2>5 DEF MediaCounts
  <2>7. tries' \in [Cid -> 0..Slots]
    BY <1>0, <2>1, <2>3
  <2>8. \A d \in Cid : /\ mstage'[d] = "None" => tries'[d] = 0
                       /\ mstage'[d] = "Bind" => tries'[d] < Slots
    BY <1>0, <2>1, <2>3, <2>4 DEF MediaCounts
  <2> QED
    BY <1>0, <2>3, <2>6, <2>7, <2>8 DEF MediaCounts
<1>3. ASSUME NEW c \in Cid, NEW s \in StartStages \ {"None", "Bind"}, mstage' = [mstage EXCEPT ![c] = s],
             UNCHANGED <<mkind, tries, portNext>>, UNCHANGED port \/ \E S : port' = [port EXCEPT ![c] = S] /\ (S = {} \/ \E p : S = {p})
      PROVE MediaCounts'
  <2>1. \A d \in Cid : port'[d] = {} \/ \E p : port'[d] = {p}
    BY <1>0, <1>3 DEF MediaCounts
  <2> QED
    BY <1>0, <1>3, <2>1 DEF MediaCounts
<1>4. ASSUME NEW c \in Cid, BindEphemeral(c) PROVE MediaCounts'
  <2>1. CASE mstage' = [mstage EXCEPT ![c] = "Failed"] /\ UNCHANGED port
    BY <1>3, <1>4, <2>1 DEF BindEphemeral, StartStages
  <2>2. CASE mstage' = [mstage EXCEPT ![c] = "Rewrite"] /\ \E p : port' = [port EXCEPT ![c] = {p}]
    BY <1>3, <1>4, <2>2 DEF BindEphemeral, StartStages
  <2> QED
    BY <1>4, <2>1, <2>2 DEF BindEphemeral, StageTo
<1>5. ASSUME NEW c \in Cid, RewriteSdp(c) PROVE MediaCounts'
  <2>1. CASE mstage' = [mstage EXCEPT ![c] = "Create"] /\ UNCHANGED port
    BY <1>3, <1>5, <2>1 DEF RewriteSdp, StartStages
  <2>2. CASE mstage' = [mstage EXCEPT ![c] = "Failed"] /\ port' = [port EXCEPT ![c] = {}]
    BY <1>3, <1>5, <2>2 DEF RewriteSdp, StartStages
  <2> QED
    BY <1>5, <2>1, <2>2 DEF RewriteSdp, StageTo
<1>6. ASSUME NEW c \in Cid, AttachMedia(c) PROVE MediaCounts'
  BY <1>3, <1>6 DEF AttachMedia, StageTo, StartStages
<1>7. ASSUME NEW c \in Cid, NEW e \in Ends2, StopSecond(c, e) PROVE MediaCounts'
  <2>1. port' = [port EXCEPT ![c] = {}] /\ UNCHANGED <<mstage, mkind, tries, portNext>>
    BY <1>7 DEF StopSecond
  <2>2. \A d \in Cid : port'[d] = {} \/ \E p : port'[d] = {p}
    BY <1>0, <2>1 DEF MediaCounts
  <2> QED
    BY <2>1, <2>2 DEF MediaCounts
<1>8. CASE UNCHANGED <<mstage, mkind, tries, portNext, port>>
  BY <1>8 DEF MediaCounts
<1>9. ASSUME NEW c \in Cid, NEW w, NEW e, NEW x,
             LoopEnds(c, w) \/ TerminateTakes(c, e) \/ StopFirst(c, e) \/ PressKey(x, c) \/ Inject(x, c)
      PROVE  MediaCounts'
  BY <1>8, <1>9 DEF LoopEnds, TerminateTakes, StopFirst, PressKey, Inject
<1>10. CASE UNCHANGED mediaVars
  BY <1>8, <1>10 DEF mediaVars
<1> QED
  BY <1>1, <1>2, <1>4, <1>5, <1>6, <1>7, <1>9, <1>10, Zenon DEF MediaNext

\* Both together are the types of the bridges.
LEMMA MediaTyped == MediaInv /\ MediaCounts => MediaTypeOK
<1> SUFFICES ASSUME MediaInv, MediaCounts PROVE MediaTypeOK
  OBVIOUS
<1>1. \A c \in Cid : IsFiniteSet(port[c]) /\ Cardinality(port[c]) <= 1
  <2> TAKE c \in Cid
  <2>1. CASE port[c] = {}
    BY <2>1, FS_EmptySet
  <2>2. CASE \E p : port[c] = {p}
    <3>1. PICK p : port[c] = {p}
      BY <2>2
    <3>2. IsFiniteSet({p}) /\ Cardinality({p}) = 1
      BY FS_Singleton, Zenon
    <3> QED
      BY <3>1, <3>2
  <2> QED
    BY <2>1, <2>2 DEF MediaCounts
<1> QED
  BY <1>1 DEF MediaInv, MediaShape, MediaCounts, MediaReleased, MediaTypeOK

\* A bridge is at a stage of its start, a call has one port of the range or beyond it,
\* and a start tries every slot once: for every number of calls and slots
\* (bind_ngn_rtp_socket of call/orchestrator.rs, call/bridge.rs).
THEOREM BridgesTyped == MediaSpec => []MediaTypeOK
BY MediaStarts, MediaSteps, CountsStart, CountsStep, MediaTyped, PTL DEF MediaSpec
=============================================================================

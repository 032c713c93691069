--------------------------- MODULE ServicesProofs ---------------------------
(***************************************************************************)
(* Proofs about the services that run as tasks of their own: the calls of  *)
(* the browsers, requests inside a call, the registration with the NGN,    *)
(* the extensions' registrar, calls between extensions and recordings.     *)
(* Each has an inductive invariant of its own, and a step of one leaves    *)
(* the variables of the others alone.                                      *)
(***************************************************************************)
EXTENDS MCServices, FiniteSetTheorems, TLAPS

-----------------------------------------------------------------------------
(* Calls of the browsers                                                   *)

Before2xx == {"None", "Inviting", "RetryWait", "Retrying"}

\* The NGN's side comes with the 2xx and does not come back.
FarFollows ==
    \A s \in Caller :
        /\ task[s] \in Before2xx => far[s] = "None" /\ ngnBye[s] = "None"
        /\ ngnBye[s] # "None" \/ closing[s] = "Release" => far[s] # "Up"

\* Whoever takes the entry ends the call alone, once the task is over.
OneTakes ==
    \A s \in Caller :
        /\ s \in entry \/ closing[s] # "None" \/ ngnBye[s] = "Release" => task[s] = "Done"
        /\ s \in entry => closing[s] = "None" /\ ngnBye[s] # "Release"
        /\ closing[s] # "None" => ngnBye[s] # "Release"

\* The receive loop does one thing at a time.
LoopIsBusy ==
    \A s \in Caller :
        /\ closing[s] # "None" => recvLoop[s] \in {"ByeClose", "ExitClose"}
        /\ reinvite[s] # "None" => recvLoop[s] = "Busy"

\* Only an accepted re-INVITE whose answer is not yet noted changes the NGN's hold.
HoldFollows ==
    \A s \in Caller :
        /\ reinvite[s] # "Commit" /\ s \notin unsure => hold[s] = farHold[s] /\ offered[s] = farHold[s]
        /\ reinvite[s] = "Commit" => farHold[s] = asked[s]

Live == {s \in Caller : \/ task[s] = "Insert" \/ s \in entry
                        \/ closing[s] # "None" \/ ngnBye[s] = "Release"}

PwaInv == PwaTypeOK /\ FarFollows /\ OneTakes /\ LoopIsBusy /\ HoldFollows /\ PwaCallFindable
          /\ inCalls = Cardinality(Live)

-----------------------------------------------------------------------------
(* Requests inside a call                                                  *)

\* Which dialog a task uses is fixed by what it is for.
RightDialog ==
    \A t \in Chore :
        /\ chore[t].stage \in {"Lock", "NgnSend", "NgnWait"} => t \in {"ExtRe", "ExtBye", "Refer"}
        /\ chore[t].stage \in {"Build", "ExtSend", "ExtWait"} => t \in {"NgnRe", "NgnBye", "Refer"}

\* The lock is held from the building of a request to its response.
LockHeld ==
    /\ \A t \in Chore : chore[t].stage \in {"NgnSend", "NgnWait"} => locked = {t}
    /\ \A t \in locked : chore[t].stage \in {"NgnSend", "NgnWait"}

\* A request that was built is the next one the NGN sees, with nothing before it
\* left to acknowledge.
NextIsNew ==
    /\ \A t \in Chore : chore[t].stage = "NgnSend" =>
          ngnUnacked = {} /\ chore[t].cseq \in 2..(ngnCSeq - 1) /\ chore[t].cseq > ngnSeen
    /\ \A t \in Chore : chore[t].stage = "NgnWait" => ngnUnacked \subseteq {chore[t].cseq}
    /\ locked = {} => ngnUnacked = {}

MidInv == MidTypeOK /\ RightDialog /\ LockHeld /\ NextIsNew /\ ~disorder

-----------------------------------------------------------------------------
(* Registration                                                            *)

\* While the task sleeps it wakes before the binding is over.
WakesInTime == regPhase = "Sleep" => regFlag /\ regTimer < regLease

-----------------------------------------------------------------------------
(* Calls between extensions                                                *)

\* What a call's record says: who has been told what at each stage, and at the
\* end what Whole says.
CallerTold(i) ==
    CASE i.stage \in {"Idle", "Prepare"} -> i.caller = "None"
      [] i.stage = "Offer" -> i.caller = "None" /\ i.from = "Pwa"
      [] i.stage = "Answer" -> i.caller = "None" /\ i.from = "Sip"
      [] i.stage \in {"Attach", "Enter"} -> i.caller = "Up"
      [] i.stage = "Done" -> TRUE
      [] OTHER -> i.caller = IF i.from = "Pwa" THEN "Up" ELSE "None"

CalleeTold(i) ==
    CASE i.stage \in {"Await", "Accept"} -> i.callee = "Ringing"
      [] i.stage \in {"Endpoint", "Answer", "Attach", "Enter"} -> i.callee = "Up"
      [] i.stage = "Done" -> TRUE
      [] OTHER -> i.callee = "None"

CallOK(i, entered) ==
    /\ CallerTold(i) /\ CalleeTold(i)
    /\ IF i.stage # "Done" THEN ~entered /\ (i.bridge <=> i.stage = "Enter")
       ELSE IF entered
            THEN i.bridge /\ i.caller \in {"Up", "Gone"} /\ i.callee \in {"Up", "Gone"}
            ELSE /\ ~i.bridge /\ i.callee # "Up"
                 /\ i.caller = "Up" => i.from = "Sip" /\ i.callee = "Released"

InternalInv ==
    InternalTypeOK /\ \A c \in InternalId : CallOK(icall[c], c \in internal)

-----------------------------------------------------------------------------
(* Recordings                                                              *)

RecRecords == [kind : {"Active", "Voicemail"}, stage : RecStages, count : 0..MaxSamples]
FileRecords == [wav : {"None", "Open", "Whole"}, samples : 0..MaxSamples,
                meta : {"None", "Empty", "Full"}, duration : 0..MaxSamples, txt : BOOLEAN]

\* What RecInv says of one recording: its task, its files, whether somebody reads
\* it, and where its deletion stands.
FilesOK(t, d, read, del, gone) ==
    /\ d.samples = t.count
    /\ t.stage \in {"None", "Create"} => t.count = 0
    /\ t.stage = "Write" => t.count < MaxSamples
    /\ d.meta = "Full" \/ read => t.stage \in Over /\ d.wav # "Open"
    /\ t.stage \in {"Transcribe", "Meta", "WriteMeta", "Done"} => d.wav # "Open"
    /\ d.meta = "Full" => d.duration = d.samples
    /\ ~gone => /\ del = "Idle"
                /\ t.stage \in {"Wait", "Write", "Finalize"} => d.wav = "Open"
                /\ t.stage \in {"Transcribe", "Meta", "WriteMeta", "Done"} \/ d.meta = "Full"
                      => d.wav = "Whole"

OneActive == \A q, r \in active : rec[q].kind = "Active" /\ rec[r].kind = "Active" => q = r

RecTypes ==
    /\ rec \in [Rec -> RecRecords] /\ active \subseteq Rec
    /\ stopper \in [Rec -> {"Idle", "Notify", "Join", "Gone"}]
    /\ disk \in [Rec -> FileRecords]
    /\ delete \in [Rec -> {"Idle", "Wav", "Txt"}] /\ deleted \subseteq Rec
    /\ reader \subseteq Rec /\ torn = {} /\ crashes \in 0..Crashes

RecInv ==
    /\ RecTypes /\ OneActive
    /\ \A r \in Rec : FilesOK(rec[r], disk[r], r \in reader, delete[r], r \in deleted)

-----------------------------------------------------------------------------
(* The registration with the NGN                                           *)

\* The task wakes strictly before the granted time is over.
LEMMA RefreshEarly ==
    ASSUME NEW e \in Nat \ {0}
    PROVE  Refresh(e) \in Nat /\ Refresh(e) < e
  BY DEF Refresh

RegInv == RegTypeOK /\ WakesInTime

\* Every answer of the NGN, every failure and every tick keep the invariant.
LEMMA RegStepInv == RegInv /\ [RegNext]_regVars => RegInv'
<1> SUFFICES ASSUME RegInv, [RegNext]_regVars PROVE RegInv'
  OBVIOUS
<1> USE RegAssumption DEF RegInv, RegTypeOK, WakesInTime
<1>1. ASSUME Accepted PROVE RegInv'
  <2>1. PICK e \in Grants : regTimer' = Refresh(e) /\ regLease' = e
    BY <1>1 DEF Accepted
  <2>2. Refresh(e) \in Nat /\ Refresh(e) < e /\ e \in Nat
    BY RefreshEarly
  <2>3. QED
    BY <1>1, <2>1, <2>2 DEF Accepted
<1>2. ASSUME Failed PROVE RegInv'
  BY <1>2 DEF Failed
<1>3. CASE PlainAnswered
  <2>1. ASSUME regPhase' = "Digest", UNCHANGED <<regFlag, regTimer, regLease, regRoute, regGood>>
        PROVE  RegInv'
    BY <2>1
  <2>2. QED
    BY <1>1, <1>2, <1>3, <2>1 DEF PlainAnswered
<1>4. CASE DigestAnswered
  BY <1>1, <1>2, <1>4 DEF DigestAnswered
<1>5. CASE NextRegister
  BY <1>5 DEF NextRegister
<1>6. CASE RegTick
  BY <1>6 DEF RegTick, Less
<1>7. CASE NgnRecovers
  BY <1>7 DEF NgnRecovers
<1>8. CASE UNCHANGED regVars
  BY <1>8 DEF regVars
<1>9. QED
  BY <1>3, <1>4, <1>5, <1>6, <1>7, <1>8 DEF RegNext, RegTask

-----------------------------------------------------------------------------
(* The extensions' registrar                                               *)

\* A snapshot counts at most every extension.
LEMMA SnapshotSize ==
    ASSUME Bound \subseteq Aor
    PROVE  Cardinality(LiveBindings) \in 0..Cardinality(Aor)
<1>1. LiveBindings \in SUBSET Aor
  BY DEF LiveBindings
<1>2. IsFiniteSet(LiveBindings) /\ Cardinality(LiveBindings) <= Cardinality(Aor)
  BY <1>1, UasAssumption, FS_Subset
<1>3. Cardinality(LiveBindings) \in Nat /\ Cardinality(Aor) \in Nat
  BY <1>2, UasAssumption, FS_CardinalityType
<1>4. QED
  BY <1>2, <1>3

\* The bindings part of UasTypeOK.
BindingsOK ==
    /\ Bound \subseteq Aor /\ \A a \in Bound : bindings[a] \in 0..MaxExpires
    /\ viaWeb \subseteq Bound

\* A REGISTER or a browser's registration leaves well-typed bindings.
LEMMA BindingKept ==
    ASSUME BindingsOK, NEW a \in Aor, NEW n \in 0..MaxExpires, NEW web,
           RegisterBinding(a, n, web)
    PROVE  BindingsOK'
<1>1. CASE n = 0
  <2>1. /\ bindings' = [b \in DOMAIN bindings \ {a} |-> bindings[b]]
        /\ viaWeb' = viaWeb \ {a}
    BY <1>1 DEF RegisterBinding, Without, Bound
  <2>2. DOMAIN bindings' = DOMAIN bindings \ {a}
    BY <2>1
  <2>3. QED
    BY <2>1, <2>2 DEF BindingsOK, Bound
<1>2. CASE n > 0
  <2>1. /\ bindings' = [b \in DOMAIN bindings \cup {a} |-> IF b = a THEN n ELSE bindings[b]]
        /\ viaWeb' \subseteq viaWeb \cup {a}
    BY <1>2 DEF RegisterBinding, With, Bound
  <2>2. DOMAIN bindings' = DOMAIN bindings \cup {a}
    BY <2>1
  <2>3. QED
    BY <2>1, <2>2 DEF BindingsOK, Bound
<1>3. QED
  BY <1>1, <1>2, UasAssumption

\* The registrar's tables stay well typed, and its counts within the number of
\* extensions.
LEMMA UasStepInv == UasTypeOK /\ [UasNext]_uasVars => UasTypeOK'
<1> SUFFICES ASSUME UasTypeOK, [UasNext]_uasVars PROVE UasTypeOK'
  OBVIOUS
<1> USE UasAssumption
<1>0. BindingsOK
  BY DEF UasTypeOK, BindingsOK
<1>1. ASSUME NEW a \in Aor, AcceptRegister(a) PROVE UasTypeOK'
  <2>1. PICK n \in Asked : RegisterBinding(a, Minimum(n, MaxExpires), FALSE)
                           /\ uasAor' = IF n = 0 THEN a ELSE None
    BY <1>1 DEF AcceptRegister
  <2>2. Minimum(n, MaxExpires) \in 0..MaxExpires
    BY DEF Minimum
  <2>3. BindingsOK'
    BY <1>0, <2>1, <2>2, BindingKept
  <2>4. QED
    BY <1>1, <2>1, <2>3 DEF AcceptRegister, Counted, UasTypeOK, BindingsOK
<1>2. ASSUME NEW a \in Aor, WebRegister(a) PROVE UasTypeOK'
  <2>1. PICK n \in {0, MaxExpires} : RegisterBinding(a, n, TRUE)
    BY <1>2 DEF WebRegister
  <2>2. BindingsOK'
    <3>1. n \in 0..MaxExpires
      OBVIOUS
    <3>2. QED
      BY <1>0, <2>1, <3>1, BindingKept
  <2>3. QED
    BY <1>2, <2>2 DEF WebRegister, Counted, UasTypeOK, BindingsOK
<1>3. CASE RegisterSnapshot
  BY <1>3, SnapshotSize DEF RegisterSnapshot, UasTypeOK, Bound
<1>4. CASE RegisterDone
  BY <1>4, FS_CardinalityType DEF RegisterDone, UasTypeOK, Bound
<1>5. CASE PurgeExpired
  <2>1. bindings' = [b \in LiveBindings |-> bindings[b]] /\ DOMAIN bindings' = LiveBindings
    BY <1>5 DEF PurgeExpired, Without, Bound, LiveBindings
  <2>2. BindingsOK'
    BY <1>0, <1>5, <2>1 DEF PurgeExpired, BindingsOK, Bound, LiveBindings
  <2>3. purged' \subseteq Aor
    BY <1>0, <1>5 DEF PurgeExpired, BindingsOK
  <2>4. QED
    BY <1>5, <2>2, <2>3 DEF PurgeExpired, UasTypeOK, BindingsOK
<1>6. CASE PurgeTells
  BY <1>6 DEF PurgeTells, UasTypeOK, Bound
<1>7. CASE PurgeSnapshot
  BY <1>7, SnapshotSize DEF PurgeSnapshot, UasTypeOK, Bound
<1>8. CASE PurgeSets
  BY <1>8, FS_CardinalityType DEF PurgeSets, UasTypeOK, Bound
<1>9. CASE UasTick
  <2>1. DOMAIN bindings' = DOMAIN bindings
    BY <1>9 DEF UasTick, Bound
  <2>2. BindingsOK'
    BY <1>0, <1>9, <2>1 DEF UasTick, BindingsOK, Bound
  <2>3. QED
    BY <1>9, <2>2 DEF UasTick, UasTypeOK, BindingsOK
<1>10. CASE UNCHANGED uasVars
  BY <1>10 DEF uasVars, UasTypeOK, Bound
<1>11. QED
  BY <1>1, <1>2, <1>3, <1>4, <1>5, <1>6, <1>7, <1>8, <1>9, <1>10
     DEF UasNext, RegisterTask, PurgeTask

-----------------------------------------------------------------------------
(* Calls between extensions                                                *)

Records == [from : Kinds, to : Kinds, stage : InternalStages, caller : PartyStates,
            callee : PartyStates, waiter : {"None", "Open", "Sdp", "Decline", "Cancelled"},
            bridge : BOOLEAN]

\* A step that changes the record of one call, and no entry,
LEMMA BecomesKeeps ==
    ASSUME InternalInv, NEW c \in InternalId, NEW i, Becomes(c, i), i \in Records,
           CallOK(i, c \in internal)
    PROVE  InternalInv'
<1>1. internal' = internal /\ icall' \in [InternalId -> Records]
  BY DEF InternalInv, InternalTypeOK, Becomes, Records
<1>2. \A d \in InternalId : icall'[d] = IF d = c THEN i ELSE icall[d]
  BY DEF InternalInv, InternalTypeOK, Becomes
<1>3. QED
  BY <1>1, <1>2 DEF InternalInv, InternalTypeOK, Records

\* or only its stage.
LEMMA StageKeeps ==
    ASSUME InternalInv, NEW c \in InternalId, NEW s \in InternalStages, ToStage(c, s),
           CallOK([icall[c] EXCEPT !.stage = s], c \in internal)
    PROVE  InternalInv'
<1>1. icall[c] \in Records
  BY DEF InternalInv, InternalTypeOK, Records
<1>2. [icall[c] EXCEPT !.stage = s] \in Records
  BY <1>1 DEF Records
<1>3. Becomes(c, [icall[c] EXCEPT !.stage = s])
  BY DEF ToStage, Becomes
<1>4. QED
  BY <1>2, <1>3, BecomesKeeps

\* A call that fails leaves nobody in half a call, unless it is a phone that has
\* had its 200, and then the callee is released.
LEMMA FailKeeps ==
    ASSUME InternalInv, NEW c \in InternalId, NEW p \in {"None", "Refused", "Released"},
           FailWith(c, p), icall[c].stage \notin {"Idle", "Enter", "Done"},
           icall[c].caller = "Up" /\ icall[c].from = "Sip" => p = "Released"
    PROVE  InternalInv'
<1> DEFINE i == [icall[c] EXCEPT !.stage = "Done", !.callee = p,
                    !.caller = IF @ # "Up" THEN "Refused"
                               ELSE IF icall[c].from = "Pwa" THEN "Released" ELSE "Up"]
<1>1. icall[c] \in Records
  BY DEF InternalInv, InternalTypeOK, Records
<1>2. i \in Records
  BY <1>1 DEF Records, InternalStages, PartyStates
<1>3. icall[c].bridge = FALSE /\ c \notin internal
  BY <1>1 DEF InternalInv, CallOK, Records
<1>4. i.stage = "Done" /\ i.callee = p /\ i.bridge = FALSE /\ i.from = icall[c].from
      /\ i.caller = IF icall[c].caller # "Up" THEN "Refused"
                    ELSE IF icall[c].from = "Pwa" THEN "Released" ELSE "Up"
  BY <1>1, <1>3 DEF Records
<1>5. icall[c].from \in {"Pwa", "Sip"}
  BY <1>1 DEF Records, Kinds
<1>6. Becomes(c, i)
  BY DEF FailWith
<1> HIDE DEF i
<1>7. CallOK(i, c \in internal)
  BY <1>3, <1>4, <1>5 DEF CallOK, CallerTold, CalleeTold
<1>8. QED
  BY <1>2, <1>6, <1>7, BecomesKeeps

\* The callee rings,
LEMMA RungKeeps ==
    ASSUME InternalInv, NEW c \in InternalId, Rung(c), icall[c].stage = "Push"
    PROVE  InternalInv'
<1> DEFINE i == [icall[c] EXCEPT !.stage = "Await", !.callee = "Ringing"]
<1>1. icall[c] \in Records /\ CallOK(icall[c], c \in internal)
  BY DEF InternalInv, InternalTypeOK, Records
<1>2. i \in Records
  BY <1>1 DEF Records, InternalStages, PartyStates
<1>3. i.stage = "Await" /\ i.callee = "Ringing" /\ i.bridge = icall[c].bridge
      /\ i.from = icall[c].from /\ i.caller = icall[c].caller
  BY <1>1 DEF Records
<1>4. Becomes(c, i)
  BY DEF Rung
<1> HIDE DEF i
<1>5. CallOK(i, c \in internal)
  BY <1>1, <1>3 DEF CallOK, CallerTold, CalleeTold
<1>6. QED
  BY <1>2, <1>4, <1>5, BecomesKeeps

\* or is given up, without having answered.
LEMMA AbandonKeeps ==
    ASSUME InternalInv, NEW c \in InternalId, NEW p \in PartyStates, AbandonsCallee(c, p),
           icall[c].stage \notin {"Enter", "Done"}, p # "Up"
    PROVE  InternalInv'
<1> DEFINE i == [icall[c] EXCEPT !.stage = "Done", !.waiter = "Cancelled", !.callee = p,
                    !.caller = IF icall[c].from = "Pwa" THEN "Released" ELSE "Refused"]
<1>1. icall[c] \in Records /\ CallOK(icall[c], c \in internal)
  BY DEF InternalInv, InternalTypeOK, Records
<1>2. i \in Records
  BY <1>1 DEF Records, InternalStages, PartyStates
<1>3. i.stage = "Done" /\ i.callee = p /\ i.bridge = icall[c].bridge /\ i.caller # "Up"
  BY <1>1 DEF Records
<1>4. Becomes(c, i)
  BY DEF AbandonsCallee
<1> HIDE DEF i
<1>5. CallOK(i, c \in internal)
  BY <1>1, <1>3 DEF CallOK, CallerTold, CalleeTold
<1>6. QED
  BY <1>2, <1>4, <1>5, BecomesKeeps

\* Everything the dispatch functions, the callees and the parties do.
LEMMA InternalStepInv == InternalInv /\ [InternalNext]_internalVars => InternalInv'
<1> SUFFICES ASSUME InternalInv, [InternalNext]_internalVars PROVE InternalInv'
  OBVIOUS
<1>0. \A c \in InternalId : icall[c] \in Records /\ CallOK(icall[c], c \in internal)
  BY DEF InternalInv, InternalTypeOK, Records
<1>entered. \A c \in InternalId : c \in internal => icall[c].stage = "Done"
  BY <1>0 DEF CallOK
<1> USE DEF InternalStages
<1>1. ASSUME NEW c \in InternalId, NEW t \in Kinds, DispatchPwa(c, t) PROVE InternalInv'
  <2>1. icall[c] \in Records /\ icall[c].from \in {"Sip", "Pwa"} /\ c \notin internal
    BY <1>1, <1>0, <1>entered DEF Records, Kinds, At, Call, DispatchPwa
  <2>2. icall[c].stage = "Idle" /\ icall[c].callee = "None" /\ icall[c].bridge = FALSE
        /\ icall[c].caller = "None"
    BY <1>1, <1>0, <2>1 DEF At, Call, DispatchPwa, Records, InternalStages, PartyStates, Kinds, CallOK, CallerTold, CalleeTold
  <2>3. ASSUME Becomes(c, [icall[c] EXCEPT !.from = "Pwa", !.to = t, !.stage = "Offer", !.caller = @]) PROVE InternalInv'
    <3> DEFINE i == [icall[c] EXCEPT !.from = "Pwa", !.to = t, !.stage = "Offer", !.caller = @]
    <3>1. i \in Records
      BY <2>1, <2>2 DEF Records, InternalStages, PartyStates, Kinds
    <3>2. CallOK(i, c \in internal)
      BY <2>1, <2>2 DEF Records, InternalStages, PartyStates, Kinds, CallOK, CallerTold, CalleeTold
    <3> HIDE DEF i
    <3>3. Becomes(c, i)
      BY <2>3 DEF i
    <3>4. QED
      BY <3>1, <3>2, <3>3, BecomesKeeps
  <2>4. ASSUME Becomes(c, [icall[c] EXCEPT !.from = "Pwa", !.to = t, !.stage = "Done", !.caller = "Refused"]) PROVE InternalInv'
    <3> DEFINE i == [icall[c] EXCEPT !.from = "Pwa", !.to = t, !.stage = "Done", !.caller = "Refused"]
    <3>1. i \in Records
      BY <2>1, <2>2 DEF Records, InternalStages, PartyStates, Kinds
    <3>2. CallOK(i, c \in internal)
      BY <2>1, <2>2 DEF Records, InternalStages, PartyStates, Kinds, CallOK, CallerTold, CalleeTold
    <3> HIDE DEF i
    <3>3. Becomes(c, i)
      BY <2>4 DEF i
    <3>4. QED
      BY <3>1, <3>2, <3>3, BecomesKeeps
  <2>5. QED
    BY <1>1, <2>1, <2>2, <2>3, <2>4 DEF DispatchPwa
<1>2. ASSUME NEW c \in InternalId, NEW t \in Kinds, DispatchSip(c, t) PROVE InternalInv'
  <2>1. icall[c] \in Records /\ icall[c].from \in {"Sip", "Pwa"} /\ c \notin internal
    BY <1>2, <1>0, <1>entered DEF Records, Kinds, At, Call, DispatchSip
  <2>2. icall[c].stage = "Idle" /\ icall[c].callee = "None" /\ icall[c].bridge = FALSE
        /\ icall[c].caller = "None"
    BY <1>2, <1>0, <2>1 DEF At, Call, DispatchSip, Records, InternalStages, PartyStates, Kinds, CallOK, CallerTold, CalleeTold
  <2>3. ASSUME Becomes(c, [icall[c] EXCEPT !.from = "Sip", !.to = t, !.stage = "CreateOffer"]) PROVE InternalInv'
    <3> DEFINE i == [icall[c] EXCEPT !.from = "Sip", !.to = t, !.stage = "CreateOffer"]
    <3>1. i \in Records
      BY <2>1, <2>2 DEF Records, InternalStages, PartyStates, Kinds
    <3>2. CallOK(i, c \in internal)
      BY <2>1, <2>2 DEF Records, InternalStages, PartyStates, Kinds, CallOK, CallerTold, CalleeTold
    <3> HIDE DEF i
    <3>3. Becomes(c, i)
      BY <2>3 DEF i
    <3>4. QED
      BY <3>1, <3>2, <3>3, BecomesKeeps
  <2>4. ASSUME Becomes(c, [icall[c] EXCEPT !.from = "Sip", !.to = t, !.stage = "Prepare"]) PROVE InternalInv'
    <3> DEFINE i == [icall[c] EXCEPT !.from = "Sip", !.to = t, !.stage = "Prepare"]
    <3>1. i \in Records
      BY <2>1, <2>2 DEF Records, InternalStages, PartyStates, Kinds
    <3>2. CallOK(i, c \in internal)
      BY <2>1, <2>2 DEF Records, InternalStages, PartyStates, Kinds, CallOK, CallerTold, CalleeTold
    <3> HIDE DEF i
    <3>3. Becomes(c, i)
      BY <2>4 DEF i
    <3>4. QED
      BY <3>1, <3>2, <3>3, BecomesKeeps
  <2>5. ASSUME Becomes(c, [icall[c] EXCEPT !.from = "Sip", !.to = t, !.stage = "Done", !.caller = "Refused"]) PROVE InternalInv'
    <3> DEFINE i == [icall[c] EXCEPT !.from = "Sip", !.to = t, !.stage = "Done", !.caller = "Refused"]
    <3>1. i \in Records
      BY <2>1, <2>2 DEF Records, InternalStages, PartyStates, Kinds
    <3>2. CallOK(i, c \in internal)
      BY <2>1, <2>2 DEF Records, InternalStages, PartyStates, Kinds, CallOK, CallerTold, CalleeTold
    <3> HIDE DEF i
    <3>3. Becomes(c, i)
      BY <2>5 DEF i
    <3>4. QED
      BY <3>1, <3>2, <3>3, BecomesKeeps
  <2>6. QED
    BY <1>2, <2>1, <2>2, <2>3, <2>4, <2>5 DEF DispatchSip
<1>3. ASSUME NEW c \in InternalId, CallerOffer(c) PROVE InternalInv'
  <2>1. icall[c] \in Records /\ icall[c].from \in {"Sip", "Pwa"} /\ c \notin internal
    BY <1>3, <1>0, <1>entered DEF Records, Kinds, At, Call, CallerOffer
  <2>2. icall[c].stage = "Offer" /\ icall[c].callee = "None" /\ icall[c].bridge = FALSE
        /\ icall[c].caller = "None" /\ icall[c].from = "Pwa"
    BY <1>3, <1>0, <2>1 DEF At, Call, CallerOffer, Records, InternalStages, PartyStates, Kinds, CallOK, CallerTold, CalleeTold
  <2>3. ASSUME Becomes(c, [icall[c] EXCEPT !.stage = "CreateOffer", !.caller = "Up"]) PROVE InternalInv'
    <3> DEFINE i == [icall[c] EXCEPT !.stage = "CreateOffer", !.caller = "Up"]
    <3>1. i \in Records
      BY <2>1, <2>2 DEF Records, InternalStages, PartyStates, Kinds
    <3>2. CallOK(i, c \in internal)
      BY <2>1, <2>2 DEF Records, InternalStages, PartyStates, Kinds, CallOK, CallerTold, CalleeTold
    <3> HIDE DEF i
    <3>3. Becomes(c, i)
      BY <2>3 DEF i
    <3>4. QED
      BY <3>1, <3>2, <3>3, BecomesKeeps
  <2>4. ASSUME Becomes(c, [icall[c] EXCEPT !.stage = "Prepare"]) PROVE InternalInv'
    <3> DEFINE i == [icall[c] EXCEPT !.stage = "Prepare"]
    <3>1. i \in Records
      BY <2>1, <2>2 DEF Records, InternalStages, PartyStates, Kinds
    <3>2. CallOK(i, c \in internal)
      BY <2>1, <2>2 DEF Records, InternalStages, PartyStates, Kinds, CallOK, CallerTold, CalleeTold
    <3> HIDE DEF i
    <3>3. Becomes(c, i)
      BY <2>4 DEF i
    <3>4. QED
      BY <3>1, <3>2, <3>3, BecomesKeeps
  <2>5. ASSUME FailWith(c, "None") PROVE InternalInv'
    BY <2>1, <2>2, <2>5, FailKeeps
  <2>6. QED
    BY <1>3, <2>1, <2>2, <2>3, <2>4, <2>5 DEF CallerOffer
<1>4. ASSUME NEW c \in InternalId, PreparePwaToSip(c) PROVE InternalInv'
  <2>1. icall[c] \in Records /\ icall[c].from \in {"Sip", "Pwa"} /\ c \notin internal
    BY <1>4, <1>0, <1>entered DEF Records, Kinds, At, Call, PreparePwaToSip
  <2>2. icall[c].stage = "Prepare" /\ icall[c].callee = "None" /\ icall[c].bridge = FALSE
        /\ icall[c].caller = "None" /\ icall[c].from = "Pwa"
    BY <1>4, <1>0, <2>1 DEF At, Call, PreparePwaToSip, Records, InternalStages, PartyStates, Kinds, CallOK, CallerTold, CalleeTold
  <2>3. ASSUME Becomes(c, [icall[c] EXCEPT !.stage = "Invite", !.caller = "Up"]) PROVE InternalInv'
    <3> DEFINE i == [icall[c] EXCEPT !.stage = "Invite", !.caller = "Up"]
    <3>1. i \in Records
      BY <2>1, <2>2 DEF Records, InternalStages, PartyStates, Kinds
    <3>2. CallOK(i, c \in internal)
      BY <2>1, <2>2 DEF Records, InternalStages, PartyStates, Kinds, CallOK, CallerTold, CalleeTold
    <3> HIDE DEF i
    <3>3. Becomes(c, i)
      BY <2>3 DEF i
    <3>4. QED
      BY <3>1, <3>2, <3>3, BecomesKeeps
  <2>4. ASSUME FailWith(c, "None") PROVE InternalInv'
    BY <2>1, <2>2, <2>4, FailKeeps
  <2>5. QED
    BY <1>4, <2>1, <2>2, <2>3, <2>4 DEF PreparePwaToSip
<1>5. ASSUME NEW c \in InternalId, PrepareSipToSip(c) PROVE InternalInv'
  <2>1. icall[c] \in Records /\ icall[c].from \in {"Sip", "Pwa"} /\ c \notin internal
    BY <1>5, <1>0, <1>entered DEF Records, Kinds, At, Call, PrepareSipToSip
  <2>2. icall[c].stage = "Prepare" /\ icall[c].callee = "None" /\ icall[c].bridge = FALSE
        /\ icall[c].caller = "None" /\ icall[c].from = "Sip"
    BY <1>5, <1>0, <2>1 DEF At, Call, PrepareSipToSip, Records, InternalStages, PartyStates, Kinds, CallOK, CallerTold, CalleeTold
  <2>3. ASSUME ToStage(c, "Invite") PROVE InternalInv'
    <3>1. CallOK([icall[c] EXCEPT !.stage = "Invite"], c \in internal)
      BY <2>1, <2>2 DEF Records, InternalStages, PartyStates, Kinds, CallOK, CallerTold, CalleeTold
    <3>2. QED
      BY <2>3, <3>1, StageKeeps
  <2>4. ASSUME FailWith(c, "None") PROVE InternalInv'
    BY <2>1, <2>2, <2>4, FailKeeps
  <2>5. QED
    BY <1>5, <2>1, <2>2, <2>3, <2>4 DEF PrepareSipToSip
<1>6. ASSUME NEW c \in InternalId, CreateCalleeOffer(c) PROVE InternalInv'
  <2>1. icall[c] \in Records /\ icall[c].from \in {"Sip", "Pwa"} /\ c \notin internal
    BY <1>6, <1>0, <1>entered DEF Records, Kinds, At, Call, CreateCalleeOffer
  <2>2. icall[c].stage = "CreateOffer" /\ icall[c].callee = "None" /\ icall[c].bridge = FALSE
        /\ icall[c].caller = (IF icall[c].from = "Pwa" THEN "Up" ELSE "None")
    BY <1>6, <1>0, <2>1 DEF At, Call, CreateCalleeOffer, Records, InternalStages, PartyStates, Kinds, CallOK, CallerTold, CalleeTold
  <2>3. ASSUME ToStage(c, "Register") PROVE InternalInv'
    <3>1. CallOK([icall[c] EXCEPT !.stage = "Register"], c \in internal)
      BY <2>1, <2>2 DEF Records, InternalStages, PartyStates, Kinds, CallOK, CallerTold, CalleeTold
    <3>2. QED
      BY <2>3, <3>1, StageKeeps
  <2>4. ASSUME FailWith(c, "None") PROVE InternalInv'
    BY <2>1, <2>2, <2>4, FailKeeps
  <2>5. QED
    BY <1>6, <2>1, <2>2, <2>3, <2>4 DEF CreateCalleeOffer
<1>7. ASSUME NEW c \in InternalId, RegisterCallee(c) PROVE InternalInv'
  <2>1. icall[c] \in Records /\ icall[c].from \in {"Sip", "Pwa"} /\ c \notin internal
    BY <1>7, <1>0, <1>entered DEF Records, Kinds, At, Call, RegisterCallee
  <2>2. icall[c].stage = "Register" /\ icall[c].callee = "None" /\ icall[c].bridge = FALSE
        /\ icall[c].caller = (IF icall[c].from = "Pwa" THEN "Up" ELSE "None")
    BY <1>7, <1>0, <2>1 DEF At, Call, RegisterCallee, Records, InternalStages, PartyStates, Kinds, CallOK, CallerTold, CalleeTold
  <2>3. ASSUME Becomes(c, [icall[c] EXCEPT !.stage = "Push", !.waiter = "Open"]) PROVE InternalInv'
    <3> DEFINE i == [icall[c] EXCEPT !.stage = "Push", !.waiter = "Open"]
    <3>1. i \in Records
      BY <2>1, <2>2 DEF Records, InternalStages, PartyStates, Kinds
    <3>2. CallOK(i, c \in internal)
      BY <2>1, <2>2 DEF Records, InternalStages, PartyStates, Kinds, CallOK, CallerTold, CalleeTold
    <3> HIDE DEF i
    <3>3. Becomes(c, i)
      BY <2>3 DEF i
    <3>4. QED
      BY <3>1, <3>2, <3>3, BecomesKeeps
  <2>4. QED
    BY <1>7, <2>1, <2>2, <2>3 DEF RegisterCallee
<1>8. ASSUME NEW c \in InternalId, PushFromPwa(c) PROVE InternalInv'
  <2>1. icall[c] \in Records /\ icall[c].from \in {"Sip", "Pwa"} /\ c \notin internal
    BY <1>8, <1>0, <1>entered DEF Records, Kinds, At, Call, PushFromPwa
  <2>2. icall[c].stage = "Push" /\ icall[c].callee = "None" /\ icall[c].bridge = FALSE
        /\ icall[c].caller = "Up" /\ icall[c].from = "Pwa"
    BY <1>8, <1>0, <2>1 DEF At, Call, PushFromPwa, Records, InternalStages, PartyStates, Kinds, CallOK, CallerTold, CalleeTold
  <2>3. ASSUME Rung(c) PROVE InternalInv'
    BY <2>1, <2>2, <2>3, RungKeeps
  <2>4. ASSUME AbandonsCallee(c, "None") PROVE InternalInv'
    BY <2>1, <2>2, <2>4, AbandonKeeps DEF PartyStates
  <2>5. QED
    BY <1>8, <2>1, <2>2, <2>3, <2>4 DEF PushFromPwa
<1>9. ASSUME NEW c \in InternalId, PushFromSip(c) PROVE InternalInv'
  <2>1. icall[c] \in Records /\ icall[c].from \in {"Sip", "Pwa"} /\ c \notin internal
    BY <1>9, <1>0, <1>entered DEF Records, Kinds, At, Call, PushFromSip
  <2>2. icall[c].stage = "Push" /\ icall[c].callee = "None" /\ icall[c].bridge = FALSE
        /\ icall[c].caller = "None" /\ icall[c].from = "Sip"
    BY <1>9, <1>0, <2>1 DEF At, Call, PushFromSip, Records, InternalStages, PartyStates, Kinds, CallOK, CallerTold, CalleeTold
  <2>3. ASSUME Rung(c) PROVE InternalInv'
    BY <2>1, <2>2, <2>3, RungKeeps
  <2>4. ASSUME AbandonsCallee(c, "Released") PROVE InternalInv'
    BY <2>1, <2>2, <2>4, AbandonKeeps DEF PartyStates
  <2>5. QED
    BY <1>9, <2>1, <2>2, <2>3, <2>4 DEF PushFromSip
<1>10. ASSUME NEW c \in InternalId, AwaitFromPwa(c) PROVE InternalInv'
  <2>1. icall[c] \in Records /\ icall[c].from \in {"Sip", "Pwa"} /\ c \notin internal
    BY <1>10, <1>0, <1>entered DEF Records, Kinds, At, Call, AwaitFromPwa
  <2>2. icall[c].stage = "Await" /\ icall[c].callee = "Ringing" /\ icall[c].bridge = FALSE
        /\ icall[c].caller = "Up" /\ icall[c].from = "Pwa"
    BY <1>10, <1>0, <2>1 DEF At, Call, AwaitFromPwa, Records, InternalStages, PartyStates, Kinds, CallOK, CallerTold, CalleeTold
  <2>3. ASSUME ToStage(c, "Accept") PROVE InternalInv'
    <3>1. CallOK([icall[c] EXCEPT !.stage = "Accept"], c \in internal)
      BY <2>1, <2>2 DEF Records, InternalStages, PartyStates, Kinds, CallOK, CallerTold, CalleeTold
    <3>2. QED
      BY <2>3, <3>1, StageKeeps
  <2>4. ASSUME AbandonsCallee(c, "Refused") PROVE InternalInv'
    BY <2>1, <2>2, <2>4, AbandonKeeps DEF PartyStates
  <2>5. ASSUME AbandonsCallee(c, "Gone") PROVE InternalInv'
    BY <2>1, <2>2, <2>5, AbandonKeeps DEF PartyStates
  <2>6. ASSUME AbandonsCallee(c, icall[c].callee) PROVE InternalInv'
    BY <2>1, <2>2, <2>6, AbandonKeeps DEF PartyStates
  <2>7. QED
    BY <1>10, <2>1, <2>2, <2>3, <2>4, <2>5, <2>6 DEF AwaitFromPwa
<1>11. ASSUME NEW c \in InternalId, AwaitFromSip(c) PROVE InternalInv'
  <2>1. icall[c] \in Records /\ icall[c].from \in {"Sip", "Pwa"} /\ c \notin internal
    BY <1>11, <1>0, <1>entered DEF Records, Kinds, At, Call, AwaitFromSip
  <2>2. icall[c].stage = "Await" /\ icall[c].callee = "Ringing" /\ icall[c].bridge = FALSE
        /\ icall[c].caller = "None" /\ icall[c].from = "Sip"
    BY <1>11, <1>0, <2>1 DEF At, Call, AwaitFromSip, Records, InternalStages, PartyStates, Kinds, CallOK, CallerTold, CalleeTold
  <2>3. ASSUME ToStage(c, "Accept") PROVE InternalInv'
    <3>1. CallOK([icall[c] EXCEPT !.stage = "Accept"], c \in internal)
      BY <2>1, <2>2 DEF Records, InternalStages, PartyStates, Kinds, CallOK, CallerTold, CalleeTold
    <3>2. QED
      BY <2>3, <3>1, StageKeeps
  <2>4. ASSUME AbandonsCallee(c, "Released") PROVE InternalInv'
    BY <2>1, <2>2, <2>4, AbandonKeeps DEF PartyStates
  <2>5. QED
    BY <1>11, <2>1, <2>2, <2>3, <2>4 DEF AwaitFromSip
<1>12. ASSUME NEW c \in InternalId, AcceptFromPwa(c) PROVE InternalInv'
  <2>1. icall[c] \in Records /\ icall[c].from \in {"Sip", "Pwa"} /\ c \notin internal
    BY <1>12, <1>0, <1>entered DEF Records, Kinds, At, Call, AcceptFromPwa
  <2>2. icall[c].stage = "Accept" /\ icall[c].callee = "Ringing" /\ icall[c].bridge = FALSE
        /\ icall[c].caller = "Up" /\ icall[c].from = "Pwa"
    BY <1>12, <1>0, <2>1 DEF At, Call, AcceptFromPwa, Records, InternalStages, PartyStates, Kinds, CallOK, CallerTold, CalleeTold
  <2>3. ASSUME Becomes(c, [icall[c] EXCEPT !.stage = "Attach", !.callee = "Up"]) PROVE InternalInv'
    <3> DEFINE i == [icall[c] EXCEPT !.stage = "Attach", !.callee = "Up"]
    <3>1. i \in Records
      BY <2>1, <2>2 DEF Records, InternalStages, PartyStates, Kinds
    <3>2. CallOK(i, c \in internal)
      BY <2>1, <2>2 DEF Records, InternalStages, PartyStates, Kinds, CallOK, CallerTold, CalleeTold
    <3> HIDE DEF i
    <3>3. Becomes(c, i)
      BY <2>3 DEF i
    <3>4. QED
      BY <3>1, <3>2, <3>3, BecomesKeeps
  <2>4. ASSUME FailWith(c, "Released") PROVE InternalInv'
    BY <2>1, <2>2, <2>4, FailKeeps
  <2>5. QED
    BY <1>12, <2>1, <2>2, <2>3, <2>4 DEF AcceptFromPwa
<1>13. ASSUME NEW c \in InternalId, AcceptFromSip(c) PROVE InternalInv'
  <2>1. icall[c] \in Records /\ icall[c].from \in {"Sip", "Pwa"} /\ c \notin internal
    BY <1>13, <1>0, <1>entered DEF Records, Kinds, At, Call, AcceptFromSip
  <2>2. icall[c].stage = "Accept" /\ icall[c].callee = "Ringing" /\ icall[c].bridge = FALSE
        /\ icall[c].caller = "None" /\ icall[c].from = "Sip"
    BY <1>13, <1>0, <2>1 DEF At, Call, AcceptFromSip, Records, InternalStages, PartyStates, Kinds, CallOK, CallerTold, CalleeTold
  <2>3. ASSUME Becomes(c, [icall[c] EXCEPT !.stage = "Answer", !.callee = "Up"]) PROVE InternalInv'
    <3> DEFINE i == [icall[c] EXCEPT !.stage = "Answer", !.callee = "Up"]
    <3>1. i \in Records
      BY <2>1, <2>2 DEF Records, InternalStages, PartyStates, Kinds
    <3>2. CallOK(i, c \in internal)
      BY <2>1, <2>2 DEF Records, InternalStages, PartyStates, Kinds, CallOK, CallerTold, CalleeTold
    <3> HIDE DEF i
    <3>3. Becomes(c, i)
      BY <2>3 DEF i
    <3>4. QED
      BY <3>1, <3>2, <3>3, BecomesKeeps
  <2>4. ASSUME FailWith(c, "Released") PROVE InternalInv'
    BY <2>1, <2>2, <2>4, FailKeeps
  <2>5. QED
    BY <1>13, <2>1, <2>2, <2>3, <2>4 DEF AcceptFromSip
<1>14. ASSUME NEW c \in InternalId, InviteFromPwa(c) PROVE InternalInv'
  <2>1. icall[c] \in Records /\ icall[c].from \in {"Sip", "Pwa"} /\ c \notin internal
    BY <1>14, <1>0, <1>entered DEF Records, Kinds, At, Call, InviteFromPwa
  <2>2. icall[c].stage = "Invite" /\ icall[c].callee = "None" /\ icall[c].bridge = FALSE
        /\ icall[c].caller = "Up" /\ icall[c].from = "Pwa"
    BY <1>14, <1>0, <2>1 DEF At, Call, InviteFromPwa, Records, InternalStages, PartyStates, Kinds, CallOK, CallerTold, CalleeTold
  <2>3. ASSUME Becomes(c, [icall[c] EXCEPT !.stage = "Endpoint", !.callee = "Up"]) PROVE InternalInv'
    <3> DEFINE i == [icall[c] EXCEPT !.stage = "Endpoint", !.callee = "Up"]
    <3>1. i \in Records
      BY <2>1, <2>2 DEF Records, InternalStages, PartyStates, Kinds
    <3>2. CallOK(i, c \in internal)
      BY <2>1, <2>2 DEF Records, InternalStages, PartyStates, Kinds, CallOK, CallerTold, CalleeTold
    <3> HIDE DEF i
    <3>3. Becomes(c, i)
      BY <2>3 DEF i
    <3>4. QED
      BY <3>1, <3>2, <3>3, BecomesKeeps
  <2>4. ASSUME FailWith(c, "Refused") PROVE InternalInv'
    BY <2>1, <2>2, <2>4, FailKeeps
  <2>5. QED
    BY <1>14, <2>1, <2>2, <2>3, <2>4 DEF InviteFromPwa, Invites
<1>15. ASSUME NEW c \in InternalId, InviteFromSip(c) PROVE InternalInv'
  <2>1. icall[c] \in Records /\ icall[c].from \in {"Sip", "Pwa"} /\ c \notin internal
    BY <1>15, <1>0, <1>entered DEF Records, Kinds, At, Call, InviteFromSip
  <2>2. icall[c].stage = "Invite" /\ icall[c].callee = "None" /\ icall[c].bridge = FALSE
        /\ icall[c].caller = "None" /\ icall[c].from = "Sip"
    BY <1>15, <1>0, <2>1 DEF At, Call, InviteFromSip, Records, InternalStages, PartyStates, Kinds, CallOK, CallerTold, CalleeTold
  <2>3. ASSUME Becomes(c, [icall[c] EXCEPT !.stage = "Endpoint", !.callee = "Up"]) PROVE InternalInv'
    <3> DEFINE i == [icall[c] EXCEPT !.stage = "Endpoint", !.callee = "Up"]
    <3>1. i \in Records
      BY <2>1, <2>2 DEF Records, InternalStages, PartyStates, Kinds
    <3>2. CallOK(i, c \in internal)
      BY <2>1, <2>2 DEF Records, InternalStages, PartyStates, Kinds, CallOK, CallerTold, CalleeTold
    <3> HIDE DEF i
    <3>3. Becomes(c, i)
      BY <2>3 DEF i
    <3>4. QED
      BY <3>1, <3>2, <3>3, BecomesKeeps
  <2>4. ASSUME FailWith(c, "Refused") PROVE InternalInv'
    BY <2>1, <2>2, <2>4, FailKeeps
  <2>5. QED
    BY <1>15, <2>1, <2>2, <2>3, <2>4 DEF InviteFromSip, Invites
<1>16. ASSUME NEW c \in InternalId, EndpointForPwa(c) PROVE InternalInv'
  <2>1. icall[c] \in Records /\ icall[c].from \in {"Sip", "Pwa"} /\ c \notin internal
    BY <1>16, <1>0, <1>entered DEF Records, Kinds, At, Call, EndpointForPwa
  <2>2. icall[c].stage = "Endpoint" /\ icall[c].callee = "Up" /\ icall[c].bridge = FALSE
        /\ icall[c].caller = "Up" /\ icall[c].from = "Pwa"
    BY <1>16, <1>0, <2>1 DEF At, Call, EndpointForPwa, Records, InternalStages, PartyStates, Kinds, CallOK, CallerTold, CalleeTold
  <2>3. ASSUME ToStage(c, "Attach") PROVE InternalInv'
    <3>1. CallOK([icall[c] EXCEPT !.stage = "Attach"], c \in internal)
      BY <2>1, <2>2 DEF Records, InternalStages, PartyStates, Kinds, CallOK, CallerTold, CalleeTold
    <3>2. QED
      BY <2>3, <3>1, StageKeeps
  <2>4. ASSUME FailWith(c, "Released") PROVE InternalInv'
    BY <2>1, <2>2, <2>4, FailKeeps
  <2>5. QED
    BY <1>16, <2>1, <2>2, <2>3, <2>4 DEF EndpointForPwa
<1>17. ASSUME NEW c \in InternalId, EndpointForSip(c) PROVE InternalInv'
  <2>1. icall[c] \in Records /\ icall[c].from \in {"Sip", "Pwa"} /\ c \notin internal
    BY <1>17, <1>0, <1>entered DEF Records, Kinds, At, Call, EndpointForSip
  <2>2. icall[c].stage = "Endpoint" /\ icall[c].callee = "Up" /\ icall[c].bridge = FALSE
        /\ icall[c].caller = "None" /\ icall[c].from = "Sip"
    BY <1>17, <1>0, <2>1 DEF At, Call, EndpointForSip, Records, InternalStages, PartyStates, Kinds, CallOK, CallerTold, CalleeTold
  <2>3. ASSUME ToStage(c, "Answer") PROVE InternalInv'
    <3>1. CallOK([icall[c] EXCEPT !.stage = "Answer"], c \in internal)
      BY <2>1, <2>2 DEF Records, InternalStages, PartyStates, Kinds, CallOK, CallerTold, CalleeTold
    <3>2. QED
      BY <2>3, <3>1, StageKeeps
  <2>4. ASSUME FailWith(c, "Released") PROVE InternalInv'
    BY <2>1, <2>2, <2>4, FailKeeps
  <2>5. QED
    BY <1>17, <2>1, <2>2, <2>3, <2>4 DEF EndpointForSip
<1>18. ASSUME NEW c \in InternalId, AnswerCaller(c) PROVE InternalInv'
  <2>1. icall[c] \in Records /\ icall[c].from \in {"Sip", "Pwa"} /\ c \notin internal
    BY <1>18, <1>0, <1>entered DEF Records, Kinds, At, Call, AnswerCaller
  <2>2. icall[c].stage = "Answer" /\ icall[c].callee = "Up" /\ icall[c].bridge = FALSE
        /\ icall[c].caller = "None" /\ icall[c].from = "Sip"
    BY <1>18, <1>0, <2>1 DEF At, Call, AnswerCaller, Records, InternalStages, PartyStates, Kinds, CallOK, CallerTold, CalleeTold
  <2>3. ASSUME Becomes(c, [icall[c] EXCEPT !.stage = "Attach", !.caller = "Up"]) PROVE InternalInv'
    <3> DEFINE i == [icall[c] EXCEPT !.stage = "Attach", !.caller = "Up"]
    <3>1. i \in Records
      BY <2>1, <2>2 DEF Records, InternalStages, PartyStates, Kinds
    <3>2. CallOK(i, c \in internal)
      BY <2>1, <2>2 DEF Records, InternalStages, PartyStates, Kinds, CallOK, CallerTold, CalleeTold
    <3> HIDE DEF i
    <3>3. Becomes(c, i)
      BY <2>3 DEF i
    <3>4. QED
      BY <3>1, <3>2, <3>3, BecomesKeeps
  <2>4. ASSUME Becomes(c, [icall[c] EXCEPT !.stage = "Done", !.callee = "Released"]) PROVE InternalInv'
    <3> DEFINE i == [icall[c] EXCEPT !.stage = "Done", !.callee = "Released"]
    <3>1. i \in Records
      BY <2>1, <2>2 DEF Records, InternalStages, PartyStates, Kinds
    <3>2. CallOK(i, c \in internal)
      BY <2>1, <2>2 DEF Records, InternalStages, PartyStates, Kinds, CallOK, CallerTold, CalleeTold
    <3> HIDE DEF i
    <3>3. Becomes(c, i)
      BY <2>4 DEF i
    <3>4. QED
      BY <3>1, <3>2, <3>3, BecomesKeeps
  <2>5. QED
    BY <1>18, <2>1, <2>2, <2>3, <2>4 DEF AnswerCaller
<1>19. ASSUME NEW c \in InternalId, AttachPwaToPwa(c) PROVE InternalInv'
  <2>1. icall[c] \in Records /\ icall[c].from \in {"Sip", "Pwa"} /\ c \notin internal
    BY <1>19, <1>0, <1>entered DEF Records, Kinds, At, Call, AttachPwaToPwa
  <2>2. icall[c].stage = "Attach" /\ icall[c].callee = "Up" /\ icall[c].bridge = FALSE
        /\ icall[c].caller = "Up" /\ icall[c].from = "Pwa"
    BY <1>19, <1>0, <2>1 DEF At, Call, AttachPwaToPwa, Records, InternalStages, PartyStates, Kinds, CallOK, CallerTold, CalleeTold
  <2>3. ASSUME Becomes(c, [icall[c] EXCEPT !.stage = "Enter", !.bridge = TRUE]) PROVE InternalInv'
    <3> DEFINE i == [icall[c] EXCEPT !.stage = "Enter", !.bridge = TRUE]
    <3>1. i \in Records
      BY <2>1, <2>2 DEF Records, InternalStages, PartyStates, Kinds
    <3>2. CallOK(i, c \in internal)
      BY <2>1, <2>2 DEF Records, InternalStages, PartyStates, Kinds, CallOK, CallerTold, CalleeTold
    <3> HIDE DEF i
    <3>3. Becomes(c, i)
      BY <2>3 DEF i
    <3>4. QED
      BY <3>1, <3>2, <3>3, BecomesKeeps
  <2>4. ASSUME FailWith(c, "Released") PROVE InternalInv'
    BY <2>1, <2>2, <2>4, FailKeeps
  <2>5. QED
    BY <1>19, <2>1, <2>2, <2>3, <2>4 DEF AttachPwaToPwa, Bridged
<1>20. ASSUME NEW c \in InternalId, AttachPwaToSip(c) PROVE InternalInv'
  <2>1. icall[c] \in Records /\ icall[c].from \in {"Sip", "Pwa"} /\ c \notin internal
    BY <1>20, <1>0, <1>entered DEF Records, Kinds, At, Call, AttachPwaToSip
  <2>2. icall[c].stage = "Attach" /\ icall[c].callee = "Up" /\ icall[c].bridge = FALSE
        /\ icall[c].caller = "Up" /\ icall[c].from = "Pwa"
    BY <1>20, <1>0, <2>1 DEF At, Call, AttachPwaToSip, Records, InternalStages, PartyStates, Kinds, CallOK, CallerTold, CalleeTold
  <2>3. ASSUME Becomes(c, [icall[c] EXCEPT !.stage = "Enter", !.bridge = TRUE]) PROVE InternalInv'
    <3> DEFINE i == [icall[c] EXCEPT !.stage = "Enter", !.bridge = TRUE]
    <3>1. i \in Records
      BY <2>1, <2>2 DEF Records, InternalStages, PartyStates, Kinds
    <3>2. CallOK(i, c \in internal)
      BY <2>1, <2>2 DEF Records, InternalStages, PartyStates, Kinds, CallOK, CallerTold, CalleeTold
    <3> HIDE DEF i
    <3>3. Becomes(c, i)
      BY <2>3 DEF i
    <3>4. QED
      BY <3>1, <3>2, <3>3, BecomesKeeps
  <2>4. ASSUME FailWith(c, "Released") PROVE InternalInv'
    BY <2>1, <2>2, <2>4, FailKeeps
  <2>5. QED
    BY <1>20, <2>1, <2>2, <2>3, <2>4 DEF AttachPwaToSip, Bridged
<1>21. ASSUME NEW c \in InternalId, AttachSipToPwa(c) PROVE InternalInv'
  <2>1. icall[c] \in Records /\ icall[c].from \in {"Sip", "Pwa"} /\ c \notin internal
    BY <1>21, <1>0, <1>entered DEF Records, Kinds, At, Call, AttachSipToPwa
  <2>2. icall[c].stage = "Attach" /\ icall[c].callee = "Up" /\ icall[c].bridge = FALSE
        /\ icall[c].caller = "Up" /\ icall[c].from = "Sip"
    BY <1>21, <1>0, <2>1 DEF At, Call, AttachSipToPwa, Records, InternalStages, PartyStates, Kinds, CallOK, CallerTold, CalleeTold
  <2>3. ASSUME Becomes(c, [icall[c] EXCEPT !.stage = "Enter", !.bridge = TRUE]) PROVE InternalInv'
    <3> DEFINE i == [icall[c] EXCEPT !.stage = "Enter", !.bridge = TRUE]
    <3>1. i \in Records
      BY <2>1, <2>2 DEF Records, InternalStages, PartyStates, Kinds
    <3>2. CallOK(i, c \in internal)
      BY <2>1, <2>2 DEF Records, InternalStages, PartyStates, Kinds, CallOK, CallerTold, CalleeTold
    <3> HIDE DEF i
    <3>3. Becomes(c, i)
      BY <2>3 DEF i
    <3>4. QED
      BY <3>1, <3>2, <3>3, BecomesKeeps
  <2>4. ASSUME FailWith(c, "Released") PROVE InternalInv'
    BY <2>1, <2>2, <2>4, FailKeeps
  <2>5. QED
    BY <1>21, <2>1, <2>2, <2>3, <2>4 DEF AttachSipToPwa, Bridged
<1>22. ASSUME NEW c \in InternalId, AttachSipToSip(c) PROVE InternalInv'
  <2>1. icall[c] \in Records /\ icall[c].from \in {"Sip", "Pwa"} /\ c \notin internal
    BY <1>22, <1>0, <1>entered DEF Records, Kinds, At, Call, AttachSipToSip
  <2>2. icall[c].stage = "Attach" /\ icall[c].callee = "Up" /\ icall[c].bridge = FALSE
        /\ icall[c].caller = "Up" /\ icall[c].from = "Sip"
    BY <1>22, <1>0, <2>1 DEF At, Call, AttachSipToSip, Records, InternalStages, PartyStates, Kinds, CallOK, CallerTold, CalleeTold
  <2>3. ASSUME Becomes(c, [icall[c] EXCEPT !.stage = "Enter", !.bridge = TRUE]) PROVE InternalInv'
    <3> DEFINE i == [icall[c] EXCEPT !.stage = "Enter", !.bridge = TRUE]
    <3>1. i \in Records
      BY <2>1, <2>2 DEF Records, InternalStages, PartyStates, Kinds
    <3>2. CallOK(i, c \in internal)
      BY <2>1, <2>2 DEF Records, InternalStages, PartyStates, Kinds, CallOK, CallerTold, CalleeTold
    <3> HIDE DEF i
    <3>3. Becomes(c, i)
      BY <2>3 DEF i
    <3>4. QED
      BY <3>1, <3>2, <3>3, BecomesKeeps
  <2>4. ASSUME FailWith(c, "Released") PROVE InternalInv'
    BY <2>1, <2>2, <2>4, FailKeeps
  <2>5. QED
    BY <1>22, <2>1, <2>2, <2>3, <2>4 DEF AttachSipToSip, Bridged
<1>23. ASSUME NEW c \in InternalId, EnterFromPwa(c) \/ EnterFromSip(c) PROVE InternalInv'
  <2>1. At(c, "Enter") /\ Entered(c)
    BY <1>23 DEF EnterFromPwa, EnterFromSip
  <2>2. internal' = internal \cup {c}
    BY <2>1 DEF Entered
  <2>3. icall' \in [InternalId -> Records]
    BY <2>1 DEF Entered, InternalInv, InternalTypeOK, Records
  <2>4. \A d \in InternalId : d # c => icall'[d] = icall[d] /\ (d \in internal' <=> d \in internal)
    BY <2>1, <2>2 DEF Entered, InternalInv, InternalTypeOK
  <2>5. CallOK(icall'[c], c \in internal')
    BY <1>0, <2>1, <2>2 DEF At, Entered, InternalInv, InternalTypeOK, CallOK, CallerTold, CalleeTold
  <2>6. QED
    BY <1>0, <2>2, <2>3, <2>4, <2>5 DEF InternalInv, InternalTypeOK, Records
<1>24. ASSUME NEW c \in InternalId, NEW w \in {"Sdp", "Decline", "Cancelled"}, Becomes(c, [icall[c] EXCEPT !.waiter = w]) PROVE InternalInv'
  <2> DEFINE i == [icall[c] EXCEPT !.waiter = w]
  <2>1. i \in Records
    BY <1>0 DEF Records
  <2>2. CallOK(i, c \in internal)
    <3>1. /\ i.stage = icall[c].stage /\ i.caller = icall[c].caller /\ i.callee = icall[c].callee
          /\ i.from = icall[c].from /\ i.bridge = icall[c].bridge
      BY <1>0 DEF Records
    <3> HIDE DEF i
    <3>2. QED
      BY <1>0, <3>1 DEF CallOK, CallerTold, CalleeTold
  <2> HIDE DEF i
  <2>3. Becomes(c, i)
    BY <1>24 DEF i
  <2>4. QED
    BY <2>1, <2>2, <2>3, BecomesKeeps
<1>25. ASSUME NEW c \in InternalId, InternalHangsUp(c) PROVE InternalInv'
  <2>1. c \in internal /\ icall[c].stage = "Done" /\ icall[c].bridge = TRUE
        /\ icall[c].caller \in {"Up", "Gone"} /\ icall[c].callee \in {"Up", "Gone"}
    BY <1>25, <1>0, <1>entered DEF InternalHangsUp, CallOK, Records
  <2>2. PICK i : Becomes(c, i) /\ i \in {[icall[c] EXCEPT !.caller = "Gone"],
                                         [icall[c] EXCEPT !.callee = "Gone"]}
    BY <1>25 DEF InternalHangsUp, Becomes
  <2>3. i \in Records
    BY <1>0, <2>2 DEF Records, PartyStates
  <2>4. i.stage = "Done" /\ i.bridge = TRUE
        /\ i.caller \in {"Up", "Gone"} /\ i.callee \in {"Up", "Gone"}
    BY <1>0, <2>1, <2>2 DEF Records
  <2>5. CallOK(i, c \in internal)
    BY <2>1, <2>4 DEF CallOK, CallerTold, CalleeTold
  <2>6. QED
    BY <2>2, <2>3, <2>5, BecomesKeeps
<1>26. CASE UNCHANGED internalVars
  BY <1>26 DEF internalVars, InternalInv, InternalTypeOK
<1>27. QED
  BY <1>1, <1>2, <1>3, <1>4, <1>5, <1>6, <1>7, <1>8, <1>9, <1>10, <1>11, <1>12, <1>13,
     <1>14, <1>15, <1>16, <1>17, <1>18, <1>19, <1>20, <1>21, <1>22, <1>23, <1>24, <1>25, <1>26
     DEF InternalNext, InternalTask, CalleeReplies

-----------------------------------------------------------------------------
(* Recordings                                                              *)

\* A step of one recording's task.
LEMMA RecMoves ==
    ASSUME RecInv, NEW r \in Rec,
           rec' \in [Rec -> RecRecords], disk' \in [Rec -> FileRecords],
           \A q \in Rec : q # r => rec'[q] = rec[q] /\ disk'[q] = disk[q],
           active' \subseteq Rec, OneActive',
           stopper' \in [Rec -> {"Idle", "Notify", "Join", "Gone"}],
           FilesOK(rec'[r], disk'[r], r \in reader, delete[r], r \in deleted), Others
    PROVE  RecInv'
<1>1. RecTypes'
  BY DEF RecInv, RecTypes, Others
<1>2. ASSUME NEW q \in Rec
      PROVE  FilesOK(rec'[q], disk'[q], q \in reader', delete'[q], q \in deleted')
  <2>1. reader' = reader /\ delete' = delete /\ deleted' = deleted
    BY DEF Others
  <2>2. QED
    BY <2>1 DEF RecInv
<1>3. QED
  BY <1>1, <1>2 DEF RecInv

\* Moving the task on, and a new WAV file, keep their tables well typed.
LEMMA GoToType ==
    ASSUME rec \in [Rec -> RecRecords], NEW r \in Rec, NEW s \in RecStages, GoTo(r, s)
    PROVE  rec' \in [Rec -> RecRecords] /\ \A q \in Rec : q # r => rec'[q] = rec[q]
  BY DEF GoTo, RecRecords

\* A new WAV file.
LEMMA NewWavType ==
    ASSUME disk \in [Rec -> FileRecords], NEW r \in Rec, NewWav(r)
    PROVE  disk' \in [Rec -> FileRecords]
<1> DEFINE d == [disk[r] EXCEPT !.wav = "Open", !.samples = 0]
<1>1. d \in FileRecords
  <2>1. disk[r] \in FileRecords
    OBVIOUS
  <2>2. 0 \in 0..MaxSamples
    BY RecAssumption
  <2>3. QED
    BY <2>1, <2>2 DEF FileRecords
<1>2. disk' = [disk EXCEPT ![r] = d]
  BY DEF NewWav
<1> HIDE DEF d
<1>3. QED
  BY <1>1, <1>2

\* A step that only moves the task on.
LEMMA RecGoesOn ==
    ASSUME RecInv, NEW r \in Rec, NEW s \in RecStages, GoTo(r, s), disk' = disk,
           active' \subseteq active, stopper' \in [Rec -> {"Idle", "Notify", "Join", "Gone"}], Others,
           \/ s = "Failed"
           \/ rec[r].stage = "Wait" /\ s = "Write" /\ rec[r].count < MaxSamples
           \/ rec[r].stage \in {"Wait", "Write"} /\ s \in {"Wait", "Finalize"}
    PROVE  RecInv'
<1>1. rec \in [Rec -> RecRecords] /\ disk \in [Rec -> FileRecords]
      /\ FilesOK(rec[r], disk[r], r \in reader, delete[r], r \in deleted)
  BY DEF RecInv, RecTypes
<1>2. rec' \in [Rec -> RecRecords] /\ \A q \in Rec : q # r => rec'[q] = rec[q]
  BY <1>1 DEF GoTo, RecRecords
<1>3. rec'[r].stage = s /\ rec'[r].count = rec[r].count /\ rec'[r].kind = rec[r].kind
  BY <1>1 DEF GoTo, RecRecords
<1>4. OneActive'
  BY <1>2, <1>3 DEF RecInv, RecTypes, OneActive
<1>5. FilesOK(rec'[r], disk'[r], r \in reader, delete[r], r \in deleted)
  BY <1>1, <1>3 DEF FilesOK, Over, FileRecords
<1>6. active' \subseteq Rec
  BY DEF RecInv, RecTypes
<1>7. QED
  BY <1>1, <1>2, <1>4, <1>5, <1>6, RecMoves

\* The recorders, those who stop them, those who read and delete, and a crash.
LEMMA RecStepInv == RecInv /\ [RecNext]_recVars => RecInv'
<1> SUFFICES ASSUME RecInv, [RecNext]_recVars PROVE RecInv'
  OBVIOUS
<1>0. /\ rec \in [Rec -> RecRecords] /\ disk \in [Rec -> FileRecords]
      /\ stopper \in [Rec -> {"Idle", "Notify", "Join", "Gone"}] /\ active \subseteq Rec
      /\ \A r \in Rec : FilesOK(rec[r], disk[r], r \in reader, delete[r], r \in deleted)
  BY DEF RecInv, RecTypes
<1> USE RecAssumption
<1>1. ASSUME NEW r \in Rec, StartRecording(r) PROVE RecInv'
  <2>1. CASE GoTo(r, "Failed") /\ UNCHANGED <<disk, active>>
    BY <1>1, <2>1, <1>0, RecGoesOn DEF StartRecording, RecStages
  <2>2. CASE GoTo(r, "Wait") /\ NewWav(r) /\ active' = active \cup {r}
      <3>8. rec' \in [Rec -> RecRecords] /\ \A q \in Rec : q # r => rec'[q] = rec[q]
        BY <1>1, <2>2, <1>0 DEF StartRecording, FilesOK, In, GoTo, RecRecords, RecStages
      <3>9. \A q \in Rec : q # r => disk'[q] = disk[q]
        BY <1>1, <2>2, <1>0 DEF StartRecording, NewWav
      <3>10. disk' \in [Rec -> FileRecords]
        BY <2>2, <1>0, NewWavType
      <3>1. rec' \in [Rec -> RecRecords] /\ disk' \in [Rec -> FileRecords]
            /\ \A q \in Rec : q # r => rec'[q] = rec[q] /\ disk'[q] = disk[q]
        BY <3>8, <3>9, <3>10
      <3>2. rec'[r].stage = "Wait" /\ rec'[r].count = rec[r].count /\ rec'[r].kind = rec[r].kind
        BY <1>1, <2>2, <1>0 DEF StartRecording, In, GoTo, NewWav, RecRecords
      <3>3. disk'[r].wav = "Open" /\ disk'[r].samples = 0 /\ disk'[r].meta = disk[r].meta
        BY <1>1, <2>2, <1>0 DEF StartRecording, In, GoTo, NewWav, FileRecords
      <3>4. FilesOK(rec'[r], disk'[r], r \in reader, delete[r], r \in deleted)
        BY <1>1, <2>2, <1>0, <3>2, <3>3 DEF StartRecording, In, FilesOK, Over, RecRecords, FileRecords
      <3>5. active' \subseteq Rec /\ UNCHANGED stopper /\ Others
        BY <1>1, <2>2, <1>0 DEF StartRecording
      <3>6. OneActive'
        BY <1>0, <3>1, <3>2, <1>1, <2>2 DEF RecInv, OneActive, StartRecording
      <3>7. QED
        BY <1>0, <3>1, <3>4, <3>5, <3>6, RecMoves
  <2>3. QED
    BY <1>1, <2>1, <2>2 DEF StartRecording
<1>2. ASSUME NEW r \in Rec, StartVoicemail(r) PROVE RecInv'
  <2>8. rec' \in [Rec -> RecRecords] /\ \A q \in Rec : q # r => rec'[q] = rec[q]
    BY <1>2, <1>0 DEF StartVoicemail, FilesOK, In, GoTo, RecRecords, RecStages
  <2>9. \A q \in Rec : q # r => disk'[q] = disk[q]
    BY <1>2, <1>0 DEF StartVoicemail, NewWav
  <2>10. disk' \in [Rec -> FileRecords]
    BY <1>2, <1>0 DEF StartVoicemail, FilesOK, In, NewWav, FileRecords, RecRecords
  <2>1. rec' \in [Rec -> RecRecords] /\ disk' \in [Rec -> FileRecords]
        /\ \A q \in Rec : q # r => rec'[q] = rec[q] /\ disk'[q] = disk[q]
    BY <2>8, <2>9, <2>10
  <2>2. rec'[r].stage = "Create" /\ rec'[r].count = rec[r].count /\ rec'[r].kind = "Voicemail"
    BY <1>2, <1>0 DEF StartVoicemail, In, GoTo, NewWav, RecRecords
  <2>3. disk'[r] = disk[r]
    BY <1>2, <1>0 DEF StartVoicemail, In, GoTo, NewWav, FileRecords
  <2>4. FilesOK(rec'[r], disk'[r], r \in reader, delete[r], r \in deleted)
    BY <1>2, <1>0, <2>2, <2>3 DEF StartVoicemail, In, FilesOK, Over, RecRecords, FileRecords
  <2>5. active' \subseteq Rec /\ UNCHANGED stopper /\ Others
    BY <1>2, <1>0 DEF StartVoicemail
  <2>6. OneActive'
    BY <1>0, <2>1, <2>2, <1>2 DEF RecInv, OneActive, StartVoicemail
  <2>7. QED
    BY <1>0, <2>1, <2>4, <2>5, <2>6, RecMoves
<1>3. ASSUME NEW r \in Rec, CreateWav(r) PROVE RecInv'
  <2>1. ASSUME GoTo(r, "Failed"), UNCHANGED disk PROVE RecInv'
    BY <1>3, <2>1, <1>0, RecGoesOn DEF CreateWav, RecStages
  <2>2. ASSUME GoTo(r, "Wait"), NewWav(r) PROVE RecInv'
    <3>8. rec' \in [Rec -> RecRecords] /\ \A q \in Rec : q # r => rec'[q] = rec[q]
      BY <1>3, <2>2, <1>0 DEF CreateWav, FilesOK, In, GoTo, RecRecords, RecStages
    <3>9. \A q \in Rec : q # r => disk'[q] = disk[q]
      BY <1>3, <2>2, <1>0 DEF CreateWav, NewWav
    <3>10. disk' \in [Rec -> FileRecords]
      BY <2>2, <1>0, NewWavType
    <3>1. rec' \in [Rec -> RecRecords] /\ disk' \in [Rec -> FileRecords]
          /\ \A q \in Rec : q # r => rec'[q] = rec[q] /\ disk'[q] = disk[q]
      BY <3>8, <3>9, <3>10
    <3>2. rec'[r].stage = "Wait" /\ rec'[r].count = rec[r].count /\ rec'[r].kind = rec[r].kind
      BY <1>3, <2>2, <1>0 DEF CreateWav, In, GoTo, NewWav, RecRecords
    <3>3. disk'[r].wav = "Open" /\ disk'[r].samples = 0 /\ disk'[r].meta = disk[r].meta
      BY <1>3, <2>2, <1>0 DEF CreateWav, In, GoTo, NewWav, FileRecords
    <3>4. FilesOK(rec'[r], disk'[r], r \in reader, delete[r], r \in deleted)
      BY <1>3, <2>2, <1>0, <3>2, <3>3 DEF CreateWav, In, FilesOK, Over, RecRecords, FileRecords
    <3>5. active' \subseteq Rec /\ UNCHANGED stopper /\ Others
      BY <1>3, <2>2, <1>0 DEF CreateWav
    <3>6. OneActive'
      BY <1>0, <3>1, <3>2, <1>3, <2>2 DEF RecInv, OneActive, CreateWav
    <3>7. QED
      BY <1>0, <3>1, <3>4, <3>5, <3>6, RecMoves
  <2>3. QED
    BY <1>3, <2>1, <2>2 DEF CreateWav
<1>4. ASSUME NEW r \in Rec, TakePacket(r) PROVE RecInv'
  BY <1>4, <1>0, RecGoesOn DEF TakePacket, In, RecStages
<1>5. ASSUME NEW r \in Rec, WriteSamples(r) PROVE RecInv'
  <2>1. ASSUME NEW s \in {"Wait", "Finalize"}, GoTo(r, s), UNCHANGED disk PROVE RecInv'
    BY <1>5, <2>1, <1>0, RecGoesOn DEF WriteSamples, In, RecStages
  <2>2. ASSUME rec' = [rec EXCEPT ![r].stage = "Wait", ![r].count = @ + 1],
               disk' = [disk EXCEPT ![r].samples = @ + 1]
        PROVE  RecInv'
      <3>8. rec' \in [Rec -> RecRecords] /\ \A q \in Rec : q # r => rec'[q] = rec[q]
        BY <1>5, <2>2, <1>0 DEF WriteSamples, FilesOK, In, GoTo, RecRecords, RecStages
      <3>9. \A q \in Rec : q # r => disk'[q] = disk[q]
        BY <1>5, <2>2, <1>0 DEF WriteSamples, NewWav
      <3>10. disk' \in [Rec -> FileRecords]
        BY <1>5, <2>2, <1>0 DEF WriteSamples, FilesOK, In, NewWav, FileRecords, RecRecords
      <3>1. rec' \in [Rec -> RecRecords] /\ disk' \in [Rec -> FileRecords]
            /\ \A q \in Rec : q # r => rec'[q] = rec[q] /\ disk'[q] = disk[q]
        BY <3>8, <3>9, <3>10
      <3>2. rec'[r].stage = "Wait" /\ rec'[r].count = rec[r].count + 1 /\ rec'[r].kind = rec[r].kind
        BY <1>5, <2>2, <1>0 DEF WriteSamples, In, GoTo, NewWav, RecRecords
      <3>3. disk'[r].samples = disk[r].samples + 1 /\ disk'[r].wav = disk[r].wav /\ disk'[r].meta = disk[r].meta
        BY <1>5, <2>2, <1>0 DEF WriteSamples, In, GoTo, NewWav, FileRecords
      <3>4. FilesOK(rec'[r], disk'[r], r \in reader, delete[r], r \in deleted)
        BY <1>5, <2>2, <1>0, <3>2, <3>3 DEF WriteSamples, In, FilesOK, Over, RecRecords, FileRecords
      <3>5. active' \subseteq Rec /\ UNCHANGED stopper /\ Others
        BY <1>5, <2>2, <1>0 DEF WriteSamples
      <3>6. OneActive'
        BY <1>0, <3>1, <3>2, <1>5, <2>2 DEF RecInv, OneActive, WriteSamples
      <3>7. QED
        BY <1>0, <3>1, <3>4, <3>5, <3>6, RecMoves
  <2>3. QED
    BY <1>5, <2>1, <2>2 DEF WriteSamples
<1>6. ASSUME NEW r \in Rec, ChannelCloses(r) PROVE RecInv'
  BY <1>6, <1>0, RecGoesOn DEF ChannelCloses, In, RecStages
<1>7. ASSUME NEW r \in Rec, SocketFails(r) PROVE RecInv'
  BY <1>7, <1>0, RecGoesOn DEF SocketFails, In, RecStages
<1>8. ASSUME NEW r \in Rec, RecDeadline(r) PROVE RecInv'
  BY <1>8, <1>0, RecGoesOn DEF RecDeadline, In, RecStages
<1>9. ASSUME NEW r \in Rec, FinalizeWav(r) PROVE RecInv'
  <2>1. ASSUME GoTo(r, "Failed"), UNCHANGED disk PROVE RecInv'
    BY <1>9, <2>1, <1>0, RecGoesOn DEF FinalizeWav, RecStages
  <2>2. ASSUME GoTo(r, "Transcribe"), disk' = [disk EXCEPT ![r].wav = IF @ = "Open" THEN "Whole" ELSE @] PROVE RecInv'
    <3>8. rec' \in [Rec -> RecRecords] /\ \A q \in Rec : q # r => rec'[q] = rec[q]
      BY <1>9, <2>2, <1>0 DEF FinalizeWav, FilesOK, In, GoTo, RecRecords, RecStages
    <3>9. \A q \in Rec : q # r => disk'[q] = disk[q]
      BY <1>9, <2>2, <1>0 DEF FinalizeWav, NewWav
    <3>10. disk' \in [Rec -> FileRecords]
      BY <1>9, <2>2, <1>0 DEF FinalizeWav, FilesOK, In, NewWav, FileRecords, RecRecords
    <3>1. rec' \in [Rec -> RecRecords] /\ disk' \in [Rec -> FileRecords]
          /\ \A q \in Rec : q # r => rec'[q] = rec[q] /\ disk'[q] = disk[q]
      BY <3>8, <3>9, <3>10
    <3>2. rec'[r].stage = "Transcribe" /\ rec'[r].count = rec[r].count /\ rec'[r].kind = rec[r].kind
      BY <1>9, <2>2, <1>0 DEF FinalizeWav, In, GoTo, NewWav, RecRecords
    <3>3. disk'[r].samples = disk[r].samples /\ disk'[r].duration = disk[r].duration
        /\ disk'[r].meta = disk[r].meta
        /\ disk'[r].wav = IF disk[r].wav = "Open" THEN "Whole" ELSE disk[r].wav
      BY <1>9, <2>2, <1>0 DEF FinalizeWav, In, GoTo, NewWav, FileRecords
    <3>4. FilesOK(rec'[r], disk'[r], r \in reader, delete[r], r \in deleted)
      BY <1>9, <2>2, <1>0, <3>2, <3>3 DEF FinalizeWav, In, FilesOK, Over, RecRecords, FileRecords
    <3>5. active' \subseteq Rec /\ UNCHANGED stopper /\ Others
      BY <1>9, <2>2, <1>0 DEF FinalizeWav
    <3>6. OneActive'
      BY <1>0, <3>1, <3>2, <1>9, <2>2 DEF RecInv, OneActive, FinalizeWav
    <3>7. QED
      BY <1>0, <3>1, <3>4, <3>5, <3>6, RecMoves
  <2>3. QED
    BY <1>9, <2>1, <2>2 DEF FinalizeWav
<1>10. ASSUME NEW r \in Rec, Transcribe(r) PROVE RecInv'
  <2>8. rec' \in [Rec -> RecRecords] /\ \A q \in Rec : q # r => rec'[q] = rec[q]
    BY <1>10, <1>0, GoToType DEF Transcribe, RecStages
  <2>9. \A q \in Rec : q # r => disk'[q] = disk[q]
    BY <1>10, <1>0 DEF Transcribe, NewWav
  <2>10. disk' \in [Rec -> FileRecords]
    BY <1>10, <1>0 DEF Transcribe, FilesOK, In, NewWav, FileRecords, RecRecords
  <2>1. rec' \in [Rec -> RecRecords] /\ disk' \in [Rec -> FileRecords]
        /\ \A q \in Rec : q # r => rec'[q] = rec[q] /\ disk'[q] = disk[q]
    BY <2>8, <2>9, <2>10
  <2>2. rec'[r].stage = "Meta" /\ rec'[r].count = rec[r].count /\ rec'[r].kind = rec[r].kind
    BY <1>10, <1>0 DEF Transcribe, In, GoTo, NewWav, RecRecords
  <2>3. disk'[r].samples = disk[r].samples /\ disk'[r].duration = disk[r].duration
      /\ disk'[r].meta = disk[r].meta /\ disk'[r].wav = disk[r].wav
    BY <1>10, <1>0 DEF Transcribe, In, GoTo, NewWav, FileRecords
  <2>4. FilesOK(rec'[r], disk'[r], r \in reader, delete[r], r \in deleted)
    BY <1>10, <1>0, <2>2, <2>3 DEF Transcribe, In, FilesOK, Over, RecRecords, FileRecords
  <2>5. active' \subseteq Rec /\ UNCHANGED stopper /\ Others
    BY <1>10, <1>0 DEF Transcribe
  <2>6. OneActive'
    BY <1>0, <2>1, <2>2, <1>10 DEF RecInv, OneActive, Transcribe
  <2>7. QED
    BY <1>0, <2>1, <2>4, <2>5, <2>6, RecMoves
<1>11. ASSUME NEW r \in Rec, CreateMeta(r) PROVE RecInv'
  <2>1. ASSUME GoTo(r, "Failed"), UNCHANGED disk PROVE RecInv'
    BY <1>11, <2>1, <1>0, RecGoesOn DEF CreateMeta, RecStages
  <2>2. ASSUME GoTo(r, "WriteMeta"), disk' = [disk EXCEPT ![r].meta = "Empty"] PROVE RecInv'
    <3>8. rec' \in [Rec -> RecRecords] /\ \A q \in Rec : q # r => rec'[q] = rec[q]
      BY <1>11, <2>2, <1>0 DEF CreateMeta, FilesOK, In, GoTo, RecRecords, RecStages
    <3>9. \A q \in Rec : q # r => disk'[q] = disk[q]
      BY <1>11, <2>2, <1>0 DEF CreateMeta, NewWav
    <3>10. disk' \in [Rec -> FileRecords]
      BY <1>11, <2>2, <1>0 DEF CreateMeta, FilesOK, In, NewWav, FileRecords, RecRecords
    <3>1. rec' \in [Rec -> RecRecords] /\ disk' \in [Rec -> FileRecords]
          /\ \A q \in Rec : q # r => rec'[q] = rec[q] /\ disk'[q] = disk[q]
      BY <3>8, <3>9, <3>10
    <3>2. rec'[r].stage = "WriteMeta" /\ rec'[r].count = rec[r].count /\ rec'[r].kind = rec[r].kind
      BY <1>11, <2>2, <1>0 DEF CreateMeta, In, GoTo, NewWav, RecRecords
    <3>3. disk'[r].samples = disk[r].samples /\ disk'[r].duration = disk[r].duration
        /\ disk'[r].meta = "Empty" /\ disk'[r].wav = disk[r].wav
      BY <1>11, <2>2, <1>0 DEF CreateMeta, In, GoTo, NewWav, FileRecords
    <3>4. FilesOK(rec'[r], disk'[r], r \in reader, delete[r], r \in deleted)
      BY <1>11, <2>2, <1>0, <3>2, <3>3 DEF CreateMeta, In, FilesOK, Over, RecRecords, FileRecords
    <3>5. active' \subseteq Rec /\ UNCHANGED stopper /\ Others
      BY <1>11, <2>2, <1>0 DEF CreateMeta
    <3>6. OneActive'
      BY <1>0, <3>1, <3>2, <1>11, <2>2 DEF RecInv, OneActive, CreateMeta
    <3>7. QED
      BY <1>0, <3>1, <3>4, <3>5, <3>6, RecMoves
  <2>3. QED
    BY <1>11, <2>1, <2>2 DEF CreateMeta
<1>12. ASSUME NEW r \in Rec, WriteMeta(r) PROVE RecInv'
  <2>1. ASSUME GoTo(r, "Failed"), UNCHANGED disk PROVE RecInv'
    BY <1>12, <2>1, <1>0, RecGoesOn DEF WriteMeta, RecStages
  <2>2. ASSUME GoTo(r, "Done"),
               disk' = [disk EXCEPT ![r].meta = IF @ = "Empty" THEN "Full" ELSE @,
                                    ![r].duration = rec[r].count] PROVE RecInv'
    <3>8. rec' \in [Rec -> RecRecords] /\ \A q \in Rec : q # r => rec'[q] = rec[q]
      BY <1>12, <2>2, <1>0 DEF WriteMeta, FilesOK, In, GoTo, RecRecords, RecStages
    <3>9. \A q \in Rec : q # r => disk'[q] = disk[q]
      BY <1>12, <2>2, <1>0 DEF WriteMeta, NewWav
    <3>10. disk' \in [Rec -> FileRecords]
      <4> DEFINE d == [disk[r] EXCEPT !.meta = IF @ = "Empty" THEN "Full" ELSE @,
                                  !.duration = rec[r].count]
      <4>1. d \in FileRecords
        BY <1>0 DEF FileRecords, RecRecords
      <4>2. disk' = [disk EXCEPT ![r] = d]
        BY <2>2
      <4> HIDE DEF d
      <4>3. QED
        BY <1>0, <4>1, <4>2
    <3>1. rec' \in [Rec -> RecRecords] /\ disk' \in [Rec -> FileRecords]
          /\ \A q \in Rec : q # r => rec'[q] = rec[q] /\ disk'[q] = disk[q]
      BY <3>8, <3>9, <3>10
    <3>2. rec'[r].stage = "Done" /\ rec'[r].count = rec[r].count /\ rec'[r].kind = rec[r].kind
      BY <1>12, <2>2, <1>0 DEF WriteMeta, In, GoTo, NewWav, RecRecords
    <3>3. disk'[r].samples = disk[r].samples /\ disk'[r].duration = rec[r].count
        /\ disk'[r].wav = disk[r].wav
      BY <1>12, <2>2, <1>0 DEF WriteMeta, In, GoTo, NewWav, FileRecords
    <3>4. FilesOK(rec'[r], disk'[r], r \in reader, delete[r], r \in deleted)
      BY <1>12, <2>2, <1>0, <3>2, <3>3 DEF WriteMeta, In, FilesOK, Over, RecRecords, FileRecords
    <3>5. active' \subseteq Rec /\ UNCHANGED stopper /\ Others
      BY <1>12, <2>2, <1>0 DEF WriteMeta
    <3>6. OneActive'
      BY <1>0, <3>1, <3>2, <1>12, <2>2 DEF RecInv, OneActive, WriteMeta
    <3>7. QED
      BY <1>0, <3>1, <3>4, <3>5, <3>6, RecMoves
  <2>3. QED
    BY <1>12, <2>1, <2>2 DEF WriteMeta
<1>13. ASSUME NEW r \in Rec, StopTakes(r) PROVE RecInv'
  BY <1>13 DEF StopTakes, Others, RecInv, RecTypes, OneActive
<1>14. ASSUME NEW r \in Rec, StopNotifies(r) PROVE RecInv'
  <2>1. stopper' \in [Rec -> {"Idle", "Notify", "Join", "Gone"}]
    BY <1>14, <1>0 DEF StopNotifies
  <2>2. CASE In(r, "Wait")
    BY <1>14, <2>1, <2>2, <1>0, RecGoesOn DEF StopNotifies, In, RecStages
  <2>3. CASE ~In(r, "Wait")
    BY <1>14, <2>1, <2>3 DEF StopNotifies, Others, RecInv, RecTypes, OneActive
  <2>4. QED
    BY <2>2, <2>3
<1>15. ASSUME NEW r \in Rec, StopReturns(r) PROVE RecInv'
  <2>1. stopper' \in [Rec -> {"Idle", "Notify", "Join", "Gone"}]
    BY <1>15, <1>0 DEF StopReturns
  <2>2. QED
    BY <1>15, <2>1 DEF StopReturns, Others, RecInv, RecTypes, OneActive
<1>16. ASSUME NEW r \in Rec, DeleteStep(r) PROVE RecInv'
  <2>1. UNCHANGED <<rec, active, stopper, crashes, reader, torn>> /\ deleted' = deleted \cup {r}
    BY <1>16 DEF DeleteStep, Task
  <2>2. delete[r] \in {"Idle", "Wav", "Txt"} /\ delete \in [Rec -> {"Idle", "Wav", "Txt"}]
        /\ disk[r] \in FileRecords
    BY DEF RecInv, RecTypes
  <2>3. delete' \in [Rec -> {"Idle", "Wav", "Txt"}] /\ \A q \in Rec : q # r => delete'[q] = delete[q]
    BY <1>16, <2>2 DEF DeleteStep, DeleteNext
  <2>4. \/ disk' = disk
        \/ disk' = [disk EXCEPT ![r] = [disk[r] EXCEPT !.meta = "None"]]
        \/ disk' = [disk EXCEPT ![r] = [disk[r] EXCEPT !.wav = "None"]]
        \/ disk' = [disk EXCEPT ![r] = [disk[r] EXCEPT !.txt = FALSE]]
    BY <1>16, <2>2, <1>0 DEF DeleteStep
  <2>5. disk' \in [Rec -> FileRecords] /\ \A q \in Rec : q # r => disk'[q] = disk[q]
    <3>1. \A q \in Rec : q # r => disk'[q] = disk[q]
      BY <2>4, <1>0
    <3>2. [disk[r] EXCEPT !.meta = "None"] \in FileRecords
      BY <2>2 DEF FileRecords
    <3>3. [disk[r] EXCEPT !.wav = "None"] \in FileRecords
      BY <2>2 DEF FileRecords
    <3>4. [disk[r] EXCEPT !.txt = FALSE] \in FileRecords
      BY <2>2 DEF FileRecords
    <3>5. disk' \in [Rec -> FileRecords]
      BY <2>4, <1>0, <3>2, <3>3, <3>4
    <3>6. QED
      BY <3>1, <3>5
  <2>6. /\ disk'[r].samples = disk[r].samples /\ disk'[r].duration = disk[r].duration
        /\ disk'[r].meta = disk[r].meta \/ disk'[r].meta = "None"
        /\ disk'[r].wav = disk[r].wav \/ disk'[r].wav = "None"
    BY <2>4, <1>0 DEF FileRecords
  <2>7. FilesOK(rec[r], disk'[r], r \in reader, delete'[r], TRUE)
    BY <1>0, <2>6 DEF FilesOK
  <2>8. \A q \in Rec : FilesOK(rec[q], disk'[q], q \in reader, delete'[q], q \in deleted')
    <3>1. ASSUME NEW q \in Rec, q # r
          PROVE  FilesOK(rec[q], disk'[q], q \in reader, delete'[q], q \in deleted')
      <4>1. q \in deleted' <=> q \in deleted
        BY <2>1, <3>1
      <4>2. disk'[q] = disk[q] /\ delete'[q] = delete[q]
        BY <2>3, <2>5, <3>1
      <4>3. QED
        BY <1>0, <4>1, <4>2 DEF FilesOK
    <3>2. QED
      BY <2>1, <2>7, <3>1 DEF FilesOK
  <2>9. RecTypes' /\ OneActive'
    BY <2>1, <2>3, <2>5 DEF RecInv, RecTypes, OneActive
  <2>10. QED
    BY <2>1, <2>8, <2>9 DEF RecInv
<1>17. ASSUME NEW r \in Rec, ReadMeta(r) PROVE RecInv'
  <2>1. UNCHANGED <<rec, active, stopper, crashes, disk, delete, deleted, torn>> /\ reader' = {r}
    BY <1>17 DEF ReadMeta, Task
  <2>2. FilesOK(rec[r], disk[r], TRUE, delete[r], r \in deleted)
    BY <1>17, <1>0 DEF ReadMeta, Listed, FilesOK
  <2>3. \A q \in Rec : FilesOK(rec[q], disk[q], FALSE, delete[q], q \in deleted)
    BY <1>0 DEF FilesOK
  <2>4. \A q \in Rec : FilesOK(rec[q], disk[q], q \in reader', delete[q], q \in deleted)
    BY <2>1, <2>2, <2>3 DEF FilesOK
  <2>5. RecTypes' /\ OneActive'
    BY <2>1 DEF RecInv, RecTypes, OneActive
  <2>6. QED
    BY <2>1, <2>4, <2>5 DEF RecInv
<1>18. ASSUME NEW r \in Rec, ReadWav(r) PROVE RecInv'
  <2>1. UNCHANGED <<rec, active, stopper, crashes, disk, delete, deleted>> /\ reader' = {}
    BY <1>18 DEF ReadWav, Task
  <2>2. disk[r].wav # "Open" /\ torn' = {}
    BY <1>18, <1>0 DEF ReadWav, FilesOK, RecInv, RecTypes
  <2>3. \A q \in Rec : FilesOK(rec[q], disk[q], q \in reader', delete[q], q \in deleted)
    BY <1>0, <2>1 DEF FilesOK
  <2>4. RecTypes' /\ OneActive'
    BY <2>1, <2>2 DEF RecInv, RecTypes, OneActive
  <2>5. QED
    BY <2>1, <2>3, <2>4 DEF RecInv
<1>19. ASSUME RecCrash PROVE RecInv'
  <2>1. /\ active' = {} /\ reader' = {} /\ stopper' = [r \in Rec |-> "Gone"]
        /\ delete' = [r \in Rec |-> "Idle"] /\ UNCHANGED <<disk, deleted, torn>>
        /\ crashes' \in 0..Crashes
    BY <1>19 DEF RecCrash, RecInv, RecTypes
  <2>2. rec' \in [Rec -> RecRecords]
    BY <1>19, <1>0 DEF RecCrash, RecRecords, RecStages
  <2>3. \A q \in Rec : /\ rec'[q].count = rec[q].count
                        /\ rec'[q].stage = IF rec[q].stage = "None" THEN "None" ELSE "Failed"
    BY <1>19, <1>0 DEF RecCrash, RecRecords
  <2>4. ASSUME NEW q \in Rec PROVE FilesOK(rec'[q], disk[q], FALSE, "Idle", q \in deleted)
    <3>1. disk[q] \in FileRecords /\ rec[q] \in RecRecords
      BY <1>0
    <3>2. QED
      BY <1>0, <2>3, <3>1 DEF FilesOK, Over, RecRecords, FileRecords
  <2>5. ASSUME NEW q \in Rec
        PROVE  FilesOK(rec'[q], disk'[q], q \in reader', delete'[q], q \in deleted')
    BY <2>1, <2>4 DEF FilesOK
  <2>6. RecTypes' /\ OneActive'
    BY <2>1, <2>2 DEF RecInv, RecTypes, OneActive
  <2>7. QED
    BY <2>5, <2>6 DEF RecInv
<1>20. CASE UNCHANGED recVars
  BY <1>20 DEF recVars, RecInv, RecTypes, OneActive
<1>21. QED
  BY <1>1, <1>2, <1>3, <1>4, <1>5, <1>6, <1>7, <1>8, <1>9, <1>10, <1>11, <1>12, <1>13,
     <1>14, <1>15, <1>16, <1>17, <1>18, <1>19, <1>20
     DEF RecNext, RecTask, StopTask

\* What the proofs call RecInv is the type invariant and more.
LEMMA RecInvType == RecInv => RecTypeOK /\ ListedIsComplete
<1> SUFFICES ASSUME RecInv PROVE RecTypeOK /\ ListedIsComplete
  OBVIOUS
<1>1. Cardinality({r \in active : rec[r].kind = "Active"}) <= 1
  <2> DEFINE A == {r \in active : rec[r].kind = "Active"}
  <2>1. \A q, r \in A : q = r
    BY DEF RecInv, OneActive
  <2>2. CASE A = {}
    BY <2>2, FS_EmptySet
  <2>3. CASE A # {}
    <3>1. PICK a : A = {a}
      BY <2>1, <2>3
    <3> HIDE DEF A
    <3>2. Cardinality(A) = 1
      BY <3>1, FS_Singleton
    <3>3. QED
      BY <3>2 DEF A
  <2>4. QED
    BY <2>2, <2>3
<1>2. RecTypeOK
  BY <1>1 DEF RecInv, RecTypes, RecTypeOK, RecRecords, FileRecords
<1>3. ListedIsComplete
  BY DEF RecInv, RecTypes, FilesOK, ListedIsComplete, Listed
<1>4. QED
  BY <1>2, <1>3

-----------------------------------------------------------------------------
(* Requests inside a call                                                  *)

ChoreRecords == [stage : ChoreStages, send : Sendable, cseq : 0..MaxCSeq, ok : BOOLEAN]

\* What MidInv says of one task.
TaskOK(t, c) ==
    /\ c.stage \in {"Lock", "NgnSend", "NgnWait"} => t \in {"ExtRe", "ExtBye", "Refer"}
    /\ c.stage \in {"Build", "ExtSend", "ExtWait"} => t \in {"NgnRe", "NgnBye", "Refer"}
    /\ c.stage \in {"NgnSend", "NgnWait"} => locked = {t}
    /\ c.stage = "NgnSend" => ngnUnacked = {} /\ c.cseq \in 2..(ngnCSeq - 1) /\ c.cseq > ngnSeen
    /\ c.stage = "NgnWait" => ngnUnacked \subseteq {c.cseq}

\* A step of one task: it is enough to look at that task and at the dialogs, when
\* either no dialog changes or no other task holds the lock.
LEMMA OtherTasksKeep ==
    ASSUME MidInv, NEW t \in Chore,
           NEW c \in ChoreRecords, chore' = [chore EXCEPT ![t] = c],
           \/ UNCHANGED <<locked, ngnCSeq, ngnSeen, ngnUnacked>>
           \/ locked \subseteq {t} /\ locked' \subseteq {t},
           TaskOK(t, c)',
           locked' \subseteq {t} \/ locked' = locked,
           t \in locked' => c.stage \in {"NgnSend", "NgnWait"},
           locked' = {} => ngnUnacked' = {},
           ngnCSeq' \in 2..(MaxCSeq + 1), ngnSeen' \in 1..(ngnCSeq' - 1), ngnUnacked' \subseteq 2..MaxCSeq,
           callIs' \in {"Pending", "Up", "Gone"}, answered' \subseteq Chore,
           extCSeq' \in 1..(MaxCSeq + 1), extUnacked' \in BOOLEAN, ~disorder', disorder' \in BOOLEAN
    PROVE  MidInv'
<1>1. chore \in [Chore -> ChoreRecords]
  BY DEF MidInv, MidTypeOK, ChoreRecords
<1>2. chore' \in [Chore -> ChoreRecords] /\ chore'[t] = c /\ \A u \in Chore : u # t => chore'[u] = chore[u]
  BY <1>1
<1>3. ASSUME NEW u \in Chore, u # t PROVE TaskOK(u, chore[u])'
  <2>1. TaskOK(u, chore[u])
    BY DEF MidInv, RightDialog, LockHeld, NextIsNew, TaskOK
  <2>2. CASE UNCHANGED <<locked, ngnCSeq, ngnSeen, ngnUnacked>>
    BY <1>2, <1>3, <2>1, <2>2 DEF TaskOK
  <2>3. CASE locked \subseteq {t}
    <3>1. chore[u].stage \notin {"NgnSend", "NgnWait"}
      BY <1>3, <2>3 DEF MidInv, LockHeld
    <3>2. QED
      BY <1>2, <1>3, <2>1, <3>1 DEF TaskOK
  <2>4. QED
    BY <2>2, <2>3
<1>4. \A u \in Chore : TaskOK(u, chore[u])'
  BY <1>2, <1>3
<1>5. \A u \in locked' : chore'[u].stage \in {"NgnSend", "NgnWait"}
  <2>1. SUFFICES ASSUME NEW u \in locked' PROVE chore'[u].stage \in {"NgnSend", "NgnWait"}
    OBVIOUS
  <2>2. CASE u = t
    BY <1>2, <2>2
  <2>3. CASE u # t
    <3>1. u \in locked
      BY <2>3
    <3>2. u \in Chore /\ chore[u].stage \in {"NgnSend", "NgnWait"}
      BY <3>1 DEF MidInv, MidTypeOK, LockHeld
    <3>3. QED
      BY <1>2, <2>3, <3>2
  <2>4. QED
    BY <2>2, <2>3
<1>6. locked' \subseteq Chore /\ Cardinality(locked') <= 1
  <2>1. CASE locked' = locked
    BY <2>1 DEF MidInv, MidTypeOK
  <2>2. CASE locked' \subseteq {t}
    <3>1. locked' = {} \/ locked' = {t}
      BY <2>2
    <3>2. CASE locked' = {}
      BY <3>2, FS_EmptySet
    <3>3. CASE locked' = {t}
      <4>1. Cardinality({t}) = 1
        BY FS_Singleton
      <4>2. QED
        BY <3>3, <4>1
    <3>4. QED
      BY <3>1, <3>2, <3>3
  <2>3. QED
    BY <2>1, <2>2
<1>7. MidTypeOK'
  BY <1>2, <1>6 DEF MidTypeOK, ChoreRecords
<1>8. RightDialog' /\ LockHeld' /\ NextIsNew'
  <2>1. RightDialog'
    BY <1>4 DEF RightDialog, TaskOK
  <2>2. LockHeld'
    BY <1>4, <1>5 DEF LockHeld, TaskOK
  <2>3. NextIsNew'
    BY <1>4 DEF NextIsNew, TaskOK
  <2>4. QED
    BY <2>1, <2>2, <2>3
<1>9. QED
  BY <1>7, <1>8 DEF MidInv

\* What the steps write of a task is a record of a task.
LEMMA GoRecord ==
    ASSUME chore \in [Chore -> ChoreRecords], NEW t \in Chore, NEW s \in ChoreStages, Go(t, s)
    PROVE  \E c \in ChoreRecords : /\ chore' = [chore EXCEPT ![t] = c] /\ c.stage = s
                                   /\ s # "Done" => c.cseq = chore[t].cseq
<1>1. chore[t] \in ChoreRecords
  OBVIOUS
<1> DEFINE c == [chore[t] EXCEPT !.stage = s, !.cseq = IF s = "Done" THEN 0 ELSE @,
                                 !.send = IF s = "Done" THEN "None" ELSE @,
                                 !.ok = @ /\ s # "Done"]
<1>2. 0 \in 0..MaxCSeq /\ "None" \in Sendable /\ (chore[t].ok /\ s # "Done") \in BOOLEAN
  BY MidAssumption DEF Sendable
<1>3. c \in ChoreRecords /\ c.stage = s /\ (s # "Done" => c.cseq = chore[t].cseq)
  BY <1>1, <1>2 DEF ChoreRecords
<1>4. chore' = [chore EXCEPT ![t] = c]
  BY DEF Go
<1> HIDE DEF c
<1>5. QED
  BY <1>3, <1>4

\* The same of a task that is given something to send.
LEMMA GoSendRecord ==
    ASSUME chore \in [Chore -> ChoreRecords], NEW t \in Chore, NEW s \in ChoreStages,
           NEW m \in Sendable, GoSend(t, s, m)
    PROVE  \E c \in ChoreRecords : chore' = [chore EXCEPT ![t] = c] /\ c.stage = s
<1>1. chore[t] \in ChoreRecords
  OBVIOUS
<1> DEFINE c == [chore[t] EXCEPT !.stage = s, !.send = m]
<1>2. c \in ChoreRecords /\ c.stage = s
  BY <1>1 DEF ChoreRecords
<1>3. chore' = [chore EXCEPT ![t] = c]
  BY DEF GoSend
<1> HIDE DEF c
<1>4. QED
  BY <1>2, <1>3

\* A request of the dialog that the lock protects is built, sent and answered one
\* at a time, so the NGN sees them in the order of their numbers.
LEMMA MidStepInv == MidInv /\ [MidNext]_midVars => MidInv'
<1> SUFFICES ASSUME MidInv, [MidNext]_midVars PROVE MidInv'
  OBVIOUS
<1> USE MidAssumption
<1>0. /\ chore \in [Chore -> ChoreRecords]
      /\ callIs \in {"Pending", "Up", "Gone"} /\ answered \subseteq Chore /\ locked \subseteq Chore
      /\ extCSeq \in 1..(MaxCSeq + 1) /\ extUnacked \in BOOLEAN /\ ~disorder /\ disorder \in BOOLEAN
  BY DEF MidInv, MidTypeOK, ChoreRecords
<1>1. /\ ngnCSeq \in 2..(MaxCSeq + 1) /\ ngnSeen \in 1..(ngnCSeq - 1) /\ ngnUnacked \subseteq 2..MaxCSeq
      /\ locked = {} => ngnUnacked = {}
  BY DEF MidInv, MidTypeOK, NextIsNew
<1>2. \A t \in Chore : TaskOK(t, chore[t])
  BY DEF MidInv, RightDialog, LockHeld, NextIsNew, TaskOK
<1>3. \A t \in locked : chore[t].stage \in {"NgnSend", "NgnWait"}
  BY DEF MidInv, LockHeld
\* A task that does not hold the lock moves on, to a stage without it.
<1>4. ASSUME NEW t \in Chore, NEW c \in ChoreRecords, chore' = [chore EXCEPT ![t] = c],
             chore[t].stage \notin {"NgnSend", "NgnWait"}, c.stage \notin {"NgnSend", "NgnWait"},
             c.stage = "Lock" => t \in {"ExtRe", "ExtBye", "Refer"},
             c.stage \in {"Build", "ExtSend", "ExtWait"} => t \in {"NgnRe", "NgnBye", "Refer"},
             UNCHANGED <<locked, ngnCSeq, ngnSeen, ngnUnacked, disorder>>,
             callIs' \in {"Pending", "Up", "Gone"}, answered' \subseteq Chore,
             extCSeq' \in 1..(MaxCSeq + 1), extUnacked' \in BOOLEAN
      PROVE  MidInv'
  <2>1. t \notin locked
    BY <1>3, <1>4
  <2>2. TaskOK(t, c)'
    BY <1>4 DEF TaskOK
  <2>3. QED
    BY <1>0, <1>1, <1>4, <2>1, <2>2, OtherTasksKeep
\* The moves of such a task: by Go or by GoSend.
<1>5. ASSUME NEW t \in Chore, NEW s \in ChoreStages \ {"NgnSend", "NgnWait"},
             Go(t, s) \/ \E m \in Sendable : GoSend(t, s, m),
             chore[t].stage \notin {"NgnSend", "NgnWait"},
             s = "Lock" => t \in {"ExtRe", "ExtBye", "Refer"},
             s \in {"Build", "ExtSend", "ExtWait"} => t \in {"NgnRe", "NgnBye", "Refer"},
             UNCHANGED <<locked, ngnCSeq, ngnSeen, ngnUnacked, disorder, extCSeq>>,
             callIs' \in {"Pending", "Up", "Gone"}, answered' \subseteq Chore,
             extUnacked' \in BOOLEAN
      PROVE  MidInv'
  <2>1. PICK c \in ChoreRecords : chore' = [chore EXCEPT ![t] = c] /\ c.stage = s
    BY <1>0, <1>5, GoRecord, GoSendRecord
  <2>2. QED
    BY <1>0, <1>4, <1>5, <2>1
<1>6. CASE UNCHANGED midVars
  BY <1>6 DEF midVars, MidInv, MidTypeOK, RightDialog, LockHeld, NextIsNew
<1>7. CASE CallUp
  BY <1>7 DEF CallUp, Dialogs, MidInv, MidTypeOK, RightDialog, LockHeld, NextIsNew
<1>8. ASSUME NEW t \in Chore, MidHandle(t) PROVE MidInv'
  <2>1. CASE t = "ExtRe" /\ HandleExtReinvite
    <3>1. /\ \/ Go(t, "Done")
             \/ \E m \in Sendable : GoSend(t, "Lock", m)
          /\ Stands(t, "Idle") /\ Dialogs /\ callIs' \in {"Pending", "Up", "Gone"} /\ answered' \subseteq Chore
      BY <1>0, <2>1 DEF HandleExtReinvite, Answer, Sendable
    <3>2. PICK s \in {"Done", "Lock"} : Go(t, s) \/ \E m \in Sendable : GoSend(t, s, m)
      BY <3>1
    <3>3. QED
      BY <1>0, <1>5, <2>1, <3>1, <3>2 DEF Dialogs, Stands, ChoreStages
  <2>2. CASE t = "NgnRe" /\ HandleNgnReinvite
    <3>1. /\ \/ Go(t, "Done")
             \/ \E m \in Sendable : GoSend(t, "Build", m)
          /\ Stands(t, "Idle") /\ Dialogs /\ callIs' \in {"Pending", "Up", "Gone"} /\ answered' \subseteq Chore
      BY <1>0, <2>2 DEF HandleNgnReinvite, Answer, Sendable
    <3>2. PICK s \in {"Done", "Build"} : Go(t, s) \/ \E m \in Sendable : GoSend(t, s, m)
      BY <3>1
    <3>3. QED
      BY <1>0, <1>5, <2>2, <3>1, <3>2 DEF Dialogs, Stands, ChoreStages
  <2>3. CASE t = "ExtBye" /\ HandleExtBye
    <3>1. /\ \/ Go(t, "Done")
             \/ \E m \in Sendable : GoSend(t, "Lock", m)
          /\ Stands(t, "Idle") /\ Dialogs /\ callIs' \in {"Pending", "Up", "Gone"} /\ answered' \subseteq Chore
      BY <1>0, <2>3 DEF HandleExtBye, Answer, Sendable
    <3>2. PICK s \in {"Done", "Lock"} : Go(t, s) \/ \E m \in Sendable : GoSend(t, s, m)
      BY <3>1
    <3>3. QED
      BY <1>0, <1>5, <2>3, <3>1, <3>2 DEF Dialogs, Stands, ChoreStages
  <2>4. CASE t = "NgnBye" /\ HandleNgnBye
    <3>1. /\ \/ Go(t, "Done")
             \/ \E m \in Sendable : GoSend(t, "Build", m)
          /\ Stands(t, "Idle") /\ Dialogs /\ callIs' \in {"Pending", "Up", "Gone"} /\ answered' \subseteq Chore
      BY <1>0, <2>4 DEF HandleNgnBye, Answer, Sendable
    <3>2. PICK s \in {"Done", "Build"} : Go(t, s) \/ \E m \in Sendable : GoSend(t, s, m)
      BY <3>1
    <3>3. QED
      BY <1>0, <1>5, <2>4, <3>1, <3>2 DEF Dialogs, Stands, ChoreStages
  <2>5. CASE t = "Refer" /\ HandleExtRefer
    <3>1. /\ \/ Go(t, "Done")
             \/ \E m \in Sendable : GoSend(t, "Build", m)
          /\ Stands(t, "Idle") /\ Dialogs /\ callIs' \in {"Pending", "Up", "Gone"} /\ answered' \subseteq Chore
      BY <1>0, <2>5 DEF HandleExtRefer, Answer, Sendable
    <3>2. PICK s \in {"Done", "Build"} : Go(t, s) \/ \E m \in Sendable : GoSend(t, s, m)
      BY <3>1
    <3>3. QED
      BY <1>0, <1>5, <2>5, <3>1, <3>2 DEF Dialogs, Stands, ChoreStages
  <2>6. QED
    BY <1>8, <2>1, <2>2, <2>3, <2>4, <2>5 DEF MidHandle
<1>9. ASSUME NEW t \in Chore, t = "NgnRe", TakeContact PROVE MidInv'
  <2>1. Go(t, "Done") /\ Stands(t, "Contact") /\ Dialogs /\ callIs' = callIs /\ Answer(t)
    BY <1>9 DEF TakeContact
  <2>2. PICK s \in {"Done"} : Go(t, s)
    BY <2>1
  <2>3. QED
    BY <1>0, <1>5, <2>1, <2>2 DEF Dialogs, Answer, Stands, ChoreStages
<1>10. ASSUME NEW t \in Chore, t = "Refer", InviteTransferee PROVE MidInv'
  <2>1. PICK established \in BOOLEAN :
            chore' = [chore EXCEPT !["Refer"].stage = "Build", !["Refer"].send = "LastNOTIFY",
                                   !["Refer"].ok = established]
    BY <1>10 DEF InviteTransferee
  <2> DEFINE c == [chore[t] EXCEPT !.stage = "Build", !.send = "LastNOTIFY", !.ok = established]
  <2>2. chore[t] \in ChoreRecords
    BY <1>0
  <2>3. c \in ChoreRecords /\ c.stage = "Build"
    BY <2>2 DEF ChoreRecords, ChoreStages, Sendable
  <2>4. chore' = [chore EXCEPT ![t] = c]
    BY <1>10, <2>1
  <2> HIDE DEF c
  <2>5. QED
    BY <1>0, <1>4, <1>10, <2>3, <2>4 DEF InviteTransferee, Stands, Dialogs
<1>11. ASSUME NEW t \in Chore, t = "Refer", RemoveTransferred PROVE MidInv'
  <2>1. PICK s \in {"Done"} : Go(t, s)
    BY <1>11 DEF RemoveTransferred
  <2>2. QED
    BY <1>0, <1>5, <1>11, <2>1 DEF RemoveTransferred, Dialogs, Stands, ChoreStages
<1>12. ASSUME NEW t \in Chore, NgnBuild(t) PROVE MidInv'
  <2>1. ngnCSeq \in 0..MaxCSeq /\ "NgnSend" \in ChoreStages
    BY <1>1, <1>12 DEF NgnBuild, ChoreStages
  <2>2. PICK c \in ChoreRecords : chore' = [chore EXCEPT ![t] = c] /\ c.stage = "NgnSend" /\ c.cseq = ngnCSeq
    <3> DEFINE b == [chore[t] EXCEPT !.stage = "NgnSend", !.cseq = ngnCSeq]
    <3>1. chore[t] \in ChoreRecords
      BY <1>0
    <3>2. b \in ChoreRecords /\ b.stage = "NgnSend" /\ b.cseq = ngnCSeq
      BY <2>1, <3>1 DEF ChoreRecords
    <3>3. chore' = [chore EXCEPT ![t] = b]
      BY <1>12 DEF NgnBuild
    <3> HIDE DEF b
    <3>4. QED
      BY <3>2, <3>3
  <2>3. t \in {"ExtRe", "ExtBye", "Refer"} /\ ngnUnacked = {}
    BY <1>1, <1>2, <1>12 DEF NgnBuild, Stands, TaskOK
  <2>4. ngnCSeq' = ngnCSeq + 1 /\ ngnSeen' = ngnSeen /\ ngnUnacked' = {} /\ locked' = {t} /\ locked = {}
        /\ UNCHANGED <<callIs, answered, extCSeq, extUnacked, disorder>>
    BY <1>12, <2>3 DEF NgnBuild
  <2>5. TaskOK(t, c)'
    BY <1>1, <2>2, <2>3, <2>4 DEF TaskOK
  <2>6. ngnCSeq' \in 2..(MaxCSeq + 1) /\ ngnSeen' \in 1..(ngnCSeq' - 1)
    BY <1>1, <2>1, <2>4
  <2>7. QED
    BY <1>0, <2>2, <2>4, <2>5, <2>6, OtherTasksKeep
<1>13. ASSUME NEW t \in Chore, NgnSends(t) PROVE MidInv'
  <2>1. locked = {t} /\ ngnUnacked = {} /\ chore[t].cseq \in 2..(ngnCSeq - 1) /\ chore[t].cseq > ngnSeen
        /\ t \in {"ExtRe", "ExtBye", "Refer"}
    BY <1>2, <1>13 DEF NgnSends, Stands, TaskOK
  <2>2. PICK c \in ChoreRecords : chore' = [chore EXCEPT ![t] = c] /\ c.stage = "NgnWait" /\ c.cseq = chore[t].cseq
    <3>1. "NgnWait" \in ChoreStages
      BY DEF ChoreStages
    <3>2. QED
      BY <1>0, <1>13, <3>1, GoRecord DEF NgnSends
  <2>3. ~disorder' /\ disorder' \in BOOLEAN /\ ngnSeen' = chore[t].cseq
    <3>1. ~(chore[t].cseq <= ngnSeen)
      BY <1>1, <2>1
    <3>2. disorder' = (disorder \/ chore[t].cseq <= ngnSeen) /\ ngnSeen' = chore[t].cseq
      BY <1>13, <2>1 DEF NgnSends
    <3>3. QED
      BY <1>0, <3>1, <3>2
  <2>4. ngnUnacked' \subseteq {c.cseq}
    BY <1>13, <2>1, <2>2 DEF NgnSends
  <2>5. UNCHANGED <<callIs, answered, locked, ngnCSeq, extCSeq, extUnacked>>
    BY <1>13 DEF NgnSends
  <2>6. TaskOK(t, c)'
    BY <2>1, <2>2, <2>4, <2>5 DEF TaskOK
  <2>7. ngnSeen' \in 1..(ngnCSeq' - 1) /\ ngnUnacked' \subseteq 2..MaxCSeq
    BY <1>1, <2>1, <2>2, <2>3, <2>4, <2>5
  <2>8. QED
    BY <1>0, <1>1, <2>1, <2>2, <2>3, <2>5, <2>6, <2>7, OtherTasksKeep
<1>14. ASSUME NEW t \in Chore, ExtBuild(t) PROVE MidInv'
  <2>1. extCSeq \in 0..MaxCSeq /\ "ExtSend" \in ChoreStages /\ extCSeq' \in 1..(MaxCSeq + 1)
    BY <1>0, <1>14 DEF ExtBuild, ChoreStages
  <2>2. PICK c \in ChoreRecords : chore' = [chore EXCEPT ![t] = c] /\ c.stage = "ExtSend"
    <3> DEFINE b == [chore[t] EXCEPT !.stage = "ExtSend", !.cseq = extCSeq]
    <3>1. chore[t] \in ChoreRecords
      BY <1>0
    <3>2. b \in ChoreRecords /\ b.stage = "ExtSend" /\ b.cseq = extCSeq
      BY <2>1, <3>1 DEF ChoreRecords
    <3>3. chore' = [chore EXCEPT ![t] = b]
      BY <1>14 DEF ExtBuild
    <3> HIDE DEF b
    <3>4. QED
      BY <3>2, <3>3
  <2>3. t \in {"NgnRe", "NgnBye", "Refer"} /\ chore[t].stage = "Build"
    BY <1>2, <1>14 DEF ExtBuild, Stands, TaskOK
  <2>4. UNCHANGED <<callIs, answered, locked, ngnCSeq, ngnSeen, ngnUnacked, extUnacked, disorder>>
    BY <1>14 DEF ExtBuild
  <2>5. QED
    BY <1>0, <1>4, <2>1, <2>2, <2>3, <2>4
<1>15. ASSUME NEW t \in Chore, ExtSends(t) PROVE MidInv'
  <2>1. PICK s \in {"Remove", "ExtWait"} : Go(t, s)
    BY <1>15 DEF ExtSends
  <2>2. t \in {"NgnRe", "NgnBye", "Refer"} /\ chore[t].stage = "ExtSend"
    BY <1>2, <1>15 DEF ExtSends, Stands, TaskOK
  <2>3. QED
    BY <1>0, <1>5, <1>15, <2>1, <2>2 DEF ExtSends, Dialogs, ChoreStages
<1>16. ASSUME NEW t \in Chore, NgnReplies(t) PROVE MidInv'
  <2>1. locked = {t} /\ ngnUnacked \subseteq {chore[t].cseq} /\ t \in {"ExtRe", "ExtBye", "Refer"}
    BY <1>2, <1>16 DEF NgnReplies, Stands, TaskOK
  <2>2. locked' = {} /\ ngnUnacked' = {} /\ UNCHANGED <<callIs, ngnCSeq, extCSeq, ngnSeen, extUnacked, disorder>>
    BY <1>16, <2>1 DEF NgnReplies
  <2>3. answered' \subseteq Chore /\ \/ Go(t, "Done")
                                     \/ t = "Refer" /\ GoSend(t, "Build", "BYE")
    BY <1>0, <1>16, <2>1 DEF NgnReplies, Answer
  <2>4. {"Done", "Build"} \subseteq ChoreStages /\ "BYE" \in Sendable
    BY DEF ChoreStages, Sendable
  <2>5. PICK c \in ChoreRecords : /\ chore' = [chore EXCEPT ![t] = c]
                                  /\ c.stage = "Done" \/ (t = "Refer" /\ c.stage = "Build")
    BY <1>0, <2>3, <2>4, GoRecord, GoSendRecord
  <2>6. TaskOK(t, c)'
    BY <2>5 DEF TaskOK
  <2>7. QED
    BY <1>0, <1>1, <2>1, <2>2, <2>3, <2>5, <2>6, OtherTasksKeep
<1>17. ASSUME NEW t \in Chore, NEW r \in Replies, ExtReplies(t, r) PROVE MidInv'
  <2>1. t \in {"NgnRe", "NgnBye", "Refer"} /\ chore[t].stage = "ExtWait"
    BY <1>2, <1>17 DEF ExtReplies, Stands, TaskOK
  <2>2. extUnacked' \in BOOLEAN /\ UNCHANGED <<callIs, locked, ngnCSeq, extCSeq, ngnSeen, ngnUnacked, disorder>>
    BY <1>0, <1>17 DEF ExtReplies, ExtTwoHundred
  <2>3. answered' \subseteq Chore /\ \/ \E s \in {"Contact", "Done", "Invite"} : Go(t, s)
                                     \/ t = "Refer" /\ GoSend(t, "Lock", "BYE")
    BY <1>0, <1>17, <2>1 DEF ExtReplies, Answer
  <2>4. PICK s \in {"Contact", "Done", "Invite", "Lock"} :
            /\ Go(t, s) \/ \E m \in Sendable : GoSend(t, s, m)
            /\ s = "Lock" => t = "Refer"
    BY <2>3 DEF Sendable
  <2>5. QED
    BY <1>0, <1>5, <2>1, <2>2, <2>3, <2>4 DEF ChoreStages
<1>18. QED
  BY <1>6, <1>7, <1>8, <1>9, <1>10, <1>11, <1>12, <1>13, <1>14, <1>15, <1>16, <1>17
     DEF MidNext, MidStep

\* What the invariant says of the requests on the NGN's dialog.
LEMMA MidInvOrder == MidInv => MidTypeOK /\ NgnInOrder
<1> SUFFICES ASSUME MidInv PROVE NgnInOrder
  BY DEF MidInv
<1>1. ngnUnacked = {} \/ \E n : ngnUnacked = {n}
  <2>1. CASE locked = {}
    BY <2>1 DEF MidInv, NextIsNew
  <2>2. ASSUME NEW t \in locked PROVE ngnUnacked = {} \/ \E n : ngnUnacked = {n}
    <3>1. t \in Chore /\ chore[t].stage \in {"NgnSend", "NgnWait"}
      BY <2>2 DEF MidInv, MidTypeOK, LockHeld
    <3>2. ngnUnacked \subseteq {chore[t].cseq}
      BY <3>1 DEF MidInv, NextIsNew
    <3>3. QED
      BY <3>2
  <2>3. QED
    BY <2>1, <2>2
<1>2. Cardinality(ngnUnacked) <= 1
  <2>1. CASE ngnUnacked = {}
    BY <2>1, FS_EmptySet
  <2>2. ASSUME NEW n, ngnUnacked = {n} PROVE Cardinality(ngnUnacked) <= 1
    <3>1. Cardinality({n}) = 1
      BY FS_Singleton
    <3>2. QED
      BY <2>2, <3>1
  <2>3. QED
    BY <1>1, <2>1, <2>2
<1>3. ~disorder /\ \A t \in Chore : chore[t].stage = "NgnSend" => ngnUnacked = {}
  BY DEF MidInv, NextIsNew
<1>4. QED
  BY <1>2, <1>3 DEF NgnInOrder

\* Nobody has asked for anything yet.
LEMMA MidInitInv == MidInit => MidInv
<1> SUFFICES ASSUME MidInit PROVE MidInv
  OBVIOUS
<1>1. Cardinality({}) = 0
  BY FS_EmptySet
<1>2. MidTypeOK
  <2>1. [stage |-> "Idle", send |-> "None", cseq |-> 0, ok |-> FALSE] \in ChoreRecords
    BY MidAssumption DEF ChoreRecords, ChoreStages, Sendable
  <2>2. chore \in [Chore -> ChoreRecords] /\ extUnacked \in BOOLEAN /\ disorder \in BOOLEAN
    BY <2>1 DEF MidInit
  <2>3. ngnCSeq \in 2..(MaxCSeq + 1) /\ extCSeq \in 1..(MaxCSeq + 1) /\ ngnSeen \in 1..(ngnCSeq - 1)
    BY MidAssumption DEF MidInit
  <2>4. QED
    BY <1>1, <2>2, <2>3 DEF MidInit, MidTypeOK, ChoreRecords
<1>3. QED
  BY <1>2 DEF MidInit, MidInv, RightDialog, LockHeld, NextIsNew

-----------------------------------------------------------------------------
(* Calls of the browsers                                                   *)

CallTypes ==
    /\ task \in [Caller -> TaskStages]
    /\ far \in [Caller -> {"None", "Up", "Down"}]
    /\ entry \subseteq Caller /\ retried \subseteq Caller
    /\ media \in [Caller -> {"None", "Up", "Down"}]
    /\ inCalls \in Nat
    /\ journal \in [Caller -> {"None", "Open", "Failed", "Answered"}]

HoldTypes ==
    /\ unsure \subseteq Caller
    /\ hold \in [Caller -> BOOLEAN] /\ offered \in [Caller -> BOOLEAN]
    /\ farHold \in [Caller -> BOOLEAN] /\ asked \in [Caller -> BOOLEAN]
    /\ reinvite \in [Caller -> {"None", "Sent", "Commit"}]

OverTypes ==
    /\ closing \in [Caller -> {"None", "Bye", "Release"}]
    /\ ngnBye \in [Caller -> {"None", "Received", "Release", "Done"}]

\* At most two loops of a session wait for its Notify.
LEMMA TwoWaiters == \A s \in Session : Waiters(s) \in 0..2
<1> SUFFICES ASSUME NEW s \in Session PROVE Waiters(s) \in 0..2
  OBVIOUS
<1> DEFINE Both == {"loop", "keep"}
           W == {t \in Both : IF t = "loop" THEN recvLoop[s] = "Recv" ELSE keepalive[s] = "Wait"}
<1>1. IsFiniteSet(Both) /\ Cardinality(Both) = 2
  <2>1. IsFiniteSet({"loop"}) /\ Cardinality({"loop"}) = 1
    BY FS_Singleton
  <2>2. Both = {"loop"} \cup {"keep"} /\ "keep" \notin {"loop"}
    OBVIOUS
  <2>3. QED
    BY <2>1, <2>2, FS_AddElement
<1>2. W \subseteq Both
  OBVIOUS
<1> HIDE DEF W, Both
<1>3. IsFiniteSet(W) /\ Cardinality(W) <= Cardinality(Both)
  BY <1>1, <1>2, FS_Subset
<1>4. Cardinality(W) \in Nat
  BY <1>3, FS_CardinalityType
<1>5. Cardinality(W) \in 0..2
  BY <1>1, <1>3, <1>4
<1>6. QED
  BY <1>5 DEF Waiters, W, Both

\* The Notify keeps one permit more than it has waiters.
LEMMA PermitsBounded ==
    ASSUME permits \in [Session -> 0..3], NEW s \in Session,
           \/ \E n \in 1..2 : Notify(s, n)
           \/ LeavesSelect(s) \/ Notified(s)
    PROVE  permits' \in [Session -> 0..3]
<1>1. Waiters(s) \in 0..2
  BY TwoWaiters
<1>2. PICK n \in 0..3 : permits' = [permits EXCEPT ![s] = n]
  BY <1>1 DEF Notify, LeavesSelect, Notified, AtMost
<1>3. QED
  BY <1>2

\* The tables of the sessions.
LEMMA SessionStepType ==
    ASSUME SessionTypeOK, NEW s \in Session,
           \/ SessionEnv(s) \/ RecvTask(s) \/ KeepTask(s) \/ ForwarderFails(s)
    PROVE  SessionTypeOK'
<1> USE SessionAssumption
<1>1. permits' \in [Session -> 0..3]
  <2>1. permits \in [Session -> 0..3]
    BY DEF SessionTypeOK
  <2>2. \/ permits' = permits \/ LeavesSelect(s) \/ Notified(s)
        \/ \E n \in 1..2 : Notify(s, n)
    <3>1. CASE SessionEnv(s)
      BY <3>1 DEF SessionEnv, OpenSession, OtherFrame, RecordMessage, Register, ByeMessage, LoseNetwork, Frame
    <3>2. CASE RecvTask(s)
      BY <3>2 DEF RecvTask, RecordReplies, ByeUnregister, RecvEnds, ExitNotify, ExitUnregister
    <3>3. CASE KeepTask(s)
      BY <3>3 DEF KeepTask, KeepWakes, KeepPing
    <3>4. CASE ForwarderFails(s)
      BY <3>4 DEF ForwarderFails
    <3>5. QED
      BY <3>1, <3>2, <3>3, <3>4
  <2>3. QED
    BY <2>1, <2>2, PermitsBounded
<1>2. CASE SessionEnv(s)
  BY <1>1, <1>2 DEF SessionEnv, OpenSession, OtherFrame, RecordMessage, Register, ByeMessage,
                    LoseNetwork, Frame, LoopTo, LoopStages, SessionTypeOK
<1>3. CASE RecvTask(s)
  BY <1>1, <1>3 DEF RecvTask, RecordReplies, ByeUnregister, RecvEnds, ExitNotify, ExitUnregister,
                    Unregistered, LoopTo, LoopStages, SessionTypeOK
<1>4. CASE KeepTask(s)
  BY <1>1, <1>4 DEF KeepTask, KeepWakes, KeepPing, KeepTo, AtMost, SessionTypeOK
<1>5. CASE ForwarderFails(s)
  BY <1>1, <1>5 DEF ForwarderFails, SessionTypeOK
<1>6. QED
  BY <1>2, <1>3, <1>4, <1>5

\* The tables of the browsers' calls.
LEMMA PwaStepType == PwaTypeOK /\ [PwaNext]_pwaVars => PwaTypeOK'
<1> SUFFICES ASSUME PwaTypeOK, [PwaNext]_pwaVars PROVE PwaTypeOK'
  OBVIOUS
<1> USE PwaAssumption
<1>0. SessionTypeOK /\ CallTypes /\ HoldTypes /\ OverTypes
  BY DEF PwaTypeOK, CallTypes, HoldTypes, OverTypes
<1>1. SUFFICES SessionTypeOK' /\ CallTypes' /\ HoldTypes' /\ OverTypes'
  BY DEF PwaTypeOK, CallTypes, HoldTypes, OverTypes
<1>2. ASSUME UNCHANGED sessionVars PROVE SessionTypeOK'
  BY <1>0, <1>2 DEF sessionVars, SessionTypeOK
<1>3. ASSUME UNCHANGED callVars PROVE CallTypes'
  BY <1>0, <1>3 DEF callVars, CallTypes
<1>4. ASSUME UNCHANGED holdVars PROVE HoldTypes'
  BY <1>0, <1>4 DEF holdVars, HoldTypes
<1>5. ASSUME UNCHANGED overVars PROVE OverTypes'
  BY <1>0, <1>5 DEF overVars, OverTypes
<1>6. CASE UNCHANGED pwaVars
  BY <1>2, <1>3, <1>4, <1>5, <1>6 DEF pwaVars
<1>7. ASSUME NEW s \in Session, SessionEnv(s) \/ RecvTask(s) \/ KeepTask(s) \/ ForwarderFails(s), NotCalls
      PROVE  SessionTypeOK' /\ CallTypes' /\ HoldTypes' /\ OverTypes'
  BY <1>0, <1>3, <1>4, <1>5, <1>7, SessionStepType DEF NotCalls
\* The steps of the receive loop that belong to a call.
<1>8. ASSUME NEW s \in Session, recvLoop' = recvLoop \/ \E l \in LoopStages : LoopTo(s, l),
             UNCHANGED <<keepalive, forwarder, permits, quiet, socket, binding, hasAor>>
      PROVE  SessionTypeOK'
  BY <1>0, <1>8 DEF SessionTypeOK, LoopTo
<1>9. ASSUME NEW s \in Session, NothingToClose(s)
      PROVE  SessionTypeOK' /\ CallTypes' /\ HoldTypes' /\ OverTypes'
  BY <1>3, <1>4, <1>5, <1>8, <1>9 DEF NothingToClose, LoopAfterClose, Rest, LoopStages
<1>10. ASSUME NEW s \in Caller, CloseTakes(s)
       PROVE  SessionTypeOK' /\ CallTypes' /\ HoldTypes' /\ OverTypes'
  BY <1>0, <1>4, <1>8, <1>10 DEF CloseTakes, Rest, CallTypes, OverTypes
<1>11. ASSUME NEW s \in Caller, CloseSendsBye(s)
       PROVE  SessionTypeOK' /\ CallTypes' /\ HoldTypes' /\ OverTypes'
  BY <1>0, <1>4, <1>8, <1>11 DEF CloseSendsBye, Rest, FarTo, CallTypes, OverTypes
<1>12. ASSUME NEW s \in Caller, CloseReleases(s)
       PROVE  SessionTypeOK' /\ CallTypes' /\ HoldTypes' /\ OverTypes'
  BY <1>0, <1>4, <1>8, <1>12 DEF CloseReleases, Rest, LoopAfterClose, LoopStages, Ended, DecCalls,
                                 CallTypes, OverTypes
<1>13. ASSUME NEW s \in Caller, ReinviteReturns(s)
       PROVE  SessionTypeOK' /\ CallTypes' /\ HoldTypes' /\ OverTypes'
  <2>1. SessionTypeOK' /\ CallTypes' /\ OverTypes'
    BY <1>3, <1>5, <1>8, <1>13 DEF ReinviteReturns, LoopStages
  <2>2. HoldTypes'
    BY <1>0, <1>13 DEF ReinviteReturns, HoldTypes
  <2>3. QED
    BY <2>1, <2>2
<1>14. ASSUME NEW s \in Caller, HoldCommits(s)
       PROVE  SessionTypeOK' /\ CallTypes' /\ HoldTypes' /\ OverTypes'
  BY <1>0, <1>3, <1>5, <1>8, <1>14 DEF HoldCommits, LoopStages, HoldTypes
<1>15. ASSUME NEW s \in Session, ForwarderDrains(s)
       PROVE  SessionTypeOK' /\ CallTypes' /\ HoldTypes' /\ OverTypes'
  BY <1>0, <1>3, <1>4, <1>5, <1>15 DEF ForwarderDrains, SessionTypeOK
<1>16. ASSUME NEW s \in Caller, Frame(s), recvLoop' = recvLoop \/ LoopTo(s, "Busy"),
              UNCHANGED <<keepalive, forwarder, socket, binding, hasAor>>
       PROVE  SessionTypeOK'
  <2>1. permits' \in [Session -> 0..3]
    BY <1>0, <1>16, PermitsBounded DEF Frame, SessionTypeOK
  <2>2. quiet' \in [Session -> 0..IdleTicks]
    <3>1. 0 \in 0..IdleTicks
      BY SessionAssumption
    <3>2. QED
      BY <1>0, <1>16, <3>1 DEF Frame, SessionTypeOK
  <2>3. recvLoop' \in [Session -> LoopStages]
    BY <1>0, <1>16 DEF SessionTypeOK, LoopTo, LoopStages
  <2>4. QED
    BY <1>0, <1>16, <2>1, <2>2, <2>3 DEF SessionTypeOK
<1>17. ASSUME NEW s \in Caller, Offer(s)
       PROVE  SessionTypeOK' /\ CallTypes' /\ HoldTypes' /\ OverTypes'
  BY <1>0, <1>4, <1>5, <1>16, <1>17 DEF Offer, TaskTo, TaskStages, CallTypes
<1>18. ASSUME NEW s \in Caller, HoldAsked(s)
       PROVE  SessionTypeOK' /\ CallTypes' /\ HoldTypes' /\ OverTypes'
  <2>1. SessionTypeOK' /\ CallTypes' /\ OverTypes'
    BY <1>3, <1>5, <1>16, <1>18 DEF HoldAsked
  <2>2. HoldTypes'
    BY <1>0, <1>18 DEF HoldAsked, HoldTypes
  <2>3. QED
    BY <2>1, <2>2
<1>19. ASSUME NEW s \in Caller, TaskRuns(s)
       PROVE  SessionTypeOK' /\ CallTypes' /\ HoldTypes' /\ OverTypes'
  <2>1. SessionTypeOK' /\ HoldTypes' /\ OverTypes'
    BY <1>2, <1>4, <1>5, <1>19 DEF TaskRuns, InviteReturns, RetryFires, RetryReturns, AttachBridge,
                                   CountPwaCall, InsertEntry
  <2>2. CallTypes'
    BY <1>0, <1>19 DEF TaskRuns, InviteReturns, RetryFires, RetryReturns, AttachBridge, CountPwaCall,
                       InsertEntry, Fails, TaskTo, FarTo, TaskStages, CallTypes
  <2>3. QED
    BY <2>1, <2>2
<1>20. ASSUME NEW s \in Caller, NgnHangsUp(s) \/ ByeRunsPwa(s)
       PROVE  SessionTypeOK' /\ CallTypes' /\ HoldTypes' /\ OverTypes'
  <2>1. SessionTypeOK' /\ HoldTypes'
    BY <1>2, <1>4, <1>20 DEF NgnHangsUp, ByeRunsPwa, NgnByeTakes, NgnByeReleases
  <2>2. CallTypes' /\ OverTypes'
    BY <1>0, <1>20 DEF NgnHangsUp, ByeRunsPwa, NgnByeTakes, NgnByeReleases, FarTo, DecCalls, Ended,
                       CallTypes, OverTypes
  <2>3. QED
    BY <2>1, <2>2
<1>21. QED
  BY <1>6, <1>7, <1>9, <1>10, <1>11, <1>12, <1>13, <1>14, <1>15, <1>17, <1>18, <1>19, <1>20
     DEF PwaNext, RecvRuns, KeepRuns, ForwarderRuns

\* What PwaInv says of one caller.
CallerOK(s) ==
    /\ task[s] \in Before2xx => far[s] = "None" /\ ngnBye[s] = "None"
    /\ ngnBye[s] # "None" \/ closing[s] = "Release" => far[s] # "Up"
    /\ s \in entry \/ closing[s] # "None" \/ ngnBye[s] = "Release" => task[s] = "Done"
    /\ s \in entry => closing[s] = "None" /\ ngnBye[s] # "Release"
    /\ closing[s] # "None" => ngnBye[s] # "Release"
    /\ closing[s] # "None" => recvLoop[s] \in {"ByeClose", "ExitClose"}
    /\ reinvite[s] # "None" => recvLoop[s] = "Busy"
    /\ reinvite[s] # "Commit" /\ s \notin unsure => hold[s] = farHold[s] /\ offered[s] = farHold[s]
    /\ reinvite[s] = "Commit" => farHold[s] = asked[s]
    /\ far[s] = "Up" => s \in entry \/ task[s] \in {"Attach", "Count", "Insert"} \/ closing[s] = "Bye"

Counts(s) == task[s] = "Insert" \/ s \in entry \/ closing[s] # "None" \/ ngnBye[s] = "Release"

\* Nothing of the caller's call has changed.
SameCall(s) ==
    /\ task'[s] = task[s] /\ far'[s] = far[s] /\ (s \in entry' <=> s \in entry)
    /\ closing'[s] = closing[s] /\ ngnBye'[s] = ngnBye[s]
SameHold(s) ==
    /\ hold'[s] = hold[s] /\ offered'[s] = offered[s] /\ farHold'[s] = farHold[s]
    /\ (s \in unsure' <=> s \in unsure) /\ reinvite'[s] = reinvite[s] /\ asked'[s] = asked[s]

\* A step counts a call, takes one from the count, or does neither.
LEMMA CountMoves ==
    ASSUME inCalls = Cardinality(Live), NEW s \in Caller,
           \A q \in Caller : q # s => SameCall(q),
           \/ inCalls' = inCalls /\ (Counts(s)' <=> Counts(s))
           \/ inCalls' = inCalls + 1 /\ ~Counts(s) /\ Counts(s)'
           \/ DecCalls /\ Counts(s) /\ ~Counts(s)'
    PROVE  inCalls' = Cardinality(Live')
<1>1. IsFiniteSet(Caller)
  BY PwaAssumption, SessionAssumption, FS_Subset
<1>2. Live \subseteq Caller /\ IsFiniteSet(Live)
  BY <1>1, FS_Subset DEF Live
<1>3. Cardinality(Live) \in Nat
  BY <1>2, FS_CardinalityType
<1>4. \A q \in Caller : (q \in Live <=> Counts(q)) /\ (q \in Live' <=> Counts(q)')
  BY DEF Live, Counts
<1>5. \A q \in Caller : q # s => (q \in Live' <=> q \in Live)
  BY <1>4 DEF SameCall, Counts
<1>6. Live' \subseteq Caller
  BY DEF Live
<1>7. CASE inCalls' = inCalls /\ (Counts(s)' <=> Counts(s))
  <2>1. Live' = Live
    BY <1>2, <1>4, <1>5, <1>6, <1>7
  <2>2. QED
    BY <1>7, <2>1
<1>8. CASE inCalls' = inCalls + 1 /\ ~Counts(s) /\ Counts(s)'
  <2>1. Live' = Live \cup {s} /\ s \notin Live
    BY <1>2, <1>4, <1>5, <1>6, <1>8
  <2>2. Cardinality(Live \cup {s}) = Cardinality(Live) + 1
    BY <1>2, <2>1, FS_AddElement
  <2>3. QED
    BY <1>8, <2>1, <2>2
<1>9. CASE DecCalls /\ Counts(s) /\ ~Counts(s)'
  <2>1. Live' = Live \ {s} /\ s \in Live
    BY <1>2, <1>4, <1>5, <1>6, <1>9
  <2>2. Cardinality(Live \ {s}) = Cardinality(Live) - 1
    BY <1>2, <2>1, FS_RemoveElement
  <2>3. Cardinality(Live) # 0
    BY <1>2, <2>1, FS_EmptySet
  <2>4. QED
    BY <1>3, <1>9, <2>1, <2>2, <2>3 DEF DecCalls
<1>10. QED
  BY <1>7, <1>8, <1>9

\* A step about one caller: it is enough to look at that one.
LEMMA OtherCallsKeep ==
    ASSUME PwaInv, PwaTypeOK', NEW s \in Caller, CallerOK(s)',
           \A q \in Caller : q # s => SameCall(q) /\ SameHold(q) /\ recvLoop'[q] = recvLoop[q],
           \/ inCalls' = inCalls /\ (Counts(s)' <=> Counts(s))
           \/ inCalls' = inCalls + 1 /\ ~Counts(s) /\ Counts(s)'
           \/ DecCalls /\ Counts(s) /\ ~Counts(s)'
    PROVE  PwaInv'
<1>1. inCalls' = Cardinality(Live')
  BY CountMoves DEF PwaInv
<1>2. \A q \in Caller : CallerOK(q)
  BY DEF PwaInv, FarFollows, OneTakes, LoopIsBusy, HoldFollows, PwaCallFindable, CallerOK
<1>3. ASSUME NEW q \in Caller, q # s PROVE CallerOK(q)'
  <2>1. CallerOK(q) /\ SameCall(q) /\ SameHold(q) /\ recvLoop'[q] = recvLoop[q]
    BY <1>2, <1>3
  <2>2. QED
    BY <2>1 DEF CallerOK, SameCall, SameHold
<1>4. \A q \in Caller : CallerOK(q)'
  BY <1>3
<1>5. FarFollows' /\ OneTakes' /\ LoopIsBusy' /\ HoldFollows' /\ PwaCallFindable'
  BY <1>4 DEF FarFollows, OneTakes, LoopIsBusy, HoldFollows, PwaCallFindable, CallerOK
<1>6. QED
  BY <1>1, <1>5 DEF PwaInv

\* Every step of a session, of a call's task and of the NGN keeps the invariant.
LEMMA PwaStepInv == PwaInv /\ [PwaNext]_pwaVars => PwaInv'
<1> SUFFICES ASSUME PwaInv, [PwaNext]_pwaVars PROVE PwaInv'
  OBVIOUS
<1> USE PwaAssumption
<1>0. PwaTypeOK'
  BY PwaStepType DEF PwaInv
<1>1. SessionTypeOK /\ CallTypes /\ HoldTypes /\ OverTypes
  BY DEF PwaInv, PwaTypeOK, CallTypes, HoldTypes, OverTypes
<1>2. \A s \in Caller : CallerOK(s)
  BY DEF PwaInv, FarFollows, OneTakes, LoopIsBusy, HoldFollows, PwaCallFindable, CallerOK
<1>3. recvLoop \in [Session -> LoopStages] /\ inCalls \in Nat
  BY <1>1 DEF SessionTypeOK, CallTypes
\* A step that leaves the calls alone moves the receive loop only from a place
\* where it has nothing to do with a call.
<1>4. ASSUME NEW s \in Session, UNCHANGED <<callVars, holdVars, overVars>>,
             \/ recvLoop' = recvLoop
             \/ \E l \in LoopStages : LoopTo(s, l) /\ (s \in Caller => closing[s] = "None" /\ reinvite[s] = "None")
      PROVE  PwaInv'
  <2>1. \A q \in Caller : CallerOK(q)'
    BY <1>2, <1>3, <1>4 DEF CallerOK, callVars, holdVars, overVars, LoopTo
  <2>2. FarFollows' /\ OneTakes' /\ LoopIsBusy' /\ HoldFollows' /\ PwaCallFindable'
    BY <2>1 DEF FarFollows, OneTakes, LoopIsBusy, HoldFollows, PwaCallFindable, CallerOK
  <2>3. Live' = Live /\ inCalls' = inCalls
    BY <1>4 DEF Live, callVars, overVars
  <2>4. QED
    BY <1>0, <2>2, <2>3 DEF PwaInv
<1>5. CASE UNCHANGED pwaVars
  <2>1. UNCHANGED <<callVars, holdVars, overVars>> /\ recvLoop' = recvLoop
    BY <1>5 DEF pwaVars, sessionVars
  <2>2. \A q \in Caller : CallerOK(q)'
    BY <1>2, <2>1 DEF CallerOK, callVars, holdVars, overVars
  <2>3. FarFollows' /\ OneTakes' /\ LoopIsBusy' /\ HoldFollows' /\ PwaCallFindable'
    BY <2>2 DEF FarFollows, OneTakes, LoopIsBusy, HoldFollows, PwaCallFindable, CallerOK
  <2>4. Live' = Live /\ inCalls' = inCalls
    BY <2>1 DEF Live, callVars, overVars
  <2>5. QED
    BY <1>0, <2>3, <2>4 DEF PwaInv
<1>6. ASSUME NEW s \in Session, SessionEnv(s) \/ RecvTask(s) \/ KeepTask(s) \/ ForwarderFails(s), NotCalls
      PROVE  PwaInv'
  <2>1. \/ recvLoop' = recvLoop
        \/ /\ \E l \in LoopStages : LoopTo(s, l)
           /\ recvLoop[s] \in {"None", "Recv", "Record", "ByeUnregister", "Exit", "ExitUnregister"}
    <3>1. CASE SessionEnv(s)
      BY <3>1 DEF SessionEnv, OpenSession, OtherFrame, RecordMessage, Register, ByeMessage, LoseNetwork,
                  Frame, LoopStages
    <3>2. CASE RecvTask(s)
      BY <3>2 DEF RecvTask, RecordReplies, ByeUnregister, RecvEnds, ExitNotify, ExitUnregister, LoopStages
    <3>3. CASE KeepTask(s) \/ ForwarderFails(s)
      BY <3>3 DEF KeepTask, KeepWakes, KeepPing, ForwarderFails
    <3>4. QED
      BY <1>6, <3>1, <3>2, <3>3
  <2>2. s \in Caller => recvLoop[s] \in {"ByeClose", "ExitClose", "Busy"}
                        \/ (closing[s] = "None" /\ reinvite[s] = "None")
    BY <1>2 DEF CallerOK
  <2>3. QED
    BY <1>4, <1>6, <2>1, <2>2 DEF NotCalls
<1>7. ASSUME NEW s \in Session, NothingToClose(s) PROVE PwaInv'
  <2>1. \E l \in LoopStages : LoopTo(s, l)
    BY <1>7 DEF NothingToClose, LoopAfterClose, LoopStages
  <2>2. s \in Caller => closing[s] = "None" /\ reinvite[s] = "None"
    BY <1>2, <1>7 DEF NothingToClose, Closing, CallerOK
  <2>3. UNCHANGED <<callVars, holdVars, overVars>>
    BY <1>7 DEF NothingToClose, Rest
  <2>4. QED
    BY <1>4, <2>1, <2>2, <2>3
<1>8. ASSUME NEW s \in Session, ForwarderDrains(s) PROVE PwaInv'
  BY <1>4, <1>8 DEF ForwarderDrains
<1>9. ASSUME NEW s \in Caller, CloseTakes(s) PROVE PwaInv'
  <2>1. CallerOK(s)
    BY <1>2
  <2>2. \A q \in Caller : q # s => SameCall(q) /\ SameHold(q) /\ recvLoop'[q] = recvLoop[q]
    BY <1>1, <1>3, <1>9 DEF CloseTakes, Closing, Rest, SameCall, SameHold, CallTypes, HoldTypes, OverTypes,
          sessionVars, callVars, holdVars, overVars
  <2>3. CallerOK(s)'
    BY <1>1, <1>3, <1>9, <2>1 DEF CloseTakes, Closing, Rest, CallerOK, Before2xx, CallTypes, HoldTypes, OverTypes,
          sessionVars, callVars, holdVars, overVars
  <2>4. inCalls' = inCalls /\ (Counts(s)' <=> Counts(s))
    BY <1>1, <1>9, <2>1 DEF CloseTakes, Closing, Rest, CallerOK, Counts, CallTypes, OverTypes, callVars, overVars
  <2>5. QED
    BY <1>0, <2>2, <2>3, <2>4, OtherCallsKeep
<1>10. ASSUME NEW s \in Caller, CloseSendsBye(s) PROVE PwaInv'
  <2>1. CallerOK(s)
    BY <1>2
  <2>2. \A q \in Caller : q # s => SameCall(q) /\ SameHold(q) /\ recvLoop'[q] = recvLoop[q]
    BY <1>1, <1>3, <1>10 DEF CloseSendsBye, Rest, FarTo, SameCall, SameHold, CallTypes, HoldTypes, OverTypes,
          sessionVars, callVars, holdVars, overVars
  <2>3. CallerOK(s)'
    BY <1>1, <1>3, <1>10, <2>1 DEF CloseSendsBye, Rest, FarTo, CallerOK, Before2xx, CallTypes, HoldTypes, OverTypes,
          sessionVars, callVars, holdVars, overVars
  <2>4. inCalls' = inCalls /\ (Counts(s)' <=> Counts(s))
    BY <1>1, <1>10, <2>1 DEF CloseSendsBye, Rest, FarTo, CallerOK, Counts, CallTypes, OverTypes, callVars, overVars
  <2>5. QED
    BY <1>0, <2>2, <2>3, <2>4, OtherCallsKeep
<1>11. ASSUME NEW s \in Caller, CloseReleases(s) PROVE PwaInv'
  <2>1. CallerOK(s)
    BY <1>2
  <2>2. \A q \in Caller : q # s => SameCall(q) /\ SameHold(q) /\ recvLoop'[q] = recvLoop[q]
    BY <1>1, <1>3, <1>11 DEF CloseReleases, Rest, DecCalls, LoopAfterClose, LoopTo, SameCall, SameHold, CallTypes, HoldTypes, OverTypes,
          sessionVars, callVars, holdVars, overVars
  <2>3. CallerOK(s)'
    BY <1>1, <1>3, <1>11, <2>1 DEF CloseReleases, Rest, DecCalls, LoopAfterClose, LoopTo, CallerOK, Before2xx, CallTypes, HoldTypes, OverTypes,
          sessionVars, callVars, holdVars, overVars
  <2>4. DecCalls /\ Counts(s) /\ ~Counts(s)'
    BY <1>1, <1>11, <2>1 DEF CloseReleases, Rest, DecCalls, LoopAfterClose, LoopTo, CallerOK, Counts, CallTypes, OverTypes, callVars, overVars
  <2>5. QED
    BY <1>0, <2>2, <2>3, <2>4, OtherCallsKeep
<1>12. ASSUME NEW s \in Caller, ReinviteReturns(s) PROVE PwaInv'
  <2>1. CallerOK(s)
    BY <1>2
  <2>2. \A q \in Caller : q # s => SameCall(q) /\ SameHold(q) /\ recvLoop'[q] = recvLoop[q]
    BY <1>1, <1>3, <1>12 DEF ReinviteReturns, LoopTo, SameCall, SameHold, CallTypes, HoldTypes, OverTypes,
          sessionVars, callVars, holdVars, overVars
  <2>3. CallerOK(s)'
    BY <1>1, <1>3, <1>12, <2>1 DEF ReinviteReturns, LoopTo, CallerOK, Before2xx, CallTypes, HoldTypes, OverTypes,
          sessionVars, callVars, holdVars, overVars
  <2>4. inCalls' = inCalls /\ (Counts(s)' <=> Counts(s))
    BY <1>1, <1>12, <2>1 DEF ReinviteReturns, LoopTo, CallerOK, Counts, CallTypes, OverTypes, callVars, overVars
  <2>5. QED
    BY <1>0, <2>2, <2>3, <2>4, OtherCallsKeep
<1>13. ASSUME NEW s \in Caller, HoldCommits(s) PROVE PwaInv'
  <2>1. CallerOK(s)
    BY <1>2
  <2>2. \A q \in Caller : q # s => SameCall(q) /\ SameHold(q) /\ recvLoop'[q] = recvLoop[q]
    BY <1>1, <1>3, <1>13 DEF HoldCommits, LoopTo, SameCall, SameHold, CallTypes, HoldTypes, OverTypes,
          sessionVars, callVars, holdVars, overVars
  <2>3. CallerOK(s)'
    BY <1>1, <1>3, <1>13, <2>1 DEF HoldCommits, LoopTo, CallerOK, Before2xx, CallTypes, HoldTypes, OverTypes,
          sessionVars, callVars, holdVars, overVars
  <2>4. inCalls' = inCalls /\ (Counts(s)' <=> Counts(s))
    BY <1>1, <1>13, <2>1 DEF HoldCommits, LoopTo, CallerOK, Counts, CallTypes, OverTypes, callVars, overVars
  <2>5. QED
    BY <1>0, <2>2, <2>3, <2>4, OtherCallsKeep
<1>14. ASSUME NEW s \in Caller, Offer(s) PROVE PwaInv'
  <2>1. CallerOK(s)
    BY <1>2
  <2>2. \A q \in Caller : q # s => SameCall(q) /\ SameHold(q) /\ recvLoop'[q] = recvLoop[q]
    BY <1>1, <1>3, <1>14 DEF Offer, TaskTo, SameCall, SameHold, CallTypes, HoldTypes, OverTypes,
          sessionVars, callVars, holdVars, overVars
  <2>3. CallerOK(s)'
    BY <1>1, <1>3, <1>14, <2>1 DEF Offer, TaskTo, CallerOK, Before2xx, CallTypes, HoldTypes, OverTypes,
          sessionVars, callVars, holdVars, overVars
  <2>4. inCalls' = inCalls /\ (Counts(s)' <=> Counts(s))
    BY <1>1, <1>14, <2>1 DEF Offer, TaskTo, CallerOK, Counts, CallTypes, OverTypes, callVars, overVars
  <2>5. QED
    BY <1>0, <2>2, <2>3, <2>4, OtherCallsKeep
<1>15. ASSUME NEW s \in Caller, InviteReturns(s) PROVE PwaInv'
  <2>1. CallerOK(s)
    BY <1>2
  <2>2. \A q \in Caller : q # s => SameCall(q) /\ SameHold(q) /\ recvLoop'[q] = recvLoop[q]
    BY <1>1, <1>3, <1>15 DEF InviteReturns, TaskTo, FarTo, Fails, SameCall, SameHold, CallTypes, HoldTypes, OverTypes,
          sessionVars, callVars, holdVars, overVars
  <2>3. CallerOK(s)'
    BY <1>1, <1>3, <1>15, <2>1 DEF InviteReturns, TaskTo, FarTo, Fails, CallerOK, Before2xx, CallTypes, HoldTypes, OverTypes,
          sessionVars, callVars, holdVars, overVars
  <2>4. inCalls' = inCalls /\ (Counts(s)' <=> Counts(s))
    BY <1>1, <1>15, <2>1 DEF InviteReturns, TaskTo, FarTo, Fails, CallerOK, Counts, CallTypes, OverTypes, callVars, overVars
  <2>5. QED
    BY <1>0, <2>2, <2>3, <2>4, OtherCallsKeep
<1>16. ASSUME NEW s \in Caller, RetryFires(s) PROVE PwaInv'
  <2>1. CallerOK(s)
    BY <1>2
  <2>2. \A q \in Caller : q # s => SameCall(q) /\ SameHold(q) /\ recvLoop'[q] = recvLoop[q]
    BY <1>1, <1>3, <1>16 DEF RetryFires, TaskTo, Fails, SameCall, SameHold, CallTypes, HoldTypes, OverTypes,
          sessionVars, callVars, holdVars, overVars
  <2>3. CallerOK(s)'
    BY <1>1, <1>3, <1>16, <2>1 DEF RetryFires, TaskTo, Fails, CallerOK, Before2xx, CallTypes, HoldTypes, OverTypes,
          sessionVars, callVars, holdVars, overVars
  <2>4. inCalls' = inCalls /\ (Counts(s)' <=> Counts(s))
    BY <1>1, <1>16, <2>1 DEF RetryFires, TaskTo, Fails, CallerOK, Counts, CallTypes, OverTypes, callVars, overVars
  <2>5. QED
    BY <1>0, <2>2, <2>3, <2>4, OtherCallsKeep
<1>17. ASSUME NEW s \in Caller, RetryReturns(s) PROVE PwaInv'
  <2>1. CallerOK(s)
    BY <1>2
  <2>2. \A q \in Caller : q # s => SameCall(q) /\ SameHold(q) /\ recvLoop'[q] = recvLoop[q]
    BY <1>1, <1>3, <1>17 DEF RetryReturns, TaskTo, FarTo, Fails, SameCall, SameHold, CallTypes, HoldTypes, OverTypes,
          sessionVars, callVars, holdVars, overVars
  <2>3. CallerOK(s)'
    BY <1>1, <1>3, <1>17, <2>1 DEF RetryReturns, TaskTo, FarTo, Fails, CallerOK, Before2xx, CallTypes, HoldTypes, OverTypes,
          sessionVars, callVars, holdVars, overVars
  <2>4. inCalls' = inCalls /\ (Counts(s)' <=> Counts(s))
    BY <1>1, <1>17, <2>1 DEF RetryReturns, TaskTo, FarTo, Fails, CallerOK, Counts, CallTypes, OverTypes, callVars, overVars
  <2>5. QED
    BY <1>0, <2>2, <2>3, <2>4, OtherCallsKeep
<1>18. ASSUME NEW s \in Caller, AttachBridge(s) PROVE PwaInv'
  <2>1. CallerOK(s)
    BY <1>2
  <2>2. \A q \in Caller : q # s => SameCall(q) /\ SameHold(q) /\ recvLoop'[q] = recvLoop[q]
    BY <1>1, <1>3, <1>18 DEF AttachBridge, TaskTo, FarTo, SameCall, SameHold, CallTypes, HoldTypes, OverTypes,
          sessionVars, callVars, holdVars, overVars
  <2>3. CallerOK(s)'
    BY <1>1, <1>3, <1>18, <2>1 DEF AttachBridge, TaskTo, FarTo, CallerOK, Before2xx, CallTypes, HoldTypes, OverTypes,
          sessionVars, callVars, holdVars, overVars
  <2>4. inCalls' = inCalls /\ (Counts(s)' <=> Counts(s))
    BY <1>1, <1>18, <2>1 DEF AttachBridge, TaskTo, FarTo, CallerOK, Counts, CallTypes, OverTypes, callVars, overVars
  <2>5. QED
    BY <1>0, <2>2, <2>3, <2>4, OtherCallsKeep
<1>19. ASSUME NEW s \in Caller, CountPwaCall(s) PROVE PwaInv'
  <2>1. CallerOK(s)
    BY <1>2
  <2>2. \A q \in Caller : q # s => SameCall(q) /\ SameHold(q) /\ recvLoop'[q] = recvLoop[q]
    BY <1>1, <1>3, <1>19 DEF CountPwaCall, TaskTo, SameCall, SameHold, CallTypes, HoldTypes, OverTypes,
          sessionVars, callVars, holdVars, overVars
  <2>3. CallerOK(s)'
    BY <1>1, <1>3, <1>19, <2>1 DEF CountPwaCall, TaskTo, CallerOK, Before2xx, CallTypes, HoldTypes, OverTypes,
          sessionVars, callVars, holdVars, overVars
  <2>4. inCalls' = inCalls + 1 /\ ~Counts(s) /\ Counts(s)'
    BY <1>1, <1>19, <2>1 DEF CountPwaCall, TaskTo, CallerOK, Counts, CallTypes, OverTypes, callVars, overVars
  <2>5. QED
    BY <1>0, <2>2, <2>3, <2>4, OtherCallsKeep
<1>20. ASSUME NEW s \in Caller, InsertEntry(s) PROVE PwaInv'
  <2>1. CallerOK(s)
    BY <1>2
  <2>2. \A q \in Caller : q # s => SameCall(q) /\ SameHold(q) /\ recvLoop'[q] = recvLoop[q]
    BY <1>1, <1>3, <1>20 DEF InsertEntry, TaskTo, SameCall, SameHold, CallTypes, HoldTypes, OverTypes,
          sessionVars, callVars, holdVars, overVars
  <2>3. CallerOK(s)'
    BY <1>1, <1>3, <1>20, <2>1 DEF InsertEntry, TaskTo, CallerOK, Before2xx, CallTypes, HoldTypes, OverTypes,
          sessionVars, callVars, holdVars, overVars
  <2>4. inCalls' = inCalls /\ (Counts(s)' <=> Counts(s))
    BY <1>1, <1>20, <2>1 DEF InsertEntry, TaskTo, CallerOK, Counts, CallTypes, OverTypes, callVars, overVars
  <2>5. QED
    BY <1>0, <2>2, <2>3, <2>4, OtherCallsKeep
<1>21. ASSUME NEW s \in Caller, NgnHangsUp(s) PROVE PwaInv'
  <2>1. CallerOK(s)
    BY <1>2
  <2>2. \A q \in Caller : q # s => SameCall(q) /\ SameHold(q) /\ recvLoop'[q] = recvLoop[q]
    BY <1>1, <1>3, <1>21 DEF NgnHangsUp, FarTo, SameCall, SameHold, CallTypes, HoldTypes, OverTypes,
          sessionVars, callVars, holdVars, overVars
  <2>3. CallerOK(s)'
    BY <1>1, <1>3, <1>21, <2>1 DEF NgnHangsUp, FarTo, CallerOK, Before2xx, CallTypes, HoldTypes, OverTypes,
          sessionVars, callVars, holdVars, overVars
  <2>4. inCalls' = inCalls /\ (Counts(s)' <=> Counts(s))
    BY <1>1, <1>21, <2>1 DEF NgnHangsUp, FarTo, CallerOK, Counts, CallTypes, OverTypes, callVars, overVars
  <2>5. QED
    BY <1>0, <2>2, <2>3, <2>4, OtherCallsKeep
<1>22. ASSUME NEW s \in Caller, NgnByeTakes(s) PROVE PwaInv'
  <2>1. CallerOK(s)
    BY <1>2
  <2>2. \A q \in Caller : q # s => SameCall(q) /\ SameHold(q) /\ recvLoop'[q] = recvLoop[q]
    BY <1>1, <1>3, <1>22 DEF NgnByeTakes, SameCall, SameHold, CallTypes, HoldTypes, OverTypes,
          sessionVars, callVars, holdVars, overVars
  <2>3. CallerOK(s)'
    BY <1>1, <1>3, <1>22, <2>1 DEF NgnByeTakes, CallerOK, Before2xx, CallTypes, HoldTypes, OverTypes,
          sessionVars, callVars, holdVars, overVars
  <2>4. inCalls' = inCalls /\ (Counts(s)' <=> Counts(s))
    BY <1>1, <1>22, <2>1 DEF NgnByeTakes, CallerOK, Counts, CallTypes, OverTypes, callVars, overVars
  <2>5. QED
    BY <1>0, <2>2, <2>3, <2>4, OtherCallsKeep
<1>23. ASSUME NEW s \in Caller, NgnByeReleases(s) PROVE PwaInv'
  <2>1. CallerOK(s)
    BY <1>2
  <2>2. \A q \in Caller : q # s => SameCall(q) /\ SameHold(q) /\ recvLoop'[q] = recvLoop[q]
    BY <1>1, <1>3, <1>23 DEF NgnByeReleases, DecCalls, SameCall, SameHold, CallTypes, HoldTypes, OverTypes,
          sessionVars, callVars, holdVars, overVars
  <2>3. CallerOK(s)'
    BY <1>1, <1>3, <1>23, <2>1 DEF NgnByeReleases, DecCalls, CallerOK, Before2xx, CallTypes, HoldTypes, OverTypes,
          sessionVars, callVars, holdVars, overVars
  <2>4. DecCalls /\ Counts(s) /\ ~Counts(s)'
    BY <1>1, <1>23, <2>1 DEF NgnByeReleases, DecCalls, CallerOK, Counts, CallTypes, OverTypes, callVars, overVars
  <2>5. QED
    BY <1>0, <2>2, <2>3, <2>4, OtherCallsKeep
<1>24. ASSUME NEW s \in Caller, HoldAsked(s) PROVE PwaInv'
  <2>1. CallerOK(s)
    BY <1>2
  <2>2. \A q \in Caller : q # s => SameCall(q) /\ SameHold(q) /\ recvLoop'[q] = recvLoop[q]
    BY <1>1, <1>3, <1>24 DEF HoldAsked, Frame, LoopTo, SameCall, SameHold, CallTypes, HoldTypes, OverTypes,
          sessionVars, callVars, holdVars, overVars
  <2>3. CallerOK(s)'
    BY <1>1, <1>3, <1>24, <2>1 DEF HoldAsked, Frame, LoopTo, CallerOK, Before2xx, CallTypes, HoldTypes, OverTypes,
          sessionVars, callVars, holdVars, overVars
  <2>4. inCalls' = inCalls /\ (Counts(s)' <=> Counts(s))
    BY <1>1, <1>24, <2>1 DEF HoldAsked, Frame, LoopTo, CallerOK, Counts, CallTypes, OverTypes, callVars, overVars
  <2>5. QED
    BY <1>0, <2>2, <2>3, <2>4, OtherCallsKeep
<1>30. QED
  BY <1>5, <1>6, <1>7, <1>8, <1>9, <1>10, <1>11, <1>12, <1>13, <1>14, <1>15, <1>16, <1>17,
     <1>18, <1>19, <1>20, <1>21, <1>22, <1>23, <1>24
     DEF PwaNext, RecvRuns, KeepRuns, ForwarderRuns, TaskRuns, ByeRunsPwa

\* What the invariant says of the browsers' calls.
LEMMA PwaInvKept == PwaInv => PwaTypeOK /\ PwaCallsKept
<1> SUFFICES ASSUME PwaInv PROVE PwaCallsKept
  BY DEF PwaInv
<1>1. PwaGaugeExact
  BY DEF PwaInv, PwaGaugeExact, Live
<1>2. HoldAgrees
  BY DEF PwaInv, HoldFollows, HoldAgrees
<1>3. QED
  BY <1>1, <1>2 DEF PwaInv, PwaCallsKept

\* There are no calls at first.
LEMMA PwaInitInv == PwaInit => PwaInv
<1> SUFFICES ASSUME PwaInit PROVE PwaInv
  OBVIOUS
<1>1. SessionTypeOK
  BY SessionAssumption DEF PwaInit, SessionInit, SessionTypeOK, LoopStages
<1>2. PwaTypeOK
  BY <1>1 DEF PwaInit, PwaTypeOK, TaskStages
<1>3. FarFollows /\ OneTakes /\ LoopIsBusy /\ HoldFollows /\ PwaCallFindable
  BY DEF PwaInit, FarFollows, OneTakes, LoopIsBusy, HoldFollows, PwaCallFindable
<1>4. Live = {} /\ inCalls = 0
  BY DEF PwaInit, Live
<1>5. QED
  BY <1>2, <1>3, <1>4, FS_EmptySet DEF PwaInv

-----------------------------------------------------------------------------
(* The services together                                                   *)

\* The inductive invariant of all of them.
ServicesInv == PwaInv /\ RegInv /\ UasTypeOK /\ InternalInv /\ RecInv /\ MidInv

\* The registrar starts without a registration.
LEMMA RegInitInv == RegInit => RegInv
<1> SUFFICES ASSUME RegInit PROVE RegInv
  OBVIOUS
<1>1. regFlag \in BOOLEAN /\ regRoute \in BOOLEAN /\ regGood \in BOOLEAN
  BY DEF RegInit
<1>2. QED
  BY <1>1 DEF RegInit, RegInv, RegTypeOK, WakesInTime

\* No extension is bound at first.
LEMMA UasInitInv == UasInit => UasTypeOK
<1> SUFFICES ASSUME UasInit PROVE UasTypeOK
  OBVIOUS
<1>1. DOMAIN bindings = {}
  BY DEF UasInit
<1>2. Cardinality(Aor) \in Nat
  BY UasAssumption, FS_CardinalityType
<1>3. 0 \in 0..Cardinality(Aor) /\ 0 \in 0..Requests
  BY <1>2, UasAssumption
<1>4. QED
  BY <1>1, <1>3 DEF UasInit, UasTypeOK, Bound

\* No call between extensions has begun.
LEMMA InternalInitInv == InternalInit => InternalInv
<1> SUFFICES ASSUME InternalInit PROVE InternalInv
  OBVIOUS
<1>1. InternalTypeOK
  BY DEF InternalInit, InternalTypeOK, Kinds, InternalStages, PartyStates
<1>2. ASSUME NEW c \in InternalId PROVE CallOK(icall[c], c \in internal)
  <2>1. /\ icall[c].stage = "Idle" /\ icall[c].caller = "None" /\ icall[c].callee = "None"
        /\ ~icall[c].bridge /\ c \notin internal
    BY DEF InternalInit
  <2>2. QED
    BY <2>1 DEF CallOK, CallerTold, CalleeTold
<1>3. QED
  BY <1>1, <1>2 DEF InternalInv

\* Nothing is recorded at first.
LEMMA RecInitInv == RecInit => RecInv
<1> SUFFICES ASSUME RecInit PROVE RecInv
  OBVIOUS
<1>1. [kind |-> "Active", stage |-> "None", count |-> 0] \in RecRecords /\ NoFiles \in FileRecords
  BY RecAssumption DEF RecRecords, FileRecords, RecStages, NoFiles
<1>2. RecTypes
  BY <1>1, RecAssumption DEF RecInit, RecTypes
<1>3. ASSUME NEW r \in Rec PROVE FilesOK(rec[r], disk[r], r \in reader, delete[r], r \in deleted)
  BY DEF RecInit, FilesOK, NoFiles
<1>4. QED
  BY <1>2, <1>3 DEF RecInit, RecInv, OneActive

\* The invariant holds of the services' first states.
LEMMA ServicesInit == Init => ServicesInv
  BY PwaInitInv, RegInitInv, UasInitInv, InternalInitInv, RecInitInv, MidInitInv
     DEF Init, ServicesInv

\* A service's step keeps its own part, and the other parts for it touches none of
\* their variables.
LEMMA ServicesStep == ServicesInv /\ [Next]_vars => ServicesInv'
<1> SUFFICES ASSUME ServicesInv, [Next]_vars PROVE ServicesInv'
  OBVIOUS
<1>1. /\ [PwaNext]_pwaVars /\ [RegNext]_regVars /\ [UasNext]_uasVars
      /\ [InternalNext]_internalVars /\ [RecNext]_recVars /\ [MidNext]_midVars
  BY DEF Next, vars, PwaStep, RegStep, UasStep, InternalStep, RecStep, MidCallStep
<1>2. QED
  BY <1>1, PwaStepInv, RegStepInv, UasStepInv, InternalStepInv, RecStepInv, MidStepInv
     DEF ServicesInv

\* The invariant, for every number of sessions, extensions, calls, recordings and
\* requests.
LEMMA ServicesInvariant == Spec => []ServicesInv
<1>1. QED
  BY ServicesInit, ServicesStep, PTL DEF Spec

\* The tables of every service stay well typed: among other things, a Notify never
\* holds more than three permits, the count of registered extensions is never more
\* than there are, a call has at most one recording of its own, and at most one
\* task holds the NGN dialog's lock.
THEOREM ServicesTypeCorrect == Spec => []TypeOK
<1>1. ServicesInv => TypeOK
  BY PwaInvKept, RecInvType, MidInvOrder DEF ServicesInv, TypeOK, RegInv, InternalInv
<1>2. QED
  BY <1>1, ServicesInvariant, PTL

\* A browser's call that is up can be found by one of the two paths that end it, is
\* counted exactly once, and is on hold where the NGN has it on hold; requests
\* inside a call reach the NGN in the order of their CSeq, each acknowledged before
\* the next: for any number of browsers and requests and whether or not the NGN's
\* BYE overtakes the end of the call's task.
THEOREM ServiceCallsKept == Spec => []CallsKept
<1>1. ServicesInv => CallsKept
  BY PwaInvKept, MidInvOrder DEF ServicesInv, CallsKept
<1>2. QED
  BY <1>1, ServicesInvariant, PTL

\* While the registration task sleeps the gateway is registered: whatever the NGN
\* grants, the task wakes strictly before that is over.
THEOREM RegistrationTruthful == Spec => []RegisteredIsTrue
<1>1. ServicesInv => RegisteredIsTrue
  BY DEF ServicesInv, RegInv, RegTypeOK, WakesInTime, RegisteredIsTrue
<1>2. QED
  BY <1>1, ServicesInvariant, PTL

\* A recording that shows in the list has its whole audio, however long it is,
\* whatever write failed and wherever the gateway crashed, and nobody is ever given
\* an unfinished file.
THEOREM RecordingsComplete == Spec => []ListedIsComplete
<1>1. ServicesInv => ListedIsComplete
  BY RecInvType DEF ServicesInv
<1>2. QED
  BY <1>1, ServicesInvariant, PTL

\* A call between extensions that is over its set-up has both its parties, its
\* bridge and its entry, or none of them, whichever of its steps failed.
THEOREM InternalCallsWhole == Spec => [](\A c \in InternalId : At(c, "Done") => Whole(c))
<1>1. ServicesInv => \A c \in InternalId : At(c, "Done") => Whole(c)
  BY DEF ServicesInv, InternalInv, CallOK, At, Whole
<1>2. QED
  BY <1>1, ServicesInvariant, PTL
=============================================================================

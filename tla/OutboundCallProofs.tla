------------------------- MODULE OutboundCallProofs -------------------------
(* Proofs about OutboundCall, for any number of calls and extensions.      *)
EXTENDS OutboundCall, FiniteSetTheorems, TLAPS

\* The gauge's modulus is positive.
LEMMA WrapPositive == Wrap \in Nat /\ Wrap >= 1
  BY CallAssumption, FS_CardinalityType

\* Moving one closing task on keeps their table well typed.
LEMMA ClosesType ==
    ASSUME closing \in [Kinds -> [Request -> CloseStages]],
           NEW k \in Kinds, NEW r \in Request, NEW s \in CloseStages, Closes(k, r, s)
    PROVE  closing' \in [Kinds -> [Request -> CloseStages]]
  BY DEF Closes

\* and moves no other task.
LEMMA ClosesAt ==
    ASSUME closing \in [Kinds -> [Request -> CloseStages]],
           NEW k \in Kinds, NEW r \in Request, NEW s, Closes(k, r, s)
    PROVE  \A j \in Kinds, q \in Request :
               closing'[j][q] = IF j = k /\ q = r THEN s ELSE closing[j][q]
  BY DEF Closes

\* Every step keeps the type invariant.
LEMMA TypeStep == TypeOK /\ [Next]_vars => TypeOK'
<1> SUFFICES ASSUME TypeOK, [Next]_vars PROVE TypeOK'
  OBVIOUS
<1> USE CallAssumption, WrapPositive
    DEF TypeOK, Stages, Results, InProgress, Kinds, CloseStages, Outcomes, Finals,
        inviteVars, cancelVars, registry, legVars, To, Answers, RecordStart, RecordEnd,
        ReleaseNgn, Counts, RemoveByExt
<1>1. CASE UNCHANGED vars
  BY <1>1 DEF vars
<1>2. ASSUME NEW r \in Request, Receive(r) PROVE TypeOK'
  BY <1>2 DEF Receive
<1>3. ASSUME NEW r \in Request, Refuse(r) PROVE TypeOK'
  BY <1>3 DEF Refuse
<1>4. ASSUME NEW r \in Request, Start(r) PROVE TypeOK'
  BY <1>4 DEF Start
<1>5. ASSUME NEW r \in Request, NEW o \in Results, InviteResult(r, o) PROVE TypeOK'
  BY <1>5 DEF InviteResult, Returns
<1>6. ASSUME NEW r \in Request, NEW o \in Results, RetryResult(r, o) PROVE TypeOK'
  BY <1>6 DEF RetryResult, Returns
<1>7. ASSUME NEW r \in Request, RetryWake(r) PROVE TypeOK'
  BY <1>7 DEF RetryWake
<1>8. ASSUME NEW r \in Request, LoadFlag(r) PROVE TypeOK'
  BY <1>8 DEF LoadFlag
<1>9. ASSUME NEW r \in Request, TakePending(r) PROVE TypeOK'
  BY <1>9 DEF TakePending
<1>10. ASSUME NEW r \in Request, EstablishedCancelled(r) PROVE TypeOK'
  BY <1>10 DEF EstablishedCancelled
<1>11. ASSUME NEW r \in Request, Answer(r) PROVE TypeOK'
  BY <1>11 DEF Answer
<1>12. ASSUME NEW r \in Request, AnswerFails(r) PROVE TypeOK'
  BY <1>12 DEF AnswerFails
<1>13. ASSUME NEW r \in Request, InsertConfirmed(r) PROVE TypeOK'
  BY <1>13 DEF InsertConfirmed
<1>14. ASSUME NEW r \in Request, Failed(r) PROVE TypeOK'
  BY <1>14 DEF Failed
<1>15. ASSUME NEW r \in Request, Errored(r) PROVE TypeOK'
  BY <1>15, SMTT(30) DEF Errored
<1>16. ASSUME NEW c \in CallId, CancelLookup(c) PROVE TypeOK'
  BY <1>16 DEF CancelLookup, CancelTo
<1>17. ASSUME NEW c \in CallId, CancelFlag(c) PROVE TypeOK'
  BY <1>17 DEF CancelFlag, CancelTo
<1>18. ASSUME NEW c \in CallId, CancelAnswer(c) PROVE TypeOK'
  BY <1>18 DEF CancelAnswer, CancelTo
<1>19. ASSUME NEW c \in CallId, ExtBye(c) PROVE TypeOK'
  <2>1. CASE byExt[c] = None
    BY <1>19, <2>1 DEF ExtBye, HungUp
  <2>2. CASE byExt[c] # None
    <3>1. byExt[c] \in Request
      BY <2>2
    <3>2. closing' \in [Kinds -> [Request -> CloseStages]]
      BY <1>19, <2>2, <3>1, ClosesType DEF ExtBye
    <3>3. extDown' \subseteq Request
      BY <1>19 DEF ExtBye, HungUp
    <3>4. byExt' \in [CallId -> Request \cup {None}] /\ ngnToExt' \in [Request -> CallId \cup {None}]
      BY <1>19, <2>2, <3>1 DEF ExtBye
    <3>5. QED
      BY <1>19, <3>2, <3>3, <3>4 DEF ExtBye
  <2>3. QED
    BY <2>1, <2>2
<1>20. ASSUME NEW r \in Request, NgnBye(r) PROVE TypeOK'
  <2>1. CASE ngnToExt[r] = None \/ byExt[ngnToExt[r]] = None
    BY <1>20, <2>1 DEF NgnBye
  <2>2. CASE ~(ngnToExt[r] = None \/ byExt[ngnToExt[r]] = None)
    <3>1. ngnToExt[r] \in CallId /\ byExt[ngnToExt[r]] \in Request
      BY <2>2
    <3>2. closing' \in [Kinds -> [Request -> CloseStages]]
      BY <1>20, <2>2, <3>1, ClosesType DEF NgnBye
    <3>3. QED
      BY <1>20, <2>2, <3>1, <3>2, SMTT(30) DEF NgnBye
  <2>3. QED
    BY <2>1, <2>2
<1>21. ASSUME NEW a \in Aor, Unregister(a) PROVE TypeOK'
  BY <1>21 DEF Unregister, EntriesOf
<1>22. ASSUME NEW r \in Request, NextDrained(r) PROVE TypeOK'
  BY <1>22 DEF NextDrained, Closes
<1>23. ASSUME NEW c \in CallId, ReferStart(c) PROVE TypeOK'
  BY <1>23 DEF ReferStart, Closes
<1>24. ASSUME NEW r \in Request, NEW s \in {"Bye", "Done"}, ReferOutcome(r, s) PROVE TypeOK'
  BY <1>24 DEF ReferOutcome, Closes
<1>25. ASSUME NEW r \in Request, RemoveTransferred(r) PROVE TypeOK'
  BY <1>25, SMTT(30) DEF RemoveTransferred, Closes
<1>26. ASSUME NEW k \in Kinds, NEW r \in Request, SendBye(k, r) PROVE TypeOK'
  BY <1>26, SMTT(30) DEF SendBye, Closes
<1>27. ASSUME NEW k \in Kinds, NEW r \in Request, DecLoad(k, r) PROVE TypeOK'
  <2>1. closing' \in [Kinds -> [Request -> CloseStages]]
    BY <1>27, ClosesType DEF DecLoad, Closed
  <2>2. log' \in [CallId -> Outcomes \cup {"None", "Open"}]
    BY <1>27 DEF DecLoad, Closed
  <2>3. QED
    BY <1>27, <2>1, <2>2 DEF DecLoad
<1>28. ASSUME NEW k \in Kinds, NEW r \in Request, DecSub(k, r) PROVE TypeOK'
  <2>1. closing' \in [Kinds -> [Request -> CloseStages]]
    BY <1>28, ClosesType DEF DecSub, Closed
  <2>2. log' \in [CallId -> Outcomes \cup {"None", "Open"}]
    BY <1>28 DEF DecSub, Closed
  <2>3. gauge' \in Nat
    BY <1>28 DEF DecSub
  <2>4. QED
    BY <1>28, <2>1, <2>2, <2>3 DEF DecSub
<1> HIDE DEF TypeOK, Kinds, Results
<1>29. QED
  BY <1>1, <1>2, <1>3, <1>4, <1>5, <1>6, <1>7, <1>8, <1>9, <1>10, <1>11, <1>12, <1>13,
     <1>14, <1>15, <1>16, <1>17, <1>18, <1>19, <1>20, <1>21, <1>22, <1>23, <1>24, <1>25,
     <1>26, <1>27, <1>28
     DEF Next, Event, InviteStep, CancelStep, CloseStep

\* Every value handle_invite, the CANCEL handler, the closing tasks and the
\* registry hold has its type, in every reachable state.
THEOREM TypeCorrect == Spec => []TypeOK
<1>1. Init => TypeOK
  BY CallAssumption
     DEF Init, TypeOK, Stages, Results, Kinds, CloseStages, Outcomes, Finals
<1>2. QED
  BY <1>1, TypeStep, PTL DEF Spec

\* No INVITE is handled twice (a retransmission would share its Call-ID).
NoRetransmission == \A q, r \in Request : CallOf[q] = CallOf[r] => q = r

\* A task that uncounts a call disturbs nothing the dialogs depend on.
LEMMA UncountStep ==
    ASSUME TypeOK, DialogInv, NEW k \in Kinds, NEW r \in Request,
           closing[k][r] \in {"Dec", "Sub"}, closing'[k][r] \in {"Sub", "Done"},
           \A j \in Kinds, q \in Request : ~(j = k /\ q = r) => closing'[j][q] = closing[j][q],
           UNCHANGED <<inviteVars, registry, ngn>>
    PROVE  DialogInv'
<1> USE DEF inviteVars, registry
<1>1. stage[r] = "Done"
  BY DEF DialogInv, ClosingIsDone
<1>2. RegistryInverse'
  BY DEF DialogInv, RegistryInverse
<1>3. EntryOfCall'
  BY DEF DialogInv, EntryOfCall
<1>4. ClosingIsDone'
  BY <1>1 DEF DialogInv, ClosingIsDone
<1>5. DialogAfter2xx'
  <2> SUFFICES ASSUME NEW q \in Request, closing'["Refer"][q] = "Remove"
               PROVE  ngn[q] # "Up"
    BY DEF DialogInv, DialogAfter2xx
  <2>1. closing["Refer"][q] = "Remove"
    BY DEF Kinds
  <2>2. QED
    BY <2>1 DEF DialogInv, DialogAfter2xx
<1>6. NoForgottenDialog'
  <2> SUFFICES ASSUME NEW q \in Request, ngn[q] = "Up", stage[q] = "Done",
                      byExt[CallOf[q]] # q
               PROVE  ByeDue(q)'
    BY DEF NoForgottenDialog
  <2>1. PICK j \in Kinds \ {"NgnBye"} : closing[j][q] \in {"Drained", "Bye"}
    BY DEF DialogInv, NoForgottenDialog, ByeDue
  <2>2. closing'[j][q] \in {"Drained", "Bye"}
    BY <2>1
  <2>3. QED
    BY <2>1, <2>2 DEF ByeDue
<1>7. QED
  BY <1>2, <1>3, <1>4, <1>5, <1>6 DEF DialogInv

\* Every step keeps the registry's maps inverse and every dialog remembered.
LEMMA DialogStep ==
    ASSUME NoRetransmission, TypeOK, DialogInv, [Next]_vars
    PROVE  DialogInv'
<1> USE CallAssumption
    DEF NoRetransmission, TypeOK, Stages, InProgress, Kinds, CloseStages, DialogInv,
        RegistryInverse, EntryOfCall, ClosingIsDone, DialogAfter2xx, NoForgottenDialog, ByeDue,
        inviteVars, cancelVars, registry, legVars, To, ReleaseNgn, RemoveByExt
<1>1. CASE UNCHANGED vars
  BY <1>1 DEF vars
<1>2. ASSUME NEW r \in Request, Receive(r) PROVE DialogInv'
  BY <1>2 DEF Receive
<1>3. ASSUME NEW r \in Request, Refuse(r) PROVE DialogInv'
  BY <1>3 DEF Refuse
<1>4. ASSUME NEW r \in Request, Start(r) PROVE DialogInv'
  BY <1>4 DEF Start
<1>5. ASSUME NEW r \in Request, NEW o \in Results, InviteResult(r, o) PROVE DialogInv'
  BY <1>5 DEF InviteResult, Returns
<1>6. ASSUME NEW r \in Request, NEW o \in Results, RetryResult(r, o) PROVE DialogInv'
  BY <1>6 DEF RetryResult, Returns
<1>7. ASSUME NEW r \in Request, RetryWake(r) PROVE DialogInv'
  BY <1>7 DEF RetryWake
<1>8. ASSUME NEW r \in Request, LoadFlag(r) PROVE DialogInv'
  BY <1>8 DEF LoadFlag
<1>9. ASSUME NEW r \in Request, TakePending(r) PROVE DialogInv'
  BY <1>9 DEF TakePending
<1>10. ASSUME NEW r \in Request, EstablishedCancelled(r) PROVE DialogInv'
  BY <1>10 DEF EstablishedCancelled
<1>11. ASSUME NEW r \in Request, Answer(r) PROVE DialogInv'
  BY <1>11 DEF Answer
<1>12. ASSUME NEW r \in Request, AnswerFails(r) PROVE DialogInv'
  BY <1>12 DEF AnswerFails
<1>13. ASSUME NEW r \in Request, InsertConfirmed(r) PROVE DialogInv'
  BY <1>13 DEF InsertConfirmed
<1>14. ASSUME NEW r \in Request, Failed(r) PROVE DialogInv'
  <2>1. RegistryInverse'
    BY <1>14 DEF Failed
  <2>2. EntryOfCall'
    BY <1>14 DEF Failed
  <2>3. ClosingIsDone'
    BY <1>14 DEF Failed
  <2>4. DialogAfter2xx'
    BY <1>14 DEF Failed
  <2>5. NoForgottenDialog'
    <3> SUFFICES ASSUME NEW q \in Request,
                      ngn'[q] = "Up", stage'[q] = "Done"
               PROVE  byExt'[CallOf[q]] = q \/ ByeDue(q)'
      OBVIOUS
    <3>1. ngn[q] = "Up" /\ stage[q] = "Done"
      BY <1>14 DEF Failed
    <3>2. CASE byExt[CallOf[q]] = q
      BY <1>14, <3>1, <3>2 DEF Failed
    <3>3. CASE ByeDue(q)
      <4>1. PICK j \in Kinds \ {"NgnBye"} : closing[j][q] \in {"Drained", "Bye"}
        BY <3>3
      <4>2. closing'[j][q] \in {"Drained", "Bye"}
        BY <1>14, <3>1, <4>1 DEF Failed
      <4>3. QED
        BY <4>1, <4>2
    <3>4. QED
      BY <3>1, <3>2, <3>3
  <2>6. QED
    BY <2>1, <2>2, <2>3, <2>4, <2>5
<1>15. ASSUME NEW r \in Request, Errored(r) PROVE DialogInv'
  BY <1>15 DEF Errored
<1>16. ASSUME NEW c \in CallId, CancelLookup(c) PROVE DialogInv'
  BY <1>16 DEF CancelLookup, CancelTo
<1>17. ASSUME NEW c \in CallId, CancelFlag(c) PROVE DialogInv'
  BY <1>17 DEF CancelFlag, CancelTo
<1>18. ASSUME NEW c \in CallId, CancelAnswer(c) PROVE DialogInv'
  BY <1>18 DEF CancelAnswer, CancelTo
<1>19. ASSUME NEW c \in CallId, ExtBye(c) PROVE DialogInv'
  <2>1. CASE byExt[c] = None
    BY <1>19, <2>1 DEF ExtBye
  <2>2. CASE byExt[c] # None
    <3>1. byExt[c] \in Request /\ CallOf[byExt[c]] = c /\ stage[byExt[c]] = "Done"
      BY <2>2
    <3>2. \A j \in Kinds, q \in Request :
             closing'[j][q] = IF j = "ExtBye" /\ q = byExt[c] THEN "Bye" ELSE closing[j][q]
      BY <1>19, <2>2, <3>1, ClosesAt DEF ExtBye
    <3>3. RegistryInverse'
      BY <1>19, <2>2, <3>1 DEF ExtBye
    <3>4. EntryOfCall'
      BY <1>19, <2>2, <3>1 DEF ExtBye
    <3>5. ClosingIsDone' /\ DialogAfter2xx'
      BY <1>19, <3>1, <3>2 DEF ExtBye
    <3>6. NoForgottenDialog'
      <4> SUFFICES ASSUME NEW q \in Request,
                      ngn'[q] = "Up", stage'[q] = "Done"
               PROVE  byExt'[CallOf[q]] = q \/ ByeDue(q)'
        OBVIOUS
      <4>1. ngn[q] = "Up" /\ stage[q] = "Done"
        BY <1>19, <2>2, <3>1, <3>2 DEF ExtBye
      <4>2. CASE byExt[CallOf[q]] = q
        BY <1>19, <2>2, <3>1, <3>2, <4>1, <4>2 DEF ExtBye
      <4>3. CASE ByeDue(q)
        <5>1. PICK j \in Kinds \ {"NgnBye"} : closing[j][q] \in {"Drained", "Bye"}
          BY <4>3
        <5>2. closing'[j][q] \in {"Drained", "Bye"}
          BY <1>19, <2>2, <3>1, <3>2, <4>1, <5>1 DEF ExtBye
        <5>3. QED
          BY <5>1, <5>2
      <4>4. QED
        BY <4>1, <4>2, <4>3
    <3>7. QED
      BY <3>3, <3>4, <3>5, <3>6
  <2>3. QED
    BY <2>1, <2>2
<1>20. ASSUME NEW r \in Request, NgnBye(r) PROVE DialogInv'
  <2>1. CASE ngnToExt[r] = None \/ byExt[ngnToExt[r]] = None
    <3>1. UNCHANGED <<inviteVars, registry, closing>> /\ ngn' = [ngn EXCEPT ![r] = "Down"]
      BY <1>20, <2>1 DEF NgnBye
    <3>2. RegistryInverse' /\ EntryOfCall' /\ ClosingIsDone'
      BY <3>1
    <3>3. DialogAfter2xx'
      BY <1>20, <3>1 DEF NgnBye
    <3>4. NoForgottenDialog'
      BY <3>1
    <3>5. QED
      BY <3>2, <3>3, <3>4
  <2>2. CASE ~(ngnToExt[r] = None \/ byExt[ngnToExt[r]] = None)
    <3>1. ngnToExt[r] \in CallId /\ byExt[ngnToExt[r]] = r /\ stage[r] = "Done"
      BY <2>2
    <3>2. \A j \in Kinds, q \in Request :
             closing'[j][q] = IF j = "NgnBye" /\ q = r THEN "Bye" ELSE closing[j][q]
      BY <1>20, <2>2, <3>1, ClosesAt DEF NgnBye
    <3>3. RegistryInverse'
      BY <1>20, <2>2, <3>1 DEF NgnBye
    <3>4. EntryOfCall'
      BY <1>20, <2>2, <3>1 DEF NgnBye
    <3>5. ClosingIsDone' /\ DialogAfter2xx'
      BY <1>20, <3>1, <3>2 DEF NgnBye
    <3>6. NoForgottenDialog'
      <4> SUFFICES ASSUME NEW q \in Request,
                      ngn'[q] = "Up", stage'[q] = "Done"
               PROVE  byExt'[CallOf[q]] = q \/ ByeDue(q)'
        OBVIOUS
      <4>1. ngn[q] = "Up" /\ stage[q] = "Done"
        BY <1>20, <2>2, <3>1, <3>2 DEF NgnBye
      <4>2. CASE byExt[CallOf[q]] = q
        BY <1>20, <2>2, <3>1, <3>2, <4>1, <4>2 DEF NgnBye
      <4>3. CASE ByeDue(q)
        <5>1. PICK j \in Kinds \ {"NgnBye"} : closing[j][q] \in {"Drained", "Bye"}
          BY <4>3
        <5>2. closing'[j][q] \in {"Drained", "Bye"}
          BY <1>20, <2>2, <3>1, <3>2, <4>1, <5>1 DEF NgnBye
        <5>3. QED
          BY <5>1, <5>2
      <4>4. QED
        BY <4>1, <4>2, <4>3
    <3>7. QED
      BY <3>3, <3>4, <3>5, <3>6
  <2>3. QED
    BY <2>1, <2>2
<1>21. ASSUME NEW a \in Aor, Unregister(a) PROVE DialogInv'
  BY <1>21 DEF Unregister, EntriesOf
<1>22. ASSUME NEW r \in Request, NextDrained(r) PROVE DialogInv'
  BY <1>22 DEF NextDrained, Closes
<1>23. ASSUME NEW c \in CallId, ReferStart(c) PROVE DialogInv'
  BY <1>23 DEF ReferStart, Closes
<1>24. ASSUME NEW r \in Request, NEW s \in {"Bye", "Done"}, ReferOutcome(r, s) PROVE DialogInv'
  <2>1. \A j \in Kinds, q \in Request :
           closing'[j][q] = IF j = "Refer" /\ q = r THEN s ELSE closing[j][q]
    BY <1>24, ClosesAt DEF ReferOutcome
  <2>2. RegistryInverse'
    BY <1>24, <2>1 DEF ReferOutcome
  <2>3. EntryOfCall'
    BY <1>24, <2>1 DEF ReferOutcome
  <2>4. ClosingIsDone'
    <3>1. stage[r] = "Done" /\ stage' = stage
      BY <1>24 DEF ReferOutcome
    <3>2. QED
      BY <2>1, <3>1
  <2>5. DialogAfter2xx'
    BY <1>24, <2>1 DEF ReferOutcome
  <2>6. NoForgottenDialog'
    <3> SUFFICES ASSUME NEW q \in Request,
                      ngn'[q] = "Up", stage'[q] = "Done"
               PROVE  byExt'[CallOf[q]] = q \/ ByeDue(q)'
      OBVIOUS
    <3>1. ngn[q] = "Up" /\ stage[q] = "Done"
      BY <1>24, <2>1 DEF ReferOutcome
    <3>2. CASE byExt[CallOf[q]] = q
      BY <1>24, <2>1, <3>1, <3>2 DEF ReferOutcome
    <3>3. CASE ByeDue(q)
      <4>1. PICK j \in Kinds \ {"NgnBye"} : closing[j][q] \in {"Drained", "Bye"}
        BY <3>3
      <4>2. closing'[j][q] \in {"Drained", "Bye"}
        BY <1>24, <2>1, <3>1, <4>1 DEF ReferOutcome
      <4>3. QED
        BY <4>1, <4>2
    <3>4. QED
      BY <3>1, <3>2, <3>3
  <2>7. QED
    BY <2>2, <2>3, <2>4, <2>5, <2>6
<1>25. ASSUME NEW r \in Request, RemoveTransferred(r) PROVE DialogInv'
  <2>1. \A j \in Kinds, q \in Request :
           closing'[j][q] = IF j = "Refer" /\ q = r THEN "Dec" ELSE closing[j][q]
    BY <1>25, ClosesAt DEF RemoveTransferred
  <2>2. RegistryInverse'
    BY <1>25, <2>1 DEF RemoveTransferred
  <2>3. EntryOfCall'
    BY <1>25, <2>1 DEF RemoveTransferred
  <2>4. ClosingIsDone'
    BY <1>25, <2>1 DEF RemoveTransferred
  <2>5. DialogAfter2xx'
    BY <1>25, <2>1, SMTT(30) DEF RemoveTransferred
  <2>6. NoForgottenDialog'
    <3> SUFFICES ASSUME NEW q \in Request,
                      ngn'[q] = "Up", stage'[q] = "Done"
               PROVE  byExt'[CallOf[q]] = q \/ ByeDue(q)'
      OBVIOUS
    <3>1. ngn[q] = "Up" /\ stage[q] = "Done"
      BY <1>25, <2>1 DEF RemoveTransferred
    <3>2. CASE byExt[CallOf[q]] = q
      BY <1>25, <2>1, <3>1, <3>2 DEF RemoveTransferred
    <3>3. CASE ByeDue(q)
      <4>1. PICK j \in Kinds \ {"NgnBye"} : closing[j][q] \in {"Drained", "Bye"}
        BY <3>3
      <4>2. closing'[j][q] \in {"Drained", "Bye"}
        BY <1>25, <2>1, <3>1, <4>1, SMTT(30) DEF RemoveTransferred
      <4>3. QED
        BY <4>1, <4>2
    <3>4. QED
      BY <3>1, <3>2, <3>3
  <2>7. QED
    BY <2>2, <2>3, <2>4, <2>5, <2>6
<1>26. ASSUME NEW k \in Kinds, NEW r \in Request, SendBye(k, r) PROVE DialogInv'
  <2>1. \A j \in Kinds, q \in Request : ~(j = k /\ q = r) => closing'[j][q] = closing[j][q]
    BY <1>26, ClosesAt DEF SendBye
  <2>2. closing'[k][r] = IF k = "Refer" THEN "Remove" ELSE "Dec"
    BY <1>26, ClosesAt DEF SendBye
  <2>3. RegistryInverse'
    BY <1>26, <2>1, <2>2 DEF SendBye
  <2>4. EntryOfCall'
    BY <1>26, <2>1, <2>2 DEF SendBye
  <2>5. ClosingIsDone'
    BY <1>26, <2>1, <2>2 DEF SendBye
  <2>6. DialogAfter2xx'
    BY <1>26, <2>1, <2>2 DEF SendBye
  <2>7. NoForgottenDialog'
    <3> SUFFICES ASSUME NEW q \in Request,
                      ngn'[q] = "Up", stage'[q] = "Done"
               PROVE  byExt'[CallOf[q]] = q \/ ByeDue(q)'
      OBVIOUS
    <3>1. ngn[q] = "Up" /\ stage[q] = "Done"
      BY <1>26, <2>1, <2>2 DEF SendBye
    <3>2. CASE byExt[CallOf[q]] = q
      BY <1>26, <2>1, <2>2, <3>1, <3>2 DEF SendBye
    <3>3. CASE ByeDue(q)
      <4>1. PICK j \in Kinds \ {"NgnBye"} : closing[j][q] \in {"Drained", "Bye"}
        BY <3>3
      <4>2. closing'[j][q] \in {"Drained", "Bye"}
        BY <1>26, <2>1, <2>2, <3>1, <4>1 DEF SendBye
      <4>3. QED
        BY <4>1, <4>2
    <3>4. QED
      BY <3>1, <3>2, <3>3
  <2>8. QED
    BY <2>3, <2>4, <2>5, <2>6, <2>7
<1>27. ASSUME NEW k \in Kinds, NEW r \in Request, DecLoad(k, r) PROVE DialogInv'
  <2>1. closing'[k][r] \in {"Sub", "Done"} /\ closing[k][r] = "Dec"
    BY <1>27, ClosesAt DEF DecLoad, Closed
  <2>2. \A j \in Kinds, q \in Request : ~(j = k /\ q = r) => closing'[j][q] = closing[j][q]
    BY <1>27, ClosesAt DEF DecLoad, Closed
  <2>3. UNCHANGED <<inviteVars, registry, ngn>>
    BY <1>27 DEF DecLoad
  <2> HIDE DEF TypeOK, DialogInv, RegistryInverse, EntryOfCall, ClosingIsDone,
               DialogAfter2xx, NoForgottenDialog
  <2>4. QED
    BY <2>1, <2>2, <2>3, UncountStep
<1>28. ASSUME NEW k \in Kinds, NEW r \in Request, DecSub(k, r) PROVE DialogInv'
  <2>1. closing'[k][r] \in {"Sub", "Done"} /\ closing[k][r] = "Sub"
    BY <1>28, ClosesAt DEF DecSub, Closed
  <2>2. \A j \in Kinds, q \in Request : ~(j = k /\ q = r) => closing'[j][q] = closing[j][q]
    BY <1>28, ClosesAt DEF DecSub, Closed
  <2>3. UNCHANGED <<inviteVars, registry, ngn>>
    BY <1>28 DEF DecSub
  <2> HIDE DEF TypeOK, DialogInv, RegistryInverse, EntryOfCall, ClosingIsDone,
               DialogAfter2xx, NoForgottenDialog
  <2>4. QED
    BY <2>1, <2>2, <2>3, UncountStep
<1> HIDE DEF TypeOK, DialogInv, Kinds
<1>29. QED
  BY <1>1, <1>2, <1>3, <1>4, <1>5, <1>6, <1>7, <1>8, <1>9, <1>10, <1>11, <1>12, <1>13,
     <1>14, <1>15, <1>16, <1>17, <1>18, <1>19, <1>20, <1>21, <1>22, <1>23, <1>24, <1>25,
     <1>26, <1>27, <1>28
     DEF Next, Event, InviteStep, CancelStep, CloseStep

\* The program starts with no call and an empty registry.
LEMMA InitialInv == Init => TypeOK /\ DialogInv
<1> SUFFICES ASSUME Init PROVE TypeOK /\ DialogInv
  OBVIOUS
<1>1. TypeOK
  BY CallAssumption
     DEF Init, TypeOK, Stages, Results, Kinds, CloseStages, Outcomes, Finals
<1>2. DialogInv
  BY CallAssumption
     DEF Init, DialogInv, RegistryInverse, EntryOfCall, ClosingIsDone, DialogAfter2xx,
         NoForgottenDialog, Kinds
<1>3. QED
  BY <1>1, <1>2

\* What the registry's proofs rest on holds from the start.
LEMMA DialogsInvariant ==
    ASSUME NoRetransmission
    PROVE  Spec => [](TypeOK /\ DialogInv)
<1>1. Init => TypeOK /\ DialogInv
  BY InitialInv
<1>2. TypeOK /\ DialogInv /\ [Next]_vars => TypeOK' /\ DialogInv'
  BY TypeStep, DialogStep, NoRetransmission
<1>3. QED
  BY <1>1, <1>2, PTL DEF Spec

\* Both maps of the registry always describe the same calls, for any number of
\* concurrent calls, as long as no INVITE is retransmitted.
THEOREM RegistryConsistent ==
    ASSUME NoRetransmission
    PROVE  Spec => []RegistryInverse
<1>1. DialogInv => RegistryInverse
  BY DEF DialogInv
<1>2. QED
  BY <1>1, DialogsInvariant, NoRetransmission, PTL

\* An NGN dialog that is up after handle_invite is done can be found in the
\* registry or is being closed, whatever ends the call.
THEOREM DialogsRemembered ==
    ASSUME NoRetransmission
    PROVE  Spec => []NoForgottenDialog
<1>1. DialogInv => NoForgottenDialog
  BY DEF DialogInv
<1>2. QED
  BY <1>1, DialogsInvariant, NoRetransmission, PTL

\* Without transfers, every step keeps the right to send the BYE unique.
LEMMA ByeStep ==
    ASSUME NoRetransmission, Transferable = {}, TypeOK, DialogInv, ByeInv, [Next]_vars
    PROVE  ByeInv'
<1> USE CallAssumption
    DEF NoRetransmission, TypeOK, Stages, InProgress, Kinds, CloseStages, DialogInv,
        RegistryInverse, EntryOfCall, ClosingIsDone, ByeInv, OneNgnBye, RightToBye,
        inviteVars, cancelVars, registry, legVars, To, ReleaseNgn, RemoveByExt
<1>1. CASE UNCHANGED vars
  BY <1>1 DEF vars
<1>2. ASSUME NEW r \in Request, Receive(r) PROVE ByeInv'
  BY <1>2 DEF Receive
<1>3. ASSUME NEW r \in Request, Refuse(r) PROVE ByeInv'
  BY <1>3 DEF Refuse
<1>4. ASSUME NEW r \in Request, Start(r) PROVE ByeInv'
  BY <1>4 DEF Start
<1>5. ASSUME NEW r \in Request, NEW o \in Results, InviteResult(r, o) PROVE ByeInv'
  BY <1>5 DEF InviteResult, Returns
<1>6. ASSUME NEW r \in Request, NEW o \in Results, RetryResult(r, o) PROVE ByeInv'
  BY <1>6 DEF RetryResult, Returns
<1>7. ASSUME NEW r \in Request, RetryWake(r) PROVE ByeInv'
  BY <1>7 DEF RetryWake
<1>8. ASSUME NEW r \in Request, LoadFlag(r) PROVE ByeInv'
  BY <1>8 DEF LoadFlag
<1>9. ASSUME NEW r \in Request, TakePending(r) PROVE ByeInv'
  BY <1>9 DEF TakePending
<1>10. ASSUME NEW r \in Request, EstablishedCancelled(r) PROVE ByeInv'
  BY <1>10 DEF EstablishedCancelled
<1>11. ASSUME NEW r \in Request, Answer(r) PROVE ByeInv'
  BY <1>11 DEF Answer
<1>12. ASSUME NEW r \in Request, AnswerFails(r) PROVE ByeInv'
  BY <1>12 DEF AnswerFails
<1>13. ASSUME NEW r \in Request, InsertConfirmed(r) PROVE ByeInv'
  BY <1>13 DEF InsertConfirmed
<1>14. ASSUME NEW r \in Request, Failed(r) PROVE ByeInv'
  BY <1>14 DEF Failed
<1>15. ASSUME NEW r \in Request, Errored(r) PROVE ByeInv'
  BY <1>15 DEF Errored
<1>16. ASSUME NEW c \in CallId, CancelLookup(c) PROVE ByeInv'
  BY <1>16 DEF CancelLookup, CancelTo
<1>17. ASSUME NEW c \in CallId, CancelFlag(c) PROVE ByeInv'
  BY <1>17 DEF CancelFlag, CancelTo
<1>18. ASSUME NEW c \in CallId, CancelAnswer(c) PROVE ByeInv'
  BY <1>18 DEF CancelAnswer, CancelTo
<1>19. ASSUME NEW c \in CallId, ExtBye(c) PROVE ByeInv'
  BY <1>19 DEF ExtBye, HungUp, Closes
<1>20. ASSUME NEW r \in Request, NgnBye(r) PROVE ByeInv'
  BY <1>20 DEF NgnBye, Closes
<1>21. ASSUME NEW a \in Aor, Unregister(a) PROVE ByeInv'
  BY <1>21 DEF Unregister, EntriesOf
<1>22. ASSUME NEW r \in Request, NextDrained(r) PROVE ByeInv'
  BY <1>22 DEF NextDrained, Closes
<1>23. ASSUME NEW c \in CallId, ReferStart(c) PROVE ByeInv'
  BY <1>23 DEF ReferStart, Closes
<1>24. ASSUME NEW r \in Request, NEW s \in {"Bye", "Done"}, ReferOutcome(r, s) PROVE ByeInv'
  BY <1>24 DEF ReferOutcome, Closes
<1>25. ASSUME NEW r \in Request, RemoveTransferred(r) PROVE ByeInv'
  BY <1>25 DEF RemoveTransferred, Closes
<1>26. ASSUME NEW k \in Kinds, NEW r \in Request, SendBye(k, r) PROVE ByeInv'
  <2>1. /\ k # "Refer" /\ byes[r] = 0
        /\ byExt[CallOf[r]] # r /\ stage[r] = "Done"
        /\ \A j \in Kinds : j # k => closing[j][r] = "Idle"
    BY <1>26 DEF SendBye
  <2>2. \A j \in Kinds, q \in Request :
           closing'[j][q] = IF j = k /\ q = r THEN "Dec" ELSE closing[j][q]
    BY <1>26, <2>1, ClosesAt DEF SendBye
  <2>3. \A q \in Request : byes'[q] = IF q = r /\ k # "NgnBye" THEN 1 ELSE byes[q]
    BY <1>26, <2>1 DEF SendBye
  <2>4. stage' = stage /\ byExt' = byExt
    BY <1>26 DEF SendBye
  <2>5. RightToBye'
    BY <2>1, <2>2, <2>3, <2>4
  <2>6. OneNgnBye'
    BY <2>1, <2>3
  <2>7. QED
    BY <2>5, <2>6
<1>27. ASSUME NEW k \in Kinds, NEW r \in Request, DecLoad(k, r) PROVE ByeInv'
  BY <1>27 DEF DecLoad, Closed, Closes
<1>28. ASSUME NEW k \in Kinds, NEW r \in Request, DecSub(k, r) PROVE ByeInv'
  BY <1>28 DEF DecSub, Closed, Closes
<1> HIDE DEF TypeOK, DialogInv, ByeInv, Kinds
<1>29. QED
  BY <1>1, <1>2, <1>3, <1>4, <1>5, <1>6, <1>7, <1>8, <1>9, <1>10, <1>11, <1>12, <1>13,
     <1>14, <1>15, <1>16, <1>17, <1>18, <1>19, <1>20, <1>21, <1>22, <1>23, <1>24, <1>25,
     <1>26, <1>27, <1>28
     DEF Next, Event, InviteStep, CancelStep, CloseStep

\* Without transfers, at most one BYE is ever sent on an NGN dialog, whichever
\* of CANCEL, both BYEs and the end of the registration race for it.
THEOREM NgnByeOnce ==
    ASSUME NoRetransmission, Transferable = {}
    PROVE  Spec => []OneNgnBye
<1>1. Init => TypeOK /\ DialogInv /\ ByeInv
  <2> SUFFICES ASSUME Init PROVE TypeOK /\ DialogInv /\ ByeInv
    OBVIOUS
  <2>1. ByeInv
    BY DEF Init, ByeInv, OneNgnBye, RightToBye, Kinds
  <2>2. QED
    BY <2>1, InitialInv
<1>2. TypeOK /\ DialogInv /\ ByeInv /\ [Next]_vars => TypeOK' /\ DialogInv' /\ ByeInv'
  BY TypeStep, DialogStep, ByeStep, NoRetransmission, Transferable = {}
<1>3. ByeInv => OneNgnBye
  BY DEF ByeInv
<1>4. QED
  BY <1>1, <1>2, <1>3, PTL DEF Spec

\* The end of a call is recorded for that call alone, and only if it has an
\* entry.
LEMMA EndRecorded ==
    ASSUME NoRetransmission, TypeOK, NEW r \in Request, RecordEnd(CallOf[r], "Answered")
    PROVE  \A q \in Request : log'[CallOf[q]] = log[CallOf[q]]
               \/ (q = r /\ log'[CallOf[q]] = "Answered" /\ log[CallOf[q]] # "None")
<1> SUFFICES ASSUME NEW q \in Request, log'[CallOf[q]] # log[CallOf[q]]
             PROVE  q = r /\ log'[CallOf[q]] = "Answered" /\ log[CallOf[q]] # "None"
  OBVIOUS
<1>1. CallOf[q] \in CallId /\ CallOf[r] \in CallId
  BY CallAssumption
<1>2. CallOf[q] = CallOf[r]
  BY <1>1 DEF TypeOK, RecordEnd
<1>3. q = r
  BY <1>2 DEF NoRetransmission
<1>4. QED
  BY <1>1, <1>2, <1>3 DEF TypeOK, RecordEnd

\* Every step keeps the call log true to the call.
LEMMA LogStep ==
    ASSUME NoRetransmission, TypeOK, DialogInv, LogInv, [Next]_vars
    PROVE  LogInv'
<1> USE CallAssumption
    DEF NoRetransmission, TypeOK, Stages, InProgress, Results, Kinds, CloseStages, Outcomes, Finals,
        DialogInv, EntryOfCall, DialogAfter2xx, LogInv, LogTruthful, AnsweredFirst, LogFollows,
        inviteVars, cancelVars, registry, legVars, To, Answers, RecordStart, RecordEnd,
        ReleaseNgn, RemoveByExt
<1>1. CASE UNCHANGED vars
  BY <1>1 DEF vars
<1>2. ASSUME NEW r \in Request, Receive(r) PROVE LogInv'
  BY <1>2 DEF Receive
<1>3. ASSUME NEW r \in Request, Refuse(r) PROVE LogInv'
  BY <1>3 DEF Refuse
<1>4. ASSUME NEW r \in Request, Start(r) PROVE LogInv'
  BY <1>4 DEF Start
<1>5. ASSUME NEW r \in Request, NEW o \in Results, InviteResult(r, o) PROVE LogInv'
  BY <1>5 DEF InviteResult, Returns
<1>6. ASSUME NEW r \in Request, NEW o \in Results, RetryResult(r, o) PROVE LogInv'
  BY <1>6 DEF RetryResult, Returns
<1>7. ASSUME NEW r \in Request, RetryWake(r) PROVE LogInv'
  BY <1>7 DEF RetryWake
<1>8. ASSUME NEW r \in Request, LoadFlag(r) PROVE LogInv'
  BY <1>8 DEF LoadFlag
<1>9. ASSUME NEW r \in Request, TakePending(r) PROVE LogInv'
  BY <1>9 DEF TakePending
<1>10. ASSUME NEW r \in Request, EstablishedCancelled(r) PROVE LogInv'
  BY <1>10 DEF EstablishedCancelled
<1>11. ASSUME NEW r \in Request, Answer(r) PROVE LogInv'
  BY <1>11 DEF Answer
<1>12. ASSUME NEW r \in Request, AnswerFails(r) PROVE LogInv'
  BY <1>12 DEF AnswerFails
<1>13. ASSUME NEW r \in Request, InsertConfirmed(r) PROVE LogInv'
  BY <1>13 DEF InsertConfirmed
<1>14. ASSUME NEW r \in Request, Failed(r) PROVE LogInv'
  BY <1>14 DEF Failed
<1>15. ASSUME NEW r \in Request, Errored(r) PROVE LogInv'
  BY <1>15 DEF Errored
<1>16. ASSUME NEW c \in CallId, CancelLookup(c) PROVE LogInv'
  BY <1>16 DEF CancelLookup, CancelTo
<1>17. ASSUME NEW c \in CallId, CancelFlag(c) PROVE LogInv'
  BY <1>17 DEF CancelFlag, CancelTo
<1>18. ASSUME NEW c \in CallId, CancelAnswer(c) PROVE LogInv'
  BY <1>18 DEF CancelAnswer, CancelTo
<1>19. ASSUME NEW c \in CallId, ExtBye(c) PROVE LogInv'
  <2>1. CASE byExt[c] = None
    BY <1>19, <2>1 DEF ExtBye
  <2>2. CASE byExt[c] # None
    <3>1. byExt[c] \in Request /\ CallOf[byExt[c]] = c /\ "200" \in finals[byExt[c]]
      BY <2>2
    <3>2. \A j \in Kinds, q \in Request :
             closing'[j][q] = IF j = "ExtBye" /\ q = byExt[c] THEN "Bye" ELSE closing[j][q]
      BY <1>19, <2>2, <3>1, ClosesAt DEF ExtBye
    <3>3. UNCHANGED <<stage, wasCancelled, flagged, log, finals, ngn>>
          /\ \A q \in Request : byExt'[CallOf[q]] \in {byExt[CallOf[q]], None}
      BY <1>19, <2>2, <3>1 DEF ExtBye
    <3>4. LogTruthful' /\ LogFollows'
      BY <3>3
    <3>5. AnsweredFirst'
      BY <3>1, <3>2, <3>3
    <3>6. QED
      BY <3>4, <3>5
  <2>3. QED
    BY <2>1, <2>2
<1>20. ASSUME NEW r \in Request, NgnBye(r) PROVE LogInv'
  <2>1. \A q \in Request : ngn[q] = "None" => ngn'[q] = "None"
    BY <1>20 DEF NgnBye
  <2>2. UNCHANGED <<stage, wasCancelled, flagged, log, finals>>
    BY <1>20 DEF NgnBye
  <2>3. LogTruthful' /\ LogFollows'
    BY <2>1, <2>2
  <2>4. CASE ngnToExt[r] = None \/ byExt[ngnToExt[r]] = None
    BY <1>20, <2>2, <2>3, <2>4 DEF NgnBye
  <2>5. CASE ~(ngnToExt[r] = None \/ byExt[ngnToExt[r]] = None)
    <3>1. ngnToExt[r] \in CallId /\ byExt[ngnToExt[r]] \in Request
          /\ "200" \in finals[byExt[ngnToExt[r]]]
      BY <2>5
    <3>2. \A j \in Kinds, q \in Request :
             closing'[j][q] = IF j = "NgnBye" /\ q = byExt[ngnToExt[r]] THEN "Bye" ELSE closing[j][q]
      BY <1>20, <2>5, <3>1, ClosesAt DEF NgnBye
    <3>3. \A q \in Request : byExt'[CallOf[q]] \in {byExt[CallOf[q]], None}
      BY <1>20, <2>5, <3>1 DEF NgnBye
    <3>4. AnsweredFirst'
      BY <2>2, <3>1, <3>2, <3>3
    <3>5. QED
      BY <2>3, <3>4
  <2>6. QED
    BY <2>4, <2>5
<1>21. ASSUME NEW a \in Aor, Unregister(a) PROVE LogInv'
  BY <1>21 DEF Unregister, EntriesOf
<1>22. ASSUME NEW r \in Request, NextDrained(r) PROVE LogInv'
  BY <1>22 DEF NextDrained, Closes
<1>23. ASSUME NEW c \in CallId, ReferStart(c) PROVE LogInv'
  BY <1>23 DEF ReferStart, Closes
<1>24. ASSUME NEW r \in Request, NEW s \in {"Bye", "Done"}, ReferOutcome(r, s) PROVE LogInv'
  BY <1>24 DEF ReferOutcome, Closes
<1>25. ASSUME NEW r \in Request, RemoveTransferred(r) PROVE LogInv'
  BY <1>25 DEF RemoveTransferred, Closes
<1>26. ASSUME NEW k \in Kinds, NEW r \in Request, SendBye(k, r) PROVE LogInv'
  BY <1>26 DEF SendBye, Closes
<1>27. ASSUME NEW k \in Kinds, NEW r \in Request, DecLoad(k, r) PROVE LogInv'
  <2>1. \A j \in Kinds, q \in Request : ~(j = k /\ q = r) => closing'[j][q] = closing[j][q]
    BY <1>27, ClosesAt DEF DecLoad, Closed
  <2>2. UNCHANGED <<stage, wasCancelled, flagged, byExt, finals, ngn>>
    BY <1>27 DEF DecLoad
  <2>3. "200" \in finals[r]
    BY <1>27 DEF DecLoad
  <2>4. \A q \in Request : log'[CallOf[q]] = log[CallOf[q]]
           \/ (q = r /\ log'[CallOf[q]] = "Answered" /\ log[CallOf[q]] # "None")
    <3>1. UNCHANGED log \/ RecordEnd(CallOf[r], "Answered")
      BY <1>27 DEF DecLoad, Closed
    <3> HIDE DEF RecordEnd, TypeOK, NoRetransmission
    <3>2. QED
      BY <3>1, EndRecorded
  <2>5. AnsweredFirst'
    BY <2>1, <2>2, <2>3
  <2>6. LogTruthful' /\ LogFollows'
    BY <2>2, <2>3, <2>4, SMTT(30)
  <2>7. QED
    BY <2>5, <2>6
<1>28. ASSUME NEW k \in Kinds, NEW r \in Request, DecSub(k, r) PROVE LogInv'
  <2>1. \A j \in Kinds, q \in Request : ~(j = k /\ q = r) => closing'[j][q] = closing[j][q]
    BY <1>28, ClosesAt DEF DecSub, Closed
  <2>2. UNCHANGED <<stage, wasCancelled, flagged, byExt, finals, ngn>>
    BY <1>28 DEF DecSub
  <2>3. "200" \in finals[r]
    BY <1>28 DEF DecSub
  <2>4. \A q \in Request : log'[CallOf[q]] = log[CallOf[q]]
           \/ (q = r /\ log'[CallOf[q]] = "Answered" /\ log[CallOf[q]] # "None")
    <3>1. UNCHANGED log \/ RecordEnd(CallOf[r], "Answered")
      BY <1>28 DEF DecSub, Closed
    <3> HIDE DEF RecordEnd, TypeOK, NoRetransmission
    <3>2. QED
      BY <3>1, EndRecorded
  <2>5. AnsweredFirst'
    BY <2>1, <2>2, <2>3
  <2>6. LogTruthful' /\ LogFollows'
    BY <2>2, <2>3, <2>4, SMTT(30)
  <2>7. QED
    BY <2>5, <2>6
<1> HIDE DEF TypeOK, DialogInv, LogInv, Kinds, Results
<1>29. QED
  BY <1>1, <1>2, <1>3, <1>4, <1>5, <1>6, <1>7, <1>8, <1>9, <1>10, <1>11, <1>12, <1>13,
     <1>14, <1>15, <1>16, <1>17, <1>18, <1>19, <1>20, <1>21, <1>22, <1>23, <1>24, <1>25, <1>26,
     <1>27, <1>28
     DEF Next, Event, InviteStep, CancelStep, CloseStep

\* The call log tells the truth about every call, transfers included, as long
\* as no INVITE is retransmitted: "cancelled" only if the caller cancelled and
\* got no 200 OK, "answered" only if it got one, "failed" only if no NGN dialog
\* was ever acknowledged.
THEOREM CallLogTruthful ==
    ASSUME NoRetransmission
    PROVE  Spec => []LogTruthful
<1>1. Init => TypeOK /\ DialogInv /\ LogInv
  <2> SUFFICES ASSUME Init PROVE TypeOK /\ DialogInv /\ LogInv
    OBVIOUS
  <2>1. TypeOK /\ DialogInv
    BY InitialInv
  <2>2. LogInv
    BY CallAssumption DEF Init, LogInv, LogTruthful, AnsweredFirst, LogFollows, Kinds
  <2>3. QED
    BY <2>1, <2>2
<1>2. TypeOK /\ DialogInv /\ LogInv /\ [Next]_vars => TypeOK' /\ DialogInv' /\ LogInv'
  BY TypeStep, DialogStep, LogStep, NoRetransmission
<1>3. LogInv => LogTruthful
  BY DEF LogInv
<1>4. QED
  BY <1>1, <1>2, <1>3, PTL DEF Spec

\* There are never more calls to count than requests, so the gauge has room.
LEMMA CountedFinite ==
    IsFiniteSet(Counted) /\ Cardinality(Counted) \in Nat /\ Cardinality(Counted) < Wrap
<1>1. Counted \in SUBSET Request
  BY DEF Counted
<1>2. IsFiniteSet(Counted) /\ Cardinality(Counted) <= Cardinality(Request)
  BY <1>1, CallAssumption, FS_Subset
<1>3. QED
  BY <1>2, CallAssumption, FS_CardinalityType

\* Only the answer to an INVITE and the last step of a closing task change the
\* set of calls to count, and they change the gauge with it.
LEMMA GaugeStep ==
    ASSUME NoRetransmission, Transferable = {}, TypeOK, DialogInv, ByeInv, [Next]_vars,
           gauge = Cardinality(Counted)
    PROVE  (gauge = Cardinality(Counted))'
<1> USE CallAssumption
    DEF NoRetransmission, TypeOK, Stages, InProgress, Kinds, CloseStages, DialogInv,
        RegistryInverse, EntryOfCall, ClosingIsDone, ByeInv, RightToBye, Counted,
        inviteVars, cancelVars, registry, legVars, To
<1>0. ASSUME gauge' = gauge, \A q \in Request : q \in Counted' <=> q \in Counted
      PROVE  (gauge = Cardinality(Counted))'
  <2>1. Counted' = Counted
    BY <1>0
  <2> HIDE DEF Counted
  <2>2. QED
    BY <1>0, <2>1
<1>1. CASE UNCHANGED vars
  BY <1>1, <1>0 DEF vars
<1>2. ASSUME NEW r \in Request, Receive(r) PROVE (gauge = Cardinality(Counted))'
  BY <1>2, <1>0 DEF Receive
<1>3. ASSUME NEW r \in Request, Refuse(r) PROVE (gauge = Cardinality(Counted))'
  BY <1>3, <1>0 DEF Refuse
<1>4. ASSUME NEW r \in Request, Start(r) PROVE (gauge = Cardinality(Counted))'
  BY <1>4, <1>0 DEF Start
<1>5. ASSUME NEW r \in Request, NEW o \in Results, InviteResult(r, o) PROVE (gauge = Cardinality(Counted))'
  BY <1>5, <1>0 DEF InviteResult, Returns
<1>6. ASSUME NEW r \in Request, NEW o \in Results, RetryResult(r, o) PROVE (gauge = Cardinality(Counted))'
  BY <1>6, <1>0 DEF RetryResult, Returns
<1>7. ASSUME NEW r \in Request, RetryWake(r) PROVE (gauge = Cardinality(Counted))'
  BY <1>7, <1>0 DEF RetryWake
<1>8. ASSUME NEW r \in Request, LoadFlag(r) PROVE (gauge = Cardinality(Counted))'
  BY <1>8, <1>0, SMTT(30) DEF LoadFlag
<1>9. ASSUME NEW r \in Request, TakePending(r) PROVE (gauge = Cardinality(Counted))'
  BY <1>9, <1>0 DEF TakePending
<1>10. ASSUME NEW r \in Request, EstablishedCancelled(r) PROVE (gauge = Cardinality(Counted))'
  BY <1>10, <1>0 DEF EstablishedCancelled
<1>11. ASSUME NEW r \in Request, Answer(r) PROVE (gauge = Cardinality(Counted))'
  <2>1. r \notin Counted
    BY <1>11, SMTT(30) DEF Answer
  <2>2. Counted' = Counted \cup {r}
    BY <1>11 DEF Answer
  <2>3. Cardinality(Counted \cup {r}) = gauge + 1
    <3> HIDE DEF Counted, TypeOK, DialogInv, ByeInv
    <3>1. IsFiniteSet(Counted)
      BY CountedFinite
    <3>2. QED
      BY <2>1, <3>1, FS_AddElement
  <2>4. gauge' = gauge + 1
    <3>1. gauge + 1 <= Cardinality(Request)
      <4>1. Counted \cup {r} \in SUBSET Request
        OBVIOUS
      <4>2. Cardinality(Counted \cup {r}) <= Cardinality(Request)
        BY <4>1, FS_Subset
      <4>3. QED
        BY <2>3, <4>2
    <3>2. Cardinality(Request) \in Nat
      BY FS_CardinalityType
    <3>3. gauge' = IF gauge + 1 = Wrap THEN 0 ELSE gauge + 1
      BY <1>11 DEF Answer, Counts
    <3>4. QED
      BY <3>1, <3>2, <3>3
  <2> HIDE DEF Counted
  <2>5. QED
    BY <2>2, <2>3, <2>4
<1>12. ASSUME NEW r \in Request, AnswerFails(r) PROVE (gauge = Cardinality(Counted))'
  BY <1>12, <1>0 DEF AnswerFails
<1>13. ASSUME NEW r \in Request, InsertConfirmed(r) PROVE (gauge = Cardinality(Counted))'
  BY <1>13, <1>0 DEF InsertConfirmed
<1>14. ASSUME NEW r \in Request, Failed(r) PROVE (gauge = Cardinality(Counted))'
  BY <1>14, <1>0 DEF Failed
<1>15. ASSUME NEW r \in Request, Errored(r) PROVE (gauge = Cardinality(Counted))'
  BY <1>15, <1>0 DEF Errored
<1>16. ASSUME NEW c \in CallId, CancelLookup(c) PROVE (gauge = Cardinality(Counted))'
  BY <1>16, <1>0 DEF CancelLookup
<1>17. ASSUME NEW c \in CallId, CancelFlag(c) PROVE (gauge = Cardinality(Counted))'
  BY <1>17, <1>0 DEF CancelFlag
<1>18. ASSUME NEW c \in CallId, CancelAnswer(c) PROVE (gauge = Cardinality(Counted))'
  BY <1>18, <1>0 DEF CancelAnswer
<1>19. ASSUME NEW c \in CallId, ExtBye(c) PROVE (gauge = Cardinality(Counted))'
  <2>1. CASE byExt[c] = None
    BY <1>19, <2>1, <1>0 DEF ExtBye
  <2>2. CASE byExt[c] # None
    <3>1. byExt[c] \in Request /\ CallOf[byExt[c]] = c
      BY <2>2
    <3>2. \A j \in Kinds, q \in Request :
             closing'[j][q] = IF j = "ExtBye" /\ q = byExt[c] THEN "Bye" ELSE closing[j][q]
      BY <1>19, <2>2, <3>1, ClosesAt DEF ExtBye
    <3>3. \A q \in Request : byExt'[CallOf[q]] = IF q = byExt[c] THEN None ELSE byExt[CallOf[q]]
      BY <1>19, <2>2, <3>1 DEF ExtBye, RemoveByExt
    <3>4. \A q \in Request : q \in Counted' <=> q \in Counted
      BY <1>19, <3>1, <3>2, <3>3 DEF ExtBye
    <3>5. QED
      BY <1>19, <3>4, <1>0 DEF ExtBye
  <2>3. QED
    BY <2>1, <2>2
<1>20. ASSUME NEW r \in Request, NgnBye(r) PROVE (gauge = Cardinality(Counted))'
  <2>1. CASE ngnToExt[r] = None \/ byExt[ngnToExt[r]] = None
    BY <1>20, <2>1, <1>0 DEF NgnBye
  <2>2. CASE ~(ngnToExt[r] = None \/ byExt[ngnToExt[r]] = None)
    <3>1. ngnToExt[r] = CallOf[r] /\ byExt[CallOf[r]] = r
      BY <2>2
    <3>2. \A j \in Kinds, q \in Request :
             closing'[j][q] = IF j = "NgnBye" /\ q = r THEN "Bye" ELSE closing[j][q]
      BY <1>20, <2>2, <3>1, ClosesAt DEF NgnBye
    <3>3. \A q \in Request : byExt'[CallOf[q]] = IF q = r THEN None ELSE byExt[CallOf[q]]
      BY <1>20, <2>2, <3>1 DEF NgnBye
    <3>4. \A q \in Request : q \in Counted' <=> q \in Counted
      BY <1>20, <3>1, <3>2, <3>3 DEF NgnBye
    <3>5. QED
      BY <1>20, <3>4, <1>0 DEF NgnBye
  <2>3. QED
    BY <2>1, <2>2
<1>21. ASSUME NEW a \in Aor, Unregister(a) PROVE (gauge = Cardinality(Counted))'
  <2>1. \A j \in Kinds, q \in Request :
           closing'[j][q] = IF j = "Unregister" /\ q \in EntriesOf(a) THEN "Drained"
                            ELSE closing[j][q]
    BY <1>21 DEF Unregister
  <2>2. \A q \in Request : byExt'[CallOf[q]] = IF byExt[CallOf[q]] \in EntriesOf(a) THEN None
                                                 ELSE byExt[CallOf[q]]
    BY <1>21 DEF Unregister
  <2>3. \A q \in Request : q \in EntriesOf(a) => byExt[CallOf[q]] = q
    BY DEF EntriesOf
  <2>4. stage' = stage /\ gauge' = gauge
    BY <1>21 DEF Unregister
  <2>5. \A q \in Request : q \in Counted' <=> q \in Counted
    BY <2>1, <2>2, <2>3, <2>4
  <2>6. QED
    BY <2>4, <2>5, <1>0
<1>22. ASSUME NEW r \in Request, NextDrained(r) PROVE (gauge = Cardinality(Counted))'
  <2>1. \A j \in Kinds, q \in Request :
           closing'[j][q] = IF j = "Unregister" /\ q = r THEN "Bye" ELSE closing[j][q]
    BY <1>22, ClosesAt DEF NextDrained
  <2>2. stage' = stage /\ byExt' = byExt /\ gauge' = gauge
    BY <1>22 DEF NextDrained
  <2>3. \A q \in Request : q \in Counted' <=> q \in Counted
    BY <1>22, <2>1, <2>2, SMTT(30) DEF NextDrained
  <2>4. QED
    BY <2>2, <2>3, <1>0
<1>23. ASSUME NEW c \in CallId, ReferStart(c) PROVE (gauge = Cardinality(Counted))'
  BY <1>23, <1>0 DEF ReferStart
<1>24. ASSUME NEW r \in Request, NEW s \in {"Bye", "Done"}, ReferOutcome(r, s) PROVE (gauge = Cardinality(Counted))'
  BY <1>24, <1>0 DEF ReferOutcome
<1>25. ASSUME NEW r \in Request, RemoveTransferred(r) PROVE (gauge = Cardinality(Counted))'
  BY <1>25, <1>0 DEF RemoveTransferred
<1>26. ASSUME NEW k \in Kinds, NEW r \in Request, SendBye(k, r) PROVE (gauge = Cardinality(Counted))'
  <2>0. k # "Refer"
    BY <1>26 DEF SendBye
  <2>1. \A j \in Kinds, q \in Request :
           closing'[j][q] = IF j = k /\ q = r THEN "Dec" ELSE closing[j][q]
    BY <1>26, <2>0, ClosesAt DEF SendBye
  <2>2. stage' = stage /\ byExt' = byExt /\ gauge' = gauge
    BY <1>26 DEF SendBye
  <2>3. \A q \in Request : q \in Counted' <=> q \in Counted
    BY <1>26, <2>1, <2>2 DEF SendBye
  <2>4. QED
    BY <2>2, <2>3, <1>0
<1>27. ASSUME NEW k \in Kinds, NEW r \in Request, DecLoad(k, r) PROVE (gauge = Cardinality(Counted))'
  <2>0. gauge > 0
    <3>1. r \in Counted
      BY <1>27 DEF DecLoad
    <3> HIDE DEF Counted
    <3>2. QED
      BY <3>1, CountedFinite, FS_EmptySet
  <2>1. \A j \in Kinds, q \in Request :
           closing'[j][q] = IF j = k /\ q = r THEN "Sub" ELSE closing[j][q]
    BY <1>27, <2>0, ClosesAt, SMTT(30) DEF DecLoad
  <2>2. stage' = stage /\ byExt' = byExt /\ gauge' = gauge
    BY <1>27 DEF DecLoad
  <2>3. \A q \in Request : q \in Counted' <=> q \in Counted
    BY <1>27, <2>1, <2>2, SMTT(30) DEF DecLoad
  <2>4. QED
    BY <2>2, <2>3, <1>0
<1>28. ASSUME NEW k \in Kinds, NEW r \in Request, DecSub(k, r) PROVE (gauge = Cardinality(Counted))'
  <2>1. \A j \in Kinds, q \in Request :
           closing'[j][q] = IF j = k /\ q = r THEN "Done" ELSE closing[j][q]
    BY <1>28, ClosesAt DEF DecSub, Closed
  <2>2. stage' = stage /\ byExt' = byExt
    BY <1>28 DEF DecSub
  <2>3. r \in Counted /\ stage[r] = "Done" /\ byExt[CallOf[r]] # r
        /\ \A j \in Kinds : j # k => closing[j][r] = "Idle"
    BY <1>28 DEF DecSub
  <2>4. \A q \in Request : q \in Counted' <=> q \in Counted /\ q # r
    BY <2>1, <2>2, <2>3
  <2>5. Counted' = Counted \ {r}
    BY <2>4
  <2>6. gauge' = IF gauge = 0 THEN Wrap - 1 ELSE gauge - 1
    BY <1>28 DEF DecSub
  <2> HIDE DEF Counted
  <2>7. Cardinality(Counted) # 0
    BY <2>3, CountedFinite, FS_EmptySet
  <2>8. QED
    BY <2>3, <2>5, <2>6, <2>7, CountedFinite, FS_RemoveElement
<1> HIDE DEF TypeOK, DialogInv, ByeInv, Kinds, Results, Counted
<1>29. QED
  BY <1>1, <1>2, <1>3, <1>4, <1>5, <1>6, <1>7, <1>8, <1>9, <1>10, <1>11, <1>12, <1>13,
     <1>14, <1>15, <1>16, <1>17, <1>18, <1>19, <1>20, <1>21, <1>22, <1>23, <1>24, <1>25, <1>26,
     <1>27, <1>28
     DEF Next, Event, InviteStep, CancelStep, CloseStep

\* The calls in the registry are as many as the Call-IDs that have an entry.
LEMMA EntriesCounted ==
    ASSUME NoRetransmission, TypeOK, DialogInv
    PROVE  Cardinality({c \in CallId : byExt[c] # None})
             = Cardinality({r \in Request : byExt[CallOf[r]] = r})
<1> DEFINE S == {r \in Request : byExt[CallOf[r]] = r}
           T == {c \in CallId : byExt[c] # None}
           f == [r \in S |-> CallOf[r]]
<1>1. IsFiniteSet(S)
  <2>1. S \in SUBSET Request
    OBVIOUS
  <2> HIDE DEF S
  <2>2. QED
    BY <2>1, CallAssumption, FS_Subset
<1>2. f \in [S -> T]
  BY CallAssumption
<1>3. \A q, r \in S : f[q] = f[r] => q = r
  BY DEF NoRetransmission
<1>4. \A c \in T : \E r \in S : f[r] = c
  <2> SUFFICES ASSUME NEW c \in T PROVE \E r \in S : f[r] = c
    OBVIOUS
  <2>1. byExt[c] \in S /\ CallOf[byExt[c]] = c
    BY DEF TypeOK, DialogInv, EntryOfCall
  <2>2. QED
    BY <2>1
<1> HIDE DEF S, T, f
<1>5. f \in Bijection(S, T)
  BY <1>2, <1>3, <1>4 DEF Bijection, Injection, Surjection, IsInjective
<1>6. ExistsBijection(S, T)
  BY <1>5 DEF ExistsBijection
<1>7. QED
  BY <1>1, <1>6, FS_Bijection DEF S, T

\* A call being closed has one task that uncounts it.
LEMMA TasksCounted ==
    ASSUME ByeInv
    PROVE  Cardinality(Uncounting)
             = Cardinality({r \in Request : \E k \in Kinds :
                              closing[k][r] \in {"Drained", "Bye", "Dec", "Sub"}})
<1> DEFINE T == {r \in Request : \E k \in Kinds :
                    closing[k][r] \in {"Drained", "Bye", "Dec", "Sub"}}
           f == [h \in Uncounting |-> h[2]]
<1>1. IsFiniteSet(T)
  <2>1. T \in SUBSET Request
    OBVIOUS
  <2> HIDE DEF T
  <2>2. QED
    BY <2>1, CallAssumption, FS_Subset
<1>2. f \in [Uncounting -> T]
  BY DEF Uncounting
<1>3. \A g, h \in Uncounting : f[g] = f[h] => g = h
  <2> SUFFICES ASSUME NEW g \in Uncounting, NEW h \in Uncounting, g[2] = h[2]
               PROVE  g = h
    OBVIOUS
  <2>1. /\ g[1] \in Kinds /\ h[1] \in Kinds /\ g[2] \in Request
        /\ closing[g[1]][g[2]] # "Idle" /\ closing[h[1]][g[2]] # "Idle"
    BY DEF Uncounting
  <2>2. g[1] = h[1]
    BY <2>1 DEF ByeInv, RightToBye
  <2>3. g = <<g[1], g[2]>> /\ h = <<h[1], h[2]>>
    BY DEF Uncounting
  <2>4. QED
    BY <2>2, <2>3
<1>4. \A r \in T : \E h \in Uncounting : f[h] = r
  <2> SUFFICES ASSUME NEW r \in T PROVE \E h \in Uncounting : f[h] = r
    OBVIOUS
  <2>1. PICK k \in Kinds : closing[k][r] \in {"Drained", "Bye", "Dec", "Sub"}
    OBVIOUS
  <2>2. k # "Refer"
    BY <2>1 DEF ByeInv, RightToBye
  <2>3. <<k, r>> \in Uncounting
    BY <2>1, <2>2 DEF Uncounting
  <2>4. QED
    BY <2>3
<1> HIDE DEF T, f
<1>5. f \in Bijection(Uncounting, T)
  BY <1>2, <1>3, <1>4 DEF Bijection, Injection, Surjection, IsInjective
<1>6. IsFiniteSet(Uncounting) /\ Cardinality(Uncounting) = Cardinality(T)
  BY <1>1, <1>5, FS_Injection DEF Bijection
<1>7. QED
  BY <1>6 DEF T

\* Two sets without a common element.
LEMMA DisjointSum ==
    ASSUME NEW S, NEW T, IsFiniteSet(S), IsFiniteSet(T), S \cap T = {}
    PROVE  /\ IsFiniteSet(S \cup T)
           /\ Cardinality(S \cup T) = Cardinality(S) + Cardinality(T)
  BY FS_Union, FS_EmptySet, FS_CardinalityType, SMTT(30)

\* Each call to count is counted by exactly one of the terms of GaugeExact.
LEMMA CountedOnce ==
    ASSUME NoRetransmission, TypeOK, DialogInv, ByeInv, gauge = Cardinality(Counted)
    PROVE  GaugeExact
<1> DEFINE E == {r \in Request : byExt[CallOf[r]] = r}
           I == {r \in Request : stage[r] = "Insert"}
           U == {r \in Request : \E k \in Kinds :
                    closing[k][r] \in {"Drained", "Bye", "Dec", "Sub"}}
<1>1. /\ E \in SUBSET Request /\ I \in SUBSET Request
      /\ U \in SUBSET Request /\ Stranded \in SUBSET Request
  BY DEF Stranded
<1>2. Counted = (E \cup I) \cup (U \cup Stranded)
  BY DEF Counted, Stranded
<1>3. E \cap I = {} /\ U \cap Stranded = {} /\ (E \cup I) \cap (U \cup Stranded) = {}
  BY CallAssumption
     DEF DialogInv, EntryOfCall, ClosingIsDone, ByeInv, RightToBye, Stranded, Kinds
<1>4. Cardinality({c \in CallId : byExt[c] # None}) = Cardinality(E)
  BY EntriesCounted
<1>5. Cardinality(Uncounting) = Cardinality(U)
  BY TasksCounted
<1> HIDE DEF E, U
<1>6. gauge = Cardinality(E) + Cardinality(I) + Cardinality(U) + Cardinality(Stranded)
  <2> HIDE DEF I
  <2>1. IsFiniteSet(E) /\ IsFiniteSet(I) /\ IsFiniteSet(U) /\ IsFiniteSet(Stranded)
    BY <1>1, CallAssumption, FS_Subset
  <2>2. IsFiniteSet(E \cup I) /\ Cardinality(E \cup I) = Cardinality(E) + Cardinality(I)
    BY <1>3, <2>1, DisjointSum
  <2>3. /\ IsFiniteSet(U \cup Stranded)
        /\ Cardinality(U \cup Stranded) = Cardinality(U) + Cardinality(Stranded)
    BY <1>3, <2>1, DisjointSum
  <2>4. Cardinality(Counted) = Cardinality(E \cup I) + Cardinality(U \cup Stranded)
    BY <1>2, <1>3, <2>2, <2>3, DisjointSum
  <2>5. QED
    BY <2>1, <2>2, <2>3, <2>4, FS_CardinalityType
<1>7. QED
  BY <1>4, <1>5, <1>6 DEF GaugeExact

\* Without transfers, call_active is exact at every moment, for any number of
\* calls: it is the number of calls in the registry, about to enter it, being
\* closed, or stranded by an error after the 200 OK, and it never wraps.
THEOREM GaugeCorrect ==
    ASSUME NoRetransmission, Transferable = {}
    PROVE  Spec => []GaugeExact
<1> DEFINE Inv == TypeOK /\ DialogInv /\ ByeInv /\ gauge = Cardinality(Counted)
<1>1. Init => Inv
  <2> SUFFICES ASSUME Init PROVE Inv
    OBVIOUS
  <2>1. ByeInv
    BY DEF Init, ByeInv, OneNgnBye, RightToBye, Kinds
  <2>2. Counted = {}
    BY CallAssumption DEF Init, Counted
  <2>3. QED
    BY <2>1, <2>2, InitialInv, FS_EmptySet DEF Init
<1>2. Inv /\ [Next]_vars => Inv'
  BY TypeStep, DialogStep, ByeStep, GaugeStep, NoRetransmission, Transferable = {}
<1>3. Inv => GaugeExact
  BY CountedOnce, NoRetransmission
<1> HIDE DEF Inv
<1>4. QED
  BY <1>1, <1>2, <1>3, PTL DEF Spec

\* A 200 OK is handle_invite's own, and its last act but one.
LEMMA AnswerStep ==
    ASSUME TypeOK, [Next]_vars,
           \A q \in Request : "200" \in finals[q] => stage[q] \in {"Insert", "Stranded", "Done"}
    PROVE  \A q \in Request : "200" \in finals'[q] => stage'[q] \in {"Insert", "Stranded", "Done"}
<1> DEFINE Early == \A q \in Request :
                       "200" \in finals[q] => stage[q] \in {"Insert", "Stranded", "Done"}
<1> USE CallAssumption
    DEF TypeOK, Stages, InProgress, Finals, inviteVars, cancelVars, registry, legVars, To, Answers
<1>1. CASE UNCHANGED vars
  BY <1>1 DEF vars
<1>2. ASSUME NEW r \in Request, Receive(r) PROVE Early'
  BY <1>2 DEF Receive
<1>3. ASSUME NEW r \in Request, Refuse(r) PROVE Early'
  BY <1>3 DEF Refuse
<1>4. ASSUME NEW r \in Request, Start(r) PROVE Early'
  <2>1. finals' = finals /\ stage[r] = "Accepted" /\ stage' = [stage EXCEPT ![r] = "Inviting"]
    BY <1>4 DEF Start
  <2>2. QED
    BY <2>1
<1>5. ASSUME NEW r \in Request, NEW o \in Results, InviteResult(r, o) PROVE Early'
  <2>1. finals' = finals /\ stage[r] = "Inviting"
    BY <1>5 DEF InviteResult, Returns
  <2>2. PICK s \in {"Load", "RetryWait"} : stage' = [stage EXCEPT ![r] = s]
    BY <1>5 DEF InviteResult
  <2>3. QED
    BY <2>1, <2>2
<1>6. ASSUME NEW r \in Request, NEW o \in Results, RetryResult(r, o) PROVE Early'
  <2>1. finals' = finals /\ stage[r] = "Retrying"
    BY <1>6 DEF RetryResult, Returns
  <2>2. PICK s \in {"Load", "RetryWait"} : stage' = [stage EXCEPT ![r] = s]
    BY <1>6 DEF RetryResult
  <2>3. QED
    BY <2>1, <2>2
<1>7. ASSUME NEW r \in Request, RetryWake(r) PROVE Early'
  BY <1>7 DEF RetryWake
<1>8. ASSUME NEW r \in Request, LoadFlag(r) PROVE Early'
  BY <1>8 DEF LoadFlag
<1>9. ASSUME NEW r \in Request, TakePending(r) PROVE Early'
  BY <1>9 DEF TakePending
<1>10. ASSUME NEW r \in Request, EstablishedCancelled(r) PROVE Early'
  BY <1>10 DEF EstablishedCancelled
<1>11. ASSUME NEW r \in Request, Answer(r) PROVE Early'
  BY <1>11 DEF Answer
<1>12. ASSUME NEW r \in Request, AnswerFails(r) PROVE Early'
  BY <1>12 DEF AnswerFails
<1>13. ASSUME NEW r \in Request, InsertConfirmed(r) PROVE Early'
  BY <1>13 DEF InsertConfirmed
<1>14. ASSUME NEW r \in Request, Failed(r) PROVE Early'
  BY <1>14 DEF Failed
<1>15. ASSUME NEW r \in Request, Errored(r) PROVE Early'
  BY <1>15 DEF Errored
<1>16. ASSUME NEW c \in CallId, CancelLookup(c) PROVE Early'
  BY <1>16 DEF CancelLookup, CancelTo
<1>17. ASSUME NEW c \in CallId, CancelFlag(c) PROVE Early'
  BY <1>17 DEF CancelFlag, CancelTo
<1>18. ASSUME NEW c \in CallId, CancelAnswer(c) PROVE Early'
  BY <1>18 DEF CancelAnswer, CancelTo
<1>19. ASSUME NEW c \in CallId, ExtBye(c) PROVE Early'
  BY <1>19 DEF ExtBye
<1>20. ASSUME NEW r \in Request, NgnBye(r) PROVE Early'
  BY <1>20 DEF NgnBye
<1>21. ASSUME NEW a \in Aor, Unregister(a) PROVE Early'
  BY <1>21 DEF Unregister
<1>22. ASSUME NEW r \in Request, NextDrained(r) PROVE Early'
  BY <1>22 DEF NextDrained
<1>23. ASSUME NEW c \in CallId, ReferStart(c) PROVE Early'
  BY <1>23 DEF ReferStart
<1>24. ASSUME NEW r \in Request, NEW s \in {"Bye", "Done"}, ReferOutcome(r, s) PROVE Early'
  BY <1>24 DEF ReferOutcome
<1>25. ASSUME NEW r \in Request, RemoveTransferred(r) PROVE Early'
  BY <1>25 DEF RemoveTransferred
<1>26. ASSUME NEW k \in Kinds, NEW r \in Request, SendBye(k, r) PROVE Early'
  BY <1>26 DEF SendBye
<1>27. ASSUME NEW k \in Kinds, NEW r \in Request, DecLoad(k, r) PROVE Early'
  BY <1>27 DEF DecLoad
<1>28. ASSUME NEW k \in Kinds, NEW r \in Request, DecSub(k, r) PROVE Early'
  BY <1>28 DEF DecSub
<1> HIDE DEF TypeOK
<1>29. QED
  BY <1>1, <1>2, <1>3, <1>4, <1>5, <1>6, <1>7, <1>8, <1>9, <1>10, <1>11, <1>12, <1>13,
     <1>14, <1>15, <1>16, <1>17, <1>18, <1>19, <1>20, <1>21, <1>22, <1>23, <1>24, <1>25, <1>26,
     <1>27, <1>28
     DEF Next, Event, InviteStep, CancelStep, CloseStep

\* Once handle_invite is bound to see the CANCEL's flag, nothing it or any
\* other task does makes it answer 200.
LEMMA CancelStaysSeen ==
    ASSUME TypeOK, NEW t \in Request, CancelSeen(t), [Next]_vars
    PROVE  CancelSeen(t)'
<1> USE CallAssumption
    DEF TypeOK, CancelSeen, Stages, InProgress, Finals, inviteVars, cancelVars, registry, legVars,
        To, Answers
<1>1. CASE UNCHANGED vars
  BY <1>1 DEF vars
<1>2. ASSUME NEW r \in Request, Receive(r) PROVE CancelSeen(t)'
  BY <1>2 DEF Receive
<1>3. ASSUME NEW r \in Request, Refuse(r) PROVE CancelSeen(t)'
  BY <1>3 DEF Refuse
<1>4. ASSUME NEW r \in Request, Start(r) PROVE CancelSeen(t)'
  BY <1>4 DEF Start
<1>5. ASSUME NEW r \in Request, NEW o \in Results, InviteResult(r, o) PROVE CancelSeen(t)'
  BY <1>5 DEF InviteResult, Returns
<1>6. ASSUME NEW r \in Request, NEW o \in Results, RetryResult(r, o) PROVE CancelSeen(t)'
  BY <1>6 DEF RetryResult, Returns
<1>7. ASSUME NEW r \in Request, RetryWake(r) PROVE CancelSeen(t)'
  BY <1>7 DEF RetryWake
<1>8. ASSUME NEW r \in Request, LoadFlag(r) PROVE CancelSeen(t)'
  BY <1>8 DEF LoadFlag
<1>9. ASSUME NEW r \in Request, TakePending(r) PROVE CancelSeen(t)'
  BY <1>9 DEF TakePending
<1>10. ASSUME NEW r \in Request, EstablishedCancelled(r) PROVE CancelSeen(t)'
  BY <1>10 DEF EstablishedCancelled
<1>11. ASSUME NEW r \in Request, Answer(r) PROVE CancelSeen(t)'
  BY <1>11 DEF Answer
<1>12. ASSUME NEW r \in Request, AnswerFails(r) PROVE CancelSeen(t)'
  BY <1>12 DEF AnswerFails
<1>13. ASSUME NEW r \in Request, InsertConfirmed(r) PROVE CancelSeen(t)'
  BY <1>13 DEF InsertConfirmed
<1>14. ASSUME NEW r \in Request, Failed(r) PROVE CancelSeen(t)'
  BY <1>14 DEF Failed
<1>15. ASSUME NEW r \in Request, Errored(r) PROVE CancelSeen(t)'
  BY <1>15 DEF Errored
<1>16. ASSUME NEW c \in CallId, CancelLookup(c) PROVE CancelSeen(t)'
  BY <1>16 DEF CancelLookup, CancelTo
<1>17. ASSUME NEW c \in CallId, CancelFlag(c) PROVE CancelSeen(t)'
  BY <1>17 DEF CancelFlag, CancelTo
<1>18. ASSUME NEW c \in CallId, CancelAnswer(c) PROVE CancelSeen(t)'
  BY <1>18 DEF CancelAnswer, CancelTo
<1>19. ASSUME NEW c \in CallId, ExtBye(c) PROVE CancelSeen(t)'
  BY <1>19 DEF ExtBye
<1>20. ASSUME NEW r \in Request, NgnBye(r) PROVE CancelSeen(t)'
  BY <1>20 DEF NgnBye
<1>21. ASSUME NEW a \in Aor, Unregister(a) PROVE CancelSeen(t)'
  BY <1>21 DEF Unregister
<1>22. ASSUME NEW r \in Request, NextDrained(r) PROVE CancelSeen(t)'
  BY <1>22 DEF NextDrained
<1>23. ASSUME NEW c \in CallId, ReferStart(c) PROVE CancelSeen(t)'
  BY <1>23 DEF ReferStart
<1>24. ASSUME NEW r \in Request, NEW s \in {"Bye", "Done"}, ReferOutcome(r, s) PROVE CancelSeen(t)'
  BY <1>24 DEF ReferOutcome
<1>25. ASSUME NEW r \in Request, RemoveTransferred(r) PROVE CancelSeen(t)'
  BY <1>25 DEF RemoveTransferred
<1>26. ASSUME NEW k \in Kinds, NEW r \in Request, SendBye(k, r) PROVE CancelSeen(t)'
  BY <1>26 DEF SendBye
<1>27. ASSUME NEW k \in Kinds, NEW r \in Request, DecLoad(k, r) PROVE CancelSeen(t)'
  BY <1>27 DEF DecLoad
<1>28. ASSUME NEW k \in Kinds, NEW r \in Request, DecSub(k, r) PROVE CancelSeen(t)'
  BY <1>28 DEF DecSub
<1> HIDE DEF TypeOK, CancelSeen
<1>29. QED
  BY <1>1, <1>2, <1>3, <1>4, <1>5, <1>6, <1>7, <1>8, <1>9, <1>10, <1>11, <1>12, <1>13,
     <1>14, <1>15, <1>16, <1>17, <1>18, <1>19, <1>20, <1>21, <1>22, <1>23, <1>24, <1>25, <1>26,
     <1>27, <1>28
     DEF Next, Event, InviteStep, CancelStep, CloseStep

\* The safety half of CancelInTimeIsFinal: when the CANCEL's flag is set while
\* Uac::invite is still running or waiting to retry, the extension never gets a
\* 200 OK for that INVITE, whatever the NGN answers and however many other
\* calls, retransmissions and transfers there are.
THEOREM TimelyCancelIsFinal ==
    ASSUME NEW r \in Request
    PROVE  Spec => [](r \in flagged /\ stage[r] \in InProgress => []("200" \notin finals[r]))
<1> DEFINE Early == \A q \in Request :
                       "200" \in finals[q] => stage[q] \in {"Insert", "Stranded", "Done"}
<1>1. Init => TypeOK /\ Early
  BY InitialInv DEF Init
<1>2. TypeOK /\ Early /\ [Next]_vars => TypeOK' /\ Early'
  BY TypeStep, AnswerStep
<1>3. TypeOK /\ Early /\ r \in flagged /\ stage[r] \in InProgress => CancelSeen(r)
  BY DEF CancelSeen, InProgress
<1>4. TypeOK /\ CancelSeen(r) /\ [Next]_vars => CancelSeen(r)'
  BY CancelStaysSeen
<1>5. CancelSeen(r) => "200" \notin finals[r]
  BY DEF CancelSeen
<1> HIDE DEF Early
<1>6. QED
  BY <1>1, <1>2, <1>3, <1>4, <1>5, PTL DEF Spec

-----------------------------------------------------------------------------
(* The two legs of a call implement OutboundService.                       *)

\* Every step keeps what the two legs know of each other.
LEMMA LegsStep ==
    ASSUME TypeOK, LegsInv, [Next]_vars
    PROVE  LegsInv'
<1> USE CallAssumption
    DEF TypeOK, Stages, InProgress, Kinds, CloseStages, Finals, inviteVars, cancelVars, registry,
        legVars, To, Answers, ReleaseNgn, RemoveByExt
<1>0. BeforeAnswer /\ LegsAgree /\ FlagsAgree
  BY DEF LegsInv
<1>1. CASE UNCHANGED vars
  BY <1>0, <1>1 DEF vars, LegsInv, BeforeAnswer, LegsAgree, FlagsAgree
<1>2. ASSUME NEW r \in Request, Receive(r) PROVE LegsInv'
  <2>1. BeforeAnswer'
    BY <1>0, <1>2 DEF BeforeAnswer, Receive
  <2>2. LegsAgree'
    BY <1>0, <1>2 DEF BeforeAnswer, LegsAgree, Receive
  <2>3. FlagsAgree'
    BY <1>0, <1>2 DEF FlagsAgree, Receive
  <2>4. QED
    BY <2>1, <2>2, <2>3 DEF LegsInv
<1>3. ASSUME NEW r \in Request, Refuse(r) PROVE LegsInv'
  <2>1. BeforeAnswer'
    BY <1>0, <1>3 DEF BeforeAnswer, Refuse
  <2>2. LegsAgree'
    BY <1>0, <1>3 DEF BeforeAnswer, LegsAgree, Refuse
  <2>3. FlagsAgree'
    BY <1>0, <1>3 DEF FlagsAgree, Refuse
  <2>4. QED
    BY <2>1, <2>2, <2>3 DEF LegsInv
<1>4. ASSUME NEW r \in Request, Start(r) PROVE LegsInv'
  <2>1. BeforeAnswer'
    BY <1>0, <1>4 DEF BeforeAnswer, Start
  <2>2. LegsAgree'
    BY <1>0, <1>4 DEF BeforeAnswer, LegsAgree, Start
  <2>3. FlagsAgree'
    BY <1>0, <1>4 DEF FlagsAgree, Start
  <2>4. QED
    BY <2>1, <2>2, <2>3 DEF LegsInv
<1>5. ASSUME NEW r \in Request, NEW o \in Results, InviteResult(r, o) PROVE LegsInv'
  <2>1. BeforeAnswer'
    BY <1>0, <1>5 DEF BeforeAnswer, InviteResult, Returns
  <2>2. LegsAgree'
    <3>1. PICK s \in {"Load", "RetryWait"} : stage' = [stage EXCEPT ![r] = s]
      BY <1>5 DEF InviteResult
    <3>2. stage[r] = "Inviting" /\ finals[r] \subseteq {"487"} /\ byes[r] = 0
      BY <1>0, <1>5 DEF BeforeAnswer, InviteResult
    <3>3. UNCHANGED <<wasCancelled, byExt, closing, finals, byes, extDown>>
      BY <1>5 DEF InviteResult, Returns
    <3>4. \A q \in Request : q # r => ngn'[q] = ngn[q]
      BY <1>5 DEF InviteResult, Returns
    <3>5. QED
      BY <1>0, <3>1, <3>2, <3>3, <3>4 DEF LegsAgree
  <2>3. FlagsAgree'
    BY <1>0, <1>5 DEF FlagsAgree, InviteResult, Returns
  <2>4. QED
    BY <2>1, <2>2, <2>3 DEF LegsInv
<1>6. ASSUME NEW r \in Request, NEW o \in Results, RetryResult(r, o) PROVE LegsInv'
  <2>1. BeforeAnswer'
    BY <1>0, <1>6 DEF BeforeAnswer, RetryResult, Returns
  <2>2. LegsAgree'
    <3>1. PICK s \in {"Load", "RetryWait"} : stage' = [stage EXCEPT ![r] = s]
      BY <1>6 DEF RetryResult
    <3>2. stage[r] = "Retrying" /\ finals[r] \subseteq {"487"} /\ byes[r] = 0
      BY <1>0, <1>6 DEF BeforeAnswer, RetryResult
    <3>3. UNCHANGED <<wasCancelled, byExt, closing, finals, byes, extDown>>
      BY <1>6 DEF RetryResult, Returns
    <3>4. \A q \in Request : q # r => ngn'[q] = ngn[q]
      BY <1>6 DEF RetryResult, Returns
    <3>5. QED
      BY <1>0, <3>1, <3>2, <3>3, <3>4 DEF LegsAgree
  <2>3. FlagsAgree'
    BY <1>0, <1>6 DEF FlagsAgree, RetryResult, Returns
  <2>4. QED
    BY <2>1, <2>2, <2>3 DEF LegsInv
<1>7. ASSUME NEW r \in Request, RetryWake(r) PROVE LegsInv'
  <2>1. BeforeAnswer'
    <3>1. stage' = [stage EXCEPT ![r] = "Load"] \/ stage' = [stage EXCEPT ![r] = "Retrying"]
      BY <1>7 DEF RetryWake
    <3>2. result[r] # "Established"
      BY <1>0, <1>7 DEF RetryWake, BeforeAnswer
    <3>3. QED
      BY <1>0, <1>7, <3>1, <3>2 DEF BeforeAnswer, RetryWake
  <2>2. LegsAgree'
    BY <1>0, <1>7 DEF BeforeAnswer, LegsAgree, RetryWake
  <2>3. FlagsAgree'
    BY <1>0, <1>7 DEF FlagsAgree, RetryWake
  <2>4. QED
    BY <2>1, <2>2, <2>3 DEF LegsInv
<1>8. ASSUME NEW r \in Request, LoadFlag(r) PROVE LegsInv'
  <2>1. BeforeAnswer'
    BY <1>0, <1>8 DEF BeforeAnswer, LoadFlag
  <2>2. LegsAgree'
    BY <1>0, <1>8 DEF BeforeAnswer, LegsAgree, LoadFlag
  <2>3. FlagsAgree'
    BY <1>0, <1>8 DEF FlagsAgree, LoadFlag
  <2>4. QED
    BY <2>1, <2>2, <2>3 DEF LegsInv
<1>9. ASSUME NEW r \in Request, TakePending(r) PROVE LegsInv'
  <2>1. BeforeAnswer'
    BY <1>0, <1>9 DEF BeforeAnswer, TakePending
  <2>2. LegsAgree'
    BY <1>0, <1>9 DEF BeforeAnswer, LegsAgree, TakePending
  <2>3. FlagsAgree'
    BY <1>0, <1>9 DEF FlagsAgree, TakePending
  <2>4. QED
    BY <2>1, <2>2, <2>3 DEF LegsInv
<1>10. ASSUME NEW r \in Request, EstablishedCancelled(r) PROVE LegsInv'
  <2>1. BeforeAnswer'
    BY <1>0, <1>10 DEF BeforeAnswer, EstablishedCancelled
  <2>2. LegsAgree'
    BY <1>0, <1>10 DEF BeforeAnswer, LegsAgree, EstablishedCancelled
  <2>3. FlagsAgree'
    BY <1>0, <1>10 DEF FlagsAgree, EstablishedCancelled
  <2>4. QED
    BY <2>1, <2>2, <2>3 DEF LegsInv
<1>11. ASSUME NEW r \in Request, Answer(r) PROVE LegsInv'
  <2>1. BeforeAnswer'
    BY <1>0, <1>11 DEF BeforeAnswer, Answer
  <2>2. LegsAgree'
    BY <1>0, <1>11 DEF BeforeAnswer, LegsAgree, Answer
  <2>3. FlagsAgree'
    BY <1>0, <1>11 DEF FlagsAgree, Answer
  <2>4. QED
    BY <2>1, <2>2, <2>3 DEF LegsInv
<1>12. ASSUME NEW r \in Request, AnswerFails(r) PROVE LegsInv'
  <2>1. BeforeAnswer'
    BY <1>0, <1>12 DEF BeforeAnswer, AnswerFails
  <2>2. LegsAgree'
    BY <1>0, <1>12 DEF BeforeAnswer, LegsAgree, AnswerFails
  <2>3. FlagsAgree'
    BY <1>0, <1>12 DEF FlagsAgree, AnswerFails
  <2>4. QED
    BY <2>1, <2>2, <2>3 DEF LegsInv
<1>13. ASSUME NEW r \in Request, InsertConfirmed(r) PROVE LegsInv'
  <2>1. BeforeAnswer'
    BY <1>0, <1>13 DEF BeforeAnswer, InsertConfirmed
  <2>2. LegsAgree'
    BY <1>0, <1>13 DEF BeforeAnswer, LegsAgree, InsertConfirmed
  <2>3. FlagsAgree'
    BY <1>0, <1>13 DEF FlagsAgree, InsertConfirmed
  <2>4. QED
    BY <2>1, <2>2, <2>3 DEF LegsInv
<1>14. ASSUME NEW r \in Request, Failed(r) PROVE LegsInv'
  <2>1. BeforeAnswer'
    BY <1>0, <1>14 DEF BeforeAnswer, Failed
  <2>2. LegsAgree'
    BY <1>0, <1>14 DEF BeforeAnswer, LegsAgree, Failed
  <2>3. FlagsAgree'
    BY <1>0, <1>14 DEF FlagsAgree, Failed
  <2>4. QED
    BY <2>1, <2>2, <2>3 DEF LegsInv
<1>15. ASSUME NEW r \in Request, Errored(r) PROVE LegsInv'
  <2>1. BeforeAnswer'
    BY <1>0, <1>15 DEF BeforeAnswer, Errored
  <2>2. LegsAgree'
    BY <1>0, <1>15 DEF BeforeAnswer, LegsAgree, Errored
  <2>3. FlagsAgree'
    BY <1>0, <1>15 DEF FlagsAgree, Errored
  <2>4. QED
    BY <2>1, <2>2, <2>3 DEF LegsInv
<1>16. ASSUME NEW c \in CallId, CancelLookup(c) PROVE LegsInv'
  <2>1. BeforeAnswer'
    BY <1>0, <1>16 DEF BeforeAnswer, CancelLookup, CancelTo
  <2>2. LegsAgree'
    BY <1>0, <1>16 DEF BeforeAnswer, LegsAgree, CancelLookup, CancelTo
  <2>3. FlagsAgree'
    BY <1>0, <1>16 DEF FlagsAgree, CancelLookup, CancelTo
  <2>4. QED
    BY <2>1, <2>2, <2>3 DEF LegsInv
<1>17. ASSUME NEW c \in CallId, CancelFlag(c) PROVE LegsInv'
  <2>1. BeforeAnswer'
    BY <1>0, <1>17 DEF BeforeAnswer, CancelFlag, CancelTo
  <2>2. LegsAgree'
    BY <1>0, <1>17 DEF BeforeAnswer, LegsAgree, CancelFlag, CancelTo
  <2>3. FlagsAgree'
    BY <1>0, <1>17 DEF FlagsAgree, CancelFlag, CancelTo
  <2>4. QED
    BY <2>1, <2>2, <2>3 DEF LegsInv
<1>18. ASSUME NEW c \in CallId, CancelAnswer(c) PROVE LegsInv'
  <2>1. BeforeAnswer'
    BY <1>0, <1>18 DEF BeforeAnswer, CancelAnswer, CancelTo
  <2>2. LegsAgree'
    BY <1>0, <1>18 DEF BeforeAnswer, LegsAgree, CancelAnswer, CancelTo
  <2>3. FlagsAgree'
    BY <1>0, <1>18 DEF FlagsAgree, CancelAnswer, CancelTo
  <2>4. QED
    BY <2>1, <2>2, <2>3 DEF LegsInv
<1>19. ASSUME NEW c \in CallId, ExtBye(c) PROVE LegsInv'
  <2>1. BeforeAnswer'
    BY <1>0, <1>19 DEF BeforeAnswer, ExtBye, HungUp
  <2>2. LegsAgree'
    <3>1. CASE byExt[c] = None
      BY <1>0, <1>19, <3>1 DEF LegsAgree, ExtBye, HungUp
    <3>2. CASE byExt[c] # None
      <4>1. byExt[c] \in Request
        BY <3>2
      <4>2. \A j \in Kinds, q \in Request :
               closing'[j][q] = IF j = "ExtBye" /\ q = byExt[c] THEN "Bye" ELSE closing[j][q]
        BY <1>19, <3>2, <4>1, ClosesAt DEF ExtBye
      <4>3. QED
        BY <1>0, <1>19, <3>2, <4>1, <4>2 DEF LegsAgree, ExtBye, HungUp
    <3>3. QED
      BY <3>1, <3>2
  <2>3. FlagsAgree'
    BY <1>0, <1>19 DEF FlagsAgree, ExtBye, HungUp
  <2>4. QED
    BY <2>1, <2>2, <2>3 DEF LegsInv
<1>20. ASSUME NEW r \in Request, NgnBye(r) PROVE LegsInv'
  <2>1. BeforeAnswer'
    BY <1>0, <1>20 DEF BeforeAnswer, NgnBye
  <2>2. LegsAgree'
    <3>1. CASE ngnToExt[r] = None \/ byExt[ngnToExt[r]] = None
      BY <1>0, <1>20, <3>1 DEF LegsAgree, NgnBye
    <3>2. CASE ~(ngnToExt[r] = None \/ byExt[ngnToExt[r]] = None)
      <4>1. ngnToExt[r] \in CallId /\ byExt[ngnToExt[r]] \in Request
        BY <3>2
      <4>2. \A j \in Kinds, q \in Request :
               closing'[j][q] = IF j = "NgnBye" /\ q = byExt[ngnToExt[r]] THEN "Bye" ELSE closing[j][q]
        BY <1>20, <3>2, <4>1, ClosesAt DEF NgnBye
      <4>3. QED
        BY <1>0, <1>20, <3>2, <4>1, <4>2 DEF LegsAgree, NgnBye
    <3>3. QED
      BY <3>1, <3>2
  <2>3. FlagsAgree'
    BY <1>0, <1>20 DEF FlagsAgree, NgnBye
  <2>4. QED
    BY <2>1, <2>2, <2>3 DEF LegsInv
<1>21. ASSUME NEW a \in Aor, Unregister(a) PROVE LegsInv'
  <2>1. BeforeAnswer'
    BY <1>0, <1>21 DEF BeforeAnswer, Unregister, EntriesOf
  <2>2. LegsAgree'
    BY <1>0, <1>21 DEF BeforeAnswer, LegsAgree, Unregister, EntriesOf
  <2>3. FlagsAgree'
    BY <1>0, <1>21 DEF FlagsAgree, Unregister, EntriesOf
  <2>4. QED
    BY <2>1, <2>2, <2>3 DEF LegsInv
<1>22. ASSUME NEW r \in Request, NextDrained(r) PROVE LegsInv'
  <2>1. BeforeAnswer'
    BY <1>0, <1>22 DEF BeforeAnswer, NextDrained
  <2>2. LegsAgree'
    BY <1>0, <1>22 DEF BeforeAnswer, LegsAgree, NextDrained, Closes
  <2>3. FlagsAgree'
    BY <1>0, <1>22 DEF FlagsAgree, NextDrained
  <2>4. QED
    BY <2>1, <2>2, <2>3 DEF LegsInv
<1>23. ASSUME NEW c \in CallId, ReferStart(c) PROVE LegsInv'
  <2>1. BeforeAnswer'
    BY <1>0, <1>23 DEF BeforeAnswer, ReferStart
  <2>2. LegsAgree'
    BY <1>0, <1>23 DEF BeforeAnswer, LegsAgree, ReferStart, Closes
  <2>3. FlagsAgree'
    BY <1>0, <1>23 DEF FlagsAgree, ReferStart
  <2>4. QED
    BY <2>1, <2>2, <2>3 DEF LegsInv
<1>24. ASSUME NEW r \in Request, NEW s \in {"Bye", "Done"}, ReferOutcome(r, s) PROVE LegsInv'
  <2>1. BeforeAnswer'
    BY <1>0, <1>24 DEF BeforeAnswer, ReferOutcome
  <2>2. LegsAgree'
    BY <1>0, <1>24 DEF BeforeAnswer, LegsAgree, ReferOutcome, Closes
  <2>3. FlagsAgree'
    BY <1>0, <1>24 DEF FlagsAgree, ReferOutcome
  <2>4. QED
    BY <2>1, <2>2, <2>3 DEF LegsInv
<1>25. ASSUME NEW r \in Request, RemoveTransferred(r) PROVE LegsInv'
  <2>1. BeforeAnswer'
    BY <1>0, <1>25 DEF BeforeAnswer, RemoveTransferred
  <2>2. LegsAgree'
    BY <1>0, <1>25 DEF BeforeAnswer, LegsAgree, RemoveTransferred, Closes
  <2>3. FlagsAgree'
    BY <1>0, <1>25 DEF FlagsAgree, RemoveTransferred
  <2>4. QED
    BY <2>1, <2>2, <2>3 DEF LegsInv
<1>26. ASSUME NEW k \in Kinds, NEW r \in Request, SendBye(k, r) PROVE LegsInv'
  <2>1. BeforeAnswer'
    BY <1>0, <1>26 DEF BeforeAnswer, LegsAgree, SendBye
  <2>2. LegsAgree'
    BY <1>0, <1>26 DEF BeforeAnswer, LegsAgree, SendBye, Closes
  <2>3. FlagsAgree'
    BY <1>0, <1>26 DEF FlagsAgree, SendBye
  <2>4. QED
    BY <2>1, <2>2, <2>3 DEF LegsInv
<1>27. ASSUME NEW k \in Kinds, NEW r \in Request, DecLoad(k, r) PROVE LegsInv'
  <2>1. BeforeAnswer'
    BY <1>0, <1>27 DEF BeforeAnswer, DecLoad, Closed
  <2>2. LegsAgree'
    <3>1. closing[k][r] # "Idle" /\ UNCHANGED <<inviteVars, registry, legVars>>
      BY <1>27 DEF DecLoad
    <3>2. \A j \in Kinds, q \in Request : closing'[j][q] # closing[j][q] => j = k /\ q = r
      BY <1>27, ClosesAt DEF DecLoad, Closed
    <3>3. QED
      BY <1>0, <3>1, <3>2 DEF LegsAgree
  <2>3. FlagsAgree'
    BY <1>0, <1>27 DEF FlagsAgree, DecLoad, Closed
  <2>4. QED
    BY <2>1, <2>2, <2>3 DEF LegsInv
<1>28. ASSUME NEW k \in Kinds, NEW r \in Request, DecSub(k, r) PROVE LegsInv'
  <2>1. BeforeAnswer'
    BY <1>0, <1>28 DEF BeforeAnswer, DecSub, Closed
  <2>2. LegsAgree'
    BY <1>0, <1>28 DEF BeforeAnswer, LegsAgree, DecSub, Closed, Closes
  <2>3. FlagsAgree'
    BY <1>0, <1>28 DEF FlagsAgree, DecSub, Closed
  <2>4. QED
    BY <2>1, <2>2, <2>3 DEF LegsInv
<1> HIDE DEF TypeOK, Kinds, Results
<1>29. QED
  BY <1>1, <1>2, <1>3, <1>4, <1>5, <1>6, <1>7, <1>8, <1>9, <1>10, <1>11, <1>12, <1>13, <1>14,
     <1>15, <1>16, <1>17, <1>18, <1>19, <1>20, <1>21, <1>22, <1>23, <1>24, <1>25, <1>26, <1>27, <1>28
     DEF Next, Event, InviteStep, CancelStep, CloseStep

\* Each leg's view of the call moves when one of the values it is read off moves.
LEMMA CallerStays ==
    ASSUME NEW q \in Request, finals'[q] \ {"487"} = finals[q] \ {"487"}, wasCancelled'[q] <=> wasCancelled[q],
           stage'[q] = "Idle" <=> stage[q] = "Idle", q \in extDown' <=> q \in extDown
    PROVE  CallerLeg(q)' = CallerLeg(q)
<1>1. "200" \in finals'[q] <=> "200" \in finals[q]
  OBVIOUS
<1>2. finals'[q] \cap {"Refused", "Failed"} # {} <=> finals[q] \cap {"Refused", "Failed"} # {}
  OBVIOUS
<1>3. QED
  BY <1>1, <1>2 DEF CallerLeg

LEMMA CarrierStays ==
    ASSUME NEW q \in Request, byes'[q] = byes[q], ngn'[q] = ngn[q]
    PROVE  CarrierLeg(q)' = CarrierLeg(q)
  BY DEF CarrierLeg

\* The views of the legs as functions of the request, in this state and in the next.
LEMMA CallersStay ==
    ASSUME \A q \in Request : CallerLeg(q)' = CallerLeg(q)
    PROVE  [q \in Request |-> CallerLeg(q)]' = [q \in Request |-> CallerLeg(q)]
  OBVIOUS

LEMMA CarriersStay ==
    ASSUME \A q \in Request : CarrierLeg(q)' = CarrierLeg(q)
    PROVE  [q \in Request |-> CarrierLeg(q)]' = [q \in Request |-> CarrierLeg(q)]
  OBVIOUS

LEMMA CallerMoves ==
    ASSUME NEW r \in Request, NEW s, CallerLeg(r)' = s,
           \A q \in Request : q # r => CallerLeg(q)' = CallerLeg(q)
    PROVE  [q \in Request |-> CallerLeg(q)]' = [[q \in Request |-> CallerLeg(q)] EXCEPT ![r] = s]
  OBVIOUS

LEMMA CarrierMoves ==
    ASSUME NEW r \in Request, NEW s, CarrierLeg(r)' = s,
           \A q \in Request : q # r => CarrierLeg(q)' = CarrierLeg(q)
    PROVE  [q \in Request |-> CarrierLeg(q)]' = [[q \in Request |-> CarrierLeg(q)] EXCEPT ![r] = s]
  OBVIOUS

\* A step that touches nothing the views are read off.
LEMMA SilentStep ==
    ASSUME UNCHANGED <<finals, wasCancelled, extDown, byes, ngn, flagged>>,
           \A q \in Request : stage'[q] = "Idle" <=> stage[q] = "Idle"
    PROVE  UNCHANGED Service!vars
<1>1. \A q \in Request : CallerLeg(q)' = CallerLeg(q)
  BY CallerStays
<1>2. \A q \in Request : CarrierLeg(q)' = CarrierLeg(q)
  BY CarrierStays
<1>3. QED
  BY <1>1, <1>2, CallersStay, CarriersStay DEF Service!vars

\* A step that only gives the extension of r a final response other than 487.
LEMMA CallerTold ==
    ASSUME TypeOK, NEW r \in Request, NEW f \in Finals \ {"487"}, Answers(r, f),
           UNCHANGED <<wasCancelled, extDown, byes, ngn, flagged>>,
           \A q \in Request : q # r => (stage'[q] = "Idle" <=> stage[q] = "Idle")
    PROVE  /\ \A q \in Request : q # r => CallerLeg(q)' = CallerLeg(q)
           /\ [q \in Request |-> CarrierLeg(q)]' = [q \in Request |-> CarrierLeg(q)]
           /\ {q \in Request : "487" \in finals[q]}' = {q \in Request : "487" \in finals[q]}
           /\ finals'[r] = finals[r] \cup {f}
<1>1. \A q \in Request : finals'[q] = IF q = r THEN finals[q] \cup {f} ELSE finals[q]
  BY DEF TypeOK, Answers
<1>2. \A q \in Request : q # r => CallerLeg(q)' = CallerLeg(q)
  BY <1>1, CallerStays
<1>3. \A q \in Request : CarrierLeg(q)' = CarrierLeg(q)
  BY CarrierStays
<1>4. \A q \in Request : "487" \in finals'[q] <=> "487" \in finals[q]
  BY <1>1
<1>5. QED
  BY <1>1, <1>2, <1>3, <1>4, CarriersStay

\* A refusal without an NGN dialog is the service's.
LEMMA RefusalStep ==
    ASSUME TypeOK, LegsInv, NEW r \in Request, NEW f \in {"Refused", "Failed"}, Answers(r, f),
           ngn[r] = "None", finals[r] \subseteq {"487"}, stage[r] # "Idle",
           UNCHANGED <<wasCancelled, extDown, byes, ngn, flagged>>,
           \A q \in Request : q # r => (stage'[q] = "Idle" <=> stage[q] = "Idle")
    PROVE  Service!Refuse(r)
<1>1. f \in Finals \ {"487"}
  BY DEF Finals
<1>2. /\ \A q \in Request : q # r => CallerLeg(q)' = CallerLeg(q)
      /\ [q \in Request |-> CarrierLeg(q)]' = [q \in Request |-> CarrierLeg(q)]
      /\ {q \in Request : "487" \in finals[q]}' = {q \in Request : "487" \in finals[q]}
      /\ finals'[r] = finals[r] \cup {f}
  BY <1>1, CallerTold
<1>3. CallerLeg(r)' = "Refused"
  BY <1>2 DEF CallerLeg
<1>4. CallerLeg(r) \in {"Offered", "Withdrawn"}
  BY DEF CallerLeg
<1>5. CarrierLeg(r) = "None"
  BY DEF CarrierLeg, LegsInv, LegsAgree, TypeOK
<1>6. [q \in Request |-> CallerLeg(q)]' = [[q \in Request |-> CallerLeg(q)] EXCEPT ![r] = "Refused"]
  BY <1>2, <1>3, CallerMoves
<1>7. QED
  BY <1>2, <1>4, <1>5, <1>6 DEF Service!Refuse, Service!CallerFrom

\* Uac::invite returns: the service connects the call, or nothing is seen of it.
LEMMA ReturnStep ==
    ASSUME TypeOK, LegsInv, NEW r \in Request, NEW o \in Results, Returns(r, o),
           stage[r] \in InProgress,
           \A q \in Request : stage'[q] = "Idle" <=> stage[q] = "Idle"
    PROVE  Service!Connect(r) \/ UNCHANGED Service!vars
<1>1. UNCHANGED <<wasCancelled, flagged, finals, byes, extDown>>
  BY DEF Returns, cancelVars
<1>2. CASE o # "Established"
  <2>1. UNCHANGED ngn
    BY <1>2 DEF Returns
  <2>2. QED
    BY <1>1, <2>1, SilentStep
<1>3. CASE o = "Established"
  <2>1. ngn' = [ngn EXCEPT ![r] = "Up"]
    BY <1>3 DEF Returns
  <2>2. ngn[r] = "None" /\ byes[r] = 0 /\ ~wasCancelled[r] /\ finals[r] \subseteq {"487"} /\ stage[r] # "Idle"
    BY DEF LegsInv, BeforeAnswer, InProgress
  <2>3. \A q \in Request : q # r => CarrierLeg(q)' = CarrierLeg(q)
    BY <1>1, <2>1, CarrierStays DEF TypeOK
  <2>4. CarrierLeg(r)' = "Up" /\ CarrierLeg(r) = "None"
    BY <1>1, <2>1, <2>2 DEF CarrierLeg, TypeOK
  <2>5. [q \in Request |-> CarrierLeg(q)]' = [[q \in Request |-> CarrierLeg(q)] EXCEPT ![r] = "Up"]
    BY <2>3, <2>4, CarrierMoves
  <2>6. CallerLeg(r) = "Offered"
    BY <2>2 DEF CallerLeg
  <2>7. [q \in Request |-> CallerLeg(q)]' = [q \in Request |-> CallerLeg(q)]
    BY <1>1, CallerStays, CallersStay
  <2>8. QED
    BY <1>1, <2>4, <2>5, <2>6, <2>7 DEF Service!Connect, Service!CarrierFrom
<1>4. QED
  BY <1>2, <1>3

\* A BYE on r's NGN dialog: the service releases the carrier leg, if it has not yet.
LEMMA ReleaseStep ==
    ASSUME TypeOK, LegsInv, NEW r \in Request, ReleaseNgn(r), ngn[r] # "None",
           CallerLeg(r) \in {"Withdrawn", "Answered", "Over"},
           UNCHANGED <<finals, wasCancelled, extDown, flagged>>,
           \A q \in Request : stage'[q] = "Idle" <=> stage[q] = "Idle"
    PROVE  Service!Release(r) \/ UNCHANGED Service!vars
<1>1. [q \in Request |-> CallerLeg(q)]' = [q \in Request |-> CallerLeg(q)]
  BY CallerStays, CallersStay
<1>2. \A q \in Request : q # r => CarrierLeg(q)' = CarrierLeg(q)
  BY CarrierStays DEF ReleaseNgn, TypeOK
<1>3. CarrierLeg(r)' = "Released"
  BY DEF ReleaseNgn, CarrierLeg, TypeOK
<1>4. CarrierLeg(r) \in {"Up", "Ended", "Released"}
  BY DEF CarrierLeg, TypeOK
<1>5. CASE CarrierLeg(r) = "Released"
  <2>1. [q \in Request |-> CarrierLeg(q)]' = [q \in Request |-> CarrierLeg(q)]
    BY <1>2, <1>3, <1>5, CarriersStay
  <2>2. QED
    BY <1>1, <2>1 DEF Service!vars
<1>6. CASE CarrierLeg(r) # "Released"
  <2>1. [q \in Request |-> CarrierLeg(q)]' = [[q \in Request |-> CarrierLeg(q)] EXCEPT ![r] = "Released"]
    BY <1>2, <1>3, CarrierMoves
  <2>2. QED
    BY <1>1, <1>4, <1>6, <2>1 DEF Service!Release, Service!CarrierFrom
<1>7. QED
  BY <1>5, <1>6

\* BYEs of the extension: the service's hang-up.
LEMMA HangUpStep ==
    ASSUME TypeOK, NEW S \in SUBSET Request, extDown' = extDown \cup S,
           \A q \in S : "200" \in finals[q] /\ q \notin extDown,
           UNCHANGED <<finals, wasCancelled, byes, ngn, flagged>>,
           \A q \in Request : stage'[q] = "Idle" <=> stage[q] = "Idle"
    PROVE  Service!HangUp(S)
<1>1. [q \in Request |-> CarrierLeg(q)]' = [q \in Request |-> CarrierLeg(q)]
  BY CarrierStays, CarriersStay
<1>2. \A q \in Request \ S : CallerLeg(q)' = CallerLeg(q)
  BY CallerStays
<1>3. \A q \in S : CallerLeg(q) = "Answered" /\ CallerLeg(q)' = "Over"
  BY DEF CallerLeg
<1>4. [q \in Request |-> CallerLeg(q)]' =
         [q \in Request |-> IF q \in S THEN "Over" ELSE [p \in Request |-> CallerLeg(p)][q]]
  BY <1>2, <1>3
<1>5. QED
  BY <1>1, <1>3, <1>4 DEF Service!HangUp

\* Every step of the handlers is a step of the service, or nothing it sees.
LEMMA ServiceStep ==
    ASSUME TypeOK, LegsInv, [Next]_vars
    PROVE  [Service!Next]_(Service!vars)
<1> DEFINE Goal == Service!Next \/ UNCHANGED Service!vars
<1>1. ASSUME UNCHANGED vars PROVE Goal
  BY <1>1, SilentStep DEF vars, inviteVars, cancelVars, legVars
<1>2. ASSUME NEW r \in Request, Receive(r) PROVE Goal
  <2>1. stage[r] = "Idle" /\ stage' = [stage EXCEPT ![r] = "Accepted"]
        /\ UNCHANGED <<wasCancelled, flagged, finals, byes, ngn, extDown>>
    BY <1>2 DEF Receive, To, cancelVars, legVars
  <2>2. finals[r] \subseteq {"487"} /\ ~wasCancelled[r]
    BY <2>1 DEF LegsInv, BeforeAnswer
  <2>3. CallerLeg(r) = "None" /\ CallerLeg(r)' = "Offered"
    BY <2>1, <2>2 DEF CallerLeg, TypeOK
  <2>4. \A q \in Request : q # r => CallerLeg(q)' = CallerLeg(q)
    BY <2>1, CallerStays DEF TypeOK
  <2>5. [q \in Request |-> CallerLeg(q)]' = [[q \in Request |-> CallerLeg(q)] EXCEPT ![r] = "Offered"]
    BY <2>3, <2>4, CallerMoves
  <2>6. [q \in Request |-> CarrierLeg(q)]' = [q \in Request |-> CarrierLeg(q)]
    BY <2>1, CarrierStays, CarriersStay
  <2>7. Service!Offer(r)
    BY <2>1, <2>3, <2>5, <2>6 DEF Service!Offer, Service!CallerFrom
  <2>8. QED
    BY <2>7 DEF Service!Next
<1>3. ASSUME NEW r \in Request, Refuse(r) PROVE Goal
  <2>1. stage[r] = "Accepted" /\ stage' = [stage EXCEPT ![r] = "Done"] /\ Answers(r, "Refused")
        /\ UNCHANGED <<wasCancelled, flagged, byes, ngn, extDown>>
    BY <1>3 DEF Refuse, To, cancelVars
  <2>2. finals[r] \subseteq {"487"} /\ ngn[r] = "None"
    BY <2>1 DEF LegsInv, BeforeAnswer
  <2>3. Service!Refuse(r)
    BY <2>1, <2>2, RefusalStep DEF TypeOK
  <2>4. QED
    BY <2>3 DEF Service!Next
<1>4. ASSUME NEW r \in Request, Start(r) \/ RetryWake(r) \/ TakePending(r) \/ AnswerFails(r) \/ InsertConfirmed(r)
      PROVE  Goal
  <2>1. PICK s \in Stages : stage[r] # "Idle" /\ s # "Idle" /\ stage' = [stage EXCEPT ![r] = s]
    BY <1>4 DEF Start, RetryWake, TakePending, AnswerFails, InsertConfirmed, To, Stages, InProgress
  <2>2. UNCHANGED <<wasCancelled, flagged, finals, byes, ngn, extDown>>
    BY <1>4 DEF Start, RetryWake, TakePending, AnswerFails, InsertConfirmed, cancelVars, legVars
  <2>3. \A q \in Request : stage'[q] = "Idle" <=> stage[q] = "Idle"
    BY <2>1 DEF TypeOK
  <2>4. QED
    BY <2>2, <2>3, SilentStep
<1>5. ASSUME NEW r \in Request, NEW o \in Results, InviteResult(r, o) \/ RetryResult(r, o) PROVE Goal
  <2>1. Returns(r, o) /\ stage[r] \in InProgress
    BY <1>5 DEF InviteResult, RetryResult, InProgress
  <2>2. PICK s \in {"Load", "RetryWait"} : stage' = [stage EXCEPT ![r] = s]
    BY <1>5 DEF InviteResult, RetryResult, To
  <2>3. \A q \in Request : stage'[q] = "Idle" <=> stage[q] = "Idle"
    BY <2>1, <2>2 DEF TypeOK, InProgress
  <2>4. QED
    BY <2>1, <2>3, ReturnStep DEF Service!Next
<1>6. ASSUME NEW r \in Request, LoadFlag(r) PROVE Goal
  <2>1. /\ stage[r] = "Load" /\ stage' = [stage EXCEPT ![r] = "Take"]
        /\ wasCancelled' = [wasCancelled EXCEPT ![r] = r \in flagged]
        /\ UNCHANGED <<flagged, finals, byes, ngn, extDown>>
    BY <1>6 DEF LoadFlag, To, cancelVars, legVars
  <2>2. finals[r] \subseteq {"487"} /\ ~wasCancelled[r]
    BY <2>1 DEF LegsInv, BeforeAnswer
  <2>3. \A q \in Request : stage'[q] = "Idle" <=> stage[q] = "Idle"
    BY <2>1 DEF TypeOK
  <2>4. CASE r \notin flagged
    <3>1. wasCancelled' = wasCancelled
      <4>1. \A q \in Request : wasCancelled'[q] = wasCancelled[q]
        <5>1. ~wasCancelled'[r]
          BY <2>1, <2>4 DEF TypeOK
        <5>2. wasCancelled[r] \in BOOLEAN /\ wasCancelled'[r] \in BOOLEAN
          BY <2>1 DEF TypeOK
        <5>3. \A q \in Request \ {r} : wasCancelled'[q] = wasCancelled[q]
          BY <2>1 DEF TypeOK
        <5>4. QED
          BY <2>2, <5>1, <5>2, <5>3
      <4>2. QED
        BY <2>1, <4>1 DEF TypeOK
    <3>2. QED
      BY <2>1, <2>3, <3>1, SilentStep
  <2>5. CASE r \in flagged
    <3>1. wasCancelled'[r]
      BY <2>1, <2>5, Zenon DEF TypeOK
    <3>2. CallerLeg(r) = "Offered" /\ CallerLeg(r)' = "Withdrawn"
      BY <2>1, <2>2, <3>1 DEF CallerLeg, TypeOK
    <3>3. \A q \in Request : q # r => wasCancelled'[q] = wasCancelled[q]
      BY <2>1 DEF TypeOK
    <3>4. \A q \in Request : q # r => CallerLeg(q)' = CallerLeg(q)
      BY <2>1, <2>3, <3>3, CallerStays
    <3>5. [q \in Request |-> CallerLeg(q)]' = [[q \in Request |-> CallerLeg(q)] EXCEPT ![r] = "Withdrawn"]
      BY <3>2, <3>4, CallerMoves
    <3>6. [q \in Request |-> CarrierLeg(q)]' = [q \in Request |-> CarrierLeg(q)]
      BY <2>1, CarrierStays, CarriersStay
    <3>7. Service!Withdraw(r)
      BY <2>1, <2>5, <3>2, <3>5, <3>6 DEF Service!Withdraw, Service!CallerFrom
    <3>8. QED
      BY <3>7 DEF Service!Next
  <2>6. QED
    BY <2>4, <2>5
<1>7. ASSUME NEW r \in Request, EstablishedCancelled(r) PROVE Goal
  <2>1. /\ stage[r] = "Handle" /\ result[r] = "Established" /\ wasCancelled[r]
        /\ stage' = [stage EXCEPT ![r] = "Done"] /\ ReleaseNgn(r)
        /\ UNCHANGED <<wasCancelled, flagged, finals, extDown>>
    BY <1>7 DEF EstablishedCancelled, To, cancelVars
  <2>2. ngn[r] # "None" /\ finals[r] \subseteq {"487"}
    BY <2>1 DEF LegsInv, BeforeAnswer
  <2>3. CallerLeg(r) = "Withdrawn"
    BY <2>1, <2>2 DEF CallerLeg
  <2>4. \A q \in Request : stage'[q] = "Idle" <=> stage[q] = "Idle"
    BY <2>1 DEF TypeOK
  <2>5. QED
    BY <2>1, <2>2, <2>3, <2>4, ReleaseStep DEF Service!Next
<1>8. ASSUME NEW r \in Request, Answer(r) PROVE Goal
  <2>1. /\ stage[r] = "Handle" /\ result[r] = "Established" /\ ~wasCancelled[r] /\ Answers(r, "200")
        /\ UNCHANGED <<wasCancelled, flagged, byes, ngn, extDown>>
    BY <1>8 DEF Answer, cancelVars
  <2>2. PICK s \in {"Insert", "Stranded"} : stage' = [stage EXCEPT ![r] = s]
    BY <1>8 DEF Answer, To
  <2>3. ngn[r] # "None" /\ finals[r] \subseteq {"487"} /\ r \notin extDown
    BY <2>1 DEF LegsInv, BeforeAnswer, LegsAgree
  <2>4. /\ \A q \in Request : q # r => CallerLeg(q)' = CallerLeg(q)
        /\ [q \in Request |-> CarrierLeg(q)]' = [q \in Request |-> CarrierLeg(q)]
        /\ {q \in Request : "487" \in finals[q]}' = {q \in Request : "487" \in finals[q]}
        /\ finals'[r] = finals[r] \cup {"200"}
    <3>1. \A q \in Request : q # r => (stage'[q] = "Idle" <=> stage[q] = "Idle")
      BY <2>2 DEF TypeOK
    <3>2. "200" \in Finals \ {"487"}
      BY DEF Finals
    <3>3. QED
      BY <2>1, <3>1, <3>2, CallerTold
  <2>5. CallerLeg(r) = "Offered" /\ CallerLeg(r)' = "Answered"
    BY <2>1, <2>3, <2>4 DEF CallerLeg
  <2>6. CarrierLeg(r) # "None"
    BY <2>3 DEF CarrierLeg
  <2>7. [q \in Request |-> CallerLeg(q)]' = [[q \in Request |-> CallerLeg(q)] EXCEPT ![r] = "Answered"]
    BY <2>4, <2>5, CallerMoves
  <2>8. Service!Answer(r)
    BY <2>1, <2>4, <2>5, <2>6, <2>7 DEF Service!Answer, Service!CallerFrom
  <2>9. QED
    BY <2>8 DEF Service!Next
<1>9. ASSUME NEW r \in Request, Failed(r) PROVE Goal
  <2>1. /\ stage[r] = "Handle" /\ result[r] = "Failed" /\ stage' = [stage EXCEPT ![r] = "Done"]
        /\ Answers(r, "Failed") /\ UNCHANGED <<wasCancelled, flagged, byes, ngn, extDown>>
    BY <1>9 DEF Failed, To, cancelVars
  <2>2. finals[r] \subseteq {"487"} /\ ngn[r] = "None"
    BY <2>1 DEF LegsInv, BeforeAnswer
  <2>3. Service!Refuse(r)
    BY <2>1, <2>2, RefusalStep DEF TypeOK
  <2>4. QED
    BY <2>3 DEF Service!Next
<1>10. ASSUME NEW r \in Request, Errored(r) PROVE Goal
  <2>1. /\ stage[r] = "Handle" /\ result[r] = "Err" /\ stage' = [stage EXCEPT ![r] = "Done"]
        /\ UNCHANGED <<wasCancelled, flagged, byes, ngn, extDown>>
    BY <1>10 DEF Errored, To, cancelVars
  <2>2. finals[r] \subseteq {"487"} /\ ngn[r] = "None"
    BY <2>1 DEF LegsInv, BeforeAnswer
  <2>3. \A q \in Request : stage'[q] = "Idle" <=> stage[q] = "Idle"
    BY <2>1 DEF TypeOK
  <2>4. CASE wasCancelled[r]
    <3>1. UNCHANGED finals
      BY <1>10, <2>4 DEF Errored
    <3>2. QED
      BY <2>1, <2>3, <3>1, SilentStep
  <2>5. CASE ~wasCancelled[r]
    <3>1. Answers(r, "Failed")
      BY <1>10, <2>5 DEF Errored
    <3>2. Service!Refuse(r)
      BY <2>1, <2>2, <2>3, <3>1, RefusalStep
    <3>3. QED
      BY <3>2 DEF Service!Next
  <2>6. QED
    BY <2>4, <2>5
<1>11. ASSUME NEW c \in CallId, CancelLookup(c) \/ ReferStart(c) PROVE Goal
  BY <1>11, SilentStep DEF CancelLookup, ReferStart, inviteVars, cancelVars, legVars
<1>12. ASSUME NEW c \in CallId, CancelFlag(c) PROVE Goal
  <2>0. PICK r \in Request : r = cancelReq[c]
    BY <1>12 DEF CancelFlag, TypeOK
  <2>1. flagged' = flagged \cup {r} /\ UNCHANGED <<stage, wasCancelled, finals, byes, ngn, extDown>>
    BY <1>12, <2>0 DEF CancelFlag, TypeOK, inviteVars, legVars
  <2>2. stage[r] # "Idle"
    BY <2>0, CallAssumption DEF LegsInv, FlagsAgree
  <2>3. CallerLeg(r) # "None"
    BY <2>2 DEF CallerLeg
  <2>4. [q \in Request |-> CallerLeg(q)]' = [q \in Request |-> CallerLeg(q)]
    BY <2>1, CallerStays, CallersStay
  <2>5. [q \in Request |-> CarrierLeg(q)]' = [q \in Request |-> CarrierLeg(q)]
    BY <2>1, CarrierStays, CarriersStay
  <2>6. Service!Ask(r)
    BY <2>1, <2>3, <2>4, <2>5 DEF Service!Ask
  <2>7. QED
    BY <2>6 DEF Service!Next
<1>13. ASSUME NEW c \in CallId, CancelAnswer(c) PROVE Goal
  <2>0. PICK r \in Request : r = cancelReq[c]
    BY <1>13 DEF CancelAnswer, TypeOK
  <2>1. /\ cancel[c] = "Flagged" /\ Answers(r, "487")
        /\ UNCHANGED <<stage, wasCancelled, flagged, byes, ngn, extDown>>
    BY <1>13, <2>0 DEF CancelAnswer, inviteVars
  <2>2. r \in flagged
    BY <2>0, <2>1 DEF LegsInv, FlagsAgree
  <2>3. \A q \in Request : finals'[q] = IF q = r THEN finals[q] \cup {"487"} ELSE finals[q]
    BY <2>1 DEF Answers, TypeOK
  <2>4. \A q \in Request : finals'[q] \ {"487"} = finals[q] \ {"487"}
    BY <2>3
  <2>5. [q \in Request |-> CallerLeg(q)]' = [q \in Request |-> CallerLeg(q)]
    BY <2>1, <2>4, CallerStays, CallersStay
  <2>6. [q \in Request |-> CarrierLeg(q)]' = [q \in Request |-> CarrierLeg(q)]
    BY <2>1, CarrierStays, CarriersStay
  <2>7. {q \in Request : "487" \in finals[q]}' = {q \in Request : "487" \in finals[q]} \cup {r}
    BY <2>1, <2>3
  <2>8. Service!Confirm(r)
    BY <2>1, <2>2, <2>5, <2>6, <2>7 DEF Service!Confirm
  <2>9. QED
    BY <2>8 DEF Service!Next
<1>14. ASSUME NEW c \in CallId, ExtBye(c) PROVE Goal
  <2>1. /\ extDown' = extDown \cup HungUp(c)
        /\ UNCHANGED <<stage, wasCancelled, flagged, finals, byes, ngn>>
    BY <1>14 DEF ExtBye, inviteVars, cancelVars
  <2>2. HungUp(c) \in SUBSET Request /\ \A q \in HungUp(c) : "200" \in finals[q] /\ q \notin extDown
    BY DEF HungUp
  <2>3. Service!HangUp(HungUp(c))
    BY <2>1, <2>2, HangUpStep
  <2>4. QED
    BY <2>2, <2>3 DEF Service!Next
<1>15. ASSUME NEW r \in Request, NgnBye(r) PROVE Goal
  <2>1. /\ ngn[r] = "Up" /\ ngn' = [ngn EXCEPT ![r] = "Down"]
        /\ UNCHANGED <<stage, wasCancelled, flagged, finals, byes, extDown>>
    BY <1>15 DEF NgnBye, inviteVars, cancelVars
  <2>2. byes[r] = 0
    BY <2>1 DEF LegsInv, LegsAgree, TypeOK
  <2>3. CarrierLeg(r) = "Up" /\ CarrierLeg(r)' = "Ended"
    BY <2>1, <2>2 DEF CarrierLeg, TypeOK
  <2>4. \A q \in Request : q # r => CarrierLeg(q)' = CarrierLeg(q)
    BY <2>1, CarrierStays DEF TypeOK
  <2>5. [q \in Request |-> CarrierLeg(q)]' = [[q \in Request |-> CarrierLeg(q)] EXCEPT ![r] = "Ended"]
    BY <2>3, <2>4, CarrierMoves
  <2>6. [q \in Request |-> CallerLeg(q)]' = [q \in Request |-> CallerLeg(q)]
    BY <2>1, CallerStays, CallersStay
  <2>7. Service!CarrierEnds(r)
    BY <2>1, <2>3, <2>5, <2>6 DEF Service!CarrierEnds, Service!CarrierFrom
  <2>8. QED
    BY <2>7 DEF Service!Next
<1>16. ASSUME NEW a \in Aor, Unregister(a) PROVE Goal
  BY <1>16, SilentStep DEF Unregister, inviteVars, cancelVars, legVars
<1>17. ASSUME NEW r \in Request,
              \/ NextDrained(r) \/ ReferOutcome(r, "Bye") \/ ReferOutcome(r, "Done") \/ RemoveTransferred(r)
       PROVE  Goal
  BY <1>17, SilentStep DEF NextDrained, ReferOutcome, RemoveTransferred, inviteVars, cancelVars, legVars
<1>18. ASSUME NEW k \in Kinds, NEW r \in Request, DecLoad(k, r) \/ DecSub(k, r) PROVE Goal
  BY <1>18, SilentStep DEF DecLoad, DecSub, inviteVars, cancelVars, legVars
<1>19. ASSUME NEW k \in Kinds, NEW r \in Request, SendBye(k, r) PROVE Goal
  <2>1. closing[k][r] = "Bye" /\ UNCHANGED <<stage, wasCancelled, flagged, finals>>
    BY <1>19 DEF SendBye, inviteVars, cancelVars
  <2>2. "200" \in finals[r] /\ ngn[r] # "None"
    BY <2>1 DEF LegsInv, LegsAgree
  <2>3. CallerLeg(r) = IF r \in extDown THEN "Over" ELSE "Answered"
    BY <2>2 DEF CallerLeg
  <2>4. CASE k = "NgnBye"
    <3>1. extDown' = extDown \cup ({r} \ extDown) /\ UNCHANGED <<byes, ngn>>
      BY <1>19, <2>4 DEF SendBye
    <3>2. {r} \ extDown \in SUBSET Request /\ \A q \in {r} \ extDown : "200" \in finals[q] /\ q \notin extDown
      BY <2>2
    <3>3. Service!HangUp({r} \ extDown)
      BY <2>1, <3>1, <3>2, HangUpStep
    <3>4. QED
      BY <3>2, <3>3 DEF Service!Next
  <2>5. CASE k \in {"ExtBye", "Unregister"}
    <3>1. ReleaseNgn(r) /\ UNCHANGED extDown
      BY <1>19, <2>5 DEF SendBye
    <3>2. QED
      BY <2>1, <2>2, <2>3, <3>1, ReleaseStep DEF Service!Next
  <2>6. CASE k = "Refer"
    <3>1. ReleaseNgn(r) /\ extDown' = extDown \cup {r}
      BY <1>19, <2>6 DEF SendBye
    <3>2. \A q \in Request : q # r => CarrierLeg(q)' = CarrierLeg(q)
      BY <3>1, CarrierStays DEF ReleaseNgn, TypeOK
    <3>3. CarrierLeg(r)' = "Released" /\ CarrierLeg(r) \in {"Up", "Ended", "Released"}
      BY <2>2, <3>1 DEF ReleaseNgn, CarrierLeg, TypeOK
    <3>4. [q \in Request |-> CarrierLeg(q)]' = [[q \in Request |-> CarrierLeg(q)] EXCEPT ![r] = "Released"]
      BY <3>2, <3>3, CarrierMoves
    <3>5. \A q \in Request : q # r => CallerLeg(q)' = CallerLeg(q)
      BY <2>1, <3>1, CallerStays
    <3>6. CallerLeg(r)' = "Over"
      BY <2>1, <2>2, <3>1 DEF CallerLeg
    <3>7. [q \in Request |-> CallerLeg(q)]' = [[q \in Request |-> CallerLeg(q)] EXCEPT ![r] = "Over"]
      BY <3>5, <3>6, CallerMoves
    <3>8. Service!EndBoth(r)
      BY <2>1, <2>3, <3>3, <3>4, <3>7 DEF Service!EndBoth, Service!CallerFrom, Service!CarrierFrom
    <3>9. QED
      BY <3>8 DEF Service!Next
  <2>7. QED
    BY <2>4, <2>5, <2>6 DEF Kinds
<1> HIDE DEF Goal
<1>20. ASSUME Event PROVE Goal
  BY <1>20, <1>2, <1>11, <1>14, <1>15, <1>16, Zenon DEF Event
<1>21. ASSUME NEW r \in Request, InviteStep(r) PROVE Goal
  BY <1>21, <1>3, <1>4, <1>5, <1>6, <1>7, <1>8, <1>9, <1>10, Zenon DEF InviteStep
<1>22. ASSUME NEW c \in CallId, CancelStep(c) PROVE Goal
  BY <1>22, <1>12, <1>13, Zenon DEF CancelStep
<1>23. ASSUME NEW k \in Kinds, NEW r \in Request, CloseStep(k, r) PROVE Goal
  BY <1>23, <1>17, <1>18, <1>19, Zenon DEF CloseStep
<1>24. Next \/ UNCHANGED vars
  OBVIOUS
<1>25. Goal
  BY <1>1, <1>20, <1>21, <1>22, <1>23, <1>24, Zenon DEF Next
<1>26. QED
  BY <1>25 DEF Goal

\* The two legs of an outbound call stay in step as OutboundService says, for any number of calls,
\* retransmitted INVITEs, faults and transfers: the extension hears "answered" only with an NGN dialog
\* behind it and no CANCEL noticed, "refused" only where no dialog is or will be, and the NGN
\* hears no BYE while the extension still waits for its answer.
THEOREM OutboundImplementsService == Spec => ImplementsService
<1>1. Init => LegsInv
  BY CallAssumption DEF Init, LegsInv, BeforeAnswer, LegsAgree, FlagsAgree, InProgress, Kinds
<1>2. Init => Service!Init
  <2> SUFFICES ASSUME Init PROVE Service!Init
    OBVIOUS
  <2>1. \A q \in Request : CallerLeg(q) = "None" /\ CarrierLeg(q) = "None" /\ "487" \notin finals[q]
    BY DEF Init, CallerLeg, CarrierLeg
  <2>2. flagged = {}
    BY DEF Init
  <2>3. QED
    BY <2>1, <2>2 DEF Service!Init
<1>3. TypeOK /\ LegsInv /\ [Next]_vars => LegsInv'
  BY LegsStep
<1>4. TypeOK /\ LegsInv /\ [Next]_vars => [Service!Next]_(Service!vars)
  BY ServiceStep
<1>5. Spec => []TypeOK
  BY TypeCorrect
<1>6. QED
  BY <1>1, <1>2, <1>3, <1>4, <1>5, PTL DEF Spec, ImplementsService, Service!Spec
=============================================================================

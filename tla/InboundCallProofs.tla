-------------------------- MODULE InboundCallProofs -------------------------
(***************************************************************************)
(* Proofs about a call from the NGN, for any bindings, PRACKs, BYEs and    *)
(* browsers.                                                               *)
(***************************************************************************)
EXTENDS InboundCall, TLAPS

BeforeFinal == {"Idle", "Trying", "Rang", "InFlight", "Forked", "WaitPrack", "Decide", "Bridged"}
Talking == {"Answered", "Web", "Count", "VmAnswered", "Recording"}

\* handle_invite sends one final response, and its stage says which.
FinalFits(st, fs) ==
    /\ st \in BeforeFinal => fs = <<>>
    /\ st \in Talking => fs = <<200>>
    /\ st = "Refused" => \E c \in 300..699 : fs = <<c>>
    /\ st \in {"Cleanup", "Done"} => \E c \in 200..699 : fs = <<c>>
OneFinal == FinalFits(stage, finals)

\* The call is counted by the step that ends the handler's work.
CountedOnce == stage \notin {"Cleanup", "Done"} => gauge <= Others

\* A CANCEL that found the Notify keeps the handler at its select.
CancelKept ==
    /\ inFlight => stage = "InFlight"
    /\ cancel = "Notified" => stage = "InFlight" \/ finals = <<487>>

\* The NGN's dialog comes with the 200, and a BYE ends it.
NgnFollows ==
    /\ finals # <<200>> => ngn = "None"
    /\ \A b \in Bye : bye[b] # "Idle" => ngn = "Down"

HandlerShape ==
    /\ stage \in Stages /\ cancel \in {"Idle", "Notified", "Missed"} /\ inFlight \in BOOLEAN
    /\ bye \in [Bye -> ByeStages] /\ ngn \in {"None", "Up", "Down"} /\ gauge \in 0..(Others + 1)

HandlerInv == HandlerTypeOK /\ OneFinal /\ CountedOnce /\ CancelKept /\ NgnFollows

\* The browser in webrtc_active is the leg that won, in a call that was answered; its
\* session takes the call out of that table for good.
WebCall ==
    /\ webActive # None => webActive = winner /\ stage \in {"Count", "Cleanup", "Done"} /\ finals = <<200>>
    /\ \A w \in WebLeg : session[w] \in {"SendBye", "Active", "Dec"} =>
           /\ winner = w /\ webActive = None
           /\ stage \in {"Count", "Cleanup", "Done"} /\ finals = <<200>>

\* A session that gives the call up has sent the BYE, if there is a dialog to send it on.
ByeWasSent == \A w \in WebLeg : session[w] \in {"Active", "Dec"} /\ dialog => ngn = "Down"
WebIsActive == stage = "Web" /\ ngn = "Up" => active
DialogInv == ByeWasSent /\ WebIsActive /\ NoForgottenCall

\* A matching PRACK has been answered, and before that the sender was taken.
Confirmed == relTx # "Held" /\ \E p \in GoodRAck : prack[p] \in {"Clean", "Done"}

\* The state of the reliable 180 goes for one of three reasons: a PRACK was answered,
\* the call was refused, or the handler is at its end.
RelFresh ==
    /\ stage \in {"Idle", "Trying"} => relTx = "None" /\ \A p \in Prack : prack[p] = "Idle"
    /\ relTx = "None" => rel = FALSE
PrackMatches ==
    \A p \in Prack : prack[p] \in {"Took", "Again", "Clean"} => p \in GoodRAck /\ relTx \notin {"None", "Held"}
WaitIsOver ==
    relTx # "None" =>
        /\ rel = FALSE /\ stage \in {"Rang", "InFlight", "Forked", "WaitPrack"} => Confirmed
        /\ stage \in {"Decide", "Bridged"} => Confirmed
        /\ relTx = "Sent" => Confirmed

RelInv == RelTypeOK /\ RelFresh /\ PrackMatches /\ WaitIsOver /\ PrackBeforeAnswer

\* The fork's account of its legs: who won has picked up, and so has everyone whose
\* 200 is still in the channel; the status kept is the best that was received.
CollectTypes ==
    /\ leg \in [Leg -> LegStages]
    /\ inbox \in Seq([from : Leg, status : Nat])
    /\ received \subseteq [from : Leg, status : Nat]
    /\ fork \in ForkStages /\ result \in ForkResults /\ winner \in Leg \cup {None}
ForkFresh ==
    /\ fork \in {"Idle", "Collect"} => result = "None"
    /\ fork = "Idle" => inbox = <<>> /\ \A l \in Leg : leg[l] = "Idle"
Reported == 300..699 \cup {200, Errored}
PickedUp ==
    /\ result = "Answered" <=> winner # None
    /\ winner # None => leg[winner] = "Up"
    /\ \A i \in 1..Len(inbox) :
           inbox[i].status \in Reported /\ (inbox[i].status = 200 => leg[inbox[i].from] = "Up")
BestKept ==
    /\ lastStatus \in 300..699 \cup {None}
    /\ \A r \in received :
           /\ r.status \in Reported
           /\ r.status \notin {200, Errored} =>
                  /\ lastStatus # None
                  /\ final_response_class_rank(lastStatus) >= final_response_class_rank(r.status)

CollectInv == CollectTypes /\ ForkFresh /\ PickedUp /\ BestKept

\* A browser leg waits on an entry of PendingAnswers, and is up only with its answer.
WaiterInv ==
    /\ waiter \in [WebLeg -> WaiterStates]
    /\ \A w \in WebLeg :
           /\ leg[w] \in {"Join", "Late", "Push", "Waiting"} => waiter[w] # "None"
           /\ leg[w] \in {"Accept", "Up"} => waiter[w] = "Sdp"
           /\ waiter[w] = "Sdp" => leg[w] \in {"Waiting", "Accept", "Up", "Over"}

\* A browser that rings has a leg that pushed the offer; one that is gone shows nothing;
\* until the fork drains, everyone who answered is in the call.
BrowserTypes ==
    /\ browser \in [WebLeg -> BrowserStates]
    /\ wsOpen \subseteq sink /\ sink \subseteq WebLeg /\ registry \subseteq WebLeg /\ closed \in BOOLEAN
RingingLegs == \A w \in WebLeg : browser[w] = "Ringing" => leg[w] \in {"Waiting", "Accept", "Up", "Over"}
GoneAreQuiet == \A w \in WebLeg \ wsOpen : browser[w] = "Quiet"
AnsweredShown ==
    fork \in {"Idle", "Collect", "Drain"} => \A w \in wsOpen : waiter[w] = "Sdp" => browser[w] = "InCall"
WinnerShown ==
    stage \in {"InFlight", "Forked", "WaitPrack", "Decide", "Bridged", "Answered", "Web"} /\ winner \in wsOpen =>
        browser[winner] = "InCall"
BrowserInv ==
    BrowserTypes /\ RingingLegs /\ GoneAreQuiet /\ AnsweredShown /\ WinnerShown /\ WinnerUndisturbed

\* The fork runs while handle_invite is at its select, and its result decides the rest.
StageInv ==
    /\ stage \in {"Idle", "Trying", "Rang"} => fork = "Idle"
    /\ stage \notin {"Idle", "Trying", "Rang", "InFlight"} => fork \in {"Idle", "Done", "Dropped"}
    /\ stage = "Bridged" => result = "Answered"
    /\ stage \in {"Answered", "Web", "Count"} => result = "Answered"
    /\ voicemail \/ stage \in {"VmAnswered", "Recording"} => result # "Answered"
    /\ voicemail => stage \in {"Recording", "Cleanup", "Done"}

-----------------------------------------------------------------------------
\* The first final response sent is the only element of finals.
LEMMA FirstFinal == \A c : Append(<<>>, c) = <<c>> /\ Head(<<c>>) = c /\ <<c>> # <<>> /\ Len(<<c>>) = 1
  OBVIOUS

\* One final response is one status code.
LEMMA FinalIs == \A c, d : <<c>> = <<d>> => c = d
  OBVIOUS

\* Whatever stage handle_invite has reached, its final responses are status codes.
LEMMA FinalsType ==
    ASSUME NEW st \in Stages, NEW fs, FinalFits(st, fs)
    PROVE  fs \in Seq(200..699)
<1>1. \A c \in 200..699 : <<c>> \in Seq(200..699)
  OBVIOUS
<1>2. <<>> \in Seq(200..699)
  OBVIOUS
<1>3. fs = <<>> \/ \E c \in 200..699 : fs = <<c>>
  <2>1. CASE st \in BeforeFinal
    BY <2>1 DEF FinalFits
  <2>2. CASE st \in Talking
    BY <2>2 DEF FinalFits
  <2>3. CASE st = "Refused"
    BY <2>3 DEF FinalFits
  <2>4. CASE st \in {"Cleanup", "Done"}
    BY <2>4 DEF FinalFits
  <2> QED
    BY <2>1, <2>2, <2>3, <2>4 DEF Stages, BeforeFinal, Talking
<1> QED
  BY <1>1, <1>2, <1>3

-----------------------------------------------------------------------------
(* What the tasks leave alone                                              *)

\* A PRACK touches only the state of the reliable 180.
LEMMA PrackFrame ==
    ASSUME NEW p \in Prack, HandlePrack(p) \/ PrackRuns(p)
    PROVE  UNCHANGED <<forkVars, txVars, handlerVars, pending, inFlight, tableVars, endVars, countVars, ngn>>
  BY DEF HandlePrack, PrackRuns, AnswerPrack, CleanPrack

\* A BYE of the NGN leaves the legs, the fork and handle_invite alone.
LEMMA ByeFrame ==
    ASSUME NEW b \in Bye, ReceiveBye(b) \/ ByeRuns(b)
    PROVE  UNCHANGED <<leg, waiter, wsVars, registryVars, collectVars, handlerVars, inFlight, relVars,
                       dialog, session>>
  BY DEF ReceiveBye, ByeRuns, ByeActive, ByeVoicemail, ByeBridge, ByeWeb, forkVars, legVars, endVars,
         tableVars

\* The end of a WebSocket session leaves the legs' tasks and handle_invite alone.
LEMMA SessionFrame ==
    ASSUME NEW w \in WebLeg, SessionEnds(w) \/ CloseRuns(w)
    PROVE  UNCHANGED <<leg, sink, registryVars, collectVars, handlerVars, inFlight, relVars, dialog,
                       voicemail, bye, removed>>
  BY DEF SessionEnds, CloseRuns, CloseInbound, SendBye, CloseActive, CloseDec, CancelAll, forkVars,
         legVars, wsVars, endVars, tableVars

\* A leg, a browser or the fork's own loop touches nothing of the call.
ForkSide ==
    \/ ForkRuns \/ \E l \in Leg : LegRuns(l)
    \/ \E w \in WebLeg : UserReplies(w) \/ SinkCloses(w)
\* The fork and its legs touch nothing of the handlers.
LEMMA ForkFrame == ForkSide => UNCHANGED Outside
  BY DEF ForkSide, ForkRuns, LegRuns, UserReplies, SinkCloses

-----------------------------------------------------------------------------
(* handle_invite's final response, and what the NGN makes of it            *)

handlerSide == <<stage, finals, cancel, inFlight, bye, ngn, gauge>>

\* The parts that make the invariant of the next state.
LEMMA HandlerParts ==
    ASSUME HandlerShape', OneFinal', CountedOnce', CancelKept', NgnFollows'
    PROVE  HandlerInv'
  BY FinalsType DEF HandlerInv, HandlerTypeOK, HandlerShape, OneFinal

\* A refusal: the CANCEL, if it found the Notify, is what refuses the call.
LEMMA RefusalStep ==
    ASSUME HandlerInv, stage \in BeforeFinal, NEW c \in 300..699, To("Refused"),
           finals' = Append(finals, c), inFlight' = FALSE, stage = "InFlight" /\ cancel = "Notified" => c = 487,
           UNCHANGED <<cancel, bye, ngn, gauge>>
    PROVE  HandlerInv'
<1> USE DEF HandlerInv, HandlerTypeOK, To
<1>1. finals = <<>> /\ finals' = <<c>> /\ stage' = "Refused"
  BY FirstFinal DEF OneFinal, FinalFits
<1>2. cancel = "Notified" => finals' = <<487>>
  BY <1>1, FirstFinal DEF CancelKept
<1>3. HandlerShape'
  BY <1>1 DEF HandlerShape, Stages
<1>6. OneFinal'
  BY <1>1 DEF OneFinal, FinalFits, BeforeFinal, Talking
<1>7. CountedOnce' /\ CancelKept'
  BY <1>1, <1>2 DEF CountedOnce, CancelKept, BeforeFinal
<1>4. ngn = "None"
  BY <1>1, FirstFinal DEF NgnFollows
<1>5. NgnFollows'
  BY <1>4 DEF NgnFollows
<1> QED
  BY <1>3, <1>5, <1>6, <1>7, HandlerParts

\* Every step keeps handle_invite's side of the call: one final response that fits its stage.
LEMMA HandlerStep ==
    ASSUME HandlerInv, WebCall, lastStatus \in 300..699 \cup {None}, TableTypeOK, [Next]_vars
    PROVE  HandlerInv'
<1>0. ASSUME UNCHANGED handlerSide PROVE HandlerInv'
  BY <1>0 DEF handlerSide, HandlerInv, HandlerTypeOK, OneFinal, CountedOnce, CancelKept, NgnFollows
<1> USE FirstFinal, FinalIs, InboundAssumption
    DEF HandlerInv, HandlerTypeOK, HandlerShape, OneFinal, FinalFits, CountedOnce, CancelKept, NgnFollows,
        BeforeFinal, Talking, Stages, ByeStages, To, handlerVars, relVars, tableVars, endVars, countVars
<1>2. ASSUME Accept PROVE HandlerInv'
  BY <1>2, HandlerParts DEF Accept, TxNew
<1>3. ASSUME RefuseRequest PROVE HandlerInv'
  <2> PICK c \in {420, 422, 481} : Refuse(c, "Failed")
    BY <1>3 DEF RefuseRequest
  <2>1. stage \in BeforeFinal /\ inFlight' = FALSE /\ c \in 300..699
    BY <1>3 DEF RefuseRequest
  <2>2. /\ To("Refused") /\ finals' = Append(finals, c) /\ UNCHANGED <<cancel, bye, ngn, gauge>>
        /\ stage = "InFlight" /\ cancel = "Notified" => c = 487
    BY <1>3 DEF RefuseRequest, Refuse
  <2>3. c \in 300..699
    OBVIOUS
  <2> HIDE DEF HandlerInv, BeforeFinal
  <2> QED
    BY <2>1, <2>2, <2>3, RefusalStep
<1>4. ASSUME NoBinding PROVE HandlerInv'
  <2> DEFINE c == 480
  <2>1. stage \in BeforeFinal /\ inFlight' = FALSE
    BY <1>4 DEF NoBinding
  <2>2. /\ To("Refused") /\ finals' = Append(finals, c) /\ UNCHANGED <<cancel, bye, ngn, gauge>>
        /\ stage = "InFlight" /\ cancel = "Notified" => c = 487
    BY <1>4 DEF NoBinding, Refuse
  <2>3. c \in 300..699
    OBVIOUS
  <2> HIDE DEF c, HandlerInv, BeforeFinal
  <2> QED
    BY <2>1, <2>2, <2>3, RefusalStep
<1>5. ASSUME Ring PROVE HandlerInv'
  BY <1>5, HandlerParts DEF Ring, TxRespond
<1>6. ASSUME EnterInFlight PROVE HandlerInv'
  BY <1>6, HandlerParts DEF EnterInFlight
<1>7. ASSUME StartFork PROVE HandlerInv'
  BY <1>7, HandlerParts DEF StartFork, StartLegs
<1>8. ASSUME ForkResult PROVE HandlerInv'
  <2>1. stage = "InFlight" /\ stage' = "Forked" /\ cancel # "Notified" /\ inFlight' = FALSE
    BY <1>8 DEF ForkResult
  <2>2. UNCHANGED <<finals, cancel, bye, ngn, gauge>>
    BY <1>8 DEF ForkResult
  <2>3. inFlight' \in BOOLEAN /\ stage' \in Stages
    BY <2>1
  <2>6. HandlerShape'
    BY <2>2, <2>3
  <2>4. OneFinal' /\ CountedOnce'
    BY <2>1, <2>2
  <2>5. CancelKept' /\ NgnFollows'
    BY <2>1, <2>2
  <2> QED
    BY <2>6, <2>4, <2>5, HandlerParts
<1>9. ASSUME CancelBranch PROVE HandlerInv'
  <2> DEFINE c == 487
  <2>1. stage \in BeforeFinal /\ inFlight' = FALSE
    BY <1>9 DEF CancelBranch
  <2>2. /\ To("Refused") /\ finals' = Append(finals, c) /\ UNCHANGED <<cancel, bye, ngn, gauge>>
        /\ stage = "InFlight" /\ cancel = "Notified" => c = 487
    BY <1>9 DEF CancelBranch, Refuse
  <2>3. c \in 300..699
    OBVIOUS
  <2> HIDE DEF c, HandlerInv, BeforeFinal
  <2> QED
    BY <2>1, <2>2, <2>3, RefusalStep
<1>10. ASSUME BeginWait PROVE HandlerInv'
  BY <1>10, HandlerParts DEF BeginWait
<1>11. ASSUME PrackArrived PROVE HandlerInv'
  BY <1>11, HandlerParts DEF PrackArrived
<1>12. ASSUME PrackTimeout PROVE HandlerInv'
  <2> DEFINE c == 408
  <2>1. stage \in BeforeFinal /\ inFlight' = FALSE
    BY <1>12 DEF PrackTimeout
  <2>2. /\ To("Refused") /\ finals' = Append(finals, c) /\ UNCHANGED <<cancel, bye, ngn, gauge>>
        /\ stage = "InFlight" /\ cancel = "Notified" => c = 487
    BY <1>12 DEF PrackTimeout, Refuse
  <2>3. c \in 300..699
    OBVIOUS
  <2> HIDE DEF c, HandlerInv, BeforeFinal
  <2> QED
    BY <2>1, <2>2, <2>3, RefusalStep
<1>13. ASSUME StartBridge PROVE HandlerInv'
  BY <1>13, HandlerParts DEF StartBridge
<1>14. ASSUME BridgeFails PROVE HandlerInv'
  <2> DEFINE c == 502
  <2>1. stage \in BeforeFinal /\ inFlight' = FALSE
    BY <1>14 DEF BridgeFails
  <2>2. /\ To("Refused") /\ finals' = Append(finals, c) /\ UNCHANGED <<cancel, bye, ngn, gauge>>
        /\ stage = "InFlight" /\ cancel = "Notified" => c = 487
    BY <1>14 DEF BridgeFails, Refuse
  <2>3. c \in 300..699
    OBVIOUS
  <2> HIDE DEF c, HandlerInv, BeforeFinal
  <2> QED
    BY <2>1, <2>2, <2>3, RefusalStep
<1>15. ASSUME Answer PROVE HandlerInv'
  BY <1>15, HandlerParts DEF Answer, TxRespond
<1>16. ASSUME EnterActive PROVE HandlerInv'
  BY <1>16, HandlerParts DEF EnterActive
<1>17. ASSUME EnterWebActive PROVE HandlerInv'
  BY <1>17, HandlerParts DEF EnterWebActive
<1>18. ASSUME CountCall PROVE HandlerInv'
  BY <1>18, HandlerParts DEF CountCall, Inc
<1>19. ASSUME StartVoicemail PROVE HandlerInv'
  <2>1. stage \in BeforeFinal /\ stage # "InFlight" /\ stage' = "VmAnswered" /\ ngn' = "Up"
    BY <1>19 DEF StartVoicemail
  <2>2. finals' = Append(finals, 200) /\ UNCHANGED <<cancel, inFlight, bye, gauge>>
    BY <1>19 DEF StartVoicemail
  <2>3. finals = <<>>
    BY <2>1
  <2>5. finals' = <<200>>
    BY <2>2, <2>3
  <2>4. ngn = "None" /\ cancel # "Notified"
    BY <2>1, <2>3
  <2> QED
    BY <2>1, <2>2, <2>3, <2>4, <2>5, HandlerParts
<1>20. ASSUME EnterVoicemail PROVE HandlerInv'
  BY <1>20, HandlerParts DEF EnterVoicemail
<1>21. ASSUME RefuseCall PROVE HandlerInv'
  <2> DEFINE c == IF result = "Timeout" THEN 408 ELSE IF lastStatus = None THEN 486 ELSE lastStatus
  <2>1. stage \in BeforeFinal /\ inFlight' = FALSE /\ c \in 300..699
    BY <1>21 DEF RefuseCall
  <2>2. Refuse(c, "Missed") /\ UNCHANGED <<cancel, bye, ngn, gauge>> /\ stage # "InFlight"
    BY <1>21 DEF RefuseCall
  <2> HIDE DEF c, HandlerInv, BeforeFinal
  <2> QED
    BY <2>1, <2>2, RefusalStep DEF Refuse
<1>22. ASSUME ForgetTx PROVE HandlerInv'
  BY <1>22, HandlerParts DEF ForgetTx
<1>23. ASSUME Finish PROVE HandlerInv'
  BY <1>23, HandlerParts DEF Finish, TxDrop
<1>24. ASSUME Timers PROVE HandlerInv'
  BY <1>24, HandlerParts DEF Timers, TimerH
<1>25. ASSUME Sweep PROVE HandlerInv'
  BY <1>25, HandlerParts DEF Sweep
<1>26. ASSUME HandleCancel PROVE HandlerInv'
  BY <1>26, HandlerParts DEF HandleCancel
<1>27. ASSUME HandleAck PROVE HandlerInv'
  BY <1>27, HandlerParts DEF HandleAck, Unpend, TxDrop
<1>28. ASSUME NEW b \in Bye, ReceiveBye(b) PROVE HandlerInv'
  BY <1>28, HandlerParts DEF ReceiveBye, ByeTo
<1>29. ASSUME NEW b \in Bye, ByeActive(b) PROVE HandlerInv'
  BY <1>29, HandlerParts DEF ByeActive, ByeTo, Unpend, TxDrop, Dec
<1>30. ASSUME NEW b \in Bye, ByeVoicemail(b) PROVE HandlerInv'
  BY <1>30, HandlerParts DEF ByeVoicemail, ByeTo, Dec
<1>31. ASSUME NEW b \in Bye, ByeBridge(b) PROVE HandlerInv'
  BY <1>31, HandlerParts DEF ByeBridge, ByeTo
<1>32. ASSUME NEW b \in Bye, ByeWeb(b) PROVE HandlerInv'
  BY <1>32, HandlerParts DEF ByeWeb, ByeTo, Shows
<1>33. ASSUME NEW w \in WebLeg, SessionEnds(w) PROVE HandlerInv'
  BY <1>33, HandlerParts DEF SessionEnds, SessionTo
<1>34. ASSUME NEW w \in WebLeg, CloseInbound(w) PROVE HandlerInv'
  BY <1>34, HandlerParts DEF CloseInbound, SessionTo
<1>35. ASSUME NEW w \in WebLeg, SendBye(w) PROVE HandlerInv'
  <2>1. finals = <<200>>
    BY <1>35 DEF SendBye, WebCall
  <2>2. ngn' \in {"Down", ngn} /\ UNCHANGED <<stage, finals, cancel, inFlight, bye, gauge>>
    BY <1>35 DEF SendBye
  <2> QED
    BY <2>1, <2>2, HandlerParts
<1>36. ASSUME NEW w \in WebLeg, CloseActive(w) PROVE HandlerInv'
  BY <1>36, HandlerParts DEF CloseActive, SessionTo, Unpend, TxDrop
<1>37. ASSUME NEW w \in WebLeg, CloseDec(w) PROVE HandlerInv'
  BY <1>37, HandlerParts DEF CloseDec, SessionTo, Dec
<1>38. ASSUME NEW w \in WebLeg, CancelAll(w) PROVE HandlerInv'
  BY <1>38, HandlerParts DEF CancelAll, SessionTo, Cancelled
<1> HIDE DEF HandlerInv
<1>39. ASSUME ForkSide PROVE HandlerInv'
  BY <1>39, <1>0, ForkFrame DEF Outside, handlerSide
<1>40. ASSUME NEW p \in Prack, HandlePrack(p) \/ PrackRuns(p) PROVE HandlerInv'
  BY <1>40, <1>0, PrackFrame DEF handlerSide
<1>41. CASE UNCHANGED vars
  BY <1>41, <1>0 DEF vars, handlerSide
<1> QED
  BY <1>2, <1>3, <1>4, <1>5, <1>6, <1>7, <1>8, <1>9, <1>10, <1>11, <1>12, <1>13, <1>14, <1>15, <1>16, <1>17, <1>18, <1>19, <1>20, <1>21, <1>22, <1>23, <1>24, <1>25, <1>26, <1>27, <1>28, <1>29, <1>30, <1>31, <1>32, <1>33, <1>34, <1>35, <1>36, <1>37, <1>38, <1>39, <1>40, <1>41
     DEF Next, Invite, ByeRuns, CloseRuns, ForkSide

-----------------------------------------------------------------------------
(* The reliable 180 and its PRACK                                          *)

relSide == <<stage, finals, relVars, reliable>>

\* A handler that refuses the call or is done cleans up.
LEMMA CleanStep ==
    ASSUME RelInv, rel' = FALSE, stage' \in {"Refused", "Done"}, Answered' => Answered,
           UNCHANGED <<reliable, relTx, prack>>
    PROVE  RelInv'
<1>1. rel' \in BOOLEAN
  OBVIOUS
<1>2. RelTypeOK'
  BY <1>1 DEF RelInv, RelTypeOK
<1>3. RelFresh' /\ PrackMatches' /\ PrackBeforeAnswer'
  BY DEF RelInv, RelFresh, PrackMatches, PrackBeforeAnswer
<1>4. WaitIsOver'
  BY DEF RelInv, WaitIsOver, Confirmed
<1> QED
  BY <1>2, <1>3, <1>4 DEF RelInv

\* Every step keeps the state of the reliable 180 and its PRACK.
LEMMA RelStep ==
    ASSUME HandlerInv, RelInv, [Next]_vars
    PROVE  RelInv'
<1>0. ASSUME UNCHANGED relSide PROVE RelInv'
  BY <1>0 DEF relSide, relVars, RelInv, RelTypeOK, RelFresh, PrackMatches, WaitIsOver, PrackBeforeAnswer,
              Confirmed, Answered
<1> USE FirstFinal, FinalIs, InboundAssumption
    DEF HandlerInv, HandlerTypeOK, OneFinal, FinalFits, BeforeFinal, Talking, Stages,
        RelInv, RelTypeOK, RelFresh, PrackMatches, WaitIsOver, PrackBeforeAnswer, Confirmed, Answered,
        To, handlerVars, relVars
<1>1. ASSUME Accept PROVE RelInv'
  BY <1>1 DEF Accept
<1>2. ASSUME RefuseRequest PROVE RelInv'
  BY <1>2 DEF RefuseRequest, Refuse
<1>3. ASSUME NoBinding PROVE RelInv'
  BY <1>3 DEF NoBinding, Refuse
<1>4. ASSUME Ring PROVE RelInv'
  BY <1>4 DEF Ring
<1>5. ASSUME EnterInFlight PROVE RelInv'
  BY <1>5 DEF EnterInFlight
<1>6. ASSUME ForkResult PROVE RelInv'
  BY <1>6 DEF ForkResult
<1>7. ASSUME CancelBranch PROVE RelInv'
  <2>1. finals = <<>> /\ finals' = Append(finals, 487)
    BY <1>7 DEF CancelBranch, Refuse
  <2>2. Answered' => Answered
    BY <2>1
  <2>3. rel' = FALSE /\ stage' = "Refused" /\ UNCHANGED <<reliable, relTx, prack>>
    BY <1>7 DEF CancelBranch, Refuse
  <2> HIDE DEF RelInv, Answered
  <2> QED
    BY <2>2, <2>3, CleanStep
<1>8. ASSUME BeginWait PROVE RelInv'
  BY <1>8 DEF BeginWait
<1>9. ASSUME PrackArrived PROVE RelInv'
  BY <1>9 DEF PrackArrived
<1>10. ASSUME PrackTimeout PROVE RelInv'
  <2>1. finals = <<>> /\ finals' = Append(finals, 408)
    BY <1>10 DEF PrackTimeout, Refuse
  <2>2. Answered' => Answered
    BY <2>1
  <2>3. rel' = FALSE /\ stage' = "Refused" /\ UNCHANGED <<reliable, relTx, prack>>
    BY <1>10 DEF PrackTimeout, Refuse
  <2> HIDE DEF RelInv, Answered
  <2> QED
    BY <2>2, <2>3, CleanStep
<1>11. ASSUME StartBridge PROVE RelInv'
  BY <1>11 DEF StartBridge
<1>12. ASSUME BridgeFails PROVE RelInv'
  <2>1. finals = <<>> /\ finals' = Append(finals, 502)
    BY <1>12 DEF BridgeFails, Refuse
  <2>2. Answered' => Answered
    BY <2>1
  <2>3. rel' = FALSE /\ stage' = "Refused" /\ UNCHANGED <<reliable, relTx, prack>>
    BY <1>12 DEF BridgeFails, Refuse
  <2> HIDE DEF RelInv, Answered
  <2> QED
    BY <2>2, <2>3, CleanStep
<1>13. ASSUME Answer PROVE RelInv'
  BY <1>13 DEF Answer
<1>14. ASSUME EnterActive PROVE RelInv'
  BY <1>14 DEF EnterActive
<1>15. ASSUME EnterWebActive PROVE RelInv'
  BY <1>15 DEF EnterWebActive
<1>16. ASSUME CountCall PROVE RelInv'
  BY <1>16 DEF CountCall
<1>17. ASSUME StartVoicemail PROVE RelInv'
  BY <1>17 DEF StartVoicemail
<1>18. ASSUME EnterVoicemail PROVE RelInv'
  BY <1>18 DEF EnterVoicemail
<1>19. ASSUME RefuseCall PROVE RelInv'
  BY <1>19 DEF RefuseCall, Refuse
<1>20. ASSUME ForgetTx PROVE RelInv'
  BY <1>20 DEF ForgetTx
<1>21. ASSUME Finish PROVE RelInv'
  <2>1. rel' = FALSE /\ stage' = "Done" /\ UNCHANGED <<finals, reliable, relTx, prack>>
    BY <1>21 DEF Finish
  <2>2. Answered' => Answered
    BY <2>1
  <2> HIDE DEF RelInv, Answered
  <2> QED
    BY <2>1, <2>2, CleanStep
<1>22. ASSUME NEW p \in Prack, HandlePrack(p) PROVE RelInv'
  <2>1. prack[p] = "Idle" /\ stage \notin {"Idle", "Trying"} /\ UNCHANGED <<stage, finals, reliable, rel>>
    BY <1>22 DEF HandlePrack
  <2>2. PICK s \in {"Took", "Again", "Done"} : prack' = [prack EXCEPT ![p] = s]
    BY <1>22 DEF HandlePrack, PrackTo
  <2>3. \/ /\ s = "Took" /\ relTx = "Held" /\ relTx' = "Taken" /\ p \in GoodRAck /\ rel
        \/ /\ s = "Again" /\ relTx # "Held" /\ relTx' = relTx /\ p \in GoodRAck /\ rel
        \/ /\ s = "Done" /\ relTx' = relTx
    BY <1>22, <2>1, <2>2 DEF HandlePrack, PrackTo
  <2>4. \A q \in Prack : prack'[q] = IF q = p THEN s ELSE prack[q]
    BY <2>2
  <2>5. RelTypeOK' /\ RelFresh'
    BY <2>1, <2>2, <2>3
  <2>6. PrackMatches'
    BY <2>1, <2>3, <2>4
  <2>7. Confirmed => Confirmed'
    BY <2>1, <2>3, <2>4
  <2>8. WaitIsOver' /\ PrackBeforeAnswer'
    BY <2>1, <2>3, <2>7
  <2> QED
    BY <2>5, <2>6, <2>8
<1>23. ASSUME NEW p \in Prack, AnswerPrack(p) PROVE RelInv'
  BY <1>23 DEF AnswerPrack, PrackTo
<1>24. ASSUME NEW p \in Prack, CleanPrack(p) PROVE RelInv'
  <2>1. prack[p] = "Clean" /\ p \in GoodRAck /\ relTx \notin {"None", "Held"}
    BY <1>24 DEF CleanPrack
  <2>2. /\ \A q \in Prack : prack'[q] = IF q = p THEN "Done" ELSE prack[q]
        /\ rel' = FALSE /\ UNCHANGED <<stage, finals, reliable, relTx>>
    BY <1>24 DEF CleanPrack, PrackTo
  <2>3. RelTypeOK'
    <3>1. rel' \in BOOLEAN
      BY <2>2
    <3> QED
      BY <1>24, <3>1 DEF CleanPrack, PrackTo
  <2>4. Confirmed'
    BY <2>1, <2>2
  <2>5. RelFresh' /\ PrackMatches'
    BY <2>1, <2>2
  <2>6. WaitIsOver' /\ PrackBeforeAnswer'
    BY <2>4
  <2> QED
    BY <2>3, <2>5, <2>6
<1> HIDE DEF RelInv
<1>25. ASSUME StartFork \/ HandleCancel \/ HandleAck \/ Timers \/ Sweep PROVE RelInv'
  BY <1>25, <1>0 DEF StartFork, HandleCancel, HandleAck, Timers, Sweep, relSide
<1>26. ASSUME ForkSide PROVE RelInv'
  BY <1>26, <1>0, ForkFrame DEF Outside, relSide
<1>27. ASSUME NEW b \in Bye, ReceiveBye(b) \/ ByeRuns(b) PROVE RelInv'
  BY <1>27, <1>0, ByeFrame DEF relSide
<1>28. ASSUME NEW w \in WebLeg, SessionEnds(w) \/ CloseRuns(w) PROVE RelInv'
  BY <1>28, <1>0, SessionFrame DEF relSide
<1>29. CASE UNCHANGED vars
  BY <1>29, <1>0 DEF vars, relSide
<1> QED
  BY <1>1, <1>2, <1>3, <1>4, <1>5, <1>6, <1>7, <1>8, <1>9, <1>10, <1>11, <1>12, <1>13, <1>14, <1>15, <1>16, <1>17, <1>18, <1>19, <1>20, <1>21, <1>22, <1>23, <1>24, <1>25, <1>26, <1>27, <1>28, <1>29
     DEF Next, Invite, PrackRuns, ForkSide

-----------------------------------------------------------------------------
(* The fork and its legs                                                   *)

\* A channel from which its first element was taken.
LEMMA Received ==
    ASSUME NEW S, NEW s \in Seq(S), s # <<>>
    PROVE  /\ 1 \in 1..Len(s) /\ Head(s) = s[1] /\ s[1] \in S
           /\ Tail(s) \in Seq(S)
           /\ \A i \in 1..Len(Tail(s)) : i + 1 \in 1..Len(s) /\ Tail(s)[i] = s[i + 1]
  OBVIOUS

\* A channel to which an element was added.
LEMMA Sent ==
    ASSUME NEW S, NEW s \in Seq(S), NEW e \in S
    PROVE  /\ Append(s, e) \in Seq(S)
           /\ \A i \in 1..Len(Append(s, e)) :
                  Append(s, e)[i] = e \/ (i \in 1..Len(s) /\ Append(s, e)[i] = s[i])
  OBVIOUS

\* What a sequence holds is of its type.
LEMMA Element ==
    ASSUME NEW S, NEW s \in Seq(S), NEW i \in 1..Len(s)
    PROVE  s[i] \in S
  OBVIOUS

\* What is in the channel names a leg and has a status.
LEMMA InChannel ==
    ASSUME NEW s \in Seq([from : Leg, status : Nat]), NEW i \in 1..Len(s)
    PROVE  s[i].from \in Leg /\ s[i].status \in Nat
<1>1. s[i] \in [from : Leg, status : Nat]
  BY Element
<1> QED
  BY <1>1

\* final_response_class_rank has five classes.
LEMMA RankType == \A c : final_response_class_rank(c) \in 0..4
  BY DEF final_response_class_rank

\* A leg's task moves on.
LEMMA MoveStep ==
    ASSUME CollectInv, NEW l \in Leg, leg[l] \notin {"Idle", "Up"}, NEW s \in LegStages,
           LegTo(l, s), UNCHANGED collectVars
    PROVE  CollectInv'
<1> USE DEF CollectInv, LegTo, collectVars
<1>1. \A k \in Leg : leg'[k] = IF k = l THEN s ELSE leg[k]
  BY DEF CollectTypes
<1>2. CollectTypes'
  BY DEF CollectTypes
<1>3. fork # "Idle"
  BY DEF ForkFresh
<1>4. ForkFresh'
  BY <1>3 DEF ForkFresh
<1>5. \A i \in 1..Len(inbox) : inbox[i].from \in Leg
  BY InChannel DEF CollectTypes
<1>6. PickedUp'
  BY <1>1, <1>5 DEF PickedUp, CollectTypes
<1>7. BestKept'
  BY DEF BestKept
<1> QED
  BY <1>2, <1>4, <1>6, <1>7

\* A leg ends, with a 200 only when it is up.
LEMMA ReportStep ==
    ASSUME CollectInv, NEW l \in Leg, leg[l] \notin {"Idle", "Up"}, NEW s \in {"Up", "Over"},
           NEW status \in Reported, status = 200 => s = "Up", Report(l, s, status)
    PROVE  CollectInv'
<1> USE DEF CollectInv, LegTo, Report
<1> DEFINE r == [from |-> l, status |-> status]
<1>1. \A k \in Leg : leg'[k] = IF k = l THEN s ELSE leg[k]
  BY DEF CollectTypes
<1>2. r \in [from : Leg, status : Nat] /\ r.from = l /\ r.status = status
  BY DEF Reported, Errored
<1>3. inbox' \in Seq([from : Leg, status : Nat])
  BY <1>2, Sent DEF CollectTypes
<1>4. \A i \in 1..Len(inbox') : inbox'[i] = r \/ (i \in 1..Len(inbox) /\ inbox'[i] = inbox[i])
  BY <1>2, Sent DEF CollectTypes
<1>5. CollectTypes'
  BY <1>3 DEF CollectTypes, LegStages
<1>6. fork # "Idle" /\ ForkFresh'
  BY DEF ForkFresh
<1>7. \A i \in 1..Len(inbox) : inbox[i].from \in Leg
  BY InChannel DEF CollectTypes
<1>8. \A i \in 1..Len(inbox') :
          inbox'[i].status \in Reported /\ (inbox'[i].status = 200 => leg'[inbox'[i].from] = "Up")
  <2> SUFFICES ASSUME NEW i \in 1..Len(inbox')
               PROVE  inbox'[i].status \in Reported /\ (inbox'[i].status = 200 => leg'[inbox'[i].from] = "Up")
    OBVIOUS
  <2>1. CASE inbox'[i] = r
    BY <1>1, <1>2, <2>1
  <2>2. CASE i \in 1..Len(inbox) /\ inbox'[i] = inbox[i]
    BY <1>1, <1>7, <2>2 DEF PickedUp
  <2> QED
    BY <1>4, <2>1, <2>2
<1>9. PickedUp'
  BY <1>1, <1>8 DEF PickedUp, CollectTypes
<1>10. BestKept'
  BY DEF BestKept
<1> QED
  BY <1>5, <1>6, <1>9, <1>10

collectSide == <<leg, collectVars>>

\* A leg's step keeps the fork's books.
LEMMA LegCollects ==
    ASSUME CollectInv, WaiterInv, NEW l \in Leg, LegStep(l)
    PROVE  CollectInv'
<1> USE ForkAssumption DEF Leg
<1>1. CASE SipAnswers(l)
  <2>1. leg[l] \notin {"Idle", "Up"}
    BY <1>1 DEF SipAnswers
  <2>2. CASE Report(l, "Up", 200)
    <3> DEFINE c == 200
               s == "Up"
    <3>1. c \in Reported /\ (c = 200 => s = "Up") /\ s \in {"Up", "Over"} /\ Report(l, s, c)
      BY <2>2 DEF Reported
    <3> HIDE DEF c, s, Leg
    <3> QED
      BY <2>1, <3>1, ReportStep
  <2>3. ASSUME NEW c \in SipStatus \cup {Errored}, Report(l, "Over", c) PROVE CollectInv'
    <3> DEFINE s == "Over"
    <3>1. c \in Reported /\ (c = 200 => s = "Up") /\ s \in {"Up", "Over"} /\ Report(l, s, c)
      BY <2>3 DEF Reported, Errored
    <3> HIDE DEF s, Leg
    <3> QED
      BY <2>1, <3>1, ReportStep
  <2> QED
    BY <1>1, <2>2, <2>3 DEF SipAnswers
<1>2. ASSUME leg[l] \notin {"Idle", "Up"}, NEW c \in Reported, c # 200, Report(l, "Over", c) PROVE CollectInv'
  <2> DEFINE s == "Over"
  <2>1. (c = 200 => s = "Up") /\ s \in {"Up", "Over"} /\ Report(l, s, c)
    BY <1>2
  <2> HIDE DEF s, Leg
  <2> QED
    BY <1>2, <2>1, ReportStep
<1>3. ASSUME leg[l] \notin {"Idle", "Up"}, Report(l, "Over", Errored) PROVE CollectInv'
  <2> DEFINE c == Errored
  <2>1. c \in Reported /\ c # 200 /\ Report(l, "Over", c)
    BY <1>3 DEF Reported, Errored
  <2> HIDE DEF c
  <2> QED
    BY <1>2, <1>3, <2>1
<1>4. ASSUME leg[l] \notin {"Idle", "Up"}, NEW s \in LegStages, LegTo(l, s), UNCHANGED collectVars PROVE CollectInv'
  <2> HIDE DEF Leg
  <2> QED
    BY <1>4, MoveStep
<1>5. CASE CreateOffer(l)
  BY <1>3, <1>4, <1>5 DEF CreateOffer, LegStages
<1>6. CASE RegisterWaiter(l)
  BY <1>4, <1>6 DEF RegisterWaiter, LegStages
<1>7. CASE TryRegister(l)
  BY <1>4, <1>7 DEF TryRegister, LegStages
<1>8. CASE StandDown(l)
  BY <1>3, <1>8 DEF StandDown
<1>9. CASE PushOffer(l)
  BY <1>3, <1>4, <1>9 DEF PushOffer, LegStages
<1>10. CASE l \in WebLeg /\ AwaitAnswer(l)
  <2>1. leg[l] \notin {"Idle", "Up"} /\ 603 \in Reported /\ 408 \in Reported /\ "Accept" \in LegStages
    BY <1>10 DEF AwaitAnswer, Reported, LegStages
  <2>2. \/ LegTo(l, "Accept") /\ UNCHANGED collectVars
        \/ Report(l, "Over", 603) \/ Report(l, "Over", Errored) \/ Report(l, "Over", 408)
    BY <1>10 DEF AwaitAnswer, WaiterInv, WaiterStates
  <2>3. CASE Report(l, "Over", 603)
    <3> DEFINE c == 603
    <3>1. c \in Reported /\ c # 200 /\ Report(l, "Over", c)
      BY <2>3 DEF Reported
    <3> HIDE DEF c
    <3> QED
      BY <1>2, <2>1, <3>1
  <2>4. CASE Report(l, "Over", 408)
    <3> DEFINE c == 408
    <3>1. c \in Reported /\ c # 200 /\ Report(l, "Over", c)
      BY <2>4 DEF Reported
    <3> HIDE DEF c
    <3> QED
      BY <1>2, <2>1, <3>1
  <2> QED
    BY <1>3, <1>4, <2>1, <2>2, <2>3, <2>4
<1>11. CASE AcceptAnswer(l)
  <2>1. leg[l] \notin {"Idle", "Up"}
    BY <1>11 DEF AcceptAnswer
  <2>2. CASE Report(l, "Up", 200)
    <3> DEFINE c == 200
               s == "Up"
    <3>1. c \in Reported /\ (c = 200 => s = "Up") /\ s \in {"Up", "Over"} /\ Report(l, s, c)
      BY <2>2 DEF Reported
    <3> HIDE DEF c, s, Leg
    <3> QED
      BY <2>1, <3>1, ReportStep
  <2> QED
    BY <1>3, <1>11, <2>1, <2>2 DEF AcceptAnswer
<1> QED
  BY <1>1, <1>5, <1>6, <1>7, <1>8, <1>9, <1>10, <1>11 DEF LegStep

\* fork_to_bindings takes one result.
LEMMA CollectCollects ==
    ASSUME CollectInv, Collect
    PROVE  CollectInv'
<1> DEFINE r == inbox[1]
           M == [from : Leg, status : Nat]
<1>1. /\ fork = "Collect" /\ inbox \in Seq(M) /\ inbox # <<>>
      /\ inbox' = Tail(inbox) /\ received' = received \cup {Head(inbox)} /\ leg' = leg
  BY DEF Collect, CollectInv, CollectTypes, legVars
<1>2. /\ 1 \in 1..Len(inbox) /\ Head(inbox) = r /\ r \in M /\ inbox' \in Seq(M)
      /\ \A i \in 1..Len(inbox') : i + 1 \in 1..Len(inbox) /\ inbox'[i] = inbox[i + 1]
  BY <1>1, Received
<1>3. r.from \in Leg /\ r.status \in Reported /\ (r.status = 200 => leg[r.from] = "Up")
  BY <1>2 DEF CollectInv, PickedUp
<1>4. winner = None /\ result = "None"
  BY <1>1 DEF CollectInv, PickedUp, ForkFresh
<1>5. /\ winner' = IF r.status = 200 THEN r.from ELSE winner
      /\ lastStatus' = IF r.status \notin {200, Errored} /\ should_replace_status(lastStatus, r.status)
                       THEN r.status ELSE lastStatus
      /\ fork' \in {"Drain", "Collect"} /\ result' \in {"Answered", "AllFailed", "None"}
      /\ r.status = 200 <=> result' = "Answered"
      /\ fork' = "Collect" => result' = "None"
  BY <1>1, <1>2, <1>4 DEF Collect
<1>6. CollectTypes'
  BY <1>1, <1>2, <1>3, <1>4, <1>5 DEF CollectInv, CollectTypes, ForkStages, ForkResults
<1>7. ForkFresh'
  BY <1>5 DEF ForkFresh
<1>8. PickedUp'
  <2>1. result' = "Answered" <=> winner' # None
    BY <1>3, <1>4, <1>5, ForkAssumption
  <2>2. winner' # None => leg'[winner'] = "Up"
    BY <1>1, <1>3, <1>4, <1>5
  <2>3. \A i \in 1..Len(inbox') :
            inbox'[i].status \in Reported /\ (inbox'[i].status = 200 => leg'[inbox'[i].from] = "Up")
    BY <1>1, <1>2 DEF CollectInv, PickedUp
  <2> QED
    BY <2>1, <2>2, <2>3 DEF PickedUp
<1>9. BestKept'
  <2> DEFINE R(c) == final_response_class_rank(c)
  <2>1. \A c : R(c) \in 0..4
    BY RankType
  <2>2. lastStatus \in 300..699 \cup {None} /\ None \notin Nat
    BY ForkAssumption DEF CollectInv, BestKept
  <2>3. lastStatus' \in 300..699 \cup {None}
    BY <1>3, <1>5, <2>2 DEF Reported
  <2>4. lastStatus # None => lastStatus' # None /\ R(lastStatus') >= R(lastStatus)
    BY <1>3, <1>5, <2>1, <2>2 DEF should_replace_status, Reported, Errored
  <2>5. r.status \notin {200, Errored} => lastStatus' # None /\ R(lastStatus') >= R(r.status)
    BY <1>3, <1>5, <2>1, <2>2 DEF should_replace_status, Reported, Errored
  <2> HIDE DEF R
  <2>6. \A q \in received : q.status \in Reported /\
           (q.status \notin {200, Errored} => lastStatus # None /\ R(lastStatus) >= R(q.status))
    BY DEF CollectInv, BestKept, R
  <2>7. \A q \in received' : q.status \in Reported /\
           (q.status \notin {200, Errored} => lastStatus' # None /\ R(lastStatus') >= R(q.status))
    <3> SUFFICES ASSUME NEW q \in received'
                 PROVE  q.status \in Reported /\
           (q.status \notin {200, Errored} => lastStatus' # None /\ R(lastStatus') >= R(q.status))
      OBVIOUS
    <3>1. CASE q = r
      BY <1>3, <2>5, <3>1
    <3>2. CASE q \in received
      BY <2>1, <2>4, <2>6, <3>2
    <3> QED
      BY <1>1, <1>2, <3>1, <3>2
  <2> QED
    BY <2>3, <2>7 DEF BestKept, R
<1> QED
  BY <1>6, <1>7, <1>8, <1>9 DEF CollectInv

\* Every step keeps the fork's books: what was reported, who picked up, the best refusal so far.
LEMMA CollectStep ==
    ASSUME CollectInv, WaiterInv, [Next]_vars
    PROVE  CollectInv'
<1>0. ASSUME UNCHANGED collectSide PROVE CollectInv'
  BY <1>0 DEF collectSide, collectVars, CollectInv, CollectTypes, ForkFresh, PickedUp, BestKept
<1>1. ASSUME StartFork PROVE CollectInv'
  <2>1. /\ fork = "Idle" /\ fork' = "Collect" /\ leg' \in [Leg -> LegStages]
        /\ UNCHANGED <<inbox, received, lastStatus, result, winner>>
    BY <1>1 DEF StartFork, StartLegs, LegStages
  <2>2. result = "None" /\ inbox = <<>> /\ winner = None
    BY <2>1 DEF CollectInv, ForkFresh, PickedUp
  <2>3. CollectTypes' /\ ForkFresh'
    BY <2>1, <2>2 DEF CollectInv, CollectTypes, ForkFresh, ForkStages
  <2>4. PickedUp' /\ BestKept'
    BY <2>1, <2>2 DEF CollectInv, PickedUp, BestKept
  <2> QED
    BY <2>3, <2>4 DEF CollectInv
<1>2. ASSUME Deadline PROVE CollectInv'
  <2>1. /\ fork = "Collect" /\ fork' = "Drain" /\ result' = "Timeout" /\ result = "None"
        /\ UNCHANGED <<leg, inbox, received, lastStatus, winner>>
    BY <1>2 DEF Deadline, legVars, CollectInv, ForkFresh
  <2> QED
    BY <2>1 DEF CollectInv, CollectTypes, ForkFresh, PickedUp, BestKept, ForkStages, ForkResults
<1>3. ASSUME inbox' = <<>>, fork' \in {"Done", "Dropped"}, UNCHANGED <<leg, received, lastStatus, result, winner>>
      PROVE  CollectInv'
  BY <1>3 DEF CollectInv, CollectTypes, ForkFresh, PickedUp, BestKept, ForkStages
<1>4. ASSUME Drain \/ CancelBranch PROVE CollectInv'
  BY <1>3, <1>4 DEF Drain, DrainExcept, CancelBranch, DropFork, legVars
<1>5. ASSUME ForkRuns PROVE CollectInv'
  BY <1>2, <1>4, <1>5, CollectCollects DEF ForkRuns, ForkStep
<1>6. ASSUME NEW l \in Leg, LegRuns(l) PROVE CollectInv'
  BY <1>6, LegCollects DEF LegRuns
<1>7. ASSUME NEW w \in WebLeg, UserReplies(w) \/ SinkCloses(w) PROVE CollectInv'
  BY <1>0, <1>7 DEF UserReplies, Deliver, SinkCloses, ForwarderEnds, legVars, collectSide
<1>8. ASSUME NEW p \in Prack, HandlePrack(p) \/ PrackRuns(p) PROVE CollectInv'
  BY <1>0, <1>8, PrackFrame DEF collectSide, forkVars, legVars
<1>9. ASSUME NEW b \in Bye, ReceiveBye(b) \/ ByeRuns(b) PROVE CollectInv'
  BY <1>0, <1>9, ByeFrame DEF collectSide
<1>10. ASSUME NEW w \in WebLeg, SessionEnds(w) \/ CloseRuns(w) PROVE CollectInv'
  BY <1>0, <1>10, SessionFrame DEF collectSide
<1>11. ASSUME RefuseRequest \/ NoBinding \/ Ring \/ EnterInFlight \/ ForkResult \/ BeginWait \/ PrackArrived
              \/ PrackTimeout \/ StartBridge \/ BridgeFails \/ Answer PROVE CollectInv'
  BY <1>0, <1>11 DEF RefuseRequest, NoBinding, Ring, EnterInFlight, ForkResult, BeginWait, PrackArrived,
     PrackTimeout, StartBridge, BridgeFails, Answer, forkVars, legVars, collectSide
<1>12. ASSUME EnterActive \/ EnterWebActive \/ CountCall \/ StartVoicemail \/ EnterVoicemail \/ RefuseCall
              \/ ForgetTx \/ Finish \/ Accept \/ Timers \/ Sweep \/ HandleCancel \/ HandleAck
       PROVE  CollectInv'
  BY <1>0, <1>12 DEF EnterActive, EnterWebActive, CountCall, StartVoicemail, EnterVoicemail, RefuseCall,
     ForgetTx, Finish, Accept, Timers, Sweep, HandleCancel, HandleAck, forkVars, legVars, collectSide
<1>13. CASE UNCHANGED vars
  BY <1>0, <1>13 DEF vars, forkVars, legVars, collectSide
<1> QED
  BY <1>1, <1>4, <1>5, <1>6, <1>7, <1>8, <1>9, <1>10, <1>11, <1>12, <1>13 DEF Next, Invite

-----------------------------------------------------------------------------
(* PendingAnswers                                                          *)

waiterSide == <<leg, waiter>>

\* Removing entries leaves the answers that were delivered.
AnswersKept ==
    /\ waiter' \in [WebLeg -> WaiterStates]
    /\ \A w \in WebLeg : waiter'[w] = waiter[w] \/ (waiter[w] = "Open" /\ waiter'[w] = "Cancelled")
\* Cancelling waiters overwrites no browser's answer.
LEMMA CancelledKeeps ==
    ASSUME waiter \in [WebLeg -> WaiterStates], NEW ws, waiter' = Cancelled(ws)
    PROVE  AnswersKept
<1>1. \A w \in WebLeg : waiter'[w] = IF w \in ws /\ waiter[w] = "Open" THEN "Cancelled" ELSE waiter[w]
  BY DEF Cancelled
<1>2. \A w \in WebLeg : waiter[w] \in WaiterStates /\ "Cancelled" \in WaiterStates
  BY DEF WaiterStates
<1>3. waiter' \in [WebLeg -> WaiterStates]
  BY <1>2 DEF Cancelled
<1> QED
  BY <1>1, <1>3 DEF AnswersKept

\* The tasks that change what a leg waits for.
LegSide ==
    \/ StartFork \/ ForkRuns \/ \E l \in Leg : LegRuns(l)
    \/ \E w \in WebLeg : UserReplies(w) \/ CancelAll(w)
\* Only the steps of LegSide touch legs, waiters or the leg registry.
LEMMA LegSideFrame == [Next]_vars => LegSide \/ UNCHANGED waiterSide
<1> SUFFICES ASSUME [Next]_vars PROVE LegSide \/ UNCHANGED waiterSide
  OBVIOUS
<1> USE DEF waiterSide, forkVars, legVars
<1>1. ASSUME NEW p \in Prack, HandlePrack(p) \/ PrackRuns(p) PROVE UNCHANGED waiterSide
  BY <1>1, PrackFrame
<1>2. ASSUME NEW b \in Bye, ReceiveBye(b) \/ ByeRuns(b) PROVE UNCHANGED waiterSide
  BY <1>2, ByeFrame
<1>3. ASSUME NEW w \in WebLeg, SessionEnds(w) \/ CloseRuns(w) PROVE CancelAll(w) \/ UNCHANGED waiterSide
  BY <1>3 DEF SessionEnds, CloseRuns, CloseInbound, SendBye, CloseActive, CloseDec
<1>4. ASSUME RefuseRequest \/ NoBinding \/ Ring \/ EnterInFlight \/ ForkResult \/ BeginWait \/ PrackArrived
             \/ PrackTimeout \/ StartBridge \/ BridgeFails \/ Answer \/ CancelBranch PROVE UNCHANGED waiterSide
  BY <1>4 DEF RefuseRequest, NoBinding, Ring, EnterInFlight, ForkResult, BeginWait, PrackArrived,
     PrackTimeout, StartBridge, BridgeFails, Answer, CancelBranch
<1>5. ASSUME EnterActive \/ EnterWebActive \/ CountCall \/ StartVoicemail \/ EnterVoicemail \/ RefuseCall
              \/ ForgetTx \/ Finish \/ Accept \/ Timers \/ Sweep \/ HandleCancel \/ HandleAck
       PROVE  UNCHANGED waiterSide
  BY <1>5 DEF EnterActive, EnterWebActive, CountCall, StartVoicemail, EnterVoicemail, RefuseCall,
     ForgetTx, Finish, Accept, Timers, Sweep, HandleCancel, HandleAck
<1>6. ASSUME NEW w \in WebLeg, SinkCloses(w) PROVE UNCHANGED waiterSide
  BY <1>6 DEF SinkCloses, ForwarderEnds
<1>7. CASE UNCHANGED vars
  BY <1>7 DEF vars
<1> QED
  BY <1>1, <1>2, <1>3, <1>4, <1>5, <1>6, <1>7 DEF Next, Invite, LegSide

\* Every step keeps PendingAnswers and the legs that wait in it in agreement.
LEMMA WaiterStep ==
    ASSUME CollectInv, WaiterInv, RingingLegs, [Next]_vars
    PROVE  WaiterInv'
<1>0. ASSUME UNCHANGED waiterSide PROVE WaiterInv'
  BY <1>0 DEF waiterSide, WaiterInv
<1> USE ForkAssumption DEF WaiterInv
<1>1. leg \in [Leg -> LegStages] /\ WebLeg \subseteq Leg
  BY DEF CollectInv, CollectTypes, Leg
<1>2. ASSUME StartFork PROVE WaiterInv'
  BY <1>1, <1>2 DEF StartFork, StartLegs, CollectInv, ForkFresh, Leg
<1>3. ASSUME ForkRuns PROVE WaiterInv'
  <2>1. leg' = leg /\ (waiter' = waiter \/ waiter' = Cancelled(registry \ {winner}))
    BY <1>3 DEF ForkRuns, ForkStep, Collect, Deadline, Drain, DrainExcept, legVars
  <2>2. AnswersKept
    BY <2>1, CancelledKeeps DEF AnswersKept
  <2> QED
    BY <2>1, <2>2 DEF AnswersKept
<1>4. ASSUME NEW l \in Leg, SipAnswers(l) PROVE WaiterInv'
  <2>1. PICK s : leg' = [leg EXCEPT ![l] = s]
    BY <1>4 DEF SipAnswers, Report, LegTo
  <2>2. \A w \in WebLeg : leg'[w] = leg[w]
    BY <1>1, <1>4, <2>1 DEF SipAnswers
  <2> QED
    BY <1>4, <2>2 DEF SipAnswers
<1>5. ASSUME NEW l \in WebLeg, NEW s, leg' = [leg EXCEPT ![l] = s], AnswersKept,
             s \in {"Join", "Late", "Push", "Waiting"} => waiter[l] # "None",
             s \in {"Accept", "Up"} => waiter[l] = "Sdp",
             waiter[l] = "Sdp" => s \in {"Waiting", "Accept", "Up", "Over"}
      PROVE  WaiterInv'
  <2>1. \A w \in WebLeg : leg'[w] = IF w = l THEN s ELSE leg[w]
    BY <1>1, <1>5
  <2> QED
    BY <1>5, <2>1 DEF AnswersKept
<1>6. UNCHANGED waiter => AnswersKept
  BY DEF AnswersKept
<1>7. ASSUME NEW l \in WebLeg, CreateOffer(l) PROVE WaiterInv'
  <2>1. AnswersKept /\ waiter[l] # "Sdp"
    BY <1>6, <1>7 DEF CreateOffer
  <2>2. PICK s \in {"Register", "Over"} : leg' = [leg EXCEPT ![l] = s]
    BY <1>7 DEF CreateOffer, LegTo, Report
  <2> QED
    BY <1>5, <2>1, <2>2
<1>8. ASSUME NEW l \in WebLeg, RegisterWaiter(l) PROVE WaiterInv'
  BY <1>1, <1>8 DEF RegisterWaiter, WaiterStates, LegTo
<1>9. ASSUME NEW l \in WebLeg, TryRegister(l) PROVE WaiterInv'
  <2>1. AnswersKept /\ waiter[l] \notin {"None", "Sdp"}
    BY <1>6, <1>9 DEF TryRegister
  <2>2. PICK s \in {"Late", "Push"} : leg' = [leg EXCEPT ![l] = s]
    BY <1>9 DEF TryRegister, LegTo
  <2> QED
    BY <1>5, <2>1, <2>2
<1>10. ASSUME NEW l \in WebLeg, StandDown(l) PROVE WaiterInv'
  <2>1. AnswersKept
    BY <1>10, CancelledKeeps DEF StandDown
  <2> QED
    BY <1>5, <1>10, <2>1 DEF StandDown, LegTo, Report
<1>11. ASSUME NEW l \in WebLeg, PushOffer(l) PROVE WaiterInv'
  <2>1. AnswersKept
    BY <1>6, <1>11, CancelledKeeps DEF PushOffer
  <2>2. PICK s \in {"Waiting", "Over"} : leg' = [leg EXCEPT ![l] = s] /\ waiter[l] \notin {"None", "Sdp"}
    BY <1>11 DEF PushOffer, LegTo, Report
  <2> QED
    BY <1>5, <1>11, <2>1, <2>2
<1>12. ASSUME NEW l \in WebLeg, AwaitAnswer(l) PROVE WaiterInv'
  <2>1. AnswersKept
    BY <1>12, CancelledKeeps DEF AwaitAnswer
  <2>2. waiter[l] \in {"Open", "Sdp", "Decline", "Cancelled"}
    BY <1>12 DEF AwaitAnswer, WaiterStates
  <2>3. PICK s \in {"Accept", "Over"} : leg' = [leg EXCEPT ![l] = s] /\ (s = "Accept" => waiter[l] = "Sdp")
    BY <1>12, <2>2 DEF AwaitAnswer, Report, LegTo
  <2> QED
    BY <1>5, <2>1, <2>3
<1>13. ASSUME NEW l \in WebLeg, AcceptAnswer(l) PROVE WaiterInv'
  <2>1. AnswersKept /\ waiter[l] = "Sdp"
    BY <1>6, <1>13 DEF AcceptAnswer
  <2>2. PICK s \in {"Up", "Over"} : leg' = [leg EXCEPT ![l] = s]
    BY <1>13 DEF AcceptAnswer, LegTo, Report
  <2> QED
    BY <1>5, <2>1, <2>2
<1>14. ASSUME NEW w \in WebLeg, UserReplies(w) PROVE WaiterInv'
  <2>1. PICK a \in {"Sdp", "Decline"} : Deliver(w, a)
    BY <1>14 DEF UserReplies
  <2> QED
    BY <2>1 DEF Deliver, WaiterStates, RingingLegs
<1>15. ASSUME NEW w \in WebLeg, CancelAll(w) PROVE WaiterInv'
  <2>1. AnswersKept
    BY <1>15, CancelledKeeps DEF CancelAll
  <2>2. leg' = leg
    BY <1>15 DEF CancelAll
  <2> QED
    BY <2>1, <2>2 DEF AnswersKept
<1> QED
  BY <1>0, <1>2, <1>3, <1>4, <1>7, <1>8, <1>9, <1>10, <1>11, <1>12, <1>13, <1>14, <1>15, LegSideFrame
     DEF LegSide, LegRuns, LegStep

-----------------------------------------------------------------------------
(* What the browsers show                                                  *)

Showing == {"InFlight", "Forked", "WaitPrack", "Decide", "Bridged", "Answered", "Web"}

\* A message to a browser changes what that browser shows, if its socket is open, and no other.
LEMMA ShowsOne ==
    ASSUME BrowserTypes, NEW w \in WebLeg, NEW s \in BrowserStates, Shows(w, s)
    PROVE  /\ browser' \in [WebLeg -> BrowserStates]
           /\ \A k \in WebLeg : browser'[k] = IF k = w /\ w \in wsOpen THEN s ELSE browser[k]
  BY DEF BrowserTypes, Shows

\* The leg that won is up: no leg that is still on its way is the winner's.
LEMMA NotTheWinner ==
    ASSUME CollectInv, WebCall, NEW l, leg[l] # "Up"
    PROVE  l # winner \/ winner = None
  BY DEF CollectInv, PickedUp

\* The handler goes on, or some other task that shows the browsers nothing.
LEMMA SameShown ==
    ASSUME CollectInv, BrowserInv, UNCHANGED <<legVars, wsVars, registryVars, winner>>,
           fork' \in {fork, "Dropped"}, webActive' \in {webActive, None},
           stage' \in Showing => stage \in Showing \/ winner = None
    PROVE  BrowserInv'
<1> USE DEF BrowserInv, legVars, wsVars, registryVars
<1>1. BrowserTypes' /\ RingingLegs' /\ GoneAreQuiet' /\ AnsweredShown'
  BY DEF BrowserTypes, RingingLegs, GoneAreQuiet, AnsweredShown
<1>2. None \notin wsOpen
  BY ForkAssumption DEF BrowserTypes, Leg
<1>3. WinnerShown' /\ WinnerUndisturbed'
  BY <1>2 DEF WinnerShown, WinnerUndisturbed, Showing
<1> QED
  BY <1>1, <1>3

\* A browser leg moves on, and its browser is not told.
LEMMA SilentMove ==
    ASSUME CollectInv, BrowserInv, NEW l \in Leg, NEW s, leg' = [leg EXCEPT ![l] = s],
           l \in WebLeg /\ browser[l] = "Ringing" => s \in {"Waiting", "Accept", "Up", "Over"},
           \A w \in WebLeg : waiter'[w] = "Sdp" => waiter[w] = "Sdp",
           registry' \subseteq WebLeg,
           UNCHANGED <<browser, wsVars, closed, fork, winner, webActive, stage>>
    PROVE  BrowserInv'
<1> USE DEF BrowserInv, wsVars
<1>1. \A w \in WebLeg : leg'[w] = IF w = l THEN s ELSE leg[w]
  BY DEF CollectInv, CollectTypes, Leg
<1>2. BrowserTypes' /\ GoneAreQuiet' /\ WinnerShown' /\ WinnerUndisturbed'
  BY DEF BrowserTypes, GoneAreQuiet, WinnerShown, WinnerUndisturbed
<1>3. RingingLegs'
  BY <1>1 DEF RingingLegs
<1>4. AnsweredShown'
  BY DEF AnsweredShown, BrowserTypes
<1> QED
  BY <1>2, <1>3, <1>4

\* A browser that is not the winner's is told something by its own leg or user.
LEMMA ToldOne ==
    ASSUME CollectInv, WebCall, BrowserInv, NEW l \in WebLeg, leg[l] # "Up", NEW s \in BrowserStates,
           browser' \in [WebLeg -> BrowserStates],
           \A k \in WebLeg : browser'[k] = IF k = l /\ l \in wsOpen THEN s ELSE browser[k],
           \A k \in WebLeg : leg'[k] = leg[k] \/ (k = l /\ leg'[k] \in {"Waiting", "Over"}),
           s = "Ringing" => leg'[l] = "Waiting",
           waiter'[l] = "Sdp" => s = "InCall", \A k \in WebLeg \ {l} : waiter'[k] = "Sdp" => waiter[k] = "Sdp",
           UNCHANGED <<wsVars, registryVars, fork, winner, webActive, stage>>
    PROVE  BrowserInv'
<1> USE DEF BrowserInv, wsVars, registryVars
<1>1. winner # l /\ webActive # l
  BY ForkAssumption, NotTheWinner DEF WebCall, Leg
<1>2. BrowserTypes'
  BY DEF BrowserTypes
<1>3. RingingLegs'
  BY DEF RingingLegs
<1>4. GoneAreQuiet'
  BY DEF GoneAreQuiet
<1>5. AnsweredShown'
  BY DEF AnsweredShown, BrowserTypes
<1>6. WinnerShown' /\ WinnerUndisturbed'
  BY <1>1 DEF WinnerShown, WinnerUndisturbed, BrowserTypes
<1> QED
  BY <1>2, <1>3, <1>4, <1>5, <1>6

\* A leg's step keeps what the browsers show.
LEMMA LegBrowser ==
    ASSUME CollectInv, WaiterInv, WebCall, BrowserInv, NEW l \in Leg, LegRuns(l)
    PROVE  BrowserInv'
<1>0. LegStep(l) /\ UNCHANGED <<webActive, stage>>
  BY DEF LegRuns, Outside, tableVars, handlerVars
<1>1. /\ leg \in [Leg -> LegStages] /\ waiter \in [WebLeg -> WaiterStates] /\ registry \subseteq WebLeg
      /\ (l \in WebLeg /\ browser[l] = "Ringing" => leg[l] \in {"Waiting", "Accept", "Up", "Over"})
  BY DEF CollectInv, CollectTypes, WaiterInv, BrowserInv, BrowserTypes, RingingLegs
<1>2. AnswersKept \/ UNCHANGED waiter => \A w \in WebLeg : waiter'[w] = "Sdp" => waiter[w] = "Sdp"
  BY DEF AnswersKept
<1>3. CASE SipAnswers(l)
  <2>1. PICK s \in {"Up", "Over"} : leg' = [leg EXCEPT ![l] = s]
    BY <1>3 DEF SipAnswers, Report, LegTo
  <2>2. UNCHANGED <<waiter, browser, wsVars, registry, closed, fork, winner>>
    BY <1>3 DEF SipAnswers, Report, registryVars
  <2> QED
    BY <1>0, <1>1, <1>2, <2>1, <2>2, SilentMove
<1>4. CASE l \in WebLeg /\ CreateOffer(l)
  <2>1. leg[l] = "Offering" /\ \E s : leg' = [leg EXCEPT ![l] = s]
    BY <1>4 DEF CreateOffer, Report, LegTo
  <2>2. UNCHANGED <<waiter, browser, wsVars, registry, closed, fork, winner>>
    BY <1>4 DEF CreateOffer, Report, registryVars, collectVars
  <2> QED
    BY <1>0, <1>1, <1>2, <2>1, <2>2, SilentMove
<1>5. CASE l \in WebLeg /\ RegisterWaiter(l)
  <2>1. leg[l] = "Register" /\ \E s : leg' = [leg EXCEPT ![l] = s]
    BY <1>5 DEF RegisterWaiter, LegTo
  <2>2. UNCHANGED <<browser, wsVars, registry, closed, fork, winner>>
    BY <1>5 DEF RegisterWaiter, registryVars, collectVars
  <2>3. \A w \in WebLeg : waiter'[w] = "Sdp" => waiter[w] = "Sdp"
    BY <1>1, <1>5 DEF RegisterWaiter
  <2> QED
    BY <1>0, <1>1, <2>1, <2>2, <2>3, SilentMove
<1>6. CASE l \in WebLeg /\ TryRegister(l)
  <2>1. leg[l] = "Join" /\ registry' \subseteq WebLeg /\ \E s : leg' = [leg EXCEPT ![l] = s]
    BY <1>1, <1>6 DEF TryRegister, LegTo
  <2>2. UNCHANGED <<waiter, browser, wsVars, closed, fork, winner>>
    BY <1>6 DEF TryRegister, collectVars
  <2> QED
    BY <1>0, <1>1, <1>2, <2>1, <2>2, SilentMove
<1>7. CASE l \in WebLeg /\ StandDown(l)
  <2> DEFINE s == "Quiet"
  <2>1. leg[l] = "Late" /\ leg' = [leg EXCEPT ![l] = "Over"] /\ Shows(l, s) /\ s \in BrowserStates
    BY <1>7 DEF StandDown, Report, LegTo, BrowserStates
  <2>2. AnswersKept /\ waiter[l] # "Sdp"
    BY <1>1, <1>7, <2>1, CancelledKeeps DEF StandDown, WaiterInv
  <2>3. UNCHANGED <<wsVars, registryVars, fork, winner>>
    BY <1>7 DEF StandDown, Report
  <2>4. \A k \in WebLeg : leg'[k] = leg[k] \/ (k = l /\ leg'[k] \in {"Waiting", "Over"})
    BY <1>1, <2>1 DEF Leg
  <2>5. s # "Ringing" /\ waiter'[l] # "Sdp" /\ leg[l] # "Up"
    BY <1>2, <1>7, <2>1, <2>2
  <2> HIDE DEF s
  <2>6. /\ browser' \in [WebLeg -> BrowserStates]
        /\ \A k \in WebLeg : browser'[k] = IF k = l /\ l \in wsOpen THEN s ELSE browser[k]
    BY <1>7, <2>1, ShowsOne DEF BrowserInv
  <2> QED
    BY <1>0, <1>2, <1>7, <2>1, <2>2, <2>3, <2>4, <2>5, <2>6, ToldOne
<1>8. CASE l \in WebLeg /\ PushOffer(l) /\ l \in sink
  <2> DEFINE s == "Ringing"
  <2>1. leg[l] = "Push" /\ leg' = [leg EXCEPT ![l] = "Waiting"] /\ Shows(l, s) /\ s \in BrowserStates
    BY <1>8 DEF PushOffer, LegTo, BrowserStates
  <2>2. waiter' = waiter /\ waiter[l] # "Sdp"
    BY <1>8, <2>1 DEF PushOffer, WaiterInv
  <2>3. UNCHANGED <<wsVars, registryVars, fork, winner>>
    BY <1>8 DEF PushOffer, collectVars
  <2>4. /\ \A k \in WebLeg : leg'[k] = leg[k] \/ (k = l /\ leg'[k] \in {"Waiting", "Over"})
        /\ leg'[l] = "Waiting"
    BY <1>1, <2>1 DEF Leg
  <2>5. waiter'[l] # "Sdp" /\ leg[l] # "Up"
    BY <2>1, <2>2
  <2> HIDE DEF s
  <2>6. /\ browser' \in [WebLeg -> BrowserStates]
        /\ \A k \in WebLeg : browser'[k] = IF k = l /\ l \in wsOpen THEN s ELSE browser[k]
    BY <1>8, <2>1, ShowsOne DEF BrowserInv
  <2> QED
    BY <1>0, <1>8, <2>1, <2>2, <2>3, <2>4, <2>5, <2>6, ToldOne
<1>9. CASE l \in WebLeg /\ PushOffer(l) /\ l \notin sink
  <2>1. leg' = [leg EXCEPT ![l] = "Over"] /\ AnswersKept
    BY <1>1, <1>9, CancelledKeeps DEF PushOffer, Report, LegTo
  <2>2. UNCHANGED <<browser, wsVars, registry, closed, fork, winner>>
    BY <1>9 DEF PushOffer, Report, registryVars
  <2> QED
    BY <1>0, <1>1, <1>2, <2>1, <2>2, SilentMove
<1>10. CASE l \in WebLeg /\ AwaitAnswer(l)
  <2>1. AnswersKept /\ waiter[l] \in {"Open", "Sdp", "Decline", "Cancelled"}
    BY <1>1, <1>10, CancelledKeeps DEF AwaitAnswer, WaiterInv, WaiterStates
  <2>2. PICK s \in {"Accept", "Over"} : leg' = [leg EXCEPT ![l] = s]
    BY <1>10, <2>1 DEF AwaitAnswer, Report, LegTo
  <2>3. UNCHANGED <<browser, wsVars, registry, closed, fork, winner>>
    BY <1>10, <2>1 DEF AwaitAnswer, Report, registryVars, collectVars
  <2> QED
    BY <1>0, <1>1, <1>2, <2>1, <2>2, <2>3, SilentMove
<1>11. CASE l \in WebLeg /\ AcceptAnswer(l)
  <2>1. PICK s \in {"Up", "Over"} : leg' = [leg EXCEPT ![l] = s]
    BY <1>11 DEF AcceptAnswer, Report, LegTo
  <2>2. UNCHANGED <<waiter, browser, wsVars, registry, closed, fork, winner>>
    BY <1>11 DEF AcceptAnswer, Report, registryVars
  <2> QED
    BY <1>0, <1>1, <1>2, <2>1, <2>2, SilentMove
<1> QED
  BY <1>0, <1>3, <1>4, <1>5, <1>6, <1>7, <1>8, <1>9, <1>10, <1>11 DEF LegStep

\* The fork's own steps keep what the browsers show.
LEMMA ForkBrowser ==
    ASSUME CollectInv, WaiterInv, WebCall, BrowserInv, ForkRuns
    PROVE  BrowserInv'
<1> USE DEF BrowserInv
<1>1. stage = "InFlight" /\ UNCHANGED <<stage, webActive, leg, wsVars>> /\ webActive = None
  BY DEF ForkRuns, ForkStep, Collect, Deadline, Drain, DrainExcept, Outside, handlerVars, tableVars,
         legVars, WebCall
<1>2. CASE Collect
  <2>1. fork = "Collect" /\ fork' \in {"Collect", "Drain"} /\ UNCHANGED <<waiter, browser, registry, closed>>
    BY <1>2 DEF Collect, legVars, registryVars
  <2>2. BrowserTypes' /\ RingingLegs' /\ GoneAreQuiet' /\ WinnerUndisturbed'
    BY <1>1, <2>1 DEF BrowserTypes, RingingLegs, GoneAreQuiet, WinnerUndisturbed, wsVars
  <2>3. AnsweredShown'
    BY <1>1, <2>1 DEF AnsweredShown, wsVars
  <2>4. CollectInv'
    BY <1>2, CollectCollects
  <2>5. winner' \in wsOpen => waiter[winner'] = "Sdp"
    BY <1>1, <2>4, ForkAssumption DEF BrowserTypes, CollectInv, PickedUp, WaiterInv, Leg
  <2>6. WinnerShown'
    BY <1>1, <2>1, <2>5 DEF WinnerShown, AnsweredShown, wsVars
  <2> QED
    BY <2>2, <2>3, <2>6
<1>3. CASE Deadline
  BY <1>1, <1>3 DEF Deadline, legVars, wsVars, registryVars, BrowserTypes, RingingLegs, GoneAreQuiet, WinnerUndisturbed,
                    AnsweredShown, WinnerShown
<1>4. CASE Drain
  <2>1. /\ fork' = "Done" /\ winner' = winner /\ registry' = {} /\ closed' = TRUE
        /\ browser' = [w \in WebLeg |-> IF w \in (registry \ {winner}) \cap wsOpen THEN "Quiet" ELSE browser[w]]
    BY <1>4 DEF Drain, DrainExcept
  <2>2. \A w \in WebLeg : browser'[w] \in {browser[w], "Quiet"} /\ (w = winner => browser'[w] = browser[w])
    BY <2>1
  <2>3. browser' \in [WebLeg -> BrowserStates]
    BY <2>1 DEF BrowserTypes, BrowserStates
  <2>4. closed' \in BOOLEAN
    BY <2>1
  <2>5. BrowserTypes'
    BY <1>1, <2>1, <2>3, <2>4 DEF BrowserTypes, wsVars
  <2>6. RingingLegs' /\ GoneAreQuiet'
    BY <1>1, <2>2 DEF RingingLegs, GoneAreQuiet, wsVars
  <2>7. AnsweredShown' /\ WinnerUndisturbed'
    BY <1>1, <2>1 DEF AnsweredShown, WinnerUndisturbed
  <2>8. WinnerShown'
    BY <1>1, <2>1, <2>2 DEF WinnerShown, wsVars, BrowserTypes
  <2> QED
    BY <2>5, <2>6, <2>7, <2>8
<1> QED
  BY <1>2, <1>3, <1>4 DEF ForkRuns, ForkStep

\* Every step keeps what the browsers show.
LEMMA BrowserStep ==
    ASSUME HandlerInv, CollectInv, WaiterInv, WebCall, StageInv, TableTypeOK, BrowserInv, [Next]_vars
    PROVE  BrowserInv'
<1>0. /\ wsOpen \subseteq WebLeg /\ None \notin WebLeg
      /\ webActive # None => stage \in {"Count", "Cleanup", "Done"}
  BY ForkAssumption DEF BrowserInv, BrowserTypes, Leg, WebCall
<1>1. ASSUME NEW p \in Prack, HandlePrack(p) \/ PrackRuns(p) PROVE BrowserInv'
  BY <1>1, PrackFrame, SameShown DEF forkVars, collectVars, tableVars, handlerVars
<1>2. ASSUME NEW b \in Bye, ReceiveBye(b) \/ ByeActive(b) \/ ByeVoicemail(b) \/ ByeBridge(b) PROVE BrowserInv'
  BY <1>2, SameShown DEF ReceiveBye, ByeActive, ByeVoicemail, ByeBridge, forkVars, collectVars, tableVars, handlerVars
<1>3. ASSUME NEW b \in Bye, ByeWeb(b) PROVE BrowserInv'
  <2>1. webActive' = None /\ UNCHANGED <<leg, waiter, wsVars, registryVars, fork, winner, stage>>
    BY <1>3 DEF ByeWeb, collectVars, handlerVars
  <2>2. CASE webActive = None
    BY <1>3, <2>1, <2>2, SameShown DEF ByeWeb, legVars
  <2>3. CASE webActive # None
    <3> DEFINE s == "Quiet"
    <3>1. stage \in {"Count", "Cleanup", "Done"} /\ webActive \in WebLeg /\ Shows(webActive, s) /\ s \in BrowserStates
      BY <1>0, <1>3, <2>3 DEF ByeWeb, TableTypeOK, BrowserStates
    <3>2. s # "Ringing" /\ s = "Quiet"
      OBVIOUS
    <3> HIDE DEF s
    <3>3. /\ browser' \in [WebLeg -> BrowserStates]
          /\ \A k \in WebLeg : browser'[k] = IF k = webActive /\ webActive \in wsOpen THEN s ELSE browser[k]
      BY <3>1, ShowsOne DEF BrowserInv
    <3>4. BrowserTypes' /\ RingingLegs' /\ GoneAreQuiet'
      BY <2>1, <3>2, <3>3 DEF BrowserInv, BrowserTypes, RingingLegs, GoneAreQuiet, wsVars, registryVars
    <3>5. winner # None
      BY <2>3 DEF WebCall
    <3>6. fork \in {"Done", "Dropped"}
      BY <3>1, <3>5 DEF StageInv, CollectInv, ForkFresh, PickedUp
    <3>7. AnsweredShown' /\ WinnerShown' /\ WinnerUndisturbed'
      BY <2>1, <3>1, <3>6 DEF AnsweredShown, WinnerShown, WinnerUndisturbed
    <3> QED
      BY <3>4, <3>7 DEF BrowserInv
  <2> QED
    BY <2>2, <2>3
<1>4. ASSUME NEW w \in WebLeg, SessionEnds(w) \/ CloseInbound(w) \/ SendBye(w) \/ CloseActive(w) \/ CloseDec(w)
      PROVE  BrowserInv'
  BY <1>4, SameShown DEF SessionEnds, CloseInbound, SendBye, CloseActive, CloseDec, forkVars, collectVars, tableVars, handlerVars
<1>5. ASSUME NEW w \in WebLeg, CancelAll(w) PROVE BrowserInv'
  <2>1. /\ browser' = [browser EXCEPT ![w] = "Quiet"] /\ wsOpen' = wsOpen \ {w}
        /\ UNCHANGED <<leg, sink, registry, closed, fork, winner, stage, webActive>> /\ waiter' = Cancelled({w})
    BY <1>5 DEF CancelAll, registryVars, collectVars, handlerVars, tableVars
  <2>2. AnswersKept
    BY <2>1, CancelledKeeps DEF WaiterInv
  <2>3. BrowserTypes'
    BY <2>1 DEF BrowserInv, BrowserTypes, BrowserStates
  <2>4. \A k \in WebLeg : browser'[k] = IF k = w THEN "Quiet" ELSE browser[k]
    BY <2>1 DEF BrowserInv, BrowserTypes
  <2>5. RingingLegs' /\ GoneAreQuiet'
    BY <2>1, <2>4 DEF BrowserInv, RingingLegs, GoneAreQuiet
  <2>6. AnsweredShown' /\ WinnerShown' /\ WinnerUndisturbed'
    BY <1>0, <2>1, <2>2, <2>4 DEF BrowserInv, AnsweredShown, WinnerShown, WinnerUndisturbed, AnswersKept
  <2> QED
    BY <2>3, <2>5, <2>6 DEF BrowserInv
<1>6. ASSUME NEW w \in WebLeg, SinkCloses(w) PROVE BrowserInv'
  BY <1>6 DEF SinkCloses, ForwarderEnds, Outside, legVars, registryVars, collectVars, tableVars, handlerVars,
     BrowserInv, BrowserTypes, RingingLegs, GoneAreQuiet, AnsweredShown, WinnerShown, WinnerUndisturbed
<1>7. ASSUME NEW w \in WebLeg, UserReplies(w) PROVE BrowserInv'
  <2>1. PICK a \in {"Sdp", "Decline"} : Deliver(w, a) /\ UNCHANGED <<webActive, stage>>
    BY <1>7 DEF UserReplies, Outside, tableVars, handlerVars
  <2> DEFINE s == IF a = "Sdp" THEN "InCall" ELSE "Quiet"
  <2>2. /\ w \in wsOpen /\ waiter[w] = "Open" /\ waiter' = [waiter EXCEPT ![w] = a]
        /\ browser' = [browser EXCEPT ![w] = s] /\ UNCHANGED <<leg, wsVars, registryVars, fork, winner>>
    BY <2>1 DEF Deliver, collectVars
  <2>3. s \in BrowserStates /\ s # "Ringing" /\ leg[w] # "Up" /\ (a = "Sdp" => s = "InCall")
    BY <2>2 DEF BrowserStates, WaiterInv
  <2> HIDE DEF s
  <2>4. /\ browser' \in [WebLeg -> BrowserStates]
        /\ \A k \in WebLeg : browser'[k] = IF k = w /\ w \in wsOpen THEN s ELSE browser[k]
    BY <2>2, <2>3 DEF BrowserInv, BrowserTypes
  <2>5. /\ waiter'[w] = "Sdp" => s = "InCall"
        /\ \A k \in WebLeg \ {w} : waiter'[k] = "Sdp" => waiter[k] = "Sdp"
    BY <2>2, <2>3 DEF WaiterInv
  <2> QED
    BY <2>1, <2>2, <2>3, <2>4, <2>5, ToldOne
<1>8. ASSUME BridgeFails PROVE BrowserInv'
  <2>1. /\ stage = "Decide" /\ stage' = "Refused" /\ UNCHANGED <<leg, waiter, wsVars, registryVars, fork, winner, webActive>>
    BY <1>8 DEF BridgeFails, Refuse, To, collectVars, tableVars
  <2>2. CASE winner \notin WebLeg
    BY <1>8, <2>1, <2>2, SameShown DEF BridgeFails, legVars, Showing
  <2>3. CASE winner \in WebLeg
    <3> DEFINE s == "Quiet"
    <3>1. Shows(winner, s) /\ s \in BrowserStates
      BY <1>8, <2>3 DEF BridgeFails, BrowserStates
    <3>2. s # "Ringing" /\ s = "Quiet"
      OBVIOUS
    <3> HIDE DEF s
    <3>3. /\ browser' \in [WebLeg -> BrowserStates]
          /\ \A k \in WebLeg : browser'[k] = IF k = winner /\ winner \in wsOpen THEN s ELSE browser[k]
      BY <2>3, <3>1, ShowsOne DEF BrowserInv
    <3>4. BrowserTypes' /\ RingingLegs' /\ GoneAreQuiet'
      BY <2>1, <3>2, <3>3 DEF BrowserInv, BrowserTypes, RingingLegs, GoneAreQuiet, wsVars, registryVars
    <3>5. winner # None
      BY <1>0, <2>3
    <3>6. fork \in {"Done", "Dropped"}
      BY <2>1, <3>5 DEF StageInv, CollectInv, ForkFresh, PickedUp
    <3>7. AnsweredShown' /\ WinnerShown' /\ WinnerUndisturbed'
      BY <1>0, <2>1, <3>6 DEF AnsweredShown, WinnerShown, WinnerUndisturbed
    <3> QED
      BY <3>4, <3>7 DEF BrowserInv
  <2> QED
    BY <2>2, <2>3
<1>9. ASSUME EnterWebActive PROVE BrowserInv'
  <2>1. /\ stage = "Web" /\ stage' = "Count" /\ webActive' \in {winner, webActive}
        /\ UNCHANGED <<legVars, wsVars, registryVars, fork, winner>>
    BY <1>9 DEF EnterWebActive, To, forkVars, collectVars
  <2>2. BrowserTypes' /\ RingingLegs' /\ GoneAreQuiet' /\ AnsweredShown' /\ WinnerShown'
    BY <2>1 DEF BrowserInv, BrowserTypes, RingingLegs, GoneAreQuiet, AnsweredShown, WinnerShown, legVars, wsVars, registryVars
  <2>3. WinnerUndisturbed'
    BY <2>1, <1>0 DEF BrowserInv, WinnerUndisturbed, WinnerShown, legVars, wsVars
  <2> QED
    BY <2>2, <2>3 DEF BrowserInv
<1>10. ASSUME StartFork PROVE BrowserInv'
  <2>1. /\ fork = "Idle" /\ fork' = "Collect" /\ UNCHANGED <<waiter, browser, wsVars, registryVars, winner, stage, webActive>>
        /\ \A w \in WebLeg : leg[w] = "Idle"
    BY <1>10 DEF StartFork, StartLegs, handlerVars, tableVars, CollectInv, ForkFresh, Leg
  <2> QED
    BY <2>1 DEF BrowserInv, BrowserTypes, RingingLegs, GoneAreQuiet, AnsweredShown, WinnerShown, WinnerUndisturbed,
       wsVars, registryVars
<1>11. ASSUME RefuseRequest \/ NoBinding \/ Ring \/ EnterInFlight \/ ForkResult \/ BeginWait \/ PrackArrived
              \/ PrackTimeout \/ StartBridge \/ Answer \/ CancelBranch PROVE BrowserInv'
  <2>1. UNCHANGED <<legVars, wsVars, registryVars, winner, webActive>> /\ fork' \in {fork, "Dropped"}
    BY <1>11 DEF RefuseRequest, NoBinding, Ring, EnterInFlight, ForkResult, BeginWait, PrackArrived,
     PrackTimeout, StartBridge, Answer, CancelBranch, DropFork, forkVars, collectVars, tableVars
  <2>2. stage \in {"Idle", "Trying", "Rang"} => winner = None
    BY DEF StageInv, CollectInv, ForkFresh, PickedUp
  <2>3. stage' \in Showing => stage \in Showing \/ winner = None
    BY <1>11, <2>2 DEF RefuseRequest, NoBinding, Ring, EnterInFlight, ForkResult, BeginWait, PrackArrived,
     PrackTimeout, StartBridge, Answer, CancelBranch, Refuse, To, Showing
  <2> QED
    BY <2>1, <2>3, SameShown
<1>12. ASSUME EnterActive \/ CountCall \/ StartVoicemail \/ EnterVoicemail \/ RefuseCall
              \/ ForgetTx \/ Finish \/ Accept \/ Timers \/ Sweep \/ HandleCancel \/ HandleAck
       PROVE  BrowserInv'
  <2>1. UNCHANGED <<legVars, wsVars, registryVars, winner, fork>> /\ webActive' \in {webActive, None}
    BY <1>12 DEF EnterActive, CountCall, StartVoicemail, EnterVoicemail, RefuseCall,
     ForgetTx, Finish, Accept, Timers, Sweep, HandleCancel, HandleAck, forkVars, collectVars, tableVars
  <2>2. stage' \in Showing => stage \in Showing
    BY <1>12 DEF EnterActive, CountCall, StartVoicemail, EnterVoicemail, RefuseCall, Refuse, To, handlerVars,
     ForgetTx, Finish, Accept, Timers, Sweep, HandleCancel, HandleAck, Showing
  <2> QED
    BY <2>1, <2>2, SameShown
<1>13. CASE UNCHANGED vars
  BY <1>13, SameShown DEF vars, forkVars, collectVars, tableVars, handlerVars
<1> QED
  BY <1>1, <1>2, <1>3, <1>4, <1>5, <1>6, <1>7, <1>8, <1>9, <1>10, <1>11, <1>12, <1>13, LegBrowser, ForkBrowser
     DEF Next, Invite, ByeRuns, CloseRuns

-----------------------------------------------------------------------------
(* The stages, the tables, and the server transaction                      *)

\* A leg's task leaves the fork's decision alone.
LEMMA LegKeepsFork ==
    ASSUME WaiterInv, NEW l \in Leg, LegStep(l)
    PROVE  UNCHANGED <<received, lastStatus, fork, result, winner>>
<1> USE DEF Report, collectVars
<1>1. CASE l \in WebLeg /\ AwaitAnswer(l)
  <2>1. waiter[l] \in {"Open", "Sdp", "Decline", "Cancelled"}
    BY <1>1 DEF AwaitAnswer, WaiterInv, WaiterStates
  <2> QED
    BY <1>1, <2>1 DEF AwaitAnswer
<1>2. CASE SipAnswers(l)
  BY <1>2 DEF SipAnswers
<1>3. CASE CreateOffer(l) \/ RegisterWaiter(l) \/ TryRegister(l) \/ StandDown(l) \/ PushOffer(l) \/ AcceptAnswer(l)
  BY <1>3 DEF CreateOffer, RegisterWaiter, TryRegister, StandDown, PushOffer, AcceptAnswer
<1> QED
  BY <1>1, <1>2, <1>3 DEF LegStep

\* Every step keeps handle_invite's stage and the fork's state in agreement.
LEMMA StageStep ==
    ASSUME HandlerInv, CollectInv, WaiterInv, StageInv, [Next]_vars
    PROVE  StageInv'
<1>0. ASSUME UNCHANGED <<stage, fork, result>>, voicemail' = voicemail \/ voicemail' = FALSE PROVE StageInv'
  BY <1>0 DEF StageInv
<1>1. stage \in Stages /\ result \in ForkResults /\ (fork = "Idle" => result = "None")
  BY DEF HandlerInv, HandlerTypeOK, CollectInv, CollectTypes, ForkFresh
<1>2. ASSUME RefuseRequest \/ NoBinding \/ Ring \/ EnterInFlight \/ ForkResult \/ BeginWait \/ PrackArrived
             \/ PrackTimeout \/ StartBridge \/ BridgeFails \/ Answer PROVE StageInv'
  <2>1. UNCHANGED <<voicemail, result, fork>>
    BY <1>2 DEF RefuseRequest, NoBinding, Ring, EnterInFlight, ForkResult, BeginWait, PrackArrived,
     PrackTimeout, StartBridge, BridgeFails, Answer, forkVars, collectVars, tableVars
  <2>2. CASE RefuseRequest \/ NoBinding \/ Ring \/ EnterInFlight \/ ForkResult
    BY <1>1, <2>1, <2>2 DEF RefuseRequest, NoBinding, Ring, EnterInFlight, ForkResult, Refuse, To, StageInv
  <2>3. CASE BeginWait \/ PrackArrived \/ PrackTimeout \/ StartBridge \/ BridgeFails \/ Answer
    BY <1>1, <2>1, <2>3 DEF BeginWait, PrackArrived, PrackTimeout, StartBridge, BridgeFails, Answer, Refuse, To,
       StageInv
  <2> QED
    BY <1>2, <2>2, <2>3
<1>3. ASSUME EnterActive \/ EnterWebActive \/ CountCall \/ StartVoicemail \/ RefuseCall
             \/ ForgetTx \/ Finish \/ Accept \/ Timers \/ Sweep \/ HandleCancel \/ HandleAck
      PROVE  StageInv'
  <2>1. UNCHANGED <<voicemail, result, fork>>
    BY <1>3 DEF EnterActive, EnterWebActive, CountCall, StartVoicemail, RefuseCall,
     ForgetTx, Finish, Accept, Timers, Sweep, HandleCancel, HandleAck, forkVars, collectVars, tableVars
  <2> QED
    BY <1>1, <1>3, <2>1 DEF EnterActive, EnterWebActive, CountCall, StartVoicemail, RefuseCall,
     ForgetTx, Finish, Accept, Timers, Sweep, HandleCancel, HandleAck, Refuse, To, handlerVars, StageInv
<1>4. ASSUME EnterVoicemail PROVE StageInv'
  BY <1>4 DEF EnterVoicemail, To, StageInv, forkVars, collectVars
<1>5. ASSUME StartFork PROVE StageInv'
  BY <1>5 DEF StartFork, StartLegs, handlerVars, tableVars, StageInv
<1>6. ASSUME ForkRuns PROVE StageInv'
  <2>1. stage = "InFlight" /\ UNCHANGED <<stage, voicemail>>
    BY <1>6 DEF ForkRuns, Outside, handlerVars, tableVars
  <2>2. ~voicemail
    BY <2>1 DEF StageInv
  <2> QED
    BY <2>1, <2>2 DEF StageInv
<1>7. ASSUME CancelBranch PROVE StageInv'
  BY <1>7 DEF CancelBranch, DropFork, Refuse, To, StageInv, tableVars
<1>8. ASSUME NEW l \in Leg, LegRuns(l) PROVE StageInv'
  BY <1>0, <1>8, LegKeepsFork DEF LegRuns, Outside, handlerVars, tableVars
<1>9. ASSUME NEW w \in WebLeg, UserReplies(w) \/ SinkCloses(w) PROVE StageInv'
  BY <1>0, <1>9 DEF UserReplies, Deliver, SinkCloses, ForwarderEnds, Outside, handlerVars, tableVars, collectVars
<1>10. ASSUME NEW p \in Prack, HandlePrack(p) \/ PrackRuns(p) PROVE StageInv'
  BY <1>0, <1>10, PrackFrame DEF forkVars, collectVars, handlerVars, tableVars
<1>11. ASSUME NEW b \in Bye, ReceiveBye(b) \/ ByeRuns(b) PROVE StageInv'
  <2>1. voicemail' = voicemail \/ voicemail' = FALSE
    BY <1>11 DEF ReceiveBye, ByeRuns, ByeActive, ByeVoicemail, ByeBridge, ByeWeb, tableVars
  <2> QED
    BY <1>0, <1>11, <2>1, ByeFrame DEF collectVars, handlerVars
<1>12. ASSUME NEW w \in WebLeg, SessionEnds(w) \/ CloseRuns(w) PROVE StageInv'
  BY <1>0, <1>12, SessionFrame DEF collectVars, handlerVars
<1>13. CASE UNCHANGED vars
  BY <1>0, <1>13 DEF vars, forkVars, collectVars, handlerVars, tableVars
<1> QED
  BY <1>2, <1>3, <1>4, <1>5, <1>6, <1>7, <1>8, <1>9, <1>10, <1>11, <1>12, <1>13 DEF Next, Invite

\* The parts of TableTypeOK that follow from the way the tables are written.
LEMMA TableStep ==
    ASSUME TableTypeOK, CollectInv, WaiterInv, [Next]_vars
    PROVE  TableTypeOK'
<1>0. ASSUME UNCHANGED <<pending, tableVars, removed, session, log>> PROVE TableTypeOK'
  BY <1>0 DEF TableTypeOK, tableVars
<1>1. ASSUME UNCHANGED <<tableVars, removed, session>>, pending' \in BOOLEAN,
             log' \in {"None", "Open", "Missed", "Failed", "Answered"} PROVE TableTypeOK'
  BY <1>1 DEF TableTypeOK, tableVars
<1>2. log \in {"None", "Open", "Missed", "Failed", "Answered"} /\ pending \in BOOLEAN
  BY DEF TableTypeOK
<1>3. ASSUME Accept \/ ForgetTx \/ HandleAck PROVE TableTypeOK'
  <2>1. pending' \in BOOLEAN
    BY <1>3 DEF Accept, ForgetTx, HandleAck, Unpend
  <2> QED
    BY <1>1, <1>2, <1>3, <2>1 DEF Accept, ForgetTx, HandleAck, endVars, countVars
<1>4. ASSUME RefuseRequest \/ NoBinding \/ CancelBranch \/ PrackTimeout \/ BridgeFails \/ RefuseCall PROVE TableTypeOK'
  <2>1. log' \in {log, "Failed", "Missed"} /\ pending' = pending
    BY <1>4 DEF RefuseRequest, NoBinding, CancelBranch, PrackTimeout, BridgeFails, RefuseCall, Refuse
  <2>2. log' \in {"None", "Open", "Missed", "Failed", "Answered"}
    BY <1>2, <2>1
  <2> QED
    BY <1>1, <1>2, <1>4, <2>1, <2>2 DEF RefuseRequest, NoBinding, CancelBranch, PrackTimeout, BridgeFails, RefuseCall, endVars
<1>5. ASSUME Ring \/ EnterInFlight \/ StartFork \/ ForkResult \/ BeginWait \/ PrackArrived \/ Answer
             \/ StartVoicemail \/ CountCall \/ Finish \/ Timers \/ HandleCancel
      PROVE  TableTypeOK'
  BY <1>0, <1>5 DEF Ring, EnterInFlight, StartFork, ForkResult, BeginWait, PrackArrived, Answer, StartVoicemail,
     CountCall, Finish, Timers, HandleCancel, endVars, countVars
<1>6. ASSUME StartBridge \/ EnterActive PROVE TableTypeOK'
  <2>1. active' \in BOOLEAN /\ bridge' \in {"None", "Up", "Down"}
    BY <1>6 DEF StartBridge, EnterActive, TableTypeOK
  <2> QED
    BY <1>6, <2>1 DEF StartBridge, EnterActive, TableTypeOK, endVars, countVars
<1>7. ASSUME EnterWebActive PROVE TableTypeOK'
  <2>1. dialog' \in BOOLEAN /\ webActive' \in WebLeg \cup {None}
    BY <1>7 DEF EnterWebActive, TableTypeOK
  <2> QED
    BY <1>7, <2>1 DEF EnterWebActive, TableTypeOK, endVars, countVars
<1>8. ASSUME EnterVoicemail PROVE TableTypeOK'
  <2>1. voicemail' \in BOOLEAN
    BY <1>8 DEF EnterVoicemail
  <2> QED
    BY <1>8, <2>1 DEF EnterVoicemail, TableTypeOK, endVars, countVars
<1>9. ASSUME Sweep PROVE TableTypeOK'
  BY <1>9 DEF Sweep, TableTypeOK, endVars, countVars
<1>10. ASSUME ForkSide PROVE TableTypeOK'
  BY <1>0, <1>10, ForkFrame DEF Outside, endVars, countVars
<1>11. ASSUME NEW p \in Prack, HandlePrack(p) \/ PrackRuns(p) PROVE TableTypeOK'
  BY <1>0, <1>11, PrackFrame DEF endVars, countVars
<1>12. ASSUME NEW b \in Bye, ReceiveBye(b) PROVE TableTypeOK'
  BY <1>0, <1>12 DEF ReceiveBye, countVars
<1>13. ASSUME NEW b \in Bye, ByeActive(b) PROVE TableTypeOK'
  <2>1. active' \in BOOLEAN /\ pending' \in BOOLEAN /\ removed' \subseteq Bye
    BY <1>13 DEF ByeActive, Unpend, TableTypeOK
  <2>2. log' \in {"None", "Open", "Missed", "Failed", "Answered"}
    BY <1>2, <1>13 DEF ByeActive, countVars
  <2> QED
    BY <1>13, <2>1, <2>2 DEF ByeActive, TableTypeOK
<1>14. ASSUME NEW b \in Bye, ByeVoicemail(b) PROVE TableTypeOK'
  <2>1. voicemail' \in BOOLEAN
    BY <1>14 DEF ByeVoicemail
  <2>2. log' \in {"None", "Open", "Missed", "Failed", "Answered"}
    BY <1>2, <1>14 DEF ByeVoicemail, countVars
  <2> QED
    BY <1>14, <2>1, <2>2 DEF ByeVoicemail, TableTypeOK
<1>15. ASSUME NEW b \in Bye, ByeBridge(b) \/ ByeWeb(b) PROVE TableTypeOK'
  BY <1>15 DEF ByeBridge, ByeWeb, TableTypeOK, countVars
<1>16. ASSUME NEW w \in WebLeg, NEW s \in SessionStages, SessionTo(w, s),
              UNCHANGED <<pending, active, dialog, voicemail, removed>>, webActive' \in {webActive, None},
              bridge' = bridge, log' \in {log, "Answered"}
       PROVE  TableTypeOK'
  BY <1>16 DEF TableTypeOK, SessionTo
<1>17. ASSUME NEW w \in WebLeg, SessionEnds(w) \/ CloseInbound(w) \/ SendBye(w) PROVE TableTypeOK'
  BY <1>16, <1>17 DEF SessionEnds, CloseInbound, SendBye, tableVars, countVars, SessionStages
<1>18. ASSUME NEW w \in WebLeg, CloseDec(w) \/ CancelAll(w) PROVE TableTypeOK'
  BY <1>16, <1>18 DEF CloseDec, CancelAll, tableVars, countVars, SessionStages
<1>19. ASSUME NEW w \in WebLeg, CloseActive(w) PROVE TableTypeOK'
  <2>1. active' \in BOOLEAN /\ pending' \in BOOLEAN
    BY <1>19 DEF CloseActive, Unpend
  <2>2. session' \in [WebLeg -> SessionStages]
    BY <1>19 DEF CloseActive, SessionTo, SessionStages, TableTypeOK
  <2> QED
    BY <1>19, <2>1, <2>2 DEF CloseActive, TableTypeOK, countVars
<1>20. CASE UNCHANGED vars
  BY <1>0, <1>20 DEF vars, endVars, countVars
<1> QED
  BY <1>3, <1>4, <1>5, <1>6, <1>7, <1>8, <1>9, <1>10, <1>11, <1>12, <1>13, <1>14, <1>15, <1>17, <1>18, <1>19, <1>20
     DEF Next, Invite, ForkSide, ByeRuns, CloseRuns

\* Every step keeps the type of the server transaction.
LEMMA TxStep ==
    ASSUME TxTypeOK, [Next]_vars
    PROVE  TxTypeOK'
<1>1. TxNew \/ TimerH \/ TxDrop \/ UNCHANGED txVars => TxTypeOK'
  BY DEF TxTypeOK, TxNew, TimerH, TxDrop, txVars
<1>2. ASSUME NEW c, TxRespond(c) PROVE TxTypeOK'
  BY <1>2 DEF TxTypeOK, TxRespond
<1>3. ASSUME RefuseRequest \/ NoBinding \/ CancelBranch \/ PrackTimeout \/ BridgeFails \/ RefuseCall
             \/ Ring \/ Answer \/ StartVoicemail PROVE TxTypeOK'
  BY <1>2, <1>3 DEF RefuseRequest, NoBinding, CancelBranch, PrackTimeout, BridgeFails, RefuseCall, Refuse, Ring,
     Answer, StartVoicemail
<1>4. ASSUME Accept \/ Finish \/ Timers \/ HandleAck PROVE TxTypeOK'
  BY <1>1, <1>4 DEF Accept, Finish, Timers, HandleAck, Unpend
<1>5. ASSUME EnterInFlight \/ StartFork \/ ForkResult \/ BeginWait \/ PrackArrived \/ StartBridge \/ EnterActive
             \/ EnterWebActive \/ CountCall \/ EnterVoicemail \/ ForgetTx \/ Sweep \/ HandleCancel
      PROVE  TxTypeOK'
  BY <1>1, <1>5 DEF EnterInFlight, StartFork, ForkResult, BeginWait, PrackArrived, StartBridge, EnterActive,
     EnterWebActive, CountCall, EnterVoicemail, ForgetTx, Sweep, HandleCancel
<1>6. ASSUME ForkSide PROVE TxTypeOK'
  BY <1>1, <1>6, ForkFrame DEF Outside
<1>7. ASSUME NEW p \in Prack, HandlePrack(p) \/ PrackRuns(p) PROVE TxTypeOK'
  BY <1>1, <1>7, PrackFrame
<1>8. ASSUME NEW b \in Bye, ReceiveBye(b) \/ ByeRuns(b) PROVE TxTypeOK'
  BY <1>1, <1>8 DEF ReceiveBye, ByeRuns, ByeActive, ByeVoicemail, ByeBridge, ByeWeb, Unpend
<1>9. ASSUME NEW w \in WebLeg, SessionEnds(w) \/ CloseRuns(w) PROVE TxTypeOK'
  BY <1>1, <1>9 DEF SessionEnds, CloseRuns, CloseInbound, SendBye, CloseActive, CloseDec, CancelAll, Unpend
<1>10. CASE UNCHANGED vars
  BY <1>1, <1>10 DEF vars
<1> QED
  BY <1>3, <1>4, <1>5, <1>6, <1>7, <1>8, <1>9, <1>10 DEF Next, Invite, ForkSide

-----------------------------------------------------------------------------
(* The call in the handler's tables                                        *)

\* The tasks of the NGN's dialog; the others only move the handler on.
LEMMA WinnerFixed ==
    ASSUME WaiterInv, [Next]_vars
    PROVE  UNCHANGED winner \/ (ForkRuns /\ stage = "InFlight")
<1> USE DEF forkVars, collectVars
<1>1. ASSUME RefuseRequest \/ NoBinding \/ Ring \/ EnterInFlight \/ ForkResult \/ BeginWait \/ PrackArrived
             \/ PrackTimeout \/ StartBridge \/ BridgeFails \/ Answer \/ StartFork PROVE UNCHANGED winner
  BY <1>1 DEF RefuseRequest, NoBinding, Ring, EnterInFlight, ForkResult, BeginWait, PrackArrived,
     PrackTimeout, StartBridge, BridgeFails, Answer, StartFork, StartLegs
<1>2. ASSUME EnterActive \/ EnterWebActive \/ CountCall \/ StartVoicemail \/ EnterVoicemail \/ RefuseCall
              \/ ForgetTx \/ Finish \/ Accept \/ Timers \/ Sweep \/ HandleCancel \/ HandleAck \/ CancelBranch
       PROVE  UNCHANGED winner
  BY <1>2 DEF EnterActive, EnterWebActive, CountCall, StartVoicemail, EnterVoicemail, RefuseCall,
     ForgetTx, Finish, Accept, Timers, Sweep, HandleCancel, HandleAck, CancelBranch, DropFork
<1>3. ASSUME NEW l \in Leg, LegRuns(l) PROVE UNCHANGED winner
  BY <1>3, LegKeepsFork DEF LegRuns
<1>4. ASSUME NEW w \in WebLeg, UserReplies(w) \/ SinkCloses(w) PROVE UNCHANGED winner
  BY <1>4 DEF UserReplies, Deliver, SinkCloses, ForwarderEnds
<1>5. ASSUME NEW p \in Prack, HandlePrack(p) \/ PrackRuns(p) PROVE UNCHANGED winner
  BY <1>5, PrackFrame
<1>6. ASSUME NEW b \in Bye, ReceiveBye(b) \/ ByeRuns(b) PROVE UNCHANGED winner
  BY <1>6, ByeFrame
<1>7. ASSUME NEW w \in WebLeg, SessionEnds(w) \/ CloseRuns(w) PROVE UNCHANGED winner
  BY <1>7, SessionFrame
<1>8. CASE UNCHANGED vars
  BY <1>8 DEF vars
<1> QED
  BY <1>1, <1>2, <1>3, <1>4, <1>5, <1>6, <1>7, <1>8 DEF Next, Invite, ForkRuns

WebStages == {"Count", "Cleanup", "Done"}
GivingUp == {"SendBye", "Active", "Dec"}

\* Every step keeps the entry of a browser's call and the tasks that close it in agreement.
LEMMA WebCallStep ==
    ASSUME HandlerInv, TableTypeOK, WaiterInv, WebCall, [Next]_vars
    PROVE  WebCall'
<1> USE DEF WebStages, GivingUp
\* Whatever keeps the sessions and does not enter a browser keeps the call where it was.
<1>0. ASSUME UNCHANGED <<winner, session>>, webActive' \in {webActive, None},
             stage \in WebStages => stage' \in WebStages /\ finals' = finals
      PROVE  WebCall'
  BY <1>0 DEF WebCall
<1>1. ASSUME RefuseRequest \/ NoBinding \/ Ring \/ EnterInFlight \/ ForkResult \/ BeginWait \/ PrackArrived
             \/ PrackTimeout \/ StartBridge \/ BridgeFails \/ Answer \/ CancelBranch PROVE WebCall'
  <2>1. UNCHANGED <<session, webActive>> /\ stage \notin WebStages
    BY <1>1 DEF RefuseRequest, NoBinding, Ring, EnterInFlight, ForkResult, BeginWait, PrackArrived,
     PrackTimeout, StartBridge, BridgeFails, Answer, CancelBranch, tableVars, endVars
  <2>2. UNCHANGED winner
    BY <1>1 DEF RefuseRequest, NoBinding, Ring, EnterInFlight, ForkResult, BeginWait, PrackArrived,
     PrackTimeout, StartBridge, BridgeFails, Answer, CancelBranch, DropFork, forkVars, collectVars
  <2> QED
    BY <1>0, <2>1, <2>2
<1>2. ASSUME EnterActive \/ CountCall \/ StartVoicemail \/ EnterVoicemail \/ RefuseCall
              \/ ForgetTx \/ Finish \/ Accept \/ Timers \/ Sweep \/ HandleCancel \/ HandleAck
       PROVE  WebCall'
  <2>1. UNCHANGED <<session, winner>> /\ webActive' \in {webActive, None}
    BY <1>2 DEF EnterActive, CountCall, StartVoicemail, EnterVoicemail, RefuseCall,
     ForgetTx, Finish, Accept, Timers, Sweep, HandleCancel, HandleAck, tableVars, endVars, forkVars, collectVars
  <2>2. stage \in WebStages => stage' \in WebStages /\ finals' = finals
    BY <1>2 DEF EnterActive, CountCall, StartVoicemail, EnterVoicemail, RefuseCall,
     ForgetTx, Finish, Accept, Timers, Sweep, HandleCancel, HandleAck, To, handlerVars
  <2> QED
    BY <1>0, <2>1, <2>2
<1>3. ASSUME StartFork PROVE WebCall'
  BY <1>0, <1>3 DEF StartFork, StartLegs, handlerVars, tableVars, endVars
<1>4. ASSUME ForkSide PROVE WebCall'
  <2>1. UNCHANGED <<session, webActive, stage, finals>>
    BY <1>4, ForkFrame DEF Outside, handlerVars, tableVars, endVars
  <2> QED
    BY <1>0, <2>1, WinnerFixed DEF WebCall
<1>5. ASSUME EnterWebActive PROVE WebCall'
  <2>1. /\ stage = "Web" /\ stage' = "Count" /\ webActive' \in {webActive, winner}
        /\ UNCHANGED <<finals, session, winner>>
    BY <1>5 DEF EnterWebActive, To, endVars, forkVars, collectVars
  <2>2. finals = <<200>>
    BY <2>1 DEF HandlerInv, OneFinal, FinalFits, Talking
  <2> QED
    BY <2>1, <2>2 DEF WebCall
<1>6. ASSUME NEW p \in Prack, HandlePrack(p) \/ PrackRuns(p) PROVE WebCall'
  BY <1>0, <1>6, PrackFrame DEF forkVars, collectVars, handlerVars, tableVars, endVars
<1>7. ASSUME NEW b \in Bye, ReceiveBye(b) \/ ByeRuns(b) PROVE WebCall'
  <2>1. webActive' \in {webActive, None}
    BY <1>7 DEF ReceiveBye, ByeRuns, ByeActive, ByeVoicemail, ByeBridge, ByeWeb, tableVars
  <2> QED
    BY <1>0, <1>7, <2>1, ByeFrame DEF collectVars, handlerVars
<1>8. ASSUME NEW w \in WebLeg, SessionEnds(w) \/ CloseRuns(w) PROVE WebCall'
  <2>1. UNCHANGED <<winner, stage, finals>>
    BY <1>8, SessionFrame DEF collectVars, handlerVars
  <2>2. PICK s \in SessionStages : session' = [session EXCEPT ![w] = s]
    BY <1>8 DEF SessionEnds, CloseRuns, CloseInbound, SendBye, CloseActive, CloseDec, CancelAll, SessionTo, SessionStages
  <2>3. \/ webActive = w /\ webActive' = None
        \/ webActive' = webActive /\ (s \in GivingUp => session[w] \in GivingUp)
    <3> \A k \in WebLeg : session'[k] = IF k = w THEN s ELSE session[k]
      BY <2>2 DEF TableTypeOK
    <3> QED
      BY <1>8, <2>2 DEF SessionEnds, CloseRuns, CloseInbound, SendBye, CloseActive, CloseDec, CancelAll, SessionTo, tableVars
  <2>4. \A k \in WebLeg : session'[k] = IF k = w THEN s ELSE session[k]
    BY <2>2 DEF TableTypeOK
  <2>5. CASE webActive = w /\ webActive' = None
    BY <2>1, <2>4, <2>5, ForkAssumption DEF WebCall, Leg
  <2>6. CASE webActive' = webActive /\ (s \in GivingUp => session[w] \in GivingUp)
    BY <2>1, <2>4, <2>6 DEF WebCall
  <2> QED
    BY <2>3, <2>5, <2>6
<1>9. CASE UNCHANGED vars
  BY <1>0, <1>9 DEF vars, forkVars, collectVars, handlerVars, tableVars, endVars
<1> QED
  BY <1>1, <1>2, <1>3, <1>4, <1>5, <1>6, <1>7, <1>8, <1>9 DEF Next, Invite, ForkSide

\* Every step keeps an established call in a table that ends it.
LEMMA DialogStep ==
    ASSUME HandlerInv, TableTypeOK, WaiterInv, WebCall, DialogInv, [Next]_vars
    PROVE  DialogInv'
<1> USE DEF DialogInv
<1>1. winner' = winner \/ ngn = "None"
  <2>1. stage = "InFlight" => ngn = "None"
    BY FirstFinal DEF HandlerInv, OneFinal, FinalFits, BeforeFinal, NgnFollows
  <2> QED
    BY <2>1, WinnerFixed
\* The handler or a leg moves on and the tables stay.
<1>2. ASSUME UNCHANGED <<ngn, active, voicemail, dialog, session>>,
             stage' = stage \/ (stage' # "Web" /\ stage \notin {"Answered", "VmAnswered"})
      PROVE  DialogInv'
  BY <1>1, <1>2 DEF ByeWasSent, WebIsActive, NoForgottenCall
<1>3. ASSUME RefuseRequest \/ NoBinding \/ Ring \/ EnterInFlight \/ ForkResult \/ BeginWait \/ PrackArrived
             \/ PrackTimeout \/ BridgeFails \/ CancelBranch \/ StartFork PROVE DialogInv'
  <2>1. UNCHANGED <<ngn, active, voicemail, dialog, session>>
    BY <1>3 DEF RefuseRequest, NoBinding, Ring, EnterInFlight, ForkResult, BeginWait, PrackArrived,
     PrackTimeout, BridgeFails, CancelBranch, StartFork, tableVars, endVars
  <2>2. stage' = stage \/ (stage' # "Web" /\ stage \notin {"Answered", "VmAnswered"})
    BY <1>3 DEF RefuseRequest, NoBinding, Ring, EnterInFlight, ForkResult, BeginWait, PrackArrived,
     PrackTimeout, BridgeFails, CancelBranch, StartFork, Refuse, To, handlerVars
  <2> QED
    BY <1>2, <2>1, <2>2
<1>4. ASSUME CountCall \/ RefuseCall \/ ForgetTx \/ Finish \/ Accept \/ Timers \/ Sweep \/ HandleCancel \/ HandleAck
      PROVE  DialogInv'
  <2>1. UNCHANGED <<ngn, active, voicemail, dialog, session>>
    BY <1>4 DEF CountCall, RefuseCall, ForgetTx, Finish, Accept, Timers, Sweep, HandleCancel, HandleAck, tableVars, endVars
  <2>2. stage' = stage \/ (stage' # "Web" /\ stage \notin {"Answered", "VmAnswered"})
    BY <1>4 DEF CountCall, RefuseCall, ForgetTx, Finish, Accept, Timers, Sweep, HandleCancel, HandleAck, Refuse, To, handlerVars
  <2> QED
    BY <1>2, <2>1, <2>2
<1>5. ASSUME StartBridge \/ Answer \/ EnterActive PROVE DialogInv'
  <2>1. UNCHANGED <<dialog, session, voicemail>>
    BY <1>5 DEF StartBridge, Answer, EnterActive, tableVars, endVars
  <2>2. stage \notin WebStages
    BY <1>5 DEF StartBridge, Answer, EnterActive, WebStages
  <2>3. ByeWasSent'
    BY <2>1, <2>2 DEF WebCall, ByeWasSent, WebStages
  <2>4. WebIsActive' /\ NoForgottenCall'
    BY <1>1, <1>5, <2>1 DEF StartBridge, Answer, EnterActive, To, tableVars, WebIsActive, NoForgottenCall
  <2> QED
    BY <2>3, <2>4
<1>6. ASSUME EnterWebActive PROVE DialogInv'
  BY <1>6 DEF EnterWebActive, To, endVars, WebCall, ByeWasSent, WebIsActive, NoForgottenCall
<1>7. ASSUME StartVoicemail \/ EnterVoicemail PROVE DialogInv'
  BY <1>7 DEF StartVoicemail, EnterVoicemail, To, tableVars, endVars, WebCall, ByeWasSent, WebIsActive, NoForgottenCall
<1>8. ASSUME ForkSide PROVE DialogInv'
  BY <1>2, <1>8, ForkFrame DEF Outside, handlerVars, tableVars, endVars
<1>9. ASSUME NEW p \in Prack, HandlePrack(p) \/ PrackRuns(p) PROVE DialogInv'
  BY <1>2, <1>9, PrackFrame DEF handlerVars, tableVars, endVars
<1>10. ASSUME NEW b \in Bye, ReceiveBye(b) \/ ByeRuns(b) PROVE DialogInv'
  <2>1. ngn' = "Down"
    BY <1>10 DEF ReceiveBye, ByeRuns, ByeActive, ByeVoicemail, ByeBridge, ByeWeb, HandlerInv, NgnFollows
  <2> QED
    BY <2>1 DEF ByeWasSent, WebIsActive, NoForgottenCall
<1>11. ASSUME NEW w \in WebLeg, SessionEnds(w) \/ CloseRuns(w) PROVE DialogInv'
  <2>1. /\ UNCHANGED <<winner, stage, dialog, voicemail>>
    BY <1>11, SessionFrame DEF collectVars, handlerVars
  <2>2. PICK s \in SessionStages : session' = [session EXCEPT ![w] = s]
    BY <1>11 DEF SessionEnds, CloseRuns, CloseInbound, SendBye, CloseActive, CloseDec, CancelAll, SessionTo, SessionStages
  <2>3. \A k \in WebLeg : session'[k] = IF k = w THEN s ELSE session[k]
    BY <2>2 DEF TableTypeOK
  <2>4. s = session'[w]
    BY <2>3
  <2>5. (s = "Close" => session[w] = "Open") /\ s # "Open" /\ (ngn' = ngn \/ ngn' = "Down")
    BY <1>11, <2>2, <2>4 DEF SessionEnds, CloseRuns, CloseInbound, SendBye, CloseActive, CloseDec, CancelAll, SessionTo,
       TableTypeOK
  <2>6. active' = active \/ (session[w] = "Active" /\ s = "Dec")
    BY <1>11, <2>2, <2>4 DEF SessionEnds, CloseRuns, CloseInbound, SendBye, CloseActive, CloseDec, CancelAll, SessionTo,
       TableTypeOK, tableVars
  <2>7. s \in {"Active", "Dec"} /\ dialog => ngn' = "Down"
    BY <1>11, <2>2, <2>4 DEF SessionEnds, CloseRuns, CloseInbound, SendBye, CloseActive, CloseDec, CancelAll, SessionTo,
       TableTypeOK, ByeWasSent
  <2>8. /\ s = "Close" => session[w] = "Open"
        /\ s # "Open" /\ (ngn' = ngn \/ ngn' = "Down")
        /\ s \in {"Active", "Dec"} /\ dialog => ngn' = "Down"
        /\ active' = active \/ (session[w] = "Active" /\ s = "Dec")
    BY <2>5, <2>6, <2>7
  <2>9. ByeWasSent'
    BY <2>1, <2>3, <2>8 DEF ByeWasSent
  <2>10. WebIsActive'
    BY <2>1, <2>8 DEF WebIsActive, WebCall
  <2>11. active' # active => ngn' # "Up" \/ (~dialog /\ winner = w /\ session'[w] = "Dec")
    BY <2>3, <2>8 DEF WebCall, ByeWasSent
  <2>12. NoForgottenCall'
    BY <2>1, <2>3, <2>8, <2>11 DEF NoForgottenCall
  <2> QED
    BY <2>9, <2>10, <2>12
<1>12. CASE UNCHANGED vars
  BY <1>2, <1>12 DEF vars, handlerVars, tableVars, endVars
<1> QED
  BY <1>3, <1>4, <1>5, <1>6, <1>7, <1>8, <1>9, <1>10, <1>11, <1>12 DEF Next, Invite, ForkSide

-----------------------------------------------------------------------------
(* The refusal that is passed on                                           *)

\* Every step keeps the refusal sent to the NGN the best of the legs' answers.
LEMMA BestStep ==
    ASSUME HandlerInv, CollectInv, WaiterInv, StageInv, RefusalIsBest, [Next]_vars
    PROVE  RefusalIsBest'
<1>0. ASSUME UNCHANGED <<stage, finals, result, received>> PROVE RefusalIsBest'
  BY <1>0 DEF RefusalIsBest
<1>1. stage' # "Refused" => RefusalIsBest'
  BY DEF RefusalIsBest
<1>2. stage \in BeforeFinal => finals = <<>>
  BY DEF HandlerInv, OneFinal, FinalFits
<1>3. ASSUME NEW c, stage \in BeforeFinal, finals' = Append(finals, c),
             result' # "AllFailed" \/ c \in {408, 487, 502} PROVE RefusalIsBest'
  BY <1>2, <1>3, FirstFinal DEF RefusalIsBest
<1>4. ASSUME RefuseRequest \/ NoBinding PROVE RefusalIsBest'
  <2>1. stage \in BeforeFinal /\ result' = result /\ (\E c : finals' = Append(finals, c)) /\ stage = "Trying"
    BY <1>4 DEF RefuseRequest, NoBinding, Refuse, BeforeFinal, forkVars, collectVars
  <2>2. result # "AllFailed"
    BY <2>1 DEF StageInv, CollectInv, ForkFresh
  <2> QED
    BY <1>3, <2>1, <2>2
<1>5. ASSUME CancelBranch \/ PrackTimeout \/ BridgeFails PROVE RefusalIsBest'
  <2>1. stage \in BeforeFinal /\ \E c \in {408, 487, 502} : finals' = Append(finals, c)
    BY <1>5 DEF CancelBranch, PrackTimeout, BridgeFails, Refuse, BeforeFinal
  <2> QED
    BY <1>3, <2>1
<1>6. ASSUME RefuseCall PROVE RefusalIsBest'
  <2> DEFINE c == IF result = "Timeout" THEN 408 ELSE IF lastStatus = None THEN 486 ELSE lastStatus
             R(x) == final_response_class_rank(x)
  <2>1. /\ stage \in BeforeFinal /\ finals' = Append(finals, c)
        /\ UNCHANGED <<result, received, lastStatus>>
    BY <1>6 DEF RefuseCall, Refuse, BeforeFinal, forkVars, collectVars
  <2>2. Head(finals') = c
    BY <1>2, <2>1, FirstFinal
  <2>3. R(200) = 0 /\ \A x : R(x) \in 0..4
    BY RankType DEF final_response_class_rank
  <2> HIDE DEF R
  <2>4. \A q \in received : q.status \in Reported /\
           (q.status \notin {200, Errored} => lastStatus # None /\ R(lastStatus) >= R(q.status))
    BY DEF CollectInv, BestKept, R
  <2>5. ASSUME result = "AllFailed", NEW r \in received, r.status # Errored PROVE R(c) >= R(r.status)
    <3>1. CASE r.status = 200
      <4> HIDE DEF c
      <4> QED
        BY <2>3, <3>1
    <3>2. CASE r.status # 200
      BY <2>4, <2>5, <3>2
    <3> QED
      BY <3>1, <3>2
  <2> HIDE DEF c
  <2> QED
    BY <2>1, <2>2, <2>5 DEF RefusalIsBest, R
<1>7. ASSUME Ring \/ EnterInFlight \/ ForkResult \/ BeginWait \/ PrackArrived \/ StartBridge \/ Answer \/ StartFork
             \/ EnterActive \/ EnterWebActive \/ CountCall \/ StartVoicemail \/ EnterVoicemail
             \/ ForgetTx \/ Finish \/ Accept PROVE RefusalIsBest'
  <2>1. stage' # "Refused"
    BY <1>7 DEF Ring, EnterInFlight, ForkResult, BeginWait, PrackArrived, StartBridge, Answer, StartFork, EnterActive,
       EnterWebActive, CountCall, StartVoicemail, EnterVoicemail, ForgetTx, Finish, Accept, To, handlerVars
  <2> QED
    BY <1>1, <2>1
<1>8. ASSUME Timers \/ Sweep \/ HandleCancel \/ HandleAck PROVE RefusalIsBest'
  BY <1>0, <1>8 DEF Timers, Sweep, HandleCancel, HandleAck, handlerVars, forkVars, collectVars
<1>9. ASSUME ForkRuns PROVE RefusalIsBest'
  BY <1>1, <1>9 DEF ForkRuns, Outside, handlerVars
<1>10. ASSUME NEW l \in Leg, LegRuns(l) PROVE RefusalIsBest'
  BY <1>0, <1>10, LegKeepsFork DEF LegRuns, Outside, handlerVars
<1>11. ASSUME NEW w \in WebLeg, UserReplies(w) \/ SinkCloses(w) PROVE RefusalIsBest'
  BY <1>0, <1>11 DEF UserReplies, Deliver, SinkCloses, ForwarderEnds, Outside, handlerVars, collectVars
<1>12. ASSUME NEW p \in Prack, HandlePrack(p) \/ PrackRuns(p) PROVE RefusalIsBest'
  BY <1>0, <1>12, PrackFrame DEF forkVars, collectVars, handlerVars
<1>13. ASSUME NEW b \in Bye, ReceiveBye(b) \/ ByeRuns(b) PROVE RefusalIsBest'
  BY <1>0, <1>13, ByeFrame DEF collectVars, handlerVars
<1>14. ASSUME NEW w \in WebLeg, SessionEnds(w) \/ CloseRuns(w) PROVE RefusalIsBest'
  BY <1>0, <1>14, SessionFrame DEF collectVars, handlerVars
<1>15. CASE UNCHANGED vars
  BY <1>0, <1>15 DEF vars, forkVars, collectVars, handlerVars
<1> QED
  BY <1>4, <1>5, <1>6, <1>7, <1>8, <1>9, <1>10, <1>11, <1>12, <1>13, <1>14, <1>15 DEF Next, Invite

-----------------------------------------------------------------------------
(* The invariant, and what follows from it                                 *)

CallInv ==
    /\ TxTypeOK /\ TableTypeOK /\ HandlerInv /\ RelInv
    /\ CollectInv /\ WaiterInv /\ BrowserInv /\ StageInv
    /\ WebCall /\ DialogInv /\ RefusalIsBest

\* The inductive invariant holds at first.
LEMMA InitCall == Init => CallInv
<1> SUFFICES ASSUME Init PROVE CallInv
  OBVIOUS
<1> USE InboundAssumption, ForkAssumption DEF Init, ForkInit, TxInit
<1>1. TxTypeOK /\ TableTypeOK
  BY DEF TxTypeOK, TableTypeOK, SessionStages
<1>2. HandlerInv
  <2>1. finals = <<>> /\ stage = "Idle" /\ gauge = Others /\ Others \in Nat /\ ngn = "None" /\ cancel = "Idle"
    OBVIOUS
  <2>2. inFlight \in BOOLEAN /\ ~inFlight /\ bye \in [Bye -> ByeStages] /\ \A b \in Bye : bye[b] = "Idle"
    BY DEF ByeStages
  <2>3. OneFinal
    BY <2>1 DEF OneFinal, FinalFits, Talking
  <2>4. HandlerTypeOK
    BY <2>1, <2>2 DEF HandlerTypeOK, Stages
  <2> QED
    BY <2>1, <2>2, <2>3, <2>4 DEF HandlerInv, CountedOnce, CancelKept, NgnFollows
<1>3. RelInv
  BY DEF RelInv, RelTypeOK, RelFresh, PrackMatches, WaitIsOver, PrackBeforeAnswer
<1>4. CollectInv
  <2>1. CollectTypes /\ ForkFresh
    BY DEF CollectTypes, ForkFresh, LegStages, ForkStages, ForkResults
  <2>2. PickedUp /\ BestKept
    BY DEF PickedUp, BestKept
  <2> QED
    BY <2>1, <2>2 DEF CollectInv
<1>5. WaiterInv
  BY DEF WaiterInv, WaiterStates, Leg
<1>6. BrowserInv
  BY DEF BrowserInv, BrowserTypes, BrowserStates, RingingLegs, GoneAreQuiet, AnsweredShown, WinnerShown,
         WinnerUndisturbed
<1>7. StageInv /\ WebCall /\ DialogInv /\ RefusalIsBest
  BY DEF StageInv, WebCall, DialogInv, ByeWasSent, WebIsActive, NoForgottenCall, RefusalIsBest
<1> QED
  BY <1>1, <1>2, <1>3, <1>4, <1>5, <1>6, <1>7 DEF CallInv

\* The inductive invariant is kept by every step.
LEMMA CallStep == CallInv /\ [Next]_vars => CallInv'
<1> SUFFICES ASSUME CallInv, [Next]_vars PROVE CallInv'
  OBVIOUS
<1> USE DEF CallInv
<1>1. lastStatus \in 300..699 \cup {None} /\ RingingLegs
  BY DEF CollectInv, BestKept, BrowserInv
<1>2. TxTypeOK' /\ TableTypeOK' /\ HandlerInv' /\ RelInv'
  BY <1>1, TxStep, TableStep, HandlerStep, RelStep
<1>3. CollectInv' /\ WaiterInv' /\ BrowserInv' /\ StageInv'
  BY <1>1, CollectStep, WaiterStep, BrowserStep, StageStep
<1>4. WebCall' /\ DialogInv' /\ RefusalIsBest'
  BY WebCallStep, DialogStep, BestStep
<1> QED
  BY <1>2, <1>3, <1>4

\* Every part of the handler, the fork, the tables and the server transaction stays within its
\* type, whatever the NGN, the extensions and the browsers do.
THEOREM InboundTypeCorrect == Spec => []TypeOK
<1>1. CallInv => TypeOK
  <2>1. ASSUME CallInv PROVE ForkTypeOK
    BY <2>1, ForkAssumption DEF CallInv, CollectInv, CollectTypes, BestKept, WaiterInv, BrowserInv, BrowserTypes, ForkTypeOK
  <2> QED
    BY <2>1 DEF CallInv, HandlerInv, RelInv, TypeOK
<1> QED
  BY <1>1, InitCall, CallStep, PTL DEF Spec

\* A CANCEL that finds the INVITE in flight makes it a 487, whatever the fork has decided by then.
THEOREM CancelWins == Spec => []CancelInTimeIs487
<1>1. CallInv => CancelInTimeIs487
  BY FirstFinal DEF CallInv, HandlerInv, OneFinal, FinalFits, BeforeFinal, CancelKept, CancelInTimeIs487
<1> QED
  BY <1>1, InitCall, CallStep, PTL DEF Spec

\* After a reliable 180 the 200 waits for a matching PRACK.
THEOREM ReliableRingingConfirmed == Spec => []PrackBeforeAnswer
<1>1. CallInv => PrackBeforeAnswer
  BY DEF CallInv, RelInv
<1> QED
  BY <1>1, InitCall, CallStep, PTL DEF Spec

\* A call that the NGN takes for established can be found by its BYE, also while handle_invite
\* and a browser's session are still at work on the tables.
THEOREM EstablishedCallFound == Spec => []NoForgottenCall
<1>1. CallInv => NoForgottenCall
  BY DEF CallInv, DialogInv
<1> QED
  BY <1>1, InitCall, CallStep, PTL DEF Spec

\* Neither the fork's drain nor a late leg tells the browser in the call to stop.
THEOREM WinnerKept == Spec => []WinnerUndisturbed
<1>1. CallInv => WinnerUndisturbed
  BY DEF CallInv, BrowserInv
<1> QED
  BY <1>1, InitCall, CallStep, PTL DEF Spec

\* The refusal passed on is of the best class received, in whatever order the legs failed.
THEOREM BestRefusal == Spec => []RefusalIsBest
<1>1. CallInv => RefusalIsBest
  BY DEF CallInv
<1> QED
  BY <1>1, InitCall, CallStep, PTL DEF Spec

-----------------------------------------------------------------------------
(* The handler implements InboundService                                   *)

AnsweredCall == finals = <<200>>
LegsUp == {l \in Leg : leg[l] = "Up"}
CallNow ==
    IF stage = "Idle" THEN "None"
    ELSE IF finals = <<>> THEN "Offered"
    ELSE IF ~AnsweredCall THEN "Refused"
    ELSE IF ngn = "Down" THEN "Over" ELSE "Answered"
ReadyNow == LegsUp \cup (IF AnsweredCall /\ winner = None THEN {"Recorder"} ELSE {})
PartyNow == IF ~AnsweredCall THEN None ELSE IF winner = None THEN "Recorder" ELSE winner
viewVars == <<CallNow, ReadyNow, PartyNow>>

\* With one final response at most, the refinement mapping is the view above.
LEMMA OneView ==
    ASSUME NEW st \in Stages, NEW fs, FinalFits(st, fs)
    PROVE  /\ (fs # <<>> /\ Head(fs) = 200) <=> fs = <<200>>
           /\ ~(Len(fs) > 1)
<1>1. fs = <<>> \/ \E c : fs = <<c>>
  <2>1. st \in BeforeFinal \/ st \in Talking \/ st = "Refused" \/ st \in {"Cleanup", "Done"}
    BY DEF Stages, BeforeFinal, Talking
  <2> QED
    BY <2>1 DEF FinalFits
<1>2. CASE fs = <<>>
  BY <1>2, FirstFinal
<1>3. ASSUME NEW c, fs = <<c>> PROVE ((fs # <<>> /\ Head(fs) = 200) <=> fs = <<200>>) /\ ~(Len(fs) > 1)
  BY <1>3, FirstFinal, FinalIs
<1> QED
  BY <1>1, <1>2, <1>3

SOffer  == CallNow = "None" /\ CallNow' = "Offered" /\ UNCHANGED <<ReadyNow, PartyNow>>
SPickUp == \E p \in Leg \cup {"Recorder"} : ReadyNow' = ReadyNow \cup {p} /\ UNCHANGED <<CallNow, PartyNow>>
SAnswer == /\ CallNow = "Offered" /\ CallNow' = "Answered"
           /\ \E p \in Leg \cup {"Recorder"} : p \in ReadyNow' /\ PartyNow' = p
           /\ ReadyNow \subseteq ReadyNow'
SRefuse == CallNow = "Offered" /\ CallNow' = "Refused" /\ UNCHANGED <<ReadyNow, PartyNow>>
SEnd    == CallNow = "Answered" /\ CallNow' = "Over" /\ UNCHANGED <<ReadyNow, PartyNow>>
SNext   == SOffer \/ SPickUp \/ SAnswer \/ SRefuse \/ SEnd

\* Every step is a step of InboundService or changes nothing the caller relies on.
LEMMA ServiceStep ==
    ASSUME CallInv, CallInv', [Next]_vars
    PROVE  SNext \/ UNCHANGED viewVars
<1>1. /\ stage \in BeforeFinal => finals = <<>>
      /\ finals # <<200>> => ngn = "None"
      /\ HandlerInv /\ CollectInv /\ WaiterInv /\ StageInv /\ WebCall /\ stage \in Stages
      /\ (result = "Answered" <=> winner # None) /\ (winner # None => leg[winner] = "Up")
      /\ leg \in [Leg -> LegStages] /\ winner \in Leg \cup {None}
  BY DEF CallInv, HandlerInv, HandlerTypeOK, OneFinal, FinalFits, NgnFollows, CollectInv, PickedUp, CollectTypes
\* Whatever leaves the legs, the winner and the NGN's side alone is a stutter.
<1>2. ASSUME UNCHANGED <<finals, ngn, leg, winner>>, stage = "Idle" <=> stage' = "Idle" PROVE UNCHANGED viewVars
  BY <1>2 DEF viewVars, CallNow, ReadyNow, PartyNow, AnsweredCall, LegsUp
<1>3. ASSUME Accept PROVE SOffer
  <2>1. stage = "Idle" /\ stage' = "Trying" /\ finals = <<>> /\ finals' = <<>> /\ UNCHANGED <<leg, winner>>
    BY <1>1, <1>3 DEF Accept, To, BeforeFinal, forkVars, legVars, collectVars
  <2> QED
    BY <2>1, FirstFinal DEF SOffer, CallNow, ReadyNow, PartyNow, AnsweredCall, LegsUp
<1>4. ASSUME stage \in BeforeFinal, stage # "Idle", To("Refused"), NEW c, c # 200, finals' = Append(finals, c),
             UNCHANGED <<leg, winner>> PROVE SRefuse
  <2>1. finals = <<>> /\ finals' = <<c>> /\ stage' # "Idle"
    BY <1>1, <1>4, FirstFinal DEF To
  <2>2. ~AnsweredCall /\ ~AnsweredCall' /\ finals' # <<>>
    BY <1>4, <2>1, FirstFinal, FinalIs DEF AnsweredCall
  <2> QED
    BY <1>4, <2>1, <2>2 DEF SRefuse, CallNow, ReadyNow, PartyNow, LegsUp
<1>5. ASSUME RefuseRequest \/ NoBinding \/ CancelBranch \/ PrackTimeout \/ BridgeFails PROVE SRefuse
  <2>1. stage \in BeforeFinal /\ stage # "Idle" /\ To("Refused")
    BY <1>5 DEF RefuseRequest, NoBinding, CancelBranch, PrackTimeout, BridgeFails, Refuse, BeforeFinal
  <2>2. \E c \in {420, 422, 481, 480, 487, 408, 502} : finals' = Append(finals, c)
    BY <1>5 DEF RefuseRequest, NoBinding, CancelBranch, PrackTimeout, BridgeFails, Refuse
  <2>3. UNCHANGED <<leg, winner>>
    BY <1>5 DEF RefuseRequest, NoBinding, CancelBranch, PrackTimeout, BridgeFails, DropFork, forkVars, legVars, collectVars
  <2>4. \A c \in {420, 422, 481, 480, 487, 408, 502} : c # 200
    OBVIOUS
  <2> QED
    BY <1>4, <2>1, <2>2, <2>3, <2>4
<1>6. ASSUME RefuseCall PROVE SRefuse
  <2> DEFINE c == IF result = "Timeout" THEN 408 ELSE IF lastStatus = None THEN 486 ELSE lastStatus
  <2>1. stage \in BeforeFinal /\ stage # "Idle" /\ To("Refused") /\ finals' = Append(finals, c) /\ UNCHANGED <<leg, winner>>
    BY <1>6 DEF RefuseCall, Refuse, BeforeFinal, forkVars, legVars, collectVars
  <2>2. c # 200
    BY <1>1, ForkAssumption DEF CollectInv, BestKept
  <2> HIDE DEF c
  <2> QED
    BY <1>4, <2>1, <2>2
<1>7. ASSUME Answer PROVE SAnswer
  <2>1. /\ stage = "Bridged" /\ stage' = "Answered" /\ finals = <<>> /\ finals' = <<200>> /\ ngn' = "Up"
        /\ UNCHANGED <<leg, winner>>
    BY <1>1, <1>7, FirstFinal DEF Answer, To, BeforeFinal, forkVars, legVars, collectVars
  <2>2. winner \in Leg /\ winner # None /\ leg[winner] = "Up"
    BY <1>1, <2>1 DEF StageInv
  <2>3. CallNow = "Offered" /\ CallNow' = "Answered"
    BY <2>1, FirstFinal DEF CallNow, AnsweredCall
  <2>4. winner \in ReadyNow' /\ PartyNow' = winner /\ ReadyNow \subseteq ReadyNow'
    BY <2>1, <2>2, FirstFinal DEF ReadyNow, PartyNow, AnsweredCall, LegsUp
  <2> QED
    BY <2>2, <2>3, <2>4 DEF SAnswer
<1>8. ASSUME StartVoicemail PROVE SAnswer
  <2>1. /\ stage \in {"Trying", "Decide"} /\ stage' = "VmAnswered" /\ finals = <<>> /\ finals' = <<200>> /\ ngn' = "Up"
        /\ UNCHANGED <<leg, winner>>
    BY <1>1, <1>8, FirstFinal DEF StartVoicemail, To, BeforeFinal, forkVars, legVars, collectVars
  <2>2. winner = None
    BY <1>1, <1>8 DEF StartVoicemail, StageInv, CollectInv, ForkFresh
  <2>3. CallNow = "Offered" /\ CallNow' = "Answered"
    BY <2>1, FirstFinal DEF CallNow, AnsweredCall
  <2>4. "Recorder" \in ReadyNow' /\ PartyNow' = "Recorder" /\ ReadyNow \subseteq ReadyNow'
    BY <2>1, <2>2, FirstFinal DEF ReadyNow, PartyNow, AnsweredCall, LegsUp
  <2> QED
    BY <2>3, <2>4 DEF SAnswer
<1>9. ASSUME UNCHANGED <<stage, finals, leg, winner>>, ngn' = ngn \/ ngn' = "Down", stage # "Idle", AnsweredCall
      PROVE  SEnd \/ UNCHANGED viewVars
  BY <1>9, FirstFinal DEF SEnd, viewVars, CallNow, ReadyNow, PartyNow, AnsweredCall, LegsUp
<1>10. ASSUME NEW b \in Bye, ReceiveBye(b) \/ ByeRuns(b) PROVE SEnd \/ UNCHANGED viewVars
  <2>1. UNCHANGED <<stage, finals, leg, winner>>
    BY <1>10, ByeFrame DEF handlerVars, collectVars
  <2>2. ngn' = "Down" /\ ngn # "None"
    BY <1>1, <1>10 DEF ReceiveBye, ByeRuns, ByeActive, ByeVoicemail, ByeBridge, ByeWeb, HandlerInv, NgnFollows
  <2>3. finals = <<200>> /\ stage # "Idle"
    BY <1>1, <2>2, FirstFinal DEF BeforeFinal
  <2> QED
    BY <1>9, <2>1, <2>2, <2>3 DEF AnsweredCall
<1>11. ASSUME NEW w \in WebLeg, SessionEnds(w) \/ CloseRuns(w) PROVE SEnd \/ UNCHANGED viewVars
  <2>1. UNCHANGED <<stage, finals, leg, winner>>
    BY <1>11, SessionFrame DEF handlerVars, collectVars
  <2>2. ngn' = ngn \/ (ngn' = "Down" /\ session[w] = "SendBye")
    BY <1>11 DEF SessionEnds, CloseRuns, CloseInbound, SendBye, CloseActive, CloseDec, CancelAll
  <2>3. session[w] = "SendBye" => finals = <<200>> /\ stage # "Idle"
    BY <1>1 DEF WebCall
  <2> QED
    BY <1>2, <1>9, <2>1, <2>2, <2>3 DEF AnsweredCall
<1>12. ASSUME NEW l \in Leg, LegRuns(l) PROVE SPickUp \/ UNCHANGED viewVars
  <2>1. UNCHANGED <<stage, finals, ngn, winner>>
    BY <1>1, <1>12, LegKeepsFork DEF LegRuns, Outside, handlerVars
  <2>2. leg[l] # "Up" /\ \E s : leg' = [leg EXCEPT ![l] = s]
    <3>1. CASE l \in WebLeg /\ AwaitAnswer(l)
      <4>1. waiter[l] \in {"Open", "Sdp", "Decline", "Cancelled"}
        BY <1>1, <3>1 DEF AwaitAnswer, WaiterInv, WaiterStates
      <4> QED
        BY <3>1, <4>1 DEF AwaitAnswer, Report, LegTo
    <3>2. CASE SipAnswers(l) \/ CreateOffer(l) \/ RegisterWaiter(l) \/ TryRegister(l)
      BY <3>2 DEF SipAnswers, CreateOffer, RegisterWaiter, TryRegister, Report, LegTo
    <3>3. CASE StandDown(l) \/ PushOffer(l) \/ AcceptAnswer(l)
      BY <3>3 DEF StandDown, PushOffer, AcceptAnswer, Report, LegTo
    <3> QED
      BY <1>12, <3>1, <3>2, <3>3 DEF LegRuns, LegStep
  <2>3. \A k \in Leg : k # l => leg'[k] = leg[k]
    BY <1>1, <2>2
  <2>4. LegsUp' = LegsUp \/ LegsUp' = LegsUp \cup {l}
    BY <2>2, <2>3 DEF LegsUp
  <2>5. UNCHANGED <<CallNow, PartyNow>>
    BY <2>1 DEF CallNow, PartyNow, AnsweredCall
  <2>6. ReadyNow' = ReadyNow \/ ReadyNow' = ReadyNow \cup {l}
    BY <2>1, <2>4 DEF ReadyNow, AnsweredCall
  <2> QED
    BY <2>5, <2>6 DEF SPickUp, viewVars
<1>13. ASSUME StartFork PROVE UNCHANGED viewVars
  <2>1. /\ UNCHANGED <<stage, finals, ngn, winner>> /\ \A l \in Leg : leg[l] # "Up" /\ leg'[l] # "Up"
    BY <1>1, <1>13 DEF StartFork, StartLegs, handlerVars, CollectInv, ForkFresh
  <2> QED
    BY <2>1 DEF viewVars, CallNow, ReadyNow, PartyNow, AnsweredCall, LegsUp
<1>14. ASSUME ForkRuns PROVE UNCHANGED viewVars
  <2>1. stage = "InFlight" /\ UNCHANGED <<stage, finals, ngn, leg>>
    BY <1>14 DEF ForkRuns, ForkStep, Collect, Deadline, Drain, DrainExcept, Outside, handlerVars, legVars
  <2>2. finals = <<>> /\ finals' = <<>>
    BY <1>1, <2>1 DEF BeforeFinal
  <2> QED
    BY <2>1, <2>2, FirstFinal DEF viewVars, CallNow, ReadyNow, PartyNow, AnsweredCall, LegsUp
<1>15. ASSUME Ring \/ EnterInFlight \/ ForkResult \/ BeginWait \/ PrackArrived \/ StartBridge
              \/ EnterActive \/ EnterWebActive \/ CountCall \/ EnterVoicemail \/ ForgetTx \/ Finish
       PROVE  UNCHANGED viewVars
  <2>1. UNCHANGED <<finals, ngn, leg, winner>>
    BY <1>15 DEF Ring, EnterInFlight, ForkResult, BeginWait, PrackArrived, StartBridge, EnterActive,
       EnterWebActive, CountCall, EnterVoicemail, ForgetTx, Finish, forkVars, legVars, collectVars
  <2>2. stage # "Idle" /\ stage' # "Idle"
    BY <1>15 DEF Ring, EnterInFlight, ForkResult, BeginWait, PrackArrived, StartBridge, EnterActive,
       EnterWebActive, CountCall, EnterVoicemail, ForgetTx, Finish, To
  <2> QED
    BY <1>2, <2>1, <2>2
<1>16. ASSUME Timers \/ Sweep \/ HandleCancel \/ HandleAck PROVE UNCHANGED viewVars
  BY <1>2, <1>16 DEF Timers, Sweep, HandleCancel, HandleAck, handlerVars, forkVars, legVars, collectVars
<1>17. ASSUME NEW w \in WebLeg, UserReplies(w) \/ SinkCloses(w) PROVE UNCHANGED viewVars
  BY <1>2, <1>17 DEF UserReplies, Deliver, SinkCloses, ForwarderEnds, Outside, handlerVars, legVars, collectVars
<1>18. ASSUME NEW p \in Prack, HandlePrack(p) \/ PrackRuns(p) PROVE UNCHANGED viewVars
  BY <1>2, <1>18, PrackFrame DEF forkVars, legVars, collectVars, handlerVars
<1>19. CASE UNCHANGED vars
  BY <1>2, <1>19 DEF vars, forkVars, legVars, collectVars, handlerVars
<1> QED
  BY <1>3, <1>5, <1>6, <1>7, <1>8, <1>10, <1>11, <1>12, <1>13, <1>14, <1>15, <1>16, <1>17, <1>18, <1>19
     DEF Next, Invite, SNext

\* An offered call is answered once, by a party that is there and stays, or refused once, and an
\* answered one ends once: handle_invite with all its helpers implements InboundService.
THEOREM InboundImplementsService == Spec => ImplementsService
<1>1. Init => Service!Init
  <2> SUFFICES ASSUME Init PROVE Service!Init
    OBVIOUS
  <2>1. finals = <<>> /\ stage = "Idle" /\ ~Answered /\ \A l \in Leg : leg[l] = "Idle"
    BY DEF Init, ForkInit, Answered
  <2> QED
    BY <2>1 DEF Service!Init
<1>2. CallInv /\ CallInv' /\ [Next]_vars => [Service!Next]_(Service!vars)
  <2> SUFFICES ASSUME CallInv, CallInv', [Next]_vars PROVE [Service!Next]_(Service!vars)
    OBVIOUS
  <2>1. stage \in Stages /\ FinalFits(stage, finals) /\ stage' \in Stages /\ FinalFits(stage', finals')
    BY DEF CallInv, HandlerInv, HandlerTypeOK, OneFinal
  <2>2. (Answered <=> AnsweredCall) /\ ~(Len(finals) > 1)
    BY <2>1, OneView DEF Answered, AnsweredCall
  <2>3. (Answered' <=> AnsweredCall') /\ ~(Len(finals') > 1)
    BY <2>1, OneView DEF Answered, AnsweredCall
  <2>4. SNext \/ UNCHANGED viewVars
    BY ServiceStep
  <2> QED
    BY <2>2, <2>3, <2>4 DEF SNext, SOffer, SPickUp, SAnswer, SRefuse, SEnd, viewVars, CallNow, ReadyNow, PartyNow, LegsUp,
      Service!Next, Service!Offer, Service!PickUp, Service!Answer, Service!Refuse, Service!End, Service!vars
<1> QED
  BY <1>1, <1>2, InitCall, CallStep, PTL DEF Spec, ImplementsService, Service!Spec

-----------------------------------------------------------------------------
(* What is left when the call is over                                      *)

\* The BYEs come once handle_invite is through; who ends the call still has to take it
\* out of each table, or has.
ByesComeLast ==
    /\ \A b \in Bye : bye[b] # "Idle" => stage = "Done"
    /\ stage \in {"Answered", "Web", "VmAnswered"} => ngn = "Up"
ActiveTaken ==
    ngn = "Down" /\ active => (\E b \in Bye : bye[b] = "Active") \/ \E w \in WebLeg : session[w] = "Active"
RecordingTaken == ngn = "Down" /\ voicemail => \E b \in Bye : bye[b] \in {"Active", "Voicemail"}
WebTaken ==
    ngn = "Down" /\ webActive # None => \E b \in Bye : bye[b] \in {"Active", "Voicemail", "Bridge", "Web"}
BridgeTaken == bridge = "Up" => active \/ \E b \in removed : bye[b] \in {"Voicemail", "Bridge"}
BrowserTold ==
    ngn # "None" /\ stage \notin {"Answered", "Web"} /\ winner \in WebLeg =>
        \/ browser[winner] = "Quiet" \/ webActive = winner
        \/ session[winner] \in {"SendBye", "Active", "Dec", "CancelAll"}
ReleaseInv == ByesComeLast /\ ActiveTaken /\ RecordingTaken /\ WebTaken /\ BridgeTaken /\ BrowserTold

\* Every step keeps the bookkeeping of who releases what, when no BYE comes early.
LEMMA ReleaseStep ==
    ASSUME HastyBye = FALSE, CallInv, ReleaseInv, [Next]_vars
    PROVE  ReleaseInv'
<1>1. /\ HandlerInv /\ TableTypeOK /\ CollectInv /\ WaiterInv /\ BrowserInv /\ StageInv /\ WebCall
      /\ stage \in BeforeFinal => ngn = "None"
      /\ \A b \in Bye : bye[b] # "Idle" => ngn = "Down"
      /\ bye \in [Bye -> ByeStages] /\ session \in [WebLeg -> SessionStages] /\ removed \subseteq Bye
  <2>1. /\ HandlerInv /\ TableTypeOK /\ CollectInv /\ WaiterInv /\ BrowserInv /\ StageInv /\ WebCall
    BY DEF CallInv
  <2>2. stage \in BeforeFinal => finals # <<200>>
    BY <2>1, FirstFinal DEF HandlerInv, OneFinal, FinalFits
  <2>3. (stage \in BeforeFinal => ngn = "None") /\ \A b \in Bye : bye[b] # "Idle" => ngn = "Down"
    BY <2>1, <2>2 DEF HandlerInv, NgnFollows
  <2> QED
    BY <2>1, <2>3 DEF HandlerInv, HandlerTypeOK, TableTypeOK
<1>2. (winner' = winner \/ ngn = "None") /\ None \notin WebLeg
  <2>1. stage = "InFlight" => ngn = "None"
    BY <1>1 DEF BeforeFinal
  <2> QED
    BY <1>1, <2>1, WinnerFixed, ForkAssumption DEF Leg
\* Before the final response there is nothing to release but what StartBridge just made.
<1>3. ASSUME stage \in BeforeFinal, ngn' = "None", stage' \notin {"Answered", "Web", "VmAnswered"},
             UNCHANGED <<bye, removed>>, UNCHANGED <<bridge, active>> \/ active' = TRUE PROVE ReleaseInv'
  <2>1. \A b \in Bye : bye[b] = "Idle"
    BY <1>1, <1>3
  <2> QED
    BY <1>3, <2>1 DEF ReleaseInv, ByesComeLast, ActiveTaken, RecordingTaken, WebTaken, BridgeTaken, BrowserTold
<1>4. ASSUME RefuseRequest \/ NoBinding \/ Ring \/ EnterInFlight \/ ForkResult \/ BeginWait \/ PrackArrived
             \/ PrackTimeout \/ StartBridge \/ BridgeFails \/ CancelBranch \/ StartFork \/ RefuseCall \/ Accept
      PROVE  ReleaseInv'
  <2>1. stage \in BeforeFinal /\ stage' \notin {"Answered", "Web", "VmAnswered"}
    BY <1>4 DEF RefuseRequest, NoBinding, Ring, EnterInFlight, ForkResult, BeginWait, PrackArrived, PrackTimeout,
       StartBridge, BridgeFails, CancelBranch, StartFork, RefuseCall, Accept, Refuse, To, BeforeFinal, handlerVars
  <2>2. UNCHANGED <<ngn, bye, removed>> /\ (UNCHANGED <<bridge, active>> \/ active' = TRUE)
    BY <1>4 DEF RefuseRequest, NoBinding, Ring, EnterInFlight, ForkResult, BeginWait, PrackArrived, PrackTimeout,
       StartBridge, BridgeFails, CancelBranch, StartFork, RefuseCall, Accept, tableVars, endVars
  <2> QED
    BY <1>1, <1>3, <2>1, <2>2
<1>5. ASSUME Answer \/ StartVoicemail PROVE ReleaseInv'
  <2>1. /\ stage \in BeforeFinal /\ stage' \in {"Answered", "VmAnswered"} /\ ngn' = "Up"
        /\ UNCHANGED <<bye, removed, bridge, active, winner>>
        /\ stage' = "VmAnswered" => (stage = "Trying" \/ result \in {"AllFailed", "Timeout"})
    BY <1>5 DEF Answer, StartVoicemail, To, BeforeFinal, tableVars, endVars, forkVars, collectVars
  <2>2. stage' = "VmAnswered" => winner = None
    BY <1>1, <2>1 DEF StageInv, CollectInv, ForkFresh, PickedUp
  <2>3. \A b \in Bye : bye[b] = "Idle"
    BY <1>1, <2>1
  <2> QED
    BY <1>2, <2>1, <2>2, <2>3
       DEF ReleaseInv, ByesComeLast, ActiveTaken, RecordingTaken, WebTaken, BridgeTaken, BrowserTold
\* The handler enters the call into its tables while the NGN is still there.
<1>6. ASSUME EnterActive \/ EnterWebActive \/ EnterVoicemail PROVE ReleaseInv'
  <2>1. /\ stage \in {"Answered", "Web", "VmAnswered"} /\ ngn = "Up" /\ stage # "Done"
    BY <1>6 DEF EnterActive, EnterWebActive, EnterVoicemail, ReleaseInv, ByesComeLast
  <2>2. \A b \in Bye : bye[b] = "Idle"
    BY <2>1 DEF ReleaseInv, ByesComeLast
  <2>3. UNCHANGED <<ngn, bye, removed, bridge, winner, session, browser>> /\ (active' = active \/ active' = TRUE)
    BY <1>6 DEF EnterActive, EnterWebActive, EnterVoicemail, endVars, forkVars, legVars, collectVars
  <2>4. ByesComeLast' /\ ActiveTaken' /\ RecordingTaken' /\ WebTaken'
    BY <2>1, <2>2, <2>3 DEF ReleaseInv, ByesComeLast, ActiveTaken, RecordingTaken, WebTaken
  <2>5. BridgeTaken'
    BY <1>1, <2>2, <2>3 DEF ReleaseInv, BridgeTaken
  <2>6. BrowserTold'
    <3>1. CASE EnterActive
      BY <3>1 DEF EnterActive, To, BrowserTold
    <3>2. CASE EnterWebActive
      BY <2>3, <3>2 DEF EnterWebActive, To, BrowserTold
    <3>3. CASE EnterVoicemail
      BY <2>3, <3>3 DEF EnterVoicemail, To, BrowserTold, ReleaseInv
    <3> QED
      BY <1>6, <3>1, <3>2, <3>3
  <2> QED
    BY <2>4, <2>5, <2>6 DEF ReleaseInv
\* A task that ends nothing leaves everything to those that do.
<1>7. ASSUME UNCHANGED <<ngn, active, voicemail, webActive, bridge, bye, removed, session>>,
             stage' = stage \/ (stage # "Done" /\ stage' \in {"Cleanup", "Done"} /\ stage \notin {"Answered", "Web"}),
             winner \in WebLeg /\ browser[winner] = "Quiet" => browser'[winner] = "Quiet"
      PROVE  ReleaseInv'
  <2>1. ByesComeLast'
    BY <1>7 DEF ReleaseInv, ByesComeLast
  <2>2. ActiveTaken' /\ RecordingTaken' /\ WebTaken' /\ BridgeTaken'
    BY <1>7 DEF ReleaseInv, ActiveTaken, RecordingTaken, WebTaken, BridgeTaken
  <2>3. BrowserTold'
    BY <1>2, <1>7 DEF ReleaseInv, BrowserTold
  <2> QED
    BY <2>1, <2>2, <2>3 DEF ReleaseInv
<1>8. ASSUME CountCall \/ ForgetTx \/ Finish \/ Timers \/ HandleCancel \/ HandleAck PROVE ReleaseInv'
  <2>1. UNCHANGED <<ngn, active, voicemail, webActive, bridge, bye, removed, session, browser>>
    BY <1>8 DEF CountCall, ForgetTx, Finish, Timers, HandleCancel, HandleAck, tableVars, endVars, forkVars, legVars
  <2>2. stage' = stage \/ (stage # "Done" /\ stage' \in {"Cleanup", "Done"} /\ stage \notin {"Answered", "Web"})
    BY <1>8 DEF CountCall, ForgetTx, Finish, Timers, HandleCancel, HandleAck, To, handlerVars
  <2> QED
    BY <1>7, <2>1, <2>2
<1>9. ASSUME NEW p \in Prack, HandlePrack(p) \/ PrackRuns(p) PROVE ReleaseInv'
  BY <1>7, <1>9, PrackFrame DEF tableVars, endVars, forkVars, legVars, handlerVars
<1>10. ASSUME ForkRuns PROVE ReleaseInv'
  <2>1. UNCHANGED <<ngn, stage, bye, removed, bridge, active>> /\ stage = "InFlight"
    BY <1>10 DEF ForkRuns, Outside, tableVars, endVars, handlerVars
  <2> QED
    BY <1>1, <1>3, <2>1 DEF BeforeFinal
<1>11. ASSUME NEW l \in Leg, LegRuns(l) PROVE ReleaseInv'
  <2>1. UNCHANGED <<ngn, active, voicemail, webActive, bridge, bye, removed, session, stage>> /\ LegStep(l)
    BY <1>11 DEF LegRuns, Outside, tableVars, endVars, handlerVars
  <2>2. \/ browser' = browser \/ Shows(l, "Quiet")
        \/ leg[l] = "Push" /\ l \in WebLeg /\ Shows(l, "Ringing")
    BY <2>1 DEF LegStep, SipAnswers, CreateOffer, RegisterWaiter, TryRegister, StandDown, PushOffer, AwaitAnswer, AcceptAnswer
  <2>3. winner \in WebLeg => leg[winner] = "Up"
    BY <1>1, <1>2 DEF CollectInv, PickedUp
  <2>4. winner \in WebLeg /\ browser[winner] = "Quiet" => browser'[winner] = "Quiet"
    BY <1>1, <2>2, <2>3 DEF Shows, BrowserInv, BrowserTypes
  <2> QED
    BY <1>7, <2>1, <2>4
<1>12. ASSUME NEW w \in WebLeg, UserReplies(w) \/ SinkCloses(w) PROVE ReleaseInv'
  <2>1. UNCHANGED <<ngn, active, voicemail, webActive, bridge, bye, removed, session, stage>>
    BY <1>12 DEF UserReplies, SinkCloses, Outside, tableVars, endVars, handlerVars
  <2>2. browser' = browser \/ (browser[w] = "Ringing" /\ \E v : browser' = [browser EXCEPT ![w] = v])
    BY <1>12 DEF UserReplies, Deliver, SinkCloses, ForwarderEnds, legVars
  <2>3. winner \in WebLeg /\ browser[winner] = "Quiet" => browser'[winner] = "Quiet"
    BY <1>1, <2>2 DEF BrowserInv, BrowserTypes
  <2> QED
    BY <1>7, <2>1, <2>3
<1>13. ASSUME Sweep PROVE ReleaseInv'
  <2>1. /\ webActive \in WebLeg /\ webActive \notin wsOpen /\ webActive' = None
        /\ UNCHANGED <<ngn, active, voicemail, bridge, bye, removed, session, stage, winner, browser>>
    BY <1>1, <1>13 DEF Sweep, TableTypeOK, BrowserInv, BrowserTypes, endVars, handlerVars, forkVars, legVars, collectVars
  <2>2. browser[webActive] = "Quiet"
    BY <1>1, <2>1 DEF BrowserInv, GoneAreQuiet
  <2> QED
    BY <2>1, <2>2 DEF ReleaseInv, ByesComeLast, ActiveTaken, RecordingTaken, WebTaken, BridgeTaken, BrowserTold
<1>14. ASSUME NEW b \in Bye, ReceiveBye(b) \/ ByeRuns(b) PROVE ReleaseInv'
  <2>1. UNCHANGED <<stage, session, winner, wsOpen>>
    BY <1>14, ByeFrame DEF handlerVars, collectVars, wsVars
  <2>2. stage = "Done" /\ ngn \in {"Up", "Down"} /\ ngn' = "Down"
    BY <1>1, <1>14 DEF ReceiveBye, ByeRuns, ByeActive, ByeVoicemail, ByeBridge, ByeWeb, ReleaseInv, ByesComeLast
  <2>3. PICK s \in ByeStages : bye' = [bye EXCEPT ![b] = s]
    BY <1>14 DEF ReceiveBye, ByeRuns, ByeActive, ByeVoicemail, ByeBridge, ByeWeb, ByeTo, ByeStages
  <2>4. \A c \in Bye : bye'[c] = IF c = b THEN s ELSE bye[c]
    BY <1>1, <2>3
  <2>5. ByesComeLast'
    BY <2>1, <2>2 DEF ByesComeLast
  <2>6. CASE ReceiveBye(b)
    <3>1. bye[b] = "Idle" /\ bye'[b] = "Active" /\ UNCHANGED <<active, voicemail, webActive, bridge, removed, browser>>
      BY <1>1, <2>6 DEF ReceiveBye, ByeTo, tableVars, forkVars, legVars
    <3>2. ActiveTaken' /\ RecordingTaken' /\ WebTaken'
      BY <3>1 DEF ActiveTaken, RecordingTaken, WebTaken
    <3>3. BridgeTaken' /\ BrowserTold'
      BY <1>1, <2>1, <2>2, <2>4, <3>1 DEF ReleaseInv, BridgeTaken, BrowserTold
    <3> QED
      BY <2>5, <3>2, <3>3 DEF ReleaseInv
  <2>7. CASE ByeActive(b)
    <3>1. /\ bye[b] = "Active" /\ bye'[b] = "Voicemail" /\ UNCHANGED <<voicemail, webActive, bridge, browser>>
          /\ active' = FALSE /\ removed' = IF active THEN removed \cup {b} ELSE removed
      BY <1>1, <2>7 DEF ByeActive, ByeTo, forkVars, legVars
    <3>2. ActiveTaken' /\ RecordingTaken' /\ WebTaken'
      BY <3>1 DEF ActiveTaken, RecordingTaken, WebTaken
    <3>3. BridgeTaken'
      BY <1>1, <2>4, <3>1 DEF ReleaseInv, BridgeTaken
    <3>4. BrowserTold'
      BY <2>1, <2>2, <3>1 DEF ReleaseInv, BrowserTold
    <3> QED
      BY <2>5, <3>2, <3>3, <3>4 DEF ReleaseInv
  <2>8. CASE ByeVoicemail(b)
    <3>1. /\ bye[b] = "Voicemail" /\ bye'[b] = "Bridge" /\ voicemail' = FALSE
          /\ UNCHANGED <<ngn, active, webActive, bridge, removed, browser>>
      BY <1>1, <2>8 DEF ByeVoicemail, ByeTo, forkVars, legVars
    <3>2. ActiveTaken' /\ RecordingTaken' /\ WebTaken'
      BY <2>1, <2>2, <2>4, <3>1 DEF ReleaseInv, ActiveTaken, RecordingTaken, WebTaken
    <3>3. BridgeTaken' /\ BrowserTold'
      BY <1>1, <2>1, <2>2, <2>4, <3>1 DEF ReleaseInv, BridgeTaken, BrowserTold
    <3> QED
      BY <2>5, <3>2, <3>3 DEF ReleaseInv
  <2>9. CASE ByeBridge(b)
    <3>1. /\ bye[b] = "Bridge" /\ bye'[b] = "Web" /\ bridge' = IF b \in removed /\ bridge = "Up" THEN "Down" ELSE bridge
          /\ UNCHANGED <<ngn, active, webActive, voicemail, removed, browser>>
      BY <1>1, <2>9 DEF ByeBridge, ByeTo, forkVars, legVars
    <3>2. ActiveTaken' /\ RecordingTaken' /\ WebTaken'
      BY <2>1, <2>2, <2>4, <3>1 DEF ReleaseInv, ActiveTaken, RecordingTaken, WebTaken
    <3>3. BridgeTaken' /\ BrowserTold'
      BY <1>1, <2>1, <2>2, <2>4, <3>1 DEF ReleaseInv, BridgeTaken, BrowserTold
    <3> QED
      BY <2>5, <3>2, <3>3 DEF ReleaseInv
  <2>10. CASE ByeWeb(b)
    <3>1. /\ bye[b] = "Web" /\ bye'[b] = "Done" /\ webActive' = None
          /\ IF webActive # None THEN Shows(webActive, "Quiet") ELSE UNCHANGED browser
          /\ UNCHANGED <<ngn, active, bridge, voicemail, removed>>
      BY <1>1, <2>10 DEF ByeWeb, ByeTo
    <3>2. ActiveTaken' /\ RecordingTaken' /\ WebTaken' /\ BridgeTaken'
      BY <1>1, <2>1, <2>2, <2>4, <3>1 DEF ReleaseInv, ActiveTaken, RecordingTaken, WebTaken, BridgeTaken
    <3>3. CASE webActive = None
      <4>1. BrowserTold'
        BY <1>2, <2>1, <2>2, <3>1, <3>3 DEF ReleaseInv, BrowserTold
      <4> QED
        BY <2>5, <3>2, <4>1 DEF ReleaseInv
    <3>4. CASE webActive # None
      <4>1. webActive = winner /\ winner \in WebLeg
        BY <1>1, <3>4 DEF WebCall, TableTypeOK
      <4>2. browser'[winner] = "Quiet"
        BY <1>1, <3>1, <3>4, <4>1 DEF Shows, BrowserInv, BrowserTypes, GoneAreQuiet
      <4> QED
        BY <2>1, <2>5, <3>2, <4>2 DEF ReleaseInv, BrowserTold
    <3> QED
      BY <3>3, <3>4
  <2> QED
    BY <1>14, <2>6, <2>7, <2>8, <2>9, <2>10 DEF ByeRuns
<1>15. ASSUME NEW w \in WebLeg, SessionEnds(w) \/ CloseRuns(w) PROVE ReleaseInv'
  <2>1. UNCHANGED <<stage, winner, bye, removed, voicemail>>
    BY <1>15, SessionFrame DEF handlerVars, collectVars
  <2>2. PICK s \in SessionStages : session' = [session EXCEPT ![w] = s]
    BY <1>15 DEF SessionEnds, CloseRuns, CloseInbound, SendBye, CloseActive, CloseDec, CancelAll, SessionTo, SessionStages
  <2>3. \A k \in WebLeg : session'[k] = IF k = w THEN s ELSE session[k]
    BY <1>1, <2>2
  <2>4. CASE SessionEnds(w)
    <3>1. session[w] = "Open" /\ UNCHANGED <<ngn, active, webActive, bridge, browser>>
      BY <2>4 DEF SessionEnds, tableVars, forkVars, legVars
    <3> QED
      BY <2>1, <2>3, <3>1 DEF ReleaseInv, ByesComeLast, ActiveTaken, RecordingTaken, WebTaken, BridgeTaken, BrowserTold
  <2>5. CASE CloseInbound(w)
    <3>1. /\ session[w] = "Close" /\ session'[w] \in {"SendBye", "CancelAll"} /\ UNCHANGED <<ngn, active, bridge, browser>>
          /\ webActive' = IF webActive = w THEN None ELSE webActive
      BY <1>1, <2>5 DEF CloseInbound, SessionTo, forkVars, legVars
    <3>2. ByesComeLast' /\ ActiveTaken' /\ RecordingTaken' /\ WebTaken' /\ BridgeTaken'
      BY <2>1, <2>3, <3>1 DEF ReleaseInv, ByesComeLast, ActiveTaken, RecordingTaken, WebTaken, BridgeTaken
    <3>3. BrowserTold'
      BY <2>1, <2>3, <3>1 DEF ReleaseInv, BrowserTold
    <3> QED
      BY <3>2, <3>3 DEF ReleaseInv
  <2>6. CASE SendBye(w)
    <3>1. /\ session[w] = "SendBye" /\ session'[w] = "Active" /\ UNCHANGED <<active, bridge, webActive>>
      BY <1>1, <2>6 DEF SendBye, SessionTo, tableVars
    <3>2. webActive = None /\ winner = w /\ stage \in {"Count", "Cleanup", "Done"}
      BY <1>1, <3>1 DEF WebCall
    <3>3. voicemail = FALSE
      BY <1>1, <1>2, <3>2 DEF StageInv, CollectInv, PickedUp, TableTypeOK
    <3>4. ByesComeLast' /\ ActiveTaken' /\ RecordingTaken' /\ WebTaken' /\ BridgeTaken' /\ BrowserTold'
      BY <2>1, <3>1, <3>2, <3>3 DEF ReleaseInv, ByesComeLast, ActiveTaken, RecordingTaken, WebTaken, BridgeTaken, BrowserTold
    <3> QED
      BY <3>4 DEF ReleaseInv
  <2>7. CASE CloseActive(w)
    <3>1. /\ session'[w] = "Dec" /\ active' = FALSE /\ bridge' = IF active /\ bridge = "Up" THEN "Down" ELSE bridge
          /\ UNCHANGED <<ngn, webActive, browser>>
      BY <1>1, <2>7 DEF CloseActive, SessionTo, forkVars, legVars
    <3>2. ByesComeLast' /\ ActiveTaken' /\ RecordingTaken' /\ WebTaken' /\ BridgeTaken'
      BY <2>1, <2>3, <3>1 DEF ReleaseInv, ByesComeLast, ActiveTaken, RecordingTaken, WebTaken, BridgeTaken
    <3>3. BrowserTold'
      BY <2>1, <2>3, <3>1 DEF ReleaseInv, BrowserTold
    <3> QED
      BY <3>2, <3>3 DEF ReleaseInv
  <2>8. CASE CloseDec(w)
    <3>1. session[w] = "Dec" /\ session'[w] = "CancelAll" /\ UNCHANGED <<ngn, active, webActive, bridge, browser>>
      BY <1>1, <2>8 DEF CloseDec, SessionTo, tableVars, forkVars, legVars
    <3> QED
      BY <2>1, <2>3, <3>1 DEF ReleaseInv, ByesComeLast, ActiveTaken, RecordingTaken, WebTaken, BridgeTaken, BrowserTold
  <2>9. CASE CancelAll(w)
    <3>1. /\ session[w] = "CancelAll" /\ UNCHANGED <<ngn, active, webActive, bridge>>
          /\ browser' = [browser EXCEPT ![w] = "Quiet"]
      BY <1>1, <2>9 DEF CancelAll, tableVars
    <3>2. ByesComeLast' /\ ActiveTaken' /\ RecordingTaken' /\ WebTaken' /\ BridgeTaken'
      BY <2>1, <2>3, <3>1 DEF ReleaseInv, ByesComeLast, ActiveTaken, RecordingTaken, WebTaken, BridgeTaken
    <3>3. BrowserTold'
      BY <1>1, <2>1, <2>3, <3>1 DEF ReleaseInv, BrowserTold, BrowserInv, BrowserTypes
    <3> QED
      BY <3>2, <3>3 DEF ReleaseInv
  <2> QED
    BY <1>15, <2>4, <2>5, <2>6, <2>7, <2>8, <2>9 DEF CloseRuns
<1>16. CASE UNCHANGED vars
  BY <1>7, <1>16 DEF vars, handlerVars, tableVars, endVars, forkVars, legVars
<1> QED
  BY <1>4, <1>5, <1>6, <1>8, <1>9, <1>10, <1>11, <1>12, <1>13, <1>14, <1>15, <1>16 DEF Next, Invite

\* When the BYE comes after handle_invite has returned, then once the call is over and every task
\* is through, no table, bridge, recording or browser is left with it.
THEOREM NothingLeftOver ==
    ASSUME HastyBye = FALSE
    PROVE  Spec => []ReleasedWhenOver
<1>1. Init => ReleaseInv
  BY DEF Init, ReleaseInv, ByesComeLast, ActiveTaken, RecordingTaken, WebTaken, BridgeTaken, BrowserTold
<1>2. CallInv /\ ReleaseInv /\ [Next]_vars => ReleaseInv'
  BY ReleaseStep
<1>3. CallInv /\ ReleaseInv => ReleasedWhenOver
  <2> SUFFICES ASSUME CallInv, ReleaseInv, Quiescent, ngn = "Down" PROVE ReleasedWhenOver
    BY DEF ReleasedWhenOver
  <2>1. ~active /\ ~voicemail /\ webActive = None
    BY DEF Quiescent, ReleaseInv, ActiveTaken, RecordingTaken, WebTaken
  <2>2. bridge # "Up"
    BY <2>1 DEF Quiescent, ReleaseInv, BridgeTaken, CallInv, TableTypeOK
  <2>3. winner \in WebLeg => browser[winner] = "Quiet"
    BY <2>1, ForkAssumption DEF Quiescent, ReleaseInv, BrowserTold, Leg
  <2> QED
    BY <2>1, <2>2, <2>3 DEF ReleasedWhenOver
<1> QED
  BY <1>1, <1>2, <1>3, InitCall, CallStep, PTL DEF Spec
=============================================================================

--------------------------- MODULE OutboundService ---------------------------
(***************************************************************************)
(* What a back-to-back call promises to the extension that makes it and to *)
(* the carrier that bills it, leg against leg: the extension is told that  *)
(* the call is answered only once the carrier leg exists and not after its *)
(* withdrawal was taken note of, it is refused only while there is no      *)
(* carrier leg and then none is ever made, and nobody hangs up on the      *)
(* carrier while the extension still waits for its answer.                 *)
(***************************************************************************)
CONSTANT Request

VARIABLES
    caller,   \* the extension's leg: "None", "Offered", "Withdrawn", "Refused",
              \* "Answered", "Over"
    carrier,  \* the NGN's leg: "None", "Up", "Ended" by the NGN, "Released" by us
    asked,    \* the calls the extension has asked to withdraw
    confirmed \* and those for which it was told that they are

vars == <<caller, carrier, asked, confirmed>>

Init ==
    /\ caller = [r \in Request |-> "None"]
    /\ carrier = [r \in Request |-> "None"]
    /\ asked = {} /\ confirmed = {}

CallerFrom(r, from, s) == caller[r] \in from /\ caller' = [caller EXCEPT ![r] = s]
CarrierFrom(r, from, s) == carrier[r] \in from /\ carrier' = [carrier EXCEPT ![r] = s]

Offer(r)    == CallerFrom(r, {"None"}, "Offered") /\ UNCHANGED <<carrier, asked, confirmed>>
Ask(r)      == /\ caller[r] # "None" /\ asked' = asked \cup {r}
               /\ UNCHANGED <<caller, carrier, confirmed>>
Withdraw(r) == /\ r \in asked /\ CallerFrom(r, {"Offered"}, "Withdrawn")
               /\ UNCHANGED <<carrier, asked, confirmed>>
\* The withdrawal may cross the answer: then both are told.
Confirm(r)  == /\ r \in asked /\ confirmed' = confirmed \cup {r}
               /\ UNCHANGED <<caller, carrier, asked>>
Connect(r)  == /\ caller[r] = "Offered" /\ CarrierFrom(r, {"None"}, "Up")
               /\ UNCHANGED <<caller, asked, confirmed>>
Answer(r)   == /\ carrier[r] # "None" /\ CallerFrom(r, {"Offered"}, "Answered")
               /\ UNCHANGED <<carrier, asked, confirmed>>
Refuse(r)   == /\ carrier[r] = "None" /\ CallerFrom(r, {"Offered", "Withdrawn"}, "Refused")
               /\ UNCHANGED <<carrier, asked, confirmed>>
CarrierEnds(r) == CarrierFrom(r, {"Up"}, "Ended") /\ UNCHANGED <<caller, asked, confirmed>>
Release(r)  == /\ caller[r] \in {"Withdrawn", "Answered", "Over"}
               /\ CarrierFrom(r, {"Up", "Ended"}, "Released")
               /\ UNCHANGED <<caller, asked, confirmed>>
\* The extension hangs up: one BYE ends every call it made under one Call-ID.
HangUp(S)   == /\ \A r \in S : caller[r] = "Answered"
               /\ caller' = [r \in Request |-> IF r \in S THEN "Over" ELSE caller[r]]
               /\ UNCHANGED <<carrier, asked, confirmed>>
\* A transferred call is ended on both legs.
EndBoth(r)  == /\ CallerFrom(r, {"Answered", "Over"}, "Over")
               /\ CarrierFrom(r, {"Up", "Ended", "Released"}, "Released")
               /\ UNCHANGED <<asked, confirmed>>

Next ==
    \/ \E r \in Request :
          \/ Offer(r) \/ Ask(r) \/ Withdraw(r) \/ Confirm(r) \/ Connect(r) \/ Answer(r)
          \/ Refuse(r) \/ CarrierEnds(r) \/ Release(r) \/ EndBoth(r)
    \/ \E S \in SUBSET Request : HangUp(S)

Spec == Init /\ [][Next]_vars
=============================================================================

--------------------------- MODULE InboundService ---------------------------
(***************************************************************************)
(* What an NGN caller may rely on: an offered call is answered once, by a  *)
(* party that was ready to talk at that moment and stays the party, or is  *)
(* refused once; an answered call ends once.                               *)
(***************************************************************************)
CONSTANTS Party, None

VARIABLES
    call,    \* "None", "Offered", "Answered", "Refused", "Over"
    ready,   \* the parties that have picked up
    party    \* the one the caller talks to

vars == <<call, ready, party>>

Init == call = "None" /\ ready = {} /\ party = None

Offer  == call = "None" /\ call' = "Offered" /\ UNCHANGED <<ready, party>>
\* A party picks up, whether the call still needs one or not.
PickUp == \E p \in Party : ready' = ready \cup {p} /\ UNCHANGED <<call, party>>
Answer == /\ call = "Offered" /\ call' = "Answered"
          /\ \E p \in Party : /\ p \in ready'
                              /\ party' = p
          /\ ready \subseteq ready'
Refuse == call = "Offered" /\ call' = "Refused" /\ UNCHANGED <<ready, party>>
End    == call = "Answered" /\ call' = "Over" /\ UNCHANGED <<ready, party>>

Next == Offer \/ PickUp \/ Answer \/ Refuse \/ End
Spec == Init /\ [][Next]_vars
=============================================================================

--------------------------- MODULE MCOutboundCall ---------------------------
(* Finite instances of OutboundCall.                                       *)
EXTENDS OutboundCall

\* Two requests of one extension, each a call of its own.
TwoCalls == [r \in Request |-> r]
OneAor   == [r \in Request |-> CHOOSE a \in Aor : TRUE]
=============================================================================

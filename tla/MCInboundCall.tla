--------------------------- MODULE MCInboundCall ----------------------------
(* Finite instances of InboundCall.                                        *)
EXTENDS InboundCall
=============================================================================

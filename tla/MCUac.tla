------------------------------- MODULE MCUac --------------------------------
(* Finite instances of Uac: the transactions of a plan are named pairs.    *)
EXTENDS Uac

MCFirst  == [p \in Plan |-> <<p, "first">>]
MCRetry  == [p \in Plan |-> <<p, "retry">>]
MCCancel == [p \in Plan |-> <<p, "cancel">>]
MCInviteTx    == {<<p, a>> : p \in Plan, a \in {"first", "retry"}}
MCNonInviteTx == {<<p, "cancel">> : p \in Plan}
=============================================================================

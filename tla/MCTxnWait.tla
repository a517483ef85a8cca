----------------------------- MODULE MCTxnWait ----------------------------
(***************************************************************************)
(* TxnWait for TLC: transactions of instance a, waited for by a session    *)
(* of instance b and another one of either instance.                       *)
(***************************************************************************)
EXTENDS TxnWait, TLC

CONSTANTS a, b, s1, s2

MCInst == {a, b}
MCPlace == s1 :> {b} @@ s2 :> {a, b}
=============================================================================

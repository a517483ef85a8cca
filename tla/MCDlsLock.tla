----------------------------- MODULE MCDlsLock -----------------------------
(***************************************************************************)
(* Instances of DlsLock for TLC: instance a is the master; a and c have    *)
(* one session each, b has two.                                            *)
(***************************************************************************)
EXTENDS DlsLock, TLC

CONSTANTS a, b, c, sa, sb1, sb2, sc

MCInst == {a, b, c}
MCSession == {sa, sb1, sb2, sc}
MCHome == sa :> a @@ sb1 :> b @@ sb2 :> b @@ sc :> c
MCSmallSession == {sa, sb1, sc}
MCSmallHome == sa :> a @@ sb1 :> b @@ sc :> c
MCPairInst == {a, b}
MCPairSession == {sa, sb1, sb2}
MCPairHome == sa :> a @@ sb1 :> b @@ sb2 :> b

Symmetry == Permutations({sb1, sb2})
=============================================================================

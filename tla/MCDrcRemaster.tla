-------------------------- MODULE MCDrcRemaster --------------------------
(***************************************************************************)
(* DrcRemaster for TLC: instances 0, 1 and 2 and the reforms that change   *)
(* one of them.                                                            *)
(***************************************************************************)
EXTENDS DrcRemaster, TLC

CONSTANTS a, b, c, p1, p2, p3, p4

MCInst == {a, b, c}
MCId == a :> 0 @@ b :> 1 @@ c :> 2

N == [mode |-> "N", edp |-> 0]
S == [mode |-> "S", edp |-> 0]
X == [mode |-> "X", edp |-> 0]
E(lsn) == [mode |-> "N", edp |-> lsn]

Nothing == [p \in Part |-> N]
Held(ha, hb, hc) == a :> ha @@ b :> hb @@ c :> hc

Reform(r, before, join, leave, abort, m, h) ==
    [reformer |-> r, before |-> before, join |-> join, leave |-> leave, abort |-> abort,
     map |-> m, held |-> h]

One   == p1 :> a @@ p2 :> a @@ p3 :> a
Two   == p1 :> a @@ p2 :> b @@ p3 :> a
Three == p1 :> a @@ p2 :> b @@ p3 :> c

OnA   == Held(p1 :> X @@ p2 :> S @@ p3 :> N, Nothing, Nothing)
OnAB  == Held(p1 :> X @@ p2 :> E(2) @@ p3 :> S, p1 :> E(1) @@ p2 :> X @@ p3 :> S, Nothing)
OnABC == Held(p1 :> S @@ p2 :> N @@ p3 :> E(1), p1 :> S @@ p2 :> X @@ p3 :> E(2),
              p1 :> N @@ p2 :> E(1) @@ p3 :> X)
OnAC  == Held(p1 :> N @@ p2 :> N @@ p3 :> S, p1 :> E(1) @@ p2 :> N @@ p3 :> S,
              p1 :> X @@ p2 :> X @@ p3 :> S)

MCReforms ==
    { Reform(a, {a}, {b}, {}, {}, One, OnA),                  \* a second instance joins
      Reform(b, {a, b}, {c}, {}, {}, Two, OnAB),              \* a third one, reformer b
      Reform(a, {a, b}, {}, {b}, {}, Two, OnAB),              \* one of two leaves
      Reform(b, {a, b, c}, {}, {c}, {}, Three, OnABC),        \* one of three leaves
      Reform(a, {a, b}, {}, {}, {b}, Two, OnAB),              \* one of two dies
      Reform(a, {a, b, c}, {}, {}, {c}, Three, OnABC),        \* one of three dies; its
      Reform(b, {a, b, c}, {}, {}, {c}, Three, OnAC) }        \* part goes to instance 0

Four == p1 :> a @@ p2 :> b @@ p3 :> c @@ p4 :> a
OnB  == Held(Nothing, p1 :> N @@ p2 :> N @@ p3 :> X @@ p4 :> N, Nothing)

(* One of three dies, and its part goes to instance 1. *)
MCLost == { Reform(a, {a, b, c}, {}, {}, {c}, Four, OnB) }
=============================================================================

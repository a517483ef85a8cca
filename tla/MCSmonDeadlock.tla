-------------------------- MODULE MCSmonDeadlock --------------------------
(***************************************************************************)
(* Instances of SmonDeadlock for TLC: two instances.  In MCShared, MCPair  *)
(* and MCSame sessions of both have one sid, as the session pools of real  *)
(* instances do; in MCThree all sids differ.                               *)
(***************************************************************************)
EXTENDS SmonDeadlock

CONSTANTS a, b

MCInst == {a, b}
MCThree == {<<a, 1>>, <<a, 2>>, <<b, 3>>}
MCShared == {<<a, 1>>, <<a, 2>>, <<b, 2>>}
MCPair == {<<a, 1>>, <<b, 1>>}
MCSame == {<<a, 1>>, <<a, 2>>, <<b, 1>>, <<b, 2>>}
=============================================================================

------------------------------ MODULE PageLock ------------------------------
(***************************************************************************)
(* What the distributed cache promises for one page: instances take it in  *)
(* share or exclusive mode and give it up again, one writer or many        *)
(* readers at a time, and everybody who has it sees the last version.      *)
(* There is no master, no message and no disk here; DcsPage is shown to    *)
(* implement this specification.                                           *)
(***************************************************************************)
EXTENDS Naturals

CONSTANT Inst

VARIABLES lock,     \* lock[i]: 0 (none), 1 (share) or 2 (exclusive)
          version,  \* version[i]: {} or {v}, v the version i has in memory
          latest    \* the last version written

vars == <<lock, version, latest>>

Init == /\ lock = [i \in Inst |-> 0]
        /\ version = [i \in Inst |-> {}]
        /\ latest = 0

(* i takes the page; its contents come with the lock or are loaded later.  *)
Acquire(i, mode) ==
    /\ lock[i] < mode
    /\ \A j \in Inst \ {i} : lock[j] + mode <= 2
    /\ lock' = [lock EXCEPT ![i] = mode]
    /\ \E v \in {{}, {latest}} : version' = [version EXCEPT ![i] = v]
    /\ UNCHANGED latest

Load(i) ==
    /\ lock[i] # 0
    /\ version' = [version EXCEPT ![i] = {latest}]
    /\ UNCHANGED <<lock, latest>>

(* i keeps the page in a weaker mode, or gives it up. *)
Weaken(i, mode) ==
    /\ mode < lock[i]
    /\ lock' = [lock EXCEPT ![i] = mode]
    /\ version' = IF mode = 0 THEN [version EXCEPT ![i] = {}] ELSE version
    /\ UNCHANGED latest

(* A version is always made from the last one. *)
Write(i) ==
    /\ lock[i] = 2
    /\ version[i] = {latest}
    /\ latest' = latest + 1
    /\ version' = [version EXCEPT ![i] = {latest'}]
    /\ UNCHANGED lock

Next == \E i \in Inst : \/ \E mode \in {1, 2} : Acquire(i, mode)
                        \/ Load(i)
                        \/ \E mode \in {0, 1} : Weaken(i, mode)
                        \/ Write(i)

Spec == Init /\ [][Next]_vars
=============================================================================

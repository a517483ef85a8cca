--------------------------- MODULE SmonDeadlock ---------------------------
(***************************************************************************)
(* Detection of transaction deadlocks across instances (dtc_smon.c): the   *)
(* smon thread of every instance follows the waits of sessions, through    *)
(* messages to the other instances, and breaks a ring that it finds by     *)
(* failing the wait of one of its own sessions.  Nothing is locked: the    *)
(* waits change while it walks.  A ring is therefore walked twice.         *)
(*                                                                         *)
(* A session is <<inst, sid>>; sids of different instances may be equal.   *)
(* It has one rm and one transaction at a time.                            *)
(***************************************************************************)
EXTENDS Naturals, FiniteSets

CONSTANTS Inst,          \* instances
          Session,       \* sessions, pairs <<inst, sid>>
          NoSession,     \* OG_INVALID_ID16
          MaxWaits,      \* bound on the waits of all sessions
          MaxTxns,       \* bound on the transactions after the first ones
          MaxFaults      \* bound on the waits that reach their lock timeout
                         \* and the messages of smon that are lost

ASSUME SessionAssumption == /\ Session \subseteq Inst \X Nat
                            /\ IsFiniteSet(Session)
                            /\ NoSession \notin Session
ASSUME BoundsAssumption ==
    {MaxWaits, MaxTxns, MaxFaults} \subseteq Nat

VARIABLES txn,    \* txn[s]: the transaction of s
          wait,   \* wait[s]: what s waits for (wxid, wrmid)
          lsn,    \* lsn[s]: curr_lsn of s
          dead,   \* dead[s]: dead_locked of s
          det,    \* det[i]: the detection of instance i
          used    \* waits, transactions and faults so far

vars == <<txn, wait, lsn, dead, det, used>>

InstOf(s) == s[1]
SidOf(s) == s[2]
Local(i) == {s \in Session : InstOf(s) = i}

---------------------------------------------------------------------------
(* wxid and wrmid together name the session and the xnum waited for. *)
Wait == [on : Session \cup {NoSession}, xnum : Nat]
NoWait == [on |-> NoSession, xnum |-> 0]

(* dtc_dlock: what dtc_smon_get_txn_dlock reports of a session. *)
Dlock == [on : Session \cup {NoSession}, xnum : Nat, lsn : Nat]
NoDlock == [on |-> NoSession, xnum |-> 0, lsn |-> 0]

(* shot is dlockshot, marks the sids of wait_marks, at the session walked  *)
(* to, begin where the recheck began.  ring is no part of the code: it     *)
(* tells whether a recheck that is under way was entitled to succeed.      *)
Det == [pc : {"loop", "walk", "recheck", "look", "flag"},
        at : Session \cup {NoSession}, begin : Session \cup {NoSession},
        marks : SUBSET {SidOf(s) : s \in Session},
        shot : [Session -> Dlock], ring : BOOLEAN]
NoShot == [s \in Session |-> NoDlock]
NewRound == [pc |-> "loop", at |-> NoSession, begin |-> NoSession,
             marks |-> {}, shot |-> NoShot, ring |-> FALSE]

(* Types; and a detector only ever fails waits of its own sessions (the    *)
(* session flagged is looked up by its sid alone, dtc_smon.c:509).         *)
SmonTypeOK ==
    /\ txn \in [Session -> [xnum : 0 .. MaxTxns, active : BOOLEAN]]
    /\ wait \in [Session -> Wait]
    /\ lsn \in [Session -> Nat]
    /\ dead \in [Session -> BOOLEAN]
    /\ det \in [Inst -> Det]
    /\ \A i \in Inst : det[i].begin \in Local(i) \cup {NoSession}
    /\ used \in [{"wait", "txn", "fault"} -> Nat]

Init == /\ txn = [s \in Session |-> [xnum |-> 0, active |-> TRUE]]
        /\ wait = [s \in Session |-> NoWait]
        /\ lsn = [s \in Session |-> 0]
        /\ dead = [s \in Session |-> FALSE]
        /\ det = [i \in Inst |-> NewRound]
        /\ used = [k \in {"wait", "txn", "fault"} |-> 0]

---------------------------------------------------------------------------
(* The rings that really exist. *)
Ended(t, x) == ~txn[t].active \/ txn[t].xnum # x
WaitsFor(w, s, t) == w[s].on = t /\ t # NoSession /\ ~Ended(t, w[s].xnum)

(* The waits of w lead from s, through at most all sessions, to t. *)
Leads(w, s, t) ==
    \E k \in 1 .. Cardinality(Session) :
        \E p \in [0 .. k -> Session] :
            /\ p[0] = s /\ p[k] = t
            /\ \A j \in 0 .. k - 1 : WaitsFor(w, p[j], p[j + 1])
InRing(w, s) == Leads(w, s, s)

---------------------------------------------------------------------------
(* Sessions.                                                               *)

(* tx_wait: the snapshot of a transaction that has not ended; the flags of *)
(* an earlier detection are reset.                                         *)
BeginWait(s, t) ==
    /\ wait[s] = NoWait
    /\ txn[s].active /\ txn[t].active
    /\ s # t
    /\ used["wait"] < MaxWaits
    /\ wait' = [wait EXCEPT ![s] = [on |-> t, xnum |-> txn[t].xnum]]
    /\ dead' = [dead EXCEPT ![s] = FALSE]
    /\ det' = [i \in Inst |->
                 IF det[i].pc \in {"recheck", "look", "flag"}
                 THEN [det[i] EXCEPT !.ring = @ \/ InRing(wait', det[i].begin)]
                 ELSE det[i]]
    /\ used' = [used EXCEPT !["wait"] = @ + 1]
    /\ UNCHANGED <<txn, lsn>>

(* The transaction waited for has ended: the row is locked, which logs. *)
WaitSucceeds(s) ==
    /\ wait[s] # NoWait
    /\ Ended(wait[s].on, wait[s].xnum)
    /\ wait' = [wait EXCEPT ![s] = NoWait]
    /\ dead' = [dead EXCEPT ![s] = FALSE]
    /\ lsn' = [lsn EXCEPT ![s] = @ + 1]
    /\ UNCHANGED <<txn, det, used>>

(* The wait fails; the transaction goes on and may wait again. *)
Fails(s) ==
    /\ wait' = [wait EXCEPT ![s] = NoWait]
    /\ dead' = [dead EXCEPT ![s] = FALSE]
    /\ det' = [i \in Inst |-> [det[i] EXCEPT !.ring = @ \/ det[i].shot[s] # NoDlock]]
    /\ UNCHANGED <<txn, lsn>>

(* ERR_DEAD_LOCK of tx_check_wait_valid, ERR_LOCK_TIMEOUT of tx_wait. *)
WaitDeadlocked(s) == wait[s] # NoWait /\ dead[s] /\ Fails(s) /\ UNCHANGED used
WaitTimesOut(s) ==
    /\ wait[s] # NoWait
    /\ used["fault"] < MaxFaults
    /\ used' = [used EXCEPT !["fault"] = @ + 1]
    /\ Fails(s)

(* tx_end, which logs; the next transaction of the session reuses the slot. *)
EndTxn(s) ==
    /\ wait[s] = NoWait
    /\ txn[s].active
    /\ txn' = [txn EXCEPT ![s].active = FALSE]
    /\ lsn' = [lsn EXCEPT ![s] = @ + 1]
    /\ UNCHANGED <<wait, dead, det, used>>
BeginTxn(s) ==
    /\ ~txn[s].active
    /\ used["txn"] < MaxTxns
    /\ txn' = [txn EXCEPT ![s] = [xnum |-> @.xnum + 1, active |-> TRUE]]
    /\ used' = [used EXCEPT !["txn"] = @ + 1]
    /\ UNCHANGED <<wait, lsn, dead, det>>

---------------------------------------------------------------------------
(* The smon of instance i.                                                 *)
Read(s) == [on |-> wait[s].on, xnum |-> wait[s].xnum, lsn |-> lsn[s]]
Set(i, d) == det' = [det EXCEPT ![i] = d]
Back(i, d) == Set(i, [d EXCEPT !.pc = "loop", !.at = NoSession,
                               !.begin = NoSession, !.shot = NoShot,
                               !.ring = FALSE])

(* smon_check_active_sessions: the waiting sessions that no walk of this   *)
(* round has visited, in the order of their sids.                          *)
Candidates(i) == {s \in Local(i) : wait[s] # NoWait /\ SidOf(s) \notin det[i].marks}

Pick(i) ==
    /\ det[i].pc = "loop"
    /\ \E s \in Candidates(i) :
          /\ \A t \in Candidates(i) : SidOf(s) <= SidOf(t)
          /\ Set(i, [det[i] EXCEPT !.pc = "walk", !.at = s])
    /\ UNCHANGED <<txn, wait, lsn, dead, used>>

(* A round over the sessions is over: wait_marks is reset for the next. *)
EndRound(i) ==
    /\ det[i].pc = "loop"
    /\ Candidates(i) = {}
    /\ det[i].marks # {}
    /\ Set(i, NewRound)
    /\ UNCHANGED <<txn, wait, lsn, dead, used>>

(* A slip: the session that closes the ring is taken wherever it runs. *)
FindFirstLocal_Closing(i, shot, s) == s

(* dtc_smon_find_first_local_sid, along the ring that the walk has closed  *)
(* at s.  It stops when the next sid is that of s, whatever the instance.  *)
FindFirstLocal(i, shot, s) ==
    LET n == Cardinality(Session)
        walk[k \in 0 .. n] == IF k = 0 THEN s ELSE shot[walk[k - 1]].on
        stops(k) == SidOf(shot[walk[k]].on) = SidOf(s)
        found == {k \in 1 .. n : /\ InstOf(walk[k]) = i
                                 /\ \A j \in 0 .. k - 1 : ~stops(j)}
    IN IF found = {} THEN NoSession
       ELSE walk[CHOOSE k \in found : \A j \in found : k <= j]

(* A slip: the ring is taken for real without a second look. *)
Closed_NoRecheck(i, d, s) ==
    [d EXCEPT !.pc = "flag", !.begin = s, !.at = s, !.ring = InRing(wait, s)]

(* The recheck begins at a session of instance i in the ring. *)
Closed(i, d, s) ==
    [d EXCEPT !.pc = "recheck", !.begin = s, !.at = s, !.ring = InRing(wait, s)]

(* The first loop of dtc_smon_detect_dead_lock_in_cluster, one session. *)
Walk(i) ==
    LET s == det[i].at
        d == [det[i] EXCEPT !.shot[s] = Read(s),
                            !.marks = IF InstOf(s) = i THEN @ \cup {SidOf(s)} ELSE @]
        next == Read(s).on
        from == IF InstOf(next) = i THEN next ELSE FindFirstLocal(i, d.shot, next)
    IN
    /\ det[i].pc = "walk"
    /\ \/ /\ next = NoSession
          /\ Back(i, d)
       \/ /\ next # NoSession /\ d.shot[next] = NoDlock
          /\ Set(i, [d EXCEPT !.at = next])
       \/ /\ next # NoSession /\ d.shot[next] # NoDlock
          /\ IF from = NoSession THEN Back(i, d) ELSE Set(i, Closed(i, d, from))
    /\ UNCHANGED <<txn, wait, lsn, dead, used>>

(* The second loop: the session still waits as it did. *)
Recheck(i) ==
    LET d == det[i] IN
    /\ d.pc = "recheck"
    /\ IF Read(d.at) = d.shot[d.at] THEN Set(i, [d EXCEPT !.pc = "look"])
       ELSE Back(i, d)
    /\ UNCHANGED <<txn, wait, lsn, dead, used>>

(* ... and the transaction that it waits for is still under way. *)
Look(i) ==
    LET d == det[i]
        next == d.shot[d.at].on
    IN
    /\ d.pc = "look"
    /\ \/ /\ Ended(next, d.shot[d.at].xnum)
          /\ Back(i, d)
       \/ /\ ~Ended(next, d.shot[d.at].xnum)
          /\ Set(i, [d EXCEPT !.at = next,
                              !.pc = IF SidOf(next) = SidOf(d.begin) THEN "flag"
                                     ELSE "recheck"])
    /\ UNCHANGED <<txn, wait, lsn, dead, used>>

(* The ring has been logged. *)
Flag(i) ==
    /\ det[i].pc = "flag"
    /\ dead' = [dead EXCEPT ![det[i].begin] = TRUE]
    /\ Back(i, det[i])
    /\ UNCHANGED <<txn, wait, lsn, used>>

(* A message to another instance is not answered in time. *)
MessageFails(i) ==
    /\ det[i].pc \in {"walk", "recheck"}
    /\ InstOf(det[i].at) # i
    /\ used["fault"] < MaxFaults
    /\ used' = [used EXCEPT !["fault"] = @ + 1]
    /\ Back(i, det[i])
    /\ UNCHANGED <<txn, wait, lsn, dead>>

---------------------------------------------------------------------------
Detect(i) == Pick(i) \/ EndRound(i) \/ Walk(i) \/ Recheck(i) \/ Look(i) \/ Flag(i)
Next == \/ \E s \in Session : \/ \E t \in Session : BeginWait(s, t)
                              \/ WaitSucceeds(s) \/ WaitDeadlocked(s)
                              \/ WaitTimesOut(s) \/ EndTxn(s) \/ BeginTxn(s)
        \/ \E i \in Inst : Detect(i) \/ MessageFails(i)

(* The smon threads run, and a session in tx_wait looks at its flags and   *)
(* at the transaction every 5 ms.                                          *)
Fairness == /\ \A i \in Inst : WF_vars(Detect(i))
            /\ \A s \in Session : WF_vars(WaitSucceeds(s) \/ WaitDeadlocked(s))

Spec == Init /\ [][Next]_vars
FairSpec == Spec /\ Fairness

---------------------------------------------------------------------------
(* Properties.                                                             *)

(* A wait is failed only for a ring: at some moment of the recheck all its *)
(* waits existed together, unless one of them failed and was begun again   *)
(* meanwhile ("we need to recheck all session in ring", knl_smon.c:92).    *)
(* False where sessions of two instances have one sid.                     *)
RingsReal == \A i \in Inst : det[i].pc = "flag" => det[i].ring

(* What a successful recheck does show, whatever the sids: a ring in the   *)
(* sense of RingsReal, or, when it stopped at a session of another         *)
(* instance which has the sid of the one where it began (dtc_smon.c:560),  *)
(* a chain of waits that leads there and of which every wait exists at     *)
(* that moment: the sessions read first have not gone on meanwhile.        *)
WaitsReal ==
    [][\A i \in Inst : det[i].pc # "flag" /\ det'[i].pc = "flag" =>
          \/ det'[i].ring
          \/ /\ InstOf(det'[i].at) # i
             /\ Leads(wait, det'[i].begin, det'[i].at)]_vars

(* A deadlock does not last: smon breaks every ring of waits. *)
RingsBroken == \A s \in Session : InRing(wait, s) ~> ~InRing(wait, s)
=============================================================================

----------------------------- MODULE TxnWait ------------------------------
(***************************************************************************)
(* Waiting for the end of a transaction, of the own or of another instance *)
(* (tx_wait, tx_end in knl_tran.c; dls_wait_txn and its messages in        *)
(* dtc_dls.c; the two maps of waiters in dtc_drc.c).                       *)
(*                                                                         *)
(* A waiter asks the instance of the transaction, which records the        *)
(* waiter's instance, and sleeps on an entry of its own instance that all  *)
(* waiters for the transaction share.  The end of the transaction and the  *)
(* request race, wake-ups get lost or reach an entry that has been reused, *)
(* and every sleep is therefore a timed one.                               *)
(***************************************************************************)
EXTENDS Naturals, FiniteSets, FiniteSetsExt, Functions

CONSTANTS Inst,       \* instances
          Home,       \* the instance of the transactions waited for
          Slot,       \* transaction slots of Home
          Session,    \* sessions that wait
          Place,      \* Place[s]: the instances where session s may be
          Item,       \* items of the pool of local_txn_map
          None,       \* no item, no session
          MaxTxns,    \* bound on the transactions after the first ones
          MaxWaits,   \* bound on the calls of tx_wait
          MaxFaults   \* bound on failing requests and failing waits

ASSUME HomeAssumption == Home \in Inst
ASSUME SlotAssumption == IsFiniteSet(Slot)
ASSUME PlaceAssumption == Place \in [Session -> SUBSET Inst]
ASSUME NoneAssumption == None \notin Session \cup Item
ASSUME PoolAssumption == Cardinality(Item) >= Cardinality(Session)
ASSUME BoundsAssumption == {MaxTxns, MaxWaits, MaxFaults} \subseteq Nat

VARIABLES slot,       \* slot[k]: the txn_t and tx_item_t of slot k
          scn,        \* scn[i]: the SCN of instance i
          owscn,      \* ow_scn of the undo segment
          txnRes,     \* txnRes[x]: ins_map of x in txn_res_map, {} if no entry
          localTxn,   \* localTxn[i][x]: the item of x in local_txn_map
          sess,       \* sess[s]: the call of tx_wait of s
          handlers,   \* WAIT_TXN requests being handled and their answers
          awakes,     \* AWAKE_TXN messages on their way
          used        \* transactions, waits and faults so far

vars == <<slot, scn, owscn, txnRes, localTxn, sess, handlers, awakes, used>>
txnVars == <<slot, owscn>>
netVars == <<handlers, awakes>>

Xnum == 0 .. MaxTxns
Xid == Slot \X Xnum
SlotOf(x) == x[1]
XnumOf(x) == x[2]

---------------------------------------------------------------------------
(* State.                                                                  *)

(* The stages of tx_end: in_progress is TRUE in "ending" and "ended", the  *)
(* status is XACT_END from "ended" on, and the waiters have been woken in  *)
(* "released", after which the slot may be used again.                     *)
Stage == {"active", "ending", "ended", "done", "released"}

SessPc == {"idle", "enter", "loop", "asked", "register", "held", "asleep",
           "awoken", "check", "leave"}
Idle == [pc |-> "idle", inst |-> Home, xid |-> <<>>, item |-> None, ok |-> FALSE]
Remote(s) == sess[s].inst # Home

Scns == 0 .. Cardinality(Slot) + MaxTxns
Handler == [to : Session \cup {None}, inst : Inst, xid : Xid,
            pc : {"read", "enqueue", "recheck", "answer"},
            end : BOOLEAN, scn : Scns]
Awake == [to : Inst, xid : Xid, scn : Scns]

(* Types; and an item of the pool serves one transaction at a time.        *)
WaitTypeOK ==
    /\ slot \in [Slot -> [xnum : Xnum, stage : Stage, scn : Scns]]
    /\ scn \in [Inst -> Scns]
    /\ owscn \in Scns
    /\ txnRes \in [Xid -> SUBSET Inst]
    /\ localTxn \in [Inst -> [Xid -> Item \cup {None}]]
    /\ \A i \in Inst : \A x, y \in Xid :
          localTxn[i][x] = localTxn[i][y] /\ x # y => localTxn[i][x] = None
    /\ sess \in [Session -> [pc : SessPc, inst : Inst, xid : Xid \cup {<<>>},
                             item : Item \cup {None}, ok : BOOLEAN]]
    /\ handlers \subseteq Handler
    /\ awakes \subseteq Awake
    /\ used \in [{"txn", "wait", "fault"} -> Nat]

Init == /\ slot = [k \in Slot |-> [xnum |-> 0, stage |-> "active", scn |-> 0]]
        /\ scn = [i \in Inst |-> 0]
        /\ owscn = 0
        /\ txnRes = [x \in Xid |-> {}]
        /\ localTxn = [i \in Inst |-> [x \in Xid |-> None]]
        /\ sess = [s \in Session |-> Idle]
        /\ handlers = {}
        /\ awakes = {}
        /\ used = [k \in {"txn", "wait", "fault"} |-> 0]

---------------------------------------------------------------------------
(* What is seen of a transaction.                                          *)
HasEnded(k) == slot[k].stage \in {"ended", "done", "released"}
InProgress(k) == slot[k].stage \in {"ending", "ended"}
Reused(x) == slot[SlotOf(x)].xnum # XnumOf(x)

(* The test that tx_wait and dls_wait_txn make on a snapshot. *)
Over(x) == Reused(x) \/ HasEnded(SlotOf(x))

(* dtc_update_scn. *)
Caught(i, n) == [scn EXCEPT ![i] = Max({@, n})]

(* tx_get_snapshot by instance i: a remote snapshot that says XACT_END     *)
(* brings the SCN of the transaction that is in the slot now.              *)
ScnAfterSnapshot(i, x) ==
    IF i # Home /\ HasEnded(SlotOf(x)) THEN Caught(i, slot[SlotOf(x)].scn) ELSE scn

(* tx_get_info with is_scan FALSE. *)
InfoEnd(x) == Reused(x) \/ (HasEnded(SlotOf(x)) /\ ~InProgress(SlotOf(x)))
InfoScn(x) ==
    LET t == slot[SlotOf(x)] IN
    IF t.xnum = XnumOf(x) \/ (t.xnum = XnumOf(x) + 1 /\ ~HasEnded(SlotOf(x)))
    THEN t.scn ELSE owscn

(* drc_release_txn: a wake-up to every instance of the entry, which goes. *)
AwakesFor(x, n) == {[to |-> i, xid |-> x, scn |-> n] : i \in txnRes[x] \ {Home}}
NoTxnRes(x) == [txnRes EXCEPT ![x] = {}]

---------------------------------------------------------------------------
(* The transaction: tx_end in four steps, then the next one in its slot.   *)
EndBegins(k) ==
    /\ slot[k].stage = "active"
    /\ slot' = [slot EXCEPT ![k].stage = "ending"]
    /\ UNCHANGED <<scn, owscn, txnRes, localTxn, sess, netVars, used>>

EndCommits(k) ==
    /\ slot[k].stage = "ending"
    /\ scn' = [scn EXCEPT ![Home] = @ + 1]
    /\ owscn' = Max({owscn, slot[k].scn})
    /\ slot' = [slot EXCEPT ![k].stage = "ended", ![k].scn = scn[Home] + 1]
    /\ UNCHANGED <<txnRes, localTxn, sess, netVars, used>>

EndDone(k) ==
    /\ slot[k].stage = "ended"
    /\ slot' = [slot EXCEPT ![k].stage = "done"]
    /\ UNCHANGED <<scn, owscn, txnRes, localTxn, sess, netVars, used>>

(* dls_release_txn: the waiters of Home sleep on the cond of the rm. *)
EndReleases(k) ==
    LET x == <<k, slot[k].xnum>> IN
    /\ slot[k].stage = "done"
    /\ slot' = [slot EXCEPT ![k].stage = "released"]
    /\ sess' = [s \in Session |->
                  IF /\ ~Remote(s) /\ sess[s].pc = "asleep"
                     /\ SlotOf(sess[s].xid) = k
                  THEN [sess[s] EXCEPT !.pc = "awoken"] ELSE sess[s]]
    /\ awakes' = awakes \cup AwakesFor(x, slot[k].scn)
    /\ txnRes' = NoTxnRes(x)
    /\ UNCHANGED <<scn, owscn, localTxn, handlers, used>>

BeginTxn(k) ==
    /\ slot[k].stage = "released"
    /\ used["txn"] < MaxTxns
    /\ slot' = [slot EXCEPT ![k].xnum = @ + 1, ![k].stage = "active"]
    /\ used' = [used EXCEPT !["txn"] = @ + 1]
    /\ UNCHANGED <<scn, owscn, txnRes, localTxn, sess, netVars>>

---------------------------------------------------------------------------
(* The waiter.                                                             *)
Goto(s, pc) == [sess EXCEPT ![s].pc = pc]
Up(s, pc) == [sess EXCEPT ![s].pc = pc, ![s].item = None]
Leave(s, ok) == [sess EXCEPT ![s].pc = "leave", ![s].item = None, ![s].ok = ok]

(* A session of instance i has met a row of a transaction that was active. *)
StartWait(s, i, k) ==
    /\ sess[s] = Idle
    /\ slot[k].stage = "active"
    /\ used["wait"] < MaxWaits
    /\ sess' = [sess EXCEPT ![s] = [Idle EXCEPT !.pc = "enter", !.inst = i,
                                               !.xid = <<k, slot[k].xnum>>]]
    /\ used' = [used EXCEPT !["wait"] = @ + 1]
    /\ UNCHANGED <<txnVars, scn, txnRes, localTxn, netVars>>

(* tx_wait up to its loop. *)
Enter(s) ==
    LET x == sess[s].xid IN
    /\ sess[s].pc = "enter"
    /\ scn' = ScnAfterSnapshot(sess[s].inst, x)
    /\ sess' = IF Over(x) THEN [sess EXCEPT ![s] = Idle] ELSE Goto(s, "loop")
    /\ UNCHANGED <<txnVars, txnRes, localTxn, netVars, used>>

(* dls_wait_txn for a transaction of the own instance. *)
SleepAtHome(s) ==
    /\ sess[s].pc = "loop" /\ ~Remote(s)
    /\ sess' = Goto(s, "asleep")
    /\ UNCHANGED <<txnVars, scn, txnRes, localTxn, netVars, used>>

(* dls_wait_txn for one of another instance: dls_request_txn_msg. *)
Ask(s) ==
    /\ sess[s].pc = "loop" /\ Remote(s)
    /\ sess' = Goto(s, "asked")
    /\ handlers' = handlers \cup {[to |-> s, inst |-> sess[s].inst, xid |-> sess[s].xid,
                                   pc |-> "read", end |-> FALSE, scn |-> 0]}
    /\ UNCHANGED <<txnVars, scn, txnRes, localTxn, awakes, used>>

(* The request is not sent, or its answer does not come: the wait goes on. *)
AskFails(s) ==
    /\ used["fault"] < MaxFaults
    /\ used' = [used EXCEPT !["fault"] = @ + 1]
    /\ sess' = Goto(s, "check")
    /\ \E h \in handlers :
          /\ h.to = s
          /\ \/ h.pc = "read" /\ handlers' = handlers \ {h}
             \/ handlers' = (handlers \ {h}) \cup {[h EXCEPT !.to = None]}
    /\ UNCHANGED <<txnVars, scn, txnRes, localTxn, awakes>>

(* A slip: the SCN of the answer is not taken over. *)
ScnOfAnswer_Ignored(s, h) == scn

(* ... the answer. *)
ScnOfAnswer(s, h) == IF h.end THEN Caught(sess[s].inst, h.scn) ELSE scn
Answered(s) ==
    \E h \in handlers :
       /\ h.to = s /\ h.pc = "answer"
       /\ handlers' = handlers \ {h}
       /\ scn' = ScnOfAnswer(s, h)
       /\ sess' = IF h.end THEN Leave(s, TRUE) ELSE Goto(s, "register")
       /\ UNCHANGED <<txnVars, txnRes, localTxn, awakes, used>>

(* A slip: an item in use is handed out. *)
FreeItems_All(i) == Item

(* drc_local_txn_wait: the entry, made if need be, then its cond. *)
FreeItems(i) == Item \ Range(localTxn[i])
Register(s) ==
    LET i == sess[s].inst
        x == sess[s].xid
    IN
    /\ sess[s].pc = "register"
    /\ \E m \in IF localTxn[i][x] = None THEN FreeItems(i) ELSE {localTxn[i][x]} :
          /\ localTxn' = [localTxn EXCEPT ![i][x] = m]
          /\ sess' = [sess EXCEPT ![s].pc = "held", ![s].item = m]
    /\ UNCHANGED <<txnVars, scn, txnRes, netVars, used>>

Sleep(s) ==
    /\ sess[s].pc = "held"
    /\ sess' = Goto(s, "asleep")
    /\ UNCHANGED <<txnVars, scn, txnRes, localTxn, netVars, used>>

(* The entry has been recycled by another waiter (drc_local_txn_recyle) and *)
(* its item serves a transaction of its own, whose end wakes s.            *)
WokenByOther(s) ==
    /\ sess[s].pc = "asleep"
    /\ sess[s].item # None /\ localTxn[sess[s].inst][sess[s].xid] # sess[s].item
    /\ sess' = Goto(s, "awoken")
    /\ UNCHANGED <<txnVars, scn, txnRes, localTxn, netVars, used>>

(* A slip: cm_wait_cond_no_timeout. *)
SleepEnds_OnlyWoken(s) == FALSE /\ UNCHANGED vars

(* cm_wait_cond reaches TX_WAIT_INTERVEL. *)
SleepEnds(s) ==
    /\ sess[s].pc = "asleep"
    /\ sess' = Up(s, "check")
    /\ UNCHANGED <<txnVars, scn, txnRes, localTxn, netVars, used>>

(* A slip: a wake-up is taken for the end of the transaction. *)
Awoken_Trusting(s) ==
    /\ sess[s].pc = "awoken"
    /\ sess' = Leave(s, TRUE)
    /\ UNCHANGED <<txnVars, scn, txnRes, localTxn, netVars, used>>

(* The end of dls_wait_txn after a wake-up. *)
Awoken(s) ==
    LET x == sess[s].xid IN
    /\ sess[s].pc = "awoken"
    /\ scn' = ScnAfterSnapshot(sess[s].inst, x)
    /\ sess' = IF Over(x) THEN Leave(s, TRUE) ELSE Up(s, "check")
    /\ UNCHANGED <<txnVars, txnRes, localTxn, netVars, used>>

(* The rest of tx_wait's loop: the lock timeout or a flag of               *)
(* tx_check_wait_valid, or another snapshot.                               *)
CheckFails(s) ==
    /\ sess[s].pc = "check"
    /\ used["fault"] < MaxFaults
    /\ used' = [used EXCEPT !["fault"] = @ + 1]
    /\ sess' = Leave(s, FALSE)
    /\ UNCHANGED <<txnVars, scn, txnRes, localTxn, netVars>>

Check(s) ==
    LET x == sess[s].xid IN
    /\ sess[s].pc = "check"
    /\ scn' = ScnAfterSnapshot(sess[s].inst, x)
    /\ sess' = IF Over(x) THEN Leave(s, TRUE) ELSE Goto(s, "loop")
    /\ UNCHANGED <<txnVars, txnRes, localTxn, netVars, used>>

(* dls_wait_txn_recyle, whoever else waits on the entry. *)
Recycled(s) == IF ~Remote(s) THEN localTxn
               ELSE [localTxn EXCEPT ![sess[s].inst][sess[s].xid] = None]
EndWait(s) ==
    /\ sess[s].pc = "leave"
    /\ localTxn' = Recycled(s)
    /\ sess' = [sess EXCEPT ![s] = Idle]
    /\ UNCHANGED <<txnVars, scn, txnRes, netVars, used>>

---------------------------------------------------------------------------
(* Messages.                                                               *)
Becomes(h, g) == handlers' = (handlers \ {h}) \cup {g}
AnswerOf(h, end, n) == [h EXCEPT !.pc = "answer", !.end = end, !.scn = n]

(* dls_process_txn_wait in three steps: look, enqueue, look again.         *)
HandleRead(h) ==
    /\ h.pc = "read"
    /\ Becomes(h, IF InfoEnd(h.xid) THEN AnswerOf(h, TRUE, InfoScn(h.xid))
                  ELSE [h EXCEPT !.pc = "enqueue"])
    /\ UNCHANGED <<txnVars, scn, txnRes, localTxn, sess, awakes, used>>

HandleEnqueue(h) ==
    /\ h.pc = "enqueue"
    /\ txnRes' = [txnRes EXCEPT ![h.xid] = @ \cup {h.inst}]
    /\ Becomes(h, [h EXCEPT !.pc = "recheck"])
    /\ UNCHANGED <<txnVars, scn, localTxn, sess, awakes, used>>

(* A slip: no second look. *)
HandleRecheck_Skipped(h) ==
    /\ h.pc = "recheck"
    /\ Becomes(h, AnswerOf(h, FALSE, 0))
    /\ UNCHANGED <<txnVars, scn, txnRes, localTxn, sess, awakes, used>>

HandleRecheck(h) ==
    LET x == h.xid IN
    /\ h.pc = "recheck"
    /\ Becomes(h, IF InfoEnd(x) THEN AnswerOf(h, TRUE, InfoScn(x))
                  ELSE AnswerOf(h, FALSE, 0))
    /\ awakes' = IF InfoEnd(x) THEN awakes \cup AwakesFor(x, scn[Home]) ELSE awakes
    /\ txnRes' = IF InfoEnd(x) THEN NoTxnRes(x) ELSE txnRes
    /\ UNCHANGED <<txnVars, scn, localTxn, sess, used>>

(* An answer nobody waits for any more is dropped. *)
DropAnswer(h) ==
    /\ h.pc = "answer" /\ h.to = None
    /\ handlers' = handlers \ {h}
    /\ UNCHANGED <<txnVars, scn, txnRes, localTxn, sess, awakes, used>>

(* dls_process_txn_awake: whoever sleeps on the item wakes. *)
ProcessAwake(m) ==
    LET item == localTxn[m.to][m.xid] IN
    /\ awakes' = awakes \ {m}
    /\ sess' = [s \in Session |->
                  IF /\ sess[s].inst = m.to /\ sess[s].pc = "asleep"
                     /\ sess[s].item = item /\ item # None
                  THEN [sess[s] EXCEPT !.pc = "awoken"] ELSE sess[s]]
    /\ scn' = Caught(m.to, m.scn)
    /\ UNCHANGED <<txnVars, txnRes, localTxn, handlers, used>>

---------------------------------------------------------------------------
EndStep(k) == EndCommits(k) \/ EndDone(k) \/ EndReleases(k)
SessionStep(s) == \/ Enter(s) \/ SleepAtHome(s) \/ Ask(s) \/ Answered(s)
                  \/ Register(s) \/ Sleep(s) \/ SleepEnds(s) \/ Awoken(s)
                  \/ Check(s) \/ EndWait(s)
Handle(h) == HandleRead(h) \/ HandleEnqueue(h) \/ HandleRecheck(h) \/ DropAnswer(h)

Next == \/ \E k \in Slot : EndBegins(k) \/ EndStep(k) \/ BeginTxn(k)
        \/ \E s \in Session : \/ \E i \in Place[s], k \in Slot : StartWait(s, i, k)
                              \/ SessionStep(s) \/ WokenByOther(s) \/ AskFails(s) \/ CheckFails(s)
        \/ \E h \in handlers : Handle(h)
        \/ \E m \in awakes : ProcessAwake(m)

(* Threads run and messages arrive; a transaction need not end. *)
Fairness == /\ \A s \in Session : WF_vars(SessionStep(s))
            /\ \A s \in Session : WF_vars(\E h \in handlers : h.to = s /\ Handle(h))

Spec == Init /\ [][Next]_vars
FairSpec == Spec /\ Fairness

---------------------------------------------------------------------------
(* Properties.                                                             *)

(* tx_wait succeeds only when the transaction has ended, although sleepers *)
(* are also woken through an entry that was recycled under them and serves *)
(* another transaction (dtc_drc.c:3395).                                   *)
EndedWhenWaited == \A s \in Session : sess[s].pc = "leave" /\ sess[s].ok => Over(sess[s].xid)

(* A wait that succeeded leaves the instance with an SCN that sees what    *)
(* the transaction has done, as long as its slot is not in use again.      *)
ScnCaughtUp ==
    \A s \in Session :
       LET x == sess[s].xid IN
       sess[s].pc = "leave" /\ sess[s].ok /\ ~Reused(x)
          => scn[sess[s].inst] >= slot[SlotOf(x)].scn

(* No entry is left behind in either map, which would exhaust its pool, a  *)
(* knl_panic (dtc_drc.c:3328): of a request and the tx_end it races with   *)
(* one has seen the other, and every entry of local_txn_map belongs to a   *)
(* wait that will recycle it.                                              *)
NoEntryLeft ==
    /\ \A x \in Xid :
          /\ Reused(x) \/ slot[SlotOf(x)].stage = "released"
          /\ ~ \E h \in handlers : h.xid = x /\ h.pc = "recheck"
          => txnRes[x] = {}
    /\ \A i \in Inst : \A x \in Xid :
          localTxn[i][x] # None
             => \E s \in Session : sess[s].inst = i /\ sess[s].xid = x

(* Whoever waits for a transaction that has ended gets through, whichever  *)
(* wake-ups were lost.                                                     *)
WaitsEnd == \A s \in Session :
               (sess[s].pc # "idle" /\ Over(sess[s].xid)) ~> sess[s].pc = "idle"
=============================================================================

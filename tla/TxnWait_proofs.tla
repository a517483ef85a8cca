--------------------------- MODULE TxnWait_proofs ---------------------------
(***************************************************************************)
(* Waiting for transactions is correct for any number of instances, slots, *)
(* sessions and items and for any bounds: a wait succeeds only when its    *)
(* transaction has ended, and with the SCN of that end; no entry of a map  *)
(* of waiters is left behind.                                              *)
(***************************************************************************)
EXTENDS TxnWait, FiniteSetTheorems, TLAPS

(* The SCN of Home counts the ends so far: one for every transaction but   *)
(* the ones that are now active.                                           *)
EndedSlots == {k \in Slot : HasEnded(k)}
Counted == /\ scn[Home] = used["txn"] + Cardinality(EndedSlots)
           /\ used["txn"] <= MaxTxns
           /\ \A k \in Slot : /\ slot[k].xnum <= used["txn"]
                              /\ slot[k].scn <= scn[Home]

(* x has begun. *)
Known(x) == x \in Xid /\ XnumOf(x) <= slot[SlotOf(x)].xnum

(* x has ended, and unless its slot is in use again n has caught up. *)
SeenEnd(x, n) == Over(x) /\ (Reused(x) \/ slot[SlotOf(x)].scn <= n)

(* What holds of a session, of a request and of an entry. *)
Waiter(s) ==
    /\ sess[s].pc # "idle" => Known(sess[s].xid)
    /\ sess[s].pc \in {"asked", "register", "held"} => Remote(s)
    /\ sess[s].pc = "leave" /\ sess[s].ok => SeenEnd(sess[s].xid, scn[sess[s].inst])
AskedBy(s, h) == /\ sess[s].pc = "asked"
                 /\ sess[s].inst = h.inst /\ sess[s].xid = h.xid
Request(h) ==
    /\ Known(h.xid)
    /\ h.to # None => AskedBy(h.to, h)
    /\ h.pc = "answer" /\ h.end => SeenEnd(h.xid, h.scn)
WaitsFor(s, i, x) == /\ sess[s].inst = i /\ sess[s].xid = x
                     /\ sess[s].pc \notin {"idle", "enter"}
EntryUsed(i, x) == localTxn[i][x] # None
                      => i # Home /\ \E s \in Session : WaitsFor(s, i, x)
EntryReleased(x) ==
    /\ Reused(x) \/ slot[SlotOf(x)].stage = "released"
    /\ ~ \E h \in handlers : h.xid = x /\ h.pc = "recheck"
    => txnRes[x] = {}

Waiters == \A s \in Session : Waiter(s)
Requests == /\ \A h \in handlers : Request(h)
            /\ \A g, h \in handlers : g.to = h.to /\ g.to # None => g = h
Entries == /\ \A i \in Inst, x \in Xid : EntryUsed(i, x)
           /\ \A x \in Xid : EntryReleased(x)
Awakes == \A m \in awakes : m.to # Home

IInv == WaitTypeOK /\ Counted /\ Waiters /\ Requests /\ Entries /\ Awakes

Slots == [xnum : Xnum, stage : Stage, scn : Scns]
Call == [pc : SessPc, inst : Inst, xid : Xid \cup {<<>>},
         item : Item \cup {None}, ok : BOOLEAN]
Counters == [{"txn", "wait", "fault"} -> Nat]

---------------------------------------------------------------------------
(* The larger of two SCNs. *)
LEMMA MaxOfTwo ==
    ASSUME NEW m \in Nat, NEW n \in Nat
    PROVE  Max({m, n}) \in {m, n} /\ Max({m, n}) >= m /\ Max({m, n}) >= n
<1>1. \E x \in {m, n} : \A y \in {m, n} : x >= y
  <2>1. CASE m >= n
    BY <2>1
  <2>2. CASE ~(m >= n)
    BY <2>2
  <2>3. QED
    BY <2>1, <2>2
<1>2. Max({m, n}) = CHOOSE x \in {m, n} : \A y \in {m, n} : x >= y
  BY DEF Max
<1>3. QED
  BY <1>1, <1>2

(* SCNs are numbers, and the SCN of a slot is one. *)
LEMMA ScnsNat == Scns \subseteq Nat /\ 0 \in Scns /\ 0 \in Xnum /\ Xnum \subseteq Nat
<1>1. Cardinality(Slot) \in Nat
  BY SlotAssumption, FS_CardinalityType
<1>2. MaxTxns \in Nat
  BY BoundsAssumption
<1>3. QED
  BY <1>1, <1>2 DEF Scns, Xnum

(* A snapshot taken from a remote instance, the answer of a request and a  *)
(* wake-up only raise the SCN of an instance other than Home.              *)
LEMMA ScnRises ==
    ASSUME scn \in [Inst -> Scns], NEW i \in Inst, NEW n \in Scns
    PROVE  /\ Caught(i, n) \in [Inst -> Scns]
           /\ \A j \in Inst : Caught(i, n)[j] >= scn[j]
           /\ \A j \in Inst \ {i} : Caught(i, n)[j] = scn[j]
           /\ Caught(i, n)[i] >= n
<1>1. scn[i] \in Nat /\ n \in Nat
  BY ScnsNat
<1>2. Max({scn[i], n}) \in {scn[i], n} /\ Max({scn[i], n}) >= scn[i] /\ Max({scn[i], n}) >= n
  BY <1>1, MaxOfTwo
<1>3. Caught(i, n) = [scn EXCEPT ![i] = Max({scn[i], n})]
  BY DEF Caught
<1>4. \A j \in Inst : scn[j] \in Nat
  BY ScnsNat
<1>5. QED
  BY <1>2, <1>3, <1>4

(* The snapshot of tx_get_snapshot. *)
LEMMA SnapshotRises ==
    ASSUME WaitTypeOK, NEW i \in Inst, NEW x \in Xid
    PROVE  LET n == ScnAfterSnapshot(i, x) IN
           /\ n \in [Inst -> Scns]
           /\ \A j \in Inst : n[j] >= scn[j]
           /\ n[Home] = scn[Home]
           /\ i # Home /\ HasEnded(SlotOf(x)) => n[i] >= slot[SlotOf(x)].scn
<1>1. SlotOf(x) \in Slot
  BY DEF Xid, SlotOf
<1>2. slot[SlotOf(x)].scn \in Scns /\ scn \in [Inst -> Scns]
  BY <1>1 DEF WaitTypeOK
<1>3. \A j \in Inst : scn[j] \in Nat
  BY <1>2, ScnsNat
<1>4. CASE i # Home /\ HasEnded(SlotOf(x))
  BY <1>2, <1>4, ScnRises, HomeAssumption DEF ScnAfterSnapshot
<1>5. CASE ~(i # Home /\ HasEnded(SlotOf(x)))
  BY <1>2, <1>3, <1>5, HomeAssumption DEF ScnAfterSnapshot
<1>6. QED
  BY <1>4, <1>5

(* The invariant holds at the start. *)
LEMMA InitIInv == Init => IInv
<1> SUFFICES ASSUME Init PROVE IInv
  OBVIOUS
<1>1. WaitTypeOK
  BY ScnsNat, HomeAssumption DEF Init, WaitTypeOK, Idle, SessPc, Stage
<1>2. EndedSlots = {}
  BY DEF Init, EndedSlots, HasEnded
<1>3. Counted
  BY <1>2, FS_EmptySet, HomeAssumption, BoundsAssumption DEF Init, Counted
<1>4. Waiters
  BY DEF Init, Waiters, Waiter, Idle
<1>5. Requests /\ Entries /\ Awakes
  BY DEF Init, Requests, Entries, EntryUsed, EntryReleased, Awakes
<1>6. QED
  BY <1>1, <1>3, <1>4, <1>5 DEF IInv

---------------------------------------------------------------------------
(* A step of a transaction: what was known and seen to have ended stays so. *)
LEMMA SlotStep ==
    ASSUME WaitTypeOK, NEW k \in Slot, NEW t \in Slots,
           slot' = [slot EXCEPT ![k] = t],
           \/ t.xnum > slot[k].xnum
           \/ /\ t.xnum = slot[k].xnum
              /\ HasEnded(k) => /\ t.stage \in {"ended", "done", "released"}
                                /\ t.scn = slot[k].scn
    PROVE  /\ slot' \in [Slot -> Slots]
           /\ \A x \in Xid : Known(x) => Known(x)'
           /\ \A x \in Xid : \A n \in Nat : Known(x) /\ SeenEnd(x, n) => SeenEnd(x, n)'
<1>1. slot \in [Slot -> Slots]
  BY DEF WaitTypeOK, Slots
<1>2. \A j \in Slot : /\ slot[j].xnum \in Nat /\ slot'[j].xnum \in Nat
                       /\ slot[j].scn \in Nat /\ slot'[j].scn \in Nat
  BY <1>1, ScnsNat DEF Slots
<1>3. \A j \in Slot : slot'[j].xnum >= slot[j].xnum
  BY <1>1, <1>2
<1>4. \A x \in Xid : SlotOf(x) \in Slot /\ XnumOf(x) \in Nat
  BY ScnsNat DEF Xid, SlotOf, XnumOf
<1>5. ASSUME NEW x \in Xid, Known(x) PROVE Known(x)'
  BY <1>2, <1>3, <1>4, <1>5 DEF Known
<1>6. ASSUME NEW x \in Xid, NEW n \in Nat, Known(x), SeenEnd(x, n) PROVE SeenEnd(x, n)'
  <2>1. CASE Reused(x)
    BY <1>2, <1>3, <1>4, <1>6, <2>1 DEF SeenEnd, Over, Reused, Known
  <2>2. CASE ~Reused(x) /\ SlotOf(x) # k
    <3>1. slot'[SlotOf(x)] = slot[SlotOf(x)]
      BY <1>1, <1>4, <2>2
    <3>2. QED
      BY <3>1, <2>2, <1>6 DEF SeenEnd, Over, Reused, HasEnded
  <2>3. CASE ~Reused(x) /\ SlotOf(x) = k
    <3>1. slot'[k] = t /\ slot[k].xnum = XnumOf(x) /\ HasEnded(k) /\ slot[k].scn <= n
      BY <1>1, <1>6, <2>3 DEF SeenEnd, Over, Reused
    <3>2. CASE t.xnum > slot[k].xnum
      BY <3>1, <3>2, <2>3, <1>2 DEF SeenEnd, Over, Reused
    <3>3. CASE ~(t.xnum > slot[k].xnum)
      BY <3>1, <3>3, <2>3 DEF SeenEnd, Over, Reused, HasEnded
    <3>4. QED
      BY <3>2, <3>3
  <2>4. QED
    BY <2>1, <2>2, <2>3
<1>7. QED
  BY <1>1, <1>5, <1>6

(* What a request and a session keep, when transactions step, SCNs rise    *)
(* and sleepers are woken.                                                 *)
LEMMA WakeStep ==
    ASSUME WaitTypeOK, Waiters, Requests, \A i \in Inst, x \in Xid : EntryUsed(i, x),
           slot' \in [Slot -> Slots],
           \A x \in Xid : Known(x) => Known(x)',
           \A x \in Xid : \A n \in Nat : Known(x) /\ SeenEnd(x, n) => SeenEnd(x, n)',
           scn' \in [Inst -> Scns], \A i \in Inst : scn'[i] >= scn[i],
           UNCHANGED <<localTxn, handlers>>,
           \A s \in Session :
              \/ sess'[s] = sess[s]
              \/ sess[s].pc = "asleep" /\ sess'[s] = [sess[s] EXCEPT !.pc = "awoken"]
    PROVE  Waiters' /\ Requests' /\ (\A i \in Inst, x \in Xid : EntryUsed(i, x))'
<1>1. \A s \in Session : /\ sess[s] \in Call
                         /\ sess'[s].inst = sess[s].inst /\ sess'[s].xid = sess[s].xid
                         /\ sess'[s].ok = sess[s].ok
                         /\ \/ sess'[s].pc = sess[s].pc
                            \/ sess[s].pc = "asleep" /\ sess'[s].pc = "awoken"
  <2>1. sess \in [Session -> Call]
    BY DEF WaitTypeOK, Call
  <2> SUFFICES ASSUME NEW s \in Session
               PROVE  /\ sess[s] \in Call
                      /\ sess'[s].inst = sess[s].inst /\ sess'[s].xid = sess[s].xid
                      /\ sess'[s].ok = sess[s].ok
                      /\ \/ sess'[s].pc = sess[s].pc
                         \/ sess[s].pc = "asleep" /\ sess'[s].pc = "awoken"
    OBVIOUS
  <2>2. CASE sess'[s] = sess[s]
    BY <2>1, <2>2
  <2>3. CASE sess[s].pc = "asleep" /\ sess'[s] = [sess[s] EXCEPT !.pc = "awoken"]
    BY <2>1, <2>3 DEF Call
  <2>4. QED
    BY <2>2, <2>3
<1>2. \A s \in Session : scn[sess[s].inst] \in Nat /\ scn'[sess[s].inst] \in Nat
                            /\ scn'[sess[s].inst] >= scn[sess[s].inst]
  BY <1>1, ScnsNat DEF WaitTypeOK, Call
<1>3. \A x \in Xid : SlotOf(x) \in Slot
  BY DEF Xid, SlotOf
<1>4. \A x \in Xid : slot'[SlotOf(x)].scn \in Nat
  BY <1>3, ScnsNat DEF Slots
<1>5. ASSUME NEW s \in Session PROVE Waiter(s)'
  <2>1. Waiter(s)
    BY DEF Waiters
  <2>2. (sess[s].pc # "idle" => Known(sess[s].xid))'
    BY <1>1, <2>1 DEF Waiter, Known
  <2>3. (sess[s].pc \in {"asked", "register", "held"} => Remote(s))'
    BY <1>1, <2>1 DEF Waiter, Remote
  <2>4. ASSUME sess'[s].pc = "leave" /\ sess'[s].ok
        PROVE  SeenEnd(sess[s].xid, scn[sess[s].inst])'
    <3>1. /\ Known(sess[s].xid) /\ SeenEnd(sess[s].xid, scn[sess[s].inst])
          /\ sess[s].xid \in Xid
      BY <1>1, <2>1, <2>4 DEF Waiter, Known
    <3> DEFINE n == scn[sess[s].inst]
               y == sess[s].xid
    <3>2. n \in Nat /\ y \in Xid /\ Known(y) /\ SeenEnd(y, n)
      BY <3>1, <1>2
    <3> HIDE DEF n, y
    <3>3. \A x \in Xid : \A m \in Nat : x = y /\ m = n => SeenEnd(x, m)'
      BY <3>2
    <3>4. PICK x \in Xid, m \in Nat : x = y /\ m = n
      BY <3>2
    <3>5. SeenEnd(x, m)' /\ x = sess'[s].xid /\ m <= scn'[sess'[s].inst]
      BY <3>3, <3>4, <1>1, <1>2 DEF n, y
    <3>6. scn'[sess'[s].inst] \in Nat /\ slot'[SlotOf(x)].scn \in Nat
      BY <1>1, <1>2, <1>4
    <3>7. QED
      BY <3>5, <3>6 DEF SeenEnd, Over, Reused, HasEnded
  <2>5. QED
    BY <2>2, <2>3, <2>4 DEF Waiter
<1>6. ASSUME NEW h \in handlers PROVE Request(h)'
  <2>1. Request(h) /\ h \in Handler /\ h.xid \in Xid /\ h.scn \in Nat
    BY ScnsNat DEF Requests, Handler, WaitTypeOK
  <2>2. h.to # None => h.to \in Session
    BY <2>1 DEF Handler
  <2>3. h.to # None => AskedBy(h.to, h)'
    BY <1>1, <2>1, <2>2 DEF Request, AskedBy
  <2>4. QED
    BY <2>1, <2>3 DEF Request
<1>7. Requests'
  BY <1>6 DEF Requests
<1>8. ASSUME NEW i \in Inst, NEW x \in Xid PROVE EntryUsed(i, x)'
  <2>1. EntryUsed(i, x)
    OBVIOUS
  <2>2. QED
    BY <1>1, <2>1 DEF EntryUsed, WaitsFor
<1>9. QED
  BY <1>5, <1>7, <1>8 DEF Waiters

---------------------------------------------------------------------------
(* The transaction: the steps of tx_end and the next one in its slot.      *)

(* What changed of the types after a step of a transaction. *)
LEMMA TxnTypes ==
    ASSUME WaitTypeOK, slot' \in [Slot -> Slots], scn' \in [Inst -> Scns], owscn' \in Scns,
           txnRes' \in [Xid -> SUBSET Inst], sess' \in [Session -> Call],
           awakes' \subseteq Awake, used' \in Counters, UNCHANGED <<localTxn, handlers>>
    PROVE  WaitTypeOK'
BY DEF WaitTypeOK, Slots, Call, Counters

LEMMA EndBeginsIInv == \A k \in Slot : IInv /\ EndBegins(k) => IInv'
<1> SUFFICES ASSUME NEW k \in Slot, IInv, EndBegins(k) PROVE IInv'
  OBVIOUS
<1> DEFINE t == [slot[k] EXCEPT !.stage = "ending"]
<1>1. /\ slot \in [Slot -> Slots] /\ slot[k] \in Slots /\ t \in Slots /\ slot' = [slot EXCEPT ![k] = t]
      /\ t.xnum = slot[k].xnum /\ t.scn = slot[k].scn /\ t.stage = "ending" /\ ~HasEnded(k)
      /\ UNCHANGED <<scn, owscn, txnRes, localTxn, sess, handlers, awakes, used>>
  BY DEF IInv, WaitTypeOK, EndBegins, netVars, Slots, Stage, HasEnded
<1> HIDE DEF t
<1>2. /\ slot' \in [Slot -> Slots]
      /\ \A x \in Xid : Known(x) => Known(x)'
      /\ \A x \in Xid : \A n \in Nat : Known(x) /\ SeenEnd(x, n) => SeenEnd(x, n)'
  BY <1>1, SlotStep DEF IInv
<1>3. WaitTypeOK'
  BY <1>1, <1>2 DEF IInv, WaitTypeOK, Slots
<1>4. \A i \in Inst : scn'[i] >= scn[i]
  <2>1. \A i \in Inst : scn[i] \in Nat
    BY ScnsNat DEF IInv, WaitTypeOK
  <2>2. QED
    BY <1>1, <2>1
<1>5. Waiters' /\ Requests' /\ (\A i \in Inst, x \in Xid : EntryUsed(i, x))'
  BY <1>1, <1>2, <1>4, WakeStep DEF IInv, Entries, WaitTypeOK
<1>6. Counted'
  <2>1. EndedSlots' = EndedSlots
    BY <1>1 DEF EndedSlots, HasEnded
  <2>2. QED
    BY <1>1, <2>1 DEF IInv, Counted
<1>7. ASSUME NEW x \in Xid PROVE EntryReleased(x)'
  <2>1. SlotOf(x) \in Slot
    BY DEF Xid, SlotOf
  <2>2. EntryReleased(x)
    BY DEF IInv, Entries
  <2>3. QED
    BY <1>1, <2>1, <2>2 DEF EntryReleased, Reused
<1>8. Awakes'
  BY <1>1 DEF IInv, Awakes
<1>9. QED
  BY <1>3, <1>5, <1>6, <1>7, <1>8 DEF IInv, Entries

LEMMA EndCommitsIInv == \A k \in Slot : IInv /\ EndCommits(k) => IInv'
<1> SUFFICES ASSUME NEW k \in Slot, IInv, EndCommits(k) PROVE IInv'
  OBVIOUS
<1> DEFINE n == scn[Home] + 1
           t == [slot[k] EXCEPT !.stage = "ended", !.scn = n]
<1>1. /\ slot \in [Slot -> Slots] /\ slot[k] \in Slots /\ ~HasEnded(k) /\ scn \in [Inst -> Scns]
      /\ slot' = [slot EXCEPT ![k] = t]
      /\ scn' = [scn EXCEPT ![Home] = n] /\ owscn' = Max({owscn, slot[k].scn})
      /\ UNCHANGED <<txnRes, localTxn, sess, handlers, awakes, used>>
  BY DEF IInv, WaitTypeOK, EndCommits, netVars, Slots, HasEnded
<1>2. /\ IsFiniteSet(EndedSlots') /\ Cardinality(EndedSlots') = Cardinality(EndedSlots) + 1
      /\ Cardinality(EndedSlots') <= Cardinality(Slot)
      /\ Cardinality(EndedSlots) \in Nat /\ Cardinality(Slot) \in Nat
      /\ Cardinality(EndedSlots') \in Nat
  <2>1. EndedSlots' = EndedSlots \cup {k} /\ k \notin EndedSlots
    BY <1>1 DEF EndedSlots, HasEnded, Slots
  <2>2. EndedSlots \in SUBSET Slot /\ EndedSlots' \in SUBSET Slot
    BY DEF EndedSlots
  <2>3. IsFiniteSet(EndedSlots) /\ IsFiniteSet(EndedSlots') /\ Cardinality(EndedSlots') <= Cardinality(Slot)
    BY <2>2, FS_Subset, SlotAssumption
  <2>4. Cardinality(EndedSlots') = Cardinality(EndedSlots) + 1
    BY <2>1, <2>3, FS_AddElement
  <2>5. QED
    BY <2>3, <2>4, FS_CardinalityType, SlotAssumption
<1>3. /\ scn[Home] \in Nat /\ used["txn"] \in Nat /\ MaxTxns \in Nat
      /\ n = used["txn"] + Cardinality(EndedSlots') /\ n \in Scns /\ used["txn"] <= MaxTxns
      /\ \A j \in Slot : /\ slot[j].xnum <= used["txn"] /\ slot[j].scn <= scn[Home]
                         /\ slot[j].scn \in Nat
  <2>1. scn[Home] \in Nat /\ used["txn"] \in Nat /\ MaxTxns \in Nat
    BY <1>1, ScnsNat, HomeAssumption, BoundsAssumption DEF IInv, WaitTypeOK
  <2>2. /\ scn[Home] = used["txn"] + Cardinality(EndedSlots) /\ used["txn"] <= MaxTxns
        /\ \A j \in Slot : slot[j].xnum <= used["txn"] /\ slot[j].scn <= scn[Home]
    BY DEF IInv, Counted
  <2>3. n = used["txn"] + Cardinality(EndedSlots') /\ n \in Scns
    BY <1>2, <2>1, <2>2 DEF Scns
  <2>4. \A j \in Slot : slot[j].scn \in Nat
    BY <1>1, ScnsNat DEF Slots
  <2>5. QED
    BY <2>1, <2>2, <2>3, <2>4
<1>4. t \in Slots /\ t.xnum = slot[k].xnum /\ t.scn = n /\ t.stage = "ended"
  BY <1>1, <1>3 DEF Slots, Stage
<1>5. scn'[Home] = n /\ slot'[k] = t /\ \A j \in Slot \ {k} : slot'[j] = slot[j]
  BY <1>1, HomeAssumption
<1> HIDE DEF t, n
<1>6. /\ slot' \in [Slot -> Slots]
      /\ \A x \in Xid : Known(x) => Known(x)'
      /\ \A x \in Xid : \A m \in Nat : Known(x) /\ SeenEnd(x, m) => SeenEnd(x, m)'
  BY <1>1, <1>4, SlotStep DEF IInv
<1>7. scn' \in [Inst -> Scns] /\ \A i \in Inst : scn'[i] >= scn[i]
  <2>1. \A i \in Inst : scn[i] \in Nat
    BY <1>1, ScnsNat
  <2>2. n >= scn[Home]
    BY <1>3 DEF n
  <2>3. \A i \in Inst : scn'[i] = IF i = Home THEN n ELSE scn[i]
    BY <1>1
  <2>4. scn' \in [Inst -> Scns]
    BY <1>1, <1>3
  <2>5. QED
    BY <2>1, <2>2, <2>3, <2>4
<1>8. owscn' \in Scns
  BY <1>1, <1>3, MaxOfTwo, ScnsNat DEF IInv, WaitTypeOK, Slots
<1>9. WaitTypeOK'
  BY <1>1, <1>6, <1>7, <1>8 DEF IInv, WaitTypeOK, Slots
<1>10. Waiters' /\ Requests' /\ (\A i \in Inst, x \in Xid : EntryUsed(i, x))'
  BY <1>1, <1>6, <1>7, WakeStep DEF IInv, Entries
<1>11. Counted'
  <2>1. used' = used /\ n >= scn[Home]
    BY <1>1, <1>3 DEF n
  <2>2. \A j \in Slot : slot'[j].xnum <= used["txn"] /\ slot'[j].scn <= n
    BY <1>3, <1>4, <1>5, <2>1, ScnsNat
  <2>3. QED
    BY <1>3, <1>5, <2>1, <2>2 DEF Counted
<1>12. ASSUME NEW x \in Xid PROVE EntryReleased(x)'
  <2>1. SlotOf(x) \in Slot
    BY DEF Xid, SlotOf
  <2>2. EntryReleased(x)
    BY DEF IInv, Entries
  <2>3. QED
    BY <1>1, <1>4, <2>1, <2>2 DEF EntryReleased, Reused
<1>13. Awakes'
  BY <1>1 DEF IInv, Awakes
<1>14. QED
  BY <1>9, <1>10, <1>11, <1>12, <1>13 DEF IInv, Entries

LEMMA EndDoneIInv == \A k \in Slot : IInv /\ EndDone(k) => IInv'
<1> SUFFICES ASSUME NEW k \in Slot, IInv, EndDone(k) PROVE IInv'
  OBVIOUS
<1> DEFINE t == [slot[k] EXCEPT !.stage = "done"]
<1>1. /\ slot \in [Slot -> Slots] /\ slot[k] \in Slots /\ t \in Slots /\ slot' = [slot EXCEPT ![k] = t]
      /\ t.xnum = slot[k].xnum /\ t.scn = slot[k].scn /\ t.stage = "done" /\ HasEnded(k)
      /\ UNCHANGED <<scn, owscn, txnRes, localTxn, sess, handlers, awakes, used>>
  BY DEF IInv, WaitTypeOK, EndDone, netVars, Slots, Stage, HasEnded
<1> HIDE DEF t
<1>2. /\ slot' \in [Slot -> Slots]
      /\ \A x \in Xid : Known(x) => Known(x)'
      /\ \A x \in Xid : \A n \in Nat : Known(x) /\ SeenEnd(x, n) => SeenEnd(x, n)'
  BY <1>1, SlotStep DEF IInv
<1>3. WaitTypeOK'
  BY <1>1, <1>2 DEF IInv, WaitTypeOK, Slots
<1>4. \A i \in Inst : scn'[i] >= scn[i]
  <2>1. \A i \in Inst : scn[i] \in Nat
    BY ScnsNat DEF IInv, WaitTypeOK
  <2>2. QED
    BY <1>1, <2>1
<1>5. Waiters' /\ Requests' /\ (\A i \in Inst, x \in Xid : EntryUsed(i, x))'
  BY <1>1, <1>2, <1>4, WakeStep DEF IInv, Entries, WaitTypeOK
<1>6. Counted'
  <2>1. EndedSlots' = EndedSlots
    BY <1>1 DEF EndedSlots, HasEnded
  <2>2. QED
    BY <1>1, <2>1 DEF IInv, Counted
<1>7. ASSUME NEW x \in Xid PROVE EntryReleased(x)'
  <2>1. SlotOf(x) \in Slot
    BY DEF Xid, SlotOf
  <2>2. EntryReleased(x)
    BY DEF IInv, Entries
  <2>3. QED
    BY <1>1, <2>1, <2>2 DEF EntryReleased, Reused
<1>8. Awakes'
  BY <1>1 DEF IInv, Awakes
<1>9. QED
  BY <1>3, <1>5, <1>6, <1>7, <1>8 DEF IInv, Entries

LEMMA EndReleasesIInv == \A k \in Slot : IInv /\ EndReleases(k) => IInv'
<1> SUFFICES ASSUME NEW k \in Slot, IInv, EndReleases(k) PROVE IInv'
  OBVIOUS
<1> DEFINE t == [slot[k] EXCEPT !.stage = "released"]
           y == <<k, slot[k].xnum>>
<1>1. /\ slot \in [Slot -> Slots] /\ slot[k] \in Slots /\ t \in Slots /\ slot' = [slot EXCEPT ![k] = t]
      /\ t.xnum = slot[k].xnum /\ t.scn = slot[k].scn /\ t.stage = "released" /\ HasEnded(k)
      /\ UNCHANGED <<scn, owscn, localTxn, handlers, used>>
  BY DEF IInv, WaitTypeOK, EndReleases, Slots, Stage, HasEnded
<1>2. /\ y \in Xid /\ SlotOf(y) = k /\ XnumOf(y) = slot[k].xnum
      /\ awakes' = awakes \cup AwakesFor(y, slot[k].scn) /\ txnRes' = [txnRes EXCEPT ![y] = {}]
  BY <1>1 DEF EndReleases, NoTxnRes, Xid, SlotOf, XnumOf, Slots
<1>3. sess' = [s \in Session |->
                  IF ~Remote(s) /\ sess[s].pc = "asleep" /\ SlotOf(sess[s].xid) = k
                  THEN [sess[s] EXCEPT !.pc = "awoken"] ELSE sess[s]]
  BY DEF EndReleases
<1> HIDE DEF t, y
<1>4. /\ slot' \in [Slot -> Slots]
      /\ \A x \in Xid : Known(x) => Known(x)'
      /\ \A x \in Xid : \A n \in Nat : Known(x) /\ SeenEnd(x, n) => SeenEnd(x, n)'
  BY <1>1, SlotStep DEF IInv
<1>5. /\ sess' \in [Session -> Call]
      /\ \A s \in Session :
            \/ sess'[s] = sess[s]
            \/ sess[s].pc = "asleep" /\ sess'[s] = [sess[s] EXCEPT !.pc = "awoken"]
  <2>1. sess \in [Session -> Call]
    BY DEF IInv, WaitTypeOK, Call
  <2>2. \A s \in Session : [sess[s] EXCEPT !.pc = "awoken"] \in Call
    BY <2>1 DEF Call, SessPc
  <2>3. QED
    BY <1>3, <2>1, <2>2
<1>6. awakes' \subseteq Awake /\ Awakes'
  <2>1. awakes \subseteq Awake /\ Awakes /\ txnRes[y] \subseteq Inst
    BY <1>2 DEF IInv, WaitTypeOK
  <2>2. \A m \in AwakesFor(y, slot[k].scn) : m \in Awake /\ m.to # Home
    BY <1>1, <1>2, <2>1 DEF AwakesFor, Awake, Slots
  <2>3. QED
    BY <1>2, <2>1, <2>2 DEF Awakes
<1>7. txnRes' \in [Xid -> SUBSET Inst] /\ txnRes \in [Xid -> SUBSET Inst]
  BY <1>2 DEF IInv, WaitTypeOK
<1>8. WaitTypeOK'
  <2>1. scn' \in [Inst -> Scns] /\ owscn' \in Scns /\ used' \in Counters
    BY <1>1 DEF IInv, WaitTypeOK, Counters
  <2>2. QED
    BY <1>1, <1>4, <1>5, <1>6, <1>7, <2>1, TxnTypes DEF IInv
<1>9. \A i \in Inst : scn'[i] >= scn[i]
  <2>1. \A i \in Inst : scn[i] \in Nat
    BY ScnsNat DEF IInv, WaitTypeOK
  <2>2. QED
    BY <1>1, <2>1
<1>10. Waiters' /\ Requests' /\ (\A i \in Inst, x \in Xid : EntryUsed(i, x))'
  BY <1>1, <1>4, <1>5, <1>9, WakeStep DEF IInv, Entries, WaitTypeOK
<1>11. Counted'
  <2>1. EndedSlots' = EndedSlots
    BY <1>1 DEF EndedSlots, HasEnded
  <2>2. QED
    BY <1>1, <2>1 DEF IInv, Counted
<1>12. ASSUME NEW x \in Xid PROVE EntryReleased(x)'
  <2>1. SlotOf(x) \in Slot /\ x = <<SlotOf(x), XnumOf(x)>>
    BY DEF Xid, SlotOf, XnumOf
  <2>2. EntryReleased(x)
    BY DEF IInv, Entries
  <2>3. CASE x = y
    BY <1>2, <1>7, <2>3 DEF EntryReleased
  <2>4. CASE x # y
    <3>1. txnRes'[x] = txnRes[x]
      BY <1>2, <1>7, <2>4
    <3>2. Reused(x)' <=> Reused(x)
      BY <1>1, <2>1 DEF Reused
    <3>3. SlotOf(x) = k => Reused(x)
      BY <2>1, <2>4 DEF Reused, y
    <3>4. SlotOf(x) # k => slot'[SlotOf(x)] = slot[SlotOf(x)]
      BY <1>1, <2>1
    <3>5. QED
      BY <1>1, <2>2, <3>1, <3>2, <3>3, <3>4 DEF EntryReleased
  <2>5. QED
    BY <2>3, <2>4
<1>13. QED
  BY <1>6, <1>8, <1>10, <1>11, <1>12 DEF IInv, Entries

LEMMA BeginTxnIInv == \A k \in Slot : IInv /\ BeginTxn(k) => IInv'
<1> SUFFICES ASSUME NEW k \in Slot, IInv, BeginTxn(k) PROVE IInv'
  OBVIOUS
<1> DEFINE t == [slot[k] EXCEPT !.xnum = @ + 1, !.stage = "active"]
<1>1. /\ slot \in [Slot -> Slots] /\ slot[k] \in Slots /\ slot[k].stage = "released"
      /\ used \in Counters /\ used["txn"] < MaxTxns /\ slot' = [slot EXCEPT ![k] = t]
      /\ used' = [used EXCEPT !["txn"] = @ + 1]
      /\ UNCHANGED <<scn, owscn, txnRes, localTxn, sess, handlers, awakes>>
  BY DEF IInv, WaitTypeOK, BeginTxn, netVars, Slots, Counters
<1>2. /\ slot[k].xnum \in Nat /\ used["txn"] \in Nat /\ MaxTxns \in Nat
      /\ slot[k].xnum <= used["txn"]
  BY <1>1, ScnsNat, BoundsAssumption DEF IInv, Counted, Slots, Counters
<1>3. /\ t \in Slots /\ t.xnum = slot[k].xnum + 1 /\ t.stage = "active"
      /\ t.scn = slot[k].scn /\ t.xnum > slot[k].xnum
  <2>1. slot[k].xnum + 1 \in Xnum
    BY <1>1, <1>2 DEF Xnum
  <2>2. /\ t.xnum = slot[k].xnum + 1 /\ t.stage = "active" /\ t.scn = slot[k].scn
        /\ t \in Slots
    BY <1>1, <2>1 DEF Slots, Stage
  <2>3. QED
    BY <1>2, <2>2
<1> HIDE DEF t
<1>4. /\ slot' \in [Slot -> Slots]
      /\ \A x \in Xid : Known(x) => Known(x)'
      /\ \A x \in Xid : \A n \in Nat : Known(x) /\ SeenEnd(x, n) => SeenEnd(x, n)'
  BY <1>1, <1>3, SlotStep DEF IInv
<1>5. used' \in Counters /\ used'["txn"] = used["txn"] + 1
  BY <1>1, <1>2 DEF Counters
<1>6. WaitTypeOK'
  <2>1. /\ scn' \in [Inst -> Scns] /\ owscn' \in Scns /\ txnRes' \in [Xid -> SUBSET Inst]
        /\ sess' \in [Session -> Call] /\ awakes' \subseteq Awake
    BY <1>1 DEF IInv, WaitTypeOK, Call
  <2>2. QED
    BY <1>1, <1>4, <1>5, <2>1, TxnTypes DEF IInv
<1>7. \A i \in Inst : scn'[i] >= scn[i]
  <2>1. \A i \in Inst : scn[i] \in Nat
    BY ScnsNat DEF IInv, WaitTypeOK
  <2>2. QED
    BY <1>1, <2>1
<1>8. Waiters' /\ Requests' /\ (\A i \in Inst, x \in Xid : EntryUsed(i, x))'
  BY <1>1, <1>4, <1>7, WakeStep DEF IInv, Entries, WaitTypeOK
<1>9. Counted'
  <2>1. EndedSlots' = EndedSlots \ {k} /\ k \in EndedSlots /\ EndedSlots \in SUBSET Slot
    BY <1>1, <1>3 DEF EndedSlots, HasEnded
  <2>2. IsFiniteSet(EndedSlots) /\ Cardinality(EndedSlots) \in Nat
    BY <2>1, SlotAssumption, FS_Subset, FS_CardinalityType
  <2>3. Cardinality(EndedSlots') = Cardinality(EndedSlots) - 1
    BY <2>1, <2>2, FS_RemoveElement
  <2>4. /\ scn[Home] = used["txn"] + Cardinality(EndedSlots)
        /\ \A j \in Slot : slot[j].xnum <= used["txn"] /\ slot[j].scn <= scn[Home]
    BY DEF IInv, Counted
  <2>5. \A j \in Slot : slot[j].xnum \in Nat
    BY <1>1, ScnsNat DEF Slots
  <2>6. \A j \in Slot : slot'[j].xnum <= used'["txn"] /\ slot'[j].scn <= scn[Home]
    BY <1>1, <1>2, <1>3, <1>5, <2>4, <2>5
  <2>7. scn[Home] = used'["txn"] + Cardinality(EndedSlots') /\ used'["txn"] <= MaxTxns
    BY <1>1, <1>2, <1>5, <2>2, <2>3, <2>4
  <2>8. QED
    BY <1>1, <2>6, <2>7 DEF Counted
<1>10. ASSUME NEW x \in Xid PROVE EntryReleased(x)'
  <2>1. SlotOf(x) \in Slot
    BY DEF Xid, SlotOf
  <2>2. EntryReleased(x)
    BY DEF IInv, Entries
  <2>3. QED
    BY <1>1, <1>3, <2>1, <2>2 DEF EntryReleased, Reused
<1>11. Awakes'
  BY <1>1 DEF IInv, Awakes
<1>12. QED
  BY <1>6, <1>8, <1>9, <1>10, <1>11 DEF IInv, Entries

---------------------------------------------------------------------------
(* The waiter.                                                             *)

(* The state of a call that may follow, with the SCNs n. *)
GoodCall(v, n) ==
    /\ v \in Call
    /\ v.pc # "idle" => Known(v.xid)
    /\ v.pc \in {"asked", "register", "held"} => v.inst # Home
    /\ v.pc = "leave" /\ v.ok => SeenEnd(v.xid, n[v.inst])

ScnsRise == /\ scn' \in [Inst -> Scns] /\ scn'[Home] = scn[Home]
            /\ \A i \in Inst : scn'[i] >= scn[i]

LEMMA ScnsStay == ASSUME WaitTypeOK, UNCHANGED scn PROVE ScnsRise
<1>1. \A i \in Inst : scn[i] \in Nat
  BY ScnsNat DEF WaitTypeOK
<1>2. QED
  BY <1>1 DEF ScnsRise, WaitTypeOK

(* A session that steps to a good state disturbs no other one. *)
LEMMA CallStep ==
    ASSUME IInv, NEW s \in Session, NEW v, GoodCall(v, scn'),
           sess' = [sess EXCEPT ![s] = v], UNCHANGED slot, ScnsRise,
           used' \in Counters, used'["txn"] = used["txn"]
    PROVE  sess' \in [Session -> Call] /\ Counted' /\ Waiters'
<1>1. sess \in [Session -> Call] /\ v \in Call
  BY DEF IInv, WaitTypeOK, Call, GoodCall
<1>2. \A r \in Session : sess'[r] = IF r = s THEN v ELSE sess[r]
  BY <1>1
<1>3. Counted'
  <2>1. EndedSlots' = EndedSlots
    BY DEF EndedSlots, HasEnded
  <2>2. QED
    BY <2>1 DEF IInv, Counted, ScnsRise
<1>4. ASSUME NEW r \in Session PROVE Waiter(r)'
  <2>1. CASE r = s
    <3>1. sess'[r] = v
      BY <1>2, <2>1
    <3>2. (Known(v.xid) => Known(sess[r].xid)') /\ (v.inst # Home => Remote(r)')
      BY <3>1 DEF Known, Remote
    <3>3. SeenEnd(v.xid, scn'[v.inst]) => SeenEnd(sess[r].xid, scn[sess[r].inst])'
      BY <3>1 DEF SeenEnd, Over, Reused, HasEnded
    <3>4. QED
      BY <3>1, <3>2, <3>3 DEF GoodCall, Waiter
  <2>2. CASE r # s
    <3>1. sess'[r] = sess[r] /\ sess[r] \in Call /\ Waiter(r)
      BY <1>1, <1>2, <2>2 DEF IInv, Waiters
    <3>2. (Known(sess[r].xid) => Known(sess[r].xid)') /\ (Remote(r) => Remote(r)')
      BY <3>1 DEF Known, Remote
    <3>3. ASSUME sess[r].pc = "leave", sess[r].ok PROVE SeenEnd(sess[r].xid, scn[sess[r].inst])'
      <4>1. sess[r].xid \in Xid /\ SeenEnd(sess[r].xid, scn[sess[r].inst])
        BY <3>1, <3>3 DEF Waiter, Known
      <4>2. /\ scn[sess[r].inst] \in Nat /\ scn'[sess[r].inst] \in Nat
            /\ scn'[sess[r].inst] >= scn[sess[r].inst]
        BY <3>1, ScnsNat DEF IInv, WaitTypeOK, ScnsRise, Call
      <4>3. SlotOf(sess[r].xid) \in Slot /\ slot \in [Slot -> Slots]
        BY <4>1 DEF Xid, SlotOf, IInv, WaitTypeOK, Slots
      <4>4. slot[SlotOf(sess[r].xid)].scn \in Nat
        BY <4>3, ScnsNat DEF Slots
      <4>5. QED
        BY <3>1, <4>1, <4>2, <4>4 DEF SeenEnd, Over, Reused, HasEnded
    <3>4. QED
      BY <3>1, <3>2, <3>3 DEF Waiter
  <2>3. QED
    BY <2>1, <2>2
<1>5. QED
  BY <1>1, <1>3, <1>4 DEF Waiters

(* A session that was not waiting for an answer steps by itself. *)
LEMMA OwnStep ==
    ASSUME IInv, NEW s \in Session, NEW v, GoodCall(v, scn'),
           sess' = [sess EXCEPT ![s] = v], ScnsRise,
           UNCHANGED <<slot, owscn, txnRes, localTxn, handlers, awakes>>,
           used' \in Counters, used'["txn"] = used["txn"],
           sess[s].pc # "asked",
           \/ sess[s].pc \in {"idle", "enter"}
           \/ v.pc \notin {"idle", "enter"} /\ v.inst = sess[s].inst /\ v.xid = sess[s].xid
    PROVE  IInv'
<1>1. sess' \in [Session -> Call] /\ Counted' /\ Waiters'
  BY CallStep
<1>2. \A r \in Session : sess'[r] = IF r = s THEN v ELSE sess[r]
  BY DEF IInv, WaitTypeOK
<1>3. WaitTypeOK'
  BY <1>1 DEF IInv, WaitTypeOK, ScnsRise, Call, Counters
<1>4. ASSUME NEW h \in handlers PROVE Request(h)'
  <2>1. Request(h) /\ h \in Handler
    BY DEF IInv, Requests, WaitTypeOK
  <2>2. Known(h.xid)' /\ (h.pc = "answer" /\ h.end => SeenEnd(h.xid, h.scn)')
    BY <2>1 DEF Request, Known, SeenEnd, Over, Reused, HasEnded
  <2>3. h.to # None => AskedBy(h.to, h)'
    BY <1>2, <2>1 DEF Request, AskedBy, Handler
  <2>4. QED
    BY <2>2, <2>3 DEF Request, Known
<1>5. Requests'
  BY <1>4 DEF IInv, Requests
<1>6. ASSUME NEW i \in Inst, NEW x \in Xid PROVE EntryUsed(i, x)'
  <2>1. EntryUsed(i, x)
    BY DEF IInv, Entries
  <2>2. \A r \in Session : WaitsFor(r, i, x) => WaitsFor(r, i, x)'
    BY <1>2 DEF WaitsFor
  <2>3. QED
    BY <2>1, <2>2 DEF EntryUsed
<1>7. ASSUME NEW x \in Xid PROVE EntryReleased(x)'
  BY DEF IInv, Entries, EntryReleased, Reused
<1>8. QED
  BY <1>1, <1>3, <1>5, <1>6, <1>7 DEF IInv, Entries, Awakes

(* What is known of a session, and the counters that a step may raise. *)
LEMMA CallFacts ==
    ASSUME IInv, NEW s \in Session
    PROVE  /\ sess \in [Session -> Call] /\ sess[s] \in Call
           /\ sess[s].pc \in SessPc /\ sess[s].inst \in Inst /\ Waiter(s)
           /\ sess[s].pc # "idle" => Known(sess[s].xid) /\ sess[s].xid \in Xid
           /\ used \in Counters
BY DEF IInv, Waiters, WaitTypeOK, Call, Counters, Waiter, Known

(* Changing the place of a call, giving up its item, and leaving. *)
LEMMA GotoIs ==
    ASSUME sess \in [Session -> Call], NEW s \in Session, NEW pc \in SessPc
    PROVE  Goto(s, pc) = [sess EXCEPT ![s] = [sess[s] EXCEPT !.pc = pc]]
<1>1. sess[s] \in Call
  OBVIOUS
<1>2. QED
  BY <1>1 DEF Goto

LEMMA UpIs ==
    ASSUME sess \in [Session -> Call], NEW s \in Session, NEW pc \in SessPc
    PROVE  Up(s, pc) = [sess EXCEPT ![s] = [sess[s] EXCEPT !.pc = pc, !.item = None]]
<1>1. sess[s] \in Call
  OBVIOUS
<1>2. QED
  BY <1>1 DEF Up

LEMMA GotoCall ==
    ASSUME sess \in [Session -> Call], NEW s \in Session, NEW pc \in SessPc
    PROVE  /\ [sess[s] EXCEPT !.pc = pc] \in Call
           /\ [sess[s] EXCEPT !.pc = pc].pc = pc
           /\ [sess[s] EXCEPT !.pc = pc].inst = sess[s].inst
           /\ [sess[s] EXCEPT !.pc = pc].xid = sess[s].xid
<1>1. sess[s] \in Call
  OBVIOUS
<1>2. QED
  BY <1>1 DEF Call

LEMMA UpCall ==
    ASSUME sess \in [Session -> Call], NEW s \in Session, NEW pc \in SessPc
    PROVE  /\ [sess[s] EXCEPT !.pc = pc, !.item = None] \in Call
           /\ [sess[s] EXCEPT !.pc = pc, !.item = None].pc = pc
           /\ [sess[s] EXCEPT !.pc = pc, !.item = None].inst = sess[s].inst
           /\ [sess[s] EXCEPT !.pc = pc, !.item = None].xid = sess[s].xid
<1>1. sess[s] \in Call
  OBVIOUS
<1>2. QED
  BY <1>1 DEF Call

LEMMA LeaveCall ==
    ASSUME sess \in [Session -> Call], NEW s \in Session, NEW ok \in BOOLEAN
    PROVE  LET v == [sess[s] EXCEPT !.pc = "leave", !.item = None, !.ok = ok] IN
           /\ Leave(s, ok) = [sess EXCEPT ![s] = v]
           /\ v \in Call /\ v.pc = "leave" /\ v.ok = ok
           /\ v.inst = sess[s].inst /\ v.xid = sess[s].xid
<1>1. sess[s] \in Call /\ "leave" \in SessPc
  BY DEF SessPc
<1>2. Leave(s, ok) = [sess EXCEPT ![s] = [sess[s] EXCEPT !.pc = "leave", !.item = None, !.ok = ok]]
  BY <1>1 DEF Leave
<1>3. QED
  BY <1>1, <1>2 DEF Call

(* A step that only changes the place of the call. *)
LEMMA GotoIInv ==
    ASSUME IInv, NEW s \in Session, NEW pc \in SessPc,
           \/ sess' = Goto(s, pc)
           \/ sess' = Up(s, pc),
           ScnsRise, UNCHANGED <<slot, owscn, txnRes, localTxn, handlers, awakes, used>>,
           sess[s].pc \notin {"idle", "asked"},
           pc \notin {"asked", "register", "held", "leave", "idle", "enter"}
    PROVE  IInv'
<1> DEFINE v == [sess[s] EXCEPT !.pc = pc]
           w == [sess[s] EXCEPT !.pc = pc, !.item = None]
<1>1. /\ v \in Call /\ v.pc = pc /\ v.inst = sess[s].inst /\ v.xid = sess[s].xid
      /\ w \in Call /\ w.pc = pc /\ w.inst = sess[s].inst /\ w.xid = sess[s].xid
      /\ sess' = [sess EXCEPT ![s] = v] \/ sess' = [sess EXCEPT ![s] = w]
  <2>1. sess \in [Session -> Call]
    BY CallFacts
  <2>2. v \in Call /\ v.pc = pc /\ v.inst = sess[s].inst /\ v.xid = sess[s].xid
    BY <2>1, GotoCall
  <2>3. w \in Call /\ w.pc = pc /\ w.inst = sess[s].inst /\ w.xid = sess[s].xid
    BY <2>1, UpCall
  <2>4. CASE sess' = Goto(s, pc)
    BY <2>1, <2>2, <2>3, <2>4, GotoIs
  <2>5. CASE sess' = Up(s, pc)
    BY <2>1, <2>2, <2>3, <2>5, UpIs
  <2>6. QED
    BY <2>4, <2>5
<1> HIDE DEF v, w
<1>2. GoodCall(v, scn') /\ GoodCall(w, scn')
  BY <1>1, CallFacts DEF GoodCall
<1>3. CASE sess' = [sess EXCEPT ![s] = v]
  BY <1>1, <1>2, <1>3, CallFacts, OwnStep
<1>4. CASE sess' = [sess EXCEPT ![s] = w]
  BY <1>1, <1>2, <1>4, CallFacts, OwnStep
<1>5. QED
  BY <1>1, <1>3, <1>4

(* A step that leaves the loop. *)
LEMMA LeaveIInv ==
    ASSUME IInv, NEW s \in Session, NEW ok \in BOOLEAN, sess' = Leave(s, ok),
           ScnsRise, UNCHANGED <<slot, owscn, txnRes, localTxn, handlers, awakes>>,
           used' \in Counters, used'["txn"] = used["txn"],
           sess[s].pc \notin {"idle", "asked"},
           ok => SeenEnd(sess[s].xid, scn'[sess[s].inst])
    PROVE  IInv'
<1> DEFINE v == [sess[s] EXCEPT !.pc = "leave", !.item = None, !.ok = ok]
<1>1. /\ v \in Call /\ v.pc = "leave" /\ v.ok = ok /\ v.inst = sess[s].inst /\ v.xid = sess[s].xid
      /\ sess' = [sess EXCEPT ![s] = v]
  BY CallFacts, LeaveCall
<1> HIDE DEF v
<1>2. GoodCall(v, scn')
  BY <1>1, CallFacts DEF GoodCall
<1>3. QED
  BY <1>1, <1>2, OwnStep

(* A snapshot that says the transaction has ended brings its SCN. *)
LEMMA SnapshotSees ==
    ASSUME IInv, NEW s \in Session, sess[s].pc # "idle",
           scn' = ScnAfterSnapshot(sess[s].inst, sess[s].xid)
    PROVE  /\ ScnsRise
           /\ Over(sess[s].xid) => SeenEnd(sess[s].xid, scn'[sess[s].inst])
<1> DEFINE i == sess[s].inst
           x == sess[s].xid
<1>1. i \in Inst /\ x \in Xid /\ SlotOf(x) \in Slot
  BY CallFacts DEF Xid, SlotOf
<1>2. /\ scn' \in [Inst -> Scns]
      /\ \A j \in Inst : scn'[j] >= scn[j]
      /\ scn'[Home] = scn[Home]
      /\ i # Home /\ HasEnded(SlotOf(x)) => scn'[i] >= slot[SlotOf(x)].scn
  BY <1>1, SnapshotRises DEF IInv
<1>3. slot[SlotOf(x)].scn <= scn[Home] /\ slot[SlotOf(x)].scn \in Nat /\ scn'[i] \in Nat
  BY <1>1, <1>2, ScnsNat DEF IInv, Counted, WaitTypeOK
<1> HIDE DEF i, x
<1>4. Over(x) => SeenEnd(x, scn'[i])
  BY <1>2, <1>3 DEF Over, SeenEnd
<1>5. QED
  BY <1>2, <1>4 DEF ScnsRise, i, x

(* The steps of tx_wait and dls_wait_txn that only the session takes part in. *)
LEMMA OwnStepsIInv ==
    ASSUME IInv, NEW s \in Session,
           \/ Enter(s) \/ SleepAtHome(s) \/ Sleep(s) \/ WokenByOther(s)
           \/ SleepEnds(s) \/ Awoken(s) \/ CheckFails(s) \/ Check(s)
    PROVE  IInv'
<1>1. CASE Enter(s)
  <2>1. /\ sess[s].pc = "enter" /\ scn' = ScnAfterSnapshot(sess[s].inst, sess[s].xid)
        /\ sess' = IF Over(sess[s].xid) THEN [sess EXCEPT ![s] = Idle] ELSE Goto(s, "loop")
        /\ UNCHANGED <<slot, owscn, txnRes, localTxn, handlers, awakes, used>>
    BY <1>1 DEF Enter, txnVars, netVars
  <2>2. ScnsRise
    BY <2>1, SnapshotSees
  <2>3. CASE Over(sess[s].xid)
    <3>1. GoodCall(Idle, scn') /\ sess' = [sess EXCEPT ![s] = Idle]
      BY <2>1, <2>3, HomeAssumption DEF GoodCall, Idle, Call, SessPc
    <3>2. QED
      BY <2>1, <2>2, <3>1, CallFacts, OwnStep
  <2>4. CASE ~Over(sess[s].xid)
    BY <2>1, <2>2, <2>4, GotoIInv DEF SessPc
  <2>5. QED
    BY <2>3, <2>4
<1>2. CASE SleepAtHome(s) \/ Sleep(s) \/ WokenByOther(s) \/ SleepEnds(s)
  <2>1. /\ UNCHANGED <<slot, owscn, scn, txnRes, localTxn, handlers, awakes, used>>
        /\ sess[s].pc \notin {"idle", "asked"}
        /\ \/ sess' = Goto(s, "asleep") \/ sess' = Goto(s, "awoken")
           \/ sess' = Up(s, "check")
    BY <1>2 DEF SleepAtHome, Sleep, WokenByOther, SleepEnds, txnVars, netVars
  <2>2. ScnsRise
    BY <2>1, ScnsStay DEF IInv
  <2>3. {"asleep", "awoken", "check"} \subseteq SessPc
    BY DEF SessPc
  <2>4. QED
    BY <2>1, <2>2, <2>3, GotoIInv
<1>3. CASE Awoken(s) \/ Check(s)
  <2>1. /\ sess[s].pc \notin {"idle", "asked"}
        /\ scn' = ScnAfterSnapshot(sess[s].inst, sess[s].xid)
        /\ UNCHANGED <<slot, owscn, txnRes, localTxn, handlers, awakes, used>>
        /\ IF Over(sess[s].xid) THEN sess' = Leave(s, TRUE)
           ELSE sess' = Up(s, "check") \/ sess' = Goto(s, "loop")
    BY <1>3 DEF Awoken, Check, txnVars, netVars
  <2>2. ScnsRise /\ (Over(sess[s].xid) => SeenEnd(sess[s].xid, scn'[sess[s].inst]))
    BY <2>1, SnapshotSees
  <2>3. CASE Over(sess[s].xid)
    BY <2>1, <2>2, <2>3, CallFacts, LeaveIInv
  <2>4. CASE ~Over(sess[s].xid)
    <3>1. {"check", "loop"} \subseteq SessPc
      BY DEF SessPc
    <3>2. QED
      BY <2>1, <2>2, <2>4, <3>1, GotoIInv
  <2>5. QED
    BY <2>3, <2>4
<1>4. CASE CheckFails(s)
  <2>1. /\ UNCHANGED <<slot, owscn, scn, txnRes, localTxn, handlers, awakes>>
        /\ sess[s].pc = "check" /\ sess' = Leave(s, FALSE)
        /\ used' = [used EXCEPT !["fault"] = @ + 1]
    BY <1>4 DEF CheckFails, txnVars, netVars
  <2>2. used' \in Counters /\ used'["txn"] = used["txn"]
    BY <2>1, CallFacts DEF Counters
  <2>3. ScnsRise
    BY <2>1, ScnsStay DEF IInv
  <2>4. QED
    BY <2>1, <2>2, <2>3, LeaveIInv
<1>5. QED
  BY <1>1, <1>2, <1>3, <1>4

LEMMA StartWaitIInv ==
    ASSUME IInv, NEW s \in Session, NEW i \in Inst, NEW k \in Slot, StartWait(s, i, k)
    PROVE  IInv'
<1> DEFINE v == [Idle EXCEPT !.pc = "enter", !.inst = i, !.xid = <<k, slot[k].xnum>>]
<1>1. /\ sess[s] = Idle /\ sess' = [sess EXCEPT ![s] = v]
      /\ used' = [used EXCEPT !["wait"] = @ + 1]
      /\ UNCHANGED <<slot, owscn, scn, txnRes, localTxn, handlers, awakes>>
  BY DEF StartWait, txnVars, netVars
<1>2. used' \in Counters /\ used'["txn"] = used["txn"]
  BY <1>1, CallFacts DEF Counters
<1>3. slot[k].xnum \in Xnum /\ slot[k].xnum <= slot[k].xnum
  <2>1. slot[k].xnum \in Xnum
    BY DEF IInv, WaitTypeOK
  <2>2. slot[k].xnum \in Nat
    BY <2>1, ScnsNat
  <2>3. QED
    BY <2>1, <2>2
<1>4. Known(<<k, slot[k].xnum>>)
  BY <1>3 DEF Known, Xid, XnumOf, SlotOf
<1>5. v \in Call /\ v.pc = "enter" /\ v.xid = <<k, slot[k].xnum>>
  BY <1>4 DEF Idle, Call, SessPc, Known
<1> HIDE DEF v
<1>6. GoodCall(v, scn')
  BY <1>4, <1>5 DEF GoodCall
<1>7. ScnsRise
  BY <1>1, ScnsStay DEF IInv
<1>8. sess[s].pc = "idle"
  BY <1>1 DEF Idle
<1>9. QED
  BY <1>1, <1>2, <1>6, <1>7, <1>8, OwnStep

(* A request is sent, given up or answered: the parts that do not depend   *)
(* on the requests that remain.                                            *)
LEMMA AskFrame ==
    ASSUME IInv, NEW s \in Session, NEW v, GoodCall(v, scn'),
           sess' = [sess EXCEPT ![s] = v], ScnsRise,
           UNCHANGED <<slot, owscn, txnRes, localTxn, awakes>>,
           used' \in Counters, used'["txn"] = used["txn"],
           v.pc \notin {"idle", "enter"}, v.inst = sess[s].inst, v.xid = sess[s].xid,
           handlers' \subseteq Handler, Requests',
           \A h \in handlers : h.pc = "recheck" =>
              \E g \in handlers' : g.xid = h.xid /\ g.pc = "recheck"
    PROVE  IInv'
<1>1. sess' \in [Session -> Call] /\ Counted' /\ Waiters'
  BY CallStep
<1>2. \A r \in Session : sess'[r] = IF r = s THEN v ELSE sess[r]
  BY DEF IInv, WaitTypeOK
<1>3. WaitTypeOK'
  BY <1>1 DEF IInv, WaitTypeOK, ScnsRise, Call, Counters
<1>4. ASSUME NEW i \in Inst, NEW x \in Xid PROVE EntryUsed(i, x)'
  <2>1. EntryUsed(i, x)
    BY DEF IInv, Entries
  <2>2. \A r \in Session : WaitsFor(r, i, x) => WaitsFor(r, i, x)'
    BY <1>2 DEF WaitsFor
  <2>3. QED
    BY <2>1, <2>2 DEF EntryUsed
<1>5. ASSUME NEW x \in Xid PROVE EntryReleased(x)'
  BY DEF IInv, Entries, EntryReleased, Reused
<1>6. QED
  BY <1>1, <1>3, <1>4, <1>5 DEF IInv, Entries, Awakes

(* A request as it is after a step of its session s or of another one. *)
LEMMA RequestStays ==
    ASSUME IInv, NEW s \in Session, NEW v, sess' = [sess EXCEPT ![s] = v], UNCHANGED slot,
           NEW h \in handlers, h.to # s
    PROVE  Request(h)'
<1>1. Request(h) /\ h \in Handler
  BY DEF IInv, Requests, WaitTypeOK
<1>2. \A r \in Session : r # s => sess'[r] = sess[r]
  BY DEF IInv, WaitTypeOK
<1>3. Known(h.xid)' /\ (h.pc = "answer" /\ h.end => SeenEnd(h.xid, h.scn)')
  BY <1>1 DEF Request, Known, SeenEnd, Over, Reused, HasEnded
<1>4. h.to # None => AskedBy(h.to, h)'
  BY <1>1, <1>2 DEF Request, AskedBy, Handler
<1>5. QED
  BY <1>3, <1>4 DEF Request

(* Two requests of one session are the same; a session that does not wait  *)
(* for an answer has none.                                                 *)
LEMMA RequestFacts ==
    ASSUME IInv, NEW s \in Session
    PROVE  /\ handlers \subseteq Handler /\ s # None
           /\ \A h \in handlers : h.to = s => AskedBy(s, h)
           /\ sess[s].pc # "asked" => \A h \in handlers : h.to # s
           /\ \A g, h \in handlers : g.to = s /\ h.to = s => g = h
BY NoneAssumption DEF IInv, Requests, Request, AskedBy, WaitTypeOK

LEMMA AskIInv == \A s \in Session : IInv /\ Ask(s) => IInv'
<1> SUFFICES ASSUME NEW s \in Session, IInv, Ask(s) PROVE IInv'
  OBVIOUS
<1> DEFINE v == [sess[s] EXCEPT !.pc = "asked"]
<1>0. PICK g : g = [to |-> s, inst |-> sess[s].inst, xid |-> sess[s].xid,
                    pc |-> "read", end |-> FALSE, scn |-> 0]
  OBVIOUS
<1>1. /\ sess[s].pc = "loop" /\ Remote(s) /\ sess' = Goto(s, "asked")
      /\ handlers' = handlers \cup {g}
      /\ UNCHANGED <<slot, owscn, scn, txnRes, localTxn, awakes, used>>
  BY <1>0 DEF Ask, txnVars
<1>2. "asked" \in SessPc
  BY DEF SessPc
<1>3. /\ sess' = [sess EXCEPT ![s] = v] /\ v \in Call /\ v.pc = "asked"
      /\ v.inst = sess[s].inst /\ v.xid = sess[s].xid /\ sess'[s] = v
  <2>1. sess \in [Session -> Call]
    BY CallFacts
  <2>2. sess' = [sess EXCEPT ![s] = v]
    BY <1>1, <1>2, <2>1, GotoIs
  <2>3. QED
    BY <1>2, <2>1, <2>2, GotoCall
<1>4. /\ g \in Handler /\ g.to = s /\ g.xid = sess[s].xid /\ g.inst = sess[s].inst
      /\ g.pc = "read" /\ Known(g.xid) /\ Known(sess[s].xid)
  BY <1>0, <1>1, CallFacts, ScnsNat DEF Handler
<1> HIDE DEF v
<1>5. GoodCall(v, scn')
  BY <1>1, <1>3, <1>4 DEF GoodCall, Remote
<1>6. ScnsRise
  BY <1>1, ScnsStay DEF IInv
<1>7. \A h \in handlers : h.to # s
  BY <1>1, RequestFacts
<1>8. \A h \in handlers : Request(h)'
  BY <1>1, <1>3, <1>7, RequestStays
<1>9. Request(g)'
  BY <1>1, <1>3, <1>4 DEF Request, Known, AskedBy
<1>10. Requests'
  <2>1. \A h \in handlers' : Request(h)'
    BY <1>1, <1>8, <1>9
  <2>2. \A e, h \in handlers' : e.to = h.to /\ e.to # None => e = h
    BY <1>1, <1>4, <1>7 DEF IInv, Requests
  <2>3. QED
    BY <2>1, <2>2 DEF Requests
<1>11. handlers' \subseteq Handler
  BY <1>1, <1>4, RequestFacts
<1>12. \A h \in handlers : h.pc = "recheck" =>
          \E f \in handlers' : f.xid = h.xid /\ f.pc = "recheck"
  BY <1>1
<1>13. QED
  BY <1>1, <1>3, <1>5, <1>6, <1>10, <1>11, <1>12, CallFacts, AskFrame

LEMMA AskFailsIInv == \A s \in Session : IInv /\ AskFails(s) => IInv'
<1> SUFFICES ASSUME NEW s \in Session, IInv, AskFails(s) PROVE IInv'
  OBVIOUS
<1> DEFINE v == [sess[s] EXCEPT !.pc = "check"]
<1>1. /\ used' = [used EXCEPT !["fault"] = @ + 1] /\ sess' = Goto(s, "check")
      /\ UNCHANGED <<slot, owscn, scn, txnRes, localTxn, awakes>>
  BY DEF AskFails, txnVars
<1>2. PICK h \in handlers :
        /\ h.to = s
        /\ \/ h.pc = "read" /\ handlers' = handlers \ {h}
           \/ handlers' = (handlers \ {h}) \cup {[h EXCEPT !.to = None]}
  BY DEF AskFails
<1> DEFINE g == [h EXCEPT !.to = None]
<1>3. "check" \in SessPc
  BY DEF SessPc
<1>4. /\ sess' = [sess EXCEPT ![s] = v] /\ v \in Call /\ v.pc = "check"
      /\ v.inst = sess[s].inst /\ v.xid = sess[s].xid /\ sess'[s] = v
  <2>1. sess \in [Session -> Call]
    BY CallFacts
  <2>2. sess' = [sess EXCEPT ![s] = v]
    BY <1>1, <1>3, <2>1, GotoIs
  <2>3. QED
    BY <1>3, <2>1, <2>2, GotoCall
<1>5. h \in Handler /\ AskedBy(s, h) /\ Request(h)
  BY <1>2, RequestFacts DEF IInv, Requests
<1>6. /\ g \in Handler /\ g.to = None /\ g.xid = h.xid /\ g.pc = h.pc /\ g.scn = h.scn
      /\ g.end = h.end
  BY <1>5 DEF Handler
<1> HIDE DEF v, g
<1>7. GoodCall(v, scn')
  BY <1>4, <1>5, CallFacts DEF GoodCall, AskedBy
<1>8. ScnsRise
  BY <1>1, ScnsStay DEF IInv
<1>9. used' \in Counters /\ used'["txn"] = used["txn"]
  BY <1>1, CallFacts DEF Counters
<1>10. /\ \A f \in handlers \ {h} : f.to # s
       /\ handlers' \subseteq (handlers \ {h}) \cup {g}
       /\ h.pc = "recheck" => g \in handlers'
       /\ handlers \ {h} \subseteq handlers'
  BY <1>2, RequestFacts DEF g
<1>11. \A f \in handlers \ {h} : Request(f)'
  BY <1>1, <1>4, <1>10, RequestStays
<1>12. Request(g)'
  BY <1>1, <1>5, <1>6 DEF Request, Known, SeenEnd, Over, Reused, HasEnded
<1>13. Requests'
  BY <1>6, <1>10, <1>11, <1>12 DEF IInv, Requests
<1>14. handlers' \subseteq Handler
  BY <1>6, <1>10, RequestFacts
<1>15. \A f \in handlers : f.pc = "recheck" =>
          \E e \in handlers' : e.xid = f.xid /\ e.pc = "recheck"
  BY <1>6, <1>10
<1>16. QED
  BY <1>1, <1>4, <1>7, <1>8, <1>9, <1>13, <1>14, <1>15, AskFrame

LEMMA AnsweredIInv == \A s \in Session : IInv /\ Answered(s) => IInv'
<1> SUFFICES ASSUME NEW s \in Session, IInv, Answered(s) PROVE IInv'
  OBVIOUS
<1>1. PICK h \in handlers :
        /\ h.to = s /\ h.pc = "answer" /\ handlers' = handlers \ {h}
        /\ scn' = ScnOfAnswer(s, h)
        /\ sess' = IF h.end THEN Leave(s, TRUE) ELSE Goto(s, "register")
        /\ UNCHANGED <<slot, owscn, txnRes, localTxn, awakes, used>>
  BY DEF Answered, txnVars
<1>2. /\ h \in Handler /\ AskedBy(s, h) /\ Request(h) /\ h.scn \in Scns
      /\ h.end \in BOOLEAN
  BY <1>1, RequestFacts DEF IInv, Requests, Handler
<1>3. /\ sess \in [Session -> Call] /\ sess[s].inst \in Inst /\ Known(sess[s].xid)
      /\ sess[s].inst # Home /\ used \in Counters
  BY <1>2, CallFacts DEF AskedBy, Waiter, Remote
<1>4. ScnsRise /\ (h.end => scn'[sess[s].inst] >= h.scn)
  <2>1. CASE h.end
    <3>1. scn' = Caught(sess[s].inst, h.scn) /\ scn \in [Inst -> Scns]
      BY <1>1, <2>1 DEF ScnOfAnswer, IInv, WaitTypeOK
    <3>2. /\ scn' \in [Inst -> Scns] /\ \A j \in Inst : scn'[j] >= scn[j]
          /\ \A j \in Inst \ {sess[s].inst} : scn'[j] = scn[j]
          /\ scn'[sess[s].inst] >= h.scn
      BY <1>2, <1>3, <3>1, ScnRises
    <3>3. QED
      BY <1>3, <3>2, HomeAssumption DEF ScnsRise
  <2>2. CASE ~h.end
    <3>1. scn' = scn
      BY <1>1, <2>2 DEF ScnOfAnswer
    <3>2. ScnsRise
      BY <3>1, ScnsStay DEF IInv
    <3>3. QED
      BY <2>2, <3>2
  <2>3. QED
    BY <2>1, <2>2
<1>5. PICK v : /\ GoodCall(v, scn') /\ sess' = [sess EXCEPT ![s] = v]
               /\ v.pc \notin {"idle", "enter"}
               /\ v.inst = sess[s].inst /\ v.xid = sess[s].xid
  <2>1. CASE h.end
    <3> DEFINE v == [sess[s] EXCEPT !.pc = "leave", !.item = None, !.ok = TRUE]
    <3>1. /\ v \in Call /\ v.pc = "leave" /\ v.inst = sess[s].inst /\ v.xid = sess[s].xid
          /\ sess' = [sess EXCEPT ![s] = v]
      BY <1>1, <1>3, <2>1, LeaveCall
    <3>2. SeenEnd(h.xid, h.scn) /\ h.xid = sess[s].xid /\ h.xid \in Xid
      BY <1>1, <1>2, <2>1 DEF Request, AskedBy, Handler
    <3>3. SlotOf(h.xid) \in Slot /\ slot \in [Slot -> Slots]
      BY <3>2 DEF Xid, SlotOf, IInv, WaitTypeOK, Slots
    <3>4. /\ slot[SlotOf(h.xid)].scn \in Nat /\ h.scn \in Nat /\ scn'[sess[s].inst] \in Nat
          /\ scn'[sess[s].inst] >= h.scn
      BY <1>2, <1>3, <1>4, <2>1, <3>3, ScnsNat DEF Slots, ScnsRise
    <3>5. SeenEnd(sess[s].xid, scn'[sess[s].inst])
      BY <3>2, <3>4 DEF SeenEnd
    <3> HIDE DEF v
    <3>6. GoodCall(v, scn')
      BY <1>3, <3>1, <3>5 DEF GoodCall
    <3>7. QED
      BY <3>1, <3>6
  <2>2. CASE ~h.end
    <3> DEFINE v == [sess[s] EXCEPT !.pc = "register"]
    <3>1. "register" \in SessPc
      BY DEF SessPc
    <3>2. /\ v \in Call /\ v.pc = "register" /\ v.inst = sess[s].inst /\ v.xid = sess[s].xid
          /\ sess' = [sess EXCEPT ![s] = v]
      <4>1. sess \in [Session -> Call]
        BY CallFacts
      <4>2. v \in Call /\ v.pc = "register" /\ v.inst = sess[s].inst /\ v.xid = sess[s].xid
        BY <3>1, <4>1, GotoCall
      <4>3. sess' = Goto(s, "register")
        BY <1>1, <1>3, <2>2
      <4>4. sess' = [sess EXCEPT ![s] = v]
        BY <3>1, <4>1, <4>3, GotoIs
      <4>5. QED
        BY <4>2, <4>4
    <3> HIDE DEF v
    <3>3. GoodCall(v, scn')
      BY <1>3, <3>2 DEF GoodCall
    <3>4. QED
      BY <3>2, <3>3
  <2>3. QED
    BY <2>1, <2>2
<1>6. \A g \in handlers \ {h} : g.to # s
  BY <1>1, RequestFacts
<1>7. \A g \in handlers \ {h} : Request(g)'
  BY <1>1, <1>5, <1>6, RequestStays
<1>8. Requests'
  BY <1>1, <1>7 DEF IInv, Requests
<1>9. handlers' \subseteq Handler
  BY <1>1, RequestFacts
<1>10. \A f \in handlers : f.pc = "recheck" =>
          \E e \in handlers' : e.xid = f.xid /\ e.pc = "recheck"
  BY <1>1
<1>11. used' \in Counters /\ used'["txn"] = used["txn"]
  BY <1>1, <1>3
<1>12. QED
  BY <1>1, <1>4, <1>5, <1>8, <1>9, <1>10, <1>11, AskFrame

(* Entries are made and recycled: the parts that do not depend on them. *)
LEMMA RegisterFrame ==
    ASSUME IInv, NEW s \in Session, NEW v, GoodCall(v, scn'),
           sess' = [sess EXCEPT ![s] = v], sess[s].pc # "asked",
           UNCHANGED <<slot, owscn, scn, txnRes, handlers, awakes, used>>,
           localTxn' \in [Inst -> [Xid -> Item \cup {None}]],
           \A i \in Inst : \A x, y \in Xid :
              localTxn'[i][x] = localTxn'[i][y] /\ x # y => localTxn'[i][x] = None,
           (\A i \in Inst, x \in Xid : EntryUsed(i, x))'
    PROVE  IInv'
<1>1. used \in Counters
  BY DEF IInv, WaitTypeOK, Counters
<1>2. ScnsRise
  BY ScnsStay DEF IInv
<1>3. sess' \in [Session -> Call] /\ Counted' /\ Waiters'
  BY <1>1, <1>2, CallStep
<1>4. WaitTypeOK'
  BY <1>3 DEF IInv, WaitTypeOK, Call
<1>5. \A h \in handlers : h.to # s
  BY RequestFacts
<1>6. Requests'
  BY <1>5, RequestStays DEF IInv, Requests
<1>7. ASSUME NEW x \in Xid PROVE EntryReleased(x)'
  BY DEF IInv, Entries, EntryReleased, Reused
<1>8. QED
  BY <1>3, <1>4, <1>6, <1>7 DEF IInv, Entries, Awakes

LEMMA RegisterIInv == \A s \in Session : IInv /\ Register(s) => IInv'
<1> SUFFICES ASSUME NEW s \in Session, IInv, Register(s) PROVE IInv'
  OBVIOUS
<1>1. PICK i, x : i = sess[s].inst /\ x = sess[s].xid
  OBVIOUS
<1>2. /\ sess[s].pc = "register" /\ i \in Inst /\ x \in Xid /\ i # Home
      /\ Known(x) /\ sess \in [Session -> Call]
  BY <1>1, CallFacts DEF Register, Waiter, Remote
<1>3. PICK m \in IF localTxn[i][x] = None THEN FreeItems(i) ELSE {localTxn[i][x]} :
        /\ localTxn' = [localTxn EXCEPT ![i][x] = m]
        /\ sess' = [sess EXCEPT ![s].pc = "held", ![s].item = m]
  BY <1>1 DEF Register
<1>4. UNCHANGED <<slot, owscn, scn, txnRes, handlers, awakes, used>>
  BY DEF Register, txnVars, netVars
<1>5. /\ localTxn \in [Inst -> [Xid -> Item \cup {None}]] /\ localTxn[i] \in [Xid -> Item \cup {None}]
      /\ \A j \in Inst : \A y, z \in Xid :
            localTxn[j][y] = localTxn[j][z] /\ y # z => localTxn[j][y] = None
  BY <1>2 DEF IInv, WaitTypeOK
<1>6. m \in Item /\ \A y \in Xid \ {x} : localTxn[i][y] # m
  <2>1. CASE localTxn[i][x] = None
    BY <1>3, <1>5, <2>1 DEF FreeItems, Range
  <2>2. CASE localTxn[i][x] # None
    BY <1>2, <1>3, <1>5, <2>2
  <2>3. QED
    BY <2>1, <2>2
<1>7. \A j \in Inst, y \in Xid :
         localTxn'[j][y] = IF j = i /\ y = x THEN m ELSE localTxn[j][y]
  BY <1>3, <1>5
<1>8. localTxn' \in [Inst -> [Xid -> Item \cup {None}]]
  BY <1>2, <1>3, <1>5, <1>6
<1>9. \A j \in Inst : \A y, z \in Xid :
         localTxn'[j][y] = localTxn'[j][z] /\ y # z => localTxn'[j][y] = None
  BY <1>5, <1>6, <1>7
<1> DEFINE v == [sess[s] EXCEPT !.pc = "held", !.item = m]
<1>10. /\ sess' = [sess EXCEPT ![s] = v] /\ v \in Call /\ v.pc = "held" /\ v.inst = i /\ v.xid = x
  <2>1. sess[s] \in Call /\ "held" \in SessPc
    BY <1>2 DEF SessPc
  <2>2. sess' = [sess EXCEPT ![s] = v]
    BY <1>2, <1>3, <2>1
  <2>3. QED
    BY <1>1, <1>6, <2>1, <2>2 DEF Call
<1> HIDE DEF v
<1>11. GoodCall(v, scn')
  BY <1>2, <1>10 DEF GoodCall
<1>12. \A r \in Session : sess'[r] = IF r = s THEN v ELSE sess[r]
  BY <1>2, <1>10
<1>13. ASSUME NEW j \in Inst, NEW y \in Xid PROVE EntryUsed(j, y)'
  <2>1. EntryUsed(j, y)
    BY DEF IInv, Entries
  <2>2. \A r \in Session : WaitsFor(r, j, y) => WaitsFor(r, j, y)'
    BY <1>1, <1>10, <1>12 DEF WaitsFor
  <2>3. WaitsFor(s, i, x)'
    BY <1>10, <1>12 DEF WaitsFor
  <2>4. QED
    BY <1>2, <1>7, <2>1, <2>2, <2>3 DEF EntryUsed
<1>14. QED
  BY <1>2, <1>4, <1>8, <1>9, <1>10, <1>11, <1>13, RegisterFrame

LEMMA EndWaitIInv == \A s \in Session : IInv /\ EndWait(s) => IInv'
<1> SUFFICES ASSUME NEW s \in Session, IInv, EndWait(s) PROVE IInv'
  OBVIOUS
<1>1. PICK i, x : i = sess[s].inst /\ x = sess[s].xid
  OBVIOUS
<1>2. /\ sess[s].pc = "leave" /\ i \in Inst /\ x \in Xid /\ sess \in [Session -> Call]
      /\ sess' = [sess EXCEPT ![s] = Idle]
      /\ localTxn' = IF i = Home THEN localTxn ELSE [localTxn EXCEPT ![i][x] = None]
      /\ UNCHANGED <<slot, owscn, scn, txnRes, handlers, awakes, used>>
  BY <1>1, CallFacts DEF EndWait, Recycled, Remote, txnVars, netVars
<1>3. /\ localTxn \in [Inst -> [Xid -> Item \cup {None}]] /\ localTxn[i] \in [Xid -> Item \cup {None}]
      /\ \A j \in Inst : \A y, z \in Xid :
            localTxn[j][y] = localTxn[j][z] /\ y # z => localTxn[j][y] = None
  BY <1>2 DEF IInv, WaitTypeOK
<1>4. \A j \in Inst, y \in Xid :
         localTxn'[j][y] = IF i # Home /\ j = i /\ y = x THEN None ELSE localTxn[j][y]
  BY <1>2, <1>3
<1>5. localTxn' \in [Inst -> [Xid -> Item \cup {None}]]
  BY <1>2, <1>3
<1>6. \A j \in Inst : \A y, z \in Xid :
         localTxn'[j][y] = localTxn'[j][z] /\ y # z => localTxn'[j][y] = None
  BY <1>3, <1>4
<1>7. GoodCall(Idle, scn')
  BY HomeAssumption DEF GoodCall, Idle, Call, SessPc
<1>8. ASSUME NEW j \in Inst, NEW y \in Xid PROVE EntryUsed(j, y)'
  <2>1. EntryUsed(j, y)
    BY DEF IInv, Entries
  <2>2. \A r \in Session \ {s} : WaitsFor(r, j, y) => WaitsFor(r, j, y)'
    BY <1>2 DEF WaitsFor
  <2>3. CASE j = i /\ y = x
    BY <1>4, <2>1, <2>3 DEF EntryUsed
  <2>4. CASE ~(j = i /\ y = x)
    <3>1. ~WaitsFor(s, j, y)
      BY <1>1, <2>4 DEF WaitsFor
    <3>2. QED
      BY <1>4, <2>1, <2>2, <2>4, <3>1 DEF EntryUsed
  <2>5. QED
    BY <2>3, <2>4
<1>9. QED
  BY <1>2, <1>5, <1>6, <1>7, <1>8, RegisterFrame

---------------------------------------------------------------------------
(* Messages.                                                               *)

(* What tx_get_info says of a transaction that has begun. *)
LEMMA InfoFacts ==
    ASSUME IInv, NEW x, Known(x)
    PROVE  /\ InfoScn(x) \in Scns
           /\ InfoEnd(x) => SeenEnd(x, InfoScn(x))
           /\ ~InfoEnd(x) => ~Reused(x) /\ slot[SlotOf(x)].stage # "released"
<1>1. x \in Xid /\ SlotOf(x) \in Slot
  BY DEF Known, Xid, SlotOf
<1>2. slot[SlotOf(x)] \in Slots /\ owscn \in Scns
  BY <1>1 DEF IInv, WaitTypeOK, Slots
<1>3. slot[SlotOf(x)].scn \in Scns /\ slot[SlotOf(x)].scn \in Nat
  BY <1>2, ScnsNat DEF Slots
<1>4. InfoScn(x) \in Scns /\ (~Reused(x) => InfoScn(x) = slot[SlotOf(x)].scn)
  BY <1>2, <1>3 DEF InfoScn, Reused
<1>5. InfoEnd(x) => SeenEnd(x, InfoScn(x))
  BY <1>3, <1>4 DEF InfoEnd, SeenEnd, Over
<1>6. ~InfoEnd(x) => ~Reused(x) /\ slot[SlotOf(x)].stage # "released"
  BY DEF InfoEnd, HasEnded, InProgress
<1>7. QED
  BY <1>4, <1>5, <1>6

(* A handler steps from h to g, or is done. *)
LEMMA HandlerFrame ==
    ASSUME IInv, NEW h \in handlers, NEW g \in Handler,
           \/ handlers' = (handlers \ {h}) \cup {g}
           \/ handlers' = handlers \ {h},
           g.to = h.to, g.inst = h.inst, g.xid = h.xid,
           g.pc = "answer" /\ g.end => SeenEnd(g.xid, g.scn),
           UNCHANGED <<slot, owscn, scn, localTxn, sess, used>>,
           txnRes' \in [Xid -> SUBSET Inst], awakes' \subseteq Awake, Awakes',
           \A x \in Xid : EntryReleased(x)'
    PROVE  IInv'
<1>1. h \in Handler /\ Request(h) /\ handlers \subseteq Handler
  BY DEF IInv, Requests, WaitTypeOK
<1>2. WaitTypeOK'
  BY <1>1 DEF IInv, WaitTypeOK
<1>3. Counted'
  BY DEF IInv, Counted, EndedSlots, HasEnded
<1>4. ASSUME NEW s \in Session PROVE Waiter(s)'
  BY DEF IInv, Waiters, Waiter, Known, Remote, SeenEnd, Over, Reused, HasEnded
<1>5. ASSUME NEW f \in handlers \ {h} PROVE Request(f)'
  BY DEF IInv, Requests, Request, Known, AskedBy, SeenEnd, Over, Reused, HasEnded
<1>6. Request(g)'
  BY <1>1 DEF Request, Known, AskedBy, SeenEnd, Over, Reused, HasEnded
<1>7. \A e, f \in handlers' : e.to = f.to /\ e.to # None => e = f
  BY DEF IInv, Requests
<1>8. Requests'
  BY <1>5, <1>6, <1>7 DEF Requests
<1>9. ASSUME NEW i \in Inst, NEW x \in Xid PROVE EntryUsed(i, x)'
  BY DEF IInv, Entries, EntryUsed, WaitsFor
<1>10. QED
  BY <1>2, <1>3, <1>4, <1>8, <1>9 DEF IInv, Waiters, Entries

(* The states that follow h are requests of the same session. *)
LEMMA HandlerFollows ==
    ASSUME NEW h \in Handler, NEW pc \in {"enqueue", "recheck"}
    PROVE  LET g == [h EXCEPT !.pc = pc] IN
           /\ g \in Handler /\ g.pc = pc
           /\ g.to = h.to /\ g.inst = h.inst /\ g.xid = h.xid
BY DEF Handler

LEMMA HandlerAnswers ==
    ASSUME NEW h \in Handler, NEW end \in BOOLEAN, NEW n \in Scns
    PROVE  LET g == AnswerOf(h, end, n) IN
           /\ g \in Handler /\ g.pc = "answer" /\ g.end = end /\ g.scn = n
           /\ g.to = h.to /\ g.inst = h.inst /\ g.xid = h.xid
BY DEF Handler, AnswerOf

LEMMA HandleReadIInv == \A h \in handlers : IInv /\ HandleRead(h) => IInv'
<1> SUFFICES ASSUME NEW h \in handlers, IInv, HandleRead(h) PROVE IInv'
  OBVIOUS
<1>1. PICK g : g = IF InfoEnd(h.xid) THEN AnswerOf(h, TRUE, InfoScn(h.xid))
                   ELSE [h EXCEPT !.pc = "enqueue"]
  OBVIOUS
<1>2. /\ h.pc = "read" /\ handlers' = (handlers \ {h}) \cup {g}
      /\ UNCHANGED <<slot, owscn, scn, txnRes, localTxn, sess, awakes, used>>
  BY <1>1 DEF HandleRead, Becomes, txnVars
<1>3. h \in Handler /\ Known(h.xid)
  BY DEF IInv, WaitTypeOK, Requests, Request
<1>4. InfoScn(h.xid) \in Scns /\ (InfoEnd(h.xid) => SeenEnd(h.xid, InfoScn(h.xid)))
  BY <1>3, InfoFacts
<1>5. /\ g \in Handler /\ g.to = h.to /\ g.inst = h.inst /\ g.xid = h.xid
      /\ g.pc = "answer" /\ g.end => SeenEnd(g.xid, g.scn)
  <2>1. CASE InfoEnd(h.xid)
    <3>1. g = AnswerOf(h, TRUE, InfoScn(h.xid))
      BY <1>1, <2>1
    <3>2. QED
      BY <1>3, <1>4, <2>1, <3>1, HandlerAnswers
  <2>2. CASE ~InfoEnd(h.xid)
    <3>1. g = [h EXCEPT !.pc = "enqueue"]
      BY <1>1, <2>2
    <3>2. QED
      BY <1>3, <3>1, HandlerFollows
  <2>3. QED
    BY <2>1, <2>2
<1>6. ASSUME NEW x \in Xid PROVE EntryReleased(x)'
  <2>1. EntryReleased(x)
    BY DEF IInv, Entries
  <2>2. \A f \in handlers : f.pc = "recheck" => f \in handlers'
    BY <1>2
  <2>3. QED
    BY <1>2, <2>1, <2>2 DEF EntryReleased, Reused
<1>7. /\ txnRes' \in [Xid -> SUBSET Inst] /\ awakes' \subseteq Awake /\ Awakes'
  BY <1>2 DEF IInv, WaitTypeOK, Awakes
<1>8. QED
  BY <1>2, <1>5, <1>6, <1>7, HandlerFrame

LEMMA HandleEnqueueIInv == \A h \in handlers : IInv /\ HandleEnqueue(h) => IInv'
<1> SUFFICES ASSUME NEW h \in handlers, IInv, HandleEnqueue(h) PROVE IInv'
  OBVIOUS
<1> DEFINE g == [h EXCEPT !.pc = "recheck"]
<1>1. /\ h.pc = "enqueue" /\ handlers' = (handlers \ {h}) \cup {g}
      /\ txnRes' = [txnRes EXCEPT ![h.xid] = @ \cup {h.inst}]
      /\ UNCHANGED <<slot, owscn, scn, localTxn, sess, awakes, used>>
  BY DEF HandleEnqueue, Becomes, txnVars
<1>2. h \in Handler /\ h.xid \in Xid /\ h.inst \in Inst
  BY DEF IInv, WaitTypeOK, Handler
<1>3. g \in Handler /\ g.to = h.to /\ g.inst = h.inst /\ g.xid = h.xid /\ g.pc = "recheck"
  BY <1>2 DEF Handler
<1> HIDE DEF g
<1>4. txnRes \in [Xid -> SUBSET Inst] /\ txnRes' \in [Xid -> SUBSET Inst]
  BY <1>1, <1>2 DEF IInv, WaitTypeOK
<1>5. ASSUME NEW x \in Xid PROVE EntryReleased(x)'
  <2>1. EntryReleased(x)
    BY DEF IInv, Entries
  <2>2. CASE x = h.xid
    BY <1>1, <1>3, <2>2 DEF EntryReleased
  <2>3. CASE x # h.xid
    <3>1. txnRes'[x] = txnRes[x]
      BY <1>1, <1>4, <2>3
    <3>2. \A f \in handlers : f.pc = "recheck" => f \in handlers'
      BY <1>1
    <3>3. QED
      BY <1>1, <2>1, <3>1, <3>2 DEF EntryReleased, Reused
  <2>4. QED
    BY <2>2, <2>3
<1>6. awakes' \subseteq Awake /\ Awakes'
  BY <1>1 DEF IInv, WaitTypeOK, Awakes
<1>7. QED
  BY <1>1, <1>3, <1>4, <1>5, <1>6, HandlerFrame

LEMMA HandleRecheckIInv == \A h \in handlers : IInv /\ HandleRecheck(h) => IInv'
<1> SUFFICES ASSUME NEW h \in handlers, IInv, HandleRecheck(h) PROVE IInv'
  OBVIOUS
<1>1. PICK x : x = h.xid
  OBVIOUS
<1>2. PICK g : g = IF InfoEnd(x) THEN AnswerOf(h, TRUE, InfoScn(x)) ELSE AnswerOf(h, FALSE, 0)
  OBVIOUS
<1>3. /\ h.pc = "recheck" /\ handlers' = (handlers \ {h}) \cup {g}
      /\ awakes' = IF InfoEnd(x) THEN awakes \cup AwakesFor(x, scn[Home]) ELSE awakes
      /\ txnRes' = IF InfoEnd(x) THEN NoTxnRes(x) ELSE txnRes
      /\ UNCHANGED <<slot, owscn, scn, localTxn, sess, used>>
  BY <1>1, <1>2 DEF HandleRecheck, Becomes, txnVars
<1>4. h \in Handler /\ Known(x) /\ x \in Xid
  BY <1>1 DEF IInv, WaitTypeOK, Requests, Request, Known
<1>5. /\ InfoScn(x) \in Scns /\ (InfoEnd(x) => SeenEnd(x, InfoScn(x)))
      /\ ~InfoEnd(x) => ~Reused(x) /\ slot[SlotOf(x)].stage # "released"
  BY <1>4, InfoFacts
<1>6. /\ g \in Handler /\ g.to = h.to /\ g.inst = h.inst /\ g.xid = h.xid /\ g.pc = "answer"
      /\ g.pc = "answer" /\ g.end => SeenEnd(g.xid, g.scn)
  <2>1. CASE InfoEnd(x)
    <3>1. g = AnswerOf(h, TRUE, InfoScn(x))
      BY <1>2, <2>1
    <3>2. QED
      BY <1>1, <1>4, <1>5, <2>1, <3>1, HandlerAnswers
  <2>2. CASE ~InfoEnd(x)
    <3>1. g = AnswerOf(h, FALSE, 0)
      BY <1>2, <2>2
    <3>2. QED
      BY <1>4, <3>1, HandlerAnswers, ScnsNat
  <2>3. QED
    BY <2>1, <2>2
<1>7. txnRes \in [Xid -> SUBSET Inst] /\ txnRes' \in [Xid -> SUBSET Inst]
  BY <1>3, <1>4 DEF IInv, WaitTypeOK, NoTxnRes
<1>8. ASSUME NEW y \in Xid PROVE EntryReleased(y)'
  <2>1. EntryReleased(y)
    BY DEF IInv, Entries
  <2>2. CASE y = x
    <3>1. CASE InfoEnd(x)
      BY <1>3, <1>7, <2>2, <3>1 DEF EntryReleased, NoTxnRes
    <3>2. CASE ~InfoEnd(x)
      BY <1>3, <1>5, <2>2, <3>2 DEF EntryReleased, Reused
    <3>3. QED
      BY <3>1, <3>2
  <2>3. CASE y # x
    <3>1. txnRes'[y] = txnRes[y]
      BY <1>3, <1>7, <2>3 DEF NoTxnRes
    <3>2. \A f \in handlers : f.xid = y => f \in handlers'
      BY <1>1, <1>3, <2>3
    <3>3. QED
      BY <1>3, <2>1, <3>1, <3>2 DEF EntryReleased, Reused
  <2>4. QED
    BY <2>2, <2>3
<1>9. awakes' \subseteq Awake /\ Awakes'
  <2>1. awakes \subseteq Awake /\ Awakes /\ txnRes[x] \subseteq Inst /\ scn[Home] \in Scns
    BY <1>4, <1>7, HomeAssumption DEF IInv, WaitTypeOK
  <2>2. \A m \in AwakesFor(x, scn[Home]) : m \in Awake /\ m.to # Home
    BY <1>4, <2>1 DEF AwakesFor, Awake
  <2>3. QED
    BY <1>3, <2>1, <2>2 DEF Awakes
<1>10. QED
  BY <1>3, <1>6, <1>7, <1>8, <1>9, HandlerFrame

LEMMA DropAnswerIInv == \A h \in handlers : IInv /\ DropAnswer(h) => IInv'
<1> SUFFICES ASSUME NEW h \in handlers, IInv, DropAnswer(h) PROVE IInv'
  OBVIOUS
<1>1. /\ h.pc = "answer" /\ handlers' = handlers \ {h}
      /\ UNCHANGED <<slot, owscn, scn, txnRes, localTxn, sess, awakes, used>>
  BY DEF DropAnswer, txnVars
<1>2. ASSUME NEW x \in Xid PROVE EntryReleased(x)'
  <2>1. EntryReleased(x)
    BY DEF IInv, Entries
  <2>2. \A f \in handlers : f.pc = "recheck" => f \in handlers'
    BY <1>1
  <2>3. QED
    BY <1>1, <2>1, <2>2 DEF EntryReleased, Reused
<1>3. txnRes' \in [Xid -> SUBSET Inst] /\ awakes' \subseteq Awake /\ Awakes'
  BY <1>1 DEF IInv, WaitTypeOK, Awakes
<1>4. h \in Handler /\ (h.pc = "answer" /\ h.end => SeenEnd(h.xid, h.scn))
  BY DEF IInv, WaitTypeOK, Requests, Request
<1>5. QED
  BY <1>1, <1>2, <1>3, <1>4, HandlerFrame

LEMMA ProcessAwakeIInv == \A m \in awakes : IInv /\ ProcessAwake(m) => IInv'
<1> SUFFICES ASSUME NEW m \in awakes, IInv, ProcessAwake(m) PROVE IInv'
  OBVIOUS
<1>1. m \in Awake /\ m.to \in Inst /\ m.to # Home /\ m.scn \in Scns /\ m.xid \in Xid
  BY DEF IInv, WaitTypeOK, Awakes, Awake
<1>2. /\ awakes' = awakes \ {m} /\ scn' = Caught(m.to, m.scn)
      /\ UNCHANGED <<slot, owscn, txnRes, localTxn, handlers, used>>
  BY DEF ProcessAwake, txnVars
<1>3. /\ sess' \in [Session -> Call]
      /\ \A s \in Session :
            \/ sess'[s] = sess[s]
            \/ sess[s].pc = "asleep" /\ sess'[s] = [sess[s] EXCEPT !.pc = "awoken"]
  <2>1. sess \in [Session -> Call]
    BY DEF IInv, WaitTypeOK, Call
  <2>2. \A s \in Session : [sess[s] EXCEPT !.pc = "awoken"] \in Call
    BY <2>1 DEF Call, SessPc
  <2>3. sess' = [s \in Session |->
                  IF /\ sess[s].inst = m.to /\ sess[s].pc = "asleep"
                     /\ sess[s].item = localTxn[m.to][m.xid] /\ localTxn[m.to][m.xid] # None
                  THEN [sess[s] EXCEPT !.pc = "awoken"] ELSE sess[s]]
    BY DEF ProcessAwake
  <2>4. QED
    BY <2>1, <2>2, <2>3
<1>4. /\ scn' \in [Inst -> Scns] /\ \A i \in Inst : scn'[i] >= scn[i]
      /\ scn'[Home] = scn[Home]
  <2>1. scn \in [Inst -> Scns]
    BY DEF IInv, WaitTypeOK
  <2>2. QED
    BY <1>1, <1>2, <2>1, ScnRises, HomeAssumption
<1>5. /\ slot' \in [Slot -> Slots]
      /\ \A x \in Xid : Known(x) => Known(x)'
      /\ \A x \in Xid : \A n \in Nat : Known(x) /\ SeenEnd(x, n) => SeenEnd(x, n)'
  BY <1>2 DEF IInv, WaitTypeOK, Slots, Known, SeenEnd, Over, Reused, HasEnded
<1>6. WaitTypeOK'
  <2>1. /\ owscn' \in Scns /\ txnRes' \in [Xid -> SUBSET Inst]
        /\ awakes' \subseteq Awake /\ used' \in Counters
    BY <1>2 DEF IInv, WaitTypeOK, Counters
  <2>2. QED
    BY <1>2, <1>3, <1>4, <1>5, <2>1, TxnTypes DEF IInv
<1>7. Waiters' /\ Requests' /\ (\A i \in Inst, x \in Xid : EntryUsed(i, x))'
  BY <1>2, <1>3, <1>4, <1>5, WakeStep DEF IInv, Entries
<1>8. Counted'
  BY <1>2, <1>4 DEF IInv, Counted, EndedSlots, HasEnded
<1>9. ASSUME NEW x \in Xid PROVE EntryReleased(x)'
  BY <1>2 DEF IInv, Entries, EntryReleased, Reused
<1>10. Awakes'
  BY <1>2 DEF IInv, Awakes
<1>11. QED
  BY <1>6, <1>7, <1>8, <1>9, <1>10 DEF IInv, Entries

---------------------------------------------------------------------------
(* Every step keeps the invariant. *)
LEMMA NextIInv == IInv /\ [Next]_vars => IInv'
<1> SUFFICES ASSUME IInv, [Next]_vars PROVE IInv'
  OBVIOUS
<1>1. ASSUME NEW k \in Slot, EndBegins(k) \/ EndStep(k) \/ BeginTxn(k) PROVE IInv'
  BY <1>1, EndBeginsIInv, EndCommitsIInv, EndDoneIInv, EndReleasesIInv, BeginTxnIInv DEF EndStep
<1>2. ASSUME NEW s \in Session, NEW i \in Place[s], NEW k \in Slot, StartWait(s, i, k)
      PROVE  IInv'
  <2>1. i \in Inst
    BY PlaceAssumption
  <2>2. QED
    BY <1>2, <2>1, StartWaitIInv
<1>3. ASSUME NEW s \in Session, SessionStep(s) \/ WokenByOther(s) \/ AskFails(s) \/ CheckFails(s)
      PROVE  IInv'
  <2>1. CASE \/ Enter(s) \/ SleepAtHome(s) \/ Sleep(s) \/ WokenByOther(s)
             \/ SleepEnds(s) \/ Awoken(s) \/ CheckFails(s) \/ Check(s)
    BY <2>1, OwnStepsIInv
  <2>2. CASE Ask(s) \/ AskFails(s) \/ Answered(s) \/ Register(s) \/ EndWait(s)
    BY <2>2, AskIInv, AskFailsIInv, AnsweredIInv, RegisterIInv, EndWaitIInv
  <2>3. QED
    BY <1>3, <2>1, <2>2 DEF SessionStep
<1>4. ASSUME NEW h \in handlers, Handle(h) PROVE IInv'
  BY <1>4, HandleReadIInv, HandleEnqueueIInv, HandleRecheckIInv, DropAnswerIInv DEF Handle
<1>5. ASSUME NEW m \in awakes, ProcessAwake(m) PROVE IInv'
  BY <1>5, ProcessAwakeIInv
<1>6. CASE UNCHANGED vars
  BY <1>6 DEF vars, IInv, WaitTypeOK, Counted, EndedSlots, HasEnded, Waiters, Waiter, Known,
     Remote, SeenEnd, Over, Reused, Requests, Request, AskedBy, Entries, EntryUsed, WaitsFor,
     EntryReleased, Awakes
<1>7. QED
  BY <1>1, <1>2, <1>3, <1>4, <1>5, <1>6 DEF Next

LEMMA SpecIInv == Spec => []IInv
<1>1. QED
  BY InitIInv, NextIInv, PTL DEF Spec

(* TxnWait keeps its types: SCNs stay within the number of transactions    *)
(* and an item of a pool serves one transaction at a time.                 *)
THEOREM WaitTypeCorrect == Spec => []WaitTypeOK
<1>1. IInv => WaitTypeOK
  BY DEF IInv
<1>2. QED
  BY <1>1, SpecIInv, PTL

(* tx_wait succeeds only after the end of the transaction it waits for, in *)
(* spite of wake-ups that come through a recycled entry.                   *)
THEOREM WaitsAreForEnds == Spec => []EndedWhenWaited
<1>1. IInv => EndedWhenWaited
  BY DEF IInv, Waiters, Waiter, SeenEnd, EndedWhenWaited
<1>2. QED
  BY <1>1, SpecIInv, PTL

(* A wait that succeeded leaves its instance with an SCN that sees what    *)
(* the transaction has done.                                               *)
THEOREM WaitsCatchUp == Spec => []ScnCaughtUp
<1>1. IInv => ScnCaughtUp
  <2> SUFFICES ASSUME IInv, NEW s \in Session, sess[s].pc = "leave", sess[s].ok,
                      ~Reused(sess[s].xid)
               PROVE  scn[sess[s].inst] >= slot[SlotOf(sess[s].xid)].scn
    BY DEF ScnCaughtUp
  <2>1. SeenEnd(sess[s].xid, scn[sess[s].inst]) /\ Known(sess[s].xid)
    BY DEF IInv, Waiters, Waiter
  <2>2. sess[s].inst \in Inst /\ SlotOf(sess[s].xid) \in Slot
    BY <2>1, CallFacts DEF Known, Xid, SlotOf
  <2>3. scn[sess[s].inst] \in Nat /\ slot[SlotOf(sess[s].xid)].scn \in Nat
    BY <2>2, ScnsNat DEF IInv, WaitTypeOK
  <2>4. QED
    BY <2>1, <2>3 DEF SeenEnd
<1>2. QED
  BY <1>1, SpecIInv, PTL

(* Neither map of waiters keeps an entry that nobody will remove: a        *)
(* request and the tx_end it races with do not miss each other, and an     *)
(* entry of local_txn_map belongs to a wait that recycles it.              *)
THEOREM EntriesAreRemoved == Spec => []NoEntryLeft
<1>1. IInv => NoEntryLeft
  BY DEF IInv, Entries, EntryReleased, EntryUsed, WaitsFor, NoEntryLeft
<1>2. QED
  BY <1>1, SpecIInv, PTL
=============================================================================

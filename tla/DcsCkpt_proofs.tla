--------------------------- MODULE DcsCkpt_proofs ---------------------------
(***************************************************************************)
(* The page service with evictions, recycling and checkpoints, for any     *)
(* number of instances and any bounds: its types and the invariant of      *)
(* DcsPage_proofs, with timeouts and evictions; and, when nothing times    *)
(* out and no instance evicts the page, the coherence of                   *)
(* DcsCoherence_proofs under the checkpoint and while the master recycles  *)
(* its entry, the panics of the checkpoint, and what it promises of redo   *)
(* and of the last version.                                                *)
(***************************************************************************)
EXTENDS DcsCkpt, DcsCoherence_proofs

NoFaults == MaxTimeouts = 0 /\ MaxEvicts = 0

(* What is said to be written is, or was said too early.                   *)
Safe(l) == l <= flushed \/ \E e \in early : l <= e

(* A page that is about to be read from disk is neither dirty nor being    *)
(* written.                                                                *)
Fresh == \A i \in Inst : Lk(i) # LockNull /\ ctrl[i].load = "need"
                         => CtrlRecyclable(ctrl[i])

(* Whoever is asked to write has the page in memory; without an entry      *)
(* everybody is told to give an edp up, which is written.                  *)
OwnerAsk(p) == IF p.clean THEN Safe(p.lsn) ELSE ctrl[p.inst].load # "absent"
Present ==
    /\ res.used => ctrl[res.owner].load # "absent"
    /\ \A i \in Inst : sess[i].st # "idle" => /\ ctrl[i].load # "absent"
                                              /\ sess[i].mode # LockNull
    /\ \A p \in askckpt : p.lsn <= latest
    /\ \A p \in toowner : OwnerAsk(p)

(* The flags of a ctrl: a page that is dirty here, or was dirty where it   *)
(* came from, is with the owner or its successor, unless it is an edp.     *)
Keeper(i) == i = res.owner \/ (claims # {} /\ Lk(i) = LockExclusive)
FlagsOK(c) == /\ c.edp => c.dirty /\ ~c.rdirty /\ c.lock # LockExclusive
              /\ (c.dirty /\ ~c.edp) \/ c.rdirty => c.lock # LockNull
Flagged == \A i \in Inst :
              /\ FlagsOK(ctrl[i])
              /\ (ctrl[i].dirty /\ ~ctrl[i].edp) \/ ctrl[i].rdirty => Keeper(i)

(* The groups: what is being written is the page under a lock, or an older *)
(* version of a page that is dirty again.                                  *)
Copied(i) ==
    /\ ctrl[i].marked <=> group[i].buf # {}
    /\ ctrl[i].marked => Lk(i) # LockNull
    /\ \A b \in group[i].buf : /\ group[i].buf = {b} /\ b <= latest
                               /\ b < latest => ctrl[i].dirty /\ ~ctrl[i].edp
Announced(i) == \A l \in group[i].clean :
                   Safe(l) \/ \E b \in group[i].buf : l <= b
Groups == \A i \in Inst : Copied(i) /\ Announced(i)

Redo == /\ disk <= flushed
        /\ \A i \in Inst : lastmod[i] <= ctrl[i].lsn
        /\ RedoWritten
        /\ \A p \in written \cup cleanedp : Safe(p.lsn)

(* LatestKept, with the one who keeps it; a page is sent by another        *)
(* instance than its receiver.                                             *)
Dirties == {a \in Ready : /\ a.mode = LockExclusive
                          /\ a.flags \cap {"dirty", "remote_dirty"} # {}}
Keeps(i) == /\ Lk(i) # LockNull /\ ~ctrl[i].edp
            /\ ctrl[i].dirty \/ ctrl[i].rdirty
Kept == \/ disk = latest
        \/ Dirties # {}
        \/ \E i \in Inst : latest \in group[i].buf \/ Keeps(i)
Sent == \A a \in acks : a.cmd = "page_ready" => a.dst # res.owner

KInv == /\ evicting = {} /\ notices = {}
        /\ Fresh /\ Present /\ Flagged /\ Groups /\ Redo /\ Kept /\ Sent

-----------------------------------------------------------------------------
(* Types, and the invariant of DcsPage_proofs.                             *)

(* Marking an entry as being recycled, or no longer. *)
LEMMA PendingEntry ==
    ASSUME NEW r, Entry(r), NEW p \in BOOLEAN, p => r.used /\ ~Converting(r)
    PROVE  /\ Entry([r EXCEPT !.pending = p])
           /\ EntryRequests([r EXCEPT !.pending = p]) = EntryRequests(r)
<1>1. r \in BufRes /\ EntryOK(r)
  BY DEF Entry
<1>2. PICK s : s = [r EXCEPT !.pending = p]
  OBVIOUS
<1>3. /\ s \in BufRes
      /\ s.used = r.used /\ s.owner = r.owner /\ s.mode = r.mode
      /\ s.copies = r.copies /\ s.q = r.q /\ s.pending = p /\ s.conv = r.conv
  BY <1>1, <1>2 DEF BufRes
<1>4. ~r.used => s = NoBufRes
  <2> SUFFICES ASSUME ~r.used PROVE s = NoBufRes
    OBVIOUS
  <2>1. r = NoBufRes /\ p = FALSE
    BY <1>1 DEF EntryOK
  <2>2. r.pending = p
    BY <2>1 DEF NoBufRes
  <2>3. s = r
    BY <1>1, <1>2, <2>2 DEF BufRes
  <2>4. QED
    BY <2>1, <2>3
<1>5. EntryOK(s)
  BY <1>1, <1>3, <1>4 DEF EntryOK, Converting
<1>6. EntryRequests(s) = EntryRequests(r)
  BY <1>3 DEF EntryRequests
<1>7. QED
  BY <1>2, <1>3, <1>5, <1>6 DEF Entry

(* drc_clean_edp_info. *)
LEMMA ClearedEdpEntry ==
    ASSUME NEW r, Entry(r), r.used
    PROVE  /\ Entry([r EXCEPT !.edp = {}])
           /\ EntryRequests([r EXCEPT !.edp = {}]) = EntryRequests(r)
<1>1. r \in BufRes /\ EntryOK(r)
  BY DEF Entry
<1>2. PICK s : s = [r EXCEPT !.edp = {}]
  OBVIOUS
<1>3. /\ s \in BufRes
      /\ s.used = r.used /\ s.owner = r.owner /\ s.mode = r.mode
      /\ s.copies = r.copies /\ s.q = r.q /\ s.pending = r.pending
      /\ s.conv = r.conv
  BY <1>1, <1>2 DEF BufRes
<1>4. EntryOK(s)
  BY <1>1, <1>3 DEF EntryOK, Converting
<1>5. EntryRequests(s) = EntryRequests(r)
  BY <1>3 DEF EntryRequests
<1>6. QED
  BY <1>2, <1>3, <1>4, <1>5 DEF Entry

LEMMA NoCtrlType == NoCtrl \in BufCtrl
BY DEF NoCtrl, BufCtrl, LoadStatus, LockMode

LEMMA InvalidType ==
    ASSUME NEW c \in BufCtrl
    PROVE  InvalidateCtrl(c) \in BufCtrl
BY DEF InvalidateCtrl, BufCtrl, LoadStatus, LockMode

(* The lock and the page of a ctrl stay, whatever its flags. *)
SamePage(c, d) == c.lock = d.lock /\ c.load = d.load /\ c.lsn = d.lsn

LEMMA CleanType ==
    ASSUME NEW c \in BufCtrl
    PROVE  CleanCtrlEdp(c) \in BufCtrl /\ SamePage(CleanCtrlEdp(c), c)
BY DEF CleanCtrlEdp, BufCtrl, SamePage

(* A step that changes only the ctrl of idle instances, the entry and the  *)
(* recycling threads.                                                      *)
LEMMA RecycleStep ==
    ASSUME IInv, UNCHANGED <<sess, askm, asko, acks, claims, clock, timeouts, latest, disk>>,
           ctrl' \in [Inst -> BufCtrl],
           \A i \in Inst : sess[i].st = "held" => ctrl'[i].lock = ctrl[i].lock,
           Entry(res'), EntryRequests(res') \subseteq EntryRequests(res),
           tasks' \subseteq Task, \A t \in tasks' \ tasks : t.kind = "recycle"
    PROVE  IInv'
<1>1. acks' = Answered({}) /\ {} \in SUBSET Ack
  BY HandlerFinds
<1>2. \A t \in tasks' : t.kind # "recycle" => /\ t.req \in ReqInfo
                                              /\ t.owner \in Inst
                                              /\ Covers(t.req)
  BY HandlerFinds
<1>3. QED
  BY <1>1, <1>2, HandlerFinds, HandlerStep

(* The clock advances without a request. *)
LEMMA ClockStep ==
    ASSUME IInv, clock' = clock + 1,
           UNCHANGED <<res, ctrl, sess, askm, asko, acks, claims, tasks, timeouts, latest, disk>>
    PROVE  IInv'
<1>1. /\ TypeOK' /\ DirectoryOK' /\ TasksOK' /\ AnswersCover' /\ HeldCovered'
  BY DEF IInv, TypeOK, DirectoryOK, TasksOK, AnswersCover, Waiting, HeldCovered
<1>2. Requests' = Requests /\ clock \in Nat
  BY DEF Requests, IInv, TypeOK
<1>3. ASSUME NEW req \in Requests PROVE Covers(req)'
  <2>1. req.rsn \in Nat /\ Covers(req)
    BY RequestsType DEF ReqInfo, IInv, RequestsCover
  <2>2. req.rsn <= clock'
    BY <1>2, <2>1 DEF Covers
  <2>3. QED
    BY <2>1, <2>2 DEF Covers, Waiting
<1>4. RequestsCover'
  BY <1>2, <1>3 DEF RequestsCover
<1>5. QED
  BY <1>1, <1>4 DEF IInv

LEMMA StartRecycleForm ==
    ASSUME IInv, NEW by \in Inst, StartRecycle(by), res.used, ~Converting(res)
    PROVE  /\ Entry(res') /\ EntryRequests(res') \subseteq EntryRequests(res)
           /\ tasks' \subseteq Task /\ \A t \in tasks' \ tasks : t.kind = "recycle"
<1>1. PICK t : t = [kind |-> "recycle", req |-> NoReq(0), by |-> by,
                    owner |-> res.owner, retry |-> FALSE,
                    todo |-> res.copies \ {res.owner}, fail |-> FALSE]
  OBVIOUS
<1>2. Entry(res) /\ res \in BufRes
  BY HandlerFinds DEF Entry
<1>3. t \in Task /\ t.kind = "recycle"
  BY <1>1, <1>2, NoReqType DEF Task, BufRes
<1>4. tasks' = tasks \cup {t} /\ res' = [res EXCEPT !.pending = TRUE]
  BY <1>1 DEF StartRecycle
<1>5. QED
  BY <1>2, <1>3, <1>4, PendingEntry, HandlerFinds

LEMMA EvictInv ==
    ASSUME IInv, NEW i \in Inst, Evict(i) PROVE IInv'
<1>1. /\ UNCHANGED <<res, sess, askm, asko, acks, claims, tasks, clock, timeouts, latest, disk>>
      /\ ctrl' = [ctrl EXCEPT ![i] = NoCtrl] /\ sess[i].st = "idle"
  BY DEF Evict
<1>2. /\ ctrl' \in [Inst -> BufCtrl]
      /\ \A j \in Inst : sess[j].st = "held" => ctrl'[j].lock = ctrl[j].lock
  BY <1>1, HandlerFinds, NoCtrlType
<1>3. QED
  BY <1>1, <1>2, HandlerFinds, RecycleStep

LEMMA InvalidateOwnerInv ==
    ASSUME IInv, NEW t \in tasks, InvalidateOwner(t) PROVE IInv'
<1> DEFINE i == t.owner
<1>1. /\ UNCHANGED <<res, sess, askm, asko, acks, claims, clock, timeouts, latest, disk>>
      /\ t.kind = "recycle" /\ i \in Inst
  BY DEF InvalidateOwner
<1>2. t \in Task /\ ctrl \in [Inst -> BufCtrl]
  BY HandlerFinds
<1>3. PICK u \in Task : u.kind = "recycle" /\ tasks' = (tasks \ {t}) \cup {u}
  <2>1. [t EXCEPT !.owner = NoInst] \in Task /\ [t EXCEPT !.owner = NoInst].kind = "recycle"
    BY <1>1, <1>2 DEF Task
  <2>2. [t EXCEPT !.fail = TRUE] \in Task /\ [t EXCEPT !.fail = TRUE].kind = "recycle"
    BY <1>1, <1>2 DEF Task
  <2>3. \/ tasks' = (tasks \ {t}) \cup {[t EXCEPT !.owner = NoInst]}
        \/ tasks' = (tasks \ {t}) \cup {[t EXCEPT !.fail = TRUE]}
    BY DEF InvalidateOwner
  <2>4. QED
    BY <2>1, <2>2, <2>3
<1>4. tasks' \subseteq Task /\ \A v \in tasks' \ tasks : v.kind = "recycle"
  BY <1>3, HandlerFinds
<1>5. ctrl' = ctrl \/ (sess[i].st = "idle" /\ ctrl' = [ctrl EXCEPT ![i] = InvalidateCtrl(@)])
  BY DEF InvalidateOwner
<1>6. /\ ctrl' \in [Inst -> BufCtrl]
      /\ \A j \in Inst : sess[j].st = "held" => ctrl'[j].lock = ctrl[j].lock
  <2>1. InvalidateCtrl(ctrl[i]) \in BufCtrl
    BY <1>1, <1>2, InvalidType
  <2>2. QED
    BY <1>1, <1>2, <1>5, <2>1
<1>7. QED
  BY <1>1, <1>4, <1>6, HandlerFinds, RecycleStep

LEMMA RecycleDoneInv ==
    ASSUME IInv, NEW t \in tasks, RecycleDone(t) PROVE IInv'
<1>1. /\ UNCHANGED <<ctrl, sess, askm, asko, acks, claims, clock, timeouts, latest, disk>>
      /\ tasks' \subseteq tasks
      /\ res' = [res EXCEPT !.pending = FALSE] \/ res' = NoBufRes
  BY DEF RecycleDone
<1>2. Entry(res') /\ EntryRequests(res') \subseteq EntryRequests(res)
  BY <1>1, PendingEntry, NoBufResEntry, HandlerFinds
<1>3. QED
  BY <1>1, <1>2, HandlerFinds, RecycleStep

RInv == IInv /\ RecycleTypeOK

LEMMA RecycleNextIInv ==
    ASSUME RInv, [RecycleNext]_allvars PROVE IInv'
<1> USE DEF RInv
<1>1. CASE Next /\ UNCHANGED rvars
  BY <1>1, NextIInv
<1>2. ASSUME NEW i \in Inst, Evict(i) PROVE IInv'
  BY <1>2, EvictInv
<1>3. ASSUME NEW i \in Inst, SendRecycled(i) PROVE IInv'
  BY <1>3, ClockStep DEF SendRecycled
<1>4. ASSUME NEW n \in notices, ProcessRecycle(n) PROVE IInv'
  <2>1. /\ UNCHANGED <<ctrl, sess, askm, asko, acks, claims, clock, timeouts, latest, disk>>
        /\ n.inst \in Inst
    BY <1>4 DEF ProcessRecycle, RecycleTypeOK, Notice
  <2>2. CASE AcceptsRecycle(res, n.inst, n.time) /\ StartRecycle(n.inst)
    <3>1. res.used /\ ~Converting(res)
      BY <2>2 DEF AcceptsRecycle, Recyclable
    <3>2. QED
      BY <2>1, <2>2, <3>1, StartRecycleForm, HandlerFinds, RecycleStep
  <2>3. CASE UNCHANGED <<res, tasks>>
    BY <2>1, <2>3, HandlerFinds, RecycleStep
  <2>4. QED
    BY <1>4, <2>2, <2>3 DEF ProcessRecycle
<1>5. ASSUME RecycleItem PROVE IInv'
  <2>1. /\ UNCHANGED <<ctrl, sess, askm, asko, acks, claims, clock, timeouts, latest, disk>>
        /\ StartRecycle(Master) /\ res.used /\ ~Converting(res)
    BY <1>5 DEF RecycleItem, Recyclable
  <2>2. QED
    BY <2>1, MasterAssumption, StartRecycleForm, HandlerFinds, RecycleStep
<1>6. ASSUME NEW t \in tasks, InvalidateOwner(t) \/ RecycleDone(t) PROVE IInv'
  BY <1>6, InvalidateOwnerInv, RecycleDoneInv
<1>7. CASE UNCHANGED allvars
  <2>1. UNCHANGED vars
    BY <1>7 DEF allvars
  <2>2. QED
    BY <2>1, NextIInv
<1>8. QED
  BY <1>1, <1>2, <1>3, <1>4, <1>5, <1>6, <1>7 DEF RecycleNext

LEMMA RecycleNextTypes ==
    ASSUME RInv, [RecycleNext]_allvars PROVE RecycleTypeOK'
<1>1. /\ evicting \in SUBSET Inst /\ notices \in SUBSET Notice
      /\ evicts \in Nat /\ recycles \in Nat /\ clock \in Nat
  BY DEF RInv, RecycleTypeOK, TypeOK
<1>2. TypeOK'
  BY RecycleNextIInv DEF IInv
<1>3. CASE UNCHANGED rvars
  BY <1>1, <1>2, <1>3 DEF rvars, RecycleTypeOK
<1>4. ASSUME NEW i \in Inst, Evict(i) PROVE RecycleTypeOK'
  BY <1>1, <1>2, <1>4 DEF Evict, RecycleTypeOK
<1>5. ASSUME NEW i \in Inst, SendRecycled(i) PROVE RecycleTypeOK'
  <2>1. [inst |-> i, time |-> clock + 1] \in Notice
    BY <1>1 DEF Notice
  <2>2. QED
    BY <1>1, <1>2, <1>5, <2>1 DEF SendRecycled, RecycleTypeOK
<1>6. ASSUME NEW n \in notices, ProcessRecycle(n) PROVE RecycleTypeOK'
  BY <1>1, <1>2, <1>6 DEF ProcessRecycle, RecycleTypeOK
<1>7. ASSUME RecycleItem PROVE RecycleTypeOK'
  BY <1>1, <1>2, <1>7 DEF RecycleItem, RecycleTypeOK
<1>8. ASSUME NEW t \in tasks, InvalidateOwner(t) \/ RecycleDone(t) PROVE RecycleTypeOK'
  BY <1>3, <1>8 DEF InvalidateOwner, RecycleDone
<1>9. CASE UNCHANGED allvars
  BY <1>3, <1>9 DEF allvars
<1>10. QED
  BY <1>3, <1>4, <1>5, <1>6, <1>7, <1>8, <1>9 DEF RecycleNext

LEMMA RecycleInvariance == RecycleSpec => []RInv
<1>1. RecycleInit => RInv
  BY InitIInv DEF RecycleInit, RInv, RecycleTypeOK, IInv
<1>2. RInv /\ [RecycleNext]_allvars => RInv'
  BY RecycleNextIInv, RecycleNextTypes DEF RInv
<1>3. QED
  BY <1>1, <1>2, PTL DEF RecycleSpec

(* With evictions, recycled entries, timeouts and retries: every state has *)
(* the shape of the code's structs (buf_recycle, drc_buf_res_recycle,      *)
(* drc_recycle_items).                                                     *)
THEOREM RecycleTypeCorrect == RecycleSpec => []RecycleTypeOK
<1>1. RInv => RecycleTypeOK
  BY DEF RInv
<1>2. QED
  BY <1>1, RecycleInvariance, PTL

-----------------------------------------------------------------------------
(* A step of the checkpoint: flags of ctrls, the edp map, the disk. *)
LEMMA FlagStep ==
    ASSUME IInv, UNCHANGED <<sess, askm, asko, acks, claims, tasks, clock, timeouts, latest>>,
           disk' \in Nat, ctrl' \in [Inst -> BufCtrl],
           \A i \in Inst : ctrl'[i].lock = ctrl[i].lock,
           Entry(res'), EntryRequests(res') = EntryRequests(res)
    PROVE  IInv'
<1>1. TypeOK'
  BY DEF IInv, TypeOK, Entry
<1>2. DirectoryOK' /\ TasksOK' /\ AnswersCover' /\ HeldCovered'
  BY DEF IInv, DirectoryOK, Entry, TasksOK, AnswersCover, Waiting, HeldCovered
<1>3. RequestsCover'
  <2>1. Requests' = Requests
    BY DEF Requests
  <2>2. QED
    BY <2>1 DEF IInv, RequestsCover, Covers, Waiting
<1>4. QED
  BY <1>1, <1>2, <1>3 DEF IInv

(* ckpt_copy_item. *)
LEMMA CopyItemForm ==
    ASSUME CkptTypeOK, NEW i \in Inst, NEW d \in BufCtrl, SamePage(d, ctrl[i]),
           NEW lsns \in SUBSET Nat, CopyItem(i, d, lsns)
    PROVE  /\ group' \in [Inst -> Group]
           /\ \E c \in BufCtrl : ctrl' = [ctrl EXCEPT ![i] = c] /\ SamePage(c, ctrl[i])
<1>1. /\ ctrl \in [Inst -> BufCtrl] /\ ctrl[i] \in BufCtrl
      /\ group \in [Inst -> Group] /\ group[i] \in Group
  BY DEF CkptTypeOK, RecycleTypeOK, TypeOK
<1>2. PICK c : c = [d EXCEPT !.marked = TRUE, !.dirty = FALSE, !.rdirty = FALSE]
  OBVIOUS
<1>3. c \in BufCtrl /\ SamePage(c, ctrl[i])
  BY <1>1, <1>2 DEF BufCtrl, SamePage
<1>4. ctrl' = [ctrl EXCEPT ![i] = c]
  BY <1>1, <1>2 DEF CopyItem
<1>5. PICK g : g = [group[i] EXCEPT !.buf = {d.lsn}, !.clean = @ \cup lsns]
  OBVIOUS
<1>6. d.lsn \in Nat /\ group[i].clean \in SUBSET Nat
  BY <1>1 DEF BufCtrl, Group
<1>7. g \in Group
  BY <1>1, <1>5, <1>6 DEF Group
<1>8. group' = [group EXCEPT ![i] = g]
  BY <1>1, <1>5 DEF CopyItem, Group
<1>9. QED
  BY <1>1, <1>3, <1>4, <1>7, <1>8

LEMMA CleanGroup ==
    ASSUME NEW g \in Group, NEW lsns \in SUBSET Nat
    PROVE  [g EXCEPT !.clean = @ \cup lsns] \in Group
<1>1. g.clean \cup lsns \in SUBSET Nat
  BY DEF Group
<1>2. QED
  BY <1>1 DEF Group

LEMMA PreparedGroup ==
    ASSUME NEW g \in Group
    PROVE  [g EXCEPT !.prepared = TRUE] \in Group
BY DEF Group

LEMMA NoGroupType == NoGroup \in Group
BY DEF NoGroup, Group

(* What one step of the checkpoint on the ctrl of an instance leaves.      *)
CtrlFlags == \/ ctrl' = ctrl
             \/ \E i \in Inst, c \in BufCtrl :
                   ctrl' = [ctrl EXCEPT ![i] = c] /\ SamePage(c, ctrl[i])

CkptFrame == /\ group' \in [Inst -> Group]
             /\ askckpt' \in SUBSET EdpPage /\ toowner' \in SUBSET OwnerPage
             /\ written' \in SUBSET EdpPage /\ cleanedp' \in SUBSET EdpPage
             /\ clearing' \in SUBSET Nat /\ early' \in SUBSET Nat

LEMMA RemotePrepareTypes ==
    ASSUME CkptTypeOK, NEW p \in toowner, RemotePrepare(p)
    PROVE  CtrlFlags /\ CkptFrame
<1> DEFINE i == p.inst
           c == IF p.clean /\ p.lsn >= ctrl[i].lsn THEN CleanCtrlEdp(ctrl[i])
                                                   ELSE ctrl[i]
<1>1. /\ i \in Inst /\ p.lsn \in Nat /\ {p.lsn} \in SUBSET Nat
      /\ ctrl \in [Inst -> BufCtrl] /\ ctrl[i] \in BufCtrl
      /\ group \in [Inst -> Group] /\ group[i] \in Group
  BY DEF CkptTypeOK, RecycleTypeOK, TypeOK, OwnerPage
<1>2. c \in BufCtrl /\ SamePage(c, ctrl[i]) /\ {c.lsn} \in SUBSET Nat
  <2>1. c \in BufCtrl /\ SamePage(c, ctrl[i])
    BY <1>1, CleanType DEF SamePage
  <2>2. QED
    BY <2>1 DEF BufCtrl
<1>3. /\ toowner' \in SUBSET OwnerPage
      /\ UNCHANGED <<askckpt, written, cleanedp, clearing, early>>
  BY DEF RemotePrepare, CkptTypeOK
<1>4. /\ askckpt' \in SUBSET EdpPage /\ written' \in SUBSET EdpPage /\ cleanedp' \in SUBSET EdpPage
      /\ clearing' \in SUBSET Nat /\ early' \in SUBSET Nat
  BY <1>3 DEF CkptTypeOK
<1>5. CtrlFlags /\ group' \in [Inst -> Group]
  <2> HIDE DEF c
  <2>1. \/ /\ group' = [group EXCEPT ![i].clean = @ \cup {p.lsn}]
           /\ ctrl' = ctrl
        \/ ctrl' = [ctrl EXCEPT ![i] = c] /\ group' = group
        \/ CopyItem(i, c, {c.lsn})
    BY DEF RemotePrepare, c
  <2>2. CASE /\ group' = [group EXCEPT ![i].clean = @ \cup {p.lsn}] /\ ctrl' = ctrl
    <3>1. group' = [group EXCEPT ![i] = [group[i] EXCEPT !.clean = @ \cup {p.lsn}]]
      BY <1>1, <2>2 DEF Group
    <3>2. QED
      BY <1>1, <2>2, <3>1, CleanGroup DEF CtrlFlags
  <2>3. CASE ctrl' = [ctrl EXCEPT ![i] = c] /\ group' = group
    BY <1>1, <1>2, <2>3 DEF CtrlFlags
  <2>4. CASE CopyItem(i, c, {c.lsn})
    BY <1>1, <1>2, <2>4, CopyItemForm DEF CtrlFlags
  <2>5. QED
    BY <2>1, <2>2, <2>3, <2>4
<1>6. QED
  BY <1>3, <1>4, <1>5 DEF CkptFrame

LEMMA CleanLocalEdpTypes ==
    ASSUME CkptTypeOK, NEW p \in cleanedp, CleanLocalEdp(p)
    PROVE  CtrlFlags /\ CkptFrame
<1> DEFINE i == p.inst
<1>1. /\ i \in Inst /\ ctrl \in [Inst -> BufCtrl] /\ ctrl[i] \in BufCtrl
  BY DEF CkptTypeOK, RecycleTypeOK, TypeOK, EdpPage
<1>2. CleanCtrlEdp(ctrl[i]) \in BufCtrl /\ SamePage(CleanCtrlEdp(ctrl[i]), ctrl[i])
  BY <1>1, CleanType
<1>3. ctrl' = ctrl \/ ctrl' = [ctrl EXCEPT ![i] = CleanCtrlEdp(ctrl[i])]
  BY <1>1 DEF CleanLocalEdp
<1>4. CtrlFlags
  BY <1>1, <1>2, <1>3 DEF CtrlFlags
<1>5. CkptFrame
  BY DEF CleanLocalEdp, CkptTypeOK, CkptFrame
<1>6. QED
  BY <1>4, <1>5

LEMMA PrepareNormalTypes ==
    ASSUME CkptTypeOK, NEW i \in Inst, PrepareNormal(i)
    PROVE  CtrlFlags /\ CkptFrame
<1> DEFINE c == ctrl[i]
<1>1. /\ ctrl \in [Inst -> BufCtrl] /\ c \in BufCtrl /\ c.lsn \in Nat
      /\ group \in [Inst -> Group] /\ group[i] \in Group
  BY DEF CkptTypeOK, RecycleTypeOK, TypeOK, BufCtrl
<1>2. RemoteDirty(c) \in SUBSET Nat
  BY <1>1 DEF RemoteDirty
<1>3. /\ toowner' \in SUBSET OwnerPage /\ written' \in SUBSET EdpPage
      /\ cleanedp' \in SUBSET EdpPage /\ clearing' \in SUBSET Nat
      /\ askckpt \in SUBSET EdpPage /\ early \in SUBSET Nat
  BY DEF PrepareNormal, CkptTypeOK
<1>4. [inst |-> i, lsn |-> c.lsn] \in EdpPage
  BY <1>1 DEF EdpPage
<1>5. \/ /\ askckpt' = askckpt \cup {[inst |-> i, lsn |-> c.lsn]}
         /\ UNCHANGED <<ctrl, group, early>>
      \/ /\ group' = [group EXCEPT ![i].clean = @ \cup RemoteDirty(c)]
         /\ early' = early \cup (RemoteDirty(c) \ group[i].buf)
         /\ UNCHANGED <<ctrl, askckpt>>
      \/ CopyItem(i, c, RemoteDirty(c)) /\ UNCHANGED <<askckpt, early>>
  BY DEF PrepareNormal
<1>6. CASE /\ askckpt' = askckpt \cup {[inst |-> i, lsn |-> c.lsn]}
           /\ UNCHANGED <<ctrl, group, early>>
  BY <1>1, <1>3, <1>4, <1>6 DEF CtrlFlags, CkptFrame
<1>7. CASE /\ group' = [group EXCEPT ![i].clean = @ \cup RemoteDirty(c)]
           /\ early' = early \cup (RemoteDirty(c) \ group[i].buf)
           /\ UNCHANGED <<ctrl, askckpt>>
  <2>1. group' = [group EXCEPT ![i] = [group[i] EXCEPT !.clean = @ \cup RemoteDirty(c)]]
    BY <1>1, <1>7 DEF Group
  <2>2. group' \in [Inst -> Group]
    BY <1>1, <1>2, <2>1, CleanGroup
  <2>3. QED
    BY <1>2, <1>3, <1>7, <2>2 DEF CtrlFlags, CkptFrame
<1>8. CASE CopyItem(i, c, RemoteDirty(c)) /\ UNCHANGED <<askckpt, early>>
  <2>1. SamePage(c, ctrl[i])
    BY DEF SamePage
  <2>2. QED
    BY <1>1, <1>2, <1>3, <1>8, <2>1, CopyItemForm DEF CtrlFlags, CkptFrame
<1>9. QED
  BY <1>5, <1>6, <1>7, <1>8

LEMMA FlushPagesTypes ==
    ASSUME CkptTypeOK, NEW i \in Inst, FlushPages(i)
    PROVE  CtrlFlags /\ CkptFrame /\ disk' \in Nat /\ flushed' \in Nat
<1>1. /\ ctrl \in [Inst -> BufCtrl] /\ ctrl[i] \in BufCtrl /\ disk \in Nat
      /\ group \in [Inst -> Group] /\ group[i] \in Group /\ flushed \in Nat
  BY DEF CkptTypeOK, RecycleTypeOK, TypeOK
<1>2. group[i].buf \in SUBSET Nat /\ group[i].clean \in SUBSET Nat
  BY <1>1 DEF Group
<1>3. disk' \in Nat
  <2>1. group[i].buf # {} => (CHOOSE l \in group[i].buf : TRUE) \in group[i].buf
    OBVIOUS
  <2>2. QED
    BY <1>1, <1>2, <2>1 DEF FlushPages
<1>4. flushed' \in Nat
  BY <1>1, <1>3 DEF FlushPages, Larger
<1>5. CtrlFlags
  <2>1. PICK c : c = [ctrl[i] EXCEPT !.marked = FALSE]
    OBVIOUS
  <2>2. c \in BufCtrl /\ SamePage(c, ctrl[i])
    BY <1>1, <2>1 DEF BufCtrl, SamePage
  <2>3. ctrl' = [ctrl EXCEPT ![i] = c]
    BY <1>1, <2>1 DEF FlushPages
  <2>4. QED
    BY <2>2, <2>3 DEF CtrlFlags
<1>6. CkptFrame
  <2>1. group' \in [Inst -> Group]
    BY <1>1, NoGroupType DEF FlushPages
  <2>2. {[inst |-> i, lsn |-> l] : l \in group[i].clean} \in SUBSET EdpPage
    BY <1>2 DEF EdpPage
  <2>3. QED
    BY <2>1, <2>2 DEF FlushPages, CkptTypeOK, CkptFrame
<1>7. QED
  BY <1>3, <1>4, <1>5, <1>6

LEMMA MasterCkptTypes ==
    ASSUME CkptTypeOK, IInv,
           \/ \E p \in askckpt : ProcessAskCkpt(p)
           \/ \E p \in written : ProcessWritten(p),
           UNCHANGED <<res, ctrl>>
    PROVE  CkptFrame
<1>1. /\ askckpt \in SUBSET EdpPage /\ toowner \in SUBSET OwnerPage
      /\ written \in SUBSET EdpPage /\ cleanedp \in SUBSET EdpPage
      /\ clearing \in SUBSET Nat /\ early \in SUBSET Nat /\ group \in [Inst -> Group]
  BY DEF CkptTypeOK
<1>2. res.used => res.owner \in Inst
  BY HandlerFinds DEF Entry, EntryOK
<1>3. res \in BufRes /\ res.edp \in SUBSET Inst /\ res.used \in BOOLEAN
  BY HandlerFinds DEF Entry, BufRes
<1>4. ASSUME NEW p \in askckpt, ProcessAskCkpt(p) PROVE CkptFrame
  <2>1. p.lsn \in Nat
    BY <1>1 DEF EdpPage
  <2>2. \A j \in Inst : [inst |-> j, lsn |-> p.lsn, clean |-> ~res.used] \in OwnerPage
    BY <1>3, <2>1 DEF OwnerPage
  <2>3. toowner' \in SUBSET OwnerPage
    BY <1>1, <1>2, <1>4, <2>2 DEF ProcessAskCkpt
  <2>4. QED
    BY <1>1, <1>4, <2>3 DEF ProcessAskCkpt, CkptFrame
<1>5. ASSUME NEW p \in written, ProcessWritten(p) PROVE CkptFrame
  <2>1. p.lsn \in Nat
    BY <1>1 DEF EdpPage
  <2>2. EdpHolders(p) \subseteq Inst
    BY <1>3 DEF EdpHolders
  <2>3. {[inst |-> j, lsn |-> p.lsn] : j \in EdpHolders(p)} \in SUBSET EdpPage
    BY <2>1, <2>2 DEF EdpPage
  <2>4. cleanedp' \in SUBSET EdpPage /\ clearing' \in SUBSET Nat
    BY <1>1, <1>5, <2>1, <2>3 DEF ProcessWritten
  <2>5. QED
    BY <1>1, <1>5, <2>4 DEF ProcessWritten, CkptFrame
<1>6. QED
  BY <1>4, <1>5

CkptRest == <<sess, askm, asko, acks, claims, tasks, clock, timeouts, latest, rvars, lastmod>>

LEMMA CtrlFlagsTypes ==
    ASSUME IInv, CtrlFlags
    PROVE  /\ ctrl' \in [Inst -> BufCtrl]
           /\ \A i \in Inst : SamePage(ctrl'[i], ctrl[i]) /\ ctrl'[i].lock = ctrl[i].lock
BY HandlerFinds DEF CtrlFlags, SamePage

LEMMA CkptStepInv ==
    ASSUME IInv, CkptTypeOK, CkptStep, UNCHANGED CkptRest
    PROVE  IInv' /\ CkptFrame /\ flushed' \in Nat /\ CtrlFlags
<1>1. UNCHANGED <<sess, askm, asko, acks, claims, tasks, clock, timeouts, latest>>
  BY DEF CkptRest
<1>2. Entry(res) /\ ctrl \in [Inst -> BufCtrl] /\ disk \in Nat /\ flushed \in Nat
  BY HandlerFinds DEF IInv, TypeOK, CkptTypeOK
<1>3. CASE /\ \/ \E p \in toowner : RemotePrepare(p)
              \/ \E p \in cleanedp : CleanLocalEdp(p)
              \/ \E i \in Inst : PrepareNormal(i) \/ Prepared(i)
           /\ UNCHANGED <<res, disk, flushed>>
  <2>1. ASSUME NEW i \in Inst, Prepared(i) PROVE CtrlFlags /\ CkptFrame
    <3>1. group \in [Inst -> Group] /\ group[i] \in Group
      BY DEF CkptTypeOK
    <3>2. group' = [group EXCEPT ![i] = [group[i] EXCEPT !.prepared = TRUE]]
      BY <2>1, <3>1 DEF Prepared, Group
    <3>3. group' \in [Inst -> Group]
      BY <3>1, <3>2, PreparedGroup
    <3>4. QED
      BY <2>1, <3>3 DEF Prepared, CtrlFlags, CkptFrame, CkptTypeOK
  <2>2. CtrlFlags /\ CkptFrame
    BY <1>3, <2>1, RemotePrepareTypes, CleanLocalEdpTypes, PrepareNormalTypes
  <2>3. QED
    BY <1>1, <1>2, <1>3, <2>2, CtrlFlagsTypes, FlagStep
<1>4. CASE (\E i \in Inst : FlushPages(i)) /\ UNCHANGED res
  <2>1. CtrlFlags /\ CkptFrame /\ disk' \in Nat /\ flushed' \in Nat
    BY <1>4, FlushPagesTypes
  <2>2. QED
    BY <1>1, <1>2, <1>4, <2>1, CtrlFlagsTypes, FlagStep
<1>5. CASE /\ \/ \E p \in askckpt : ProcessAskCkpt(p)
              \/ \E p \in written : ProcessWritten(p)
           /\ UNCHANGED <<res, ctrl, disk, flushed>>
  BY <1>1, <1>2, <1>5, MasterCkptTypes, FlagStep DEF CtrlFlags
<1>6. CASE (\E l \in clearing : ClearEdpInfo(l)) /\ UNCHANGED <<ctrl, disk, flushed>>
  <2>1. res' = res \/ (res.used /\ res' = [res EXCEPT !.edp = {}])
    BY <1>6 DEF ClearEdpInfo, CleanEdpInfo
  <2>2. Entry(res') /\ EntryRequests(res') = EntryRequests(res)
    BY <1>2, <2>1, ClearedEdpEntry
  <2>3. CkptFrame
    BY <1>6 DEF ClearEdpInfo, CkptFrame, CkptTypeOK
  <2>4. QED
    BY <1>1, <1>2, <1>6, <2>2, <2>3, FlagStep DEF CtrlFlags
<1>7. QED
  BY <1>3, <1>4, <1>5, <1>6 DEF CkptStep

LEMMA CkptNextTypes ==
    ASSUME IInv, CkptTypeOK, [CkptNext]_ckptvars
    PROVE  IInv' /\ CkptTypeOK'
<1>1. CASE PageStep
  <2>1. RecycleNext /\ RInv
    BY <1>1 DEF PageStep, RInv, CkptTypeOK
  <2>2. IInv' /\ RecycleTypeOK'
    BY <2>1, RecycleNextIInv, RecycleNextTypes
  <2>3. latest' \in Nat /\ lastmod \in [Inst -> Nat]
    BY <2>2 DEF IInv, TypeOK, CkptTypeOK
  <2>4. lastmod' \in [Inst -> Nat]
    BY <1>1, <2>3 DEF PageStep
  <2>5. QED
    BY <1>1, <2>2, <2>4 DEF PageStep, CkptTypeOK
<1>2. CASE CkptStep /\ UNCHANGED CkptRest
  <2>1. IInv' /\ CkptFrame /\ flushed' \in Nat
    BY <1>2, CkptStepInv
  <2>2. RecycleTypeOK' /\ lastmod' = lastmod
    BY <1>2, <2>1 DEF CkptRest, rvars, CkptTypeOK, RecycleTypeOK, IInv
  <2>3. QED
    BY <2>1, <2>2 DEF CkptTypeOK, CkptFrame
<1>3. CASE UNCHANGED ckptvars
  <2>1. UNCHANGED allvars /\ UNCHANGED cvars
    BY <1>3 DEF ckptvars, allvars
  <2>2. IInv' /\ RecycleTypeOK'
    BY <2>1, RecycleNextIInv, RecycleNextTypes DEF RInv, CkptTypeOK
  <2>3. QED
    BY <2>1, <2>2 DEF cvars, CkptTypeOK
<1>4. QED
  BY <1>1, <1>2, <1>3 DEF CkptNext, CkptRest

LEMMA CkptInitTypes == CkptInit => IInv /\ CkptTypeOK
<1> SUFFICES ASSUME CkptInit PROVE IInv /\ CkptTypeOK
  OBVIOUS
<1>1. IInv /\ RecycleTypeOK
  BY InitIInv DEF CkptInit, RecycleInit, RecycleTypeOK, IInv
<1>2. QED
  BY <1>1, NoGroupType DEF CkptInit, CkptTypeOK

LEMMA CkptTypes == CkptSpec => [](IInv /\ CkptTypeOK)
<1>1. IInv /\ CkptTypeOK /\ [CkptNext]_ckptvars => IInv' /\ CkptTypeOK'
  BY CkptNextTypes
<1>2. QED
  BY <1>1, CkptInitTypes, PTL DEF CkptSpec

(* With checkpoints, evictions, recycled entries, timeouts and retries:    *)
(* every state has the shape of the code's structs, so that the master     *)
(* sends what the checkpoint asks (dcs_notify_owner_for_ckpt_l) to real    *)
(* instances.                                                              *)
THEOREM CkptTypeCorrect == CkptSpec => []CkptTypeOK
<1>1. IInv /\ CkptTypeOK => CkptTypeOK
  OBVIOUS
<1>2. QED
  BY <1>1, CkptTypes, PTL

(* The same for what holds with timeouts: the entry stays consistent, no   *)
(* request shrinks, and a session uses the page only under a sufficient    *)
(* lock, although pages are evicted and entries recycled underneath        *)
(* (buf_recycle, drc_recycle_items) and the checkpoint changes the flags.  *)
THEOREM HeldUnderEviction ==
    CkptSpec => [](DirectoryOK /\ RequestsCover /\ HeldCovered)
<1>1. IInv /\ CkptTypeOK => DirectoryOK /\ RequestsCover /\ HeldCovered
  BY DEF IInv
<1>2. QED
  BY <1>1, CkptTypes, PTL

-----------------------------------------------------------------------------
(* Without faults: a step of the checkpoint on the page protocol.          *)

(* The checkpoint leaves the lock and the page of a ctrl; its flags stay   *)
(* or are cleared together; a page that is written is in memory.           *)
Quieter(j) ==
    /\ ctrl'[j].marked => ctrl[j].marked \/ ctrl[j].load = "loaded"
    /\ ctrl'[j].lock = ctrl[j].lock /\ ctrl'[j].load = ctrl[j].load
    /\ ctrl'[j].lsn = ctrl[j].lsn
    /\ \/ /\ ctrl'[j].dirty = ctrl[j].dirty /\ ctrl'[j].rdirty = ctrl[j].rdirty
          /\ ctrl'[j].edp = ctrl[j].edp
       \/ ~ctrl'[j].dirty /\ ~ctrl'[j].rdirty /\ ~ctrl'[j].edp
SameEntry == /\ res'.used = res.used /\ res'.owner = res.owner /\ res'.copies = res.copies
             /\ res'.lsn = res.lsn /\ res'.pending = res.pending /\ res'.conv = res.conv
             /\ res'.q = res.q

(* What is read from disk, or will be, is not replaced by an older page.   *)
NotOverwritten ==
    /\ disk = latest
    /\ \/ NobodyBut({})
       \/ \E i \in Inst : Lk(i) # LockNull /\ ctrl[i].load = "need"
    => disk' = latest

LEMMA QuietCInv ==
    ASSUME IInv, CInv, UNCHANGED CkptRest, SameEntry, \A j \in Inst : Quieter(j),
           disk' \in Nat, disk' <= latest, NotOverwritten
    PROVE  CInv'
<1>1. /\ UNCHANGED <<sess, askm, asko, acks, claims, tasks, clock, timeouts, latest>>
      /\ latest \in Nat /\ disk \in Nat
  BY Shapes DEF CkptRest
<1>2. /\ \A i \in Inst : /\ Lk(i)' = Lk(i) /\ ctrl'[i].load = ctrl[i].load
                         /\ ctrl'[i].lsn = ctrl[i].lsn
                         /\ ctrl'[i].edp => ctrl[i].edp
                         /\ ctrl'[i].dirty => ctrl[i].dirty
      /\ Ready' = Ready /\ Granted' = Granted /\ Worked' = Worked
  BY <1>1 DEF Lk, Quieter, Ready, Granted, Worked, Requester, SameEntry
<1>3. Stage'
  BY <1>1, <1>2, StageStays DEF CInv, SameEntry, Lk, NotOverwritten
<1>4. OnePlace'
  <2>1. \A j \in Asked' \cup Queued : j \in Inst
    BY <1>1, Shapes DEF Asked, Queued
  <2>2. QED
    BY <1>1, <1>2, <2>1, PlacesStay DEF CInv, SameEntry, Lk
<1>5. disk = latest /\ NobodyBut({}) => disk' = latest
  BY DEF NotOverwritten
<1>6. Data'
  <2>1. ASSUME NEW i \in Inst, Lk(i) # LockNull
        PROVE  \/ ctrl[i].load = "loaded" /\ ctrl[i].lsn = latest
               \/ /\ ctrl[i].load = "need" /\ sess[i].st = "held"
                  /\ Lk(i) = LockExclusive /\ disk' = latest
    BY <1>1, <2>1 DEF CInv, Data, NotOverwritten
  <2>2. QED
    BY <1>1, <1>2, <2>1 DEF CInv, Data, SameEntry
<1>7. Locks'
  <2>1. SingleWriter' /\ HoldersKnown'
    BY <1>2 DEF CInv, Locks, SingleWriter, HoldersKnown, Lk, SameEntry
  <2>2. \A i \in Inst : Lk(i)' = LockExclusive => i = res'.owner \/ claims' # {}
    BY <1>1, <1>2 DEF CInv, Locks, SameEntry
  <2>3. NobodyBut({}) => NobodyBut({})'
    BY <1>2 DEF NobodyBut
  <2>4. \A a \in Granted' : a.dst = res'.owner /\ NobodyBut({})' /\ disk' = latest'
    BY <1>1, <1>2, <1>5, <2>3 DEF CInv, Locks, SameEntry
  <2>5. ~res'.used => disk' = latest' /\ \A a \in acks' : a.cmd = "error"
    <3>1. ~res.used => NobodyBut({})
      BY DEF CInv, Locks, HoldersKnown, NobodyBut, Lk
    <3>2. QED
      BY <1>1, <1>5, <3>1 DEF CInv, Locks, SameEntry
  <2>6. QED
    BY <2>1, <2>2, <2>4, <2>5 DEF Locks
<1>8. QED
  BY <1>1, <1>3, <1>4, <1>6, <1>7 DEF CInv, SameEntry

LEMMA QuietKInv ==
    ASSUME IInv, CInv, KInv, UNCHANGED CkptRest, SameEntry, \A j \in Inst : Quieter(j),
           disk' \in Nat, disk' <= latest, disk' <= flushed', NotOverwritten,
           \A p \in askckpt' : p.lsn <= latest,
           \A p \in toowner' : p.inst \in Inst /\ OwnerAsk(p)',
           Groups', RedoWritten', \A p \in written' \cup cleanedp' : Safe(p.lsn)', Kept'
    PROVE  CInv' /\ KInv'
<1>1. UNCHANGED <<sess, acks, claims, latest, evicting, notices, lastmod>>
  BY DEF CkptRest, rvars
<1>2. /\ \A i \in Inst : Lk(i)' = Lk(i) /\ ctrl'[i].load = ctrl[i].load /\ ctrl'[i].lsn = ctrl[i].lsn
      /\ Granted' = Granted
  BY <1>1 DEF Lk, Quieter, Granted
<1>3. res.used => res.owner \in Inst
  BY Shapes DEF EntryOK
<1>4. Fresh'
  <2>1. ASSUME NEW i \in Inst, Lk(i) # LockNull, ctrl[i].load = "need" PROVE CtrlRecyclable(ctrl'[i])
    <3>1. CtrlRecyclable(ctrl[i]) /\ Quieter(i)
      BY <2>1 DEF KInv, Fresh
    <3>2. QED
      BY <2>1, <3>1 DEF CtrlRecyclable, Quieter
  <2>2. QED
    BY <1>2, <2>1 DEF Fresh
<1>5. Present'
  BY <1>1, <1>2, <1>3 DEF KInv, Present, SameEntry
<1>6. Flagged'
  <2>1. ASSUME NEW i \in Inst
        PROVE  /\ FlagsOK(ctrl'[i])
               /\ (ctrl'[i].dirty /\ ~ctrl'[i].edp) \/ ctrl'[i].rdirty => Keeper(i)'
    <3>1. FlagsOK(ctrl[i]) /\ Quieter(i)
      BY DEF KInv, Flagged
    <3>2. FlagsOK(ctrl'[i])
      BY <3>1 DEF FlagsOK, Quieter
    <3>3. (ctrl'[i].dirty /\ ~ctrl'[i].edp) \/ ctrl'[i].rdirty => Keeper(i)
      BY <3>1 DEF KInv, Flagged, Quieter
    <3>4. Keeper(i)' <=> Keeper(i)
      BY <1>1, <1>2 DEF Keeper, SameEntry
    <3>5. QED
      BY <3>2, <3>3, <3>4
  <2>2. QED
    BY <2>1 DEF Flagged
<1>7. Redo'
  BY <1>1, <1>2 DEF KInv, Redo
<1>8. Sent'
  BY <1>1 DEF KInv, Sent, SameEntry
<1>9. CInv'
  BY QuietCInv DEF KInv
<1>10. QED
  BY <1>1, <1>4, <1>5, <1>6, <1>7, <1>8, <1>9 DEF KInv

-----------------------------------------------------------------------------
(* The steps of the checkpoint, without faults.                            *)

(* What copying the page of an owner for the write does. *)
LEMMA CopyEffect ==
    ASSUME CkptTypeOK, NEW i \in Inst, NEW d \in BufCtrl, SamePage(d, ctrl[i]),
           NEW lsns \in SUBSET Nat, CopyItem(i, d, lsns), ~d.edp, d.load = "loaded"
    PROVE  /\ \A j \in Inst : Quieter(j)
           /\ \A j \in Inst \ {i} : ctrl'[j] = ctrl[j] /\ group'[j] = group[j]
           /\ ctrl'[i].marked /\ ~ctrl'[i].dirty
           /\ group'[i].buf = {ctrl[i].lsn}
           /\ group'[i].clean = group[i].clean \cup lsns
<1>1. /\ ctrl \in [Inst -> BufCtrl] /\ ctrl[i] \in BufCtrl
      /\ group \in [Inst -> Group] /\ group[i] \in Group
  BY DEF CkptTypeOK, RecycleTypeOK, TypeOK
<1>2. PICK c : c = [d EXCEPT !.marked = TRUE, !.dirty = FALSE, !.rdirty = FALSE]
  OBVIOUS
<1>3. /\ c.marked /\ ~c.dirty /\ ~c.rdirty /\ ~c.edp
      /\ c.lock = ctrl[i].lock /\ c.load = ctrl[i].load /\ c.lsn = ctrl[i].lsn
  BY <1>1, <1>2 DEF BufCtrl, SamePage
<1>4. ctrl' = [ctrl EXCEPT ![i] = c]
  BY <1>1, <1>2 DEF CopyItem
<1>5. PICK g : g = [group[i] EXCEPT !.buf = {d.lsn}, !.clean = @ \cup lsns]
  OBVIOUS
<1>6. g.buf = {ctrl[i].lsn} /\ g.clean = group[i].clean \cup lsns
  BY <1>1, <1>5 DEF Group, SamePage
<1>7. group' = [group EXCEPT ![i] = g]
  BY <1>1, <1>5 DEF CopyItem, Group
<1>8. /\ \A j \in Inst \ {i} : ctrl'[j] = ctrl[j] /\ group'[j] = group[j]
      /\ ctrl'[i] = c /\ group'[i] = g
  BY <1>1, <1>4, <1>7
<1>9. \A j \in Inst : Quieter(j)
  BY <1>3, <1>8 DEF Quieter, SamePage
<1>10. QED
  BY <1>3, <1>6, <1>8, <1>9

(* The steps that only add to what is known as written.                    *)
LEMMA SafeStays ==
    ASSUME CkptTypeOK, flushed' \in Nat, flushed <= flushed', early \subseteq early', NEW l \in Nat, Safe(l)
    PROVE  Safe(l)'
BY DEF Safe, CkptTypeOK

KFrame == IInv /\ CkptTypeOK /\ CInv /\ KInv /\ UNCHANGED CkptRest

LEMMA CopyStep ==
    ASSUME KFrame, NEW i \in Inst, NEW d \in BufCtrl, SamePage(d, ctrl[i]), ~d.edp,
           NEW lsns \in SUBSET {ctrl[i].lsn}, CopyItem(i, d, lsns),
           ~ctrl[i].marked, Lk(i) # LockNull, ctrl[i].load = "loaded",
           UNCHANGED <<res, disk, flushed, askckpt, written, cleanedp, early>>,
           toowner' \subseteq toowner
    PROVE  CInv' /\ KInv'
<1> USE DEF KFrame
<1>1. /\ latest \in Nat /\ disk \in Nat /\ ctrl[i].lsn \in Nat /\ ctrl[i].lsn = latest
      /\ lsns \in SUBSET Nat /\ disk <= latest /\ latest' = latest /\ lastmod' = lastmod /\ acks' = acks
  BY Shapes DEF CInv, Data, CkptRest
<1>2. /\ \A j \in Inst : Quieter(j)
      /\ \A j \in Inst \ {i} : ctrl'[j] = ctrl[j] /\ group'[j] = group[j]
      /\ ctrl'[i].marked /\ group'[i].buf = {latest}
      /\ group'[i].clean = group[i].clean \cup lsns
  BY <1>1, CopyEffect DEF SamePage
<1>3. group[i].buf = {}
  BY DEF KInv, Groups, Copied
<1>4. \A l : Safe(l)' <=> Safe(l)
  BY DEF Safe
<1>5. Groups'
  <2>1. \A j \in Inst : Lk(j)' = Lk(j)
    BY <1>2 DEF Lk, Quieter
  <2>2. ASSUME NEW j \in Inst \ {i} PROVE Copied(j)' /\ Announced(j)'
    <3>1. Copied(j) /\ Announced(j)
      BY DEF KInv, Groups
    <3>2. Copied(j)'
      BY <1>1, <1>2, <2>1, <3>1 DEF Copied
    <3>3. Announced(j)'
      BY <1>2, <1>4, <3>1 DEF Announced
    <3>4. QED
      BY <3>2, <3>3
  <2>3. Copied(i)'
    BY <1>1, <1>2, <2>1 DEF Copied
  <2>4. Announced(i)'
    <3>1. \A l \in group[i].clean : Safe(l)
      BY <1>3 DEF KInv, Groups, Announced
    <3>2. \A l \in lsns : l <= latest
      BY <1>1
    <3>3. QED
      BY <1>2, <1>4, <3>1, <3>2 DEF Announced
  <2>5. QED
    BY <2>2, <2>3, <2>4 DEF Groups
<1>6. RedoWritten'
  <2>1. ASSUME NEW j \in Inst, lastmod[j] > flushed
        PROVE  \/ ctrl'[j].dirty \/ \E l \in group'[j].buf : l >= lastmod[j]
               \/ \E l \in early' : l >= lastmod[j]
    <3>1. CASE j = i
      <4>1. lastmod[i] <= latest
        BY <1>1 DEF KInv, Redo
      <4>2. latest \in group'[i].buf /\ lastmod[i] \in Nat
        BY <1>2 DEF CkptTypeOK
      <4>3. QED
        BY <1>1, <3>1, <4>1, <4>2
    <3>2. CASE j # i
      BY <1>2, <2>1, <3>2 DEF KInv, Redo, RedoWritten
    <3>3. QED
      BY <3>1, <3>2
  <2>2. QED
    BY <1>1, <2>1 DEF RedoWritten
<1>7. Kept'
  BY <1>1, <1>2 DEF Kept
<1>8. SameEntry
  BY DEF SameEntry
<1>9. /\ \A p \in toowner' : p.inst \in Inst /\ OwnerAsk(p)'
      /\ \A p \in askckpt' : p.lsn <= latest
      /\ \A p \in written' \cup cleanedp' : Safe(p.lsn)'
  <2>1. ASSUME NEW p \in toowner' PROVE p.inst \in Inst /\ OwnerAsk(p)'
    BY <1>2, <1>4 DEF KInv, Present, CkptTypeOK, OwnerPage, OwnerAsk, Quieter
  <2>2. QED
    BY <1>4, <2>1 DEF KInv, Present, Redo
<1>10. NotOverwritten /\ disk' \in Nat /\ disk' <= latest /\ disk' <= flushed'
  BY <1>1 DEF NotOverwritten, KInv, Redo
<1>11. QED
  BY <1>1, <1>2, <1>5, <1>6, <1>7, <1>8, <1>9, <1>10, QuietKInv

(* A step that leaves the ctrls and what is being written. *)
LEMMA StillStep ==
    ASSUME KFrame, SameEntry, UNCHANGED <<ctrl, disk, flushed>>,
           \A j \in Inst : group'[j].buf = group[j].buf /\ Announced(j)',
           early \subseteq early', early' \subseteq Nat,
           \A p \in askckpt' : p.lsn <= latest,
           \A p \in toowner' : p.inst \in Inst /\ OwnerAsk(p),
           \A p \in written' \cup cleanedp' : Safe(p.lsn)
    PROVE  CInv' /\ KInv'
<1> USE DEF KFrame
<1>1. /\ latest' = latest /\ lastmod' = lastmod /\ acks' = acks
      /\ disk \in Nat /\ disk <= latest
  BY Shapes DEF CkptRest, CInv, Data
<1>2. \A j \in Inst : Quieter(j) /\ Lk(j)' = Lk(j)
  BY DEF Quieter, Lk
<1>3. \A l : Safe(l) => Safe(l)'
  BY DEF Safe
<1>4. Groups'
  <2>1. ASSUME NEW j \in Inst PROVE Copied(j)'
    BY <1>1, <1>2 DEF KInv, Groups, Copied
  <2>2. QED
    BY <2>1 DEF Groups
<1>5. RedoWritten'
  BY <1>1 DEF KInv, Redo, RedoWritten
<1>6. Kept'
  <2>1. Dirties' = Dirties
    BY <1>1 DEF Dirties, Ready
  <2>2. \A j \in Inst : Keeps(j)' <=> Keeps(j)
    BY DEF Keeps, Lk
  <2>3. QED
    BY <1>1, <2>1, <2>2 DEF KInv, Kept
<1>7. \A p \in written' \cup cleanedp' : Safe(p.lsn)'
  BY <1>3
<1>8. NotOverwritten /\ disk' \in Nat /\ disk' <= latest /\ disk' <= flushed'
  BY <1>1 DEF NotOverwritten, KInv, Redo
<1>9. \A p \in toowner' : OwnerAsk(p)'
  BY <1>3 DEF OwnerAsk
<1>10. QED
  BY <1>2, <1>4, <1>5, <1>6, <1>7, <1>8, <1>9, QuietKInv

(* An edp whose version is known to be written is given up. *)
LEMMA EdpGivenUpStep ==
    ASSUME KFrame, NEW i \in Inst, ctrl[i].edp, NEW n \in Nat, Safe(n), n >= ctrl[i].lsn,
           ctrl' = [ctrl EXCEPT ![i] = CleanCtrlEdp(ctrl[i])],
           UNCHANGED <<res, disk, flushed, group, askckpt, written, early>>,
           toowner' \subseteq toowner, cleanedp' \subseteq cleanedp
    PROVE  CInv' /\ KInv'
<1> USE DEF KFrame
<1>2. /\ UNCHANGED <<group, askckpt, written, early>> /\ cleanedp' \subseteq cleanedp
      /\ SameEntry /\ Safe(n) /\ n \in Nat
  BY DEF SameEntry
<1>3. /\ latest' = latest /\ lastmod' = lastmod /\ acks' = acks /\ latest \in Nat
      /\ disk \in Nat /\ disk <= latest /\ ctrl \in [Inst -> BufCtrl] /\ ctrl[i] \in BufCtrl
      /\ flushed \in Nat /\ early \subseteq Nat /\ lastmod \in [Inst -> Nat] /\ ctrl[i].lsn \in Nat
      /\ disk' \in Nat /\ disk' <= latest
  BY Shapes DEF CkptRest, CInv, Data, CkptTypeOK
<1>5. \A l : Safe(l)' <=> Safe(l)
  BY <1>2 DEF Safe
<1>11. PICK c : c = [ctrl[i] EXCEPT !.dirty = FALSE, !.rdirty = FALSE, !.edp = FALSE]
  OBVIOUS
<1>12. /\ ~c.dirty /\ ~c.rdirty /\ ~c.edp /\ c.marked = ctrl[i].marked
      /\ c.lock = ctrl[i].lock /\ c.load = ctrl[i].load /\ c.lsn = ctrl[i].lsn
  BY <1>3, <1>11 DEF BufCtrl
<1>13. ctrl'[i] = c /\ \A j \in Inst \ {i} : ctrl'[j] = ctrl[j]
  BY <1>3, <1>11 DEF CleanCtrlEdp
<1>14. \A j \in Inst : Quieter(j) /\ Lk(j)' = Lk(j) /\ ctrl'[j].marked = ctrl[j].marked
  BY <1>12, <1>13 DEF Quieter, Lk
<1>15. Groups'
  <2>1. ASSUME NEW j \in Inst PROVE Copied(j)' /\ Announced(j)'
    <3>1. Copied(j) /\ Announced(j)
      BY DEF KInv, Groups
    <3>2. \A b \in group[j].buf : b < latest => j # i
      BY <3>1 DEF Copied
    <3>3. Copied(j)'
      BY <1>2, <1>3, <1>13, <1>14, <3>1, <3>2 DEF Copied
    <3>4. Announced(j)'
      BY <1>2, <1>5, <3>1 DEF Announced
    <3>5. QED
      BY <3>3, <3>4
  <2>2. QED
    BY <2>1 DEF Groups
<1>16. RedoWritten'
  <2>1. ASSUME NEW j \in Inst, lastmod[j] > flushed
        PROVE  \/ ctrl'[j].dirty \/ \E l \in group'[j].buf : l >= lastmod[j]
               \/ \E l \in early' : l >= lastmod[j]
    <3>1. CASE j = i
      <4>1. lastmod[i] <= n /\ lastmod[i] \in Nat
        BY <1>2, <1>3 DEF KInv, Redo
      <4>2. \E e \in early : n <= e
        BY <1>2, <1>3, <2>1, <3>1, <4>1 DEF Safe
      <4>3. PICK e \in early : n <= e
        BY <4>2
      <4>4. e \in Nat /\ e \in early'
        BY <1>2, <1>3
      <4>5. e >= lastmod[i]
        BY <1>2, <4>1, <4>3, <4>4
      <4>6. QED
        BY <3>1, <4>4, <4>5
    <3>2. CASE j # i
      BY <1>2, <1>13, <2>1, <3>2 DEF KInv, Redo, RedoWritten
    <3>3. QED
      BY <3>1, <3>2
  <2>2. QED
    BY <1>3, <2>1 DEF RedoWritten
<1>17. Kept'
  <2>1. Dirties' = Dirties
    BY <1>3 DEF Dirties, Ready
  <2>2. \A j \in Inst : Keeps(j) => Keeps(j)'
    BY <1>13 DEF Keeps, Lk
  <2>3. QED
    BY <1>2, <1>3, <2>1, <2>2 DEF KInv, Kept
<1>19. /\ \A q \in toowner' : q.inst \in Inst /\ OwnerAsk(q)'
       /\ \A q \in askckpt' : q.lsn <= latest
       /\ \A q \in written' \cup cleanedp' : Safe(q.lsn)'
  <2>1. ASSUME NEW q \in toowner' PROVE q.inst \in Inst /\ OwnerAsk(q)'
    BY <1>5, <1>14 DEF KInv, Present, CkptTypeOK, OwnerPage, OwnerAsk, Quieter
  <2>2. QED
    BY <1>2, <1>5, <2>1 DEF KInv, Present, Redo
<1>20. NotOverwritten /\ disk' <= flushed'
  BY <1>3 DEF NotOverwritten, KInv, Redo
<1>21. QED
  BY <1>2, <1>3, <1>14, <1>15, <1>16, <1>17, <1>19, <1>20, QuietKInv

LEMMA RemotePrepareStep ==
    ASSUME KFrame, NEW p \in toowner, RemotePrepare(p), UNCHANGED <<res, disk, flushed>>
    PROVE  CInv' /\ KInv'
<1> USE DEF KFrame
<1>1. PICK i \in Inst : i = p.inst
  BY DEF CkptTypeOK, OwnerPage
<1>2. PICK c : c = IF p.clean /\ p.lsn >= ctrl[i].lsn THEN CleanCtrlEdp(ctrl[i]) ELSE ctrl[i]
  OBVIOUS
<1>3. /\ ctrl \in [Inst -> BufCtrl] /\ ctrl[i] \in BufCtrl /\ p.lsn \in Nat /\ OwnerAsk(p)
      /\ toowner' \subseteq toowner /\ UNCHANGED <<askckpt, written, cleanedp, clearing, early>>
      /\ SameEntry /\ group \in [Inst -> Group] /\ group[i] \in Group
  BY <1>1, Shapes DEF KInv, Present, RemotePrepare, SameEntry, CkptTypeOK, OwnerPage
<1>4. c \in BufCtrl /\ SamePage(c, ctrl[i]) /\ (c.edp => ctrl[i].edp) /\ c.marked = ctrl[i].marked
  <2>1. CASE c = ctrl[i]
    BY <1>3, <2>1 DEF SamePage
  <2>2. CASE c = CleanCtrlEdp(ctrl[i])
    <3>1. c \in BufCtrl /\ SamePage(c, ctrl[i])
      BY <1>3, <2>2, CleanType
    <3>2. (c.edp => ctrl[i].edp) /\ c.marked = ctrl[i].marked
      BY <1>3, <2>2 DEF CleanCtrlEdp, BufCtrl
    <3>3. QED
      BY <3>1, <3>2
  <2>3. QED
    BY <1>2, <2>1, <2>2
<1>5. /\ \A q \in toowner' : q.inst \in Inst /\ OwnerAsk(q)
      /\ \A q \in written' \cup cleanedp' : Safe(q.lsn)
      /\ early' \subseteq Nat /\ (\A q \in askckpt' : q.lsn <= latest)
  BY <1>3 DEF KInv, Present, Redo, CkptTypeOK, OwnerPage
<1>6. \A l : Safe(l)' <=> Safe(l)
  BY <1>3 DEF Safe
<1>7. \/ /\ ctrl[i].load = "absent" /\ ctrl' = ctrl
         /\ group' = [group EXCEPT ![i].clean = @ \cup {p.lsn}]
      \/ ctrl' = [ctrl EXCEPT ![i] = c] /\ group' = group
      \/ CkptLatchable(i) /\ ~RemoteSkips(c, p) /\ CopyItem(i, c, {c.lsn})
  BY <1>1, <1>2 DEF RemotePrepare
<1>8. CASE /\ ctrl[i].load = "absent" /\ ctrl' = ctrl
           /\ group' = [group EXCEPT ![i].clean = @ \cup {p.lsn}]
  <2>1. Safe(p.lsn)
    BY <1>1, <1>3, <1>8 DEF OwnerAsk
  <2>2. PICK g : g = [group[i] EXCEPT !.clean = @ \cup {p.lsn}]
    OBVIOUS
  <2>3. g.buf = group[i].buf /\ g.clean = group[i].clean \cup {p.lsn}
    BY <1>3, <2>2 DEF Group
  <2>4. group' = [group EXCEPT ![i] = g]
    BY <1>3, <1>8, <2>2 DEF Group
  <2>5. group'[i] = g /\ \A j \in Inst \ {i} : group'[j] = group[j]
    BY <1>3, <2>4
  <2>6. ASSUME NEW j \in Inst PROVE group'[j].buf = group[j].buf /\ Announced(j)'
    <3>1. Announced(j)
      BY DEF KInv, Groups
    <3>2. CASE j # i
      BY <1>6, <2>5, <3>1, <3>2 DEF Announced
    <3>3. CASE j = i
      BY <1>6, <2>1, <2>3, <2>5, <3>1, <3>3 DEF Announced
    <3>4. QED
      BY <3>2, <3>3
  <2>7. QED
    BY <1>3, <1>5, <1>8, <2>6, StillStep
<1>9. CASE ctrl' = [ctrl EXCEPT ![i] = c] /\ group' = group
  <2>1. CASE c = ctrl[i]
    <3>1. ctrl' = ctrl
      BY <1>3, <1>9, <2>1
    <3>2. \A j \in Inst : group'[j].buf = group[j].buf /\ Announced(j)'
      BY <1>6, <1>9 DEF KInv, Groups, Announced
    <3>3. QED
      BY <1>3, <1>5, <3>1, <3>2, StillStep
  <2>2. CASE c # ctrl[i]
    <3>1. p.clean /\ p.lsn >= ctrl[i].lsn /\ c = CleanCtrlEdp(ctrl[i]) /\ ctrl[i].edp
      BY <1>2, <2>2 DEF CleanCtrlEdp
    <3>2. Safe(p.lsn)
      BY <1>3, <3>1 DEF OwnerAsk
    <3>3. QED
      BY <1>3, <1>9, <3>1, <3>2, EdpGivenUpStep
  <2>3. QED
    BY <2>1, <2>2
<1>10. CASE CkptLatchable(i) /\ ~RemoteSkips(c, p) /\ CopyItem(i, c, {c.lsn})
  <2>1. Lk(i) # LockNull /\ ~c.edp /\ ~ctrl[i].marked /\ c.lsn = ctrl[i].lsn
    BY <1>4, <1>10 DEF RemoteSkips, CtrlIsOwner, Lk, SamePage
  <2>2. ctrl[i].load = "loaded"
    BY <1>10, <2>1 DEF CkptLatchable, CInv, Data
  <2>3. {c.lsn} \in SUBSET {ctrl[i].lsn}
    BY <2>1
  <2>4. QED
    BY <1>3, <1>4, <1>10, <2>1, <2>2, <2>3, CopyStep
<1>11. QED
  BY <1>7, <1>8, <1>9, <1>10

LEMMA PrepareNormalStep ==
    ASSUME KFrame, NEW i \in Inst, PrepareNormal(i), UNCHANGED <<res, disk, flushed>>
    PROVE  CInv' /\ KInv'
<1> USE DEF KFrame
<1>1. /\ ctrl[i].dirty /\ Latchable(i) /\ SameEntry /\ ctrl[i].lsn \in Nat
      /\ latest > 0 /\ group \in [Inst -> Group] /\ group[i] \in Group
      /\ UNCHANGED <<toowner, written, cleanedp, clearing>>
  BY Shapes DEF PrepareNormal, SameEntry, CInv, Data, CkptTypeOK
<1>2. /\ \A q \in toowner' : q.inst \in Inst /\ OwnerAsk(q)
      /\ \A q \in written' \cup cleanedp' : Safe(q.lsn)
      /\ early \subseteq Nat
  BY <1>1 DEF KInv, Present, Redo, CkptTypeOK, OwnerPage
<1>3. CASE /\ askckpt' = askckpt \cup {[inst |-> i, lsn |-> ctrl[i].lsn]}
           /\ UNCHANGED <<ctrl, group, early>>
  <2>1. \A j \in Inst : group'[j].buf = group[j].buf /\ Announced(j)'
    BY <1>3 DEF KInv, Groups, Announced, Safe
  <2>2. \A q \in askckpt' : q.lsn <= latest
    BY <1>3 DEF KInv, Present, CInv, Data
  <2>3. QED
    BY <1>1, <1>2, <1>3, <2>1, <2>2, StillStep
<1>4. CASE /\ group' = [group EXCEPT ![i].clean = @ \cup RemoteDirty(ctrl[i])]
           /\ early' = early \cup (RemoteDirty(ctrl[i]) \ group[i].buf)
           /\ UNCHANGED <<ctrl, askckpt>>
  <2>1. PICK g : g = [group[i] EXCEPT !.clean = @ \cup RemoteDirty(ctrl[i])]
    OBVIOUS
  <2>2. g.buf = group[i].buf /\ g.clean = group[i].clean \cup RemoteDirty(ctrl[i])
    BY <1>1, <2>1 DEF Group
  <2>3. group' = [group EXCEPT ![i] = g]
    BY <1>1, <1>4, <2>1 DEF Group
  <2>4. group'[i] = g /\ \A j \in Inst \ {i} : group'[j] = group[j]
    BY <1>1, <2>3
  <2>5. \A l : Safe(l) => Safe(l)'
    BY <1>4 DEF Safe
  <2>6. \A l \in RemoteDirty(ctrl[i]) : l <= l /\ (l \in group[i].buf \/ l \in early')
    BY <1>1, <1>4 DEF RemoteDirty
  <2>7. ASSUME NEW j \in Inst PROVE group'[j].buf = group[j].buf /\ Announced(j)'
    <3>1. Announced(j)
      BY DEF KInv, Groups
    <3>2. CASE j # i
      BY <2>4, <2>5, <3>1, <3>2 DEF Announced
    <3>3. CASE j = i
      <4>1. ASSUME NEW l \in group'[i].clean PROVE Safe(l)' \/ \E b \in group'[i].buf : l <= b
        <5>1. CASE l \in group[i].clean
          BY <2>2, <2>4, <2>5, <3>1, <3>3, <5>1 DEF Announced
        <5>2. CASE l \in RemoteDirty(ctrl[i])
          BY <2>2, <2>4, <2>6, <5>2 DEF Safe
        <5>3. QED
          BY <2>2, <2>4, <4>1, <5>1, <5>2
      <4>2. QED
        BY <2>2, <2>4, <3>3, <4>1 DEF Announced
    <3>4. QED
      BY <3>2, <3>3
  <2>8. early \subseteq early' /\ early' \subseteq Nat
    BY <1>1, <1>2, <1>4 DEF RemoteDirty
  <2>9. \A q \in askckpt' : q.lsn <= latest
    BY <1>4 DEF KInv, Present
  <2>10. QED
    BY <1>1, <1>2, <1>4, <2>7, <2>8, <2>9, StillStep
<1>5. CASE /\ ~ctrl[i].edp /\ ~ctrl[i].marked
           /\ CopyItem(i, ctrl[i], RemoteDirty(ctrl[i])) /\ UNCHANGED <<askckpt, early>>
  <2>1. Lk(i) # LockNull
    BY <1>1, <1>5 DEF KInv, Flagged, FlagsOK, Lk
  <2>2. ctrl[i].load = "loaded"
    BY <1>1, <2>1 DEF Latchable, CInv, Data
  <2>3. RemoteDirty(ctrl[i]) \in SUBSET {ctrl[i].lsn}
    BY DEF RemoteDirty
  <2>4. ctrl[i] \in BufCtrl /\ SamePage(ctrl[i], ctrl[i])
    BY Shapes DEF SamePage
  <2>5. QED
    BY <1>1, <1>5, <2>1, <2>2, <2>3, <2>4, CopyStep
<1>6. QED
  BY <1>3, <1>4, <1>5 DEF PrepareNormal

LEMMA PreparedStep ==
    ASSUME KFrame, NEW i \in Inst, Prepared(i), UNCHANGED <<res, disk, flushed>>
    PROVE  CInv' /\ KInv'
<1> USE DEF KFrame
<1>1. /\ SameEntry /\ group \in [Inst -> Group] /\ group[i] \in Group
      /\ UNCHANGED <<ctrl, askckpt, toowner, written, cleanedp, clearing, early>>
  BY DEF Prepared, SameEntry, CkptTypeOK
<1>2. /\ \A q \in toowner' : q.inst \in Inst /\ OwnerAsk(q)
      /\ \A q \in written' \cup cleanedp' : Safe(q.lsn)
      /\ early' \subseteq Nat /\ (\A q \in askckpt' : q.lsn <= latest)
  BY <1>1 DEF KInv, Present, Redo, CkptTypeOK, OwnerPage
<1>3. PICK g : g = [group[i] EXCEPT !.prepared = TRUE]
  OBVIOUS
<1>4. g.buf = group[i].buf /\ g.clean = group[i].clean
  BY <1>1, <1>3 DEF Group
<1>5. group' = [group EXCEPT ![i] = g]
  BY <1>1, <1>3 DEF Prepared, Group
<1>6. ASSUME NEW j \in Inst PROVE group'[j].buf = group[j].buf /\ Announced(j)'
  <2>1. group'[j].buf = group[j].buf /\ group'[j].clean = group[j].clean
    BY <1>1, <1>4, <1>5
  <2>2. QED
    BY <1>1, <2>1 DEF KInv, Groups, Announced, Safe
<1>7. QED
  BY <1>1, <1>2, <1>6, StillStep

LEMMA MasterCkptStep ==
    ASSUME KFrame,
           \/ \E p \in askckpt : ProcessAskCkpt(p)
           \/ \E p \in written : ProcessWritten(p),
           UNCHANGED <<res, ctrl, disk, flushed>>
    PROVE  CInv' /\ KInv'
<1> USE DEF KFrame
<1>1. UNCHANGED <<group, early>> /\ SameEntry
  BY DEF ProcessAskCkpt, ProcessWritten, SameEntry
<1>2. \A j \in Inst : group'[j].buf = group[j].buf /\ Announced(j)'
  BY <1>1 DEF KInv, Groups, Announced, Safe
<1>3. /\ \A q \in toowner : q.inst \in Inst /\ OwnerAsk(q)
      /\ \A q \in written \cup cleanedp : Safe(q.lsn)
      /\ early' \subseteq Nat /\ (\A q \in askckpt : q.lsn <= latest)
  BY <1>1 DEF KInv, Present, Redo, CkptTypeOK, OwnerPage
<1>4. ASSUME NEW p \in askckpt, ProcessAskCkpt(p) PROVE CInv' /\ KInv'
  <2>1. p.lsn \in Nat /\ p.lsn <= latest /\ askckpt' \subseteq askckpt
    BY <1>3, <1>4 DEF CkptTypeOK, EdpPage, ProcessAskCkpt
  <2>2. ASSUME NEW q \in toowner' PROVE q.inst \in Inst /\ OwnerAsk(q)
    <3>1. CASE q \in toowner
      BY <1>3, <3>1
    <3>2. CASE res.used /\ q = [inst |-> res.owner, lsn |-> p.lsn, clean |-> FALSE]
      <4>1. res.owner \in Inst /\ ctrl[res.owner].load # "absent"
        BY <3>2, Shapes DEF EntryOK, KInv, Present
      <4>2. QED
        BY <3>2, <4>1 DEF OwnerAsk
    <3>3. ASSUME NEW j \in Inst, ~res.used, q = [inst |-> j, lsn |-> p.lsn, clean |-> TRUE]
          PROVE  q.inst \in Inst /\ OwnerAsk(q)
      <4>1. latest \in Nat /\ flushed \in Nat /\ latest <= flushed
        BY <3>3, Shapes DEF CInv, Locks, KInv, Redo, CkptTypeOK
      <4>2. Safe(p.lsn)
        BY <2>1, <4>1 DEF Safe
      <4>3. QED
        BY <3>3, <4>2 DEF OwnerAsk
    <3>4. QED
      BY <1>4, <3>1, <3>2, <3>3 DEF ProcessAskCkpt
  <2>3. UNCHANGED <<written, cleanedp>>
    BY <1>4 DEF ProcessAskCkpt
  <2>4. QED
    BY <1>1, <1>2, <1>3, <2>1, <2>2, <2>3, StillStep
<1>5. ASSUME NEW p \in written, ProcessWritten(p) PROVE CInv' /\ KInv'
  <2>1. Safe(p.lsn)
    BY <1>3
  <2>2. UNCHANGED <<askckpt, toowner>> /\ written' \subseteq written
    BY <1>5 DEF ProcessWritten
  <2>3. \A q \in cleanedp' : q \in cleanedp \/ q.lsn = p.lsn
    BY <1>5 DEF ProcessWritten
  <2>4. \A q \in written' \cup cleanedp' : Safe(q.lsn)
    BY <1>3, <2>1, <2>2, <2>3
  <2>5. QED
    BY <1>1, <1>2, <1>3, <2>2, <2>4, StillStep
<1>6. QED
  BY <1>4, <1>5

LEMMA ClearEdpInfoStep ==
    ASSUME KFrame, NEW l \in clearing, ClearEdpInfo(l), UNCHANGED <<ctrl, disk, flushed>>
    PROVE  CInv' /\ KInv'
<1> USE DEF KFrame
<1>1. UNCHANGED <<group, askckpt, toowner, written, cleanedp, early>>
  BY DEF ClearEdpInfo
<1>2. SameEntry
  <2>1. res' = res \/ res' = [res EXCEPT !.edp = {}]
    BY DEF ClearEdpInfo, CleanEdpInfo
  <2>2. QED
    BY <2>1, Shapes DEF SameEntry, BufRes
<1>3. \A j \in Inst : group'[j].buf = group[j].buf /\ Announced(j)'
  BY <1>1 DEF KInv, Groups, Announced, Safe
<1>4. /\ \A q \in toowner : q.inst \in Inst /\ OwnerAsk(q)
      /\ \A q \in written \cup cleanedp : Safe(q.lsn)
      /\ early' \subseteq Nat /\ (\A q \in askckpt : q.lsn <= latest)
  BY <1>1 DEF KInv, Present, Redo, CkptTypeOK, OwnerPage
<1>5. QED
  BY <1>1, <1>2, <1>3, <1>4, StillStep

LEMMA CleanLocalEdpStep ==
    ASSUME KFrame, NEW p \in cleanedp, CleanLocalEdp(p), UNCHANGED <<res, disk, flushed>>
    PROVE  CInv' /\ KInv'
<1> USE DEF KFrame
<1>1. PICK i \in Inst : i = p.inst
  BY DEF CkptTypeOK, EdpPage
<1>2. /\ UNCHANGED <<group, askckpt, toowner, written, early>> /\ cleanedp' \subseteq cleanedp
      /\ SameEntry /\ Safe(p.lsn) /\ p.lsn \in Nat
  BY DEF CleanLocalEdp, SameEntry, KInv, Redo, CkptTypeOK, EdpPage
<1>3. /\ latest' = latest /\ lastmod' = lastmod /\ acks' = acks /\ latest \in Nat
      /\ disk \in Nat /\ disk <= latest /\ ctrl \in [Inst -> BufCtrl] /\ ctrl[i] \in BufCtrl
      /\ flushed \in Nat /\ early \subseteq Nat /\ lastmod \in [Inst -> Nat] /\ ctrl[i].lsn \in Nat
      /\ disk' \in Nat /\ disk' <= latest
  BY Shapes DEF CkptRest, CInv, Data, CkptTypeOK
<1>4. /\ \A q \in toowner' : q.inst \in Inst /\ OwnerAsk(q)
      /\ \A q \in written' \cup cleanedp' : Safe(q.lsn)
      /\ early' \subseteq Nat /\ (\A q \in askckpt' : q.lsn <= latest)
  BY <1>2 DEF KInv, Present, Redo, CkptTypeOK, OwnerPage
<1>5. \A l : Safe(l)' <=> Safe(l)
  BY <1>2 DEF Safe
<1>6. CASE ctrl' = ctrl
  <2>1. \A j \in Inst : group'[j].buf = group[j].buf /\ Announced(j)'
    BY <1>2, <1>5 DEF KInv, Groups, Announced
  <2>2. QED
    BY <1>2, <1>4, <1>6, <2>1, StillStep
<1>7. CASE p.lsn >= ctrl[i].lsn /\ ctrl[i].edp /\ ctrl' = [ctrl EXCEPT ![i] = CleanCtrlEdp(ctrl[i])]
  BY <1>2, <1>7, EdpGivenUpStep
<1>8. QED
  <2>1. ctrl' = ctrl \/ (p.lsn >= ctrl[i].lsn /\ ctrl' = [ctrl EXCEPT ![i] = CleanCtrlEdp(ctrl[i])])
    BY <1>1, <1>3 DEF CleanLocalEdp
  <2>2. ~ctrl[i].edp => CleanCtrlEdp(ctrl[i]) = ctrl[i]
    BY DEF CleanCtrlEdp
  <2>3. QED
    BY <1>3, <1>6, <1>7, <2>1, <2>2

(* The write: an older version on disk leaves the page dirty where it was  *)
(* written, and what is announced is then written.                         *)
LEMMA FlushPagesStep ==
    ASSUME KFrame, NEW i \in Inst, FlushPages(i), UNCHANGED res
    PROVE  CInv' /\ KInv'
<1> USE DEF KFrame
<1>1. /\ UNCHANGED <<askckpt, toowner, cleanedp, early>> /\ SameEntry
  BY DEF FlushPages, SameEntry
<1>2. /\ latest' = latest /\ lastmod' = lastmod /\ acks' = acks /\ latest \in Nat
      /\ disk \in Nat /\ disk <= latest /\ ctrl \in [Inst -> BufCtrl] /\ ctrl[i] \in BufCtrl
      /\ flushed \in Nat /\ lastmod \in [Inst -> Nat] /\ group \in [Inst -> Group] /\ group[i] \in Group
      /\ group[i].buf \subseteq Nat /\ group[i].clean \subseteq Nat
  BY Shapes DEF CkptRest, CInv, Data, CkptTypeOK, Group
<1>3. Copied(i) /\ Announced(i)
  BY DEF KInv, Groups
<1>4. /\ group[i].buf = {} => disk' = disk
      /\ \A b \in group[i].buf : disk' = b /\ b <= latest
      /\ flushed' = Larger(flushed, disk')
  <2>1. ASSUME NEW b \in group[i].buf PROVE disk' = b /\ b <= latest
    <3>1. group[i].buf = {b} /\ b <= latest
      BY <1>3 DEF Copied
    <3>2. (CHOOSE l \in group[i].buf : TRUE) = b
      BY <3>1
    <3>3. QED
      BY <3>1, <3>2 DEF FlushPages
  <2>2. QED
    BY <2>1 DEF FlushPages
<1>5. disk' \in Nat /\ disk' <= latest
  BY <1>2, <1>4
<1>6. flushed' \in Nat /\ flushed <= flushed' /\ disk' <= flushed'
  BY <1>2, <1>4, <1>5 DEF Larger
<1>7. \A l \in Nat : Safe(l) => Safe(l)'
  BY <1>1, <1>6, SafeStays
<1>8. /\ ctrl'[i] = [ctrl[i] EXCEPT !.marked = FALSE]
      /\ group'[i] = NoGroup
      /\ \A j \in Inst \ {i} : ctrl'[j] = ctrl[j] /\ group'[j] = group[j]
  BY <1>2 DEF FlushPages
<1>9. /\ ~ctrl'[i].marked /\ ctrl'[i].dirty = ctrl[i].dirty /\ ctrl'[i].rdirty = ctrl[i].rdirty
      /\ ctrl'[i].edp = ctrl[i].edp /\ ctrl'[i].lock = ctrl[i].lock /\ ctrl'[i].load = ctrl[i].load
      /\ ctrl'[i].lsn = ctrl[i].lsn
  BY <1>2, <1>8 DEF BufCtrl
<1>10. \A j \in Inst : Quieter(j) /\ Lk(j)' = Lk(j) /\ (Keeps(j)' <=> Keeps(j))
  BY <1>8, <1>9 DEF Quieter, Lk, Keeps
<1>11. Groups'
  <2>1. Copied(i)' /\ Announced(i)'
    BY <1>8, <1>9 DEF Copied, Announced, NoGroup
  <2>2. ASSUME NEW j \in Inst \ {i} PROVE Copied(j)' /\ Announced(j)'
    <3>1. Copied(j) /\ Announced(j) /\ group[j].clean \subseteq Nat
      BY <1>2 DEF KInv, Groups, Group
    <3>2. Copied(j)'
      BY <1>2, <1>8, <1>10, <3>1 DEF Copied
    <3>3. Announced(j)'
      BY <1>7, <1>8, <3>1 DEF Announced
    <3>4. QED
      BY <3>2, <3>3
  <2>3. QED
    BY <2>1, <2>2 DEF Groups
<1>12. RedoWritten'
  <2>1. ASSUME NEW j \in Inst, lastmod[j] > flushed'
        PROVE  \/ ctrl'[j].dirty \/ \E l \in group'[j].buf : l >= lastmod[j]
               \/ \E l \in early' : l >= lastmod[j]
    <3>1. lastmod[j] \in Nat /\ lastmod[j] > flushed
      BY <1>2, <1>6, <2>1
    <3>2. \/ ctrl[j].dirty \/ \E l \in group[j].buf : l >= lastmod[j]
          \/ \E l \in early : l >= lastmod[j]
      BY <3>1 DEF KInv, Redo, RedoWritten
    <3>3. CASE j # i
      BY <1>1, <1>8, <3>2, <3>3
    <3>4. CASE j = i
      <4>1. ~ \E l \in group[i].buf : l >= lastmod[i]
        BY <1>2, <1>4, <1>5, <1>6, <2>1, <3>1, <3>4
      <4>2. QED
        BY <1>1, <1>9, <3>2, <3>4, <4>1
    <3>5. QED
      BY <3>3, <3>4
  <2>2. QED
    BY <1>2, <2>1 DEF RedoWritten
<1>13. Kept'
  <2>1. Dirties' = Dirties
    BY <1>2 DEF Dirties, Ready
  <2>2. CASE group[i].buf = {}
    BY <1>2, <1>4, <1>8, <1>10, <2>1, <2>2 DEF KInv, Kept
  <2>3. CASE group[i].buf # {}
    <3>1. PICK b \in group[i].buf : TRUE
      BY <2>3
    <3>2. disk' = b /\ b <= latest /\ b \in Nat
      BY <1>2, <1>4
    <3>3. CASE b = latest
      BY <1>2, <3>2, <3>3 DEF Kept
    <3>4. CASE b < latest
      <4>1. Keeps(i)
        BY <1>3, <3>1, <3>4 DEF Copied, Keeps
      <4>2. QED
        BY <1>10, <4>1 DEF Kept
    <3>5. QED
      BY <1>2, <3>2, <3>3, <3>4
  <2>4. QED
    BY <2>2, <2>3
<1>14. \A q \in written' \cup cleanedp' : Safe(q.lsn)'
  <2>1. \A q \in written \cup cleanedp : q.lsn \in Nat /\ Safe(q.lsn)
    BY DEF KInv, Redo, CkptTypeOK, EdpPage
  <2>2. ASSUME NEW l \in group[i].clean PROVE Safe(l)'
    <3>1. l \in Nat
      BY <1>2
    <3>2. CASE Safe(l)
      BY <1>7, <3>1, <3>2
    <3>3. ASSUME NEW b \in group[i].buf, l <= b PROVE Safe(l)'
      BY <1>2, <1>4, <1>5, <1>6, <3>1, <3>3 DEF Safe
    <3>4. QED
      BY <1>3, <3>2, <3>3 DEF Announced
  <2>3. \A q \in written' : q \in written \/ \E l \in group[i].clean : q.lsn = l
    BY DEF FlushPages
  <2>4. QED
    BY <1>1, <1>7, <2>1, <2>2, <2>3
<1>15. /\ \A q \in toowner' : q.inst \in Inst /\ OwnerAsk(q)'
       /\ \A q \in askckpt' : q.lsn <= latest
  <2>1. ASSUME NEW q \in toowner' PROVE q.inst \in Inst /\ OwnerAsk(q)'
    <3>1. q.inst \in Inst /\ q.lsn \in Nat /\ OwnerAsk(q)
      BY <1>1 DEF KInv, Present, CkptTypeOK, OwnerPage
    <3>2. QED
      BY <1>7, <1>10, <3>1 DEF OwnerAsk, Quieter
  <2>2. QED
    BY <1>1, <2>1 DEF KInv, Present
<1>16. NotOverwritten
  <2>1. ASSUME disk = latest, NEW b \in group[i].buf, b < latest,
               \/ NobodyBut({})
               \/ \E j \in Inst : Lk(j) # LockNull /\ ctrl[j].load = "need"
        PROVE  FALSE
    <3>1. Lk(i) # LockNull /\ ctrl[i].dirty
      BY <1>3, <2>1 DEF Copied
    <3>2. PICK j \in Inst : Lk(j) # LockNull /\ ctrl[j].load = "need"
      BY <2>1, <3>1 DEF NobodyBut
    <3>3. Lk(j) = LockExclusive /\ ~ctrl[j].dirty
      BY <3>2 DEF CInv, Data, KInv, Fresh, CtrlRecyclable
    <3>4. QED
      BY <3>1, <3>3 DEF CInv, Locks, SingleWriter, Lk
  <2>2. CASE group[i].buf = {}
    BY <1>4, <2>2 DEF NotOverwritten
  <2>3. ASSUME NEW b \in group[i].buf PROVE NotOverwritten
    <3>1. disk' = b /\ b \in Nat /\ (b = latest \/ b < latest)
      BY <1>2, <1>4
    <3>2. QED
      BY <2>1, <3>1 DEF NotOverwritten
  <2>4. QED
    BY <2>2, <2>3
<1>17. QED
  BY <1>1, <1>5, <1>6, <1>10, <1>11, <1>12, <1>13, <1>14, <1>15, <1>16, QuietKInv

LEMMA CkptStepKInv ==
    ASSUME IInv, CkptTypeOK, CInv, KInv, CkptStep, UNCHANGED CkptRest
    PROVE  CInv' /\ KInv'
<1>1. KFrame
  BY DEF KFrame
<1>2. QED
  BY <1>1, RemotePrepareStep, CleanLocalEdpStep, PrepareNormalStep, PreparedStep, FlushPagesStep,
     MasterCkptStep, ClearEdpInfoStep DEF CkptStep

-----------------------------------------------------------------------------
(* The steps of the page protocol, without faults.                         *)

LEMMA NoFaultsNext ==
    ASSUME NoFaults, IInv, CkptTypeOK, CInv, KInv, RecycleNext
    PROVE  \/ Next /\ UNCHANGED rvars
           \/ RecycleItem
           \/ \E t \in tasks : InvalidateOwner(t) \/ RecycleDone(t)
<1>1. evicts \in Nat
  BY DEF CkptTypeOK, RecycleTypeOK
<1>2. \A i \in Inst : ~Evict(i) /\ ~SendRecycled(i)
  BY <1>1 DEF Evict, SendRecycled, NoFaults, KInv
<1>3. \A n \in notices : ~ProcessRecycle(n)
  BY DEF KInv
<1>4. QED
  BY <1>2, <1>3 DEF RecycleNext

-----------------------------------------------------------------------------
(* The master recycles the entry: coherence.                               *)

(* An entry that does not convert has no queue: a recycling thread meets   *)
(* the requests only where they wait to be taken up.                       *)
LEMMA RecyclePlaces ==
    ASSUME IInv, OnePlace, res.q = <<>>, res'.q = <<>>, Worked' \subseteq {NoInst},
           UNCHANGED <<askm, acks, sess, latest>>,
           \A j \in Asked : ctrl'[j].lock = ctrl[j].lock
    PROVE  OnePlace'
<1>1. /\ Asked' = Asked /\ Awaited' = Awaited /\ Queued' = {}
      /\ Asked \subseteq Inst /\ Awaited \subseteq Inst /\ NoInst \notin Inst
      /\ DOMAIN res'.q = {}
  BY Shapes DEF Asked, Awaited, Queued
<1>2. \A req \in askm : Current(req)'
  BY DEF OnePlace, Current, Waiting, Lk, Asked
<1>3. QED
  BY <1>1, <1>2 DEF OnePlace

LEMMA RecycleItemStep ==
    ASSUME IInv, CInv, RecycleItem
    PROVE  CInv'
<1>1. /\ UNCHANGED <<ctrl, sess, askm, asko, acks, claims, timeouts, latest, disk>>
      /\ res.used /\ ~res.pending /\ ~Converting(res)
  BY DEF RecycleItem, Recyclable
<1>2. Resting
  BY <1>1 DEF CInv, Stage, Invalidating, Asking, Answering, Claiming, Recycling
<1>3. PICK t : t = [kind |-> "recycle", req |-> NoReq(0), by |-> Master,
                    owner |-> res.owner, retry |-> FALSE,
                    todo |-> res.copies \ {res.owner}, fail |-> FALSE]
  OBVIOUS
<1>4. /\ tasks' = {t} /\ res' = [res EXCEPT !.pending = TRUE] /\ tasks = {}
      /\ asko = {} /\ Ready = {} /\ claims = {} /\ OwnerHas(res.owner)
  BY <1>1, <1>2, <1>3 DEF RecycleItem, StartRecycle, Resting
<1>5. /\ res'.used = res.used /\ res'.owner = res.owner /\ res'.copies = res.copies
      /\ res'.lsn = res.lsn /\ res'.pending /\ res'.conv = res.conv /\ res'.q = res.q
      /\ res.owner \in Inst /\ res.q = <<>> /\ res.conv.inst = NoInst
  BY <1>1, <1>4, Shapes DEF BufRes, EntryOK, Converting
<1>6. /\ \A i \in Inst : Lk(i)' = Lk(i)
      /\ Ready' = Ready /\ Granted' = Granted
  BY <1>1 DEF Lk, Ready, Granted
<1>7. NobodyBut(t.todo \cup {res.owner})'
  <2>1. ASSUME NEW i \in Inst, i \notin t.todo \cup {res.owner} PROVE Lk(i) = LockNull
    BY <1>3, <1>5, <2>1, NoInstAssumption DEF CInv, Locks, HoldersKnown, Lk
  <2>2. QED
    BY <1>3, <1>5, <1>6, <2>1 DEF NobodyBut
<1>8. Stage'
  <2>1. OwnerHas(res.owner)'
    BY <1>1, <1>4, <1>5, <1>6 DEF OwnerHas, Lk
  <2>2. RecyclesWith(t)'
    BY <1>3, <1>5, <1>7, <2>1 DEF RecyclesWith
  <2>3. Recycling'
    BY <1>1, <1>4, <1>5, <1>6, <2>2 DEF Recycling, Converting
  <2>4. QED
    BY <2>3 DEF Stage
<1>9. OnePlace'
  <2>1. Worked' \subseteq {NoInst}
    BY <1>5 DEF Worked, Requester
  <2>2. QED
    BY <1>1, <1>5, <2>1, RecyclePlaces DEF CInv
<1>10. Data'
  BY <1>1, <1>5, <1>6 DEF CInv, Data
<1>11. Locks'
  <2>1. NobodyBut({})' <=> NobodyBut({})
    BY <1>6 DEF NobodyBut
  <2>2. SingleWriter' /\ HoldersKnown'
    BY <1>1, <1>5 DEF CInv, Locks, SingleWriter, HoldersKnown
  <2>3. QED
    BY <1>1, <1>5, <1>6, <2>1, <2>2 DEF CInv, Locks
<1>12. QED
  BY <1>1, <1>8, <1>9, <1>10, <1>11 DEF CInv

(* What a recycling thread that turns to the owner finds.                  *)
LEMMA RecyclingOwner ==
    ASSUME IInv, CInv, KInv, NEW t \in tasks, InvalidateOwner(t)
    PROVE  /\ Recycling /\ tasks = {t} /\ RecyclesWith(t)
           /\ t.todo = {} /\ ~t.fail /\ t.owner = res.owner /\ res.owner \in Inst
           /\ OwnerHas(res.owner) /\ NobodyBut({res.owner})
           /\ ctrl[res.owner].load # "absent" /\ res.q = <<>> /\ claims = {}
           /\ UNCHANGED <<res, sess, askm, asko, acks, claims, timeouts, latest, disk, rvars>>
<1>1. /\ t.kind = "recycle" /\ t.todo = {} /\ ~t.fail /\ t.owner \in Inst
      /\ UNCHANGED <<res, sess, askm, asko, acks, claims, timeouts, latest, disk, rvars>>
  BY DEF InvalidateOwner
<1>2. Recycling /\ tasks = {t} /\ RecyclesWith(t)
  BY <1>1 DEF CInv, Stage, Resting, Invalidating, Asking, Answering, Claiming, Recycling
<1>3. t.owner = res.owner /\ OwnerHas(res.owner)
  BY <1>1, <1>2, NoInstAssumption DEF RecyclesWith
<1>4. NobodyBut({res.owner})
  BY <1>1, <1>2 DEF RecyclesWith, NobodyBut
<1>5. res.used /\ res.q = <<>> /\ claims = {}
  BY <1>2, Shapes DEF Recycling, EntryOK
<1>6. QED
  BY <1>1, <1>2, <1>3, <1>4, <1>5 DEF KInv, Present

(* An owner that nobody uses and that needs no write is on disk. *)
LEMMA OwnerOnDisk ==
    ASSUME IInv, CInv, KInv, NEW t \in tasks, InvalidateOwner(t),
           sess[res.owner].st = "idle", CtrlRecyclable(ctrl[res.owner])
    PROVE  /\ Granted = {} /\ Lk(res.owner) # LockNull /\ disk = latest
<1>1. /\ OwnerHas(res.owner) /\ NobodyBut({res.owner}) /\ Ready = {} /\ res.owner \in Inst
  BY RecyclingOwner DEF Recycling
<1>2. Granted = {}
  <2>1. \A a \in acks : a.dst # res.owner
    BY <1>1, NoPlace
  <2>2. QED
    BY <2>1 DEF CInv, Locks, Granted
<1>3. Lk(res.owner) # LockNull
  BY <1>1, <1>2 DEF OwnerHas
<1>4. Dirties = {}
  BY <1>1 DEF Dirties
<1>5. ASSUME NEW j \in Inst PROVE latest \notin group[j].buf /\ ~Keeps(j)
  <2>1. CASE j = res.owner
    BY <2>1 DEF CtrlRecyclable, Keeps, KInv, Groups, Copied
  <2>2. CASE j # res.owner
    <3>1. Lk(j) = LockNull
      BY <1>1, <2>2 DEF NobodyBut
    <3>2. QED
      BY <3>1 DEF Keeps, KInv, Groups, Copied
  <2>3. QED
    BY <2>1, <2>2
<1>6. disk = latest
  BY <1>4, <1>5 DEF KInv, Kept
<1>7. QED
  BY <1>2, <1>3, <1>6

(* What buf_invalidate_page_owner does: the page is given up or kept. *)
LEMMA OwnerAnswer ==
    ASSUME IInv, CInv, KInv, NEW t \in tasks, InvalidateOwner(t)
    PROVE  \/ /\ sess[res.owner].st = "idle" /\ CtrlRecyclable(ctrl[res.owner])
              /\ Granted = {} /\ Lk(res.owner) # LockNull /\ disk = latest
              /\ ctrl' = [ctrl EXCEPT ![res.owner] = InvalidateCtrl(ctrl[res.owner])]
              /\ tasks' = {[t EXCEPT !.owner = NoInst]}
           \/ /\ ctrl' = ctrl
              /\ tasks' = {[t EXCEPT !.fail = TRUE]}
<1>1. /\ tasks = {t} /\ t.owner = res.owner /\ ctrl[res.owner].load # "absent"
  BY RecyclingOwner
<1>2. \/ /\ sess[res.owner].st = "idle" /\ CtrlRecyclable(ctrl[res.owner])
         /\ ctrl' = IF ctrl[res.owner].lock = LockNull THEN ctrl
                    ELSE [ctrl EXCEPT ![res.owner] = InvalidateCtrl(ctrl[res.owner])]
         /\ tasks' = {[t EXCEPT !.owner = NoInst]}
      \/ /\ ctrl' = ctrl
         /\ tasks' = {[t EXCEPT !.fail = TRUE]}
  BY <1>1 DEF InvalidateOwner
<1>3. QED
  BY <1>2, OwnerOnDisk DEF Lk

LEMMA InvalidateOwnerStep ==
    ASSUME IInv, CInv, KInv, NEW t \in tasks, InvalidateOwner(t)
    PROVE  CInv'
<1>1. PICK o \in Inst : o = res.owner
  BY RecyclingOwner
<1>2. /\ Recycling /\ RecyclesWith(t) /\ t.todo = {} /\ ~t.fail /\ t.owner = o /\ OwnerHas(o)
      /\ NobodyBut({o}) /\ res.q = <<>> /\ claims = {} /\ tasks = {t}
      /\ UNCHANGED <<res, sess, askm, asko, acks, claims, timeouts, latest, disk>>
  BY <1>1, RecyclingOwner
<1>3. /\ ctrl \in [Inst -> BufCtrl] /\ ctrl[o] \in BufCtrl /\ t \in Task /\ t.kind = "recycle"
      /\ ~Converting(res) /\ res.pending /\ res.used /\ asko = {} /\ Ready = {}
      /\ res.conv.inst = NoInst
  BY <1>1, <1>2, Shapes, HandlerFinds DEF Recycling, RecyclesWith, Converting
<1>4. Ready' = Ready /\ Granted' = Granted /\ Worked' \subseteq {NoInst}
  BY <1>2, <1>3 DEF Ready, Granted, Worked, Requester
<1>5. CASE ctrl' = ctrl /\ tasks' = {[t EXCEPT !.fail = TRUE]}
  <2>1. PICK u : u = [t EXCEPT !.fail = TRUE]
    OBVIOUS
  <2>2. u.kind = t.kind /\ u.todo = t.todo /\ u.owner = t.owner /\ u.fail /\ tasks' = {u}
    BY <1>3, <1>5, <2>1 DEF Task
  <2>3. \A i \in Inst : Lk(i)' = Lk(i)
    BY <1>5 DEF Lk
  <2>4. NobodyBut(u.todo \cup {res.owner})'
    BY <1>1, <1>2, <2>2, <2>3 DEF NobodyBut
  <2>5. OwnerHas(o)'
    BY <1>2, <1>4, <1>5 DEF OwnerHas, Lk
  <2>6. RecyclesWith(u)'
    BY <1>1, <1>2, <1>3, <2>2, <2>4, <2>5 DEF RecyclesWith
  <2>7. Stage'
    BY <1>2, <1>3, <1>4, <2>2, <2>6 DEF Recycling, Stage, Converting
  <2>8. OnePlace'
    BY <1>2, <1>4, <1>5, RecyclePlaces DEF CInv
  <2>9. Data' /\ SingleWriter' /\ HoldersKnown' /\ (NobodyBut({})' <=> NobodyBut({}))
    BY <1>2, <1>5, <2>3 DEF CInv, Data, Locks, SingleWriter, HoldersKnown, NobodyBut
  <2>10. Locks'
    BY <1>2, <1>4, <2>3, <2>9 DEF CInv, Locks
  <2>11. QED
    BY <1>2, <2>7, <2>8, <2>9, <2>10 DEF CInv
<1>6. CASE /\ sess[o].st = "idle" /\ Granted = {} /\ Lk(o) # LockNull /\ disk = latest
           /\ ctrl' = [ctrl EXCEPT ![o] = InvalidateCtrl(ctrl[o])]
           /\ tasks' = {[t EXCEPT !.owner = NoInst]}
  <2>1. PICK u : u = [t EXCEPT !.owner = NoInst]
    OBVIOUS
  <2>2. u.kind = t.kind /\ u.todo = t.todo /\ u.owner = NoInst /\ u.fail = t.fail /\ tasks' = {u}
    BY <1>3, <1>6, <2>1 DEF Task
  <2>3. /\ \A j \in Inst \ {o} : ctrl'[j] = ctrl[j]
        /\ ctrl'[o].lock = LockNull /\ ctrl'[o].lsn = ctrl[o].lsn /\ ctrl'[o].dirty = ctrl[o].dirty
    BY <1>3, <1>6 DEF InvalidateCtrl, BufCtrl
  <2>4. \A j \in Inst : Lk(j)' = LockNull
    BY <1>2, <2>3 DEF Lk, NobodyBut
  <2>5. NobodyBut(u.todo \cup {res.owner})' /\ NobodyBut({})'
    BY <2>4 DEF NobodyBut
  <2>6. RecyclesWith(u)'
    BY <1>2, <1>3, <1>4, <1>6, <2>2, <2>5 DEF RecyclesWith
  <2>7. Stage'
    BY <1>2, <1>3, <1>4, <2>2, <2>6 DEF Recycling, Stage, Converting
  <2>8. OnePlace'
    <3>1. o \notin Asked
      BY <1>6, NoPlace
    <3>2. \A j \in Asked : j \in Inst
      BY Shapes DEF Asked
    <3>3. QED
      BY <1>2, <1>4, <2>3, <3>1, <3>2, RecyclePlaces DEF CInv
  <2>9. Data'
    <3>1. \A j \in Inst : ctrl'[j].lsn = ctrl[j].lsn /\ ctrl'[j].dirty = ctrl[j].dirty
      BY <2>3
    <3>2. QED
      BY <1>2, <2>4, <3>1 DEF CInv, Data
  <2>10. Locks'
    <3>1. SingleWriter' /\ HoldersKnown'
      BY <2>4 DEF SingleWriter, HoldersKnown, Lk
    <3>2. \A i \in Inst : Lk(i)' # LockExclusive
      BY <2>4, Modes
    <3>3. QED
      BY <1>2, <1>3, <1>4, <1>6, <3>1, <3>2 DEF Locks
  <2>11. QED
    BY <1>2, <2>7, <2>8, <2>9, <2>10 DEF CInv
<1>7. QED
  BY <1>1, <1>5, <1>6, OwnerAnswer

(* The end of recycling: the entry stays as it was, or is freed when       *)
(* nobody has the page and the disk has its last version.                  *)
LEMMA RecycleEnds ==
    ASSUME IInv, CInv, NEW t \in tasks, RecycleDone(t)
    PROVE  /\ UNCHANGED <<ctrl, sess, askm, asko, acks, claims, timeouts, latest, disk, rvars>>
           /\ tasks' = {} /\ asko = {} /\ Ready = {} /\ claims = {} /\ res.q = <<>>
           /\ ~Converting(res) /\ res.used
           /\ \/ res' = [res EXCEPT !.pending = FALSE] /\ OwnerHas(res.owner)
              \/ /\ res' = NoBufRes
                 /\ NobodyBut({}) /\ Granted = {} /\ disk = latest
<1>1. /\ UNCHANGED <<ctrl, sess, askm, asko, acks, claims, timeouts, latest, disk, rvars>>
      /\ t.kind = "recycle" /\ (t.fail \/ t.owner = NoInst) /\ tasks' = tasks \ {t}
      /\ res' = IF t.fail THEN [res EXCEPT !.pending = FALSE] ELSE NoBufRes
  BY DEF RecycleDone
<1>2. Recycling /\ tasks = {t} /\ RecyclesWith(t)
  BY <1>1 DEF CInv, Stage, Resting, Invalidating, Asking, Answering, Claiming, Recycling
<1>3. res.used /\ res.owner \in Inst /\ res.q = <<>> /\ ~Converting(res)
      /\ asko = {} /\ Ready = {} /\ claims = {}
  BY <1>2, Shapes DEF Recycling, EntryOK
<1>4. CASE t.fail
  BY <1>1, <1>2, <1>3, <1>4, NoInstAssumption DEF RecyclesWith
<1>5. CASE ~t.fail
  BY <1>1, <1>2, <1>3, <1>5, NoInstAssumption DEF RecyclesWith
<1>6. QED
  BY <1>4, <1>5

LEMMA RecycleDoneStep ==
    ASSUME IInv, CInv, NEW t \in tasks, RecycleDone(t)
    PROVE  CInv'
<1>1. /\ UNCHANGED <<ctrl, sess, askm, asko, acks, claims, timeouts, latest, disk>>
      /\ tasks' = {} /\ asko = {} /\ Ready = {} /\ claims = {} /\ res.q = <<>>
      /\ ~Converting(res) /\ res.used
  BY RecycleEnds
<1>2. /\ \A i \in Inst : Lk(i)' = Lk(i)
      /\ Ready' = Ready /\ Granted' = Granted /\ Worked' = {}
  BY <1>1 DEF Lk, Ready, Granted, Worked
<1>3. (NobodyBut({})' <=> NobodyBut({})) /\ SingleWriter'
  BY <1>1, <1>2 DEF NobodyBut, CInv, Locks, SingleWriter
<1>4. CASE res' = [res EXCEPT !.pending = FALSE] /\ OwnerHas(res.owner)
  <2>1. /\ res'.used = res.used /\ res'.owner = res.owner /\ res'.copies = res.copies
        /\ res'.lsn = res.lsn /\ ~res'.pending /\ res'.conv = res.conv /\ res'.q = res.q
    BY <1>4, Shapes DEF BufRes
  <2>2. OwnerHas(res.owner)'
    BY <1>1, <1>2, <1>4 DEF OwnerHas, Lk
  <2>3. Stage'
    BY <1>1, <1>2, <2>1, <2>2 DEF Resting, Stage, Converting
  <2>4. OnePlace'
    BY <1>1, <1>2, <2>1, RecyclePlaces DEF CInv
  <2>5. Data' /\ HoldersKnown'
    BY <1>1, <1>2, <2>1 DEF CInv, Data, Locks, HoldersKnown
  <2>6. Locks'
    BY <1>1, <1>2, <1>3, <2>1, <2>5 DEF CInv, Locks
  <2>7. QED
    BY <1>1, <2>3, <2>4, <2>5, <2>6 DEF CInv
<1>5. CASE res' = NoBufRes /\ NobodyBut({}) /\ Granted = {} /\ disk = latest
  <2>1. /\ ~res'.used /\ ~res'.pending /\ res'.lsn = 0 /\ res'.q = <<>> /\ ~Converting(res')
    BY <1>5 DEF NoBufRes, Converting, NoReq
  <2>2. Stage'
    BY <1>1, <1>2, <2>1 DEF Resting, Stage
  <2>3. OnePlace'
    BY <1>1, <1>2, <2>1, RecyclePlaces DEF CInv
  <2>4. Data'
    <3>1. latest \in Nat /\ 0 <= latest
      BY Shapes
    <3>2. QED
      BY <1>1, <1>2, <2>1, <3>1 DEF CInv, Data
  <2>5. HoldersKnown' /\ \A i \in Inst : Lk(i)' # LockExclusive
    BY <1>1, <1>2, <1>5, Modes DEF HoldersKnown, NobodyBut, Lk
  <2>6. \A a \in acks' : a.cmd = "error"
    <3>1. \A a \in acks : a.cmd \in {"granted", "already_owner", "page_ready", "error"}
      BY Shapes DEF Ack, AckMsg
    <3>2. QED
      BY <1>1, <1>5, <3>1 DEF Ready, Granted
  <2>7. Locks'
    BY <1>1, <1>2, <1>3, <1>5, <2>5, <2>6 DEF Locks
  <2>8. QED
    BY <1>1, <2>2, <2>3, <2>4, <2>7 DEF CInv
<1>6. QED
  BY <1>4, <1>5, RecycleEnds

-----------------------------------------------------------------------------
(* The steps of the page protocol: what the checkpoint relies on.          *)

PFrame == /\ IInv /\ CkptTypeOK /\ CInv /\ KInv /\ IInv' /\ CInv'
          /\ UNCHANGED <<evicting, notices>>
          /\ UNCHANGED <<group, askckpt, toowner, written, cleanedp, flushed, early>>

(* A step of the master: no ctrl changes. *)
LEMMA MasterKStep ==
    ASSUME PFrame, UNCHANGED <<ctrl, sess, latest, disk, lastmod>>,
           Dirties \subseteq Dirties',
           res'.used => ctrl[res'.owner].load # "absent",
           \A i \in Inst : Lk(i) # LockNull /\ Keeper(i) => Keeper(i)',
           Sent'
    PROVE  KInv'
<1> USE DEF PFrame
<1>1. \A i \in Inst : Lk(i)' = Lk(i) /\ (Keeps(i)' <=> Keeps(i))
  BY DEF Lk, Keeps
<1>2. \A l : Safe(l)' <=> Safe(l)
  BY DEF Safe
<1>3. Fresh'
  BY <1>1 DEF KInv, Fresh
<1>4. Present'
  BY <1>2 DEF KInv, Present, OwnerAsk
<1>5. Flagged'
  <2>1. ASSUME NEW i \in Inst
        PROVE  /\ FlagsOK(ctrl[i])
               /\ (ctrl[i].dirty /\ ~ctrl[i].edp) \/ ctrl[i].rdirty => Keeper(i)'
    BY DEF KInv, Flagged, FlagsOK, Lk
  <2>2. QED
    BY <2>1 DEF Flagged
<1>6. Groups'
  <2>1. ASSUME NEW i \in Inst PROVE Copied(i)' /\ Announced(i)'
    BY <1>1, <1>2 DEF KInv, Groups, Copied, Announced
  <2>2. QED
    BY <2>1 DEF Groups
<1>7. Redo'
  BY <1>2 DEF KInv, Redo, RedoWritten
<1>8. Kept'
  BY <1>1 DEF KInv, Kept
<1>9. QED
  BY <1>3, <1>4, <1>5, <1>6, <1>7, <1>8 DEF KInv

(* A step on the ctrl and the session of one instance. *)
LEMMA CtrlKStep ==
    ASSUME PFrame, UNCHANGED <<res, latest, disk, lastmod>>, NEW i \in Inst,
           \A j \in Inst \ {i} : ctrl'[j] = ctrl[j] /\ sess'[j] = sess[j],
           Lk(i)' # LockNull /\ ctrl'[i].load = "need" => CtrlRecyclable(ctrl'[i]),
           ctrl'[i].load = "absent" => ctrl[i].load = "absent",
           sess'[i].st # "idle" => ctrl'[i].load # "absent" /\ sess'[i].mode # LockNull,
           FlagsOK(ctrl'[i]),
           (ctrl'[i].dirty /\ ~ctrl'[i].edp) \/ ctrl'[i].rdirty => Keeper(i)',
           \A j \in Inst \ {i} : Lk(j) # LockNull /\ Keeper(j) => Keeper(j)',
           ctrl'[i].marked = ctrl[i].marked, ctrl[i].marked => Lk(i)' # LockNull,
           ctrl[i].dirty /\ ~ctrl'[i].dirty => ~ctrl[i].marked /\ ~(lastmod[i] > flushed),
           ctrl[i].marked /\ ~ctrl[i].edp => ~ctrl'[i].edp,
           lastmod[i] <= ctrl'[i].lsn,
           Kept', Sent'
    PROVE  KInv'
<1> USE DEF PFrame
<1>1. /\ \A j \in Inst \ {i} : Lk(j)' = Lk(j)
      /\ \A l : Safe(l)' <=> Safe(l)
      /\ res.used => res.owner \in Inst
      /\ \A p \in toowner : p.inst \in Inst
  BY Shapes DEF Lk, Safe, EntryOK, CkptTypeOK, OwnerPage
<1>2. Fresh'
  BY <1>1 DEF KInv, Fresh
<1>3. Present'
  <2>1. \A j \in Inst : ctrl[j].load # "absent" => ctrl'[j].load # "absent"
    OBVIOUS
  <2>2. QED
    BY <1>1, <2>1 DEF KInv, Present, OwnerAsk
<1>4. Flagged'
  <2>1. ASSUME NEW j \in Inst \ {i}
        PROVE  /\ FlagsOK(ctrl'[j])
               /\ (ctrl'[j].dirty /\ ~ctrl'[j].edp) \/ ctrl'[j].rdirty => Keeper(j)'
    BY DEF KInv, Flagged, FlagsOK, Lk
  <2>2. QED
    BY <2>1 DEF Flagged
<1>5. Groups'
  <2>1. ASSUME NEW j \in Inst PROVE Copied(j)' /\ Announced(j)'
    <3>1. Copied(j) /\ Announced(j)
      BY DEF KInv, Groups
    <3>2. Copied(j)'
      BY <1>1, <3>1 DEF Copied
    <3>3. Announced(j)'
      BY <1>1, <3>1 DEF Announced
    <3>4. QED
      BY <3>2, <3>3
  <2>2. QED
    BY <2>1 DEF Groups
<1>6. Redo'
  <2>1. \A j \in Inst : lastmod'[j] <= ctrl'[j].lsn
    BY DEF KInv, Redo
  <2>2. RedoWritten'
    BY DEF KInv, Redo, RedoWritten
  <2>3. QED
    BY <1>1, <2>1, <2>2 DEF KInv, Redo
<1>7. QED
  BY <1>2, <1>3, <1>4, <1>5, <1>6 DEF KInv

(* The master tells the owner, or the requester that it is the owner. *)
LEMMA NotifyAnswers ==
    ASSUME NEW o, NEW req, NEW retry, NEW errors, NotifyOwner(o, req, retry, errors),
           \A a \in errors : a.cmd = "error"
    PROVE  /\ acks \subseteq acks'
           /\ \A a \in acks' \ acks : a.cmd \in {"error", "already_owner"}
<1>1. MasterAck("already_owner", req).cmd = "already_owner"
  BY DEF MasterAck, ErrorAck
<1>2. acks' = Answered(errors \cup {MasterAck("already_owner", req)}) \/ acks' = Answered(errors)
  BY DEF NotifyOwner
<1>3. QED
  BY <1>1, <1>2 DEF Answered

LEMMA AnswersKStep ==
    ASSUME PFrame, UNCHANGED <<ctrl, sess, claims, latest, disk, lastmod>>,
           res'.used = res.used, res'.owner = res.owner, acks \subseteq acks',
           \A a \in acks' \ acks : a.cmd \in {"error", "already_owner"}
    PROVE  KInv'
<1> USE DEF PFrame
<1>1. Dirties \subseteq Dirties'
  BY DEF Dirties, Ready
<1>2. Sent'
  BY DEF KInv, Sent
<1>3. \A i \in Inst : Lk(i) # LockNull /\ Keeper(i) => Keeper(i)'
  BY DEF Keeper, Lk
<1>4. res'.used => ctrl[res'.owner].load # "absent"
  BY DEF KInv, Present
<1>5. QED
  BY <1>1, <1>2, <1>3, <1>4, MasterKStep

LEMMA AskMasterK ==
    ASSUME PFrame, NEW req \in askm, ProcessAskMaster(req), lastmod' = lastmod
    PROVE  KInv'
<1> USE DEF PFrame
<1>1. UNCHANGED <<ctrl, sess, claims, latest, disk>> /\ res \in BufRes /\ req.inst \in Inst
  BY Shapes DEF ProcessAskMaster
<1>2. CASE MasterGrants(req)
  <2>1. /\ ~res.used /\ res = NoBufRes /\ \A a \in acks : a.cmd = "error"
    BY <1>2, Shapes DEF MasterGrants, EntryOK, CInv, Locks
  <2>2. res'.used /\ res'.owner = req.inst
    BY <1>2 DEF MasterGrants, GrantNew, NoBufRes
  <2>3. MasterAck("granted", req).cmd = "granted"
    BY DEF MasterAck, ErrorAck
  <2>4. \A a \in acks' : a.cmd \in {"error", "granted"}
    BY <1>2, <2>1, <2>3 DEF MasterGrants, Answered
  <2>5. Dirties \subseteq Dirties' /\ Sent'
    BY <2>1, <2>4 DEF Dirties, Ready, Sent
  <2>6. ctrl[req.inst].load # "absent"
    BY <1>1 DEF CInv, OnePlace, Current, Waiting, KInv, Present
  <2>7. claims = {} /\ res.owner \notin Inst
    BY <2>1, NoInstAssumption
       DEF CInv, Stage, Resting, Invalidating, Asking, Answering, Claiming, Recycling, Converting,
           NoBufRes, NoReq
  <2>8. \A i \in Inst : Lk(i) # LockNull /\ Keeper(i) => Keeper(i)'
    BY <2>7 DEF Keeper
  <2>9. QED
    BY <1>1, <2>2, <2>5, <2>6, <2>8, MasterKStep
<1>3. CASE MasterRefuses(req)
  <2>1. ErrorAck(req).cmd = "error"
    BY DEF ErrorAck
  <2>2. acks \subseteq acks' /\ \A a \in acks' \ acks : a.cmd \in {"error", "already_owner"}
    BY <1>3, <2>1 DEF MasterRefuses, Answered
  <2>3. res' = res
    BY <1>3 DEF MasterRefuses
  <2>4. QED
    BY <1>1, <2>2, <2>3, AnswersKStep
<1>4. CASE MasterConverts(req)
  <2>1. res'.used = res.used /\ res'.owner = res.owner
    BY <1>1, <1>4 DEF MasterConverts, StartConvert, BufRes
  <2>2. \/ NotifyOwner(res.owner, ConvertReq(res, req), Restarts(res, req), {})
        \/ UNCHANGED acks
    BY <1>4 DEF MasterConverts
  <2>3. acks \subseteq acks' /\ \A a \in acks' \ acks : a.cmd \in {"error", "already_owner"}
    BY <2>2, NotifyAnswers
  <2>4. QED
    BY <1>1, <2>1, <2>3, AnswersKStep
<1>5. CASE MasterQueues(req)
  <2>1. UNCHANGED acks /\ (res' = ReplaceQueued(res, req) \/ res' = AppendQueued(res, req))
    BY <1>5 DEF MasterQueues
  <2>2. res'.used = res.used /\ res'.owner = res.owner
    BY <1>1, <2>1 DEF ReplaceQueued, AppendQueued, BufRes
  <2>3. QED
    BY <1>1, <2>1, <2>2, AnswersKStep
<1>6. QED
  BY <1>2, <1>3, <1>4, <1>5 DEF ProcessAskMaster

LEMMA InvalidatedK ==
    ASSUME PFrame, NEW t \in tasks, RequestInvalidated(t) \/ ConvertInvalidated(t), lastmod' = lastmod
    PROVE  KInv'
<1> USE DEF PFrame
<1>1. UNCHANGED <<ctrl, sess, claims, latest, disk>> /\ res \in BufRes
  BY Shapes DEF RequestInvalidated, ConvertInvalidated
<1>2. res' = res \/ res' = [res EXCEPT !.copies = {}]
  BY DEF RequestInvalidated, ConvertInvalidated
<1>3. res'.used = res.used /\ res'.owner = res.owner
  BY <1>1, <1>2 DEF BufRes
<1>4. \/ acks' = Answered({ErrorAck(t.req)})
      \/ NotifyOwner(t.owner, t.req, t.retry, {})
      \/ NotifyOwner(t.owner, t.req, FALSE, {})
  BY DEF RequestInvalidated, ConvertInvalidated
<1>5. ErrorAck(t.req).cmd = "error"
  BY DEF ErrorAck
<1>6. acks \subseteq acks' /\ \A a \in acks' \ acks : a.cmd \in {"error", "already_owner"}
  <2>1. CASE acks' = Answered({ErrorAck(t.req)})
    BY <1>5, <2>1 DEF Answered
  <2>2. ASSUME NEW retry, NotifyOwner(t.owner, t.req, retry, {})
        PROVE  acks \subseteq acks' /\ \A a \in acks' \ acks : a.cmd \in {"error", "already_owner"}
    BY <2>2, NotifyAnswers
  <2>3. QED
    BY <1>4, <2>1, <2>2
<1>7. QED
  BY <1>1, <1>3, <1>6, AnswersKStep

(* The claim makes its instance the owner, or leaves the owner.            *)
LEMMA ClaimK ==
    ASSUME NoFaults, PFrame, NEW c \in claims, ProcessClaim(c), lastmod' = lastmod
    PROVE  KInv'
<1> USE DEF PFrame
<1>1. UNCHANGED <<ctrl, sess, askm, latest, disk>> /\ claims' = claims \ {c}
  BY DEF ProcessClaim
<1>2. PICK r : r = ClaimNewOwner(res, c)
  OBVIOUS
<1>3. /\ Claiming /\ claims = {c} /\ ClaimValid(res, c)
      /\ r \in BufRes /\ r.q = res.q /\ r.used /\ ~r.pending /\ r.owner \in Inst
      /\ \A i \in Inst : Lk(i) = LockExclusive => i = r.owner
      /\ OwnerHas(r.owner)
      /\ \A k \in DOMAIN r.q : r.q[k].inst # r.owner
  BY <1>2, Claimed
<1>4. ConvertWaiter(r, c.inst, 0)
  <2>1. PICK expired \in 0..Len(res.q) : /\ timeouts + expired <= MaxTimeouts
                                         /\ ConvertWaiter(r, c.inst, expired)
    BY <1>2, <1>3 DEF ProcessClaim
  <2>2. timeouts = 0 /\ Len(res.q) \in Nat
    BY Shapes, LenProperties DEF CInv, BufRes
  <2>3. expired = 0
    BY <2>1, <2>2 DEF NoFaults
  <2>4. QED
    BY <2>1, <2>3
<1>5. PICK s : s = ConvertNext(r, 0)
  OBVIOUS
<1>6. /\ s.owner = r.owner /\ s.used
      /\ r.q # <<>> =>
            /\ 1 \in DOMAIN r.q /\ s.conv = r.q[1]
            /\ \A k \in DOMAIN s.q : k \in Nat /\ k # 0 /\ k + 1 \in DOMAIN r.q /\ s.q[k] = r.q[k + 1]
            /\ s.q # <<>> => Head(s.q) = s.q[1] /\ 1 \in DOMAIN s.q
      /\ r.q = <<>> => s.q = <<>>
  BY <1>3, <1>5, NextWaiter
<1>7. ~HeadConflicts(s)
  <2> SUFFICES ASSUME s.q # <<>> PROVE ~Conflicting(s, Head(s.q))
    BY DEF HeadConflicts
  <2>1. r.q # <<>>
    BY <1>6
  <2>2. s.conv.inst # s.owner /\ Head(s.q).inst # s.owner
    BY <1>3, <1>6, <2>1
  <2>3. QED
    BY <2>2 DEF Conflicting
<1>8. {ErrorAck(r.q[k]) : k \in 1..0} = {}
  OBVIOUS
<1>9. res' = s
  BY <1>4, <1>5, <1>7 DEF ConvertWaiter
<1>10. acks \subseteq acks' /\ \A a \in acks' \ acks : a.cmd \in {"error", "already_owner"}
  <2>1. \/ acks' = Answered({})
        \/ NotifyOwner(s.owner, s.conv, FALSE, {})
    BY <1>4, <1>5, <1>7, <1>8 DEF ConvertWaiter
  <2>2. CASE acks' = Answered({})
    BY <2>2 DEF Answered
  <2>3. ASSUME NEW retry, NotifyOwner(s.owner, s.conv, retry, {})
        PROVE  acks \subseteq acks' /\ \A a \in acks' \ acks : a.cmd \in {"error", "already_owner"}
    BY <2>3, NotifyAnswers
  <2>4. QED
    BY <2>1, <2>2, <2>3
<1>11. Ready = {} /\ Granted = {} /\ Converting(res) /\ Lk(Requester) = Conv.mode /\ c.mode = Conv.mode
  BY <1>3 DEF Claiming
<1>12. Dirties = {} /\ Sent'
  BY <1>10, <1>11 DEF Dirties, Ready, Sent
<1>13. ctrl[r.owner].load # "absent"
  BY <1>3, <1>11 DEF OwnerHas, CInv, Data
<1>14. ASSUME NEW i \in Inst, Lk(i) # LockNull, Keeper(i) PROVE i = r.owner
  <2>1. Conv.mode \in {LockShare, LockExclusive} /\ Requester \in Inst
    BY <1>11, Shapes DEF ReqInfo
  <2>2. CASE Conv.mode = LockExclusive
    BY <1>3, <1>11, <1>14, <2>1, <2>2 DEF Claiming, NobodyBut
  <2>3. CASE Conv.mode = LockShare
    <3>1. i = res.owner
      BY <1>3, <1>14, <2>3 DEF Claiming, OwnerShares, Keeper
    <3>2. res \in BufRes /\ (r = res \/ r = ClaimShare(res, c))
      BY <1>2, <1>11, <2>3, Shapes DEF ClaimNewOwner
    <3>3. QED
      BY <3>1, <3>2 DEF ClaimShare, BufRes
  <2>4. QED
    BY <2>1, <2>2, <2>3
<1>15. \A i \in Inst : Lk(i) # LockNull /\ Keeper(i) => Keeper(i)'
  BY <1>6, <1>9, <1>14 DEF Keeper
<1>16. QED
  BY <1>1, <1>6, <1>9, <1>12, <1>13, <1>15, MasterKStep

(* A step that leaves the lock and the flags of a ctrl: its page is        *)
(* requested, refused or read.                                             *)
LEMMA LoadKStep ==
    ASSUME PFrame, UNCHANGED <<res, claims, latest, disk, lastmod>>, NEW i \in Inst,
           \A j \in Inst \ {i} : ctrl'[j] = ctrl[j] /\ sess'[j] = sess[j],
           /\ ctrl'[i].lock = ctrl[i].lock /\ ctrl'[i].dirty = ctrl[i].dirty
           /\ ctrl'[i].rdirty = ctrl[i].rdirty /\ ctrl'[i].edp = ctrl[i].edp
           /\ ctrl'[i].marked = ctrl[i].marked,
           acks' \subseteq acks, Ready' = Ready,
           Lk(i) # LockNull => ctrl'[i].load # "need",
           ctrl'[i].load # "absent",
           sess'[i].st # "idle" => sess'[i].mode # LockNull,
           lastmod[i] <= ctrl'[i].lsn
    PROVE  KInv'
<1> USE DEF PFrame
<1>1. FlagsOK(ctrl[i]) /\ Copied(i)
  BY DEF KInv, Flagged, Groups
<1>2. FlagsOK(ctrl'[i])
  BY <1>1 DEF FlagsOK
<1>3. \A j \in Inst : Lk(j)' = Lk(j) /\ (Keeper(j)' <=> Keeper(j)) /\ (Keeps(j)' <=> Keeps(j))
  BY DEF Lk, Keeper, Keeps
<1>4. (ctrl'[i].dirty /\ ~ctrl'[i].edp) \/ ctrl'[i].rdirty => Keeper(i)'
  BY <1>3 DEF KInv, Flagged
<1>5. Kept'
  <2>1. Dirties' = Dirties
    BY DEF Dirties
  <2>2. QED
    BY <1>3, <2>1 DEF KInv, Kept
<1>6. Sent'
  BY DEF KInv, Sent
<1>8. Lk(i)' # LockNull => ctrl'[i].load # "need"
  BY <1>3
<1>9. ctrl[i].marked => Lk(i)' # LockNull
  BY <1>1, <1>3 DEF Copied
<1>10. \A j \in Inst \ {i} : Lk(j) # LockNull /\ Keeper(j) => Keeper(j)'
  BY <1>3
<1>11. QED
  BY <1>2, <1>4, <1>5, <1>6, <1>8, <1>9, <1>10, CtrlKStep

LEMMA RequestPageK ==
    ASSUME PFrame, NEW i \in Inst, NEW mode \in {LockShare, LockExclusive}, RequestPage(i, mode),
           lastmod' = lastmod
    PROVE  KInv'
<1> USE DEF PFrame
<1>1. /\ UNCHANGED <<res, acks, claims, latest, disk>> /\ sess[i].st = "idle"
      /\ ctrl \in [Inst -> BufCtrl] /\ ctrl[i] \in BufCtrl /\ sess \in [Inst -> Session]
  BY Shapes DEF RequestPage
<1>2. PICK c : c = [ctrl[i] EXCEPT !.load = IF ctrl[i].load = "loaded" THEN "loaded" ELSE "need"]
  OBVIOUS
<1>3. ctrl' = [ctrl EXCEPT ![i] = c]
  BY <1>1, <1>2 DEF RequestPage, BufCtrl
<1>4. /\ c.lock = ctrl[i].lock /\ c.dirty = ctrl[i].dirty /\ c.rdirty = ctrl[i].rdirty
      /\ c.edp = ctrl[i].edp /\ c.marked = ctrl[i].marked /\ c.lsn = ctrl[i].lsn
      /\ c.load = IF ctrl[i].load = "loaded" THEN "loaded" ELSE "need"
  BY <1>1, <1>2 DEF BufCtrl
<1>5. /\ ctrl'[i] = c /\ \A j \in Inst \ {i} : ctrl'[j] = ctrl[j] /\ sess'[j] = sess[j]
      /\ sess'[i].mode = mode
  BY <1>1, <1>3 DEF RequestPage
<1>6. Lk(i) # LockNull => c.load # "need"
  BY <1>1, <1>4 DEF CInv, Data
<1>7. c.load # "absent" /\ mode # LockNull /\ Ready' = Ready
  BY <1>1, <1>4, Modes DEF Ready
<1>8. lastmod[i] <= ctrl'[i].lsn
  BY <1>4, <1>5 DEF KInv, Redo
<1>9. QED
  BY <1>1, <1>4, <1>5, <1>6, <1>7, <1>8, LoadKStep

LEMMA FinishK ==
    ASSUME PFrame, NEW i \in Inst, Finish(i), lastmod' = lastmod
    PROVE  KInv'
<1> USE DEF PFrame
<1>1. /\ UNCHANGED <<res, acks, claims, latest, disk>> /\ sess[i].st = "held"
      /\ ctrl \in [Inst -> BufCtrl] /\ ctrl[i] \in BufCtrl /\ sess \in [Inst -> Session]
      /\ Lk(i) \in LockMode /\ sess[i].mode \in LockMode /\ latest \in Nat /\ disk \in Nat
      /\ ctrl[i].lsn \in Nat /\ lastmod[i] \in Nat
  BY Shapes DEF Finish, Session, CkptTypeOK
<1>2. PICK c : c = [ctrl[i] EXCEPT !.lsn = IF ctrl[i].load = "need" THEN disk ELSE ctrl[i].lsn,
                                   !.load = "loaded"]
  OBVIOUS
<1>3. ctrl' = [ctrl EXCEPT ![i] = c]
  BY <1>1, <1>2 DEF Finish, BufCtrl
<1>4. /\ c.lock = ctrl[i].lock /\ c.dirty = ctrl[i].dirty /\ c.rdirty = ctrl[i].rdirty
      /\ c.edp = ctrl[i].edp /\ c.marked = ctrl[i].marked /\ c.load = "loaded"
      /\ c.lsn = IF ctrl[i].load = "need" THEN disk ELSE ctrl[i].lsn
  BY <1>1, <1>2 DEF BufCtrl
<1>5. /\ ctrl'[i] = c /\ \A j \in Inst \ {i} : ctrl'[j] = ctrl[j] /\ sess'[j] = sess[j]
      /\ sess'[i].st = "idle"
  BY <1>1, <1>3 DEF Finish, Idle
<1>6. Lk(i) # LockNull
  <2>1. Lk(i) >= sess[i].mode /\ sess[i].mode # LockNull
    BY <1>1 DEF IInv, HeldCovered, Lk, KInv, Present
  <2>2. QED
    BY <1>1, <2>1, Modes DEF LockMode
<1>7. lastmod[i] <= c.lsn
  <2>1. lastmod[i] <= ctrl[i].lsn /\ ctrl[i].lsn <= latest
    BY DEF KInv, Redo, CInv, Data
  <2>2. ctrl[i].load = "need" => disk = latest
    BY <1>6 DEF CInv, Data
  <2>3. QED
    BY <1>1, <1>4, <2>1, <2>2
<1>8. Ready' = Ready
  BY <1>1 DEF Ready
<1>9. QED
  BY <1>1, <1>4, <1>5, <1>7, <1>8, LoadKStep

LEMMA AckErrorK ==
    ASSUME PFrame, NEW a \in acks, HandleAck(a), AckError(a), lastmod' = lastmod
    PROVE  KInv'
<1> USE DEF PFrame
<1> DEFINE i == a.dst
<1>1. /\ UNCHANGED <<res, claims, latest, disk>> /\ acks' = acks \ {a} /\ i \in Inst
      /\ sess[i].st = "wait" /\ a.cmd = "error"
      /\ ctrl \in [Inst -> BufCtrl] /\ ctrl[i] \in BufCtrl /\ sess \in [Inst -> Session]
  BY Shapes, Taken DEF HandleAck, AckError
<1>2. PICK c : c = [ctrl[i] EXCEPT !.load = IF ctrl[i].load = "loaded" THEN "loaded" ELSE "failed"]
  OBVIOUS
<1>3. ctrl' = [ctrl EXCEPT ![i] = c]
  BY <1>1, <1>2 DEF AckError, LeaveFailed, BufCtrl
<1>4. /\ c.lock = ctrl[i].lock /\ c.dirty = ctrl[i].dirty /\ c.rdirty = ctrl[i].rdirty
      /\ c.edp = ctrl[i].edp /\ c.marked = ctrl[i].marked /\ c.lsn = ctrl[i].lsn
      /\ c.load = IF ctrl[i].load = "loaded" THEN "loaded" ELSE "failed"
  BY <1>1, <1>2 DEF BufCtrl
<1>5. /\ ctrl'[i] = c /\ \A j \in Inst \ {i} : ctrl'[j] = ctrl[j] /\ sess'[j] = sess[j]
      /\ sess'[i].st = "idle"
  BY <1>1, <1>3 DEF AckError, LeaveFailed, Idle
<1>6. c.load # "absent" /\ c.load # "need" /\ Ready' = Ready
  BY <1>1, <1>4 DEF Ready
<1>7. lastmod[i] <= ctrl'[i].lsn
  BY <1>1, <1>4, <1>5 DEF KInv, Redo
<1> HIDE DEF i
<1>8. QED
  BY <1>1, <1>4, <1>5, <1>6, <1>7, LoadKStep

(* A new entry: nobody has the page and the last version is on disk, so    *)
(* that what an earlier owner kept as an edp is written.                   *)
LEMMA AckGrantedK ==
    ASSUME PFrame, NEW a \in acks, HandleAck(a), AckGranted(a), lastmod' = lastmod
    PROVE  KInv'
<1> USE DEF PFrame
<1> DEFINE i == a.dst
<1>1. /\ UNCHANGED <<res, claims, latest, disk>> /\ acks' = acks \ {a} /\ i \in Inst
      /\ sess[i].st = "wait" /\ a \in Granted
      /\ ctrl \in [Inst -> BufCtrl] /\ ctrl[i] \in BufCtrl /\ sess \in [Inst -> Session]
      /\ sess[i] \in Session
  BY Shapes, Taken DEF HandleAck, AckGranted, Granted
<1>2. disk = latest /\ \A j \in Inst : Lk(j) = LockNull
  BY <1>1 DEF CInv, Locks, NobodyBut
<1>3. (ctrl[i].dirty => ctrl[i].edp) /\ ~ctrl[i].rdirty /\ ~ctrl[i].marked
  <2>1. FlagsOK(ctrl[i]) /\ Copied(i) /\ Lk(i) = LockNull
    BY <1>1, <1>2 DEF KInv, Flagged, Groups
  <2>2. QED
    BY <2>1 DEF FlagsOK, Copied, Lk
<1>4. PICK c : c = [CleanCtrlEdp(ctrl[i]) EXCEPT !.load = "need", !.lock = LockExclusive]
  OBVIOUS
<1>5. ctrl' = [ctrl EXCEPT ![i] = c]
  BY <1>1, <1>4 DEF AckGranted
<1>6. /\ c.lock = LockExclusive /\ ~c.dirty /\ ~c.rdirty /\ ~c.edp
      /\ c.marked = ctrl[i].marked /\ c.lsn = ctrl[i].lsn /\ c.load = "need"
  BY <1>1, <1>3, <1>4 DEF BufCtrl, CleanCtrlEdp
<1>7. /\ ctrl'[i] = c /\ \A j \in Inst \ {i} : ctrl'[j] = ctrl[j] /\ sess'[j] = sess[j]
      /\ sess'[i].mode = sess[i].mode
  BY <1>1, <1>5 DEF AckGranted, Session
<1>8. sess[i].mode # LockNull /\ lastmod[i] <= ctrl'[i].lsn
  BY <1>1, <1>6, <1>7 DEF KInv, Present, Redo
<1>9. FlagsOK(ctrl'[i])
  BY <1>6, <1>7 DEF FlagsOK
<1>10. Kept'
  BY <1>1, <1>2 DEF Kept
<1>11. Sent'
  BY <1>1 DEF KInv, Sent
<1>12. ~(lastmod[i] > flushed)
  <2>1. /\ lastmod[i] <= ctrl[i].lsn /\ ctrl[i].lsn <= latest /\ latest <= flushed
    BY <1>1, <1>2 DEF KInv, Redo, CInv, Data
  <2>2. lastmod[i] \in Nat /\ ctrl[i].lsn \in Nat /\ latest \in Nat /\ flushed \in Nat
    BY <1>1, Shapes DEF CkptTypeOK
  <2>3. QED
    BY <2>1, <2>2
<1>13. CtrlRecyclable(ctrl'[i])
  BY <1>3, <1>6, <1>7 DEF CtrlRecyclable
<1>14. \A j \in Inst \ {i} : Lk(j) # LockNull /\ Keeper(j) => Keeper(j)'
  BY <1>2
<1> HIDE DEF i
<1>15. QED
  BY <1>1, <1>3, <1>6, <1>7, <1>8, <1>9, <1>10, <1>11, <1>12, <1>13, <1>14, CtrlKStep

(* What the answer of an owner does to the flags of its receiver. *)
LEMMA ReceivedFlags ==
    ASSUME PFrame, NEW a \in acks, HandleAck(a), AckPageReady(a) \/ AckAlreadyOwner(a),
           "need_load" \notin a.flags, a.dst \in Inst
    PROVE  /\ ctrl'[a.dst].marked = ctrl[a.dst].marked
           /\ sess'[a.dst].mode = sess[a.dst].mode
           /\ a.cmd = "page_ready" =>
                 /\ ctrl'[a.dst].edp = (ctrl[a.dst].edp /\ a.mode # LockExclusive)
                 /\ ctrl'[a.dst].rdirty = (/\ a.mode = LockExclusive
                                           /\ a.flags \cap {"dirty", "remote_dirty"} # {})
           /\ a.cmd = "already_owner" => /\ ctrl'[a.dst].edp = ctrl[a.dst].edp
                                         /\ ctrl'[a.dst].rdirty = ctrl[a.dst].rdirty
           /\ a.cmd \in {"page_ready", "already_owner"}
<1> DEFINE i == a.dst
<1>1. /\ ctrl \in [Inst -> BufCtrl] /\ ctrl[i] \in BufCtrl
      /\ sess \in [Inst -> Session] /\ sess[i] \in Session
  BY Shapes DEF PFrame
<1>2. sess'[i].mode = sess[i].mode
  BY <1>1 DEF AckPageReady, AckAlreadyOwner, Session
<1>3. CASE AckPageReady(a)
  <2>1. PICK c : c = PageFromOwner(ctrl[i], a)
    OBVIOUS
  <2>2. /\ c.marked = ctrl[i].marked
        /\ c.edp = (ctrl[i].edp /\ a.mode # LockExclusive)
        /\ c.rdirty = (/\ a.mode = LockExclusive
                       /\ a.flags \cap {"dirty", "remote_dirty"} # {})
    BY <1>1, <2>1 DEF PageFromOwner, BufCtrl
  <2>3. ctrl'[i] = c /\ a.cmd = "page_ready"
    BY <1>1, <1>3, <2>1 DEF AckPageReady
  <2>4. QED
    BY <1>2, <2>2, <2>3
<1>4. CASE AckAlreadyOwner(a)
  <2>1. PICK c : c = [ctrl[i] EXCEPT !.lock = a.mode]
    OBVIOUS
  <2>2. c.marked = ctrl[i].marked /\ c.edp = ctrl[i].edp /\ c.rdirty = ctrl[i].rdirty
    BY <1>1, <2>1 DEF BufCtrl
  <2>3. ctrl'[i] = c /\ a.cmd = "already_owner"
    BY <1>1, <1>4, <2>1 DEF AckAlreadyOwner
  <2>4. QED
    BY <1>2, <2>2, <2>3
<1>5. QED
  BY <1>3, <1>4

LEMMA ReceivedK ==
    ASSUME PFrame, NEW a \in acks, HandleAck(a), AckPageReady(a) \/ AckAlreadyOwner(a), lastmod' = lastmod
    PROVE  KInv'
<1> USE DEF PFrame
<1>1. PICK i \in Inst : i = a.dst
  BY Shapes
<1>2. /\ Answering /\ Ready = {a} /\ Brings(a)
      /\ \A j \in Inst \ {i} : ctrl'[j] = ctrl[j] /\ sess'[j] = sess[j]
      /\ ctrl'[i].lock = a.mode /\ ctrl'[i].load = "loaded" /\ ctrl'[i].lsn = latest
      /\ ctrl'[i].dirty = ctrl[i].dirty
      /\ a.mode = LockExclusive => ~ctrl'[i].edp
      /\ claims' # {}
  BY <1>1, Received
<1>3. /\ UNCHANGED <<res, latest, disk>> /\ acks' = acks \ {a}
      /\ sess[i].st = "wait" /\ claims = {} /\ Granted = {} /\ i = Requester
      /\ a.mode = Conv.mode /\ Conv.mode \in {LockShare, LockExclusive} /\ a.mode # LockNull
  <2>1. claims = {} /\ Granted = {} /\ i = Requester /\ a.mode = Conv.mode /\ Converting(res)
    BY <1>1, <1>2 DEF Answering, Brings
  <2>2. Conv.mode \in {LockShare, LockExclusive}
    BY <2>1, Shapes DEF ReqInfo
  <2>3. UNCHANGED <<res, latest, disk>> /\ acks' = acks \ {a} /\ sess[i].st = "wait"
    BY <1>1, Taken
  <2>4. a.mode # LockNull
    BY <2>1, <2>2, Modes
  <2>5. QED
    BY <2>1, <2>2, <2>3, <2>4
<1>4. /\ ctrl'[i].marked = ctrl[i].marked
      /\ sess'[i].mode = sess[i].mode
      /\ a.cmd = "page_ready" =>
            /\ ctrl'[i].edp = (ctrl[i].edp /\ a.mode # LockExclusive)
            /\ ctrl'[i].rdirty = (/\ a.mode = LockExclusive
                                  /\ a.flags \cap {"dirty", "remote_dirty"} # {})
      /\ a.cmd = "already_owner" => /\ ctrl'[i].edp = ctrl[i].edp
                                    /\ ctrl'[i].rdirty = ctrl[i].rdirty
      /\ a.cmd \in {"page_ready", "already_owner"}
  BY <1>1, <1>2, ReceivedFlags DEF Brings
<1>5. a.cmd = "page_ready" => i # res.owner /\ ~((ctrl[i].dirty /\ ~ctrl[i].edp) \/ ctrl[i].rdirty)
  BY <1>1, <1>3 DEF KInv, Sent, Flagged, Keeper
<1>6. a.cmd = "already_owner" => a.mode = LockExclusive /\ a.flags = {} /\ ~ctrl[i].edp
  BY <1>2, <1>3 DEF Brings
<1>7. FlagsOK(ctrl[i])
  BY DEF KInv, Flagged
<1>8. FlagsOK(ctrl'[i])
  <2>1. ctrl'[i].lock # LockNull
    BY <1>2, <1>3
  <2>2. ctrl'[i].edp => ctrl'[i].dirty /\ ~ctrl'[i].rdirty /\ ctrl'[i].lock # LockExclusive
    BY <1>2, <1>3, <1>4, <1>6, <1>7 DEF FlagsOK
  <2>3. QED
    BY <2>1, <2>2 DEF FlagsOK
<1>9. (ctrl'[i].dirty /\ ~ctrl'[i].edp) \/ ctrl'[i].rdirty => Keeper(i)'
  <2>1. a.mode = LockExclusive => Keeper(i)'
    BY <1>2 DEF Keeper, Lk
  <2>2. a.mode # LockExclusive => ~((ctrl'[i].dirty /\ ~ctrl'[i].edp) \/ ctrl'[i].rdirty)
    BY <1>2, <1>4, <1>5, <1>6
  <2>3. QED
    BY <2>1, <2>2
<1>10. \A j \in Inst \ {i} : Lk(j) # LockNull /\ Keeper(j) => Keeper(j)'
  BY <1>3 DEF Keeper
<1>11. Kept'
  <2>1. CASE a.mode = LockExclusive /\ a.flags \cap {"dirty", "remote_dirty"} # {}
    <3>1. a.cmd = "page_ready"
      BY <1>4, <1>6, <2>1
    <3>2. Keeps(i)'
      BY <1>2, <1>3, <1>4, <2>1, <3>1 DEF Keeps, Lk
    <3>3. QED
      BY <3>2 DEF Kept
  <2>2. CASE ~(a.mode = LockExclusive /\ a.flags \cap {"dirty", "remote_dirty"} # {})
    <3>1. Dirties = {}
      BY <1>2, <2>2 DEF Dirties
    <3>2. ASSUME NEW j \in Inst, Keeps(j) PROVE Keeps(j)'
      <4>1. CASE j # i
        BY <1>2, <3>2, <4>1 DEF Keeps, Lk
      <4>2. CASE j = i
        <5>1. a.cmd = "already_owner"
          BY <1>4, <1>5, <3>2, <4>2 DEF Keeps
        <5>2. QED
          BY <1>2, <1>3, <1>4, <3>2, <4>2, <5>1 DEF Keeps, Lk
      <4>3. QED
        BY <4>1, <4>2
    <3>3. QED
      BY <1>3, <3>1, <3>2 DEF KInv, Kept
  <2>3. QED
    BY <2>1, <2>2
<1>12. Sent' /\ Granted' = {}
  BY <1>3 DEF KInv, Sent, Granted
<1>13. lastmod[i] <= ctrl'[i].lsn
  <2>1. lastmod[i] <= ctrl[i].lsn /\ ctrl[i].lsn <= latest
    BY DEF KInv, Redo, CInv, Data
  <2>2. lastmod[i] \in Nat /\ ctrl[i].lsn \in Nat /\ latest \in Nat
    BY Shapes DEF CkptTypeOK
  <2>3. QED
    BY <1>2, <2>1, <2>2
<1>14. sess[i].mode # LockNull
  BY <1>3 DEF KInv, Present
<1>15. ctrl[i].marked /\ ~ctrl[i].edp => ~ctrl'[i].edp
  BY <1>4
<1>16. ctrl'[i].load # "absent" /\ ctrl'[i].load # "need" /\ Lk(i)' # LockNull
  BY <1>2, <1>3 DEF Lk
<1>17. QED
  BY <1>2, <1>3, <1>4, <1>8, <1>9, <1>10, <1>11, <1>12, <1>13, <1>14, <1>15, <1>16, CtrlKStep

LEMMA InvalidateCopyK ==
    ASSUME PFrame, NEW t \in tasks, NEW i \in Inst, InvalidateCopy(t, i), lastmod' = lastmod
    PROVE  KInv'
<1> USE DEF PFrame
<1>1. /\ UNCHANGED <<res, sess, acks, claims, latest, disk>> /\ sess[i].st = "idle" /\ ~ctrl[i].marked
      /\ ctrl \in [Inst -> BufCtrl] /\ ctrl[i] \in BufCtrl
  BY Shapes DEF InvalidateCopy, LatchableIO, Latchable
<1>2. (Invalidating \/ Recycling) /\ i \in t.todo
  BY DEF InvalidateCopy, CInv, Stage, Resting, Asking, Answering, Claiming
<1>3. i # res.owner /\ claims = {}
  <2>1. CASE Invalidating
    BY <1>2, <2>1 DEF Invalidating
  <2>2. CASE Recycling
    BY <1>2, <2>2, Shapes DEF Recycling, RecyclesWith, EntryOK
  <2>3. QED
    BY <1>2, <2>1, <2>2
<1>4. FlagsOK(ctrl[i]) /\ ~((ctrl[i].dirty /\ ~ctrl[i].edp) \/ ctrl[i].rdirty)
  BY <1>3 DEF KInv, Flagged, Keeper
<1>5. /\ \A j \in Inst \ {i} : ctrl'[j] = ctrl[j]
      /\ ctrl'[i] = ctrl[i] \/ ctrl'[i] = InvalidateCtrl(ctrl[i])
  BY <1>1 DEF InvalidateCopy
<1>6. /\ ctrl'[i].dirty = ctrl[i].dirty /\ ctrl'[i].rdirty = ctrl[i].rdirty
      /\ ctrl'[i].edp = ctrl[i].edp /\ ctrl'[i].marked = ctrl[i].marked
      /\ ctrl'[i].lsn = ctrl[i].lsn
      /\ \/ ctrl'[i].lock = ctrl[i].lock /\ ctrl'[i].load = ctrl[i].load
         \/ ctrl'[i].lock = LockNull /\ ctrl'[i].load = "failed"
  BY <1>1, <1>5 DEF InvalidateCtrl, BufCtrl
<1>7. FlagsOK(ctrl'[i])
  BY <1>4, <1>6, Modes DEF FlagsOK
<1>8. \A j \in Inst \ {i} : Lk(j) # LockNull /\ Keeper(j) => Keeper(j)'
  BY <1>1, <1>5 DEF Keeper, Lk
<1>9. Kept'
  <2>1. Dirties' = Dirties
    BY <1>1 DEF Dirties, Ready
  <2>2. \A j \in Inst : Keeps(j) => Keeps(j)'
    BY <1>4, <1>5 DEF Keeps, Lk
  <2>3. QED
    BY <1>1, <2>1, <2>2 DEF KInv, Kept
<1>10. Sent'
  BY <1>1 DEF KInv, Sent
<1>11. Lk(i)' # LockNull /\ ctrl'[i].load = "need" => CtrlRecyclable(ctrl'[i])
  BY <1>6 DEF KInv, Fresh, Lk, CtrlRecyclable
<1>12. lastmod[i] <= ctrl'[i].lsn
  BY <1>6 DEF KInv, Redo
<1>13. ctrl'[i].load = "absent" => ctrl[i].load = "absent"
  BY <1>6
<1>14. QED
  BY <1>1, <1>4, <1>5, <1>6, <1>7, <1>8, <1>9, <1>10, <1>11, <1>12, <1>13, CtrlKStep

(* The owner sends the page: in X mode its flags go with it.               *)
LEMMA TransferPageK ==
    ASSUME PFrame, NEW m \in asko, TransferPage(m), lastmod' = lastmod
    PROVE  KInv'
<1> USE DEF PFrame
<1>1. PICK i \in Inst : i = res.owner
  BY OwnerSends
<1>2. PICK c : c = AfterTransfer(ctrl[i], Conv.mode)
  OBVIOUS
<1>3. PICK b : b = PageReadyAck(ctrl[i], m)
  OBVIOUS
<1>4. /\ Asking /\ m.dst = i /\ m.req = Conv /\ Requester \in Inst \ {i} /\ sess[i].st = "idle"
      /\ Lk(i) # LockNull /\ ~ctrl[i].edp /\ ctrl[i].load = "loaded" /\ ctrl[i].lsn = latest
      /\ Granted = {} /\ ctrl' = [ctrl EXCEPT ![i] = c]
      /\ acks' = Answered({b})
      /\ UNCHANGED <<res, sess, claims, tasks, latest, disk>>
  BY <1>1, <1>2, <1>3, OwnerSends
<1>5. /\ ctrl \in [Inst -> BufCtrl] /\ ctrl[i] \in BufCtrl /\ Conv \in ReqInfo
      /\ Conv.mode \in {LockShare, LockExclusive} /\ Waiting(Requester, Conv.rsn)
  <2>1. Converting(res) /\ Current(Conv)
    BY <1>4 DEF Asking
  <2>2. Conv \in ReqInfo
    BY <2>1, Shapes
  <2>3. QED
    BY <2>1, <2>2, Shapes DEF ReqInfo, Current, Requester, Conv
<1>6. /\ b.cmd = "page_ready" /\ b.dst = Requester /\ b.rsn = Conv.rsn /\ b.mode = Conv.mode
      /\ b.flags = TransferFlags(ctrl[i], m)
  BY <1>3, <1>4, <1>5 DEF PageReadyAck, MasterAck, ErrorAck, Requester, Conv
<1>7. acks' = acks \cup {b}
  BY <1>4, <1>5, <1>6 DEF Answered
<1>8. /\ \A j \in Inst \ {i} : ctrl'[j] = ctrl[j] /\ sess'[j] = sess[j]
      /\ ctrl'[i] = c /\ sess'[i] = sess[i]
  BY <1>4, <1>5
<1>9. CtrlIsOwner(ctrl[i])
  BY <1>4 DEF CtrlIsOwner, Lk
<1>10. /\ c.dirty = ctrl[i].dirty /\ c.marked = ctrl[i].marked /\ c.lsn = ctrl[i].lsn
       /\ Conv.mode = LockExclusive => /\ c.lock = LockNull /\ c.load = "failed"
                                       /\ c.edp = ctrl[i].dirty /\ c.rdirty = FALSE
       /\ Conv.mode = LockShare => /\ c.lock = LockShare /\ c.load = ctrl[i].load
                                   /\ c.edp = ctrl[i].edp /\ c.rdirty = ctrl[i].rdirty
  <2>1. CASE Conv.mode = LockExclusive
    BY <1>2, <1>5, <1>9, <2>1, Modes DEF AfterTransfer, InvalidateCtrl, BufCtrl
  <2>2. CASE Conv.mode = LockShare
    BY <1>2, <1>5, <1>9, <2>2, Modes DEF AfterTransfer, BufCtrl
  <2>3. QED
    BY <1>5, <2>1, <2>2, Modes
<1>11. Conv.mode = LockExclusive => ~ctrl[i].marked
  BY <1>4 DEF TransferPage, LatchableIO
<1>12. FlagsOK(ctrl[i])
  BY DEF KInv, Flagged
<1>13. FlagsOK(ctrl'[i])
  BY <1>4, <1>5, <1>8, <1>10, <1>12, Modes DEF FlagsOK, Lk
<1>14. \A j \in Inst : Keeper(j) => j = i
  BY <1>1, <1>4 DEF Keeper, Asking
<1>15. Keeper(i)' /\ \A j \in Inst \ {i} : Lk(j) # LockNull /\ Keeper(j) => Keeper(j)'
  BY <1>1, <1>4, <1>14 DEF Keeper
<1>16. Kept'
  <2>1. Dirties \subseteq Dirties'
    BY <1>7 DEF Dirties, Ready
  <2>2. \A j \in Inst \ {i} : Keeps(j) => Keeps(j)'
    BY <1>8 DEF Keeps, Lk
  <2>3. Keeps(i) => Keeps(i)' \/ Dirties' # {}
    <3> SUFFICES ASSUME Keeps(i) PROVE Keeps(i)' \/ Dirties' # {}
      OBVIOUS
    <3>1. CASE Conv.mode = LockExclusive
      <4>1. b.flags \cap {"dirty", "remote_dirty"} # {}
        BY <1>6 DEF TransferFlags, Keeps
      <4>2. b \in Dirties'
        BY <1>6, <1>7, <3>1, <4>1 DEF Dirties, Ready
      <4>3. QED
        BY <4>2
    <3>2. CASE Conv.mode = LockShare
      BY <1>8, <1>10, <3>2, Modes DEF Keeps, Lk
    <3>3. QED
      BY <1>5, <3>1, <3>2
  <2>4. QED
    BY <1>4, <2>1, <2>2, <2>3 DEF KInv, Kept
<1>17. Sent' /\ Granted' = {}
  BY <1>1, <1>4, <1>6, <1>7 DEF KInv, Sent, Granted
<1>18. lastmod[i] <= ctrl'[i].lsn
  BY <1>8, <1>10 DEF KInv, Redo
<1>19. /\ ctrl'[i].load # "absent" /\ ctrl'[i].load # "need"
       /\ ctrl[i].marked => Lk(i)' # LockNull
       /\ ctrl[i].marked /\ ~ctrl[i].edp => ~ctrl'[i].edp
  BY <1>4, <1>5, <1>8, <1>10, <1>11, Modes DEF Lk
<1>20. QED
  BY <1>4, <1>8, <1>10, <1>13, <1>15, <1>16, <1>17, <1>18, <1>19, CtrlKStep

(* Who changes the page is alone with it, and its redo is its own.         *)
LEMMA ModifyK ==
    ASSUME PFrame, NEW i \in Inst, Modify(i),
           lastmod' = [j \in Inst |-> IF latest' # latest /\ ctrl'[j].lsn = latest'
                                      THEN latest' ELSE lastmod[j]]
    PROVE  KInv'
<1> USE DEF PFrame
<1>1. /\ UNCHANGED <<res, sess, acks, claims, disk>> /\ latest' = latest + 1
      /\ sess[i].st = "idle" /\ Lk(i) = LockExclusive
      /\ ctrl \in [Inst -> BufCtrl] /\ ctrl[i] \in BufCtrl /\ latest \in Nat
      /\ lastmod \in [Inst -> Nat]
  BY Shapes DEF Modify, Lk, CkptTypeOK
<1>2. PICK c : c = [ctrl[i] EXCEPT !.dirty = TRUE, !.lsn = latest + 1]
  OBVIOUS
<1>3. ctrl' = [ctrl EXCEPT ![i] = c]
  BY <1>1, <1>2 DEF Modify, BufCtrl
<1>4. /\ c.lock = ctrl[i].lock /\ c.dirty /\ c.rdirty = ctrl[i].rdirty /\ c.load = ctrl[i].load
      /\ c.edp = ctrl[i].edp /\ c.marked = ctrl[i].marked /\ c.lsn = latest + 1
  BY <1>1, <1>2 DEF BufCtrl
<1>5. ctrl'[i] = c /\ \A j \in Inst \ {i} : ctrl'[j] = ctrl[j]
  BY <1>1, <1>3
<1>6. /\ \A j \in Inst : Lk(j)' = Lk(j) /\ ctrl'[j].load = ctrl[j].load
      /\ \A j \in Inst \ {i} : Lk(j) = LockNull
      /\ Lk(i) # LockNull /\ ctrl[i].load = "loaded"
  BY <1>1, <1>4, <1>5, Modes DEF Lk, CInv, Locks, SingleWriter, Data
<1>7. lastmod'[i] = latest' /\ \A j \in Inst \ {i} : lastmod'[j] = lastmod[j]
  <2>1. latest' # latest /\ ctrl'[i].lsn = latest'
    BY <1>1, <1>4, <1>5
  <2>2. \A j \in Inst \ {i} : ctrl'[j].lsn # latest'
    <3>1. ASSUME NEW j \in Inst \ {i} PROVE ctrl'[j].lsn # latest'
      <4>1. ctrl[j].lsn <= latest /\ ctrl[j].lsn \in Nat
        BY Shapes DEF CInv, Data
      <4>2. QED
        BY <1>1, <1>5, <4>1
    <3>2. QED
      BY <3>1
  <2>3. QED
    BY <2>1, <2>2
<1>8. Fresh'
  <2>1. \A j \in Inst : ~(Lk(j)' # LockNull /\ ctrl'[j].load = "need")
    BY <1>6
  <2>2. QED
    BY <2>1 DEF Fresh
<1>9. Present'
  <2>1. res.used => res.owner \in Inst
    BY Shapes DEF EntryOK
  <2>2. \A p \in toowner : p.inst \in Inst /\ (OwnerAsk(p) => OwnerAsk(p)')
    BY <1>6 DEF CkptTypeOK, OwnerPage, OwnerAsk, Safe
  <2>3. \A p \in askckpt : p.lsn <= latest'
    <3>1. \A p \in askckpt : p.lsn \in Nat /\ p.lsn <= latest
      BY DEF CkptTypeOK, EdpPage, KInv, Present
    <3>2. QED
      BY <1>1, <3>1
  <2>4. QED
    BY <1>1, <1>6, <2>1, <2>2, <2>3 DEF KInv, Present
<1>10. ~ctrl[i].edp
  BY <1>1 DEF KInv, Flagged, FlagsOK, Lk
<1>11. Flagged'
  <2>1. \A j \in Inst : Keeper(j)' <=> Keeper(j)
    BY <1>1, <1>6 DEF Keeper
  <2>2. Keeper(i)
    BY <1>1 DEF CInv, Locks, Keeper
  <2>3. FlagsOK(ctrl'[i])
    BY <1>1, <1>4, <1>5, <1>6, <1>10 DEF FlagsOK, Lk
  <2>4. ASSUME NEW j \in Inst \ {i}
        PROVE  /\ FlagsOK(ctrl'[j])
               /\ (ctrl'[j].dirty /\ ~ctrl'[j].edp) \/ ctrl'[j].rdirty => Keeper(j)'
    BY <1>5, <2>1 DEF KInv, Flagged
  <2>5. QED
    BY <2>1, <2>2, <2>3, <2>4 DEF Flagged
<1>12. \A l : Safe(l)' <=> Safe(l)
  BY DEF Safe
<1>13. Groups'
  <2>1. ASSUME NEW j \in Inst PROVE Copied(j)' /\ Announced(j)'
    <3>1. Copied(j) /\ Announced(j) /\ group[j].buf \subseteq Nat
      BY DEF KInv, Groups, CkptTypeOK, Group
    <3>2. Announced(j)'
      BY <1>12, <3>1 DEF Announced
    <3>3. CASE j = i
      <4>1. ctrl'[i].marked = ctrl[i].marked /\ ctrl'[i].dirty /\ ~ctrl'[i].edp
        BY <1>4, <1>5, <1>10
      <4>2. \A b \in group[i].buf : group[i].buf = {b} /\ b <= latest'
        BY <1>1, <3>1, <3>3 DEF Copied
      <4>3. Copied(i)'
        BY <1>6, <3>1, <3>3, <4>1, <4>2 DEF Copied
      <4>4. QED
        BY <3>2, <3>3, <4>3
    <3>4. CASE j # i
      <4>1. ~ctrl[j].marked /\ group[j].buf = {}
        BY <1>6, <3>1, <3>4 DEF Copied
      <4>2. Copied(j)'
        BY <1>5, <3>4, <4>1 DEF Copied
      <4>3. QED
        BY <3>2, <4>2
    <3>5. QED
      BY <3>3, <3>4
  <2>2. QED
    BY <2>1 DEF Groups
<1>14. Redo'
  <2>1. \A j \in Inst \ {i} : lastmod'[j] <= ctrl'[j].lsn
    BY <1>5, <1>7 DEF KInv, Redo
  <2>2. lastmod'[i] <= ctrl'[i].lsn
    BY <1>1, <1>4, <1>5, <1>7
  <2>3. RedoWritten'
    BY <1>4, <1>5, <1>7 DEF KInv, Redo, RedoWritten
  <2>4. QED
    BY <1>1, <1>12, <2>1, <2>2, <2>3 DEF KInv, Redo
<1>15. Kept'
  <2>1. Keeps(i)'
    BY <1>4, <1>5, <1>6, <1>10 DEF Keeps
  <2>2. QED
    BY <2>1 DEF Kept
<1>16. Sent'
  BY <1>1 DEF KInv, Sent
<1>17. QED
  BY <1>8, <1>9, <1>11, <1>13, <1>14, <1>15, <1>16 DEF KInv

(* The master recycles the entry. *)
LEMMA RecycleItemK ==
    ASSUME PFrame, RecycleItem, lastmod' = lastmod
    PROVE  KInv'
<1>1. UNCHANGED <<ctrl, sess, claims, acks, latest, disk>> /\ res \in BufRes
  BY Shapes DEF RecycleItem, PFrame
<1>2. res' = [res EXCEPT !.pending = TRUE]
  BY DEF RecycleItem, StartRecycle
<1>3. res'.used = res.used /\ res'.owner = res.owner
  BY <1>1, <1>2 DEF BufRes
<1>4. QED
  BY <1>1, <1>3, AnswersKStep

LEMMA InvalidateOwnerK ==
    ASSUME PFrame, NEW t \in tasks, InvalidateOwner(t), lastmod' = lastmod
    PROVE  KInv'
<1> USE DEF PFrame
<1>1. PICK o \in Inst : o = res.owner
  BY RecyclingOwner
<1>2. /\ UNCHANGED <<res, sess, acks, claims, latest, disk>> /\ claims = {}
      /\ ctrl \in [Inst -> BufCtrl] /\ ctrl[o] \in BufCtrl /\ ctrl[o].load # "absent"
  BY <1>1, RecyclingOwner, Shapes
<1>3. CASE ctrl' = ctrl
  BY <1>2, <1>3, AnswersKStep
<1>4. CASE /\ sess[o].st = "idle" /\ CtrlRecyclable(ctrl[o]) /\ disk = latest
           /\ ctrl' = [ctrl EXCEPT ![o] = InvalidateCtrl(ctrl[o])]
  <2>1. /\ \A j \in Inst \ {o} : ctrl'[j] = ctrl[j] /\ sess'[j] = sess[j]
        /\ ctrl'[o].lock = LockNull /\ ctrl'[o].load = "failed" /\ ctrl'[o].lsn = ctrl[o].lsn
        /\ ctrl'[o].dirty = ctrl[o].dirty /\ ctrl'[o].rdirty = ctrl[o].rdirty
        /\ ctrl'[o].edp = ctrl[o].edp /\ ctrl'[o].marked = ctrl[o].marked
    BY <1>2, <1>4 DEF InvalidateCtrl, BufCtrl
  <2>2. ~ctrl[o].dirty /\ ~ctrl[o].rdirty /\ ~ctrl[o].edp /\ ~ctrl[o].marked
    BY <1>4 DEF CtrlRecyclable
  <2>3. FlagsOK(ctrl'[o])
    BY <2>1, <2>2 DEF FlagsOK
  <2>4. Kept' /\ Sent'
    BY <1>2, <1>4 DEF Kept, KInv, Sent
  <2>5. \A j \in Inst \ {o} : Lk(j) # LockNull /\ Keeper(j) => Keeper(j)'
    BY <1>2, <2>1 DEF Keeper, Lk
  <2>6. lastmod[o] <= ctrl'[o].lsn
    BY <2>1 DEF KInv, Redo
  <2>7. sess'[o].st = "idle" /\ Lk(o)' = LockNull
    BY <1>2, <1>4, <2>1 DEF Lk
  <2>8. QED
    BY <1>2, <2>1, <2>2, <2>3, <2>4, <2>5, <2>6, <2>7, CtrlKStep
<1>5. QED
  BY <1>1, <1>3, <1>4, OwnerAnswer

LEMMA RecycleDoneK ==
    ASSUME PFrame, NEW t \in tasks, RecycleDone(t), lastmod' = lastmod
    PROVE  KInv'
<1> USE DEF PFrame
<1>1. UNCHANGED <<ctrl, sess, acks, claims, latest, disk>> /\ res \in BufRes
  BY RecycleEnds, Shapes
<1>2. CASE res' = [res EXCEPT !.pending = FALSE]
  <2>1. res'.used = res.used /\ res'.owner = res.owner
    BY <1>1, <1>2 DEF BufRes
  <2>2. QED
    BY <1>1, <2>1, AnswersKStep
<1>3. CASE res' = NoBufRes /\ NobodyBut({})
  <2>1. ~res'.used /\ res'.owner = NoInst
    BY <1>3 DEF NoBufRes
  <2>2. Dirties' = Dirties
    BY <1>1 DEF Dirties, Ready
  <2>3. Sent'
    BY <1>1, <2>1, Shapes DEF Sent
  <2>4. \A i \in Inst : Lk(i) = LockNull
    BY <1>3 DEF NobodyBut
  <2>5. QED
    BY <1>1, <2>1, <2>2, <2>3, <2>4, MasterKStep
<1>4. QED
  BY <1>2, <1>3, RecycleEnds

LEMMA PageStepKInv ==
    ASSUME NoFaults, IInv, CkptTypeOK, CInv, KInv, PageStep
    PROVE  CInv' /\ KInv'
<1>1. \/ Next /\ UNCHANGED rvars
      \/ RecycleItem
      \/ \E t \in tasks : InvalidateOwner(t) \/ RecycleDone(t)
  BY NoFaultsNext DEF PageStep
<1>2. PFrame
  <2>1. CInv'
    BY <1>1, NextCInv, RecycleItemStep, InvalidateOwnerStep, RecycleDoneStep DEF NoFaults
  <2>2. IInv'
    BY RecycleNextIInv DEF RInv, PageStep, CkptTypeOK
  <2>3. UNCHANGED <<evicting, notices>>
    BY <1>1 DEF rvars, RecycleItem, InvalidateOwner, RecycleDone
  <2>4. QED
    BY <2>1, <2>2, <2>3 DEF PFrame, PageStep
<1>3. lastmod' = [j \in Inst |-> IF latest' # latest /\ ctrl'[j].lsn = latest'
                                 THEN latest' ELSE lastmod[j]]
  BY DEF PageStep
<1>4. latest' = latest => lastmod' = lastmod
  <2>1. lastmod \in [Inst -> Nat]
    BY DEF CkptTypeOK
  <2>2. QED
    BY <1>3, <2>1
<1>5. ASSUME NEW i \in Inst, NEW mode \in {LockShare, LockExclusive}, RequestPage(i, mode) PROVE KInv'
  BY <1>2, <1>4, <1>5, RequestPageK DEF RequestPage
<1>6. ASSUME NEW i \in Inst, GiveUp(i) \/ Finish(i) \/ Modify(i) PROVE KInv'
  <2>1. ~GiveUp(i)
    BY DEF GiveUp, NoFaults, IInv, TypeOK
  <2>2. CASE Finish(i)
    BY <1>2, <1>4, <2>2, FinishK DEF Finish
  <2>3. CASE Modify(i)
    BY <1>2, <1>3, <2>3, ModifyK
  <2>4. QED
    BY <1>6, <2>1, <2>2, <2>3
<1>7. ASSUME NEW a \in acks, HandleAck(a) PROVE KInv'
  <2>1. lastmod' = lastmod
    BY <1>4, <1>7 DEF HandleAck
  <2>2. AckPageReady(a) \/ AckAlreadyOwner(a) \/ AckGranted(a) \/ AckError(a)
    BY <1>7 DEF HandleAck
  <2>3. QED
    BY <1>2, <1>7, <2>1, <2>2, ReceivedK, AckGrantedK, AckErrorK
<1>8. ASSUME NEW req \in askm, ProcessAskMaster(req) PROVE KInv'
  BY <1>2, <1>4, <1>8, AskMasterK DEF ProcessAskMaster
<1>9. ASSUME NEW t \in tasks, NEW i \in Inst, InvalidateCopy(t, i) PROVE KInv'
  BY <1>2, <1>4, <1>9, InvalidateCopyK DEF InvalidateCopy
<1>10. ASSUME NEW t \in tasks, RequestInvalidated(t) \/ ConvertInvalidated(t) PROVE KInv'
  BY <1>2, <1>4, <1>10, InvalidatedK DEF RequestInvalidated, ConvertInvalidated
<1>11. ASSUME NEW c \in claims, ProcessClaim(c) PROVE KInv'
  BY <1>2, <1>4, <1>11, ClaimK DEF ProcessClaim
<1>12. ASSUME NEW m \in asko, TransferPage(m) PROVE KInv'
  <2>1. latest' = latest
    BY <1>12 DEF TransferPage
  <2>2. QED
    BY <1>2, <1>4, <1>12, <2>1, TransferPageK
<1>13. ASSUME Next PROVE KInv'
  BY <1>5, <1>6, <1>7, <1>8, <1>9, <1>10, <1>11, <1>12, <1>13 DEF Next
<1>14. ASSUME RecycleItem PROVE KInv'
  BY <1>2, <1>4, <1>14, RecycleItemK DEF RecycleItem
<1>15. ASSUME NEW t \in tasks, InvalidateOwner(t) PROVE KInv'
  BY <1>2, <1>4, <1>15, InvalidateOwnerK DEF InvalidateOwner
<1>16. ASSUME NEW t \in tasks, RecycleDone(t) PROVE KInv'
  BY <1>2, <1>4, <1>16, RecycleDoneK DEF RecycleDone
<1>17. QED
  BY <1>1, <1>2, <1>13, <1>14, <1>15, <1>16 DEF PFrame

-----------------------------------------------------------------------------
(* What holds without faults.                                              *)

KAll == IInv /\ CkptTypeOK /\ CInv /\ KInv

LEMMA InitKInv == CkptInit => KAll
<1> SUFFICES ASSUME CkptInit PROVE KAll
  OBVIOUS
<1>1. IInv /\ CkptTypeOK /\ CInv
  BY CkptInitTypes, InitCInv DEF CkptInit, RecycleInit
<1>2. /\ evicting = {} /\ notices = {} /\ acks = {} /\ latest = 0 /\ disk = 0 /\ flushed = 0
      /\ askckpt = {} /\ toowner = {} /\ written = {} /\ cleanedp = {}
      /\ res = NoBufRes
      /\ \A i \in Inst : ctrl[i] = NoCtrl /\ sess[i] = Idle /\ group[i] = NoGroup /\ lastmod[i] = 0
  BY DEF CkptInit, RecycleInit, Init
<1>3. Fresh /\ Present /\ Sent
  BY <1>2 DEF Fresh, Present, Sent, NoBufRes, Idle, NoCtrl, Lk
<1>4. Flagged
  BY <1>2 DEF Flagged, FlagsOK, NoCtrl
<1>5. Groups
  BY <1>2 DEF Groups, Copied, Announced, NoCtrl, NoGroup
<1>6. Redo
  BY <1>2 DEF Redo, RedoWritten, NoCtrl
<1>7. Kept
  BY <1>2 DEF Kept
<1>8. QED
  BY <1>1, <1>2, <1>3, <1>4, <1>5, <1>6, <1>7 DEF KAll, KInv

LEMMA StutterKInv ==
    ASSUME KAll, UNCHANGED ckptvars
    PROVE  CInv' /\ KInv'
<1> USE DEF KAll
<1>1. UNCHANGED <<vars, rvars, group, askckpt, toowner, written, cleanedp, lastmod, flushed, early>>
  BY DEF ckptvars, cvars
<1>2. KFrame /\ SameEntry /\ UNCHANGED <<ctrl, disk, flushed, group, askckpt, toowner, written, cleanedp, early>>
  BY <1>1 DEF KFrame, CkptRest, SameEntry, vars
<1>3. \A j \in Inst : group'[j].buf = group[j].buf /\ Announced(j)'
  BY <1>2 DEF KInv, Groups, Announced, Safe
<1>4. /\ \A q \in toowner : q.inst \in Inst /\ OwnerAsk(q)
      /\ \A q \in written \cup cleanedp : Safe(q.lsn)
      /\ early' \subseteq Nat /\ (\A q \in askckpt : q.lsn <= latest)
  BY <1>2 DEF KInv, Present, Redo, CkptTypeOK, OwnerPage
<1>5. QED
  BY <1>2, <1>3, <1>4, StillStep

LEMMA NextKInv ==
    ASSUME NoFaults, KAll, [CkptNext]_ckptvars
    PROVE  KAll'
<1>1. IInv' /\ CkptTypeOK'
  BY CkptNextTypes DEF KAll
<1>2. CInv' /\ KInv'
  BY PageStepKInv, CkptStepKInv, StutterKInv DEF KAll, CkptNext, CkptRest
<1>3. QED
  BY <1>1, <1>2 DEF KAll

LEMMA CkptInvariance ==
    ASSUME NoFaults
    PROVE  CkptSpec => []KAll
<1>1. KAll /\ [CkptNext]_ckptvars => KAll'
  BY NextKInv
<1>2. QED
  BY <1>1, InitKInv, PTL DEF CkptSpec

(* When nothing times out and no instance evicts the page (the master may  *)
(* recycle its entry), none of the panics of ckpt_prepare_normal and       *)
(* dcs_buf_clean_ctrl_edp is reached: the checkpoint meets a dirty page    *)
(* only where it may be written or is an edp of somebody else's page.      *)
THEOREM CheckpointNeverPanics ==
    ASSUME NoFaults
    PROVE  CkptSpec => []CkptPanics
<1>1. KAll => CkptPanics
  BY DEF KAll, KInv, Flagged, FlagsOK, CkptPanics
<1>2. QED
  BY <1>1, CkptInvariance, PTL

(* Under the same conditions an instance gives up the redo of its change   *)
(* (dcs_ckpt_clean_local_edp, ckpt_flush_pages) only after a version that  *)
(* contains it was written or announced by ckpt_prepare_normal.            *)
THEOREM RedoKept ==
    ASSUME NoFaults
    PROVE  CkptSpec => []RedoWritten
<1>1. KAll => RedoWritten
  BY DEF KAll, KInv, Redo
<1>2. QED
  BY <1>1, CkptInvariance, PTL

(* Under the same conditions the last version of the page is never only in *)
(* a ctrl that buf_recycle might give to another page: transfers           *)
(* (dcs_owner_transfer_page) and writes hand on who has to keep it.        *)
THEOREM LastVersionKept ==
    ASSUME NoFaults
    PROVE  CkptSpec => []LatestKept
<1>1. KAll => LatestKept
  <2> SUFFICES ASSUME KAll PROVE LatestKept
    OBVIOUS
  <2>1. Dirties # {} => \E a \in acks : a.flags \cap {"dirty", "remote_dirty"} # {}
    BY DEF Dirties, Ready
  <2>2. ASSUME NEW i \in Inst, Keeps(i)
        PROVE  disk = latest \/ (ctrl[i].lsn = latest /\ ~CtrlRecyclable(ctrl[i]))
    <3>1. ctrl[i].lsn = latest \/ disk = latest
      BY <2>2 DEF KAll, CInv, Data, Keeps
    <3>2. ~CtrlRecyclable(ctrl[i])
      BY <2>2 DEF Keeps, CtrlRecyclable
    <3>3. QED
      BY <3>1, <3>2
  <2>3. QED
    BY <2>1, <2>2 DEF KAll, KInv, Kept, LatestKept
<1>2. QED
  BY <1>1, CkptInvariance, PTL

(* Under the same conditions a page is read from disk (dtc_buf_finish)     *)
(* only while the disk has its last version: the first load, and the load  *)
(* of a page that was changed, written by a checkpoint and given up by     *)
(* everybody because the master recycled its entry (drc_recycle_items).    *)
THEOREM LoadsAreFresh ==
    ASSUME NoFaults
    PROVE  CkptSpec => []LoadFresh
<1>1. KAll => LoadFresh
  <2> SUFFICES ASSUME KAll, NEW i \in Inst, sess[i].st = "held", ctrl[i].load = "need"
               PROVE  disk = latest
    BY DEF LoadFresh
  <2>1. Lk(i) >= sess[i].mode /\ sess[i].mode # LockNull
    BY DEF KAll, IInv, HeldCovered, Lk, KInv, Present
  <2>2. Lk(i) \in LockMode /\ sess[i].mode \in LockMode
    BY Shapes DEF KAll, Session
  <2>3. Lk(i) # LockNull
    BY <2>1, <2>2, Modes DEF LockMode
  <2>4. QED
    BY <2>3 DEF KAll, CInv, Data
<1>2. QED
  BY <1>1, CkptInvariance, PTL

(* Under the same conditions nothing changes an entry that the master      *)
(* recycles in several steps, between which it is unlocked: the panic of   *)
(* drc_recycle_items, which compares the entry with its state before, is   *)
(* not reached.                                                            *)
THEOREM RecyclingUndisturbed ==
    ASSUME NoFaults
    PROVE  CkptSpec => []PendingUndisturbed
<1>1. KAll => PendingUndisturbed
  <2> SUFFICES ASSUME KAll, NEW t \in tasks, t.kind = "recycle"
               PROVE  /\ res.used /\ res.pending /\ ~Converting(res)
                      /\ t.owner # NoInst => t.owner = res.owner
                      /\ t.todo \subseteq res.copies
    BY DEF PendingUndisturbed
  <2>1. Recycling /\ RecyclesWith(t)
    BY DEF KAll, CInv, Stage, Resting, Invalidating, Asking, Answering, Claiming, Recycling
  <2>2. QED
    BY <2>1 DEF Recycling, RecyclesWith
<1>2. QED
  BY <1>1, CkptInvariance, PTL

(* An owner that answers the recycling thread gives its lock up, or        *)
(* nothing.                                                                *)
LEMMA OwnerRefines ==
    ASSUME IInv, CInv, KInv, NEW t \in tasks, InvalidateOwner(t)
    PROVE  [Abstract!Next]_(Abstract!vars)
<1>1. PICK o \in Inst : o = res.owner
  BY RecyclingOwner
<1>2. latest' = latest /\ ctrl \in [Inst -> BufCtrl] /\ ctrl[o] \in BufCtrl
  BY Shapes DEF InvalidateOwner
<1>3. CASE ctrl' = ctrl
  BY <1>2, <1>3, SameVer, AbstractStutter DEF Lk
<1>4. CASE ctrl' = [ctrl EXCEPT ![o] = InvalidateCtrl(ctrl[o])]
  <2>1. Lk(o)' = LockNull /\ \A j \in Inst \ {o} : ctrl'[j] = ctrl[j]
    BY <1>2, <1>4 DEF InvalidateCtrl, BufCtrl, Lk
  <2>2. QED
    BY <1>2, <2>1, LosesRefines
<1>5. QED
  BY <1>1, <1>3, <1>4, OwnerAnswer

(* Under the same conditions the page service with the checkpoint, which   *)
(* changes flags, the edp map and the disk beside the protocol, still      *)
(* implements PageLock: one writer or many readers, of the last version.   *)
THEOREM CheckpointedServiceImplements ==
    ASSUME NoFaults
    PROVE  CkptSpec => ImplementsPageLock
<1>1. CkptInit => Abstract!Init
  BY Modes DEF CkptInit, RecycleInit, Init, NoCtrl, Abstract!Init
<1>2. KAll /\ KAll' /\ [CkptNext]_ckptvars => [Abstract!Next]_(Abstract!vars)
  <2> SUFFICES ASSUME KAll, KAll', [CkptNext]_ckptvars PROVE [Abstract!Next]_(Abstract!vars)
    OBVIOUS
  <2> USE DEF KAll
  <2>1. CASE PageStep
    <3>1. CASE Next
      BY <3>1, NextRefines DEF NoFaults
    <3>2. CASE RecycleItem
      BY <3>2, SameVer, AbstractStutter DEF RecycleItem, Lk
    <3>3. CASE \E t \in tasks : InvalidateOwner(t)
      BY <3>3, OwnerRefines
    <3>4. CASE \E t \in tasks : RecycleDone(t)
      BY <3>4, SameVer, AbstractStutter DEF RecycleDone, Lk
    <3>5. QED
      BY <2>1, <3>1, <3>2, <3>3, <3>4, NoFaultsNext DEF PageStep
  <2>2. CASE CkptStep /\ UNCHANGED CkptRest
    <3>1. CtrlFlags
      BY <2>2, CkptStepInv
    <3>2. \A j \in Inst : SamePage(ctrl'[j], ctrl[j])
      BY <3>1, CtrlFlagsTypes
    <3>3. \A j \in Inst : Lk(j)' = Lk(j) /\ Ver(j)' = Ver(j)
      BY <3>2, SameVer DEF SamePage, Lk
    <3>4. latest' = latest
      BY <2>2 DEF CkptRest
    <3>5. UNCHANGED Abstract!vars
      BY <3>3, <3>4, AbstractStutter
    <3>6. QED
      BY <3>5
  <2>3. CASE UNCHANGED ckptvars
    <3>1. UNCHANGED vars
      BY <2>3 DEF ckptvars
    <3>2. QED
      BY <3>1, NextRefines DEF NoFaults
  <2>4. QED
    BY <2>1, <2>2, <2>3 DEF CkptNext, CkptRest
<1>3. QED
  BY <1>1, <1>2, CkptInvariance, PTL DEF CkptSpec, ImplementsPageLock, Abstract!Spec
=============================================================================

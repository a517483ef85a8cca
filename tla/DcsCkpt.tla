------------------------------ MODULE DcsCkpt ------------------------------
(***************************************************************************)
(* DcsRecycle with the checkpoint: how dirty pages reach the disk when     *)
(* several instances have changed them, and how the earlier dirty pages    *)
(* (edp) that transfers leave behind are given up after the write.         *)
(*                                                                         *)
(*   edp holder --ask_ckpt--> master --to_owner--> owner, which writes     *)
(*   owner --written--> master --clean_edp--> edp holders                  *)
(*                                                                         *)
(* None of these messages is acknowledged or repeated: one that is lost,   *)
(* or dropped because a group is full, is one that is never taken from its *)
(* set.                                                                    *)
(***************************************************************************)
EXTENDS DcsRecycle

VARIABLES group,    \* group[i]: what the checkpoint of i is about to write
          askckpt,  \* MES_CMD_CKPT_EDP_BROADCAST_TO_MASTER
          toowner,  \* MES_CMD_CKPT_EDP_BROADCAST_TO_OWNER, remote_edp_group
          written,  \* MES_CMD_NOTIFY_MASTER_CLEAN_EDP_REQ
          cleanedp, \* MES_CMD_CLEAN_EDP_REQ, local_edp_clean_group
          clearing, \* lsns whose edp_map the master is about to clear
          lastmod,  \* history: lsn of the last change made by each instance
          flushed,  \* history: largest lsn ever written to disk
          early     \* history: lsns announced while an older page is written

cvars == <<group, askckpt, toowner, written, cleanedp, clearing, lastmod,
           flushed, early>>
ckptvars == <<vars, rvars, cvars>>

(* ckpt_context_t: the page copied to group.buf (at most one version, its  *)
(* lsn), the entries of remote_edp_clean_group, and whether the checkpoint *)
(* has finished preparing.                                                 *)
Group == [buf : SUBSET Nat, clean : SUBSET Nat, prepared : BOOLEAN]
NoGroup == [buf |-> {}, clean |-> {}, prepared |-> FALSE]
(* edp_page_info_t; clean is the action DRC_RES_CLEAN_EDP_ACTION. *)
EdpPage == [inst : Inst, lsn : Nat]
OwnerPage == [inst : Inst, lsn : Nat, clean : BOOLEAN]

(* RecycleTypeOK, and the groups and messages of the checkpoint. *)
CkptTypeOK == /\ RecycleTypeOK
              /\ group \in [Inst -> Group]
              /\ askckpt \in SUBSET EdpPage
              /\ toowner \in SUBSET OwnerPage
              /\ written \in SUBSET EdpPage
              /\ cleanedp \in SUBSET EdpPage
              /\ clearing \in SUBSET Nat
              /\ lastmod \in [Inst -> Nat]
              /\ flushed \in Nat
              /\ early \in SUBSET Nat

CkptInit == /\ RecycleInit
            /\ group = [i \in Inst |-> NoGroup]
            /\ askckpt = {} /\ toowner = {} /\ written = {} /\ cleanedp = {}
            /\ clearing = {}
            /\ lastmod = [i \in Inst |-> 0]
            /\ flushed = 0
            /\ early = {}

---------------------------------------------------------------------------
(* buf_try_latch_ckpt_page *)
CkptLatchable(i) == Latchable(i) /\ ctrl[i].load # "need"

(* The checkpoint thread of the master clears edp flags by a call. *)
Preparing(i) == /\ ~group[i].prepared
                /\ i = Master => /\ \A w \in written : w.inst # i
                                 /\ clearing = {}

(* The page of c is copied for the write (ckpt_copy_item); lsns are the    *)
(* entries for the edp holders.                                            *)
CopyItem(i, c, lsns) ==
    /\ ctrl' = [ctrl EXCEPT ![i] = [c EXCEPT !.marked = TRUE, !.dirty = FALSE,
                                             !.rdirty = FALSE]]
    /\ group' = [group EXCEPT ![i].buf = {c.lsn},
                              ![i].clean = @ \cup lsns]

(* dcs_ckpt_remote_edp_prepare for a page that another instance holds as   *)
(* an earlier dirty page.                                                  *)
RemoteSkips(c, p) == \/ c.marked \/ c.edp
                     \/ ~CtrlIsOwner(c)
                     \/ p.lsn > c.lsn
RemotePrepare(p) ==
    LET i == p.inst
        c == IF p.clean /\ p.lsn >= ctrl[i].lsn THEN CleanCtrlEdp(ctrl[i])
                                                ELSE ctrl[i]
    IN  /\ Preparing(i)
        /\ toowner' = toowner \ {p}
        /\ \/ /\ ctrl[i].load = "absent"
              /\ group' = [group EXCEPT ![i].clean = @ \cup {p.lsn}]
              /\ UNCHANGED ctrl
           \/ /\ ctrl[i].load # "absent"
              /\ CkptLatchable(i)
              /\ RemoteSkips(c, p)
              /\ ctrl' = [ctrl EXCEPT ![i] = c]
              /\ UNCHANGED group
           \/ /\ ctrl[i].load # "absent"
              /\ CkptLatchable(i)
              /\ ~RemoteSkips(c, p)
              /\ CopyItem(i, c, {c.lsn})
        /\ UNCHANGED <<askckpt, written, cleanedp, clearing, early>>

(* A slip: an edp newer than what was written is given up. *)
CleanLocalEdp_AnyLsn(p) ==
    LET i == p.inst
    IN  /\ Preparing(i)
        /\ ctrl[i].load = "absent" \/ CkptLatchable(i)
        /\ cleanedp' = cleanedp \ {p}
        /\ ctrl' = [ctrl EXCEPT ![i] = CleanCtrlEdp(@)]
        /\ UNCHANGED <<group, askckpt, toowner, written, clearing, early>>

(* dcs_ckpt_clean_local_edp, buf_clean_edp *)
CleanLocalEdp(p) ==
    LET i == p.inst
    IN  /\ Preparing(i)
        /\ ctrl[i].load = "absent" \/ CkptLatchable(i)
        /\ cleanedp' = cleanedp \ {p}
        /\ ctrl' = IF p.lsn >= ctrl[i].lsn
                   THEN [ctrl EXCEPT ![i] = CleanCtrlEdp(@)] ELSE ctrl
        /\ UNCHANGED <<group, askckpt, toowner, written, clearing, early>>

(* ckpt_prepare_normal for a page in the checkpoint queue: an earlier      *)
(* dirty page is left to its owner (dcs_notify_owner_for_ckpt), a page     *)
(* still being written waits for the next round, any other is copied.  The *)
(* lsn for the edp holders is taken before is_marked is looked at.         *)
RemoteDirty(c) == IF c.rdirty THEN {c.lsn} ELSE {}
PrepareNormal(i) ==
    LET c == ctrl[i]
    IN  /\ Preparing(i)
        /\ c.dirty /\ Latchable(i)
        /\ \/ /\ c.edp
              /\ askckpt' = askckpt \cup {[inst |-> i, lsn |-> c.lsn]}
              /\ UNCHANGED <<ctrl, group, early>>
           \/ /\ ~c.edp /\ c.marked
              /\ group' = [group EXCEPT ![i].clean = @ \cup RemoteDirty(c)]
              /\ early' = early \cup (RemoteDirty(c) \ group[i].buf)
              /\ UNCHANGED <<ctrl, askckpt>>
           \/ /\ ~c.edp /\ ~c.marked
              /\ CopyItem(i, c, RemoteDirty(c))
              /\ UNCHANGED <<askckpt, early>>
        /\ UNCHANGED <<toowner, written, cleanedp, clearing>>

(* ckpt_prepare_pages is done with the page. *)
Prepared(i) ==
    /\ Preparing(i)
    /\ group[i].buf # {} \/ group[i].clean # {}
    /\ group' = [group EXCEPT ![i].prepared = TRUE]
    /\ UNCHANGED <<ctrl, askckpt, toowner, written, cleanedp, clearing,
                   early>>

(* ckpt_flush_pages, dcs_clean_edp: the page is on disk before any edp     *)
(* holder hears of it.                                                     *)
FlushPages(i) ==
    /\ group[i].prepared
    /\ disk' = IF group[i].buf = {} THEN disk
               ELSE CHOOSE l \in group[i].buf : TRUE
    /\ flushed' = Larger(flushed, disk')
    /\ ctrl' = [ctrl EXCEPT ![i].marked = FALSE]
    /\ written' = written \cup {[inst |-> i, lsn |-> l] : l \in group[i].clean}
    /\ group' = [group EXCEPT ![i] = NoGroup]
    /\ UNCHANGED <<askckpt, toowner, cleanedp, clearing, early>>

---------------------------------------------------------------------------
(* Master: dcs_notify_owner_for_ckpt_l.  Without an entry every instance   *)
(* is told to clean its edp.                                               *)
ProcessAskCkpt(p) ==
    /\ askckpt' = askckpt \ {p}
    /\ toowner' = toowner \cup
           {[inst |-> i, lsn |-> p.lsn, clean |-> ~res.used] :
               i \in IF res.used THEN {res.owner} ELSE Inst}
    /\ UNCHANGED <<group, written, cleanedp, clearing, early>>

(* dcs_master_clean_edp for a page that instance p.inst has written: who   *)
(* is told.  The checkpoint of the master itself knows its own state.      *)
IgnoresWritten(p) == /\ res.used
                     /\ \/ p.inst = Master /\ Master \in res.edp
                        \/ res.lsn > p.lsn
EdpHolders(p) == (IF res.used /\ res.edp # {} THEN res.edp ELSE Inst)
                 \ (IF p.inst = Master THEN {Master} ELSE {})
ProcessWritten(p) ==
    /\ written' = written \ {p}
    /\ IF IgnoresWritten(p)
       THEN UNCHANGED <<cleanedp, clearing>>
       ELSE /\ cleanedp' = cleanedp \cup
                   {[inst |-> i, lsn |-> p.lsn] : i \in EdpHolders(p)}
            /\ clearing' = clearing \cup {p.lsn}
    /\ UNCHANGED <<group, askckpt, toowner, early>>

(* The second loop of dcs_master_clean_edp: drc_clean_edp_info, under the  *)
(* bucket lock taken again.                                                *)
ClearEdpInfo(l) ==
    /\ clearing' = clearing \ {l}
    /\ res' = IF res.used THEN CleanEdpInfo(res, l) ELSE res
    /\ UNCHANGED <<group, askckpt, toowner, written, cleanedp, early>>

---------------------------------------------------------------------------
(* A step of the page protocol: lastmod remembers who modified the page. *)
PageStep ==
    /\ RecycleNext
    /\ lastmod' = [i \in Inst |->
                     IF latest' # latest /\ ctrl'[i].lsn = latest'
                     THEN latest' ELSE lastmod[i]]
    /\ UNCHANGED <<group, askckpt, toowner, written, cleanedp, clearing,
                   flushed, early>>

CkptStep ==
    \/ /\ \/ \E p \in toowner : RemotePrepare(p)
          \/ \E p \in cleanedp : CleanLocalEdp(p)
          \/ \E i \in Inst : PrepareNormal(i) \/ Prepared(i)
       /\ UNCHANGED <<res, disk, flushed>>
    \/ /\ \E i \in Inst : FlushPages(i)
       /\ UNCHANGED res
    \/ /\ \/ \E p \in askckpt : ProcessAskCkpt(p)
          \/ \E p \in written : ProcessWritten(p)
       /\ UNCHANGED <<res, ctrl, disk, flushed>>
    \/ /\ \E l \in clearing : ClearEdpInfo(l)
       /\ UNCHANGED <<ctrl, disk, flushed>>

CkptNext == \/ PageStep
            \/ /\ CkptStep
               /\ UNCHANGED <<sess, askm, asko, acks, claims, tasks, clock,
                              timeouts, latest, rvars, lastmod>>

CkptSpec == CkptInit /\ [][CkptNext]_ckptvars

---------------------------------------------------------------------------
(* What an instance changed is on disk, or the instance still has the page *)
(* in its checkpoint queue (dirty) or in the group it is writing: so the   *)
(* redo of the change is not given up and a crash of any instance can be   *)
(* recovered.                                                              *)
RedoCovered ==
    \A i \in Inst : lastmod[i] > disk =>
        \/ ctrl[i].dirty
        \/ \E l \in group[i].buf : l >= lastmod[i]

(* An instance gives up the redo of its change (the page leaves its        *)
(* checkpoint queue: written here, or cleaned as an edp) only after some   *)
(* instance has finished a write of a version that contains the change,    *)
(* or has announced one too early, which ckpt_prepare_normal does for a    *)
(* page that is remote dirty and was changed while it was being written.   *)
RedoWritten ==
    \A i \in Inst : lastmod[i] > flushed =>
        \/ ctrl[i].dirty
        \/ \E l \in group[i].buf : l >= lastmod[i]
        \/ \E l \in early : l >= lastmod[i]

(* No write is announced before it is done (dcs_clean_edp is called after  *)
(* ckpt_flush_pages).                                                      *)
AnnouncedWhenWritten == \A p \in written : p.lsn <= flushed

(* The last version of the page is on disk, on its way there, on its way   *)
(* to a new owner that is told it is dirty, or in a ctrl that the buffer   *)
(* pool must not give to another page.                                     *)
LatestKept ==
    \/ disk = latest
    \/ \E a \in acks : a.flags \cap {"dirty", "remote_dirty"} # {}
    \/ \E i \in Inst : \/ latest \in group[i].buf
                       \/ /\ ctrl[i].lsn = latest
                          /\ ~CtrlRecyclable(ctrl[i])

(* "it's newer than page on disk" (dcs_ckpt_remote_edp_prepare), the       *)
(* reason for which a page that is clean here is written: no copy that     *)
(* waits to be written is older than the page on disk it will replace.     *)
WriteNotOlder == \A i \in Inst : \A l \in group[i].buf : l >= disk

(* The panics of ckpt_prepare_normal and dcs_buf_clean_ctrl_edp: a dirty   *)
(* page in the queue is an edp that nobody may change here, or the         *)
(* instance has a lock on it; an edp is dirty.                             *)
CkptPanics ==
    \A i \in Inst : /\ ctrl[i].edp => /\ ctrl[i].dirty
                                      /\ ctrl[i].lock # LockExclusive
                    /\ ctrl[i].dirty /\ ~ctrl[i].edp
                       => ctrl[i].lock # LockNull
=============================================================================

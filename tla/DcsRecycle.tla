----------------------------- MODULE DcsRecycle -----------------------------
(***************************************************************************)
(* DcsPage with the buffer pool's replacement of pages and the recycling   *)
(* of the master's entry: an instance evicts a clean page and tells the    *)
(* master, which takes the page away from every instance and frees the     *)
(* entry; the master also recycles old entries on its own account.         *)
(***************************************************************************)
EXTENDS DcsPage

CONSTANTS MaxEvicts,   \* bound on the number of evictions
          MaxRecycles  \* bound on the recyclings the master starts itself

ASSUME RecycleBoundsAssumption == MaxEvicts \in Nat /\ MaxRecycles \in Nat

VARIABLES evicting,  \* instances that gave the ctrl away, master not told yet
          notices,   \* MES_CMD_RECYCLE_OWNER_REQ entries not processed yet
          evicts,    \* evictions so far
          recycles   \* recyclings started by drc_recycle_items

rvars == <<evicting, notices, evicts, recycles>>
allvars == <<vars, rvars>>

Notice == [inst : Inst, time : Nat]

(* TypeOK, and the notices under way (msg_recycle_owner_req_t). *)
RecycleTypeOK == /\ TypeOK
                 /\ evicting \in SUBSET Inst
                 /\ notices \in SUBSET Notice
                 /\ evicts \in Nat
                 /\ recycles \in Nat

RecycleInit == /\ Init
               /\ evicting = {}
               /\ notices = {}
               /\ evicts = 0
               /\ recycles = 0

(* buf_recycle: an unused clean ctrl is given to another page; if the      *)
(* instance was the owner of the page the session goes on to tell the      *)
(* master.                                                                 *)
Evict(i) ==
    /\ sess[i].st = "idle"
    /\ ctrl[i].load # "absent"
    /\ CtrlRecyclable(ctrl[i])
    /\ evicts < MaxEvicts
    /\ evicts' = evicts + 1
    /\ ctrl' = [ctrl EXCEPT ![i] = NoCtrl]
    /\ evicting' = IF CtrlIsOwner(ctrl[i]) THEN evicting \cup {i} ELSE evicting
    /\ UNCHANGED <<res, sess, askm, asko, acks, claims, tasks, clock, timeouts,
                   latest, disk, notices, recycles>>

(* drc_buf_res_try_recycle, drc_send_master_recycled: the notice gets its  *)
(* time now; meanwhile another session may have asked for the page again.  *)
SendRecycled(i) ==
    /\ i \in evicting
    /\ evicting' = evicting \ {i}
    /\ clock' = clock + 1
    /\ notices' = notices \cup {[inst |-> i, time |-> clock + 1]}
    /\ UNCHANGED <<res, ctrl, sess, askm, asko, acks, claims, tasks, timeouts,
                   latest, disk, evicts, recycles>>

(* A slip: only the owner is invalidated. *)
StartRecycle_OwnerOnly(by) ==
    /\ res' = [res EXCEPT !.pending = TRUE]
    /\ tasks' = tasks \cup
           {[kind |-> "recycle", req |-> NoReq(0), by |-> by,
             owner |-> res.owner, retry |-> FALSE, todo |-> {}, fail |-> FALSE]}

(* The entry is marked as being recycled, its copies and then its owner    *)
(* are to be invalidated.                                                  *)
StartRecycle(by) ==
    /\ res' = [res EXCEPT !.pending = TRUE]
    /\ tasks' = tasks \cup
           {[kind |-> "recycle", req |-> NoReq(0), by |-> by,
             owner |-> res.owner, retry |-> FALSE,
             todo |-> res.copies \ {res.owner}, fail |-> FALSE]}

(* dcs_process_recycle_owner, drc_buf_res_recycle *)
ProcessRecycle(n) ==
    /\ notices' = notices \ {n}
    /\ \/ AcceptsRecycle(res, n.inst, n.time) /\ StartRecycle(n.inst)
       \/ ~AcceptsRecycle(res, n.inst, n.time) /\ UNCHANGED <<res, tasks>>
    /\ UNCHANGED <<ctrl, sess, askm, asko, acks, claims, clock, timeouts,
                   latest, disk, evicting, evicts, recycles>>

(* drc_recycle_items finds the entry old enough. *)
RecycleItem ==
    /\ res.used /\ ~res.pending
    /\ Recyclable(res)
    /\ recycles < MaxRecycles
    /\ recycles' = recycles + 1
    /\ StartRecycle(Master)
    /\ UNCHANGED <<ctrl, sess, askm, asko, acks, claims, clock, timeouts,
                   latest, disk, evicting, notices, evicts>>

(* buf_invalidate_page_owner: a page not in memory, or one that nobody     *)
(* uses and that needs no write, is given up; a page may be too hot.       *)
InvalidateOwner(t) ==
    LET i == t.owner
    IN  /\ t.kind = "recycle" /\ t.todo = {} /\ ~t.fail
        /\ i \in Inst
        /\ \/ /\ ctrl[i].load = "absent"
              /\ tasks' = (tasks \ {t}) \cup {[t EXCEPT !.owner = NoInst]}
              /\ UNCHANGED ctrl
           \/ /\ ctrl[i].load # "absent"
              /\ sess[i].st = "idle" /\ CtrlRecyclable(ctrl[i])
              /\ ctrl' = IF ctrl[i].lock = LockNull THEN ctrl
                         ELSE [ctrl EXCEPT ![i] = InvalidateCtrl(@)]
              /\ tasks' = (tasks \ {t}) \cup {[t EXCEPT !.owner = NoInst]}
           \/ /\ ctrl[i].load # "absent"
              /\ tasks' = (tasks \ {t}) \cup {[t EXCEPT !.fail = TRUE]}
              /\ UNCHANGED ctrl
        /\ UNCHANGED <<res, sess, askm, asko, acks, claims, clock, timeouts,
                       latest, disk, rvars>>

(* A slip: the entry loses its owner and stays. *)
RecycleDone_KeepsEntry(t) ==
    /\ t.kind = "recycle" /\ t.todo = {}
    /\ t.fail \/ t.owner = NoInst
    /\ tasks' = tasks \ {t}
    /\ res' = [res EXCEPT !.pending = FALSE,
                          !.owner = IF t.fail THEN @ ELSE NoInst]
    /\ UNCHANGED <<ctrl, sess, askm, asko, acks, claims, clock, timeouts,
                   latest, disk, rvars>>

(* The end of drc_buf_res_recycle and drc_recycle_items: the entry is      *)
(* freed, or stays as it was when an instance refused.                     *)
RecycleDone(t) ==
    /\ t.kind = "recycle" /\ t.todo = {}
    /\ t.fail \/ t.owner = NoInst
    /\ tasks' = tasks \ {t}
    /\ res' = IF t.fail THEN [res EXCEPT !.pending = FALSE] ELSE NoBufRes
    /\ UNCHANGED <<ctrl, sess, askm, asko, acks, claims, clock, timeouts,
                   latest, disk, rvars>>

RecycleNext == \/ Next /\ UNCHANGED rvars
               \/ \E i \in Inst : Evict(i) \/ SendRecycled(i)
               \/ \E n \in notices : ProcessRecycle(n)
               \/ RecycleItem
               \/ \E t \in tasks : InvalidateOwner(t) \/ RecycleDone(t)

RecycleSpec == RecycleInit /\ [][RecycleNext]_allvars

---------------------------------------------------------------------------
(* knl_panic(readonly_copies == 0) of drc_claim_new_page_owner: a claim    *)
(* that makes an instance the X owner finds every other copy invalidated.  *)
ClaimFindsNoCopies ==
    \A c \in claims :
        (/\ ClaimValid(res, c)
         /\ c.mode = LockExclusive
         /\ ClaimNewOwner(res, c) # res)
        => res.copies \ {c.inst, res.owner} = {}

(* knl_panic of drc_recycle_items: while an entry is recycled nothing else *)
(* changes it.                                                             *)
PendingUndisturbed ==
    \A t \in tasks : t.kind = "recycle" =>
        /\ res.used /\ res.pending /\ ~Converting(res)
        /\ t.owner # NoInst => t.owner = res.owner
        /\ t.todo \subseteq res.copies
=============================================================================

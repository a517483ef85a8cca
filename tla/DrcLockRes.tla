---------------------------- MODULE DrcLockRes ----------------------------
(***************************************************************************)
(* The entry that a lock's master keeps for a distributed lock or latch    *)
(* (drc_master_res_t) and what dtc_drc.c does to it under the bucket lock, *)
(* as operators on the entry.                                              *)
(***************************************************************************)
EXTENDS Naturals, Sequences, FiniteSets

CONSTANTS Inst,   \* instances of the cluster
          NoInst  \* OG_INVALID_ID8

ASSUME NoInstAssumption == NoInst \notin Inst

---------------------------------------------------------------------------
(* drc_lock_mode_e *)
LockNull == 0
LockShare == 1
LockExclusive == 2
LockMode == {LockNull, LockShare, LockExclusive}

(* drc_req_info_t: the instance that asks and the mode it asks for. *)
LockReq == [inst : Inst, mode : {LockShare, LockExclusive}]
NoLockReq == [inst |-> NoInst, mode |-> LockNull]

LockRes == [mode : LockMode, granted : SUBSET Inst,
            conv : LockReq \cup {NoLockReq}, q : Seq(LockReq)]

(* drc_create_lock_res.  An entry that does not exist and a new one answer *)
(* every call alike, so a removed entry is this one too.                   *)
NewLockRes == [mode |-> LockNull, granted |-> {}, conv |-> NoLockReq,
               q |-> <<>>]

Busy(e) == e.conv.inst # NoInst

(* g_mode_compatible_matrix *)
Compatible(a, b) == a + b <= LockExclusive

---------------------------------------------------------------------------
(* old_owner_map of a request whose turn it is: nobody when the modes are  *)
(* compatible (is_granted), else everybody who has the lock.               *)
OwnersToAsk(e, req) == IF Compatible(req.mode, e.mode) THEN {} ELSE e.granted

(* drc_request_lock_owner, nobody is converting: the request converts.     *)
StartConvert(e, req) == [e EXCEPT !.conv = req]

(* A slip: an owner that asks again waits behind the request that waits    *)
(* for the owner.                                                          *)
MustNotWait_Never(e, req) == FALSE

(* drc_request_lock_owner, another request is converting: an instance that *)
(* has the lock is turned away, "to avoid deadlock".                       *)
MustNotWait(e, req) == req.inst \in e.granted

(* drc_request_lock_owner_add_req_into_cvt_q *)
Enqueue(e, req) == [e EXCEPT !.q = Append(@, req)]

(* A slip: the next waiter is taken and the one behind it is dropped. *)
ConvertNext_DropsQueue(e) ==
    IF e.q = <<>> THEN [e EXCEPT !.conv = NoLockReq]
    ELSE [e EXCEPT !.conv = Head(e.q), !.q = <<>>]

(* drc_convert_lock_owner: the next waiter, if any, converts. *)
ConvertNext(e) ==
    IF e.q = <<>> THEN [e EXCEPT !.conv = NoLockReq]
    ELSE [e EXCEPT !.conv = Head(e.q), !.q = Tail(e.q)]

(* drc_cancel_lock_owner_request_nolock_part *)
Cancel(e, i) == IF e.conv.inst = i THEN ConvertNext(e) ELSE e

(* A slip: whoever had the lock is still recorded after an exclusive claim. *)
Claim_KeepsGranted(e, req) ==
    ConvertNext([e EXCEPT !.granted = @ \cup {req.inst}, !.mode = e.conv.mode])

(* drc_claim_lock_owner *)
Claim(e, req) ==
    ConvertNext([e EXCEPT !.granted = IF req.mode = LockExclusive
                                      THEN {req.inst} ELSE @ \cup {req.inst},
                          !.mode = e.conv.mode])

(* The assertions of drc_claim_lock_owner. *)
ClaimAllowed(e, req) ==
    /\ e.conv = req
    /\ req.mode = LockShare => req.inst \notin e.granted

(* dls_clear_granted_map_for_inst and dls_clean_granted_map *)
ClearGranted(e, i) ==
    [e EXCEPT !.granted = @ \ {i},
              !.mode = IF e.granted \ {i} = {} THEN LockNull ELSE @]

(* drc_recycle_dls_master: the mode of an entry that stays is not reset,   *)
(* not even when the last owner is gone.                                   *)
RecycleGranted(e, i) ==
    IF ~Busy(e) /\ e.granted \ {i} = {} THEN NewLockRes
    ELSE [e EXCEPT !.granted = @ \ {i}]
=============================================================================

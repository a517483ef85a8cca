----------------------------- MODULE DrcBufRes -----------------------------
(***************************************************************************)
(* The entry that a page's master keeps for the page (drc_buf_res_t) and   *)
(* the decisions dtc_drc.c takes on it under the bucket lock, as operators *)
(* on the entry.  One operator per branch of the code: the actions of      *)
(* DcsPage choose between them.                                            *)
(***************************************************************************)
EXTENDS Naturals, Sequences, FiniteSets

CONSTANTS Inst,      \* instances of the cluster
          NoInst,    \* OG_INVALID_ID8
          LockItems  \* lock items the pool can give to this page's convert_q

ASSUME NoInstAssumption == NoInst \notin Inst
ASSUME LockItemsAssumption == LockItems \in Nat

---------------------------------------------------------------------------
(* drc_lock_mode_e *)
LockNull == 0
LockShare == 1
LockExclusive == 2
LockMode == {LockNull, LockShare, LockExclusive}

(* drc_req_info_t.  rsn stands for both the request sequence number and    *)
(* req_time: both grow with every request of an instance.                  *)
ReqInfo == [inst : Inst, mode : {LockShare, LockExclusive}, curr : LockMode,
            rsn : Nat, lsn : Nat]

(* converting.req_info when nobody is converting: only req_time survives.  *)
NoReq(time) == [inst |-> NoInst, mode |-> LockNull, curr |-> LockNull,
                rsn |-> time, lsn |-> 0]

ConvertInfo == [inst : Inst \cup {NoInst}, mode : LockMode, curr : LockMode,
                rsn : Nat, lsn : Nat]

(* claim_info_t *)
ClaimInfo == [inst : Inst, mode : {LockShare, LockExclusive},
              edp : BOOLEAN, lsn : Nat]

BufRes == [used : BOOLEAN, owner : Inst \cup {NoInst}, mode : LockMode,
           copies : SUBSET Inst, edp : SUBSET Inst, lsn : Nat,
           pending : BOOLEAN, conv : ConvertInfo, q : Seq(ReqInfo)]

(* The page has no entry: the item is back in the pool. *)
NoBufRes == [used |-> FALSE, owner |-> NoInst, mode |-> LockNull,
             copies |-> {}, edp |-> {}, lsn |-> 0, pending |-> FALSE,
             conv |-> NoReq(0), q |-> <<>>]

Converting(r) == r.conv.inst # NoInst

(* The requests that the entry remembers. *)
EntryRequests(r) == {r.q[k] : k \in DOMAIN r.q}
                    \cup {c \in {r.conv} : c.inst # NoInst}

(* The entry is consistent: an entry in use has an owner and a mode, the   *)
(* owner is not among the copies, a page in X mode has no copies, whoever  *)
(* converts is a real request, nobody waits behind nothing, and nothing    *)
(* converts while the entry is recycled.                                   *)
EntryOK(r) ==
    /\ r.used => r.owner \in Inst /\ r.mode # LockNull
    /\ ~r.used => r = NoBufRes
    /\ r.owner \notin r.copies
    /\ r.mode = LockExclusive => r.copies = {}
    /\ Converting(r) => r.conv \in ReqInfo
    /\ r.q # <<>> => Converting(r)
    /\ r.pending => ~Converting(r)

---------------------------------------------------------------------------
(* A slip: the entry is created without its owner. *)
GrantNew_NoOwner(req) ==
    [NoBufRes EXCEPT !.used = TRUE, !.mode = req.mode,
                     !.conv = NoReq(req.rsn)]

(* drc_request_page_owner without an entry: the requester owns the page at *)
(* once, in the mode it asked for, and nothing converts.                   *)
GrantNew(req) ==
    [NoBufRes EXCEPT !.used = TRUE, !.owner = req.inst, !.mode = req.mode,
                     !.conv = NoReq(req.rsn)]

(* A slip: copies that an upgrade waits for may queue behind it. *)
Conflicting_OwnerOnly(r, req) == req.inst = r.owner /\ req.inst # r.conv.inst

(* drc_check_new_req: the owner is upgrading and the requester holds one   *)
(* of the copies it waits for, or the owner itself asks while another      *)
(* instance converts.                                                      *)
Conflicting(r, req) ==
    \/ /\ r.conv.inst = r.owner
       /\ r.mode = LockShare
       /\ r.conv.mode = LockExclusive
       /\ req.inst # r.owner
       /\ req.inst \in r.copies
    \/ /\ req.inst = r.owner
       /\ req.inst # r.conv.inst

(* drc_is_retry_request: the same instance asks again without having taken *)
(* what the earlier request asked for.                                     *)
IsRetry(earlier, req) == earlier.inst = req.inst /\ earlier.mode # req.curr

(* drc_search_item_by_reqid *)
Retried(r, req) == {k \in DOMAIN r.q : IsRetry(r.q[k], req)}
FirstRetried(r, req) ==
    CHOOSE k \in Retried(r, req) : \A j \in Retried(r, req) : k <= j

(* The branches of drc_keep_requester_wait, in the order of the code. *)
Restarts(r, req) == /\ Converting(r)
                    /\ ~Conflicting(r, req)
                    /\ IsRetry(r.conv, req)
                    /\ r.conv.rsn <= req.rsn
Converts(r, req) == ~Converting(r) \/ Restarts(r, req)

Queues(r, req) == /\ Converting(r)
                  /\ ~Conflicting(r, req)
                  /\ ~IsRetry(r.conv, req)
Replaces(r, req) == /\ Queues(r, req)
                    /\ Retried(r, req) # {}
                    /\ r.q[FirstRetried(r, req)].lsn = req.lsn
Appends(r, req) == /\ Queues(r, req)
                   /\ Retried(r, req) = {}
                   /\ Len(r.q) < LockItems

(* Everything else is answered with an error: an entry being recycled, a   *)
(* conflict, a late retry, a retry with another lsn, an exhausted pool.    *)
Refuses(r, req) == \/ r.pending
                   \/ /\ ~Converts(r, req)
                      /\ ~Replaces(r, req)
                      /\ ~Appends(r, req)

Larger(m, n) == IF m >= n THEN m ELSE n

(* A retry keeps the larger mode: the old owner may already have given up  *)
(* its lock for the earlier request.                                       *)
ConvertMode(r, req) == IF Restarts(r, req) THEN Larger(r.conv.mode, req.mode)
                                           ELSE req.mode
ConvertReq(r, req) == [req EXCEPT !.mode = ConvertMode(r, req)]
StartConvert(r, req) == [r EXCEPT !.conv = ConvertReq(r, req)]

(* A slip: the new request of a retry waits with the mode of the old one. *)
ReplaceQueued_KeepsMode(r, req) ==
    [r EXCEPT !.q[FirstRetried(r, req)].rsn = req.rsn]

ReplaceQueued(r, req) == [r EXCEPT !.q[FirstRetried(r, req)] = req]
AppendQueued(r, req) == [r EXCEPT !.q = Append(@, req)]

(* A slip: an owner that upgrades is thought to be alone. *)
CopiesToInvalidate_NotForOwner(r, req) ==
    IF req.mode = LockExclusive /\ req.inst # r.owner
    THEN r.copies \ {req.inst, r.owner} ELSE {}

(* The readonly copies to invalidate before req can have the page in X.    *)
CopiesToInvalidate(r, req) ==
    IF req.mode = LockExclusive THEN r.copies \ {req.inst, r.owner} ELSE {}

---------------------------------------------------------------------------
(* drc_claim_page_owner: the claim is of the request being converted and   *)
(* its contents are possible.                                              *)
ClaimValid(r, c) ==
    /\ r.used
    /\ r.conv.inst = c.inst
    /\ r.conv.mode = c.mode
    /\ c.mode = LockShare => r.owner # NoInst
    /\ (c.mode = LockExclusive /\ c.edp) => c.lsn # 0
    /\ c.lsn > 0 => c.lsn >= r.lsn

(* Slips: a new reader is not recorded; the new owner keeps the copies. *)
ClaimShare_NotRecorded(r, c) ==
    [r EXCEPT !.mode = LockShare, !.lsn = Larger(@, c.lsn)]
ClaimExclusive_KeepsCopies(r, c) ==
    [r EXCEPT !.owner = c.inst,
              !.mode = LockExclusive,
              !.edp = (@ \ {c.inst}) \cup (IF c.edp THEN {r.owner} ELSE {}),
              !.lsn = Larger(@, c.lsn)]

(* drc_claim_new_page_owner *)
ClaimShare(r, c) ==
    [r EXCEPT !.mode = LockShare,
              !.copies = @ \cup {c.inst},
              !.lsn = Larger(@, c.lsn)]
ClaimExclusive(r, c) ==
    [r EXCEPT !.owner = c.inst,
              !.mode = LockExclusive,
              !.copies = {},
              !.edp = (@ \ {c.inst}) \cup (IF c.edp THEN {r.owner} ELSE {}),
              !.lsn = Larger(@, c.lsn)]
ClaimNewOwner(r, c) ==
    IF c.mode <= r.mode /\ r.owner = c.inst THEN r
    ELSE IF c.mode = LockShare THEN ClaimShare(r, c)
                               ELSE ClaimExclusive(r, c)

(* A slip: off by one, the last waiter is dropped without an answer. *)
ConvertNext_LastForgotten(r, expired) ==
    IF expired + 1 >= Len(r.q)
    THEN [r EXCEPT !.conv = NoReq(r.conv.rsn), !.q = <<>>]
    ELSE [r EXCEPT !.conv = r.q[expired + 1],
                   !.q = SubSeq(@, expired + 2, Len(@))]

(* drc_convert_next_request: the first `expired` waiters are dropped as    *)
(* timed out, the next one converts; nobody left: nothing converts.        *)
LastTime(r, expired) == IF expired = 0 THEN r.conv.rsn ELSE r.q[expired].rsn
ConvertNext(r, expired) ==
    IF expired = Len(r.q)
    THEN [r EXCEPT !.conv = NoReq(LastTime(r, expired)), !.q = <<>>]
    ELSE [r EXCEPT !.conv = r.q[expired + 1],
                   !.q = SubSeq(@, expired + 2, Len(@))]

(* drc_check_first_req_in_convert_queue: the new head is dropped when it   *)
(* conflicts with the request that now converts.                           *)
HeadConflicts(r) == r.q # <<>> /\ Conflicting(r, Head(r.q))
DropHead(r) == [r EXCEPT !.q = Tail(@)]

---------------------------------------------------------------------------
(* A slip: an entry is recycled under a conversion. *)
AcceptsRecycle_WhileConverting(r, i, time) ==
    r.used /\ r.owner = i /\ ~r.pending /\ r.conv.rsn < time

(* drc_buf_res_recycle's checks for a notice of instance i taken at `time`, *)
(* and buf_res_is_recyclable.                                               *)
Recyclable(r) == ~Converting(r) /\ r.owner # NoInst
AcceptsRecycle(r, i, time) == /\ r.used
                              /\ r.owner = i
                              /\ ~r.pending
                              /\ r.conv.rsn < time
                              /\ Recyclable(r)

(* drc_clean_edp_info *)
CleanEdpInfo(r, lsn) == IF lsn >= r.lsn THEN [r EXCEPT !.edp = {}] ELSE r
=============================================================================

------------------------------ MODULE DcsPage ------------------------------
(***************************************************************************)
(* The distributed cache service of dtc_dcs.c for one page: how the        *)
(* instances obtain the page in share or exclusive mode from each other,   *)
(* under the direction of the page's master.                               *)
(*                                                                         *)
(*   requester --ask_master--> master --ask_owner--> owner                 *)
(*   requester <--page_ready-------------------------- owner               *)
(*   requester --claim--> master, which then converts the next waiter      *)
(*                                                                         *)
(* Every instance has one session working on the page: the latch of the    *)
(* buffer ctrl serialises the sessions that would ask for it.  Messages    *)
(* are sets, so they arrive in any order: MES spreads them over channels   *)
(* and worker threads.  A message of the master to itself stands for the   *)
(* local call the code makes.                                              *)
(***************************************************************************)
EXTENDS DrcBufRes

CONSTANTS Master,      \* the instance whose drc holds the page's entry
          MaxClock,    \* bound on the number of timestamps (rsn) handed out
          MaxLsn,      \* bound on the number of modifications of the page
          MaxTimeouts  \* bound on the number of waits that time out

ASSUME MasterAssumption == Master \in Inst
ASSUME BoundsAssumption == /\ MaxClock \in Nat
                           /\ MaxLsn \in Nat
                           /\ MaxTimeouts \in Nat

VARIABLES res,       \* the master's entry for the page
          ctrl,      \* ctrl[i]: the buffer ctrl of instance i
          sess,      \* sess[i]: the session of instance i
          askm,      \* MES_CMD_ASK_MASTER requests under way
          asko,      \* MES_CMD_ASK_OWNER requests under way
          acks,      \* answers under way to waiting sessions
          claims,    \* MES_CMD_CLAIM_OWNER_REQ messages under way
          tasks,     \* master threads waiting for invalidations
          clock,     \* the last timestamp handed out
          timeouts,  \* waits that have timed out
          latest,    \* lsn of the last modification, of any instance
          disk       \* lsn of the page on disk

vars == <<res, ctrl, sess, askm, asko, acks, claims, tasks, clock, timeouts,
          latest, disk>>

---------------------------------------------------------------------------
(* buf_ctrl_t: load_status, lock_mode, is_dirty, is_remote_dirty, is_edp,  *)
(* is_marked and the lsn of the page in memory.                            *)
LoadStatus == {"absent", "need", "loaded", "failed"}
BufCtrl == [load : LoadStatus, lock : LockMode, dirty : BOOLEAN,
            rdirty : BOOLEAN, edp : BOOLEAN, marked : BOOLEAN, lsn : Nat]
NoCtrl == [load |-> "absent", lock |-> LockNull, dirty |-> FALSE,
           rdirty |-> FALSE, edp |-> FALSE, marked |-> FALSE, lsn |-> 0]

(* A session holds the latch while it waits for an answer and while it     *)
(* uses the page.                                                          *)
Session == [st : {"idle", "wait", "held"}, mode : LockMode, rsn : Nat]
Idle == [st |-> "idle", mode |-> LockNull, rsn |-> 0]

AskOwner == [dst : Inst, req : ReqInfo, retry : BOOLEAN]
Flags == {"need_load", "readonly2x", "dirty", "remote_dirty"}
AckMsg == [cmd : {"granted", "already_owner", "page_ready", "error"},
           dst : Inst, rsn : Nat, mode : LockMode, flags : SUBSET Flags,
           lsn : Nat]
Ack == {a \in AckMsg : a.cmd = "error" <=> a.mode = LockNull}
(* A master thread: "req" in drc_request_page_owner, "cvt" in              *)
(* drc_claim_page_owner for the request taken from the queue, "recycle" in *)
(* drc_buf_res_recycle and drc_recycle_items.  by is the instance whose    *)
(* message the thread serves, todo the copies not invalidated yet, owner   *)
(* the owner the thread will turn to after them.                           *)
Task == [kind : {"req", "cvt", "recycle"}, req : ConvertInfo, by : Inst,
         owner : Inst \cup {NoInst}, retry : BOOLEAN, todo : SUBSET Inst,
         fail : BOOLEAN]

(* One conjunct per variable: the state has the shape of the code's structs *)
(* (drc_buf_res_t, buf_ctrl_t, the page messages of dtc_dcs.h).             *)
TypeOK == /\ res \in BufRes
          /\ ctrl \in [Inst -> BufCtrl]
          /\ sess \in [Inst -> Session]
          /\ askm \in SUBSET ReqInfo
          /\ asko \in SUBSET AskOwner
          /\ acks \in SUBSET Ack
          /\ claims \in SUBSET ClaimInfo
          /\ tasks \in SUBSET Task
          /\ clock \in Nat
          /\ timeouts \in Nat
          /\ latest \in Nat
          /\ disk \in Nat

Init == /\ res = NoBufRes
        /\ ctrl = [i \in Inst |-> NoCtrl]
        /\ sess = [i \in Inst |-> Idle]
        /\ askm = {} /\ asko = {} /\ acks = {} /\ claims = {} /\ tasks = {}
        /\ clock = 0 /\ timeouts = 0
        /\ latest = 0 /\ disk = 0

---------------------------------------------------------------------------
(* Slips: a ctrl that received a dirty page, or one whose page is being    *)
(* written, is given away.                                                 *)
CtrlRecyclable_RemoteDirty(c) == ~c.dirty /\ ~c.marked /\ ~c.edp
CtrlRecyclable_Marked(c) == ~c.dirty /\ ~c.rdirty /\ ~c.edp

(* DCS_BUF_CTRL_IS_OWNER, BUF_IN_USE_IS_RECYCLABLE *)
CtrlIsOwner(c) == c.lock # LockNull /\ ~c.edp
CtrlRecyclable(c) == ~c.dirty /\ ~c.rdirty /\ ~c.marked /\ ~c.edp

(* dcs_buf_clean_ctrl_edp *)
CleanCtrlEdp(c) == IF c.edp THEN [c EXCEPT !.dirty = FALSE, !.rdirty = FALSE,
                                           !.edp = FALSE]
                            ELSE c
(* buf_invalidate_page_with_version on a ctrl in memory *)
InvalidateCtrl(c) == [c EXCEPT !.load = "failed", !.lock = LockNull]

(* The latch of i's ctrl is free for a message handler. *)
Latchable(i) == sess[i].st = "idle"
(* buf_try_latchx_page with check_io *)
LatchableIO(i) == Latchable(i) /\ ~ctrl[i].marked

Waiting(i, rsn) == sess[i].st = "wait" /\ sess[i].rsn = rsn
(* A slip: the answer to an earlier request is taken for this one's. *)
Answered_AnyRsn(sent) == acks \cup {a \in sent : sess[a.dst].st = "wait"}
(* mes_process_msg_ack: an answer to a request the session no longer waits *)
(* for is dropped.                                                         *)
Answered(sent) == acks \cup {a \in sent : Waiting(a.dst, a.rsn)}
ErrorAck(req) == [cmd |-> "error", dst |-> req.inst, rsn |-> req.rsn,
                  mode |-> LockNull, flags |-> {}, lsn |-> 0]
MasterAck(cmd, req) == [ErrorAck(req) EXCEPT !.cmd = cmd, !.mode = req.mode]

---------------------------------------------------------------------------
(* Requester.                                                              *)

(* dtc_read_page when the local lock does not cover the access: latch the  *)
(* ctrl (an absent or failed page becomes BUF_NEED_LOAD) and ask the       *)
(* master.                                                                 *)
RequestPage(i, mode) ==
    /\ sess[i].st = "idle"
    /\ ctrl[i].lock < mode
    /\ clock < MaxClock
    /\ clock' = clock + 1
    /\ sess' = [sess EXCEPT ![i] = [st |-> "wait", mode |-> mode,
                                    rsn |-> clock + 1]]
    /\ ctrl' = [ctrl EXCEPT ![i].load =
                    IF @ = "loaded" THEN @ ELSE "need"]
    /\ askm' = askm \cup {[inst |-> i, mode |-> mode, curr |-> ctrl[i].lock,
                           rsn |-> clock + 1, lsn |-> ctrl[i].lsn]}
    /\ UNCHANGED <<res, asko, acks, claims, tasks, timeouts, latest, disk>>

(* dtc_buf_try_remote on failure *)
LeaveFailed(i) ==
    /\ ctrl' = [ctrl EXCEPT ![i].load =
                    IF @ = "loaded" THEN @ ELSE "failed"]
    /\ sess' = [sess EXCEPT ![i] = Idle]

(* The master is still inside its own call of drc_request_page_owner. *)
InLocalRequest(i) ==
    i = Master /\ \/ \E req \in askm : req.inst = i
                  \/ \E t \in tasks : t.kind = "req" /\ t.by = i

(* mes_recv fails (timeout, or a connection is interrupted): the session   *)
(* gives up; whatever answer comes later is dropped.                       *)
GiveUp(i) ==
    /\ sess[i].st = "wait"
    /\ ~InLocalRequest(i)
    /\ timeouts < MaxTimeouts
    /\ timeouts' = timeouts + 1
    /\ LeaveFailed(i)
    /\ acks' = {a \in acks : a.dst # i}
    /\ UNCHANGED <<res, askm, asko, claims, tasks, clock, latest, disk>>

Claim(i, a, c) ==
    claims' = claims \cup
        {[inst |-> i, mode |-> a.mode, edp |-> "dirty" \in a.flags,
          lsn |-> IF c.load = "loaded" THEN c.lsn ELSE 0]}

(* Slips: the page that came is not copied; the ctrl stays an edp; the new *)
(* owner does not know that the page is on no disk.                        *)
PageFromOwner_NotCopied(c, a) ==
    [c EXCEPT !.lock = a.mode, !.edp = @ /\ a.mode # LockExclusive,
              !.rdirty = /\ a.mode = LockExclusive
                         /\ a.flags \cap {"dirty", "remote_dirty"} # {},
              !.load = IF "need_load" \in a.flags THEN "need" ELSE "loaded"]
PageFromOwner_KeepsEdp(c, a) ==
    [c EXCEPT !.lsn = IF a.flags \cap {"need_load", "readonly2x"} = {}
                      THEN a.lsn ELSE @,
              !.lock = a.mode,
              !.load = IF "need_load" \in a.flags THEN "need" ELSE "loaded"]
PageFromOwner_NotRemoteDirty(c, a) ==
    [c EXCEPT !.lsn = IF a.flags \cap {"need_load", "readonly2x"} = {}
                      THEN a.lsn ELSE @,
              !.lock = a.mode, !.edp = @ /\ a.mode # LockExclusive,
              !.load = IF "need_load" \in a.flags THEN "need" ELSE "loaded"]

(* dcs_handle_page_from_owner *)
PageFromOwner(c, a) ==
    LET c1 == IF "need_load" \in a.flags THEN CleanCtrlEdp(c) ELSE c
    IN  [c1 EXCEPT
           !.lsn = IF a.flags \cap {"need_load", "readonly2x"} = {}
                   THEN a.lsn ELSE @,
           !.lock = a.mode,
           !.edp = @ /\ a.mode # LockExclusive,
           !.rdirty = /\ a.mode = LockExclusive
                      /\ a.flags \cap {"dirty", "remote_dirty"} # {},
           !.load = IF "need_load" \in a.flags THEN "need" ELSE "loaded"]

(* dcs_handle_ack_page_ready *)
AckPageReady(a) ==
    LET i == a.dst
        c == PageFromOwner(ctrl[i], a)
    IN  /\ a.cmd = "page_ready"
        /\ ctrl' = [ctrl EXCEPT ![i] = c]
        /\ Claim(i, a, c)
        /\ sess' = [sess EXCEPT ![i].st = "held"]

(* dcs_handle_ack_already_owner, dcs_set_ctrl4already_owner *)
AckAlreadyOwner(a) ==
    LET i == a.dst
        c == [ctrl[i] EXCEPT !.lock = a.mode]
    IN  /\ a.cmd = "already_owner"
        /\ ctrl' = [ctrl EXCEPT ![i] = c]
        /\ Claim(i, a, c)
        /\ sess' = [sess EXCEPT ![i].st = "held"]

(* dcs_handle_ack_need_load, dcs_set_ctrl4granted *)
AckGranted(a) ==
    LET i == a.dst
    IN  /\ a.cmd = "granted"
        /\ ctrl' = [ctrl EXCEPT ![i] =
                [CleanCtrlEdp(@) EXCEPT !.load = "need",
                                        !.lock = LockExclusive]]
        /\ sess' = [sess EXCEPT ![i].st = "held"]
        /\ UNCHANGED claims

AckError(a) ==
    /\ a.cmd = "error"
    /\ LeaveFailed(a.dst)
    /\ UNCHANGED claims

(* dcs_handle_ask_master_ack.  Another answer to the same request finds    *)
(* the waiting room closed (mes_recv_impl).                                *)
HandleAck(a) ==
    /\ acks' = {b \in acks : b.dst # a.dst}
    /\ AckPageReady(a) \/ AckAlreadyOwner(a) \/ AckGranted(a) \/ AckError(a)
    /\ UNCHANGED <<res, askm, asko, tasks, clock, timeouts, latest, disk>>

(* The master claims inside its session: it is back only when the claim    *)
(* and the invalidations the claim started are done.                       *)
InLocalClaim(i) ==
    i = Master /\ \/ \E c \in claims : c.inst = i
                  \/ \E t \in tasks : t.kind = "cvt" /\ t.by = i

(* dtc_buf_finish: load the page from disk if no instance sent it; then    *)
(* the session uses the page and leaves it.                                *)
Finish(i) ==
    /\ sess[i].st = "held"
    /\ ~InLocalClaim(i)
    /\ ctrl' = [ctrl EXCEPT ![i].lsn = IF ctrl[i].load = "need" THEN disk
                                                                ELSE @,
                            ![i].load = "loaded"]
    /\ sess' = [sess EXCEPT ![i] = Idle]
    /\ UNCHANGED <<res, askm, asko, acks, claims, tasks, clock, timeouts,
                   latest, disk>>

(* A session enters the page in X mode, changes it and leaves it dirty. *)
Modify(i) ==
    /\ sess[i].st = "idle"
    /\ ctrl[i].lock = LockExclusive
    /\ latest < MaxLsn
    /\ latest' = latest + 1
    /\ ctrl' = [ctrl EXCEPT ![i].dirty = TRUE, ![i].lsn = latest + 1]
    /\ UNCHANGED <<res, sess, askm, asko, acks, claims, tasks, clock,
                   timeouts, disk>>

---------------------------------------------------------------------------
(* Master.                                                                 *)

(* dcs_notify_owner_for_page: the owner is asked to send the page, or the  *)
(* requester is told that it is the owner.                                 *)
NotifyOwner(owner, req, retry, errors) ==
    IF owner = req.inst
    THEN /\ acks' = Answered(errors \cup {MasterAck("already_owner", req)})
         /\ UNCHANGED asko
    ELSE /\ asko' = asko \cup {[dst |-> owner, req |-> req, retry |-> retry]}
         /\ acks' = Answered(errors)

(* The branches of drc_request_page_owner, with what                       *)
(* dcs_process_ask_master_for_page does with the result.                   *)
MasterGrants(req) ==
    /\ ~res.used
    /\ res' = GrantNew(req)
    /\ acks' = Answered({MasterAck("granted", req)})
    /\ UNCHANGED <<asko, tasks>>

MasterRefuses(req) ==
    /\ res.used
    /\ Refuses(res, req)
    /\ acks' = Answered({ErrorAck(req)})
    /\ UNCHANGED <<res, asko, tasks>>

MasterConverts(req) ==
    /\ res.used /\ ~res.pending
    /\ Converts(res, req)
    /\ res' = StartConvert(res, req)
    /\ LET creq == ConvertReq(res, req)
           todo == CopiesToInvalidate(res, creq)
       IN  IF todo = {}
           THEN /\ NotifyOwner(res.owner, creq, Restarts(res, req), {})
                /\ UNCHANGED tasks
           ELSE /\ tasks' = tasks \cup
                       {[kind |-> "req", req |-> creq, by |-> req.inst,
                         owner |-> res.owner, retry |-> Restarts(res, req),
                         todo |-> todo, fail |-> FALSE]}
                /\ UNCHANGED <<asko, acks>>

MasterQueues(req) ==
    /\ res.used /\ ~res.pending
    /\ \/ Replaces(res, req) /\ res' = ReplaceQueued(res, req)
       \/ Appends(res, req) /\ res' = AppendQueued(res, req)
    /\ UNCHANGED <<asko, acks, tasks>>

ProcessAskMaster(req) ==
    /\ askm' = askm \ {req}
    /\ \/ MasterGrants(req)
       \/ MasterRefuses(req)
       \/ MasterConverts(req)
       \/ MasterQueues(req)
    /\ UNCHANGED <<ctrl, sess, claims, clock, timeouts, latest, disk>>

(* dcs_invalidate_readonly_copy, at copy i: the master's own copy goes     *)
(* first and its failure ends the call; the others are asked together and  *)
(* a refusal of any of them makes the call fail.                           *)
InvalidateCopy(t, i) ==
    /\ i \in t.todo
    /\ Master \in t.todo => i = Master
    /\ LatchableIO(i)
    /\ LET ok == ctrl[i].lock # LockExclusive
           todo == IF i = Master /\ ~ok THEN {} ELSE t.todo \ {i}
       IN  /\ ctrl' = IF ok /\ ctrl[i].load # "absent"
                      THEN [ctrl EXCEPT ![i] = InvalidateCtrl(@)]
                      ELSE ctrl
           /\ tasks' = (tasks \ {t}) \cup
                  {[t EXCEPT !.todo = todo, !.fail = @ \/ ~ok]}
    /\ UNCHANGED <<res, sess, askm, asko, acks, claims, clock, timeouts,
                   latest, disk>>

(* drc_request_page_owner after the invalidation. *)
RequestInvalidated(t) ==
    /\ t.kind = "req" /\ t.todo = {}
    /\ tasks' = tasks \ {t}
    /\ IF t.fail
       THEN /\ acks' = Answered({ErrorAck(t.req)})
            /\ UNCHANGED <<res, asko>>
       ELSE /\ res' = [res EXCEPT !.copies = {}]
            /\ NotifyOwner(t.owner, t.req, t.retry, {})
    /\ UNCHANGED <<ctrl, sess, askm, claims, clock, timeouts, latest, disk>>

(* drc_claim_page_owner after the invalidation: a failure is only logged   *)
(* and the owner is notified all the same.                                 *)
ConvertInvalidated(t) ==
    /\ t.kind = "cvt" /\ t.todo = {}
    /\ tasks' = tasks \ {t}
    /\ res' = IF t.fail THEN res ELSE [res EXCEPT !.copies = {}]
    /\ NotifyOwner(t.owner, t.req, FALSE, {})
    /\ UNCHANGED <<ctrl, sess, askm, claims, clock, timeouts, latest, disk>>

(* drc_convert_next_request and what follows it in drc_claim_page_owner    *)
(* and dcs_try_notify_owner_for_page; `expired` waiters have timed out.    *)
ConvertWaiter(r, by, expired) ==
    LET r1 == ConvertNext(r, expired)
        r2 == IF HeadConflicts(r1) THEN DropHead(r1) ELSE r1
        late == {ErrorAck(r.q[k]) : k \in 1..expired}
        dropped == IF HeadConflicts(r1) THEN {ErrorAck(Head(r1.q))} ELSE {}
        todo == CopiesToInvalidate(r1, r1.conv)
    IN  /\ res' = r2
        /\ IF ~Converting(r1)
           THEN acks' = Answered(late) /\ UNCHANGED <<asko, tasks>>
           ELSE IF todo = {}
           THEN /\ NotifyOwner(r1.owner, r1.conv, FALSE, late \cup dropped)
                /\ UNCHANGED tasks
           ELSE /\ tasks' = tasks \cup
                       {[kind |-> "cvt", req |-> r1.conv, by |-> by,
                         owner |-> r1.owner, retry |-> FALSE, todo |-> todo,
                         fail |-> FALSE]}
                /\ acks' = Answered(late \cup dropped)
                /\ UNCHANGED asko

(* dcs_process_claim_ownership_req, dcs_claim_ownership_l *)
ProcessClaim(c) ==
    /\ claims' = claims \ {c}
    /\ \/ /\ ~ClaimValid(res, c)
          /\ UNCHANGED <<res, asko, acks, tasks, timeouts>>
       \/ /\ ClaimValid(res, c)
          /\ \E expired \in 0..Len(res.q) :
                /\ timeouts + expired <= MaxTimeouts
                /\ timeouts' = timeouts + expired
                /\ ConvertWaiter(ClaimNewOwner(res, c), c.inst, expired)
    /\ UNCHANGED <<ctrl, sess, askm, clock, latest, disk>>

---------------------------------------------------------------------------
(* Owner: dcs_owner_transfer_page.                                         *)

(* dcs_read_local_page4transfer finds nothing that would have to be sent.  *)
TransferNeedsLoad(c) ==
    \/ c.load = "absent"
    \/ c.load \in {"need", "failed"} /\ CtrlRecyclable(c)

(* The checks of dcs_read_local_page4transfer and dcs_owner_transfer_page  *)
(* that answer with an error.                                              *)
TransferRefused(c, m) ==
    \/ ~CtrlIsOwner(c) /\ ~m.retry
    \/ m.req.curr = LockExclusive
    \/ /\ m.req.curr = LockShare /\ m.req.mode = LockExclusive
       /\ c.lock # LockShare /\ ~m.retry
    \/ m.req.lsn > c.lsn

TransferFlags(c, m) ==
    (IF TransferNeedsLoad(c) THEN {"need_load"}
     ELSE IF m.req.curr = LockShare /\ m.req.mode = LockExclusive
          THEN {"readonly2x"} ELSE {})
    \cup (IF c.dirty THEN {"dirty"} ELSE {})
    \cup (IF c.rdirty THEN {"remote_dirty"} ELSE {})

PageReadyAck(c, m) ==
    [MasterAck("page_ready", m.req) EXCEPT
        !.flags = TransferFlags(c, m),
        !.lsn = IF TransferFlags(c, m) \cap {"need_load", "readonly2x"} = {}
                THEN c.lsn ELSE 0]

(* Slips: a share request does not degrade the lock, or leaves an edp. *)
AfterTransfer_NotDegraded(c, mode) ==
    IF CtrlIsOwner(c) /\ mode = LockExclusive
    THEN [InvalidateCtrl(c) EXCEPT !.edp = c.dirty, !.rdirty = FALSE] ELSE c
AfterTransfer_ShareLeavesEdp(c, mode) ==
    IF ~CtrlIsOwner(c) THEN c
    ELSE IF mode = LockExclusive
         THEN [InvalidateCtrl(c) EXCEPT !.edp = c.dirty, !.rdirty = FALSE]
         ELSE [c EXCEPT !.lock = LockShare, !.edp = c.dirty]

(* What sending the page does to the ctrl of an owner: an X request takes  *)
(* the page away and leaves a dirty one as an earlier dirty page (edp); an *)
(* S request degrades the lock.                                            *)
AfterTransfer(c, mode) ==
    IF ~CtrlIsOwner(c) THEN c
    ELSE IF mode = LockExclusive
         THEN [InvalidateCtrl(c) EXCEPT !.edp = c.dirty, !.rdirty = FALSE]
         ELSE [c EXCEPT !.lock = LockShare]

TransferPage(m) ==
    LET i == m.dst
        c == IF ctrl[i].load = "need" THEN [ctrl[i] EXCEPT !.load = "failed"]
                                      ELSE ctrl[i]
    IN  /\ IF m.req.mode = LockExclusive THEN LatchableIO(i) ELSE Latchable(i)
        /\ asko' = asko \ {m}
        /\ \/ /\ TransferNeedsLoad(c) \/ ~TransferRefused(c, m)
              /\ ctrl' = [ctrl EXCEPT ![i] = AfterTransfer(c, m.req.mode)]
              /\ acks' = Answered({PageReadyAck(c, m)})
           \/ /\ ~TransferNeedsLoad(c) /\ TransferRefused(c, m)
              /\ ctrl' = [ctrl EXCEPT ![i] = c]
              /\ acks' = Answered({ErrorAck(m.req)})
        /\ UNCHANGED <<res, sess, askm, claims, tasks, clock, timeouts,
                       latest, disk>>

---------------------------------------------------------------------------
Next == \/ \E i \in Inst, mode \in {LockShare, LockExclusive} :
               RequestPage(i, mode)
        \/ \E i \in Inst : GiveUp(i) \/ Finish(i) \/ Modify(i)
        \/ \E a \in acks : HandleAck(a)
        \/ \E req \in askm : ProcessAskMaster(req)
        \/ \E t \in tasks : \/ \E i \in Inst : InvalidateCopy(t, i)
                            \/ RequestInvalidated(t)
                            \/ ConvertInvalidated(t)
        \/ \E c \in claims : ProcessClaim(c)
        \/ \E m \in asko : TransferPage(m)

Spec == Init /\ [][Next]_vars

---------------------------------------------------------------------------
(* Every message handler and every session that holds the latch goes on:  *)
(* they are threads of MES and of the instances, none of which waits for   *)
(* anything but the guards below.                                          *)
Handlers == \/ \E a \in acks : HandleAck(a)
            \/ \E i \in Inst : Finish(i)
            \/ \E req \in askm : ProcessAskMaster(req)
            \/ \E t \in tasks : \/ \E i \in Inst : InvalidateCopy(t, i)
                                \/ RequestInvalidated(t)
                                \/ ConvertInvalidated(t)
            \/ \E c \in claims : ProcessClaim(c)
            \/ \E m \in asko : TransferPage(m)
FairSpec == Spec /\ WF_vars(Handlers)

---------------------------------------------------------------------------
(* A session uses the page only under a lock of its instance that covers   *)
(* the access, however late, repeated or out of turn the answers come.     *)
HeldCovered ==
    \A i \in Inst : sess[i].st = "held" => ctrl[i].lock >= sess[i].mode

(* An instance that can change the page is the only one that can use it:   *)
(* no order of transfers, invalidations, late answers and retries leaves a *)
(* second lock behind.                                                     *)
SingleWriter ==
    \A i, j \in Inst : i # j /\ ctrl[i].lock = LockExclusive
                       => ctrl[j].lock = LockNull

(* Whoever can use the page in memory sees the last modification of any    *)
(* instance.                                                               *)
Coherent ==
    \A i \in Inst : ctrl[i].lock # LockNull /\ ctrl[i].load = "loaded"
                    => ctrl[i].lsn = latest

(* A page about to be read from disk (dtc_buf_finish) is up to date there. *)
LoadFresh ==
    \A i \in Inst : sess[i].st = "held" /\ ctrl[i].load = "need"
                    => disk = latest

(* The master knows everyone that may use the page: the owner, the holders *)
(* of copies, or the request it is converting.  A holder it does not know  *)
(* would be missed by the next invalidation.                               *)
HoldersKnown ==
    \A i \in Inst : ctrl[i].lock # LockNull
                    => res.used /\ i \in {res.owner, res.conv.inst} \cup res.copies

(* The panics of dcs_handle_page_from_owner and dcs_set_ctrl4already_owner: *)
(* an answer never finds a ctrl that it would set back.                     *)
AckPanics ==
    \A a \in acks :
        LET c == ctrl[a.dst]
        IN  /\ a.cmd = "page_ready" =>
                  /\ c.lock # LockExclusive
                  /\ a.flags \cap {"need_load", "readonly2x"} = {}
                     => a.lsn >= c.lsn
            /\ a.cmd = "already_owner" => ~c.edp
            /\ a.cmd \in {"page_ready", "already_owner"}
               => sess[a.dst].mode <= a.mode

(* drc_check_new_req, for the owner: while it upgrades to X nobody waits   *)
(* in the queue with the latch of a copy that the upgrade invalidates.     *)
UpgradeNotBlocked ==
    (/\ res.conv.inst = res.owner
     /\ res.mode = LockShare
     /\ res.conv.mode = LockExclusive)
    => \A k \in DOMAIN res.q : res.q[k].inst \notin res.copies

(* CM_ASSERT(OGRAC_REPLAY_NODE) of drc_claim_page_owner: the session that  *)
(* claims for the master never has to invalidate the master's own copy,    *)
(* whose latch it holds.                                                   *)
OwnClaimSparesMaster ==
    \A t \in tasks : t.kind = "cvt" /\ t.by = Master => Master \notin t.todo

(* "converting buf_res won't be recycled" (drc_request_page_owner,         *)
(* drc_claim_page_owner): a thread that invalidates copies finds, when it  *)
(* comes back to the entry, the conversion it works for still going on.    *)
ConvertingWhileInvalidating ==
    \A t \in tasks : t.kind \in {"req", "cvt"} => res.conv.inst = t.req.inst

(* The master's entry stays consistent (EntryOK) whatever requests, claims *)
(* and returning threads meet it: each of them works on the entry after    *)
(* the others have changed it.                                             *)
DirectoryOK == EntryOK(res)

(* A master thread that will turn to an owner knows one, for a request.    *)
TasksOK == \A t \in tasks : t.kind # "recycle" => /\ t.req \in ReqInfo
                                                 /\ t.owner \in Inst

(* Wherever a request has got to (a message, a thread, the entry's         *)
(* converting request or its queue), if its session still waits for it     *)
(* then it asks for at least what the session wants: the retries that the  *)
(* master folds into one another never shrink a request.                   *)
Requests == askm \cup {m.req : m \in asko}
            \cup {t.req : t \in {u \in tasks : u.kind # "recycle"}}
            \cup EntryRequests(res)
Covers(req) == /\ req.rsn <= clock
               /\ Waiting(req.inst, req.rsn) => sess[req.inst].mode <= req.mode
RequestsCover == \A req \in Requests : Covers(req)

(* The same for the answers; only sessions that wait have one coming.      *)
AnswersCover ==
    \A a \in acks : /\ Waiting(a.dst, a.rsn)
                    /\ a.cmd \in {"page_ready", "already_owner"}
                       => sess[a.dst].mode <= a.mode

(* What is inductive: HeldCovered follows an answer back to its request.   *)
IInv == /\ TypeOK
        /\ DirectoryOK
        /\ TasksOK
        /\ RequestsCover
        /\ AnswersCover
        /\ HeldCovered

(* The page service implements PageLock: no step takes a lock while another *)
(* instance has a conflicting one, and no version is read or built on that  *)
(* is not the last.                                                         *)
Abstract == INSTANCE PageLock WITH
    lock <- [i \in Inst |-> ctrl[i].lock],
    version <- [i \in Inst |->
                  IF ctrl[i].lock # LockNull /\ ctrl[i].load = "loaded"
                  THEN {ctrl[i].lsn} ELSE {}]
ImplementsPageLock == Abstract!Spec

(* Every request is answered: nobody waits for ever in the queue, behind a *)
(* lost conversion or on a circle of latches.                              *)
Served == \A i \in Inst : sess[i].st = "wait" ~> sess[i].st # "wait"
=============================================================================

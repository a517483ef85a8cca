------------------------------ MODULE DlsLock ------------------------------
(***************************************************************************)
(* The distributed lock service of dtc_dls.c for one resource, which is a  *)
(* spin lock or a latch: how sessions of several instances take it, first  *)
(* from each other inside their instance, and when the instance does not   *)
(* own it in a strong enough mode, from the other instances through the    *)
(* resource's master.                                                      *)
(*                                                                         *)
(*   session --request--> master --release--> every owner in conflict      *)
(*   session <--answer--- master, which has claimed the lock for it        *)
(*                                                                         *)
(* A session keeps its instance's entry locked (resx) while its request is *)
(* under way, so an instance has one request at a time, unless an answer   *)
(* is lost: mes_recv gives up when a connection breaks, and the session    *)
(* asks again while the master still works on the earlier request.         *)
(***************************************************************************)
EXTENDS DrcLockRes

CONSTANTS Master,       \* the instance whose drc holds the lock's entry
          Session,      \* sessions of all instances
          NoSession,    \* resx is free
          Home,         \* Home[s]: the instance of session s
          Kinds,        \* kinds of resource: "spin", "latch"
          MaxOps,       \* bound on the calls of all sessions
          MaxTries,     \* requests of one dls_request_latch_x/_s call
          MaxRefusals,  \* bound on releases refused by a splitting btree
          MaxRecycles,  \* bound on the entries that a dropped table frees
          MaxLost       \* bound on the answers lost to a broken connection

ASSUME MasterAssumption == Master \in Inst
ASSUME SessionAssumption == /\ NoSession \notin Session
                            /\ Home \in [Session -> Inst]
                            /\ IsFiniteSet(Session)
ASSUME KindsAssumption == Kinds \subseteq {"spin", "latch"}
ASSUME BoundsAssumption ==
    {MaxOps, MaxTries, MaxRefusals, MaxRecycles, MaxLost} \subseteq Nat

VARIABLES kind,   \* the kind of the resource
          res,    \* res[i]: the entry of instance i (drc_local_lock_res_t)
          sess,   \* sess[s]: where session s is in its call
          drc,    \* the master's entry
          job,    \* job[i][r]: the master's work on request r of instance i
          rels,   \* releases that an owner has not answered yet
          rsn,    \* rsn[i]: the request whose answer i waits for
          ops,    \* calls begun
          used    \* refusals, recycles and lost answers that have happened

vars == <<kind, res, sess, drc, job, rels, rsn, ops, used>>

---------------------------------------------------------------------------
(* drc_local_lock_res_t.  locked is is_locked, owner is is_owner; stat and *)
(* shared (shared_count) are those of latch_stat, and so is mode.          *)
LocalRes == [there : BOOLEAN, resx : Session \cup {NoSession},
             locked : BOOLEAN, owner : BOOLEAN, mode : LockMode,
             stat : {"IDLE", "S", "IX", "X"}, shared : Nat]
NoLocalRes == [there |-> FALSE, resx |-> NoSession, locked |-> FALSE,
               owner |-> FALSE, mode |-> LockNull, stat |-> "IDLE",
               shared |-> 0]

(* What a session calls: dls_spin_lock, dls_spin_try_lock, dls_latch_s,    *)
(* dls_latch_x, dls_latch_sx, dls_latch_timed_s, dls_latch_timed_x.        *)
SpinCalls == {"lock", "try"}
LatchCalls == {"s", "x", "sx", "timed_s", "timed_x"}
ShareCalls == {"s", "timed_s"}
TimedCalls == {"timed_s", "timed_x"}
ReqMode(call) == IF call \in ShareCalls THEN LockShare ELSE LockExclusive

Pc == {"idle", "start", "req", "ix", "ixreq", "ixgive", "held"}
NoCall == [pc |-> "idle", call |-> "none", tries |-> 0]

JobPc == {"none", "sent", "queued", "ask", "wait", "released", "refused",
          "ok", "fail"}
NoJob == [pc |-> "none", mode |-> LockNull, try |-> FALSE, owners |-> {},
          at |-> NoInst]
FailedJob == [NoJob EXCEPT !.pc = "fail"]
Rsn == 1 .. MaxLost + 1
NoRsn == 0

Release == [to : Inst, mode : {LockShare, LockExclusive}, inst : Inst,
            rsn : {NoRsn} \cup Rsn, try : BOOLEAN]

DlsTypeOK ==
    /\ kind \in Kinds
    /\ res \in [Inst -> LocalRes]
    /\ sess \in [Session -> [pc : Pc, call : SpinCalls \cup LatchCalls \cup {"none"},
                             tries : 0 .. MaxTries]]
    /\ drc \in LockRes
    /\ job \in [Inst -> [Rsn -> [pc : JobPc, mode : LockMode, try : BOOLEAN,
                                 owners : SUBSET Inst,
                                 at : Inst \cup {NoInst}]]]
    /\ rels \subseteq Release
    /\ rsn \in [Inst -> Rsn]
    /\ ops \in 0 .. MaxOps
    /\ used \in [{"refuse", "recycle", "lost"} -> Nat]

Init == /\ kind \in Kinds
        /\ res = [i \in Inst |-> NoLocalRes]
        /\ sess = [s \in Session |-> NoCall]
        /\ drc = NewLockRes
        /\ job = [i \in Inst |-> [r \in Rsn |-> NoJob]]
        /\ rels = {}
        /\ rsn = [i \in Inst |-> 1]
        /\ ops = 0
        /\ used = [k \in {"refuse", "recycle", "lost"} |-> 0]

---------------------------------------------------------------------------
(* Steps of a session inside its instance.                                 *)
ResxFree(i) == res[i].resx = NoSession
Goto(s, pc) == sess' = [sess EXCEPT ![s].pc = pc]
Return(s) == sess' = [sess EXCEPT ![s] = NoCall]
MyJob(s) == job[Home[s]][rsn[Home[s]]]

(* dls_request_lock: the request goes to the master, or is the master's    *)
(* own; mode and try travel with it.                                       *)
SendRequest(s) ==
    job' = [job EXCEPT ![Home[s]][rsn[Home[s]]] =
                [NoJob EXCEPT !.pc = "sent", !.mode = ReqMode(sess[s].call),
                              !.try = (sess[s].call = "try")]]

(* A call begins: drc_get_local_resx creates the entry if there is none. *)
Begin(s, call) ==
    /\ sess[s].pc = "idle"
    /\ ops < MaxOps
    /\ call \in IF kind = "spin" THEN SpinCalls ELSE LatchCalls
    /\ sess' = [sess EXCEPT ![s] = [pc |-> "start", call |-> call, tries |-> 0]]
    /\ res' = [res EXCEPT ![Home[s]].there = TRUE]
    /\ ops' = ops + 1
    /\ UNCHANGED <<kind, drc, job, rels, rsn, used>>

(* dls_spin_lock and the successful drc_try_lock_local_resx of             *)
(* dls_do_spin_try_lock: the resx stays locked until the unlock.           *)
SpinTake(s) ==
    LET i == Home[s] IN
    /\ kind = "spin"
    /\ sess[s].pc = "start"
    /\ ResxFree(i)
    /\ IF res[i].owner
       THEN /\ res' = [res EXCEPT ![i].resx = s, ![i].mode = LockExclusive,
                                  ![i].locked = TRUE]
            /\ Goto(s, "held")
            /\ UNCHANGED job
       ELSE /\ res' = [res EXCEPT ![i].resx = s]
            /\ Goto(s, "req")
            /\ SendRequest(s)
    /\ UNCHANGED <<kind, drc, rels, rsn, ops, used>>

(* dls_do_spin_try_lock finds is_locked set or the resx taken. *)
SpinTryBusy(s) ==
    /\ sess[s].pc = "start"
    /\ sess[s].call = "try"
    /\ res[Home[s]].locked \/ ~ResxFree(Home[s])
    /\ Return(s)
    /\ UNCHANGED <<kind, res, drc, job, rels, rsn, ops, used>>

(* The latch of an instance that has been granted to a session. *)
Latched(r, call) ==
    IF call \in {"x", "timed_x"}
    THEN [r EXCEPT !.stat = "X", !.locked = TRUE, !.owner = TRUE]
    ELSE [r EXCEPT !.stat = "S", !.shared = @ + 1, !.locked = TRUE,
                   !.owner = TRUE]

(* The instance's ownership is enough for the call. *)
OwnedEnough(r, call) == ReqMode(call) <= r.mode

(* The loops of dls_latch_s, _x, _sx and their timed forms: what a call    *)
(* does with the entry once it has locked it.  A share call joins the      *)
(* sharers whatever the mode; everybody else waits for IDLE or S.          *)
LatchNow(r, call) ==
    \/ r.stat = "IDLE" /\ OwnedEnough(r, call)
    \/ r.stat = "S" /\ call \in ShareCalls
    \/ r.stat = "S" /\ call = "sx" /\ OwnedEnough(r, call)
LatchAsks(r, call) ==
    /\ ~OwnedEnough(r, call)
    /\ r.stat = "IDLE" \/ (r.stat = "S" /\ call = "sx")
LatchUpgrades(r, call) == r.stat = "S" /\ call \in {"x", "timed_x"}

LatchTop(s) == kind = "latch" /\ sess[s].pc = "start" /\ ResxFree(Home[s])

LatchTake(s) ==
    /\ LatchTop(s)
    /\ LatchNow(res[Home[s]], sess[s].call)
    /\ res' = [res EXCEPT ![Home[s]] = Latched(@, sess[s].call)]
    /\ Goto(s, "held")
    /\ UNCHANGED <<kind, drc, job, rels, rsn, ops, used>>

LatchRequest(s) ==
    /\ LatchTop(s)
    /\ LatchAsks(res[Home[s]], sess[s].call)
    /\ res' = [res EXCEPT ![Home[s]].resx = s]
    /\ Goto(s, "req")
    /\ SendRequest(s)
    /\ UNCHANGED <<kind, drc, rels, rsn, ops, used>>

(* The sharers are asked to leave: LATCH_STATUS_IX. *)
LatchIntent(s) ==
    /\ LatchTop(s)
    /\ LatchUpgrades(res[Home[s]], sess[s].call)
    /\ res' = [res EXCEPT ![Home[s]].stat = "IX"]
    /\ Goto(s, "ix")
    /\ UNCHANGED <<kind, drc, job, rels, rsn, ops, used>>

(* A timed call gives up while another session has IX or X. *)
LatchTimeout(s) ==
    /\ kind = "latch"
    /\ sess[s].pc = "start"
    /\ sess[s].call \in TimedCalls
    /\ res[Home[s]].stat \in {"IX", "X"}
    /\ Return(s)
    /\ UNCHANGED <<kind, res, drc, job, rels, rsn, ops, used>>

(* dls_latch_ix2x, dls_latch_timed_ix2x: the last sharer has left.  The    *)
(* master is asked even if the instance owns the latch exclusively.        *)
IxRequest(s) ==
    LET i == Home[s] IN
    /\ sess[s].pc = "ix"
    /\ res[i].shared = 0
    /\ ResxFree(i)
    /\ res' = [res EXCEPT ![i].resx = s]
    /\ Goto(s, "ixreq")
    /\ SendRequest(s)
    /\ UNCHANGED <<kind, drc, rels, rsn, ops, used>>

IxTimeout(s) ==
    /\ sess[s].pc = "ix"
    /\ sess[s].call = "timed_x"
    /\ res[Home[s]].shared > 0
    /\ Goto(s, "ixgive")
    /\ UNCHANGED <<kind, res, drc, job, rels, rsn, ops, used>>

(* A slip: the intent is taken back to S although the sharers have left.   *)
AfterIx_AlwaysShared(r) == "S"

(* dls_latch_timed_x, after dls_latch_timed_ix2x has failed. *)
AfterIx(r) == IF r.shared > 0 THEN "S" ELSE "IDLE"

IxGiveUp(s) ==
    LET i == Home[s] IN
    /\ sess[s].pc = "ixgive"
    /\ ResxFree(i)
    /\ res' = [res EXCEPT ![i].stat = AfterIx(res[i])]
    /\ Return(s)
    /\ UNCHANGED <<kind, drc, job, rels, rsn, ops, used>>

(* The answer is OG_SUCCESS.  A spin lock is held with the resx locked. *)
AnswerOk(s) ==
    LET i == Home[s] IN
    /\ sess[s].pc \in {"req", "ixreq"}
    /\ MyJob(s).pc = "ok"
    /\ LET r == [res[i] EXCEPT !.mode = ReqMode(sess[s].call)] IN
       res' = [res EXCEPT ![i] =
                 IF kind = "spin" THEN [r EXCEPT !.locked = TRUE, !.owner = TRUE]
                 ELSE [Latched(r, sess[s].call) EXCEPT !.resx = NoSession]]
    /\ job' = [job EXCEPT ![i][rsn[i]] = NoJob]
    /\ Goto(s, "held")
    /\ UNCHANGED <<kind, drc, rels, rsn, ops, used>>

(* The answer is an error and the caller asks again with the resx still    *)
(* locked: dls_request_spin_lock for ever, dls_request_latch_x and _s      *)
(* until their time is up.                                                 *)
AskAgain(s) ==
    /\ sess[s].pc \in {"req", "ixreq"}
    /\ MyJob(s).pc = "fail"
    /\ sess[s].call # "try"
    /\ \/ kind = "spin" /\ UNCHANGED sess
       \/ /\ kind = "latch"
          /\ sess[s].tries < MaxTries
          /\ sess' = [sess EXCEPT ![s].tries = @ + 1]
    /\ SendRequest(s)
    /\ UNCHANGED <<kind, res, drc, rels, rsn, ops, used>>

(* The answer is an error and the request is given up: a try or a timed    *)
(* call returns, the others free the resx and start over.                  *)
GiveUp(s) ==
    LET i == Home[s]
        returns == sess[s].call \in TimedCalls \cup {"try"} /\ sess[s].pc = "req"
    IN
    /\ sess[s].pc \in {"req", "ixreq"}
    /\ MyJob(s).pc = "fail"
    /\ \/ sess[s].call = "try"
       \/ kind = "latch" /\ sess[s].tries = MaxTries
    /\ res' = [res EXCEPT ![i] =
                 IF returns
                 THEN [@ EXCEPT !.resx = NoSession, !.locked = FALSE,
                                !.owner = FALSE,
                                !.mode = IF kind = "spin" THEN LockNull
                                         ELSE res[i].mode]
                 ELSE [@ EXCEPT !.resx = NoSession]]
    /\ job' = [job EXCEPT ![i][rsn[i]] = NoJob]
    /\ sess' = [sess EXCEPT ![s] =
                  IF returns THEN NoCall
                  ELSE [@ EXCEPT !.tries = 0,
                                 !.pc = IF sess[s].pc = "req" THEN "start" ELSE "ix"]]
    /\ UNCHANGED <<kind, drc, rels, rsn, ops, used>>

(* dls_spin_unlock *)
SpinUnlock(s) ==
    /\ kind = "spin"
    /\ sess[s].pc = "held"
    /\ res' = [res EXCEPT ![Home[s]] = [@ EXCEPT !.locked = FALSE, !.owner = TRUE,
                                                 !.resx = NoSession]]
    /\ Return(s)
    /\ UNCHANGED <<kind, drc, job, rels, rsn, ops, used>>

(* A slip: the count of sharers goes down for an exclusive holder too. *)
Unlatched_Counts(r) ==
    [r EXCEPT !.shared = r.shared - 1, !.locked = FALSE, !.owner = TRUE,
              !.stat = IF r.shared - 1 <= 0 /\ r.stat \in {"S", "X"} THEN "IDLE" ELSE @]

(* dls_unlatch.  is_locked is cleared even if other sharers stay. *)
Unlatched(r) ==
    LET left == IF r.shared > 0 THEN r.shared - 1 ELSE 0 IN
    [r EXCEPT !.shared = left, !.locked = FALSE, !.owner = TRUE,
              !.stat = IF left = 0 /\ r.stat \in {"S", "X"} THEN "IDLE" ELSE @]

Unlatch(s) ==
    /\ kind = "latch"
    /\ sess[s].pc = "held"
    /\ ResxFree(Home[s])
    /\ res' = [res EXCEPT ![Home[s]] = Unlatched(@)]
    /\ Return(s)
    /\ UNCHANGED <<kind, drc, job, rels, rsn, ops, used>>

---------------------------------------------------------------------------
(* Steps of the master for request r of instance i: the worker that runs   *)
(* dls_process_lock_msg, or the asking session itself when i is the master *)
(* (dls_request_lock, dls_try_request_lock).                               *)
Request(i, r) == [inst |-> i, mode |-> job[i][r].mode]
JobTo(i, r, pc) == job' = [job EXCEPT ![i][r].pc = pc]
Convert(i, r, owners) ==
    job' = [job EXCEPT ![i][r].pc = "ask", ![i][r].owners = owners \ {i}]

(* The answer reaches the session unless it has stopped waiting for it. *)
Answer(i, r, pc) ==
    job' = [job EXCEPT ![i][r] =
              IF r = rsn[i] THEN [NoJob EXCEPT !.pc = pc] ELSE NoJob]

(* drc_request_lock_owner and drc_try_request_lock_owner.  The master's    *)
(* own try that finds itself among the owners cancels.                     *)
MasterTakes(i, r) ==
    LET req == Request(i, r) IN
    /\ job[i][r].pc = "sent"
    /\ \/ /\ ~Busy(drc)
          /\ \/ /\ job[i][r].try /\ i = Master /\ i \in OwnersToAsk(drc, req)
                /\ drc' = Cancel(StartConvert(drc, req), i)
                /\ Answer(i, r, "fail")
             \/ /\ ~(job[i][r].try /\ i = Master /\ i \in OwnersToAsk(drc, req))
                /\ drc' = StartConvert(drc, req)
                /\ Convert(i, r, OwnersToAsk(drc, req))
       \/ /\ Busy(drc)
          /\ job[i][r].try \/ MustNotWait(drc, req)
          /\ Answer(i, r, "fail")
          /\ UNCHANGED drc
       \/ /\ Busy(drc)
          /\ ~job[i][r].try /\ ~MustNotWait(drc, req)
          /\ drc' = Enqueue(drc, req)
          /\ JobTo(i, r, "queued")
    /\ UNCHANGED <<kind, res, sess, rels, rsn, ops, used>>

(* The waiting loop of drc_request_lock_owner sees its instance converting. *)
MasterTurn(i, r) ==
    /\ job[i][r].pc = "queued"
    /\ drc.conv.inst = i
    /\ Convert(i, r, OwnersToAsk(drc, Request(i, r)))
    /\ UNCHANGED <<kind, res, sess, drc, rels, rsn, ops, used>>

(* One owner after the other is asked (MES_CMD_RELEASE_LOCK, or            *)
(* MES_CMD_TRY_RELEASE_LOCK); the master releases its own ownership itself.*)
AskOwner(i, r, o) ==
    /\ job[i][r].pc = "ask"
    /\ o \in job[i][r].owners
    /\ rels' = rels \cup {[to |-> o, mode |-> job[i][r].mode, inst |-> i,
                           rsn |-> r, try |-> job[i][r].try]}
    /\ job' = [job EXCEPT ![i][r].pc = "wait", ![i][r].at = o]
    /\ UNCHANGED <<kind, res, sess, drc, rsn, ops, used>>

(* A slip: an owner that has released a lock is still recorded as one, and *)
(* is asked again if the request fails at the next owner.                  *)
AfterRelease_Recorded(i, r) == drc

(* dls_process_ask_master_for_latch and dls_request_lock record an         *)
(* exclusive release at once, the others leave it to the claim.            *)
AfterRelease(i, r) ==
    IF job[i][r].mode = LockExclusive
       /\ (kind = "latch" \/ (i = Master /\ ~job[i][r].try))
    THEN ClearGranted(drc, job[i][r].at) ELSE drc

MasterReleased(i, r) ==
    /\ job[i][r].pc = "released"
    /\ drc' = AfterRelease(i, r)
    /\ job' = [job EXCEPT ![i][r].pc = "ask", ![i][r].at = NoInst,
                          ![i][r].owners = @ \ {job[i][r].at}]
    /\ UNCHANGED <<kind, res, sess, rels, rsn, ops, used>>

(* The owner answered with an error: drc_cancel_lock_owner_request. *)
MasterRefused(i, r) ==
    /\ job[i][r].pc = "refused"
    /\ drc' = Cancel(drc, i)
    /\ Answer(i, r, "fail")
    /\ UNCHANGED <<kind, res, sess, rels, rsn, ops, used>>

(* drc_claim_lock_owner, dls_process_claim_ownership; then the answer. *)
MasterClaims(i, r) ==
    /\ job[i][r].pc = "ask"
    /\ job[i][r].owners = {}
    /\ drc' = Claim(drc, Request(i, r))
    /\ Answer(i, r, "ok")
    /\ UNCHANGED <<kind, res, sess, rels, rsn, ops, used>>

---------------------------------------------------------------------------
(* Steps of an owner that is asked to release.                             *)
(* The owner's answer; the master drops it when it no longer waits. *)
Reply(m, pc) ==
    /\ rels' = rels \ {m}
    /\ job' = IF m.rsn = NoRsn THEN job ELSE [job EXCEPT ![m.inst][m.rsn].pc = pc]

(* When the loop of dls_process_release_ownership gets to the release. *)
MayRelease(r) ==
    /\ r.resx = NoSession
    /\ ~r.locked
    /\ r.stat = "IDLE" \/ (r.stat = "IX" /\ r.shared = 0)

(* What is left to an owner that has released the lock for a request. *)
Released(r, mode) ==
    IF mode = LockExclusive
    THEN [r EXCEPT !.mode = LockNull, !.locked = FALSE, !.owner = FALSE]
    ELSE [r EXCEPT !.mode = LockShare, !.locked = FALSE, !.owner = TRUE]

(* dls_process_release_ownership *)
OwnerRelease(m) ==
    LET r == res[m.to] IN
    /\ m \in rels /\ ~m.try
    /\ \/ ~r.there /\ Reply(m, "released") /\ UNCHANGED res
       \/ /\ r.there /\ MayRelease(r) /\ r.mode = LockNull
          /\ Reply(m, "refused")
          /\ UNCHANGED res
       \/ /\ r.there /\ MayRelease(r) /\ r.mode # LockNull
          /\ Reply(m, "released")
          /\ res' = [res EXCEPT ![m.to] = Released(r, m.mode)]
    /\ UNCHANGED <<kind, sess, drc, rsn, ops, used>>

(* dls_broadcast_btree_split: the latch of a btree that is splitting stays. *)
OwnerSplitting(m) ==
    /\ m \in rels /\ ~m.try
    /\ kind = "latch" /\ m.mode = LockExclusive
    /\ res[m.to].there /\ MayRelease(res[m.to]) /\ res[m.to].mode # LockNull
    /\ used["refuse"] < MaxRefusals
    /\ Reply(m, "refused")
    /\ used' = [used EXCEPT !["refuse"] = @ + 1]
    /\ UNCHANGED <<kind, res, sess, drc, rsn, ops>>

(* dls_process_try_release_ownership: three looks at is_locked, then the   *)
(* resx.  The entry is created if there is none.                           *)
OwnerTryRelease(m) ==
    LET r == res[m.to] IN
    /\ m \in rels /\ m.try
    /\ \/ r.locked /\ Reply(m, "refused") /\ UNCHANGED res
       \/ /\ ~r.locked /\ r.resx = NoSession /\ r.mode = LockNull
          /\ Reply(m, "refused")
          /\ res' = [res EXCEPT ![m.to].there = TRUE]
       \/ /\ ~r.locked /\ r.resx = NoSession /\ r.mode # LockNull
          /\ Reply(m, "released")
          /\ res' = [res EXCEPT ![m.to] = Released(r, m.mode)]
    /\ UNCHANGED <<kind, sess, drc, rsn, ops, used>>

---------------------------------------------------------------------------
(* drc_recycle_lock_res: a table is dropped, so nobody uses its locks; an  *)
(* instance frees its entry after the master has forgotten it.             *)
Recycle(i) ==
    /\ used["recycle"] < MaxRecycles
    /\ res[i].there
    /\ \A s \in Session : sess[s].pc = "idle"
    /\ drc' = RecycleGranted(drc, i)
    /\ res' = [res EXCEPT ![i] = NoLocalRes]
    /\ used' = [used EXCEPT !["recycle"] = @ + 1]
    /\ UNCHANGED <<kind, sess, job, rels, rsn, ops>>

(* mes_recv fails at an instance that waits for the master: it asks again, *)
(* and the master goes on with the request.                                *)
LoseAnswer(i) ==
    /\ used["lost"] < MaxLost
    /\ i # Master
    /\ job[i][rsn[i]].pc # "none"
    /\ used' = [used EXCEPT !["lost"] = @ + 1]
    /\ rsn' = [rsn EXCEPT ![i] = @ + 1]
    /\ job' = [job EXCEPT ![i][rsn[i] + 1] = FailedJob,
                          ![i][rsn[i]] = IF @.pc \in {"ok", "fail"} THEN NoJob
                                         ELSE @]
    /\ UNCHANGED <<kind, res, sess, drc, rels, ops>>

(* mes_recv fails at the master that waits for an owner: the request is    *)
(* cancelled, and the owner goes on with the release.                      *)
LoseRelease(i, r) ==
    /\ used["lost"] < MaxLost
    /\ job[i][r].pc = "wait"
    /\ job[i][r].at # Master
    /\ used' = [used EXCEPT !["lost"] = @ + 1]
    /\ JobTo(i, r, "refused")
    /\ rels' = {[m EXCEPT !.rsn = IF m.inst = i /\ @ = r THEN NoRsn ELSE @] :
                 m \in rels}
    /\ UNCHANGED <<kind, res, sess, drc, rsn, ops>>

---------------------------------------------------------------------------
SpinStep(s) == SpinTake(s) \/ SpinTryBusy(s) \/ SpinUnlock(s)
LatchStep(s) == \/ LatchTake(s) \/ LatchRequest(s) \/ LatchIntent(s)
                \/ LatchTimeout(s) \/ IxRequest(s) \/ IxTimeout(s)
                \/ IxGiveUp(s) \/ Unlatch(s)
AnswerStep(s) == AnswerOk(s) \/ AskAgain(s) \/ GiveUp(s)
SessionStep(s) == SpinStep(s) \/ LatchStep(s) \/ AnswerStep(s)

MasterStep(i, r) == \/ MasterTakes(i, r) \/ MasterTurn(i, r)
                    \/ MasterReleased(i, r) \/ MasterRefused(i, r)
                    \/ MasterClaims(i, r)
                    \/ \E o \in Inst : AskOwner(i, r, o)

Next == \/ \E s \in Session : \/ \E call \in SpinCalls \cup LatchCalls : Begin(s, call)
                              \/ SessionStep(s)
        \/ \E i \in Inst : \E r \in Rsn : MasterStep(i, r)
        \/ \E m \in rels : OwnerRelease(m) \/ OwnerSplitting(m) \/ OwnerTryRelease(m)
        \/ \E i \in Inst : Recycle(i)

(* With connections that break while an answer is awaited. *)
LossyNext == \/ Next
             \/ \E i \in Inst : \/ LoseAnswer(i)
                                \/ \E r \in Rsn : LoseRelease(i, r)

(* A session and an owner wait for the resx in spin loops that sleep       *)
(* outside of it, so they get it if it is free again and again; holders    *)
(* unlock; the master's workers run.                                       *)
Fairness ==
    /\ \A s \in Session : SF_vars(SessionStep(s))
    /\ \A i \in Inst : WF_vars(\E r \in Rsn : MasterStep(i, r))
    /\ \A o \in Inst : SF_vars(\E m \in rels : m.to = o /\ (\/ OwnerRelease(m)
                                                            \/ OwnerTryRelease(m)))

Spec == Init /\ [][Next]_vars
FairSpec == Spec /\ Fairness
LossySpec == Init /\ [][LossyNext]_vars

---------------------------------------------------------------------------
(* Properties.                                                             *)

Held(s) == sess[s].pc = "held"
Exclusive(s) == sess[s].call \in SpinCalls \cup {"x", "timed_x"}

(* What the callers of dls_spin_lock, dls_latch_x and dls_latch_sx rely    *)
(* on, across instances: nobody else is in with an exclusive holder, and   *)
(* nobody of another instance with a holder of dls_latch_sx.               *)
Exclusion ==
    \A s, t \in Session :
        s # t /\ Held(s) /\ Held(t) =>
            /\ ~Exclusive(s) /\ ~Exclusive(t)
            /\ sess[s].call = "sx" => Home[t] = Home[s]

(* The master knows who has the lock: an instance whose lock_mode lets it  *)
(* take the lock without asking is in granted_map, an exclusive one alone  *)
(* ("spinlock only have one owner", dtc_dls.c:479).                        *)
OwnersKnown ==
    /\ \A i \in Inst :
         /\ res[i].mode # LockNull => i \in drc.granted
         /\ res[i].mode = LockExclusive =>
                drc.granted = {i} /\ drc.mode = LockExclusive
    /\ kind = "spin" => Cardinality(drc.granted) <= 1

(* The panics: in drc_claim_lock_owner the claim is the converting         *)
(* request's and a new share owner is not one already; a request that      *)
(* finds nobody converting finds nobody queued, and one that is queued     *)
(* finds somebody converting; dls_do_spin_try_lock finds the lock free     *)
(* behind a free resx.                                                     *)
DlsPanics ==
    /\ \A i \in Inst : \A r \in Rsn :
         /\ job[i][r].pc = "ask" /\ job[i][r].owners = {} =>
                ClaimAllowed(drc, Request(i, r))
         /\ job[i][r].pc = "queued" => Busy(drc)
    /\ ~Busy(drc) => drc.q = <<>>
    /\ kind = "spin" => \A i \in Inst : ResxFree(i) => ~res[i].locked

(* Nobody is asked to release a lock that it does not have, which          *)
(* dls_process_release_ownership answers with an error every time, so that *)
(* the request can never be granted ("invalid lock mode").                 *)
ReleasesPossible ==
    \A m \in rels : res[m.to].there /\ MayRelease(res[m.to]) =>
                        res[m.to].mode # LockNull

(* Every call comes to an end: nobody waits for an instance that waits for *)
(* it, and no request is forgotten in the queue.                           *)
CallsEnd == \A s \in Session :
             sess[s].pc \notin {"idle", "held"} ~> sess[s].pc \in {"idle", "held"}
=============================================================================

--------------------------- MODULE DlsLock_proofs ---------------------------
(***************************************************************************)
(* The distributed lock service excludes, for any number of instances and  *)
(* sessions and any bounds, as long as no connection breaks (Spec): the    *)
(* master's entry agrees with what the instances own, whatever the order   *)
(* of requests, releases, refusals and retries.                            *)
(***************************************************************************)
EXTENDS DlsLock, FiniteSetTheorems, TLAPS

(* Without lost answers an instance has one request, whose rsn is 1. *)
J(i) == job[i][1]
OneRequest == \A i \in Inst : /\ rsn[i] = 1
                              /\ \A r \in Rsn \ {1} : job[i][r] = NoJob

Asking(s) == sess[s].pc \in {"req", "ixreq"}
Active(i) == J(i).pc \in {"queued", "ask", "wait", "released", "refused"}

(* The mode in which an instance has the lock: the one of its entry, or    *)
(* the one that it has been granted and does not know of yet.              *)
Owned(i) == IF J(i).pc = "ok" THEN ReqMode(sess[res[i].resx].call) ELSE res[i].mode

---------------------------------------------------------------------------
(* What holds inside an instance.                                          *)

(* The session that has the resx is the one that asks, or holds a spin     *)
(* lock, and the job is its request.                                       *)
EntryOK(i) ==
    LET r == res[i] IN
    /\ r.resx # NoSession => /\ Home[r.resx] = i
                             /\ Asking(r.resx) \/ (kind = "spin" /\ Held(r.resx))
    /\ J(i).pc # "none" => r.resx # NoSession /\ Asking(r.resx)
    /\ J(i).pc = "sent" \/ Active(i) => /\ J(i).mode = ReqMode(sess[r.resx].call)
                                        /\ J(i).try <=> (sess[r.resx].call = "try")
    /\ ~r.there => r.mode = LockNull

CallsOf(k) == IF k = "spin" THEN SpinCalls ELSE LatchCalls
CallOK(s) ==
    /\ sess[s].pc # "idle" => res[Home[s]].there /\ sess[s].call \in CallsOf(kind)
    /\ Asking(s) => res[Home[s]].resx = s /\ J(Home[s]).pc # "none"
    /\ sess[s].pc = "req" => res[Home[s]].mode < ReqMode(sess[s].call)

(* A spin lock: is_owner, lock_mode and is_locked agree with the holder. *)
SpinOK(i) ==
    LET r == res[i] IN
    /\ r.mode # LockShare
    /\ r.owner <=> r.mode = LockExclusive
    /\ r.locked => r.resx # NoSession /\ Held(r.resx)
    /\ \A s \in Session : Home[s] = i =>
          /\ sess[s].pc \in {"idle", "start", "req", "held"}
          /\ Held(s) => r.resx = s /\ r.locked /\ r.mode = LockExclusive

(* A latch: latch_stat agrees with the holders, and shared_count is their  *)
(* number; at most one session is about to take it exclusively.            *)
IntentPc == {"ix", "ixreq", "ixgive"}
XCalls == {"x", "timed_x"}
Sharers(i) == {s \in Session : Home[s] = i /\ Held(s) /\ sess[s].call \notin XCalls}
LatchCallOK(s, r) ==
    /\ Held(s) => (sess[s].call \in XCalls <=> r.stat = "X")
    /\ Held(s) /\ sess[s].call \notin ShareCalls => r.mode = LockExclusive
    /\ sess[s].pc = "req" => r.stat = "IDLE" \/ (r.stat = "S" /\ sess[s].call = "sx")
    /\ sess[s].pc \in IntentPc => r.stat = "IX" /\ sess[s].call \in XCalls
    /\ sess[s].pc = "ixreq" => r.shared = 0
LatchOK(i) ==
    LET r == res[i] IN
    /\ r.shared = Cardinality(Sharers(i))
    /\ r.stat \in {"IDLE", "X"} => r.shared = 0
    /\ r.stat = "S" => r.shared > 0
    /\ r.shared > 0 => r.mode # LockNull
    /\ \A s \in Session : Home[s] = i => LatchCallOK(s, r)
    /\ \A s, t \in Session : s # t /\ Home[s] = i /\ Home[t] = i =>
          /\ ~(sess[s].pc \in IntentPc /\ sess[t].pc \in IntentPc)
          /\ ~(Held(s) /\ Held(t) /\ r.stat = "X")

Local(i) == /\ EntryOK(i)
            /\ \A s \in Session : Home[s] = i => CallOK(s)
            /\ kind = "spin" => SpinOK(i)
            /\ kind = "latch" => LatchOK(i)
Locals == \A i \in Inst : Local(i)

---------------------------------------------------------------------------
(* What holds at the master.                                               *)

(* The queue holds the waiting requests, each once, and one converts. *)
Queue ==
    /\ drc.conv.inst = NoInst => drc.q = <<>>
    /\ drc.conv.inst # NoInst => /\ Active(drc.conv.inst)
                                 /\ drc.conv.mode = J(drc.conv.inst).mode
    /\ \A n \in 1 .. Len(drc.q) : /\ J(drc.q[n].inst).pc = "queued"
                                  /\ drc.q[n].mode = J(drc.q[n].inst).mode
                                  /\ drc.q[n].inst # drc.conv.inst
    /\ \A m, n \in 1 .. Len(drc.q) : drc.q[m].inst = drc.q[n].inst => m = n
    /\ \A i \in Inst :
          /\ J(i).pc = "queued" => \/ drc.conv.inst = i
                                   \/ \E n \in 1 .. Len(drc.q) : drc.q[n].inst = i
          /\ Active(i) /\ J(i).pc # "queued" => drc.conv.inst = i

(* An instance that the master takes for an owner and that has released    *)
(* the lock: the request for which it has is about to record that.         *)
Releasing(i) ==
    \E j \in Inst :
       /\ J(j).mode = LockExclusive
       /\ \/ J(j).pc = "released" /\ J(j).at = i
          \/ J(j).pc = "ask" /\ kind = "spin" /\ J(j).owners = {}

(* granted_map and the mode agree with what the instances have. *)
Owners ==
    /\ drc.mode = LockNull <=> drc.granted = {}
    /\ kind = "spin" \/ drc.mode = LockExclusive => \A i, j \in drc.granted : i = j
    /\ \A i \in Inst :
          /\ Owned(i) # LockNull => i \in drc.granted
          /\ Owned(i) = LockExclusive => drc.granted = {i} /\ drc.mode = LockExclusive
          /\ i \in drc.granted /\ Owned(i) = LockNull => Releasing(i)

(* The request that converts: who is in its way has yet to be asked. *)
Converting(j) ==
    /\ Active(j) /\ (J(j).mode = LockShare \/ J(j).pc = "queued") => j \notin drc.granted
    /\ J(j).pc \in {"ask", "wait", "released"} =>
          /\ J(j).owners \subseteq drc.granted \ {j}
          /\ \A k \in drc.granted \ {j} :
                /\ J(j).mode = LockExclusive =>
                      k \in J(j).owners \/ (kind = "spin" /\ Owned(k) = LockNull)
                /\ Owned(k) = LockExclusive => k \in J(j).owners
    /\ J(j).pc = "ask" => \A k \in J(j).owners : Owned(k) # LockNull
    /\ J(j).pc \in {"wait", "released"} => J(j).at \in J(j).owners
    /\ J(j).pc = "released" => /\ J(j).mode = LockExclusive => Owned(J(j).at) = LockNull
                               /\ Owned(J(j).at) # LockExclusive
Converts == \A j \in Inst : Converting(j)

(* A release under way is the one that the converting request waits for. *)
Rels == \A m \in rels : /\ J(m.inst).pc = "wait" /\ J(m.inst).at = m.to /\ m.rsn = 1
                        /\ J(m.inst).mode = m.mode /\ (J(m.inst).try <=> m.try)

IInv == /\ DlsTypeOK /\ OneRequest /\ Locals
        /\ Queue /\ Owners /\ Converts /\ Rels

JobRec == [pc : JobPc, mode : LockMode, try : BOOLEAN, owners : SUBSET Inst,
           at : Inst \cup {NoInst}]
CallRec == [pc : Pc, call : SpinCalls \cup LatchCalls \cup {"none"}, tries : 0 .. MaxTries]

---------------------------------------------------------------------------
(* Constants. *)
LEMMA OneRsn == 1 \in Rsn /\ NoRsn \notin Rsn /\ NoJob \in JobRec /\ NoCall \in CallRec
                   /\ MaxOps \in Nat /\ MaxTries \in Nat
BY BoundsAssumption DEF Rsn, NoRsn, NoJob, JobRec, JobPc, LockMode, LockNull,
   NoCall, CallRec, Pc

LEMMA Modes == /\ LockNull = 0 /\ LockShare = 1 /\ LockExclusive = 2 /\ LockMode = {0, 1, 2}
               /\ \A call : ReqMode(call) \in {LockShare, LockExclusive}
BY DEF LockNull, LockShare, LockExclusive, LockMode, ReqMode

(* The requests of an entry. *)
LEMMA EntryTypes ==
    ASSUME NEW e \in LockRes
    PROVE  /\ e.mode \in LockMode /\ e.granted \subseteq Inst
           /\ e.conv.inst # NoInst => e.conv \in LockReq /\ e.conv.inst \in Inst
           /\ e.conv.inst = NoInst => e.conv = NoLockReq
           /\ e.q \in Seq(LockReq) /\ Len(e.q) \in Nat
           /\ \A n \in 1 .. Len(e.q) : e.q[n] \in LockReq /\ e.q[n].inst \in Inst
<1>1. /\ e.mode \in LockMode /\ e.granted \subseteq Inst /\ e.q \in Seq(LockReq)
      /\ e.conv \in LockReq \cup {NoLockReq}
  BY DEF LockRes
<1>2. /\ e.conv.inst # NoInst => e.conv \in LockReq /\ e.conv.inst \in Inst
      /\ e.conv.inst = NoInst => e.conv = NoLockReq
  BY <1>1, NoInstAssumption DEF LockReq, NoLockReq
<1>3. Len(e.q) \in Nat /\ \A n \in 1 .. Len(e.q) : e.q[n] \in LockReq
  BY <1>1
<1>4. \A n \in 1 .. Len(e.q) : e.q[n].inst \in Inst
  BY <1>3 DEF LockReq
<1>5. QED
  BY <1>1, <1>2, <1>3, <1>4

(* The invariant holds at the start. *)
LEMMA InitIInv == Init => IInv
<1> SUFFICES ASSUME Init PROVE IInv
  OBVIOUS
<1>1. /\ \A i \in Inst : /\ res[i] = NoLocalRes /\ J(i) = NoJob /\ rsn[i] = 1
                         /\ \A r \in Rsn : job[i][r] = NoJob
      /\ \A s \in Session : sess[s] = NoCall
      /\ drc = NewLockRes /\ rels = {}
  BY OneRsn DEF Init, J
<1>2. DlsTypeOK
  <2>1. NoLocalRes \in LocalRes /\ NewLockRes \in LockRes
    BY DEF NoLocalRes, LocalRes, NewLockRes, LockRes, LockMode, LockNull
  <2>2. QED
    BY <2>1, OneRsn DEF Init, DlsTypeOK, JobRec, CallRec
<1>3. OneRequest
  BY <1>1 DEF OneRequest
<1>4. ASSUME NEW i \in Inst PROVE Local(i)
  <2>1. \A s \in Session : sess[s].pc = "idle"
    BY <1>1 DEF NoCall
  <2>2. /\ res[i].resx = NoSession /\ res[i].mode = LockNull /\ ~res[i].locked /\ ~res[i].owner
        /\ res[i].stat = "IDLE" /\ res[i].shared = 0 /\ J(i).pc = "none"
    BY <1>1 DEF NoLocalRes, NoJob
  <2>3. EntryOK(i) /\ (\A s \in Session : Home[s] = i => CallOK(s))
    BY <2>1, <2>2 DEF EntryOK, CallOK, Asking, Active
  <2>4. SpinOK(i)
    BY <2>1, <2>2, Modes DEF SpinOK, Held
  <2>5. Sharers(i) = {}
    BY <2>1 DEF Sharers, Held
  <2>6. LatchOK(i)
    BY <2>1, <2>2, <2>5, FS_EmptySet DEF LatchOK, LatchCallOK, Held, IntentPc
  <2>7. QED
    BY <2>3, <2>4, <2>6 DEF Local
<1>5. Queue
  BY <1>1 DEF Queue, NewLockRes, NoLockReq, Active, NoJob
<1>6. Owners
  BY <1>1, Modes DEF Owners, NewLockRes, Owned, NoJob, NoLocalRes
<1>7. Converts /\ Rels
  BY <1>1 DEF Converts, Converting, Rels, Active, NoJob
<1>8. QED
  BY <1>2, <1>3, <1>4, <1>5, <1>6, <1>7 DEF IInv, Locals

---------------------------------------------------------------------------
(* Steps of a session.                                                     *)

(* The master does not see what changes nobody's ownership and no request  *)
(* that it works on.                                                       *)
LEMMA MasterStays ==
    ASSUME Queue, Owners, Converts, Rels, drc \in LockRes, rels \subseteq Release,
           job \in [Inst -> [Rsn -> JobRec]], UNCHANGED <<kind, drc, rels>>,
           \A i \in Inst : Owned(i)' = Owned(i),
           \A i \in Inst : Active(i) \/ Active(i)' => J(i)' = J(i)
    PROVE  Queue' /\ Owners' /\ Converts' /\ Rels'
<1>1. \A i \in Inst : Active(i)' <=> Active(i)
  BY DEF Active
<1>2. \A i \in Inst : J(i).pc \in {"queued", "ask", "wait", "released", "refused"} => Active(i)
  BY DEF Active
<1>3. drc.conv.inst # NoInst => drc.conv.inst \in Inst
  BY DEF LockRes, LockReq, NoLockReq
<1>4. \A n \in 1 .. Len(drc.q) : drc.q[n].inst \in Inst
  BY EntryTypes
<1>5. Queue'
  <2>1. (drc.conv.inst # NoInst => Active(drc.conv.inst) /\ drc.conv.mode = J(drc.conv.inst).mode)'
    BY <1>1, <1>3 DEF Queue
  <2>2. (\A n \in 1 .. Len(drc.q) : /\ J(drc.q[n].inst).pc = "queued"
                                    /\ drc.q[n].mode = J(drc.q[n].inst).mode
                                    /\ drc.q[n].inst # drc.conv.inst)'
    BY <1>2, <1>4 DEF Queue
  <2>3. \A i \in Inst :
          /\ J(i)'.pc = "queued" => \/ drc'.conv.inst = i
                                    \/ \E n \in 1 .. Len(drc'.q) : drc'.q[n].inst = i
          /\ Active(i)' /\ J(i)'.pc # "queued" => drc'.conv.inst = i
    BY <1>1, <1>2 DEF Queue, Active
  <2>4. QED
    BY <2>1, <2>2, <2>3 DEF Queue
<1>6. \A i \in Inst : Releasing(i) => Releasing(i)'
  BY <1>2 DEF Releasing
<1>7. Owners'
  BY <1>6 DEF Owners
<1>8. ASSUME NEW j \in Inst PROVE Converting(j)'
  <2>1. Converting(j)
    BY DEF Converts
  <2>2. CASE Active(j)
    <3>1. J(j)' = J(j) /\ J(j) \in JobRec
      BY <2>2, OneRsn DEF J
    <3>2. \A k \in drc.granted : k \in Inst
      BY DEF LockRes
    <3>3. J(j).pc \in {"wait", "released"} => J(j).at \in Inst
      BY <2>1, <3>1 DEF Converting, JobRec
    <3>4. \A k \in J(j).owners : k \in Inst
      BY <3>1 DEF JobRec
    <3>5. QED
      BY <1>1, <2>1, <3>1, <3>2, <3>3, <3>4 DEF Converting
  <2>3. CASE ~Active(j)
    BY <1>1, <2>3 DEF Converting, Active
  <2>4. QED
    BY <2>2, <2>3
<1>9. Rels'
  <2>1. \A m \in rels : m.inst \in Inst /\ Active(m.inst)
    BY <1>2 DEF Rels, Release
  <2>2. QED
    BY <2>1 DEF Rels
<1>10. QED
  BY <1>5, <1>7, <1>8, <1>9 DEF Converts

(* An instance whose entry, sessions and request do not change. *)
LEMMA LocalStays ==
    ASSUME NEW k \in Inst, Local(k), UNCHANGED <<kind, res[k], J(k)>>,
           \A t \in Session : Home[t] = k => sess'[t] = sess[t],
           res[k].resx \in Session \cup {NoSession}
    PROVE  Local(k)'
<1>1. Sharers(k)' = Sharers(k)
  BY DEF Sharers, Held
<1>2. res[k].resx # NoSession => sess'[res[k].resx] = sess[res[k].resx]
  BY DEF Local, EntryOK
<1>3. EntryOK(k)'
  BY <1>2 DEF Local, EntryOK, Asking, Active, Held
<1>4. ASSUME NEW s \in Session, Home[s] = k PROVE CallOK(s)'
  BY <1>4 DEF Local, CallOK, Asking
<1>5. kind = "spin" => SpinOK(k)'
  BY <1>2 DEF Local, SpinOK, Held
<1>6. kind = "latch" => LatchOK(k)'
  <2> SUFFICES ASSUME kind = "latch" PROVE LatchOK(k)'
    OBVIOUS
  <2>1. LatchOK(k)
    BY DEF Local
  <2>2. \A s \in Session : Home[s] = k => LatchCallOK(s, res[k])'
    BY <2>1 DEF LatchOK, LatchCallOK, Held
  <2>3. QED
    BY <1>1, <2>1, <2>2 DEF LatchOK, Held
<1>7. QED
  BY <1>3, <1>4, <1>5, <1>6 DEF Local

(* A session steps: what remains to be shown is about its own instance. *)
LEMMA SessionFrame ==
    ASSUME IInv, NEW s \in Session, NEW i \in Inst, i = Home[s],
           UNCHANGED <<kind, drc, rels, rsn>>,
           ops' \in 0 .. MaxOps, used' = used,
           NEW v \in CallRec, sess' = [sess EXCEPT ![s] = v],
           NEW r \in LocalRes, res' = [res EXCEPT ![i] = r],
           NEW j \in JobRec, job' = [job EXCEPT ![i][1] = j],
           j = J(i) \/ (~Active(i) /\ j.pc \in {"none", "sent"}),
           Owned(i)' = Owned(i), Local(i)'
    PROVE  IInv'
<1>1. /\ job \in [Inst -> [Rsn -> JobRec]] /\ sess \in [Session -> CallRec]
      /\ res \in [Inst -> LocalRes] /\ drc \in LockRes /\ rels \subseteq Release
  BY DEF IInv, DlsTypeOK, JobRec, CallRec
<1>2. /\ J(i)' = j /\ \A k \in Inst \ {i} : J(k)' = J(k) /\ res'[k] = res[k]
      /\ \A k \in Inst : \A n \in Rsn \ {1} : job'[k][n] = job[k][n]
      /\ job' \in [Inst -> [Rsn -> JobRec]]
  BY <1>1, OneRsn DEF J
<1>3. /\ sess'[s] = v /\ \A t \in Session \ {s} : sess'[t] = sess[t]
  BY <1>1
<1>4. DlsTypeOK'
  <2>1. sess' \in [Session -> CallRec] /\ res' \in [Inst -> LocalRes]
    BY <1>1
  <2>2. QED
    BY <1>2, <2>1 DEF IInv, DlsTypeOK, JobRec, CallRec
<1>5. OneRequest'
  BY <1>2 DEF IInv, OneRequest
<1>6. ASSUME NEW k \in Inst PROVE Local(k)'
  <2>1. CASE k = i
    BY <2>1
  <2>2. CASE k # i
    <3>1. Local(k) /\ res[k].resx \in Session \cup {NoSession}
      BY <1>1 DEF IInv, Locals, LocalRes
    <3>2. UNCHANGED <<kind, res[k], J(k)>>
      BY <1>2, <2>2
    <3>3. \A t \in Session : Home[t] = k => sess'[t] = sess[t]
      BY <1>3, <2>2
    <3>4. QED
      BY <3>1, <3>2, <3>3, LocalStays
  <2>3. QED
    BY <2>1, <2>2
<1>7. ASSUME NEW k \in Inst PROVE Owned(k)' = Owned(k)
  <2>1. CASE k = i
    BY <2>1
  <2>2. CASE k # i
    <3>1. /\ J(k)' = J(k) /\ res'[k] = res[k]
          /\ J(k).pc = "ok" => sess'[res[k].resx] = sess[res[k].resx]
      BY <1>1, <1>2, <1>3, <2>2 DEF IInv, Locals, Local, EntryOK, LocalRes
    <3>2. QED
      BY <3>1 DEF Owned
  <2>3. QED
    BY <2>1, <2>2
<1>8. \A k \in Inst : Active(k) \/ Active(k)' => J(k)' = J(k)
  BY <1>2 DEF Active
<1>9. Queue' /\ Owners' /\ Converts' /\ Rels'
  BY <1>1, <1>7, <1>8, MasterStays DEF IInv
<1>10. QED
  BY <1>4, <1>5, <1>6, <1>9 DEF IInv, Locals

(* What is known of a session's instance. *)
LEMMA SessionFacts ==
    ASSUME IInv, NEW s \in Session, NEW i, i = Home[s]
    PROVE  /\ i \in Inst /\ s # NoSession /\ rsn[i] = 1 /\ kind \in {"spin", "latch"}
           /\ job \in [Inst -> [Rsn -> JobRec]] /\ sess \in [Session -> CallRec]
           /\ res \in [Inst -> LocalRes]
           /\ res[i] \in LocalRes /\ J(i) \in JobRec /\ sess[s] \in CallRec
           /\ res[i].mode \in LockMode /\ res[i].shared \in Nat
           /\ res[i].resx \in Session \cup {NoSession}
           /\ EntryOK(i) /\ CallOK(s) /\ (\A t \in Session : Home[t] = i => CallOK(t))
           /\ (kind = "spin" => SpinOK(i)) /\ (kind = "latch" => LatchOK(i))
<1>1. i \in Inst /\ s # NoSession
  BY SessionAssumption
<1>2. /\ job \in [Inst -> [Rsn -> JobRec]] /\ sess \in [Session -> CallRec]
      /\ res \in [Inst -> LocalRes] /\ kind \in {"spin", "latch"}
  BY KindsAssumption DEF IInv, DlsTypeOK, JobRec, CallRec
<1>3. rsn[i] = 1 /\ Local(i)
  BY <1>1 DEF IInv, OneRequest, Locals
<1>4. res[i] \in LocalRes /\ J(i) \in JobRec /\ sess[s] \in CallRec
  BY <1>1, <1>2, OneRsn DEF J
<1>5. res[i].mode \in LockMode /\ res[i].shared \in Nat /\ res[i].resx \in Session \cup {NoSession}
  BY <1>4 DEF LocalRes
<1>6. EntryOK(i) /\ CallOK(s) /\ (\A t \in Session : Home[t] = i => CallOK(t))
      /\ (kind = "spin" => SpinOK(i)) /\ (kind = "latch" => LatchOK(i))
  BY <1>3 DEF Local
<1>7. QED
  BY <1>1, <1>2, <1>3, <1>4, <1>5, <1>6

(* Where nothing changes. *)
LEMMA SameParts ==
    ASSUME job \in [Inst -> [Rsn -> JobRec]], sess \in [Session -> CallRec],
           res \in [Inst -> LocalRes], NEW s \in Session, NEW i \in Inst
    PROVE  /\ job = [job EXCEPT ![i][1] = J(i)]
           /\ sess = [sess EXCEPT ![s] = sess[s]]
           /\ res = [res EXCEPT ![i] = res[i]]
BY OneRsn DEF J

(* A latch whose holders and status do not change. *)
LEMMA LatchKeeps ==
    ASSUME NEW i, LatchOK(i), NEW s \in Session, Home[s] = i,
           res'[i].stat = res[i].stat, res'[i].shared = res[i].shared,
           res'[i].mode = res[i].mode, ~Held(s), ~Held(s)',
           \A t \in Session \ {s} : sess'[t] = sess[t],
           LatchCallOK(s, res[i])', sess'[s].pc \in IntentPc => sess[s].pc \in IntentPc
    PROVE  LatchOK(i)'
<1>1. Sharers(i)' = Sharers(i)
  BY DEF Sharers, Held
<1>2. ASSUME NEW t \in Session, Home[t] = i PROVE LatchCallOK(t, res[i])'
  <2>1. CASE t = s
    BY <2>1
  <2>2. CASE t # s
    BY <1>2, <2>2 DEF LatchOK, LatchCallOK, Held
  <2>3. QED
    BY <2>1, <2>2
<1>3. \A t, u \in Session : t # u /\ Home[t] = i /\ Home[u] = i =>
         /\ ~(sess'[t].pc \in IntentPc /\ sess'[u].pc \in IntentPc)
         /\ ~(Held(t)' /\ Held(u)' /\ res'[i].stat = "X")
  BY DEF LatchOK, Held
<1>4. QED
  BY <1>1, <1>2, <1>3 DEF LatchOK, Held

LEMMA BeginIInv ==
    ASSUME IInv, NEW s \in Session, NEW call \in SpinCalls \cup LatchCalls, Begin(s, call)
    PROVE  IInv'
<1> DEFINE i == Home[s]
           v == [pc |-> "start", call |-> call, tries |-> 0]
           r == [res[i] EXCEPT !.there = TRUE]
<1>1. /\ sess[s].pc = "idle" /\ call \in CallsOf(kind) /\ ops < MaxOps
      /\ sess' = [sess EXCEPT ![s] = v] /\ res' = [res EXCEPT ![i].there = TRUE]
      /\ ops' = ops + 1 /\ UNCHANGED <<kind, drc, job, rels, rsn, used>>
  BY DEF Begin, CallsOf
<1>2. /\ i \in Inst /\ kind \in {"spin", "latch"}
      /\ job \in [Inst -> [Rsn -> JobRec]] /\ sess \in [Session -> CallRec]
      /\ res \in [Inst -> LocalRes] /\ res[i] \in LocalRes /\ J(i) \in JobRec
      /\ EntryOK(i) /\ (\A t \in Session : Home[t] = i => CallOK(t))
      /\ (kind = "spin" => SpinOK(i)) /\ (kind = "latch" => LatchOK(i))
  BY SessionFacts
<1>3. v \in CallRec /\ ops' \in 0 .. MaxOps
  <2>1. ops \in Nat /\ MaxOps \in Nat /\ MaxTries \in Nat
    BY OneRsn DEF IInv, DlsTypeOK
  <2>2. QED
    BY <1>1, <2>1 DEF CallRec, Pc
<1>4. /\ r \in LocalRes /\ res' = [res EXCEPT ![i] = r]
      /\ r.there /\ r.resx = res[i].resx /\ r.locked = res[i].locked /\ r.owner = res[i].owner
      /\ r.mode = res[i].mode /\ r.stat = res[i].stat /\ r.shared = res[i].shared
  BY <1>1, <1>2 DEF LocalRes
<1>5. job' = [job EXCEPT ![i][1] = J(i)] /\ J(i)' = J(i)
  BY <1>1, <1>2, SameParts DEF J
<1>6. /\ sess'[s] = v /\ v.pc = "start" /\ v.call = call /\ res'[i] = r
      /\ \A t \in Session \ {s} : sess'[t] = sess[t]
  BY <1>1, <1>2, <1>4
<1> HIDE DEF v, r, i
<1>7. i = Home[s]
  BY DEF i
<1>8. res[i].resx # s /\ (J(i).pc # "none" => res[i].resx # NoSession)
  BY <1>1, <1>2, SessionAssumption DEF EntryOK, Asking, Held
<1>9. sess'[res[i].resx] = sess[res[i].resx] \/ res[i].resx = NoSession
  BY <1>2, <1>6, <1>8 DEF LocalRes
<1>10. EntryOK(i)'
  BY <1>1, <1>2, <1>4, <1>5, <1>6, <1>9 DEF EntryOK, Asking, Active, Held
<1>11. ASSUME NEW t \in Session, Home[t] = i PROVE CallOK(t)'
  BY <1>1, <1>2, <1>4, <1>5, <1>6, <1>7, <1>11 DEF CallOK, Asking
<1>12. kind = "spin" => SpinOK(i)'
  BY <1>1, <1>2, <1>4, <1>6, <1>9 DEF SpinOK, Held
<1>13. kind = "latch" => LatchOK(i)'
  <2>1. LatchCallOK(s, res[i])' /\ ~Held(s) /\ ~Held(s)' /\ sess'[s].pc \notin IntentPc
    BY <1>1, <1>6 DEF LatchCallOK, Held, IntentPc
  <2>2. QED
    BY <1>2, <1>4, <1>6, <1>7, <2>1, LatchKeeps
<1>14. Local(i)'
  BY <1>1, <1>10, <1>11, <1>12, <1>13 DEF Local
<1>15. Owned(i)' = Owned(i)
  BY <1>4, <1>5, <1>6, <1>8, <1>9 DEF Owned
<1>16. QED
  BY <1>1, <1>2, <1>3, <1>4, <1>5, <1>7, <1>14, <1>15, SessionFrame

(* A session that neither asks nor holds goes on, or returns. *)
LEMMA QuietStep ==
    ASSUME IInv, NEW s \in Session, NEW v \in CallRec, sess' = [sess EXCEPT ![s] = v],
           UNCHANGED <<kind, res, drc, job, rels, rsn, ops, used>>,
           sess[s].pc \notin {"idle", "req", "ixreq", "held"},
           \/ v.pc = "idle"
           \/ v.pc = "ixgive" /\ sess[s].pc = "ix" /\ v.call = sess[s].call
    PROVE  IInv'
<1>1. PICK i : i = Home[s]
  OBVIOUS
<1>2. /\ i \in Inst /\ kind \in {"spin", "latch"}
      /\ job \in [Inst -> [Rsn -> JobRec]] /\ sess \in [Session -> CallRec]
      /\ res \in [Inst -> LocalRes] /\ res[i] \in LocalRes /\ J(i) \in JobRec
      /\ EntryOK(i) /\ (\A t \in Session : Home[t] = i => CallOK(t))
      /\ (kind = "spin" => SpinOK(i)) /\ (kind = "latch" => LatchOK(i))
      /\ res[i].resx \in Session \cup {NoSession} /\ s # NoSession
  BY <1>1, SessionFacts
<1>3. /\ job' = [job EXCEPT ![i][1] = J(i)] /\ J(i)' = J(i)
      /\ res' = [res EXCEPT ![i] = res[i]] /\ res'[i] = res[i]
  BY <1>2, SameParts DEF J
<1>4. sess'[s] = v /\ \A t \in Session \ {s} : sess'[t] = sess[t]
  BY <1>2
<1>5. res[i].resx # s
  BY <1>2 DEF EntryOK, Asking, Held
<1>6. sess'[res[i].resx] = sess[res[i].resx] \/ res[i].resx = NoSession
  BY <1>2, <1>4, <1>5
<1>7. EntryOK(i)'
  BY <1>2, <1>3, <1>6 DEF EntryOK, Asking, Active, Held
<1>8. ASSUME NEW t \in Session, Home[t] = i PROVE CallOK(t)'
  BY <1>2, <1>3, <1>4, <1>8 DEF CallOK, Asking
<1>9. kind = "spin" => SpinOK(i)'
  BY <1>1, <1>2, <1>3, <1>4, <1>6 DEF SpinOK, Held
<1>10. kind = "latch" => LatchOK(i)'
  <2> SUFFICES ASSUME kind = "latch" PROVE LatchOK(i)'
    OBVIOUS
  <2>1. LatchOK(i) /\ LatchCallOK(s, res[i])
    BY <1>1, <1>2 DEF LatchOK
  <2>2. /\ LatchCallOK(s, res[i])' /\ ~Held(s) /\ ~Held(s)'
        /\ sess'[s].pc \in IntentPc => sess[s].pc \in IntentPc
    BY <1>3, <1>4, <2>1 DEF LatchCallOK, Held, IntentPc
  <2>3. QED
    BY <1>1, <1>3, <1>4, <2>1, <2>2, LatchKeeps
<1>11. Local(i)'
  BY <1>7, <1>8, <1>9, <1>10 DEF Local
<1>12. Owned(i)' = Owned(i)
  <2>1. J(i).pc = "ok" => res[i].resx # NoSession
    BY <1>2 DEF EntryOK
  <2>2. QED
    BY <1>3, <1>6, <2>1 DEF Owned
<1>13. ops' \in 0 .. MaxOps
  BY DEF IInv, DlsTypeOK
<1>14. QED
  BY <1>1, <1>2, <1>3, <1>11, <1>12, <1>13, SessionFrame

(* A session takes the resx and sends its request. *)
LEMMA RequestStep ==
    ASSUME IInv, NEW s \in Session, NEW i, i = Home[s], NEW pc \in {"req", "ixreq"},
           NEW v \in CallRec, sess' = [sess EXCEPT ![s] = v],
           v.pc = pc, v.call = sess[s].call,
           res' = [res EXCEPT ![i].resx = s], SendRequest(s),
           UNCHANGED <<kind, drc, rels, rsn, ops, used>>,
           ResxFree(i) \/ (res[i].resx = s /\ J(i).pc = "fail"),
           sess[s].pc \notin {"idle", "held"},
           kind = "spin" => pc = "req",
           pc = "req" => res[i].mode < ReqMode(v.call),
           kind = "latch" =>
              \/ /\ pc = "req"
                 /\ res[i].stat = "IDLE" \/ (res[i].stat = "S" /\ v.call = "sx")
              \/ pc = "ixreq" /\ sess[s].pc \in {"ix", "ixreq"} /\ res[i].shared = 0
    PROVE  IInv'
<1> DEFINE j == [NoJob EXCEPT !.pc = "sent", !.mode = ReqMode(sess[s].call),
                              !.try = (sess[s].call = "try")]
           r == [res[i] EXCEPT !.resx = s]
<1>1. /\ i \in Inst /\ kind \in {"spin", "latch"} /\ rsn[i] = 1
      /\ job \in [Inst -> [Rsn -> JobRec]] /\ sess \in [Session -> CallRec]
      /\ res \in [Inst -> LocalRes] /\ res[i] \in LocalRes /\ J(i) \in JobRec
      /\ EntryOK(i) /\ (\A t \in Session : Home[t] = i => CallOK(t)) /\ CallOK(s)
      /\ (kind = "spin" => SpinOK(i)) /\ (kind = "latch" => LatchOK(i))
      /\ res[i].resx \in Session \cup {NoSession} /\ s # NoSession
  BY SessionFacts
<1>2. /\ j \in JobRec /\ j.pc = "sent" /\ j.mode = ReqMode(sess[s].call)
      /\ j.try <=> (sess[s].call = "try")
  BY Modes DEF JobRec, NoJob, JobPc
<1>3. job' = [job EXCEPT ![i][1] = j] /\ J(i)' = j
  BY <1>1, OneRsn DEF SendRequest, J
<1>4. /\ r \in LocalRes /\ res' = [res EXCEPT ![i] = r] /\ res'[i] = r
      /\ r.there = res[i].there /\ r.resx = s /\ r.locked = res[i].locked /\ r.owner = res[i].owner
      /\ r.mode = res[i].mode /\ r.stat = res[i].stat /\ r.shared = res[i].shared
  BY <1>1 DEF LocalRes
<1> HIDE DEF j, r
<1>5. sess'[s] = v /\ \A t \in Session \ {s} : sess'[t] = sess[t]
  BY <1>1
<1>6. /\ J(i).pc \in {"none", "fail"}
      /\ \A t \in Session : Home[t] = i /\ t # s => ~Asking(t) /\ (kind = "spin" => ~Held(t))
  BY <1>1 DEF EntryOK, ResxFree, Asking, CallOK, SpinOK
<1>7. EntryOK(i)'
  <2>1. res'[i].there /\ Asking(s)'
    BY <1>1, <1>4, <1>5 DEF CallOK, Asking
  <2>2. QED
    BY <1>1, <1>2, <1>3, <1>4, <1>5, <2>1 DEF EntryOK, Active
<1>8. ASSUME NEW t \in Session, Home[t] = i PROVE CallOK(t)'
  <2>1. CASE t = s
    BY <1>1, <1>2, <1>3, <1>4, <1>5, <2>1 DEF CallOK, Asking
  <2>2. CASE t # s
    BY <1>1, <1>4, <1>5, <1>6, <1>8, <2>2 DEF CallOK, Asking
  <2>3. QED
    BY <2>1, <2>2
<1>9. kind = "spin" => SpinOK(i)'
  <2> SUFFICES ASSUME kind = "spin" PROVE SpinOK(i)'
    OBVIOUS
  <2>1. SpinOK(i) /\ ~res[i].locked
    BY <1>1 DEF SpinOK, ResxFree, Held
  <2>2. QED
    BY <1>4, <1>5, <1>6, <2>1 DEF SpinOK, Held
<1>10. kind = "latch" => LatchOK(i)'
  <2> SUFFICES ASSUME kind = "latch" PROVE LatchOK(i)'
    OBVIOUS
  <2>1. LatchOK(i) /\ LatchCallOK(s, res[i])
    BY <1>1 DEF LatchOK
  <2>2. /\ LatchCallOK(s, res[i])' /\ ~Held(s) /\ ~Held(s)'
        /\ sess'[s].pc \in IntentPc => sess[s].pc \in IntentPc
    BY <1>4, <1>5, <2>1 DEF LatchCallOK, Held, IntentPc
  <2>3. QED
    BY <1>4, <1>5, <2>1, <2>2, LatchKeeps
<1>11. Local(i)'
  BY <1>7, <1>8, <1>9, <1>10 DEF Local
<1>12. Owned(i)' = Owned(i)
  BY <1>2, <1>3, <1>4, <1>6 DEF Owned
<1>13. ops' \in 0 .. MaxOps
  BY DEF IInv, DlsTypeOK
<1>14. ~Active(i)
  BY <1>6 DEF Active
<1>15. QED
  BY <1>1, <1>2, <1>3, <1>4, <1>11, <1>12, <1>13, <1>14, SessionFrame

(* The session moves on in its call, or returns. *)
LEMMA GotoCall ==
    ASSUME IInv, NEW s \in Session, NEW pc \in Pc, Goto(s, pc)
    PROVE  \E v \in CallRec : /\ sess' = [sess EXCEPT ![s] = v]
                              /\ v.pc = pc /\ v.call = sess[s].call
<1> DEFINE v == [sess[s] EXCEPT !.pc = pc]
<1>1. sess \in [Session -> CallRec] /\ sess[s] \in CallRec
  BY DEF IInv, DlsTypeOK, CallRec
<1>2. sess' = [sess EXCEPT ![s] = v]
  BY <1>1 DEF Goto
<1>3. v \in CallRec /\ v.pc = pc /\ v.call = sess[s].call
  BY <1>1 DEF CallRec
<1>4. QED
  BY <1>2, <1>3

LEMMA SpinTryBusyIInv == \A s \in Session : IInv /\ SpinTryBusy(s) => IInv'
<1> SUFFICES ASSUME NEW s \in Session, IInv, SpinTryBusy(s) PROVE IInv'
  OBVIOUS
<1>1. /\ sess[s].pc = "start" /\ sess' = [sess EXCEPT ![s] = NoCall]
      /\ UNCHANGED <<kind, res, drc, job, rels, rsn, ops, used>>
  BY DEF SpinTryBusy, Return
<1>2. NoCall \in CallRec /\ NoCall.pc = "idle"
  BY OneRsn DEF NoCall
<1>3. QED
  BY <1>1, <1>2, QuietStep

LEMMA LatchTimeoutIInv == \A s \in Session : IInv /\ LatchTimeout(s) => IInv'
<1> SUFFICES ASSUME NEW s \in Session, IInv, LatchTimeout(s) PROVE IInv'
  OBVIOUS
<1>1. /\ sess[s].pc = "start" /\ sess' = [sess EXCEPT ![s] = NoCall]
      /\ UNCHANGED <<kind, res, drc, job, rels, rsn, ops, used>>
  BY DEF LatchTimeout, Return
<1>2. NoCall \in CallRec /\ NoCall.pc = "idle"
  BY OneRsn DEF NoCall
<1>3. QED
  BY <1>1, <1>2, QuietStep

LEMMA IxTimeoutIInv == \A s \in Session : IInv /\ IxTimeout(s) => IInv'
<1> SUFFICES ASSUME NEW s \in Session, IInv, IxTimeout(s) PROVE IInv'
  OBVIOUS
<1>1. /\ sess[s].pc = "ix" /\ Goto(s, "ixgive") /\ "ixgive" \in Pc
      /\ UNCHANGED <<kind, res, drc, job, rels, rsn, ops, used>>
  BY DEF IxTimeout, Pc
<1>2. PICK v \in CallRec : /\ sess' = [sess EXCEPT ![s] = v]
                           /\ v.pc = "ixgive" /\ v.call = sess[s].call
  BY <1>1, GotoCall
<1>3. QED
  BY <1>1, <1>2, QuietStep

(* The requests of a session that has just locked the entry. *)
LEMMA LatchRequestIInv == \A s \in Session : IInv /\ LatchRequest(s) => IInv'
<1> SUFFICES ASSUME NEW s \in Session, IInv, LatchRequest(s) PROVE IInv'
  OBVIOUS
<1>1. PICK i : i = Home[s]
  OBVIOUS
<1>2. /\ kind = "latch" /\ sess[s].pc = "start" /\ ResxFree(i)
      /\ LatchAsks(res[i], sess[s].call) /\ res' = [res EXCEPT ![i].resx = s]
      /\ Goto(s, "req") /\ SendRequest(s) /\ "req" \in Pc
      /\ UNCHANGED <<kind, drc, rels, rsn, ops, used>>
  BY <1>1 DEF LatchRequest, LatchTop, Pc
<1>3. PICK v \in CallRec : /\ sess' = [sess EXCEPT ![s] = v]
                           /\ v.pc = "req" /\ v.call = sess[s].call
  BY <1>2, GotoCall
<1>4. res[i].mode \in {0, 1, 2} /\ ReqMode(v.call) \in {1, 2}
  BY <1>1, SessionFacts, Modes
<1>5. /\ res[i].mode < ReqMode(v.call)
      /\ res[i].stat = "IDLE" \/ (res[i].stat = "S" /\ v.call = "sx")
  BY <1>2, <1>3, <1>4 DEF LatchAsks, OwnedEnough
<1>6. QED
  BY <1>1, <1>2, <1>3, <1>5, RequestStep

LEMMA IxRequestIInv == \A s \in Session : IInv /\ IxRequest(s) => IInv'
<1> SUFFICES ASSUME NEW s \in Session, IInv, IxRequest(s) PROVE IInv'
  OBVIOUS
<1>1. PICK i : i = Home[s]
  OBVIOUS
<1>2. /\ sess[s].pc = "ix" /\ res[i].shared = 0 /\ ResxFree(i)
      /\ res' = [res EXCEPT ![i].resx = s]
      /\ Goto(s, "ixreq") /\ SendRequest(s) /\ "ixreq" \in Pc
      /\ UNCHANGED <<kind, drc, rels, rsn, ops, used>>
  BY <1>1 DEF IxRequest, Pc
<1>3. PICK v \in CallRec : /\ sess' = [sess EXCEPT ![s] = v]
                           /\ v.pc = "ixreq" /\ v.call = sess[s].call
  BY <1>2, GotoCall
<1>4. kind = "latch"
  BY <1>1, <1>2, SessionFacts DEF SpinOK
<1>5. QED
  BY <1>1, <1>2, <1>3, <1>4, RequestStep

LEMMA AskAgainIInv == \A s \in Session : IInv /\ AskAgain(s) => IInv'
<1> SUFFICES ASSUME NEW s \in Session, IInv, AskAgain(s) PROVE IInv'
  OBVIOUS
<1>1. PICK i : i = Home[s]
  OBVIOUS
<1>2. /\ i \in Inst /\ rsn[i] = 1 /\ res[i] \in LocalRes /\ res \in [Inst -> LocalRes]
      /\ sess[s] \in CallRec /\ sess \in [Session -> CallRec] /\ CallOK(s) /\ kind \in {"spin", "latch"}
      /\ (kind = "latch" => LatchOK(i)) /\ (kind = "spin" => SpinOK(i))
  BY <1>1, SessionFacts
<1>3. /\ Asking(s) /\ J(i).pc = "fail" /\ SendRequest(s)
      /\ UNCHANGED <<kind, res, drc, rels, rsn, ops, used>>
  BY <1>1, <1>2 DEF AskAgain, Asking, MyJob, J
<1>4. PICK v \in CallRec : sess' = [sess EXCEPT ![s] = v] /\ v.pc = sess[s].pc /\ v.call = sess[s].call
  <2>1. CASE kind = "spin"
    BY <1>2, <2>1 DEF AskAgain
  <2>2. CASE kind = "latch"
    <3> DEFINE v == [sess[s] EXCEPT !.tries = @ + 1]
    <3>1. sess[s].tries < MaxTries /\ sess' = [sess EXCEPT ![s].tries = @ + 1]
      BY <2>2 DEF AskAgain
    <3>2. sess[s].tries + 1 \in 0 .. MaxTries
      BY <1>2, <3>1, OneRsn DEF CallRec
    <3>3. v \in CallRec /\ v.pc = sess[s].pc /\ v.call = sess[s].call
      BY <1>2, <3>2 DEF CallRec
    <3>4. sess' = [sess EXCEPT ![s] = v]
      BY <1>2, <3>1
    <3>5. QED
      BY <3>3, <3>4
  <2>3. QED
    BY <1>2, <2>1, <2>2
<1>5. /\ res[i].resx = s /\ res' = [res EXCEPT ![i].resx = s]
      /\ sess[s].pc = "req" => res[i].mode < ReqMode(sess[s].call)
  BY <1>1, <1>2, <1>3 DEF CallOK, LocalRes
<1>6. kind = "latch" => LatchCallOK(s, res[i])
  BY <1>1, <1>2 DEF LatchOK
<1>7. kind = "spin" => sess[s].pc = "req"
  BY <1>1, <1>2, <1>3 DEF SpinOK, Asking
<1>8. PICK pc \in {"req", "ixreq"} : pc = sess[s].pc
  BY <1>3 DEF Asking
<1>9. kind = "latch" =>
         \/ /\ pc = "req"
            /\ res[i].stat = "IDLE" \/ (res[i].stat = "S" /\ v.call = "sx")
         \/ pc = "ixreq" /\ sess[s].pc \in {"ix", "ixreq"} /\ res[i].shared = 0
  BY <1>4, <1>6, <1>8 DEF LatchCallOK
<1>10. sess[s].pc \notin {"idle", "held"}
  BY <1>3 DEF Asking
<1>11. QED
  BY <1>1, <1>3, <1>4, <1>5, <1>7, <1>8, <1>9, <1>10, RequestStep

(* A step after which nobody of the instance has the resx or asks. *)
LEMMA FreeStep ==
    ASSUME IInv, NEW s \in Session, NEW i, i = Home[s],
           NEW v \in CallRec, sess' = [sess EXCEPT ![s] = v],
           NEW r \in LocalRes, res' = [res EXCEPT ![i] = r],
           NEW j \in JobRec, job' = [job EXCEPT ![i][1] = j],
           UNCHANGED <<kind, drc, rels, rsn, ops, used>>,
           r.resx = NoSession, r.there = res[i].there, j.pc = "none", j = J(i) \/ ~Active(i),
           res[i].resx \in {NoSession, s}, sess[s].pc # "idle",
           v.pc \notin {"req", "ixreq"}, v.pc # "idle" => v.call = sess[s].call,
           Owned(i) = r.mode,
           kind = "spin" => SpinOK(i)', kind = "latch" => LatchOK(i)'
    PROVE  IInv'
<1>1. /\ i \in Inst /\ job \in [Inst -> [Rsn -> JobRec]] /\ sess \in [Session -> CallRec]
      /\ res \in [Inst -> LocalRes] /\ res[i] \in LocalRes
      /\ (\A t \in Session : Home[t] = i => CallOK(t)) /\ CallOK(s) /\ s # NoSession
  BY SessionFacts
<1>2. /\ J(i)' = j /\ res'[i] = r /\ sess'[s] = v /\ \A t \in Session \ {s} : sess'[t] = sess[t]
  BY <1>1, OneRsn DEF J
<1>3. ASSUME NEW t \in Session, Home[t] = i PROVE ~Asking(t)'
  <2>1. CASE t = s
    BY <1>2, <2>1 DEF Asking
  <2>2. CASE t # s
    <3>1. t # NoSession /\ res[i].resx # t /\ CallOK(t)
      BY <1>1, <1>3, <2>2, SessionAssumption
    <3>2. ~Asking(t)
      BY <1>3, <3>1 DEF CallOK
    <3>3. QED
      BY <1>2, <2>2, <3>2 DEF Asking
  <2>3. QED
    BY <2>1, <2>2
<1>4. EntryOK(i)'
  BY <1>1, <1>2 DEF EntryOK, Active, CallOK
<1>5. ASSUME NEW t \in Session, Home[t] = i PROVE CallOK(t)'
  BY <1>1, <1>2, <1>3, <1>5 DEF CallOK, Asking
<1>6. Local(i)'
  BY <1>4, <1>5 DEF Local
<1>7. Owned(i)' = Owned(i)
  BY <1>2 DEF Owned
<1>8. ops' \in 0 .. MaxOps
  BY DEF IInv, DlsTypeOK
<1>9. QED
  BY <1>1, <1>6, <1>7, <1>8, SessionFrame

(* A session gets the spin lock. *)
LEMMA SpinHoldStep ==
    ASSUME IInv, NEW s \in Session, NEW i, i = Home[s], kind = "spin",
           NEW v \in CallRec, sess' = [sess EXCEPT ![s] = v],
           NEW r \in LocalRes, res' = [res EXCEPT ![i] = r],
           NEW j \in JobRec, job' = [job EXCEPT ![i][1] = j],
           UNCHANGED <<kind, drc, rels, rsn, ops, used>>,
           r.resx = s, r.there = res[i].there, r.locked, r.owner, r.mode = LockExclusive,
           j.pc = "none", j = J(i) \/ ~Active(i),
           res[i].resx \in {NoSession, s}, sess[s].pc \in {"start", "req"},
           v.pc = "held", v.call = sess[s].call, Owned(i) = LockExclusive
    PROVE  IInv'
<1>1. /\ i \in Inst /\ job \in [Inst -> [Rsn -> JobRec]] /\ sess \in [Session -> CallRec]
      /\ res \in [Inst -> LocalRes] /\ res[i] \in LocalRes
      /\ (\A t \in Session : Home[t] = i => CallOK(t)) /\ CallOK(s) /\ s # NoSession
      /\ SpinOK(i)
  BY SessionFacts
<1>2. /\ J(i)' = j /\ res'[i] = r /\ sess'[s] = v /\ \A t \in Session \ {s} : sess'[t] = sess[t]
  BY <1>1, OneRsn DEF J
<1>3. ASSUME NEW t \in Session, Home[t] = i PROVE ~Asking(t)'
  <2>1. CASE t = s
    BY <1>2, <2>1 DEF Asking
  <2>2. CASE t # s
    <3>1. t # NoSession /\ res[i].resx # t /\ CallOK(t)
      BY <1>1, <1>3, <2>2, SessionAssumption
    <3>2. ~Asking(t)
      BY <1>3, <3>1 DEF CallOK
    <3>3. QED
      BY <1>2, <2>2, <3>2 DEF Asking
  <2>3. QED
    BY <2>1, <2>2
<1>4. EntryOK(i)'
  BY <1>1, <1>2 DEF EntryOK, Active, CallOK, Held
<1>5. ASSUME NEW t \in Session, Home[t] = i PROVE CallOK(t)'
  BY <1>1, <1>2, <1>3, <1>5 DEF CallOK, Asking
<1>6. SpinOK(i)'
  <2>1. \A t \in Session : Home[t] = i /\ t # s => ~Held(t)
    BY <1>1 DEF SpinOK, Held
  <2>2. QED
    BY <1>1, <1>2, <2>1, Modes DEF SpinOK, Held
<1>7. Local(i)'
  BY <1>4, <1>5, <1>6 DEF Local
<1>8. Owned(i)' = Owned(i)
  BY <1>2 DEF Owned
<1>9. ops' \in 0 .. MaxOps
  BY DEF IInv, DlsTypeOK
<1>10. QED
  BY <1>1, <1>7, <1>8, <1>9, SessionFrame

LEMMA SpinTakeIInv == \A s \in Session : IInv /\ SpinTake(s) => IInv'
<1> SUFFICES ASSUME NEW s \in Session, IInv, SpinTake(s) PROVE IInv'
  OBVIOUS
<1>1. PICK i : i = Home[s]
  OBVIOUS
<1>2. /\ i \in Inst /\ res[i] \in LocalRes /\ res \in [Inst -> LocalRes] /\ J(i) \in JobRec
      /\ job \in [Inst -> [Rsn -> JobRec]] /\ sess \in [Session -> CallRec]
      /\ CallOK(s) /\ EntryOK(i) /\ (kind = "spin" => SpinOK(i)) /\ s # NoSession
  BY <1>1, SessionFacts
<1>3. /\ kind = "spin" /\ sess[s].pc = "start" /\ res[i].resx = NoSession
      /\ UNCHANGED <<kind, drc, rels, rsn, ops, used>>
  BY <1>1 DEF SpinTake, ResxFree
<1>4. J(i).pc = "none" /\ ~Active(i) /\ SpinOK(i) /\ "held" \in Pc /\ "req" \in Pc
  BY <1>2, <1>3 DEF EntryOK, Active, Pc
<1>5. CASE res[i].owner
  <2> DEFINE r == [res[i] EXCEPT !.resx = s, !.mode = LockExclusive, !.locked = TRUE]
  <2>1. /\ res' = [res EXCEPT ![i].resx = s, ![i].mode = LockExclusive, ![i].locked = TRUE]
        /\ Goto(s, "held") /\ UNCHANGED job
    BY <1>1, <1>5 DEF SpinTake
  <2>2. PICK v \in CallRec : /\ sess' = [sess EXCEPT ![s] = v]
                             /\ v.pc = "held" /\ v.call = sess[s].call
    BY <1>4, <2>1, GotoCall
  <2>3. /\ r \in LocalRes /\ r.resx = s /\ r.there = res[i].there /\ r.locked /\ r.owner
        /\ r.mode = LockExclusive
    BY <1>2, <1>5, Modes DEF LocalRes
  <2>4. res' = [res EXCEPT ![i] = r]
    BY <1>2, <2>1
  <2>5. job' = [job EXCEPT ![i][1] = J(i)]
    BY <1>2, <2>1, SameParts
  <2>6. Owned(i) = LockExclusive
    BY <1>4, <1>5 DEF Owned, SpinOK
  <2> HIDE DEF r
  <2>7. QED
    BY <1>1, <1>2, <1>3, <1>4, <2>2, <2>3, <2>4, <2>5, <2>6, SpinHoldStep
<1>6. CASE ~res[i].owner
  <2>1. res' = [res EXCEPT ![i].resx = s] /\ Goto(s, "req") /\ SendRequest(s)
    BY <1>1, <1>6 DEF SpinTake
  <2>2. PICK v \in CallRec : /\ sess' = [sess EXCEPT ![s] = v]
                             /\ v.pc = "req" /\ v.call = sess[s].call
    BY <1>4, <2>1, GotoCall
  <2>3. v.call \in SpinCalls /\ res[i].mode = LockNull
    BY <1>2, <1>3, <1>4, <1>6, <2>2, Modes DEF CallOK, CallsOf, SpinOK, LocalRes
  <2>4. res[i].mode < ReqMode(v.call)
    BY <2>3, Modes
  <2>5. QED
    BY <1>1, <1>3, <2>1, <2>2, <2>4, RequestStep DEF ResxFree
<1>7. QED
  BY <1>5, <1>6

LEMMA SpinUnlockIInv == \A s \in Session : IInv /\ SpinUnlock(s) => IInv'
<1> SUFFICES ASSUME NEW s \in Session, IInv, SpinUnlock(s) PROVE IInv'
  OBVIOUS
<1>1. PICK i : i = Home[s]
  OBVIOUS
<1> DEFINE r == [res[i] EXCEPT !.locked = FALSE, !.owner = TRUE, !.resx = NoSession]
<1>2. /\ i \in Inst /\ res[i] \in LocalRes /\ res \in [Inst -> LocalRes] /\ J(i) \in JobRec
      /\ job \in [Inst -> [Rsn -> JobRec]] /\ sess \in [Session -> CallRec]
      /\ CallOK(s) /\ EntryOK(i) /\ (kind = "spin" => SpinOK(i)) /\ s # NoSession
  BY <1>1, SessionFacts
<1>3. /\ kind = "spin" /\ Held(s) /\ sess' = [sess EXCEPT ![s] = NoCall]
      /\ res' = [res EXCEPT ![i] = r]
      /\ UNCHANGED <<kind, drc, job, rels, rsn, ops, used>>
  BY <1>1 DEF SpinUnlock, Return, Held
<1>4. SpinOK(i) /\ res[i].resx = s /\ res[i].mode = LockExclusive
  BY <1>1, <1>2, <1>3 DEF SpinOK
<1>5. J(i).pc = "none"
  BY <1>2, <1>3, <1>4 DEF EntryOK, Asking, Held
<1>6. /\ r \in LocalRes /\ r.resx = NoSession /\ r.there = res[i].there /\ ~r.locked /\ r.owner
      /\ r.mode = LockExclusive
  BY <1>2, <1>4 DEF LocalRes
<1>7. job' = [job EXCEPT ![i][1] = J(i)]
  BY <1>2, <1>3, SameParts
<1>8. Owned(i) = r.mode
  BY <1>4, <1>5, <1>6 DEF Owned
<1> HIDE DEF r
<1>9. /\ res'[i] = r /\ sess'[s] = NoCall /\ \A t \in Session \ {s} : sess'[t] = sess[t]
      /\ NoCall \in CallRec /\ NoCall.pc = "idle"
  BY <1>2, <1>3, OneRsn DEF NoCall
<1>10. SpinOK(i)'
  BY <1>4, <1>6, <1>9, Modes DEF SpinOK, Held
<1>11. sess[s].pc # "idle"
  BY <1>3 DEF Held
<1>12. PICK v \in CallRec : v = NoCall /\ v.pc = "idle"
  BY <1>9
<1>13. res[i].resx \in {NoSession, s} /\ sess' = [sess EXCEPT ![s] = v]
  BY <1>3, <1>4, <1>12
<1>14. QED
  BY <1>1, <1>2, <1>3, <1>5, <1>6, <1>7, <1>8, <1>10, <1>11, <1>12, <1>13, FreeStep

---------------------------------------------------------------------------
(* The sharers of a latch. *)
LEMMA SharersFinite ==
    ASSUME NEW i
    PROVE  /\ IsFiniteSet(Sharers(i)) /\ Cardinality(Sharers(i)) \in Nat
           /\ Cardinality(Sharers(i)) = 0 <=> Sharers(i) = {}
<1>1. Sharers(i) \subseteq Session
  BY DEF Sharers
<1>2. IsFiniteSet(Sharers(i))
  BY <1>1, SessionAssumption, FS_Subset
<1>3. QED
  BY <1>2, FS_CardinalityType, FS_EmptySet

(* A session that does not ask gets the latch: it is free, or shared by    *)
(* others, or the session's intent has made the sharers leave.             *)
LEMMA LatchGrants ==
    ASSUME NEW s \in Session, NEW i, i = Home[s], LatchOK(i), NEW call \in LatchCalls,
           sess[s].call = call, sess'[s].call = call, ~Held(s), Held(s)',
           \A t \in Session \ {s} : sess'[t] = sess[t],
           \A t \in Session \ {s} : Home[t] = i => ~Asking(t),
           res[i].shared \in Nat,
           IF call \in XCalls THEN res'[i].stat = "X" /\ res'[i].shared = res[i].shared
           ELSE res'[i].stat = "S" /\ res'[i].shared = res[i].shared + 1,
           \/ res[i].stat = "IDLE"
           \/ res[i].stat = "S" /\ call \notin XCalls
           \/ res[i].stat = "IX" /\ res[i].shared = 0 /\ call \in XCalls /\ sess[s].pc \in IntentPc,
           res'[i].mode # LockNull, call \notin ShareCalls => res'[i].mode = LockExclusive,
           res[i].mode = LockExclusive => res'[i].mode = LockExclusive
    PROVE  LatchOK(i)'
<1>1. /\ res[i].shared = Cardinality(Sharers(i)) /\ IsFiniteSet(Sharers(i))
      /\ res[i].shared = 0 => Sharers(i) = {}
      /\ res[i].stat \in {"IDLE", "X"} => res[i].shared = 0
  BY SharersFinite DEF LatchOK
<1>2. \A t \in Session : Home[t] = i => LatchCallOK(t, res[i])
  BY DEF LatchOK
<1>3. \A t \in Session : Home[t] = i /\ Held(t) => res[i].stat = "S" /\ sess[t].call \notin XCalls
  <2> SUFFICES ASSUME NEW t \in Session, Home[t] = i, Held(t)
               PROVE  res[i].stat = "S" /\ sess[t].call \notin XCalls
    OBVIOUS
  <2>1. sess[t].call \notin XCalls
    BY <1>2 DEF LatchCallOK
  <2>2. t \in Sharers(i)
    BY <2>1 DEF Sharers
  <2>3. QED
    BY <1>1, <2>1, <2>2
<1>4. \A t \in Session \ {s} : Home[t] = i => sess[t].pc \notin IntentPc
  BY <1>2 DEF LatchOK, LatchCallOK
<1>5. /\ res'[i].shared = Cardinality(Sharers(i)')
      /\ res'[i].stat \in {"IDLE", "X"} => res'[i].shared = 0
      /\ res'[i].stat = "S" => res'[i].shared > 0
  <2>1. CASE call \in XCalls
    <3>1. Sharers(i)' = Sharers(i)
      BY <2>1 DEF Sharers, Held
    <3>2. QED
      BY <1>1, <2>1, <3>1
  <2>2. CASE call \notin XCalls
    <3>1. Sharers(i)' = Sharers(i) \cup {s} /\ s \notin Sharers(i)
      BY <2>2 DEF Sharers, Held
    <3>2. Cardinality(Sharers(i) \cup {s}) = Cardinality(Sharers(i)) + 1
      BY <1>1, <3>1, FS_AddElement
    <3>3. QED
      BY <1>1, <2>2, <3>1, <3>2
  <2>3. QED
    BY <2>1, <2>2
<1>6. ASSUME NEW t \in Session, Home[t] = i PROVE LatchCallOK(t, res[i])'
  <2>1. CASE t = s
    BY <2>1 DEF LatchCallOK, Held, IntentPc
  <2>2. CASE t # s
    <3>1. sess'[t] = sess[t] /\ ~Asking(t) /\ sess[t].pc \notin IntentPc /\ LatchCallOK(t, res[i])
      BY <1>2, <1>4, <1>6, <2>2
    <3>2. Held(t) => res[i].stat = "S" /\ sess[t].call \notin XCalls
      BY <1>3, <1>6
    <3>3. QED
      BY <3>1, <3>2 DEF LatchCallOK, Held, Asking, XCalls
  <2>3. QED
    BY <2>1, <2>2
<1>7. ASSUME NEW t \in Session, NEW u \in Session, t # u, Home[t] = i, Home[u] = i
      PROVE  /\ ~(sess'[t].pc \in IntentPc /\ sess'[u].pc \in IntentPc)
             /\ ~(Held(t)' /\ Held(u)' /\ res'[i].stat = "X")
  <2>1. sess'[s].pc \notin IntentPc
    BY DEF Held, IntentPc
  <2>2. ASSUME NEW w \in Session \ {s}, Home[w] = i, Held(w)' PROVE res'[i].stat # "X"
    <3>1. Held(w)
      BY <2>2 DEF Held
    <3>2. res[i].stat = "S"
      BY <1>3, <2>2, <3>1
    <3>3. QED
      BY <3>2
  <2>3. QED
    BY <1>4, <1>7, <2>1, <2>2
<1>8. QED
  BY <1>5, <1>6, <1>7 DEF LatchOK

(* The entry of a granted latch. *)
LEMMA LatchedFields ==
    ASSUME NEW r \in LocalRes, NEW call
    PROVE  /\ Latched(r, call) \in LocalRes
           /\ Latched(r, call).resx = r.resx /\ Latched(r, call).there = r.there
           /\ Latched(r, call).mode = r.mode
           /\ IF call \in XCalls
              THEN Latched(r, call).stat = "X" /\ Latched(r, call).shared = r.shared
              ELSE Latched(r, call).stat = "S" /\ Latched(r, call).shared = r.shared + 1
<1>1. CASE call \in XCalls
  <2>1. Latched(r, call) = [r EXCEPT !.stat = "X", !.locked = TRUE, !.owner = TRUE]
    BY <1>1 DEF Latched, XCalls
  <2>2. QED
    BY <1>1, <2>1 DEF LocalRes
<1>2. CASE call \notin XCalls
  <2>1. Latched(r, call) = [r EXCEPT !.stat = "S", !.shared = @ + 1, !.locked = TRUE, !.owner = TRUE]
    BY <1>2 DEF Latched, XCalls
  <2>2. r.shared + 1 \in Nat
    BY DEF LocalRes
  <2>3. QED
    BY <1>2, <2>1, <2>2 DEF LocalRes
<1>3. QED
  BY <1>1, <1>2

LEMMA LatchTakeIInv == \A s \in Session : IInv /\ LatchTake(s) => IInv'
<1> SUFFICES ASSUME NEW s \in Session, IInv, LatchTake(s) PROVE IInv'
  OBVIOUS
<1>1. PICK i : i = Home[s]
  OBVIOUS
<1>2. PICK call : call = sess[s].call
  OBVIOUS
<1>3. /\ i \in Inst /\ res[i] \in LocalRes /\ res \in [Inst -> LocalRes] /\ J(i) \in JobRec
      /\ job \in [Inst -> [Rsn -> JobRec]] /\ sess \in [Session -> CallRec]
      /\ CallOK(s) /\ EntryOK(i) /\ (kind = "latch" => LatchOK(i)) /\ s # NoSession
      /\ \A t \in Session : Home[t] = i => CallOK(t)
      /\ res[i].mode \in LockMode /\ res[i].shared \in Nat
  BY <1>1, SessionFacts
<1>4. /\ kind = "latch" /\ sess[s].pc = "start" /\ res[i].resx = NoSession
      /\ LatchNow(res[i], call) /\ res' = [res EXCEPT ![i] = Latched(res[i], call)]
      /\ Goto(s, "held") /\ "held" \in Pc
      /\ UNCHANGED <<kind, drc, job, rels, rsn, ops, used>>
  BY <1>1, <1>2 DEF LatchTake, LatchTop, ResxFree, Pc
<1>5. PICK v \in CallRec : /\ sess' = [sess EXCEPT ![s] = v]
                           /\ v.pc = "held" /\ v.call = call
  BY <1>2, <1>4, GotoCall
<1>6. PICK r \in LocalRes : r = Latched(res[i], call)
  BY <1>3, LatchedFields
<1>7. J(i).pc = "none" /\ call \in LatchCalls /\ LatchOK(i)
  BY <1>2, <1>3, <1>4 DEF EntryOK, CallOK, CallsOf
<1>8. /\ res'[i] = r /\ r.resx = NoSession /\ r.there = res[i].there /\ r.mode = res[i].mode
      /\ IF call \in XCalls THEN r.stat = "X" /\ r.shared = res[i].shared
         ELSE r.stat = "S" /\ r.shared = res[i].shared + 1
  BY <1>3, <1>4, <1>6, LatchedFields
<1>9. sess'[s] = v /\ \A t \in Session \ {s} : sess'[t] = sess[t]
  BY <1>3, <1>5
<1>10. ASSUME NEW t \in Session \ {s}, Home[t] = i PROVE ~Asking(t)
  BY <1>3, <1>4, <1>10, SessionAssumption DEF CallOK
<1>11. /\ res[i].mode # LockNull /\ (call \notin ShareCalls => res[i].mode = LockExclusive)
       /\ res[i].stat = "IDLE" \/ (res[i].stat = "S" /\ call \notin XCalls)
  BY <1>3, <1>4, <1>7, Modes DEF LatchNow, OwnedEnough, ReqMode, LatchOK, ShareCalls, XCalls
<1>12. ~Held(s) /\ Held(s)' /\ sess[s].call = call /\ sess'[s].call = call
  BY <1>2, <1>4, <1>5, <1>9 DEF Held
<1>13. LatchOK(i)'
  BY <1>1, <1>3, <1>7, <1>8, <1>9, <1>10, <1>11, <1>12, LatchGrants
<1>14. /\ job' = [job EXCEPT ![i][1] = J(i)] /\ J(i) \in JobRec /\ J(i).pc = "none"
       /\ sess' = [sess EXCEPT ![s] = v] /\ res' = [res EXCEPT ![i] = r]
  BY <1>3, <1>4, <1>5, <1>6, <1>7, SameParts
<1>15. /\ Owned(i) = r.mode /\ r.resx = NoSession /\ r.there = res[i].there
       /\ sess[s].pc # "idle" /\ res[i].resx \in {NoSession, s}
       /\ v.pc \notin {"req", "ixreq"} /\ (v.pc # "idle" => v.call = sess[s].call)
  BY <1>2, <1>4, <1>5, <1>7, <1>8 DEF Owned
<1>16. UNCHANGED <<kind, drc, rels, rsn, ops, used>> /\ (kind = "spin" => SpinOK(i)')
  BY <1>4
<1>17. QED
  BY <1>1, <1>13, <1>14, <1>15, <1>16, FreeStep

LEMMA AnswerOkIInv == \A s \in Session : IInv /\ AnswerOk(s) => IInv'
<1> SUFFICES ASSUME NEW s \in Session, IInv, AnswerOk(s) PROVE IInv'
  OBVIOUS
<1>1. PICK i : i = Home[s]
  OBVIOUS
<1>2. PICK call : call = sess[s].call
  OBVIOUS
<1>3. /\ i \in Inst /\ res[i] \in LocalRes /\ res \in [Inst -> LocalRes] /\ J(i) \in JobRec
      /\ job \in [Inst -> [Rsn -> JobRec]] /\ sess \in [Session -> CallRec] /\ rsn[i] = 1
      /\ CallOK(s) /\ EntryOK(i) /\ (kind = "latch" => LatchOK(i)) /\ s # NoSession
      /\ (kind = "spin" => SpinOK(i)) /\ kind \in {"spin", "latch"}
      /\ \A t \in Session : Home[t] = i => CallOK(t)
      /\ res[i].mode \in LockMode /\ res[i].shared \in Nat
  BY <1>1, SessionFacts
<1>4. PICK r1 \in LocalRes : /\ r1 = [res[i] EXCEPT !.mode = ReqMode(call)]
                             /\ r1.mode = ReqMode(call) /\ r1.stat = res[i].stat
                             /\ r1.shared = res[i].shared /\ r1.there = res[i].there
                             /\ r1.resx = res[i].resx
  <2> DEFINE w == [res[i] EXCEPT !.mode = ReqMode(call)]
  <2>1. /\ w \in LocalRes /\ w = [res[i] EXCEPT !.mode = ReqMode(call)]
        /\ w.mode = ReqMode(call) /\ w.stat = res[i].stat
        /\ w.shared = res[i].shared /\ w.there = res[i].there
        /\ w.resx = res[i].resx
    BY <1>3, Modes DEF LocalRes
  <2> HIDE DEF w
  <2>2. QED
    BY <2>1
<1>5. /\ Asking(s) /\ J(i).pc = "ok" /\ Goto(s, "held") /\ "held" \in Pc
      /\ res' = [res EXCEPT ![i] =
                 IF kind = "spin" THEN [r1 EXCEPT !.locked = TRUE, !.owner = TRUE]
                 ELSE [Latched(r1, call) EXCEPT !.resx = NoSession]]
      /\ job' = [job EXCEPT ![i][1] = NoJob]
      /\ UNCHANGED <<kind, drc, rels, rsn, ops, used>>
  BY <1>1, <1>2, <1>3, <1>4 DEF AnswerOk, MyJob, J, Asking, Pc
<1>6. PICK v \in CallRec : /\ sess' = [sess EXCEPT ![s] = v]
                           /\ v.pc = "held" /\ v.call = call
  BY <1>2, <1>5, GotoCall
<1>7. /\ res[i].resx = s /\ Owned(i) = ReqMode(call) /\ ~Active(i)
      /\ sess[s].pc # "idle" /\ NoJob \in JobRec /\ NoJob.pc = "none"
  BY <1>1, <1>2, <1>3, <1>5, OneRsn DEF CallOK, Owned, Active, Asking, NoJob
<1>8. sess'[s] = v /\ \A t \in Session \ {s} : sess'[t] = sess[t]
  BY <1>3, <1>6
<1>9. ASSUME NEW t \in Session \ {s}, Home[t] = i PROVE ~Asking(t)
  BY <1>3, <1>7, <1>9 DEF CallOK
<1>10. CASE kind = "spin"
  <2>1. PICK r \in LocalRes : /\ r = [r1 EXCEPT !.locked = TRUE, !.owner = TRUE]
                              /\ r.locked /\ r.owner /\ r.mode = r1.mode /\ r.resx = r1.resx
                              /\ r.there = r1.there
    <3> DEFINE w == [r1 EXCEPT !.locked = TRUE, !.owner = TRUE]
    <3>1. /\ w \in LocalRes /\ w = [r1 EXCEPT !.locked = TRUE, !.owner = TRUE]
          /\ w.locked /\ w.owner /\ w.mode = r1.mode /\ w.resx = r1.resx
          /\ w.there = r1.there
      BY <1>4 DEF LocalRes
    <3> HIDE DEF w
    <3>2. QED
      BY <3>1
  <2>2. ReqMode(call) = LockExclusive /\ sess[s].pc = "req"
    BY <1>1, <1>2, <1>3, <1>5, <1>7, <1>10 DEF CallOK, CallsOf, ReqMode, SpinCalls, ShareCalls, SpinOK, Asking
  <2>3. res' = [res EXCEPT ![i] = r] /\ r.resx = s
    BY <1>4, <1>5, <1>7, <1>10, <2>1
  <2>4. /\ r.there = res[i].there /\ r.locked /\ r.owner /\ r.mode = LockExclusive
        /\ res[i].resx \in {NoSession, s} /\ sess[s].pc \in {"start", "req"}
        /\ v.pc = "held" /\ v.call = sess[s].call /\ Owned(i) = LockExclusive
    BY <1>2, <1>4, <1>6, <1>7, <2>1, <2>2
  <2>5. /\ job' = [job EXCEPT ![i][1] = NoJob] /\ NoJob \in JobRec /\ NoJob.pc = "none" /\ ~Active(i)
        /\ UNCHANGED <<kind, drc, rels, rsn, ops, used>>
    BY <1>5, <1>7
  <2>6. QED
    BY <1>1, <1>6, <1>10, <2>3, <2>4, <2>5, SpinHoldStep
<1>11. CASE kind = "latch"
  <2>1. LatchOK(i) /\ LatchCallOK(s, res[i]) /\ call \in LatchCalls
    BY <1>1, <1>2, <1>3, <1>7, <1>11 DEF LatchOK, CallOK, CallsOf
  <2>2. PICK l \in LocalRes : l = Latched(r1, call)
    BY LatchedFields
  <2>3. /\ l.there = r1.there /\ l.mode = r1.mode
        /\ IF call \in XCalls THEN l.stat = "X" /\ l.shared = r1.shared
           ELSE l.stat = "S" /\ l.shared = r1.shared + 1
    BY <2>2, LatchedFields
  <2>4. PICK r \in LocalRes : /\ r = [l EXCEPT !.resx = NoSession]
                              /\ r.resx = NoSession /\ r.there = l.there /\ r.mode = l.mode
                              /\ r.stat = l.stat /\ r.shared = l.shared
    <3> DEFINE w == [l EXCEPT !.resx = NoSession]
    <3>1. /\ w \in LocalRes /\ w = [l EXCEPT !.resx = NoSession]
          /\ w.resx = NoSession /\ w.there = l.there /\ w.mode = l.mode
          /\ w.stat = l.stat /\ w.shared = l.shared
      BY DEF LocalRes
    <3> HIDE DEF w
    <3>2. QED
      BY <3>1
  <2>5. res' = [res EXCEPT ![i] = r] /\ res'[i] = r
    BY <1>3, <1>5, <1>11, <2>2, <2>4
  <2>6. /\ r.mode # LockNull /\ (call \notin ShareCalls => r.mode = LockExclusive)
        /\ res[i].mode = LockExclusive => r.mode = LockExclusive
    <3>1. sess[s].pc \in {"req", "ixreq"}
      BY <1>5 DEF Asking
    <3>2. r.mode = ReqMode(call) /\ ReqMode(call) \in {1, 2}
      BY <1>4, <2>3, <2>4, Modes
    <3>3. sess[s].pc = "req" => res[i].mode < ReqMode(call)
      BY <1>1, <1>2, <1>3 DEF CallOK
    <3>4. sess[s].pc = "ixreq" => call \in XCalls
      BY <1>2, <2>1 DEF LatchCallOK, IntentPc
    <3>5. call \notin ShareCalls => r.mode = LockExclusive
      BY <3>2 DEF ReqMode
    <3>6. call \in XCalls => call \notin ShareCalls
      BY DEF XCalls, ShareCalls
    <3>7. res[i].mode = LockExclusive => r.mode = LockExclusive
      BY <3>1, <3>2, <3>3, <3>4, <3>5, <3>6, Modes
    <3>8. QED
      BY <3>2, <3>5, <3>7, Modes
  <2>7. \/ res[i].stat = "IDLE"
        \/ res[i].stat = "S" /\ call \notin XCalls
        \/ res[i].stat = "IX" /\ res[i].shared = 0 /\ call \in XCalls /\ sess[s].pc \in IntentPc
    BY <1>2, <1>5, <2>1 DEF Asking, LatchCallOK, IntentPc, XCalls
  <2>8. ~Held(s) /\ Held(s)' /\ sess[s].call = call /\ sess'[s].call = call
    BY <1>2, <1>5, <1>6, <1>8 DEF Held, Asking
  <2>9. LatchOK(i)'
    BY <1>1, <1>3, <1>4, <1>8, <1>9, <2>1, <2>3, <2>4, <2>5, <2>6, <2>7, <2>8, LatchGrants
  <2>10. /\ Owned(i) = r.mode /\ r.resx = NoSession /\ r.there = res[i].there
         /\ sess[s].pc # "idle" /\ res[i].resx \in {NoSession, s}
         /\ v.pc \notin {"req", "ixreq"} /\ (v.pc # "idle" => v.call = sess[s].call)
    BY <1>2, <1>4, <1>6, <1>7, <2>3, <2>4
  <2>11. /\ job' = [job EXCEPT ![i][1] = NoJob] /\ NoJob \in JobRec /\ NoJob.pc = "none" /\ ~Active(i)
         /\ UNCHANGED <<kind, drc, rels, rsn, ops, used>> /\ (kind = "spin" => SpinOK(i)')
    BY <1>5, <1>7, <1>11
  <2>12. QED
    BY <1>1, <1>6, <2>5, <2>9, <2>10, <2>11, FreeStep
<1>12. QED
  BY <1>3, <1>10, <1>11

LEMMA GiveUpIInv == \A s \in Session : IInv /\ GiveUp(s) => IInv'
<1> SUFFICES ASSUME NEW s \in Session, IInv, GiveUp(s) PROVE IInv'
  OBVIOUS
<1> DEFINE i == Home[s]
           returns == sess[s].call \in TimedCalls \cup {"try"} /\ sess[s].pc = "req"
           r == IF returns
                THEN [res[i] EXCEPT !.resx = NoSession, !.locked = FALSE, !.owner = FALSE,
                                    !.mode = IF kind = "spin" THEN LockNull ELSE res[i].mode]
                ELSE [res[i] EXCEPT !.resx = NoSession]
           v == IF returns THEN NoCall
                ELSE [sess[s] EXCEPT !.tries = 0, !.pc = IF sess[s].pc = "req" THEN "start" ELSE "ix"]
<1>2. /\ i \in Inst /\ res[i] \in LocalRes /\ res \in [Inst -> LocalRes] /\ J(i) \in JobRec
      /\ job \in [Inst -> [Rsn -> JobRec]] /\ sess \in [Session -> CallRec] /\ rsn[i] = 1
      /\ CallOK(s) /\ EntryOK(i) /\ (kind = "latch" => LatchOK(i)) /\ s # NoSession
      /\ (kind = "spin" => SpinOK(i)) /\ kind \in {"spin", "latch"} /\ sess[s] \in CallRec
      /\ res[i].mode \in LockMode /\ res[i].shared \in Nat
  BY SessionFacts
<1>3. /\ sess[s].pc \in {"req", "ixreq"} /\ J(i).pc = "fail"
      /\ sess[s].call = "try" \/ kind = "latch"
      /\ res' = [res EXCEPT ![i] = r] /\ sess' = [sess EXCEPT ![s] = v]
      /\ job' = [job EXCEPT ![i][1] = NoJob]
      /\ UNCHANGED <<kind, drc, rels, rsn, ops, used>>
  <2>1. sess[s].pc \in {"req", "ixreq"} /\ MyJob(s).pc = "fail"
        /\ (sess[s].call = "try" \/ kind = "latch")
    BY DEF GiveUp
  <2>2. MyJob(s) = J(i)
    BY <1>2 DEF MyJob, J
  <2>3. res' = [res EXCEPT ![i] = r]
    BY DEF GiveUp
  <2>4. sess' = [sess EXCEPT ![s] = v]
    BY DEF GiveUp
  <2>5. job' = [job EXCEPT ![i][1] = NoJob]
    BY <1>2 DEF GiveUp
  <2>6. QED
    BY <2>1, <2>2, <2>3, <2>4, <2>5 DEF GiveUp
<1>4. /\ v \in CallRec /\ v.pc \in {"idle", "start", "ix"}
      /\ v.pc # "idle" => v.call = sess[s].call
      /\ v.pc = "ix" => sess[s].pc = "ixreq" /\ ~returns
  BY <1>2, <1>3, OneRsn DEF CallRec, Pc, NoCall
<1>5. /\ r \in LocalRes /\ r.resx = NoSession /\ r.there = res[i].there /\ r.stat = res[i].stat
      /\ r.shared = res[i].shared /\ (kind = "latch" => r.mode = res[i].mode)
      /\ returns => ~r.owner /\ ~r.locked
      /\ returns /\ kind = "spin" => r.mode = LockNull
  BY <1>2, Modes DEF LocalRes
<1>6. /\ res[i].resx = s /\ Owned(i) = res[i].mode /\ ~Active(i) /\ sess[s].pc # "idle"
      /\ NoJob \in JobRec /\ NoJob.pc = "none"
  BY <1>2, <1>3, OneRsn DEF CallOK, Owned, Active, Asking, NoJob
<1>7. kind = "spin" => returns /\ v = NoCall /\ res[i].mode = LockNull
  <2> SUFFICES ASSUME kind = "spin" PROVE returns /\ v = NoCall /\ res[i].mode = LockNull
    OBVIOUS
  <2>1. sess[s].call = "try" /\ sess[s].pc = "req" /\ SpinOK(i)
    BY <1>2, <1>3 DEF SpinOK
  <2>2. returns /\ v = NoCall
    BY <2>1
  <2>3. res[i].mode < ReqMode(sess[s].call) /\ res[i].mode # LockShare
    BY <1>2, <2>1 DEF CallOK, SpinOK
  <2>4. QED
    BY <1>2, <2>2, <2>3, Modes
<1>8. res'[i] = r /\ sess'[s] = v /\ \A t \in Session \ {s} : sess'[t] = sess[t]
  BY <1>2, <1>3
<1> HIDE DEF r, v, returns, i
<1>1. i = Home[s]
  BY DEF i
<1>9. kind = "spin" => SpinOK(i)'
  <2> SUFFICES ASSUME kind = "spin" PROVE SpinOK(i)'
    OBVIOUS
  <2>1. SpinOK(i) /\ v.pc = "idle" /\ ~r.owner /\ ~r.locked /\ r.mode = LockNull
    BY <1>2, <1>5, <1>7 DEF NoCall
  <2>2. ASSUME NEW t \in Session \ {s}, Home[t] = i PROVE ~Held(t)
    BY <1>6, <2>1, <2>2 DEF SpinOK
  <2>3. QED
    BY <1>8, <2>1, <2>2, Modes DEF SpinOK, Held
<1>10. kind = "latch" => LatchOK(i)'
  <2> SUFFICES ASSUME kind = "latch" PROVE LatchOK(i)'
    OBVIOUS
  <2>1. LatchOK(i) /\ LatchCallOK(s, res[i])
    BY <1>1, <1>2 DEF LatchOK
  <2>2. /\ LatchCallOK(s, res[i])' /\ ~Held(s) /\ ~Held(s)'
        /\ sess'[s].pc \in IntentPc => sess[s].pc \in IntentPc
    BY <1>3, <1>4, <1>5, <1>8, <2>1 DEF LatchCallOK, Held, IntentPc
  <2>3. QED
    BY <1>1, <1>5, <1>8, <2>1, <2>2, LatchKeeps
<1>11. Owned(i) = r.mode
  <2>1. CASE kind = "spin"
    BY <1>5, <1>6, <1>7, <2>1
  <2>2. CASE kind = "latch"
    BY <1>5, <1>6, <2>2
  <2>3. QED
    BY <1>2, <2>1, <2>2
<1>12. /\ r.resx = NoSession /\ r.there = res[i].there
       /\ sess[s].pc # "idle" /\ res[i].resx \in {NoSession, s}
       /\ v.pc \notin {"req", "ixreq"} /\ (v.pc # "idle" => v.call = sess[s].call)
  BY <1>4, <1>5, <1>6
<1>13. /\ job' = [job EXCEPT ![i][1] = NoJob] /\ NoJob \in JobRec /\ NoJob.pc = "none" /\ ~Active(i)
       /\ sess' = [sess EXCEPT ![s] = v] /\ res' = [res EXCEPT ![i] = r]
       /\ UNCHANGED <<kind, drc, rels, rsn, ops, used>> /\ v \in CallRec /\ r \in LocalRes
  BY <1>3, <1>4, <1>5, <1>6
<1>14. QED
  BY <1>1, <1>9, <1>10, <1>11, <1>12, <1>13, FreeStep

(* A step under the free resx that changes the status of the latch. *)
LEMMA LatchStatStep ==
    ASSUME IInv, NEW s \in Session, NEW i, i = Home[s], kind = "latch", ResxFree(i),
           NEW v \in CallRec, sess' = [sess EXCEPT ![s] = v],
           NEW r \in LocalRes, res' = [res EXCEPT ![i] = r], r.mode = res[i].mode,
           r.resx = NoSession, r.there = res[i].there,
           UNCHANGED <<kind, drc, job, rels, rsn, ops, used>>,
           sess[s].pc # "idle", v.pc \notin {"req", "ixreq"}, v.pc # "idle" => v.call = sess[s].call,
           (\A t \in Session \ {s} : sess'[t] = sess[t]) => LatchOK(i)'
    PROVE  IInv'
<1>1. /\ i \in Inst /\ res[i] \in LocalRes /\ res \in [Inst -> LocalRes] /\ J(i) \in JobRec
      /\ job \in [Inst -> [Rsn -> JobRec]] /\ sess \in [Session -> CallRec] /\ EntryOK(i)
  BY SessionFacts
<1>2. res[i].resx = NoSession /\ J(i).pc = "none" /\ Owned(i) = r.mode
  BY <1>1 DEF ResxFree, EntryOK, Owned
<1>3. LatchOK(i)'
  BY <1>1
<1>4. job' = [job EXCEPT ![i][1] = J(i)]
  BY <1>1, SameParts
<1>5. UNCHANGED <<kind, drc, rels, rsn, ops, used>> /\ (kind = "spin" => SpinOK(i)')
  OBVIOUS
<1>6. res[i].resx \in {NoSession, s} /\ J(i) \in JobRec
  BY <1>1, <1>2
<1>7. /\ Owned(i) = r.mode /\ r.resx = NoSession /\ r.there = res[i].there /\ i = Home[s]
      /\ sess[s].pc # "idle" /\ v.pc \notin {"req", "ixreq"} /\ (v.pc # "idle" => v.call = sess[s].call)
      /\ sess' = [sess EXCEPT ![s] = v] /\ res' = [res EXCEPT ![i] = r]
  BY <1>2
<1>8. QED
  BY ONLY IInv, s \in Session, v \in CallRec, r \in LocalRes, <1>2, <1>3, <1>4, <1>5, <1>6, <1>7, FreeStep

(* The holders, intents and requests of a latch whose resx is free. *)
LEMMA FreeLatch ==
    ASSUME IInv, NEW s \in Session, NEW i, i = Home[s], kind = "latch", ResxFree(i)
    PROVE  /\ LatchOK(i) /\ res[i].resx = NoSession /\ sess \in [Session -> CallRec]
           /\ \A t \in Session : Home[t] = i =>
                 LatchCallOK(t, res[i]) /\ ~Asking(t) /\ sess[t].pc \notin {"req", "ixreq"}
           /\ IsFiniteSet(Sharers(i)) /\ res[i].shared = Cardinality(Sharers(i))
           /\ res[i].shared \in Nat /\ res[i] \in LocalRes /\ res \in [Inst -> LocalRes] /\ i \in Inst
<1>1. /\ LatchOK(i) /\ \A t \in Session : Home[t] = i => CallOK(t)
      /\ res[i].shared \in Nat /\ res[i] \in LocalRes /\ res \in [Inst -> LocalRes] /\ i \in Inst
      /\ sess \in [Session -> CallRec]
  BY SessionFacts
<1>2. ASSUME NEW t \in Session, Home[t] = i PROVE ~Asking(t)
  BY <1>1, <1>2, SessionAssumption DEF ResxFree, CallOK
<1>3. QED
  BY <1>1, <1>2, SharersFinite DEF LatchOK, ResxFree, Asking

LEMMA LatchIntentIInv == \A s \in Session : IInv /\ LatchIntent(s) => IInv'
<1> SUFFICES ASSUME NEW s \in Session, IInv, LatchIntent(s) PROVE IInv'
  OBVIOUS
<1>1. PICK i : i = Home[s]
  OBVIOUS
<1>2. /\ kind = "latch" /\ sess[s].pc = "start" /\ ResxFree(i) /\ res[i].stat = "S"
      /\ sess[s].call \in XCalls /\ res' = [res EXCEPT ![i].stat = "IX"]
      /\ Goto(s, "ix") /\ "ix" \in Pc
      /\ UNCHANGED <<kind, drc, job, rels, rsn, ops, used>>
  BY <1>1 DEF LatchIntent, LatchTop, LatchUpgrades, XCalls, Pc
<1>3. PICK v \in CallRec : /\ sess' = [sess EXCEPT ![s] = v]
                           /\ v.pc = "ix" /\ v.call = sess[s].call
  BY <1>2, GotoCall
<1>4. /\ LatchOK(i) /\ res[i].resx = NoSession /\ sess \in [Session -> CallRec]
      /\ \A t \in Session : Home[t] = i => LatchCallOK(t, res[i]) /\ sess[t].pc \notin {"req", "ixreq"}
      /\ res[i] \in LocalRes /\ res \in [Inst -> LocalRes] /\ i \in Inst
  BY <1>1, <1>2, FreeLatch
<1>5. PICK r \in LocalRes : /\ r = [res[i] EXCEPT !.stat = "IX"] /\ r.stat = "IX"
                            /\ r.shared = res[i].shared /\ r.mode = res[i].mode
                            /\ r.resx = NoSession /\ r.there = res[i].there
  <2> DEFINE w == [res[i] EXCEPT !.stat = "IX"]
  <2>1. /\ w \in LocalRes /\ w = [res[i] EXCEPT !.stat = "IX"] /\ w.stat = "IX"
        /\ w.shared = res[i].shared /\ w.mode = res[i].mode
        /\ w.resx = NoSession /\ w.there = res[i].there
    BY <1>4 DEF LocalRes
  <2> HIDE DEF w
  <2>2. QED
    BY <2>1
<1>6. res' = [res EXCEPT ![i] = r] /\ res'[i] = r
  BY <1>2, <1>4, <1>5
<1>7. ASSUME \A t \in Session \ {s} : sess'[t] = sess[t] PROVE LatchOK(i)'
  <2>1. sess'[s] = v
    BY <1>3, <1>4
  <2>2. Sharers(i)' = Sharers(i)
    BY <1>2, <1>3, <1>7, <2>1 DEF Sharers, Held
  <2>3. ASSUME NEW t \in Session, Home[t] = i
        PROVE  LatchCallOK(t, res[i])' /\ (t # s => sess'[t].pc \notin IntentPc)
    <3>1. CASE t = s
      <4>1. sess'[s].pc = "ix" /\ sess'[s].call \in XCalls /\ res'[i].stat = "IX"
        BY <1>2, <1>3, <1>5, <1>6, <2>1
      <4>2. QED
        BY <3>1, <4>1 DEF LatchCallOK, Held, IntentPc
    <3>2. CASE t # s
      <4>1. LatchCallOK(t, res[i]) /\ sess'[t] = sess[t] /\ sess[t].pc \notin {"req", "ixreq"}
        BY <1>4, <1>7, <2>3, <3>2
      <4>2. sess[t].pc \notin IntentPc
        BY <1>2, <4>1 DEF LatchCallOK
      <4>3. LatchCallOK(t, res[i])'
        BY <1>2, <1>5, <1>6, <4>1, <4>2 DEF LatchCallOK, Held
      <4>4. QED
        BY <4>1, <4>2, <4>3
    <3>3. QED
      BY <3>1, <3>2
  <2>4. QED
    BY <1>4, <1>5, <1>6, <2>2, <2>3 DEF LatchOK
<1>8. sess[s].pc # "idle" /\ v.pc \notin {"req", "ixreq"} /\ (v.pc # "idle" => v.call = sess[s].call)
  BY <1>2, <1>3
<1>9. /\ r.mode = res[i].mode /\ r.resx = NoSession /\ r.there = res[i].there
      /\ sess' = [sess EXCEPT ![s] = v] /\ res' = [res EXCEPT ![i] = r]
  BY <1>3, <1>5, <1>6
<1>10. kind = "latch" /\ ResxFree(i) /\ UNCHANGED <<kind, drc, job, rels, rsn, ops, used>>
  BY <1>2
<1>11. QED
  BY <1>1, <1>7, <1>8, <1>9, <1>10, LatchStatStep

LEMMA IxGiveUpIInv == \A s \in Session : IInv /\ IxGiveUp(s) => IInv'
<1> SUFFICES ASSUME NEW s \in Session, IInv, IxGiveUp(s) PROVE IInv'
  OBVIOUS
<1>1. PICK i : i = Home[s]
  OBVIOUS
<1>2. PICK st : st = AfterIx(res[i])
  OBVIOUS
<1>3. /\ sess[s].pc = "ixgive" /\ ResxFree(i) /\ res' = [res EXCEPT ![i].stat = st]
      /\ sess' = [sess EXCEPT ![s] = NoCall] /\ NoCall \in CallRec /\ NoCall.pc = "idle"
      /\ UNCHANGED <<kind, drc, job, rels, rsn, ops, used>>
  BY <1>1, <1>2, OneRsn DEF IxGiveUp, Return, NoCall
<1>4. kind = "latch"
  BY <1>1, <1>3, SessionFacts DEF SpinOK
<1>5. /\ LatchOK(i) /\ res[i].resx = NoSession /\ sess \in [Session -> CallRec]
      /\ \A t \in Session : Home[t] = i => LatchCallOK(t, res[i]) /\ sess[t].pc \notin {"req", "ixreq"}
      /\ res[i] \in LocalRes /\ res \in [Inst -> LocalRes] /\ i \in Inst /\ res[i].shared \in Nat
  BY <1>1, <1>3, <1>4, FreeLatch
<1>6. res[i].stat = "IX"
  BY <1>1, <1>3, <1>5 DEF LatchCallOK, IntentPc
<1>7. st \in {"S", "IDLE"} /\ (st = "S" => res[i].shared > 0) /\ (st = "IDLE" => res[i].shared = 0)
  BY <1>2, <1>5 DEF AfterIx
<1>8. PICK r \in LocalRes : /\ r = [res[i] EXCEPT !.stat = st] /\ r.stat = st
                            /\ r.shared = res[i].shared /\ r.mode = res[i].mode
                            /\ r.resx = NoSession /\ r.there = res[i].there
  <2> DEFINE w == [res[i] EXCEPT !.stat = st]
  <2>1. /\ w \in LocalRes /\ w = [res[i] EXCEPT !.stat = st] /\ w.stat = st
        /\ w.shared = res[i].shared /\ w.mode = res[i].mode
        /\ w.resx = NoSession /\ w.there = res[i].there
    BY <1>5, <1>7 DEF LocalRes
  <2> HIDE DEF w
  <2>2. QED
    BY <2>1
<1>9. res' = [res EXCEPT ![i] = r] /\ res'[i] = r
  BY <1>3, <1>5, <1>8
<1>10. ASSUME \A t \in Session \ {s} : sess'[t] = sess[t] PROVE LatchOK(i)'
  <2>1. sess'[s].pc = "idle"
    BY <1>3, <1>5
  <2>2. Sharers(i)' = Sharers(i)
    BY <1>3, <1>10, <2>1 DEF Sharers, Held
  <2>3. ASSUME NEW t \in Session, Home[t] = i
        PROVE  LatchCallOK(t, res[i])' /\ sess'[t].pc \notin IntentPc
    <3>1. CASE t = s
      BY <2>1, <3>1 DEF LatchCallOK, Held, IntentPc
    <3>2. CASE t # s
      <4>1. LatchCallOK(t, res[i]) /\ sess'[t] = sess[t] /\ sess[t].pc \notin {"req", "ixreq"}
        BY <1>5, <1>10, <2>3, <3>2
      <4>2. sess[t].pc \notin IntentPc
        BY <1>1, <1>3, <1>5, <2>3, <3>2 DEF LatchOK, IntentPc
      <4>3. QED
        BY <1>6, <1>7, <1>8, <1>9, <4>1, <4>2 DEF LatchCallOK, Held, IntentPc
    <3>3. QED
      BY <3>1, <3>2
  <2>4. QED
    BY <1>5, <1>7, <1>8, <1>9, <2>2, <2>3 DEF LatchOK
<1>11. PICK v \in CallRec : v = NoCall /\ v.pc = "idle"
  BY <1>3
<1>12. sess' = [sess EXCEPT ![s] = v]
  BY <1>3, <1>11
<1>13. QED
  BY <1>1, <1>3, <1>4, <1>8, <1>9, <1>10, <1>11, <1>12, LatchStatStep

LEMMA UnlatchIInv == \A s \in Session : IInv /\ Unlatch(s) => IInv'
<1> SUFFICES ASSUME NEW s \in Session, IInv, Unlatch(s) PROVE IInv'
  OBVIOUS
<1>1. PICK i : i = Home[s]
  OBVIOUS
<1>2. PICK left : left = IF res[i].shared > 0 THEN res[i].shared - 1 ELSE 0
  OBVIOUS
<1>3. /\ kind = "latch" /\ sess[s].pc = "held" /\ ResxFree(i)
      /\ res' = [res EXCEPT ![i] = Unlatched(res[i])]
      /\ sess' = [sess EXCEPT ![s] = NoCall] /\ NoCall \in CallRec /\ NoCall.pc = "idle"
      /\ UNCHANGED <<kind, drc, job, rels, rsn, ops, used>>
  BY <1>1, OneRsn DEF Unlatch, Return, NoCall
<1>4. /\ LatchOK(i) /\ res[i].resx = NoSession /\ sess \in [Session -> CallRec]
      /\ \A t \in Session : Home[t] = i => LatchCallOK(t, res[i]) /\ sess[t].pc \notin {"req", "ixreq"}
      /\ IsFiniteSet(Sharers(i)) /\ res[i].shared = Cardinality(Sharers(i))
      /\ res[i] \in LocalRes /\ res \in [Inst -> LocalRes] /\ i \in Inst /\ res[i].shared \in Nat
  BY <1>1, <1>3, FreeLatch
<1>5. left \in Nat
  BY <1>2, <1>4
<1>6. PICK r \in LocalRes : /\ r = Unlatched(res[i]) /\ r.shared = left
                            /\ r.stat = IF left = 0 /\ res[i].stat \in {"S", "X"} THEN "IDLE"
                                        ELSE res[i].stat
                            /\ r.mode = res[i].mode /\ r.resx = NoSession /\ r.there = res[i].there
  <2> DEFINE r == [res[i] EXCEPT !.shared = left, !.locked = FALSE, !.owner = TRUE,
                                 !.stat = IF left = 0 /\ res[i].stat \in {"S", "X"} THEN "IDLE"
                                          ELSE res[i].stat]
  <2>1. r = Unlatched(res[i])
    BY <1>2, <1>4 DEF Unlatched, LocalRes
  <2>2. /\ r \in LocalRes /\ r.shared = left
        /\ r.stat = IF left = 0 /\ res[i].stat \in {"S", "X"} THEN "IDLE" ELSE res[i].stat
        /\ r.mode = res[i].mode /\ r.resx = NoSession /\ r.there = res[i].there
    BY <1>4, <1>5 DEF LocalRes
  <2>3. QED
    BY <2>1, <2>2
<1>7. res' = [res EXCEPT ![i] = r] /\ res'[i] = r
  BY <1>3, <1>4, <1>6
<1>8. ASSUME \A t \in Session \ {s} : sess'[t] = sess[t] PROVE LatchOK(i)'
  <2>1. sess'[s].pc = "idle" /\ Held(s) /\ LatchCallOK(s, res[i])
    BY <1>1, <1>3, <1>4 DEF Held
  <2>2. Sharers(i)' = Sharers(i) \ {s}
    BY <1>3, <1>8, <2>1 DEF Sharers, Held
  <2>3. s \in Sharers(i) <=> res[i].stat # "X"
    BY <1>1, <2>1 DEF Sharers, LatchCallOK
  <2>4. Cardinality(Sharers(i) \ {s}) =
           IF s \in Sharers(i) THEN Cardinality(Sharers(i)) - 1 ELSE Cardinality(Sharers(i))
    BY <1>4, FS_RemoveElement
  <2>5. /\ res[i].stat = "X" => res[i].shared = 0
        /\ res[i].stat # "X" => res[i].shared > 0
    <3>1. res[i].stat = "X" => res[i].shared = 0
      BY <1>4 DEF LatchOK
    <3>2. s \in Sharers(i) => Cardinality(Sharers(i)) # 0
      BY SharersFinite
    <3>3. QED
      BY <1>4, <2>3, <3>1, <3>2
  <2>6. left = Cardinality(Sharers(i)')
    BY <1>2, <1>4, <2>2, <2>3, <2>4, <2>5
  <2>7. /\ r.stat \in {"IDLE", "X"} => left = 0
        /\ r.stat = "S" => left > 0
        /\ r.stat = "X" => FALSE
        /\ left > 0 => r.mode # LockNull /\ r.stat = res[i].stat
    BY <1>2, <1>4, <1>5, <1>6, <2>5 DEF LatchOK
  <2>8. ASSUME NEW t \in Session, Home[t] = i
        PROVE  /\ LatchCallOK(t, res[i])' /\ (Held(t)' => t # s /\ Held(t))
               /\ sess'[t].pc \in IntentPc => t # s /\ sess[t].pc \in IntentPc
    <3>1. CASE t = s
      BY <2>1, <3>1 DEF LatchCallOK, Held, IntentPc
    <3>2. CASE t # s
      <4>1. LatchCallOK(t, res[i]) /\ sess'[t] = sess[t] /\ sess[t].pc \notin {"req", "ixreq"}
        BY <1>4, <1>8, <2>8, <3>2
      <4>2. Held(t) => res[i].stat # "X"
        BY <1>1, <1>4, <2>1, <2>8, <3>2 DEF LatchOK
      <4>3. res[i].stat = "IX" => r.stat = "IX"
        BY <1>6
      <4>4. QED
        BY <1>6, <1>7, <2>7, <3>2, <4>1, <4>2, <4>3 DEF LatchCallOK, Held, IntentPc
    <3>3. QED
      BY <3>1, <3>2
  <2>9. ASSUME NEW t \in Session, NEW u \in Session, t # u, Home[t] = i, Home[u] = i
        PROVE  /\ ~(sess'[t].pc \in IntentPc /\ sess'[u].pc \in IntentPc)
               /\ ~(Held(t)' /\ Held(u)' /\ res'[i].stat = "X")
    BY <1>4, <1>7, <2>7, <2>8, <2>9 DEF LatchOK
  <2>10. QED
    BY <1>6, <1>7, <2>6, <2>7, <2>8, <2>9 DEF LatchOK
<1>9. PICK v \in CallRec : v = NoCall /\ v.pc = "idle"
  BY <1>3
<1>10. sess' = [sess EXCEPT ![s] = v] /\ sess[s].pc # "idle"
  BY <1>3, <1>9
<1>11. QED
  BY <1>1, <1>3, <1>6, <1>7, <1>8, <1>9, <1>10, LatchStatStep

(* Every step of a session. *)
LEMMA SessionIInv == \A s \in Session : IInv /\ SessionStep(s) => IInv'
BY SpinTakeIInv, SpinTryBusyIInv, SpinUnlockIInv, LatchTakeIInv, LatchRequestIInv,
   LatchIntentIInv, LatchTimeoutIInv, IxRequestIInv, IxTimeoutIInv, IxGiveUpIInv, UnlatchIInv,
   AnswerOkIInv, AskAgainIInv, GiveUpIInv DEF SessionStep, SpinStep, LatchStep, AnswerStep

---------------------------------------------------------------------------
(* Steps of the master.                                                    *)

(* What is known when the master works on request r of instance i. *)
LEMMA JobFacts ==
    ASSUME IInv, NEW i \in Inst, NEW r \in Rsn, job[i][r].pc # "none"
    PROVE  /\ r = 1 /\ job[i][r] = J(i) /\ J(i) \in JobRec /\ rsn[i] = 1
           /\ job \in [Inst -> [Rsn -> JobRec]] /\ drc \in LockRes /\ rels \subseteq Release
           /\ J(i).pc = "sent" \/ Active(i) =>
                 /\ J(i).mode \in {LockShare, LockExclusive}
                 /\ J(i).mode = ReqMode(sess[res[i].resx].call)
                 /\ J(i).mode = LockShare => Owned(i) = LockNull /\ kind = "latch"
<1>1. r = 1 /\ job[i][r] = J(i) /\ rsn[i] = 1
  BY DEF IInv, OneRequest, NoJob, J
<1>2. /\ job \in [Inst -> [Rsn -> JobRec]] /\ drc \in LockRes /\ rels \subseteq Release
      /\ res[i] \in LocalRes /\ Local(i) /\ kind \in {"spin", "latch"}
  BY KindsAssumption DEF IInv, DlsTypeOK, JobRec, Locals
<1>3. J(i) \in JobRec
  BY <1>2, OneRsn DEF J
<1>4. ASSUME J(i).pc = "sent" \/ Active(i)
      PROVE  /\ J(i).mode \in {LockShare, LockExclusive}
             /\ J(i).mode = ReqMode(sess[res[i].resx].call)
             /\ J(i).mode = LockShare => Owned(i) = LockNull /\ kind = "latch"
  <2>1. PICK s : s = res[i].resx
    OBVIOUS
  <2>2. /\ s \in Session /\ Home[s] = i /\ Asking(s) /\ J(i).mode = ReqMode(sess[s].call)
        /\ J(i).pc # "ok"
    BY <1>2, <1>4, <2>1 DEF Local, EntryOK, Active, LocalRes
  <2>3. CallOK(s) /\ (kind = "latch" => LatchCallOK(s, res[i])) /\ sess[s].pc # "idle"
    BY <1>2, <2>2 DEF Local, LatchOK, Asking
  <2>4. ASSUME J(i).mode = LockShare PROVE Owned(i) = LockNull /\ kind = "latch"
    <3>1. sess[s].call \in ShareCalls
      BY <2>2, <2>4, Modes DEF ReqMode
    <3>2. kind = "latch"
      BY <1>2, <2>3, <3>1 DEF CallOK, CallsOf, SpinCalls, ShareCalls
    <3>3. sess[s].pc = "req"
      BY <2>2, <2>3, <3>1, <3>2 DEF Asking, LatchCallOK, IntentPc, XCalls, ShareCalls
    <3>4. res[i].mode < 1 /\ res[i].mode \in {0, 1, 2}
      BY <1>2, <2>2, <2>3, <2>4, <3>3, Modes DEF CallOK, LocalRes
    <3>5. Owned(i) = res[i].mode
      BY <2>2 DEF Owned
    <3>6. QED
      BY <3>2, <3>4, <3>5, Modes
  <2>5. QED
    BY <2>1, <2>2, <2>4, Modes
<1>5. QED
  BY <1>1, <1>2, <1>3, <1>4

(* A step on the request of one instance: the ownership of the others, and *)
(* of this one unless it is granted the lock, stays.                       *)
LEMMA JobStep ==
    ASSUME job \in [Inst -> [Rsn -> JobRec]], NEW i \in Inst, NEW j \in JobRec,
           job' = [job EXCEPT ![i][1] = j], UNCHANGED <<res, sess>>
    PROVE  /\ J(i)' = j /\ \A k \in Inst \ {i} : /\ J(k)' = J(k) /\ Owned(k)' = Owned(k)
                                                 /\ Active(k)' <=> Active(k)
           /\ J(i).pc # "ok" /\ j.pc # "ok" => Owned(i)' = Owned(i)
           /\ j.pc = "ok" => Owned(i)' = ReqMode(sess[res[i].resx].call)
<1>1. J(i)' = j /\ \A k \in Inst \ {i} : J(k)' = J(k)
  BY OneRsn DEF J
<1>2. QED
  BY <1>1 DEF Owned, Active

(* The request stays under way. *)
ActivePc == {"queued", "ask", "wait", "released", "refused"}
LEMMA JobGoesOn ==
    ASSUME job \in [Inst -> [Rsn -> JobRec]], NEW i \in Inst, NEW j \in JobRec,
           job' = [job EXCEPT ![i][1] = j], UNCHANGED <<res, sess>>,
           Active(i), j.pc \in ActivePc
    PROVE  /\ J(i)' = j /\ \A k \in Inst \ {i} : J(k)' = J(k)
           /\ \A k \in Inst : Owned(k)' = Owned(k)
           /\ \A k \in Inst : Active(k)' <=> Active(k)
<1>1. J(i)' = j /\ \A k \in Inst \ {i} : J(k)' = J(k)
  BY JobStep
<1>2. J(i).pc # "ok" /\ j.pc # "ok" /\ Active(i)'
  BY <1>1 DEF Active, ActivePc
<1>3. ASSUME NEW k \in Inst PROVE Owned(k)' = Owned(k) /\ (Active(k)' <=> Active(k))
  <2>1. CASE k = i
    BY <1>2, <2>1, JobStep
  <2>2. CASE k # i
    BY <2>2, JobStep
  <2>3. QED
    BY <2>1, <2>2
<1>4. QED
  BY <1>1, <1>3

(* The instance of a request does not see that the master goes on with it. *)
LEMMA LocalJob ==
    ASSUME NEW i, Local(i), UNCHANGED <<kind, res[i], sess>>,
           J(i).pc = "sent" \/ Active(i), J(i)'.pc # "none",
           J(i)'.pc \in {"ok", "fail"} \/ (J(i)'.mode = J(i).mode /\ J(i)'.try = J(i).try)
    PROVE  Local(i)'
<1>1. J(i).pc # "none"
  BY DEF Active
<1>2. EntryOK(i)'
  BY <1>1 DEF Local, EntryOK, Asking, Active, Held
<1>3. \A s \in Session : Home[s] = i => CallOK(s)'
  BY DEF Local, CallOK, Asking
<1>4. kind = "spin" => SpinOK(i)'
  BY DEF Local, SpinOK, Held
<1>5. kind = "latch" => LatchOK(i)'
  <2>1. Sharers(i)' = Sharers(i)
    BY DEF Sharers, Held
  <2>2. QED
    BY <2>1 DEF Local, LatchOK, LatchCallOK, Held
<1>6. QED
  BY <1>2, <1>3, <1>4, <1>5 DEF Local

(* So the invariant of the master is what remains to be shown. *)
LEMMA MasterFrame ==
    ASSUME IInv, NEW i \in Inst, NEW j \in JobRec, job' = [job EXCEPT ![i][1] = j],
           UNCHANGED <<kind, res, sess, rsn, ops>>,
           used' = used \/ used' \in [{"refuse", "recycle", "lost"} -> Nat],
           drc' \in LockRes, rels' \subseteq Release,
           J(i).pc = "sent" \/ Active(i), j.pc # "none",
           j.pc \in {"ok", "fail"} \/ (j.mode = J(i).mode /\ j.try = J(i).try),
           Queue', Owners', Converts', Rels'
    PROVE  IInv'
<1>1. job \in [Inst -> [Rsn -> JobRec]] /\ res \in [Inst -> LocalRes]
  BY DEF IInv, DlsTypeOK, JobRec
<1>2. J(i)' = j /\ \A k \in Inst \ {i} : J(k)' = J(k)
  BY <1>1, JobStep
<1>3. job' \in [Inst -> [Rsn -> JobRec]] /\ \A k \in Inst : \A n \in Rsn \ {1} : job'[k][n] = job[k][n]
  BY <1>1, OneRsn
<1>4. DlsTypeOK'
  BY <1>3 DEF IInv, DlsTypeOK, JobRec
<1>5. OneRequest'
  BY <1>3 DEF IInv, OneRequest
<1>6. ASSUME NEW k \in Inst PROVE Local(k)'
  <2>1. Local(k) /\ res[k].resx \in Session \cup {NoSession}
    BY <1>1 DEF IInv, Locals, LocalRes
  <2>2. CASE k # i
    BY <1>2, <2>1, <2>2, LocalStays
  <2>3. CASE k = i
    BY <1>2, <2>1, <2>3, LocalJob
  <2>4. QED
    BY <2>2, <2>3
<1>7. QED
  BY <1>4, <1>5, <1>6 DEF IInv, Locals

(* Only the converting request is past the queue. *)
LEMMA OneConverts ==
    ASSUME IInv
    PROVE  /\ \A k \in Inst : Active(k) /\ J(k).pc # "queued" => drc.conv.inst = k
           /\ \A k \in Inst : J(k).pc \in {"ask", "wait", "released", "refused"} => drc.conv.inst = k
           /\ ~Busy(drc) => drc.q = <<>> /\ \A k \in Inst : ~Active(k)
           /\ \A k \in Inst : Active(k) => Busy(drc)
<1>1. \A k \in Inst : Active(k) /\ J(k).pc # "queued" => drc.conv.inst = k
  BY DEF IInv, Queue
<1>2. \A k \in Inst : J(k).pc \in {"ask", "wait", "released", "refused"} => drc.conv.inst = k
  BY <1>1 DEF Active
<1>3. ASSUME ~Busy(drc) PROVE drc.q = <<>> /\ \A k \in Inst : ~Active(k)
  <2>1. drc.q = <<>> /\ drc.conv.inst = NoInst
    BY <1>3 DEF IInv, Queue, Busy
  <2>2. \A k \in Inst : k # NoInst
    BY NoInstAssumption
  <2>3. \A k \in Inst : J(k).pc # "queued"
    BY <2>1, <2>2 DEF IInv, Queue
  <2>4. QED
    BY <1>1, <2>1, <2>2, <2>3
<1>4. QED
  BY <1>1, <1>2, <1>3

(* The queue while the converting request goes on. *)
LEMMA QueueStays ==
    ASSUME IInv, NEW i \in Inst, drc.conv.inst = i, Active(i),
           drc'.conv = drc.conv, drc'.q = drc.q,
           \A k \in Inst \ {i} : J(k)' = J(k), \A k \in Inst : Active(k)' <=> Active(k),
           J(i)'.mode = J(i).mode, J(i)'.pc # "queued"
    PROVE  Queue'
<1>1. drc \in LockRes
  BY DEF IInv, DlsTypeOK
<1>2. i # NoInst /\ \A n \in 1 .. Len(drc.q) : drc.q[n].inst \in Inst \ {i}
  BY <1>1, EntryTypes, NoInstAssumption DEF IInv, Queue
<1>3. (drc.conv.inst # NoInst => Active(drc.conv.inst) /\ drc.conv.mode = J(drc.conv.inst).mode)'
  <2>1. drc.conv.mode = J(i).mode
    BY <1>2 DEF IInv, Queue
  <2>2. QED
    BY <2>1
<1>4. (\A n \in 1 .. Len(drc.q) : /\ J(drc.q[n].inst).pc = "queued"
                                  /\ drc.q[n].mode = J(drc.q[n].inst).mode
                                  /\ drc.q[n].inst # drc.conv.inst)'
  BY <1>2 DEF IInv, Queue
<1>5. ASSUME NEW k \in Inst
      PROVE  /\ J(k)'.pc = "queued" => \/ drc.conv.inst = k
                                       \/ \E n \in 1 .. Len(drc.q) : drc.q[n].inst = k
             /\ Active(k)' /\ J(k)'.pc # "queued" => drc.conv.inst = k
  <2>1. CASE k = i
    BY <2>1
  <2>2. CASE k # i
    BY <2>2 DEF IInv, Queue
  <2>3. QED
    BY <2>1, <2>2
<1>6. (\A m, n \in 1 .. Len(drc.q) : drc.q[m].inst = drc.q[n].inst => m = n)'
  BY DEF IInv, Queue
<1>7. QED
  BY <1>2, <1>3, <1>4, <1>5, <1>6 DEF Queue

LEMMA AskOwnerIInv ==
    ASSUME IInv, NEW i \in Inst, NEW r \in Rsn, NEW o \in Inst, AskOwner(i, r, o)
    PROVE  IInv'
<1>1. job[i][r].pc = "ask"
  BY DEF AskOwner
<1>2. /\ r = 1 /\ job[i][r] = J(i) /\ J(i) \in JobRec /\ Active(i)
      /\ job \in [Inst -> [Rsn -> JobRec]] /\ drc \in LockRes /\ rels \subseteq Release
      /\ J(i).mode \in {LockShare, LockExclusive} /\ drc.conv.inst = i
  BY <1>1, JobFacts, OneConverts DEF Active
<1>3. PICK j \in JobRec : /\ j = [J(i) EXCEPT !.pc = "wait", !.at = o]
                          /\ j.pc = "wait" /\ j.at = o /\ j.owners = J(i).owners
                          /\ j.mode = J(i).mode /\ j.try = J(i).try
  <2> DEFINE w == [J(i) EXCEPT !.pc = "wait", !.at = o]
  <2>1. /\ w \in JobRec /\ w = [J(i) EXCEPT !.pc = "wait", !.at = o]
        /\ w.pc = "wait" /\ w.at = o /\ w.owners = J(i).owners
        /\ w.mode = J(i).mode /\ w.try = J(i).try
    BY <1>2 DEF JobRec, JobPc
  <2> HIDE DEF w
  <2>2. QED
    BY <2>1
<1>4. PICK m \in Release : m = [to |-> o, mode |-> J(i).mode, inst |-> i, rsn |-> 1, try |-> J(i).try]
  BY <1>2, OneRsn DEF Release, JobRec
<1>5. /\ job' = [job EXCEPT ![i][1] = j] /\ rels' = rels \cup {m} /\ J(i).pc = "ask"
      /\ o \in J(i).owners /\ UNCHANGED <<kind, res, sess, drc, rsn, ops, used>>
  BY <1>2, <1>3, <1>4 DEF AskOwner, J
<1>6. /\ J(i)' = j /\ \A k \in Inst \ {i} : J(k)' = J(k)
      /\ \A k \in Inst : Owned(k)' = Owned(k)
      /\ \A k \in Inst : Active(k)' <=> Active(k)
  BY <1>2, <1>3, <1>5, JobGoesOn DEF ActivePc
<1>7. Queue'
  BY <1>2, <1>3, <1>5, <1>6, QueueStays
<1>8. \A k \in Inst : Releasing(k) => Releasing(k)'
  BY <1>5, <1>6 DEF Releasing
<1>9. Owners'
  BY <1>5, <1>6, <1>8 DEF IInv, Owners
<1>10. ASSUME NEW k \in Inst PROVE Converting(k)'
  <2>1. Converting(k) /\ drc.granted \subseteq Inst
    BY <1>2 DEF IInv, Converts, LockRes
  <2>2. CASE k = i
    BY <1>2, <1>3, <1>5, <1>6, <2>1, <2>2 DEF Converting
  <2>3. CASE k # i
    <3>1. J(k).pc \in {"ask", "wait", "released"} => FALSE
      BY <1>2, <2>3, OneConverts
    <3>2. QED
      BY <1>5, <1>6, <2>1, <2>3, <3>1 DEF Converting
  <2>4. QED
    BY <2>2, <2>3
<1>11. Rels'
  <2> SUFFICES ASSUME NEW n \in rels'
               PROVE  /\ J(n.inst)'.pc = "wait" /\ J(n.inst)'.at = n.to /\ n.rsn = 1
                      /\ J(n.inst)'.mode = n.mode /\ (J(n.inst)'.try <=> n.try)
    BY DEF Rels
  <2>1. CASE n = m
    BY <1>3, <1>4, <1>6, <2>1
  <2>2. CASE n \in rels
    <3>1. n.inst \in Inst \ {i}
      BY <1>2, <1>5, <2>2 DEF IInv, Rels, Release
    <3>2. QED
      BY <1>6, <2>2, <3>1 DEF IInv, Rels
  <2>3. QED
    BY <1>5, <2>1, <2>2
<1>12. rels' \subseteq Release
  BY <1>2, <1>5
<1>13. QED
  BY <1>2, <1>3, <1>5, <1>7, <1>9, <1>10, <1>11, <1>12, MasterFrame DEF Converts

LEMMA ClearFields ==
    ASSUME NEW e \in LockRes, NEW i
    PROVE  /\ ClearGranted(e, i) \in LockRes
           /\ ClearGranted(e, i).conv = e.conv /\ ClearGranted(e, i).q = e.q
           /\ ClearGranted(e, i).granted = e.granted \ {i}
           /\ ClearGranted(e, i).mode = IF e.granted \ {i} = {} THEN LockNull ELSE e.mode
BY DEF ClearGranted, LockRes, LockMode

(* Who releases, releases for the converting request. *)
LEMMA ReleasingFor ==
    ASSUME IInv, NEW k \in Inst, Releasing(k)
    PROVE  \E j \in Inst : /\ drc.conv.inst = j /\ J(j).mode = LockExclusive
                           /\ \/ J(j).pc = "released" /\ J(j).at = k
                              \/ J(j).pc = "ask" /\ kind = "spin" /\ J(j).owners = {}
BY OneConverts DEF Releasing

LEMMA MasterReleasedIInv ==
    ASSUME IInv, NEW i \in Inst, NEW r \in Rsn, MasterReleased(i, r)
    PROVE  IInv'
<1>1. job[i][r].pc = "released"
  BY DEF MasterReleased
<1>2. /\ r = 1 /\ job[i][r] = J(i) /\ J(i) \in JobRec /\ Active(i)
      /\ job \in [Inst -> [Rsn -> JobRec]] /\ drc \in LockRes /\ rels \subseteq Release
      /\ J(i).mode \in {LockShare, LockExclusive} /\ drc.conv.inst = i
  BY <1>1, JobFacts, OneConverts DEF Active
<1>3. PICK a : a = J(i).at
  OBVIOUS
<1>4. /\ a \in J(i).owners /\ J(i).owners \subseteq drc.granted \ {i} /\ drc.granted \subseteq Inst
      /\ a \in drc.granted /\ a # i
      /\ J(i).mode = LockExclusive => Owned(a) = LockNull
      /\ Owned(a) # LockExclusive
      /\ \A k \in drc.granted \ {i} :
                /\ J(i).mode = LockExclusive =>
                      k \in J(i).owners \/ (kind = "spin" /\ Owned(k) = LockNull)
                /\ Owned(k) = LockExclusive => k \in J(i).owners
  BY <1>1, <1>2, <1>3 DEF IInv, Converts, Converting, LockRes
<1>5. PICK j \in JobRec : /\ j = [J(i) EXCEPT !.pc = "ask", !.at = NoInst, !.owners = @ \ {a}]
                          /\ j.pc = "ask" /\ j.at = NoInst /\ j.owners = J(i).owners \ {a}
                          /\ j.mode = J(i).mode /\ j.try = J(i).try
  <2> DEFINE w == [J(i) EXCEPT !.pc = "ask", !.at = NoInst, !.owners = @ \ {a}]
  <2>1. /\ w \in JobRec /\ w = [J(i) EXCEPT !.pc = "ask", !.at = NoInst, !.owners = @ \ {a}]
        /\ w.pc = "ask" /\ w.at = NoInst /\ w.owners = J(i).owners \ {a}
        /\ w.mode = J(i).mode /\ w.try = J(i).try
    BY <1>2 DEF JobRec, JobPc
  <2> HIDE DEF w
  <2>2. QED
    BY <2>1
<1>6. /\ job' = [job EXCEPT ![i][1] = j]
      /\ UNCHANGED <<kind, res, sess, rels, rsn, ops, used>>
      /\ \/ J(i).mode = LockExclusive /\ drc' = ClearGranted(drc, a)
         \/ drc' = drc /\ (J(i).mode = LockExclusive => kind = "spin")
  <2>1. kind \in {"spin", "latch"}
    BY KindsAssumption DEF IInv, DlsTypeOK
  <2>2. drc' = AfterRelease(i, r)
    BY DEF MasterReleased
  <2>3. \/ J(i).mode = LockExclusive /\ drc' = ClearGranted(drc, a)
        \/ drc' = drc /\ (J(i).mode = LockExclusive => kind = "spin")
    BY <1>2, <1>3, <2>1, <2>2 DEF AfterRelease
  <2>4. job' = [job EXCEPT ![i][1] = j]
    <3>1. job' = [job EXCEPT ![i][1].pc = "ask", ![i][1].at = NoInst,
                             ![i][1].owners = J(i).owners \ {a}]
      BY <1>2, <1>3 DEF MasterReleased, J
    <3>2. QED
      BY <1>2, <1>5, <3>1, OneRsn DEF J
  <2>5. QED
    BY <2>3, <2>4 DEF MasterReleased
<1>7. /\ drc' \in LockRes /\ drc'.conv = drc.conv /\ drc'.q = drc.q
      /\ drc'.granted \subseteq drc.granted
      /\ \/ /\ J(i).mode = LockExclusive /\ drc'.granted = drc.granted \ {a}
            /\ drc'.mode = IF drc'.granted = {} THEN LockNull ELSE drc.mode
         \/ /\ drc'.granted = drc.granted /\ drc'.mode = drc.mode
            /\ (J(i).mode = LockExclusive => kind = "spin")
  <2>1. CASE drc' = ClearGranted(drc, a) /\ J(i).mode = LockExclusive
    BY <1>2, <2>1, ClearFields
  <2>2. CASE drc' = drc /\ (J(i).mode = LockExclusive => kind = "spin")
    BY <1>2, <2>2
  <2>3. QED
    BY <1>6, <2>1, <2>2
<1>8. /\ J(i)' = j /\ \A k \in Inst \ {i} : J(k)' = J(k)
      /\ \A k \in Inst : Owned(k)' = Owned(k)
      /\ \A k \in Inst : Active(k)' <=> Active(k)
  BY <1>2, <1>5, <1>6, JobGoesOn DEF ActivePc
<1>9. Queue'
  BY <1>2, <1>5, <1>7, <1>8, QueueStays
<1>10. \A k \in Inst : Releasing(k) => k = a /\ J(i).mode = LockExclusive
  BY <1>1, <1>2, <1>3, ReleasingFor
<1>11. Owners'
  <2>1. /\ drc.mode = LockNull <=> drc.granted = {}
        /\ kind = "spin" \/ drc.mode = LockExclusive => \A k, l \in drc.granted : k = l
    BY DEF IInv, Owners
  <2>2. /\ drc'.mode = LockNull <=> drc'.granted = {}
        /\ kind = "spin" \/ drc'.mode = LockExclusive => \A k, l \in drc'.granted : k = l
    BY <1>7, <2>1, Modes
  <2>3. ASSUME NEW k \in Inst
        PROVE  /\ Owned(k) # LockNull => k \in drc'.granted
               /\ Owned(k) = LockExclusive => drc'.granted = {k} /\ drc'.mode = LockExclusive
               /\ k \in drc'.granted /\ Owned(k) = LockNull => Releasing(k)'
    <3>1. /\ Owned(k) # LockNull => k \in drc.granted
          /\ Owned(k) = LockExclusive => drc.granted = {k} /\ drc.mode = LockExclusive
          /\ k \in drc.granted /\ Owned(k) = LockNull => Releasing(k)
      BY DEF IInv, Owners
    <3>2. Owned(k) # LockNull => k \in drc'.granted
      BY <1>4, <1>7, <3>1
    <3>3. Owned(k) = LockExclusive => drc'.granted = {k} /\ drc'.mode = LockExclusive
      BY <1>4, <1>7, <3>1, Modes
    <3>4. ASSUME k \in drc'.granted, Owned(k) = LockNull PROVE Releasing(k)'
      <4>1. k = a /\ J(i).mode = LockExclusive
        BY <1>7, <1>10, <3>1, <3>4
      <4>2. kind = "spin" /\ drc'.granted = drc.granted
        BY <1>7, <3>4, <4>1
      <4>3. j.owners = {}
        BY <1>4, <1>5, <2>1, <4>2
      <4>4. QED
        BY <1>5, <1>6, <1>8, <4>1, <4>2, <4>3 DEF Releasing
    <3>5. QED
      BY <3>2, <3>3, <3>4
  <2>4. QED
    BY <1>6, <1>8, <2>2, <2>3 DEF Owners
<1>12. ASSUME NEW k \in Inst PROVE Converting(k)'
  <2>1. Converting(k)
    BY DEF IInv, Converts
  <2>2. CASE k = i
    <3>1. j.owners \subseteq drc'.granted \ {i}
      BY <1>4, <1>5, <1>7
    <3>2. ASSUME NEW l \in drc'.granted \ {i}
          PROVE  /\ j.mode = LockExclusive => l \in j.owners \/ (kind = "spin" /\ Owned(l) = LockNull)
                 /\ Owned(l) = LockExclusive => l \in j.owners
      BY <1>4, <1>5, <1>7
    <3>3. ASSUME NEW l \in j.owners PROVE Owned(l) # LockNull
      <4>1. l \in Inst /\ l \in drc.granted /\ l # a
        BY <1>4, <1>5
      <4>2. ~Releasing(l)
        BY <1>10, <4>1
      <4>3. QED
        BY <4>1, <4>2 DEF IInv, Owners
    <3>4. \A l \in drc'.granted : l \in Inst
      BY <1>4, <1>7
    <3>5. \A l \in j.owners : l \in Inst
      BY <1>4, <1>5
    <3>6. j.mode = LockShare => i \notin drc'.granted
      BY <1>2, <1>5, <1>7, <2>1, <2>2 DEF Converting
    <3>7. QED
      BY <1>5, <1>6, <1>8, <2>2, <3>1, <3>2, <3>3, <3>4, <3>5, <3>6 DEF Converting
  <2>3. CASE k # i
    <3>1. J(k).pc \in {"ask", "wait", "released"} => FALSE
      BY <1>2, <2>3, OneConverts
    <3>2. QED
      BY <1>7, <1>8, <2>1, <2>3, <3>1 DEF Converting
  <2>4. QED
    BY <2>2, <2>3
<1>13. Rels'
  BY <1>1, <1>2, <1>6, <1>8 DEF IInv, Rels, Release
<1>14. rels' \subseteq Release
  BY <1>2, <1>6
<1>15. QED
  BY <1>2, <1>5, <1>6, <1>7, <1>9, <1>11, <1>12, <1>13, <1>14, MasterFrame DEF Converts

(* The converting request is over and the next one of the queue, if any,   *)
(* converts.                                                               *)
LEMMA NextConverts ==
    ASSUME IInv, NEW i \in Inst, drc.conv.inst = i, J(i).pc # "queued", ~Active(i)',
           \A k \in Inst \ {i} : J(k)' = J(k) /\ (Active(k)' <=> Active(k)),
           NEW e \in LockRes, e.conv = drc.conv, e.q = drc.q, drc' = ConvertNext(e)
    PROVE  Queue' /\ drc' \in LockRes /\ drc'.granted = e.granted /\ drc'.mode = e.mode
<1>1. drc \in LockRes
  BY DEF IInv, DlsTypeOK
<1>2. PICK q : q = drc.q
  OBVIOUS
<1>3. /\ q \in Seq(LockReq) /\ Len(q) \in Nat
      /\ \A n \in 1 .. Len(q) : q[n] \in LockReq /\ q[n].inst \in Inst
  BY <1>1, <1>2, EntryTypes
<1>4. /\ \A n \in 1 .. Len(q) : /\ J(q[n].inst).pc = "queued" /\ q[n].mode = J(q[n].inst).mode
                                /\ q[n].inst # i
      /\ \A m, n \in 1 .. Len(q) : q[m].inst = q[n].inst => m = n
      /\ \A k \in Inst : /\ J(k).pc = "queued" => k = i \/ \E n \in 1 .. Len(q) : q[n].inst = k
                         /\ Active(k) /\ J(k).pc # "queued" => k = i
  BY <1>2 DEF IInv, Queue
<1>5. ASSUME NEW k \in Inst
      PROVE  /\ J(k)'.pc = "queued" => \E n \in 1 .. Len(q) : q[n].inst = k
             /\ Active(k)' => J(k)'.pc = "queued" /\ k # i
  <2>1. J(i)'.pc # "queued"
    BY DEF Active
  <2>2. QED
    BY <1>4, <2>1
<1>6. CASE q = <<>>
  <2>1. drc' = [e EXCEPT !.conv = NoLockReq]
    BY <1>2, <1>6 DEF ConvertNext
  <2>2. drc'.conv = NoLockReq /\ drc'.q = <<>> /\ drc'.granted = e.granted /\ drc'.mode = e.mode
    BY <1>2, <1>6, <2>1 DEF LockRes
  <2>3. drc' \in LockRes
    BY <2>1 DEF LockRes
  <2>4. \A k \in Inst : J(k)'.pc # "queued" /\ ~Active(k)'
    BY <1>5, <1>6
  <2>5. drc'.conv.inst = NoInst
    BY <2>2 DEF NoLockReq
  <2>6. Queue'
    BY <2>2, <2>4, <2>5 DEF Queue
  <2>7. QED
    BY <2>2, <2>3, <2>6
<1>7. CASE q # <<>>
  <2>1. drc' = [e EXCEPT !.conv = Head(q), !.q = Tail(q)]
    BY <1>2, <1>7 DEF ConvertNext
  <2>2. Head(q) = q[1] /\ 1 \in 1 .. Len(q) /\ Head(q) \in LockReq /\ Tail(q) \in Seq(LockReq)
    BY <1>3, <1>7
  <2>3. /\ drc' \in LockRes /\ drc'.conv = q[1] /\ drc'.q = Tail(q)
        /\ drc'.granted = e.granted /\ drc'.mode = e.mode
    BY <2>1, <2>2 DEF LockRes
  <2>4. PICK p : p = Tail(q)
    OBVIOUS
  <2>5. /\ Len(p) = Len(q) - 1
        /\ \A n \in 1 .. Len(p) : p[n] = q[n + 1] /\ n + 1 \in 1 .. Len(q)
        /\ \A n \in 1 .. Len(q) : n # 1 => n - 1 \in 1 .. Len(p) /\ p[n - 1] = q[n]
    BY <1>3, <1>7, <2>4
  <2>6. q[1].inst \in Inst \ {i} /\ J(q[1].inst)'.pc = "queued" /\ q[1].inst # NoInst
        /\ q[1].mode = J(q[1].inst)'.mode
    BY <1>3, <1>4, <2>2, NoInstAssumption
  <2>7. \A n \in 1 .. Len(p) : /\ J(p[n].inst)'.pc = "queued" /\ p[n].mode = J(p[n].inst)'.mode
                               /\ p[n].inst # q[1].inst
    <3> SUFFICES ASSUME NEW n \in 1 .. Len(p)
                 PROVE  /\ J(p[n].inst)'.pc = "queued" /\ p[n].mode = J(p[n].inst)'.mode
                        /\ p[n].inst # q[1].inst
      OBVIOUS
    <3>1. PICK m \in 1 .. Len(q) : p[n] = q[m] /\ m # 1
      BY <2>5
    <3>2. QED
      BY <1>3, <1>4, <2>2, <3>1
  <2>8. \A m, n \in 1 .. Len(p) : p[m].inst = p[n].inst => m = n
    <3> SUFFICES ASSUME NEW m \in 1 .. Len(p), NEW n \in 1 .. Len(p), p[m].inst = p[n].inst
                 PROVE  m = n
      OBVIOUS
    <3>1. q[m + 1].inst = q[n + 1].inst /\ m + 1 \in 1 .. Len(q) /\ n + 1 \in 1 .. Len(q)
      BY <2>5
    <3>2. m + 1 = n + 1 /\ m \in Int /\ n \in Int
      BY <1>3, <1>4, <2>5, <3>1
    <3>3. QED
      BY <3>2
  <2>9. ASSUME NEW k \in Inst
        PROVE  /\ J(k)'.pc = "queued" => q[1].inst = k \/ \E n \in 1 .. Len(p) : p[n].inst = k
               /\ Active(k)' /\ J(k)'.pc # "queued" => q[1].inst = k
    <3>1. ASSUME J(k)'.pc = "queued" PROVE q[1].inst = k \/ \E n \in 1 .. Len(p) : p[n].inst = k
      <4>1. PICK n \in 1 .. Len(q) : q[n].inst = k
        BY <1>5, <3>1
      <4>2. QED
        BY <2>5, <4>1
    <3>2. QED
      BY <1>5, <3>1
  <2>10. Active(q[1].inst)'
    BY <2>6 DEF Active
  <2>11. Queue'
    BY <2>3, <2>4, <2>6, <2>7, <2>8, <2>9, <2>10 DEF Queue
  <2>12. QED
    BY <2>3, <2>11
<1>8. QED
  BY <1>6, <1>7

LEMMA MasterRefusedIInv ==
    ASSUME IInv, NEW i \in Inst, NEW r \in Rsn, MasterRefused(i, r)
    PROVE  IInv'
<1>1. job[i][r].pc = "refused"
  BY DEF MasterRefused
<1>2. /\ r = 1 /\ job[i][r] = J(i) /\ J(i) \in JobRec /\ Active(i) /\ rsn[i] = 1
      /\ job \in [Inst -> [Rsn -> JobRec]] /\ drc \in LockRes /\ rels \subseteq Release
      /\ drc.conv.inst = i
  BY <1>1, JobFacts, OneConverts DEF Active
<1>3. PICK j \in JobRec : j = [NoJob EXCEPT !.pc = "fail"] /\ j.pc = "fail"
  <2> DEFINE w == [NoJob EXCEPT !.pc = "fail"]
  <2>1. /\ w \in JobRec /\ w = [NoJob EXCEPT !.pc = "fail"] /\ w.pc = "fail"
    BY OneRsn DEF JobRec, JobPc, NoJob
  <2> HIDE DEF w
  <2>2. QED
    BY <2>1
<1>4. /\ job' = [job EXCEPT ![i][1] = j] /\ drc' = ConvertNext(drc)
      /\ UNCHANGED <<kind, res, sess, rels, rsn, ops, used>>
  BY <1>2, <1>3 DEF MasterRefused, Answer, Cancel
<1>5. /\ J(i)' = j /\ \A k \in Inst \ {i} : J(k)' = J(k) /\ (Active(k)' <=> Active(k))
      /\ \A k \in Inst : Owned(k)' = Owned(k)
      /\ ~Active(i)'
  BY <1>1, <1>2, <1>3, <1>4, JobStep DEF Active
<1>6. Queue' /\ drc' \in LockRes /\ drc'.granted = drc.granted /\ drc'.mode = drc.mode
  BY <1>1, <1>2, <1>4, <1>5, NextConverts
<1>7. \A k \in Inst : ~Releasing(k)
  BY <1>1, <1>2, ReleasingFor
<1>8. Owners'
  BY <1>4, <1>5, <1>6, <1>7 DEF IInv, Owners
<1>9. ASSUME NEW k \in Inst PROVE Converting(k)'
  <2>1. CASE k = i
    BY <1>3, <1>5, <2>1 DEF Converting
  <2>2. CASE k # i
    <3>1. J(k).pc \in {"ask", "wait", "released"} => FALSE
      BY <1>2, <2>2, OneConverts
    <3>2. QED
      BY <1>5, <1>6, <2>2, <3>1 DEF IInv, Converts, Converting
  <2>3. QED
    BY <2>1, <2>2
<1>10. Rels'
  BY <1>1, <1>2, <1>4, <1>5 DEF IInv, Rels, Release
<1>11. rels' \subseteq Release
  BY <1>2, <1>4
<1>12. QED
  BY <1>2, <1>3, <1>4, <1>6, <1>8, <1>9, <1>10, <1>11, MasterFrame DEF Converts

LEMMA MasterClaimsIInv ==
    ASSUME IInv, NEW i \in Inst, NEW r \in Rsn, MasterClaims(i, r)
    PROVE  IInv'
<1>1. job[i][r].pc = "ask"
  BY DEF MasterClaims
<1>2. /\ r = 1 /\ job[i][r] = J(i) /\ J(i) \in JobRec /\ Active(i) /\ rsn[i] = 1
      /\ job \in [Inst -> [Rsn -> JobRec]] /\ drc \in LockRes /\ rels \subseteq Release
      /\ J(i).mode \in {LockShare, LockExclusive} /\ drc.conv.inst = i
      /\ J(i).mode = ReqMode(sess[res[i].resx].call)
      /\ J(i).mode = LockShare => Owned(i) = LockNull /\ kind = "latch"
  BY <1>1, JobFacts, OneConverts DEF Active
<1>3. drc.conv.mode = J(i).mode /\ drc.granted \subseteq Inst
  BY <1>2, NoInstAssumption DEF IInv, Queue, LockRes
<1>4. PICK j \in JobRec : j = [NoJob EXCEPT !.pc = "ok"] /\ j.pc = "ok"
  <2> DEFINE w == [NoJob EXCEPT !.pc = "ok"]
  <2>1. /\ w \in JobRec /\ w = [NoJob EXCEPT !.pc = "ok"] /\ w.pc = "ok"
    BY OneRsn DEF JobRec, JobPc, NoJob
  <2> HIDE DEF w
  <2>2. QED
    BY <2>1
<1>5. PICK g \in SUBSET Inst : g = IF J(i).mode = LockExclusive THEN {i} ELSE drc.granted \cup {i}
  BY <1>3
<1>6. PICK e \in LockRes : /\ e = [drc EXCEPT !.granted = g, !.mode = drc.conv.mode]
                           /\ e.conv = drc.conv /\ e.q = drc.q /\ e.granted = g
                           /\ e.mode = J(i).mode
  <2> DEFINE w == [drc EXCEPT !.granted = g, !.mode = drc.conv.mode]
  <2>1. /\ w \in LockRes /\ w = [drc EXCEPT !.granted = g, !.mode = drc.conv.mode]
        /\ w.conv = drc.conv /\ w.q = drc.q /\ w.granted = g
        /\ w.mode = J(i).mode
    BY <1>2, <1>3 DEF LockRes, LockMode
  <2> HIDE DEF w
  <2>2. QED
    BY <2>1
<1>7. /\ job' = [job EXCEPT ![i][1] = j] /\ drc' = ConvertNext(e) /\ J(i).owners = {}
      /\ UNCHANGED <<kind, res, sess, rels, rsn, ops, used>>
  BY <1>2, <1>4, <1>5, <1>6 DEF MasterClaims, Answer, Claim, Request
<1>8. /\ J(i)' = j /\ \A k \in Inst \ {i} : J(k)' = J(k) /\ (Active(k)' <=> Active(k))
      /\ \A k \in Inst \ {i} : Owned(k)' = Owned(k)
      /\ Owned(i)' = J(i).mode /\ ~Active(i)'
  BY <1>1, <1>2, <1>4, <1>7, JobStep DEF Active
<1>9. Queue' /\ drc' \in LockRes /\ drc'.granted = g /\ drc'.mode = J(i).mode
  BY <1>1, <1>2, <1>6, <1>7, <1>8, NextConverts
<1>10. ASSUME NEW k \in drc.granted \ {i}
       PROVE  /\ J(i).mode = LockExclusive => Owned(k) = LockNull
              /\ Owned(k) # LockExclusive
  BY <1>1, <1>2, <1>7 DEF IInv, Converts, Converting
<1>11. ASSUME NEW k \in Inst \ {i}
       PROVE  /\ Owned(k) # LockNull => k \in drc.granted /\ J(i).mode = LockShare
              /\ Owned(k) # LockExclusive
              /\ k \in drc.granted /\ Owned(k) = LockNull => J(i).mode = LockExclusive
  <2>1. /\ Owned(k) # LockNull => k \in drc.granted
        /\ Owned(k) = LockExclusive => drc.granted = {k}
        /\ k \in drc.granted /\ Owned(k) = LockNull => Releasing(k)
    BY DEF IInv, Owners
  <2>2. Releasing(k) => J(i).mode = LockExclusive
    BY <1>2, ReleasingFor
  <2>3. QED
    BY <1>2, <1>10, <2>1, <2>2
<1>12. Owners'
  <2>1. /\ drc'.mode = LockNull <=> drc'.granted = {}
        /\ kind = "spin" \/ drc'.mode = LockExclusive => \A k, l \in drc'.granted : k = l
    BY <1>2, <1>5, <1>9, Modes
  <2>2. ASSUME NEW k \in Inst
        PROVE  /\ Owned(k)' # LockNull => k \in drc'.granted
               /\ Owned(k)' = LockExclusive => drc'.granted = {k} /\ drc'.mode = LockExclusive
               /\ k \in drc'.granted => Owned(k)' # LockNull
    <3>1. CASE k = i
      BY <1>2, <1>5, <1>8, <1>9, <3>1, Modes
    <3>2. CASE k # i
      BY <1>2, <1>5, <1>8, <1>9, <1>11, <3>2, Modes
    <3>3. QED
      BY <3>1, <3>2
  <2>3. QED
    BY <1>7, <2>1, <2>2 DEF Owners
<1>13. ASSUME NEW k \in Inst PROVE Converting(k)'
  <2>1. CASE k = i
    BY <1>4, <1>8, <2>1 DEF Converting
  <2>2. CASE k # i
    <3>1. J(k).pc \in {"ask", "wait", "released", "refused"} => FALSE
      BY <1>2, <2>2, OneConverts
    <3>2. Active(k) => k \notin drc.granted
      BY <3>1 DEF IInv, Converts, Converting, Active
    <3>3. QED
      BY <1>5, <1>8, <1>9, <2>2, <3>1, <3>2 DEF Converting
  <2>3. QED
    BY <2>1, <2>2
<1>14. Rels'
  BY <1>1, <1>2, <1>7, <1>8 DEF IInv, Rels, Release
<1>15. rels' \subseteq Release
  BY <1>2, <1>7
<1>16. QED
  BY <1>2, <1>4, <1>7, <1>9, <1>12, <1>13, <1>14, <1>15, MasterFrame DEF Converts

(* A request whose turn it is: everybody in its way is to be asked.  *)
LEMMA AskBegins ==
    ASSUME IInv, NEW i \in Inst, J(i).pc = "sent" \/ (J(i).pc = "queued" /\ drc.conv.inst = i),
           J(i).pc = "sent" => ~Busy(drc),
           NEW j \in JobRec, job' = [job EXCEPT ![i][1] = j], j.pc = "ask", j.mode = J(i).mode,
           j.owners = OwnersToAsk(drc, [inst |-> i, mode |-> J(i).mode]) \ {i},
           j.try = J(i).try,
           UNCHANGED <<kind, res, sess, rels, rsn, ops, used>>,
           drc' \in LockRes, drc'.granted = drc.granted, drc'.mode = drc.mode, Queue'
    PROVE  IInv'
<1>1. /\ J(i).pc # "none" /\ J(i) = job[i][1] /\ 1 \in Rsn /\ (J(i).pc = "sent" \/ Active(i))
      /\ Active(i) => J(i).pc = "queued"
  BY OneRsn DEF Active, J
<1>2. /\ job \in [Inst -> [Rsn -> JobRec]] /\ drc \in LockRes /\ rels \subseteq Release
      /\ J(i).mode \in {LockShare, LockExclusive}
      /\ J(i).mode = LockShare => Owned(i) = LockNull
  BY <1>1, JobFacts
<1>3. \A k \in Inst : J(k).pc \in {"ask", "wait", "released", "refused"} => FALSE
  BY OneConverts DEF Active
<1>4. /\ J(i)' = j /\ \A k \in Inst \ {i} : J(k)' = J(k) /\ (Active(k)' <=> Active(k))
      /\ \A k \in Inst : Owned(k)' = Owned(k)
  BY <1>1, <1>2, JobStep
<1>5. \A k \in Inst : ~Releasing(k)
  BY <1>3 DEF Releasing
<1>6. Owners'
  BY <1>4, <1>5 DEF IInv, Owners
<1>7. ASSUME NEW k \in Inst PROVE Converting(k)'
  <2>1. Converting(k) /\ drc.granted \subseteq Inst
    BY <1>2 DEF IInv, Converts, LockRes
  <2>2. CASE k = i
    <3>1. j.owners \subseteq drc.granted \ {i}
      BY DEF OwnersToAsk
    <3>2. \A l \in drc.granted : l \in Inst /\ Owned(l) # LockNull
      BY <1>5, <2>1 DEF IInv, Owners
    <3>3. j.mode = LockShare => i \notin drc.granted
      BY <1>2, <3>2
    <3>4. ASSUME NEW l \in drc.granted \ {i}, j.mode = LockExclusive \/ Owned(l) = LockExclusive
          PROVE  l \in j.owners
      <4>1. /\ drc.mode # LockNull /\ (Owned(l) = LockExclusive => drc.mode = LockExclusive)
            /\ drc.mode \in LockMode
        BY <1>2, <3>2, <3>4 DEF IInv, Owners, LockRes
      <4>2. ~Compatible(J(i).mode, drc.mode)
        BY <1>2, <3>4, <4>1, Modes DEF Compatible
      <4>3. QED
        BY <3>4, <4>2 DEF OwnersToAsk
    <3>5. QED
      BY <1>4, <2>2, <3>1, <3>2, <3>3, <3>4 DEF Converting
  <2>3. CASE k # i
    BY <1>3, <1>4, <2>1, <2>3 DEF Converting
  <2>4. QED
    BY <2>2, <2>3
<1>8. Rels'
  <2>1. \A m \in rels : m.inst \in Inst
    BY <1>2 DEF Release
  <2>2. \A m \in rels : FALSE
    BY <1>3, <2>1 DEF IInv, Rels
  <2>3. QED
    BY <2>2 DEF Rels
<1>9. rels' \subseteq Release
  BY <1>2
<1>10. QED
  BY <1>1, <1>6, <1>7, <1>8, <1>9, MasterFrame DEF Converts

(* Fields of a request that has been told to ask the owners. *)
LEMMA ConvertJob ==
    ASSUME NEW i \in Inst, job \in [Inst -> [Rsn -> JobRec]], NEW o \in SUBSET Inst, Convert(i, 1, o)
    PROVE  \E j \in JobRec : /\ job' = [job EXCEPT ![i][1] = j] /\ j.pc = "ask"
                             /\ j.owners = o \ {i} /\ j.mode = J(i).mode /\ j.try = J(i).try
<1> DEFINE j == [J(i) EXCEPT !.pc = "ask", !.owners = o \ {i}]
<1>1. J(i) \in JobRec
  BY OneRsn DEF J
<1>2. /\ j \in JobRec /\ j.pc = "ask" /\ j.owners = o \ {i} /\ j.mode = J(i).mode
      /\ j.try = J(i).try
  BY <1>1 DEF JobRec, JobPc
<1>3. job' = [job EXCEPT ![i][1] = j]
  BY OneRsn DEF Convert, J
<1>4. QED
  BY <1>2, <1>3

LEMMA MasterTurnIInv ==
    ASSUME IInv, NEW i \in Inst, NEW r \in Rsn, MasterTurn(i, r)
    PROVE  IInv'
<1>1. job[i][r].pc = "queued"
  BY DEF MasterTurn
<1>2. /\ r = 1 /\ job[i][r] = J(i) /\ J(i) \in JobRec
      /\ job \in [Inst -> [Rsn -> JobRec]] /\ drc \in LockRes
      /\ drc.conv.inst = i /\ J(i).pc = "queued" /\ Active(i)
      /\ UNCHANGED <<kind, res, sess, drc, rels, rsn, ops, used>>
  BY <1>1, JobFacts DEF MasterTurn, Active
<1>3. PICK o \in SUBSET Inst : o = OwnersToAsk(drc, [inst |-> i, mode |-> J(i).mode])
  BY <1>2 DEF OwnersToAsk, LockRes
<1>4. Convert(i, 1, o)
  BY <1>2, <1>3 DEF MasterTurn, Request
<1>5. PICK j \in JobRec : /\ job' = [job EXCEPT ![i][1] = j] /\ j.pc = "ask"
                          /\ j.owners = o \ {i} /\ j.mode = J(i).mode /\ j.try = J(i).try
  BY <1>2, <1>4, ConvertJob
<1>6. /\ J(i)' = j /\ \A k \in Inst \ {i} : J(k)' = J(k)
      /\ \A k \in Inst : Active(k)' <=> Active(k)
  BY <1>2, <1>5, JobGoesOn DEF ActivePc
<1>7. Queue'
  BY <1>2, <1>5, <1>6, QueueStays
<1>8. drc' \in LockRes /\ drc'.granted = drc.granted /\ drc'.mode = drc.mode
  BY <1>2
<1>9. QED
  BY <1>2, <1>3, <1>5, <1>7, <1>8, AskBegins

(* A request that is turned away. *)
LEMMA TurnedAway ==
    ASSUME IInv, NEW i \in Inst, J(i).pc = "sent", NEW j \in JobRec, j.pc = "fail",
           job' = [job EXCEPT ![i][1] = j],
           UNCHANGED <<kind, res, sess, drc, rels, rsn, ops, used>>
    PROVE  IInv'
<1>1. job \in [Inst -> [Rsn -> JobRec]] /\ drc \in LockRes /\ rels \subseteq Release
  BY DEF IInv, DlsTypeOK, JobRec
<1>2. /\ J(i)' = j /\ \A k \in Inst \ {i} : J(k)' = J(k) /\ (Active(k)' <=> Active(k))
      /\ \A k \in Inst : Owned(k)' = Owned(k)
      /\ ~Active(i) /\ ~Active(i)'
  BY <1>1, JobStep DEF Active
<1>3. \A k \in Inst : Active(k) \/ Active(k)' => J(k)' = J(k)
  BY <1>2
<1>4. Queue' /\ Owners' /\ Converts' /\ Rels'
  BY <1>1, <1>2, <1>3, MasterStays DEF IInv
<1>5. drc' \in LockRes /\ rels' \subseteq Release
  BY <1>1
<1>6. QED
  BY <1>4, <1>5, MasterFrame

(* A request that is queued behind the converting one. *)
LEMMA Queued ==
    ASSUME IInv, NEW i \in Inst, J(i).pc = "sent", Busy(drc), i \notin drc.granted,
           NEW j \in JobRec, j.pc = "queued", j.mode = J(i).mode, j.try = J(i).try,
           job' = [job EXCEPT ![i][1] = j],
           drc' = [drc EXCEPT !.q = Append(@, [inst |-> i, mode |-> J(i).mode])],
           UNCHANGED <<kind, res, sess, rels, rsn, ops, used>>
    PROVE  IInv'
<1>1. /\ job \in [Inst -> [Rsn -> JobRec]] /\ drc \in LockRes /\ rels \subseteq Release
      /\ J(i).mode \in {LockShare, LockExclusive}
  BY OneRsn, JobFacts DEF J
<1>2. /\ J(i)' = j /\ \A k \in Inst \ {i} : J(k)' = J(k) /\ (Active(k)' <=> Active(k))
      /\ \A k \in Inst : Owned(k)' = Owned(k)
      /\ ~Active(i) /\ Active(i)'
  BY <1>1, JobStep DEF Active
<1>3. PICK x \in LockReq : x = [inst |-> i, mode |-> J(i).mode] /\ x.inst = i /\ x.mode = J(i).mode
  BY <1>1 DEF LockReq
<1>4. PICK q : q = drc.q
  OBVIOUS
<1>5. /\ q \in Seq(LockReq) /\ Len(q) \in Nat
      /\ \A n \in 1 .. Len(q) : q[n] \in LockReq /\ q[n].inst \in Inst
      /\ drc.conv.inst \in Inst /\ drc.conv.inst # NoInst
  BY <1>1, <1>4, EntryTypes DEF Busy
<1>6. PICK p : p = Append(q, x)
  OBVIOUS
<1>7. /\ p \in Seq(LockReq) /\ Len(p) = Len(q) + 1 /\ p[Len(q) + 1] = x
      /\ \A n \in 1 .. Len(q) : p[n] = q[n] /\ n \in 1 .. Len(p)
      /\ \A n \in 1 .. Len(p) : n \in 1 .. Len(q) \/ n = Len(q) + 1
      /\ Len(q) + 1 \in 1 .. Len(p)
  BY <1>5, <1>6
<1>8. /\ drc' \in LockRes /\ drc'.q = p /\ drc'.granted = drc.granted /\ drc'.mode = drc.mode
      /\ drc'.conv = drc.conv
  BY <1>1, <1>3, <1>4, <1>6, <1>7 DEF LockRes
<1>9. /\ Active(drc.conv.inst) /\ drc.conv.mode = J(drc.conv.inst).mode /\ drc.conv.inst # i
      /\ \A n \in 1 .. Len(q) : /\ J(q[n].inst).pc = "queued" /\ q[n].mode = J(q[n].inst).mode
                                /\ q[n].inst # drc.conv.inst /\ q[n].inst # i
      /\ \A m, n \in 1 .. Len(q) : q[m].inst = q[n].inst => m = n
      /\ \A k \in Inst : /\ J(k).pc = "queued" => \/ k = drc.conv.inst
                                                  \/ \E n \in 1 .. Len(q) : q[n].inst = k
                         /\ Active(k) /\ J(k).pc # "queued" => k = drc.conv.inst
  BY <1>2, <1>4, <1>5 DEF IInv, Queue
<1>10. Queue'
  <2>1. ASSUME NEW n \in 1 .. Len(p)
        PROVE  /\ J(p[n].inst)'.pc = "queued" /\ p[n].mode = J(p[n].inst)'.mode
               /\ p[n].inst # drc.conv.inst
               /\ n \notin 1 .. Len(q) <=> p[n].inst = i
    <3>1. CASE n \in 1 .. Len(q)
      BY <1>2, <1>5, <1>7, <1>9, <3>1
    <3>2. CASE n = Len(q) + 1
      BY <1>2, <1>3, <1>5, <1>7, <1>9, <3>2
    <3>3. QED
      BY <1>7, <3>1, <3>2
  <2>2. \A m, n \in 1 .. Len(p) : p[m].inst = p[n].inst => m = n
    BY <1>7, <1>9, <2>1
  <2>3. ASSUME NEW k \in Inst
        PROVE  /\ J(k)'.pc = "queued" => \/ k = drc.conv.inst
                                         \/ \E n \in 1 .. Len(p) : p[n].inst = k
               /\ Active(k)' /\ J(k)'.pc # "queued" => k = drc.conv.inst
    <3>1. CASE k = i
      BY <1>2, <1>3, <1>7, <3>1
    <3>2. CASE k # i
      <4>1. J(k)' = J(k) /\ (Active(k)' <=> Active(k))
        BY <1>2, <3>2
      <4>2. (\E n \in 1 .. Len(q) : q[n].inst = k) => \E n \in 1 .. Len(p) : p[n].inst = k
        BY <1>7
      <4>3. QED
        BY <1>9, <4>1, <4>2
    <3>3. QED
      BY <3>1, <3>2
  <2>4. Active(drc.conv.inst)' /\ drc.conv.mode = J(drc.conv.inst)'.mode
    BY <1>2, <1>5, <1>8, <1>9
  <2>5. QED
    BY <1>5, <1>8, <2>1, <2>2, <2>3, <2>4 DEF Queue
<1>11. \A k \in Inst : Releasing(k) => Releasing(k)'
  BY <1>2 DEF Releasing
<1>12. Owners'
  BY <1>2, <1>8, <1>11 DEF IInv, Owners
<1>13. ASSUME NEW k \in Inst PROVE Converting(k)'
  <2>1. Converting(k) /\ drc.granted \subseteq Inst /\ J(k) \in JobRec
    BY <1>1, OneRsn DEF IInv, Converts, LockRes, J
  <2>2. CASE k = i
    BY <1>2, <1>8, <2>2 DEF Converting
  <2>3. CASE k # i
    <3>1. J(k).pc \in {"wait", "released"} => J(k).at \in Inst
      BY <2>1 DEF Converting, JobRec
    <3>2. \A l \in J(k).owners : l \in Inst
      BY <2>1 DEF JobRec
    <3>3. QED
      BY <1>2, <1>8, <2>1, <2>3, <3>1, <3>2 DEF Converting
  <2>4. QED
    BY <2>2, <2>3
<1>14. Rels'
  BY <1>1, <1>2 DEF IInv, Rels, Release
<1>15. rels' \subseteq Release
  BY <1>1
<1>16. QED
  BY <1>8, <1>10, <1>12, <1>13, <1>14, <1>15, MasterFrame DEF Converts

LEMMA MasterTakesIInv ==
    ASSUME IInv, NEW i \in Inst, NEW r \in Rsn, MasterTakes(i, r)
    PROVE  IInv'
<1>1. job[i][r].pc = "sent" /\ UNCHANGED <<kind, res, sess, rels, rsn, ops, used>>
  BY DEF MasterTakes
<1>2. /\ r = 1 /\ job[i][r] = J(i) /\ J(i) \in JobRec /\ J(i).pc = "sent" /\ rsn[i] = 1
      /\ job \in [Inst -> [Rsn -> JobRec]] /\ drc \in LockRes
      /\ J(i).mode \in {LockShare, LockExclusive}
  BY <1>1, JobFacts
<1>3. PICK req \in LockReq : /\ req = [inst |-> i, mode |-> J(i).mode] /\ req = Request(i, r)
                             /\ req.inst = i /\ req.mode = J(i).mode
  <2> DEFINE w == [inst |-> i, mode |-> J(i).mode]
  <2>1. /\ w \in LockReq /\ w = [inst |-> i, mode |-> J(i).mode] /\ w = Request(i, r)
        /\ w.inst = i /\ w.mode = J(i).mode
    BY <1>2 DEF LockReq, Request
  <2> HIDE DEF w
  <2>2. QED
    BY <2>1
<1>4. PICK f \in JobRec : f = [NoJob EXCEPT !.pc = "fail"] /\ f.pc = "fail"
  <2> DEFINE w == [NoJob EXCEPT !.pc = "fail"]
  <2>1. /\ w \in JobRec /\ w = [NoJob EXCEPT !.pc = "fail"] /\ w.pc = "fail"
    BY OneRsn DEF JobRec, JobPc, NoJob
  <2> HIDE DEF w
  <2>2. QED
    BY <2>1
<1>5. Answer(i, r, "fail") => job' = [job EXCEPT ![i][1] = f]
  BY <1>2, <1>4 DEF Answer
<1>6. CASE ~Busy(drc) /\ drc' = Cancel(StartConvert(drc, req), i) /\ Answer(i, r, "fail")
  <2>1. drc.conv = NoLockReq /\ drc.q = <<>>
    BY <1>2, <1>6, EntryTypes, OneConverts DEF Busy
  <2>2. drc' = drc
    BY <1>2, <1>3, <1>6, <2>1 DEF Cancel, StartConvert, ConvertNext, LockRes
  <2>3. QED
    BY <1>1, <1>2, <1>4, <1>5, <1>6, <2>2, TurnedAway
<1>7. CASE ~Busy(drc) /\ drc' = StartConvert(drc, req) /\ Convert(i, r, OwnersToAsk(drc, req))
  <2>1. drc.conv.inst = NoInst /\ drc.q = <<>> /\ \A k \in Inst : ~Active(k)
    BY <1>7, OneConverts DEF Busy
  <2>2. /\ drc' \in LockRes /\ drc'.conv = req /\ drc'.q = <<>>
        /\ drc'.granted = drc.granted /\ drc'.mode = drc.mode
    BY <1>2, <1>7, <2>1 DEF StartConvert, LockRes
  <2>3. PICK o \in SUBSET Inst : o = OwnersToAsk(drc, req)
    BY <1>2 DEF OwnersToAsk, LockRes
  <2>4. PICK j \in JobRec : /\ job' = [job EXCEPT ![i][1] = j] /\ j.pc = "ask"
                            /\ j.owners = o \ {i} /\ j.mode = J(i).mode /\ j.try = J(i).try
    BY <1>2, <1>7, <2>3, ConvertJob
  <2>5. /\ J(i)' = j /\ \A k \in Inst \ {i} : J(k)' = J(k) /\ ~Active(k)' /\ J(k)'.pc # "queued"
        /\ Active(i)'
    BY <1>1, <1>2, <2>1, <2>4, JobStep DEF Active
  <2>6. Queue'
    <3>1. drc'.conv.inst = i /\ i # NoInst /\ drc'.conv.mode = J(i)'.mode
      BY <1>3, <2>2, <2>4, <2>5, NoInstAssumption
    <3>2. \A k \in Inst : Active(k)' \/ J(k)'.pc = "queued" => k = i
      BY <2>5
    <3>3. QED
      BY <2>2, <2>5, <3>1, <3>2 DEF Queue
  <2>7. QED
    BY <1>1, <1>2, <1>3, <1>7, <2>2, <2>3, <2>4, <2>6, AskBegins
<1>8. CASE Answer(i, r, "fail") /\ UNCHANGED drc
  BY <1>1, <1>2, <1>4, <1>5, <1>8, TurnedAway
<1>9. CASE Busy(drc) /\ ~MustNotWait(drc, req) /\ drc' = Enqueue(drc, req) /\ JobTo(i, r, "queued")
  <2>1. PICK j \in JobRec : /\ j = [J(i) EXCEPT !.pc = "queued"] /\ j.pc = "queued"
                            /\ j.mode = J(i).mode /\ j.try = J(i).try
    <3> DEFINE w == [J(i) EXCEPT !.pc = "queued"]
    <3>1. /\ w \in JobRec /\ w = [J(i) EXCEPT !.pc = "queued"] /\ w.pc = "queued"
          /\ w.mode = J(i).mode /\ w.try = J(i).try
      BY <1>2 DEF JobRec, JobPc
    <3> HIDE DEF w
    <3>2. QED
      BY <3>1
  <2>2. job' = [job EXCEPT ![i][1] = j]
    BY <1>2, <1>9, <2>1 DEF JobTo, J
  <2>3. i \notin drc.granted
    BY <1>3, <1>9 DEF MustNotWait
  <2>4. drc' = [drc EXCEPT !.q = Append(@, [inst |-> i, mode |-> J(i).mode])]
    BY <1>3, <1>9 DEF Enqueue
  <2>5. QED
    BY <1>1, <1>2, <1>9, <2>1, <2>2, <2>3, <2>4, Queued
<1>10. QED
  BY <1>3, <1>6, <1>7, <1>8, <1>9 DEF MasterTakes

---------------------------------------------------------------------------
(* Steps of an owner that is asked to release.                             *)

(* The release is the only one under way, and its addressee has the lock.  *)
LEMMA ReleaseFacts ==
    ASSUME IInv, NEW m \in rels, NEW i, NEW a, i = m.inst, a = m.to
    PROVE  /\ i \in Inst /\ a \in Inst /\ a # i /\ J(i) \in JobRec /\ J(i).pc = "wait" /\ Active(i)
           /\ J(i).at = a /\ m.rsn = 1 /\ J(i).mode = m.mode /\ (J(i).try <=> m.try)
           /\ job \in [Inst -> [Rsn -> JobRec]] /\ drc \in LockRes /\ res \in [Inst -> LocalRes]
           /\ res[a] \in LocalRes /\ Local(a) /\ drc.conv.inst = i /\ a \in drc.granted
           /\ rels \ {m} = {} /\ m.mode \in {LockShare, LockExclusive}
           /\ m.mode = LockShare \/ kind = "latch" => ~m.try
           /\ m.mode = LockShare => kind = "latch"
           /\ \A k \in drc.granted : Owned(k) # LockNull
           /\ res[a].resx = NoSession => J(a).pc = "none" /\ res[a].mode # LockNull
           /\ res[a].there
<1>1. /\ m \in Release /\ i \in Inst /\ a \in Inst
      /\ job \in [Inst -> [Rsn -> JobRec]] /\ drc \in LockRes /\ res \in [Inst -> LocalRes]
      /\ \A n \in rels : n \in Release /\ n.inst \in Inst
  BY DEF IInv, DlsTypeOK, JobRec, Release
<1>2. /\ J(i).pc = "wait" /\ J(i).at = a /\ m.rsn = 1 /\ J(i).mode = m.mode
      /\ J(i).try <=> m.try
  BY DEF IInv, Rels
<1>3. /\ J(i) \in JobRec /\ Active(i) /\ drc.conv.inst = i /\ res[a] \in LocalRes /\ Local(a) /\ Local(i)
      /\ m.mode \in {LockShare, LockExclusive} /\ (m.mode = LockShare => kind = "latch")
  BY <1>1, <1>2, OneRsn, OneConverts, JobFacts DEF Active, J, IInv, Locals
<1>4. a \in J(i).owners /\ J(i).owners \subseteq drc.granted \ {i} /\ drc.granted \subseteq Inst
  BY <1>1, <1>2 DEF IInv, Converts, Converting, LockRes
<1>5. ASSUME NEW n \in rels PROVE n = m
  <2>1. J(n.inst).pc = "wait" /\ n.inst \in Inst
    BY <1>1 DEF IInv, Rels
  <2>2. n.inst = i
    BY <1>3, <2>1, OneConverts
  <2>3. n.to = m.to /\ n.mode = m.mode /\ n.inst = m.inst /\ n.rsn = m.rsn /\ (n.try <=> m.try)
    BY <1>2, <2>2 DEF IInv, Rels
  <2>4. n \in Release
    BY <1>1
  <2>5. QED
    BY <1>1, <2>3, <2>4 DEF Release
<1>6. ASSUME NEW k \in drc.granted PROVE Owned(k) # LockNull
  <2>1. k \in Inst /\ ~Releasing(k)
    BY <1>2, <1>3, <1>4, ReleasingFor
  <2>2. QED
    BY <2>1 DEF IInv, Owners
<1>7. m.mode = LockShare \/ kind = "latch" => ~m.try
  <2> SUFFICES ASSUME kind = "latch", m.try PROVE FALSE
    BY <1>3
  <2>1. PICK s : s = res[i].resx
    OBVIOUS
  <2>2. s \in Session /\ Home[s] = i /\ Asking(s) /\ sess[s].call = "try"
    BY <1>1, <1>2, <1>3, <2>1 DEF Local, EntryOK, LocalRes
  <2>3. sess[s].call \in LatchCalls
    BY <1>3, <2>2 DEF Local, CallOK, Asking, CallsOf
  <2>4. QED
    BY <2>2, <2>3 DEF LatchCalls
<1>8. res[a].resx = NoSession => J(a).pc = "none" /\ res[a].mode # LockNull
  <2> SUFFICES ASSUME res[a].resx = NoSession PROVE J(a).pc = "none" /\ res[a].mode # LockNull
    OBVIOUS
  <2>1. J(a).pc = "none"
    BY <1>3 DEF Local, EntryOK
  <2>2. Owned(a) = res[a].mode
    BY <2>1 DEF Owned
  <2>3. QED
    BY <1>4, <1>6, <2>1, <2>2
<1>9. res[a].there
  <2> SUFFICES ASSUME ~res[a].there PROVE FALSE
    OBVIOUS
  <2>1. PICK s : s = res[a].resx
    OBVIOUS
  <2>2. s # NoSession => s \in Session /\ Home[s] = a /\ sess[s].pc # "idle"
    BY <1>3, <2>1 DEF Local, EntryOK, LocalRes, Asking, Held
  <2>3. s = NoSession
    BY <1>3, <2>2 DEF Local, CallOK
  <2>4. res[a].mode = LockNull
    BY <1>3 DEF Local, EntryOK
  <2>5. QED
    BY <1>8, <2>1, <2>3, <2>4
<1>10. rels \ {m} = {} /\ a # i /\ a \in drc.granted
  BY <1>4, <1>5
<1>11. QED
  BY <1>1, <1>2, <1>3, <1>6, <1>7, <1>8, <1>9, <1>10

(* The answer goes to the request that waits for it. *)
LEMMA ReplyJob ==
    ASSUME NEW i \in Inst, NEW pc \in JobPc, J(i) \in JobRec, job \in [Inst -> [Rsn -> JobRec]],
           job' = [job EXCEPT ![i][1].pc = pc]
    PROVE  \E j \in JobRec : /\ job' = [job EXCEPT ![i][1] = j]
                             /\ j.pc = pc /\ j.mode = J(i).mode /\ j.try = J(i).try
                             /\ j.owners = J(i).owners /\ j.at = J(i).at
<1> DEFINE j == [J(i) EXCEPT !.pc = pc]
<1>2. /\ j \in JobRec /\ j.pc = pc /\ j.mode = J(i).mode /\ j.try = J(i).try
      /\ j.owners = J(i).owners /\ j.at = J(i).at
  BY DEF JobRec
<1>4. job' = [job EXCEPT ![i][1] = j]
  BY OneRsn DEF J
<1> HIDE DEF j
<1>5. QED
  BY <1>2, <1>4

LEMMA RefuseStep ==
    ASSUME IInv, NEW m \in rels, Reply(m, "refused"),
           UNCHANGED <<kind, res, sess, drc, rsn, ops>>,
           used' = used \/ used' \in [{"refuse", "recycle", "lost"} -> Nat]
    PROVE  IInv'
<1>1. PICK i, a : i = m.inst /\ a = m.to
  OBVIOUS
<1>2. /\ i \in Inst /\ J(i) \in JobRec /\ J(i).pc = "wait" /\ Active(i)
      /\ job \in [Inst -> [Rsn -> JobRec]] /\ drc \in LockRes /\ drc.conv.inst = i
      /\ \A k \in drc.granted : Owned(k) # LockNull
  BY <1>1, ReleaseFacts
<1>3. PICK j \in JobRec : /\ job' = [job EXCEPT ![i][1] = j] /\ rels' = {}
                          /\ j.pc = "refused" /\ j.mode = J(i).mode /\ j.try = J(i).try
  <2>1. "refused" \in JobPc
    BY DEF JobPc
  <2>2. rels' = {} /\ job' = [job EXCEPT ![i][1].pc = "refused"]
    <3>1. m.rsn = 1 /\ rels \ {m} = {}
      BY <1>1, ReleaseFacts
    <3>2. QED
      BY <1>1, <3>1 DEF Reply, NoRsn
  <2>3. PICK pc \in JobPc : pc = "refused"
    BY <2>1
  <2>4. job' = [job EXCEPT ![i][1].pc = pc]
    BY <2>2, <2>3
  <2>5. PICK j \in JobRec : /\ job' = [job EXCEPT ![i][1] = j]
                            /\ j.pc = pc /\ j.mode = J(i).mode /\ j.try = J(i).try
                            /\ j.owners = J(i).owners /\ j.at = J(i).at
    <3>1. i \in Inst /\ J(i) \in JobRec /\ job \in [Inst -> [Rsn -> JobRec]]
      BY <1>2
    <3>2. QED
      BY ONLY <3>1, <2>4, ReplyJob
  <2>6. QED
    BY <1>2, <2>2, <2>3, <2>5
<1>4. /\ J(i)' = j /\ \A k \in Inst \ {i} : J(k)' = J(k)
      /\ \A k \in Inst : Owned(k)' = Owned(k)
      /\ \A k \in Inst : Active(k)' <=> Active(k)
  BY <1>2, <1>3, JobGoesOn DEF ActivePc
<1>5. Queue'
  BY <1>2, <1>3, <1>4, QueueStays
<1>6. Owners'
  BY <1>2, <1>4 DEF IInv, Owners
<1>7. ASSUME NEW k \in Inst PROVE Converting(k)'
  <2>1. Converting(k)
    BY DEF IInv, Converts
  <2>2. CASE k = i
    BY <1>2, <1>3, <1>4, <2>1, <2>2 DEF Converting
  <2>3. CASE k # i
    <3>1. J(k).pc \in {"ask", "wait", "released"} => FALSE
      BY <1>2, <2>3, OneConverts
    <3>2. QED
      BY <1>4, <2>1, <2>3, <3>1 DEF Converting
  <2>4. QED
    BY <2>2, <2>3
<1>8. Rels' /\ rels' \subseteq Release /\ drc' \in LockRes
  BY <1>2, <1>3 DEF Rels
<1>9. QED
  BY <1>2, <1>3, <1>5, <1>6, <1>7, <1>8, MasterFrame DEF Converts

(* An owner that releases has no holder, and a share owner keeps the lock  *)
(* for sharing.                                                            *)
LEMMA ReleaseStep ==
    ASSUME IInv, NEW m \in rels, Reply(m, "released"), NEW a, a = m.to,
           res[a].resx = NoSession, ~res[a].locked, m.try \/ MayRelease(res[a]),
           res' = [res EXCEPT ![a] = Released(res[a], m.mode)],
           UNCHANGED <<kind, sess, drc, rsn, ops, used>>
    PROVE  IInv'
<1>1. PICK i : i = m.inst
  OBVIOUS
<1>2. /\ i \in Inst /\ a \in Inst /\ a # i /\ J(i) \in JobRec /\ J(i).pc = "wait" /\ Active(i)
      /\ J(i).at = a /\ J(i).mode = m.mode
      /\ job \in [Inst -> [Rsn -> JobRec]] /\ drc \in LockRes /\ res \in [Inst -> LocalRes]
      /\ res[a] \in LocalRes /\ Local(a) /\ drc.conv.inst = i /\ a \in drc.granted
      /\ m.mode \in {LockShare, LockExclusive}
      /\ (kind = "latch" => ~m.try) /\ (m.mode = LockShare => kind = "latch")
      /\ \A k \in drc.granted : Owned(k) # LockNull
      /\ J(a).pc = "none" /\ res[a].there
  BY <1>1, ReleaseFacts
<1>3. PICK j \in JobRec : /\ job' = [job EXCEPT ![i][1] = j] /\ rels' = {}
                          /\ j.pc = "released" /\ j.mode = J(i).mode /\ j.try = J(i).try
                          /\ j.owners = J(i).owners /\ j.at = a
  <2>1. "released" \in JobPc
    BY DEF JobPc
  <2>2. rels' = {} /\ job' = [job EXCEPT ![i][1].pc = "released"]
    <3>1. m.rsn = 1 /\ rels \ {m} = {}
      BY <1>1, ReleaseFacts
    <3>2. QED
      BY <1>1, <3>1 DEF Reply, NoRsn
  <2>3. PICK pc \in JobPc : pc = "released"
    BY <2>1
  <2>4. job' = [job EXCEPT ![i][1].pc = pc]
    BY <2>2, <2>3
  <2>5. PICK j \in JobRec : /\ job' = [job EXCEPT ![i][1] = j]
                            /\ j.pc = pc /\ j.mode = J(i).mode /\ j.try = J(i).try
                            /\ j.owners = J(i).owners /\ j.at = J(i).at
    BY ONLY <1>2, <2>4, ReplyJob
  <2>6. QED
    BY <1>2, <2>2, <2>3, <2>5
<1>4. PICK r \in LocalRes : /\ r = Released(res[a], m.mode) /\ r.resx = NoSession /\ r.there
                            /\ ~r.locked /\ r.stat = res[a].stat /\ r.shared = res[a].shared
                            /\ r.mode = IF m.mode = LockExclusive THEN LockNull ELSE LockShare
                            /\ (r.owner <=> m.mode # LockExclusive)
  <2>1. CASE m.mode = LockExclusive
    <3>1. Released(res[a], m.mode) = [res[a] EXCEPT !.mode = LockNull, !.locked = FALSE, !.owner = FALSE]
      BY <2>1 DEF Released
    <3> DEFINE w == Released(res[a], m.mode)
    <3>2. /\ w \in LocalRes /\ w.resx = NoSession /\ w.there /\ ~w.locked /\ ~w.owner
          /\ w.stat = res[a].stat /\ w.shared = res[a].shared /\ w.mode = LockNull
      BY <1>2, <3>1, Modes DEF LocalRes
    <3>3. QED
      BY <2>1, <3>2
  <2>2. CASE m.mode # LockExclusive
    <3>1. Released(res[a], m.mode) = [res[a] EXCEPT !.mode = LockShare, !.locked = FALSE, !.owner = TRUE]
      BY <2>2 DEF Released
    <3> DEFINE w == Released(res[a], m.mode)
    <3>2. /\ w \in LocalRes /\ w.resx = NoSession /\ w.there /\ ~w.locked /\ w.owner
          /\ w.stat = res[a].stat /\ w.shared = res[a].shared /\ w.mode = LockShare
      BY <1>2, <3>1, Modes DEF LocalRes
    <3>3. QED
      BY <2>2, <3>2
  <2>3. QED
    BY <2>1, <2>2
<1>5. /\ res' = [res EXCEPT ![a] = r] /\ res'[a] = r /\ \A k \in Inst \ {a} : res'[k] = res[k]
      /\ res' \in [Inst -> LocalRes]
  BY <1>2, <1>4
<1>6. /\ J(i)' = j /\ \A k \in Inst \ {i} : J(k)' = J(k)
      /\ \A k \in Inst : Active(k)' <=> Active(k)
      /\ job' \in [Inst -> [Rsn -> JobRec]]
      /\ \A k \in Inst : \A n \in Rsn \ {1} : job'[k][n] = job[k][n]
  BY <1>2, <1>3, OneRsn DEF Active, J
<1>7. \A k \in Inst \ {a} : Owned(k)' = Owned(k)
  BY <1>2, <1>3, <1>5, <1>6 DEF Owned
<1>8. Owned(a)' = r.mode /\ Owned(a) = res[a].mode
  BY <1>2, <1>5, <1>6 DEF Owned
<1>9. DlsTypeOK'
  BY <1>2, <1>3, <1>5, <1>6 DEF IInv, DlsTypeOK, JobRec
<1>10. OneRequest'
  BY <1>6 DEF IInv, OneRequest
<1>11. Local(a)'
  <2>1. ASSUME NEW t \in Session, Home[t] = a PROVE ~Asking(t) /\ sess[t].pc # "req" /\ CallOK(t)
    <3>1. CallOK(t) /\ t # NoSession
      BY <1>2, <2>1, SessionAssumption DEF Local
    <3>2. ~Asking(t)
      BY <2>1, <3>1 DEF CallOK
    <3>3. QED
      BY <3>1, <3>2 DEF Asking
  <2>2. EntryOK(a)'
    BY <1>2, <1>4, <1>5, <1>6 DEF EntryOK, Active
  <2>3. \A t \in Session : Home[t] = a => CallOK(t)'
    BY <1>4, <1>5, <2>1 DEF CallOK, Asking
  <2>4. kind = "spin" => SpinOK(a)'
    <3> SUFFICES ASSUME kind = "spin" PROVE SpinOK(a)'
      OBVIOUS
    <3>1. SpinOK(a) /\ m.mode = LockExclusive
      BY <1>2 DEF Local
    <3>2. \A t \in Session : Home[t] = a => ~Held(t)
      BY <3>1 DEF SpinOK
    <3>3. QED
      BY <1>4, <1>5, <3>1, <3>2, Modes DEF SpinOK, Held
  <2>5. kind = "latch" => LatchOK(a)'
    <3> SUFFICES ASSUME kind = "latch" PROVE LatchOK(a)'
      OBVIOUS
    <3>1. /\ LatchOK(a) /\ (res[a].stat = "IDLE" \/ (res[a].stat = "IX" /\ res[a].shared = 0))
      BY <1>2 DEF Local, MayRelease
    <3>2. res[a].shared = 0 /\ Sharers(a) = {} /\ Sharers(a)' = Sharers(a)
      BY <3>1, SharersFinite DEF LatchOK, Sharers, Held
    <3>3. ASSUME NEW t \in Session, Home[t] = a PROVE ~Held(t) /\ LatchCallOK(t, res[a])
      <4>1. LatchCallOK(t, res[a])
        BY <3>1, <3>3 DEF LatchOK
      <4>2. Held(t) => t \in Sharers(a)
        BY <3>1, <3>3, <4>1 DEF LatchCallOK, Sharers
      <4>3. QED
        BY <3>2, <4>1, <4>2
    <3>4. \A t \in Session : Home[t] = a => LatchCallOK(t, res[a])'
      BY <1>4, <1>5, <2>1, <3>3 DEF LatchCallOK, Held
    <3>5. \A t, u \in Session : t # u /\ Home[t] = a /\ Home[u] = a =>
             /\ ~(sess'[t].pc \in IntentPc /\ sess'[u].pc \in IntentPc)
             /\ ~(Held(t)' /\ Held(u)' /\ res'[a].stat = "X")
      BY <3>1, <3>3 DEF LatchOK, Held
    <3>6. res'[a].shared = 0 /\ res[a].shared = Cardinality(Sharers(a)) /\ res'[a].stat # "S"
      BY <1>4, <1>5, <3>1, <3>2 DEF LatchOK
    <3>7. QED
      BY <3>2, <3>4, <3>5, <3>6 DEF LatchOK
  <2>6. QED
    BY <2>2, <2>3, <2>4, <2>5 DEF Local
<1>12. ASSUME NEW k \in Inst PROVE Local(k)'
  <2>1. Local(k) /\ res[k].resx \in Session \cup {NoSession}
    BY <1>2 DEF IInv, Locals, LocalRes
  <2>2. CASE k = a
    BY <1>11, <2>2
  <2>3. CASE k = i
    BY <1>2, <1>3, <1>5, <1>6, <2>1, <2>3, LocalJob
  <2>4. CASE k \notin {a, i}
    BY <1>5, <1>6, <2>1, <2>4, LocalStays
  <2>5. QED
    BY <2>2, <2>3, <2>4
<1>13. Queue'
  BY <1>2, <1>3, <1>6, QueueStays
<1>14. Owners'
  <2>1. ASSUME NEW k \in Inst
        PROVE  /\ Owned(k)' # LockNull => k \in drc.granted
               /\ Owned(k)' = LockExclusive => drc.granted = {k} /\ drc.mode = LockExclusive
               /\ k \in drc.granted /\ Owned(k)' = LockNull => Releasing(k)'
    <3>1. CASE k = a
      <4>1. Owned(a)' # LockExclusive /\ (Owned(a)' = LockNull => m.mode = LockExclusive)
        BY <1>2, <1>4, <1>8, Modes
      <4>2. m.mode = LockExclusive => Releasing(a)'
        BY <1>2, <1>3, <1>6 DEF Releasing
      <4>3. QED
        BY <1>2, <3>1, <4>1, <4>2
    <3>2. CASE k # a
      <4>1. Owned(k)' = Owned(k)
        BY <1>7, <3>2
      <4>2. QED
        BY <1>2, <4>1 DEF IInv, Owners
    <3>3. QED
      BY <3>1, <3>2
  <2>2. QED
    BY <2>1 DEF IInv, Owners
<1>15. ASSUME NEW k \in Inst PROVE Converting(k)'
  <2>1. Converting(k) /\ drc.granted \subseteq Inst
    BY <1>2 DEF IInv, Converts, LockRes
  <2>2. CASE k = i
    <3>1. Owned(a)' # LockExclusive /\ (m.mode = LockExclusive => Owned(a)' = LockNull)
      BY <1>2, <1>4, <1>8, Modes
    <3>2. a \in j.owners /\ j.owners \subseteq drc.granted \ {i}
      BY <1>2, <1>3, <2>1, <2>2 DEF Converting
    <3>3. \A l \in drc.granted \ {i} :
                /\ j.mode = LockExclusive =>
                      l \in j.owners \/ (kind = "spin" /\ Owned(l)' = LockNull)
                /\ Owned(l)' = LockExclusive => l \in j.owners
      BY <1>2, <1>3, <1>7, <2>1, <2>2, <3>1, <3>2 DEF Converting
    <3>4. j.mode = LockShare => i \notin drc.granted
      BY <1>2, <1>3, <2>1, <2>2 DEF Converting
    <3>5. QED
      BY <1>2, <1>3, <1>6, <2>2, <3>1, <3>2, <3>3, <3>4 DEF Converting
  <2>3. CASE k # i
    <3>1. J(k).pc \in {"ask", "wait", "released"} => FALSE
      BY <1>2, <2>3, OneConverts
    <3>2. QED
      BY <1>6, <2>1, <2>3, <3>1 DEF Converting
  <2>4. QED
    BY <2>2, <2>3
<1>16. Rels'
  BY <1>3 DEF Rels
<1>17. QED
  BY <1>9, <1>10, <1>12, <1>13, <1>14, <1>15, <1>16 DEF IInv, Locals, Converts

LEMMA OwnerIInv ==
    ASSUME IInv, NEW m \in rels,
           OwnerRelease(m) \/ OwnerSplitting(m) \/ OwnerTryRelease(m)
    PROVE  IInv'
<1>1. PICK a : a = m.to
  OBVIOUS
<1>2. res[a].there /\ (res[a].resx = NoSession => res[a].mode # LockNull)
  BY <1>1, ReleaseFacts
<1>3. CASE OwnerRelease(m)
  <2>1. /\ MayRelease(res[a]) /\ Reply(m, "released")
        /\ res' = [res EXCEPT ![a] = Released(res[a], m.mode)]
        /\ UNCHANGED <<kind, sess, drc, rsn, ops, used>>
    BY <1>1, <1>2, <1>3 DEF OwnerRelease, MayRelease
  <2>2. res[a].resx = NoSession /\ ~res[a].locked
    BY <2>1 DEF MayRelease
  <2>3. QED
    BY <1>1, <2>1, <2>2, ReleaseStep
<1>4. CASE OwnerSplitting(m)
  <2>1. used' = [used EXCEPT !["refuse"] = @ + 1] /\ used \in [{"refuse", "recycle", "lost"} -> Nat]
    BY <1>4 DEF OwnerSplitting, IInv, DlsTypeOK
  <2>2. used' \in [{"refuse", "recycle", "lost"} -> Nat]
    BY <2>1
  <2>3. QED
    BY <1>4, <2>2, RefuseStep DEF OwnerSplitting
<1>5. CASE OwnerTryRelease(m)
  <2>1. m.try /\ UNCHANGED <<kind, sess, drc, rsn, ops, used>>
    BY <1>5 DEF OwnerTryRelease
  <2>2. CASE Reply(m, "refused") /\ UNCHANGED res
    BY <2>1, <2>2, RefuseStep
  <2>3. CASE /\ ~res[a].locked /\ res[a].resx = NoSession /\ Reply(m, "released")
             /\ res' = [res EXCEPT ![a] = Released(res[a], m.mode)]
    BY <1>1, <2>1, <2>3, ReleaseStep
  <2>4. QED
    BY <1>1, <1>2, <1>5, <2>2, <2>3 DEF OwnerTryRelease
<1>6. QED
  BY <1>3, <1>4, <1>5

LEMMA RecycleIInv ==
    ASSUME IInv, NEW i \in Inst, Recycle(i)
    PROVE  IInv'
<1>1. /\ \A s \in Session : sess[s].pc = "idle"
      /\ drc' = RecycleGranted(drc, i) /\ res' = [res EXCEPT ![i] = NoLocalRes]
      /\ used' = [used EXCEPT !["recycle"] = @ + 1]
      /\ UNCHANGED <<kind, sess, job, rels, rsn, ops>>
  BY DEF Recycle
<1>2. /\ job \in [Inst -> [Rsn -> JobRec]] /\ drc \in LockRes /\ res \in [Inst -> LocalRes]
      /\ rels \subseteq Release /\ used \in [{"refuse", "recycle", "lost"} -> Nat]
  BY DEF IInv, DlsTypeOK, JobRec
<1>3. ASSUME NEW k \in Inst PROVE J(k).pc = "none" /\ J(k)' = J(k) /\ ~Active(k) /\ ~Active(k)'
  <2>1. J(k).pc # "none" => res[k].resx \in Session /\ Asking(res[k].resx)
    BY <1>2 DEF IInv, Locals, Local, EntryOK, LocalRes
  <2>2. J(k).pc = "none" /\ J(k)' = J(k)
    BY <1>1, <2>1 DEF Asking, J
  <2>3. QED
    BY <2>2 DEF Active
<1>4. /\ NoLocalRes \in LocalRes /\ NoLocalRes.resx = NoSession /\ NoLocalRes.mode = LockNull
      /\ ~NoLocalRes.locked /\ ~NoLocalRes.owner /\ NoLocalRes.stat = "IDLE" /\ NoLocalRes.shared = 0
  BY Modes DEF NoLocalRes, LocalRes
<1>5. /\ res'[i] = NoLocalRes /\ \A k \in Inst \ {i} : res'[k] = res[k]
      /\ res' \in [Inst -> LocalRes] /\ used' \in [{"refuse", "recycle", "lost"} -> Nat]
  BY <1>1, <1>2, <1>4
<1>6. ~Busy(drc) /\ drc.conv = NoLockReq /\ drc.q = <<>> /\ drc.granted \subseteq Inst
  <2>1. drc.conv.inst # NoInst => drc.conv.inst \in Inst /\ Active(drc.conv.inst)
    BY <1>2, EntryTypes DEF IInv, Queue
  <2>2. drc.conv.inst = NoInst
    BY <1>3, <2>1
  <2>3. QED
    BY <1>2, <2>2, EntryTypes DEF IInv, Queue, Busy, LockRes
<1>7. /\ drc' \in LockRes /\ drc'.conv = NoLockReq /\ drc'.q = <<>>
      /\ drc'.granted = drc.granted \ {i}
      /\ drc'.mode = IF drc.granted \ {i} = {} THEN LockNull ELSE drc.mode
  <2>1. CASE drc.granted \ {i} = {}
    <3>1. drc' = NewLockRes
      BY <1>1, <1>6, <2>1 DEF RecycleGranted
    <3>2. QED
      BY <2>1, <3>1 DEF NewLockRes, LockRes, LockMode
  <2>2. CASE drc.granted \ {i} # {}
    <3>1. drc' = [drc EXCEPT !.granted = @ \ {i}]
      BY <1>1, <1>6, <2>2 DEF RecycleGranted
    <3>2. QED
      BY <1>2, <1>6, <2>2, <3>1 DEF LockRes
  <2>3. QED
    BY <2>1, <2>2
<1>8. DlsTypeOK'
  BY <1>1, <1>2, <1>5, <1>7 DEF IInv, DlsTypeOK, JobRec
<1>9. OneRequest'
  BY <1>1 DEF IInv, OneRequest
<1>10. ASSUME NEW k \in Inst PROVE Local(k)'
  <2>1. CASE k # i
    <3>1. Local(k) /\ res[k].resx \in Session \cup {NoSession}
      BY <1>2 DEF IInv, Locals, LocalRes
    <3>2. QED
      BY <1>1, <1>3, <1>5, <2>1, <3>1, LocalStays
  <2>2. CASE k = i
    <3>1. EntryOK(i)' /\ (\A s \in Session : Home[s] = i => CallOK(s)')
      BY <1>1, <1>3, <1>4, <1>5 DEF EntryOK, CallOK, Asking
    <3>2. SpinOK(i)'
      BY <1>1, <1>4, <1>5, Modes DEF SpinOK, Held
    <3>3. Sharers(i)' = {}
      BY <1>1 DEF Sharers, Held
    <3>4. LatchOK(i)'
      BY <1>1, <1>4, <1>5, <3>3, FS_EmptySet DEF LatchOK, LatchCallOK, Held, IntentPc
    <3>5. QED
      BY <2>2, <3>1, <3>2, <3>4 DEF Local
  <2>3. QED
    BY <2>1, <2>2
<1>11. Queue'
  BY <1>3, <1>7 DEF Queue, NoLockReq, Active
<1>12. Owners'
  <2>1. ASSUME NEW k \in Inst
        PROVE  /\ Owned(k) = res[k].mode /\ Owned(k)' = res'[k].mode
               /\ k \in drc.granted <=> Owned(k) # LockNull
               /\ Owned(k) = LockExclusive => drc.granted = {k} /\ drc.mode = LockExclusive
    <3>1. ~Releasing(k)
      BY <1>3 DEF Releasing
    <3>2. QED
      BY <1>3, <3>1 DEF IInv, Owners, Owned
  <2>2. ASSUME NEW k \in Inst
        PROVE  /\ k \in drc'.granted <=> Owned(k)' # LockNull
               /\ Owned(k)' = LockExclusive => drc'.granted = {k} /\ drc'.mode = LockExclusive
    <3>1. CASE k = i
      BY <1>4, <1>5, <1>7, <2>1, <3>1, Modes
    <3>2. CASE k # i
      BY <1>5, <1>7, <2>1, <3>2
    <3>3. QED
      BY <3>1, <3>2
  <2>3. /\ drc'.mode = LockNull <=> drc'.granted = {}
        /\ kind = "spin" \/ drc'.mode = LockExclusive => \A k, l \in drc'.granted : k = l
    <3>1. /\ drc.mode = LockNull <=> drc.granted = {}
          /\ kind = "spin" \/ drc.mode = LockExclusive => \A k, l \in drc.granted : k = l
      BY DEF IInv, Owners
    <3>2. QED
      BY <1>7, <3>1, Modes
  <2>4. QED
    BY <1>1, <2>2, <2>3 DEF Owners
<1>13. Converts'
  BY <1>3 DEF Converts, Converting
<1>14. Rels'
  BY <1>1, <1>2, <1>3 DEF IInv, Rels, Release
<1>15. QED
  BY <1>8, <1>9, <1>10, <1>11, <1>12, <1>13, <1>14 DEF IInv, Locals

---------------------------------------------------------------------------
(* The invariant is inductive.                                             *)
LEMMA MasterIInv ==
    ASSUME IInv, NEW i \in Inst, NEW r \in Rsn, MasterStep(i, r)
    PROVE  IInv'
BY MasterTakesIInv, MasterTurnIInv, MasterReleasedIInv, MasterRefusedIInv, MasterClaimsIInv,
   AskOwnerIInv DEF MasterStep

LEMMA StutterIInv == IInv /\ UNCHANGED vars => IInv'
<1> SUFFICES ASSUME IInv, UNCHANGED vars PROVE IInv'
  OBVIOUS
<1>1. UNCHANGED <<kind, res, sess, drc, job, rels, rsn, ops, used>>
  BY DEF vars
<1>2. DlsTypeOK' /\ OneRequest'
  BY <1>1 DEF IInv, DlsTypeOK, OneRequest
<1>3. /\ job \in [Inst -> [Rsn -> JobRec]] /\ drc \in LockRes /\ rels \subseteq Release
      /\ res \in [Inst -> LocalRes]
  BY DEF IInv, DlsTypeOK, JobRec
<1>4. \A i \in Inst : J(i)' = J(i) /\ Owned(i)' = Owned(i)
  BY <1>1 DEF J, Owned
<1>5. ASSUME NEW k \in Inst PROVE Local(k)'
  <2>1. Local(k) /\ res[k].resx \in Session \cup {NoSession}
    BY <1>3 DEF IInv, Locals, LocalRes
  <2>2. QED
    BY <1>1, <1>4, <2>1, LocalStays
<1>6. Queue' /\ Owners' /\ Converts' /\ Rels'
  BY <1>1, <1>3, <1>4, MasterStays DEF IInv
<1>7. QED
  BY <1>2, <1>5, <1>6 DEF IInv, Locals

LEMMA NextIInv == IInv /\ [Next]_vars => IInv'
BY BeginIInv, SessionIInv, MasterIInv, OwnerIInv, RecycleIInv, StutterIInv DEF Next

LEMMA SpecIInv == Spec => []IInv
BY InitIInv, NextIInv, PTL DEF Spec

---------------------------------------------------------------------------
(* The results.                                                            *)

(* The state stays of its type whatever the sessions, the master and the   *)
(* owners do in whichever order.                                           *)
THEOREM DlsTypeCorrect == Spec => []DlsTypeOK
<1>1. IInv => DlsTypeOK
  BY DEF IInv
<1>2. QED
  BY <1>1, SpecIInv, PTL

(* An instance owns the lock at least in the mode that its entry says. *)
LEMMA OwnedMode ==
    ASSUME IInv, NEW i \in Inst
    PROVE  /\ res[i].mode # LockNull => Owned(i) # LockNull
           /\ res[i].mode = LockExclusive => Owned(i) = LockExclusive
<1>1. CASE J(i).pc # "ok"
  BY <1>1 DEF Owned
<1>2. CASE J(i).pc = "ok"
  <2>1. PICK t : t = res[i].resx
    OBVIOUS
  <2>2. Local(i) /\ res[i] \in LocalRes /\ kind \in {"spin", "latch"}
    BY KindsAssumption DEF IInv, DlsTypeOK, Locals
  <2>3. t \in Session /\ Home[t] = i /\ Asking(t) /\ Owned(i) = ReqMode(sess[t].call)
    BY <1>2, <2>1, <2>2 DEF Local, EntryOK, Owned, LocalRes
  <2>4. CallOK(t) /\ (kind = "latch" => LatchCallOK(t, res[i])) /\ (kind = "spin" => SpinOK(i))
    BY <2>2, <2>3 DEF Local, LatchOK
  <2>5. sess[t].pc = "ixreq" => ReqMode(sess[t].call) = LockExclusive
    BY <2>2, <2>3, <2>4 DEF SpinOK, LatchCallOK, IntentPc, XCalls, ReqMode, ShareCalls
  <2>6. sess[t].pc = "req" => res[i].mode < ReqMode(sess[t].call)
    BY <2>3, <2>4 DEF CallOK
  <2>7. QED
    BY <2>2, <2>3, <2>5, <2>6, Modes DEF Asking, LocalRes
<1>3. QED
  BY <1>1, <1>2

(* The instance of a holder owns the lock, and its other sessions are out  *)
(* if the holder is exclusive.                                             *)
LEMMA HolderFacts ==
    ASSUME IInv, NEW s \in Session, Held(s)
    PROVE  /\ Home[s] \in Inst /\ Owned(Home[s]) # LockNull
           /\ Exclusive(s) \/ sess[s].call = "sx" => Owned(Home[s]) = LockExclusive
           /\ Exclusive(s) => \A t \in Session : Held(t) /\ Home[t] = Home[s] => t = s
<1>1. PICK i : i = Home[s]
  OBVIOUS
<1>2. /\ i \in Inst /\ kind \in {"spin", "latch"} /\ CallOK(s)
      /\ (kind = "spin" => SpinOK(i)) /\ (kind = "latch" => LatchOK(i)) /\ res[i].shared \in Nat
  BY <1>1, SessionFacts
<1>3. CASE kind = "spin"
  <2>1. res[i].mode = LockExclusive
    BY <1>1, <1>2, <1>3 DEF SpinOK
  <2>2. Owned(i) = LockExclusive
    BY <1>2, <2>1, OwnedMode
  <2>3. \A t \in Session : Held(t) /\ Home[t] = i => t = s
    BY <1>1, <1>2, <1>3 DEF SpinOK
  <2>4. QED
    BY <1>1, <1>2, <2>2, <2>3, Modes
<1>4. CASE kind = "latch"
  <2>1. LatchOK(i) /\ LatchCallOK(s, res[i]) /\ sess[s].call \in LatchCalls
    BY <1>1, <1>2, <1>4 DEF LatchOK, CallOK, CallsOf, Held
  <2>2. sess[s].call \notin ShareCalls => res[i].mode = LockExclusive
    BY <2>1 DEF LatchCallOK
  <2>3. res[i].mode # LockNull
    <3>1. CASE sess[s].call \in XCalls
      BY <2>2, <3>1, Modes DEF XCalls, ShareCalls
    <3>2. CASE sess[s].call \notin XCalls
      <4>1. s \in Sharers(i)
        BY <1>1, <3>2 DEF Sharers
      <4>2. res[i].shared # 0
        BY <2>1, <4>1, SharersFinite DEF LatchOK
      <4>3. QED
        BY <1>2, <2>1, <4>2 DEF LatchOK
    <3>3. QED
      BY <3>1, <3>2
  <2>4. /\ Exclusive(s) \/ sess[s].call = "sx" => sess[s].call \notin ShareCalls
        /\ Exclusive(s) => sess[s].call \in XCalls
    BY <2>1 DEF Exclusive, ShareCalls, SpinCalls, XCalls, LatchCalls
  <2>5. Exclusive(s) => res[i].stat = "X"
    BY <2>1, <2>4 DEF LatchCallOK
  <2>6. Exclusive(s) => \A t \in Session : Held(t) /\ Home[t] = i => t = s
    BY <1>1, <2>1, <2>5 DEF LatchOK
  <2>7. Owned(i) # LockNull /\ (Exclusive(s) \/ sess[s].call = "sx" => Owned(i) = LockExclusive)
    BY <1>2, <2>2, <2>3, <2>4, OwnedMode
  <2>8. QED
    BY <1>1, <1>2, <2>6, <2>7
<1>5. QED
  BY <1>2, <1>3, <1>4

(* Whoever holds the spin lock or the latch exclusively is alone, across   *)
(* instances, and no other instance has a holder with one of dls_latch_sx. *)
THEOREM LocksExclude == Spec => []Exclusion
<1>1. IInv => Exclusion
  <2> SUFFICES ASSUME IInv, NEW s \in Session, NEW t \in Session, s # t, Held(s), Held(t)
               PROVE  /\ ~Exclusive(s) /\ ~Exclusive(t)
                      /\ sess[s].call = "sx" => Home[t] = Home[s]
    BY DEF Exclusion
  <2>1. \A i, k \in Inst : Owned(i) = LockExclusive /\ Owned(k) # LockNull => k = i
    BY DEF IInv, Owners
  <2>2. /\ Exclusive(s) \/ sess[s].call = "sx" => Home[t] = Home[s]
        /\ Exclusive(t) => Home[s] = Home[t]
    BY <2>1, HolderFacts
  <2>3. QED
    BY <2>2, HolderFacts
<1>2. QED
  BY <1>1, SpecIInv, PTL

(* An instance that may take the lock without asking is in granted_map,    *)
(* alone if it owns it exclusively; a spin lock has one owner at most.     *)
THEOREM MasterKnowsOwners == Spec => []OwnersKnown
<1>1. IInv => OwnersKnown
  <2> SUFFICES ASSUME IInv PROVE OwnersKnown
    OBVIOUS
  <2>1. ASSUME NEW i \in Inst
        PROVE  /\ res[i].mode # LockNull => i \in drc.granted
               /\ res[i].mode = LockExclusive => drc.granted = {i} /\ drc.mode = LockExclusive
    BY OwnedMode DEF IInv, Owners
  <2>2. ASSUME kind = "spin" PROVE Cardinality(drc.granted) <= 1
    <3>1. \A i, j \in drc.granted : i = j
      BY <2>2 DEF IInv, Owners
    <3>2. CASE drc.granted = {}
      BY <3>2, FS_EmptySet
    <3>3. CASE drc.granted # {}
      <4>1. PICK x : x \in drc.granted
        BY <3>3
      <4>2. drc.granted = {x}
        BY <3>1, <4>1
      <4>3. Cardinality({x}) = 1
        BY FS_Singleton
      <4>4. QED
        BY <4>2, <4>3
    <3>4. QED
      BY <3>2, <3>3
  <2>3. QED
    BY <2>1, <2>2 DEF OwnersKnown
<1>2. QED
  BY <1>1, SpecIInv, PTL

(* None of the assertions of drc_claim_lock_owner, of the queue and of     *)
(* dls_do_spin_try_lock fails.                                             *)
THEOREM DlsNeverPanics == Spec => []DlsPanics
<1>1. IInv => DlsPanics
  <2> SUFFICES ASSUME IInv PROVE DlsPanics
    OBVIOUS
  <2>1. ASSUME NEW i \in Inst, NEW r \in Rsn, job[i][r].pc = "ask"
        PROVE  ClaimAllowed(drc, Request(i, r))
    <3>1. job[i][r] = J(i) /\ drc \in LockRes /\ J(i).pc = "ask" /\ Active(i) /\ drc.conv.inst = i
      BY <2>1, JobFacts, OneConverts DEF Active
    <3>2. drc.conv \in LockReq /\ drc.conv.mode = J(i).mode
      BY <3>1, EntryTypes, NoInstAssumption DEF IInv, Queue
    <3>3. drc.conv = [inst |-> i, mode |-> J(i).mode]
      BY <3>1, <3>2 DEF LockReq
    <3>4. J(i).mode = LockShare => i \notin drc.granted
      BY <3>1 DEF IInv, Converts, Converting
    <3>5. QED
      BY <3>1, <3>3, <3>4 DEF ClaimAllowed, Request
  <2>2. ASSUME NEW i \in Inst, NEW r \in Rsn, job[i][r].pc = "queued" PROVE Busy(drc)
    <3>1. Active(i)
      BY <2>2, JobFacts DEF Active
    <3>2. QED
      BY <3>1, OneConverts
  <2>3. ~Busy(drc) => drc.q = <<>>
    BY OneConverts
  <2>4. ASSUME kind = "spin", NEW i \in Inst, ResxFree(i) PROVE ~res[i].locked
    BY <2>4 DEF IInv, Locals, Local, SpinOK, ResxFree
  <2>5. QED
    BY <2>1, <2>2, <2>3, <2>4 DEF DlsPanics
<1>2. QED
  BY <1>1, SpecIInv, PTL

(* An instance that is asked to release the lock has it, so that no        *)
(* request fails with "invalid lock mode" for ever.                        *)
THEOREM ReleasesSucceed == Spec => []ReleasesPossible
<1>1. IInv => ReleasesPossible
  <2> SUFFICES ASSUME IInv, NEW m \in rels, MayRelease(res[m.to]) PROVE res[m.to].mode # LockNull
    BY DEF ReleasesPossible
  <2>1. QED
    BY ReleaseFacts DEF MayRelease
<1>2. QED
  BY <1>1, SpecIInv, PTL
=============================================================================

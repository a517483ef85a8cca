--------------------------- MODULE DcsPage_proofs ---------------------------
(***************************************************************************)
(* DcsPage keeps its types, its directory and the lock of every session    *)
(* that uses the page, for any number of instances and any bounds, with    *)
(* timeouts, retries and reordered messages.                               *)
(***************************************************************************)
EXTENDS DcsPage, DrcBufRes_proofs

(* An answer that, if its session waits for it, covers the access. *)
CoverAck(a) == /\ Waiting(a.dst, a.rsn)
               /\ a.cmd \in {"page_ready", "already_owner"}
               => sess[a.dst].mode <= a.mode

(* What the master sends to a requester is an answer, and an answer to a   *)
(* request that covers its session covers it too.                          *)
LEMMA AckTypes ==
    ASSUME NEW req \in ReqInfo
    PROVE  /\ ErrorAck(req) \in Ack /\ ErrorAck(req).cmd = "error"
           /\ \A cmd \in {"granted", "already_owner", "page_ready"} :
                 /\ MasterAck(cmd, req) \in Ack
                 /\ MasterAck(cmd, req).cmd = cmd
                 /\ MasterAck(cmd, req).dst = req.inst
                 /\ MasterAck(cmd, req).rsn = req.rsn
                 /\ MasterAck(cmd, req).mode = req.mode
<1>1. /\ req.inst \in Inst /\ req.rsn \in Nat
      /\ req.mode \in LockMode /\ LockNull \in LockMode /\ req.mode # LockNull
  BY DEF ReqInfo, LockMode, LockNull, LockShare, LockExclusive
<1>2. ErrorAck(req) \in Ack /\ ErrorAck(req).cmd = "error"
  BY <1>1 DEF ErrorAck, Ack, AckMsg
<1>3. ASSUME NEW cmd \in {"granted", "already_owner", "page_ready"}
      PROVE  /\ MasterAck(cmd, req) \in Ack
             /\ MasterAck(cmd, req).cmd = cmd
             /\ MasterAck(cmd, req).dst = req.inst
             /\ MasterAck(cmd, req).rsn = req.rsn
             /\ MasterAck(cmd, req).mode = req.mode
  BY <1>1 DEF MasterAck, ErrorAck, Ack, AckMsg
<1>4. QED
  BY <1>2, <1>3

LEMMA MasterAckCovers ==
    ASSUME NEW req \in ReqInfo, Covers(req)
    PROVE  /\ CoverAck(ErrorAck(req))
           /\ \A cmd \in {"granted", "already_owner", "page_ready"} :
                 CoverAck(MasterAck(cmd, req))
<1>1. CoverAck(ErrorAck(req))
  BY AckTypes DEF CoverAck
<1>2. ASSUME NEW cmd \in {"granted", "already_owner", "page_ready"}
      PROVE  CoverAck(MasterAck(cmd, req))
  BY AckTypes DEF CoverAck, Covers
<1>3. QED
  BY <1>1, <1>2

(* The invariant holds at the start. *)
LEMMA InitIInv == Init => IInv
<1> SUFFICES ASSUME Init PROVE IInv
  OBVIOUS
<1>1. Entry(res) /\ EntryRequests(res) = {}
  BY NoBufResEntry DEF Init
<1>2. /\ NoCtrl \in BufCtrl /\ Idle \in Session
      /\ Idle.st = "idle" /\ NoCtrl.lock = LockNull
  BY DEF NoCtrl, BufCtrl, LoadStatus, LockMode, LockNull, Idle, Session
<1>3. TypeOK
  BY <1>1, <1>2 DEF Init, TypeOK, Entry
<1>4. DirectoryOK
  BY <1>1 DEF DirectoryOK, Entry
<1>5. TasksOK /\ AnswersCover
  BY DEF Init, TasksOK, AnswersCover
<1>6. RequestsCover
  BY <1>1 DEF Init, RequestsCover, Requests
<1>7. HeldCovered
  BY <1>2 DEF Init, HeldCovered
<1>8. QED
  BY <1>3, <1>4, <1>5, <1>6, <1>7 DEF IInv

---------------------------------------------------------------------------
(* A step of a message handler: no session changes, a session that uses    *)
(* the page keeps its lock, and what is sent or remembered covers.         *)
LEMMA HandlerStep ==
    ASSUME IInv,
           UNCHANGED <<sess, clock, latest, disk>>, timeouts' \in Nat,
           ctrl' \in [Inst -> BufCtrl],
           \A i \in Inst : sess[i].st = "held" => ctrl'[i].lock = ctrl[i].lock,
           Entry(res'),
           \A req \in EntryRequests(res') : Covers(req),
           askm' \subseteq askm, claims' \subseteq claims,
           asko' \subseteq AskOwner, \A m \in asko' : Covers(m.req),
           tasks' \subseteq Task,
           \A t \in tasks' : t.kind # "recycle" => /\ t.req \in ReqInfo
                                                   /\ t.owner \in Inst
                                                   /\ Covers(t.req),
           NEW sent \in SUBSET Ack, acks' = Answered(sent),
           \A a \in sent : CoverAck(a)
    PROVE  IInv'
<1>1. TypeOK'
  BY DEF IInv, TypeOK, Entry, Answered
<1>2. DirectoryOK'
  BY DEF DirectoryOK, Entry
<1>3. TasksOK'
  BY DEF TasksOK
<1>4. RequestsCover'
  <2>1. ASSUME NEW req, Covers(req) PROVE Covers(req)'
    BY <2>1 DEF Covers, Waiting
  <2>2. \A req \in askm' : Covers(req)
    BY DEF IInv, RequestsCover, Requests
  <2>3. ASSUME NEW req \in Requests' PROVE Covers(req)
    BY <2>2 DEF Requests
  <2>4. QED
    BY <2>1, <2>3 DEF RequestsCover
<1>5. AnswersCover'
  <2>1. \A a \in acks' : /\ Waiting(a.dst, a.rsn)
                         /\ a.cmd \in {"page_ready", "already_owner"}
                            => sess[a.dst].mode <= a.mode
    BY DEF IInv, AnswersCover, Answered, CoverAck
  <2>2. QED
    BY <2>1 DEF AnswersCover, Waiting
<1>6. HeldCovered'
  BY DEF IInv, HeldCovered
<1>7. QED
  BY <1>1, <1>2, <1>3, <1>4, <1>5, <1>6 DEF IInv

(* dcs_notify_owner_for_page passes a covering request on. *)
LEMMA NotifyOwnerCovers ==
    ASSUME IInv, NEW owner \in Inst, NEW req \in ReqInfo, Covers(req),
           NEW retry \in BOOLEAN, NEW errors \in SUBSET Ack,
           \A a \in errors : CoverAck(a),
           NotifyOwner(owner, req, retry, errors)
    PROVE  /\ asko' \subseteq AskOwner
           /\ \A m \in asko' : Covers(m.req)
           /\ \E sent \in SUBSET Ack : /\ acks' = Answered(sent)
                                       /\ \A a \in sent : CoverAck(a)
<1>1. asko \subseteq AskOwner /\ \A m \in asko : Covers(m.req)
  BY DEF IInv, TypeOK, RequestsCover, Requests
<1>2. CASE owner = req.inst
  <2> DEFINE sent == errors \cup {MasterAck("already_owner", req)}
  <2>1. sent \in SUBSET Ack /\ \A a \in sent : CoverAck(a)
    BY AckTypes, MasterAckCovers
  <2>2. acks' = Answered(sent) /\ asko' = asko
    BY <1>2 DEF NotifyOwner
  <2> HIDE DEF sent
  <2>3. QED
    BY <1>1, <2>1, <2>2
<1>3. CASE owner # req.inst
  <2> DEFINE m == [dst |-> owner, req |-> req, retry |-> retry]
  <2>1. m \in AskOwner /\ m.req = req
    BY DEF AskOwner
  <2>2. asko' = asko \cup {m} /\ acks' = Answered(errors)
    BY <1>3 DEF NotifyOwner
  <2> HIDE DEF m
  <2>3. QED
    BY <1>1, <2>1, <2>2
<1>4. QED
  BY <1>2, <1>3

---------------------------------------------------------------------------
LEMMA RequestsType ==
    ASSUME IInv PROVE Requests \subseteq ReqInfo
<1>1. askm \subseteq ReqInfo
  BY DEF IInv, TypeOK
<1>2. \A m \in asko : m.req \in ReqInfo
  BY DEF IInv, TypeOK, AskOwner
<1>3. \A t \in tasks : t.kind # "recycle" => t.req \in ReqInfo
  BY DEF IInv, TasksOK
<1>4. EntryRequests(res) \subseteq ReqInfo
  <2>1. res.q \in Seq(ReqInfo)
    BY DEF IInv, TypeOK, BufRes
  <2>2. \A k \in DOMAIN res.q : res.q[k] \in ReqInfo
    BY <2>1, LenProperties, ElementOfSeq
  <2>3. res.conv.inst # NoInst => res.conv \in ReqInfo
    BY DEF IInv, DirectoryOK, EntryOK, Converting
  <2>4. QED
    BY <2>2, <2>3 DEF EntryRequests
<1>5. QED
  BY <1>1, <1>2, <1>3, <1>4 DEF Requests

(* A step of one session, which stops waiting, or waits for a request with *)
(* a sequence number that was never used: every request under way still    *)
(* covers.                                                                 *)
LEMMA SessionStep ==
    ASSUME IInv, NEW i \in Inst, NEW s \in Session, NEW c \in BufCtrl,
           sess' = [sess EXCEPT ![i] = s],
           ctrl' = [ctrl EXCEPT ![i] = c],
           s.st = "held" => c.lock >= s.mode,
           \/ s.st # "wait" /\ clock' = clock
           \/ s.st = "wait" /\ s.rsn = clock + 1 /\ clock' = clock + 1,
           UNCHANGED <<res, asko, tasks>>,
           latest' \in Nat, disk' \in Nat, timeouts' \in Nat,
           askm' \subseteq ReqInfo, \A req \in askm' \ askm : Covers(req)',
           acks' \subseteq {a \in acks : a.dst # i},
           claims' \subseteq ClaimInfo
    PROVE  IInv'
<1>1. /\ sess \in [Inst -> Session] /\ ctrl \in [Inst -> BufCtrl]
      /\ clock \in Nat /\ clock' \in Nat /\ acks \subseteq Ack
  BY DEF IInv, TypeOK
<1>2. TypeOK'
  BY <1>1 DEF IInv, TypeOK
<1>3. DirectoryOK' /\ TasksOK'
  BY DEF IInv, DirectoryOK, TasksOK
<1>4. ASSUME NEW req \in ReqInfo, Covers(req) PROVE Covers(req)'
  <2>1. req.inst \in Inst /\ req.rsn \in Nat
    BY DEF ReqInfo
  <2>2. req.rsn <= clock
    BY <1>4 DEF Covers
  <2>3. req.rsn <= clock'
    BY <1>1, <2>1, <2>2
  <2>4. CASE req.inst = i
    <3>1. sess'[i] = s
      BY <1>1
    <3>2. ~(s.st = "wait" /\ s.rsn = req.rsn)
      BY <1>1, <2>1, <2>2
    <3>3. QED
      BY <2>3, <2>4, <3>1, <3>2 DEF Covers, Waiting
  <2>5. CASE req.inst # i
    <3>1. sess'[req.inst] = sess[req.inst]
      BY <1>1, <2>1, <2>5
    <3>2. QED
      BY <1>4, <2>3, <3>1 DEF Covers, Waiting
  <2>6. QED
    BY <2>4, <2>5
<1>5. RequestsCover'
  <2>1. Requests' \subseteq Requests \cup (askm' \ askm)
    BY DEF Requests
  <2>2. \A req \in Requests : Covers(req)'
    BY <1>4, RequestsType DEF IInv, RequestsCover
  <2>3. QED
    BY <2>1, <2>2 DEF RequestsCover
<1>6. AnswersCover'
  <2>1. ASSUME NEW a \in acks'
        PROVE  a \in acks /\ sess'[a.dst] = sess[a.dst]
    <3>1. a \in acks /\ a.dst # i /\ a.dst \in Inst
      BY <1>1 DEF Ack, AckMsg
    <3>2. QED
      BY <1>1, <3>1
  <2>2. QED
    BY <2>1 DEF IInv, AnswersCover, Waiting
<1>7. HeldCovered'
  <2>1. ASSUME NEW j \in Inst, sess'[j].st = "held"
        PROVE  ctrl'[j].lock >= sess'[j].mode
    <3>1. CASE j = i
      BY <1>1, <2>1, <3>1
    <3>2. CASE j # i
      <4>1. sess'[j] = sess[j] /\ ctrl'[j] = ctrl[j]
        BY <1>1, <3>2
      <4>2. QED
        BY <2>1, <4>1 DEF IInv, HeldCovered
    <3>3. QED
      BY <3>1, <3>2
  <2>2. QED
    BY <2>1 DEF HeldCovered
<1>8. QED
  BY <1>2, <1>3, <1>5, <1>6, <1>7 DEF IInv

(* An instance whose session does not wait has no answer coming. *)
LEMMA NoAnswerComing ==
    ASSUME IInv, NEW i \in Inst, sess[i].st # "wait"
    PROVE  acks \subseteq {a \in acks : a.dst # i}
BY DEF IInv, AnswersCover, Waiting

LEMMA RequestPageInv ==
    ASSUME IInv, NEW i \in Inst, NEW mode \in {LockShare, LockExclusive},
           RequestPage(i, mode)
    PROVE  IInv'
<1> DEFINE s == [st |-> "wait", mode |-> mode, rsn |-> clock + 1]
           c == [ctrl[i] EXCEPT !.load = IF @ = "loaded" THEN @ ELSE "need"]
<1>1. /\ sess \in [Inst -> Session] /\ ctrl \in [Inst -> BufCtrl]
      /\ clock \in Nat /\ askm \subseteq ReqInfo /\ ctrl[i] \in BufCtrl
  BY DEF IInv, TypeOK
<1>2. s \in Session /\ s.st = "wait" /\ s.rsn = clock + 1 /\ s.mode = mode
  BY <1>1 DEF Session, LockMode
<1>3. c \in BufCtrl
  BY <1>1 DEF BufCtrl, LoadStatus
<1>4. PICK req \in ReqInfo : /\ req.inst = i /\ req.rsn = clock + 1
                             /\ req.mode = mode /\ askm' = askm \cup {req}
  <2> DEFINE q == [inst |-> i, mode |-> mode, curr |-> ctrl[i].lock,
                   rsn |-> clock + 1, lsn |-> ctrl[i].lsn]
  <2>1. q \in ReqInfo /\ q.inst = i /\ q.rsn = clock + 1 /\ q.mode = mode
    BY <1>1 DEF ReqInfo, BufCtrl
  <2>2. askm' = askm \cup {q}
    BY DEF RequestPage
  <2> HIDE DEF q
  <2>3. QED
    BY <2>1, <2>2
<1>5. /\ sess' = [sess EXCEPT ![i] = s] /\ ctrl' = [ctrl EXCEPT ![i] = c]
      /\ clock' = clock + 1
  BY <1>1 DEF RequestPage, BufCtrl
<1>6. UNCHANGED <<res, asko, acks, claims, tasks, timeouts, latest, disk>>
      /\ sess[i].st # "wait"
  BY DEF RequestPage
<1>7. acks' \subseteq {a \in acks : a.dst # i}
  BY <1>6, NoAnswerComing
<1> HIDE DEF s, c
<1>8. Covers(req)'
  <2>1. sess'[i] = s
    BY <1>1, <1>5
  <2>2. mode <= mode /\ clock + 1 <= clock'
    BY <1>1, <1>5 DEF LockShare, LockExclusive
  <2>3. QED
    BY <1>2, <1>4, <2>1, <2>2 DEF Covers
<1>9. latest' \in Nat /\ disk' \in Nat /\ timeouts' \in Nat /\ claims' \subseteq ClaimInfo
  BY <1>6 DEF IInv, TypeOK
<1>10. askm' \subseteq ReqInfo /\ \A r \in askm' \ askm : Covers(r)'
  BY <1>1, <1>4, <1>5, <1>8
<1>11. QED
  BY <1>2, <1>3, <1>5, <1>6, <1>7, <1>9, <1>10, SessionStep

(* A session that gives up or is refused leaves nothing to cover. *)
LEMMA LeaveFailedForm ==
    ASSUME IInv, NEW i \in Inst, LeaveFailed(i)
    PROVE  \E c \in BufCtrl : /\ ctrl' = [ctrl EXCEPT ![i] = c]
                              /\ sess' = [sess EXCEPT ![i] = Idle]
<1> DEFINE c == [ctrl[i] EXCEPT !.load = IF @ = "loaded" THEN @ ELSE "failed"]
<1>1. ctrl \in [Inst -> BufCtrl] /\ ctrl[i] \in BufCtrl
  BY DEF IInv, TypeOK
<1>2. c \in BufCtrl
  BY <1>1 DEF BufCtrl, LoadStatus
<1>3. ctrl' = [ctrl EXCEPT ![i] = c] /\ sess' = [sess EXCEPT ![i] = Idle]
  BY <1>1 DEF LeaveFailed, BufCtrl
<1>4. QED
  BY <1>2, <1>3

LEMMA IdleType == Idle \in Session /\ Idle.st = "idle"
BY DEF Idle, Session, LockMode, LockNull

LEMMA GiveUpInv ==
    ASSUME IInv, NEW i \in Inst, GiveUp(i) PROVE IInv'
<1>1. PICK c \in BufCtrl : /\ ctrl' = [ctrl EXCEPT ![i] = c]
                           /\ sess' = [sess EXCEPT ![i] = Idle]
  BY LeaveFailedForm DEF GiveUp
<1>2. /\ UNCHANGED <<res, askm, asko, claims, tasks, clock, latest, disk>>
      /\ acks' = {a \in acks : a.dst # i}
      /\ timeouts' = timeouts + 1
  BY DEF GiveUp
<1>3. /\ latest' \in Nat /\ disk' \in Nat /\ timeouts' \in Nat
      /\ claims' \subseteq ClaimInfo /\ askm' \subseteq ReqInfo
  BY <1>2 DEF IInv, TypeOK
<1>4. QED
  BY <1>1, <1>2, <1>3, IdleType, SessionStep

LEMMA FinishInv ==
    ASSUME IInv, NEW i \in Inst, Finish(i) PROVE IInv'
<1> DEFINE c == [ctrl[i] EXCEPT
                   !.lsn = IF ctrl[i].load = "need" THEN disk ELSE @,
                   !.load = "loaded"]
<1>1. /\ ctrl \in [Inst -> BufCtrl] /\ ctrl[i] \in BufCtrl /\ disk \in Nat
  BY DEF IInv, TypeOK
<1>2. c \in BufCtrl
  BY <1>1 DEF BufCtrl, LoadStatus
<1>3. ctrl' = [ctrl EXCEPT ![i] = c] /\ sess' = [sess EXCEPT ![i] = Idle]
  BY <1>1 DEF Finish, BufCtrl
<1>4. /\ UNCHANGED <<res, askm, asko, acks, claims, tasks, clock, timeouts,
                     latest, disk>>
      /\ sess[i].st # "wait"
  BY DEF Finish
<1>5. acks' \subseteq {a \in acks : a.dst # i}
  BY <1>4, NoAnswerComing
<1>6. /\ latest' \in Nat /\ disk' \in Nat /\ timeouts' \in Nat
      /\ claims' \subseteq ClaimInfo /\ askm' \subseteq ReqInfo
  BY <1>4 DEF IInv, TypeOK
<1> HIDE DEF c
<1>7. QED
  BY <1>2, <1>3, <1>4, <1>5, <1>6, IdleType, SessionStep

LEMMA ModifyInv ==
    ASSUME IInv, NEW i \in Inst, Modify(i) PROVE IInv'
<1> DEFINE c == [ctrl[i] EXCEPT !.dirty = TRUE, !.lsn = latest + 1]
<1>1. /\ ctrl \in [Inst -> BufCtrl] /\ ctrl[i] \in BufCtrl /\ latest \in Nat
      /\ sess \in [Inst -> Session] /\ sess[i] \in Session
  BY DEF IInv, TypeOK
<1>2. c \in BufCtrl
  <2>1. latest + 1 \in Nat /\ TRUE \in BOOLEAN
    BY <1>1
  <2>2. QED
    BY <1>1, <2>1 DEF BufCtrl
<1>3. ctrl' = [ctrl EXCEPT ![i] = c] /\ sess' = [sess EXCEPT ![i] = sess[i]]
  BY <1>1 DEF Modify, BufCtrl
<1>4. /\ UNCHANGED <<res, askm, asko, acks, claims, tasks, clock, timeouts, disk>>
      /\ sess[i].st = "idle" /\ latest' = latest + 1
  BY DEF Modify
<1>5. acks' \subseteq {a \in acks : a.dst # i}
  BY <1>4, NoAnswerComing
<1>6. /\ latest' \in Nat /\ disk' \in Nat /\ timeouts' \in Nat
      /\ claims' \subseteq ClaimInfo /\ askm' \subseteq ReqInfo
  BY <1>1, <1>4 DEF IInv, TypeOK
<1> HIDE DEF c
<1>7. QED
  BY <1>1, <1>2, <1>3, <1>4, <1>5, <1>6, SessionStep

(* dcs_handle_page_from_owner: the ctrl gets the mode of the answer. *)
LEMMA PageFromOwnerType ==
    ASSUME NEW c \in BufCtrl, NEW a \in Ack
    PROVE  PageFromOwner(c, a) \in BufCtrl /\ PageFromOwner(c, a).lock = a.mode
<1> DEFINE d == IF "need_load" \in a.flags THEN CleanCtrlEdp(c) ELSE c
           lsn == IF a.flags \cap {"need_load", "readonly2x"} = {} THEN a.lsn ELSE d.lsn
           rd == /\ a.mode = LockExclusive
                 /\ a.flags \cap {"dirty", "remote_dirty"} # {}
           edp == d.edp /\ a.mode # LockExclusive
           load == IF "need_load" \in a.flags THEN "need" ELSE "loaded"
<1>1. a.mode \in LockMode /\ a.lsn \in Nat
  BY DEF Ack, AckMsg
<1>2. d \in BufCtrl
  BY DEF CleanCtrlEdp, BufCtrl
<1>3. lsn \in Nat
  BY <1>1, <1>2 DEF BufCtrl
<1>4. rd \in BOOLEAN /\ edp \in BOOLEAN
  BY <1>2 DEF BufCtrl
<1>5. load \in LoadStatus
  BY DEF LoadStatus
<1>6. PageFromOwner(c, a) = [d EXCEPT !.lsn = lsn, !.lock = a.mode,
                                      !.edp = edp, !.rdirty = rd, !.load = load]
  BY <1>2 DEF PageFromOwner, BufCtrl
<1> HIDE DEF d, lsn, rd, edp, load
<1>7. QED
  BY <1>1, <1>2, <1>3, <1>4, <1>5, <1>6 DEF BufCtrl

(* A claim carries the mode of the answer that it follows. *)
LEMMA ClaimType ==
    ASSUME IInv, NEW i \in Inst, NEW a \in Ack, a.cmd # "error",
           NEW c \in BufCtrl, Claim(i, a, c)
    PROVE  claims' \subseteq ClaimInfo
<1>1. a.mode \in {LockShare, LockExclusive}
  BY DEF Ack, AckMsg, LockMode
<1>2. [inst |-> i, mode |-> a.mode, edp |-> "dirty" \in a.flags,
       lsn |-> IF c.load = "loaded" THEN c.lsn ELSE 0] \in ClaimInfo
  BY <1>1 DEF ClaimInfo, BufCtrl
<1>3. QED
  BY <1>2 DEF IInv, TypeOK, Claim

(* dcs_handle_ask_master_ack: whatever the answer, a session that goes on  *)
(* to use the page has the lock for it.                                    *)
LEMMA HandleAckInv ==
    ASSUME IInv, NEW a \in acks, HandleAck(a) PROVE IInv'
<1> DEFINE i == a.dst
           s == [sess[i] EXCEPT !.st = "held"]
<1>1. /\ ctrl \in [Inst -> BufCtrl] /\ sess \in [Inst -> Session]
      /\ a \in Ack /\ i \in Inst
  BY DEF IInv, TypeOK, Ack, AckMsg
<1>2. ctrl[i] \in BufCtrl /\ sess[i] \in Session
  BY <1>1
<1>3. s \in Session /\ s.st = "held" /\ s.mode = sess[i].mode
  BY <1>2 DEF Session
<1>4. /\ UNCHANGED <<res, askm, asko, tasks, clock, timeouts, latest, disk>>
      /\ acks' \subseteq {b \in acks : b.dst # i}
  BY DEF HandleAck
<1>5. /\ latest' \in Nat /\ disk' \in Nat /\ timeouts' \in Nat
      /\ claims \subseteq ClaimInfo /\ askm' \subseteq ReqInfo
  BY <1>4 DEF IInv, TypeOK
<1>6. CASE AckPageReady(a)
  <2> DEFINE c == PageFromOwner(ctrl[i], a)
  <2>1. a.cmd = "page_ready" /\ a.mode \in Nat
    BY <1>1, <1>6 DEF AckPageReady, Ack, AckMsg, LockMode, LockNull, LockShare,
       LockExclusive
  <2>2. c \in BufCtrl /\ c.lock = a.mode
    BY <1>1, <1>2, PageFromOwnerType
  <2>3. c.lock >= s.mode
    <3>1. sess[i].mode <= a.mode /\ sess[i].mode \in Nat
      BY <1>2, <2>1 DEF IInv, AnswersCover, Session, LockMode, LockNull,
         LockShare, LockExclusive
    <3>2. QED
      BY <1>3, <2>1, <2>2, <3>1
  <2>4. /\ ctrl' = [ctrl EXCEPT ![i] = c] /\ Claim(i, a, c)
        /\ sess' = [sess EXCEPT ![i] = s]
    BY <1>1, <1>6 DEF AckPageReady, Session
  <2>5. claims' \subseteq ClaimInfo
    BY <1>1, <2>1, <2>2, <2>4, ClaimType
  <2> HIDE DEF i, s, c
  <2>6. QED
    BY <1>1, <1>3, <1>4, <1>5, <2>2, <2>3, <2>4, <2>5, SessionStep
<1>7. CASE AckAlreadyOwner(a)
  <2> DEFINE c == [ctrl[i] EXCEPT !.lock = a.mode]
  <2>1. a.cmd = "already_owner" /\ a.mode \in Nat /\ a.mode \in LockMode
    BY <1>1, <1>7 DEF AckAlreadyOwner, Ack, AckMsg, LockMode, LockNull, LockShare,
       LockExclusive
  <2>2. c \in BufCtrl /\ c.lock = a.mode
    BY <1>2, <2>1 DEF BufCtrl
  <2>3. c.lock >= s.mode
    <3>1. sess[i].mode <= a.mode /\ sess[i].mode \in Nat
      BY <1>2, <2>1 DEF IInv, AnswersCover, Session, LockMode, LockNull,
         LockShare, LockExclusive
    <3>2. QED
      BY <1>3, <2>1, <2>2, <3>1
  <2>4. /\ ctrl' = [ctrl EXCEPT ![i] = c] /\ Claim(i, a, c)
        /\ sess' = [sess EXCEPT ![i] = s]
    BY <1>1, <1>7 DEF AckAlreadyOwner, Session
  <2>5. claims' \subseteq ClaimInfo
    BY <1>1, <2>1, <2>2, <2>4, ClaimType
  <2> HIDE DEF i, s, c
  <2>6. QED
    BY <1>1, <1>3, <1>4, <1>5, <2>2, <2>3, <2>4, <2>5, SessionStep
<1>8. CASE AckGranted(a)
  <2> DEFINE c == [CleanCtrlEdp(ctrl[i]) EXCEPT !.load = "need",
                                                !.lock = LockExclusive]
  <2>1. c \in BufCtrl /\ c.lock = LockExclusive
    BY <1>2 DEF CleanCtrlEdp, BufCtrl, LoadStatus, LockMode
  <2>2. c.lock >= s.mode
    BY <1>2, <1>3, <2>1 DEF Session, LockMode, LockNull, LockShare, LockExclusive
  <2>3. /\ ctrl' = [ctrl EXCEPT ![i] = c] /\ claims' = claims
        /\ sess' = [sess EXCEPT ![i] = s]
    BY <1>1, <1>8 DEF AckGranted, Session
  <2> HIDE DEF i, s, c
  <2>4. QED
    BY <1>1, <1>3, <1>4, <1>5, <2>1, <2>2, <2>3, SessionStep
<1>9. CASE AckError(a)
  <2>1. PICK c \in BufCtrl : /\ ctrl' = [ctrl EXCEPT ![i] = c]
                             /\ sess' = [sess EXCEPT ![i] = Idle]
    BY <1>1, <1>9, LeaveFailedForm DEF AckError
  <2>2. claims' = claims
    BY <1>9 DEF AckError
  <2> HIDE DEF i, s
  <2>3. QED
    BY <1>1, <1>4, <1>5, <2>1, <2>2, IdleType, SessionStep
<1>10. QED
  BY <1>6, <1>7, <1>8, <1>9 DEF HandleAck

---------------------------------------------------------------------------
(* What the invariant says of the state a handler finds. *)
LEMMA HandlerFinds ==
    ASSUME IInv
    PROVE  /\ Entry(res) /\ \A req \in EntryRequests(res) : Covers(req)
           /\ askm \subseteq ReqInfo /\ \A req \in askm : Covers(req)
           /\ asko \subseteq AskOwner /\ \A m \in asko : Covers(m.req)
           /\ tasks \subseteq Task
           /\ \A t \in tasks : t.kind # "recycle" => /\ t.req \in ReqInfo
                                                     /\ t.owner \in Inst
                                                     /\ Covers(t.req)
           /\ ctrl \in [Inst -> BufCtrl] /\ timeouts \in Nat
           /\ claims \subseteq ClaimInfo
           /\ acks = Answered({})
<1>1. \A req \in Requests : Covers(req)
  BY DEF IInv, RequestsCover
<1>2. acks = Answered({})
  BY DEF Answered
<1>3. Entry(res)
  BY DEF IInv, TypeOK, DirectoryOK, Entry
<1>4. QED
  BY <1>1, <1>2, <1>3 DEF IInv, TypeOK, TasksOK, Requests

(* The branches of drc_request_page_owner. *)
LEMMA ProcessAskMasterInv ==
    ASSUME IInv, NEW req \in askm, ProcessAskMaster(req) PROVE IInv'
<1>1. /\ UNCHANGED <<sess, clock, latest, disk, ctrl, claims, timeouts>>
      /\ askm' \subseteq askm
  BY DEF ProcessAskMaster
<1>2. req \in ReqInfo /\ Covers(req)
  BY HandlerFinds
<1>3. CASE MasterGrants(req)
  <2>1. /\ res' = GrantNew(req) /\ asko' = asko /\ tasks' = tasks
        /\ acks' = Answered({MasterAck("granted", req)})
    BY <1>3 DEF MasterGrants
  <2>2. Entry(res') /\ EntryRequests(res') = {}
    BY <1>2, <2>1, GrantNewEntry
  <2>3. {MasterAck("granted", req)} \in SUBSET Ack
        /\ \A a \in {MasterAck("granted", req)} : CoverAck(a)
    BY <1>2, AckTypes, MasterAckCovers
  <2>4. QED
    BY <1>1, <2>1, <2>2, <2>3, HandlerFinds, HandlerStep
<1>4. CASE MasterRefuses(req)
  <2>1. /\ res' = res /\ asko' = asko /\ tasks' = tasks
        /\ acks' = Answered({ErrorAck(req)})
    BY <1>4 DEF MasterRefuses
  <2>2. {ErrorAck(req)} \in SUBSET Ack /\ \A a \in {ErrorAck(req)} : CoverAck(a)
    BY <1>2, AckTypes, MasterAckCovers
  <2>3. QED
    BY <1>1, <2>1, <2>2, HandlerFinds, HandlerStep
<1>5. CASE MasterConverts(req)
  <2> DEFINE creq == ConvertReq(res, req)
             todo == CopiesToInvalidate(res, creq)
             retry == Restarts(res, req)
             t == [kind |-> "req", req |-> creq, by |-> req.inst,
                   owner |-> res.owner, retry |-> retry, todo |-> todo,
                   fail |-> FALSE]
  <2>1. /\ res.used /\ ~res.pending /\ res' = StartConvert(res, req)
        /\ \/ NotifyOwner(res.owner, creq, retry, {}) /\ tasks' = tasks
           \/ tasks' = tasks \cup {t} /\ asko' = asko /\ acks' = acks
    BY <1>5 DEF MasterConverts
  <2>2. Entry(res) /\ res \in BufRes /\ res.owner \in Inst
    BY <2>1, HandlerFinds DEF Entry, EntryOK
  <2>3. /\ creq \in ReqInfo /\ creq.inst = req.inst /\ creq.rsn = req.rsn
        /\ creq.mode >= req.mode
    BY <1>2, <2>2, ConvertReqKeeps
  <2>4. Covers(creq)
    <3>1. /\ req.inst \in Inst /\ req.mode \in Nat /\ creq.mode \in Nat
          /\ sess[req.inst].mode \in Nat
      BY <1>2, <2>3 DEF IInv, TypeOK, Session, ReqInfo, LockMode, LockNull,
         LockShare, LockExclusive
    <3> HIDE DEF creq
    <3>2. QED
      BY <1>2, <2>3, <3>1 DEF Covers
  <2>5. Entry(res') /\ \A r \in EntryRequests(res') : Covers(r)
    BY <1>2, <2>1, <2>2, <2>4, StartConvertEntry, HandlerFinds
  <2>6. retry \in BOOLEAN
    BY DEF Restarts
  <2>7. CASE NotifyOwner(res.owner, creq, retry, {}) /\ tasks' = tasks
    <3>1. /\ asko' \subseteq AskOwner /\ \A m \in asko' : Covers(m.req)
          /\ \E sent \in SUBSET Ack : /\ acks' = Answered(sent)
                                      /\ \A a \in sent : CoverAck(a)
      BY <2>2, <2>3, <2>4, <2>6, <2>7, NotifyOwnerCovers
    <3>2. PICK sent \in SUBSET Ack : /\ acks' = Answered(sent)
                                     /\ \A a \in sent : CoverAck(a)
      BY <3>1
    <3>3. QED
      BY <1>1, <2>5, <2>7, <3>1, <3>2, HandlerFinds, HandlerStep
  <2>8. CASE tasks' = tasks \cup {t} /\ asko' = asko /\ acks' = acks
    <3>1. creq \in ConvertInfo /\ req.inst \in Inst /\ todo \subseteq Inst
      BY <1>2, <2>2, <2>3, ReqIsConvert, CopiesAreInst DEF ReqInfo
    <3>2. /\ t \in Task /\ t.kind = "req" /\ t.req = creq
          /\ t.owner = res.owner
      <4> HIDE DEF creq, todo, retry
      <4>1. QED
        BY <2>2, <2>6, <3>1 DEF Task
    <3> HIDE DEF t, creq
    <3>3. /\ tasks' \subseteq Task
          /\ \A u \in tasks' : u.kind # "recycle" => /\ u.req \in ReqInfo
                                                     /\ u.owner \in Inst
                                                     /\ Covers(u.req)
      BY <2>2, <2>3, <2>4, <2>8, <3>2, HandlerFinds
    <3>4. acks' = Answered({}) /\ {} \in SUBSET Ack
      BY <2>8, HandlerFinds
    <3>5. QED
      BY <1>1, <2>5, <2>8, <3>3, <3>4, HandlerFinds, HandlerStep
  <2>9. QED
    BY <2>1, <2>7, <2>8
<1>6. CASE MasterQueues(req)
  <2>1. /\ asko' = asko /\ acks' = acks /\ tasks' = tasks
        /\ \/ Replaces(res, req) /\ res' = ReplaceQueued(res, req)
           \/ Appends(res, req) /\ res' = AppendQueued(res, req)
    BY <1>6 DEF MasterQueues
  <2>2. Entry(res') /\ EntryRequests(res') \subseteq EntryRequests(res) \cup {req}
    BY <1>2, <2>1, ReplaceQueuedEntry, AppendQueuedEntry, HandlerFinds
  <2>3. acks' = Answered({}) /\ {} \in SUBSET Ack
    BY <2>1, HandlerFinds
  <2>4. QED
    BY <1>1, <1>2, <2>1, <2>2, <2>3, HandlerFinds, HandlerStep
<1>7. QED
  BY <1>3, <1>4, <1>5, <1>6 DEF ProcessAskMaster

(* dcs_invalidate_readonly_copy takes the lock from an idle instance only. *)
LEMMA InvalidateCopyInv ==
    ASSUME IInv, NEW t \in tasks, NEW i \in Inst, InvalidateCopy(t, i)
    PROVE  IInv'
<1> DEFINE ok == ctrl[i].lock # LockExclusive
           todo == IF i = Master /\ ~ok THEN {} ELSE t.todo \ {i}
           u == [t EXCEPT !.todo = todo, !.fail = @ \/ ~ok]
<1>1. /\ UNCHANGED <<res, sess, askm, asko, acks, claims, clock, timeouts,
                     latest, disk>>
      /\ tasks' = (tasks \ {t}) \cup {u}
      /\ ctrl' = ctrl \/ ctrl' = [ctrl EXCEPT ![i] = InvalidateCtrl(@)]
      /\ sess[i].st = "idle"
  BY DEF InvalidateCopy, LatchableIO, Latchable
<1>2. t \in Task /\ ctrl \in [Inst -> BufCtrl]
  BY HandlerFinds
<1>3. /\ u \in Task /\ u.kind = t.kind /\ u.req = t.req /\ u.owner = t.owner
  <2>1. todo \in SUBSET Inst /\ (t.fail \/ ~ok) \in BOOLEAN
    BY <1>2 DEF Task
  <2>2. QED
    BY <1>2, <2>1 DEF Task
<1> HIDE DEF u
<1>4. /\ tasks' \subseteq Task
      /\ \A v \in tasks' : v.kind # "recycle" => /\ v.req \in ReqInfo
                                                 /\ v.owner \in Inst
                                                 /\ Covers(v.req)
  BY <1>1, <1>3, HandlerFinds
<1>5. InvalidateCtrl(ctrl[i]) \in BufCtrl
  BY <1>2 DEF InvalidateCtrl, BufCtrl, LoadStatus, LockMode
<1>6. ctrl' \in [Inst -> BufCtrl]
      /\ \A j \in Inst : sess[j].st = "held" => ctrl'[j].lock = ctrl[j].lock
  BY <1>1, <1>2, <1>5
<1>7. acks' = Answered({}) /\ {} \in SUBSET Ack
  BY <1>1, HandlerFinds
<1>8. QED
  BY <1>1, <1>4, <1>6, <1>7, HandlerFinds, HandlerStep

(* The ends of drc_request_page_owner and drc_claim_page_owner. *)
LEMMA InvalidatedInv ==
    ASSUME IInv, NEW t \in tasks, RequestInvalidated(t) \/ ConvertInvalidated(t)
    PROVE  IInv'
<1>1. /\ UNCHANGED <<ctrl, sess, askm, claims, clock, timeouts, latest, disk>>
      /\ tasks' \subseteq tasks /\ t.kind # "recycle"
  BY DEF RequestInvalidated, ConvertInvalidated
<1>2. t \in Task /\ t.req \in ReqInfo /\ t.owner \in Inst /\ Covers(t.req)
  BY <1>1, HandlerFinds
<1>3. res' = res \/ res' = [res EXCEPT !.copies = {}]
  BY DEF RequestInvalidated, ConvertInvalidated
<1>4. Entry(res') /\ EntryRequests(res') = EntryRequests(res)
  BY <1>3, ClearCopiesEntry, HandlerFinds
<1>5. CASE acks' = Answered({ErrorAck(t.req)}) /\ asko' = asko
  <2>1. {ErrorAck(t.req)} \in SUBSET Ack /\ \A a \in {ErrorAck(t.req)} : CoverAck(a)
    BY <1>2, AckTypes, MasterAckCovers
  <2>2. QED
    BY <1>1, <1>4, <1>5, <2>1, HandlerFinds, HandlerStep
<1>6. CASE \E retry \in BOOLEAN : NotifyOwner(t.owner, t.req, retry, {})
  <2>1. /\ asko' \subseteq AskOwner /\ \A m \in asko' : Covers(m.req)
        /\ \E sent \in SUBSET Ack : /\ acks' = Answered(sent)
                                    /\ \A a \in sent : CoverAck(a)
    BY <1>2, <1>6, NotifyOwnerCovers
  <2>2. PICK sent \in SUBSET Ack : /\ acks' = Answered(sent)
                                   /\ \A a \in sent : CoverAck(a)
    BY <2>1
  <2>3. QED
    BY <1>1, <1>4, <2>1, <2>2, HandlerFinds, HandlerStep
<1>7. t.retry \in BOOLEAN /\ FALSE \in BOOLEAN
  BY <1>2 DEF Task
<1>8. CASE RequestInvalidated(t)
  BY <1>5, <1>6, <1>7, <1>8 DEF RequestInvalidated
<1>9. CASE ConvertInvalidated(t)
  BY <1>6, <1>7, <1>9 DEF ConvertInvalidated
<1>10. QED
  BY <1>8, <1>9

(* drc_convert_next_request: the waiters it drops are answered, the one    *)
(* it takes was covered while it waited.                                   *)
LEMMA ConvertWaiterInv ==
    ASSUME IInv, NEW r, Entry(r), r.used,
           EntryRequests(r) \subseteq EntryRequests(res),
           NEW by \in Inst, NEW expired \in 0..Len(r.q),
           ConvertWaiter(r, by, expired), timeouts' \in Nat,
           UNCHANGED <<ctrl, sess, askm, clock, latest, disk>>,
           claims' \subseteq claims
    PROVE  IInv'
<1> DEFINE r1 == ConvertNext(r, expired)
           r2 == IF HeadConflicts(r1) THEN DropHead(r1) ELSE r1
           late == {ErrorAck(r.q[k]) : k \in 1..expired}
           dropped == IF HeadConflicts(r1) THEN {ErrorAck(Head(r1.q))} ELSE {}
           todo == CopiesToInvalidate(r1, r1.conv)
           t == [kind |-> "cvt", req |-> r1.conv, by |-> by, owner |-> r1.owner,
                 retry |-> FALSE, todo |-> todo, fail |-> FALSE]
<1>1. /\ Entry(r1) /\ r1.used /\ r1 \in BufRes
      /\ EntryRequests(r1) \subseteq EntryRequests(r)
      /\ \A k \in 1..expired : r.q[k] \in ReqInfo /\ r.q[k] \in EntryRequests(r)
  BY ConvertNextEntry DEF Entry
<1>2. r1.owner \in Inst
  BY <1>1 DEF Entry, EntryOK
<1>3. \A req \in EntryRequests(r) : Covers(req)
  BY HandlerFinds
<1>4. late \in SUBSET Ack /\ \A a \in late : CoverAck(a)
  BY <1>1, <1>3, AckTypes, MasterAckCovers
<1>5. dropped \in SUBSET Ack /\ \A a \in dropped : CoverAck(a)
  <2>1. CASE HeadConflicts(r1)
    <3>1. Head(r1.q) \in ReqInfo /\ Head(r1.q) \in EntryRequests(r1)
      BY <1>1, <2>1, DropHeadEntry DEF HeadConflicts
    <3>2. QED
      BY <1>1, <1>3, <2>1, <3>1, AckTypes, MasterAckCovers
  <2>2. CASE ~HeadConflicts(r1)
    BY <2>2
  <2>3. QED
    BY <2>1, <2>2
<1>6. Entry(r2) /\ EntryRequests(r2) \subseteq EntryRequests(r1)
  BY <1>1, DropHeadEntry DEF HeadConflicts
<1>7. r1.conv \in ConvertInfo
      /\ (Converting(r1) => r1.conv \in ReqInfo /\ Covers(r1.conv))
  BY <1>1, <1>3 DEF Entry, EntryOK, Converting, EntryRequests, BufRes
<1>8. /\ res' = r2
      /\ \/ acks' = Answered(late) /\ asko' = asko /\ tasks' = tasks
         \/ /\ Converting(r1)
            /\ NotifyOwner(r1.owner, r1.conv, FALSE, late \cup dropped)
            /\ tasks' = tasks
         \/ /\ Converting(r1) /\ tasks' = tasks \cup {t}
            /\ acks' = Answered(late \cup dropped) /\ asko' = asko
  BY DEF ConvertWaiter
<1>9. todo \subseteq Inst
  BY <1>1, CopiesAreInst
<1> HIDE DEF r1, r2, late, dropped, todo
<1>10. Entry(res') /\ \A req \in EntryRequests(res') : Covers(req)
  BY <1>1, <1>3, <1>6, <1>8
<1>11. late \cup dropped \in SUBSET Ack /\ \A a \in late \cup dropped : CoverAck(a)
  BY <1>4, <1>5
<1>12. CASE acks' = Answered(late) /\ asko' = asko /\ tasks' = tasks
  BY <1>4, <1>10, <1>12, HandlerFinds, HandlerStep
<1>13. CASE /\ Converting(r1)
            /\ NotifyOwner(r1.owner, r1.conv, FALSE, late \cup dropped)
            /\ tasks' = tasks
  <2>1. /\ asko' \subseteq AskOwner /\ \A m \in asko' : Covers(m.req)
        /\ \E sent \in SUBSET Ack : /\ acks' = Answered(sent)
                                    /\ \A a \in sent : CoverAck(a)
    BY <1>2, <1>7, <1>11, <1>13, NotifyOwnerCovers
  <2>2. PICK sent \in SUBSET Ack : /\ acks' = Answered(sent)
                                   /\ \A a \in sent : CoverAck(a)
    BY <2>1
  <2>3. QED
    BY <1>10, <1>13, <2>1, <2>2, HandlerFinds, HandlerStep
<1>14. CASE /\ Converting(r1) /\ tasks' = tasks \cup {t}
            /\ acks' = Answered(late \cup dropped) /\ asko' = asko
  <2>1. /\ t \in Task /\ t.kind = "cvt" /\ t.req = r1.conv /\ t.owner = r1.owner
    BY <1>2, <1>7, <1>9 DEF Task
  <2> HIDE DEF t
  <2>2. /\ tasks' \subseteq Task
        /\ \A u \in tasks' : u.kind # "recycle" => /\ u.req \in ReqInfo
                                                   /\ u.owner \in Inst
                                                   /\ Covers(u.req)
    BY <1>2, <1>7, <1>14, <2>1, HandlerFinds
  <2>3. QED
    BY <1>10, <1>11, <1>14, <2>2, HandlerFinds, HandlerStep
<1>15. QED
  BY <1>8, <1>12, <1>13, <1>14

(* dcs_process_claim_ownership_req. *)
LEMMA ProcessClaimInv ==
    ASSUME IInv, NEW c \in claims, ProcessClaim(c) PROVE IInv'
<1>1. /\ UNCHANGED <<ctrl, sess, askm, clock, latest, disk>>
      /\ claims' \subseteq claims
  BY DEF ProcessClaim
<1>2. c \in ClaimInfo /\ c.inst \in Inst
  BY HandlerFinds DEF ClaimInfo
<1>3. CASE ~ClaimValid(res, c)
  <2>1. UNCHANGED <<res, asko, acks, tasks, timeouts>>
    BY <1>3 DEF ProcessClaim
  <2>2. acks' = Answered({}) /\ {} \in SUBSET Ack
    BY <2>1, HandlerFinds
  <2>3. QED
    BY <1>1, <2>1, <2>2, HandlerFinds, HandlerStep
<1>4. CASE ClaimValid(res, c)
  <2> DEFINE r == ClaimNewOwner(res, c)
  <2>1. PICK expired \in 0..Len(res.q) :
             timeouts' = timeouts + expired /\ ConvertWaiter(r, c.inst, expired)
    BY <1>4 DEF ProcessClaim
  <2>2. Entry(r) /\ r.used /\ EntryRequests(r) = EntryRequests(res)
    BY <1>2, <1>4, ClaimEntry, HandlerFinds
  <2>3. r.q = res.q
    BY HandlerFinds DEF ClaimNewOwner, ClaimShare, ClaimExclusive, Entry, BufRes
  <2>4. timeouts' \in Nat
    <3>1. Len(res.q) \in Nat
      BY HandlerFinds, LenProperties DEF Entry, BufRes
    <3>2. QED
      BY <2>1, <3>1, HandlerFinds
  <2> HIDE DEF r
  <2>5. QED
    BY <1>1, <1>2, <2>1, <2>2, <2>3, <2>4, ConvertWaiterInv
<1>5. QED
  BY <1>3, <1>4

(* dcs_owner_transfer_page takes the lock from an idle instance only, and  *)
(* answers with the mode that was asked for.                               *)
LEMMA TransferPageInv ==
    ASSUME IInv, NEW m \in asko, TransferPage(m) PROVE IInv'
<1> DEFINE i == m.dst
           c == IF ctrl[i].load = "need" THEN [ctrl[i] EXCEPT !.load = "failed"]
                                         ELSE ctrl[i]
           d == AfterTransfer(c, m.req.mode)
<1>1. /\ m \in AskOwner /\ i \in Inst /\ m.req \in ReqInfo /\ Covers(m.req)
      /\ ctrl \in [Inst -> BufCtrl] /\ ctrl[i] \in BufCtrl
  BY HandlerFinds DEF AskOwner
<1>2. c \in BufCtrl
  BY <1>1 DEF BufCtrl, LoadStatus
<1>3. d \in BufCtrl
  <2> HIDE DEF c
  <2>1. InvalidateCtrl(c) \in BufCtrl
    BY <1>2 DEF InvalidateCtrl, BufCtrl, LoadStatus, LockMode
  <2>2. c.dirty \in BOOLEAN /\ LockShare \in LockMode
    BY <1>2 DEF BufCtrl, LockMode
  <2>3. QED
    BY <1>2, <2>1, <2>2 DEF AfterTransfer, BufCtrl
<1>4. PageReadyAck(c, m) \in Ack /\ CoverAck(PageReadyAck(c, m))
  <2> DEFINE a == MasterAck("page_ready", m.req)
             l == IF TransferFlags(c, m) \cap {"need_load", "readonly2x"} = {}
                  THEN c.lsn ELSE 0
  <2>1. a \in Ack /\ CoverAck(a)
    BY <1>1, AckTypes, MasterAckCovers
  <2>2. TransferFlags(c, m) \in SUBSET Flags /\ l \in Nat
    BY <1>2 DEF TransferFlags, Flags, BufCtrl
  <2>3. PageReadyAck(c, m) = [a EXCEPT !.flags = TransferFlags(c, m), !.lsn = l]
    BY DEF PageReadyAck
  <2> HIDE DEF a, l
  <2>4. PageReadyAck(c, m) \in Ack
    BY <2>1, <2>2, <2>3 DEF Ack, AckMsg
  <2>5. /\ PageReadyAck(c, m).dst = a.dst /\ PageReadyAck(c, m).rsn = a.rsn
        /\ PageReadyAck(c, m).cmd = a.cmd /\ PageReadyAck(c, m).mode = a.mode
    BY <2>1, <2>3 DEF Ack, AckMsg
  <2>6. QED
    BY <2>1, <2>4, <2>5 DEF CoverAck
<1>5. ErrorAck(m.req) \in Ack /\ CoverAck(ErrorAck(m.req))
  BY <1>1, AckTypes, MasterAckCovers
<1>6. PICK e \in {c, d}, a \in {PageReadyAck(c, m), ErrorAck(m.req)} :
           ctrl' = [ctrl EXCEPT ![i] = e] /\ acks' = Answered({a})
  BY DEF TransferPage
<1>7. /\ UNCHANGED <<res, sess, askm, claims, tasks, clock, timeouts, latest, disk>>
      /\ asko' \subseteq asko /\ sess[i].st = "idle"
  BY DEF TransferPage, LatchableIO, Latchable
<1> HIDE DEF c, d
<1>8. /\ ctrl' \in [Inst -> BufCtrl]
      /\ \A j \in Inst : sess[j].st = "held" => ctrl'[j].lock = ctrl[j].lock
  BY <1>1, <1>2, <1>3, <1>6, <1>7
<1>9. {a} \in SUBSET Ack /\ \A b \in {a} : CoverAck(b)
  BY <1>4, <1>5, <1>6
<1>10. QED
  BY <1>6, <1>7, <1>8, <1>9, HandlerFinds, HandlerStep

---------------------------------------------------------------------------
(* IInv is inductive. *)
LEMMA NextIInv == IInv /\ [Next]_vars => IInv'
<1> SUFFICES ASSUME IInv, [Next]_vars PROVE IInv'
  OBVIOUS
<1>1. ASSUME NEW i \in Inst, NEW mode \in {LockShare, LockExclusive},
             RequestPage(i, mode)
      PROVE  IInv'
  BY <1>1, RequestPageInv
<1>2. ASSUME NEW i \in Inst, GiveUp(i) \/ Finish(i) \/ Modify(i) PROVE IInv'
  BY <1>2, GiveUpInv, FinishInv, ModifyInv
<1>3. ASSUME NEW a \in acks, HandleAck(a) PROVE IInv'
  BY <1>3, HandleAckInv
<1>4. ASSUME NEW req \in askm, ProcessAskMaster(req) PROVE IInv'
  BY <1>4, ProcessAskMasterInv
<1>5. ASSUME NEW t \in tasks, NEW i \in Inst, InvalidateCopy(t, i) PROVE IInv'
  BY <1>5, InvalidateCopyInv
<1>6. ASSUME NEW t \in tasks, RequestInvalidated(t) \/ ConvertInvalidated(t)
      PROVE  IInv'
  BY <1>6, InvalidatedInv
<1>7. ASSUME NEW c \in claims, ProcessClaim(c) PROVE IInv'
  BY <1>7, ProcessClaimInv
<1>8. ASSUME NEW m \in asko, TransferPage(m) PROVE IInv'
  BY <1>8, TransferPageInv
<1>9. ASSUME UNCHANGED vars PROVE IInv'
  <2>1. Requests' = Requests
    BY <1>9 DEF vars, Requests
  <2>2. QED
    BY <1>9, <2>1 DEF vars, IInv, TypeOK, DirectoryOK, TasksOK, RequestsCover,
       Covers, Waiting, AnswersCover, HeldCovered
<1>10. QED
  BY <1>1, <1>2, <1>3, <1>4, <1>5, <1>6, <1>7, <1>8, <1>9 DEF Next

LEMMA Invariance == Spec => []IInv
<1>1. Init => IInv
  BY InitIInv
<1>2. IInv /\ [Next]_vars => IInv'
  BY NextIInv
<1>3. QED
  BY <1>1, <1>2, PTL DEF Spec

(* Every state of the page service has the shape of the code's structs:    *)
(* in particular the master always asks a real instance for the page, on   *)
(* behalf of a real request.                                               *)
THEOREM TypeCorrect == Spec => []TypeOK
<1>1. IInv => TypeOK
  BY DEF IInv
<1>2. QED
  BY <1>1, Invariance, PTL

(* The master's entry stays consistent whatever requests, claims, retries  *)
(* and returning threads meet it (drc_request_page_owner,                  *)
(* drc_claim_page_owner, drc_convert_next_request).                        *)
THEOREM DirectoryConsistent == Spec => []DirectoryOK
<1>1. IInv => DirectoryOK
  BY DEF IInv
<1>2. QED
  BY <1>1, Invariance, PTL

(* No request shrinks on its way through messages, threads, the queue and  *)
(* the retries that drc_keep_requester_wait folds together.                *)
THEOREM RequestsKeepMode == Spec => []RequestsCover
<1>1. IInv => RequestsCover
  BY DEF IInv
<1>2. QED
  BY <1>1, Invariance, PTL

(* A session uses the page only under a lock of its instance that covers   *)
(* the access (dtc_read_page), with lost, late, repeated and reordered     *)
(* answers, timeouts and retries.                                          *)
THEOREM HeldUnderLock == Spec => []HeldCovered
<1>1. IInv => HeldCovered
  BY DEF IInv
<1>2. QED
  BY <1>1, Invariance, PTL
=============================================================================

-------------------------- MODULE DrcBufRes_proofs --------------------------
(***************************************************************************)
(* What the operators of DrcBufRes do to a consistent entry: the result is *)
(* an entry again, it is consistent, and it remembers no request but those *)
(* it knew and the one the operator adds.                                  *)
(***************************************************************************)
EXTENDS DrcBufRes, SequenceTheorems, TLAPS

(* A consistent entry of the right type. *)
Entry(r) == r \in BufRes /\ EntryOK(r)

(* Nothing converts in NoReq, and its fields have the types of ConvertInfo. *)
LEMMA NoReqType ==
    ASSUME NEW time \in Nat
    PROVE  NoReq(time) \in ConvertInfo /\ NoReq(time).inst = NoInst
BY DEF NoReq, ConvertInfo, LockMode, LockNull

LEMMA ReqIsConvert ==
    ASSUME NEW req \in ReqInfo
    PROVE  req \in ConvertInfo /\ req.inst # NoInst
BY NoInstAssumption DEF ReqInfo, ConvertInfo, LockMode, LockShare,
   LockExclusive, LockNull

(* The empty entry is consistent and remembers no request. *)
LEMMA NoBufResEntry == Entry(NoBufRes) /\ EntryRequests(NoBufRes) = {}
<1>1. NoReq(0) \in ConvertInfo /\ NoReq(0).inst = NoInst
  BY NoReqType
<1>2. <<>> \in Seq(ReqInfo) /\ DOMAIN <<>> = {}
  BY EmptySeq
<1>3. NoBufRes \in BufRes
  BY <1>1, <1>2 DEF NoBufRes, BufRes, LockMode
<1>4. EntryOK(NoBufRes)
  BY <1>1, <1>2 DEF NoBufRes, EntryOK, Converting, LockNull, LockExclusive
<1>5. EntryRequests(NoBufRes) = {}
  BY <1>1, <1>2 DEF NoBufRes, EntryRequests
<1>6. QED
  BY <1>3, <1>4, <1>5 DEF Entry

(* drc_request_page_owner on a page without an entry. *)
LEMMA GrantNewEntry ==
    ASSUME NEW req \in ReqInfo
    PROVE  Entry(GrantNew(req)) /\ EntryRequests(GrantNew(req)) = {}
<1> DEFINE r == GrantNew(req)
<1>1. req.rsn \in Nat /\ req.inst \in Inst /\ req.mode \in {LockShare, LockExclusive}
  BY DEF ReqInfo
<1>2. NoReq(req.rsn) \in ConvertInfo /\ NoReq(req.rsn).inst = NoInst
  BY <1>1, NoReqType
<1>3. NoBufRes \in BufRes
  BY NoBufResEntry DEF Entry
<1>4. r \in BufRes
  BY <1>1, <1>2, <1>3 DEF GrantNew, BufRes, LockMode
<1>5. /\ r.used /\ r.owner = req.inst /\ r.mode = req.mode /\ r.copies = {}
      /\ r.conv = NoReq(req.rsn) /\ r.q = <<>> /\ ~r.pending
  BY DEF GrantNew, NoBufRes
<1>6. EntryOK(r)
  BY <1>1, <1>2, <1>5 DEF EntryOK, Converting, LockShare, LockExclusive, LockNull
<1>7. EntryRequests(r) = {}
  BY <1>2, <1>5 DEF EntryRequests
<1>8. QED
  BY <1>4, <1>6, <1>7 DEF Entry

(* Larger is the maximum of two numbers. *)
LEMMA LargerIsMax ==
    ASSUME NEW m \in Nat, NEW n \in Nat
    PROVE  /\ Larger(m, n) \in {m, n} /\ Larger(m, n) \in Nat
           /\ Larger(m, n) >= m /\ Larger(m, n) >= n
BY DEF Larger

(* drc_keep_requester_wait never gives the converting request less than    *)
(* the new request asked for.                                              *)
LEMMA ConvertReqKeeps ==
    ASSUME NEW r, Entry(r), NEW req \in ReqInfo
    PROVE  /\ ConvertReq(r, req) \in ReqInfo
           /\ ConvertReq(r, req).inst = req.inst
           /\ ConvertReq(r, req).rsn = req.rsn
           /\ ConvertReq(r, req).mode >= req.mode
<1>1. req.mode \in {LockShare, LockExclusive}
  BY DEF ReqInfo
<1>2. CASE Restarts(r, req)
  <2>1. r.conv \in ReqInfo
    BY <1>2 DEF Restarts, Entry, EntryOK
  <2>2. r.conv.mode \in {LockShare, LockExclusive}
    BY <2>1 DEF ReqInfo
  <2>3. /\ ConvertMode(r, req) \in {LockShare, LockExclusive}
        /\ ConvertMode(r, req) >= req.mode
    BY <1>1, <1>2, <2>2 DEF ConvertMode, Larger, LockShare, LockExclusive
  <2>4. QED
    BY <2>3 DEF ConvertReq, ReqInfo
<1>3. CASE ~Restarts(r, req)
  <2>1. ConvertMode(r, req) = req.mode /\ req.mode >= req.mode
    BY <1>1, <1>3 DEF ConvertMode, LockShare, LockExclusive
  <2>2. QED
    BY <1>1, <2>1 DEF ConvertReq, ReqInfo
<1>4. QED
  BY <1>2, <1>3

(* drc_keep_requester_wait, first branches: req converts. *)
LEMMA StartConvertEntry ==
    ASSUME NEW r, Entry(r), r.used, ~r.pending, NEW req \in ReqInfo
    PROVE  /\ Entry(StartConvert(r, req))
           /\ EntryRequests(StartConvert(r, req))
                \subseteq EntryRequests(r) \cup {ConvertReq(r, req)}
<1> DEFINE s == StartConvert(r, req)
<1>1. r \in BufRes /\ EntryOK(r)
  BY DEF Entry
<1>2. ConvertReq(r, req) \in ReqInfo /\ ConvertReq(r, req) \in ConvertInfo
      /\ ConvertReq(r, req).inst # NoInst
  BY ConvertReqKeeps, ReqIsConvert
<1>3. /\ s.used = r.used /\ s.owner = r.owner /\ s.mode = r.mode
      /\ s.copies = r.copies /\ s.q = r.q /\ s.pending = r.pending
      /\ s.conv = ConvertReq(r, req)
  BY <1>1 DEF StartConvert, BufRes
<1>4. s \in BufRes
  BY <1>1, <1>2 DEF StartConvert, BufRes
<1>5. EntryOK(s)
  BY <1>1, <1>2, <1>3 DEF EntryOK, Converting
<1>6. EntryRequests(s) \subseteq EntryRequests(r) \cup {ConvertReq(r, req)}
  BY <1>3 DEF EntryRequests
<1>7. QED
  BY <1>4, <1>5, <1>6 DEF Entry

(* drc_keep_requester_wait: a retry takes the place of the earlier request *)
(* in the queue.                                                           *)
LEMMA ReplaceQueuedEntry ==
    ASSUME NEW r, Entry(r), NEW req \in ReqInfo, Replaces(r, req)
    PROVE  /\ Entry(ReplaceQueued(r, req))
           /\ EntryRequests(ReplaceQueued(r, req))
                \subseteq EntryRequests(r) \cup {req}
<1> DEFINE k == FirstRetried(r, req)
           s == ReplaceQueued(r, req)
           q == [r.q EXCEPT ![k] = req]
<1>1. r \in BufRes /\ EntryOK(r) /\ Converting(r)
  BY DEF Entry, Replaces, Queues
<1>2. r.q \in Seq(ReqInfo)
  BY <1>1 DEF BufRes
<1>3. r.q \in [1..Len(r.q) -> ReqInfo] /\ Len(r.q) \in Nat
  BY <1>2, LenProperties
<1>4. q \in Seq(ReqInfo) /\ DOMAIN q = DOMAIN r.q
      /\ \A j \in DOMAIN q : q[j] \in {req, r.q[j]}
  <2> HIDE DEF k
  <2>1. q \in [1..Len(r.q) -> ReqInfo]
    BY <1>3
  <2>2. q \in Seq(ReqInfo)
    BY <1>3, <2>1, SeqDef
  <2>3. \A j \in DOMAIN q : q[j] \in {req, r.q[j]}
    BY <1>3
  <2>4. QED
    BY <1>3, <2>1, <2>2, <2>3
<1> HIDE DEF k
<1>5. s = [r EXCEPT !.q = q]
  BY <1>1 DEF ReplaceQueued, BufRes, k
<1> HIDE DEF q
<1>6. /\ s.used = r.used /\ s.owner = r.owner /\ s.mode = r.mode
      /\ s.copies = r.copies /\ s.q = q /\ s.pending = r.pending
      /\ s.conv = r.conv
  BY <1>1, <1>5 DEF BufRes
<1>7. s \in BufRes
  BY <1>1, <1>4, <1>5 DEF BufRes
<1>8. r.used
  BY <1>1, NoReqType DEF EntryOK, Converting, NoBufRes
<1>9. EntryOK(s)
  BY <1>1, <1>6, <1>8 DEF EntryOK, Converting
<1>10. EntryRequests(s) \subseteq EntryRequests(r) \cup {req}
  BY <1>4, <1>6 DEF EntryRequests
<1>11. QED
  BY <1>7, <1>9, <1>10 DEF Entry

(* drc_keep_requester_wait: the request goes to the end of the queue. *)
LEMMA AppendQueuedEntry ==
    ASSUME NEW r, Entry(r), NEW req \in ReqInfo, Appends(r, req)
    PROVE  /\ Entry(AppendQueued(r, req))
           /\ EntryRequests(AppendQueued(r, req))
                \subseteq EntryRequests(r) \cup {req}
<1> DEFINE s == AppendQueued(r, req)
           q == Append(r.q, req)
<1>1. r \in BufRes /\ EntryOK(r) /\ Converting(r)
  BY DEF Entry, Appends, Queues
<1>2. r.q \in Seq(ReqInfo)
  BY <1>1 DEF BufRes
<1>3. q \in Seq(ReqInfo) /\ \A j \in DOMAIN q : q[j] = req \/ (j \in DOMAIN r.q /\ q[j] = r.q[j])
  BY <1>2
<1>4. s = [r EXCEPT !.q = q]
  BY DEF AppendQueued
<1> HIDE DEF q
<1>5. /\ s.used = r.used /\ s.owner = r.owner /\ s.mode = r.mode
      /\ s.copies = r.copies /\ s.q = q /\ s.pending = r.pending
      /\ s.conv = r.conv
  BY <1>1, <1>4 DEF BufRes
<1>6. s \in BufRes
  BY <1>1, <1>3, <1>4 DEF BufRes
<1>7. r.used
  BY <1>1, NoReqType DEF EntryOK, Converting, NoBufRes
<1>8. EntryOK(s)
  BY <1>1, <1>5, <1>7 DEF EntryOK, Converting
<1>9. EntryRequests(s) \subseteq EntryRequests(r) \cup {req}
  BY <1>3, <1>5 DEF EntryRequests
<1>10. QED
  BY <1>6, <1>8, <1>9 DEF Entry

(* The readonly copies to invalidate are instances. *)
LEMMA CopiesAreInst ==
    ASSUME NEW r \in BufRes, NEW req
    PROVE  CopiesToInvalidate(r, req) \subseteq Inst
BY DEF CopiesToInvalidate, BufRes

(* A thread that has invalidated the copies clears them in the entry. *)
LEMMA ClearCopiesEntry ==
    ASSUME NEW r, Entry(r)
    PROVE  /\ Entry([r EXCEPT !.copies = {}])
           /\ EntryRequests([r EXCEPT !.copies = {}]) = EntryRequests(r)
<1> DEFINE s == [r EXCEPT !.copies = {}]
<1>1. r \in BufRes /\ EntryOK(r)
  BY DEF Entry
<1>2. /\ s.used = r.used /\ s.owner = r.owner /\ s.mode = r.mode
      /\ s.copies = {} /\ s.q = r.q /\ s.pending = r.pending
      /\ s.conv = r.conv
  BY <1>1 DEF BufRes
<1>3. s \in BufRes
  BY <1>1 DEF BufRes
<1>4. ~r.used => s = NoBufRes
  <2>1. SUFFICES ASSUME ~r.used PROVE s = NoBufRes
    OBVIOUS
  <2>2. r = NoBufRes
    BY <1>1, <2>1 DEF EntryOK
  <2>3. r.copies = {}
    BY <2>2 DEF NoBufRes
  <2>4. s = r
    BY <1>1, <2>3 DEF BufRes
  <2>5. QED
    BY <2>2, <2>4
<1>5. EntryOK(s)
  BY <1>1, <1>2, <1>4 DEF EntryOK, Converting
<1>6. EntryRequests(s) = EntryRequests(r)
  BY <1>2 DEF EntryRequests
<1>7. QED
  BY <1>3, <1>5, <1>6 DEF Entry

(* drc_claim_new_page_owner: the owner never becomes one of the copies,    *)
(* and a new exclusive owner leaves none.                                  *)
LEMMA ClaimEntry ==
    ASSUME NEW r, Entry(r), NEW c \in ClaimInfo, ClaimValid(r, c)
    PROVE  /\ Entry(ClaimNewOwner(r, c))
           /\ ClaimNewOwner(r, c).used
           /\ EntryRequests(ClaimNewOwner(r, c)) = EntryRequests(r)
<1> DEFINE s == ClaimNewOwner(r, c)
<1>1. r \in BufRes /\ EntryOK(r) /\ r.used
  BY DEF Entry, ClaimValid
<1>2. /\ c.inst \in Inst /\ c.mode \in {LockShare, LockExclusive}
      /\ c.lsn \in Nat
  BY DEF ClaimInfo
<1>3. r.owner \in Inst /\ r.mode \in {LockShare, LockExclusive} /\ r.lsn \in Nat
  BY <1>1 DEF EntryOK, BufRes, LockMode
<1>4. Larger(r.lsn, c.lsn) \in Nat
  BY <1>2, <1>3, LargerIsMax
<1>5. CASE s = r
  BY <1>1, <1>5 DEF Entry
<1>6. CASE /\ s = ClaimShare(r, c)
           /\ c.mode = LockShare
           /\ ~(c.mode <= r.mode /\ r.owner = c.inst)
  <2>1. r.owner # c.inst
    BY <1>3, <1>6 DEF LockShare, LockExclusive
  <2>2. /\ s.used = r.used /\ s.owner = r.owner /\ s.mode = LockShare
        /\ s.copies = r.copies \cup {c.inst} /\ s.q = r.q
        /\ s.pending = r.pending /\ s.conv = r.conv
    BY <1>1, <1>6 DEF ClaimShare, BufRes
  <2>3. s \in BufRes
    <3>1. r.copies \cup {c.inst} \subseteq Inst
      BY <1>1, <1>2 DEF BufRes
    <3>2. QED
      BY <1>1, <1>4, <1>6, <3>1 DEF ClaimShare, BufRes, LockMode
  <2>4. EntryOK(s)
    BY <1>1, <2>1, <2>2 DEF EntryOK, Converting, LockShare, LockExclusive, LockNull
  <2>5. QED
    BY <1>1, <2>2, <2>3, <2>4 DEF Entry, EntryRequests
<1>7. CASE s = ClaimExclusive(r, c)
  <2>1. /\ s.used = r.used /\ s.owner = c.inst /\ s.mode = LockExclusive
        /\ s.copies = {} /\ s.q = r.q
        /\ s.pending = r.pending /\ s.conv = r.conv
    BY <1>1, <1>7 DEF ClaimExclusive, BufRes
  <2>2. (r.edp \ {c.inst}) \cup (IF c.edp THEN {r.owner} ELSE {}) \subseteq Inst
    BY <1>1, <1>3 DEF BufRes
  <2>3. s \in BufRes
    BY <1>1, <1>2, <1>4, <1>7, <2>2 DEF ClaimExclusive, BufRes, LockMode
  <2>4. EntryOK(s)
    BY <1>1, <1>2, <2>1 DEF EntryOK, Converting, LockExclusive, LockNull
  <2>5. QED
    BY <1>1, <2>1, <2>3, <2>4 DEF Entry, EntryRequests
<1>8. QED
  BY <1>5, <1>6, <1>7 DEF ClaimNewOwner

(* drc_convert_next_request, for any number of waiters that have expired:  *)
(* whoever converts next was waiting, and nobody else is forgotten or      *)
(* invented.                                                               *)
LEMMA ConvertNextEntry ==
    ASSUME NEW r, Entry(r), r.used, NEW expired \in 0..Len(r.q)
    PROVE  /\ Entry(ConvertNext(r, expired))
           /\ ConvertNext(r, expired).used
           /\ ConvertNext(r, expired).owner = r.owner
           /\ EntryRequests(ConvertNext(r, expired)) \subseteq EntryRequests(r)
           /\ \A k \in 1..expired : r.q[k] \in ReqInfo /\ r.q[k] \in EntryRequests(r)
<1> DEFINE s == ConvertNext(r, expired)
           q == SubSeq(r.q, expired + 2, Len(r.q))
<1>1. r \in BufRes /\ EntryOK(r)
  BY DEF Entry
<1>2. r.q \in Seq(ReqInfo) /\ r.conv \in ConvertInfo
  BY <1>1 DEF BufRes
<1>3. Len(r.q) \in Nat /\ DOMAIN r.q = 1..Len(r.q)
      /\ \A k \in 1..Len(r.q) : r.q[k] \in ReqInfo
  BY <1>2, LenProperties, ElementOfSeq
<1>4. \A k \in 1..expired : r.q[k] \in ReqInfo /\ r.q[k] \in EntryRequests(r)
  BY <1>3 DEF EntryRequests
<1>5. CASE expired = Len(r.q)
  <2>1. LastTime(r, expired) \in Nat
    <3>1. r.conv.rsn \in Nat
      BY <1>2 DEF ConvertInfo
    <3>2. expired # 0 => r.q[expired] \in ReqInfo
      BY <1>3, <1>5
    <3>3. QED
      BY <3>1, <3>2 DEF LastTime, ReqInfo
  <2>2. NoReq(LastTime(r, expired)) \in ConvertInfo
        /\ NoReq(LastTime(r, expired)).inst = NoInst
    BY <2>1, NoReqType
  <2>3. /\ s.used = r.used /\ s.owner = r.owner /\ s.mode = r.mode
        /\ s.copies = r.copies /\ s.q = <<>> /\ s.pending = r.pending
        /\ s.conv = NoReq(LastTime(r, expired))
    BY <1>1, <1>5 DEF ConvertNext, BufRes
  <2>4. <<>> \in Seq(ReqInfo) /\ DOMAIN <<>> = {}
    BY EmptySeq
  <2>5. s \in BufRes
    BY <1>1, <1>5, <2>2, <2>4 DEF ConvertNext, BufRes
  <2>6. EntryOK(s)
    BY <1>1, <2>2, <2>3 DEF EntryOK, Converting
  <2>7. EntryRequests(s) = {}
    BY <2>2, <2>3, <2>4 DEF EntryRequests
  <2>8. QED
    BY <1>4, <2>3, <2>5, <2>6, <2>7 DEF Entry
<1>6. CASE expired # Len(r.q)
  <2>1. expired + 1 \in 1..Len(r.q)
    BY <1>3, <1>6
  <2>2. r.q[expired + 1] \in ReqInfo /\ r.q[expired + 1] \in EntryRequests(r)
        /\ r.q[expired + 1] \in ConvertInfo /\ r.q[expired + 1].inst # NoInst
    BY <1>3, <2>1, ReqIsConvert DEF EntryRequests
  <2>3. /\ q \in Seq(ReqInfo)
        /\ Len(q) = IF expired + 2 <= Len(r.q) THEN Len(r.q) - (expired + 2) + 1 ELSE 0
        /\ \A j \in 1 .. Len(r.q) - (expired + 2) + 1 : q[j] = r.q[expired + 2 + j - 1]
    <3>1. \A j \in expired + 2 .. Len(r.q) : r.q[j] \in ReqInfo
      BY <1>3, <2>1
    <3>2. expired + 2 \in Int /\ Len(r.q) \in Int
      BY <1>3
    <3>3. QED
      BY <3>1, <3>2, SubSeqProperties
  <2>4. DOMAIN q = 1..Len(q)
    BY <2>3, LenProperties
  <2>5. \A j \in DOMAIN q : q[j] \in EntryRequests(r)
    <3>1. SUFFICES ASSUME NEW j \in DOMAIN q PROVE q[j] \in EntryRequests(r)
      OBVIOUS
    <3>2. j \in 1 .. Len(r.q) - (expired + 2) + 1
      BY <1>3, <2>3, <2>4
    <3>3. q[j] = r.q[expired + 2 + j - 1] /\ expired + 2 + j - 1 \in DOMAIN r.q
      BY <1>3, <2>3, <3>2
    <3>4. QED
      BY <3>3 DEF EntryRequests
  <2> HIDE DEF q
  <2>6. s = [r EXCEPT !.conv = r.q[expired + 1], !.q = q]
    BY <1>6 DEF ConvertNext, q
  <2>7. /\ s.used = r.used /\ s.owner = r.owner /\ s.mode = r.mode
        /\ s.copies = r.copies /\ s.q = q /\ s.pending = r.pending
        /\ s.conv = r.q[expired + 1]
    BY <1>1, <2>6 DEF BufRes
  <2>8. s \in BufRes
    BY <1>1, <2>2, <2>3, <2>6 DEF BufRes
  <2>9. r.q # <<>>
    BY <1>2, <1>3, <2>1, EmptySeq
  <2>10. EntryOK(s)
    BY <1>1, <2>2, <2>7, <2>9 DEF EntryOK, Converting
  <2>11. EntryRequests(s) \subseteq EntryRequests(r)
    BY <2>2, <2>5, <2>7 DEF EntryRequests
  <2>12. QED
    BY <1>4, <2>7, <2>8, <2>10, <2>11 DEF Entry
<1>7. QED
  BY <1>5, <1>6

(* drc_check_first_req_in_convert_queue. *)
LEMMA DropHeadEntry ==
    ASSUME NEW r, Entry(r), r.q # <<>>
    PROVE  /\ Entry(DropHead(r))
           /\ EntryRequests(DropHead(r)) \subseteq EntryRequests(r)
           /\ Head(r.q) \in ReqInfo /\ Head(r.q) \in EntryRequests(r)
<1> DEFINE s == DropHead(r)
           q == Tail(r.q)
<1>1. r \in BufRes /\ EntryOK(r)
  BY DEF Entry
<1>2. r.q \in Seq(ReqInfo)
  BY <1>1 DEF BufRes
<1>3. Len(r.q) \in Nat \ {0} /\ DOMAIN r.q = 1..Len(r.q)
  BY <1>2, LenProperties, EmptySeq
<1>4. /\ Head(r.q) \in ReqInfo /\ q \in Seq(ReqInfo) /\ Len(q) = Len(r.q) - 1
      /\ \A j \in 1..Len(q) : q[j] = r.q[j + 1]
  BY <1>2, HeadTailProperties
<1>5. Head(r.q) = r.q[1] /\ 1 \in DOMAIN r.q
  BY <1>2, <1>3
<1>6. DOMAIN q = 1..Len(q)
  BY <1>4, LenProperties
<1>7. \A j \in DOMAIN q : j + 1 \in DOMAIN r.q /\ q[j] = r.q[j + 1]
  BY <1>3, <1>4, <1>6
<1> HIDE DEF q
<1>8. s = [r EXCEPT !.q = q]
  BY DEF DropHead, q
<1>9. /\ s.used = r.used /\ s.owner = r.owner /\ s.mode = r.mode
      /\ s.copies = r.copies /\ s.q = q /\ s.pending = r.pending
      /\ s.conv = r.conv
  BY <1>1, <1>8 DEF BufRes
<1>10. s \in BufRes
  BY <1>1, <1>4, <1>8 DEF BufRes
<1>11. r.used
  BY <1>1 DEF EntryOK, NoBufRes
<1>12. EntryOK(s)
  BY <1>1, <1>9, <1>11 DEF EntryOK, Converting
<1>13. EntryRequests(s) \subseteq EntryRequests(r)
  BY <1>7, <1>9 DEF EntryRequests
<1>14. Head(r.q) \in EntryRequests(r)
  BY <1>5 DEF EntryRequests
<1>15. QED
  BY <1>4, <1>10, <1>12, <1>13, <1>14 DEF Entry
=============================================================================

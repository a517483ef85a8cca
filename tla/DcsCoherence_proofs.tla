------------------------ MODULE DcsCoherence_proofs ------------------------
(***************************************************************************)
(* When no wait times out, DcsPage is coherent for any number of           *)
(* instances, of requests, of lock items and of modifications: one writer  *)
(* or many readers, everybody who can use the page sees the last           *)
(* modification, and the master knows them all.                            *)
(*                                                                         *)
(* The invariant follows the one conversion that is under way: its copies  *)
(* are invalidated, its owner is asked, its requester is answered, its     *)
(* claim is on the way; and every request is in one place only.            *)
(***************************************************************************)
EXTENDS DcsPage_proofs

Lk(i) == ctrl[i].lock
Conv == res.conv
Requester == res.conv.inst

(* The answers that end a conversion, and those of a new entry.            *)
Ready == {a \in acks : a.cmd \in {"page_ready", "already_owner"}}
Granted == {a \in acks : a.cmd = "granted"}

(* The request of a session that waits, as it was made: its instance still *)
(* has what it had then.                                                   *)
Current(req) == /\ Waiting(req.inst, req.rsn)
                /\ req.curr = Lk(req.inst)
                /\ req.curr < req.mode
                /\ req.lsn <= latest

(* The owner has the page, or is about to be told that it has.             *)
OwnerHas(o) == \/ Lk(o) # LockNull /\ ~ctrl[o].edp
               \/ Granted # {}
OwnerShares == /\ Requester # res.owner
               /\ Lk(res.owner) = LockShare /\ ~ctrl[res.owner].edp
               /\ \A i \in Inst : Lk(i) # LockExclusive
NobodyBut(S) == \A i \in Inst \ S : Lk(i) = LockNull

-----------------------------------------------------------------------------
(* The stages of the conversion.                                           *)

Resting ==
    /\ ~Converting(res) /\ ~res.pending
    /\ tasks = {} /\ asko = {} /\ Ready = {} /\ claims = {}
    /\ res.used => OwnerHas(res.owner)

Invalidating ==
    /\ Converting(res) /\ Current(Conv)
    /\ asko = {} /\ Ready = {} /\ claims = {}
    /\ OwnerHas(res.owner)
    /\ Conv.mode = LockExclusive
    /\ \E t \in tasks :
          /\ tasks = {t}
          /\ t.kind \in {"req", "cvt"} /\ t.req = Conv /\ t.owner = res.owner
          /\ ~t.retry /\ ~t.fail
          /\ t.todo \cap {res.owner, Requester} = {}
          /\ NobodyBut(t.todo \cup {res.owner, Requester})

Asking ==
    /\ Converting(res) /\ Current(Conv)
    /\ tasks = {} /\ Ready = {} /\ claims = {}
    /\ OwnerHas(res.owner)
    /\ Requester # res.owner
    /\ asko = {[dst |-> res.owner, req |-> Conv, retry |-> FALSE]}
    /\ Conv.mode = LockExclusive => NobodyBut({res.owner, Requester})

(* What an answer brings.                                                  *)
Brings(a) ==
    /\ a.dst = Requester /\ a.rsn = Conv.rsn /\ a.mode = Conv.mode
    /\ "need_load" \notin a.flags
    /\ "dirty" \in a.flags => latest > 0
    /\ a.cmd = "page_ready" =>
          /\ "readonly2x" \in a.flags => Lk(Requester) = LockShare
          /\ "readonly2x" \notin a.flags => a.lsn = latest
    /\ a.cmd = "already_owner" =>
          /\ Conv.mode = LockExclusive /\ a.flags = {}
          /\ Lk(Requester) = LockShare /\ ~ctrl[Requester].edp

Answering ==
    /\ Converting(res) /\ Current(Conv)
    /\ tasks = {} /\ asko = {} /\ claims = {} /\ Granted = {}
    /\ \E a \in acks : Ready = {a} /\ Brings(a)
    /\ Conv.mode = LockExclusive => NobodyBut({Requester})
    /\ Conv.mode = LockShare => OwnerShares

Claiming ==
    /\ Converting(res)
    /\ tasks = {} /\ asko = {} /\ Ready = {} /\ Granted = {}
    /\ \E c \in claims : /\ claims = {c}
                         /\ c.inst = Requester /\ c.mode = Conv.mode
                         /\ c.edp => c.lsn > 0
                         /\ c.lsn > 0 => c.lsn >= res.lsn
                         /\ c.lsn <= latest
    /\ Lk(Requester) = Conv.mode
    /\ Conv.mode = LockExclusive => NobodyBut({Requester}) /\ ~ctrl[Requester].edp
    /\ Conv.mode = LockShare => OwnerShares

(* The master recycles the entry: the copies go first, then the owner,     *)
(* which may refuse; once it has given the page up it is on disk.          *)
RecyclesWith(t) ==
    /\ t.kind = "recycle"
    /\ t.todo \subseteq res.copies
    /\ NobodyBut(t.todo \cup {res.owner})
    /\ t.fail => t.todo = {} /\ t.owner = res.owner
    /\ \/ t.owner = res.owner /\ OwnerHas(res.owner)
       \/ /\ t.owner = NoInst /\ t.todo = {}
          /\ NobodyBut({}) /\ Granted = {} /\ disk = latest
Recycling ==
    /\ ~Converting(res) /\ res.pending /\ res.used
    /\ asko = {} /\ Ready = {} /\ claims = {}
    /\ \E t \in tasks : tasks = {t} /\ RecyclesWith(t)

Stage == Resting \/ Invalidating \/ Asking \/ Answering \/ Claiming \/ Recycling

-----------------------------------------------------------------------------
(* The request of an instance is in one place.                             *)
Asked == {req.inst : req \in askm}
Queued == {res.q[k].inst : k \in DOMAIN res.q}
Awaited == {a.dst : a \in acks}
Worked == IF tasks # {} \/ asko # {} THEN {Requester} ELSE {}

OnePlace ==
    /\ Asked \cap (Queued \cup Awaited \cup Worked) = {}
    /\ Queued \cap (Awaited \cup Worked) = {}
    /\ Awaited \cap Worked = {}
    /\ \A r1, r2 \in askm : r1.inst = r2.inst => r1 = r2
    /\ \A a, b \in acks : a.dst = b.dst => a = b
    /\ \A k, l \in DOMAIN res.q : res.q[k].inst = res.q[l].inst => k = l
    /\ \A req \in askm : Current(req)
    /\ \A k \in DOMAIN res.q : Current(res.q[k]) /\ res.q[k].inst # res.owner

(* What an instance has in memory.                                         *)
Data ==
    /\ res.lsn <= latest /\ disk <= latest
    /\ \A i \in Inst :
          /\ ctrl[i].lsn <= latest
          /\ ctrl[i].dirty => latest > 0
          /\ Lk(i) # LockNull =>
                \/ ctrl[i].load = "loaded" /\ ctrl[i].lsn = latest
                \/ /\ ctrl[i].load = "need" /\ sess[i].st = "held"
                   /\ Lk(i) = LockExclusive /\ disk = latest

(* Who has the page.                                                       *)
Locks ==
    /\ SingleWriter /\ HoldersKnown
    /\ \A i \in Inst : Lk(i) = LockExclusive => i = res.owner \/ claims # {}
    /\ \A a \in Granted : a.dst = res.owner /\ NobodyBut({}) /\ disk = latest
    /\ ~res.used => disk = latest /\ \A a \in acks : a.cmd = "error"

CInv == /\ timeouts = 0
        /\ Stage /\ OnePlace /\ Data /\ Locks

-----------------------------------------------------------------------------
(* What both invariants say of the state.                                  *)

LEMMA Modes == LockNull = 0 /\ LockShare = 1 /\ LockExclusive = 2
BY DEF LockNull, LockShare, LockExclusive

LEMMA Shapes ==
    ASSUME IInv
    PROVE  /\ res \in BufRes /\ EntryOK(res) /\ res.owner \in Inst \cup {NoInst}
           /\ res.copies \subseteq Inst /\ res.lsn \in Nat /\ NoInst \notin Inst
           /\ ctrl \in [Inst -> BufCtrl] /\ sess \in [Inst -> Session]
           /\ \A i \in Inst : /\ ctrl[i] \in BufCtrl /\ Lk(i) \in LockMode /\ ctrl[i].lsn \in Nat
                              /\ sess[i] \in Session
           /\ \A req \in askm : req \in ReqInfo /\ req.inst \in Inst
           /\ \A k \in DOMAIN res.q : res.q[k] \in ReqInfo /\ res.q[k].inst \in Inst
           /\ Converting(res) => /\ Conv \in ReqInfo /\ Requester \in Inst /\ res.used /\ res.owner \in Inst
           /\ \A a \in acks : /\ a \in Ack /\ a.dst \in Inst /\ Waiting(a.dst, a.rsn)
           /\ latest \in Nat /\ disk \in Nat /\ timeouts \in Nat
<1>1. Entry(res) /\ NoInst \notin Inst
  BY HandlerFinds, NoInstAssumption
<1>2. \A k \in DOMAIN res.q : res.q[k] \in ReqInfo
  BY RequestsType DEF Requests, EntryRequests
<1>3. \A req \in ReqInfo : req.inst \in Inst
  BY DEF ReqInfo
<1>4. Converting(res) => /\ Conv \in ReqInfo /\ Requester \in Inst /\ res.used /\ res.owner \in Inst
  <2> SUFFICES ASSUME Converting(res) PROVE /\ Conv \in ReqInfo /\ Requester \in Inst /\ res.used /\ res.owner \in Inst
    OBVIOUS
  <2>1. Conv \in ReqInfo /\ Requester \in Inst
    BY <1>1, <1>3 DEF Entry, EntryOK, Conv, Requester
  <2>2. res.used
    BY <1>1 DEF Entry, EntryOK, NoBufRes, NoReq, Converting
  <2>3. QED
    BY <1>1, <2>1, <2>2 DEF Entry, EntryOK
<1>5. res \in BufRes /\ res.owner \in Inst \cup {NoInst} /\ res.copies \subseteq Inst /\ res.lsn \in Nat
  BY <1>1 DEF Entry, BufRes
<1>6. \A a \in acks : /\ a \in Ack /\ a.dst \in Inst /\ Waiting(a.dst, a.rsn)
  BY DEF IInv, TypeOK, Ack, AckMsg, AnswersCover
<1>7. /\ ctrl \in [Inst -> BufCtrl] /\ sess \in [Inst -> Session]
      /\ \A i \in Inst : /\ ctrl[i] \in BufCtrl /\ Lk(i) \in LockMode /\ ctrl[i].lsn \in Nat
                         /\ sess[i] \in Session
  BY DEF IInv, TypeOK, BufCtrl, Lk
<1>8. QED
  BY <1>1, <1>2, <1>3, <1>4, <1>5, <1>6, <1>7 DEF IInv, TypeOK, Entry

(* A request remains current while its instance waits and keeps its lock.  *)
LEMMA CurrentStays ==
    ASSUME NEW req \in ReqInfo, Current(req), sess'[req.inst] = sess[req.inst],
           ctrl'[req.inst].lock = ctrl[req.inst].lock,
           latest \in Nat, latest' \in Nat, latest <= latest'
    PROVE  Current(req)'
<1>1. req.lsn \in Nat
  BY DEF ReqInfo
<1>2. req.lsn <= latest'
  BY <1>1 DEF Current
<1>3. QED
  BY <1>2 DEF Current, Waiting, Lk

(* An instance that does not wait has no request anywhere.                 *)
LEMMA NoPlace ==
    ASSUME IInv, CInv, NEW i \in Inst, sess[i].st # "wait"
    PROVE  /\ i \notin Asked /\ i \notin Queued /\ i \notin Awaited /\ i \notin Worked
           /\ Invalidating \/ Asking \/ Answering => Requester # i
           /\ \A a \in acks : a.dst # i
<1>1. \A req \in askm : Waiting(req.inst, req.rsn)
  BY DEF CInv, OnePlace, Current
<1>2. \A k \in DOMAIN res.q : Waiting(res.q[k].inst, res.q[k].rsn)
  BY DEF CInv, OnePlace, Current
<1>3. \A a \in acks : Waiting(a.dst, a.rsn)
  BY Shapes
<1>4. Invalidating \/ Asking \/ Answering => Requester # i
  BY DEF Invalidating, Asking, Answering, Current, Waiting, Conv, Requester
<1>5. Worked # {} => Invalidating \/ Asking \/ Requester = NoInst
  BY DEF CInv, Stage, Resting, Answering, Claiming, Recycling, Worked, Converting, Requester
<1>6. i \notin Worked
  BY <1>4, <1>5, NoInstAssumption DEF Worked
<1>7. QED
  BY <1>1, <1>2, <1>3, <1>4, <1>6 DEF Asked, Queued, Awaited, Waiting

(* The stage stays when no lock changes, nobody becomes an edp and the     *)
(* conversion goes on.                                                     *)
LEMMA StageStays ==
    ASSUME IInv, Stage, UNCHANGED <<asko, tasks, claims>>, Ready' = Ready, Granted' = Granted,
           /\ res'.conv = res.conv /\ res'.owner = res.owner /\ res'.copies = res.copies
           /\ res'.used = res.used /\ res'.lsn = res.lsn /\ res'.pending = res.pending,
           latest' \in Nat, latest <= latest', Answering => latest' = latest,
           disk = latest /\ NobodyBut({}) => disk' = latest',
           \A i \in Inst : ctrl'[i].lock = ctrl[i].lock /\ (ctrl'[i].edp => ctrl[i].edp),
           Invalidating \/ Asking \/ Answering => sess'[Requester] = sess[Requester]
    PROVE  Stage'
<1>1. /\ \A i \in Inst : Lk(i)' = Lk(i)
      /\ Conv' = Conv /\ Requester' = Requester
      /\ Converting(res)' <=> Converting(res)
  BY DEF Lk, Conv, Requester, Converting
<1>2. /\ res.used => res.owner \in Inst
      /\ Converting(res) => /\ res.owner \in Inst /\ Requester \in Inst /\ Conv \in ReqInfo
                            /\ Requester = Conv.inst
      /\ latest \in Nat /\ \A c \in claims : c.lsn \in Nat
  BY Shapes DEF EntryOK, Requester, Conv, IInv, TypeOK, ClaimInfo
<1>3. \A o \in Inst : OwnerHas(o) => OwnerHas(o)'
  BY <1>1 DEF OwnerHas
<1>4. ASSUME NEW S PROVE NobodyBut(S)' <=> NobodyBut(S)
  BY <1>1 DEF NobodyBut
<1>5. Invalidating \/ Asking \/ Answering => Current(Conv)'
  <2> SUFFICES ASSUME Invalidating \/ Asking \/ Answering PROVE Current(Conv)'
    OBVIOUS
  <2>1. Converting(res) /\ Current(Conv)
    BY DEF Invalidating, Asking, Answering
  <2>2. Conv.lsn \in Nat
    BY <1>2, <2>1 DEF ReqInfo
  <2>3. Conv.lsn <= latest'
    BY <1>2, <2>1, <2>2 DEF Current
  <2>4. QED
    BY <1>1, <1>2, <2>1, <2>3 DEF Current, Waiting
<1>6. Converting(res) => (OwnerShares => OwnerShares')
  BY <1>1, <1>2 DEF OwnerShares
<1>7. CASE Resting
  BY <1>1, <1>2, <1>3, <1>7 DEF Resting, Stage
<1>8. CASE Invalidating
  <2>1. PICK t \in tasks : /\ tasks = {t}
                           /\ t.kind \in {"req", "cvt"} /\ t.req = Conv /\ t.owner = res.owner
                           /\ ~t.retry /\ ~t.fail
                           /\ t.todo \cap {res.owner, Requester} = {}
                           /\ NobodyBut(t.todo \cup {res.owner, Requester})
    BY <1>8 DEF Invalidating
  <2>2. NobodyBut(t.todo \cup {res.owner, Requester})'
    BY <1>1, <2>1 DEF NobodyBut
  <2>3. Invalidating'
    BY <1>1, <1>2, <1>3, <1>5, <1>8, <2>1, <2>2 DEF Invalidating
  <2>4. QED
    BY <2>3 DEF Stage
<1>9. CASE Asking
  <2>1. NobodyBut({res.owner, Requester})' <=> NobodyBut({res.owner, Requester})
    BY <1>1 DEF NobodyBut
  <2>2. Asking'
    BY <1>1, <1>2, <1>3, <1>5, <1>9, <2>1 DEF Asking
  <2>3. QED
    BY <2>2 DEF Stage
<1>10. CASE Answering
  <2>1. PICK a \in acks : Ready = {a} /\ Brings(a)
    BY <1>10 DEF Answering
  <2>2. a \in acks' /\ Ready' = {a}
    BY <2>1 DEF Ready
  <2>3. Converting(res) /\ Requester \in Inst
    BY <1>2, <1>10 DEF Answering
  <2>4. Brings(a)'
    BY <1>1, <1>10, <2>1, <2>3 DEF Brings
  <2>5. NobodyBut({Requester})' <=> NobodyBut({Requester})
    BY <1>1 DEF NobodyBut
  <2>6. Answering'
    BY <1>1, <1>2, <1>5, <1>6, <1>10, <2>2, <2>4, <2>5 DEF Answering
  <2>7. QED
    BY <2>6 DEF Stage
<1>11. CASE Claiming
  <2>1. NobodyBut({Requester})' <=> NobodyBut({Requester})
    BY <1>1 DEF NobodyBut
  <2>2. PICK c \in claims : /\ claims = {c}
                            /\ c.inst = Requester /\ c.mode = Conv.mode
                            /\ c.edp => c.lsn > 0
                            /\ c.lsn > 0 => c.lsn >= res.lsn
                            /\ c.lsn <= latest
    BY <1>11 DEF Claiming
  <2>3. c.lsn <= latest'
    BY <1>2, <2>2
  <2>4. Claiming'
    BY <1>1, <1>2, <1>6, <1>11, <2>1, <2>2, <2>3 DEF Claiming
  <2>5. QED
    BY <2>4 DEF Stage
<1>12. CASE Recycling
  <2>1. PICK t \in tasks : tasks = {t} /\ RecyclesWith(t)
    BY <1>12 DEF Recycling
  <2>2. NobodyBut(t.todo \cup {res.owner})' /\ (NobodyBut({}) => NobodyBut({})')
    BY <1>1, <2>1 DEF NobodyBut, RecyclesWith
  <2>3. OwnerHas(res.owner) => OwnerHas(res.owner)'
    BY <1>1, <1>2, <1>12 DEF OwnerHas, Recycling
  <2>4. RecyclesWith(t)'
    BY <2>1, <2>2, <2>3 DEF RecyclesWith
  <2>5. Recycling'
    BY <1>1, <1>12, <2>1, <2>4 DEF Recycling
  <2>6. QED
    BY <2>5 DEF Stage
<1>13. QED
  BY <1>7, <1>8, <1>9, <1>10, <1>11, <1>12 DEF Stage

(* Nobody gets a lock, nobody is forgotten.                                *)
LEMMA LocksStay ==
    ASSUME IInv, Locks, UNCHANGED <<claims, latest, disk>>, Granted' \subseteq Granted,
           /\ res'.conv = res.conv /\ res'.owner = res.owner
           /\ res'.used = res.used /\ res'.copies = res.copies,
           acks' \subseteq acks \/ res.used,
           \A i \in Inst : ctrl'[i].lock \in {ctrl[i].lock, LockNull}
    PROVE  Locks'
<1>1. SingleWriter' /\ HoldersKnown'
  BY Modes DEF Locks, SingleWriter, HoldersKnown
<1>2. \A i \in Inst : Lk(i)' = LockExclusive => i = res'.owner \/ claims' # {}
  BY Modes DEF Locks, Lk
<1>3. NobodyBut({}) => NobodyBut({})'
  BY DEF NobodyBut, Lk
<1>4. \A a \in Granted' : a.dst = res'.owner /\ NobodyBut({})' /\ disk' = latest'
  BY <1>3 DEF Locks
<1>5. ~res'.used => disk' = latest' /\ \A a \in acks' : a.cmd = "error"
  BY DEF Locks
<1>6. QED
  BY <1>1, <1>2, <1>4, <1>5 DEF Locks

(* Every request stays in its place when the requests, the queue and the   *)
(* conversion stay, and no waiting instance changes.                       *)
LEMMA PlacesStay ==
    ASSUME IInv, OnePlace, Worked' = Worked, askm' \subseteq askm, acks' \subseteq acks,
           res'.q = res.q /\ res'.owner = res.owner,
           latest' \in Nat, latest <= latest',
           \A j \in Asked' \cup Queued : sess'[j] = sess[j] /\ ctrl'[j].lock = ctrl[j].lock
    PROVE  OnePlace'
<1>1. /\ latest \in Nat
      /\ \A req \in askm : req \in ReqInfo
      /\ \A k \in DOMAIN res.q : res.q[k] \in ReqInfo
  BY Shapes
<1>2. \A req \in askm' : req \in askm /\ req.inst \in Asked'
  BY DEF Asked
<1>3. \A req \in askm' : Current(req)'
  BY <1>1, <1>2, CurrentStays DEF OnePlace
<1>4. ASSUME NEW k \in DOMAIN res.q PROVE Current(res.q[k])'
  <2>1. PICK req \in ReqInfo : req = res.q[k]
    BY <1>1
  <2>2. req.inst \in Queued /\ Current(req)
    BY <2>1 DEF Queued, OnePlace
  <2>3. Current(req)'
    BY <1>1, <2>2, CurrentStays
  <2>4. QED
    BY <2>1, <2>3
<1>5. /\ Asked' \subseteq Asked /\ Queued' = Queued /\ Awaited' \subseteq Awaited /\ Worked' = Worked
  BY DEF Asked, Queued, Awaited
<1>6. /\ Asked' \cap (Queued' \cup Awaited' \cup Worked') = {}
      /\ Queued' \cap (Awaited' \cup Worked') = {}
      /\ Awaited' \cap Worked' = {}
  BY <1>5 DEF OnePlace
<1>7. /\ \A r1, r2 \in askm' : r1.inst = r2.inst => r1 = r2
      /\ \A a, b \in acks' : a.dst = b.dst => a = b
      /\ \A k, l \in DOMAIN res'.q : res'.q[k].inst = res'.q[l].inst => k = l
  BY DEF OnePlace
<1>8. \A k \in DOMAIN res'.q : Current(res.q[k])' /\ res'.q[k].inst # res'.owner
  BY <1>4 DEF OnePlace
<1>9. QED
  BY <1>3, <1>6, <1>7, <1>8 DEF OnePlace

LEMMA InitCInv == Init => CInv
<1> SUFFICES ASSUME Init PROVE CInv
  OBVIOUS
<1>1. /\ res.q = <<>> /\ ~res.used /\ ~res.pending /\ res.lsn = 0 /\ ~Converting(res)
      /\ DOMAIN res.q = {}
  BY EmptySeq DEF Init, NoBufRes, Converting, NoReq
<1>2. \A i \in Inst : Lk(i) = LockNull /\ ctrl[i].lsn = 0 /\ ~ctrl[i].dirty
  BY DEF Init, NoCtrl, Lk
<1>3. Ready = {} /\ Granted = {} /\ Asked = {} /\ Queued = {} /\ Awaited = {} /\ Worked = {}
  BY <1>1 DEF Init, Ready, Granted, Asked, Queued, Awaited, Worked
<1>4. Stage
  BY <1>1, <1>3 DEF Init, Stage, Resting
<1>5. OnePlace
  BY <1>1, <1>3 DEF Init, OnePlace
<1>6. Data
  BY <1>1, <1>2 DEF Init, Data
<1>7. Locks
  BY <1>1, <1>2, <1>3, Modes DEF Init, Locks, SingleWriter, HoldersKnown, Lk
<1>8. QED
  BY <1>1, <1>4, <1>5, <1>6, <1>7 DEF Init, CInv

-----------------------------------------------------------------------------
(* The steps of a session.                                                 *)

(* dtc_read_page asks the master.                                          *)
LEMMA RequestPageStep ==
    ASSUME IInv, CInv, NEW i \in Inst, NEW mode \in {LockShare, LockExclusive}, RequestPage(i, mode)
    PROVE  CInv'
<1>1. /\ UNCHANGED <<res, asko, acks, claims, tasks, timeouts, latest, disk>>
      /\ sess[i].st = "idle" /\ ctrl[i].lock < mode
      /\ sess' = [sess EXCEPT ![i] = [st |-> "wait", mode |-> mode, rsn |-> clock + 1]]
      /\ ctrl' = [ctrl EXCEPT ![i].load = IF ctrl[i].load = "loaded" THEN ctrl[i].load ELSE "need"]
  BY DEF RequestPage
<1>2. /\ ctrl \in [Inst -> BufCtrl] /\ sess \in [Inst -> Session] /\ latest \in Nat
      /\ \A j \in Inst : ctrl[j] \in BufCtrl /\ ctrl[j].lsn \in Nat
      /\ \A req \in askm : req \in ReqInfo /\ req.inst \in Inst
      /\ \A k \in DOMAIN res.q : res.q[k] \in ReqInfo /\ res.q[k].inst \in Inst
      /\ Converting(res) => Requester \in Inst
  BY Shapes
<1>3. /\ \A j \in Inst : /\ ctrl'[j].lock = ctrl[j].lock /\ ctrl'[j].edp = ctrl[j].edp
                         /\ ctrl'[j].lsn = ctrl[j].lsn /\ ctrl'[j].dirty = ctrl[j].dirty
      /\ \A j \in Inst \ {i} : ctrl'[j] = ctrl[j] /\ sess'[j] = sess[j]
      /\ ctrl'[i].load = IF ctrl[i].load = "loaded" THEN "loaded" ELSE "need"
      /\ sess'[i].st = "wait" /\ sess'[i].rsn = clock + 1
  BY <1>1, <1>2 DEF BufCtrl
<1>4. /\ i \notin Asked /\ i \notin Queued /\ i \notin Awaited /\ i \notin Worked
      /\ Invalidating \/ Asking \/ Answering => Requester # i
  BY <1>1, NoPlace
<1>5. Stage'
  <2>1. Ready' = Ready /\ Granted' = Granted
    BY <1>1 DEF Ready, Granted
  <2>2. Invalidating \/ Asking \/ Answering => sess'[Requester] = sess[Requester]
    BY <1>2, <1>3, <1>4 DEF Invalidating, Asking, Answering
  <2>3. QED
    BY <1>1, <1>2, <1>3, <2>1, <2>2, StageStays DEF CInv
<1>6. Locks'
  <2>1. Granted' = Granted
    BY <1>1 DEF Granted
  <2>2. QED
    BY <1>1, <1>3, <2>1, LocksStay DEF CInv
<1>7. Data'
  <2>1. ASSUME NEW j \in Inst, Lk(j) # LockNull PROVE ctrl'[j] = ctrl[j] /\ (ctrl[j].load = "loaded" \/ sess'[j] = sess[j])
    <3>1. CASE j = i
      <4>1. ctrl[i].load = "loaded"
        BY <1>1, <2>1, <3>1 DEF CInv, Data
      <4>2. QED
        BY <1>1, <1>2, <3>1, <4>1 DEF BufCtrl
    <3>2. CASE j # i
      BY <1>3, <3>2
    <3>3. QED
      BY <3>1, <3>2
  <2>2. \A j \in Inst : Lk(j)' = Lk(j)
    BY <1>3 DEF Lk
  <2>3. QED
    BY <1>1, <1>3, <2>1, <2>2 DEF CInv, Data
<1>8. OnePlace'
  <2>0. PICK new : new = [inst |-> i, mode |-> mode, curr |-> ctrl[i].lock, rsn |-> clock + 1,
                          lsn |-> ctrl[i].lsn]
    OBVIOUS
  <2>1. /\ askm' = askm \cup {new} /\ new.inst = i /\ new.mode = mode
        /\ new.curr = ctrl[i].lock /\ new.rsn = clock + 1 /\ new.lsn = ctrl[i].lsn
    BY <2>0 DEF RequestPage
  <2>2. Current(new)'
    BY <1>1, <1>2, <1>3, <2>1 DEF Current, Waiting, Lk, CInv, Data
  <2>3. \A req \in askm : req.inst # i
    BY <1>4 DEF Asked
  <2>4. \A req \in askm : Current(req)'
    BY <1>1, <1>2, <1>3, <2>3, CurrentStays DEF CInv, OnePlace
  <2>5. ASSUME NEW k \in DOMAIN res.q PROVE Current(res.q[k])'
    <3>1. PICK req \in ReqInfo : req = res.q[k]
      BY <1>2
    <3>2. req.inst # i /\ req.inst \in Inst /\ Current(req)
      BY <1>2, <1>4, <3>1 DEF Queued, CInv, OnePlace
    <3>3. Current(req)'
      BY <1>1, <1>2, <1>3, <3>2, CurrentStays
    <3>4. QED
      BY <1>1, <3>1, <3>3
  <2>6. /\ Asked' = Asked \cup {i} /\ Queued' = Queued /\ Awaited' = Awaited /\ Worked' = Worked
    BY <1>1, <2>1 DEF Asked, Queued, Awaited, Worked, Requester
  <2>7. \A r1, r2 \in askm' : r1.inst = r2.inst => r1 = r2
    BY <2>1, <2>3 DEF CInv, OnePlace
  <2>8. \A req \in askm' : Current(req)'
    BY <2>1, <2>2, <2>4
  <2>9. QED
    BY <1>1, <1>4, <2>5, <2>6, <2>7, <2>8 DEF CInv, OnePlace
<1>9. QED
  BY <1>1, <1>5, <1>6, <1>7, <1>8 DEF CInv

(* dtc_buf_finish loads what no instance sent.                             *)
LEMMA FinishStep ==
    ASSUME IInv, CInv, NEW i \in Inst, Finish(i)
    PROVE  CInv'
<1>1. /\ UNCHANGED <<res, askm, asko, acks, claims, tasks, timeouts, latest, disk>>
      /\ sess[i].st = "held" /\ sess' = [sess EXCEPT ![i] = Idle]
      /\ ctrl' = [ctrl EXCEPT ![i].lsn = IF ctrl[i].load = "need" THEN disk ELSE ctrl[i].lsn,
                              ![i].load = "loaded"]
  BY DEF Finish
<1>2. /\ ctrl \in [Inst -> BufCtrl] /\ sess \in [Inst -> Session] /\ latest \in Nat /\ disk \in Nat
      /\ \A j \in Inst : ctrl[j] \in BufCtrl /\ ctrl[j].lsn \in Nat
      /\ \A req \in askm : req \in ReqInfo /\ req.inst \in Inst
      /\ \A k \in DOMAIN res.q : res.q[k] \in ReqInfo /\ res.q[k].inst \in Inst
      /\ Converting(res) => Requester \in Inst
  BY Shapes
<1>3. /\ \A j \in Inst : /\ ctrl'[j].lock = ctrl[j].lock /\ ctrl'[j].edp = ctrl[j].edp
                         /\ ctrl'[j].dirty = ctrl[j].dirty
      /\ \A j \in Inst \ {i} : ctrl'[j] = ctrl[j] /\ sess'[j] = sess[j]
      /\ ctrl'[i].load = "loaded"
      /\ ctrl'[i].lsn = IF ctrl[i].load = "need" THEN disk ELSE ctrl[i].lsn
  BY <1>1, <1>2 DEF BufCtrl
<1>4. /\ i \notin Asked /\ i \notin Queued /\ i \notin Awaited /\ i \notin Worked
      /\ Invalidating \/ Asking \/ Answering => Requester # i
  BY <1>1, NoPlace
<1>5. Stage'
  <2>1. Ready' = Ready /\ Granted' = Granted
    BY <1>1 DEF Ready, Granted
  <2>2. Invalidating \/ Asking \/ Answering => sess'[Requester] = sess[Requester]
    BY <1>2, <1>3, <1>4 DEF Invalidating, Asking, Answering
  <2>3. QED
    BY <1>1, <1>2, <1>3, <2>1, <2>2, StageStays DEF CInv
<1>6. Locks'
  <2>1. Granted' = Granted
    BY <1>1 DEF Granted
  <2>2. QED
    BY <1>1, <1>3, <2>1, LocksStay DEF CInv
<1>7. OnePlace'
  <2>0. Worked' = Worked
    BY <1>1 DEF Worked, Requester
  <2>1. \A j \in Asked' \cup Queued : j \in Inst /\ j # i
    BY <1>1, <1>2, <1>4 DEF Asked, Queued
  <2>2. QED
    BY <1>1, <1>2, <1>3, <2>0, <2>1, PlacesStay DEF CInv
<1>8. Data'
  <2>1. \A j \in Inst : Lk(j)' = Lk(j)
    BY <1>3 DEF Lk
  <2>2. disk <= latest
    BY DEF CInv, Data
  <2>3. ASSUME NEW j \in Inst
        PROVE  /\ ctrl'[j].lsn <= latest /\ (ctrl'[j].dirty => latest > 0)
               /\ Lk(j) # LockNull =>
                     \/ ctrl'[j].load = "loaded" /\ ctrl'[j].lsn = latest
                     \/ /\ ctrl'[j].load = "need" /\ sess'[j].st = "held"
                        /\ Lk(j) = LockExclusive /\ disk = latest
    <3>1. CASE j = i
      BY <1>2, <1>3, <2>2, <3>1 DEF CInv, Data
    <3>2. CASE j # i
      BY <1>3, <3>2 DEF CInv, Data
    <3>3. QED
      BY <3>1, <3>2
  <2>4. QED
    BY <1>1, <2>1, <2>3 DEF CInv, Data
<1>9. QED
  BY <1>1, <1>5, <1>6, <1>7, <1>8 DEF CInv

(* A session changes the page: nobody else has it.                         *)
LEMMA ModifyStep ==
    ASSUME IInv, CInv, NEW i \in Inst, Modify(i)
    PROVE  CInv'
<1>1. /\ UNCHANGED <<res, sess, askm, asko, acks, claims, tasks, timeouts, disk>>
      /\ sess[i].st = "idle" /\ ctrl[i].lock = LockExclusive /\ latest' = latest + 1
      /\ ctrl' = [ctrl EXCEPT ![i].dirty = TRUE, ![i].lsn = latest + 1]
  BY DEF Modify
<1>2. /\ ctrl \in [Inst -> BufCtrl] /\ latest \in Nat /\ disk \in Nat /\ res.lsn \in Nat
      /\ \A j \in Inst : ctrl[j] \in BufCtrl /\ ctrl[j].lsn \in Nat
      /\ \A req \in askm : req \in ReqInfo /\ req.inst \in Inst
      /\ \A k \in DOMAIN res.q : res.q[k] \in ReqInfo /\ res.q[k].inst \in Inst
      /\ Converting(res) => Requester \in Inst /\ Conv \in ReqInfo
  BY Shapes
<1>3. /\ \A j \in Inst : ctrl'[j].lock = ctrl[j].lock /\ ctrl'[j].edp = ctrl[j].edp
      /\ \A j \in Inst \ {i} : ctrl'[j] = ctrl[j]
      /\ ctrl'[i].load = ctrl[i].load /\ ctrl'[i].lsn = latest + 1 /\ ctrl'[i].dirty = TRUE
  BY <1>1, <1>2 DEF BufCtrl
<1>4. /\ i \notin Asked /\ i \notin Queued /\ i \notin Awaited /\ i \notin Worked
      /\ Invalidating \/ Asking \/ Answering => Requester # i
  BY <1>1, NoPlace
<1>5. \A j \in Inst \ {i} : Lk(j) = LockNull
  BY <1>1 DEF CInv, Locks, SingleWriter, Lk
<1>6. ~Answering
  <2> SUFFICES ASSUME Answering PROVE FALSE
    OBVIOUS
  <2>1. Conv.mode = LockShare \/ Conv.mode = LockExclusive
    BY <1>2 DEF Answering, ReqInfo
  <2>2. CASE Conv.mode = LockShare
    BY <1>1, <2>2 DEF Answering, OwnerShares, Lk
  <2>3. CASE Conv.mode = LockExclusive
    BY <1>1, <1>4, <2>3, Modes DEF Answering, NobodyBut, Lk
  <2>4. QED
    BY <2>1, <2>2, <2>3
<1>7. latest' \in Nat /\ latest <= latest' /\ latest' > 0
  BY <1>1, <1>2
<1>8. Ready' = Ready /\ Granted' = Granted
  BY <1>1 DEF Ready, Granted
<1>9. Stage'
  <2>1. ~NobodyBut({})
    BY <1>1, Modes DEF NobodyBut, Lk
  <2>2. QED
    BY <1>1, <1>3, <1>6, <1>7, <1>8, <2>1, StageStays DEF CInv
<1>10. OnePlace'
  <2>1. Worked' = Worked
    BY <1>1 DEF Worked, Requester
  <2>2. \A j \in Asked' \cup Queued : j \in Inst
    BY <1>1, <1>2 DEF Asked, Queued
  <2>3. QED
    BY <1>1, <1>3, <1>7, <2>1, <2>2, PlacesStay DEF CInv
<1>11. Data'
  <2>1. \A j \in Inst : Lk(j)' = Lk(j)
    BY <1>3 DEF Lk
  <2>2. ctrl[i].load = "loaded"
    BY <1>1, Modes DEF CInv, Data, Lk
  <2>3. res'.lsn <= latest' /\ disk' <= latest'
    BY <1>1, <1>2 DEF CInv, Data
  <2>4. ASSUME NEW j \in Inst
        PROVE  /\ ctrl'[j].lsn <= latest' /\ (ctrl'[j].dirty => latest' > 0)
               /\ Lk(j) # LockNull => ctrl'[j].load = "loaded" /\ ctrl'[j].lsn = latest'
    <3>1. CASE j = i
      BY <1>1, <1>2, <1>3, <1>7, <2>2, <3>1
    <3>2. CASE j # i
      <4>1. ctrl[j].lsn <= latest
        BY DEF CInv, Data
      <4>2. ctrl[j].lsn <= latest'
        BY <1>1, <1>2, <4>1
      <4>3. QED
        BY <1>3, <1>5, <1>7, <3>2, <4>2
    <3>3. QED
      BY <3>1, <3>2
  <2>5. QED
    BY <2>1, <2>3, <2>4 DEF Data
<1>12. Locks'
  <2>1. SingleWriter' /\ HoldersKnown'
    BY <1>1, <1>3 DEF CInv, Locks, SingleWriter, HoldersKnown
  <2>2. \A j \in Inst : Lk(j)' = LockExclusive => j = res'.owner \/ claims' # {}
    BY <1>1, <1>3 DEF CInv, Locks, Lk
  <2>3. Granted' = {}
    BY <1>1, <1>8, Modes DEF CInv, Locks, NobodyBut, Lk
  <2>4. res'.used
    BY <1>1, Modes DEF CInv, Locks, HoldersKnown
  <2>5. QED
    BY <2>1, <2>2, <2>3, <2>4 DEF Locks
<1>13. QED
  BY <1>1, <1>9, <1>10, <1>11, <1>12 DEF CInv

-----------------------------------------------------------------------------
(* The answers.                                                            *)

(* The answer that a session takes is the only one to it.                  *)
LEMMA Taken ==
    ASSUME IInv, CInv, NEW a \in acks, HandleAck(a)
    PROVE  /\ acks' = acks \ {a} /\ a.dst \in Inst /\ a \in Ack
           /\ a.dst \notin Asked /\ a.dst \notin Queued /\ a.dst \notin Worked
           /\ sess[a.dst].st = "wait"
           /\ Worked' = Worked
           /\ UNCHANGED <<res, askm, asko, tasks, timeouts, latest, disk>>
<1>1. /\ UNCHANGED <<res, askm, asko, tasks, timeouts, latest, disk>>
      /\ acks' = {b \in acks : b.dst # a.dst}
  BY DEF HandleAck
<1>2. \A b \in acks : b.dst = a.dst => b = a
  BY DEF CInv, OnePlace
<1>3. a.dst \in Awaited
  BY DEF Awaited
<1>4. a.dst \notin Asked /\ a.dst \notin Queued /\ a.dst \notin Worked
  BY <1>3 DEF CInv, OnePlace
<1>5. a.dst \in Inst /\ a \in Ack /\ sess[a.dst].st = "wait"
  BY Shapes DEF Waiting
<1>6. Worked' = Worked
  BY <1>1 DEF Worked, Requester
<1>7. QED
  BY <1>1, <1>2, <1>4, <1>5, <1>6

(* Every other request stays where it is.                                  *)
LEMMA TakenPlaces ==
    ASSUME IInv, CInv, NEW a \in acks, HandleAck(a),
           \A j \in Inst \ {a.dst} : sess'[j] = sess[j] /\ ctrl'[j] = ctrl[j]
    PROVE  OnePlace'
<1>1. \A j \in Asked' \cup Queued : j \in Inst /\ j # a.dst
  BY Taken, Shapes DEF Asked, Queued
<1>2. latest \in Nat
  BY Shapes
<1>3. /\ askm' \subseteq askm /\ acks' \subseteq acks /\ Worked' = Worked
      /\ res'.q = res.q /\ res'.owner = res.owner /\ latest' = latest
  BY Taken
<1>4. QED
  BY <1>1, <1>2, <1>3, PlacesStay DEF CInv

LEMMA AckErrorStep ==
    ASSUME IInv, CInv, NEW a \in acks, HandleAck(a), AckError(a)
    PROVE  CInv'
<1> DEFINE i == a.dst
<1>1. /\ UNCHANGED <<res, askm, asko, tasks, timeouts, latest, disk, claims>>
      /\ acks' = acks \ {a} /\ i \in Inst /\ sess[i].st = "wait" /\ a.cmd = "error"
      /\ i \notin Asked /\ i \notin Queued /\ i \notin Worked /\ Worked' = Worked
  BY Taken DEF AckError
<1>2. /\ ctrl' = [ctrl EXCEPT ![i].load = IF ctrl[i].load = "loaded" THEN ctrl[i].load ELSE "failed"]
      /\ sess' = [sess EXCEPT ![i] = Idle]
  BY DEF AckError, LeaveFailed
<1>3. /\ ctrl \in [Inst -> BufCtrl] /\ sess \in [Inst -> Session] /\ latest \in Nat
      /\ \A j \in Inst : ctrl[j] \in BufCtrl
      /\ Converting(res) => Requester \in Inst
  BY Shapes
<1>4. /\ \A j \in Inst : /\ ctrl'[j].lock = ctrl[j].lock /\ ctrl'[j].edp = ctrl[j].edp
                         /\ ctrl'[j].dirty = ctrl[j].dirty /\ ctrl'[j].lsn = ctrl[j].lsn
      /\ \A j \in Inst \ {i} : ctrl'[j] = ctrl[j] /\ sess'[j] = sess[j]
      /\ ctrl[i].load = "loaded" => ctrl'[i].load = "loaded"
  BY <1>1, <1>2, <1>3 DEF BufCtrl
<1>5. Ready' = Ready /\ Granted' = Granted
  BY <1>1 DEF Ready, Granted
<1>6. Invalidating \/ Asking \/ Answering => sess'[Requester] = sess[Requester]
  <2>1. Invalidating \/ Asking => Requester \in Worked /\ Converting(res)
    BY DEF Invalidating, Asking, Worked
  <2>2. Answering => Requester # i /\ Converting(res)
    <3> SUFFICES ASSUME Answering PROVE Requester # i
      BY DEF Answering
    <3>1. PICK b \in acks : Ready = {b} /\ Brings(b)
      BY DEF Answering
    <3>2. b \in Ready /\ b.dst = Requester
      BY <3>1 DEF Brings
    <3>3. b # a
      BY <1>1, <3>2 DEF Ready
    <3>4. QED
      BY <3>2, <3>3 DEF CInv, OnePlace
  <2>3. QED
    BY <1>1, <1>3, <1>4, <2>1, <2>2
<1>7. Stage'
  BY <1>1, <1>3, <1>4, <1>5, <1>6, StageStays DEF CInv
<1>8. OnePlace'
  BY <1>4, TakenPlaces
<1>9. Locks'
  BY <1>1, <1>4, <1>5, LocksStay DEF CInv
<1>10. Data'
  <2>1. \A j \in Inst : Lk(j)' = Lk(j)
    BY <1>4 DEF Lk
  <2>2. Lk(i) # LockNull => ctrl[i].load = "loaded"
    BY <1>1 DEF CInv, Data
  <2>3. ASSUME NEW j \in Inst
        PROVE  /\ ctrl'[j].lsn <= latest /\ (ctrl'[j].dirty => latest > 0)
               /\ Lk(j) # LockNull =>
                     \/ ctrl'[j].load = "loaded" /\ ctrl'[j].lsn = latest
                     \/ /\ ctrl'[j].load = "need" /\ sess'[j].st = "held"
                        /\ Lk(j) = LockExclusive /\ disk = latest
    <3>1. CASE j = i
      BY <1>1, <1>4, <2>2, <3>1 DEF CInv, Data
    <3>2. CASE j # i
      BY <1>4, <3>2 DEF CInv, Data
    <3>3. QED
      BY <3>1, <3>2
  <2>4. QED
    BY <1>1, <2>1, <2>3 DEF CInv, Data
<1>11. QED
  BY <1>1, <1>7, <1>8, <1>9, <1>10 DEF CInv

(* The owner of a new entry: nobody has the page, it is loaded from disk.  *)
LEMMA AckGrantedStep ==
    ASSUME IInv, CInv, NEW a \in acks, HandleAck(a), AckGranted(a)
    PROVE  CInv'
<1> DEFINE i == a.dst
<1>1. /\ UNCHANGED <<res, askm, asko, tasks, timeouts, latest, disk, claims>>
      /\ acks' = acks \ {a} /\ i \in Inst /\ sess[i].st = "wait" /\ a.cmd = "granted"
      /\ i \notin Asked /\ i \notin Queued /\ i \notin Worked /\ Worked' = Worked
  BY Taken DEF AckGranted
<1>2. /\ ctrl' = [ctrl EXCEPT ![i] = [CleanCtrlEdp(ctrl[i]) EXCEPT !.load = "need", !.lock = LockExclusive]]
      /\ sess' = [sess EXCEPT ![i].st = "held"]
  BY DEF AckGranted
<1>3. /\ ctrl \in [Inst -> BufCtrl] /\ sess \in [Inst -> Session] /\ latest \in Nat
      /\ \A j \in Inst : ctrl[j] \in BufCtrl /\ ctrl[j].lsn \in Nat
      /\ Converting(res) => Requester \in Inst /\ Conv \in ReqInfo /\ Requester = Conv.inst
      /\ EntryOK(res) /\ NoInst \notin Inst
  BY Shapes DEF Requester, Conv
<1>4. /\ \A j \in Inst \ {i} : ctrl'[j] = ctrl[j] /\ sess'[j] = sess[j]
      /\ ctrl'[i].load = "need" /\ ctrl'[i].lock = LockExclusive /\ ~ctrl'[i].edp
      /\ ctrl'[i].lsn = ctrl[i].lsn /\ (ctrl'[i].dirty => ctrl[i].dirty)
      /\ sess'[i].st = "held"
  BY <1>1, <1>2, <1>3 DEF BufCtrl, CleanCtrlEdp, Session
<1>5. a \in Granted /\ i = res.owner /\ NobodyBut({}) /\ disk = latest
  BY <1>1 DEF Granted, CInv, Locks
<1>6. Granted' = {} /\ Ready' = Ready
  <2>1. \A b \in Granted : b = a
    BY <1>5 DEF CInv, Locks, OnePlace, Granted
  <2>2. QED
    BY <1>1, <2>1 DEF Granted, Ready
<1>7. res.used
  BY <1>1, <1>3, <1>5 DEF EntryOK, NoBufRes
<1>8. \A j \in Inst \ {i} : Lk(j)' = LockNull
  BY <1>4, <1>5 DEF NobodyBut, Lk
<1>9. OwnerHas(res.owner)'
  <2>1. Lk(i)' # LockNull /\ ~ctrl'[i].edp
    BY <1>4, Modes DEF Lk
  <2>2. OwnerHas(i)'
    BY <1>6, <2>1 DEF OwnerHas
  <2>3. QED
    BY <1>1, <1>5, <2>1 DEF OwnerHas, Lk
<1>10. Invalidating \/ Asking => Current(Conv)'
  <2> SUFFICES ASSUME Invalidating \/ Asking PROVE Current(Conv)'
    OBVIOUS
  <2>1. Converting(res) /\ Current(Conv) /\ Requester \in Worked
    BY DEF Invalidating, Asking, Worked
  <2>2. Conv.inst \in Inst \ {i} /\ Conv \in ReqInfo
    BY <1>1, <1>3, <2>1
  <2>3. Conv' = Conv
    BY <1>1 DEF Conv
  <2>4. Current(Conv)' <=> /\ Waiting(Conv.inst, Conv.rsn)' /\ Conv.curr = Lk(Conv.inst)'
                          /\ Conv.curr < Conv.mode /\ Conv.lsn <= latest
    BY <1>1, <2>3 DEF Current, Waiting, Lk
  <2>5. QED
    BY <1>4, <2>1, <2>2, <2>3, <2>4 DEF Current, Waiting, Lk
<1>11. /\ Conv' = Conv /\ Requester' = Requester
       /\ Converting(res)' <=> Converting(res)
  BY <1>1 DEF Conv, Requester, Converting
<1>12. Stage'
  <2>1. ~Answering /\ ~Claiming
    BY <1>5 DEF Answering, Claiming
  <2>2. CASE Resting
    BY <1>1, <1>6, <1>9, <1>11, <2>2 DEF Resting, Stage
  <2>3. CASE Invalidating
    <3>1. PICK t \in tasks : /\ tasks = {t}
                             /\ t.kind \in {"req", "cvt"} /\ t.req = Conv /\ t.owner = res.owner
                             /\ ~t.retry /\ ~t.fail
                             /\ t.todo \cap {res.owner, Requester} = {}
      BY <2>3 DEF Invalidating
    <3>2. NobodyBut(t.todo \cup {res.owner, Requester})'
      BY <1>1, <1>5, <1>8 DEF NobodyBut
    <3>3. Invalidating'
      BY <1>1, <1>6, <1>9, <1>10, <1>11, <2>3, <3>1, <3>2 DEF Invalidating
    <3>4. QED
      BY <3>3 DEF Stage
  <2>4. CASE Asking
    <3>1. NobodyBut({res.owner, Requester})'
      BY <1>1, <1>5, <1>8 DEF NobodyBut
    <3>2. Asking'
      BY <1>1, <1>6, <1>9, <1>10, <1>11, <2>4, <3>1 DEF Asking
    <3>3. QED
      BY <3>2 DEF Stage
  <2>5. CASE Recycling
    <3>1. PICK t \in tasks : tasks = {t} /\ RecyclesWith(t)
      BY <2>5 DEF Recycling
    <3>2. t.owner = res.owner
      BY <1>5, <3>1 DEF RecyclesWith
    <3>3. NobodyBut(t.todo \cup {res.owner})'
      BY <1>1, <1>5, <1>8 DEF NobodyBut
    <3>4. RecyclesWith(t)'
      BY <1>1, <1>9, <3>1, <3>2, <3>3 DEF RecyclesWith
    <3>5. Recycling'
      BY <1>1, <1>6, <1>11, <2>5, <3>1, <3>4 DEF Recycling
    <3>6. QED
      BY <3>5 DEF Stage
  <2>6. QED
    BY <2>1, <2>2, <2>3, <2>4, <2>5 DEF CInv, Stage
<1>13. OnePlace'
  BY <1>4, TakenPlaces
<1>14. Data'
  <2>1. ASSUME NEW j \in Inst
        PROVE  /\ ctrl'[j].lsn <= latest /\ (ctrl'[j].dirty => latest > 0)
               /\ Lk(j)' # LockNull =>
                     \/ ctrl'[j].load = "loaded" /\ ctrl'[j].lsn = latest
                     \/ /\ ctrl'[j].load = "need" /\ sess'[j].st = "held"
                        /\ Lk(j)' = LockExclusive /\ disk = latest
    <3>1. CASE j = i
      BY <1>4, <1>5, <3>1 DEF CInv, Data, Lk
    <3>2. CASE j # i
      BY <1>4, <1>8, <3>2 DEF CInv, Data
    <3>3. QED
      BY <3>1, <3>2
  <2>2. QED
    BY <1>1, <2>1 DEF CInv, Data
<1>15. Locks'
  <2>1. SingleWriter'
    BY <1>8, Modes DEF SingleWriter, Lk
  <2>2. HoldersKnown'
    BY <1>1, <1>5, <1>7, <1>8 DEF HoldersKnown, Lk
  <2>3. \A j \in Inst : Lk(j)' = LockExclusive => j = res'.owner \/ claims' # {}
    BY <1>1, <1>5, <1>8, Modes
  <2>4. QED
    BY <1>1, <1>6, <1>7, <2>1, <2>2, <2>3 DEF Locks
<1>16. QED
  BY <1>1, <1>12, <1>13, <1>14, <1>15 DEF CInv

(* What the two answers that end a conversion do to the ctrl.              *)
LEMMA Received ==
    ASSUME IInv, CInv, NEW a \in acks, HandleAck(a), AckPageReady(a) \/ AckAlreadyOwner(a)
    PROVE  /\ Answering /\ Ready = {a} /\ Brings(a)
           /\ \A j \in Inst \ {a.dst} : ctrl'[j] = ctrl[j] /\ sess'[j] = sess[j]
           /\ ctrl'[a.dst].lock = a.mode /\ ctrl'[a.dst].load = "loaded" /\ ctrl'[a.dst].lsn = latest
           /\ ctrl'[a.dst].dirty = ctrl[a.dst].dirty
           /\ a.mode = LockExclusive => ~ctrl'[a.dst].edp
           /\ claims' = claims \cup {[inst |-> a.dst, mode |-> a.mode, edp |-> "dirty" \in a.flags,
                                      lsn |-> latest]}
<1> DEFINE i == a.dst
<1>1. /\ UNCHANGED <<res, askm, asko, tasks, timeouts, latest, disk>>
      /\ i \in Inst /\ a \in Ack /\ sess[i].st = "wait"
  BY Taken
<1>2. a.cmd \in {"page_ready", "already_owner"} /\ a \in Ready
  BY DEF AckPageReady, AckAlreadyOwner, Ready
<1>3. Answering
  BY <1>2 DEF CInv, Stage, Resting, Invalidating, Asking, Claiming, Recycling
<1>4. Ready = {a} /\ Brings(a)
  BY <1>2, <1>3 DEF Answering
<1>5. /\ ctrl \in [Inst -> BufCtrl] /\ sess \in [Inst -> Session] /\ latest \in Nat
      /\ ctrl[i] \in BufCtrl /\ i = Requester
  BY <1>1, <1>4, Shapes DEF Brings
<1>6. Lk(i) = LockShare => ctrl[i].load = "loaded" /\ ctrl[i].lsn = latest
  BY <1>1, Modes DEF CInv, Data
<1>7. CASE AckPageReady(a)
  <2>1. PICK c : c = PageFromOwner(ctrl[i], a)
    OBVIOUS
  <2>2. /\ a.cmd = "page_ready" /\ ctrl' = [ctrl EXCEPT ![i] = c] /\ Claim(i, a, c)
        /\ sess' = [sess EXCEPT ![i].st = "held"]
    BY <1>7, <2>1 DEF AckPageReady
  <2>3. /\ "need_load" \notin a.flags
        /\ "readonly2x" \in a.flags => Lk(i) = LockShare
        /\ "readonly2x" \notin a.flags => a.lsn = latest
    BY <1>4, <1>5, <2>2 DEF Brings
  <2>4. c = [ctrl[i] EXCEPT !.lsn = IF a.flags \cap {"need_load", "readonly2x"} = {} THEN a.lsn ELSE ctrl[i].lsn,
                            !.lock = a.mode,
                            !.edp = ctrl[i].edp /\ a.mode # LockExclusive,
                            !.rdirty = /\ a.mode = LockExclusive
                                       /\ a.flags \cap {"dirty", "remote_dirty"} # {},
                            !.load = "loaded"]
    BY <2>1, <2>3 DEF PageFromOwner
  <2>5. /\ c.lock = a.mode /\ c.load = "loaded" /\ c.dirty = ctrl[i].dirty
        /\ a.mode = LockExclusive => ~c.edp
        /\ c.lsn = IF a.flags \cap {"need_load", "readonly2x"} = {} THEN a.lsn ELSE ctrl[i].lsn
    BY <1>5, <2>4 DEF BufCtrl
  <2>6. c.lsn = latest
    <3>1. CASE "readonly2x" \in a.flags
      BY <1>6, <2>3, <2>5, <3>1
    <3>2. CASE "readonly2x" \notin a.flags
      BY <2>3, <2>5, <3>2
    <3>3. QED
      BY <3>1, <3>2
  <2>7. claims' = claims \cup {[inst |-> i, mode |-> a.mode, edp |-> "dirty" \in a.flags, lsn |-> latest]}
    BY <2>2, <2>5, <2>6 DEF Claim
  <2>8. ctrl'[i] = c /\ \A j \in Inst \ {i} : ctrl'[j] = ctrl[j] /\ sess'[j] = sess[j]
    BY <1>1, <1>5, <2>2
  <2>9. QED
    BY <1>3, <1>4, <2>5, <2>6, <2>7, <2>8
<1>8. CASE AckAlreadyOwner(a)
  <2>1. PICK c : c = [ctrl[i] EXCEPT !.lock = a.mode]
    OBVIOUS
  <2>2. /\ a.cmd = "already_owner" /\ ctrl' = [ctrl EXCEPT ![i] = c] /\ Claim(i, a, c)
        /\ sess' = [sess EXCEPT ![i].st = "held"]
    BY <1>8, <2>1 DEF AckAlreadyOwner
  <2>3. Lk(i) = LockShare /\ ~ctrl[i].edp
    BY <1>4, <1>5, <2>2 DEF Brings
  <2>4. /\ c.lock = a.mode /\ c.load = "loaded" /\ c.dirty = ctrl[i].dirty
        /\ ~c.edp /\ c.lsn = latest
    BY <1>5, <1>6, <2>1, <2>3 DEF BufCtrl
  <2>5. claims' = claims \cup {[inst |-> i, mode |-> a.mode, edp |-> "dirty" \in a.flags, lsn |-> latest]}
    BY <2>2, <2>4 DEF Claim
  <2>6. ctrl'[i] = c /\ \A j \in Inst \ {i} : ctrl'[j] = ctrl[j] /\ sess'[j] = sess[j]
    BY <1>1, <1>5, <2>2
  <2>7. QED
    BY <1>3, <1>4, <2>4, <2>5, <2>6
<1>9. QED
  BY <1>7, <1>8

(* The requester has the page and claims it.                               *)
LEMMA ReceivedStep ==
    ASSUME IInv, CInv, NEW a \in acks, HandleAck(a), AckPageReady(a) \/ AckAlreadyOwner(a)
    PROVE  CInv'
<1> DEFINE i == a.dst
<1>1. /\ UNCHANGED <<res, askm, asko, tasks, timeouts, latest, disk>>
      /\ acks' = acks \ {a} /\ i \in Inst /\ sess[i].st = "wait"
      /\ i \notin Asked /\ i \notin Queued /\ i \notin Worked /\ Worked' = Worked
  BY Taken
<1>2. /\ Answering /\ Ready = {a} /\ Brings(a)
      /\ \A j \in Inst \ {i} : ctrl'[j] = ctrl[j] /\ sess'[j] = sess[j]
      /\ ctrl'[i].lock = a.mode /\ ctrl'[i].load = "loaded" /\ ctrl'[i].lsn = latest
      /\ ctrl'[i].dirty = ctrl[i].dirty
      /\ a.mode = LockExclusive => ~ctrl'[i].edp
      /\ claims' = claims \cup {[inst |-> i, mode |-> a.mode, edp |-> "dirty" \in a.flags, lsn |-> latest]}
  BY Received
<1>3. /\ Converting(res) /\ tasks = {} /\ asko = {} /\ claims = {} /\ Granted = {}
      /\ i = Requester /\ a.mode = Conv.mode /\ ("dirty" \in a.flags => latest > 0)
      /\ Conv.mode = LockExclusive => NobodyBut({Requester})
      /\ Conv.mode = LockShare => OwnerShares
  BY <1>2 DEF Answering, Brings
<1>4. /\ Conv \in ReqInfo /\ res.used /\ res.owner \in Inst /\ latest \in Nat /\ res.lsn \in Nat
      /\ Conv.mode \in {LockShare, LockExclusive}
  BY <1>3, Shapes DEF ReqInfo
<1>5. Ready' = {} /\ Granted' = {}
  BY <1>1, <1>2, <1>3 DEF Ready, Granted
<1>6. /\ Conv' = Conv /\ Requester' = Requester /\ Converting(res)'
  BY <1>1, <1>3 DEF Conv, Requester, Converting
<1>7. Lk(i)' = Conv.mode /\ \A j \in Inst \ {i} : Lk(j)' = Lk(j)
  BY <1>2, <1>3 DEF Lk
<1>8. Conv.mode = LockExclusive => \A j \in Inst \ {i} : Lk(j)' = LockNull
  BY <1>3, <1>7 DEF NobodyBut
<1>9. Conv.mode = LockShare => OwnerShares' /\ \A j \in Inst : Lk(j)' # LockExclusive
  BY <1>1, <1>2, <1>3, <1>4, <1>6, <1>7, Modes DEF OwnerShares
<1>10. Stage'
  <2>1. PICK c : c = [inst |-> i, mode |-> a.mode, edp |-> "dirty" \in a.flags, lsn |-> latest]
    OBVIOUS
  <2>0. /\ c.inst = i /\ c.mode = a.mode /\ c.edp = ("dirty" \in a.flags) /\ c.lsn = latest
        /\ claims' = {c}
    BY <1>2, <1>3, <2>1
  <2>2. /\ claims' = {c} /\ c.inst = Requester' /\ c.mode = Conv'.mode
        /\ c.edp => c.lsn > 0
        /\ c.lsn > 0 => c.lsn >= res'.lsn
        /\ c.lsn <= latest'
    <3>1. latest >= res.lsn /\ latest' = latest /\ res' = res
      BY <1>1, <1>4 DEF CInv, Data
    <3>2. c.edp => c.lsn > 0
      BY <1>3, <2>0
    <3>3. c.inst = Requester' /\ c.mode = Conv'.mode
      BY <1>3, <1>6, <2>0
    <3>4. QED
      BY <1>4, <2>0, <3>1, <3>2, <3>3
  <2>3. Lk(Requester)' = Conv'.mode
    BY <1>3, <1>6, <1>7 DEF Lk
  <2>4. Conv.mode = LockExclusive => NobodyBut({Requester})' /\ ~ctrl'[Requester'].edp
    BY <1>2, <1>3, <1>6, <1>8 DEF NobodyBut
  <2>5. Claiming'
    BY <1>1, <1>3, <1>5, <1>6, <1>9, <2>2, <2>3, <2>4 DEF Claiming
  <2>6. QED
    BY <2>5 DEF Stage
<1>11. OnePlace'
  BY <1>2, TakenPlaces
<1>12. Data'
  <2>1. ASSUME NEW j \in Inst
        PROVE  /\ ctrl'[j].lsn <= latest /\ (ctrl'[j].dirty => latest > 0)
               /\ Lk(j)' # LockNull =>
                     \/ ctrl'[j].load = "loaded" /\ ctrl'[j].lsn = latest
                     \/ /\ ctrl'[j].load = "need" /\ sess'[j].st = "held"
                        /\ Lk(j)' = LockExclusive /\ disk = latest
    <3>1. CASE j = i
      BY <1>2, <1>4, <3>1 DEF CInv, Data
    <3>2. CASE j # i
      BY <1>2, <1>7, <3>2 DEF CInv, Data
    <3>3. QED
      BY <3>1, <3>2
  <2>2. QED
    BY <1>1, <2>1 DEF CInv, Data
<1>13. Locks'
  <2>1. SingleWriter'
    <3>1. CASE Conv.mode = LockExclusive
      BY <1>8, <3>1, Modes DEF SingleWriter, Lk
    <3>2. CASE Conv.mode = LockShare
      BY <1>9, <3>2 DEF SingleWriter, Lk
    <3>3. QED
      BY <1>4, <3>1, <3>2
  <2>2. HoldersKnown'
    <3>1. ASSUME NEW j \in Inst, Lk(j)' # LockNull PROVE j \in {res.owner, Requester} \cup res.copies
      <4>1. CASE j = i
        BY <1>3, <4>1
      <4>2. CASE j # i
        BY <1>7, <3>1, <4>2 DEF CInv, Locks, HoldersKnown, Lk, Requester
      <4>3. QED
        BY <4>1, <4>2
    <3>2. QED
      BY <1>1, <1>4, <3>1 DEF HoldersKnown, Lk, Requester
  <2>3. claims' # {}
    BY <1>2
  <2>4. QED
    BY <1>1, <1>4, <1>5, <2>1, <2>2, <2>3 DEF Locks
<1>14. QED
  BY <1>1, <1>10, <1>11, <1>12, <1>13 DEF CInv

LEMMA HandleAckStep ==
    ASSUME IInv, CInv, NEW a \in acks, HandleAck(a)
    PROVE  CInv'
<1>1. AckPageReady(a) \/ AckAlreadyOwner(a) \/ AckGranted(a) \/ AckError(a)
  BY DEF HandleAck
<1>2. QED
  BY <1>1, ReceivedStep, AckGrantedStep, AckErrorStep

-----------------------------------------------------------------------------
(* The steps of the master: they leave the instances alone.                *)

LEMMA MasterFrame ==
    ASSUME UNCHANGED <<ctrl, sess, latest, disk>>
    PROVE  /\ \A i : Lk(i)' = Lk(i)
           /\ \A req : Current(req)' <=> Current(req)
           /\ \A S : NobodyBut(S)' <=> NobodyBut(S)
           /\ \A i : Granted' = Granted => (OwnerHas(i)' <=> OwnerHas(i))
           /\ Data /\ res'.lsn <= latest => Data'
           /\ SingleWriter => SingleWriter'
<1>1. \A i : Lk(i)' = Lk(i)
  BY DEF Lk
<1>2. \A req : Current(req)' <=> Current(req)
  BY <1>1 DEF Current, Waiting
<1>3. \A S : NobodyBut(S)' <=> NobodyBut(S)
  BY <1>1 DEF NobodyBut
<1>4. \A i : Granted' = Granted => (OwnerHas(i)' <=> OwnerHas(i))
  BY <1>1 DEF OwnerHas
<1>5. Data /\ res'.lsn <= latest => Data'
  BY <1>1 DEF Data
<1>6. SingleWriter => SingleWriter'
  BY DEF SingleWriter
<1>7. QED
  BY <1>1, <1>2, <1>3, <1>4, <1>5, <1>6

(* The request at which a conversion starts, or goes on after its copies   *)
(* are gone, goes to its owner, or its requester is told that it owns the  *)
(* page already.                                                           *)
Handed(req) == /\ Granted' = Granted /\ Stage'
               /\ \/ Worked' = {req.inst} /\ acks' = acks
                  \/ /\ Worked' = {}
                     /\ \E b \in acks' : b.dst = req.inst /\ acks' = acks \cup {b}

LEMMA NotifyStep ==
    ASSUME IInv, UNCHANGED <<ctrl, sess, latest, disk>>, claims' = {}, tasks' = {},
           Ready = {}, asko = {},
           NEW req \in ReqInfo, NEW o \in Inst, res'.conv = req, res'.owner = o,
           Current(req), OwnerHas(o), \A a \in Granted : a.dst = o, req.inst \notin Awaited,
           req.mode = LockExclusive => NobodyBut({o, req.inst}),
           NotifyOwner(o, req, FALSE, {})
    PROVE  Handed(req)
<1>1. /\ req.inst \in Inst /\ Converting(res)' /\ Conv' = req /\ Requester' = req.inst
      /\ req.mode \in {LockShare, LockExclusive}
  BY NoInstAssumption DEF ReqInfo, Converting, Conv, Requester
<1>2. /\ \A i : Lk(i)' = Lk(i)
      /\ Current(req)'
      /\ \A S : NobodyBut(S)' <=> NobodyBut(S)
      /\ \A i : Granted' = Granted => (OwnerHas(i)' <=> OwnerHas(i))
  BY MasterFrame
<1>3. Current(Conv)'
  BY <1>1, <1>2 DEF Current, Waiting, Lk
<1>4. CASE o # req.inst
  <2>1. asko' = {[dst |-> o, req |-> req, retry |-> FALSE]} /\ acks' = acks
    BY <1>4 DEF NotifyOwner, Answered
  <2>2. Granted' = Granted /\ Ready' = {} /\ Worked' = {req.inst}
    BY <1>1, <2>1 DEF Granted, Ready, Worked
  <2>3. OwnerHas(o)' /\ (req.mode = LockExclusive => NobodyBut({o, req.inst})')
    BY <1>2, <2>2
  <2>4. OwnerHas(res.owner)'
    BY <2>3 DEF OwnerHas, Lk
  <2>5. req.mode = LockExclusive => NobodyBut({res.owner, Requester})'
    BY <1>1, <2>3 DEF NobodyBut
  <2>6. Asking'
    BY <1>1, <1>3, <1>4, <2>1, <2>2, <2>4, <2>5 DEF Asking
  <2>7. QED
    BY <2>1, <2>2, <2>6 DEF Handed, Stage
<1>5. CASE o = req.inst
  <2>1. PICK b : b = MasterAck("already_owner", req)
    OBVIOUS
  <2>2. /\ b.cmd = "already_owner" /\ b.dst = req.inst /\ b.rsn = req.rsn /\ b.mode = req.mode
        /\ b.flags = {}
    BY <2>1 DEF MasterAck, ErrorAck
  <2>3. asko' = {} /\ acks' = acks \cup {b}
    BY <1>5, <2>1, <2>2 DEF NotifyOwner, Answered, Current, Waiting
  <2>4. Granted = {}
    BY <1>5 DEF Granted, Awaited
  <2>5. Granted' = {} /\ Ready' = {b} /\ Worked' = {}
    BY <2>2, <2>3, <2>4 DEF Granted, Ready, Worked
  <2>6. Lk(o) = LockShare /\ req.mode = LockExclusive /\ ~ctrl[o].edp
    <3>1. Lk(o) # LockNull /\ ~ctrl[o].edp
      BY <2>4 DEF OwnerHas
    <3>2. Lk(o) \in LockMode /\ Lk(o) < req.mode
      BY <1>5, Shapes DEF Current
    <3>3. QED
      BY <1>1, <3>1, <3>2, Modes DEF LockMode
  <2>7. Brings(b)'
    BY <1>1, <1>2, <1>5, <2>2, <2>6 DEF Brings
  <2>8. NobodyBut({Requester})'
    BY <1>1, <1>2, <1>5, <2>6 DEF NobodyBut
  <2>9. Answering'
    <3>1. Conv'.mode = LockExclusive /\ Conv'.mode # LockShare
      BY <1>1, <2>6, Modes
    <3>2. b \in acks'
      BY <2>3
    <3>3. QED
      BY <1>1, <1>3, <2>3, <2>5, <2>7, <2>8, <3>1, <3>2 DEF Answering
  <2>10. QED
    BY <2>2, <2>3, <2>4, <2>5, <2>9 DEF Handed, Stage
<1>6. QED
  BY <1>4, <1>5

(* A conversion starts: its copies are invalidated first.                  *)
LEMMA StartStep ==
    ASSUME IInv, UNCHANGED <<ctrl, sess, latest, disk>>, claims' = {}, tasks = {},
           Ready = {}, asko = {},
           NEW req \in ReqInfo, NEW o \in Inst, res'.conv = req, res'.owner = o,
           Current(req), OwnerHas(o), \A a \in Granted : a.dst = o, req.inst \notin Awaited,
           \A i \in Inst : Lk(i) # LockNull => i \in {o, req.inst} \cup res'.copies,
           NEW kind \in {"req", "cvt"}, NEW by,
           LET todo == CopiesToInvalidate(res', req)
           IN  \/ /\ todo = {} /\ NotifyOwner(o, req, FALSE, {}) /\ UNCHANGED tasks
               \/ /\ todo # {} /\ UNCHANGED <<asko, acks>>
                  /\ tasks' = tasks \cup
                        {[kind |-> kind, req |-> req, by |-> by, owner |-> o, retry |-> FALSE,
                          todo |-> todo, fail |-> FALSE]}
    PROVE  Handed(req)
<1>1. PICK todo : todo = CopiesToInvalidate(res', req)
  OBVIOUS
<1>2. req.mode = LockExclusive => NobodyBut(todo \cup {o, req.inst})
  BY <1>1 DEF CopiesToInvalidate, NobodyBut
<1>3. todo # {} => req.mode = LockExclusive /\ todo \cap {o, req.inst} = {}
  BY <1>1 DEF CopiesToInvalidate
<1>4. CASE todo = {}
  <2>1. tasks' = {} /\ NotifyOwner(o, req, FALSE, {})
    BY <1>1, <1>4
  <2>2. req.mode = LockExclusive => NobodyBut({o, req.inst})
    BY <1>2, <1>4 DEF NobodyBut
  <2>3. QED
    BY <2>1, <2>2, NotifyStep
<1>5. CASE todo # {}
  <2>1. PICK t : t = [kind |-> kind, req |-> req, by |-> by, owner |-> o, retry |-> FALSE,
                      todo |-> todo, fail |-> FALSE]
    OBVIOUS
  <2>2. /\ t.kind \in {"req", "cvt"} /\ t.req = req /\ t.owner = o
        /\ ~t.retry /\ ~t.fail /\ t.todo = todo
    BY <2>1
  <2>3. tasks' = {t} /\ UNCHANGED <<asko, acks>>
    BY <1>1, <1>5, <2>1
  <2>4. /\ req.inst \in Inst /\ Converting(res)' /\ Conv' = req /\ Requester' = req.inst
    BY NoInstAssumption DEF ReqInfo, Converting, Conv, Requester
  <2>5. Granted' = Granted /\ Ready' = {} /\ Worked' = {req.inst}
    BY <2>3, <2>4 DEF Granted, Ready, Worked
  <2>6. Current(req)' /\ OwnerHas(o)' /\ NobodyBut(t.todo \cup {o, req.inst})'
    BY <1>2, <1>3, <1>5, <2>2, <2>5, MasterFrame
  <2>7. Current(Conv)' /\ OwnerHas(res.owner)' /\ NobodyBut(t.todo \cup {res.owner, Requester})'
    BY <2>4, <2>6 DEF Current, Waiting, Lk, OwnerHas, NobodyBut
  <2>8. Invalidating'
    BY <1>3, <1>5, <2>2, <2>3, <2>4, <2>5, <2>7 DEF Invalidating
  <2>9. QED
    BY <2>3, <2>5, <2>8 DEF Handed, Stage
<1>6. QED
  BY <1>4, <1>5

(* The request that is handed on was in no other place.                    *)
LEMMA PlacesHanded ==
    ASSUME OnePlace, UNCHANGED <<ctrl, sess, latest, disk>>, NEW req, Handed(req),
           askm' \subseteq askm, req.inst \notin Asked' \cup Queued' \cup Awaited,
           Queued' \subseteq Queued,
           \A k, l \in DOMAIN res'.q : res'.q[k].inst = res'.q[l].inst => k = l,
           \A k \in DOMAIN res'.q : Current(res'.q[k]) /\ res'.q[k].inst # res'.owner
    PROVE  OnePlace'
<1>1. Asked' \subseteq Asked
  BY DEF Asked
<1>2. /\ Awaited' \cup Worked' = Awaited \cup {req.inst} /\ Awaited' \cap Worked' = {}
  <2>1. CASE Worked' = {req.inst} /\ acks' = acks
    BY <2>1 DEF Awaited
  <2>2. CASE Worked' = {} /\ \E b \in acks' : b.dst = req.inst /\ acks' = acks \cup {b}
    BY <2>2 DEF Awaited
  <2>3. QED
    BY <2>1, <2>2 DEF Handed
<1>3. \A a, b \in acks' : a.dst = b.dst => a = b
  <2>1. \A a \in acks : a.dst # req.inst
    BY DEF Awaited
  <2>2. \A a, b \in acks : a.dst = b.dst => a = b
    BY DEF OnePlace
  <2>3. acks' = acks \/ \E b \in acks' : b.dst = req.inst /\ acks' = acks \cup {b}
    BY DEF Handed
  <2>4. QED
    BY <2>1, <2>2, <2>3
<1>4. /\ Asked' \cap (Queued' \cup Awaited' \cup Worked') = {}
      /\ Queued' \cap (Awaited' \cup Worked') = {}
  BY <1>1, <1>2 DEF OnePlace
<1>5. \A r : Current(r)' <=> Current(r)
  BY MasterFrame
<1>6. \A r \in askm' : Current(r)'
  BY <1>5 DEF OnePlace
<1>7. \A k \in DOMAIN res'.q : Current(res.q[k])' /\ res'.q[k].inst # res'.owner
  <2> SUFFICES ASSUME NEW k \in DOMAIN res'.q PROVE Current(res.q[k])'
    OBVIOUS
  <2>1. PICK r : r = res'.q[k]
    OBVIOUS
  <2>2. Current(r)'
    BY <1>5, <2>1
  <2>3. QED
    BY <2>1, <2>2 DEF Current, Waiting, Lk
<1>8. \A r1, r2 \in askm' : r1.inst = r2.inst => r1 = r2
  BY DEF OnePlace
<1>9. QED
  BY <1>2, <1>3, <1>4, <1>6, <1>7, <1>8 DEF OnePlace

(* A request that the master takes up.                                     *)
LEMMA TakenUp ==
    ASSUME IInv, CInv, NEW req \in askm, ProcessAskMaster(req)
    PROVE  /\ UNCHANGED <<ctrl, sess, claims, timeouts, latest, disk>>
           /\ askm' = askm \ {req} /\ Asked' = Asked \ {req.inst}
           /\ req \in ReqInfo /\ req.inst \in Inst /\ Current(req)
           /\ req.inst \notin Asked' \cup Queued \cup Awaited \cup Worked
<1>1. /\ UNCHANGED <<ctrl, sess, claims, timeouts, latest, disk>> /\ askm' = askm \ {req}
  BY DEF ProcessAskMaster
<1>2. \A r \in askm : r.inst = req.inst => r = req
  BY DEF CInv, OnePlace
<1>3. Asked' = Asked \ {req.inst}
  BY <1>1, <1>2 DEF Asked
<1>4. req.inst \in Asked
  BY DEF Asked
<1>5. req.inst \notin Queued \cup Awaited \cup Worked /\ Current(req)
  BY <1>4 DEF CInv, OnePlace
<1>6. req \in ReqInfo /\ req.inst \in Inst
  BY Shapes
<1>7. QED
  BY <1>1, <1>3, <1>5, <1>6 DEF CInv

(* The page has no entry: nobody has the page.                             *)
LEMMA MasterGrantsStep ==
    ASSUME IInv, CInv, NEW req \in askm, ProcessAskMaster(req), MasterGrants(req)
    PROVE  CInv'
<1>1. /\ UNCHANGED <<ctrl, sess, claims, timeouts, latest, disk>>
      /\ askm' = askm \ {req} /\ Asked' = Asked \ {req.inst}
      /\ req \in ReqInfo /\ req.inst \in Inst /\ Current(req)
      /\ req.inst \notin Asked' \cup Queued \cup Awaited \cup Worked
  BY TakenUp
<1>2. /\ ~res.used /\ res' = GrantNew(req) /\ UNCHANGED <<asko, tasks>>
      /\ acks' = Answered({MasterAck("granted", req)})
  BY DEF MasterGrants
<1>3. PICK b : b = MasterAck("granted", req)
  OBVIOUS
<1>4. b.cmd = "granted" /\ b.dst = req.inst /\ b.rsn = req.rsn
  BY <1>3 DEF MasterAck, ErrorAck
<1>5. /\ \A a \in acks : a.cmd = "error"
      /\ disk = latest /\ \A i \in Inst : Lk(i) = LockNull
  BY <1>2 DEF CInv, Locks, HoldersKnown, Lk
<1>6. acks' = acks \cup {b}
  BY <1>1, <1>2, <1>3, <1>4 DEF Answered, Current
<1>7. /\ res'.used /\ res'.owner = req.inst /\ res'.lsn = 0 /\ ~res'.pending /\ res'.q = <<>>
      /\ ~Converting(res)' /\ DOMAIN res'.q = {}
  BY <1>2, EmptySeq DEF GrantNew, NoBufRes, Converting, NoReq
<1>8. /\ Resting /\ EntryOK(res)
  BY <1>2, Shapes DEF CInv, Stage, Invalidating, Asking, Answering, Claiming, Recycling
<1>9. Granted' = {b} /\ Ready' = {}
  BY <1>4, <1>5, <1>6 DEF Granted, Ready
<1>10. Stage'
  <2>1. OwnerHas(res.owner)'
    BY <1>9 DEF OwnerHas
  <2>2. QED
    BY <1>1, <1>2, <1>7, <1>8, <1>9, <2>1 DEF Resting, Stage
<1>11. OnePlace'
  <2>1. Queued' = {} /\ Awaited' = Awaited \cup {req.inst} /\ Worked' = {}
    BY <1>2, <1>4, <1>6, <1>7, <1>8 DEF Queued, Awaited, Worked, Resting
  <2>2. \A r \in askm' : Current(r)'
    BY <1>1, MasterFrame DEF CInv, OnePlace
  <2>3. \A a, c \in acks' : a.dst = c.dst => a = c
    <3>1. \A a \in acks : a.dst # req.inst
      BY <1>1 DEF Awaited
    <3>2. QED
      BY <1>4, <1>6, <3>1 DEF CInv, OnePlace
  <2>4. QED
    BY <1>1, <1>7, <2>1, <2>2, <2>3 DEF CInv, OnePlace
<1>12. Data'
  BY <1>1, <1>7, Shapes, MasterFrame DEF CInv
<1>13. Locks'
  <2>1. \A i \in Inst : Lk(i)' = LockNull
    BY <1>1, <1>5, MasterFrame
  <2>2. SingleWriter' /\ HoldersKnown' /\ NobodyBut({})'
    BY <2>1, Modes DEF SingleWriter, HoldersKnown, NobodyBut, Lk
  <2>3. QED
    BY <1>1, <1>4, <1>5, <1>7, <1>9, <2>1, <2>2, Modes DEF Locks
<1>14. QED
  BY <1>1, <1>7, <1>10, <1>11, <1>12, <1>13 DEF CInv

LEMMA MasterRefusesStep ==
    ASSUME IInv, CInv, NEW req \in askm, ProcessAskMaster(req), MasterRefuses(req)
    PROVE  CInv'
<1>1. /\ UNCHANGED <<ctrl, sess, claims, timeouts, latest, disk>>
      /\ askm' = askm \ {req} /\ Asked' = Asked \ {req.inst}
      /\ req \in ReqInfo /\ req.inst \in Inst /\ Current(req)
      /\ req.inst \notin Asked' \cup Queued \cup Awaited \cup Worked
  BY TakenUp
<1>2. /\ res.used /\ UNCHANGED <<res, asko, tasks>> /\ acks' = Answered({ErrorAck(req)})
  BY DEF MasterRefuses
<1>3. PICK b : b = ErrorAck(req)
  OBVIOUS
<1>4. b.cmd = "error" /\ b.dst = req.inst /\ b.rsn = req.rsn
  BY <1>3 DEF ErrorAck
<1>5. acks' = acks \cup {b}
  BY <1>1, <1>2, <1>3, <1>4 DEF Answered, Current
<1>6. Granted' = Granted /\ Ready' = Ready
  BY <1>4, <1>5 DEF Granted, Ready
<1>7. latest \in Nat /\ res.lsn \in Nat
  BY Shapes
<1>8. Stage'
  <2>1. /\ res'.conv = res.conv /\ res'.owner = res.owner /\ res'.copies = res.copies
        /\ res'.used = res.used /\ res'.lsn = res.lsn /\ res'.pending = res.pending
    BY <1>2
  <2>3. latest' = latest /\ latest' \in Nat
    BY <1>1, <1>7
  <2>4. latest <= latest'
    BY <1>7, <2>3
  <2>2. /\ \A i \in Inst : ctrl'[i].lock = ctrl[i].lock /\ ctrl'[i].edp = ctrl[i].edp
        /\ sess'[Requester] = sess[Requester]
    BY <1>1
  <2>5. QED
    BY <1>1, <1>2, <1>6, <2>1, <2>2, <2>3, <2>4, StageStays DEF CInv
<1>9. Locks'
  BY <1>1, <1>2, <1>6, LocksStay DEF CInv
<1>10. Data'
  BY <1>1, <1>2, MasterFrame DEF CInv, Data
<1>11. OnePlace'
  <2>1. Queued' = Queued /\ Awaited' = Awaited \cup {req.inst} /\ Worked' = Worked
    BY <1>2, <1>4, <1>5 DEF Queued, Awaited, Worked, Requester
  <2>2. \A r \in askm' : Current(r)'
    BY <1>1, MasterFrame DEF CInv, OnePlace
  <2>3. \A k \in DOMAIN res'.q : Current(res.q[k])' /\ res'.q[k].inst # res'.owner
    BY <1>1, <1>2, MasterFrame DEF CInv, OnePlace
  <2>4. \A a, c \in acks' : a.dst = c.dst => a = c
    <3>1. \A a \in acks : a.dst # req.inst
      BY <1>1 DEF Awaited
    <3>2. QED
      BY <1>4, <1>5, <3>1 DEF CInv, OnePlace
  <2>5. /\ Asked' \cap (Queued' \cup Awaited' \cup Worked') = {}
        /\ Queued' \cap (Awaited' \cup Worked') = {}
        /\ Awaited' \cap Worked' = {}
    BY <1>1, <2>1 DEF CInv, OnePlace
  <2>6. /\ \A r1, r2 \in askm' : r1.inst = r2.inst => r1 = r2
        /\ \A k, l \in DOMAIN res'.q : res'.q[k].inst = res'.q[l].inst => k = l
    BY <1>1, <1>2 DEF CInv, OnePlace
  <2>7. QED
    BY <2>2, <2>3, <2>4, <2>5, <2>6 DEF OnePlace
<1>12. QED
  BY <1>1, <1>2, <1>8, <1>9, <1>10, <1>11 DEF CInv

(* Nobody asks twice: an instance whose request converts has already got   *)
(* what it asked for when it asks again.                                   *)
LEMMA NoRetries ==
    ASSUME IInv, CInv, NEW req \in askm
    PROVE  /\ Converting(res) /\ Requester = req.inst => Conv.mode = req.curr /\ Requester # res.owner
           /\ Retried(res, req) = {} /\ ~Restarts(res, req)
<1>1. req.inst \in Asked /\ req \in ReqInfo /\ Current(req)
  BY Shapes DEF Asked, CInv, OnePlace
<1>2. req.inst \notin Queued /\ req.inst \notin Awaited /\ req.inst \notin Worked
  BY <1>1 DEF CInv, OnePlace
<1>3. ASSUME Converting(res), Requester = req.inst
      PROVE  Conv.mode = req.curr /\ Requester # res.owner
  <2>1. ~Resting /\ ~Recycling
    BY <1>3 DEF Resting, Recycling
  <2>2. ~Invalidating /\ ~Asking
    BY <1>2, <1>3 DEF Invalidating, Asking, Worked
  <2>3. ~Answering
    BY <1>2, <1>3 DEF Answering, Brings, Awaited
  <2>4. Claiming
    BY <2>1, <2>2, <2>3 DEF CInv, Stage
  <2>5. Conv.mode = req.curr
    BY <1>1, <1>3, <2>4 DEF Claiming, Current
  <2>6. req.curr < req.mode /\ req.mode \in {LockShare, LockExclusive}
    BY <1>1 DEF Current, ReqInfo
  <2>7. Conv.mode # LockExclusive /\ Conv.mode \in {LockShare, LockExclusive}
    BY <1>3, <2>5, <2>6, Shapes, Modes DEF ReqInfo
  <2>8. QED
    BY <2>4, <2>5, <2>7 DEF Claiming, OwnerShares
<1>4. Retried(res, req) = {}
  BY <1>2 DEF Retried, IsRetry, Queued
<1>5. ~Restarts(res, req)
  BY <1>3 DEF Restarts, IsRetry, Conv, Requester
<1>6. QED
  BY <1>3, <1>4, <1>5

LEMMA MasterQueuesStep ==
    ASSUME IInv, CInv, NEW req \in askm, ProcessAskMaster(req), MasterQueues(req)
    PROVE  CInv'
<1>1. /\ UNCHANGED <<ctrl, sess, claims, timeouts, latest, disk>>
      /\ askm' = askm \ {req} /\ Asked' = Asked \ {req.inst}
      /\ req \in ReqInfo /\ req.inst \in Inst /\ Current(req)
      /\ req.inst \notin Asked' \cup Queued \cup Awaited \cup Worked
  BY TakenUp
<1>2. /\ res.used /\ UNCHANGED <<asko, acks, tasks>> /\ Appends(res, req)
      /\ res' = AppendQueued(res, req)
  BY NoRetries DEF MasterQueues, Replaces
<1>3. res \in BufRes /\ res.q \in Seq(ReqInfo) /\ latest \in Nat
  BY Shapes DEF BufRes
<1>4. /\ res'.q = Append(res.q, req) /\ res'.used = res.used /\ res'.owner = res.owner
      /\ res'.conv = res.conv /\ res'.lsn = res.lsn /\ res'.copies = res.copies
      /\ res'.pending = res.pending
  BY <1>2, <1>3 DEF AppendQueued, BufRes
<1>5. req.inst # res.owner
  <2>1. ~Conflicting(res, req) /\ Converting(res)
    BY <1>2 DEF Appends, Queues
  <2>2. req.inst = res.owner => req.inst = Requester
    BY <2>1 DEF Conflicting, Requester
  <2>3. QED
    BY <2>1, <2>2, NoRetries
<1>6. Granted' = Granted /\ Ready' = Ready
  BY <1>2 DEF Granted, Ready
<1>7. latest' = latest /\ latest' \in Nat
  BY <1>1, <1>3
<1>8. Stage'
  <2>1. latest <= latest'
    BY <1>3, <1>7
  <2>2. /\ \A i \in Inst : ctrl'[i].lock = ctrl[i].lock /\ ctrl'[i].edp = ctrl[i].edp
        /\ sess'[Requester] = sess[Requester]
    BY <1>1
  <2>3. QED
    BY <1>1, <1>2, <1>4, <1>6, <1>7, <2>1, <2>2, StageStays DEF CInv
<1>9. Locks'
  BY <1>1, <1>2, <1>4, <1>6, LocksStay DEF CInv
<1>10. Data'
  BY <1>1, <1>4, MasterFrame DEF CInv, Data
<1>11. OnePlace'
  <2>1. /\ Len(res.q) \in Nat /\ DOMAIN res.q = 1 .. Len(res.q)
        /\ DOMAIN res'.q = 1 .. (Len(res.q) + 1)
        /\ \A k \in DOMAIN res.q : res'.q[k] = res.q[k]
        /\ res'.q[Len(res.q) + 1] = req
    BY <1>1, <1>3, <1>4, AppendProperties
  <2>2. \A k \in DOMAIN res'.q : k \in DOMAIN res.q \/ k = Len(res.q) + 1
    BY <2>1
  <2>3. Queued' = Queued \cup {req.inst}
    <3>1. \A k \in DOMAIN res.q : k \in DOMAIN res'.q
      BY <2>1
    <3>2. Len(res.q) + 1 \in DOMAIN res'.q
      BY <2>1
    <3>3. QED
      BY <2>1, <2>2, <3>1, <3>2 DEF Queued
  <2>4. Awaited' = Awaited /\ Worked' = Worked
    BY <1>2, <1>4 DEF Awaited, Worked, Requester
  <2>5. \A r : Current(r)' <=> Current(r)
    BY <1>1, MasterFrame
  <2>6. \A r \in askm' : Current(r)'
    BY <1>1, <2>5 DEF CInv, OnePlace
  <2>7. ASSUME NEW k \in DOMAIN res'.q
        PROVE  Current(res.q[k])' /\ res'.q[k].inst # res'.owner
    <3>1. PICK r : r = res'.q[k]
      OBVIOUS
    <3>2. Current(r) /\ r.inst # res.owner
      BY <1>1, <1>5, <2>1, <2>2, <3>1 DEF CInv, OnePlace
    <3>3. Current(r)'
      BY <2>5, <3>2
    <3>4. QED
      BY <1>4, <3>1, <3>2, <3>3 DEF Current, Waiting, Lk
  <2>8. \A k, l \in DOMAIN res'.q : res'.q[k].inst = res'.q[l].inst => k = l
    <3>1. \A k \in DOMAIN res.q : res.q[k].inst # req.inst
      BY <1>1 DEF Queued
    <3>2. QED
      BY <2>1, <2>2, <3>1 DEF CInv, OnePlace
  <2>9. /\ Asked' \cap (Queued' \cup Awaited' \cup Worked') = {}
        /\ Queued' \cap (Awaited' \cup Worked') = {}
        /\ Awaited' \cap Worked' = {}
    BY <1>1, <2>3, <2>4 DEF CInv, OnePlace
  <2>10. /\ \A r1, r2 \in askm' : r1.inst = r2.inst => r1 = r2
         /\ \A a, b \in acks' : a.dst = b.dst => a = b
    BY <1>1, <1>2 DEF CInv, OnePlace
  <2>11. QED
    BY <2>6, <2>7, <2>8, <2>9, <2>10 DEF OnePlace
<1>12. QED
  BY <1>1, <1>4, <1>8, <1>9, <1>10, <1>11 DEF CInv

LEMMA MasterConvertsStep ==
    ASSUME IInv, CInv, NEW req \in askm, ProcessAskMaster(req), MasterConverts(req)
    PROVE  CInv'
<1>1. /\ UNCHANGED <<ctrl, sess, claims, timeouts, latest, disk>>
      /\ askm' = askm \ {req} /\ Asked' = Asked \ {req.inst}
      /\ req \in ReqInfo /\ req.inst \in Inst /\ Current(req)
      /\ req.inst \notin Asked' \cup Queued \cup Awaited \cup Worked
  BY TakenUp
<1>2. res.used /\ ~res.pending /\ ~Converting(res) /\ ~Restarts(res, req)
  BY NoRetries DEF MasterConverts, Converts
<1>3. Resting
  BY <1>2 DEF CInv, Stage, Invalidating, Asking, Answering, Claiming, Recycling
<1>4. ConvertReq(res, req) = req
  BY <1>1, <1>2 DEF ConvertReq, ConvertMode, ReqInfo
<1>5. /\ res \in BufRes /\ EntryOK(res) /\ latest \in Nat /\ NoInst \notin Inst
  BY Shapes
<1>6. /\ res.q = <<>> /\ DOMAIN res.q = {} /\ res.owner \in Inst
  BY <1>2, <1>5, EmptySeq DEF EntryOK
<1>7. /\ res'.conv = req /\ res'.owner = res.owner /\ res'.copies = res.copies /\ res'.q = res.q
      /\ res'.used = res.used /\ res'.lsn = res.lsn /\ res'.pending = res.pending
  BY <1>4, <1>5 DEF MasterConverts, StartConvert, BufRes
<1>8. \A i \in Inst : Lk(i) # LockNull => i \in {res.owner, req.inst} \cup res.copies
  BY <1>2, <1>5 DEF CInv, Locks, HoldersKnown, Lk, Converting
<1>9. CopiesToInvalidate(res', req) = CopiesToInvalidate(res, req)
  BY <1>7 DEF CopiesToInvalidate
<1>10. Handed(req)
  <2>1. PICK o \in Inst : o = res.owner
    BY <1>6
  <2>2. /\ claims' = {} /\ tasks = {} /\ Ready = {} /\ asko = {} /\ OwnerHas(o)
        /\ \A a \in Granted : a.dst = o
    BY <1>1, <1>2, <1>3, <2>1 DEF Resting, CInv, Locks
  <2>3. LET todo == CopiesToInvalidate(res', req)
        IN  \/ /\ todo = {} /\ NotifyOwner(o, req, FALSE, {}) /\ UNCHANGED tasks
            \/ /\ todo # {} /\ UNCHANGED <<asko, acks>>
               /\ tasks' = tasks \cup
                     {[kind |-> "req", req |-> req, by |-> req.inst, owner |-> o, retry |-> FALSE,
                       todo |-> todo, fail |-> FALSE]}
    <3>1. Restarts(res, req) = FALSE
      BY <1>2 DEF Restarts
    <3>2. PICK todo : todo = CopiesToInvalidate(res, req)
      OBVIOUS
    <3>3. IF todo = {}
          THEN NotifyOwner(o, req, FALSE, {}) /\ UNCHANGED tasks
          ELSE /\ tasks' = tasks \cup
                     {[kind |-> "req", req |-> req, by |-> req.inst, owner |-> o, retry |-> FALSE,
                       todo |-> todo, fail |-> FALSE]}
               /\ UNCHANGED <<asko, acks>>
      BY <1>4, <2>1, <3>1, <3>2 DEF MasterConverts
    <3>4. QED
      BY <1>9, <3>2, <3>3
  <2>4. /\ res'.conv = req /\ res'.owner = o /\ req.inst \notin Awaited
        /\ \A i \in Inst : Lk(i) # LockNull => i \in {o, req.inst} \cup res'.copies
    BY <1>1, <1>7, <1>8, <2>1
  <2>5. QED
    BY <1>1, <2>2, <2>3, <2>4, StartStep
<1>11. OnePlace'
  <2>1. Queued' = {}
    BY <1>6, <1>7 DEF Queued
  <2>2. askm' \subseteq askm /\ req.inst \notin Asked' \cup Queued' \cup Awaited /\ Queued' \subseteq Queued
    BY <1>1, <2>1
  <2>3. DOMAIN res'.q = {}
    BY <1>6, <1>7
  <2>4. QED
    BY <1>1, <1>10, <2>2, <2>3, PlacesHanded DEF CInv
<1>12. Locks'
  <2>1. SingleWriter' /\ \A i : Lk(i)' = Lk(i)
    BY <1>1, MasterFrame DEF CInv, Locks
  <2>2. HoldersKnown'
    BY <1>2, <1>7, <1>8, <2>1 DEF HoldersKnown, Lk
  <2>3. \A i \in Inst : Lk(i)' = LockExclusive => i = res'.owner \/ claims' # {}
    BY <1>1, <1>7, <2>1 DEF CInv, Locks
  <2>4. \A a \in Granted' : a.dst = res'.owner /\ NobodyBut({})' /\ disk' = latest'
    BY <1>1, <1>7, <1>10, MasterFrame DEF CInv, Locks, Handed
  <2>5. QED
    BY <1>2, <1>7, <2>1, <2>2, <2>3, <2>4 DEF Locks
<1>13. Data'
  BY <1>1, <1>7, MasterFrame DEF CInv, Data
<1>14. QED
  BY <1>1, <1>7, <1>10, <1>11, <1>12, <1>13 DEF CInv, Handed

LEMMA ProcessAskMasterStep ==
    ASSUME IInv, CInv, NEW req \in askm, ProcessAskMaster(req)
    PROVE  CInv'
<1>1. \/ MasterGrants(req) \/ MasterRefuses(req)
      \/ MasterConverts(req) \/ MasterQueues(req)
  BY DEF ProcessAskMaster
<1>2. QED
  BY <1>1, MasterGrantsStep, MasterRefusesStep, MasterConvertsStep, MasterQueuesStep

-----------------------------------------------------------------------------
(* The threads of the master.                                              *)

LEMMA InvalidateCopyStep ==
    ASSUME IInv, CInv, NEW t \in tasks, NEW i \in Inst, InvalidateCopy(t, i)
    PROVE  CInv'
<1>1. /\ UNCHANGED <<res, sess, askm, asko, acks, claims, timeouts, latest, disk>>
      /\ i \in t.todo /\ sess[i].st = "idle"
  BY DEF InvalidateCopy, LatchableIO, Latchable
<1>2. Invalidating \/ Recycling
  BY DEF CInv, Stage, Resting, Asking, Answering, Claiming
<1>3. tasks = {t} /\ ~t.fail /\ claims = {} /\ (Invalidating => i # Requester)
  BY <1>1, <1>2 DEF Invalidating, Recycling, RecyclesWith
<1>4. i # res.owner
  <2>1. CASE Invalidating
    BY <1>1, <1>3, <2>1 DEF Invalidating
  <2>2. CASE Recycling
    BY <1>1, <1>3, <2>2, Shapes DEF Recycling, RecyclesWith, EntryOK
  <2>3. QED
    BY <1>2, <2>1, <2>2
<1>5. ctrl[i].lock # LockExclusive
  BY <1>3, <1>4 DEF CInv, Locks, Lk
<1>6. /\ ctrl \in [Inst -> BufCtrl] /\ latest \in Nat /\ t \in Task
      /\ \A j \in Inst : ctrl[j] \in BufCtrl
      /\ Converting(res) => Requester \in Inst /\ Conv \in ReqInfo /\ res.owner \in Inst
  BY Shapes DEF IInv, TypeOK
<1>7. /\ ctrl' = IF ctrl[i].load # "absent" THEN [ctrl EXCEPT ![i] = InvalidateCtrl(ctrl[i])] ELSE ctrl
      /\ tasks' = (tasks \ {t}) \cup {[t EXCEPT !.todo = t.todo \ {i}, !.fail = t.fail \/ FALSE]}
  BY <1>5 DEF InvalidateCopy
<1>8. /\ \A j \in Inst \ {i} : ctrl'[j] = ctrl[j]
      /\ ctrl'[i].lsn = ctrl[i].lsn /\ ctrl'[i].dirty = ctrl[i].dirty /\ ctrl'[i].edp = ctrl[i].edp
  BY <1>6, <1>7 DEF InvalidateCtrl, BufCtrl
<1>9. ctrl'[i].lock = LockNull
  <2>1. CASE ctrl[i].load # "absent"
    BY <1>6, <1>7, <2>1 DEF InvalidateCtrl, BufCtrl
  <2>2. CASE ctrl[i].load = "absent"
    BY <1>6, <1>7, <2>2 DEF CInv, Data, Lk
  <2>3. QED
    BY <2>1, <2>2
<1>10. i \notin Asked /\ i \notin Queued
  BY <1>1, NoPlace
<1>11. PICK u : u = [t EXCEPT !.todo = t.todo \ {i}, !.fail = t.fail \/ FALSE]
  OBVIOUS
<1>12. /\ tasks' = {u} /\ u.kind = t.kind /\ u.req = t.req /\ u.owner = t.owner
       /\ u.retry = t.retry /\ ~u.fail /\ u.todo = t.todo \ {i}
  BY <1>3, <1>6, <1>7, <1>11 DEF Task
<1>13. Ready' = Ready /\ Granted' = Granted /\ Conv' = Conv /\ Requester' = Requester
       /\ (Converting(res)' <=> Converting(res)) /\ Worked' = Worked
  BY <1>1, <1>3, <1>12 DEF Ready, Granted, Conv, Requester, Converting, Worked
<1>14. ASSUME Invalidating PROVE Stage'
  <2>1. /\ Converting(res) /\ Current(Conv) /\ OwnerHas(res.owner) /\ Conv.mode = LockExclusive
        /\ asko = {} /\ Ready = {} /\ claims = {} /\ Requester = Conv.inst
        /\ t.kind \in {"req", "cvt"} /\ t.req = Conv /\ t.owner = res.owner /\ ~t.retry
        /\ t.todo \cap {res.owner, Requester} = {}
        /\ NobodyBut(t.todo \cup {res.owner, Requester})
    BY <1>3, <1>14 DEF Invalidating, Conv, Requester
  <2>2. ctrl'[res.owner] = ctrl[res.owner] /\ ctrl'[Requester] = ctrl[Requester]
    BY <1>3, <1>4, <1>6, <1>8, <1>14, <2>1
  <2>3. OwnerHas(res.owner)'
    BY <1>1, <1>13, <2>1, <2>2 DEF OwnerHas, Lk
  <2>4. Current(Conv)'
    BY <1>1, <1>13, <2>1, <2>2 DEF Current, Waiting, Lk
  <2>5. NobodyBut(u.todo \cup {res.owner, Requester})'
    BY <1>1, <1>8, <1>9, <1>12, <1>13, <2>1 DEF NobodyBut, Lk
  <2>6. Invalidating'
    BY <1>1, <1>12, <1>13, <2>1, <2>3, <2>4, <2>5 DEF Invalidating
  <2>7. QED
    BY <2>6 DEF Stage
<1>15. ASSUME Recycling PROVE Stage'
  <2>1. /\ ~Converting(res) /\ res.pending /\ res.used /\ asko = {} /\ Ready = {} /\ claims = {}
        /\ t.kind = "recycle" /\ t.todo \subseteq res.copies
        /\ t.owner = res.owner /\ OwnerHas(res.owner)
        /\ NobodyBut(t.todo \cup {res.owner})
    BY <1>1, <1>3, <1>15 DEF Recycling, RecyclesWith
  <2>2. res.owner \in Inst
    BY <2>1, Shapes DEF EntryOK
  <2>3. OwnerHas(res.owner)'
    BY <1>1, <1>4, <1>8, <1>13, <2>1, <2>2 DEF OwnerHas, Lk
  <2>4. NobodyBut(u.todo \cup {res.owner})'
    BY <1>1, <1>8, <1>9, <1>12, <2>1 DEF NobodyBut, Lk
  <2>5. RecyclesWith(u)'
    BY <1>1, <1>12, <2>1, <2>3, <2>4 DEF RecyclesWith
  <2>6. Recycling'
    BY <1>1, <1>12, <1>13, <2>1, <2>5 DEF Recycling
  <2>7. QED
    BY <2>6 DEF Stage
<1>16. Stage'
  BY <1>2, <1>14, <1>15
<1>17. OnePlace'
  <2>1. \A j \in Asked' \cup Queued : j \in Inst /\ j # i
    BY <1>1, <1>10, Shapes DEF Asked, Queued
  <2>2. latest' \in Nat /\ latest <= latest'
    BY <1>1, <1>6
  <2>3. QED
    BY <1>1, <1>8, <1>13, <2>1, <2>2, PlacesStay DEF CInv
<1>18. Locks'
  <2>1. \A j \in Inst : ctrl'[j].lock \in {ctrl[j].lock, LockNull}
    BY <1>8, <1>9
  <2>2. QED
    BY <1>1, <1>13, <2>1, LocksStay DEF CInv
<1>19. Data'
  <2>1. ASSUME NEW j \in Inst
        PROVE  /\ ctrl'[j].lsn <= latest /\ (ctrl'[j].dirty => latest > 0)
               /\ Lk(j)' # LockNull =>
                     \/ ctrl'[j].load = "loaded" /\ ctrl'[j].lsn = latest
                     \/ /\ ctrl'[j].load = "need" /\ sess'[j].st = "held"
                        /\ Lk(j)' = LockExclusive /\ disk = latest
    <3>1. CASE j = i
      BY <1>8, <1>9, <3>1 DEF CInv, Data, Lk
    <3>2. CASE j # i
      BY <1>1, <1>8, <3>2 DEF CInv, Data, Lk
    <3>3. QED
      BY <3>1, <3>2
  <2>2. QED
    BY <1>1, <2>1 DEF CInv, Data
<1>20. QED
  BY <1>1, <1>16, <1>17, <1>18, <1>19 DEF CInv

(* drc_request_page_owner and drc_claim_page_owner after the invalidation. *)
LEMMA InvalidatedStep ==
    ASSUME IInv, CInv, NEW t \in tasks, RequestInvalidated(t) \/ ConvertInvalidated(t)
    PROVE  CInv'
<1>1. /\ UNCHANGED <<ctrl, sess, askm, claims, timeouts, latest, disk>>
      /\ t.todo = {} /\ tasks' = tasks \ {t} /\ t.kind # "recycle"
  BY DEF RequestInvalidated, ConvertInvalidated
<1>2. Invalidating
  BY <1>1 DEF CInv, Stage, Resting, Asking, Answering, Claiming, Recycling, RecyclesWith
<1>3. /\ tasks = {t} /\ t.kind \in {"req", "cvt"} /\ t.req = Conv /\ t.owner = res.owner
      /\ ~t.retry /\ ~t.fail
      /\ NobodyBut(t.todo \cup {res.owner, Requester})
  BY <1>2 DEF Invalidating
<1>4. /\ t \in Task /\ res \in BufRes
  BY Shapes DEF IInv, TypeOK
<1>5. t.retry = FALSE /\ t.fail = FALSE
  BY <1>3, <1>4 DEF Task
<1>6. res' = [res EXCEPT !.copies = {}] /\ NotifyOwner(res.owner, Conv, FALSE, {})
  BY <1>3, <1>5 DEF RequestInvalidated, ConvertInvalidated
<1>7. /\ res'.conv = res.conv /\ res'.owner = res.owner /\ res'.q = res.q /\ res'.copies = {}
      /\ res'.used = res.used /\ res'.lsn = res.lsn /\ res'.pending = res.pending
  BY <1>4, <1>6 DEF BufRes
<1>8. /\ Conv \in ReqInfo /\ Requester \in Inst /\ res.used /\ res.owner \in Inst
      /\ Requester = Conv.inst
  BY <1>2, Shapes DEF Invalidating, Conv, Requester
<1>9. Requester \in Worked
  BY <1>3 DEF Worked
<1>10. Requester \notin Asked \cup Queued \cup Awaited
  BY <1>9 DEF CInv, OnePlace
<1>11. PICK o \in Inst, req \in ReqInfo : o = res.owner /\ req = Conv
  BY <1>8
<1>12. Handed(req)
  <2>1. /\ claims' = {} /\ tasks' = {} /\ Ready = {} /\ asko = {} /\ Current(req) /\ OwnerHas(o)
        /\ \A a \in Granted : a.dst = o
    BY <1>1, <1>2, <1>3, <1>11 DEF Invalidating, CInv, Locks
  <2>2. req.mode = LockExclusive => NobodyBut({o, req.inst})
    BY <1>1, <1>3, <1>8, <1>11 DEF NobodyBut
  <2>3. /\ res'.conv = req /\ res'.owner = o /\ req.inst \notin Awaited
        /\ NotifyOwner(o, req, FALSE, {})
    BY <1>6, <1>7, <1>8, <1>10, <1>11 DEF Conv
  <2>4. QED
    BY <1>1, <2>1, <2>2, <2>3, NotifyStep
<1>13. OnePlace'
  <2>1. Queued' = Queued /\ Asked' = Asked
    BY <1>1, <1>7 DEF Queued, Asked
  <2>2. /\ askm' \subseteq askm /\ req.inst \notin Asked' \cup Queued' \cup Awaited /\ Queued' \subseteq Queued
    BY <1>1, <1>8, <1>10, <1>11, <2>1
  <2>3. /\ \A k, l \in DOMAIN res'.q : res'.q[k].inst = res'.q[l].inst => k = l
        /\ \A k \in DOMAIN res'.q : Current(res'.q[k]) /\ res'.q[k].inst # res'.owner
    BY <1>7 DEF CInv, OnePlace
  <2>4. QED
    BY <1>1, <1>12, <2>2, <2>3, PlacesHanded DEF CInv
<1>14. Locks'
  <2>1. SingleWriter' /\ \A i : Lk(i)' = Lk(i)
    BY <1>1, MasterFrame DEF CInv, Locks
  <2>2. HoldersKnown'
    BY <1>1, <1>3, <1>7, <1>8, <2>1 DEF HoldersKnown, Lk, NobodyBut, Requester
  <2>3. \A i \in Inst : Lk(i)' = LockExclusive => i = res'.owner \/ claims' # {}
    BY <1>1, <1>7, <2>1 DEF CInv, Locks
  <2>4. \A a \in Granted' : a.dst = res'.owner /\ NobodyBut({})' /\ disk' = latest'
    BY <1>1, <1>7, <1>12, MasterFrame DEF CInv, Locks, Handed
  <2>5. QED
    BY <1>7, <1>8, <2>1, <2>2, <2>3, <2>4 DEF Locks
<1>15. Data'
  BY <1>1, <1>7, MasterFrame DEF CInv, Data
<1>16. QED
  BY <1>1, <1>7, <1>12, <1>13, <1>14, <1>15 DEF CInv, Handed

-----------------------------------------------------------------------------
(* The claim.                                                              *)

(* The claim is of the conversion, and the master then knows who has the   *)
(* page.                                                                   *)
LEMMA Claimed ==
    ASSUME IInv, CInv, NEW c \in claims, NEW r, r = ClaimNewOwner(res, c)
    PROVE  /\ Claiming /\ claims = {c} /\ ClaimValid(res, c)
           /\ r \in BufRes /\ r.q = res.q /\ r.conv = res.conv /\ r.used /\ ~r.pending
           /\ r.owner \in Inst /\ r.lsn <= latest
           /\ \A i \in Inst : /\ Lk(i) # LockNull => i \in {r.owner} \cup r.copies
                              /\ Lk(i) = LockExclusive => i = r.owner
           /\ OwnerHas(r.owner)
           /\ \A k \in DOMAIN r.q : r.q[k].inst # r.owner
<1>1. Claiming
  BY DEF CInv, Stage, Resting, Invalidating, Asking, Answering, Recycling
<1>2. /\ claims = {c} /\ c.inst = Requester /\ c.mode = Conv.mode /\ (c.edp => c.lsn > 0)
      /\ c.lsn > 0 => c.lsn >= res.lsn
      /\ c.lsn <= latest /\ Lk(Requester) = Conv.mode
      /\ Conv.mode = LockExclusive => NobodyBut({Requester}) /\ ~ctrl[Requester].edp
      /\ Conv.mode = LockShare => OwnerShares
  BY <1>1 DEF Claiming
<1>3. /\ Conv \in ReqInfo /\ Requester \in Inst /\ res.used /\ res.owner \in Inst /\ Entry(res)
      /\ res \in BufRes /\ EntryOK(res) /\ latest \in Nat /\ res.lsn \in Nat /\ NoInst \notin Inst
      /\ c \in ClaimInfo /\ c.lsn \in Nat
      /\ Conv.mode \in {LockShare, LockExclusive}
  BY <1>1, Shapes, HandlerFinds DEF Claiming, IInv, TypeOK, ClaimInfo, ReqInfo
<1>4. ClaimValid(res, c)
  <2>1. res.used /\ res.conv.inst = c.inst /\ res.conv.mode = c.mode /\ res.owner # NoInst
    BY <1>2, <1>3 DEF Requester, Conv
  <2>2. /\ c.edp => c.lsn # 0
        /\ c.lsn > 0 => c.lsn >= res.lsn
    BY <1>2, <1>3
  <2>3. QED
    BY <2>1, <2>2 DEF ClaimValid
<1>5. Entry(r) /\ r.used /\ r \in BufRes
  BY <1>3, <1>4, ClaimEntry DEF Entry
<1>6. Larger(res.lsn, c.lsn) <= latest
  BY <1>2, <1>3 DEF Larger, CInv, Data
<1>7. res.lsn <= latest /\ ~res.pending
  BY <1>1, <1>3 DEF CInv, Data, EntryOK, Claiming
<1>8. CASE Conv.mode = LockExclusive
  <2>1. /\ r.q = res.q /\ r.conv = res.conv /\ r.pending = res.pending /\ r.lsn <= latest
        /\ r.owner = Requester
    <3>1. r = res \/ r = ClaimExclusive(res, c)
      BY <1>2, <1>8, Modes DEF ClaimNewOwner
    <3>2. CASE r = res /\ res.owner = c.inst
      BY <1>2, <1>7, <3>2
    <3>3. CASE r = ClaimExclusive(res, c)
      BY <1>2, <1>3, <1>6, <3>3 DEF ClaimExclusive, BufRes
    <3>4. QED
      BY <1>2, <1>8, <3>2, <3>3, Modes DEF ClaimNewOwner
  <2>2. \A i \in Inst : Lk(i) # LockNull => i = Requester
    BY <1>2, <1>8 DEF NobodyBut
  <2>3. \A i \in Inst : /\ Lk(i) # LockNull => i \in {r.owner} \cup r.copies
                        /\ Lk(i) = LockExclusive => i = r.owner
    BY <2>1, <2>2, Modes
  <2>4. OwnerHas(r.owner)
    BY <1>2, <1>8, <2>1, Modes DEF OwnerHas
  <2>5. \A k \in DOMAIN r.q : r.q[k].inst # r.owner
    <3> SUFFICES ASSUME NEW k \in DOMAIN res.q, res.q[k].inst = Requester PROVE FALSE
      BY <2>1
    <3>1. res.q[k].curr = LockExclusive /\ res.q[k].curr < res.q[k].mode /\ res.q[k] \in ReqInfo
      BY <1>2, <1>8, Shapes DEF CInv, OnePlace, Current
    <3>2. QED
      BY <3>1, Modes DEF ReqInfo
  <2>6. QED
    BY <1>1, <1>2, <1>3, <1>4, <1>5, <1>7, <2>1, <2>3, <2>4, <2>5
<1>9. CASE Conv.mode = LockShare
  <2>1. OwnerShares
    BY <1>2, <1>9
  <2>2. r = ClaimShare(res, c)
    BY <1>2, <1>9, <2>1 DEF ClaimNewOwner, OwnerShares
  <2>3. /\ r.q = res.q /\ r.conv = res.conv /\ r.pending = res.pending /\ r.lsn = Larger(res.lsn, c.lsn)
        /\ r.owner = res.owner /\ r.copies = res.copies \cup {Requester}
    BY <1>2, <1>3, <2>2 DEF ClaimShare, BufRes
  <2>4. \A i \in Inst : /\ Lk(i) # LockNull => i \in {r.owner} \cup r.copies
                        /\ Lk(i) = LockExclusive => i = r.owner
    BY <2>1, <2>3 DEF OwnerShares, CInv, Locks, HoldersKnown, Lk, Requester
  <2>5. OwnerHas(r.owner)
    BY <2>1, <2>3, Modes DEF OwnerShares, OwnerHas
  <2>6. \A k \in DOMAIN r.q : r.q[k].inst # r.owner
    BY <2>3 DEF CInv, OnePlace
  <2>7. QED
    BY <1>1, <1>2, <1>3, <1>4, <1>5, <1>6, <1>7, <2>3, <2>4, <2>5, <2>6
<1>10. QED
  BY <1>3, <1>8, <1>9

(* The first of the queue converts next; the others keep their order.      *)
LEMMA NextWaiter ==
    ASSUME NEW r \in BufRes, r.used, ~r.pending, NEW s, s = ConvertNext(r, 0)
    PROVE  /\ s.owner = r.owner /\ s.copies = r.copies /\ s.used /\ ~s.pending /\ s.lsn = r.lsn
           /\ s.mode = r.mode
           /\ r.q = <<>> => s.conv.inst = NoInst /\ s.q = <<>> /\ DOMAIN s.q = {}
           /\ r.q # <<>> =>
                 /\ 1 \in DOMAIN r.q /\ s.conv = r.q[1] /\ s.q \in Seq(ReqInfo)
                 /\ \A k \in DOMAIN s.q : k \in Nat /\ k # 0 /\ k + 1 \in DOMAIN r.q /\ s.q[k] = r.q[k + 1]
                 /\ s.q # <<>> => Head(s.q) = s.q[1] /\ 1 \in DOMAIN s.q
<1>1. /\ r.q \in Seq(ReqInfo) /\ Len(r.q) \in Nat /\ DOMAIN r.q = 1..Len(r.q)
      /\ \A k \in 1..Len(r.q) : r.q[k] \in ReqInfo
  BY LenProperties, ElementOfSeq DEF BufRes
<1>2. r.q = <<>> <=> Len(r.q) = 0
  BY <1>1, EmptySeq
<1>3. CASE r.q = <<>>
  <2>1. s = [r EXCEPT !.conv = NoReq(LastTime(r, 0)), !.q = <<>>]
    BY <1>2, <1>3 DEF ConvertNext
  <2>2. s.conv.inst = NoInst /\ s.q = <<>> /\ DOMAIN s.q = {}
    <3>1. s.conv = NoReq(LastTime(r, 0)) /\ s.q = <<>>
      BY <2>1 DEF BufRes
    <3>2. NoReq(LastTime(r, 0)).inst = NoInst
      BY DEF NoReq
    <3>3. QED
      BY <3>1, <3>2, EmptySeq
  <2>3. QED
    BY <1>3, <2>1, <2>2 DEF BufRes
<1>4. CASE r.q # <<>>
  <2>1. PICK q : q = SubSeq(r.q, 2, Len(r.q))
    OBVIOUS
  <2>2. 1 \in DOMAIN r.q /\ Len(r.q) # 0
    BY <1>1, <1>2, <1>4
  <2>3. s = [r EXCEPT !.conv = r.q[1], !.q = q]
    BY <2>1, <2>2 DEF ConvertNext
  <2>4. /\ q \in Seq(ReqInfo)
        /\ Len(q) = IF 2 <= Len(r.q) THEN Len(r.q) - 2 + 1 ELSE 0
        /\ \A j \in 1 .. Len(r.q) - 2 + 1 : q[j] = r.q[2 + j - 1]
    <3>1. \A k \in 2 .. Len(r.q) : r.q[k] \in ReqInfo
      BY <1>1
    <3>2. QED
      BY <1>1, <2>1, <3>1, SubSeqProperties
  <2>5. Len(q) = Len(r.q) - 1 /\ DOMAIN q = 1 .. Len(q)
    BY <1>1, <2>2, <2>4, LenProperties
  <2>6. \A k \in DOMAIN q : k \in Nat /\ k # 0 /\ k + 1 \in DOMAIN r.q /\ q[k] = r.q[k + 1]
    BY <1>1, <2>4, <2>5
  <2>7. q # <<>> => Head(q) = q[1] /\ 1 \in DOMAIN q
    BY <2>4, <2>5, EmptySeq, LenProperties
  <2>8. s.q = q /\ s.conv = r.q[1]
    BY <2>3 DEF BufRes
  <2>9. QED
    BY <1>4, <2>2, <2>3, <2>4, <2>6, <2>7, <2>8 DEF BufRes
<1>5. QED
  BY <1>3, <1>4

LEMMA ProcessClaimStep ==
    ASSUME MaxTimeouts = 0, IInv, CInv, NEW c \in claims, ProcessClaim(c)
    PROVE  CInv'
<1>1. UNCHANGED <<ctrl, sess, askm, latest, disk>> /\ claims' = claims \ {c}
  BY DEF ProcessClaim
<1>2. PICK r : r = ClaimNewOwner(res, c)
  OBVIOUS
<1>3. /\ Claiming /\ claims = {c} /\ ClaimValid(res, c)
      /\ r \in BufRes /\ r.q = res.q /\ r.conv = res.conv /\ r.used /\ ~r.pending
      /\ r.owner \in Inst /\ r.lsn <= latest
      /\ \A i \in Inst : /\ Lk(i) # LockNull => i \in {r.owner} \cup r.copies
                         /\ Lk(i) = LockExclusive => i = r.owner
      /\ OwnerHas(r.owner)
      /\ \A k \in DOMAIN r.q : r.q[k].inst # r.owner
  BY <1>2, Claimed
<1>4. timeouts' = 0 /\ ConvertWaiter(r, c.inst, 0)
  <2>1. PICK expired \in 0..Len(res.q) : /\ timeouts + expired <= MaxTimeouts
                                         /\ timeouts' = timeouts + expired
                                         /\ ConvertWaiter(r, c.inst, expired)
    BY <1>2, <1>3 DEF ProcessClaim
  <2>2. timeouts = 0 /\ Len(res.q) \in Nat
    BY Shapes, LenProperties DEF CInv, BufRes
  <2>3. expired = 0
    BY <2>1, <2>2
  <2>4. QED
    BY <2>1, <2>2, <2>3
<1>5. PICK s : s = ConvertNext(r, 0)
  OBVIOUS
<1>6. /\ s.owner = r.owner /\ s.copies = r.copies /\ s.used /\ ~s.pending /\ s.lsn = r.lsn
      /\ r.q = <<>> => s.conv.inst = NoInst /\ s.q = <<>> /\ DOMAIN s.q = {}
      /\ r.q # <<>> =>
            /\ 1 \in DOMAIN r.q /\ s.conv = r.q[1] /\ s.q \in Seq(ReqInfo)
            /\ \A k \in DOMAIN s.q : k \in Nat /\ k # 0 /\ k + 1 \in DOMAIN r.q /\ s.q[k] = r.q[k + 1]
            /\ s.q # <<>> => Head(s.q) = s.q[1] /\ 1 \in DOMAIN s.q
  BY <1>3, <1>5, NextWaiter
<1>7. ~HeadConflicts(s)
  <2> SUFFICES ASSUME s.q # <<>> PROVE ~Conflicting(s, Head(s.q))
    BY DEF HeadConflicts
  <2>1. r.q # <<>>
    BY <1>6
  <2>2. s.conv.inst # s.owner /\ Head(s.q).inst # s.owner
    BY <1>3, <1>6, <2>1
  <2>3. QED
    BY <2>2 DEF Conflicting
<1>8. {ErrorAck(r.q[k]) : k \in 1..0} = {}
  OBVIOUS
<1>9. res' = s
  BY <1>4, <1>5, <1>7 DEF ConvertWaiter
<1>10. tasks = {} /\ asko = {} /\ Ready = {} /\ Granted = {} /\ claims' = {}
  BY <1>1, <1>3 DEF Claiming
<1>11. Data'
  BY <1>1, <1>3, <1>6, <1>9, MasterFrame DEF CInv
<1>12. /\ SingleWriter' /\ \A i : Lk(i)' = Lk(i)
       /\ HoldersKnown'
       /\ \A i \in Inst : Lk(i)' = LockExclusive => i = res'.owner
  <2>1. SingleWriter' /\ \A i : Lk(i)' = Lk(i)
    BY <1>1, MasterFrame DEF CInv, Locks
  <2>2. HoldersKnown'
    BY <1>3, <1>6, <1>9, <2>1 DEF HoldersKnown, Lk
  <2>3. QED
    BY <1>3, <1>6, <1>9, <2>1, <2>2
<1>13. \A k, l \in DOMAIN res.q : res.q[k].inst = res.q[l].inst => k = l
  BY DEF CInv, OnePlace
<1>14. CASE r.q = <<>>
  <2>1. ~Converting(s) /\ ~Converting(res)'
    BY <1>6, <1>9, <1>14 DEF Converting
  <2>2. UNCHANGED <<acks, asko, tasks>>
    BY <1>4, <1>5, <1>8, <2>1 DEF ConvertWaiter, Answered
  <2>3. Ready' = {} /\ Granted' = {}
    BY <1>10, <2>2 DEF Ready, Granted
  <2>4. Stage'
    <3>1. OwnerHas(r.owner)'
      BY <1>1, <1>3, <1>10, <2>3, MasterFrame
    <3>2. OwnerHas(res.owner)'
      BY <1>6, <1>9, <3>1 DEF OwnerHas, Lk
    <3>3. QED
      BY <1>6, <1>9, <1>10, <2>1, <2>2, <2>3, <3>2 DEF Resting, Stage
  <2>5. OnePlace'
    <3>1. Queued' = {} /\ Awaited' = Awaited /\ Worked' = {} /\ Asked' = Asked /\ DOMAIN res'.q = {}
      BY <1>1, <1>6, <1>9, <1>10, <1>14, <2>2 DEF Queued, Awaited, Worked, Asked
    <3>2. \A req \in askm : Current(req)'
      BY <1>1, MasterFrame DEF CInv, OnePlace
    <3>3. QED
      BY <1>1, <2>2, <3>1, <3>2 DEF CInv, OnePlace
  <2>6. Locks'
    BY <1>6, <1>9, <1>12, <2>3 DEF Locks
  <2>7. QED
    BY <1>4, <1>6, <1>9, <1>11, <2>4, <2>5, <2>6 DEF CInv
<1>15. CASE r.q # <<>>
  <2>1. PICK req \in ReqInfo : req = res.q[1]
    BY <1>3, <1>6, <1>15, Shapes
  <2>2. PICK o \in Inst : o = r.owner
    BY <1>3
  <2>3. /\ s.conv = req /\ s.owner = o /\ req.inst \in Queued /\ Current(req)
        /\ 1 \in DOMAIN res.q
    BY <1>3, <1>6, <1>15, <2>1, <2>2 DEF Queued, CInv, OnePlace
  <2>4. Converting(s)
    BY <2>3, NoInstAssumption DEF Converting, ReqInfo
  <2>5. req.inst \notin Asked \cup Awaited
    BY <2>3 DEF CInv, OnePlace
  <2>6. LET todo == CopiesToInvalidate(s, req)
        IN  \/ /\ todo = {} /\ NotifyOwner(o, req, FALSE, {}) /\ UNCHANGED tasks
            \/ /\ todo # {} /\ UNCHANGED <<asko, acks>>
               /\ tasks' = tasks \cup
                     {[kind |-> "cvt", req |-> req, by |-> c.inst, owner |-> o, retry |-> FALSE,
                       todo |-> todo, fail |-> FALSE]}
    <3>1. PICK todo : todo = CopiesToInvalidate(s, req)
      OBVIOUS
    <3>2. CASE todo = {}
      <4>1. NotifyOwner(o, req, FALSE, {}) /\ UNCHANGED tasks
        BY <1>4, <1>5, <1>7, <1>8, <2>3, <2>4, <3>1, <3>2 DEF ConvertWaiter
      <4>2. QED
        BY <3>1, <3>2, <4>1
    <3>3. CASE todo # {}
      <4>1. /\ tasks' = tasks \cup
                  {[kind |-> "cvt", req |-> req, by |-> c.inst, owner |-> o, retry |-> FALSE,
                    todo |-> todo, fail |-> FALSE]}
            /\ acks' = Answered({}) /\ UNCHANGED asko
        BY <1>4, <1>5, <1>7, <1>8, <2>3, <2>4, <3>1, <3>3 DEF ConvertWaiter
      <4>2. acks' = acks
        BY <4>1 DEF Answered
      <4>3. QED
        BY <3>1, <3>3, <4>1, <4>2
    <3>4. QED
      BY <3>2, <3>3
  <2>7. Handed(req)
    <3>1. /\ res'.conv = req /\ res'.owner = o /\ OwnerHas(o) /\ \A a \in Granted : a.dst = o
          /\ \A i \in Inst : Lk(i) # LockNull => i \in {o, req.inst} \cup res'.copies
      BY <1>3, <1>6, <1>9, <1>10, <2>2, <2>3
    <3>2. LET todo == CopiesToInvalidate(res', req)
          IN  \/ /\ todo = {} /\ NotifyOwner(o, req, FALSE, {}) /\ UNCHANGED tasks
              \/ /\ todo # {} /\ UNCHANGED <<asko, acks>>
                 /\ tasks' = tasks \cup
                       {[kind |-> "cvt", req |-> req, by |-> c.inst, owner |-> o, retry |-> FALSE,
                         todo |-> todo, fail |-> FALSE]}
      BY <1>9, <2>6
    <3>3. QED
      BY <1>1, <1>10, <2>3, <2>5, <3>1, <3>2, StartStep
  <2>8. OnePlace'
    <3>1. \A k \in DOMAIN res'.q : /\ k \in Nat /\ k # 0 /\ k + 1 \in DOMAIN res.q
                                   /\ res'.q[k] = res.q[k + 1] /\ k + 1 # 1
      BY <1>3, <1>6, <1>9, <1>15
    <3>2. Queued' \subseteq Queued /\ req.inst \notin Queued'
      BY <1>13, <2>1, <2>3, <3>1 DEF Queued
    <3>3. \A k, l \in DOMAIN res'.q : res'.q[k].inst = res'.q[l].inst => k = l
      <4> SUFFICES ASSUME NEW k \in DOMAIN res'.q, NEW l \in DOMAIN res'.q,
                          res'.q[k].inst = res'.q[l].inst
                   PROVE  k = l
        OBVIOUS
      <4>1. k + 1 = l + 1
        BY <1>13, <3>1
      <4>2. QED
        BY <3>1, <4>1
    <3>4. \A k \in DOMAIN res'.q : Current(res'.q[k]) /\ res'.q[k].inst # res'.owner
      BY <1>3, <1>6, <1>9, <3>1 DEF CInv, OnePlace
    <3>5. Asked' = Asked /\ askm' \subseteq askm
      BY <1>1 DEF Asked
    <3>6. QED
      BY <1>1, <2>5, <2>7, <3>2, <3>3, <3>4, <3>5, PlacesHanded DEF CInv
  <2>9. Locks'
    BY <1>6, <1>9, <1>10, <1>12, <2>7 DEF Locks, Handed
  <2>10. QED
    BY <1>4, <1>6, <1>9, <1>11, <2>7, <2>8, <2>9 DEF CInv, Handed
<1>16. QED
  BY <1>14, <1>15

-----------------------------------------------------------------------------
(* The owner sends the page.                                               *)

(* What the owner finds: it still has the page, and nothing is refused.    *)
LEMMA OwnerSends ==
    ASSUME IInv, CInv, NEW m \in asko, TransferPage(m)
    PROVE  /\ Asking /\ asko = {m} /\ m.dst = res.owner /\ m.req = Conv
           /\ res.owner \in Inst /\ Requester \in Inst \ {res.owner} /\ sess[res.owner].st = "idle"
           /\ Lk(res.owner) # LockNull /\ ~ctrl[res.owner].edp
           /\ ctrl[res.owner].load = "loaded" /\ ctrl[res.owner].lsn = latest
           /\ Granted = {} /\ asko' = {}
           /\ ctrl' = [ctrl EXCEPT ![res.owner] = AfterTransfer(ctrl[res.owner], Conv.mode)]
           /\ acks' = Answered({PageReadyAck(ctrl[res.owner], m)})
           /\ "need_load" \notin TransferFlags(ctrl[res.owner], m)
           /\ UNCHANGED <<res, sess, askm, claims, tasks, timeouts, latest, disk>>
<1>1. Asking
  BY DEF CInv, Stage, Resting, Invalidating, Answering, Claiming, Recycling
<1>2. asko = {m} /\ m.dst = res.owner /\ m.req = Conv /\ m.retry = FALSE
  <2>1. PICK n : n = [dst |-> res.owner, req |-> Conv, retry |-> FALSE]
    OBVIOUS
  <2>2. n.dst = res.owner /\ n.req = Conv /\ n.retry = FALSE
    BY <2>1
  <2>3. asko = {n}
    BY <1>1, <2>1 DEF Asking
  <2>4. QED
    BY <2>2, <2>3
<1>3. /\ Conv \in ReqInfo /\ Requester \in Inst /\ res.owner \in Inst /\ Requester = Conv.inst
      /\ \A j \in Inst : ctrl[j] \in BufCtrl /\ Lk(j) \in LockMode
      /\ latest \in Nat /\ Requester # res.owner /\ Current(Conv)
      /\ Conv.mode \in {LockShare, LockExclusive} /\ Conv.curr \in LockMode
  BY <1>1, Shapes DEF Asking, Requester, Conv, ReqInfo
<1>4. PICK o \in Inst : o = res.owner
  BY <1>3
<1>5. sess[o].st = "idle"
  BY <1>2, <1>4 DEF TransferPage, LatchableIO, Latchable
<1>6. Granted = {}
  <2>1. \A a \in acks : a.dst # o
    BY <1>5, NoPlace
  <2>2. \A a \in Granted : a \in acks /\ a.dst = o
    BY <1>4 DEF CInv, Locks, Granted
  <2>3. QED
    BY <2>1, <2>2
<1>7. Lk(o) # LockNull /\ ~ctrl[o].edp
  BY <1>1, <1>4, <1>6 DEF Asking, OwnerHas
<1>8. ctrl[o].load = "loaded" /\ ctrl[o].lsn = latest
  BY <1>5, <1>7 DEF CInv, Data
<1>9. ~TransferNeedsLoad(ctrl[o])
  BY <1>8 DEF TransferNeedsLoad
<1>10. ~TransferRefused(ctrl[o], m)
  <2>1. CtrlIsOwner(ctrl[o])
    BY <1>7 DEF CtrlIsOwner, Lk
  <2>2. Conv.curr = Lk(Requester) /\ Conv.curr < Conv.mode /\ Conv.lsn <= latest
    BY <1>3 DEF Current
  <2>3. Conv.curr # LockExclusive
    BY <1>3, <2>2, Modes
  <2>4. Conv.curr = LockShare => ctrl[o].lock = LockShare
    BY <1>3, <1>4, <1>7, <2>2, Modes DEF CInv, Locks, SingleWriter, Lk, LockMode
  <2>5. ~(Conv.lsn > ctrl[o].lsn)
    <3>1. Conv.lsn \in Nat
      BY <1>3 DEF ReqInfo
    <3>2. QED
      BY <1>3, <1>8, <2>2, <3>1
  <2>6. QED
    BY <1>2, <2>1, <2>3, <2>4, <2>5 DEF TransferRefused
<1>11. /\ ctrl' = [ctrl EXCEPT ![o] = AfterTransfer(ctrl[o], Conv.mode)]
       /\ acks' = Answered({PageReadyAck(ctrl[o], m)}) /\ asko' = asko \ {m}
       /\ UNCHANGED <<res, sess, askm, claims, tasks, timeouts, latest, disk>>
  BY <1>2, <1>4, <1>8, <1>9, <1>10 DEF TransferPage
<1>12. "need_load" \notin TransferFlags(ctrl[o], m)
  BY <1>9 DEF TransferFlags
<1>13. QED
  BY <1>1, <1>2, <1>3, <1>4, <1>5, <1>6, <1>7, <1>8, <1>11, <1>12

LEMMA TransferPageStep ==
    ASSUME IInv, CInv, NEW m \in asko, TransferPage(m)
    PROVE  CInv'
<1>1. PICK o \in Inst : o = res.owner
  BY OwnerSends
<1>2. /\ Asking /\ asko = {m} /\ m.dst = o /\ m.req = Conv
      /\ Requester \in Inst \ {o} /\ sess[o].st = "idle"
      /\ Lk(o) # LockNull /\ ~ctrl[o].edp
      /\ ctrl[o].load = "loaded" /\ ctrl[o].lsn = latest
      /\ Granted = {} /\ asko' = {}
      /\ ctrl' = [ctrl EXCEPT ![o] = AfterTransfer(ctrl[o], Conv.mode)]
      /\ acks' = Answered({PageReadyAck(ctrl[o], m)})
      /\ "need_load" \notin TransferFlags(ctrl[o], m)
      /\ UNCHANGED <<res, sess, askm, claims, tasks, timeouts, latest, disk>>
  BY <1>1, OwnerSends
<1>3. /\ Converting(res) /\ Current(Conv) /\ tasks = {} /\ Ready = {} /\ claims = {}
      /\ Conv.mode = LockExclusive => NobodyBut({res.owner, Requester})
      /\ Requester = Conv.inst /\ Requester # res.owner
  BY <1>2 DEF Asking, Requester, Conv
<1>4. /\ Conv \in ReqInfo /\ res.used /\ latest \in Nat
      /\ ctrl \in [Inst -> BufCtrl] /\ \A j \in Inst : ctrl[j] \in BufCtrl /\ Lk(j) \in LockMode
      /\ Conv.mode \in {LockShare, LockExclusive}
  BY <1>3, Shapes DEF ReqInfo
<1>5. PICK d : d = AfterTransfer(ctrl[o], Conv.mode)
  OBVIOUS
<1>6. /\ ctrl'[o] = d /\ \A j \in Inst \ {o} : ctrl'[j] = ctrl[j]
  BY <1>2, <1>4, <1>5
<1>7. /\ d.lsn = ctrl[o].lsn /\ d.dirty = ctrl[o].dirty
      /\ Conv.mode = LockExclusive => d.lock = LockNull
      /\ Conv.mode = LockShare => d.lock = LockShare /\ d.load = ctrl[o].load /\ d.edp = ctrl[o].edp
  <2>1. CtrlIsOwner(ctrl[o]) /\ ctrl[o] \in BufCtrl
    BY <1>2, <1>4 DEF CtrlIsOwner, Lk
  <2>2. CASE Conv.mode = LockExclusive
    BY <1>5, <2>1, <2>2, Modes DEF AfterTransfer, InvalidateCtrl, BufCtrl
  <2>3. CASE Conv.mode = LockShare
    BY <1>5, <2>1, <2>3, Modes DEF AfterTransfer, BufCtrl
  <2>4. QED
    BY <1>4, <2>2, <2>3
<1>8. PICK a : a = PageReadyAck(ctrl[o], m)
  OBVIOUS
<1>9. PICK f : f = TransferFlags(ctrl[o], m)
  OBVIOUS
<1>10. /\ a.cmd = "page_ready" /\ a.dst = Requester /\ a.rsn = Conv.rsn /\ a.mode = Conv.mode
       /\ a.flags = f
       /\ a.lsn = IF f \cap {"need_load", "readonly2x"} = {} THEN ctrl[o].lsn ELSE 0
  BY <1>2, <1>3, <1>8, <1>9 DEF PageReadyAck, MasterAck, ErrorAck
<1>11. /\ "need_load" \notin f /\ ("dirty" \in f => ctrl[o].dirty)
       /\ "readonly2x" \in f => Conv.curr = LockShare
  BY <1>2, <1>9 DEF TransferFlags
<1>12. acks' = acks \cup {a}
  BY <1>2, <1>3, <1>8, <1>10 DEF Answered, Current
<1>13. Ready' = {a} /\ Granted' = {}
  BY <1>2, <1>3, <1>10, <1>12 DEF Ready, Granted
<1>14. /\ Conv' = Conv /\ Requester' = Requester /\ Converting(res)'
       /\ \A j \in Inst \ {o} : Lk(j)' = Lk(j)
       /\ Lk(o)' = d.lock
  BY <1>2, <1>3, <1>6 DEF Conv, Requester, Converting, Lk
<1>15. /\ Conv.mode = LockExclusive => \A j \in Inst \ {Requester} : Lk(j)' = LockNull
       /\ Conv.mode = LockShare => \A j \in Inst : Lk(j)' # LockExclusive
  <2>1. CASE Conv.mode = LockExclusive
    BY <1>1, <1>3, <1>7, <1>14, <2>1, Modes DEF NobodyBut
  <2>2. CASE Conv.mode = LockShare
    <3>1. Lk(o)' # LockExclusive
      BY <1>7, <1>14, <2>2, Modes
    <3>2. \A j \in Inst \ {o} : Lk(j) # LockExclusive
      BY <1>2 DEF CInv, Locks, SingleWriter, Lk
    <3>3. QED
      BY <1>14, <2>2, <3>1, <3>2, Modes
  <2>3. QED
    BY <1>4, <2>1, <2>2
<1>16. Stage'
  <2>1. Current(Conv)'
    BY <1>2, <1>3, <1>6, <1>14 DEF Current, Waiting, Lk
  <2>2. Brings(a)'
    <3>1. "dirty" \in a.flags => latest > 0
      BY <1>10, <1>11 DEF CInv, Data
    <3>2. "readonly2x" \in a.flags => Lk(Requester)' = LockShare
      BY <1>2, <1>3, <1>10, <1>11, <1>14 DEF Current
    <3>3. "readonly2x" \notin a.flags => a.lsn = latest
      BY <1>2, <1>10, <1>11
    <3>4. QED
      BY <1>2, <1>10, <1>11, <1>14, <3>1, <3>2, <3>3 DEF Brings, Lk
  <2>3. Conv.mode = LockExclusive => NobodyBut({Requester})'
    BY <1>14, <1>15 DEF NobodyBut, Lk
  <2>4. Conv.mode = LockShare => OwnerShares'
    <3> SUFFICES ASSUME Conv.mode = LockShare PROVE OwnerShares'
      OBVIOUS
    <3>1. res'.owner = o /\ Lk(o)' = LockShare /\ ~ctrl'[o].edp
      BY <1>1, <1>2, <1>6, <1>7, <1>14
    <3>2. QED
      BY <1>1, <1>3, <1>14, <1>15, <3>1 DEF OwnerShares, Lk
  <2>5. a \in acks'
    BY <1>12
  <2>6. Answering'
    BY <1>2, <1>3, <1>13, <1>14, <2>1, <2>2, <2>3, <2>4, <2>5 DEF Answering
  <2>7. QED
    BY <2>6 DEF Stage
<1>17. OnePlace'
  <2>1. Worked = {Requester} /\ Worked' = {}
    BY <1>2, <1>3 DEF Worked
  <2>2. Asked' = Asked /\ Queued' = Queued /\ Awaited' = Awaited \cup {Requester}
    BY <1>2, <1>10, <1>12 DEF Asked, Queued, Awaited
  <2>3. /\ Asked' \cap (Queued' \cup Awaited' \cup Worked') = {}
        /\ Queued' \cap (Awaited' \cup Worked') = {}
        /\ Awaited' \cap Worked' = {}
    BY <2>1, <2>2 DEF CInv, OnePlace
  <2>4. \A b, e \in acks' : b.dst = e.dst => b = e
    <3>1. \A b \in acks : b.dst # Requester
      BY <2>1 DEF CInv, OnePlace, Awaited
    <3>2. QED
      BY <1>10, <1>12, <3>1 DEF CInv, OnePlace
  <2>5. o \notin Asked /\ o \notin Queued
    BY <1>2, NoPlace
  <2>6. ASSUME NEW req \in ReqInfo, req.inst \in Inst \ {o}, Current(req) PROVE Current(req)'
    BY <1>2, <1>6, <2>6 DEF Current, Waiting, Lk
  <2>7. \A req \in askm' : Current(req)'
    <3> SUFFICES ASSUME NEW req \in askm PROVE Current(req)'
      BY <1>2
    <3>1. req \in ReqInfo /\ req.inst \in Inst \ {o} /\ Current(req)
      BY <2>5, Shapes DEF Asked, CInv, OnePlace
    <3>2. QED
      BY <2>6, <3>1
  <2>8. \A k \in DOMAIN res'.q : Current(res.q[k])' /\ res'.q[k].inst # res'.owner
    <3> SUFFICES ASSUME NEW k \in DOMAIN res.q PROVE Current(res.q[k])' /\ res.q[k].inst # res.owner
      BY <1>2
    <3>1. PICK req \in ReqInfo : req = res.q[k]
      BY Shapes
    <3>2. req.inst \in Inst \ {o} /\ Current(req) /\ req.inst # res.owner
      BY <2>5, <3>1, Shapes DEF Queued, CInv, OnePlace
    <3>3. Current(req)'
      BY <2>6, <3>2
    <3>4. QED
      BY <1>2, <3>1, <3>2, <3>3
  <2>9. /\ \A r1, r2 \in askm' : r1.inst = r2.inst => r1 = r2
        /\ \A k, l \in DOMAIN res'.q : res'.q[k].inst = res'.q[l].inst => k = l
    BY <1>2 DEF CInv, OnePlace
  <2>10. QED
    BY <2>3, <2>4, <2>7, <2>8, <2>9 DEF OnePlace
<1>18. Data'
  <2>1. ASSUME NEW j \in Inst
        PROVE  /\ ctrl'[j].lsn <= latest /\ (ctrl'[j].dirty => latest > 0)
               /\ Lk(j)' # LockNull =>
                     \/ ctrl'[j].load = "loaded" /\ ctrl'[j].lsn = latest
                     \/ /\ ctrl'[j].load = "need" /\ sess'[j].st = "held"
                        /\ Lk(j)' = LockExclusive /\ disk = latest
    <3>1. CASE j = o
      <4>1. ctrl'[o].lsn <= latest /\ (ctrl'[o].dirty => latest > 0)
        BY <1>6, <1>7 DEF CInv, Data
      <4>2. Lk(o)' # LockNull => ctrl'[o].load = "loaded" /\ ctrl'[o].lsn = latest
        BY <1>2, <1>4, <1>6, <1>7, <1>14
      <4>3. QED
        BY <3>1, <4>1, <4>2
    <3>2. CASE j # o
      BY <1>2, <1>6, <1>14, <3>2 DEF CInv, Data
    <3>3. QED
      BY <3>1, <3>2
  <2>2. QED
    BY <1>2, <2>1 DEF CInv, Data
<1>19. Locks'
  <2>1. SingleWriter'
    <3>1. CASE Conv.mode = LockExclusive
      BY <1>15, <3>1, Modes DEF SingleWriter, Lk
    <3>2. CASE Conv.mode = LockShare
      BY <1>15, <3>2 DEF SingleWriter, Lk
    <3>3. QED
      BY <1>4, <3>1, <3>2
  <2>2. HoldersKnown'
    <3>1. \A j \in Inst : Lk(j)' # LockNull => Lk(j) # LockNull
      BY <1>2, <1>14
    <3>2. QED
      BY <1>2, <3>1 DEF HoldersKnown, Lk, CInv, Locks
  <2>3. \A j \in Inst : Lk(j)' = LockExclusive => j = res'.owner \/ claims' # {}
    <3> SUFFICES ASSUME NEW j \in Inst, Lk(j)' = LockExclusive, j # o PROVE claims # {}
      BY <1>1, <1>2
    <3>1. Lk(j) = LockExclusive
      BY <1>14
    <3>2. QED
      BY <1>1, <3>1 DEF CInv, Locks
  <2>4. QED
    BY <1>2, <1>4, <1>13, <2>1, <2>2, <2>3 DEF Locks
<1>20. QED
  BY <1>2, <1>16, <1>17, <1>18, <1>19 DEF CInv

-----------------------------------------------------------------------------
(* The invariant.                                                          *)

LEMMA NextCInv ==
    ASSUME MaxTimeouts = 0, IInv, CInv, [Next]_vars
    PROVE  CInv'
<1>1. ASSUME NEW i \in Inst, NEW mode \in {LockShare, LockExclusive}, RequestPage(i, mode) PROVE CInv'
  BY <1>1, RequestPageStep
<1>2. ASSUME NEW i \in Inst, GiveUp(i) PROVE CInv'
  <2>1. timeouts = 0 /\ timeouts < MaxTimeouts
    BY <1>2 DEF CInv, GiveUp
  <2>2. QED
    BY <2>1
<1>3. ASSUME NEW i \in Inst, Finish(i) \/ Modify(i) PROVE CInv'
  BY <1>3, FinishStep, ModifyStep
<1>4. ASSUME NEW a \in acks, HandleAck(a) PROVE CInv'
  BY <1>4, HandleAckStep
<1>5. ASSUME NEW req \in askm, ProcessAskMaster(req) PROVE CInv'
  BY <1>5, ProcessAskMasterStep
<1>6. ASSUME NEW t \in tasks, NEW i \in Inst, InvalidateCopy(t, i) PROVE CInv'
  BY <1>6, InvalidateCopyStep
<1>7. ASSUME NEW t \in tasks, RequestInvalidated(t) \/ ConvertInvalidated(t) PROVE CInv'
  BY <1>7, InvalidatedStep
<1>8. ASSUME NEW c \in claims, ProcessClaim(c) PROVE CInv'
  BY <1>8, ProcessClaimStep
<1>9. ASSUME NEW m \in asko, TransferPage(m) PROVE CInv'
  BY <1>9, TransferPageStep
<1>10. ASSUME UNCHANGED vars PROVE CInv'
  <2>1. /\ UNCHANGED <<res, ctrl, sess, askm, asko, acks, claims, tasks, timeouts, latest, disk>>
    BY <1>10 DEF vars
  <2>2. Worked' = Worked /\ Asked' = Asked /\ Queued' = Queued /\ Ready' = Ready /\ Granted' = Granted
    BY <2>1 DEF Worked, Asked, Queued, Requester, Ready, Granted
  <2>3. latest \in Nat
    BY Shapes
  <2>4. latest' = latest /\ latest' \in Nat
    BY <2>1, <2>3
  <2>5. latest <= latest'
    BY <2>3, <2>4
  <2>6. Stage'
    BY <2>1, <2>2, <2>4, <2>5, StageStays DEF CInv
  <2>7. OnePlace'
    BY <2>1, <2>2, <2>4, <2>5, PlacesStay DEF CInv
  <2>8. Locks'
    BY <2>1, <2>2, LocksStay DEF CInv
  <2>9. Data'
    BY <2>1, MasterFrame DEF CInv, Data
  <2>10. QED
    BY <2>1, <2>6, <2>7, <2>8, <2>9 DEF CInv
<1>11. QED
  BY <1>1, <1>2, <1>3, <1>4, <1>5, <1>6, <1>7, <1>8, <1>9, <1>10 DEF Next

LEMMA Coherence ==
    ASSUME MaxTimeouts = 0
    PROVE  Spec => [](IInv /\ CInv)
<1>1. Init => IInv /\ CInv
  BY InitIInv, InitCInv
<1>2. IInv /\ CInv /\ [Next]_vars => (IInv /\ CInv)'
  BY NextIInv, NextCInv
<1>3. QED
  BY <1>1, <1>2, PTL DEF Spec

-----------------------------------------------------------------------------
(* When no wait times out, no order of transfers (dcs_owner_transfer_page), *)
(* invalidations (dcs_invalidate_readonly_copy) and answers leaves a second *)
(* lock next to an exclusive one, whatever the number of instances.         *)
THEOREM OneWriter ==
    ASSUME MaxTimeouts = 0
    PROVE  Spec => []SingleWriter
<1>1. IInv /\ CInv => SingleWriter
  BY DEF CInv, Locks
<1>2. QED
  BY <1>1, Coherence, PTL

(* When no wait times out, whoever can use the page in memory sees the last *)
(* modification of any instance (dcs_handle_page_from_owner,                *)
(* dtc_buf_finish).                                                         *)
THEOREM LastVersionSeen ==
    ASSUME MaxTimeouts = 0
    PROVE  Spec => []Coherent
<1>1. IInv /\ CInv => Coherent
  <2> SUFFICES ASSUME IInv, CInv, NEW i \in Inst, ctrl[i].lock # LockNull, ctrl[i].load = "loaded"
               PROVE  ctrl[i].lsn = latest
    BY DEF Coherent
  <2>1. QED
    BY DEF CInv, Data, Lk
<1>2. QED
  BY <1>1, Coherence, PTL

(* When no wait times out, drc_buf_res_t names everybody who may use the    *)
(* page: no holder is missed by the next invalidation.                      *)
THEOREM MasterKnowsHolders ==
    ASSUME MaxTimeouts = 0
    PROVE  Spec => []HoldersKnown
<1>1. IInv /\ CInv => HoldersKnown
  BY DEF CInv, Locks
<1>2. QED
  BY <1>1, Coherence, PTL

(* When no wait times out, none of the panics of dcs_handle_page_from_owner *)
(* and dcs_set_ctrl4already_owner is reached: an answer finds the ctrl that *)
(* the request was made for.                                                *)
THEOREM AnswersNeverPanic ==
    ASSUME MaxTimeouts = 0
    PROVE  Spec => []AckPanics
<1>1. IInv /\ CInv => AckPanics
  <2> SUFFICES ASSUME IInv, CInv, NEW a \in acks, a.cmd \in {"page_ready", "already_owner"}
               PROVE  /\ a.cmd = "page_ready" =>
                            /\ ctrl[a.dst].lock # LockExclusive
                            /\ a.flags \cap {"need_load", "readonly2x"} = {} => a.lsn >= ctrl[a.dst].lsn
                      /\ a.cmd = "already_owner" => ~ctrl[a.dst].edp
                      /\ sess[a.dst].mode <= a.mode
    BY DEF AckPanics
  <2>1. a \in Ready
    BY DEF Ready
  <2>2. Answering
    BY <2>1 DEF CInv, Stage, Resting, Invalidating, Asking, Claiming, Recycling
  <2>3. Brings(a) /\ Current(Conv) /\ Converting(res)
    BY <2>1, <2>2 DEF Answering
  <2>4. /\ a.dst = Requester /\ Requester \in Inst /\ Requester = Conv.inst /\ Conv \in ReqInfo
        /\ latest \in Nat /\ ctrl[a.dst].lsn \in Nat /\ ctrl[a.dst].lsn <= latest
    BY <2>3, Shapes DEF Brings, Requester, Conv, CInv, Data
  <2>5. ctrl[a.dst].lock # LockExclusive
    BY <2>3, <2>4, Modes DEF Current, Lk, ReqInfo
  <2>6. a.cmd = "page_ready" /\ a.flags \cap {"need_load", "readonly2x"} = {} => a.lsn >= ctrl[a.dst].lsn
    BY <2>3, <2>4 DEF Brings
  <2>7. a.cmd = "already_owner" => ~ctrl[a.dst].edp
    BY <2>3, <2>4 DEF Brings
  <2>8. sess[a.dst].mode <= a.mode
    BY DEF IInv, AnswersCover
  <2>9. QED
    BY <2>5, <2>6, <2>7, <2>8
<1>2. QED
  BY <1>1, Coherence, PTL

LEMMA UpgradeStep ==
    ASSUME MaxTimeouts = 0, IInv, CInv, UpgradeNotBlocked, [Next]_vars
    PROVE  UpgradeNotBlocked'
<1> SUFFICES ASSUME res' # res PROVE UpgradeNotBlocked'
  BY DEF UpgradeNotBlocked
<1>1. \/ \E req \in askm : ProcessAskMaster(req)
      \/ \E t \in tasks : RequestInvalidated(t) \/ ConvertInvalidated(t)
      \/ \E c \in claims : ProcessClaim(c)
  BY DEF Next, vars, RequestPage, GiveUp, Finish, Modify, HandleAck, InvalidateCopy, TransferPage
<1>2. res \in BufRes /\ EntryOK(res) /\ NoInst \notin Inst
  BY Shapes
<1>3. ASSUME NEW req \in askm, ProcessAskMaster(req) PROVE UpgradeNotBlocked'
  <2>1. req \in ReqInfo
    BY Shapes
  <2>2. CASE MasterGrants(req)
    <3>1. res'.q = <<>>
      BY <2>2 DEF MasterGrants, GrantNew, NoBufRes
    <3>2. QED
      BY <3>1, EmptySeq DEF UpgradeNotBlocked
  <2>3. CASE MasterConverts(req)
    <3>1. ~Converting(res) /\ res'.q = res.q
      BY <1>2, <2>3, NoRetries DEF MasterConverts, Converts, StartConvert, BufRes
    <3>2. res'.q = <<>>
      BY <1>2, <3>1 DEF EntryOK
    <3>3. QED
      BY <3>2, EmptySeq DEF UpgradeNotBlocked
  <2>4. CASE MasterQueues(req)
    <3>1. Appends(res, req) /\ res' = AppendQueued(res, req)
      BY <2>4, NoRetries DEF MasterQueues, Replaces
    <3>2. /\ res'.q = Append(res.q, req) /\ res'.owner = res.owner /\ res'.conv = res.conv
          /\ res'.mode = res.mode /\ res'.copies = res.copies /\ res.q \in Seq(ReqInfo)
      BY <1>2, <3>1 DEF AppendQueued, BufRes
    <3>3. \A k \in DOMAIN res'.q : (k \in DOMAIN res.q /\ res'.q[k] = res.q[k]) \/ res'.q[k] = req
      BY <2>1, <3>2, AppendProperties
    <3>4. (/\ res.conv.inst = res.owner /\ res.mode = LockShare /\ res.conv.mode = LockExclusive)
          => req.inst \notin res.copies
      BY <1>2, <3>1 DEF Appends, Queues, Conflicting, EntryOK
    <3>5. QED
      BY <3>2, <3>3, <3>4 DEF UpgradeNotBlocked
  <2>5. QED
    BY <1>3, <2>2, <2>3, <2>4 DEF ProcessAskMaster, MasterRefuses
<1>4. ASSUME NEW t \in tasks, RequestInvalidated(t) \/ ConvertInvalidated(t) PROVE UpgradeNotBlocked'
  <2>1. res' = [res EXCEPT !.copies = {}]
    BY <1>4 DEF RequestInvalidated, ConvertInvalidated
  <2>2. res'.copies = {}
    BY <1>2, <2>1 DEF BufRes
  <2>3. QED
    BY <2>2 DEF UpgradeNotBlocked
<1>5. ASSUME NEW c \in claims, ProcessClaim(c) PROVE UpgradeNotBlocked'
  <2>1. PICK r : r = ClaimNewOwner(res, c)
    OBVIOUS
  <2>2. /\ ClaimValid(res, c) /\ r \in BufRes /\ r.q = res.q /\ r.used /\ ~r.pending
        /\ r.owner \in Inst /\ \A k \in DOMAIN r.q : r.q[k].inst # r.owner
    BY <2>1, Claimed
  <2>3. PICK expired \in 0..Len(res.q) : timeouts + expired <= MaxTimeouts /\ ConvertWaiter(r, c.inst, expired)
    BY <1>5, <2>1, <2>2 DEF ProcessClaim
  <2>4. timeouts = 0 /\ Len(res.q) \in Nat
    BY <1>2, LenProperties DEF CInv, BufRes
  <2>5. expired = 0
    BY <2>3, <2>4
  <2>6. PICK s : s = ConvertNext(r, 0)
    OBVIOUS
  <2>7. /\ s.owner = r.owner
        /\ r.q = <<>> => s.conv.inst = NoInst
        /\ r.q # <<>> => 1 \in DOMAIN r.q /\ s.conv = r.q[1]
        /\ r.q # <<>> => s.q \in Seq(ReqInfo)
    BY <2>2, <2>6, NextWaiter
  <2>8. s.conv.inst # s.owner
    BY <1>2, <2>2, <2>7
  <2>9. res' = s \/ res' = DropHead(s)
    BY <2>3, <2>5, <2>6 DEF ConvertWaiter
  <2>10. s \in BufRes
    <3>1. Entry(r)
      BY <2>1, <2>2, HandlerFinds, ClaimEntry DEF IInv, TypeOK
    <3>2. 0 \in 0..Len(r.q)
      BY <2>2, <2>4
    <3>3. Entry(s)
      BY <2>2, <2>6, <3>1, <3>2, ConvertNextEntry
    <3>4. QED
      BY <3>3 DEF Entry
  <2>11. res'.conv = s.conv /\ res'.owner = s.owner
    BY <2>9, <2>10 DEF DropHead, BufRes
  <2>12. QED
    BY <2>8, <2>11 DEF UpgradeNotBlocked
<1>6. QED
  BY <1>1, <1>3, <1>4, <1>5

(* When no wait times out, drc_check_new_req keeps the upgrade of the owner *)
(* from waiting for an instance that waits, with the latch of its copy,     *)
(* behind that upgrade in convert_q.                                        *)
THEOREM UpgradeProceeds ==
    ASSUME MaxTimeouts = 0
    PROVE  Spec => []UpgradeNotBlocked
<1>1. Init => UpgradeNotBlocked
  BY EmptySeq DEF Init, NoBufRes, UpgradeNotBlocked
<1>2. IInv /\ CInv /\ UpgradeNotBlocked /\ [Next]_vars => UpgradeNotBlocked'
  BY UpgradeStep
<1>3. QED
  BY <1>1, <1>2, Coherence, PTL DEF Spec

-----------------------------------------------------------------------------
(* The refinement: what a step does to the locks and to the versions in    *)
(* memory is a step of PageLock.                                           *)

Ver(i) == IF Lk(i) # LockNull /\ ctrl[i].load = "loaded" THEN {ctrl[i].lsn} ELSE {}

LEMMA AbstractAcquire ==
    ASSUME IInv, NEW i \in Inst, NEW mode \in {1, 2}, Lk(i) < mode,
           \A j \in Inst \ {i} : Lk(j) + mode <= 2 /\ Lk(j)' = Lk(j) /\ Ver(j)' = Ver(j),
           Lk(i)' = mode, Ver(i)' \in {{}, {latest}}, latest' = latest
    PROVE  Abstract!Next
<1>1. [j \in Inst |-> ctrl[j].lock]' = [[j \in Inst |-> ctrl[j].lock] EXCEPT ![i] = mode]
  BY DEF Lk
<1>2. PICK v \in {{}, {latest}} : Ver(i)' = v
  OBVIOUS
<1>3. [j \in Inst |-> IF ctrl[j].lock # LockNull /\ ctrl[j].load = "loaded" THEN {ctrl[j].lsn} ELSE {}]'
      = [[j \in Inst |-> IF ctrl[j].lock # LockNull /\ ctrl[j].load = "loaded" THEN {ctrl[j].lsn} ELSE {}]
            EXCEPT ![i] = v]
  BY <1>2 DEF Ver, Lk
<1>4. Abstract!Acquire(i, mode)
  BY <1>1, <1>3 DEF Abstract!Acquire, Lk
<1>5. QED
  BY <1>4 DEF Abstract!Next

LEMMA AbstractLoad ==
    ASSUME NEW i \in Inst, Lk(i) # 0, \A j \in Inst : Lk(j)' = Lk(j),
           \A j \in Inst \ {i} : Ver(j)' = Ver(j), Ver(i)' = {latest}, latest' = latest
    PROVE  Abstract!Next
<1>1. [j \in Inst |-> ctrl[j].lock]' = [j \in Inst |-> ctrl[j].lock]
  BY DEF Lk
<1>2. [j \in Inst |-> IF ctrl[j].lock # LockNull /\ ctrl[j].load = "loaded" THEN {ctrl[j].lsn} ELSE {}]'
      = [[j \in Inst |-> IF ctrl[j].lock # LockNull /\ ctrl[j].load = "loaded" THEN {ctrl[j].lsn} ELSE {}]
            EXCEPT ![i] = {latest}]
  BY DEF Ver, Lk
<1>3. Abstract!Load(i)
  BY <1>1, <1>2 DEF Abstract!Load, Lk
<1>4. QED
  BY <1>3 DEF Abstract!Next

LEMMA AbstractWeaken ==
    ASSUME NEW i \in Inst, NEW mode \in {0, 1}, mode < Lk(i), Lk(i)' = mode,
           \A j \in Inst \ {i} : Lk(j)' = Lk(j) /\ Ver(j)' = Ver(j),
           Ver(i)' = IF mode = 0 THEN {} ELSE Ver(i), latest' = latest
    PROVE  Abstract!Next
<1> DEFINE version == [j \in Inst |-> IF ctrl[j].lock # LockNull /\ ctrl[j].load = "loaded"
                                      THEN {ctrl[j].lsn} ELSE {}]
<1>1. [j \in Inst |-> ctrl[j].lock]' = [[j \in Inst |-> ctrl[j].lock] EXCEPT ![i] = mode]
  BY DEF Lk
<1>2. version' = IF mode = 0 THEN [version EXCEPT ![i] = {}] ELSE version
  <2>1. CASE mode = 0
    BY <2>1 DEF Ver, Lk
  <2>2. CASE mode # 0
    BY <2>2 DEF Ver, Lk
  <2>3. QED
    BY <2>1, <2>2
<1>3. Abstract!Weaken(i, mode)
  BY <1>1, <1>2 DEF Abstract!Weaken, Lk
<1>4. QED
  BY <1>3 DEF Abstract!Next

LEMMA AbstractWrite ==
    ASSUME NEW i \in Inst, Lk(i) = 2, Ver(i) = {latest}, latest' = latest + 1,
           \A j \in Inst : Lk(j)' = Lk(j), \A j \in Inst \ {i} : Ver(j)' = Ver(j), Ver(i)' = {latest'}
    PROVE  Abstract!Next
<1> DEFINE version == [j \in Inst |-> IF ctrl[j].lock # LockNull /\ ctrl[j].load = "loaded"
                                      THEN {ctrl[j].lsn} ELSE {}]
<1>1. [j \in Inst |-> ctrl[j].lock]' = [j \in Inst |-> ctrl[j].lock]
  BY DEF Lk
<1>2. version' = [version EXCEPT ![i] = {latest'}]
  BY DEF Ver, Lk
<1>3. version[i] = {latest}
  BY DEF Ver, Lk
<1>4. Abstract!Write(i)
  BY <1>1, <1>2, <1>3 DEF Abstract!Write, Lk
<1>5. QED
  BY <1>4 DEF Abstract!Next

LEMMA AbstractStutter ==
    ASSUME latest' = latest, \A j \in Inst : Lk(j)' = Lk(j) /\ Ver(j)' = Ver(j)
    PROVE  UNCHANGED Abstract!vars
<1>1. [j \in Inst |-> ctrl[j].lock]' = [j \in Inst |-> ctrl[j].lock]
  BY DEF Lk
<1>2. [j \in Inst |-> IF ctrl[j].lock # LockNull /\ ctrl[j].load = "loaded" THEN {ctrl[j].lsn} ELSE {}]'
      = [j \in Inst |-> IF ctrl[j].lock # LockNull /\ ctrl[j].load = "loaded" THEN {ctrl[j].lsn} ELSE {}]
  BY DEF Ver, Lk
<1>3. QED
  BY <1>1, <1>2 DEF Abstract!vars

(* A ctrl that stays as it is, or that only loses a page nobody could use, *)
(* shows nothing to PageLock.                                              *)
LEMMA SameVer ==
    ASSUME NEW j \in Inst, Lk(j)' = Lk(j),
           \/ Lk(j) = LockNull
           \/ ctrl'[j].load = ctrl[j].load /\ ctrl'[j].lsn = ctrl[j].lsn
    PROVE  Ver(j)' = Ver(j)
BY DEF Ver

(* The steps of a session.                                                 *)
LEMMA SessionRefines ==
    ASSUME IInv, CInv, CInv', NEW i \in Inst,
           \/ \E mode \in {LockShare, LockExclusive} : RequestPage(i, mode)
           \/ Finish(i) \/ Modify(i)
    PROVE  Abstract!Next \/ UNCHANGED Abstract!vars
<1>1. /\ ctrl \in [Inst -> BufCtrl] /\ latest \in Nat
      /\ \A j \in Inst : ctrl[j] \in BufCtrl /\ Lk(j) \in LockMode
  BY Shapes
<1>2. CASE \E mode \in {LockShare, LockExclusive} : RequestPage(i, mode)
  <2>1. /\ ctrl' = [ctrl EXCEPT ![i].load = IF ctrl[i].load = "loaded" THEN ctrl[i].load ELSE "need"]
        /\ sess[i].st = "idle" /\ latest' = latest
    BY <1>2 DEF RequestPage
  <2>2. Lk(i) # LockNull => ctrl[i].load = "loaded"
    BY <2>1 DEF CInv, Data
  <2>3. ASSUME NEW j \in Inst PROVE Lk(j)' = Lk(j) /\ Ver(j)' = Ver(j)
    <3>1. /\ Lk(j)' = Lk(j) /\ ctrl'[j].lsn = ctrl[j].lsn
          /\ Lk(j) = LockNull \/ ctrl'[j].load = ctrl[j].load
      BY <1>1, <2>1, <2>2 DEF Lk, BufCtrl
    <3>2. QED
      BY <3>1, SameVer
  <2>4. QED
    BY <2>1, <2>3, AbstractStutter
<1>3. CASE Finish(i)
  <2>1. /\ latest' = latest
        /\ ctrl' = [ctrl EXCEPT ![i].lsn = IF ctrl[i].load = "need" THEN disk ELSE ctrl[i].lsn,
                                ![i].load = "loaded"]
    BY <1>3 DEF Finish
  <2>2. /\ \A j \in Inst : Lk(j)' = Lk(j)
        /\ \A j \in Inst \ {i} : ctrl'[j] = ctrl[j]
        /\ ctrl'[i].load = "loaded"
    BY <1>1, <2>1 DEF Lk, BufCtrl
  <2>3. \A j \in Inst \ {i} : Ver(j)' = Ver(j)
    BY <2>2, SameVer
  <2>4. CASE Lk(i) = LockNull
    BY <2>1, <2>2, <2>3, <2>4, SameVer, AbstractStutter
  <2>5. CASE Lk(i) # LockNull
    <3>1. ctrl'[i].lsn = latest'
      BY <2>2, <2>5 DEF CInv, Data
    <3>2. Ver(i)' = {latest}
      BY <2>1, <2>2, <2>5, <3>1 DEF Ver
    <3>3. QED
      BY <2>1, <2>2, <2>3, <2>5, <3>2, Modes, AbstractLoad
  <2>6. QED
    BY <2>4, <2>5
<1>4. CASE Modify(i)
  <2>1. /\ latest' = latest + 1 /\ sess[i].st = "idle" /\ ctrl[i].lock = LockExclusive
        /\ ctrl' = [ctrl EXCEPT ![i].dirty = TRUE, ![i].lsn = latest + 1]
    BY <1>4 DEF Modify
  <2>2. /\ \A j \in Inst : Lk(j)' = Lk(j)
        /\ \A j \in Inst \ {i} : ctrl'[j] = ctrl[j]
        /\ ctrl'[i].load = ctrl[i].load /\ ctrl'[i].lsn = latest'
    BY <1>1, <2>1 DEF Lk, BufCtrl
  <2>3. ctrl[i].load = "loaded" /\ ctrl[i].lsn = latest /\ Lk(i) = 2 /\ Lk(i) # LockNull
    BY <2>1, Modes DEF CInv, Data, Lk
  <2>4. Ver(i) = {latest} /\ Ver(i)' = {latest'}
    BY <2>2, <2>3 DEF Ver
  <2>5. \A j \in Inst \ {i} : Ver(j)' = Ver(j)
    BY <2>2, SameVer
  <2>6. QED
    BY <2>1, <2>2, <2>3, <2>4, <2>5, AbstractWrite
<1>5. QED
  BY <1>2, <1>3, <1>4

(* The answers.                                                            *)
LEMMA HandleAckRefines ==
    ASSUME IInv, CInv, CInv', NEW a \in acks, HandleAck(a)
    PROVE  Abstract!Next \/ UNCHANGED Abstract!vars
<1>1. PICK i \in Inst : i = a.dst
  BY Shapes
<1>2. /\ latest' = latest /\ sess[i].st = "wait"
      /\ AckPageReady(a) \/ AckAlreadyOwner(a) \/ AckGranted(a) \/ AckError(a)
  BY <1>1, Taken DEF HandleAck
<1>3. /\ ctrl \in [Inst -> BufCtrl] /\ latest \in Nat
      /\ \A j \in Inst : ctrl[j] \in BufCtrl /\ Lk(j) \in LockMode
  BY Shapes
<1>4. CASE AckError(a)
  <2>1. ctrl' = [ctrl EXCEPT ![i].load = IF ctrl[i].load = "loaded" THEN ctrl[i].load ELSE "failed"]
    BY <1>1, <1>4 DEF AckError, LeaveFailed
  <2>2. Lk(i) # LockNull => ctrl[i].load = "loaded"
    BY <1>2 DEF CInv, Data
  <2>3. ASSUME NEW j \in Inst PROVE Lk(j)' = Lk(j) /\ Ver(j)' = Ver(j)
    <3>1. /\ Lk(j)' = Lk(j) /\ ctrl'[j].lsn = ctrl[j].lsn
          /\ Lk(j) = LockNull \/ ctrl'[j].load = ctrl[j].load
      BY <1>3, <2>1, <2>2 DEF Lk, BufCtrl
    <3>2. QED
      BY <3>1, SameVer
  <2>4. QED
    BY <1>2, <2>3, AbstractStutter
<1>5. CASE AckGranted(a)
  <2>1. ctrl' = [ctrl EXCEPT ![i] = [CleanCtrlEdp(ctrl[i]) EXCEPT !.load = "need", !.lock = LockExclusive]]
    BY <1>1, <1>5 DEF AckGranted
  <2>2. /\ \A j \in Inst \ {i} : ctrl'[j] = ctrl[j]
        /\ ctrl'[i].load = "need" /\ ctrl'[i].lock = LockExclusive
    BY <1>3, <2>1 DEF BufCtrl, CleanCtrlEdp
  <2>3. \A j \in Inst : Lk(j) = LockNull
    BY <1>5 DEF CInv, Locks, Granted, AckGranted, NobodyBut
  <2>4. Ver(i)' = {} /\ Lk(i)' = 2
    BY <2>2, Modes DEF Ver, Lk
  <2>5. \A j \in Inst \ {i} : Lk(j) + 2 <= 2 /\ Lk(j)' = Lk(j) /\ Ver(j)' = Ver(j)
    BY <2>2, <2>3, SameVer, Modes DEF Lk
  <2>6. QED
    BY <1>2, <2>3, <2>4, <2>5, Modes, AbstractAcquire
<1>6. CASE AckPageReady(a) \/ AckAlreadyOwner(a)
  <2>1. /\ Answering /\ Ready = {a} /\ Brings(a)
        /\ \A j \in Inst \ {i} : ctrl'[j] = ctrl[j]
        /\ ctrl'[i].lock = a.mode /\ ctrl'[i].load = "loaded" /\ ctrl'[i].lsn = latest
    BY <1>1, <1>6, Received
  <2>2. /\ Converting(res) /\ Current(Conv) /\ i = Requester /\ a.mode = Conv.mode
        /\ Conv.mode = LockExclusive => NobodyBut({Requester})
        /\ Conv.mode = LockShare => OwnerShares
        /\ Requester = Conv.inst
    BY <1>1, <2>1 DEF Answering, Brings, Requester, Conv
  <2>3. PICK mode \in {1, 2} : mode = Conv.mode
    BY <2>2, Shapes, Modes DEF ReqInfo
  <2>4. Lk(i) < mode
    BY <2>2, <2>3 DEF Current
  <2>5. Lk(i)' = mode /\ Ver(i)' = {latest}
    BY <2>1, <2>2, <2>3, Modes DEF Ver, Lk
  <2>6. ASSUME NEW j \in Inst \ {i} PROVE Lk(j) + mode <= 2 /\ Lk(j)' = Lk(j) /\ Ver(j)' = Ver(j)
    <3>1. Lk(j)' = Lk(j) /\ Ver(j)' = Ver(j)
      BY <2>1, SameVer DEF Lk
    <3>2. CASE mode = 2
      BY <2>2, <2>3, <3>1, <3>2, Modes DEF NobodyBut
    <3>3. CASE mode = 1
      <4>1. Lk(j) # LockExclusive /\ Lk(j) \in LockMode
        BY <1>3, <2>2, <2>3, <3>3, Modes DEF OwnerShares
      <4>2. QED
        BY <3>1, <3>3, <4>1, Modes DEF LockMode
    <3>4. QED
      BY <3>1, <3>2, <3>3
  <2>7. QED
    BY <1>2, <2>4, <2>5, <2>6, AbstractAcquire
<1>7. QED
  BY <1>2, <1>4, <1>5, <1>6

(* An instance loses the page: a copy is invalidated, or the owner sends   *)
(* the page.                                                               *)
LEMMA LosesRefines ==
    ASSUME IInv, NEW i \in Inst, latest' = latest,
           \A j \in Inst \ {i} : ctrl'[j] = ctrl[j],
           \/ Lk(i)' = LockNull
           \/ /\ Lk(i) # LockNull /\ Lk(i)' = LockShare
              /\ ctrl'[i].load = ctrl[i].load /\ ctrl'[i].lsn = ctrl[i].lsn
    PROVE  Abstract!Next \/ UNCHANGED Abstract!vars
<1>1. Lk(i) \in LockMode
  BY Shapes
<1>2. \A j \in Inst \ {i} : Lk(j)' = Lk(j) /\ Ver(j)' = Ver(j)
  BY SameVer DEF Lk
<1>3. CASE Lk(i)' = Lk(i)
  BY <1>2, <1>3, SameVer, AbstractStutter, Modes
<1>4. CASE Lk(i)' # Lk(i) /\ Lk(i)' = LockNull
  <2>1. 0 < Lk(i) /\ Lk(i)' = 0
    BY <1>1, <1>4, Modes DEF LockMode
  <2>2. Ver(i)' = {}
    BY <1>4 DEF Ver
  <2>3. QED
    BY <1>2, <2>1, <2>2, AbstractWeaken
<1>5. CASE Lk(i)' # Lk(i) /\ Lk(i)' # LockNull
  <2>1. 1 < Lk(i) /\ Lk(i)' = 1
    BY <1>1, <1>5, Modes DEF LockMode
  <2>2. Ver(i)' = Ver(i)
    BY <1>5 DEF Ver
  <2>3. QED
    BY <1>2, <2>1, <2>2, AbstractWeaken
<1>6. QED
  BY <1>3, <1>4, <1>5

LEMMA InvalidateRefines ==
    ASSUME IInv, CInv, NEW t \in tasks, NEW i \in Inst, InvalidateCopy(t, i)
    PROVE  Abstract!Next \/ UNCHANGED Abstract!vars
<1>1. /\ latest' = latest
      /\ \/ ctrl' = ctrl
         \/ ctrl' = [ctrl EXCEPT ![i] = InvalidateCtrl(ctrl[i])]
  BY DEF InvalidateCopy
<1>2. ctrl \in [Inst -> BufCtrl] /\ ctrl[i] \in BufCtrl
  BY Shapes
<1>3. CASE ctrl' = ctrl
  BY <1>1, <1>3, SameVer, AbstractStutter DEF Lk
<1>4. CASE ctrl' = [ctrl EXCEPT ![i] = InvalidateCtrl(ctrl[i])]
  <2>1. Lk(i)' = LockNull /\ \A j \in Inst \ {i} : ctrl'[j] = ctrl[j]
    BY <1>2, <1>4 DEF InvalidateCtrl, BufCtrl, Lk
  <2>2. QED
    BY <1>1, <2>1, LosesRefines
<1>5. QED
  BY <1>1, <1>3, <1>4

LEMMA TransferRefines ==
    ASSUME IInv, CInv, NEW m \in asko, TransferPage(m)
    PROVE  Abstract!Next \/ UNCHANGED Abstract!vars
<1>1. PICK o \in Inst : o = res.owner
  BY OwnerSends
<1>2. /\ Asking /\ Lk(o) # LockNull /\ ~ctrl[o].edp /\ latest' = latest
      /\ ctrl' = [ctrl EXCEPT ![o] = AfterTransfer(ctrl[o], Conv.mode)]
  BY <1>1, OwnerSends
<1>3. ctrl \in [Inst -> BufCtrl] /\ ctrl[o] \in BufCtrl /\ Conv.mode \in {LockShare, LockExclusive}
  BY <1>2, Shapes DEF Asking, ReqInfo
<1>4. PICK d : d = AfterTransfer(ctrl[o], Conv.mode)
  OBVIOUS
<1>5. ctrl'[o] = d /\ \A j \in Inst \ {o} : ctrl'[j] = ctrl[j]
  BY <1>2, <1>3, <1>4
<1>6. CtrlIsOwner(ctrl[o])
  BY <1>2 DEF CtrlIsOwner, Lk
<1>7. \/ d.lock = LockNull
      \/ d.lock = LockShare /\ d.load = ctrl[o].load /\ d.lsn = ctrl[o].lsn
  <2>1. CASE Conv.mode = LockExclusive
    BY <1>3, <1>4, <1>6, <2>1, Modes DEF AfterTransfer, InvalidateCtrl, BufCtrl
  <2>2. CASE Conv.mode = LockShare
    BY <1>3, <1>4, <1>6, <2>2, Modes DEF AfterTransfer, BufCtrl
  <2>3. QED
    BY <1>3, <2>1, <2>2
<1>8. QED
  BY <1>2, <1>5, <1>7, LosesRefines DEF Lk

LEMMA NextRefines ==
    ASSUME MaxTimeouts = 0, IInv, CInv, CInv', [Next]_vars
    PROVE  [Abstract!Next]_(Abstract!vars)
<1>1. ASSUME UNCHANGED <<ctrl, latest>> PROVE UNCHANGED Abstract!vars
  BY <1>1, SameVer, AbstractStutter DEF Lk
<1>2. ASSUME NEW i \in Inst, GiveUp(i) PROVE FALSE
  BY <1>2 DEF CInv, GiveUp
<1>3. ASSUME \/ \E req \in askm : ProcessAskMaster(req)
             \/ \E t \in tasks : RequestInvalidated(t) \/ ConvertInvalidated(t)
             \/ \E c \in claims : ProcessClaim(c)
             \/ UNCHANGED vars
      PROVE  UNCHANGED <<ctrl, latest>>
  BY <1>3 DEF ProcessAskMaster, RequestInvalidated, ConvertInvalidated, ProcessClaim, vars
<1>4. QED
  BY <1>1, <1>2, <1>3, SessionRefines, HandleAckRefines, InvalidateRefines, TransferRefines DEF Next

(* When no wait times out, the cache service implements PageLock for any   *)
(* number of instances: no step of dtc_dcs.c takes a lock while another    *)
(* instance has a conflicting one, and no version is read or built on that *)
(* is not the last.                                                        *)
THEOREM PageServiceImplements ==
    ASSUME MaxTimeouts = 0
    PROVE  Spec => ImplementsPageLock
<1>1. Init => Abstract!Init
  BY Modes DEF Init, NoCtrl, Abstract!Init
<1>2. IInv /\ CInv /\ (IInv /\ CInv)' /\ [Next]_vars => [Abstract!Next]_(Abstract!vars)
  BY NextRefines
<1>3. QED
  BY <1>1, <1>2, Coherence, PTL DEF Spec, ImplementsPageLock, Abstract!Spec

=============================================================================

------------------------ MODULE SmonDeadlock_proofs ------------------------
(***************************************************************************)
(* The deadlock search of SmonDeadlock for any number of instances and     *)
(* sessions: its types, and that a wait is failed only for a ring that     *)
(* existed, although the waits change while smon follows them.             *)
(***************************************************************************)
EXTENDS SmonDeadlock, TLAPS, FiniteSetTheorems, WellFoundedInduction

-----------------------------------------------------------------------------
(* The types, as an inductive invariant.                                   *)

(* Only an active transaction waits, and for one that has begun.           *)
WaitsOK ==
    \A s \in Session : wait[s] # NoWait =>
        /\ wait[s].on \in Session
        /\ wait[s].xnum <= txn[wait[s].on].xnum
        /\ txn[s].active

Budget == /\ used["txn"] <= MaxTxns
          /\ \A s \in Session : txn[s].xnum <= used["txn"]

(* The sessions that a search has read lead to one another, or to the one  *)
(* it reads next.  What it has read of them is not from the future.        *)
Seen(d) == {s \in Session : d.shot[s] # NoDlock}
Chained(d) == \A s \in Seen(d) : /\ d.shot[s].on \in Session
                                 /\ d.shot[s].on \in Seen(d) \/ d.shot[s].on = d.at
Past(d) == \A s \in Seen(d) : /\ d.shot[s].lsn <= lsn[s]
                              /\ d.shot[s].xnum <= txn[d.shot[s].on].xnum

SearchOK(i, d) ==
    /\ d.pc = "loop" => d.shot = NoShot
    /\ d.pc = "walk" => d.at \in Session
    /\ d.pc \in {"recheck", "look", "flag"} =>
          /\ d.begin \in Local(i) \cap Seen(d)
          /\ d.at \in Seen(d)
    /\ d.pc = "flag" => SidOf(d.at) = SidOf(d.begin)
    /\ Chained(d)
    /\ Past(d)

Searches == \A i \in Inst : SearchOK(i, det[i])

TInv == SmonTypeOK /\ WaitsOK /\ Budget /\ Searches

-----------------------------------------------------------------------------
(* Rings, as an inductive invariant.                                       *)

(* A session waits as it did when the search read it.                      *)
Same(d, s) == Read(s) = d.shot[s]
Good(d, s) == Same(d, s) /\ ~Ended(d.shot[s].on, d.shot[s].xnum)

(* p is the way that the recheck has come.                                 *)
Way(d, m, p) ==
    /\ p \in [0 .. m -> Session]
    /\ p[0] = d.begin /\ p[m] = d.at
    /\ \A k \in 0 .. m : p[k] \in Seen(d)
    /\ \A k \in 0 .. m - 1 : p[k + 1] = d.shot[p[k]].on
AllGood(d, m, p) == \A k \in 0 .. m - 1 : Good(d, p[k])

(* The recheck has seen no real ring so far: then the sessions behind it   *)
(* still wait as it has seen them wait, or it will not get further, since  *)
(* the transaction that it comes to, or looks at, has ended.  Only the     *)
(* comparison of sids can still make it succeed, at another session.       *)
Behind(d) ==
    /\ d.pc = "recheck" =>
          \E m \in Nat : \E p : /\ Way(d, m, p)
                                /\ \/ AllGood(d, m, p)
                                   \/ d.shot[d.at].lsn < lsn[d.at]
    /\ d.pc = "look" =>
          \E m \in Nat : \E p : /\ Way(d, m, p)
                                /\ \/ AllGood(d, m, p) /\ Same(d, d.at)
                                   \/ Ended(d.shot[d.at].on, d.shot[d.at].xnum)
    /\ d.pc = "flag" => d.at # d.begin

Rechecking(d) == d.pc \in {"recheck", "look", "flag"}

(* ring records a ring through the session where the recheck began.        *)
Recorded(d) == Rechecking(d) /\ InRing(wait, d.begin) => d.ring

RInv == \A i \in Inst : Recorded(det[i]) /\ (det[i].ring \/ Behind(det[i]))

-----------------------------------------------------------------------------
(* Numbers and paths.                                                      *)

LEMMA Least ==
    ASSUME NEW T, T \subseteq Nat, T # {}
    PROVE  \E x \in T : \A y \in T : x <= y
<1>1. PICK x \in T : \A y \in T : ~(<<y, x>> \in OpToRel(<, Nat))
  BY NatLessThanWellFounded, WFMin
<1>2. ASSUME NEW y \in T PROVE x <= y
  <2>1. ~(<<y, x>> \in OpToRel(<, Nat))
    BY <1>1
  <2>2. y < x => <<y, x>> \in OpToRel(<, Nat)
    BY DEF OpToRel
  <2>3. x \in Nat /\ y \in Nat /\ ~(y < x)
    BY <2>1, <2>2
  <2>4. QED
    BY <2>3
<1>3. QED
  BY <1>2

LEMMA SessionCount == Cardinality(Session) \in Nat
BY SessionAssumption, FS_CardinalityType

(* A path of waits of any length contains one that is no longer than there *)
(* are sessions: a session that is met twice is cut out.                   *)
Path(w, s, t, k, p) ==
    /\ p \in [0 .. k -> Session]
    /\ p[0] = s /\ p[k] = t
    /\ \A j \in 0 .. k - 1 : WaitsFor(w, p[j], p[j + 1])

LEMMA CutPath ==
    ASSUME NEW w, NEW s, NEW t, NEW k \in Nat, NEW p, Path(w, s, t, k, p),
           NEW a \in 0 .. k - 1, NEW b \in 0 .. k - 1, a < b, p[a] = p[b]
    PROVE  \E q : Path(w, s, t, k - (b - a), q)
<1> DEFINE c == b - a
           l == k - c
           q == [j \in 0 .. l |-> IF j <= a THEN p[j] ELSE p[j + c]]
<1>1. c \in Nat /\ c > 0 /\ l \in Nat /\ l > a /\ l < k /\ l + c = k
  OBVIOUS
<1>2. \A j \in 0 .. l : j \in 0 .. k /\ j + c \in 0 .. k
  BY <1>1
<1>3. q \in [0 .. l -> Session]
  BY <1>2 DEF Path
<1>4. q[0] = s /\ q[l] = t
  BY <1>1 DEF Path
<1>5. ASSUME NEW j \in 0 .. l - 1 PROVE WaitsFor(w, q[j], q[j + 1])
  <2>0. j \in 0 .. l /\ j + 1 \in 0 .. l /\ j \in 0 .. k - 1 /\ j + c \in 0 .. k - 1
    BY <1>1
  <2>1. CASE j < a
    <3>1. q[j] = p[j] /\ q[j + 1] = p[j + 1]
      BY <2>0, <2>1
    <3>2. QED
      BY <2>0, <3>1 DEF Path
  <2>2. CASE j = a
    <3>1. q[j] = p[b] /\ q[j + 1] = p[b + 1]
      BY <2>0, <2>2, <1>1
    <3>2. QED
      BY <3>1 DEF Path
  <2>3. CASE j > a
    <3>1. q[j] = p[j + c] /\ q[j + 1] = p[(j + c) + 1]
      BY <2>0, <2>3, <1>1
    <3>2. QED
      BY <2>0, <3>1 DEF Path
  <2>4. QED
    BY <2>0, <2>1, <2>2, <2>3
<1>6. Path(w, s, t, l, q)
  BY <1>3, <1>4, <1>5 DEF Path
<1>7. QED
  BY <1>6

LEMMA LeadsByPath ==
    ASSUME NEW w, NEW s, NEW t, NEW m \in Nat, m > 0, NEW r, Path(w, s, t, m, r)
    PROVE  Leads(w, s, t)
<1> DEFINE n == Cardinality(Session)
           T == {k \in Nat : k > 0 /\ \E p : Path(w, s, t, k, p)}
<1>1. n \in Nat
  BY SessionCount
<1>2. PICK k \in T : \A y \in T : k <= y
  <2>1. T \subseteq Nat /\ m \in T
    OBVIOUS
  <2>2. QED
    BY <2>1, Least
<1>3. PICK p : Path(w, s, t, k, p)
  OBVIOUS
<1>4. k <= n
  <2>1. SUFFICES ASSUME k > n PROVE FALSE
    BY <1>1, <1>2
  <2>2. /\ IsFiniteSet(0 .. k - 1) /\ Cardinality(0 .. k - 1) = k
    BY <1>2, FS_Interval
  <2>3. PICK f : f = [j \in 0 .. k - 1 |-> p[j]]
    OBVIOUS
  <2>4. f \in [0 .. k - 1 -> Session]
    BY <1>2, <1>3, <2>3 DEF Path
  <2>5. PICK a, b \in 0 .. k - 1 : a # b /\ f[a] = f[b]
    BY <2>1, <2>2, <2>4, FS_PigeonHole, SessionAssumption
  <2>6. \E c, d \in 0 .. k - 1 : c < d /\ p[c] = p[d]
    <3>1. p[a] = p[b] /\ (a < b \/ b < a)
      BY <2>3, <2>5
    <3>2. QED
      BY <3>1
  <2>7. PICK c, d \in 0 .. k - 1 : c < d /\ p[c] = p[d]
    BY <2>6
  <2>8. PICK q : Path(w, s, t, k - (d - c), q)
    BY <1>2, <1>3, <2>7, CutPath
  <2>9. k - (d - c) \in Nat /\ k - (d - c) > 0 /\ k - (d - c) < k
    BY <1>2, <2>7
  <2>10. k - (d - c) \in T
    BY <2>8, <2>9
  <2>11. QED
    BY <1>2, <2>9, <2>10
<1>5. QED
  BY <1>1, <1>2, <1>3, <1>4 DEF Leads, Path

(* The walk of FindFirstLocal stays in a set that the shots do not leave.  *)
Walked(shot, s, w) ==
    w = [k \in 0 .. Cardinality(Session) |-> IF k = 0 THEN s ELSE shot[w[k - 1]].on]

LEMMA WalkExists ==
    ASSUME NEW shot, NEW V, NEW s \in V, \A t \in V : shot[t].on \in V
    PROVE  \E w : Walked(shot, s, w)
<1> DEFINE n == Cardinality(Session)
           Step(m, f) == /\ f \in [0 .. m -> V] /\ f[0] = s
                         /\ \A k \in 1 .. m : f[k] = shot[f[k - 1]].on
           T == {m \in Nat : ~(\E f : Step(m, f))}
<1>0. n \in Nat
  BY SessionCount
<1>1. T = {}
  <2>1. SUFFICES ASSUME T # {} PROVE FALSE
    OBVIOUS
  <2>2. PICK m \in T : \A y \in T : m <= y
    <3>1. T \subseteq Nat
      OBVIOUS
    <3>2. QED
      BY <2>1, <3>1, Least
  <2>3. m # 0
    <3>1. PICK f : f = [k \in 0 .. 0 |-> s]
      OBVIOUS
    <3>2. Step(0, f)
      BY <3>1
    <3>3. QED
      BY <3>2
  <2>4. m - 1 \in Nat /\ ~(m - 1 \in T)
    <3>1. m \in Nat /\ m - 1 \in Nat
      BY <2>2, <2>3
    <3>2. m - 1 \in T => m <= m - 1
      BY <2>2
    <3>3. ~(m <= m - 1)
      BY <3>1
    <3>4. QED
      BY <3>1, <3>2, <3>3
  <2>5. PICK f : Step(m - 1, f)
    BY <2>4
  <2>6. PICK g : g = [k \in 0 .. m |-> IF k = m THEN shot[f[m - 1]].on ELSE f[k]]
    OBVIOUS
  <2>7. f[m - 1] \in V /\ shot[f[m - 1]].on \in V
    BY <2>4, <2>5
  <2>8. \A k \in 0 .. m : k # m => k \in 0 .. m - 1
    BY <2>2
  <2>9. g \in [0 .. m -> V] /\ g[0] = s
    BY <2>2, <2>3, <2>5, <2>6, <2>7, <2>8
  <2>10. ASSUME NEW k \in 1 .. m PROVE g[k] = shot[g[k - 1]].on
    <3>1. k \in 0 .. m /\ k - 1 \in 0 .. m /\ k - 1 # m
      BY <2>2
    <3>2. g[k - 1] = f[k - 1]
      BY <2>6, <3>1
    <3>3. CASE k = m
      BY <2>6, <3>1, <3>2, <3>3
    <3>4. CASE k # m
      <4>1. k \in 1 .. m - 1 /\ g[k] = f[k]
        BY <2>2, <2>6, <3>1, <3>4
      <4>2. QED
        BY <2>5, <3>2, <4>1
    <3>5. QED
      BY <3>3, <3>4
  <2>11. Step(m, g)
    BY <2>9, <2>10
  <2>12. QED
    BY <2>2, <2>11
<1>2. PICK f : Step(n, f)
  BY <1>0, <1>1
<1>3. f = [k \in 0 .. n |-> IF k = 0 THEN s ELSE shot[f[k - 1]].on]
  <2>1. \A k \in 0 .. n : f[k] = IF k = 0 THEN s ELSE shot[f[k - 1]].on
    BY <1>0, <1>2
  <2>2. QED
    BY <1>2, <2>1
<1>4. QED
  BY <1>3 DEF Walked

LEMMA WalkStays ==
    ASSUME NEW shot, NEW V, NEW s \in V, \A t \in V : shot[t].on \in V,
           NEW w, Walked(shot, s, w), NEW j \in 0 .. Cardinality(Session)
    PROVE  w[j] \in V
<1> DEFINE n == Cardinality(Session)
           T == {k \in 0 .. n : w[k] \notin V}
<1>0. n \in Nat
  BY SessionCount
<1>1. SUFFICES ASSUME T # {} PROVE FALSE
  OBVIOUS
<1>2. PICK k \in T : \A y \in T : k <= y
  <2>1. T \subseteq Nat
    BY <1>0
  <2>2. QED
    BY <1>1, <2>1, Least
<1>3. \A l \in 0 .. n : w[l] = IF l = 0 THEN s ELSE shot[w[l - 1]].on
  BY DEF Walked
<1>4. k # 0
  BY <1>0, <1>3
<1>5. k - 1 \in 0 .. n /\ ~(k - 1 \in T)
  BY <1>0, <1>2, <1>4
<1>6. w[k - 1] \in V
  BY <1>5
<1>7. QED
  BY <1>3, <1>4, <1>6

LEMMA FirstLocal ==
    ASSUME NEW i, NEW shot, NEW V, NEW s \in V, \A t \in V : shot[t].on \in V,
           FindFirstLocal(i, shot, s) # NoSession
    PROVE  /\ FindFirstLocal(i, shot, s) \in V
           /\ InstOf(FindFirstLocal(i, shot, s)) = i
<1> DEFINE n == Cardinality(Session)
           walk == CHOOSE w : Walked(shot, s, w)
           stops(k) == SidOf(shot[walk[k]].on) = SidOf(s)
           found == {k \in 1 .. n : /\ InstOf(walk[k]) = i
                                    /\ \A j \in 0 .. k - 1 : ~stops(j)}
<1>0. n \in Nat
  BY SessionCount
<1>1. FindFirstLocal(i, shot, s) =
          IF found = {} THEN NoSession
          ELSE walk[CHOOSE k \in found : \A j \in found : k <= j]
  BY DEF FindFirstLocal, Walked
<1>2. Walked(shot, s, walk)
  BY WalkExists
<1>3. found # {} /\ found \subseteq Nat
  <2>1. found # {}
    BY <1>1
  <2>2. found \subseteq 1 .. n /\ 1 .. n \subseteq Nat
    BY <1>0
  <2>3. QED
    BY <2>1, <2>2
<1>4. \E k \in found : \A j \in found : k <= j
  BY <1>3, Least
<1>5. PICK k \in found : FindFirstLocal(i, shot, s) = walk[k]
  BY <1>1, <1>3, <1>4
<1>6. k \in 0 .. n /\ InstOf(walk[k]) = i
  BY <1>0
<1>7. walk[k] \in V
  BY <1>2, <1>6, WalkStays
<1>8. QED
  BY <1>5, <1>6, <1>7

-----------------------------------------------------------------------------
(* Types.                                                                  *)

LEMMA InitTypes == Init => TInv
<1> SUFFICES ASSUME Init PROVE TInv
  OBVIOUS
<1>1. NoDlock \in Dlock /\ NoWait \in Wait /\ NoShot \in [Session -> Dlock]
  BY DEF NoDlock, Dlock, NoWait, Wait, NoShot
<1>2. NewRound \in Det
  BY <1>1 DEF NewRound, Det
<1>3. SmonTypeOK
  <2>1. txn \in [Session -> [xnum : 0 .. MaxTxns, active : BOOLEAN]]
    BY BoundsAssumption DEF Init
  <2>2. det \in [Inst -> Det] /\ \A i \in Inst : det[i].begin = NoSession
    BY <1>2 DEF Init, NewRound
  <2>3. wait \in [Session -> Wait] /\ lsn \in [Session -> Nat] /\ dead \in [Session -> BOOLEAN]
    BY <1>1 DEF Init
  <2>4. used \in [{"wait", "txn", "fault"} -> Nat]
    BY DEF Init
  <2>5. QED
    BY <2>1, <2>2, <2>3, <2>4 DEF SmonTypeOK
<1>4. WaitsOK /\ Budget
  BY BoundsAssumption DEF Init, WaitsOK, Budget
<1>5. ASSUME NEW i \in Inst PROVE SearchOK(i, det[i])
  <2>1. det[i] = NewRound /\ NewRound.pc = "loop" /\ NewRound.shot = NoShot
    BY DEF Init, NewRound
  <2>2. Seen(det[i]) = {}
    BY <2>1 DEF Seen, NoShot
  <2>3. QED
    BY <2>1, <2>2 DEF SearchOK, Chained, Past
<1>6. QED
  BY <1>3, <1>4, <1>5 DEF TInv, Searches

(* The parts of a search that types are about.                             *)
LEMMA DetFacts ==
    ASSUME SmonTypeOK, NEW i \in Inst
    PROVE  /\ det[i] \in Det
           /\ det[i].pc \in {"loop", "walk", "recheck", "look", "flag"}
           /\ det[i].at \in Session \cup {NoSession}
           /\ det[i].begin \in Session \cup {NoSession}
           /\ det[i].marks \subseteq {SidOf(s) : s \in Session}
           /\ det[i].shot \in [Session -> Dlock]
           /\ det[i].ring \in BOOLEAN
BY DEF SmonTypeOK, Det

(* A step of a session: the searches keep all but ring.                    *)
Kept(d, e) == /\ e.pc = d.pc /\ e.at = d.at /\ e.begin = d.begin
              /\ e.shot = d.shot /\ e.marks = d.marks

LEMMA SearchesStay ==
    ASSUME SmonTypeOK, SmonTypeOK', Searches,
           \A i \in Inst : Kept(det[i], det'[i]),
           \A s \in Session : lsn[s] <= lsn'[s] /\ txn[s].xnum <= txn'[s].xnum
    PROVE  Searches'
<1> SUFFICES ASSUME NEW i \in Inst PROVE SearchOK(i, det[i])'
  BY DEF Searches
<1>1. SearchOK(i, det[i]) /\ Kept(det[i], det'[i])
  BY DEF Searches
<1>2. Seen(det[i])' = Seen(det[i])
  BY <1>1 DEF Kept, Seen
<1>3. Chained(det[i])'
  BY <1>1, <1>2 DEF SearchOK, Chained, Kept
<1>4. Past(det[i])'
  <2>1. SUFFICES ASSUME NEW s \in Seen(det[i])
                 PROVE  /\ det[i].shot[s].lsn <= lsn'[s]
                        /\ det[i].shot[s].xnum <= txn'[det[i].shot[s].on].xnum
    BY <1>1, <1>2 DEF Past, Kept
  <2>2. s \in Session /\ det[i].shot[s] \in Dlock /\ det[i].shot[s].on \in Session
    BY <1>1, DetFacts DEF SearchOK, Chained, Seen
  <2>3. /\ det[i].shot[s].lsn <= lsn[s]
        /\ det[i].shot[s].xnum <= txn[det[i].shot[s].on].xnum
    BY <1>1 DEF SearchOK, Past
  <2>4. /\ det[i].shot[s].lsn \in Nat /\ det[i].shot[s].xnum \in Nat
        /\ \A u \in Session : /\ lsn[u] \in Nat /\ lsn'[u] \in Nat
                              /\ txn[u].xnum \in Nat /\ txn'[u].xnum \in Nat
    BY <2>2, BoundsAssumption DEF SmonTypeOK, Dlock
  <2>5. QED
    BY <2>2, <2>3, <2>4
<1>5. QED
  BY <1>1, <1>2, <1>3, <1>4 DEF SearchOK, Kept

LEMMA BeginWaitTypes ==
    ASSUME TInv, NEW s \in Session, NEW t \in Session, BeginWait(s, t)
    PROVE  TInv' /\ \A i \in Inst : Kept(det[i], det'[i])
<1>1. SmonTypeOK /\ WaitsOK /\ Budget /\ Searches
  BY DEF TInv
<1>2. \A i \in Inst : Kept(det[i], det'[i]) /\ det'[i] \in Det
  <2>1. SUFFICES ASSUME NEW i \in Inst PROVE Kept(det[i], det'[i]) /\ det'[i] \in Det
    OBVIOUS
  <2>2. PICK b \in BOOLEAN : b = (det[i].ring \/ InRing(wait', det[i].begin))
    OBVIOUS
  <2>3. det'[i] = det[i] \/ det'[i] = [det[i] EXCEPT !.ring = b]
    BY <2>2 DEF BeginWait
  <2>4. QED
    BY <1>1, <2>3, DetFacts DEF Kept, Det
<1>3. DOMAIN det' = Inst /\ det' = [i \in Inst |-> det'[i]]
  BY DEF BeginWait
<1>4. det' \in [Inst -> Det]
  BY <1>2, <1>3
<1>5. wait' \in [Session -> Wait]
  BY <1>1, BoundsAssumption DEF BeginWait, SmonTypeOK, Wait
<1>6. dead' \in [Session -> BOOLEAN] /\ used' \in [{"wait", "txn", "fault"} -> Nat]
  BY <1>1 DEF BeginWait, SmonTypeOK
<1>7. \A i \in Inst : det'[i].begin \in Local(i) \cup {NoSession}
  BY <1>1, <1>2 DEF SmonTypeOK, Kept
<1>8. SmonTypeOK'
  BY <1>1, <1>4, <1>5, <1>6, <1>7 DEF SmonTypeOK, BeginWait
<1>9. \A u \in Session : lsn[u] <= lsn'[u] /\ txn[u].xnum <= txn'[u].xnum
  BY <1>1, BoundsAssumption DEF BeginWait, SmonTypeOK
<1>10. Searches'
  BY <1>1, <1>2, <1>8, <1>9, SearchesStay
<1>11. WaitsOK'
  BY <1>1, BoundsAssumption DEF WaitsOK, BeginWait, SmonTypeOK
<1>12. Budget'
  BY <1>1 DEF Budget, BeginWait, SmonTypeOK
<1>13. QED
  BY <1>2, <1>8, <1>10, <1>11, <1>12 DEF TInv

LEMMA FailsTypes ==
    ASSUME TInv, NEW s \in Session, Fails(s),
           used' \in [{"wait", "txn", "fault"} -> Nat], used'["txn"] = used["txn"]
    PROVE  TInv' /\ \A i \in Inst : Kept(det[i], det'[i])
<1>1. SmonTypeOK /\ WaitsOK /\ Budget /\ Searches
  BY DEF TInv
<1>2. \A i \in Inst : Kept(det[i], det'[i]) /\ det'[i] \in Det
  <2>1. SUFFICES ASSUME NEW i \in Inst PROVE Kept(det[i], det'[i]) /\ det'[i] \in Det
    OBVIOUS
  <2>2. PICK b \in BOOLEAN : b = (det[i].ring \/ det[i].shot[s] # NoDlock)
    OBVIOUS
  <2>3. det'[i] = [det[i] EXCEPT !.ring = b]
    BY <2>2 DEF Fails
  <2>4. QED
    BY <1>1, <2>3, DetFacts DEF Kept, Det
<1>3. DOMAIN det' = Inst /\ det' = [i \in Inst |-> det'[i]]
  BY DEF Fails
<1>4. det' \in [Inst -> Det]
  BY <1>2, <1>3
<1>5. wait' \in [Session -> Wait]
  BY <1>1 DEF Fails, SmonTypeOK, Wait, NoWait
<1>6. dead' \in [Session -> BOOLEAN]
  BY <1>1 DEF Fails, SmonTypeOK
<1>7. \A i \in Inst : det'[i].begin \in Local(i) \cup {NoSession}
  BY <1>1, <1>2 DEF SmonTypeOK, Kept
<1>8. SmonTypeOK'
  BY <1>1, <1>4, <1>5, <1>6, <1>7 DEF SmonTypeOK, Fails
<1>9. \A u \in Session : lsn[u] <= lsn'[u] /\ txn[u].xnum <= txn'[u].xnum
  BY <1>1, BoundsAssumption DEF Fails, SmonTypeOK
<1>10. Searches'
  BY <1>1, <1>2, <1>8, <1>9, SearchesStay
<1>11. WaitsOK'
  BY <1>1 DEF WaitsOK, Fails, SmonTypeOK
<1>12. Budget'
  BY <1>1 DEF Budget, Fails, SmonTypeOK
<1>13. QED
  BY <1>2, <1>8, <1>10, <1>11, <1>12 DEF TInv

LEMMA WaitSucceedsTypes ==
    ASSUME TInv, NEW s \in Session, WaitSucceeds(s)
    PROVE  TInv'
<1>1. SmonTypeOK /\ WaitsOK /\ Budget /\ Searches
  BY DEF TInv
<1>2. \A i \in Inst : Kept(det[i], det'[i])
  BY DEF WaitSucceeds, Kept
<1>5. wait' \in [Session -> Wait]
  BY <1>1 DEF WaitSucceeds, SmonTypeOK, Wait, NoWait
<1>6. dead' \in [Session -> BOOLEAN] /\ lsn' \in [Session -> Nat]
  BY <1>1 DEF WaitSucceeds, SmonTypeOK
<1>8. SmonTypeOK'
  BY <1>1, <1>5, <1>6 DEF SmonTypeOK, WaitSucceeds
<1>9. \A u \in Session : lsn[u] <= lsn'[u] /\ txn[u].xnum <= txn'[u].xnum
  BY <1>1, BoundsAssumption DEF WaitSucceeds, SmonTypeOK
<1>10. Searches'
  BY <1>1, <1>2, <1>8, <1>9, SearchesStay
<1>11. WaitsOK'
  BY <1>1 DEF WaitsOK, WaitSucceeds, SmonTypeOK
<1>12. Budget'
  BY <1>1 DEF Budget, WaitSucceeds, SmonTypeOK
<1>13. QED
  BY <1>8, <1>10, <1>11, <1>12 DEF TInv

LEMMA TxnStepTypes ==
    ASSUME TInv, NEW s \in Session, EndTxn(s) \/ BeginTxn(s)
    PROVE  TInv'
<1>1. SmonTypeOK /\ WaitsOK /\ Budget /\ Searches
  BY DEF TInv
<1>2. \A i \in Inst : Kept(det[i], det'[i])
  BY DEF EndTxn, BeginTxn, Kept
<1>3. \A u \in Session : txn[u].xnum \in Nat /\ txn[u].xnum <= MaxTxns
  BY <1>1, BoundsAssumption DEF SmonTypeOK
<1>4. /\ \A u \in Session : /\ txn'[u].xnum \in Nat /\ txn[u].xnum <= txn'[u].xnum
                            /\ lsn[u] <= lsn'[u]
      /\ lsn' \in [Session -> Nat] /\ used' \in [{"wait", "txn", "fault"} -> Nat]
  BY <1>1, <1>3 DEF EndTxn, BeginTxn, SmonTypeOK
<1>5. Budget'
  BY <1>1, <1>3, BoundsAssumption DEF Budget, EndTxn, BeginTxn, SmonTypeOK
<1>6. txn' \in [Session -> [xnum : 0 .. MaxTxns, active : BOOLEAN]]
  <2>1. CASE EndTxn(s)
    BY <1>1, <2>1 DEF EndTxn, SmonTypeOK
  <2>2. CASE BeginTxn(s)
    <3>1. txn[s].xnum + 1 \in 0 .. MaxTxns
      BY <1>1, <1>3, <2>2, BoundsAssumption DEF Budget, BeginTxn, SmonTypeOK
    <3>2. QED
      BY <1>1, <2>2, <3>1 DEF BeginTxn, SmonTypeOK
  <2>3. QED
    BY <2>1, <2>2
<1>8. SmonTypeOK'
  BY <1>1, <1>4, <1>6 DEF SmonTypeOK, EndTxn, BeginTxn
<1>10. Searches'
  BY <1>1, <1>2, <1>4, <1>8, SearchesStay
<1>11. WaitsOK'
  <2>1. CASE EndTxn(s)
    BY <1>1, <2>1 DEF WaitsOK, EndTxn, SmonTypeOK
  <2>2. CASE BeginTxn(s)
    <3>1. ASSUME NEW u \in Session, wait[u] # NoWait
          PROVE  /\ wait[u].on \in Session /\ txn'[u].active
                 /\ wait[u].xnum <= txn'[wait[u].on].xnum
      <4>1. /\ wait[u].on \in Session /\ txn[u].active
            /\ wait[u].xnum <= txn[wait[u].on].xnum /\ wait[u].xnum \in Nat
        BY <1>1, <3>1 DEF WaitsOK, SmonTypeOK, Wait
      <4>2. txn'[u].active
        BY <1>1, <2>2, <4>1 DEF BeginTxn, SmonTypeOK
      <4>3. QED
        BY <1>3, <1>4, <4>1, <4>2
    <3>2. QED
      BY <2>2, <3>1 DEF WaitsOK, BeginTxn
  <2>3. QED
    BY <2>1, <2>2
<1>13. QED
  BY <1>5, <1>8, <1>10, <1>11 DEF TInv

(* A step of the smon of instance i that leaves it with the search d.      *)
LEMMA SmonStep ==
    ASSUME TInv, NEW i \in Inst, NEW d \in Det,
           d.begin \in Local(i) \cup {NoSession}, SearchOK(i, d),
           det' = [det EXCEPT ![i] = d], UNCHANGED <<txn, wait, lsn>>,
           dead' \in [Session -> BOOLEAN],
           used' \in [{"wait", "txn", "fault"} -> Nat], used'["txn"] = used["txn"]
    PROVE  TInv'
<1>1. SmonTypeOK /\ WaitsOK /\ Budget /\ Searches
  BY DEF TInv
<1>2. det' \in [Inst -> Det] /\ \A j \in Inst : det'[j] = IF j = i THEN d ELSE det[j]
  BY <1>1 DEF SmonTypeOK
<1>3. SmonTypeOK'
  BY <1>1, <1>2 DEF SmonTypeOK
<1>4. ASSUME NEW j \in Inst PROVE SearchOK(j, det[j])'
  <2>1. SearchOK(j, det'[j])
    BY <1>1, <1>2 DEF Searches
  <2>2. QED
    BY <2>1 DEF SearchOK, Chained, Past, Seen
<1>5. WaitsOK' /\ Budget'
  BY <1>1 DEF WaitsOK, Budget
<1>6. QED
  BY <1>3, <1>4, <1>5 DEF TInv, Searches

LEMMA BackTypes ==
    ASSUME TInv, NEW i \in Inst, NEW d \in Det, Back(i, d), UNCHANGED <<txn, wait, lsn>>,
           dead' \in [Session -> BOOLEAN],
           used' \in [{"wait", "txn", "fault"} -> Nat], used'["txn"] = used["txn"]
    PROVE  TInv'
<1>1. PICK e : e = [d EXCEPT !.pc = "loop", !.at = NoSession, !.begin = NoSession,
                             !.shot = NoShot, !.ring = FALSE]
  OBVIOUS
<1>2. NoShot \in [Session -> Dlock]
  BY DEF NoShot, NoDlock, Dlock
<1>3. e \in Det /\ e.begin = NoSession /\ e.pc = "loop" /\ e.shot = NoShot
  BY <1>1, <1>2 DEF Det
<1>4. Seen(e) = {}
  BY <1>3 DEF Seen, NoShot
<1>5. SearchOK(i, e)
  BY <1>3, <1>4 DEF SearchOK, Chained, Past
<1>6. det' = [det EXCEPT ![i] = e]
  BY <1>1 DEF Back, Set
<1>7. QED
  BY <1>3, <1>5, <1>6, SmonStep

LEMMA RoundTypes ==
    ASSUME TInv, NEW i \in Inst, Pick(i) \/ EndRound(i)
    PROVE  TInv'
<1>1. SmonTypeOK /\ WaitsOK /\ Budget /\ Searches /\ SearchOK(i, det[i])
  BY DEF TInv, Searches
<1>2. CASE Pick(i)
  <2>1. PICK s \in Local(i) : det' = [det EXCEPT ![i] = [det[i] EXCEPT !.pc = "walk", !.at = s]]
    BY <1>2 DEF Pick, Set, Candidates
  <2>2. PICK d : d = [det[i] EXCEPT !.pc = "walk", !.at = s]
    OBVIOUS
  <2>3. s \in Session /\ det[i].pc = "loop" /\ det[i].shot = NoShot
    BY <1>1, <1>2 DEF Local, Pick, SearchOK
  <2>4. d \in Det /\ d.begin = det[i].begin /\ d.pc = "walk" /\ d.at = s /\ d.shot = NoShot
    BY <1>1, <2>2, <2>3, DetFacts DEF Det
  <2>5. Seen(d) = {}
    BY <2>4 DEF Seen, NoShot
  <2>6. SearchOK(i, d)
    BY <2>3, <2>4, <2>5 DEF SearchOK, Chained, Past
  <2>7. d.begin \in Local(i) \cup {NoSession}
    BY <1>1, <2>4 DEF SmonTypeOK
  <2>8. UNCHANGED <<txn, wait, lsn, dead, used>>
    BY <1>2 DEF Pick
  <2>9. dead' \in [Session -> BOOLEAN] /\ used' \in [{"wait", "txn", "fault"} -> Nat]
    BY <1>1, <2>8 DEF SmonTypeOK
  <2>10. QED
    BY <2>1, <2>2, <2>4, <2>6, <2>7, <2>8, <2>9, SmonStep
<1>3. CASE EndRound(i)
  <2>1. det' = [det EXCEPT ![i] = NewRound] /\ UNCHANGED <<txn, wait, lsn, dead, used>>
    BY <1>3 DEF EndRound, Set
  <2>2. PICK d : d = NewRound
    OBVIOUS
  <2>3. NoShot \in [Session -> Dlock]
    BY DEF NoShot, NoDlock, Dlock
  <2>4. d \in Det /\ d.begin = NoSession /\ d.pc = "loop" /\ d.shot = NoShot
    BY <2>2, <2>3 DEF NewRound, Det
  <2>5. Seen(d) = {}
    BY <2>4 DEF Seen, NoShot
  <2>6. SearchOK(i, d)
    BY <2>4, <2>5 DEF SearchOK, Chained, Past
  <2>7. dead' \in [Session -> BOOLEAN] /\ used' \in [{"wait", "txn", "fault"} -> Nat]
    BY <1>1, <2>1 DEF SmonTypeOK
  <2>8. QED
    BY <2>1, <2>2, <2>4, <2>6, <2>7, SmonStep
<1>4. QED
  BY <1>2, <1>3

WalkRead(i, s) == [det[i] EXCEPT !.shot[s] = Read(s),
                                 !.marks = IF InstOf(s) = i THEN @ \cup {SidOf(s)} ELSE @]

(* What the walk has read when it looks at the session it stands at.       *)
LEMMA WalkReads ==
    ASSUME TInv, NEW i \in Inst, det[i].pc = "walk", NEW s, s = det[i].at, NEW d,
           d = WalkRead(i, s)
    PROVE  /\ s \in Session /\ Read(s) \in Dlock
           /\ d \in Det /\ d.pc = "walk" /\ d.at = s /\ d.begin = det[i].begin
           /\ Read(s).on # NoSession =>
                 /\ Read(s).on \in Session /\ Past(d)
                 /\ Seen(d) = Seen(det[i]) \cup {s}
                 /\ \A t \in Seen(d) : /\ d.shot[t].on \in Session
                                       /\ d.shot[t].on \in Seen(d) \cup {Read(s).on}
<1>1. SmonTypeOK /\ WaitsOK /\ SearchOK(i, det[i])
  BY DEF TInv, Searches
<1>2. s \in Session
  BY <1>1 DEF SearchOK
<1>3. Read(s) \in Dlock
  BY <1>1, <1>2 DEF Read, Dlock, SmonTypeOK, Wait
<1>4. PICK mm : mm = IF InstOf(s) = i THEN det[i].marks \cup {SidOf(s)} ELSE det[i].marks
  OBVIOUS
<1>5. mm \subseteq {SidOf(u) : u \in Session}
  BY <1>1, <1>2, <1>4, DetFacts
<1>6. d = [det[i] EXCEPT !.shot = [det[i].shot EXCEPT ![s] = Read(s)], !.marks = mm]
  BY <1>1, <1>4, DetFacts DEF Det, WalkRead
<1>7. [det[i].shot EXCEPT ![s] = Read(s)] \in [Session -> Dlock]
  BY <1>1, <1>2, <1>3, DetFacts
<1>8. /\ d \in Det /\ d.pc = "walk" /\ d.at = s /\ d.begin = det[i].begin
      /\ d.ring = det[i].ring /\ d.marks = mm
      /\ d.shot = [det[i].shot EXCEPT ![s] = Read(s)]
  BY <1>1, <1>5, <1>6, <1>7, DetFacts DEF Det
<1>9. ASSUME Read(s).on # NoSession
      PROVE  /\ Read(s).on \in Session /\ Past(d)
             /\ Seen(d) = Seen(det[i]) \cup {s}
             /\ \A t \in Seen(d) : /\ d.shot[t].on \in Session
                                   /\ d.shot[t].on \in Seen(d) \cup {Read(s).on}
  <2>1. Read(s) # NoDlock /\ Read(s).on \in Session /\ wait[s] # NoWait
    BY <1>3, <1>9 DEF NoDlock, Dlock, Read, NoWait
  <2>2. \A t \in Session : d.shot[t] = IF t = s THEN Read(s) ELSE det[i].shot[t]
    BY <1>1, <1>8, DetFacts
  <2>3. Seen(d) = Seen(det[i]) \cup {s}
    BY <1>2, <2>1, <2>2 DEF Seen
  <2>4. \A t \in Seen(d) : /\ d.shot[t].on \in Session
                           /\ d.shot[t].on \in Seen(d) \cup {Read(s).on}
    <3>1. SUFFICES ASSUME NEW t \in Seen(d)
                   PROVE  /\ d.shot[t].on \in Session
                          /\ d.shot[t].on \in Seen(d) \cup {Read(s).on}
      OBVIOUS
    <3>2. CASE t = s
      BY <1>2, <2>1, <2>2, <3>2
    <3>3. CASE t # s
      BY <1>1, <2>2, <2>3, <3>3 DEF SearchOK, Chained, Seen
    <3>4. QED
      BY <3>2, <3>3
  <2>5. ASSUME NEW t \in Seen(d)
        PROVE  d.shot[t].lsn <= lsn[t] /\ d.shot[t].xnum <= txn[d.shot[t].on].xnum
    <3>1. CASE t = s
      <4>1. d.shot[t].lsn = lsn[t] /\ d.shot[t].xnum = wait[t].xnum /\ d.shot[t].on = wait[t].on
        BY <1>2, <2>2, <3>1 DEF Read
      <4>2. lsn[t] \in Nat
        BY <1>1, <1>2, <3>1 DEF SmonTypeOK
      <4>3. QED
        BY <1>1, <1>2, <2>1, <3>1, <4>1, <4>2 DEF WaitsOK
    <3>2. CASE t # s
      BY <1>1, <2>2, <2>3, <3>2 DEF SearchOK, Past, Seen
    <3>3. QED
      BY <3>1, <3>2
  <2>6. QED
    BY <2>1, <2>3, <2>4, <2>5 DEF Past
<1>10. QED
  BY <1>2, <1>3, <1>5, <1>8, <1>9

(* The session where the recheck begins.                                   *)
LEMMA BeginsLocal ==
    ASSUME NEW i \in Inst, NEW d \in Det, NEW next \in Seen(d), NEW from,
           \A t \in Seen(d) : d.shot[t].on \in Seen(d),
           from = (IF InstOf(next) = i THEN next ELSE FindFirstLocal(i, d.shot, next)),
           from # NoSession
    PROVE  from \in Seen(d) \cap Local(i)
<1>1. Seen(d) \subseteq Session
  BY DEF Seen
<1>2. CASE InstOf(next) = i
  BY <1>1, <1>2 DEF Local
<1>3. CASE InstOf(next) # i
  <2>1. from = FindFirstLocal(i, d.shot, next)
    BY <1>3
  <2>2. from \in Seen(d) /\ InstOf(from) = i
    BY <2>1, FirstLocal
  <2>3. QED
    BY <1>1, <2>2 DEF Local
<1>4. QED
  BY <1>2, <1>3

LEMMA WalkTypes ==
    ASSUME TInv, NEW i \in Inst, Walk(i)
    PROVE  TInv'
<1>1. SmonTypeOK /\ WaitsOK /\ SearchOK(i, det[i])
  BY DEF TInv, Searches
<1>2. PICK s : s = det[i].at
  OBVIOUS
<1>3. PICK d : d = WalkRead(i, s)
  OBVIOUS
<1>4. PICK next : next = Read(s).on
  OBVIOUS
<1>5. PICK from : from = IF InstOf(next) = i THEN next ELSE FindFirstLocal(i, d.shot, next)
  OBVIOUS
<1>6. /\ det[i].pc = "walk" /\ UNCHANGED <<txn, wait, lsn, dead, used>>
      /\ \/ next = NoSession /\ Back(i, d)
         \/ /\ next # NoSession /\ d.shot[next] = NoDlock
            /\ Set(i, [d EXCEPT !.at = next])
         \/ /\ next # NoSession /\ d.shot[next] # NoDlock
            /\ IF from = NoSession THEN Back(i, d) ELSE Set(i, Closed(i, d, from))
  BY <1>2, <1>3, <1>4, <1>5 DEF Walk, WalkRead
<1>7. /\ s \in Session /\ Read(s) \in Dlock
      /\ d \in Det /\ d.pc = "walk" /\ d.at = s /\ d.begin = det[i].begin
      /\ next # NoSession =>
            /\ next \in Session /\ Past(d)
            /\ Seen(d) = Seen(det[i]) \cup {s}
            /\ \A t \in Seen(d) : /\ d.shot[t].on \in Session
                                  /\ d.shot[t].on \in Seen(d) \cup {next}
  <2>1. det[i].pc = "walk"
    BY <1>6
  <2>2. /\ s \in Session /\ Read(s) \in Dlock
        /\ d \in Det /\ d.pc = "walk" /\ d.at = s /\ d.begin = det[i].begin
        /\ Read(s).on # NoSession =>
              /\ Read(s).on \in Session /\ Past(d)
              /\ Seen(d) = Seen(det[i]) \cup {s}
              /\ \A t \in Seen(d) : /\ d.shot[t].on \in Session
                                    /\ d.shot[t].on \in Seen(d) \cup {Read(s).on}
    BY <1>2, <1>3, <2>1, WalkReads
  <2>3. QED
    BY <1>4, <2>2
<1>8. dead' \in [Session -> BOOLEAN] /\ used' \in [{"wait", "txn", "fault"} -> Nat]
      /\ used'["txn"] = used["txn"]
  BY <1>1, <1>6 DEF SmonTypeOK
<1>9. CASE Back(i, d)
  BY <1>6, <1>7, <1>8, <1>9, BackTypes
<1>10. CASE next # NoSession /\ d.shot[next] = NoDlock /\ Set(i, [d EXCEPT !.at = next])
  <2>1. PICK e : e = [d EXCEPT !.at = next]
    OBVIOUS
  <2>2. /\ e \in Det /\ e.begin = d.begin /\ e.pc = "walk" /\ e.at = next /\ e.shot = d.shot
    BY <1>7, <1>10, <2>1 DEF Det
  <2>3. Seen(e) = Seen(d) /\ Past(e)
    BY <1>7, <1>10, <2>2 DEF Seen, Past
  <2>4. Chained(e)
    BY <1>7, <1>10, <2>2, <2>3 DEF Chained
  <2>5. SearchOK(i, e)
    BY <1>7, <1>10, <2>2, <2>3, <2>4 DEF SearchOK
  <2>6. e.begin \in Local(i) \cup {NoSession}
    BY <1>1, <1>7, <2>2 DEF SmonTypeOK
  <2>7. det' = [det EXCEPT ![i] = e]
    BY <1>10, <2>1 DEF Set
  <2>8. QED
    BY <1>6, <1>8, <2>2, <2>5, <2>6, <2>7, SmonStep
<1>11. CASE /\ next # NoSession /\ d.shot[next] # NoDlock /\ from # NoSession
            /\ Set(i, Closed(i, d, from))
  <2>1. next \in Seen(d) /\ \A t \in Seen(d) : d.shot[t].on \in Seen(d)
    BY <1>7, <1>11 DEF Seen
  <2>2. from \in Seen(d) \cap Local(i) /\ from \in Session
    BY <1>5, <1>7, <1>11, <2>1, BeginsLocal DEF Seen
  <2>3. PICK b \in BOOLEAN : b = InRing(wait, from)
    BY DEF InRing, Leads
  <2>4. PICK e : e = [d EXCEPT !.pc = "recheck", !.begin = from, !.at = from, !.ring = b]
    OBVIOUS
  <2>5. e = Closed(i, d, from)
    BY <2>3, <2>4 DEF Closed
  <2>6. /\ e \in Det /\ e.begin = from /\ e.pc = "recheck" /\ e.at = from /\ e.shot = d.shot
    BY <1>7, <2>2, <2>4 DEF Det
  <2>7. Seen(e) = Seen(d) /\ Past(e)
    BY <1>7, <1>11, <2>6 DEF Seen, Past
  <2>8. Chained(e)
    BY <1>7, <1>11, <2>1, <2>6, <2>7 DEF Chained
  <2>9. SearchOK(i, e)
    BY <2>2, <2>6, <2>7, <2>8 DEF SearchOK
  <2>10. det' = [det EXCEPT ![i] = e]
    BY <1>11, <2>5 DEF Set
  <2>11. QED
    BY <1>6, <1>8, <2>2, <2>6, <2>9, <2>10, SmonStep
<1>12. QED
  BY <1>6, <1>9, <1>10, <1>11

LEMMA RecheckTypes ==
    ASSUME TInv, NEW i \in Inst, Recheck(i) \/ Look(i) \/ Flag(i) \/ MessageFails(i)
    PROVE  TInv'
<1>1. SmonTypeOK /\ SearchOK(i, det[i])
  BY DEF TInv, Searches
<1>2. PICK d : d = det[i]
  OBVIOUS
<1>3. d \in Det /\ d.begin \in Local(i) \cup {NoSession} /\ SearchOK(i, d)
  BY <1>1, <1>2 DEF SmonTypeOK
<1>4. /\ UNCHANGED <<txn, wait, lsn>> /\ dead' \in [Session -> BOOLEAN]
      /\ used' \in [{"wait", "txn", "fault"} -> Nat] /\ used'["txn"] = used["txn"]
  <2>1. CASE Flag(i)
    <3>1. dead' = [dead EXCEPT ![det[i].begin] = TRUE] /\ UNCHANGED <<txn, wait, lsn, used>>
      BY <2>1 DEF Flag
    <3>2. QED
      BY <1>1, <3>1 DEF SmonTypeOK
  <2>2. CASE MessageFails(i)
    <3>1. used' = [used EXCEPT !["fault"] = @ + 1] /\ UNCHANGED <<txn, wait, lsn, dead>>
      BY <2>2 DEF MessageFails
    <3>2. QED
      BY <1>1, <3>1 DEF SmonTypeOK
  <2>3. CASE Recheck(i) \/ Look(i)
    <3>1. UNCHANGED <<txn, wait, lsn, dead, used>>
      BY <2>3 DEF Recheck, Look
    <3>2. QED
      BY <1>1, <3>1 DEF SmonTypeOK
  <2>4. QED
    BY <2>1, <2>2, <2>3
<1>5. CASE Back(i, d)
  BY <1>3, <1>4, <1>5, BackTypes
<1>6. CASE d.pc = "recheck" /\ Set(i, [d EXCEPT !.pc = "look"])
  <2>1. PICK e : e = [d EXCEPT !.pc = "look"]
    OBVIOUS
  <2>2. e \in Det /\ e.begin = d.begin /\ e.pc = "look" /\ e.at = d.at /\ e.shot = d.shot
    BY <1>3, <2>1 DEF Det
  <2>3. Seen(e) = Seen(d)
    BY <2>2 DEF Seen
  <2>4. SearchOK(i, e)
    BY <1>3, <1>6, <2>2, <2>3 DEF SearchOK, Chained, Past
  <2>5. QED
    BY <1>3, <1>4, <1>6, <2>1, <2>2, <2>4, SmonStep DEF Set
<1>7. CASE /\ d.pc = "look"
           /\ \E c \in {"flag", "recheck"} :
                 /\ c = "flag" => SidOf(d.shot[d.at].on) = SidOf(d.begin)
                 /\ Set(i, [d EXCEPT !.at = d.shot[d.at].on, !.pc = c])
  <2>0. PICK c \in {"flag", "recheck"} :
            /\ c = "flag" => SidOf(d.shot[d.at].on) = SidOf(d.begin)
            /\ Set(i, [d EXCEPT !.at = d.shot[d.at].on, !.pc = c])
    BY <1>7
  <2>1. PICK e : e = [d EXCEPT !.at = d.shot[d.at].on, !.pc = c]
    OBVIOUS
  <2>2. d.shot[d.at].on \in Seen(d) /\ d.shot[d.at].on \in Session
    BY <1>3, <1>7 DEF SearchOK, Chained, Seen
  <2>3. e \in Det /\ e.begin = d.begin /\ e.pc = c /\ e.at = d.shot[d.at].on /\ e.shot = d.shot
    BY <1>3, <2>1, <2>2 DEF Det
  <2>4. Seen(e) = Seen(d)
    BY <2>3 DEF Seen
  <2>5. SearchOK(i, e)
    BY <1>3, <1>7, <2>0, <2>2, <2>3, <2>4 DEF SearchOK, Chained, Past
  <2>6. QED
    BY <1>3, <1>4, <2>0, <2>1, <2>3, <2>5, SmonStep DEF Set
<1>8. CASE Recheck(i)
  BY <1>2, <1>5, <1>6, <1>8 DEF Recheck
<1>9. CASE Look(i)
  BY <1>2, <1>5, <1>7, <1>9 DEF Look
<1>10. CASE Flag(i) \/ MessageFails(i)
  BY <1>2, <1>5, <1>10 DEF Flag, MessageFails
<1>11. QED
  BY <1>8, <1>9, <1>10

LEMMA NextTypes ==
    ASSUME TInv, [Next]_vars
    PROVE  TInv'
<1>1. CASE UNCHANGED vars
  BY <1>1 DEF TInv, SmonTypeOK, WaitsOK, Budget, Searches, SearchOK, Chained, Past, Seen, vars
<1>2. ASSUME NEW s \in Session, NEW t \in Session, BeginWait(s, t) PROVE TInv'
  BY <1>2, BeginWaitTypes
<1>3. ASSUME NEW s \in Session, WaitDeadlocked(s) \/ WaitTimesOut(s) PROVE TInv'
  <2>1. SmonTypeOK
    BY DEF TInv
  <2>2. Fails(s) /\ used' \in [{"wait", "txn", "fault"} -> Nat] /\ used'["txn"] = used["txn"]
    BY <1>3, <2>1 DEF WaitDeadlocked, WaitTimesOut, SmonTypeOK
  <2>3. QED
    BY <2>2, FailsTypes
<1>4. ASSUME NEW s \in Session, WaitSucceeds(s) PROVE TInv'
  BY <1>4, WaitSucceedsTypes
<1>5. ASSUME NEW s \in Session, EndTxn(s) \/ BeginTxn(s) PROVE TInv'
  BY <1>5, TxnStepTypes
<1>6. ASSUME NEW i \in Inst, Pick(i) \/ EndRound(i) PROVE TInv'
  BY <1>6, RoundTypes
<1>7. ASSUME NEW i \in Inst, Walk(i) PROVE TInv'
  BY <1>7, WalkTypes
<1>8. ASSUME NEW i \in Inst, Recheck(i) \/ Look(i) \/ Flag(i) \/ MessageFails(i) PROVE TInv'
  BY <1>8, RecheckTypes
<1>9. QED
  BY <1>1, <1>2, <1>3, <1>4, <1>5, <1>6, <1>7, <1>8 DEF Next, Detect

(* Types, and a search only ever fails waits of sessions of its own        *)
(* instance (dtc_smon.c:509 looks the session up by its sid alone), for    *)
(* any sessions, equal sids on different instances included.               *)
THEOREM SmonTypeCorrect == Spec => []SmonTypeOK
<1>1. Spec => []TInv
  BY InitTypes, NextTypes, PTL DEF Spec
<1>2. TInv => SmonTypeOK
  BY DEF TInv
<1>3. QED
  BY <1>1, <1>2, PTL

-----------------------------------------------------------------------------
(* Rings.                                                                  *)

LEMMA SameWaits ==
    ASSUME TInv, NEW i \in Inst, NEW d, d = det[i], NEW s \in Seen(d), Same(d, s)
    PROVE  /\ wait[s] # NoWait /\ wait[s].on = d.shot[s].on
           /\ wait[s].xnum = d.shot[s].xnum /\ lsn[s] = d.shot[s].lsn
<1>1. SearchOK(i, d)
  BY DEF TInv, Searches
<1>2. d.shot[s].on \in Session
  BY <1>1 DEF SearchOK, Chained
<1>3. wait[s].on = d.shot[s].on /\ wait[s].xnum = d.shot[s].xnum /\ lsn[s] = d.shot[s].lsn
  BY DEF Same, Read
<1>4. NoWait.on = NoSession /\ NoSession \notin Session
  BY SessionAssumption DEF NoWait
<1>5. QED
  BY <1>2, <1>3, <1>4

(* A step that leaves waits alone as long as the transactions waited for   *)
(* go on: whoever of the sessions behind the recheck no longer waits has   *)
(* the recheck stand at, or look at, a transaction that has ended.         *)
Undisturbed(d) ==
    /\ \A s \in Seen(d) : Good(d, s) =>
          \/ Good(d, s)'
          \/ wait[d.shot[s].on] = NoWait /\ lsn[d.shot[s].on] < lsn'[d.shot[s].on]
    /\ \A s \in Seen(d) : Same(d, s) =>
          Same(d, s)' \/ Ended(d.shot[s].on, d.shot[s].xnum)'
    /\ \A s \in Seen(d) : Ended(d.shot[s].on, d.shot[s].xnum)
                             => Ended(d.shot[s].on, d.shot[s].xnum)'

LEMMA BehindStays ==
    ASSUME TInv, TInv', NEW i \in Inst, NEW d, d = det[i], NEW e, Kept(d, e),
           Behind(d), Undisturbed(d), \A s \in Session : lsn[s] <= lsn'[s]
    PROVE  Behind(e)'
<1>1. SmonTypeOK /\ SmonTypeOK' /\ SearchOK(i, d)
  BY DEF TInv, Searches
<1>2. Seen(e) = Seen(d) /\ Seen(d) \subseteq Session /\ e.shot = d.shot
  BY DEF Seen, Kept
<1>3. \A m, p : Way(d, m, p) => Way(e, m, p)'
  BY <1>2 DEF Way, Kept, Seen
<1>4. ASSUME NEW m \in Nat, NEW p, Way(d, m, p), AllGood(d, m, p), ~AllGood(e, m, p)'
      PROVE  m > 0 /\ wait[d.at] = NoWait /\ lsn[d.at] < lsn'[d.at]
  <2>1. PICK k \in 0 .. m - 1 : Good(d, p[k]) /\ ~Good(d, p[k])'
    BY <1>2, <1>4 DEF AllGood, Good, Same
  <2>2. k \in 0 .. m /\ k + 1 \in 0 .. m /\ m > 0
    BY <1>4
  <2>3. p[k] \in Seen(d) /\ p[k + 1] = d.shot[p[k]].on /\ p[k + 1] \in Seen(d)
    BY <1>4, <2>2 DEF Way
  <2>4. wait[p[k + 1]] = NoWait /\ lsn[p[k + 1]] < lsn'[p[k + 1]]
    BY <2>1, <2>3 DEF Undisturbed
  <2>5. k + 1 = m
    <3>1. SUFFICES ASSUME k + 1 # m PROVE FALSE
      OBVIOUS
    <3>2. k + 1 \in 0 .. m - 1
      BY <2>2, <3>1
    <3>3. Same(d, p[k + 1])
      BY <1>4, <3>2 DEF AllGood, Good
    <3>4. QED
      BY <2>3, <2>4, <3>3, SameWaits
  <2>6. QED
    BY <1>4, <2>2, <2>4, <2>5 DEF Way
<1>5. ASSUME e.pc = "recheck"
      PROVE  \E m \in Nat : \E p : /\ Way(e, m, p)'
                                   /\ \/ AllGood(e, m, p)'
                                      \/ e.shot[e.at].lsn < lsn'[e.at]
  <2>0. PICK m \in Nat : \E p : /\ Way(d, m, p)
                                /\ AllGood(d, m, p) \/ d.shot[d.at].lsn < lsn[d.at]
    BY <1>5 DEF Behind, Kept
  <2>1. PICK p : /\ Way(d, m, p)
                 /\ AllGood(d, m, p) \/ d.shot[d.at].lsn < lsn[d.at]
    BY <2>0
  <2>2. Way(e, m, p)' /\ e.shot[e.at] = d.shot[d.at] /\ e.at = d.at
    BY <1>2, <1>3, <2>1 DEF Kept
  <2>3. d.at \in Seen(d) /\ d.at \in Session /\ d.shot[d.at].lsn <= lsn[d.at]
    BY <1>1, <1>2, <1>5 DEF SearchOK, Kept, Past
  <2>4. /\ d.shot[d.at].lsn \in Nat /\ lsn[d.at] \in Nat /\ lsn'[d.at] \in Nat
        /\ lsn[d.at] <= lsn'[d.at]
    <3>1. d.shot[d.at] \in Dlock
      BY <1>1, <2>3, DetFacts
    <3>2. QED
      BY <1>1, <2>3, <3>1 DEF SmonTypeOK, Dlock
  <2>5. CASE d.shot[d.at].lsn < lsn[d.at]
    BY <2>2, <2>4, <2>5
  <2>6. CASE AllGood(d, m, p)
    <3>1. CASE AllGood(e, m, p)'
      BY <2>2, <3>1
    <3>2. CASE ~AllGood(e, m, p)'
      <4>1. lsn[d.at] < lsn'[d.at]
        BY <1>4, <2>1, <2>6, <3>2
      <4>2. QED
        BY <2>2, <2>3, <2>4, <4>1
    <3>3. QED
      BY <3>1, <3>2
  <2>7. QED
    BY <2>1, <2>5, <2>6
<1>6. ASSUME e.pc = "look"
      PROVE  \E m \in Nat : \E p : /\ Way(e, m, p)'
                                   /\ \/ AllGood(e, m, p)' /\ Same(e, e.at)'
                                      \/ Ended(e.shot[e.at].on, e.shot[e.at].xnum)'
  <2>0. PICK m \in Nat : \E p : /\ Way(d, m, p)
                                /\ \/ AllGood(d, m, p) /\ Same(d, d.at)
                                   \/ Ended(d.shot[d.at].on, d.shot[d.at].xnum)
    BY <1>6 DEF Behind, Kept
  <2>1. PICK p : /\ Way(d, m, p)
                 /\ \/ AllGood(d, m, p) /\ Same(d, d.at)
                    \/ Ended(d.shot[d.at].on, d.shot[d.at].xnum)
    BY <2>0
  <2>2. Way(e, m, p)' /\ e.shot[e.at] = d.shot[d.at] /\ e.at = d.at
    BY <1>2, <1>3, <2>1 DEF Kept
  <2>3. d.at \in Seen(d)
    BY <1>1, <1>6 DEF SearchOK, Kept
  <2>4. CASE Ended(e.shot[e.at].on, e.shot[e.at].xnum)'
    BY <2>2, <2>4
  <2>5. CASE ~Ended(e.shot[e.at].on, e.shot[e.at].xnum)'
    <3>1. ~Ended(d.shot[d.at].on, d.shot[d.at].xnum)'
      BY <2>2, <2>5
    <3>2. AllGood(d, m, p) /\ Same(d, d.at) /\ Same(d, d.at)'
      BY <2>1, <2>3, <3>1 DEF Undisturbed
    <3>3. wait[d.at] # NoWait
      BY <2>3, <3>2, SameWaits
    <3>4. AllGood(e, m, p)'
      BY <1>4, <2>1, <3>2, <3>3
    <3>5. Same(e, e.at)'
      BY <2>2, <3>2 DEF Same
    <3>6. QED
      BY <2>2, <3>4, <3>5
  <2>6. QED
    BY <2>4, <2>5
<1>7. e.pc = "flag" => e.at # e.begin
  BY DEF Behind, Kept
<1>8. QED
  BY <1>5, <1>6, <1>7 DEF Behind

LEMMA BehindThere ==
    ASSUME NEW i, NEW f, f = det'[i], f.ring \/ Behind(f)'
    PROVE  (det[i].ring \/ Behind(det[i]))'
BY DEF Behind, Way, AllGood, Good, Same, Seen

(* A step that lets no session begin to wait for a transaction makes no    *)
(* ring.                                                                   *)
LEMMA NoNewRing ==
    ASSUME NEW s, \A u, v \in Session : WaitsFor(wait, u, v)' => WaitsFor(wait, u, v),
           InRing(wait, s)'
    PROVE  InRing(wait, s)
<1>0. PICK k \in 1 .. Cardinality(Session) : \E p \in [0 .. k -> Session] :
          /\ p[0] = s /\ p[k] = s
          /\ \A j \in 0 .. k - 1 : WaitsFor(wait, p[j], p[j + 1])'
  BY DEF InRing, Leads
<1>1. PICK p \in [0 .. k -> Session] :
          /\ p[0] = s /\ p[k] = s
          /\ \A j \in 0 .. k - 1 : WaitsFor(wait, p[j], p[j + 1])'
  BY <1>0
<1>2. Cardinality(Session) \in Nat
  BY SessionCount
<1>3. ASSUME NEW j \in 0 .. k - 1 PROVE WaitsFor(wait, p[j], p[j + 1])
  <2>1. j \in 0 .. k /\ j + 1 \in 0 .. k
    BY <1>2
  <2>2. QED
    BY <1>1, <2>1
<1>4. QED
  BY <1>1, <1>3 DEF InRing, Leads

(* What a step of a session does to the search of one instance.            *)
LEMMA SearchRings ==
    ASSUME TInv, TInv', RInv, NEW i \in Inst, NEW d, d = det[i], NEW e, e = det'[i],
           Kept(d, e), d.ring => e.ring, e.ring \/ Undisturbed(d),
           \A s \in Session : lsn[s] <= lsn'[s],
           Rechecking(d) /\ InRing(wait, d.begin)' => InRing(wait, d.begin) \/ e.ring
    PROVE  Recorded(det[i])' /\ (det[i].ring \/ Behind(det[i]))'
<1>1. Recorded(d) /\ (d.ring \/ Behind(d))
  BY DEF RInv
<1>2. Recorded(e)'
  BY <1>1 DEF Recorded, Kept, Rechecking
<1>3. e.ring \/ Behind(e)'
  BY <1>1, BehindStays
<1>4. Recorded(det[i])'
  <2>1. Recorded(det[i])' <=> (Rechecking(e) /\ InRing(wait, e.begin)' => e.ring)
    BY DEF Recorded, Rechecking, InRing, Leads
  <2>2. Recorded(e)' <=> (Rechecking(e) /\ InRing(wait, e.begin)' => e.ring)
    BY DEF Recorded, Rechecking
  <2>3. QED
    BY <1>2, <2>1, <2>2
<1>5. (det[i].ring \/ Behind(det[i]))'
  BY <1>3, BehindThere
<1>6. QED
  BY <1>4, <1>5

LEMMA BeginWaitRings ==
    ASSUME TInv, RInv, NEW s \in Session, NEW t \in Session, BeginWait(s, t)
    PROVE  RInv'
<1>1. TInv' /\ \A i \in Inst : Kept(det[i], det'[i])
  BY BeginWaitTypes
<1> SUFFICES ASSUME NEW i \in Inst
             PROVE  Recorded(det[i])' /\ (det[i].ring \/ Behind(det[i]))'
  BY DEF RInv
<1>2. PICK d : d = det[i]
  OBVIOUS
<1>3. PICK e : e = det'[i]
  OBVIOUS
<1>4. Kept(d, e) /\ SmonTypeOK /\ d \in Det
  BY <1>1, <1>2, <1>3, DetFacts DEF TInv
<1>5. PICK b \in BOOLEAN : b = (d.ring \/ InRing(wait', d.begin))
  OBVIOUS
<1>6. IF Rechecking(d) THEN e = [d EXCEPT !.ring = b] ELSE e = d
  BY <1>2, <1>3, <1>5 DEF BeginWait, Rechecking
<1>7. Rechecking(d) => e.ring = b
  BY <1>4, <1>6 DEF Det
<1>8. d.ring => e.ring
  BY <1>5, <1>6, <1>7
<1>9. UNCHANGED <<txn, lsn>> /\ wait[s] = NoWait /\ \A u \in Session \ {s} : wait'[u] = wait[u]
  BY <1>4 DEF BeginWait, SmonTypeOK
<1>10. Rechecking(d) /\ InRing(wait, d.begin)' => e.ring
  <2>1. InRing(wait, d.begin)' => InRing(wait', d.begin)
    BY <1>9 DEF InRing, Leads, WaitsFor, Ended
  <2>2. QED
    BY <1>5, <1>7, <2>1
<1>11. Undisturbed(d)
  <2>1. \A u \in Seen(d) : Same(d, u) => u # s
    BY <1>2, <1>9, SameWaits
  <2>2. \A u \in Seen(d) : Same(d, u) => Same(d, u)'
    BY <1>9, <2>1 DEF Same, Read, Seen
  <2>3. \A u : Ended(d.shot[u].on, d.shot[u].xnum)' <=> Ended(d.shot[u].on, d.shot[u].xnum)
    BY <1>9 DEF Ended
  <2>4. QED
    BY <2>2, <2>3 DEF Undisturbed, Good
<1>12. \A u \in Session : lsn[u] <= lsn'[u]
  BY <1>4, <1>9 DEF SmonTypeOK
<1>13. QED
  BY <1>1, <1>2, <1>3, <1>4, <1>8, <1>10, <1>11, <1>12, SearchRings

LEMMA FailsRings ==
    ASSUME TInv, TInv', RInv, NEW s \in Session, Fails(s), \A i \in Inst : Kept(det[i], det'[i])
    PROVE  RInv'
<1> SUFFICES ASSUME NEW i \in Inst
             PROVE  Recorded(det[i])' /\ (det[i].ring \/ Behind(det[i]))'
  BY DEF RInv
<1>2. PICK d : d = det[i]
  OBVIOUS
<1>3. PICK e : e = det'[i]
  OBVIOUS
<1>4. Kept(d, e) /\ SmonTypeOK /\ d \in Det
  BY <1>2, <1>3, DetFacts DEF TInv
<1>5. PICK b \in BOOLEAN : b = (d.ring \/ d.shot[s] # NoDlock)
  OBVIOUS
<1>6. e = [d EXCEPT !.ring = b]
  BY <1>2, <1>3, <1>5 DEF Fails
<1>7. e.ring = b
  BY <1>4, <1>6 DEF Det
<1>8. d.ring => e.ring
  BY <1>5, <1>7
<1>9. /\ UNCHANGED <<txn, lsn>> /\ wait'[s] = NoWait
      /\ \A u \in Session \ {s} : wait'[u] = wait[u]
  BY <1>4 DEF Fails, SmonTypeOK
<1>10. InRing(wait, d.begin)' => InRing(wait, d.begin)
  <2>1. NoWait.on = NoSession
    BY DEF NoWait
  <2>2. \A u, v \in Session : WaitsFor(wait, u, v)' => WaitsFor(wait, u, v)
    BY <1>9, <2>1 DEF WaitsFor, Ended
  <2>3. QED
    BY <2>2, NoNewRing
<1>11. e.ring \/ Undisturbed(d)
  <2>1. SUFFICES ASSUME ~e.ring PROVE Undisturbed(d)
    OBVIOUS
  <2>2. d.shot[s] = NoDlock
    BY <1>5, <1>7, <2>1
  <2>3. \A u \in Seen(d) : u # s
    BY <2>2 DEF Seen
  <2>4. \A u \in Seen(d) : Same(d, u) => Same(d, u)'
    BY <1>9, <2>3 DEF Same, Read, Seen
  <2>5. \A u : Ended(d.shot[u].on, d.shot[u].xnum)' <=> Ended(d.shot[u].on, d.shot[u].xnum)
    BY <1>9 DEF Ended
  <2>6. QED
    BY <2>4, <2>5 DEF Undisturbed, Good
<1>12. \A u \in Session : lsn[u] <= lsn'[u]
  BY <1>4, <1>9 DEF SmonTypeOK
<1>13. QED
  BY <1>2, <1>3, <1>4, <1>8, <1>10, <1>11, <1>12, SearchRings

LEMMA WaitSucceedsRings ==
    ASSUME TInv, RInv, NEW s \in Session, WaitSucceeds(s)
    PROVE  RInv'
<1>1. TInv'
  BY WaitSucceedsTypes
<1> SUFFICES ASSUME NEW i \in Inst
             PROVE  Recorded(det[i])' /\ (det[i].ring \/ Behind(det[i]))'
  BY DEF RInv
<1>2. PICK d : d = det[i]
  OBVIOUS
<1>3. d = det'[i] /\ Kept(d, d)
  BY <1>2 DEF Kept, WaitSucceeds
<1>4. SmonTypeOK
  BY DEF TInv
<1>9. /\ UNCHANGED txn /\ wait'[s] = NoWait /\ Ended(wait[s].on, wait[s].xnum)
      /\ \A u \in Session \ {s} : wait'[u] = wait[u] /\ lsn'[u] = lsn[u]
  BY <1>4 DEF WaitSucceeds, SmonTypeOK
<1>10. InRing(wait, d.begin)' => InRing(wait, d.begin)
  <2>1. NoWait.on = NoSession
    BY DEF NoWait
  <2>2. \A u, v \in Session : WaitsFor(wait, u, v)' => WaitsFor(wait, u, v)
    BY <1>9, <2>1 DEF WaitsFor, Ended
  <2>3. QED
    BY <2>2, NoNewRing
<1>11. Undisturbed(d)
  <2>1. \A u : Ended(d.shot[u].on, d.shot[u].xnum)' <=> Ended(d.shot[u].on, d.shot[u].xnum)
    BY <1>9 DEF Ended
  <2>2. \A u \in Seen(d) : u # s /\ Same(d, u) => Same(d, u)'
    BY <1>9 DEF Same, Read, Seen
  <2>3. s \in Seen(d) /\ Same(d, s) => Ended(d.shot[s].on, d.shot[s].xnum)
    BY <1>2, <1>9, SameWaits
  <2>4. QED
    BY <2>1, <2>2, <2>3 DEF Undisturbed, Good
<1>12. \A u \in Session : lsn[u] <= lsn'[u]
  BY <1>4 DEF SmonTypeOK, WaitSucceeds
<1>13. QED
  BY <1>1, <1>2, <1>3, <1>10, <1>11, <1>12, SearchRings

LEMMA EndTxnRings ==
    ASSUME TInv, RInv, NEW s \in Session, EndTxn(s)
    PROVE  RInv'
<1>1. TInv'
  BY TxnStepTypes
<1> SUFFICES ASSUME NEW i \in Inst
             PROVE  Recorded(det[i])' /\ (det[i].ring \/ Behind(det[i]))'
  BY DEF RInv
<1>2. PICK d : d = det[i]
  OBVIOUS
<1>3. d = det'[i] /\ Kept(d, d)
  BY <1>2 DEF Kept, EndTxn
<1>4. SmonTypeOK
  BY DEF TInv
<1>9. /\ wait' = wait /\ wait[s] = NoWait
      /\ ~txn'[s].active /\ lsn[s] < lsn'[s]
      /\ \A u \in Session \ {s} : txn'[u] = txn[u] /\ lsn'[u] = lsn[u]
  BY <1>4 DEF EndTxn, SmonTypeOK
<1>10. InRing(wait, d.begin)' => InRing(wait, d.begin)
  <2>2. \A u, v \in Session : WaitsFor(wait, u, v)' => WaitsFor(wait, u, v)
    BY <1>9 DEF WaitsFor, Ended
  <2>3. QED
    BY <2>2, NoNewRing
<1>11. Undisturbed(d)
  <2>0. SearchOK(i, d)
    BY <1>2 DEF TInv, Searches
  <2>1. \A u \in Seen(d) : d.shot[u].on \in Session /\ u \in Session
    BY <2>0 DEF SearchOK, Chained, Seen
  <2>2. \A u \in Seen(d) : Same(d, u) => u # s
    BY <1>2, <1>9, SameWaits
  <2>3. \A u \in Seen(d) : Same(d, u) => Same(d, u)'
    BY <1>9, <2>1, <2>2 DEF Same, Read
  <2>4. \A u \in Seen(d) : d.shot[u].on # s =>
            (Ended(d.shot[u].on, d.shot[u].xnum)' <=> Ended(d.shot[u].on, d.shot[u].xnum))
    BY <1>9, <2>1 DEF Ended
  <2>5. \A x : Ended(s, x)'
    BY <1>9 DEF Ended
  <2>6. ASSUME NEW u \in Seen(d), Good(d, u), ~Good(d, u)'
        PROVE  wait[d.shot[u].on] = NoWait /\ lsn[d.shot[u].on] < lsn'[d.shot[u].on]
    <3>1. d.shot[u].on = s
      BY <2>3, <2>4, <2>6 DEF Good
    <3>2. QED
      BY <1>9, <3>1
  <2>7. \A u \in Seen(d) : Ended(d.shot[u].on, d.shot[u].xnum)
                             => Ended(d.shot[u].on, d.shot[u].xnum)'
    BY <2>4, <2>5
  <2>8. QED
    BY <2>3, <2>6, <2>7 DEF Undisturbed
<1>12. \A u \in Session : lsn[u] <= lsn'[u]
  BY <1>4 DEF SmonTypeOK, EndTxn
<1>13. QED
  BY <1>1, <1>2, <1>3, <1>10, <1>11, <1>12, SearchRings

LEMMA BeginTxnRings ==
    ASSUME TInv, RInv, NEW s \in Session, BeginTxn(s)
    PROVE  RInv'
<1>1. TInv'
  BY TxnStepTypes
<1> SUFFICES ASSUME NEW i \in Inst
             PROVE  Recorded(det[i])' /\ (det[i].ring \/ Behind(det[i]))'
  BY DEF RInv
<1>2. PICK d : d = det[i]
  OBVIOUS
<1>3. d = det'[i] /\ Kept(d, d)
  BY <1>2 DEF Kept, BeginTxn
<1>4. SmonTypeOK /\ WaitsOK /\ SearchOK(i, d)
  BY <1>2 DEF TInv, Searches
<1>9. /\ wait' = wait /\ lsn' = lsn /\ ~txn[s].active
      /\ txn'[s].xnum = txn[s].xnum + 1 /\ txn[s].xnum \in Nat
      /\ \A u \in Session \ {s} : txn'[u] = txn[u]
  BY <1>4, BoundsAssumption DEF BeginTxn, SmonTypeOK
<1>10. \A x \in Nat : x <= txn[s].xnum => Ended(s, x)'
  BY <1>9 DEF Ended
<1>11. InRing(wait, d.begin)' => InRing(wait, d.begin)
  <2>1. ASSUME NEW u \in Session, NEW v \in Session, WaitsFor(wait, u, v)'
        PROVE  WaitsFor(wait, u, v)
    <3>1. wait[u].on = v /\ v # NoSession /\ wait[u] # NoWait /\ ~Ended(v, wait[u].xnum)'
      BY <1>9, <2>1, SessionAssumption DEF WaitsFor, NoWait
    <3>2. wait[u].xnum <= txn[v].xnum /\ wait[u].xnum \in Nat
      BY <1>4, <3>1 DEF WaitsOK, SmonTypeOK, Wait
    <3>3. PICK x \in Nat : x = wait[u].xnum
      BY <3>2
    <3>4. v # s
      <4>1. ~Ended(v, x)'
        BY <1>9, <3>1, <3>3
      <4>2. QED
        BY <1>10, <3>2, <3>3, <4>1
    <3>5. QED
      BY <1>9, <3>1, <3>4 DEF WaitsFor, Ended
  <2>2. QED
    BY <2>1, NoNewRing
<1>12. Undisturbed(d)
  <2>1. \A u \in Seen(d) : /\ d.shot[u].on \in Session /\ u \in Session /\ d.shot[u].xnum \in Nat
                           /\ d.shot[u].xnum <= txn[d.shot[u].on].xnum
    BY <1>2, <1>4, DetFacts DEF SearchOK, Chained, Past, Seen, Dlock
  <2>2. \A u \in Seen(d) : Same(d, u) => Same(d, u)'
    BY <1>9 DEF Same, Read
  <2>3. \A u \in Seen(d) : d.shot[u].on # s =>
            (Ended(d.shot[u].on, d.shot[u].xnum)' <=> Ended(d.shot[u].on, d.shot[u].xnum))
    BY <1>9, <2>1 DEF Ended
  <2>4. \A u \in Seen(d) : d.shot[u].on = s =>
            /\ Ended(d.shot[u].on, d.shot[u].xnum)'
            /\ Ended(d.shot[u].on, d.shot[u].xnum)
    BY <1>9, <1>10, <2>1 DEF Ended
  <2>5. QED
    BY <2>2, <2>3, <2>4 DEF Undisturbed, Good
<1>13. \A u \in Session : lsn[u] <= lsn'[u]
  BY <1>4, <1>9 DEF SmonTypeOK
<1>14. QED
  BY <1>1, <1>2, <1>3, <1>11, <1>12, <1>13, SearchRings

LEMMA BehindSame ==
    ASSUME UNCHANGED <<txn, wait, lsn>>, NEW f, Behind(f)
    PROVE  Behind(f)'
<1>1. \A s : Same(f, s)' <=> Same(f, s)
  BY DEF Same, Read
<1>2. \A s, x : Ended(s, x)' <=> Ended(s, x)
  BY DEF Ended
<1>3. \A s : Good(f, s)' <=> Good(f, s)
  BY <1>1, <1>2 DEF Good
<1>4. \A m, p : (AllGood(f, m, p)' <=> AllGood(f, m, p)) /\ (Way(f, m, p)' <=> Way(f, m, p))
  BY <1>3 DEF AllGood, Way, Seen
<1>5. QED
  BY <1>1, <1>2, <1>4 DEF Behind

(* A step of the smon of instance i that leaves it with the search e.      *)
LEMMA SmonRings ==
    ASSUME TInv, RInv, NEW i \in Inst, NEW e, det' = [det EXCEPT ![i] = e],
           UNCHANGED <<txn, wait, lsn>>, Recorded(e), e.ring \/ Behind(e)
    PROVE  RInv'
<1>1. \A j \in Inst : det'[j] = IF j = i THEN e ELSE det[j]
  BY DEF TInv, SmonTypeOK
<1>2. SUFFICES ASSUME NEW j \in Inst
               PROVE  Recorded(det[j])' /\ (det[j].ring \/ Behind(det[j]))'
  BY DEF RInv
<1>3. PICK f : f = det'[j]
  OBVIOUS
<1>4. Recorded(f) /\ (f.ring \/ Behind(f))
  BY <1>1, <1>3 DEF RInv
<1>5. \A s : InRing(wait, s)' <=> InRing(wait, s)
  BY DEF InRing, Leads, WaitsFor, Ended
<1>6. Recorded(det[j])'
  <2>1. Recorded(det[j])' <=> (Rechecking(f) /\ InRing(wait, f.begin)' => f.ring)
    BY <1>3 DEF Recorded, Rechecking, InRing, Leads
  <2>2. QED
    BY <1>4, <1>5, <2>1 DEF Recorded
<1>7. (det[j].ring \/ Behind(det[j]))'
  <2>1. f.ring \/ Behind(f)'
    BY <1>4, BehindSame
  <2>2. QED
    BY <1>3, <2>1, BehindThere
<1>8. QED
  BY <1>6, <1>7

LEMMA EarlyRings ==
    ASSUME TInv, RInv, NEW i \in Inst, NEW e, det' = [det EXCEPT ![i] = e],
           UNCHANGED <<txn, wait, lsn>>, e.pc \in {"loop", "walk"}
    PROVE  RInv'
<1>1. Recorded(e) /\ Behind(e)
  BY DEF Recorded, Rechecking, Behind
<1>2. QED
  BY <1>1, SmonRings

LEMMA BackRings ==
    ASSUME TInv, RInv, NEW i \in Inst, NEW d \in Det, Back(i, d), UNCHANGED <<txn, wait, lsn>>
    PROVE  RInv'
<1>1. PICK e : e = [d EXCEPT !.pc = "loop", !.at = NoSession, !.begin = NoSession,
                             !.shot = NoShot, !.ring = FALSE]
  OBVIOUS
<1>2. e.pc = "loop"
  BY <1>1 DEF Det
<1>3. det' = [det EXCEPT ![i] = e]
  BY <1>1 DEF Back, Set
<1>4. QED
  BY <1>2, <1>3, EarlyRings

LEMMA RoundRings ==
    ASSUME TInv, RInv, NEW i \in Inst, Pick(i) \/ EndRound(i)
    PROVE  RInv'
<1>1. SmonTypeOK
  BY DEF TInv
<1>2. CASE Pick(i)
  <2>1. PICK s : det' = [det EXCEPT ![i] = [det[i] EXCEPT !.pc = "walk", !.at = s]]
    BY <1>2 DEF Pick, Set
  <2>2. PICK e : e = [det[i] EXCEPT !.pc = "walk", !.at = s]
    OBVIOUS
  <2>3. e.pc = "walk"
    BY <1>1, <2>2, DetFacts DEF Det
  <2>4. UNCHANGED <<txn, wait, lsn>>
    BY <1>2 DEF Pick
  <2>5. QED
    BY <2>1, <2>2, <2>3, <2>4, EarlyRings
<1>3. CASE EndRound(i)
  <2>1. det' = [det EXCEPT ![i] = NewRound] /\ UNCHANGED <<txn, wait, lsn>>
    BY <1>3 DEF EndRound, Set
  <2>2. PICK e : e = NewRound
    OBVIOUS
  <2>3. e.pc = "loop"
    BY <2>2 DEF NewRound
  <2>4. QED
    BY <2>1, <2>2, <2>3, EarlyRings
<1>4. QED
  BY <1>2, <1>3

LEMMA WalkRings ==
    ASSUME TInv, RInv, NEW i \in Inst, Walk(i)
    PROVE  RInv'
<1>2. PICK s : s = det[i].at
  OBVIOUS
<1>3. PICK d : d = WalkRead(i, s)
  OBVIOUS
<1>4. PICK next : next = Read(s).on
  OBVIOUS
<1>5. PICK from : from = IF InstOf(next) = i THEN next ELSE FindFirstLocal(i, d.shot, next)
  OBVIOUS
<1>6. /\ det[i].pc = "walk" /\ UNCHANGED <<txn, wait, lsn>>
      /\ \/ next = NoSession /\ Back(i, d)
         \/ /\ next # NoSession /\ d.shot[next] = NoDlock
            /\ Set(i, [d EXCEPT !.at = next])
         \/ /\ next # NoSession /\ d.shot[next] # NoDlock
            /\ IF from = NoSession THEN Back(i, d) ELSE Set(i, Closed(i, d, from))
  BY <1>2, <1>3, <1>4, <1>5 DEF Walk, WalkRead
<1>7. /\ d \in Det /\ d.pc = "walk"
      /\ next # NoSession =>
            /\ next \in Session
            /\ \A t \in Seen(d) : d.shot[t].on \in Seen(d) \cup {next}
  BY <1>2, <1>3, <1>4, <1>6, WalkReads
<1>9. CASE Back(i, d)
  BY <1>6, <1>7, <1>9, BackRings
<1>10. CASE Set(i, [d EXCEPT !.at = next])
  <2>1. PICK e : e = [d EXCEPT !.at = next]
    OBVIOUS
  <2>2. e.pc = "walk"
    BY <1>7, <2>1 DEF Det
  <2>3. QED
    BY <1>6, <1>10, <2>1, <2>2, EarlyRings DEF Set
<1>11. CASE /\ next # NoSession /\ d.shot[next] # NoDlock /\ from # NoSession
            /\ Set(i, Closed(i, d, from))
  <2>1. next \in Seen(d) /\ \A t \in Seen(d) : d.shot[t].on \in Seen(d)
    BY <1>7, <1>11 DEF Seen
  <2>2. from \in Seen(d) /\ from \in Session
    BY <1>5, <1>7, <1>11, <2>1, BeginsLocal DEF Seen
  <2>3. PICK b \in BOOLEAN : b = InRing(wait, from)
    BY DEF InRing, Leads
  <2>4. PICK e : e = [d EXCEPT !.pc = "recheck", !.begin = from, !.at = from, !.ring = b]
    OBVIOUS
  <2>5. det' = [det EXCEPT ![i] = e]
    BY <1>11, <2>3, <2>4 DEF Closed, Set
  <2>6. /\ e.begin = from /\ e.pc = "recheck" /\ e.at = from /\ e.shot = d.shot /\ e.ring = b
    BY <1>7, <2>2, <2>4 DEF Det
  <2>7. Recorded(e)
    BY <2>3, <2>6 DEF Recorded
  <2>8. PICK p : p = [k \in 0 .. 0 |-> from]
    OBVIOUS
  <2>9. Way(e, 0, p)
    BY <2>2, <2>6, <2>8 DEF Way, Seen
  <2>10. AllGood(e, 0, p)
    BY DEF AllGood
  <2>11. Behind(e)
    BY <2>6, <2>9, <2>10 DEF Behind
  <2>12. QED
    BY <1>6, <2>5, <2>7, <2>11, SmonRings
<1>12. QED
  BY <1>6, <1>9, <1>10, <1>11

LEMMA RecheckRings ==
    ASSUME TInv, RInv, NEW i \in Inst, Recheck(i)
    PROVE  RInv'
<1>1. SmonTypeOK /\ SearchOK(i, det[i])
  BY DEF TInv, Searches
<1>2. PICK d : d = det[i]
  OBVIOUS
<1>3. /\ d \in Det /\ SearchOK(i, d) /\ d.pc = "recheck" /\ UNCHANGED <<txn, wait, lsn>>
      /\ Recorded(d) /\ (d.ring \/ Behind(d))
  BY <1>1, <1>2, DetFacts DEF Recheck, RInv
<1>4. CASE Back(i, d)
  BY <1>3, <1>4, BackRings
<1>5. CASE Read(d.at) = d.shot[d.at] /\ Set(i, [d EXCEPT !.pc = "look"])
  <2>1. PICK e : e = [d EXCEPT !.pc = "look"]
    OBVIOUS
  <2>2. /\ e.begin = d.begin /\ e.pc = "look" /\ e.at = d.at /\ e.shot = d.shot
        /\ e.ring = d.ring
    BY <1>3, <2>1 DEF Det
  <2>3. Recorded(e)
    BY <1>3, <2>2 DEF Recorded, Rechecking
  <2>4. Same(d, d.at) /\ d.at \in Seen(d)
    BY <1>3, <1>5 DEF Same, SearchOK
  <2>5. lsn[d.at] = d.shot[d.at].lsn /\ d.at \in Session
    BY <1>2, <2>4, SameWaits DEF Seen
  <2>6. ~(d.shot[d.at].lsn < lsn[d.at])
    BY <1>1, <2>5 DEF SmonTypeOK
  <2>7. ASSUME Behind(d) PROVE Behind(e)
    <3>0. PICK m \in Nat : \E p : Way(d, m, p) /\ AllGood(d, m, p)
      BY <1>3, <2>6, <2>7 DEF Behind
    <3>1. PICK p : Way(d, m, p) /\ AllGood(d, m, p)
      BY <3>0
    <3>2. Way(e, m, p) /\ AllGood(e, m, p) /\ Same(e, e.at)
      BY <2>2, <2>4, <3>1 DEF Way, AllGood, Good, Same, Seen
    <3>3. QED
      BY <2>2, <3>2 DEF Behind
  <2>8. QED
    BY <1>3, <1>5, <2>1, <2>2, <2>3, <2>7, SmonRings DEF Set
<1>6. QED
  BY <1>2, <1>4, <1>5 DEF Recheck

(* Where all sessions of a way still wait, the waits lead along it.        *)
LEMMA WayLeads ==
    ASSUME TInv, NEW i \in Inst, NEW d, d = det[i], NEW m \in Nat, NEW p,
           Way(d, m, p), AllGood(d, m, p), Good(d, d.at), NEW t, t = d.shot[d.at].on
    PROVE  Leads(wait, d.begin, t)
<1>1. SearchOK(i, d)
  BY DEF TInv, Searches
<1>2. PICK q : q = [k \in 0 .. m + 1 |-> IF k = m + 1 THEN t ELSE p[k]]
  OBVIOUS
<1>3. \A k \in 0 .. m + 1 : k # m + 1 => k \in 0 .. m
  OBVIOUS
<1>4. p[0] = d.begin /\ p[m] = d.at /\ p \in [0 .. m -> Session] /\ d.begin \in Session
      /\ t \in Session
  BY <1>1 DEF Way, SearchOK, Chained
<1>5. q \in [0 .. m + 1 -> Session]
  BY <1>2, <1>3, <1>4
<1>6. q[0] = d.begin /\ q[m + 1] = t
  BY <1>2, <1>4
<1>7. ASSUME NEW k \in 0 .. m PROVE WaitsFor(wait, q[k], q[k + 1])
  <2>1. q[k] = p[k] /\ k \in 0 .. m + 1 /\ k + 1 \in 0 .. m + 1
    BY <1>2
  <2>2. p[k] \in Seen(d) /\ p[k] \in Session
    BY <1>4 DEF Way
  <2>3. Good(d, p[k])
    <3>1. CASE k = m
      BY <1>4, <3>1
    <3>2. CASE k # m
      BY <3>2 DEF AllGood
    <3>3. QED
      BY <3>1, <3>2
  <2>4. q[k + 1] = d.shot[p[k]].on
    <3>1. CASE k = m
      BY <1>2, <1>4, <2>1, <3>1
    <3>2. CASE k # m
      <4>1. k \in 0 .. m - 1 /\ k + 1 # m + 1 /\ q[k + 1] = p[k + 1]
        BY <1>2, <2>1, <3>2
      <4>2. QED
        BY <4>1 DEF Way
    <3>3. QED
      BY <3>1, <3>2
  <2>5. wait[p[k]].on = d.shot[p[k]].on /\ wait[p[k]].xnum = d.shot[p[k]].xnum
    BY <2>2, <2>3, SameWaits DEF Good
  <2>6. d.shot[p[k]].on \in Session
    BY <1>1, <2>2 DEF SearchOK, Chained
  <2>7. QED
    BY <2>1, <2>3, <2>4, <2>5, <2>6, SessionAssumption DEF WaitsFor, Good
<1>8. Path(wait, d.begin, t, m + 1, q)
  BY <1>5, <1>6, <1>7 DEF Path
<1>9. QED
  BY <1>8, LeadsByPath

LEMMA LookRings ==
    ASSUME TInv, RInv, NEW i \in Inst, Look(i)
    PROVE  RInv'
<1>1. SmonTypeOK /\ SearchOK(i, det[i])
  BY DEF TInv, Searches
<1>2. PICK d : d = det[i]
  OBVIOUS
<1>3. /\ d \in Det /\ SearchOK(i, d) /\ d.pc = "look" /\ UNCHANGED <<txn, wait, lsn>>
      /\ Recorded(d) /\ (d.ring \/ Behind(d))
  BY <1>1, <1>2, DetFacts DEF Look, RInv
<1>4. PICK next : next = d.shot[d.at].on
  OBVIOUS
<1>5. CASE Back(i, d)
  BY <1>3, <1>5, BackRings
<1>6. CASE /\ ~Ended(next, d.shot[d.at].xnum)
           /\ Set(i, [d EXCEPT !.at = next,
                               !.pc = IF SidOf(next) = SidOf(d.begin) THEN "flag"
                                      ELSE "recheck"])
  <2>1. PICK c : c = IF SidOf(next) = SidOf(d.begin) THEN "flag" ELSE "recheck"
    OBVIOUS
  <2>2. PICK e : e = [d EXCEPT !.at = next, !.pc = c]
    OBVIOUS
  <2>3. det' = [det EXCEPT ![i] = e]
    BY <1>6, <2>1, <2>2 DEF Set
  <2>4. /\ e.begin = d.begin /\ e.pc = c /\ e.at = next /\ e.shot = d.shot
        /\ e.ring = d.ring
    BY <1>3, <2>2 DEF Det
  <2>5. Recorded(e)
    BY <1>3, <2>4 DEF Recorded, Rechecking
  <2>6. d.at \in Seen(d) /\ d.begin \in Session /\ next \in Seen(d) /\ next \in Session
    BY <1>3, <1>4 DEF SearchOK, Chained, Seen
  <2>7. ASSUME Behind(d), ~d.ring PROVE Behind(e)
    <3>0. PICK m \in Nat : \E p : Way(d, m, p) /\ AllGood(d, m, p) /\ Same(d, d.at)
      BY <1>3, <1>4, <1>6, <2>7 DEF Behind
    <3>1. PICK p : Way(d, m, p) /\ AllGood(d, m, p) /\ Same(d, d.at)
      BY <3>0
    <3>2. Good(d, d.at)
      BY <1>4, <1>6, <3>1 DEF Good
    <3>3. next # d.begin
      <4>1. SUFFICES ASSUME next = d.begin PROVE FALSE
        OBVIOUS
      <4>2. InRing(wait, d.begin)
        BY <1>2, <1>4, <3>1, <3>2, <4>1, WayLeads DEF InRing
      <4>3. QED
        BY <1>3, <2>7, <4>2 DEF Recorded, Rechecking
    <3>4. c \in {"recheck", "flag"}
      BY <2>1
    <3>5. PICK q : q = [k \in 0 .. m + 1 |-> IF k = m + 1 THEN next ELSE p[k]]
      OBVIOUS
    <3>6. /\ \A k \in 0 .. m + 1 : k # m + 1 => k \in 0 .. m /\ q[k] = p[k]
          /\ q[m + 1] = next
      BY <3>5
    <3>7. Way(e, m + 1, q)
      <4>1. q \in [0 .. m + 1 -> Session]
        BY <2>6, <3>1, <3>5, <3>6 DEF Way
      <4>2. q[0] = e.begin /\ q[m + 1] = e.at
        BY <2>4, <3>1, <3>6 DEF Way
      <4>3. \A k \in 0 .. m + 1 : q[k] \in Seen(e)
        BY <2>4, <2>6, <3>1, <3>6 DEF Way, Seen
      <4>4. ASSUME NEW k \in 0 .. m PROVE q[k + 1] = e.shot[q[k]].on
        <5>1. k \in 0 .. m + 1 /\ k + 1 \in 0 .. m + 1 /\ q[k] = p[k]
          BY <3>6
        <5>2. CASE k = m
          BY <1>4, <2>4, <3>1, <3>6, <5>1, <5>2 DEF Way
        <5>3. CASE k # m
          <6>1. k \in 0 .. m - 1 /\ q[k + 1] = p[k + 1]
            BY <3>6, <5>1, <5>3
          <6>2. QED
            BY <2>4, <3>1, <5>1, <6>1 DEF Way
        <5>4. QED
          BY <5>2, <5>3
      <4>5. QED
        BY <4>1, <4>2, <4>3, <4>4 DEF Way
    <3>8. ASSUME NEW k \in 0 .. m PROVE Good(e, q[k])
      <4>1. q[k] = p[k]
        BY <3>6
      <4>2. Good(d, p[k])
        <5>1. CASE k = m
          BY <3>1, <3>2, <5>1 DEF Way
        <5>2. CASE k # m
          BY <3>1, <5>2 DEF AllGood
        <5>3. QED
          BY <5>1, <5>2
      <4>3. QED
        BY <2>4, <4>1, <4>2 DEF Good, Same
    <3>9. AllGood(e, m + 1, q)
      BY <3>8 DEF AllGood
    <3>10. QED
      BY <2>4, <3>3, <3>4, <3>7, <3>9 DEF Behind
  <2>8. e.ring \/ Behind(e)
    BY <1>3, <2>4, <2>7
  <2>9. QED
    BY <1>3, <2>3, <2>5, <2>8, SmonRings
<1>7. QED
  BY <1>2, <1>4, <1>5, <1>6 DEF Look

LEMMA NextRings ==
    ASSUME TInv, RInv, [Next]_vars
    PROVE  RInv'
<1>1. CASE UNCHANGED vars
  <2>1. \A s : InRing(wait, s)' <=> InRing(wait, s)
    BY <1>1 DEF InRing, Leads, WaitsFor, Ended, vars
  <2>2. SUFFICES ASSUME NEW i \in Inst
                 PROVE  Recorded(det[i])' /\ (det[i].ring \/ Behind(det[i]))'
    BY DEF RInv
  <2>3. Recorded(det[i])'
    BY <1>1, <2>1 DEF Recorded, Rechecking, RInv, vars
  <2>4. (det[i].ring \/ Behind(det[i]))'
    <3>1. PICK f : f = det[i]
      OBVIOUS
    <3>2. UNCHANGED <<txn, wait, lsn>> /\ f = det'[i]
      BY <1>1, <3>1 DEF vars
    <3>3. f.ring \/ Behind(f)'
      BY <3>1, <3>2, BehindSame DEF RInv
    <3>4. QED
      BY <3>2, <3>3, BehindThere
  <2>5. QED
    BY <2>3, <2>4
<1>2. ASSUME NEW s \in Session, NEW t \in Session, BeginWait(s, t) PROVE RInv'
  BY <1>2, BeginWaitRings
<1>3. ASSUME NEW s \in Session, WaitDeadlocked(s) \/ WaitTimesOut(s) PROVE RInv'
  <2>1. SmonTypeOK
    BY DEF TInv
  <2>2. Fails(s) /\ used' \in [{"wait", "txn", "fault"} -> Nat] /\ used'["txn"] = used["txn"]
    BY <1>3, <2>1 DEF WaitDeadlocked, WaitTimesOut, SmonTypeOK
  <2>3. TInv' /\ \A i \in Inst : Kept(det[i], det'[i])
    BY <2>2, FailsTypes
  <2>4. QED
    BY <2>2, <2>3, FailsRings
<1>4. ASSUME NEW s \in Session, WaitSucceeds(s) PROVE RInv'
  BY <1>4, WaitSucceedsRings
<1>5. ASSUME NEW s \in Session, EndTxn(s) PROVE RInv'
  BY <1>5, EndTxnRings
<1>6. ASSUME NEW s \in Session, BeginTxn(s) PROVE RInv'
  BY <1>6, BeginTxnRings
<1>7. ASSUME NEW i \in Inst, Pick(i) \/ EndRound(i) PROVE RInv'
  BY <1>7, RoundRings
<1>8. ASSUME NEW i \in Inst, Walk(i) PROVE RInv'
  BY <1>8, WalkRings
<1>9. ASSUME NEW i \in Inst, Recheck(i) PROVE RInv'
  BY <1>9, RecheckRings
<1>10. ASSUME NEW i \in Inst, Look(i) PROVE RInv'
  BY <1>10, LookRings
<1>11. ASSUME NEW i \in Inst, Flag(i) \/ MessageFails(i) PROVE RInv'
  <2>1. PICK d : d = det[i]
    OBVIOUS
  <2>2. d \in Det /\ Back(i, d) /\ UNCHANGED <<txn, wait, lsn>>
    BY <1>11, <2>1, DetFacts DEF TInv, Flag, MessageFails
  <2>3. QED
    BY <2>2, BackRings
<1>12. QED
  BY <1>1, <1>2, <1>3, <1>4, <1>5, <1>6, <1>7, <1>8, <1>9, <1>10, <1>11 DEF Next, Detect

LEMMA RingsInvariant == Spec => [](TInv /\ RInv)
<1>1. Init => RInv
  <2>1. SUFFICES ASSUME Init, NEW i \in Inst PROVE Recorded(det[i]) /\ Behind(det[i])
    BY DEF RInv
  <2>2. det[i].pc = "loop"
    BY <2>1 DEF Init, NewRound
  <2>3. QED
    BY <2>2 DEF Recorded, Rechecking, Behind
<1>2. TInv /\ RInv /\ [Next]_vars => (TInv /\ RInv)'
  BY NextTypes, NextRings
<1>3. QED
  BY <1>1, <1>2, InitTypes, PTL DEF Spec

(* A recheck that comes back to the very session where it began.           *)
CameBack(d) == d.pc = "flag" /\ d.at = d.begin

(* For any sessions: a recheck that succeeds back at the session where it  *)
(* began has found a ring of waits that existed at one moment, or one of   *)
(* which a wait failed and began again meanwhile.  The second look of      *)
(* dtc_smon_detect_dead_lock_in_cluster may be trusted, though it reads    *)
(* the sessions one after another, however many they are and whatever they *)
(* do between two reads; what it cannot be trusted with is two sessions of *)
(* one sid, since it ends at either (dtc_smon.c:560).                      *)
THEOREM RecheckSound == Spec => [](\A i \in Inst : CameBack(det[i]) => det[i].ring)
<1>1. RInv => \A i \in Inst : CameBack(det[i]) => det[i].ring
  BY DEF RInv, Behind, CameBack
<1>2. QED
  BY <1>1, RingsInvariant, PTL

-----------------------------------------------------------------------------
(* What a successful recheck shows, whatever the sids.                     *)

(* Only the second loop decides for a ring.                                *)
LEMMA SetElsewhere ==
    ASSUME SmonTypeOK, NEW i \in Inst, NEW j \in Inst, NEW e, Set(j, e),
           e.pc # "flag", det[i].pc # "flag"
    PROVE  det'[i].pc # "flag"
BY DEF Set, SmonTypeOK

LEMMA BackElsewhere ==
    ASSUME SmonTypeOK, NEW i \in Inst, NEW j \in Inst, NEW d \in Det, Back(j, d),
           det[i].pc # "flag"
    PROVE  det'[i].pc # "flag"
<1>1. PICK e : e = [d EXCEPT !.pc = "loop", !.at = NoSession, !.begin = NoSession,
                             !.shot = NoShot, !.ring = FALSE]
  OBVIOUS
<1>2. e.pc = "loop" /\ Set(j, e)
  BY <1>1 DEF Back, Det
<1>3. QED
  BY <1>2, SetElsewhere

LEMMA WalkElsewhere ==
    ASSUME TInv, NEW i \in Inst, NEW j \in Inst, Walk(j), det[i].pc # "flag"
    PROVE  det'[i].pc # "flag"
<1>1. SmonTypeOK
  BY DEF TInv
<1>2. PICK s : s = det[j].at
  OBVIOUS
<1>3. PICK d : d = WalkRead(j, s)
  OBVIOUS
<1>4. det[j].pc = "walk"
  BY DEF Walk
<1>5. d \in Det /\ d.pc = "walk"
  BY <1>2, <1>3, <1>4, WalkReads
<1>6. \/ Back(j, d)
      \/ \E t : Set(j, [d EXCEPT !.at = t])
      \/ \E t : Set(j, Closed(j, d, t))
  BY <1>2, <1>3 DEF Walk, WalkRead
<1>7. CASE Back(j, d)
  BY <1>1, <1>5, <1>7, BackElsewhere
<1>8. CASE \E t : Set(j, [d EXCEPT !.at = t])
  <2>1. PICK t : Set(j, [d EXCEPT !.at = t])
    BY <1>8
  <2>2. [d EXCEPT !.at = t].pc = "walk"
    BY <1>5 DEF Det
  <2>3. QED
    BY <1>1, <2>1, <2>2, SetElsewhere
<1>9. CASE \E t : Set(j, Closed(j, d, t))
  <2>1. PICK t : Set(j, Closed(j, d, t))
    BY <1>9
  <2>2. Closed(j, d, t).pc = "recheck"
    BY <1>5 DEF Closed, Det
  <2>3. QED
    BY <1>1, <2>1, <2>2, SetElsewhere
<1>10. QED
  BY <1>6, <1>7, <1>8, <1>9

LEMMA OnlyLookDecides ==
    ASSUME TInv, [Next]_vars, NEW i \in Inst, det[i].pc # "flag", det'[i].pc = "flag"
    PROVE  Look(i)
<1>1. SmonTypeOK
  BY DEF TInv
<1>2. ASSUME \A j \in Inst : Kept(det[j], det'[j]) PROVE FALSE
  BY <1>2 DEF Kept
<1>3. ASSUME NEW s \in Session, NEW t \in Session, BeginWait(s, t) PROVE FALSE
  BY <1>2, <1>3, BeginWaitTypes
<1>4. ASSUME NEW s \in Session, WaitDeadlocked(s) \/ WaitTimesOut(s) PROVE FALSE
  <2>1. Fails(s) /\ used' \in [{"wait", "txn", "fault"} -> Nat] /\ used'["txn"] = used["txn"]
    BY <1>1, <1>4 DEF WaitDeadlocked, WaitTimesOut, SmonTypeOK
  <2>2. QED
    BY <1>2, <2>1, FailsTypes
<1>5. ASSUME det' = det PROVE FALSE
  BY <1>5
<1>6. ASSUME NEW j \in Inst, Pick(j) \/ EndRound(j) PROVE FALSE
  <2>1. ASSUME NEW s, Set(j, [det[j] EXCEPT !.pc = "walk", !.at = s]) PROVE FALSE
    <3>1. [det[j] EXCEPT !.pc = "walk", !.at = s].pc = "walk"
      BY <1>1, DetFacts DEF Det
    <3>2. QED
      BY <1>1, <2>1, <3>1, SetElsewhere
  <2>2. ASSUME Set(j, NewRound) PROVE FALSE
    BY <1>1, <2>2, SetElsewhere DEF NewRound
  <2>3. QED
    BY <1>6, <2>1, <2>2 DEF Pick, EndRound
<1>7. ASSUME NEW j \in Inst, Walk(j) PROVE FALSE
  BY <1>7, WalkElsewhere
<1>8. ASSUME NEW j \in Inst, Back(j, det[j]) PROVE FALSE
  BY <1>1, <1>8, BackElsewhere, DetFacts
<1>9. ASSUME NEW j \in Inst, Set(j, [det[j] EXCEPT !.pc = "look"]) PROVE FALSE
  <2>1. [det[j] EXCEPT !.pc = "look"].pc = "look"
    BY <1>1, DetFacts DEF Det
  <2>2. QED
    BY <1>1, <1>9, <2>1, SetElsewhere
<1>10. ASSUME NEW j \in Inst, Look(j), j # i PROVE FALSE
  BY <1>1, <1>10 DEF Look, Back, Set, SmonTypeOK
<1>11. ASSUME NEW j \in Inst, Recheck(j) \/ Flag(j) \/ MessageFails(j) PROVE FALSE
  BY <1>8, <1>9, <1>11 DEF Recheck, Flag, MessageFails
<1>12. ASSUME NEW s \in Session, WaitSucceeds(s) \/ EndTxn(s) \/ BeginTxn(s) PROVE FALSE
  BY <1>5, <1>12 DEF WaitSucceeds, EndTxn, BeginTxn
<1>13. ASSUME UNCHANGED vars PROVE FALSE
  BY <1>5, <1>13 DEF vars
<1>14. QED
  BY <1>3, <1>4, <1>6, <1>7, <1>10, <1>11, <1>12, <1>13 DEF Next, Detect

(* The step that decides: where it does not close a ring, the sessions     *)
(* that the recheck has come along all still wait.                         *)
LEMMA DecidesRightly ==
    ASSUME TInv, TInv', RInv, NEW i \in Inst, Look(i), det'[i].pc = "flag", ~det'[i].ring,
           det'[i].ring \/ Behind(det[i])'
    PROVE  InstOf(det'[i].at) # i /\ Leads(wait, det'[i].begin, det'[i].at)
<1>1. SmonTypeOK /\ SearchOK(i, det[i]) /\ SearchOK(i, det[i])'
  BY DEF TInv, Searches
<1>2. PICK d : d = det[i]
  OBVIOUS
<1>3. d \in Det /\ d.pc = "look" /\ (d.ring \/ Behind(d))
  BY <1>1, <1>2, DetFacts DEF Look, RInv
<1>4. PICK next : next = d.shot[d.at].on
  OBVIOUS
<1>5. ~Back(i, d)
  BY <1>1, <1>2, <1>3, BackElsewhere
<1>6. /\ ~Ended(next, d.shot[d.at].xnum)
      /\ Set(i, [d EXCEPT !.at = next,
                          !.pc = IF SidOf(next) = SidOf(d.begin) THEN "flag"
                                 ELSE "recheck"])
  BY <1>2, <1>4, <1>5 DEF Look
<1>7. det'[i].at = next /\ det'[i].begin = d.begin /\ det'[i].ring = d.ring
  BY <1>1, <1>3, <1>6 DEF Set, SmonTypeOK, Det
<1>8. Leads(wait, d.begin, next)
  <2>1. PICK m \in Nat : \E p : Way(d, m, p) /\ AllGood(d, m, p) /\ Same(d, d.at)
    BY <1>3, <1>4, <1>6, <1>7 DEF Behind
  <2>2. PICK p : Way(d, m, p) /\ AllGood(d, m, p) /\ Same(d, d.at)
    BY <2>1
  <2>3. Good(d, d.at)
    BY <1>4, <1>6, <2>2 DEF Good
  <2>4. QED
    BY <1>2, <1>4, <2>2, <2>3, WayLeads
<1>9. InstOf(next) # i
  <2>1. next # d.begin
    BY <1>7 DEF Behind
  <2>2. next \in Session /\ d.begin \in Session /\ SidOf(next) = SidOf(d.begin) /\ InstOf(d.begin) = i
    BY <1>1, <1>7 DEF SearchOK, Seen, Local
  <2>3. /\ next = <<InstOf(next), SidOf(next)>> /\ d.begin = <<InstOf(d.begin), SidOf(d.begin)>>
    BY <2>2, SessionAssumption DEF InstOf, SidOf
  <2>4. QED
    BY <2>1, <2>2, <2>3
<1>10. QED
  BY <1>7, <1>8, <1>9

(* For any sessions, whatever their sids: smon fails a wait only for a     *)
(* ring (as RecheckSound has it), or, where the comparison of sids ended   *)
(* the recheck early (dtc_smon.c:560), for a chain of waits that leads     *)
(* from the session to one of another instance and all of which exist when *)
(* the recheck ends, although it has read them one after another.          *)
THEOREM OnlyWaitersFailed == Spec => WaitsReal
<1>1. ASSUME TInv, TInv', RInv, RInv', [Next]_vars, NEW i \in Inst,
             det[i].pc # "flag", det'[i].pc = "flag"
      PROVE  \/ det'[i].ring
             \/ InstOf(det'[i].at) # i /\ Leads(wait, det'[i].begin, det'[i].at)
  <2>1. Look(i)
    BY <1>1, OnlyLookDecides
  <2>2. det'[i].ring \/ Behind(det[i])'
    BY <1>1 DEF RInv
  <2>3. QED
    BY <1>1, <2>1, <2>2, DecidesRightly
<1>2. (TInv /\ RInv) /\ (TInv /\ RInv)' /\ [Next]_vars =>
         [\A i \in Inst : det[i].pc # "flag" /\ det'[i].pc = "flag" =>
            \/ det'[i].ring
            \/ /\ InstOf(det'[i].at) # i
               /\ Leads(wait, det'[i].begin, det'[i].at)]_vars
  BY <1>1
<1>3. QED
  BY <1>2, RingsInvariant, PTL DEF Spec, WaitsReal
=============================================================================

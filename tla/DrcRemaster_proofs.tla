------------------------- MODULE DrcRemaster_proofs -------------------------
(***************************************************************************)
(* What DrcRemaster keeps to whatever the instances, the parts, the reform *)
(* and the number of repetitions: its types (an entry that exists names an *)
(* instance); that a remastering that is done at the reformer is done      *)
(* everywhere with one map; and what becomes of the entries, moved,        *)
(* rebuilt, freed, or kept when the remastering is undone.                 *)
(***************************************************************************)
EXTENDS DrcRemaster, TLAPS, WellFoundedInduction

-----------------------------------------------------------------------------
(* The types, as an inductive invariant.                                   *)

TaskRec == [part : Part, exp : Inst, imp : Inst]

(* What a slot of the directory may have: no entry, or one that names an   *)
(* instance.                                                               *)
Named == {e \in Entries : e.owner # None \/ e.copies \cup e.edps # {}}
Slots == Named \cup {None}

(* A message, by its type.  A report names pages its sender holds.         *)
Msg(m) ==
    /\ m.src \in Inst /\ m.dst \in Inst
    /\ m.type = "notify" => m.status \in {"ASSIGN_TASK", "FAIL"}
    /\ m.type = "task" => m.dst \in Others /\ m.tasks \in SUBSET TaskRec
    /\ m.type = "task_ack" => m.src \in Others
    /\ m.type = "data" => m.part \in Part /\ m.entry \in Named
    /\ m.type = "end" => m.part \in Part /\ m.count \in {0, 1}
    /\ m.type = "report" => m.parts \subseteq {p \in Part : Holds(m.src, p)}
    /\ m.type \in {"target", "done"} =>
          m.dst \in Others /\ m.round \in 0 .. MaxResends /\ m.map \in Maps
    /\ m.type = "ack" =>
          m.src \in Others /\ m.round \in 0 .. MaxResends /\ m.step \in {"target", "done"}

Protocol ==
    /\ reform \in Reforms
    /\ status \in [Inst -> Statuses]
    /\ map \in [Inst -> Maps] /\ target \in [Inst -> Maps]
    /\ task \in [Inst -> SUBSET TaskRec]
    /\ assigned \subseteq Inst
    /\ drm \in [Inst -> Statuses]
    /\ assign \in [left : SUBSET Others, awaits : Inst \cup {None}]
    /\ sent \subseteq Inst /\ owed \in [Inst -> SUBSET Inst]
    /\ pub \in [step : {"none", "target", "done"}, round : 0 .. MaxResends, acks : SUBSET Others]

Directory ==
    /\ dir \in [Inst -> [Part -> Slots]]
    /\ due \in [Inst -> [Part -> {-1, 0, 1}]]

Messages == \A m \in net : Msg(m)

TInv == Protocol /\ Directory /\ Messages

-----------------------------------------------------------------------------
(* The publishing, as an inductive invariant.                              *)

Early == {"IDLE", "PREPARE", "ASSIGN_TASK"}

(* The instance has the reformer's map, or has undone its part of it.      *)
Taken(i) == map[i] = target[Reformer] \/ status[i] = "STOPPED"

(* The steps of the reformer exclude one another.                          *)
Steps ==
    /\ assign # Idle => status[Reformer] \in {"ASSIGN_TASK", "FAIL"}
    /\ pub.step = "none" => pub = Quiet
    /\ pub.step # "none" => status[Reformer] \in {"PUBLISH", "FAIL"}

(* What a message of the broadcasts, or an answer to one, tells.           *)
Tells(m) ==
    /\ m.type \in {"target", "done"} =>
          status[Reformer] \notin Early /\ m.map = target[Reformer]
    /\ m.type = "ack" =>
          /\ status[Reformer] \notin Early
          /\ m.step = "target" => Taken(m.src)
          /\ m.step = "done" => status[m.src] \in Finished

(* What the answers counted so far tell.                                   *)
Counted ==
    /\ pub.step = "target" => \A i \in pub.acks : Taken(i)
    /\ pub.step = "done" =>
          /\ map[Reformer] = target[Reformer]
          /\ \A i \in Others : Taken(i)
          /\ \A i \in pub.acks : status[i] \in Finished

PInv == Steps /\ (\A m \in net : Tells(m)) /\ Counted /\ PublishedTogether

-----------------------------------------------------------------------------
(* The largest of bounded numbers exists: the least distance to the bound. *)
LEMMA Smallest ==
    ASSUME NEW T, T \subseteq Nat, T # {}
    PROVE  \E x \in T : \A y \in T : x <= y
<1>1. PICK x \in T : \A y \in T : ~(<<y, x>> \in OpToRel(<, Nat))
  BY NatLessThanWellFounded, WFMin
<1>2. ASSUME NEW y \in T PROVE x <= y
  <2>1. ~(<<y, x>> \in OpToRel(<, Nat))
    BY <1>1
  <2>2. y < x => <<y, x>> \in OpToRel(<, Nat)
    BY DEF OpToRel
  <2>3. x \in Nat /\ y \in Nat /\ ~(y < x)
    BY <2>1, <2>2
  <2>4. QED
    BY <2>3
<1>3. QED
  BY <1>2

LEMMA Largest ==
    ASSUME NEW S, S # {}, NEW f, \A s \in S : f[s] \in 0 .. MaxLsn
    PROVE  \E s \in S : \A t \in S : f[t] <= f[s]
<1> DEFINE T == {MaxLsn - f[s] : s \in S}
<1>1. MaxLsn \in Nat
  BY RemasterAssumption
<1>2. T \subseteq Nat /\ T # {}
  BY <1>1
<1>3. PICK x \in T : \A y \in T : x <= y
  BY <1>2, Smallest
<1>4. PICK s \in S : x = MaxLsn - f[s]
  OBVIOUS
<1>5. ASSUME NEW t \in S PROVE f[t] <= f[s]
  <2>1. MaxLsn - f[t] \in T
    OBVIOUS
  <2>2. MaxLsn - f[s] <= MaxLsn - f[t]
    BY <1>3, <1>4, <2>1
  <2>3. QED
    BY <1>1, <2>2
<1>6. QED
  BY <1>5

(* What is assumed of a reform, and what follows of the sets of instances. *)
LEMMA ReformFacts ==
    ASSUME reform \in Reforms
    PROVE  /\ reform.before \subseteq Inst /\ reform.join \subseteq Inst
           /\ reform.leave \subseteq Inst /\ reform.abort \subseteq Inst
           /\ Reformer \in Inst /\ Reformer \in Alive /\ Reformer \notin Others
           /\ After \subseteq Inst /\ Alive \subseteq Inst /\ Others \subseteq Inst
           /\ Gone \subseteq Inst /\ Alive = Others \cup {Reformer}
           /\ reform.map \in Maps
           /\ reform.held \in [Inst -> [Part -> [mode : {"N", "S", "X"}, edp : 0 .. MaxLsn]]]
BY ReformsAssumption DEF Reformer, Alive, After, Others, Gone, Maps

(* A message stays what it is. *)
LEMMA MsgStays ==
    ASSUME reform' = reform
    PROVE  /\ Others' = Others /\ Reformer' = Reformer /\ Alive' = Alive
           /\ \A n : Msg(n)' <=> Msg(n)
BY DEF Others, Reformer, Alive, After, Msg, Holds

(* drc_update_remaster_local_status *)
LEMMA StatusStep ==
    ASSUME status \in [Inst -> Statuses], NEW i \in Inst, NEW s \in Statuses,
           status' = NewStatus(i, s)
    PROVE  /\ status' \in [Inst -> Statuses]
           /\ status'[i] = IF status[i] = "FAIL" THEN "FAIL" ELSE s
           /\ \A j \in Inst \ {i} : status'[j] = status[j]
BY DEF NewStatus

(* The entries of the directory name instances. *)
LEMMA FirstEntryNamed ==
    ASSUME NEW r \in Reforms, NEW p \in Part
    PROVE  FirstEntry(r, p) \in Slots
<1> DEFINE hs == {i \in r.before : r.held[i][p].mode # "N"}
           xs == {i \in hs : r.held[i][p].mode = "X"}
           es == {i \in r.before : r.held[i][p].edp > 0}
           o == IF hs = {} THEN None ELSE IF xs # {} THEN CHOOSE i \in xs : TRUE ELSE CHOOSE i \in hs : TRUE
           l == IF es = {} THEN None
                ELSE CHOOSE i \in es : \A j \in es : r.held[j][p].edp <= r.held[i][p].edp
           n == IF l = None THEN 0 ELSE r.held[l][p].edp
           e == [owner |-> o, copies |-> hs \ {o}, edps |-> es, latest |-> l, lsn |-> n]
<1>1. FirstEntry(r, p) = IF hs = {} /\ es = {} THEN None ELSE e
  BY DEF FirstEntry
<1>2. /\ r.before \subseteq Inst /\ None \notin Inst /\ MaxLsn \in Nat
      /\ \A i \in Inst : r.held[i][p].edp \in 0 .. MaxLsn
  BY ReformsAssumption, RemasterAssumption
<1>3. hs \subseteq Inst /\ xs \subseteq Inst /\ es \subseteq Inst
  BY <1>2
<1>4. o \in Inst \cup {None} /\ (hs # {} => o \in Inst)
  <2> HIDE DEF hs, xs
  <2>1. QED
    BY <1>3
<1>5. es # {} => \E i \in es : \A j \in es : r.held[j][p].edp <= r.held[i][p].edp
  <2> DEFINE f == [i \in Inst |-> r.held[i][p].edp]
  <2>1. \A i \in es : f[i] \in 0 .. MaxLsn /\ f[i] = r.held[i][p].edp
    BY <1>2, <1>3
  <2> HIDE DEF f, es
  <2>2. es # {} => \E i \in es : \A j \in es : f[j] <= f[i]
    BY <2>1, Largest
  <2>3. QED
    BY <2>1, <2>2
<1>6. l \in Inst \cup {None}
  <2> HIDE DEF es
  <2>1. QED
    BY <1>3, <1>5
<1>7. n \in Nat
  <2> HIDE DEF l
  <2>1. CASE l = None
    BY <2>1
  <2>2. CASE l # None
    BY <1>2, <1>6, <2>2
  <2>3. QED
    BY <2>1, <2>2
<1> HIDE DEF hs, xs, es, o, l, n
<1>8. e \in Entries
  BY <1>3, <1>4, <1>6, <1>7 DEF Entries
<1>9. hs # {} \/ es # {} => e.owner # None \/ e.copies \cup e.edps # {}
  BY <1>2, <1>4
<1>10. QED
  BY <1>1, <1>8, <1>9 DEF Slots, Named

(* drc_rcy_page_info makes or updates an entry for a page that is held. *)
LEMMA ReportedNamed ==
    ASSUME reform \in Reforms, NEW e \in Slots, NEW i \in Inst, NEW p \in Part, Holds(i, p)
    PROVE  Reported(e, i, p) \in Slots
<1> DEFINE h == reform.held[i][p]
<1>1. h \in [mode : {"N", "S", "X"}, edp : 0 .. MaxLsn] /\ MaxLsn \in Nat /\ None \notin Inst
  BY ReformFacts, RemasterAssumption
<1>2. h.mode # "N" \/ h.edp > 0
  BY DEF Holds
<1>3. h.mode \in {"N", "S", "X"} /\ h.edp \in Nat
  BY <1>1
<1>4. Reported(e, i, p) = IF e = None THEN NewEntry(i, h) ELSE UpdatePageInfo(e, i, h)
  BY DEF Reported
<1> HIDE DEF h
<1>5. Edp(i, h) \subseteq Inst /\ (h.edp > 0 => Edp(i, h) # {})
  BY DEF Edp
<1>6. NewEntry(i, h) \in Named
  <2>1. NewEntry(i, h) \in Entries
    BY <1>3, <1>5 DEF NewEntry, Entries
  <2>2. NewEntry(i, h).owner # None \/ NewEntry(i, h).copies \cup NewEntry(i, h).edps # {}
    BY <1>1, <1>2, <1>3, <1>5 DEF NewEntry
  <2>3. QED
    BY <2>1, <2>2 DEF Named
<1>7. ASSUME e # None PROVE UpdatePageInfo(e, i, h) \in Named
  <2>1. /\ e \in Entries /\ e.owner \in Inst \cup {None} /\ e.copies \subseteq Inst /\ e.edps \subseteq Inst
        /\ e.latest \in Inst \cup {None} /\ e.lsn \in Nat
        /\ (e.owner # None \/ e.copies \cup e.edps # {})
    BY <1>7 DEF Slots, Named, Entries
  <2>2. UpdatePageInfo(e, i, h) \in Entries
    BY <1>3, <1>5, <2>1 DEF UpdatePageInfo, Entries
  <2>3. \/ UpdatePageInfo(e, i, h).owner # None
        \/ UpdatePageInfo(e, i, h).copies \cup UpdatePageInfo(e, i, h).edps # {}
    BY <1>1, <2>1 DEF UpdatePageInfo
  <2>4. QED
    BY <2>2, <2>3 DEF Named
<1>8. QED
  BY <1>4, <1>6, <1>7 DEF Slots

(* drc_clean_page_owner_by_part removes an entry nobody is left in. *)
LEMMA CleanedNamed ==
    ASSUME NEW e \in Slots, NEW G
    PROVE  Cleaned(e, G) \in Slots
<1> DEFINE left == [owner  |-> IF e.owner \in G THEN None ELSE e.owner,
                    copies |-> e.copies \ G,
                    edps   |-> e.edps \ G,
                    latest |-> IF e.latest \in G THEN None ELSE e.latest,
                    lsn    |-> IF e.latest \in G THEN 0 ELSE e.lsn]
<1>1. CASE e = None
  BY <1>1 DEF Cleaned, Slots
<1>2. CASE e # None
  <2>1. /\ e.owner \in Inst \cup {None} /\ e.copies \subseteq Inst /\ e.edps \subseteq Inst
        /\ e.latest \in Inst \cup {None} /\ e.lsn \in Nat
    BY <1>2 DEF Slots, Named, Entries
  <2>2. left \in Entries
    BY <2>1 DEF Entries
  <2>3. Cleaned(e, G) = IF left.owner = None /\ left.copies = {} /\ left.edps = {} THEN None ELSE left
    BY <1>2 DEF Cleaned
  <2> HIDE DEF left
  <2>4. QED
    BY <2>2, <2>3 DEF Slots, Named
<1>3. QED
  BY <1>1, <1>2

-----------------------------------------------------------------------------
(* The types hold at first, and every step keeps them.                     *)

LEMMA InitTypes == Init => TInv
<1> SUFFICES ASSUME Init PROVE TInv
  OBVIOUS
<1>1. reform \in Reforms /\ Zero \in Inst /\ None \notin Inst /\ MaxResends \in Nat
  BY RemasterAssumption DEF Init
<1>2. reform.before \subseteq Inst /\ reform.map \in Maps
  BY <1>1, ReformFacts
<1>3. status \in [Inst -> Statuses] /\ drm \in [Inst -> Statuses]
  BY DEF Init, Statuses, Working
<1>4. map \in [Inst -> Maps] /\ target \in [Inst -> Maps]
  BY <1>1, <1>2 DEF Init, Maps
<1>5. assigned \subseteq Inst /\ sent \subseteq Inst /\ owed \in [Inst -> SUBSET Inst]
      /\ task \in [Inst -> SUBSET TaskRec]
  BY <1>2 DEF Init
<1>6. assign \in [left : SUBSET Others, awaits : Inst \cup {None}]
  BY DEF Init, Idle
<1>7. pub \in [step : {"none", "target", "done"}, round : 0 .. MaxResends, acks : SUBSET Others]
  BY <1>1 DEF Init, Quiet
<1>8. dir \in [Inst -> [Part -> Slots]]
  <2>1. None \in Slots /\ \A p \in Part : FirstEntry(reform, p) \in Slots
    BY <1>1, FirstEntryNamed DEF Slots
  <2>2. QED
    BY <2>1 DEF Init
<1>9. due \in [Inst -> [Part -> {-1, 0, 1}]] /\ net = {}
  BY DEF Init
<1>10. QED
  BY <1>1, <1>3, <1>4, <1>5, <1>6, <1>7, <1>8, <1>9 DEF TInv, Protocol, Directory, Messages

LEMMA FailNoticeMsg ==
    ASSUME reform \in Reforms, NEW i \in Inst
    PROVE  \A m \in FailNotice(i) : Msg(m) /\ m.type = "notify"
BY ReformFacts DEF FailNotice, Msg

LEMMA TaskDoneMsg ==
    ASSUME reform \in Reforms, NEW i \in Inst
    PROVE  \A m \in TaskDone(i) : Msg(m) /\ m.type = "done_task"
BY ReformFacts DEF TaskDone, Msg

LEMMA OutgoingMsg ==
    ASSUME TInv, NEW i \in Inst, NEW d \in [Part -> Slots]
    PROVE  \A m \in Outgoing(i, d) : Msg(m) /\ m.type \in {"data", "end"}
<1> DEFINE T == {k \in task[i] : k.exp = i}
           Data == {[type |-> "data", src |-> i, dst |-> k.imp, part |-> k.part, entry |-> d[k.part]] :
                        k \in {l \in T : d[l.part] # None}}
           Ends == {[type |-> "end", src |-> i, dst |-> k.imp, part |-> k.part,
                     count |-> Count(d[k.part])] : k \in T}
<1>1. Outgoing(i, d) = Data \cup Ends
  BY DEF Outgoing, Exports
<1>2. \A k \in T : k.part \in Part /\ k.imp \in Inst
  BY DEF TInv, Protocol, TaskRec
<1>3. ASSUME NEW k \in T, d[k.part] # None PROVE d[k.part] \in Named
  BY <1>2, <1>3 DEF Slots
<1>4. ASSUME NEW m \in Data PROVE Msg(m) /\ m.type = "data"
  <2>1. PICK k \in T : /\ m = [type |-> "data", src |-> i, dst |-> k.imp, part |-> k.part, entry |-> d[k.part]]
                       /\ d[k.part] # None
    OBVIOUS
  <2>2. k.part \in Part /\ k.imp \in Inst /\ d[k.part] \in Named
    BY <1>2, <1>3, <2>1
  <2>3. QED
    BY <2>1, <2>2 DEF Msg
<1>5. ASSUME NEW m \in Ends PROVE Msg(m) /\ m.type = "end"
  <2>1. PICK k \in T : m = [type |-> "end", src |-> i, dst |-> k.imp, part |-> k.part, count |-> Count(d[k.part])]
    OBVIOUS
  <2>2. k.part \in Part /\ k.imp \in Inst /\ Count(d[k.part]) \in {0, 1}
    BY <1>2 DEF Count
  <2>3. QED
    BY <2>1, <2>2 DEF Msg
<1>6. QED
  BY <1>1, <1>4, <1>5

LEMMA BroadcastMsg ==
    ASSUME TInv, NEW type \in {"target", "done"}, NEW n \in 0 .. MaxResends
    PROVE  \A m \in Broadcast(type, n) : /\ Msg(m) /\ m.type = type /\ m.map = target[Reformer]
<1>1. Reformer \in Inst /\ Others \subseteq Inst /\ target[Reformer] \in Maps
  BY ReformFacts DEF TInv, Protocol
<1>2. TAKE m \in Broadcast(type, n)
<1>3. PICK i \in Others : m = [type |-> type, src |-> Reformer, dst |-> i, round |-> n, map |-> target[Reformer]]
  BY DEF Broadcast
<1>4. QED
  BY <1>1, <1>3 DEF Msg

LEMMA TasksTyped ==
    ASSUME TInv, NEW t \in [Part -> Inst]
    PROVE  Tasks(t) \in SUBSET TaskRec
<1>1. Reformer \in Inst /\ map[Reformer] \in [Part -> Inst]
  BY ReformFacts DEF TInv, Protocol, Maps
<1>2. QED
  BY <1>1 DEF Tasks, TaskRec

LEMMA StartTypes ==
    ASSUME TInv, NEW i \in Inst, Start(i)
    PROVE  TInv'
<1>1. /\ reform \in Reforms /\ reform' = reform /\ Reformer \in Inst /\ Others \subseteq Inst
      /\ Protocol /\ Directory /\ Messages /\ Statuses = Working \cup {"IDLE", "DONE", "ENDED", "STOPPED"}
  BY ReformFacts DEF TInv, Protocol, Start, Statuses
<1>2. Others' = Others /\ Reformer' = Reformer /\ \A n : Msg(n)' <=> Msg(n)
  BY <1>1, MsgStays
<1>11. Protocol'
  BY <1>1, <1>2 DEF Protocol, Start, Working
<1>12. Directory'
  BY <1>1 DEF Directory, Start
<1>13. Messages'
  BY <1>1, <1>2 DEF Messages, Start
<1>14. QED
  BY <1>11, <1>12, <1>13 DEF TInv

LEMMA PrepareTypes ==
    ASSUME TInv, NEW i \in Inst, Prepare(i)
    PROVE  TInv'
<1>1. /\ reform \in Reforms /\ reform' = reform /\ Reformer \in Inst /\ Others \subseteq Inst
      /\ Protocol /\ Directory /\ Messages /\ Statuses = Working \cup {"IDLE", "DONE", "ENDED", "STOPPED"}
  BY ReformFacts DEF TInv, Protocol, Prepare, Statuses
<1>2. Others' = Others /\ Reformer' = Reformer /\ \A n : Msg(n)' <=> Msg(n)
  BY <1>1, MsgStays
<1>3. status' \in [Inst -> Statuses]
  BY <1>1, StatusStep DEF Protocol, Prepare, Fail, Working
<1>4. drm' \in [Inst -> Statuses]
  BY <1>1 DEF Protocol, Prepare, Working
<1>5. ASSUME NEW m \in net' PROVE Msg(m)
  <2>1. m \in net \/ m \in FailNotice(i)
        \/ m = [type |-> "notify", src |-> i, dst |-> Reformer, status |-> "ASSIGN_TASK"]
    BY DEF Prepare, Fail
  <2>2. QED
    BY <1>1, <2>1, FailNoticeMsg DEF Messages, Msg
<1>11. Protocol'
  BY <1>1, <1>2, <1>3, <1>4 DEF Protocol, Prepare
<1>12. Directory'
  BY <1>1 DEF Directory, Prepare
<1>13. Messages'
  BY <1>2, <1>5 DEF Messages
<1>14. QED
  BY <1>11, <1>12, <1>13 DEF TInv

LEMMA HandleNotifyTypes ==
    ASSUME TInv, NEW m \in net, HandleNotify(m)
    PROVE  TInv'
<1>1. /\ reform \in Reforms /\ reform' = reform /\ Reformer \in Inst /\ Others \subseteq Inst
      /\ Protocol /\ Directory /\ Messages /\ Statuses = Working \cup {"IDLE", "DONE", "ENDED", "STOPPED"}
  BY ReformFacts DEF TInv, Protocol, HandleNotify, Statuses
<1>2. Others' = Others /\ Reformer' = Reformer /\ \A n : Msg(n)' <=> Msg(n)
  BY <1>1, MsgStays
<1>3. m.status \in {"ASSIGN_TASK", "FAIL"} /\ m.src \in Inst
  BY <1>1 DEF Messages, Msg, HandleNotify
<1>4. status' \in [Inst -> Statuses]
  BY <1>1, StatusStep DEF Protocol, HandleNotify, Working
<1>5. drm' \in [Inst -> Statuses]
  BY <1>1, <1>3 DEF Protocol, HandleNotify, Working
<1>11. Protocol'
  BY <1>1, <1>2, <1>4, <1>5 DEF Protocol, HandleNotify
<1>12. Directory'
  BY <1>1 DEF Directory, HandleNotify
<1>13. Messages'
  BY <1>1, <1>2 DEF Messages, HandleNotify
<1>14. QED
  BY <1>11, <1>12, <1>13 DEF TInv

LEMMA ExecuteTypes ==
    ASSUME TInv, Execute
    PROVE  TInv'
<1>1. /\ reform \in Reforms /\ reform' = reform /\ Reformer \in Inst /\ Others \subseteq Inst
      /\ Protocol /\ Directory /\ Messages /\ Statuses = Working \cup {"IDLE", "DONE", "ENDED", "STOPPED"}
  BY ReformFacts DEF TInv, Protocol, Execute, Statuses
<1>2. Others' = Others /\ Reformer' = Reformer /\ \A n : Msg(n)' <=> Msg(n)
  BY <1>1, MsgStays
<1>3. PICK t \in [Part -> Inst] : /\ target' = [target EXCEPT ![Reformer] = t]
                                   /\ task' = [task EXCEPT ![Reformer] = Tasks(t)]
  BY <1>1, ReformFacts DEF Execute, NewMaps
<1>4. target' \in [Inst -> Maps]
  BY <1>1, <1>3 DEF Protocol, Maps
<1>5. task' \in [Inst -> SUBSET TaskRec]
  BY <1>1, <1>3, TasksTyped DEF Protocol
<1>6. status' \in [Inst -> Statuses]
  BY <1>1, StatusStep DEF Protocol, Execute, Working
<1>7. assign' \in [left : SUBSET Others, awaits : Inst \cup {None}]
  BY <1>1 DEF Protocol, Execute
<1>11. Protocol'
  BY <1>1, <1>2, <1>4, <1>5, <1>6, <1>7 DEF Protocol, Execute
<1>12. Directory'
  BY <1>1 DEF Directory, Execute
<1>13. Messages'
  BY <1>1, <1>2 DEF Messages, Execute
<1>14. QED
  BY <1>11, <1>12, <1>13 DEF TInv

LEMMA SendTaskTypes ==
    ASSUME TInv, NEW i \in Inst, SendTask(i)
    PROVE  TInv'
<1>1. /\ reform \in Reforms /\ reform' = reform /\ Reformer \in Inst /\ Others \subseteq Inst
      /\ Protocol /\ Directory /\ Messages /\ Statuses = Working \cup {"IDLE", "DONE", "ENDED", "STOPPED"}
  BY ReformFacts DEF TInv, Protocol, SendTask, Statuses
<1>2. Others' = Others /\ Reformer' = Reformer /\ \A n : Msg(n)' <=> Msg(n)
  BY <1>1, MsgStays
<1>3. i \in Others
  BY <1>1 DEF Protocol, SendTask
<1>4. assign' \in [left : SUBSET Others, awaits : Inst \cup {None}]
  BY <1>1 DEF Protocol, SendTask
<1>5. Msg(TaskOf(i, target[Reformer]))
  <2>1. Tasks(target[Reformer]) \in SUBSET TaskRec
    BY <1>1, TasksTyped DEF Protocol, Maps
  <2>2. QED
    BY <1>1, <1>3, <2>1 DEF TaskOf, Msg
<1>11. Protocol'
  BY <1>1, <1>2, <1>4 DEF Protocol, SendTask
<1>12. Directory'
  BY <1>1 DEF Directory, SendTask
<1>13. Messages'
  BY <1>1, <1>2, <1>5 DEF Messages, SendTask
<1>14. QED
  BY <1>11, <1>12, <1>13 DEF TInv

LEMMA HandleTaskAckTypes ==
    ASSUME TInv, NEW m \in net, HandleTaskAck(m)
    PROVE  TInv'
<1>1. /\ reform \in Reforms /\ reform' = reform /\ Reformer \in Inst /\ Others \subseteq Inst
      /\ Protocol /\ Directory /\ Messages /\ Statuses = Working \cup {"IDLE", "DONE", "ENDED", "STOPPED"}
  BY ReformFacts DEF TInv, Protocol, HandleTaskAck, Statuses
<1>2. Others' = Others /\ Reformer' = Reformer /\ \A n : Msg(n)' <=> Msg(n)
  BY <1>1, MsgStays
<1>3. status' \in [Inst -> Statuses]
  BY <1>1, StatusStep DEF Protocol, HandleTaskAck, Working
<1>4. assign' \in [left : SUBSET Others, awaits : Inst \cup {None}]
  BY <1>1 DEF Protocol, HandleTaskAck
<1>11. Protocol'
  BY <1>1, <1>2, <1>3, <1>4 DEF Protocol, HandleTaskAck
<1>12. Directory'
  BY <1>1 DEF Directory, HandleTaskAck
<1>13. Messages'
  BY <1>1, <1>2 DEF Messages, HandleTaskAck
<1>14. QED
  BY <1>11, <1>12, <1>13 DEF TInv

LEMMA GiveUpTypes ==
    ASSUME TInv, GiveUp
    PROVE  TInv'
<1>1. /\ reform \in Reforms /\ reform' = reform /\ Reformer \in Inst /\ Others \subseteq Inst
      /\ Protocol /\ Directory /\ Messages /\ Statuses = Working \cup {"IDLE", "DONE", "ENDED", "STOPPED"}
  BY ReformFacts DEF TInv, Protocol, GiveUp, Statuses
<1>2. Others' = Others /\ Reformer' = Reformer /\ \A n : Msg(n)' <=> Msg(n)
  BY <1>1, MsgStays
<1>3. status' \in [Inst -> Statuses]
  BY <1>1, StatusStep DEF Protocol, GiveUp, Working
<1>4. assign' \in [left : SUBSET Others, awaits : Inst \cup {None}]
  BY DEF GiveUp, Idle
<1>5. pub' \in [step : {"none", "target", "done"}, round : 0 .. MaxResends, acks : SUBSET Others]
  BY RemasterAssumption DEF GiveUp, Quiet
<1>11. Protocol'
  BY <1>1, <1>2, <1>3, <1>4, <1>5 DEF Protocol, GiveUp
<1>12. Directory'
  BY <1>1 DEF Directory, GiveUp
<1>13. Messages'
  BY <1>1, <1>2 DEF Messages, GiveUp
<1>14. QED
  BY <1>11, <1>12, <1>13 DEF TInv

LEMMA HandleTaskTypes ==
    ASSUME TInv, NEW m \in net, HandleTask(m)
    PROVE  TInv'
<1>1. /\ reform \in Reforms /\ reform' = reform /\ Reformer \in Inst /\ Others \subseteq Inst
      /\ Protocol /\ Directory /\ Messages /\ Statuses = Working \cup {"IDLE", "DONE", "ENDED", "STOPPED"}
  BY ReformFacts DEF TInv, Protocol, HandleTask, Statuses
<1>2. Others' = Others /\ Reformer' = Reformer /\ \A n : Msg(n)' <=> Msg(n)
  BY <1>1, MsgStays
<1>3. m.dst \in Inst /\ m.src \in Inst /\ m.dst \in Others /\ m.tasks \in SUBSET TaskRec
  BY <1>1 DEF Messages, Msg, HandleTask
<1>4. status' \in [Inst -> Statuses]
  BY <1>1, <1>3, StatusStep DEF Protocol, HandleTask, Working
<1>5. Msg([type |-> "task_ack", src |-> m.dst, dst |-> m.src])
  BY <1>3 DEF Msg
<1>6. task' \in [Inst -> SUBSET TaskRec]
  BY <1>1, <1>3 DEF Protocol, HandleTask
<1>11. Protocol'
  BY <1>1, <1>2, <1>4, <1>6 DEF Protocol, HandleTask
<1>12. Directory'
  BY <1>1 DEF Directory, HandleTask
<1>13. Messages'
  BY <1>1, <1>2, <1>5 DEF Messages, HandleTask
<1>14. QED
  BY <1>11, <1>12, <1>13 DEF TInv

LEMMA MigrateTypes ==
    ASSUME TInv, NEW i \in Inst, Migrate(i)
    PROVE  TInv'
<1>1. /\ reform \in Reforms /\ reform' = reform /\ Reformer \in Inst /\ Others \subseteq Inst
      /\ Protocol /\ Directory /\ Messages /\ Statuses = Working \cup {"IDLE", "DONE", "ENDED", "STOPPED"}
  BY ReformFacts DEF TInv, Protocol, Migrate, Statuses
<1>2. Others' = Others /\ Reformer' = Reformer /\ \A n : Msg(n)' <=> Msg(n)
  BY <1>1, MsgStays
<1>3. PICK g \in [Part -> SUBSET Gone] :
          /\ dir' = [dir EXCEPT ![i] = CleanLocal(i, g)]
          /\ \A m \in net' : m \in net \/ m \in Outgoing(i, CleanLocal(i, g)) \/ m \in TaskDone(i)
                              \/ m \in FailNotice(i)
          /\ assigned' = assigned \/ assigned' = assigned \cup {i}
  <2>1. [p \in Part |-> Gone] \in [Part -> SUBSET Gone]
    OBVIOUS
  <2>2. QED
    BY <2>1 DEF Migrate
<1>4. CleanLocal(i, g) \in [Part -> Slots]
  BY <1>1, CleanedNamed DEF CleanLocal, Directory
<1>5. status' \in [Inst -> Statuses]
  BY <1>1, StatusStep DEF Protocol, Migrate, Working
<1>6. \A m \in Outgoing(i, CleanLocal(i, g)) : Msg(m)
  BY <1>4, OutgoingMsg
<1>11. Protocol'
  BY <1>1, <1>2, <1>3, <1>5 DEF Protocol, Migrate
<1>12. Directory'
  BY <1>1, <1>3, <1>4 DEF Directory, Migrate
<1>13. Messages'
  BY <1>1, <1>2, <1>3, <1>6, FailNoticeMsg, TaskDoneMsg DEF Messages
<1>14. QED
  BY <1>11, <1>12, <1>13 DEF TInv

LEMMA HandleDataTypes ==
    ASSUME TInv, NEW m \in net, HandleData(m)
    PROVE  TInv'
<1>1. /\ reform \in Reforms /\ reform' = reform /\ Reformer \in Inst /\ Others \subseteq Inst
      /\ Protocol /\ Directory /\ Messages /\ Statuses = Working \cup {"IDLE", "DONE", "ENDED", "STOPPED"}
  BY ReformFacts DEF TInv, Protocol, HandleData, Statuses
<1>2. Others' = Others /\ Reformer' = Reformer /\ \A n : Msg(n)' <=> Msg(n)
  BY <1>1, MsgStays
<1>3. m.dst \in Inst /\ m.part \in Part /\ m.entry \in Slots
  BY <1>1 DEF Messages, Msg, HandleData, Slots
<1>11. Protocol'
  BY <1>1, <1>2 DEF Protocol, HandleData
<1>12. Directory'
  BY <1>1, <1>3 DEF Directory, HandleData
<1>13. Messages'
  BY <1>1, <1>2 DEF Messages, HandleData
<1>14. QED
  BY <1>11, <1>12, <1>13 DEF TInv

LEMMA HandleEndTypes ==
    ASSUME TInv, NEW m \in net, HandleEnd(m)
    PROVE  TInv'
<1>1. /\ reform \in Reforms /\ reform' = reform /\ Reformer \in Inst /\ Others \subseteq Inst
      /\ Protocol /\ Directory /\ Messages /\ Statuses = Working \cup {"IDLE", "DONE", "ENDED", "STOPPED"}
  BY ReformFacts DEF TInv, Protocol, HandleEnd, Statuses
<1>2. Others' = Others /\ Reformer' = Reformer /\ \A n : Msg(n)' <=> Msg(n)
  BY <1>1, MsgStays
<1>3. m.dst \in Inst /\ m.part \in Part /\ m.count \in {0, 1}
  BY <1>1 DEF Messages, Msg, HandleEnd
<1>11. Protocol'
  BY <1>1, <1>2 DEF Protocol, HandleEnd
<1>12. Directory'
  BY <1>1, <1>3 DEF Directory, HandleEnd
<1>13. Messages'
  BY <1>1, <1>2 DEF Messages, HandleEnd
<1>14. QED
  BY <1>11, <1>12, <1>13 DEF TInv

LEMMA ImmigrateTypes ==
    ASSUME TInv, NEW i \in Inst, Immigrate(i)
    PROVE  TInv'
<1>1. /\ reform \in Reforms /\ reform' = reform /\ Reformer \in Inst /\ Others \subseteq Inst
      /\ Protocol /\ Directory /\ Messages /\ Statuses = Working \cup {"IDLE", "DONE", "ENDED", "STOPPED"}
  BY ReformFacts DEF TInv, Protocol, Immigrate, Statuses
<1>2. Others' = Others /\ Reformer' = Reformer /\ \A n : Msg(n)' <=> Msg(n)
  BY <1>1, MsgStays
<1>3. status' \in [Inst -> Statuses]
  BY <1>1, StatusStep DEF Protocol, Immigrate, Fail, Working
<1>4. \A m \in net' : m \in net \/ m \in TaskDone(i) \/ m \in FailNotice(i)
  BY DEF Immigrate, Fail
<1>11. Protocol'
  BY <1>1, <1>2, <1>3 DEF Protocol, Immigrate
<1>12. Directory'
  BY <1>1 DEF Directory, Immigrate
<1>13. Messages'
  BY <1>1, <1>2, <1>4, FailNoticeMsg, TaskDoneMsg DEF Messages
<1>14. QED
  BY <1>11, <1>12, <1>13 DEF TInv

LEMMA ReportsMsg ==
    ASSUME TInv, NEW i \in Inst, NEW P \in SUBSET ToReport(i)
    PROVE  /\ \A m \in Reports(i, P) : Msg(m) /\ m.type = "report"
           /\ Noted(i, P) \in [Part -> Slots]
           /\ {target[i][p] : p \in P} \subseteq Inst
<1>1. reform \in Reforms /\ Protocol /\ Directory
  BY DEF TInv, Protocol
<1>2. P \subseteq {p \in Part : Holds(i, p)}
  BY DEF ToReport
<1>3. {target[i][p] : p \in P} \subseteq Inst
  BY <1>1, <1>2 DEF Protocol, Maps
<1>4. ASSUME NEW m \in Reports(i, P) PROVE Msg(m) /\ m.type = "report"
  <2>1. PICK d \in Inst : m = [type |-> "report", src |-> i, dst |-> d,
                               parts |-> {p \in P : target[i][p] = d}]
    BY <1>3, <1>4 DEF Reports
  <2>2. m.parts \subseteq {p \in Part : Holds(i, p)}
    BY <1>2, <2>1
  <2>3. QED
    BY <2>1, <2>2 DEF Msg
<1>5. \A p \in P : Reported(dir[i][p], i, p) \in Slots
  BY <1>1, <1>2, ReportedNamed DEF Directory
<1>6. Noted(i, P) \in [Part -> Slots]
  BY <1>1, <1>5 DEF Directory, Noted
<1>7. QED
  BY <1>3, <1>4, <1>6

LEMMA RecoverTypes ==
    ASSUME TInv, NEW i \in Inst, Recover(i)
    PROVE  TInv'
<1>1. /\ reform \in Reforms /\ reform' = reform /\ Reformer \in Inst /\ Others \subseteq Inst
      /\ Protocol /\ Directory /\ Messages /\ Statuses = Working \cup {"IDLE", "DONE", "ENDED", "STOPPED"}
  BY ReformFacts DEF TInv, Protocol, Recover, Statuses
<1>2. Others' = Others /\ Reformer' = Reformer /\ \A n : Msg(n)' <=> Msg(n)
  BY <1>1, MsgStays
<1>3. PICK P \in SUBSET ToReport(i) :
          /\ dir' = [dir EXCEPT ![i] = Noted(i, P)]
          /\ status' = status \/ status' = NewStatus(i, "FAIL")
          /\ owed' = owed \/ owed' = [owed EXCEPT ![i] = {target[i][p] : p \in P} \ {i}]
          /\ \A m \in net' : m \in net \/ m \in Reports(i, P) \/ m \in FailNotice(i) \/ m \in TaskDone(i)
  BY DEF Recover
<1>4. status' \in [Inst -> Statuses]
  BY <1>1, <1>3, StatusStep DEF Protocol, Working
<1>5. owed' \in [Inst -> SUBSET Inst]
  <2>1. {target[i][p] : p \in P} \subseteq Inst
    BY ReportsMsg
  <2>2. QED
    BY <1>1, <1>3, <2>1 DEF Protocol
<1>6. dir' \in [Inst -> [Part -> Slots]]
  <2>1. Noted(i, P) \in [Part -> Slots]
    BY ReportsMsg
  <2>2. QED
    BY <1>1, <1>3, <2>1 DEF Directory
<1>7. \A m \in net' : Msg(m)
  BY <1>1, <1>3, ReportsMsg, FailNoticeMsg, TaskDoneMsg DEF Messages
<1>11. Protocol'
  BY <1>1, <1>2, <1>4, <1>5 DEF Protocol, Recover
<1>12. Directory'
  BY <1>1, <1>6 DEF Directory, Recover
<1>13. Messages'
  BY <1>2, <1>7 DEF Messages
<1>14. QED
  BY <1>11, <1>12, <1>13 DEF TInv

LEMMA HandleReportTypes ==
    ASSUME TInv, NEW m \in net, HandleReport(m)
    PROVE  TInv'
<1>1. /\ reform \in Reforms /\ reform' = reform /\ Reformer \in Inst /\ Others \subseteq Inst
      /\ Protocol /\ Directory /\ Messages /\ Statuses = Working \cup {"IDLE", "DONE", "ENDED", "STOPPED"}
  BY ReformFacts DEF TInv, Protocol, HandleReport, Statuses
<1>2. Others' = Others /\ Reformer' = Reformer /\ \A n : Msg(n)' <=> Msg(n)
  BY <1>1, MsgStays
<1>3. m.dst \in Inst /\ m.src \in Inst /\ m.parts \subseteq {p \in Part : Holds(m.src, p)}
  BY <1>1 DEF Messages, Msg, HandleReport
<1>4. Msg([type |-> "report_ack", src |-> m.dst, dst |-> m.src])
  BY <1>3 DEF Msg
<1>5. \A p \in m.parts : Reported(dir[m.dst][p], m.src, p) \in Slots
  BY <1>1, <1>3, ReportedNamed DEF Directory
<1>6. dir' \in [Inst -> [Part -> Slots]]
  <2> DEFINE w == [p \in Part |-> IF p \in m.parts THEN Reported(dir[m.dst][p], m.src, p)
                                 ELSE dir[m.dst][p]]
  <2>1. w \in [Part -> Slots]
    BY <1>1, <1>3, <1>5 DEF Directory
  <2>2. dir' = [dir EXCEPT ![m.dst] = w] \/ dir' = dir
    BY DEF HandleReport
  <2> HIDE DEF w
  <2>3. QED
    BY <1>1, <1>3, <2>1, <2>2 DEF Directory
<1>11. Protocol'
  BY <1>1, <1>2 DEF Protocol, HandleReport
<1>12. Directory'
  BY <1>1, <1>6 DEF Directory, HandleReport
<1>13. Messages'
  BY <1>1, <1>2, <1>4 DEF Messages, HandleReport
<1>14. QED
  BY <1>11, <1>12, <1>13 DEF TInv

LEMMA HandleReportAckTypes ==
    ASSUME TInv, NEW m \in net, HandleReportAck(m)
    PROVE  TInv'
<1>1. /\ reform \in Reforms /\ reform' = reform /\ Reformer \in Inst /\ Others \subseteq Inst
      /\ Protocol /\ Directory /\ Messages /\ Statuses = Working \cup {"IDLE", "DONE", "ENDED", "STOPPED"}
  BY ReformFacts DEF TInv, Protocol, HandleReportAck, Statuses
<1>2. Others' = Others /\ Reformer' = Reformer /\ \A n : Msg(n)' <=> Msg(n)
  BY <1>1, MsgStays
<1>3. m.dst \in Inst
  BY <1>1 DEF Messages, Msg
<1>11. Protocol'
  BY <1>1, <1>2, <1>3 DEF Protocol, HandleReportAck
<1>12. Directory'
  BY <1>1 DEF Directory, HandleReportAck
<1>13. Messages'
  BY <1>1, <1>2 DEF Messages, HandleReportAck
<1>14. QED
  BY <1>11, <1>12, <1>13 DEF TInv

LEMMA RecoveredTypes ==
    ASSUME TInv, NEW i \in Inst, Recovered(i)
    PROVE  TInv'
<1>1. /\ reform \in Reforms /\ reform' = reform /\ Reformer \in Inst /\ Others \subseteq Inst
      /\ Protocol /\ Directory /\ Messages /\ Statuses = Working \cup {"IDLE", "DONE", "ENDED", "STOPPED"}
  BY ReformFacts DEF TInv, Protocol, Recovered, Statuses
<1>2. Others' = Others /\ Reformer' = Reformer /\ \A n : Msg(n)' <=> Msg(n)
  BY <1>1, MsgStays
<1>3. status' \in [Inst -> Statuses]
  BY <1>1, StatusStep DEF Protocol, Recovered, Fail, Working
<1>4. drm' \in [Inst -> Statuses]
  BY <1>1 DEF Protocol, Recovered, Working
<1>5. \A m \in net' : m \in net \/ m \in TaskDone(i) \/ m \in FailNotice(i)
  BY DEF Recovered, Fail
<1>11. Protocol'
  BY <1>1, <1>2, <1>3, <1>4 DEF Protocol, Recovered
<1>12. Directory'
  BY <1>1 DEF Directory, Recovered
<1>13. Messages'
  BY <1>1, <1>2, <1>5, FailNoticeMsg, TaskDoneMsg DEF Messages
<1>14. QED
  BY <1>11, <1>12, <1>13 DEF TInv

LEMMA HandleTaskDoneTypes ==
    ASSUME TInv, NEW m \in net, HandleTaskDone(m)
    PROVE  TInv'
<1>1. /\ reform \in Reforms /\ reform' = reform /\ Reformer \in Inst /\ Others \subseteq Inst
      /\ Protocol /\ Directory /\ Messages /\ Statuses = Working \cup {"IDLE", "DONE", "ENDED", "STOPPED"}
  BY ReformFacts DEF TInv, Protocol, HandleTaskDone, Statuses
<1>2. Others' = Others /\ Reformer' = Reformer /\ \A n : Msg(n)' <=> Msg(n)
  BY <1>1, MsgStays
<1>3. m.src \in Inst
  BY <1>1 DEF Messages, Msg
<1>11. Protocol'
  BY <1>1, <1>2, <1>3 DEF Protocol, HandleTaskDone, Working
<1>12. Directory'
  BY <1>1 DEF Directory, HandleTaskDone
<1>13. Messages'
  BY <1>1, <1>2 DEF Messages, HandleTaskDone
<1>14. QED
  BY <1>11, <1>12, <1>13 DEF TInv

LEMMA PublishTargetTypes ==
    ASSUME TInv, PublishTarget
    PROVE  TInv'
<1>1. /\ reform \in Reforms /\ reform' = reform /\ Reformer \in Inst /\ Others \subseteq Inst
      /\ Protocol /\ Directory /\ Messages /\ Statuses = Working \cup {"IDLE", "DONE", "ENDED", "STOPPED"}
  BY ReformFacts DEF TInv, Protocol, PublishTarget, Statuses
<1>2. Others' = Others /\ Reformer' = Reformer /\ \A n : Msg(n)' <=> Msg(n)
  BY <1>1, MsgStays
<1>3. pub' \in [step : {"none", "target", "done"}, round : 0 .. MaxResends, acks : SUBSET Others]
  BY RemasterAssumption DEF PublishTarget
<1>4. \A m \in Broadcast("target", 0) : Msg(m)
  BY RemasterAssumption, BroadcastMsg
<1>11. Protocol'
  BY <1>1, <1>2, <1>3 DEF Protocol, PublishTarget
<1>12. Directory'
  BY <1>1 DEF Directory, PublishTarget
<1>13. Messages'
  BY <1>1, <1>2, <1>4 DEF Messages, PublishTarget
<1>14. QED
  BY <1>11, <1>12, <1>13 DEF TInv

LEMMA PublishDoneTypes ==
    ASSUME TInv, PublishDone
    PROVE  TInv'
<1>1. /\ reform \in Reforms /\ reform' = reform /\ Reformer \in Inst /\ Others \subseteq Inst
      /\ Protocol /\ Directory /\ Messages /\ Statuses = Working \cup {"IDLE", "DONE", "ENDED", "STOPPED"}
  BY ReformFacts DEF TInv, Protocol, PublishDone, Statuses
<1>2. Others' = Others /\ Reformer' = Reformer /\ \A n : Msg(n)' <=> Msg(n)
  BY <1>1, MsgStays
<1>3. pub' \in [step : {"none", "target", "done"}, round : 0 .. MaxResends, acks : SUBSET Others]
  BY RemasterAssumption DEF PublishDone
<1>4. \A m \in Broadcast("done", 0) : Msg(m)
  BY RemasterAssumption, BroadcastMsg
<1>5. map' \in [Inst -> Maps]
  BY <1>1 DEF Protocol, PublishDone
<1>11. Protocol'
  BY <1>1, <1>2, <1>3, <1>5 DEF Protocol, PublishDone
<1>12. Directory'
  BY <1>1 DEF Directory, PublishDone
<1>13. Messages'
  BY <1>1, <1>2, <1>4 DEF Messages, PublishDone
<1>14. QED
  BY <1>11, <1>12, <1>13 DEF TInv

LEMMA PublishedTypes ==
    ASSUME TInv, Published
    PROVE  TInv'
<1>1. /\ reform \in Reforms /\ reform' = reform /\ Reformer \in Inst /\ Others \subseteq Inst
      /\ Protocol /\ Directory /\ Messages /\ Statuses = Working \cup {"IDLE", "DONE", "ENDED", "STOPPED"}
  BY ReformFacts DEF TInv, Protocol, Published, Statuses
<1>2. Others' = Others /\ Reformer' = Reformer /\ \A n : Msg(n)' <=> Msg(n)
  BY <1>1, MsgStays
<1>3. pub' \in [step : {"none", "target", "done"}, round : 0 .. MaxResends, acks : SUBSET Others]
  BY RemasterAssumption DEF Published, Quiet
<1>4. status' \in [Inst -> Statuses]
  BY <1>1, StatusStep DEF Protocol, Published
<1>11. Protocol'
  BY <1>1, <1>2, <1>3, <1>4 DEF Protocol, Published
<1>12. Directory'
  BY <1>1 DEF Directory, Published
<1>13. Messages'
  BY <1>1, <1>2 DEF Messages, Published
<1>14. QED
  BY <1>11, <1>12, <1>13 DEF TInv

LEMMA ResendTypes ==
    ASSUME TInv, Resend
    PROVE  TInv'
<1>1. /\ reform \in Reforms /\ reform' = reform /\ Reformer \in Inst /\ Others \subseteq Inst
      /\ Protocol /\ Directory /\ Messages /\ Statuses = Working \cup {"IDLE", "DONE", "ENDED", "STOPPED"}
  BY ReformFacts DEF TInv, Protocol, Resend, Statuses
<1>2. Others' = Others /\ Reformer' = Reformer /\ \A n : Msg(n)' <=> Msg(n)
  BY <1>1, MsgStays
<1>3. pub.round \in 0 .. MaxResends /\ pub.round + 1 \in 0 .. MaxResends
  BY <1>1, RemasterAssumption DEF Protocol, Resend
<1>4. pub' \in [step : {"none", "target", "done"}, round : 0 .. MaxResends, acks : SUBSET Others]
  BY <1>1, <1>3 DEF Protocol, Resend
<1>5. Msg([type |-> "none", src |-> Reformer, dst |-> Reformer])
  BY <1>1 DEF Msg
<1>6. ASSUME NEW m \in Broadcast(pub.step, pub.round + 1) PROVE Msg(m)
  <2>1. CASE pub.step = "none"
    <3>1. m.type = "none" /\ m.src \in Inst /\ m.dst \in Inst
      BY <1>1, <2>1 DEF Broadcast
    <3>2. QED
      BY <3>1 DEF Msg
  <2>2. CASE pub.step # "none"
    BY <1>1, <1>3, <2>2, BroadcastMsg DEF Protocol
  <2>3. QED
    BY <2>1, <2>2
<1>11. Protocol'
  BY <1>1, <1>2, <1>4 DEF Protocol, Resend
<1>12. Directory'
  BY <1>1 DEF Directory, Resend
<1>13. Messages'
  BY <1>1, <1>2, <1>6 DEF Messages, Resend
<1>14. QED
  BY <1>11, <1>12, <1>13 DEF TInv

LEMMA HandleTargetTypes ==
    ASSUME TInv, NEW m \in net, HandleTarget(m)
    PROVE  TInv'
<1>1. /\ reform \in Reforms /\ reform' = reform /\ Reformer \in Inst /\ Others \subseteq Inst
      /\ Protocol /\ Directory /\ Messages /\ Statuses = Working \cup {"IDLE", "DONE", "ENDED", "STOPPED"}
  BY ReformFacts DEF TInv, Protocol, HandleTarget, Statuses
<1>2. Others' = Others /\ Reformer' = Reformer /\ \A n : Msg(n)' <=> Msg(n)
  BY <1>1, MsgStays
<1>3. m.dst \in Others /\ m.src \in Inst /\ m.map \in Maps /\ m.round \in 0 .. MaxResends
  BY <1>1 DEF Messages, Msg, HandleTarget
<1>4. Msg(Ack(m))
  BY <1>1, <1>3 DEF Msg, Ack, HandleTarget
<1>5. map' \in [Inst -> Maps]
  BY <1>1, <1>3 DEF Protocol, HandleTarget
<1>11. Protocol'
  BY <1>1, <1>2, <1>5 DEF Protocol, HandleTarget
<1>12. Directory'
  BY <1>1 DEF Directory, HandleTarget
<1>13. Messages'
  BY <1>1, <1>2, <1>4 DEF Messages, HandleTarget
<1>14. QED
  BY <1>11, <1>12, <1>13 DEF TInv

LEMMA HandleDoneTypes ==
    ASSUME TInv, NEW m \in net, HandleDone(m)
    PROVE  TInv'
<1>1. /\ reform \in Reforms /\ reform' = reform /\ Reformer \in Inst /\ Others \subseteq Inst
      /\ Protocol /\ Directory /\ Messages /\ Statuses = Working \cup {"IDLE", "DONE", "ENDED", "STOPPED"}
  BY ReformFacts DEF TInv, Protocol, HandleDone, Statuses
<1>2. Others' = Others /\ Reformer' = Reformer /\ \A n : Msg(n)' <=> Msg(n)
  BY <1>1, MsgStays
<1>3. m.dst \in Others /\ m.src \in Inst /\ m.round \in 0 .. MaxResends
  BY <1>1 DEF Messages, Msg, HandleDone
<1>4. Msg(Ack(m))
  BY <1>1, <1>3 DEF Msg, Ack, HandleDone
<1>5. status' \in [Inst -> Statuses]
  BY <1>1, <1>3, StatusStep DEF Protocol, HandleDone
<1>11. Protocol'
  BY <1>1, <1>2, <1>5 DEF Protocol, HandleDone
<1>12. Directory'
  BY <1>1 DEF Directory, HandleDone
<1>13. Messages'
  BY <1>1, <1>2, <1>4 DEF Messages, HandleDone
<1>14. QED
  BY <1>11, <1>12, <1>13 DEF TInv

LEMMA HandleAckTypes ==
    ASSUME TInv, NEW m \in net, HandleAck(m)
    PROVE  TInv'
<1>1. /\ reform \in Reforms /\ reform' = reform /\ Reformer \in Inst /\ Others \subseteq Inst
      /\ Protocol /\ Directory /\ Messages /\ Statuses = Working \cup {"IDLE", "DONE", "ENDED", "STOPPED"}
  BY ReformFacts DEF TInv, Protocol, HandleAck, Statuses
<1>2. Others' = Others /\ Reformer' = Reformer /\ \A n : Msg(n)' <=> Msg(n)
  BY <1>1, MsgStays
<1>3. m.src \in Others
  BY <1>1 DEF Messages, Msg, HandleAck
<1>4. pub' \in [step : {"none", "target", "done"}, round : 0 .. MaxResends, acks : SUBSET Others]
  BY <1>1, <1>3 DEF Protocol, HandleAck
<1>11. Protocol'
  BY <1>1, <1>2, <1>4 DEF Protocol, HandleAck
<1>12. Directory'
  BY <1>1 DEF Directory, HandleAck
<1>13. Messages'
  BY <1>1, <1>2 DEF Messages, HandleAck
<1>14. QED
  BY <1>11, <1>12, <1>13 DEF TInv

LEMMA CleanRemasterResTypes ==
    ASSUME TInv, NEW i \in Inst, CleanRemasterRes(i)
    PROVE  TInv'
<1>1. /\ reform \in Reforms /\ reform' = reform /\ Reformer \in Inst /\ Others \subseteq Inst
      /\ Protocol /\ Directory /\ Messages /\ Statuses = Working \cup {"IDLE", "DONE", "ENDED", "STOPPED"}
  BY ReformFacts DEF TInv, Protocol, CleanRemasterRes, Statuses
<1>2. Others' = Others /\ Reformer' = Reformer /\ \A n : Msg(n)' <=> Msg(n)
  BY <1>1, MsgStays
<1>3. FreeMigrated(i) \in [Part -> Slots]
  BY <1>1 DEF FreeMigrated, Directory, Slots
<1>11. Protocol'
  BY <1>1, <1>2 DEF Protocol, CleanRemasterRes
<1>12. Directory'
  BY <1>1, <1>3 DEF Directory, CleanRemasterRes
<1>13. Messages'
  BY <1>1, <1>2 DEF Messages, CleanRemasterRes
<1>14. QED
  BY <1>11, <1>12, <1>13 DEF TInv

LEMMA StopRemasterTypes ==
    ASSUME TInv, NEW i \in Inst, StopRemaster(i)
    PROVE  TInv'
<1>1. /\ reform \in Reforms /\ reform' = reform /\ Reformer \in Inst /\ Others \subseteq Inst
      /\ Protocol /\ Directory /\ Messages /\ Statuses = Working \cup {"IDLE", "DONE", "ENDED", "STOPPED"}
  BY ReformFacts DEF TInv, Protocol, StopRemaster, Statuses
<1>2. Others' = Others /\ Reformer' = Reformer /\ \A n : Msg(n)' <=> Msg(n)
  BY <1>1, MsgStays
<1>3. FreeImmigrated(i) \in [Part -> Slots]
  BY <1>1 DEF FreeImmigrated, Directory, Slots
<1>4. reform.map \in Maps
  BY <1>1, ReformFacts
<1>5. map' \in [Inst -> Maps]
  BY <1>1, <1>4 DEF Protocol, StopRemaster
<1>6. status' \in [Inst -> Statuses] /\ drm' \in [Inst -> Statuses]
  BY <1>1 DEF Protocol, StopRemaster, Working
<1>11. Protocol'
  BY <1>1, <1>2, <1>5, <1>6 DEF Protocol, StopRemaster
<1>12. Directory'
  BY <1>1, <1>3 DEF Directory, StopRemaster
<1>13. Messages'
  BY <1>1, <1>2 DEF Messages, StopRemaster
<1>14. QED
  BY <1>11, <1>12, <1>13 DEF TInv

LEMMA NextTypes == TInv /\ [Next]_vars => TInv'
<1> SUFFICES ASSUME TInv, [Next]_vars PROVE TInv'
  OBVIOUS
<1>1. CASE UNCHANGED vars
  <2>1. reform' = reform
    BY <1>1 DEF vars
  <2>2. Others' = Others /\ \A n : Msg(n)' <=> Msg(n)
    BY <2>1, MsgStays
  <2>3. QED
    BY <1>1, <2>2 DEF vars, TInv, Protocol, Directory, Messages
<1>2. ASSUME NEW i \in Inst, Step(i) PROVE TInv'
  BY <1>2, StartTypes, PrepareTypes, MigrateTypes, ImmigrateTypes, RecoverTypes, RecoveredTypes,
     CleanRemasterResTypes, StopRemasterTypes DEF Step
<1>3. ASSUME NEW i \in Inst, SendTask(i) PROVE TInv'
  BY <1>3, SendTaskTypes
<1>4. CASE Direct
  BY <1>4, ExecuteTypes, PublishTargetTypes, PublishDoneTypes, PublishedTypes, ResendTypes,
     GiveUpTypes DEF Direct
<1>5. ASSUME NEW m \in net, Receive(m) PROVE TInv'
  BY <1>5, HandleNotifyTypes, HandleTaskTypes, HandleTaskAckTypes, HandleDataTypes, HandleEndTypes,
     HandleTaskDoneTypes, HandleReportTypes, HandleReportAckTypes, HandleTargetTypes, HandleDoneTypes,
     HandleAckTypes DEF Receive
<1>6. QED
  BY <1>1, <1>2, <1>3, <1>4, <1>5 DEF Next

-----------------------------------------------------------------------------
(* The publishing.                                                         *)

LEMMA InitPublishing == Init => PInv
<1> SUFFICES ASSUME Init PROVE PInv
  OBVIOUS
<1>1. Reformer \in Inst
  BY ReformFacts DEF Init
<1>2. status[Reformer] = "IDLE" /\ assign = Idle /\ pub = Quiet /\ net = {}
  BY <1>1 DEF Init
<1>3. QED
  BY <1>2 DEF PInv, Steps, Counted, PublishedTogether, Finished, Quiet

(* What a step that keeps the maps has to keep to: an instance that is     *)
(* done or has stopped remains so, no broadcast starts, and the reformer   *)
(* neither goes back to the assignment nor is done.                        *)
LEMMA PublishingStays ==
    ASSUME TInv, PInv, reform' = reform, map' = map, target' = target,
           \A j \in Others : /\ status[j] \in Finished => status'[j] \in Finished
                             /\ status[j] = "STOPPED" => status'[j] = "STOPPED",
           status[Reformer] \notin Early => status'[Reformer] \notin Early,
           status'[Reformer] \in Finished => status[Reformer] \in Finished,
           assign' # Idle => status'[Reformer] \in {"ASSIGN_TASK", "FAIL"},
           pub' = Quiet \/ (pub' = pub /\ (pub.step # "none" => status'[Reformer] \in {"PUBLISH", "FAIL"})),
           \A m \in net' : m \in net \/ m.type \notin {"target", "done", "ack"}
    PROVE  PInv'
<1>1. /\ reform \in Reforms /\ Others' = Others /\ Reformer' = Reformer /\ Alive' = Alive
      /\ Alive = Others \cup {Reformer} /\ Reformer \in Inst /\ Others \subseteq Inst
  BY MsgStays, ReformFacts DEF TInv, Protocol
<1>2. \A j \in Others : Taken(j) => Taken(j)'
  BY <1>1 DEF Taken
<1>3. Steps'
  BY <1>1 DEF PInv, Steps, Quiet, Idle
<1>4. ASSUME NEW m \in net' PROVE Tells(m)'
  <2>1. CASE m \in net
    <3>1. Tells(m) /\ (m.type = "ack" => m.src \in Others)
      BY <2>1 DEF PInv, TInv, Messages, Msg
    <3>2. m.type \in {"target", "done"} =>
              status'[Reformer'] \notin Early /\ m.map = target'[Reformer']
      BY <1>1, <3>1 DEF Tells
    <3>3. m.type = "ack" => /\ status'[Reformer'] \notin Early
                            /\ m.step = "target" => Taken(m.src)'
                            /\ m.step = "done" => status'[m.src] \in Finished
      BY <1>1, <1>2, <3>1 DEF Tells
    <3>4. QED
      BY <3>2, <3>3 DEF Tells, Early, Finished
  <2>2. CASE m \notin net
    BY <2>2 DEF Tells
  <2>3. QED
    BY <2>1, <2>2
<1>5. Counted'
  <2>1. CASE pub' = Quiet
    BY <2>1 DEF Counted, Quiet
  <2>2. CASE pub' = pub
    <3>1. Counted /\ pub.acks \subseteq Others
      BY DEF PInv, TInv, Protocol
    <3>2. QED
      BY <1>1, <1>2, <2>2, <3>1 DEF Counted, Finished
  <2>3. QED
    BY <2>1, <2>2
<1>6. PublishedTogether'
  BY <1>1 DEF PInv, PublishedTogether, Finished
<1>7. QED
  BY <1>3, <1>4, <1>5, <1>6 DEF PInv

LEMMA StartPublishing ==
    ASSUME TInv, PInv, NEW i \in Inst, Start(i)
    PROVE  PInv'
<1>1. /\ reform \in Reforms /\ Reformer \in Inst /\ Reformer \notin Others /\ Others \subseteq Inst
      /\ status \in [Inst -> Statuses] /\ Steps
  BY ReformFacts DEF TInv, Protocol, PInv
<1>11. /\ \A j \in Others : /\ status[j] \in Finished => status'[j] \in Finished
                            /\ status[j] = "STOPPED" => status'[j] = "STOPPED"
       /\ status[Reformer] \notin Early => status'[Reformer] \notin Early
       /\ status'[Reformer] \in Finished => status[Reformer] \in Finished
       /\ assign' # Idle => status'[Reformer] \in {"ASSIGN_TASK", "FAIL"}
       /\ pub' = Quiet \/ (pub' = pub /\ (pub.step # "none" => status'[Reformer] \in {"PUBLISH", "FAIL"}))
  BY <1>1 DEF Start, Steps, Finished, Early
<1>12. \A n \in net' : n \in net \/ n.type \notin {"target", "done", "ack"}
  BY DEF Start
<1>13. reform' = reform /\ map' = map /\ target' = target
  BY DEF Start
<1>14. QED
  BY <1>11, <1>12, <1>13, PublishingStays

LEMMA PreparePublishing ==
    ASSUME TInv, PInv, NEW i \in Inst, Prepare(i)
    PROVE  PInv'
<1>1. /\ reform \in Reforms /\ Reformer \in Inst /\ Reformer \notin Others /\ Others \subseteq Inst
      /\ status \in [Inst -> Statuses] /\ Steps
  BY ReformFacts DEF TInv, Protocol, PInv
<1>11. /\ \A j \in Others : /\ status[j] \in Finished => status'[j] \in Finished
                            /\ status[j] = "STOPPED" => status'[j] = "STOPPED"
       /\ status[Reformer] \notin Early => status'[Reformer] \notin Early
       /\ status'[Reformer] \in Finished => status[Reformer] \in Finished
       /\ assign' # Idle => status'[Reformer] \in {"ASSIGN_TASK", "FAIL"}
       /\ pub' = Quiet \/ (pub' = pub /\ (pub.step # "none" => status'[Reformer] \in {"PUBLISH", "FAIL"}))
  BY <1>1 DEF Prepare, Steps, Finished, Early, Fail, NewStatus
<1>12. \A n \in net' : n \in net \/ n.type \notin {"target", "done", "ack"}
  BY <1>1, FailNoticeMsg DEF Prepare, Fail
<1>13. reform' = reform /\ map' = map /\ target' = target
  BY DEF Prepare
<1>14. QED
  BY <1>11, <1>12, <1>13, PublishingStays

LEMMA HandleNotifyPublishing ==
    ASSUME TInv, PInv, NEW m \in net, HandleNotify(m)
    PROVE  PInv'
<1>1. /\ reform \in Reforms /\ Reformer \in Inst /\ Reformer \notin Others /\ Others \subseteq Inst
      /\ status \in [Inst -> Statuses] /\ Steps
  BY ReformFacts DEF TInv, Protocol, PInv
<1>11. /\ \A j \in Others : /\ status[j] \in Finished => status'[j] \in Finished
                            /\ status[j] = "STOPPED" => status'[j] = "STOPPED"
       /\ status[Reformer] \notin Early => status'[Reformer] \notin Early
       /\ status'[Reformer] \in Finished => status[Reformer] \in Finished
       /\ assign' # Idle => status'[Reformer] \in {"ASSIGN_TASK", "FAIL"}
       /\ pub' = Quiet \/ (pub' = pub /\ (pub.step # "none" => status'[Reformer] \in {"PUBLISH", "FAIL"}))
  BY <1>1 DEF HandleNotify, Steps, Finished, Early, NewStatus, Working
<1>12. \A n \in net' : n \in net \/ n.type \notin {"target", "done", "ack"}
  BY DEF HandleNotify
<1>13. reform' = reform /\ map' = map /\ target' = target
  BY DEF HandleNotify
<1>14. QED
  BY <1>11, <1>12, <1>13, PublishingStays

LEMMA SendTaskPublishing ==
    ASSUME TInv, PInv, NEW i \in Inst, SendTask(i)
    PROVE  PInv'
<1>1. /\ reform \in Reforms /\ Reformer \in Inst /\ Reformer \notin Others /\ Others \subseteq Inst
      /\ status \in [Inst -> Statuses] /\ Steps
  BY ReformFacts DEF TInv, Protocol, PInv
<1>11. /\ \A j \in Others : /\ status[j] \in Finished => status'[j] \in Finished
                            /\ status[j] = "STOPPED" => status'[j] = "STOPPED"
       /\ status[Reformer] \notin Early => status'[Reformer] \notin Early
       /\ status'[Reformer] \in Finished => status[Reformer] \in Finished
       /\ assign' # Idle => status'[Reformer] \in {"ASSIGN_TASK", "FAIL"}
       /\ pub' = Quiet \/ (pub' = pub /\ (pub.step # "none" => status'[Reformer] \in {"PUBLISH", "FAIL"}))
  BY <1>1 DEF SendTask, Steps, Finished, Early, Idle
<1>12. \A n \in net' : n \in net \/ n.type \notin {"target", "done", "ack"}
  BY DEF SendTask, TaskOf
<1>13. reform' = reform /\ map' = map /\ target' = target
  BY DEF SendTask
<1>14. QED
  BY <1>11, <1>12, <1>13, PublishingStays

LEMMA HandleTaskAckPublishing ==
    ASSUME TInv, PInv, NEW m \in net, HandleTaskAck(m)
    PROVE  PInv'
<1>1. /\ reform \in Reforms /\ Reformer \in Inst /\ Reformer \notin Others /\ Others \subseteq Inst
      /\ status \in [Inst -> Statuses] /\ Steps
  BY ReformFacts DEF TInv, Protocol, PInv
<1>2. m.src # None /\ assign \in [left : SUBSET Others, awaits : Inst \cup {None}]
  BY RemasterAssumption DEF TInv, Protocol, Messages, Msg, HandleTaskAck
<1>11. /\ \A j \in Others : /\ status[j] \in Finished => status'[j] \in Finished
                            /\ status[j] = "STOPPED" => status'[j] = "STOPPED"
       /\ status[Reformer] \notin Early => status'[Reformer] \notin Early
       /\ status'[Reformer] \in Finished => status[Reformer] \in Finished
       /\ assign' # Idle => status'[Reformer] \in {"ASSIGN_TASK", "FAIL"}
       /\ pub' = Quiet \/ (pub' = pub /\ (pub.step # "none" => status'[Reformer] \in {"PUBLISH", "FAIL"}))
  BY <1>1, <1>2 DEF HandleTaskAck, Steps, Finished, Early, NewStatus, Idle
<1>12. \A n \in net' : n \in net \/ n.type \notin {"target", "done", "ack"}
  BY DEF HandleTaskAck
<1>13. reform' = reform /\ map' = map /\ target' = target
  BY DEF HandleTaskAck
<1>14. QED
  BY <1>11, <1>12, <1>13, PublishingStays

LEMMA GiveUpPublishing ==
    ASSUME TInv, PInv, GiveUp
    PROVE  PInv'
<1>1. /\ reform \in Reforms /\ Reformer \in Inst /\ Reformer \notin Others /\ Others \subseteq Inst
      /\ status \in [Inst -> Statuses] /\ Steps
  BY ReformFacts DEF TInv, Protocol, PInv
<1>11. /\ \A j \in Others : /\ status[j] \in Finished => status'[j] \in Finished
                            /\ status[j] = "STOPPED" => status'[j] = "STOPPED"
       /\ status[Reformer] \notin Early => status'[Reformer] \notin Early
       /\ status'[Reformer] \in Finished => status[Reformer] \in Finished
       /\ assign' # Idle => status'[Reformer] \in {"ASSIGN_TASK", "FAIL"}
       /\ pub' = Quiet \/ (pub' = pub /\ (pub.step # "none" => status'[Reformer] \in {"PUBLISH", "FAIL"}))
  BY <1>1 DEF GiveUp, Steps, Finished, Early, NewStatus
<1>12. \A n \in net' : n \in net \/ n.type \notin {"target", "done", "ack"}
  BY DEF GiveUp
<1>13. reform' = reform /\ map' = map /\ target' = target
  BY DEF GiveUp
<1>14. QED
  BY <1>11, <1>12, <1>13, PublishingStays

LEMMA HandleTaskPublishing ==
    ASSUME TInv, PInv, NEW m \in net, HandleTask(m)
    PROVE  PInv'
<1>1. /\ reform \in Reforms /\ Reformer \in Inst /\ Reformer \notin Others /\ Others \subseteq Inst
      /\ status \in [Inst -> Statuses] /\ Steps
  BY ReformFacts DEF TInv, Protocol, PInv
<1>2. m.dst \in Others
  BY DEF TInv, Messages, Msg, HandleTask
<1>11. /\ \A j \in Others : /\ status[j] \in Finished => status'[j] \in Finished
                            /\ status[j] = "STOPPED" => status'[j] = "STOPPED"
       /\ status[Reformer] \notin Early => status'[Reformer] \notin Early
       /\ status'[Reformer] \in Finished => status[Reformer] \in Finished
       /\ assign' # Idle => status'[Reformer] \in {"ASSIGN_TASK", "FAIL"}
       /\ pub' = Quiet \/ (pub' = pub /\ (pub.step # "none" => status'[Reformer] \in {"PUBLISH", "FAIL"}))
  BY <1>1, <1>2 DEF HandleTask, Steps, Finished, Early, NewStatus
<1>12. \A n \in net' : n \in net \/ n.type \notin {"target", "done", "ack"}
  BY DEF HandleTask
<1>13. reform' = reform /\ map' = map /\ target' = target
  BY DEF HandleTask
<1>14. QED
  BY <1>11, <1>12, <1>13, PublishingStays

LEMMA MigratePublishing ==
    ASSUME TInv, PInv, NEW i \in Inst, Migrate(i)
    PROVE  PInv'
<1>1. /\ reform \in Reforms /\ Reformer \in Inst /\ Reformer \notin Others /\ Others \subseteq Inst
      /\ status \in [Inst -> Statuses] /\ Steps
  BY ReformFacts DEF TInv, Protocol, PInv
<1>2. /\ status[i] = "MIGRATE" /\ assign' = assign /\ pub' = pub
      /\ status'[i] \in {"PUBLISH", "RECOVERY", "FAIL"} /\ \A j \in Inst \ {i} : status'[j] = status[j]
  BY <1>1 DEF Migrate, NewStatus
<1>11. /\ \A j \in Others : /\ status[j] \in Finished => status'[j] \in Finished
                            /\ status[j] = "STOPPED" => status'[j] = "STOPPED"
       /\ status[Reformer] \notin Early => status'[Reformer] \notin Early
       /\ status'[Reformer] \in Finished => status[Reformer] \in Finished
       /\ assign' # Idle => status'[Reformer] \in {"ASSIGN_TASK", "FAIL"}
       /\ pub' = Quiet \/ (pub' = pub /\ (pub.step # "none" => status'[Reformer] \in {"PUBLISH", "FAIL"}))
  BY <1>1, <1>2 DEF Migrate, Steps, Finished, Early
<1>12. \A n \in net' : n \in net \/ n.type \notin {"target", "done", "ack"}
  <2>1. PICK g : \A m \in net' : \/ m \in net \/ m \in Outgoing(i, CleanLocal(i, g))
                                   \/ m \in TaskDone(i) \/ m \in FailNotice(i)
    BY DEF Migrate
  <2>2. CleanLocal(i, g) \in [Part -> Slots]
    BY CleanedNamed DEF CleanLocal, TInv, Directory
  <2>3. \A m \in Outgoing(i, CleanLocal(i, g)) : m.type \in {"data", "end"}
    BY <2>2, OutgoingMsg
  <2>4. QED
    BY <1>1, <2>1, <2>3, TaskDoneMsg, FailNoticeMsg
<1>13. reform' = reform /\ map' = map /\ target' = target
  BY DEF Migrate
<1>14. QED
  BY <1>11, <1>12, <1>13, PublishingStays

LEMMA HandleDataPublishing ==
    ASSUME TInv, PInv, NEW m \in net, HandleData(m)
    PROVE  PInv'
<1>1. /\ reform \in Reforms /\ Reformer \in Inst /\ Reformer \notin Others /\ Others \subseteq Inst
      /\ status \in [Inst -> Statuses] /\ Steps
  BY ReformFacts DEF TInv, Protocol, PInv
<1>11. /\ \A j \in Others : /\ status[j] \in Finished => status'[j] \in Finished
                            /\ status[j] = "STOPPED" => status'[j] = "STOPPED"
       /\ status[Reformer] \notin Early => status'[Reformer] \notin Early
       /\ status'[Reformer] \in Finished => status[Reformer] \in Finished
       /\ assign' # Idle => status'[Reformer] \in {"ASSIGN_TASK", "FAIL"}
       /\ pub' = Quiet \/ (pub' = pub /\ (pub.step # "none" => status'[Reformer] \in {"PUBLISH", "FAIL"}))
  BY <1>1 DEF HandleData, Steps, Finished, Early
<1>12. \A n \in net' : n \in net \/ n.type \notin {"target", "done", "ack"}
  BY DEF HandleData
<1>13. reform' = reform /\ map' = map /\ target' = target
  BY DEF HandleData
<1>14. QED
  BY <1>11, <1>12, <1>13, PublishingStays

LEMMA HandleEndPublishing ==
    ASSUME TInv, PInv, NEW m \in net, HandleEnd(m)
    PROVE  PInv'
<1>1. /\ reform \in Reforms /\ Reformer \in Inst /\ Reformer \notin Others /\ Others \subseteq Inst
      /\ status \in [Inst -> Statuses] /\ Steps
  BY ReformFacts DEF TInv, Protocol, PInv
<1>11. /\ \A j \in Others : /\ status[j] \in Finished => status'[j] \in Finished
                            /\ status[j] = "STOPPED" => status'[j] = "STOPPED"
       /\ status[Reformer] \notin Early => status'[Reformer] \notin Early
       /\ status'[Reformer] \in Finished => status[Reformer] \in Finished
       /\ assign' # Idle => status'[Reformer] \in {"ASSIGN_TASK", "FAIL"}
       /\ pub' = Quiet \/ (pub' = pub /\ (pub.step # "none" => status'[Reformer] \in {"PUBLISH", "FAIL"}))
  BY <1>1 DEF HandleEnd, Steps, Finished, Early
<1>12. \A n \in net' : n \in net \/ n.type \notin {"target", "done", "ack"}
  BY DEF HandleEnd
<1>13. reform' = reform /\ map' = map /\ target' = target
  BY DEF HandleEnd
<1>14. QED
  BY <1>11, <1>12, <1>13, PublishingStays

LEMMA ImmigratePublishing ==
    ASSUME TInv, PInv, NEW i \in Inst, Immigrate(i)
    PROVE  PInv'
<1>1. /\ reform \in Reforms /\ Reformer \in Inst /\ Reformer \notin Others /\ Others \subseteq Inst
      /\ status \in [Inst -> Statuses] /\ Steps
  BY ReformFacts DEF TInv, Protocol, PInv
<1>11. /\ \A j \in Others : /\ status[j] \in Finished => status'[j] \in Finished
                            /\ status[j] = "STOPPED" => status'[j] = "STOPPED"
       /\ status[Reformer] \notin Early => status'[Reformer] \notin Early
       /\ status'[Reformer] \in Finished => status[Reformer] \in Finished
       /\ assign' # Idle => status'[Reformer] \in {"ASSIGN_TASK", "FAIL"}
       /\ pub' = Quiet \/ (pub' = pub /\ (pub.step # "none" => status'[Reformer] \in {"PUBLISH", "FAIL"}))
  BY <1>1 DEF Immigrate, Steps, Finished, Early, Fail, NewStatus
<1>12. \A n \in net' : n \in net \/ n.type \notin {"target", "done", "ack"}
  BY <1>1, FailNoticeMsg, TaskDoneMsg DEF Immigrate, Fail
<1>13. reform' = reform /\ map' = map /\ target' = target
  BY DEF Immigrate
<1>14. QED
  BY <1>11, <1>12, <1>13, PublishingStays

LEMMA RecoverPublishing ==
    ASSUME TInv, PInv, NEW i \in Inst, Recover(i)
    PROVE  PInv'
<1>1. /\ reform \in Reforms /\ Reformer \in Inst /\ Reformer \notin Others /\ Others \subseteq Inst
      /\ status \in [Inst -> Statuses] /\ Steps
  BY ReformFacts DEF TInv, Protocol, PInv
<1>11. /\ \A j \in Others : /\ status[j] \in Finished => status'[j] \in Finished
                            /\ status[j] = "STOPPED" => status'[j] = "STOPPED"
       /\ status[Reformer] \notin Early => status'[Reformer] \notin Early
       /\ status'[Reformer] \in Finished => status[Reformer] \in Finished
       /\ assign' # Idle => status'[Reformer] \in {"ASSIGN_TASK", "FAIL"}
       /\ pub' = Quiet \/ (pub' = pub /\ (pub.step # "none" => status'[Reformer] \in {"PUBLISH", "FAIL"}))
  BY <1>1 DEF Recover, Steps, Finished, Early, NewStatus
<1>12. \A n \in net' : n \in net \/ n.type \notin {"target", "done", "ack"}
  <2>1. PICK P \in SUBSET ToReport(i) : \A m \in net' :
            m \in net \/ m \in Reports(i, P) \/ m \in FailNotice(i) \/ m \in TaskDone(i)
    BY DEF Recover
  <2>2. QED
    BY <1>1, <2>1, ReportsMsg, FailNoticeMsg, TaskDoneMsg
<1>13. reform' = reform /\ map' = map /\ target' = target
  BY DEF Recover
<1>14. QED
  BY <1>11, <1>12, <1>13, PublishingStays

LEMMA HandleReportPublishing ==
    ASSUME TInv, PInv, NEW m \in net, HandleReport(m)
    PROVE  PInv'
<1>1. /\ reform \in Reforms /\ Reformer \in Inst /\ Reformer \notin Others /\ Others \subseteq Inst
      /\ status \in [Inst -> Statuses] /\ Steps
  BY ReformFacts DEF TInv, Protocol, PInv
<1>11. /\ \A j \in Others : /\ status[j] \in Finished => status'[j] \in Finished
                            /\ status[j] = "STOPPED" => status'[j] = "STOPPED"
       /\ status[Reformer] \notin Early => status'[Reformer] \notin Early
       /\ status'[Reformer] \in Finished => status[Reformer] \in Finished
       /\ assign' # Idle => status'[Reformer] \in {"ASSIGN_TASK", "FAIL"}
       /\ pub' = Quiet \/ (pub' = pub /\ (pub.step # "none" => status'[Reformer] \in {"PUBLISH", "FAIL"}))
  BY <1>1 DEF HandleReport, Steps, Finished, Early
<1>12. \A n \in net' : n \in net \/ n.type \notin {"target", "done", "ack"}
  BY DEF HandleReport
<1>13. reform' = reform /\ map' = map /\ target' = target
  BY DEF HandleReport
<1>14. QED
  BY <1>11, <1>12, <1>13, PublishingStays

LEMMA HandleReportAckPublishing ==
    ASSUME TInv, PInv, NEW m \in net, HandleReportAck(m)
    PROVE  PInv'
<1>1. /\ reform \in Reforms /\ Reformer \in Inst /\ Reformer \notin Others /\ Others \subseteq Inst
      /\ status \in [Inst -> Statuses] /\ Steps
  BY ReformFacts DEF TInv, Protocol, PInv
<1>11. /\ \A j \in Others : /\ status[j] \in Finished => status'[j] \in Finished
                            /\ status[j] = "STOPPED" => status'[j] = "STOPPED"
       /\ status[Reformer] \notin Early => status'[Reformer] \notin Early
       /\ status'[Reformer] \in Finished => status[Reformer] \in Finished
       /\ assign' # Idle => status'[Reformer] \in {"ASSIGN_TASK", "FAIL"}
       /\ pub' = Quiet \/ (pub' = pub /\ (pub.step # "none" => status'[Reformer] \in {"PUBLISH", "FAIL"}))
  BY <1>1 DEF HandleReportAck, Steps, Finished, Early
<1>12. \A n \in net' : n \in net \/ n.type \notin {"target", "done", "ack"}
  BY DEF HandleReportAck
<1>13. reform' = reform /\ map' = map /\ target' = target
  BY DEF HandleReportAck
<1>14. QED
  BY <1>11, <1>12, <1>13, PublishingStays

LEMMA RecoveredPublishing ==
    ASSUME TInv, PInv, NEW i \in Inst, Recovered(i)
    PROVE  PInv'
<1>1. /\ reform \in Reforms /\ Reformer \in Inst /\ Reformer \notin Others /\ Others \subseteq Inst
      /\ status \in [Inst -> Statuses] /\ Steps
  BY ReformFacts DEF TInv, Protocol, PInv
<1>11. /\ \A j \in Others : /\ status[j] \in Finished => status'[j] \in Finished
                            /\ status[j] = "STOPPED" => status'[j] = "STOPPED"
       /\ status[Reformer] \notin Early => status'[Reformer] \notin Early
       /\ status'[Reformer] \in Finished => status[Reformer] \in Finished
       /\ assign' # Idle => status'[Reformer] \in {"ASSIGN_TASK", "FAIL"}
       /\ pub' = Quiet \/ (pub' = pub /\ (pub.step # "none" => status'[Reformer] \in {"PUBLISH", "FAIL"}))
  BY <1>1 DEF Recovered, Steps, Finished, Early, Fail, NewStatus
<1>12. \A n \in net' : n \in net \/ n.type \notin {"target", "done", "ack"}
  BY <1>1, FailNoticeMsg, TaskDoneMsg DEF Recovered, Fail
<1>13. reform' = reform /\ map' = map /\ target' = target
  BY DEF Recovered
<1>14. QED
  BY <1>11, <1>12, <1>13, PublishingStays

LEMMA HandleTaskDonePublishing ==
    ASSUME TInv, PInv, NEW m \in net, HandleTaskDone(m)
    PROVE  PInv'
<1>1. /\ reform \in Reforms /\ Reformer \in Inst /\ Reformer \notin Others /\ Others \subseteq Inst
      /\ status \in [Inst -> Statuses] /\ Steps
  BY ReformFacts DEF TInv, Protocol, PInv
<1>11. /\ \A j \in Others : /\ status[j] \in Finished => status'[j] \in Finished
                            /\ status[j] = "STOPPED" => status'[j] = "STOPPED"
       /\ status[Reformer] \notin Early => status'[Reformer] \notin Early
       /\ status'[Reformer] \in Finished => status[Reformer] \in Finished
       /\ assign' # Idle => status'[Reformer] \in {"ASSIGN_TASK", "FAIL"}
       /\ pub' = Quiet \/ (pub' = pub /\ (pub.step # "none" => status'[Reformer] \in {"PUBLISH", "FAIL"}))
  BY <1>1 DEF HandleTaskDone, Steps, Finished, Early
<1>12. \A n \in net' : n \in net \/ n.type \notin {"target", "done", "ack"}
  BY DEF HandleTaskDone
<1>13. reform' = reform /\ map' = map /\ target' = target
  BY DEF HandleTaskDone
<1>14. QED
  BY <1>11, <1>12, <1>13, PublishingStays

LEMMA CleanRemasterResPublishing ==
    ASSUME TInv, PInv, NEW i \in Inst, CleanRemasterRes(i)
    PROVE  PInv'
<1>1. /\ reform \in Reforms /\ Reformer \in Inst /\ Reformer \notin Others /\ Others \subseteq Inst
      /\ status \in [Inst -> Statuses] /\ Steps
  BY ReformFacts DEF TInv, Protocol, PInv
<1>11. /\ \A j \in Others : /\ status[j] \in Finished => status'[j] \in Finished
                            /\ status[j] = "STOPPED" => status'[j] = "STOPPED"
       /\ status[Reformer] \notin Early => status'[Reformer] \notin Early
       /\ status'[Reformer] \in Finished => status[Reformer] \in Finished
       /\ assign' # Idle => status'[Reformer] \in {"ASSIGN_TASK", "FAIL"}
       /\ pub' = Quiet \/ (pub' = pub /\ (pub.step # "none" => status'[Reformer] \in {"PUBLISH", "FAIL"}))
  BY <1>1 DEF CleanRemasterRes, Steps, Finished, Early
<1>12. \A n \in net' : n \in net \/ n.type \notin {"target", "done", "ack"}
  BY DEF CleanRemasterRes
<1>13. reform' = reform /\ map' = map /\ target' = target
  BY DEF CleanRemasterRes
<1>14. QED
  BY <1>11, <1>12, <1>13, PublishingStays

(* The map is made before anything is published. *)
LEMMA ExecutePublishing ==
    ASSUME TInv, PInv, Execute
    PROVE  PInv'
<1>1. /\ reform \in Reforms /\ reform' = reform /\ Reformer \in Inst
      /\ status \in [Inst -> Statuses] /\ status[Reformer] = "ASSIGN_TASK"
  BY ReformFacts DEF TInv, Protocol, Execute
<1>2. Reformer' = Reformer
  BY <1>1, MsgStays
<1>3. pub' = Quiet
  BY <1>1 DEF PInv, Steps, Execute
<1>4. \A m \in net' : m.type \notin {"target", "done", "ack"}
  BY <1>1 DEF PInv, Tells, Early, Execute
<1>5. /\ status'[Reformer] \in {"ASSIGN_TASK", "MIGRATE"}
      /\ assign' # Idle => status'[Reformer] = "ASSIGN_TASK"
  BY <1>1 DEF Execute, NewStatus, Idle
<1>6. Steps' /\ Counted' /\ PublishedTogether'
  BY <1>2, <1>3, <1>5 DEF Steps, Counted, PublishedTogether, Finished, Quiet
<1>7. \A m \in net' : Tells(m)'
  BY <1>4 DEF Tells
<1>8. QED
  BY <1>6, <1>7 DEF PInv

(* The broadcasts of the reformer.  No instance changes. *)
LEMMA BroadcastPublishing ==
    ASSUME TInv, PInv, NEW step \in {"target", "done"}, NEW n \in 0 .. MaxResends,
           UNCHANGED <<reform, status, target, assign>>,
           \A i \in Inst \ {Reformer} : map'[i] = map[i],
           map'[Reformer] \in {map[Reformer], target[Reformer]},
           status[Reformer] \in {"PUBLISH", "FAIL"},
           net' = net \cup Broadcast(step, n), pub'.step = step, pub'.acks = {},
           step = "done" => map'[Reformer] = target[Reformer] /\ \A i \in Others : Taken(i)
    PROVE  PInv'
<1>1. /\ reform \in Reforms /\ Reformer \in Inst /\ Reformer \notin Others /\ Others \subseteq Inst
      /\ Others' = Others /\ Reformer' = Reformer /\ Alive' = Alive
  BY MsgStays, ReformFacts DEF TInv, Protocol
<1>2. \A i \in Others : Taken(i) => Taken(i)'
  BY <1>1 DEF Taken
<1>3. Steps'
  BY <1>1 DEF PInv, Steps
<1>4. ASSUME NEW m \in net' PROVE Tells(m)'
  <2>1. CASE m \in net
    <3>1. Tells(m) /\ (m.type = "ack" => m.src \in Others)
      BY <2>1 DEF PInv, TInv, Messages, Msg
    <3>2. QED
      BY <1>1, <1>2, <3>1 DEF Tells, Finished, Early
  <2>2. CASE m \in Broadcast(step, n)
    <3>1. m.type = step /\ m.map = target[Reformer]
      BY <2>2, BroadcastMsg
    <3>2. QED
      BY <1>1, <3>1 DEF Tells, Early
  <2>3. QED
    BY <2>1, <2>2
<1>5. Counted'
  BY <1>1, <1>2 DEF Counted
<1>6. PublishedTogether'
  BY <1>1 DEF PublishedTogether, Finished
<1>7. QED
  BY <1>3, <1>4, <1>5, <1>6 DEF PInv

LEMMA PublishTargetPublishing ==
    ASSUME TInv, PInv, PublishTarget
    PROVE  PInv'
<1>1. 0 \in 0 .. MaxResends
  BY RemasterAssumption
<1>2. /\ UNCHANGED <<reform, status, target, assign>> /\ map' = map
      /\ status[Reformer] \in {"PUBLISH", "FAIL"} /\ net' = net \cup Broadcast("target", 0)
      /\ pub'.step = "target" /\ pub'.acks = {}
  BY DEF PublishTarget
<1>3. QED
  BY <1>1, <1>2, BroadcastPublishing

LEMMA PublishDonePublishing ==
    ASSUME TInv, PInv, PublishDone
    PROVE  PInv'
<1>1. 0 \in 0 .. MaxResends /\ Reformer \in Inst /\ map \in [Inst -> Maps]
  BY RemasterAssumption, ReformFacts DEF TInv, Protocol
<1>2. /\ UNCHANGED <<reform, status, target, assign>> /\ map' = [map EXCEPT ![Reformer] = target[Reformer]]
      /\ net' = net \cup Broadcast("done", 0) /\ pub'.step = "done" /\ pub'.acks = {}
  BY DEF PublishDone
<1>3. status[Reformer] \in {"PUBLISH", "FAIL"} /\ \A i \in Others : Taken(i)
  BY DEF PublishDone, PInv, Steps, Counted
<1>4. map'[Reformer] = target[Reformer] /\ \A i \in Inst \ {Reformer} : map'[i] = map[i]
  BY <1>1, <1>2
<1>5. QED
  BY <1>1, <1>2, <1>3, <1>4, BroadcastPublishing

LEMMA ResendPublishing ==
    ASSUME TInv, PInv, Resend
    PROVE  PInv'
<1>1. /\ pub \in [step : {"none", "target", "done"}, round : 0 .. MaxResends, acks : SUBSET Others]
      /\ MaxResends \in Nat
  BY RemasterAssumption DEF TInv, Protocol
<1>2. pub.round + 1 \in 0 .. MaxResends
  BY <1>1 DEF Resend
<1>3. PICK step \in {"target", "done"} : step = pub.step
  BY <1>1 DEF Resend, PInv, Steps
<1>4. /\ UNCHANGED <<reform, status, target, assign>> /\ map' = map
      /\ net' = net \cup Broadcast(step, pub.round + 1)
      /\ pub'.step = step /\ pub'.acks = {}
  BY <1>1, <1>3 DEF Resend
<1>5. /\ status[Reformer] \in {"PUBLISH", "FAIL"}
      /\ step = "done" => map[Reformer] = target[Reformer] /\ \A i \in Others : Taken(i)
  BY <1>3 DEF PInv, Steps, Counted
<1>6. QED
  BY <1>2, <1>4, <1>5, BroadcastPublishing

(* All have answered the end: all are done, with the map. *)
LEMMA PublishedPublishing ==
    ASSUME TInv, PInv, Published
    PROVE  PInv'
<1>1. /\ reform \in Reforms /\ Reformer \in Inst /\ Reformer \notin Others /\ Others \subseteq Inst
      /\ Others' = Others /\ Reformer' = Reformer /\ Alive' = Alive /\ Alive = Others \cup {Reformer}
      /\ status \in [Inst -> Statuses]
  BY MsgStays, ReformFacts DEF TInv, Protocol, Published
<1>2. /\ status[Reformer] \in {"PUBLISH", "FAIL"} /\ map[Reformer] = target[Reformer]
      /\ \A i \in Others : Taken(i) /\ status[i] \in Finished
  BY DEF PInv, Steps, Counted, Published
<1>3. /\ status'[Reformer] = IF status[Reformer] = "FAIL" THEN "FAIL" ELSE "DONE"
      /\ \A i \in Others : status'[i] = status[i]
      /\ map' = map /\ target' = target /\ net' = net /\ pub' = Quiet /\ assign' = assign
  BY <1>1 DEF Published, NewStatus
<1>4. Steps'
  BY <1>1, <1>2, <1>3 DEF PInv, Steps, Quiet, Idle
<1>5. ASSUME NEW m \in net' PROVE Tells(m)'
  <2>1. Tells(m) /\ (m.type = "ack" => m.src \in Others)
    BY <1>3 DEF PInv, TInv, Messages, Msg
  <2>2. \A i \in Others : Taken(i)'
    BY <1>1, <1>2, <1>3 DEF Taken
  <2>3. QED
    BY <1>1, <1>2, <1>3, <2>1, <2>2 DEF Tells, Early, Finished
<1>6. Counted'
  BY <1>3 DEF Counted, Quiet
<1>7. PublishedTogether'
  BY <1>1, <1>2, <1>3 DEF PublishedTogether, Finished, Taken
<1>8. QED
  BY <1>4, <1>5, <1>6, <1>7 DEF PInv

(* An instance takes the map of the reformer. *)
LEMMA HandleTargetPublishing ==
    ASSUME TInv, PInv, NEW m \in net, HandleTarget(m)
    PROVE  PInv'
<1>1. /\ reform \in Reforms /\ Reformer \in Inst /\ Reformer \notin Others /\ Others \subseteq Inst
      /\ Others' = Others /\ Reformer' = Reformer /\ Alive' = Alive /\ map \in [Inst -> Maps]
  BY MsgStays, ReformFacts DEF TInv, Protocol, HandleTarget
<1>2. m.dst \in Others /\ m.map = target[Reformer] /\ status[Reformer] \notin Early
  BY DEF TInv, Messages, Msg, PInv, Tells, HandleTarget
<1>3. \A i \in Inst : map'[i] = map[i] \/ map'[i] = target[Reformer]
  BY <1>1, <1>2 DEF HandleTarget
<1>4. UNCHANGED <<status, target, assign, pub>>
  BY DEF HandleTarget
<1>5. \A i \in Inst : Taken(i) => Taken(i)'
  BY <1>1, <1>3, <1>4 DEF Taken
<1>6. Steps'
  BY <1>1, <1>4 DEF PInv, Steps, Quiet, Idle
<1>7. ASSUME NEW k \in net' PROVE Tells(k)'
  <2>1. CASE k \in net
    <3>1. Tells(k) /\ (k.type = "ack" => k.src \in Others)
      BY <2>1 DEF PInv, TInv, Messages, Msg
    <3>2. QED
      BY <1>1, <1>4, <1>5, <3>1 DEF Tells, Early, Finished
  <2>2. CASE k \notin net
    <3>1. k = Ack(m) /\ map'[m.dst] = target[Reformer]
      BY <1>1, <1>2, <2>2 DEF HandleTarget
    <3>2. k.type = "ack" /\ k.step = "target" /\ k.src = m.dst
      BY <3>1 DEF Ack, HandleTarget
    <3>3. Taken(m.dst)'
      BY <1>1, <1>4, <3>1 DEF Taken
    <3>4. QED
      BY <1>1, <1>2, <1>4, <3>2, <3>3 DEF Tells, Early
  <2>3. QED
    BY <2>1, <2>2
<1>8. Counted'
  <2>1. Counted /\ pub.acks \subseteq Others
    BY DEF PInv, TInv, Protocol
  <2>2. QED
    BY <1>1, <1>3, <1>4, <1>5, <2>1 DEF Counted, Finished
<1>9. PublishedTogether'
  <2>1. PublishedTogether /\ Alive \subseteq Inst
    BY <1>1, ReformFacts DEF PInv
  <2>2. QED
    BY <1>1, <1>3, <1>4, <2>1 DEF PublishedTogether, Finished
<1>10. QED
  BY <1>6, <1>7, <1>8, <1>9 DEF PInv

(* An instance is told the end, and is done if it was ready to publish. *)
LEMMA HandleDonePublishing ==
    ASSUME TInv, PInv, NEW m \in net, HandleDone(m)
    PROVE  PInv'
<1>1. /\ reform \in Reforms /\ Reformer \in Inst /\ Reformer \notin Others /\ Others \subseteq Inst
      /\ Others' = Others /\ Reformer' = Reformer /\ Alive' = Alive /\ status \in [Inst -> Statuses]
      /\ Alive = Others \cup {Reformer}
  BY MsgStays, ReformFacts DEF TInv, Protocol, HandleDone
<1>2. m.dst \in Others /\ status[Reformer] \notin Early
  BY DEF TInv, Messages, Msg, PInv, Tells, HandleDone
<1>3. /\ UNCHANGED <<map, target, assign, pub>> /\ status'[Reformer] = status[Reformer]
      /\ \A i \in Others : \/ status'[i] = status[i]
                           \/ status[i] = "PUBLISH" /\ status'[i] = "DONE"
  BY <1>1, <1>2 DEF HandleDone, NewStatus
<1>4. \A i \in Others : /\ Taken(i) => Taken(i)'
                        /\ status[i] \in Finished => status'[i] \in Finished
  BY <1>1, <1>3 DEF Taken, Finished
<1>5. Steps'
  BY <1>1, <1>3 DEF PInv, Steps, Quiet, Idle
<1>6. ASSUME NEW k \in net' PROVE Tells(k)'
  <2>1. CASE k \in net
    <3>1. Tells(k) /\ (k.type = "ack" => k.src \in Others)
      BY <2>1 DEF PInv, TInv, Messages, Msg
    <3>2. QED
      BY <1>1, <1>3, <1>4, <3>1 DEF Tells, Early, Finished
  <2>2. CASE k \notin net
    <3>1. k = Ack(m) /\ status'[m.dst] = "DONE"
      BY <1>1, <1>2, <2>2 DEF HandleDone, NewStatus
    <3>2. k.type = "ack" /\ k.step = "done" /\ k.src = m.dst
      BY <3>1 DEF Ack, HandleDone
    <3>3. QED
      BY <1>1, <1>2, <1>3, <3>1, <3>2 DEF Tells, Early, Finished
  <2>3. QED
    BY <2>1, <2>2
<1>7. Counted'
  <2>1. Counted /\ pub.acks \subseteq Others
    BY DEF PInv, TInv, Protocol
  <2>2. QED
    BY <1>1, <1>3, <1>4, <2>1 DEF Counted, Finished
<1>8. PublishedTogether'
  <2>1. PublishedTogether
    BY DEF PInv
  <2>2. QED
    BY <1>1, <1>3, <1>4, <2>1 DEF PublishedTogether, Finished
<1>9. QED
  BY <1>5, <1>6, <1>7, <1>8 DEF PInv

(* An answer counts for the broadcast it answers, and tells of that one. *)
LEMMA HandleAckPublishing ==
    ASSUME TInv, PInv, NEW m \in net, HandleAck(m)
    PROVE  PInv'
<1>1. /\ reform' = reform /\ UNCHANGED <<status, map, target, assign>> /\ net' = net \ {m}
      /\ pub \in [step : {"none", "target", "done"}, round : 0 .. MaxResends, acks : SUBSET Others]
  BY DEF TInv, Protocol, HandleAck
<1>2. Others' = Others /\ Reformer' = Reformer /\ Alive' = Alive
  BY <1>1, MsgStays
<1>3. m.step \in {"target", "done"} /\ Tells(m) /\ m.type = "ack"
  BY DEF TInv, Messages, Msg, PInv, HandleAck
<1>4. \A i : Taken(i)' <=> Taken(i)
  BY <1>1, <1>2 DEF Taken
<1>5. \/ pub' = pub
      \/ m.step = pub.step /\ pub'.step = pub.step /\ pub'.acks = pub.acks \cup {m.src}
  BY <1>1 DEF HandleAck, CountsFor
<1>6. Steps'
  BY <1>1, <1>2, <1>3, <1>5 DEF PInv, Steps, Quiet, Idle
<1>7. ASSUME NEW k \in net' PROVE Tells(k)'
  <2>1. Tells(k)
    BY <1>1 DEF PInv
  <2>2. QED
    BY <1>1, <1>2, <1>4, <2>1 DEF Tells, Early, Finished
<1>8. Counted'
  <2>1. Counted
    BY DEF PInv
  <2>2. CASE pub' = pub
    BY <1>1, <1>2, <1>4, <2>1, <2>2 DEF Counted, Finished
  <2>3. CASE m.step = pub.step /\ pub'.step = pub.step /\ pub'.acks = pub.acks \cup {m.src}
    BY <1>1, <1>2, <1>3, <1>4, <2>1, <2>3 DEF Counted, Finished, Tells
  <2>4. QED
    BY <1>5, <2>2, <2>3
<1>9. PublishedTogether'
  BY <1>1, <1>2 DEF PInv, PublishedTogether, Finished
<1>10. QED
  BY <1>6, <1>7, <1>8, <1>9 DEF PInv

(* An instance that undoes has failed; its map is the old one. *)
LEMMA StopRemasterPublishing ==
    ASSUME TInv, PInv, NEW i \in Inst, StopRemaster(i)
    PROVE  PInv'
<1>1. /\ reform \in Reforms /\ Reformer \in Inst /\ Reformer \notin Others /\ Others \subseteq Inst
      /\ Others' = Others /\ Reformer' = Reformer /\ Alive' = Alive /\ Alive = Others \cup {Reformer}
      /\ status \in [Inst -> Statuses] /\ map \in [Inst -> Maps]
  BY MsgStays, ReformFacts DEF TInv, Protocol, StopRemaster
<1>2. /\ UNCHANGED <<target, assign, pub, net>> /\ status[i] = "FAIL" /\ status'[i] = "STOPPED"
      /\ \A j \in Inst \ {i} : status'[j] = status[j] /\ map'[j] = map[j]
      /\ i = Reformer => assign = Idle /\ pub = Quiet
  BY <1>1 DEF StopRemaster
<1>3. \A j \in Inst : /\ Taken(j) => Taken(j)'
                      /\ status[j] \in Finished => status'[j] \in Finished
  BY <1>1, <1>2 DEF Taken, Finished
<1>4. Steps'
  BY <1>1, <1>2 DEF PInv, Steps, Quiet, Idle
<1>5. ASSUME NEW k \in net' PROVE Tells(k)'
  <2>1. Tells(k) /\ (k.type = "ack" => k.src \in Others)
    BY <1>2 DEF PInv, TInv, Messages, Msg
  <2>2. status'[Reformer] \in Early => status[Reformer] \in Early
    BY <1>1, <1>2 DEF Early
  <2>3. QED
    BY <1>1, <1>2, <1>3, <2>1, <2>2 DEF Tells
<1>6. Counted'
  <2>1. Counted /\ pub.acks \subseteq Others
    BY DEF PInv, TInv, Protocol
  <2>2. CASE i = Reformer
    BY <1>2, <2>2 DEF Counted, Quiet
  <2>3. CASE i # Reformer
    BY <1>1, <1>2, <1>3, <2>1, <2>3 DEF Counted, Finished
  <2>4. QED
    BY <2>2, <2>3
<1>7. PublishedTogether'
  <2>1. PublishedTogether
    BY DEF PInv
  <2>2. QED
    BY <1>1, <1>2, <2>1 DEF PublishedTogether, Finished
<1>8. QED
  BY <1>4, <1>5, <1>6, <1>7 DEF PInv

LEMMA NextPublishing == TInv /\ PInv /\ [Next]_vars => PInv'
<1> SUFFICES ASSUME TInv, PInv, [Next]_vars PROVE PInv'
  OBVIOUS
<1>1. CASE UNCHANGED vars
  <2>1. /\ reform' = reform /\ map' = map /\ target' = target /\ status' = status
        /\ assign' = assign /\ pub' = pub /\ net' = net
    BY <1>1 DEF vars
  <2>2. Steps
    BY DEF PInv
  <2>3. QED
    BY <2>1, <2>2, PublishingStays DEF Steps
<1>2. ASSUME NEW i \in Inst, Step(i) PROVE PInv'
  BY <1>2, StartPublishing, PreparePublishing, MigratePublishing, ImmigratePublishing, RecoverPublishing,
     RecoveredPublishing, CleanRemasterResPublishing, StopRemasterPublishing DEF Step
<1>3. ASSUME NEW i \in Inst, SendTask(i) PROVE PInv'
  BY <1>3, SendTaskPublishing
<1>4. CASE Direct
  BY <1>4, ExecutePublishing, PublishTargetPublishing, PublishDonePublishing, PublishedPublishing,
     ResendPublishing, GiveUpPublishing DEF Direct
<1>5. ASSUME NEW m \in net, Receive(m) PROVE PInv'
  BY <1>5, HandleNotifyPublishing, HandleTaskPublishing, HandleTaskAckPublishing, HandleDataPublishing,
     HandleEndPublishing, HandleTaskDonePublishing, HandleReportPublishing, HandleReportAckPublishing,
     HandleTargetPublishing, HandleDonePublishing, HandleAckPublishing DEF Receive
<1>6. QED
  BY <1>1, <1>2, <1>3, <1>4, <1>5 DEF Next

-----------------------------------------------------------------------------
(* The results.                                                            *)

LEMMA TypesHold == Spec => []TInv
<1>1. Init => TInv
  BY InitTypes
<1>2. TInv /\ [Next]_vars => TInv'
  BY NextTypes
<1>3. QED
  BY <1>1, <1>2, PTL DEF Spec

(* Every variable keeps its type and, in every directory, an entry that    *)
(* exists names an instance: the cleaning of drc_clean_page_owner_by_part  *)
(* (dtc_drc.c:2079), the entries sent and the reports of what is held      *)
(* (drc_rcy_page_info) make no entry that names nobody, whatever the       *)
(* reform.                                                                 *)
THEOREM RemasterTypeCorrect == Spec => []RemasterTypeOK
<1>1. TInv => RemasterTypeOK
  <2> SUFFICES ASSUME TInv PROVE RemasterTypeOK
    OBVIOUS
  <2>1. reform \in Reforms /\ Others \subseteq Inst
    BY ReformFacts DEF TInv, Protocol
  <2>2. ASSUME NEW i \in Inst, NEW p \in Part, dir[i][p] # None
        PROVE  /\ dir[i][p] \in Entries
               /\ dir[i][p].owner # None \/ dir[i][p].copies \cup dir[i][p].edps # {}
    BY <2>2 DEF TInv, Directory, Slots, Named
  <2>3. QED
    BY <2>1, <2>2 DEF TInv, Protocol, Directory, RemasterTypeOK, TaskRec
<1>2. QED
  BY <1>1, TypesHold, PTL

(* When the remastering is done at the reformer it is done at every        *)
(* instance alive, and each has the reformer's map, whatever the order,    *)
(* the loss or the repetition of the two broadcasts of                     *)
(* drc_remaster_step_publish (dtc_drc.c:6677) and of their answers.        *)
THEOREM MapPublishedTogether == Spec => []PublishedTogether
<1>1. Init => PInv
  BY InitPublishing
<1>2. TInv /\ PInv /\ [Next]_vars => PInv'
  BY NextPublishing
<1>3. PInv => PublishedTogether
  BY DEF PInv
<1>4. QED
  BY <1>1, <1>2, <1>3, TypesHold, PTL DEF Spec

-----------------------------------------------------------------------------
(* The entries, as an inductive invariant: what becomes of them from the   *)
(* first entry of a part to the one its new master ends with.              *)

Moving == {"MIGRATE", "RECOVERY", "PUBLISH", "DONE"}
Through == {"PUBLISH", "DONE", "ENDED"}
Past == Through \cup {"FAIL", "STOPPED"}

(* The new map, and the tasks it makes of the old one.                     *)
Goal == target[Reformer]
GoalTasks ==
    {[part |-> p, exp |-> reform.map[p], imp |-> Goal[p]] :
        p \in {q \in Part : Goal[q] # reform.map[q] /\ reform.map[q] \notin reform.abort}}

First(p) == FirstEntry(reform, p)
Clean(p) == Cleaned(First(p), Gone)

(* The master of the part died; what instance i has to report of it.       *)
Lost(p) == reform.map[p] \in reform.abort
Owes(i, p) == i \in Stay /\ Lost(p) /\ Holds(i, p)

(* A part goes to a joining instance, or because its master goes.          *)
Fits == \A p \in Part :
    /\ Goal[p] \in After
    /\ Goal[p] = reform.map[p] \/ Goal[p] \in reform.join \/ reform.map[p] \in Gone

(* No map was made yet: everything is as before the reform.                *)
NotBegun ==
    /\ assign = Idle /\ pub = Quiet /\ sent = {}
    /\ \A i \in Inst : status[i] \in Early \cup {"FAIL", "STOPPED"} /\ task[i] = {}
    /\ \A i \in reform.before : map[i] = reform.map
    /\ \A m \in net : m.type = "notify"
    /\ \A i \in Inst, p \in Part :
          due[i][p] = -1 /\ dir[i][p] = IF reform.map[p] = i THEN First(p) ELSE None

Begins ==
    /\ NotBegun \/ Fits
    /\ status[Reformer] \in Early /\ assign = Idle => NotBegun

(* Who takes part.                                                         *)
Members ==
    /\ \A i \in Inst : status[i] # "IDLE" => i \in Alive
    /\ \A i \in Inst : status[i] = "RECOVERY" => i \in Stay
    /\ sent \subseteq Stay

(* The reformer hears of an end, and publishes, only afterwards.           *)
Heard ==
    /\ \A m \in net : m.type = "done_task" => status[m.src] \in Past
    /\ \A i \in Inst : drm[i] = "PUBLISH" => status[i] \in Past
    /\ (pub.step # "none" \/ \E m \in net : m.type \in {"target", "done"}) =>
          \A i \in Alive : status[i] \in Past

(* Until then the old map is there; the reformer knows what to undo.       *)
OldMaps ==
    /\ \A i \in reform.before : status[i] \notin Past => map[i] = reform.map
    /\ pub.step # "none" \/ status[Reformer] \in Moving \cup {"ENDED"} => Reformer \in assigned
    /\ Reformer \notin assigned \/ status[Reformer] = "STOPPED" => map[Reformer] = reform.map

(* All work on the same tasks.                                             *)
GivenOut ==
    /\ assign # Idle =>
          map[Reformer] = reform.map /\ pub.step = "none" /\ task[Reformer] = GoalTasks
    /\ \A m \in net : m.type = "task" => m.tasks = GoalTasks
    /\ \A i \in Inst : status[i] \in Moving => task[i] = GoalTasks

(* Who is through has been told that its reports were taken.               *)
Answered == \A i \in Stay : status[i] \in Through => i \in sent /\ owed[i] = {}

(* The entry of a part whose master is alive: there until it is freed, and *)
(* at its new master, cleaned.                                             *)
(* What a cleaning that may have been cut short leaves of the entry.       *)
Partly(p) == {Cleaned(First(p), G) : G \in SUBSET Gone} \cup {First(p)}

KeptAt(m, p) ==
    /\ status[m] \in Early \cup {"MIGRATE"} => dir[m][p] = First(p)
    /\ status[m] \in {"RECOVERY", "PUBLISH", "DONE"} => dir[m][p] = Clean(p)
    /\ status[m] \in {"FAIL", "STOPPED"} => dir[m][p] \in Partly(p)
    /\ status[m] = "ENDED" => dir[m][p] = IF Goal[p] = m THEN Clean(p) ELSE None

CameTo(i, p) ==
    /\ dir[i][p] # None => i = Goal[p] /\ dir[i][p] = Clean(p)
    /\ i \in reform.join /\ status[i] \in Through /\ Goal[p] = i => dir[i][p] = Clean(p)

Carries(m) ==
    /\ m.type \in {"data", "end"} =>
          ~Lost(m.part) /\ m.src = reform.map[m.part] /\ m.dst = Goal[m.part] /\ m.dst # m.src
    /\ m.type = "data" => m.entry = Clean(m.part)
    /\ m.type = "end" => m.count = Count(Clean(m.part))

Kept ==
    /\ \A p \in Part : ~Lost(p) => /\ KeptAt(reform.map[p], p)
                                   /\ \A i \in Inst \ {reform.map[p]} : CameTo(i, p)
    /\ \A m \in net : Carries(m)
    /\ \A i \in Inst, p \in Part :
          due[i][p] # -1 => ~Lost(p) /\ i = Goal[p] /\ due[i][p] = Count(Clean(p))

(* An entry made of reports names those who reported, in their modes.      *)
In(e, i) == e # None /\ i \in e.copies \cup e.edps \cup {e.owner}

NamesRight(e, i, p) ==
    /\ i \in Stay
    /\ i \in e.copies <=> reform.held[i][p].mode = "S"
    /\ i = e.owner <=> reform.held[i][p].mode = "X"
    /\ i \in e.edps <=> reform.held[i][p].edp > 0
    /\ reform.held[i][p].edp <= e.lsn

Sums(e, p) ==
    e # None =>
        /\ \A i \in Inst : In(e, i) => NamesRight(e, i, p)
        /\ IF e.latest = None THEN e.lsn = 0
           ELSE e.latest \in e.edps /\ reform.held[e.latest][p].edp = e.lsn

AckDue(i, d) ==
    /\ d \in owed[i]
    /\ \A m \in net : ~(m.type = "report_ack" /\ m.src = d /\ m.dst = i)

(* Who may have reports under way: it has sent all of them, or failed with *)
(* some of them sent.                                                      *)
Reporter(i) == i \in Stay /\ (i \in sent \/ status[i] \in {"FAIL", "STOPPED"})

(* The parts whose master died: who sent its reports is named where they   *)
(* went, or waits for the answer.                                          *)
Rebuilding ==
    /\ \A i \in Alive, p \in Part : Lost(p) =>
          /\ Sums(dir[i][p], p)
          /\ dir[i][p] # None => \E j \in Stay : Owes(j, p) /\ target[j][p] = i
    /\ \A i \in sent, p \in Part : Owes(i, p) =>
          /\ target[i][p] \in Alive
          /\ \/ status[target[i][p]] = "STOPPED"
             \/ In(dir[target[i][p]][p], i)
             \/ AckDue(i, target[i][p])
    /\ \A m \in net : m.type = "report" =>
          /\ Reporter(m.src)
          /\ \A p \in m.parts : p \in Part /\ Owes(m.src, p) /\ target[m.src][p] = m.dst
          /\ m.src \in sent => \A p \in Part : Owes(m.src, p) /\ target[m.src][p] = m.dst => p \in m.parts
    /\ \A m \in net : m.type = "report_ack" => Reporter(m.dst)

(* The instances that report pages of the parts of the dead send them      *)
(* where the reformer puts the part (in the code a survivor other than the *)
(* reformer sends them where its target_part_map was left pointing).       *)
MapsAgree == \A p \in Part, i \in Stay : Owes(i, p) => target[i][p] = Goal[p]

(* A reformer that has stopped kept nothing of the parts of others.        *)
Freed ==
    status[Reformer] = "STOPPED" /\ Reformer \in assigned =>
        \A p \in Part :
            \/ dir[Reformer][p] = None
            \/ reform.map[p] = Reformer
            \/ Lost(p) /\ \E j \in Stay : Owes(j, p) /\ target[j][p] # Goal[p]

Flow == Members /\ Heard /\ OldMaps /\ GivenOut /\ Answered

EInv == Begins /\ Flow /\ Kept /\ Rebuilding /\ Freed

-----------------------------------------------------------------------------
(* The sets of instances, the tasks and the entries.                       *)

LEMMA ListFacts ==
    ASSUME reform \in Reforms
    PROVE  /\ Reformer \in Stay /\ Stay \subseteq Alive /\ reform.join \subseteq Alive
           /\ reform.leave \subseteq Alive /\ Stay \subseteq reform.before
           /\ Alive \cap reform.abort = {} /\ reform.before \cap reform.join = {}
           /\ Stay \cap reform.leave = {} /\ Stay \cap Gone = {}
           /\ \A i \in Alive : i \in Stay \/ i \in reform.leave \/ i \in reform.join
           /\ \A p \in Part : reform.map[p] \in reform.before
           /\ \A p \in Part : ~Lost(p) => reform.map[p] \in Alive
           /\ \A i \in Inst, p \in Part : Holds(i, p) => i \in reform.before
           /\ \A p \in Part, i, j \in Inst :
                 reform.held[i][p].mode = "X" /\ reform.held[j][p].mode = "X" => i = j
<1>1. /\ reform.leave \cup reform.abort \subseteq reform.before
      /\ reform.join \cap reform.before = {} /\ reform.leave \cap reform.abort = {}
      /\ Reformer \in reform.before /\ Reformer \in (reform.before \cup reform.join) \ (reform.leave \cup reform.abort)
      /\ \A p \in Part : reform.map[p] \in reform.before
  BY ReformListsAssumption, ReformsAssumption DEF Reformer
<1>2. \A p \in Part, i \in Inst \ reform.before : reform.held[i][p].mode = "N" /\ reform.held[i][p].edp = 0
  BY ReformListsAssumption
<1>3. \A p \in Part, i, j \in Inst :
          reform.held[i][p].mode = "X" /\ reform.held[j][p].mode = "X" => i = j
  BY ReformListsAssumption
<1>4. \A i \in Inst, p \in Part : Holds(i, p) => i \in reform.before
  BY <1>2 DEF Holds
<1>5. QED
  BY <1>1, <1>3, <1>4 DEF Stay, Alive, After, Gone, Lost

(* What depends on the reform alone, or on it and the maps alone.          *)
LEMMA ReformStays ==
    ASSUME reform' = reform
    PROVE  /\ Reformer' = Reformer /\ Alive' = Alive /\ After' = After /\ Stay' = Stay
           /\ Others' = Others /\ Gone' = Gone
           /\ \A p : /\ First(p)' = First(p) /\ Clean(p)' = Clean(p) /\ Partly(p)' = Partly(p)
                     /\ Lost(p)' <=> Lost(p)
           /\ \A i, p : Owes(i, p)' <=> Owes(i, p)
           /\ \A e, p : Sums(e, p)' <=> Sums(e, p)
<1>1. /\ Reformer' = Reformer /\ Alive' = Alive /\ Stay' = Stay /\ Others' = Others
      /\ After' = After /\ Gone' = Gone
  BY DEF Reformer, Alive, After, Stay, Others, Gone
<1>2. \A p : First(p)' = First(p)
  BY DEF First, FirstEntry
<1>3. \A p : Clean(p)' = Clean(p) /\ Partly(p)' = Partly(p)
  BY <1>1, <1>2 DEF Clean, Cleaned, Partly
<1>4. \A i, p : (Lost(p)' <=> Lost(p)) /\ (Owes(i, p)' <=> Owes(i, p))
  BY <1>1 DEF Lost, Owes, Holds
<1>5. \A e, p : Sums(e, p)' <=> Sums(e, p)
  BY <1>1 DEF Sums, NamesRight, In
<1>6. QED
  BY <1>1, <1>2, <1>3, <1>4, <1>5

LEMMA Unmoved ==
    ASSUME reform' = reform, target' = target
    PROVE  /\ Reformer' = Reformer /\ Alive' = Alive /\ Stay' = Stay /\ Others' = Others /\ Gone' = Gone
           /\ Goal' = Goal /\ GoalTasks' = GoalTasks
           /\ \A p : /\ First(p)' = First(p) /\ Clean(p)' = Clean(p) /\ Partly(p)' = Partly(p)
                     /\ Lost(p)' <=> Lost(p)
           /\ \A i, p : Owes(i, p)' <=> Owes(i, p)
           /\ \A e, p : Sums(e, p)' <=> Sums(e, p)
           /\ Fits' <=> Fits
<1>1. Reformer' = Reformer /\ After' = After /\ Gone' = Gone /\ Goal' = Goal
  BY ReformStays DEF Goal
<1>2. GoalTasks' = GoalTasks
  BY <1>1 DEF GoalTasks
<1>3. Fits' <=> Fits
  BY <1>1 DEF Fits
<1>4. QED
  BY <1>1, <1>2, <1>3, ReformStays

LEMMA GoalTaskFacts ==
    /\ \A k \in GoalTasks :
          /\ k.part \in Part /\ k.exp = reform.map[k.part] /\ k.imp = Goal[k.part]
          /\ k.exp # k.imp /\ ~Lost(k.part)
    /\ \A p \in Part : ~Lost(p) /\ Goal[p] # reform.map[p] =>
          \E k \in GoalTasks : k.part = p /\ k.exp = reform.map[p] /\ k.imp = Goal[p]
<1>1. ASSUME NEW k \in GoalTasks
      PROVE  /\ k.part \in Part /\ k.exp = reform.map[k.part] /\ k.imp = Goal[k.part]
             /\ k.exp # k.imp /\ ~Lost(k.part)
  <2>1. PICK p \in Part : /\ k = [part |-> p, exp |-> reform.map[p], imp |-> Goal[p]]
                          /\ Goal[p] # reform.map[p] /\ reform.map[p] \notin reform.abort
    BY DEF GoalTasks
  <2>2. k.part = p /\ k.exp = reform.map[p] /\ k.imp = Goal[p]
    BY <2>1
  <2>3. QED
    BY <2>1, <2>2 DEF Lost
<1>2. ASSUME NEW p \in Part, ~Lost(p), Goal[p] # reform.map[p]
      PROVE  \E k \in GoalTasks : k.part = p /\ k.exp = reform.map[p] /\ k.imp = Goal[p]
  <2>1. [part |-> p, exp |-> reform.map[p], imp |-> Goal[p]] \in GoalTasks
    BY <1>2 DEF GoalTasks, Lost
  <2>2. QED
    BY <2>1
<1>3. QED
  BY <1>1, <1>2

LEMMA TasksOfGoal ==
    ASSUME map[Reformer] = reform.map
    PROVE  Tasks(target[Reformer]) = GoalTasks
BY DEF Tasks, GoalTasks, Goal

(* The entry of a part before the reform, taken apart.                     *)
LEMMA FirstFacts ==
    ASSUME reform \in Reforms, NEW p \in Part
    PROVE  LET e == First(p)
               hs == {i \in reform.before : reform.held[i][p].mode # "N"}
               xs == {i \in hs : reform.held[i][p].mode = "X"}
               es == {i \in reform.before : reform.held[i][p].edp > 0}
           IN  IF hs = {} /\ es = {} THEN e = None
               ELSE /\ e \in Named
                    /\ hs # {} => e.owner \in hs
                    /\ xs # {} => e.owner \in xs
                    /\ hs = {} => e.owner = None
                    /\ e.copies = hs \ {e.owner} /\ e.edps = es
                    /\ IF es = {} THEN e.latest = None
                       ELSE /\ e.latest \in es
                            /\ \A j \in es : reform.held[j][p].edp <= reform.held[e.latest][p].edp
<1> DEFINE hs == {i \in reform.before : reform.held[i][p].mode # "N"}
           xs == {i \in hs : reform.held[i][p].mode = "X"}
           es == {i \in reform.before : reform.held[i][p].edp > 0}
           o == IF hs = {} THEN None ELSE IF xs # {} THEN CHOOSE i \in xs : TRUE ELSE CHOOSE i \in hs : TRUE
           l == IF es = {} THEN None
                ELSE CHOOSE i \in es : \A j \in es : reform.held[j][p].edp <= reform.held[i][p].edp
           n == IF l = None THEN 0 ELSE reform.held[l][p].edp
           e == [owner |-> o, copies |-> hs \ {o}, edps |-> es, latest |-> l, lsn |-> n]
<1>1. First(p) = IF hs = {} /\ es = {} THEN None ELSE e
  BY DEF First, FirstEntry
<1>2. First(p) \in Slots /\ None \notin Inst
  BY FirstEntryNamed, RemasterAssumption DEF First
<1>3. /\ reform.before \subseteq Inst /\ MaxLsn \in Nat
      /\ \A i \in Inst : reform.held[i][p].edp \in 0 .. MaxLsn
  BY ReformFacts, RemasterAssumption
<1>4. es # {} => \E i \in es : \A j \in es : reform.held[j][p].edp <= reform.held[i][p].edp
  <2> DEFINE f == [i \in Inst |-> reform.held[i][p].edp]
  <2>1. \A i \in es : f[i] \in 0 .. MaxLsn /\ f[i] = reform.held[i][p].edp
    BY <1>3
  <2> HIDE DEF f, es
  <2>2. es # {} => \E i \in es : \A j \in es : f[j] <= f[i]
    BY <2>1, Largest
  <2>3. QED
    BY <2>1, <2>2
<1>5. /\ hs # {} => o \in hs
      /\ xs # {} => o \in xs
      /\ hs = {} => o = None
  <2>1. xs \subseteq hs
    OBVIOUS
  <2> HIDE DEF hs, xs
  <2>2. QED
    BY <2>1
<1>6. IF es = {} THEN l = None
      ELSE l \in es /\ \A j \in es : reform.held[j][p].edp <= reform.held[l][p].edp
  <2> HIDE DEF es
  <2>1. QED
    BY <1>4
<1>7. e.owner = o /\ e.copies = hs \ {o} /\ e.edps = es /\ e.latest = l
  OBVIOUS
<1>8. (hs # {} \/ es # {}) => e \in Named
  <2>1. o \in Inst \cup {None} /\ hs \ {o} \subseteq Inst /\ es \subseteq Inst
    BY <1>3, <1>5
  <2>2. l \in Inst \cup {None} /\ n \in Nat
    <3>1. l \in Inst \cup {None}
      BY <1>3, <1>6
    <3> HIDE DEF l
    <3>2. CASE l = None
      BY <3>1, <3>2
    <3>3. CASE l # None
      BY <1>3, <3>1, <3>3
    <3>4. QED
      BY <3>1, <3>2, <3>3
  <2>3. hs # {} \/ es # {} => o # None \/ (hs \ {o}) \cup es # {}
    BY <1>2, <1>3, <1>5
  <2> HIDE DEF hs, es, o, l, n
  <2>4. e \in Entries
    BY <2>1, <2>2 DEF Entries
  <2>5. QED
    BY <2>3, <2>4 DEF Named
<1> HIDE DEF hs, xs, es, o, l, n, e
<1>9. IF hs = {} /\ es = {} THEN First(p) = None
      ELSE /\ First(p) \in Named
           /\ hs # {} => First(p).owner \in hs
           /\ xs # {} => First(p).owner \in xs
           /\ hs = {} => First(p).owner = None
           /\ First(p).copies = hs \ {First(p).owner} /\ First(p).edps = es
           /\ IF es = {} THEN First(p).latest = None
              ELSE /\ First(p).latest \in es
                   /\ \A j \in es : reform.held[j][p].edp <= reform.held[First(p).latest][p].edp
  BY <1>1, <1>5, <1>6, <1>7, <1>8
<1>10. QED
  BY <1>9 DEF hs, xs, es

(* Cleaned of those who are gone, the entry says who still holds the page. *)
LEMMA CleanSays ==
    ASSUME reform \in Reforms, NEW p \in Part
    PROVE  Says(Clean(p), p)
<1> DEFINE e == First(p)
           hs == {i \in reform.before : reform.held[i][p].mode # "N"}
           xs == {i \in hs : reform.held[i][p].mode = "X"}
           es == {i \in reform.before : reform.held[i][p].edp > 0}
           left == [owner  |-> IF e.owner \in Gone THEN None ELSE e.owner,
                    copies |-> e.copies \ Gone,
                    edps   |-> e.edps \ Gone,
                    latest |-> IF e.latest \in Gone THEN None ELSE e.latest,
                    lsn    |-> IF e.latest \in Gone THEN 0 ELSE e.lsn]
<1>1. IF hs = {} /\ es = {} THEN e = None
      ELSE /\ e \in Named
           /\ hs # {} => e.owner \in hs
           /\ xs # {} => e.owner \in xs
           /\ hs = {} => e.owner = None
           /\ e.copies = hs \ {e.owner} /\ e.edps = es
           /\ IF es = {} THEN e.latest = None
              ELSE /\ e.latest \in es
                   /\ \A j \in es : reform.held[j][p].edp <= reform.held[e.latest][p].edp
  BY FirstFacts
<1>2. /\ reform.before \subseteq Inst /\ Gone \subseteq Inst /\ None \notin Inst /\ None \notin Named
      /\ \A i \in Inst : reform.held[i][p].edp \in 0 .. MaxLsn
      /\ \A i \in Inst : reform.held[i][p].mode # "N" \/ reform.held[i][p].edp > 0 => i \in reform.before
      /\ \A i, j \in Inst : reform.held[i][p].mode = "X" /\ reform.held[j][p].mode = "X" => i = j
  BY ReformFacts, ListFacts, RemasterAssumption, NoneAssumption DEF Holds, Named
<1>3. Holders(p) = hs \ Gone /\ Writers(p) = xs \ Gone /\ EdpHolders(p) = es \ Gone
  <2>1. Holders(p) = hs \ Gone
    BY <1>2 DEF Holders
  <2>2. Writers(p) = xs \ Gone
    BY <1>2 DEF Writers
  <2>3. EdpHolders(p) = es \ Gone
    BY <1>2 DEF EdpHolders
  <2>4. QED
    BY <2>1, <2>2, <2>3
<1>4. hs \subseteq Inst /\ es \subseteq Inst /\ xs \subseteq hs /\ \A i, j \in xs : i = j
  BY <1>2
<1>5. \A i \in es : reform.held[i][p].edp > 0
  OBVIOUS
<1>6. CASE hs = {} /\ es = {}
  BY <1>1, <1>3, <1>6 DEF Clean, Cleaned, Says
<1>7. CASE hs # {} \/ es # {}
  <2>1. e # None /\ e \in Entries /\ e.owner \in Inst \cup {None} /\ e.latest \in Inst \cup {None} /\ e.lsn \in Nat
    BY <1>1, <1>2, <1>7 DEF Named, Entries
  <2>2. Clean(p) = IF left.owner = None /\ left.copies = {} /\ left.edps = {} THEN None ELSE left
    BY <2>1 DEF Clean, Cleaned
  <2>3. /\ left.owner = IF e.owner \in Gone THEN None ELSE e.owner
        /\ left.copies = e.copies \ Gone /\ left.edps = e.edps \ Gone
        /\ left.latest = IF e.latest \in Gone THEN None ELSE e.latest
    OBVIOUS
  <2>4. left # None
    <3> HIDE DEF e
    <3>1. left \in Entries
      BY <1>1, <1>2, <1>4, <1>7, <2>1 DEF Entries
    <3>2. QED
      BY <3>1, NoneAssumption
  <2> HIDE DEF e, left, hs, xs, es
  <2>5. left.copies \cup ({left.owner} \ {None}) = hs \ Gone
    BY <1>1, <1>2, <1>4, <1>7, <2>3
  <2>6. (left.owner = None /\ left.copies = {} /\ left.edps = {}) <=> ((hs \ Gone) \cup (es \ Gone) = {})
    BY <1>1, <1>2, <1>4, <1>7, <2>3
  <2>7. xs \ Gone \subseteq {left.owner} /\ left.edps = es \ Gone
    BY <1>1, <1>2, <1>4, <1>7, <2>3
  <2>8. \/ /\ left.latest \in es \ Gone
           /\ \A i \in es \ Gone : reform.held[i][p].edp <= reform.held[left.latest][p].edp
        \/ left.latest = None /\ \/ es \ Gone = {}
                                 \/ \E i \in Gone : reform.held[i][p].edp > 0
    BY <1>1, <1>2, <1>4, <1>5, <1>7, <2>3
  <2>9. CASE (hs \ Gone) \cup (es \ Gone) = {}
    BY <1>3, <2>2, <2>6, <2>9 DEF Says
  <2>10. CASE (hs \ Gone) \cup (es \ Gone) # {}
    <3>1. Clean(p) = left
      BY <2>2, <2>6, <2>10
    <3>2. QED
      BY <1>3, <2>4, <2>5, <2>7, <2>8, <2>10, <3>1 DEF Says
  <2>11. QED
    BY <2>9, <2>10
<1>8. QED
  BY <1>6, <1>7

(* The old entry, cleaned or not, names all who still hold the page.       *)
LEMMA OldEntryCovers ==
    ASSUME reform \in Reforms, NEW p \in Part, NEW e \in Partly(p)
    PROVE  /\ Holders(p) \cup EdpHolders(p) # {} => e # None
           /\ e # None => /\ Holders(p) \subseteq e.copies \cup {e.owner}
                          /\ EdpHolders(p) \subseteq e.edps
<1> DEFINE f == First(p)
           hs == {i \in reform.before : reform.held[i][p].mode # "N"}
           es == {i \in reform.before : reform.held[i][p].edp > 0}
<1>1. IF hs = {} /\ es = {} THEN f = None
      ELSE /\ f \in Named
           /\ f.copies = hs \ {f.owner} /\ f.edps = es
  BY FirstFacts
<1>2. /\ Holders(p) \subseteq hs /\ EdpHolders(p) \subseteq es
      /\ Holders(p) \cap Gone = {} /\ EdpHolders(p) \cap Gone = {}
      /\ Holders(p) \subseteq Inst /\ EdpHolders(p) \subseteq Inst
  BY ListFacts DEF Holders, EdpHolders, Holds
<1>3. None \notin Named /\ None \notin Inst
  BY NoneAssumption, RemasterAssumption DEF Named
<1>4. CASE e = f
  <2> HIDE DEF hs, es, f
  <2>1. QED
    BY <1>1, <1>2, <1>3, <1>4
<1>5. ASSUME NEW G \in SUBSET Gone, e = Cleaned(f, G)
      PROVE  /\ Holders(p) \cup EdpHolders(p) # {} => e # None
             /\ e # None => /\ Holders(p) \subseteq e.copies \cup {e.owner}
                            /\ EdpHolders(p) \subseteq e.edps
  <2> DEFINE left == [owner  |-> IF f.owner \in G THEN None ELSE f.owner,
                      copies |-> f.copies \ G,
                      edps   |-> f.edps \ G,
                      latest |-> IF f.latest \in G THEN None ELSE f.latest,
                      lsn    |-> IF f.latest \in G THEN 0 ELSE f.lsn]
  <2>1. CASE hs = {} /\ es = {}
    BY <1>1, <1>2, <1>5, <2>1 DEF Cleaned
  <2>2. CASE ~(hs = {} /\ es = {})
    <3>1. f # None /\ f \in Entries /\ f.copies = hs \ {f.owner} /\ f.edps = es
      BY <1>1, <1>3, <2>2 DEF Named
    <3>2. e = IF left.owner = None /\ left.copies = {} /\ left.edps = {} THEN None ELSE left
      BY <1>5, <3>1 DEF Cleaned
    <3>3. /\ left.owner = IF f.owner \in G THEN None ELSE f.owner
          /\ left.copies = f.copies \ G /\ left.edps = f.edps \ G
      OBVIOUS
    <3>4. left # None
      <4>1. left \in Entries
        <5> HIDE DEF f
        <5>1. /\ f.owner \in Inst \cup {None} /\ f.copies \subseteq Inst /\ f.edps \subseteq Inst
              /\ f.latest \in Inst \cup {None} /\ f.lsn \in Nat
          BY <3>1 DEF Entries
        <5>2. QED
          BY <5>1 DEF Entries
      <4>2. QED
        BY <4>1, NoneAssumption
    <3> HIDE DEF hs, es, f, left
    <3>5. Holders(p) \subseteq left.copies \cup {left.owner} /\ EdpHolders(p) \subseteq left.edps
      BY <1>2, <1>5, <3>1, <3>3
    <3>6. QED
      BY <1>2, <1>3, <3>2, <3>4, <3>5
  <2>3. QED
    BY <2>1, <2>2
<1>6. QED
  BY <1>4, <1>5 DEF Partly

LEMMA InPartly == \A p : First(p) \in Partly(p) /\ Clean(p) \in Partly(p)
BY DEF Partly, Clean

(* drc_rcy_page_info names the instance that reports, and loses no other;  *)
(* a repeated report changes nothing.                                      *)
LEMMA ReportedSums ==
    ASSUME reform \in Reforms, NEW e \in Slots, NEW i \in Inst, NEW p \in Part,
           Owes(i, p), Sums(e, p)
    PROVE  /\ Sums(Reported(e, i, p), p)
           /\ Reported(e, i, p) # None /\ In(Reported(e, i, p), i)
           /\ \A j \in Inst : In(e, j) => In(Reported(e, i, p), j)
<1> DEFINE h == reform.held[i][p]
           r == Reported(e, i, p)
<1>1. /\ h.mode \in {"N", "S", "X"} /\ h.edp \in Nat /\ None \notin Inst
      /\ \A j \in Inst : reform.held[j][p].edp \in Nat
  BY ReformFacts, RemasterAssumption
<1>2. (h.mode # "N" \/ h.edp > 0) /\ i \in Stay
  BY DEF Owes, Holds
<1>3. \A j \in Inst : reform.held[j][p].mode = "X" /\ h.mode = "X" => j = i
  BY ListFacts
<1>4. r \in Slots
  BY ReportedNamed DEF Owes
<1>5. Edp(i, h) = IF h.edp > 0 THEN {i} ELSE {}
  BY DEF Edp
<1>6. CASE e = None
  <2>1. r = NewEntry(i, h)
    BY <1>6 DEF Reported
  <2>2. /\ r.owner = IF h.mode = "X" THEN i ELSE None
        /\ r.copies = IF h.mode = "S" THEN {i} ELSE {}
        /\ r.edps = Edp(i, h)
        /\ r.latest = IF h.edp > 0 THEN i ELSE None
        /\ r.lsn = h.edp
    BY <2>1 DEF NewEntry
  <2>3. r \in Entries
    BY <1>1, <1>5, <2>1 DEF NewEntry, Entries
  <2>4. r # None
    BY <2>3, NoneAssumption
  <2> HIDE DEF r
  <2>5. In(r, i) /\ \A j \in Inst : In(r, j) => j = i
    BY <1>1, <1>2, <1>5, <2>2, <2>4 DEF In
  <2>6. NamesRight(r, i, p)
    <3>1. /\ i \in r.copies <=> h.mode = "S"
          /\ i = r.owner <=> h.mode = "X"
          /\ i \in r.edps <=> h.edp > 0
          /\ h.edp <= r.lsn
      BY <1>1, <1>5, <2>2
    <3>2. QED
      BY <1>2, <3>1 DEF NamesRight
  <2>7. IF r.latest = None THEN r.lsn = 0
        ELSE r.latest \in r.edps /\ reform.held[r.latest][p].edp = r.lsn
    BY <1>1, <1>5, <2>2
  <2>8. Sums(r, p)
    BY <2>5, <2>6, <2>7 DEF Sums
  <2>9. QED
    BY <1>6, <2>4, <2>5, <2>8 DEF In, r
<1>7. CASE e # None
  <2>1. r = UpdatePageInfo(e, i, h)
    BY <1>7 DEF Reported
  <2>2. /\ r.owner = IF h.mode = "X" /\ e.owner = None THEN i ELSE e.owner
        /\ r.copies = IF h.mode = "S" THEN e.copies \cup {i} ELSE e.copies
        /\ r.edps = e.edps \cup Edp(i, h)
        /\ r.latest = IF h.edp > e.lsn THEN i ELSE e.latest
        /\ r.lsn = IF h.edp > e.lsn THEN h.edp ELSE e.lsn
    BY <2>1 DEF UpdatePageInfo
  <2>3. /\ e.owner \in Inst \cup {None} /\ e.copies \subseteq Inst /\ e.edps \subseteq Inst
        /\ e.latest \in Inst \cup {None} /\ e.lsn \in Nat
    BY <1>7 DEF Slots, Named, Entries
  <2>4. r \in Entries
    BY <1>1, <1>5, <2>1, <2>3 DEF UpdatePageInfo, Entries
  <2>5. r # None
    BY <2>4, NoneAssumption
  <2>6. /\ \A j \in Inst : In(e, j) => NamesRight(e, j, p)
        /\ IF e.latest = None THEN e.lsn = 0
           ELSE e.latest \in e.edps /\ reform.held[e.latest][p].edp = e.lsn
    BY <1>7 DEF Sums
  <2>7. e.owner # None => reform.held[e.owner][p].mode = "X"
    BY <1>7, <2>3, <2>6 DEF In, NamesRight
  <2>8. h.mode = "X" => r.owner = i
    BY <1>3, <2>2, <2>3, <2>7
  <2>9. r.owner = i => h.mode = "X"
    BY <1>1, <2>2, <2>3, <2>7
  <2>10. i \in e.copies => h.mode = "S"
    BY <1>7, <2>6 DEF In, NamesRight
  <2>11. i \in e.edps => h.edp > 0
    BY <1>7, <2>6 DEF In, NamesRight
  <2> HIDE DEF r
  <2>12. In(r, i)
    BY <1>1, <1>2, <1>5, <2>2, <2>5, <2>8 DEF In
  <2>13. ASSUME NEW j \in Inst, In(e, j) PROVE In(r, j)
    BY <2>2, <2>3, <2>5, <2>13, <1>1 DEF In
  <2>14. NamesRight(r, i, p)
    <3>1. i \in r.copies <=> h.mode = "S"
      BY <2>2, <2>10
    <3>2. i \in r.edps <=> h.edp > 0
      BY <1>5, <2>2, <2>11
    <3>3. h.edp <= r.lsn
      BY <1>1, <2>2, <2>3
    <3>4. QED
      BY <1>2, <2>8, <2>9, <3>1, <3>2, <3>3 DEF NamesRight
  <2>15. ASSUME NEW j \in Inst, In(r, j), j # i PROVE NamesRight(r, j, p)
    <3>1. In(e, j)
      BY <1>5, <1>7, <2>2, <2>15 DEF In
    <3>2. NamesRight(e, j, p)
      BY <2>6, <3>1
    <3>3. reform.held[j][p].edp <= r.lsn
      BY <1>1, <2>2, <2>3, <3>2 DEF NamesRight
    <3>4. (j \in r.copies <=> j \in e.copies) /\ (j \in r.edps <=> j \in e.edps)
      BY <1>5, <2>2, <2>15
    <3>5. j = r.owner <=> j = e.owner
      <4>1. CASE h.mode = "X"
        BY <1>3, <2>2, <2>7, <2>8, <2>15, <3>2, <4>1 DEF NamesRight
      <4>2. CASE h.mode # "X"
        BY <2>2, <4>2
      <4>3. QED
        BY <4>1, <4>2
    <3>6. QED
      BY <3>2, <3>3, <3>4, <3>5 DEF NamesRight
  <2>16. IF r.latest = None THEN r.lsn = 0
         ELSE r.latest \in r.edps /\ reform.held[r.latest][p].edp = r.lsn
    <3>1. CASE h.edp > e.lsn
      BY <1>1, <1>5, <2>2, <2>3, <3>1
    <3>2. CASE ~(h.edp > e.lsn)
      BY <2>2, <2>6, <3>2
    <3>3. QED
      BY <3>1, <3>2
  <2>17. Sums(r, p)
    BY <2>14, <2>15, <2>16 DEF Sums
  <2>18. QED
    BY <2>5, <2>12, <2>13, <2>17 DEF r
<1>8. QED
  BY <1>6, <1>7

(* When all have reported, the entry says who holds the page.              *)
LEMMA SumsSay ==
    ASSUME reform \in Reforms, NEW e \in Slots, NEW p \in Part, Sums(e, p),
           \A i \in Stay : Holds(i, p) => In(e, i)
    PROVE  Says(e, p)
<1>1. /\ None \notin Inst /\ Stay \subseteq Inst /\ Stay \cap Gone = {}
      /\ \A i \in Inst \ Gone : Holds(i, p) => i \in Stay
      /\ \A i \in Inst : reform.held[i][p].edp \in Nat /\ reform.held[i][p].mode \in {"N", "S", "X"}
  BY ReformFacts, ListFacts, RemasterAssumption DEF Stay, Gone
<1>2. \A i \in Inst : Holds(i, p) <=> reform.held[i][p].mode # "N" \/ reform.held[i][p].edp > 0
  BY DEF Holds
<1>3. Holders(p) \cup EdpHolders(p) \subseteq Stay /\ \A i \in Holders(p) \cup EdpHolders(p) : In(e, i)
  BY <1>1, <1>2 DEF Holders, EdpHolders
<1>4. CASE e = None
  <2>1. Holders(p) \cup EdpHolders(p) = {}
    BY <1>3, <1>4 DEF In
  <2>2. QED
    BY <1>4, <2>1 DEF Says
<1>5. CASE e # None
  <2>1. /\ e.owner \in Inst \cup {None} /\ e.copies \subseteq Inst /\ e.edps \subseteq Inst
        /\ (e.owner # None \/ e.copies \cup e.edps # {})
    BY <1>5 DEF Slots, Named, Entries
  <2>2. /\ \A i \in Inst : In(e, i) => NamesRight(e, i, p)
        /\ IF e.latest = None THEN e.lsn = 0
           ELSE e.latest \in e.edps /\ reform.held[e.latest][p].edp = e.lsn
    BY <1>5 DEF Sums
  <2>3. \A i \in Inst : In(e, i) <=> i \in e.copies \/ i \in e.edps \/ i = e.owner
    BY <1>5 DEF In
  <2>4. ASSUME NEW i \in Inst
        PROVE  /\ i \in e.copies \/ i = e.owner <=> i \in Holders(p)
               /\ i \in e.edps <=> i \in EdpHolders(p)
               /\ i \in Writers(p) => i = e.owner
    <3>1. CASE In(e, i)
      BY <1>1, <2>2, <2>3, <3>1 DEF NamesRight, Holders, EdpHolders, Writers
    <3>2. CASE ~In(e, i)
      BY <1>3, <2>3, <3>2 DEF Writers, Holders
    <3>3. QED
      BY <3>1, <3>2
  <2>5. e.edps = EdpHolders(p) /\ Writers(p) \subseteq {e.owner}
    BY <2>1, <2>4 DEF EdpHolders, Writers
  <2>6. e.copies \cup ({e.owner} \ {None}) = Holders(p)
    BY <1>1, <2>1, <2>4 DEF Holders
  <2>7. Holders(p) \cup EdpHolders(p) # {}
    BY <2>1, <2>5, <2>6
  <2>8. CASE e.latest = None
    <3>1. \A i \in e.edps : reform.held[i][p].edp > 0 /\ reform.held[i][p].edp <= 0 /\ reform.held[i][p].edp \in Nat
      BY <1>1, <2>1, <2>2, <2>3, <2>8 DEF NamesRight
    <3>2. EdpHolders(p) = {}
      <4>1. ASSUME NEW i \in e.edps PROVE FALSE
        <5>1. reform.held[i][p].edp > 0 /\ reform.held[i][p].edp <= 0 /\ reform.held[i][p].edp \in Nat
          BY <3>1
        <5>2. QED
          BY <5>1
      <4>2. QED
        BY <2>5, <4>1
    <3>3. QED
      BY <1>5, <2>5, <2>6, <2>7, <2>8, <3>2 DEF Says
  <2>9. CASE e.latest # None
    <3>1. e.latest \in EdpHolders(p)
      BY <2>2, <2>5, <2>9
    <3>2. \A i \in EdpHolders(p) : reform.held[i][p].edp <= reform.held[e.latest][p].edp
      BY <2>1, <2>2, <2>3, <2>5, <2>9 DEF NamesRight
    <3>3. QED
      BY <1>5, <2>5, <2>6, <2>7, <3>1, <3>2 DEF Says
  <2>10. QED
    BY <2>8, <2>9
<1>6. QED
  BY <1>4, <1>5

-----------------------------------------------------------------------------
(* What most steps leave as it is.                                         *)

(* The status of instance i moves on, of no other.                         *)
Move(i) ==
    /\ status' \in [Inst -> Statuses]
    /\ \A j \in Inst \ {i} : status'[j] = status[j]
    /\ \/ status'[i] = status[i]
       \/ status[i] = "IDLE" /\ status'[i] = "PREPARE" /\ i \in Alive
       \/ status[i] = "PREPARE" /\ status'[i] = "ASSIGN_TASK"
       \/ /\ status[i] = "ASSIGN_TASK" /\ status'[i] = "MIGRATE"
          /\ task'[i] = GoalTasks
          /\ i = Reformer => i \in assigned'
       \/ status[i] = "MIGRATE" /\ status'[i] = "RECOVERY" /\ i \in Stay
       \/ status[i] = "MIGRATE" /\ status'[i] = "PUBLISH" /\ i \notin Stay
       \/ status[i] = "RECOVERY" /\ status'[i] = "PUBLISH" /\ i \in sent /\ owed[i] = {}
       \/ status[i] = "PUBLISH" /\ status'[i] = "DONE"
       \/ status[i] = "DONE" /\ status'[i] = "ENDED"
       \/ status[i] \notin {"IDLE", "ENDED", "STOPPED"} /\ status'[i] = "FAIL"
       \/ status[i] = "FAIL" /\ status'[i] = "STOPPED" /\ (i = Reformer => map'[i] = reform.map)

(* What a step that moves one status keeps of the rest.                    *)
MovesAlone(i) ==
    /\ UNCHANGED <<reform, target>>
    /\ \A j \in Inst : \/ task'[j] = task[j]
                       \/ j # Reformer /\ task'[j] = GoalTasks
                       \/ status'[j] \notin Moving /\ assign' = Idle
                       \/ status'[j] \notin Moving /\ j # Reformer
    /\ \A j \in Inst : map'[j] = map[j] \/ (j \in Stay /\ map'[j] = reform.map)
    /\ assigned \subseteq assigned'
    /\ assign' = Idle \/ (assign # Idle)
    /\ pub' = pub \/ pub' = Quiet
    /\ sent \subseteq sent' /\ sent' \subseteq Stay
    /\ \A j \in Inst : owed'[j] \subseteq owed[j] \/ status'[j] \notin Through
    /\ \A j \in Inst : drm'[j] = "PUBLISH" => drm[j] = "PUBLISH" \/ status'[j] \in Past
    /\ \A m \in net' : \/ m \in net
                       \/ /\ m.type \notin {"target", "done", "task"}
                          /\ m.type = "done_task" => m.src = i /\ status'[i] \in Past

LEMMA MoveFlow ==
    ASSUME TInv, PInv, Flow, NEW i \in Inst, Move(i), MovesAlone(i)
    PROVE  Flow'
<1>1. /\ reform \in Reforms /\ Reformer \in Inst /\ Alive \subseteq Inst /\ Stay \subseteq Inst
      /\ Stay \subseteq Alive /\ reform.before \subseteq Inst /\ Stay \subseteq reform.before
      /\ status \in [Inst -> Statuses]
  BY ReformFacts, ListFacts DEF TInv, Protocol
<1>2. reform' = reform /\ target' = target
  BY DEF MovesAlone
<1>3. Reformer' = Reformer /\ Alive' = Alive /\ Stay' = Stay /\ GoalTasks' = GoalTasks
  BY <1>2, Unmoved
<1>4. \A j \in Inst : status[j] \in Past => status'[j] \in Past
  BY DEF Move, Past, Through
<1>5. Members'
  BY <1>1, <1>3 DEF Flow, Members, Move, MovesAlone, Statuses, Working
<1>6. Heard'
  <2>1. \A m \in net : m.src \in Inst
    BY DEF TInv, Messages, Msg
  <2>2. \A m \in net' : m.type = "done_task" => status'[m.src] \in Past
    BY <1>4, <2>1 DEF Flow, Heard, MovesAlone
  <2>3. \A j \in Inst : drm'[j] = "PUBLISH" => status'[j] \in Past
    BY <1>4 DEF Flow, Heard, MovesAlone
  <2>4. pub'.step # "none" => pub.step # "none"
    BY DEF MovesAlone, Quiet
  <2>5. (\E m \in net' : m.type \in {"target", "done"}) => \E m \in net : m.type \in {"target", "done"}
    BY DEF MovesAlone
  <2>6. (pub'.step # "none" \/ \E m \in net' : m.type \in {"target", "done"}) =>
            \A j \in Alive : status'[j] \in Past
    BY <1>1, <1>4, <2>4, <2>5 DEF Flow, Heard
  <2>7. QED
    BY <1>3, <2>2, <2>3, <2>6 DEF Heard
<1>7. OldMaps'
  <2>1. \A j \in reform.before : status'[j] \notin Past => map'[j] = reform.map
    BY <1>1, <1>4 DEF Flow, OldMaps, MovesAlone
  <2>2. pub'.step # "none" => pub.step # "none"
    BY DEF MovesAlone, Quiet
  <2>3. status'[Reformer] \in Moving \cup {"ENDED"} =>
            status[Reformer] \in Moving \cup {"ENDED"} \/ Reformer \in assigned'
    BY <1>1 DEF Move, Moving
  <2>4. pub'.step # "none" \/ status'[Reformer] \in Moving \cup {"ENDED"} => Reformer \in assigned'
    BY <2>2, <2>3 DEF Flow, OldMaps, MovesAlone
  <2>5. Reformer \notin assigned' \/ status'[Reformer] = "STOPPED" => map'[Reformer] = reform.map
    BY <1>1 DEF Flow, OldMaps, MovesAlone, Move
  <2>6. QED
    BY <1>2, <1>3, <2>1, <2>4, <2>5 DEF OldMaps
<1>8. GivenOut'
  <2>1. assign' # Idle => map'[Reformer] = reform.map /\ pub'.step = "none" /\ task'[Reformer] = GoalTasks
    <3>1. assign' # Idle => assign # Idle
      BY DEF MovesAlone
    <3>2. assign' # Idle => task'[Reformer] = GoalTasks
      BY <1>1, <3>1 DEF Flow, GivenOut, MovesAlone
    <3>3. assign' # Idle => map'[Reformer] = reform.map /\ pub'.step = "none"
      BY <1>1, <3>1 DEF Flow, GivenOut, MovesAlone, Quiet
    <3>4. QED
      BY <3>2, <3>3
  <2>2. \A m \in net' : m.type = "task" => m.tasks = GoalTasks
    BY DEF Flow, GivenOut, MovesAlone
  <2>3. ASSUME NEW j \in Inst, status'[j] \in Moving PROVE task'[j] = GoalTasks
    <3>1. status[j] \in Moving \/ task'[j] = GoalTasks
      BY <2>3 DEF Move, Moving
    <3>2. QED
      BY <2>3, <3>1 DEF Flow, GivenOut, MovesAlone
  <2>4. QED
    BY <1>2, <1>3, <2>1, <2>2, <2>3, Unmoved DEF GivenOut, Idle
<1>9. Answered'
  <2>1. ASSUME NEW j \in Stay, status'[j] \in Through PROVE j \in sent' /\ owed'[j] = {}
    <3>1. status[j] \in Through \/ (j = i /\ status[j] = "RECOVERY" /\ j \in sent /\ owed[j] = {})
      BY <1>1, <2>1 DEF Move, Through
    <3>2. CASE status[j] \in Through
      BY <1>1, <2>1, <3>2 DEF Flow, Answered, MovesAlone
    <3>3. CASE j = i /\ status[j] = "RECOVERY" /\ j \in sent /\ owed[j] = {}
      BY <1>1, <2>1, <3>3 DEF MovesAlone
    <3>4. QED
      BY <3>1, <3>2, <3>3
  <2>2. QED
    BY <1>3, <2>1 DEF Answered
<1>10. QED
  BY <1>5, <1>6, <1>7, <1>8, <1>9 DEF Flow

LEMMA BeginsStays ==
    ASSUME Begins, reform' = reform, target' = target, NotBegun => NotBegun',
           status'[Reformer] \in Early /\ assign' = Idle => status[Reformer] \in Early /\ assign = Idle
    PROVE  Begins'
<1>1. Reformer' = Reformer /\ (Fits' <=> Fits)
  BY Unmoved
<1>2. QED
  BY <1>1 DEF Begins, Idle, Early

(* The stations of an entry that these statuses tell apart.                *)
SameStation(j) ==
    \/ status'[j] = status[j]
    \/ status[j] \in Early \cup {"MIGRATE"} /\ status'[j] \in Early \cup {"MIGRATE"}
    \/ /\ status[j] \in {"RECOVERY", "PUBLISH", "DONE"} /\ status'[j] \in {"PUBLISH", "DONE"}
       /\ status[j] = "RECOVERY" => j \in Stay
    \/ status[j] # "ENDED" /\ status'[j] \in {"FAIL", "STOPPED"}

LEMMA KeptStays ==
    ASSUME TInv, Kept, reform' = reform, target' = target, due' = due,
           \A j \in Inst, p \in Part : ~Lost(p) => dir'[j][p] = dir[j][p],
           \A m \in net' : m \in net \/ m.type \notin {"data", "end"},
           \A j \in Inst : SameStation(j)
    PROVE  Kept'
<1>1. /\ reform \in Reforms /\ \A p \in Part : reform.map[p] \in Inst
      /\ Stay \cap reform.join = {} /\ status \in [Inst -> Statuses]
  BY ReformFacts, ListFacts DEF TInv, Protocol, Maps
<1>2. /\ Goal' = Goal /\ Stay' = Stay
      /\ \A p : /\ First(p)' = First(p) /\ Clean(p)' = Clean(p) /\ Partly(p)' = Partly(p)
                /\ Lost(p)' <=> Lost(p)
  BY Unmoved
<1>3. ASSUME NEW p \in Part, ~Lost(p) PROVE KeptAt(reform.map[p], p)'
  <2> DEFINE m == reform.map[p]
  <2>1. m \in Inst /\ m' = m /\ dir'[m][p] = dir[m][p] /\ SameStation(m) /\ KeptAt(m, p)
        /\ status[m] \in Statuses
    BY <1>1, <1>3 DEF Kept
  <2> HIDE DEF m
  <2>2. KeptAt(m, p)'
    BY <1>2, <2>1, InPartly DEF KeptAt, SameStation, Early, Statuses, Working
  <2>3. QED
    BY <2>1, <2>2 DEF KeptAt, m
<1>4. ASSUME NEW p \in Part, ~Lost(p), NEW j \in Inst \ {reform.map[p]} PROVE CameTo(j, p)'
  <2>1. dir'[j][p] = dir[j][p] /\ SameStation(j) /\ CameTo(j, p)
    BY <1>4 DEF Kept
  <2>2. j \in reform.join /\ status'[j] \in Through => status[j] \in Through
    BY <1>1, <2>1 DEF SameStation, Through, Early
  <2>3. QED
    BY <1>2, <2>1, <2>2 DEF CameTo
<1>5. \A m \in net' : Carries(m)'
  BY <1>2 DEF Kept, Carries
<1>6. \A j \in Inst, p \in Part : due'[j][p] # -1 => ~Lost(p) /\ j = Goal[p] /\ due'[j][p] = Count(Clean(p))
  BY DEF Kept
<1>7. \A p : Count(Clean(p))' = Count(Clean(p))
  BY <1>2 DEF Count
<1>8. QED
  BY <1>2, <1>3, <1>4, <1>5, <1>6, <1>7 DEF Kept

LEMMA RebuildingStays ==
    ASSUME TInv, Flow, Rebuilding, reform' = reform, target' = target, sent' = sent, owed' = owed,
           \A j \in Alive, p \in Part : Lost(p) => dir'[j][p] = dir[j][p],
           \A m \in net' : m \in net \/ m.type \notin {"report", "report_ack"},
           \A j \in Inst : status[j] = "STOPPED" => status'[j] = "STOPPED",
           \A j \in Inst : status[j] = "FAIL" => status'[j] \in {"FAIL", "STOPPED"}
    PROVE  Rebuilding'
<1>1. /\ Alive' = Alive /\ Stay' = Stay /\ \A p : Lost(p)' <=> Lost(p)
      /\ \A i, p : Owes(i, p)' <=> Owes(i, p)
      /\ \A e, p : Sums(e, p)' <=> Sums(e, p)
  BY Unmoved
<1>2. Alive \subseteq Inst /\ sent \subseteq Inst /\ \A i : Reporter(i) => Reporter(i)'
  <2>1. Alive \subseteq Inst /\ sent \subseteq Inst /\ Stay \subseteq Inst
    BY ReformFacts, ListFacts DEF TInv, Protocol
  <2>2. QED
    BY <1>1, <2>1 DEF Reporter
<1>3. \A i \in Alive, p \in Part : Lost(p) =>
          /\ Sums(dir'[i][p], p)
          /\ dir'[i][p] # None => \E j \in Stay : Owes(j, p) /\ target[j][p] = i
  BY DEF Rebuilding
<1>4. ASSUME NEW i \in sent, NEW p \in Part, Owes(i, p)
      PROVE  /\ target[i][p] \in Alive
             /\ \/ status'[target[i][p]] = "STOPPED"
                \/ In(dir'[target[i][p]][p], i)
                \/ AckDue(i, target[i][p])'
  <2>1. target[i][p] \in Alive /\ Lost(p)
    BY <1>4 DEF Rebuilding, Owes
  <2>2. dir'[target[i][p]][p] = dir[target[i][p]][p]
    BY <2>1
  <2>3. AckDue(i, target[i][p]) => AckDue(i, target[i][p])'
    BY DEF AckDue
  <2>4. QED
    BY <1>2, <1>4, <2>1, <2>2, <2>3 DEF Rebuilding
<1>5. \A m \in net' : m.type = "report" =>
          /\ Reporter(m.src)'
          /\ \A p \in m.parts : p \in Part /\ Owes(m.src, p) /\ target[m.src][p] = m.dst
          /\ m.src \in sent => \A p \in Part : Owes(m.src, p) /\ target[m.src][p] = m.dst => p \in m.parts
  BY <1>2 DEF Rebuilding
<1>6. \A m \in net' : m.type = "report_ack" => Reporter(m.dst)'
  BY <1>2 DEF Rebuilding
<1>7. QED
  BY <1>1, <1>3, <1>4, <1>5, <1>6 DEF Rebuilding, In

LEMMA FreedStays ==
    ASSUME TInv, Freed, reform' = reform, target' = target,
           status'[Reformer] = "STOPPED" =>
               status[Reformer] = "STOPPED" /\ dir'[Reformer] = dir[Reformer]
               /\ (Reformer \in assigned' => Reformer \in assigned)
    PROVE  Freed'
<1>1. /\ Reformer' = Reformer /\ Stay' = Stay /\ Goal' = Goal /\ \A p : Lost(p)' <=> Lost(p)
      /\ \A i, p : Owes(i, p)' <=> Owes(i, p)
  BY Unmoved
<1>2. QED
  BY <1>1 DEF Freed

(* A step that moves a status within its station touches no entry.         *)
LEMMA MoveEntries ==
    ASSUME TInv, PInv, EInv, NEW i \in Inst, Move(i), MovesAlone(i), UNCHANGED <<dir, due, sent, owed>>,
           \A j \in Inst : SameStation(j),
           \A m \in net' : m \in net \/ m.type \in {"notify", "done_task", "task_ack", "ack"},
           NotBegun => NotBegun',
           status'[Reformer] \in Early /\ assign' = Idle => status[Reformer] \in Early /\ assign = Idle,
           status'[Reformer] = "STOPPED" =>
               status[Reformer] = "STOPPED" /\ (Reformer \in assigned' => Reformer \in assigned)
    PROVE  EInv'
<1>1. Begins /\ Flow /\ Kept /\ Rebuilding /\ Freed
  BY DEF EInv
<1>2. reform' = reform /\ target' = target /\ dir' = dir /\ due' = due /\ sent' = sent /\ owed' = owed
  BY DEF MovesAlone
<1>3. Begins'
  BY <1>1, <1>2, BeginsStays
<1>4. Flow'
  BY <1>1, MoveFlow
<1>5. Kept'
  BY <1>1, <1>2, KeptStays
<1>6. \A j \in Inst : /\ status[j] = "STOPPED" => status'[j] = "STOPPED"
                      /\ status[j] = "FAIL" => status'[j] \in {"FAIL", "STOPPED"}
  BY DEF SameStation, Early, Move
<1>7. Rebuilding'
  BY <1>1, <1>2, <1>6, RebuildingStays
<1>8. Freed'
  BY <1>1, <1>2, FreedStays
<1>9. QED
  BY <1>3, <1>4, <1>5, <1>7, <1>8 DEF EInv

(* The facts about the instances that the steps below use.                 *)
LEMMA StepFacts ==
    ASSUME TInv, PInv, EInv
    PROVE  /\ reform \in Reforms /\ Reformer \in Inst /\ Reformer \in Stay /\ Reformer \notin Others
           /\ Stay \subseteq Inst /\ Others \subseteq Inst /\ Stay \subseteq Alive /\ Alive \subseteq Inst
           /\ Alive = Others \cup {Reformer}
           /\ status \in [Inst -> Statuses] /\ task \in [Inst -> SUBSET TaskRec]
           /\ map \in [Inst -> Maps] /\ owed \in [Inst -> SUBSET Inst] /\ drm \in [Inst -> Statuses]
           /\ assign \in [left : SUBSET Others, awaits : Inst \cup {None}] /\ None \notin Inst
           /\ Begins /\ Flow /\ Kept /\ Rebuilding /\ Freed /\ Steps
           /\ sent \subseteq Stay
BY ReformFacts, ListFacts, RemasterAssumption DEF TInv, Protocol, EInv, Flow, Members, PInv

-----------------------------------------------------------------------------
(* The steps.                                                              *)

LEMMA StartEntries ==
    ASSUME TInv, PInv, EInv, NEW i \in Inst, Start(i)
    PROVE  EInv'
<1>1. reform' = reform /\ target' = target /\ Reformer \in Inst /\ status \in [Inst -> Statuses] /\ sent \subseteq Stay
  BY StepFacts DEF Start
<1>2. /\ i \in Alive /\ status[i] = "IDLE" /\ status'[i] = "PREPARE"
      /\ \A j \in Inst \ {i} : status'[j] = status[j]
      /\ UNCHANGED <<map, dir, task, assigned, due, drm, assign, sent, owed, pub, net>>
  BY <1>1 DEF Start
<1>3. status' \in [Inst -> Statuses]
  BY <1>1 DEF Start, Statuses, Working
<1>4. Move(i)
  BY <1>2, <1>3 DEF Move
<1>5. MovesAlone(i)
  BY <1>1, <1>2 DEF MovesAlone
<1>6. \A j \in Inst : SameStation(j)
  BY <1>2 DEF SameStation, Early
<1>7. NotBegun => NotBegun'
  <2>1. \A j \in Inst : status[j] \in Early \cup {"FAIL", "STOPPED"} => status'[j] \in Early \cup {"FAIL", "STOPPED"}
    BY <1>2 DEF Early
  <2>2. QED
    BY <1>1, <1>2, <2>1, Unmoved DEF NotBegun, Idle, Quiet, Early
<1>8. QED
  BY <1>1, <1>2, <1>4, <1>5, <1>6, <1>7, MoveEntries DEF Early

LEMMA PrepareEntries ==
    ASSUME TInv, PInv, EInv, NEW i \in Inst, Prepare(i)
    PROVE  EInv'
<1>1. reform' = reform /\ target' = target /\ Reformer \in Inst /\ status \in [Inst -> Statuses] /\ sent \subseteq Stay
      /\ drm \in [Inst -> Statuses]
  BY StepFacts DEF Prepare
<1>2. /\ status[i] = "PREPARE" /\ status'[i] \in {"ASSIGN_TASK", "FAIL"}
      /\ \A j \in Inst \ {i} : status'[j] = status[j]
      /\ UNCHANGED <<map, dir, task, assigned, due, assign, sent, owed, pub>>
      /\ status' \in [Inst -> Statuses]
  BY <1>1 DEF Prepare, Fail, NewStatus, Statuses, Working
<1>3. \A m \in net' : m \in net \/ m.type = "notify"
  BY DEF Prepare, Fail, FailNotice
<1>4. \A j \in Inst : drm'[j] = "PUBLISH" => drm[j] = "PUBLISH"
  BY <1>1 DEF Prepare
<1>5. Move(i)
  BY <1>2 DEF Move
<1>6. MovesAlone(i)
  BY <1>1, <1>2, <1>3, <1>4 DEF MovesAlone
<1>7. \A j \in Inst : SameStation(j)
  BY <1>2 DEF SameStation, Early
<1>8. NotBegun => NotBegun'
  <2>1. \A j \in Inst : status[j] \in Early \cup {"FAIL", "STOPPED"} => status'[j] \in Early \cup {"FAIL", "STOPPED"}
    BY <1>2 DEF Early
  <2>2. QED
    BY <1>1, <1>2, <1>3, <2>1, Unmoved DEF NotBegun, Idle, Quiet, Early
<1>9. QED
  BY <1>1, <1>2, <1>3, <1>5, <1>6, <1>7, <1>8, MoveEntries DEF Early

LEMMA HandleNotifyEntries ==
    ASSUME TInv, PInv, EInv, NEW m \in net, HandleNotify(m)
    PROVE  EInv'
<1>1. reform' = reform /\ target' = target /\ Reformer \in Inst /\ status \in [Inst -> Statuses] /\ sent \subseteq Stay
      /\ drm \in [Inst -> Statuses]
  BY StepFacts DEF HandleNotify
<1>2. m.src \in Inst /\ m.status \in {"ASSIGN_TASK", "FAIL"}
  BY DEF TInv, Messages, Msg, HandleNotify
<1>3. /\ \/ status' = status
         \/ /\ status[Reformer] \in Working \cup {"DONE"} /\ status'[Reformer] = "FAIL"
            /\ \A j \in Inst \ {Reformer} : status'[j] = status[j]
      /\ UNCHANGED <<map, dir, task, assigned, due, assign, sent, owed, pub>>
      /\ status' \in [Inst -> Statuses]
  BY <1>1 DEF HandleNotify, NewStatus, Statuses, Working
<1>4. net' \subseteq net
  BY DEF HandleNotify
<1>5. \A j \in Inst : drm'[j] = "PUBLISH" => drm[j] = "PUBLISH"
  BY <1>1, <1>2 DEF HandleNotify
<1>6. Move(Reformer)
  BY <1>1, <1>3 DEF Move, Working
<1>7. MovesAlone(Reformer)
  BY <1>1, <1>3, <1>4, <1>5 DEF MovesAlone
<1>8. \A j \in Inst : SameStation(j)
  BY <1>3 DEF SameStation, Working
<1>9. NotBegun => NotBegun'
  <2>1. \A j \in Inst : status[j] \in Early \cup {"FAIL", "STOPPED"} => status'[j] \in Early \cup {"FAIL", "STOPPED"}
    BY <1>3 DEF Early
  <2>2. QED
    BY <1>1, <1>3, <1>4, <2>1, Unmoved DEF NotBegun, Idle, Quiet, Early
<1>10. QED
  BY <1>1, <1>3, <1>4, <1>6, <1>7, <1>8, <1>9, MoveEntries DEF Early

LEMMA HandleTaskAckEntries ==
    ASSUME TInv, PInv, EInv, NEW m \in net, HandleTaskAck(m)
    PROVE  EInv'
<1>1. /\ reform' = reform /\ target' = target /\ Reformer \in Inst /\ status \in [Inst -> Statuses]
      /\ sent \subseteq Stay /\ Flow /\ Steps /\ None \notin Inst
      /\ assign \in [left : SUBSET Others, awaits : Inst \cup {None}]
  BY StepFacts DEF HandleTaskAck
<1>2. m.src \in Inst /\ m.type = "task_ack"
  BY DEF TInv, Messages, Msg, HandleTaskAck
<1>3. UNCHANGED <<map, dir, task, due, drm, sent, owed, pub>> /\ net' \subseteq net
  BY DEF HandleTaskAck
<1>4. ~NotBegun
  BY <1>2 DEF NotBegun
<1>5. CASE m.src # assign.awaits
  <2>1. UNCHANGED <<assign, assigned, status>>
    BY <1>5 DEF HandleTaskAck
  <2>2. Move(Reformer)
    BY <1>1, <2>1 DEF Move
  <2>3. MovesAlone(Reformer)
    BY <1>1, <1>3, <2>1 DEF MovesAlone
  <2>4. \A j \in Inst : SameStation(j)
    BY <2>1 DEF SameStation
  <2>5. QED
    BY <1>1, <1>3, <1>4, <2>1, <2>2, <2>3, <2>4, MoveEntries
<1>6. CASE m.src = assign.awaits
  <2>1. assign # Idle /\ assign'.left = assign.left /\ assign'.awaits = None
    BY <1>1, <1>2, <1>6 DEF HandleTaskAck, Idle
  <2>2. status[Reformer] \in {"ASSIGN_TASK", "FAIL"} /\ task[Reformer] = GoalTasks
    BY <1>1, <2>1 DEF Steps, Flow, GivenOut
  <2>3. CASE assign.left = {}
    <3>1. /\ status'[Reformer] = IF status[Reformer] = "FAIL" THEN "FAIL" ELSE "MIGRATE"
          /\ \A j \in Inst \ {Reformer} : status'[j] = status[j]
          /\ assigned' = assigned \cup {Reformer} /\ status' \in [Inst -> Statuses]
      BY <1>1, <1>6, <2>3 DEF HandleTaskAck, NewStatus, Statuses, Working
    <3>2. Move(Reformer)
      BY <1>1, <1>3, <2>2, <3>1 DEF Move
    <3>3. MovesAlone(Reformer)
      BY <1>1, <1>3, <2>1, <3>1 DEF MovesAlone
    <3>4. \A j \in Inst : SameStation(j)
      BY <2>2, <3>1 DEF SameStation, Early
    <3>5. QED
      BY <1>1, <1>3, <1>4, <2>2, <3>1, <3>2, <3>3, <3>4, MoveEntries DEF Early
  <2>4. CASE assign.left # {}
    <3>1. UNCHANGED <<assigned, status>> /\ assign' # Idle
      BY <1>6, <2>1, <2>4 DEF HandleTaskAck, Idle
    <3>2. Move(Reformer)
      BY <1>1, <3>1 DEF Move
    <3>3. MovesAlone(Reformer)
      BY <1>1, <1>3, <2>1, <3>1 DEF MovesAlone
    <3>4. \A j \in Inst : SameStation(j)
      BY <3>1 DEF SameStation
    <3>5. QED
      BY <1>1, <1>3, <1>4, <3>1, <3>2, <3>3, <3>4, MoveEntries
  <2>5. QED
    BY <2>3, <2>4
<1>7. QED
  BY <1>5, <1>6

LEMMA GiveUpEntries ==
    ASSUME TInv, PInv, EInv, GiveUp
    PROVE  EInv'
<1>1. reform' = reform /\ target' = target /\ Reformer \in Inst /\ status \in [Inst -> Statuses] /\ sent \subseteq Stay
      /\ Steps
  BY StepFacts DEF GiveUp
<1>2. status[Reformer] \in {"ASSIGN_TASK", "PUBLISH", "FAIL"}
  BY <1>1 DEF GiveUp, Steps, Quiet
<1>3. /\ status'[Reformer] = "FAIL" /\ \A j \in Inst \ {Reformer} : status'[j] = status[j]
      /\ status' \in [Inst -> Statuses]
      /\ UNCHANGED <<map, dir, task, assigned, due, drm, sent, owed, net>>
      /\ assign' = Idle /\ pub' = Quiet
  BY <1>1 DEF GiveUp, NewStatus, Statuses, Working
<1>4. Move(Reformer)
  BY <1>2, <1>3 DEF Move
<1>5. MovesAlone(Reformer)
  BY <1>1, <1>3 DEF MovesAlone
<1>6. \A j \in Inst : SameStation(j)
  BY <1>2, <1>3 DEF SameStation
<1>7. NotBegun => NotBegun'
  <2>1. \A j \in Inst : status[j] \in Early \cup {"FAIL", "STOPPED"} => status'[j] \in Early \cup {"FAIL", "STOPPED"}
    BY <1>3 DEF Early
  <2>2. QED
    BY <1>1, <1>3, <2>1, Unmoved DEF NotBegun, Idle, Quiet, Early
<1>8. QED
  BY <1>1, <1>3, <1>4, <1>5, <1>6, <1>7, MoveEntries DEF Early

LEMMA HandleTaskEntries ==
    ASSUME TInv, PInv, EInv, NEW m \in net, HandleTask(m)
    PROVE  EInv'
<1>1. /\ reform' = reform /\ target' = target /\ Reformer \in Inst /\ status \in [Inst -> Statuses]
      /\ sent \subseteq Stay /\ Flow /\ task \in [Inst -> SUBSET TaskRec] /\ Reformer \notin Others
      /\ Others \subseteq Inst
  BY StepFacts DEF HandleTask
<1>2. m.dst \in Inst /\ m.dst # Reformer /\ m.type = "task" /\ m.tasks = GoalTasks
  BY <1>1 DEF TInv, Messages, Msg, HandleTask, Flow, GivenOut
<1>3. /\ UNCHANGED <<map, dir, assigned, due, drm, assign, sent, owed, pub>>
      /\ \A n \in net' : n \in net \/ n.type = "task_ack"
  BY DEF HandleTask
<1>4. \/ UNCHANGED <<status, task>>
      \/ /\ status[m.dst] = "ASSIGN_TASK" /\ status'[m.dst] = "MIGRATE" /\ task'[m.dst] = GoalTasks
         /\ status' \in [Inst -> Statuses]
         /\ \A j \in Inst \ {m.dst} : status'[j] = status[j] /\ task'[j] = task[j]
  BY <1>1, <1>2 DEF HandleTask, NewStatus, Statuses, Working
<1>5. ~NotBegun
  BY <1>2 DEF NotBegun
<1>6. Move(m.dst)
  BY <1>1, <1>2, <1>4 DEF Move
<1>7. MovesAlone(m.dst)
  BY <1>1, <1>2, <1>3, <1>4 DEF MovesAlone
<1>8. \A j \in Inst : SameStation(j)
  BY <1>4 DEF SameStation, Early
<1>9. status'[Reformer] = status[Reformer]
  BY <1>1, <1>2, <1>4
<1>10. QED
  BY <1>1, <1>2, <1>3, <1>5, <1>6, <1>7, <1>8, <1>9, MoveEntries

LEMMA RecoveredEntries ==
    ASSUME TInv, PInv, EInv, NEW i \in Inst, Recovered(i)
    PROVE  EInv'
<1>1. reform' = reform /\ target' = target /\ Reformer \in Inst /\ status \in [Inst -> Statuses] /\ sent \subseteq Stay
      /\ drm \in [Inst -> Statuses]
  BY StepFacts DEF Recovered
<1>2. /\ status[i] = "RECOVERY" /\ i \in sent
      /\ status'[i] = "FAIL" \/ (status'[i] = "PUBLISH" /\ owed[i] = {})
      /\ \A j \in Inst \ {i} : status'[j] = status[j]
      /\ UNCHANGED <<map, dir, task, assigned, due, assign, sent, owed, pub>>
      /\ status' \in [Inst -> Statuses]
  BY <1>1 DEF Recovered, Acknowledged, Fail, NewStatus, Statuses, Working
<1>3. \A m \in net' : m \in net \/ m.type = "notify" \/ (m.type = "done_task" /\ m.src = i /\ status'[i] = "PUBLISH")
  BY <1>1 DEF Recovered, Fail, FailNotice, TaskDone, NewStatus
<1>4. \A j \in Inst : drm'[j] = "PUBLISH" => drm[j] = "PUBLISH" \/ status'[j] \in Past
  BY <1>1, <1>2 DEF Recovered, NewStatus, Past, Through
<1>5. Move(i)
  BY <1>2 DEF Move
<1>6. MovesAlone(i)
  BY <1>1, <1>2, <1>3, <1>4 DEF MovesAlone, Past, Through
<1>7. \A j \in Inst : SameStation(j)
  BY <1>1, <1>2 DEF SameStation
<1>8. ~NotBegun
  BY <1>2 DEF NotBegun
<1>9. QED
  BY <1>1, <1>2, <1>3, <1>5, <1>6, <1>7, <1>8, MoveEntries DEF Early

LEMMA PublishedEntries ==
    ASSUME TInv, PInv, EInv, Published
    PROVE  EInv'
<1>1. reform' = reform /\ target' = target /\ Reformer \in Inst /\ status \in [Inst -> Statuses] /\ sent \subseteq Stay
      /\ Steps
  BY StepFacts DEF Published
<1>2. status[Reformer] \in {"PUBLISH", "FAIL"}
  BY <1>1 DEF Published, Steps
<1>3. /\ status'[Reformer] = IF status[Reformer] = "FAIL" THEN "FAIL" ELSE "DONE"
      /\ \A j \in Inst \ {Reformer} : status'[j] = status[j]
      /\ status' \in [Inst -> Statuses]
      /\ UNCHANGED <<map, dir, task, assigned, due, drm, assign, sent, owed, net>> /\ pub' = Quiet
  BY <1>1 DEF Published, NewStatus, Statuses, Working
<1>4. Move(Reformer)
  BY <1>2, <1>3 DEF Move
<1>5. MovesAlone(Reformer)
  BY <1>1, <1>3 DEF MovesAlone
<1>6. \A j \in Inst : SameStation(j)
  BY <1>2, <1>3 DEF SameStation
<1>7. ~NotBegun
  BY DEF NotBegun, Published, Quiet
<1>8. QED
  BY <1>1, <1>2, <1>3, <1>4, <1>5, <1>6, <1>7, MoveEntries DEF Early

LEMMA HandleDoneEntries ==
    ASSUME TInv, PInv, EInv, NEW m \in net, HandleDone(m)
    PROVE  EInv'
<1>1. /\ reform' = reform /\ target' = target /\ Reformer \in Inst /\ status \in [Inst -> Statuses]
      /\ sent \subseteq Stay /\ Reformer \notin Others /\ Others \subseteq Inst
  BY StepFacts DEF HandleDone
<1>2. m.dst \in Others /\ m.type = "done"
  BY DEF TInv, Messages, Msg, HandleDone
<1>3. /\ UNCHANGED <<map, dir, task, assigned, due, drm, assign, sent, owed, pub>>
      /\ \A n \in net' : n \in net \/ n.type = "ack"
  BY DEF HandleDone, Ack
<1>4. \/ status' = status
      \/ /\ status[m.dst] = "PUBLISH" /\ status'[m.dst] = "DONE"
         /\ status' \in [Inst -> Statuses]
         /\ \A j \in Inst \ {m.dst} : status'[j] = status[j]
  BY <1>1, <1>2 DEF HandleDone, NewStatus, Statuses
<1>5. ~NotBegun
  BY <1>2 DEF NotBegun
<1>6. Move(m.dst)
  BY <1>1, <1>2, <1>4 DEF Move
<1>7. MovesAlone(m.dst)
  BY <1>1, <1>3 DEF MovesAlone
<1>8. \A j \in Inst : SameStation(j)
  BY <1>4 DEF SameStation
<1>9. status'[Reformer] = status[Reformer]
  BY <1>1, <1>2, <1>4
<1>10. QED
  BY <1>1, <1>2, <1>3, <1>5, <1>6, <1>7, <1>8, <1>9, MoveEntries

(* The two messages that only the reformer counts.                         *)
LEMMA HandleTaskDoneEntries ==
    ASSUME TInv, PInv, EInv, NEW m \in net, HandleTaskDone(m) \/ HandleAck(m)
    PROVE  EInv'
<1>1. /\ reform' = reform /\ target' = target /\ Reformer \in Inst /\ status \in [Inst -> Statuses]
      /\ sent \subseteq Stay /\ Flow /\ Steps /\ drm \in [Inst -> Statuses]
      /\ m.src \in Inst /\ m.type \in {"done_task", "ack"}
  BY StepFacts DEF HandleTaskDone, HandleAck, TInv, Messages, Msg
<1>2. /\ UNCHANGED <<status, map, dir, task, assigned, due, assign, sent, owed>>
      /\ net' \subseteq net
  BY DEF HandleTaskDone, HandleAck
<1>3. \A j \in Inst : drm'[j] = "PUBLISH" => drm[j] = "PUBLISH" \/ status'[j] \in Past
  BY <1>1, <1>2 DEF HandleTaskDone, HandleAck, Flow, Heard
<1>4. ~NotBegun
  BY <1>1 DEF NotBegun
<1>5. Move(Reformer)
  BY <1>1, <1>2 DEF Move
<1>6. \A j \in Inst : SameStation(j)
  BY <1>2 DEF SameStation
<1>7. CASE pub' = pub
  <2>1. MovesAlone(Reformer)
    BY <1>1, <1>2, <1>3, <1>7 DEF MovesAlone
  <2>2. QED
    BY <1>1, <1>2, <1>4, <1>5, <1>6, <2>1, MoveEntries
<1>8. CASE pub' # pub
  <2>1. pub.step \in {"target", "done"} /\ pub'.step = pub.step /\ m.type = "ack" /\ drm' = drm
    BY <1>8 DEF HandleTaskDone, HandleAck, CountsFor, TInv, Protocol, Messages, Msg
  <2>2. assign = Idle
    BY <1>1, <2>1 DEF Flow, GivenOut
  <2>3. Flow'
    BY <1>1, <1>2, <2>1, Unmoved DEF Flow, Members, Heard, OldMaps, GivenOut, Answered, Idle
  <2>4. Kept'
    BY <1>1, <1>2, <1>6, StepFacts, KeptStays
  <2>5. Rebuilding'
    BY <1>1, <1>2, StepFacts, RebuildingStays
  <2>6. Begins' /\ Freed'
    BY <1>1, <1>2, <1>4, StepFacts, BeginsStays, FreedStays
  <2>7. QED
    BY <2>3, <2>4, <2>5, <2>6 DEF EInv
<1>9. QED
  BY <1>7, <1>8

(* drc_execute_remaster makes the map: what was begun before is nothing.   *)
LEMMA ExecuteEntries ==
    ASSUME TInv, PInv, EInv, Execute
    PROVE  EInv'
<1>1. /\ reform \in Reforms /\ reform' = reform /\ Reformer \in Inst /\ Reformer \in Stay
      /\ Stay \subseteq reform.before /\ Stay \subseteq Inst /\ Alive \subseteq Inst
      /\ status \in [Inst -> Statuses] /\ task \in [Inst -> SUBSET TaskRec]
      /\ target \in [Inst -> Maps] /\ Begins /\ Flow /\ Steps
      /\ Alive \cap reform.abort = {} /\ reform.before \subseteq Inst
      /\ \A p \in Part : reform.map[p] \in reform.before
  BY StepFacts, ListFacts, ReformFacts DEF Execute, TInv, Protocol
<1>2. NotBegun /\ status[Reformer] = "ASSIGN_TASK"
  BY <1>1 DEF Execute, Begins, Early
<1>3. /\ Reformer' = Reformer /\ Alive' = Alive /\ After' = After /\ Stay' = Stay /\ Others' = Others
      /\ Gone' = Gone
      /\ \A p : /\ First(p)' = First(p) /\ Clean(p)' = Clean(p) /\ Partly(p)' = Partly(p)
                /\ Lost(p)' <=> Lost(p)
      /\ \A e, p : Sums(e, p)' <=> Sums(e, p)
  BY <1>1, ReformStays
<1>4. map[Reformer] = reform.map
  BY <1>1, <1>2 DEF NotBegun
<1>5. PICK t \in NewMaps : /\ target' = [target EXCEPT ![Reformer] = t]
                           /\ task' = [task EXCEPT ![Reformer] = Tasks(t)]
  BY DEF Execute
<1>6. Goal' = t
  BY <1>1, <1>3, <1>5 DEF Goal
<1>7. /\ \A j \in Inst \ {Reformer} : status'[j] = status[j] /\ task'[j] = {}
      /\ UNCHANGED <<map, dir, due, drm, sent, owed, pub, net>>
      /\ task'[Reformer] = GoalTasks'
      /\ \/ status'[Reformer] = "MIGRATE" /\ Reformer \in assigned' /\ assign' = assign
         \/ status' = status /\ assign' # Idle
  <2>1. task'[Reformer] = GoalTasks'
    BY <1>1, <1>3, <1>4, <1>5, <1>6 DEF Tasks, GoalTasks
  <2>2. \A j \in Inst \ {Reformer} : status'[j] = status[j] /\ task'[j] = {}
    BY <1>1, <1>2, <1>5 DEF Execute, NewStatus, NotBegun
  <2>3. \/ status'[Reformer] = "MIGRATE" /\ Reformer \in assigned' /\ assign' = assign
        \/ status' = status /\ assign' # Idle
    BY <1>1, <1>2 DEF Execute, NewStatus, Idle
  <2>4. QED
    BY <2>1, <2>2, <2>3 DEF Execute
<1>8. Fits'
  <2>1. \A p \in Part : /\ t[p] \in After
                        /\ t[p] = reform.map[p] \/ t[p] \in reform.join \/ reform.map[p] \in Gone
    BY <1>4, <1>5 DEF NewMaps
  <2>2. QED
    BY <1>1, <1>3, <1>6, <2>1 DEF Fits
<1>9. Begins'
  BY <1>2, <1>3, <1>7, <1>8 DEF Begins, Early, Idle
<1>10. \A j \in Inst : status'[j] \in Early \cup {"FAIL", "STOPPED", "MIGRATE"}
                      /\ (status'[j] = "MIGRATE" => j = Reformer) /\ (status[j] \in Past => status'[j] \in Past)
  BY <1>2, <1>7 DEF NotBegun, Early, Past, Through
<1>11. Members'
  BY <1>1, <1>2, <1>3, <1>7, <1>10 DEF Flow, Members, Early
<1>12. Heard'
  BY <1>1, <1>2, <1>3, <1>7, <1>10 DEF Flow, Heard, NotBegun, Quiet
<1>13. OldMaps'
  BY <1>1, <1>2, <1>3, <1>4, <1>7, <1>10 DEF OldMaps, NotBegun, Quiet, Moving, Early
<1>14. GivenOut'
  BY <1>2, <1>3, <1>4, <1>1, <1>7, <1>10 DEF GivenOut, NotBegun, Quiet, Moving, Early
<1>15. Answered'
  BY <1>1, <1>3, <1>10 DEF Answered, Through, Early
<1>16. Kept'
  <2>1. \A j \in Inst, p \in Part : dir'[j][p] = (IF reform.map[p] = j THEN First(p) ELSE None) /\ due'[j][p] = -1
    BY <1>2, <1>7 DEF NotBegun
  <2>2. ASSUME NEW p \in Part, ~Lost(p) PROVE KeptAt(reform.map[p], p)'
    <3>1. reform.map[p] \in Inst
      BY <1>1
    <3>2. QED
      BY <1>1, <1>3, <1>10, <2>1, <3>1, InPartly DEF KeptAt, Early
  <2>3. ASSUME NEW p \in Part, NEW j \in Inst \ {reform.map[p]} PROVE CameTo(j, p)'
    BY <1>10, <2>1 DEF CameTo, Through, Early
  <2>4. \A m \in net' : Carries(m)'
    BY <1>2, <1>7 DEF NotBegun, Carries
  <2>5. QED
    BY <1>1, <1>3, <2>1, <2>2, <2>3, <2>4 DEF Kept
<1>17. Rebuilding'
  <2>1. \A j \in Alive, p \in Part : Lost(p) => dir'[j][p] = None
    BY <1>1, <1>2, <1>7 DEF NotBegun, Lost
  <2>2. \A p : Sums(None, p)
    BY DEF Sums
  <2>3. sent' = {} /\ \A m \in net' : m.type = "notify"
    BY <1>2, <1>7 DEF NotBegun
  <2>4. QED
    BY <1>3, <2>1, <2>2, <2>3 DEF Rebuilding
<1>18. Freed'
  BY <1>2, <1>3, <1>7 DEF Freed
<1>19. QED
  BY <1>9, <1>11, <1>12, <1>13, <1>14, <1>15, <1>16, <1>17, <1>18 DEF EInv, Flow

LEMMA SendTaskEntries ==
    ASSUME TInv, PInv, EInv, NEW i \in Inst, SendTask(i)
    PROVE  EInv'
<1>1. /\ reform' = reform /\ target' = target /\ Reformer \in Inst /\ Begins /\ Flow /\ Kept /\ Rebuilding
      /\ Freed /\ None \notin Inst
  BY StepFacts DEF SendTask
<1>2. /\ UNCHANGED <<status, map, dir, task, assigned, due, drm, sent, owed, pub>>
      /\ assign # Idle /\ assign' # Idle /\ net' = net \cup {TaskOf(i, target[Reformer])}
  BY <1>1 DEF SendTask, Idle
<1>3. TaskOf(i, target[Reformer]).type = "task" /\ TaskOf(i, target[Reformer]).tasks = GoalTasks
  BY <1>1, <1>2, TasksOfGoal DEF TaskOf, Flow, GivenOut
<1>4. ~NotBegun
  BY <1>2 DEF NotBegun
<1>5. Begins'
  BY <1>1, <1>2, <1>4, BeginsStays
<1>6. Members' /\ OldMaps' /\ Answered'
  BY <1>1, <1>2, Unmoved DEF Flow, Members, OldMaps, Answered
<1>7. Heard'
  BY <1>1, <1>2, <1>3, Unmoved DEF Flow, Heard
<1>8. GivenOut'
  BY <1>1, <1>2, <1>3, Unmoved DEF Flow, GivenOut, Idle
<1>9. \A j \in Inst : SameStation(j)
  BY <1>2 DEF SameStation
<1>10. Kept'
  BY <1>1, <1>2, <1>3, <1>9, KeptStays
<1>11. Rebuilding'
  BY <1>1, <1>2, <1>3, RebuildingStays
<1>12. Freed'
  BY <1>1, <1>2, FreedStays
<1>13. QED
  BY <1>5, <1>6, <1>7, <1>8, <1>10, <1>11, <1>12 DEF EInv, Flow

(* The broadcasts begin when all are past their work.                      *)
LEMMA BroadcastEntries ==
    ASSUME TInv, PInv, EInv, PublishTarget \/ PublishDone \/ Resend
    PROVE  EInv'
<1>1. /\ reform' = reform /\ target' = target /\ Reformer \in Inst /\ Begins /\ Flow /\ Kept /\ Rebuilding
      /\ Freed /\ Steps /\ Alive \subseteq Inst /\ Reformer \in Stay /\ Stay \subseteq Alive
      /\ map \in [Inst -> Maps]
  BY StepFacts DEF PublishTarget, PublishDone, Resend
<1>2. /\ UNCHANGED <<status, dir, task, assigned, due, drm, assign, sent, owed>>
      /\ \A j \in Inst \ {Reformer} : map'[j] = map[j]
  BY <1>1 DEF PublishTarget, PublishDone, Resend
<1>3. \A m \in net' : m \in net \/ m.type \in {"target", "done"}
  BY DEF PublishTarget, PublishDone, Resend, Broadcast, TInv, Protocol, Quiet, PInv, Steps
<1>4. /\ \A j \in Alive : status[j] \in Past
      /\ status[Reformer] \in {"PUBLISH", "FAIL"} /\ assign = Idle /\ Reformer \in assigned
  <2>1. CASE PublishTarget
    <3>1. status[Reformer] = "PUBLISH" /\ \A j \in Alive : drm[j] = "PUBLISH"
      BY <2>1 DEF PublishTarget, Ready
    <3>2. QED
      BY <1>1, <3>1 DEF Flow, Heard, OldMaps, Steps, Moving
  <2>2. CASE PublishDone \/ Resend
    <3>1. pub.step # "none"
      BY <1>1, <2>2 DEF PublishDone, Resend, Steps
    <3>2. QED
      BY <1>1, <3>1 DEF Flow, Heard, OldMaps, GivenOut, Steps
  <2>3. QED
    BY <2>1, <2>2
<1>5. ~NotBegun
  BY <1>1, <1>4 DEF NotBegun, PublishTarget, PublishDone, Resend, Quiet, Early
<1>6. Begins'
  BY <1>1, <1>2, <1>5, BeginsStays
<1>7. Members' /\ Answered' /\ GivenOut'
  BY <1>1, <1>2, <1>3, <1>4, Unmoved DEF Flow, Members, Answered, GivenOut, Idle
<1>8. Heard'
  BY <1>1, <1>2, <1>3, <1>4, Unmoved DEF Flow, Heard
<1>9. OldMaps'
  <2>1. reform.before \subseteq Inst
    BY StepFacts, ReformFacts
  <2>2. QED
    BY <1>1, <1>2, <1>4, <2>1, Unmoved DEF Flow, OldMaps, Past, Through
<1>10. \A j \in Inst : SameStation(j)
  BY <1>2 DEF SameStation
<1>11. Kept'
  BY <1>1, <1>2, <1>3, <1>10, KeptStays
<1>12. Rebuilding'
  BY <1>1, <1>2, <1>3, RebuildingStays
<1>13. Freed'
  BY <1>1, <1>2, FreedStays
<1>14. QED
  BY <1>6, <1>7, <1>8, <1>9, <1>11, <1>12, <1>13 DEF EInv, Flow

LEMMA HandleTargetEntries ==
    ASSUME TInv, PInv, EInv, NEW m \in net, HandleTarget(m)
    PROVE  EInv'
<1>1. /\ reform' = reform /\ target' = target /\ Reformer \in Inst /\ Begins /\ Flow /\ Kept /\ Rebuilding
      /\ Freed /\ Alive \subseteq Inst /\ map \in [Inst -> Maps] /\ Reformer \notin Others
      /\ Alive = Others \cup {Reformer}
  BY StepFacts DEF HandleTarget
<1>2. m.dst \in Others /\ m.type = "target"
  BY DEF TInv, Messages, Msg, HandleTarget
<1>3. /\ UNCHANGED <<status, target, dir, task, assigned, due, drm, assign, sent, owed, pub>>
      /\ \A j \in Inst \ {m.dst} : map'[j] = map[j]
      /\ \A n \in net' : n \in net \/ n.type = "ack"
  BY <1>1 DEF HandleTarget, Ack
<1>4. status[m.dst] \in Past
  BY <1>1, <1>2 DEF Flow, Heard
<1>5. ~NotBegun
  BY <1>2 DEF NotBegun
<1>6. Begins'
  BY <1>1, <1>3, <1>5, BeginsStays
<1>7. Members' /\ Answered' /\ GivenOut'
  BY <1>1, <1>2, <1>3, Unmoved DEF Flow, Members, Answered, GivenOut, Idle
<1>8. Heard'
  BY <1>1, <1>3, Unmoved DEF Flow, Heard
<1>9. OldMaps'
  <2>1. reform.before \subseteq Inst
    BY StepFacts, ReformFacts
  <2>2. QED
    BY <1>1, <1>2, <1>3, <1>4, <2>1, Unmoved DEF Flow, OldMaps
<1>10. \A j \in Inst : SameStation(j)
  BY <1>3 DEF SameStation
<1>11. Kept'
  BY <1>1, <1>3, <1>10, KeptStays
<1>12. Rebuilding'
  BY <1>1, <1>3, RebuildingStays
<1>13. Freed'
  BY <1>1, <1>3, FreedStays
<1>14. QED
  BY <1>6, <1>7, <1>8, <1>9, <1>11, <1>12, <1>13 DEF EInv, Flow

(* What an instance that stays or leaves has when it migrates.             *)
LEMMA MigratingFacts ==
    ASSUME TInv, PInv, EInv, NEW i \in Inst, status[i] = "MIGRATE", i \notin reform.join
    PROVE  /\ i \in Alive /\ i \in reform.before /\ i \notin reform.abort
           /\ map[i] = reform.map /\ task[i] = GoalTasks
           /\ (i \notin reform.leave <=> i \in Stay)
           /\ \A g \in [Part -> SUBSET Gone], p \in Part :
                 CleanLocal(i, g)[p] = IF reform.map[p] = i THEN Cleaned(First(p), g[p]) ELSE dir[i][p]
<1>1. /\ reform \in Reforms /\ Flow /\ Kept /\ Stay \subseteq Alive /\ Alive \subseteq Inst
  BY StepFacts
<1>2. i \in Alive
  BY <1>1 DEF Flow, Members
<1>3. i \in reform.before /\ i \notin reform.abort /\ (i \notin reform.leave <=> i \in Stay)
  <2>1. reform.leave \subseteq reform.before
    BY <1>1, ReformListsAssumption
  <2>2. /\ i \in Stay \/ i \in reform.leave
        /\ Stay \subseteq reform.before /\ Stay \cap reform.leave = {} /\ Alive \cap reform.abort = {}
    BY <1>1, <1>2, ListFacts
  <2>3. QED
    BY <1>2, <2>1, <2>2
<1>4. map[i] = reform.map /\ task[i] = GoalTasks
  BY <1>1, <1>3 DEF Flow, OldMaps, GivenOut, Past, Through, Moving
<1>5. ASSUME NEW g \in [Part -> SUBSET Gone], NEW p \in Part
      PROVE  CleanLocal(i, g)[p] = IF reform.map[p] = i THEN Cleaned(First(p), g[p]) ELSE dir[i][p]
  <2>1. CleanLocal(i, g)[p] = IF reform.map[p] = i THEN Cleaned(dir[i][p], g[p]) ELSE dir[i][p]
    BY <1>4 DEF CleanLocal
  <2>2. reform.map[p] = i => dir[i][p] = First(p)
    BY <1>1, <1>3 DEF Kept, KeptAt, Lost
  <2>3. QED
    BY <2>1, <2>2
<1>6. QED
  BY <1>2, <1>3, <1>4, <1>5

(* What it sends are the entries and their numbers, to the new masters.    *)
LEMMA OutgoingCarries ==
    ASSUME NEW i \in Inst, task[i] = GoalTasks, NEW d,
           \A p \in Part : reform.map[p] = i => d[p] = Clean(p)
    PROVE  \A m \in Outgoing(i, d) : m.type \in {"data", "end"} /\ Carries(m)
<1> DEFINE T == {k \in task[i] : k.exp = i}
           Data == {[type |-> "data", src |-> i, dst |-> k.imp, part |-> k.part, entry |-> d[k.part]] :
                        k \in {l \in T : d[l.part] # None}}
           Ends == {[type |-> "end", src |-> i, dst |-> k.imp, part |-> k.part,
                     count |-> Count(d[k.part])] : k \in T}
<1>1. Outgoing(i, d) = Data \cup Ends
  BY DEF Outgoing, Exports
<1>2. \A k \in T : /\ k.part \in Part /\ i = reform.map[k.part] /\ k.imp = Goal[k.part]
                   /\ k.imp # i /\ ~Lost(k.part) /\ d[k.part] = Clean(k.part)
  BY GoalTaskFacts
<1>3. ASSUME NEW m \in Data PROVE m.type = "data" /\ Carries(m)
  <2>1. PICK k \in T : m = [type |-> "data", src |-> i, dst |-> k.imp, part |-> k.part, entry |-> d[k.part]]
    OBVIOUS
  <2>2. m.type = "data" /\ m.src = i /\ m.dst = k.imp /\ m.part = k.part /\ m.entry = d[k.part]
    BY <2>1
  <2>3. QED
    BY <1>2, <2>2 DEF Carries
<1>4. ASSUME NEW m \in Ends PROVE m.type = "end" /\ Carries(m)
  <2>1. PICK k \in T : m = [type |-> "end", src |-> i, dst |-> k.imp, part |-> k.part, count |-> Count(d[k.part])]
    OBVIOUS
  <2>2. m.type = "end" /\ m.src = i /\ m.dst = k.imp /\ m.part = k.part /\ m.count = Count(d[k.part])
    BY <2>1
  <2>3. QED
    BY <1>2, <2>2 DEF Carries
<1>5. QED
  BY <1>1, <1>3, <1>4

LEMMA MigrateEntries ==
    ASSUME TInv, PInv, EInv, NEW i \in Inst, Migrate(i)
    PROVE  EInv'
<1> DEFINE All == [p \in Part |-> Gone]
           d == CleanLocal(i, All)
<1>1. /\ reform \in Reforms /\ reform' = reform /\ target' = target /\ Reformer \in Inst
      /\ status \in [Inst -> Statuses] /\ sent \subseteq Stay /\ Stay \subseteq Inst /\ Alive \subseteq Inst
      /\ Begins /\ Flow /\ Kept /\ Rebuilding /\ Freed /\ dir \in [Inst -> [Part -> Slots]]
  BY StepFacts DEF Migrate, TInv, Directory
<1>2. status[i] = "MIGRATE" /\ i \notin reform.join
  BY DEF Migrate
<1>3. /\ i \in Alive /\ i \in reform.before /\ i \notin reform.abort
      /\ map[i] = reform.map /\ task[i] = GoalTasks /\ (i \notin reform.leave <=> i \in Stay)
      /\ \A g \in [Part -> SUBSET Gone], p \in Part :
            CleanLocal(i, g)[p] = IF reform.map[p] = i THEN Cleaned(First(p), g[p]) ELSE dir[i][p]
  BY <1>2, MigratingFacts
<1>4. /\ All \in [Part -> SUBSET Gone]
      /\ \A p \in Part : d[p] = IF reform.map[p] = i THEN Clean(p) ELSE dir[i][p]
  BY <1>3 DEF Clean
<1> HIDE DEF d, All
<1>5. PICK g \in [Part -> SUBSET Gone] :
          /\ dir' = [dir EXCEPT ![i] = CleanLocal(i, g)]
          /\ g = All \/ status' = NewStatus(i, "FAIL")
  BY <1>4 DEF Migrate, d, All
<1>6. \A p \in Part : dir'[i][p] = IF reform.map[p] = i THEN Cleaned(First(p), g[p]) ELSE dir[i][p]
  BY <1>1, <1>3, <1>5
<1>7. /\ UNCHANGED <<map, task, due, drm, assign, sent, owed, pub>>
      /\ \A j \in Inst \ {i} : dir'[j] = dir[j] /\ status'[j] = status[j]
      /\ status' \in [Inst -> Statuses] /\ assigned \subseteq assigned' /\ assigned' \subseteq assigned \cup {i}
      /\ \/ status'[i] = "RECOVERY" /\ i \in Stay
         \/ status'[i] = "PUBLISH" /\ i \notin Stay
         \/ status'[i] = "FAIL"
  BY <1>1, <1>2, <1>3 DEF Migrate, NewStatus, Statuses, Working
<1>8. /\ \A p \in Part : reform.map[p] = i => dir'[i][p] \in Partly(p)
      /\ status'[i] # "FAIL" => \A p \in Part : reform.map[p] = i => dir'[i][p] = Clean(p)
  <2>1. \A p \in Part : reform.map[p] = i => dir'[i][p] \in Partly(p)
    BY <1>5, <1>6 DEF Partly
  <2>2. status'[i] # "FAIL" => g = All
    BY <1>1, <1>5 DEF NewStatus
  <2>3. QED
    BY <1>6, <2>1, <2>2 DEF Clean, All
<1>9. \A m \in net' : \/ m \in net \/ m \in Outgoing(i, d) \/ m.type = "notify"
                      \/ m.type = "done_task" /\ m.src = i /\ status'[i] \in {"PUBLISH", "FAIL"}
  BY <1>1, <1>2 DEF Migrate, FailNotice, TaskDone, NewStatus, d, All
<1>10. \A m \in Outgoing(i, d) : m.type \in {"data", "end"} /\ Carries(m)
  BY <1>3, <1>4, OutgoingCarries
<1>11. Move(i)
  BY <1>2, <1>7 DEF Move
<1>12. MovesAlone(i)
  BY <1>1, <1>7, <1>9, <1>10 DEF MovesAlone, Past, Through
<1>13. Flow'
  BY <1>1, <1>11, <1>12, MoveFlow
<1>14. ~NotBegun
  BY <1>2 DEF NotBegun, Early
<1>15. Begins'
  BY <1>1, <1>2, <1>7, <1>14, BeginsStays DEF Early
<1>16. /\ Goal' = Goal /\ \A p : /\ First(p)' = First(p) /\ Clean(p)' = Clean(p) /\ Partly(p)' = Partly(p)
                                 /\ Lost(p)' <=> Lost(p)
  BY <1>1, Unmoved
<1>17. Kept'
  <2>1. ASSUME NEW p \in Part, ~Lost(p) PROVE KeptAt(reform.map[p], p)'
    <3>1. reform.map[p] \in Inst /\ KeptAt(reform.map[p], p)
      BY <1>1, <2>1, ReformFacts DEF Kept, Maps
    <3>2. CASE reform.map[p] = i
      <4>1. dir'[i][p] \in Partly(p)
        BY <1>8, <2>1, <3>2
      <4>2. status'[i] # "FAIL" => dir'[i][p] = Clean(p)
        BY <1>8, <2>1, <3>2
      <4>3. status'[i] \in {"RECOVERY", "PUBLISH", "FAIL"}
        BY <1>7
      <4>4. QED
        BY <1>1, <1>16, <3>2, <4>1, <4>2, <4>3 DEF KeptAt, Early
    <3>3. CASE reform.map[p] # i
      BY <1>1, <1>7, <1>16, <3>1, <3>3 DEF KeptAt
    <3>4. QED
      BY <3>2, <3>3
  <2>2. ASSUME NEW p \in Part, ~Lost(p), NEW j \in Inst \ {reform.map[p]} PROVE CameTo(j, p)'
    <3>1. CameTo(j, p) /\ dir'[j][p] = dir[j][p]
      BY <1>1, <1>7, <1>6, <2>2 DEF Kept
    <3>2. j \in reform.join => status'[j] = status[j]
      BY <1>2, <1>7
    <3>3. QED
      BY <1>1, <1>16, <3>1, <3>2 DEF CameTo
  <2>3. \A m \in net' : Carries(m)
    BY <1>1, <1>9, <1>10 DEF Kept, Carries
  <2>4. \A m : Carries(m)' <=> Carries(m)
    BY <1>1, <1>16 DEF Carries, Count
  <2>5. \A j \in Inst, p \in Part : due'[j][p] # -1 => ~Lost(p) /\ j = Goal[p] /\ due'[j][p] = Count(Clean(p))
    BY <1>1, <1>7 DEF Kept
  <2>6. \A p : Count(Clean(p))' = Count(Clean(p))
    BY <1>16 DEF Count
  <2>7. QED
    BY <1>1, <1>16, <2>1, <2>2, <2>3, <2>4, <2>5, <2>6 DEF Kept
<1>18. Rebuilding'
  <2>1. \A j \in Alive, p \in Part : Lost(p) => dir'[j][p] = dir[j][p]
    BY <1>1, <1>3, <1>7, <1>6 DEF Lost
  <2>2. \A j \in Inst : /\ status[j] = "STOPPED" => status'[j] = "STOPPED"
                        /\ status[j] = "FAIL" => status'[j] \in {"FAIL", "STOPPED"}
    BY <1>2, <1>7
  <2>3. \A m \in net' : m \in net \/ m.type \notin {"report", "report_ack"}
    BY <1>9, <1>10
  <2>4. QED
    BY <1>1, <1>7, <2>1, <2>2, <2>3, RebuildingStays
<1>19. Freed'
  BY <1>1, <1>7, FreedStays
<1>20. QED
  BY <1>13, <1>15, <1>17, <1>18, <1>19 DEF EInv

(* An instance that joins goes on when all its entries have come.          *)
LEMMA ImmigrateEntries ==
    ASSUME TInv, PInv, EInv, NEW i \in Inst, Immigrate(i)
    PROVE  EInv'
<1>1. /\ reform \in Reforms /\ reform' = reform /\ target' = target /\ Reformer \in Inst
      /\ status \in [Inst -> Statuses] /\ sent \subseteq Stay /\ Stay \subseteq Inst /\ Alive \subseteq Inst
      /\ Begins /\ Flow /\ Kept /\ Rebuilding /\ Freed /\ Reformer \in Stay
  BY StepFacts DEF Immigrate
<1>2. status[i] = "MIGRATE" /\ i \in reform.join /\ i \notin Stay /\ i \notin reform.before
  BY <1>1, ListFacts DEF Immigrate
<1>3. /\ UNCHANGED <<map, dir, task, due, drm, assign, sent, owed, pub>>
      /\ \A j \in Inst \ {i} : status'[j] = status[j]
      /\ status' \in [Inst -> Statuses] /\ assigned \subseteq assigned' /\ assigned' \subseteq assigned \cup {i}
      /\ (status'[i] = "PUBLISH" /\ AllCame(i)) \/ status'[i] = "FAIL"
  BY <1>1, <1>2 DEF Immigrate, Fail, NewStatus, Statuses, Working
<1>4. \A m \in net' : \/ m \in net \/ m.type = "notify"
                      \/ m.type = "done_task" /\ m.src = i /\ status'[i] = "PUBLISH"
  BY <1>1, <1>2 DEF Immigrate, Fail, FailNotice, TaskDone, NewStatus
<1>5. Move(i)
  BY <1>2, <1>3 DEF Move
<1>6. MovesAlone(i)
  BY <1>1, <1>3, <1>4 DEF MovesAlone, Past, Through
<1>7. Flow'
  BY <1>1, <1>5, <1>6, MoveFlow
<1>8. ~NotBegun
  BY <1>2 DEF NotBegun, Early
<1>9. Begins'
  BY <1>1, <1>2, <1>3, <1>8, BeginsStays DEF Early
<1>10. /\ Goal' = Goal /\ \A p : /\ First(p)' = First(p) /\ Clean(p)' = Clean(p) /\ Partly(p)' = Partly(p)
                                 /\ Lost(p)' <=> Lost(p)
  BY <1>1, Unmoved
<1>11. ASSUME NEW p \in Part, ~Lost(p), Goal[p] = i, AllCame(i) PROVE dir[i][p] = Clean(p)
  <2>1. reform.map[p] # i /\ task[i] = GoalTasks
    BY <1>1, <1>2, ListFacts DEF Flow, GivenOut, Moving
  <2>2. PICK k \in GoalTasks : k.part = p /\ k.imp = i
    BY <1>11, <2>1, GoalTaskFacts
  <2>3. due[i][p] = Count(dir[i][p])
    BY <1>11, <2>1, <2>2 DEF AllCame
  <2>4. due[i][p] # -1
    BY <2>3 DEF Count
  <2>5. Count(dir[i][p]) = Count(Clean(p))
    BY <1>1, <2>3, <2>4 DEF Kept
  <2>6. dir[i][p] # None => dir[i][p] = Clean(p)
    BY <1>1, <1>11, <2>1 DEF Kept, CameTo
  <2>7. QED
    BY <2>5, <2>6 DEF Count
<1>12. Kept'
  <2>1. ASSUME NEW p \in Part, ~Lost(p) PROVE KeptAt(reform.map[p], p)'
    <3>1. reform.map[p] \in Inst \ {i} /\ KeptAt(reform.map[p], p)
      BY <1>1, <1>2, <2>1, ReformFacts, ListFacts DEF Kept, Maps
    <3>2. QED
      BY <1>1, <1>3, <1>10, <3>1 DEF KeptAt
  <2>2. ASSUME NEW p \in Part, ~Lost(p), NEW j \in Inst \ {reform.map[p]} PROVE CameTo(j, p)'
    <3>1. CameTo(j, p) /\ dir' = dir
      BY <1>1, <1>3, <2>2 DEF Kept
    <3>2. CASE j # i
      BY <1>1, <1>3, <1>10, <3>1, <3>2 DEF CameTo
    <3>3. CASE j = i
      BY <1>1, <1>3, <1>10, <1>11, <2>2, <3>1, <3>3 DEF CameTo, Through
    <3>4. QED
      BY <3>2, <3>3
  <2>3. \A m \in net' : Carries(m)
    BY <1>1, <1>4 DEF Kept, Carries
  <2>4. \A m : Carries(m)' <=> Carries(m)
    BY <1>1, <1>10 DEF Carries, Count
  <2>5. \A j \in Inst, p \in Part : due'[j][p] # -1 => ~Lost(p) /\ j = Goal[p] /\ due'[j][p] = Count(Clean(p))
    BY <1>1, <1>3 DEF Kept
  <2>6. \A p : Count(Clean(p))' = Count(Clean(p))
    BY <1>10 DEF Count
  <2>7. QED
    BY <1>1, <1>10, <2>1, <2>2, <2>3, <2>4, <2>5, <2>6 DEF Kept
<1>13. Rebuilding'
  <2>1. \A j \in Inst : /\ status[j] = "STOPPED" => status'[j] = "STOPPED"
                        /\ status[j] = "FAIL" => status'[j] \in {"FAIL", "STOPPED"}
    BY <1>2, <1>3
  <2>2. QED
    BY <1>1, <1>3, <1>4, <2>1, RebuildingStays
<1>14. Freed'
  BY <1>1, <1>2, <1>3, FreedStays
<1>15. QED
  BY <1>7, <1>9, <1>12, <1>13, <1>14 DEF EInv

(* A step that only takes a message, or answers one, and moves no status.  *)
LEMMA SameStatusFlow ==
    ASSUME TInv, PInv, EInv,
           UNCHANGED <<reform, status, map, target, task, assigned, drm, assign, pub>>,
           sent \subseteq sent', sent' \subseteq Stay,
           \A j \in Inst : owed'[j] \subseteq owed[j] \/ status[j] \notin Through,
           \A m \in net' : m \in net \/ m.type \in {"report", "report_ack"}
    PROVE  Flow'
<1>1. Reformer \in Inst /\ status \in [Inst -> Statuses] /\ Flow
  BY StepFacts
<1>2. Move(Reformer)
  BY <1>1 DEF Move
<1>3. \A m \in net' : m \in net \/ m.type \notin {"target", "done", "task", "done_task"}
  OBVIOUS
<1>4. MovesAlone(Reformer)
  BY <1>1, <1>3 DEF MovesAlone
<1>5. QED
  BY <1>1, <1>2, <1>4, MoveFlow

(* An entry that comes is the cleaned one, and comes to the new master.    *)
LEMMA HandleDataEntries ==
    ASSUME TInv, PInv, EInv, NEW m \in net, HandleData(m)
    PROVE  EInv'
<1>1. /\ reform \in Reforms /\ reform' = reform /\ target' = target /\ Reformer \in Inst
      /\ Begins /\ Flow /\ Kept /\ Rebuilding /\ Freed /\ dir \in [Inst -> [Part -> Slots]]
      /\ sent \subseteq Stay
  BY StepFacts DEF HandleData, TInv, Directory
<1>2. /\ UNCHANGED <<status, map, task, assigned, due, drm, assign, sent, owed, pub>>
      /\ net' = net \ {m} /\ m.type = "data"
  BY DEF HandleData
<1>3. m.dst \in Inst /\ m.part \in Part
  BY <1>2 DEF TInv, Messages, Msg
<1>4. ~Lost(m.part) /\ m.dst = Goal[m.part] /\ m.dst # reform.map[m.part] /\ m.entry = Clean(m.part)
  BY <1>1, <1>2 DEF Kept, Carries
<1>5. /\ \A j \in Inst, p \in Part : j # m.dst \/ p # m.part => dir'[j][p] = dir[j][p]
      /\ \/ dir'[m.dst][m.part] = dir[m.dst][m.part]
         \/ dir'[m.dst][m.part] = m.entry
      /\ status[m.dst] = "STOPPED" => dir' = dir
  BY <1>1, <1>3 DEF HandleData, Working
<1>6. Flow'
  BY <1>1, <1>2, SameStatusFlow
<1>7. ~NotBegun
  BY <1>2 DEF NotBegun
<1>8. Begins'
  BY <1>1, <1>2, <1>7, BeginsStays
<1>9. /\ Goal' = Goal /\ \A p : /\ First(p)' = First(p) /\ Clean(p)' = Clean(p) /\ Partly(p)' = Partly(p)
                                /\ Lost(p)' <=> Lost(p)
  BY <1>1, Unmoved
<1>10. Kept'
  <2>1. ASSUME NEW p \in Part, ~Lost(p) PROVE KeptAt(reform.map[p], p)'
    <3>1. reform.map[p] \in Inst /\ KeptAt(reform.map[p], p)
      BY <1>1, <2>1, ReformFacts DEF Kept, Maps
    <3>2. dir'[reform.map[p]][p] = dir[reform.map[p]][p]
      BY <1>4, <1>5, <3>1
    <3>3. QED
      BY <1>1, <1>2, <1>9, <3>1, <3>2 DEF KeptAt
  <2>2. ASSUME NEW p \in Part, ~Lost(p), NEW j \in Inst \ {reform.map[p]} PROVE CameTo(j, p)'
    <3>1. CameTo(j, p)
      BY <1>1, <2>2 DEF Kept
    <3>2. dir'[j][p] = dir[j][p] \/ (j = Goal[p] /\ dir'[j][p] = Clean(p))
      BY <1>4, <1>5
    <3>3. QED
      BY <1>1, <1>2, <1>9, <3>1, <3>2 DEF CameTo
  <2>3. \A n \in net' : Carries(n)
    BY <1>1, <1>2 DEF Kept, Carries
  <2>4. \A n : Carries(n)' <=> Carries(n)
    BY <1>1, <1>9 DEF Carries, Count
  <2>5. \A j \in Inst, p \in Part : due'[j][p] # -1 => ~Lost(p) /\ j = Goal[p] /\ due'[j][p] = Count(Clean(p))
    BY <1>1, <1>2 DEF Kept
  <2>6. \A p : Count(Clean(p))' = Count(Clean(p))
    BY <1>9 DEF Count
  <2>7. QED
    BY <1>1, <1>9, <2>1, <2>2, <2>3, <2>4, <2>5, <2>6 DEF Kept
<1>11. Rebuilding'
  <2>1. Alive \subseteq Inst
    BY StepFacts
  <2>2. \A j \in Alive, p \in Part : Lost(p) => dir'[j][p] = dir[j][p]
    BY <1>4, <1>5, <2>1
  <2>3. QED
    BY <1>1, <1>2, <2>2, RebuildingStays
<1>12. Freed'
  <2>1. status[Reformer] = "STOPPED" => \A p \in Part : dir'[Reformer][p] = dir[Reformer][p]
    BY <1>1, <1>3, <1>5
  <2>2. /\ Reformer' = Reformer /\ Stay' = Stay /\ \A p : Lost(p)' <=> Lost(p)
        /\ \A j, p : Owes(j, p)' <=> Owes(j, p)
    BY <1>1, Unmoved
  <2>3. QED
    BY <1>1, <1>2, <1>9, <2>1, <2>2 DEF Freed
<1>13. QED
  BY <1>6, <1>8, <1>10, <1>11, <1>12 DEF EInv

LEMMA HandleEndEntries ==
    ASSUME TInv, PInv, EInv, NEW m \in net, HandleEnd(m)
    PROVE  EInv'
<1>1. /\ reform \in Reforms /\ reform' = reform /\ target' = target /\ Reformer \in Inst
      /\ Begins /\ Flow /\ Kept /\ Rebuilding /\ Freed /\ due \in [Inst -> [Part -> {-1, 0, 1}]]
      /\ sent \subseteq Stay
  BY StepFacts DEF HandleEnd, TInv, Directory
<1>2. /\ UNCHANGED <<status, map, dir, task, assigned, drm, assign, sent, owed, pub>>
      /\ net' = net \ {m} /\ m.type = "end"
  BY DEF HandleEnd
<1>3. m.dst \in Inst /\ m.part \in Part
  BY <1>2 DEF TInv, Messages, Msg
<1>4. ~Lost(m.part) /\ m.dst = Goal[m.part] /\ m.count = Count(Clean(m.part))
  BY <1>1, <1>2 DEF Kept, Carries
<1>5. \A j \in Inst, p \in Part : due'[j][p] = due[j][p] \/ (j = m.dst /\ p = m.part /\ due'[j][p] = m.count)
  BY <1>1, <1>3 DEF HandleEnd
<1>6. Flow'
  BY <1>1, <1>2, SameStatusFlow
<1>7. ~NotBegun
  BY <1>2 DEF NotBegun
<1>8. Begins'
  BY <1>1, <1>2, <1>7, BeginsStays
<1>9. /\ Goal' = Goal /\ \A p : /\ First(p)' = First(p) /\ Clean(p)' = Clean(p) /\ Partly(p)' = Partly(p)
                                /\ Lost(p)' <=> Lost(p)
  BY <1>1, Unmoved
<1>10. Kept'
  <2>1. ASSUME NEW p \in Part, ~Lost(p) PROVE KeptAt(reform.map[p], p)'
    BY <1>1, <1>2, <1>9, <2>1 DEF Kept, KeptAt
  <2>2. ASSUME NEW p \in Part, ~Lost(p), NEW j \in Inst \ {reform.map[p]} PROVE CameTo(j, p)'
    BY <1>1, <1>2, <1>9, <2>2 DEF Kept, CameTo
  <2>3. \A n \in net' : Carries(n)
    BY <1>1, <1>2 DEF Kept, Carries
  <2>4. \A n : Carries(n)' <=> Carries(n)
    BY <1>1, <1>9 DEF Carries, Count
  <2>5. \A j \in Inst, p \in Part : due'[j][p] # -1 => ~Lost(p) /\ j = Goal[p] /\ due'[j][p] = Count(Clean(p))
    BY <1>1, <1>4, <1>5 DEF Kept
  <2>6. \A p : Count(Clean(p))' = Count(Clean(p))
    BY <1>9 DEF Count
  <2>7. QED
    BY <1>1, <1>9, <2>1, <2>2, <2>3, <2>4, <2>5, <2>6 DEF Kept
<1>11. Rebuilding'
  BY <1>1, <1>2, RebuildingStays
<1>12. Freed'
  BY <1>1, <1>2, FreedStays
<1>13. QED
  BY <1>6, <1>8, <1>10, <1>11, <1>12 DEF EInv

(* Who reports is named in its own parts at once; the others have to       *)
(* answer.  One that fails has sent and entered some of its reports.       *)
LEMMA RecoverEntries ==
    ASSUME TInv, PInv, EInv, NEW i \in Inst, Recover(i)
    PROVE  EInv'
<1>1. /\ reform \in Reforms /\ reform' = reform /\ target' = target /\ Reformer \in Inst
      /\ Begins /\ Flow /\ Kept /\ Rebuilding /\ Freed /\ dir \in [Inst -> [Part -> Slots]]
      /\ sent \subseteq Stay /\ Stay \subseteq Inst /\ Stay \subseteq Alive /\ Alive \subseteq Inst
      /\ status \in [Inst -> Statuses] /\ owed \in [Inst -> SUBSET Inst]
  BY StepFacts DEF Recover, TInv, Directory
<1>2. /\ status[i] = "RECOVERY" /\ i \notin sent /\ i \in Stay
      /\ UNCHANGED <<map, task, assigned, due, drm, assign, pub>>
  BY <1>1 DEF Recover, Flow, Members
<1>3. map[i] = reform.map
  <2>1. i \in reform.before
    BY <1>1, <1>2, ListFacts
  <2>2. QED
    BY <1>1, <1>2, <2>1 DEF Flow, OldMaps, Past, Through
<1>4. \A p : p \in ToReport(i) <=> p \in Part /\ Owes(i, p)
  BY <1>2, <1>3 DEF ToReport, Owes, Lost
<1>5. ~NotBegun
  BY <1>2 DEF NotBegun, Early
<1> DEFINE to(Q) == {target[i][p] : p \in Q}
           Succeeds(Q) == /\ Q = ToReport(i) /\ sent' = sent \cup {i} /\ owed' = [owed EXCEPT ![i] = to(Q) \ {i}]
                          /\ net' = net \cup Reports(i, Q) /\ status' = status
           Fails(Q) == /\ status' = NewStatus(i, "FAIL") /\ sent' = sent /\ owed' = owed
                       /\ \A m \in net' : m \in net \cup Reports(i, Q) \cup FailNotice(i) \cup TaskDone(i)
<1>6. PICK P \in SUBSET ToReport(i) :
          /\ to(P) \subseteq Alive /\ dir' = [dir EXCEPT ![i] = Noted(i, P)]
          /\ Succeeds(P) \/ Fails(P)
  BY DEF Recover
<1>7. \A m \in Reports(i, P) : /\ m.type = "report" /\ m.src = i
                              /\ \A p : p \in m.parts <=> p \in P /\ target[i][p] = m.dst
  BY DEF Reports
<1>8. \A m \in net' : \/ m \in net \/ m \in Reports(i, P)
                      \/ Fails(P) /\ m.type = "notify"
                      \/ Fails(P) /\ m.type = "done_task" /\ m.src = i
  BY <1>6 DEF FailNotice, TaskDone
<1>9. /\ \A j \in Inst \ {i} : dir'[j] = dir[j]
      /\ \A p \in Part : dir'[i][p] = IF p \in P /\ target[i][p] = i
                                      THEN Reported(dir[i][p], i, p) ELSE dir[i][p]
  BY <1>1, <1>6 DEF Noted
<1>10. \A p \in P : p \in Part /\ Owes(i, p) /\ Lost(p) /\ target[i][p] \in to(P) /\ target[i][p] \in Alive
  BY <1>4, <1>6 DEF Owes
<1>11. /\ sent' = sent \/ sent' = sent \cup {i}
       /\ \A j \in Inst \ {i} : status'[j] = status[j] /\ owed'[j] = owed[j]
       /\ status' \in [Inst -> Statuses] /\ status'[i] # "STOPPED" /\ status'[i] \notin Early
       /\ status'[i] = "FAIL" \/ (Succeeds(P) /\ status' = status)
       /\ Fails(P) => status'[i] = "FAIL"
  BY <1>1, <1>2, <1>6 DEF NewStatus, Statuses, Working, Early
<1>12. i \in sent' => Succeeds(P)
  BY <1>2, <1>6
<1>13. Succeeds(P) => /\ \A p \in Part : Owes(i, p) => p \in P
                      /\ owed'[i] = to(P) \ {i}
  BY <1>1, <1>4
<1> HIDE DEF to, Succeeds, Fails
<1>14. Flow'
  <2>1. CASE Succeeds(P)
    <3>1. \A j \in Inst : owed'[j] \subseteq owed[j] \/ status[j] \notin Through
      BY <1>2, <1>11 DEF Through
    <3>2. sent \subseteq sent' /\ sent' \subseteq Stay /\ status' = status
      BY <1>1, <1>2, <2>1 DEF Succeeds
    <3>3. \A m \in net' : m \in net \/ m.type \in {"report", "report_ack"}
      BY <1>7, <2>1 DEF Succeeds
    <3>4. QED
      BY <1>1, <1>2, <3>1, <3>2, <3>3, SameStatusFlow
  <2>2. CASE Fails(P)
    <3>1. status'[i] = "FAIL" /\ sent' = sent /\ owed' = owed
      BY <1>11, <2>2 DEF Fails
    <3>2. Move(i)
      BY <1>2, <1>11, <3>1 DEF Move
    <3>3. \A m \in net' : \/ m \in net
                          \/ /\ m.type \notin {"target", "done", "task"}
                             /\ m.type = "done_task" => m.src = i /\ status'[i] \in Past
      BY <1>7, <1>8, <3>1 DEF Past
    <3>4. MovesAlone(i)
      BY <1>1, <1>2, <3>1, <3>3 DEF MovesAlone
    <3>5. QED
      BY <1>1, <3>2, <3>4, MoveFlow
  <2>3. QED
    BY <1>6, <2>1, <2>2
<1>15. Begins'
  <2>1. status'[Reformer] \in Early /\ assign' = Idle => status[Reformer] \in Early /\ assign = Idle
    BY <1>1, <1>2, <1>11
  <2>2. QED
    BY <1>1, <1>5, <2>1, BeginsStays
<1>16. Kept'
  <2>1. \A j \in Inst, p \in Part : ~Lost(p) => dir'[j][p] = dir[j][p]
    BY <1>9, <1>10
  <2>2. \A m \in net' : m \in net \/ m.type \notin {"data", "end"}
    BY <1>7, <1>8
  <2>3. \A j \in Inst : SameStation(j)
    BY <1>2, <1>11 DEF SameStation
  <2>4. QED
    BY <1>1, <1>2, <2>1, <2>2, <2>3, KeptStays
<1>17. ASSUME NEW p \in P
       PROVE  /\ Sums(Reported(dir[i][p], i, p), p) /\ In(Reported(dir[i][p], i, p), i)
              /\ \A j \in Inst : In(dir[i][p], j) => In(Reported(dir[i][p], i, p), j)
  <2>1. p \in Part /\ Owes(i, p) /\ Lost(p)
    BY <1>10
  <2>2. dir[i][p] \in Slots /\ Sums(dir[i][p], p)
    BY <1>1, <1>2, <2>1 DEF Rebuilding
  <2>3. QED
    BY <1>1, <2>1, <2>2, ReportedSums
<1>18. /\ Alive' = Alive /\ Stay' = Stay /\ \A p : Lost(p)' <=> Lost(p)
       /\ \A j, p : Owes(j, p)' <=> Owes(j, p)
       /\ \A e, p : Sums(e, p)' <=> Sums(e, p)
  BY <1>1, Unmoved
<1>19. \A j : (Reporter(j) => Reporter(j)') /\ (j = i => Reporter(j)' /\ ~Reporter(j))
  <2>1. i \in sent' \/ status'[i] = "FAIL"
    BY <1>11 DEF Succeeds
  <2>2. QED
    BY <1>1, <1>2, <1>11, <1>18, <2>1 DEF Reporter
<1>20. Rebuilding'
  <2>1. ASSUME NEW j \in Alive, NEW p \in Part, Lost(p)
        PROVE  /\ Sums(dir'[j][p], p)
               /\ dir'[j][p] # None => \E k \in Stay : Owes(k, p) /\ target[k][p] = j
    <3>1. CASE j = i /\ p \in P /\ target[i][p] = i
      BY <1>2, <1>9, <1>10, <1>17, <3>1
    <3>2. CASE ~(j = i /\ p \in P /\ target[i][p] = i)
      <4>1. dir'[j][p] = dir[j][p]
        BY <1>1, <1>9, <3>2
      <4>2. QED
        BY <1>1, <2>1, <4>1 DEF Rebuilding
    <3>3. QED
      BY <3>1, <3>2
  <2>2. ASSUME NEW j \in sent', NEW p \in Part, Owes(j, p)
        PROVE  /\ target[j][p] \in Alive
               /\ \/ status'[target[j][p]] = "STOPPED"
                  \/ In(dir'[target[j][p]][p], j)
                  \/ AckDue(j, target[j][p])'
    <3>1. CASE j = i /\ target[i][p] = i
      <4>1. p \in P
        BY <1>12, <1>13, <2>2, <3>1
      <4>2. QED
        BY <1>9, <1>10, <1>17, <3>1, <4>1
    <3>2. CASE j = i /\ target[i][p] # i
      <4>1. p \in P /\ Succeeds(P) /\ owed'[i] = to(P) \ {i}
        BY <1>12, <1>13, <2>2, <3>2
      <4>2. target[i][p] \in owed'[i] /\ target[i][p] \in Alive
        BY <1>10, <3>2, <4>1
      <4>3. \A m \in net' : m.type = "report_ack" => m.dst # i
        BY <1>1, <1>7, <1>8, <1>19 DEF Rebuilding
      <4>4. AckDue(i, target[i][p])'
        BY <1>1, <4>2, <4>3 DEF AckDue
      <4>5. QED
        BY <3>2, <4>2, <4>4
    <3>3. CASE j # i
      <4>1. j \in sent /\ j \in Inst
        BY <1>1, <1>11, <3>3
      <4>2. /\ target[j][p] \in Alive /\ target[j][p] \in Inst
            /\ \/ status[target[j][p]] = "STOPPED"
               \/ In(dir[target[j][p]][p], j)
               \/ AckDue(j, target[j][p])
        BY <1>1, <2>2, <4>1 DEF Rebuilding
      <4>3. In(dir[target[j][p]][p], j) => In(dir'[target[j][p]][p], j)
        <5>1. CASE target[j][p] = i /\ p \in P /\ target[i][p] = i
          BY <1>9, <1>17, <4>1, <5>1
        <5>2. CASE ~(target[j][p] = i /\ p \in P /\ target[i][p] = i)
          <6>1. dir'[target[j][p]][p] = dir[target[j][p]][p]
            BY <1>9, <4>2, <5>2
          <6>2. QED
            BY <6>1
        <5>3. QED
          BY <5>1, <5>2
      <4>4. AckDue(j, target[j][p]) => AckDue(j, target[j][p])'
        BY <1>1, <1>7, <1>8, <1>11, <3>3, <4>1 DEF AckDue
      <4>5. status[target[j][p]] = "STOPPED" => status'[target[j][p]] = "STOPPED"
        BY <1>2, <1>11, <4>2
      <4>6. QED
        BY <4>2, <4>3, <4>4, <4>5
    <3>4. QED
      BY <3>1, <3>2, <3>3
  <2>3. ASSUME NEW m \in net', m.type = "report"
        PROVE  /\ Reporter(m.src)'
               /\ \A p \in m.parts : p \in Part /\ Owes(m.src, p) /\ target[m.src][p] = m.dst
               /\ m.src \in sent' =>
                      \A p \in Part : Owes(m.src, p) /\ target[m.src][p] = m.dst => p \in m.parts
    <3>1. CASE m \in net
      <4>1. Reporter(m.src) /\ m.src # i
        BY <1>1, <1>19, <2>3, <3>1 DEF Rebuilding
      <4>2. m.src \in sent' => m.src \in sent
        BY <1>11, <4>1
      <4>3. QED
        BY <1>1, <1>19, <2>3, <3>1, <4>1, <4>2 DEF Rebuilding
    <3>2. CASE m \in Reports(i, P)
      BY <1>7, <1>10, <1>12, <1>13, <1>19, <3>2
    <3>3. QED
      BY <1>8, <2>3, <3>1, <3>2
  <2>4. \A m \in net' : m.type = "report_ack" => Reporter(m.dst)'
    BY <1>1, <1>7, <1>8, <1>19 DEF Rebuilding
  <2>5. QED
    BY <1>1, <1>18, <2>1, <2>2, <2>3, <2>4 DEF Rebuilding, In
<1>21. Freed'
  <2>1. status'[Reformer] = "STOPPED" => Reformer # i
    BY <1>11
  <2>2. QED
    BY <1>1, <1>2, <1>9, <1>11, <2>1, FreedStays
<1>22. QED
  BY <1>14, <1>15, <1>16, <1>20, <1>21 DEF EInv

(* A report is entered before it is answered.                              *)
LEMMA HandleReportEntries ==
    ASSUME TInv, PInv, EInv, NEW m \in net, HandleReport(m)
    PROVE  EInv'
<1>1. /\ reform \in Reforms /\ reform' = reform /\ target' = target /\ Reformer \in Inst
      /\ Begins /\ Flow /\ Kept /\ Rebuilding /\ Freed /\ dir \in [Inst -> [Part -> Slots]]
      /\ sent \subseteq Stay /\ Stay \subseteq Inst /\ Stay \subseteq Alive /\ Alive \subseteq Inst
      /\ status \in [Inst -> Statuses]
  BY StepFacts DEF HandleReport, TInv, Directory
<1>2. /\ UNCHANGED <<status, map, task, assigned, due, drm, assign, sent, owed, pub>>
      /\ m.type = "report" /\ m.dst \in Inst /\ m.src \in Inst
  BY DEF HandleReport, TInv, Messages, Msg
<1>3. /\ Reporter(m.src) /\ m.src \in Stay
      /\ \A p \in m.parts : p \in Part /\ Owes(m.src, p) /\ target[m.src][p] = m.dst
      /\ m.src \in sent => \A p \in Part : Owes(m.src, p) /\ target[m.src][p] = m.dst => p \in m.parts
  BY <1>1, <1>2 DEF Rebuilding, Reporter
<1>4. \A n \in net' : \/ n \in net
                      \/ n.type = "report_ack" /\ n.src = m.dst /\ n.dst = m.src
                         /\ status[m.dst] \in Working
  BY DEF HandleReport
<1>5. /\ \A j \in Inst \ {m.dst} : dir'[j] = dir[j]
      /\ \A p \in Part : dir'[m.dst][p] = IF status[m.dst] \in Working /\ p \in m.parts
                                          THEN Reported(dir[m.dst][p], m.src, p) ELSE dir[m.dst][p]
      /\ status[m.dst] = "STOPPED" => dir' = dir
  BY <1>1, <1>2 DEF HandleReport, Working
<1>6. status[m.dst] \in Working => m.dst \in Alive
  BY <1>1, <1>2 DEF Flow, Members, Working
<1>7. ASSUME NEW p \in Part, p \in m.parts, status[m.dst] \in Working
      PROVE  /\ Sums(Reported(dir[m.dst][p], m.src, p), p) /\ In(Reported(dir[m.dst][p], m.src, p), m.src)
             /\ \A j \in Inst : In(dir[m.dst][p], j) => In(Reported(dir[m.dst][p], m.src, p), j)
  <2>1. Owes(m.src, p) /\ Lost(p)
    BY <1>3, <1>7 DEF Owes
  <2>2. dir[m.dst][p] \in Slots /\ Sums(dir[m.dst][p], p)
    BY <1>1, <1>2, <1>6, <1>7, <2>1 DEF Rebuilding
  <2>3. QED
    BY <1>1, <1>2, <2>1, <2>2, ReportedSums
<1>8. \A p \in m.parts : Lost(p)
  BY <1>3 DEF Owes
<1>9. Flow'
  <2>1. \A n \in net' : n \in net \/ n.type \in {"report", "report_ack"}
    BY <1>4
  <2>2. QED
    BY <1>1, <1>2, <2>1, SameStatusFlow
<1>10. ~NotBegun
  BY <1>2 DEF NotBegun
<1>11. Begins'
  BY <1>1, <1>2, <1>10, BeginsStays
<1>12. Kept'
  <2>1. \A j \in Inst, p \in Part : ~Lost(p) => dir'[j][p] = dir[j][p]
    BY <1>5, <1>8
  <2>2. \A n \in net' : n \in net \/ n.type \notin {"data", "end"}
    BY <1>4
  <2>3. \A j \in Inst : SameStation(j)
    BY <1>2 DEF SameStation
  <2>4. QED
    BY <1>1, <1>2, <2>1, <2>2, <2>3, KeptStays
<1>13. /\ Alive' = Alive /\ Stay' = Stay /\ \A p : Lost(p)' <=> Lost(p)
       /\ \A j, p : Owes(j, p)' <=> Owes(j, p)
       /\ \A e, p : Sums(e, p)' <=> Sums(e, p)
  BY <1>1, Unmoved
<1>14. Rebuilding'
  <2>1. ASSUME NEW j \in Alive, NEW p \in Part, Lost(p)
        PROVE  /\ Sums(dir'[j][p], p)
               /\ dir'[j][p] # None => \E k \in Stay : Owes(k, p) /\ target[k][p] = j
    <3>1. CASE j = m.dst /\ p \in m.parts /\ status[m.dst] \in Working
      BY <1>3, <1>5, <1>7, <3>1
    <3>2. CASE ~(j = m.dst /\ p \in m.parts /\ status[m.dst] \in Working)
      <4>1. dir'[j][p] = dir[j][p]
        BY <1>1, <1>5, <3>2
      <4>2. QED
        BY <1>1, <2>1, <4>1 DEF Rebuilding
    <3>3. QED
      BY <3>1, <3>2
  <2>2. ASSUME NEW j \in sent, NEW p \in Part, Owes(j, p)
        PROVE  /\ target[j][p] \in Alive
               /\ \/ status'[target[j][p]] = "STOPPED"
                  \/ In(dir'[target[j][p]][p], j)
                  \/ AckDue(j, target[j][p])'
    <3>1. /\ target[j][p] \in Alive /\ target[j][p] \in Inst /\ j \in Inst
          /\ \/ status[target[j][p]] = "STOPPED"
             \/ In(dir[target[j][p]][p], j)
             \/ AckDue(j, target[j][p])
      BY <1>1, <2>2 DEF Rebuilding
    <3>2. In(dir[target[j][p]][p], j) => In(dir'[target[j][p]][p], j)
      <4>1. CASE target[j][p] = m.dst /\ p \in m.parts /\ status[m.dst] \in Working
        BY <1>5, <1>7, <3>1, <4>1
      <4>2. CASE ~(target[j][p] = m.dst /\ p \in m.parts /\ status[m.dst] \in Working)
        <5>1. dir'[target[j][p]][p] = dir[target[j][p]][p]
          BY <1>5, <3>1, <4>2
        <5>2. QED
          BY <5>1
      <4>3. QED
        BY <4>1, <4>2
    <3>3. CASE j = m.src /\ target[j][p] = m.dst /\ status[m.dst] \in Working
      <4>1. p \in m.parts
        BY <1>3, <2>2, <3>3
      <4>2. QED
        BY <1>5, <1>7, <3>1, <3>3, <4>1
    <3>4. CASE ~(j = m.src /\ target[j][p] = m.dst /\ status[m.dst] \in Working)
      <4>1. AckDue(j, target[j][p]) => AckDue(j, target[j][p])'
        BY <1>1, <1>2, <1>4, <3>4 DEF AckDue
      <4>2. QED
        BY <1>2, <3>1, <3>2, <4>1
    <3>5. QED
      BY <3>3, <3>4
  <2>3. \A n \in net' : n.type = "report" =>
            /\ Reporter(n.src)
            /\ \A p \in n.parts : p \in Part /\ Owes(n.src, p) /\ target[n.src][p] = n.dst
            /\ n.src \in sent => \A p \in Part : Owes(n.src, p) /\ target[n.src][p] = n.dst => p \in n.parts
    BY <1>1, <1>4 DEF Rebuilding
  <2>4. \A n \in net' : n.type = "report_ack" => Reporter(n.dst)
    BY <1>1, <1>3, <1>4 DEF Rebuilding
  <2>5. \A j : Reporter(j)' <=> Reporter(j)
    BY <1>2, <1>13 DEF Reporter
  <2>6. QED
    BY <1>1, <1>2, <1>13, <2>1, <2>2, <2>3, <2>4, <2>5 DEF Rebuilding, In
<1>15. Freed'
  <2>1. status[Reformer] = "STOPPED" => dir'[Reformer] = dir[Reformer]
    BY <1>1, <1>5
  <2>2. QED
    BY <1>1, <1>2, <2>1, FreedStays
<1>16. QED
  BY <1>9, <1>11, <1>12, <1>14, <1>15 DEF EInv

LEMMA HandleReportAckEntries ==
    ASSUME TInv, PInv, EInv, NEW m \in net, HandleReportAck(m)
    PROVE  EInv'
<1>1. /\ reform \in Reforms /\ reform' = reform /\ target' = target /\ Reformer \in Inst
      /\ Begins /\ Flow /\ Kept /\ Rebuilding /\ Freed
      /\ sent \subseteq Stay /\ Stay \subseteq Inst /\ owed \in [Inst -> SUBSET Inst]
  BY StepFacts DEF HandleReportAck
<1>2. /\ UNCHANGED <<status, map, dir, task, assigned, due, drm, assign, sent, pub>>
      /\ m.type = "report_ack" /\ m.dst \in Inst /\ net' = net \ {m}
      /\ \A j \in Inst : owed'[j] = IF j = m.dst THEN owed[j] \ {m.src} ELSE owed[j]
  BY <1>1 DEF HandleReportAck, TInv, Messages, Msg
<1>3. Flow'
  <2>1. \A j \in Inst : owed'[j] \subseteq owed[j]
    BY <1>2
  <2>2. QED
    BY <1>1, <1>2, <2>1, SameStatusFlow
<1>4. ~NotBegun
  BY <1>2 DEF NotBegun
<1>5. Begins'
  BY <1>1, <1>2, <1>4, BeginsStays
<1>6. \A j \in Inst : SameStation(j)
  BY <1>2 DEF SameStation
<1>7. Kept'
  BY <1>1, <1>2, <1>6, KeptStays
<1>8. /\ Alive' = Alive /\ Stay' = Stay /\ \A p : Lost(p)' <=> Lost(p)
      /\ \A j, p : Owes(j, p)' <=> Owes(j, p)
      /\ \A e, p : Sums(e, p)' <=> Sums(e, p)
  BY <1>1, Unmoved
<1>9. Rebuilding'
  <2>1. ASSUME NEW j \in sent, NEW p \in Part, Owes(j, p)
        PROVE  /\ target[j][p] \in Alive
               /\ \/ status'[target[j][p]] = "STOPPED"
                  \/ In(dir'[target[j][p]][p], j)
                  \/ AckDue(j, target[j][p])'
    <3>1. /\ target[j][p] \in Alive /\ j \in Inst
          /\ \/ status[target[j][p]] = "STOPPED"
             \/ In(dir[target[j][p]][p], j)
             \/ AckDue(j, target[j][p])
      BY <1>1, <2>1 DEF Rebuilding
    <3>2. AckDue(j, target[j][p]) => AckDue(j, target[j][p])'
      BY <1>1, <1>2, <3>1 DEF AckDue
    <3>3. QED
      BY <1>2, <3>1, <3>2
  <2>2. \A j : Reporter(j)' <=> Reporter(j)
    BY <1>2, <1>8 DEF Reporter
  <2>3. QED
    BY <1>1, <1>2, <1>8, <2>1, <2>2 DEF Rebuilding, In
<1>10. Freed'
  BY <1>1, <1>2, FreedStays
<1>11. QED
  BY <1>3, <1>5, <1>7, <1>9, <1>10 DEF EInv

(* What was sent away is freed.                                            *)
LEMMA CleanRemasterResEntries ==
    ASSUME TInv, PInv, EInv, NEW i \in Inst, CleanRemasterRes(i)
    PROVE  EInv'
<1>1. /\ reform \in Reforms /\ reform' = reform /\ target' = target /\ Reformer \in Inst
      /\ Begins /\ Flow /\ Kept /\ Rebuilding /\ Freed /\ Steps /\ dir \in [Inst -> [Part -> Slots]]
      /\ sent \subseteq Stay /\ Alive \subseteq Inst /\ status \in [Inst -> Statuses]
      /\ task \in [Inst -> SUBSET TaskRec]
  BY StepFacts DEF CleanRemasterRes, TInv, Directory
<1>2. /\ UNCHANGED <<map, assigned, due, drm, assign, sent, owed, pub, net>>
      /\ status[i] = "DONE" /\ status[Reformer] \in {"DONE", "ENDED"} /\ status'[i] = "ENDED"
      /\ \A j \in Inst \ {i} : status'[j] = status[j] /\ dir'[j] = dir[j] /\ task'[j] = task[j]
      /\ dir'[i] = FreeMigrated(i) /\ status' \in [Inst -> Statuses]
  BY <1>1 DEF CleanRemasterRes, Statuses
<1>3. assign = Idle /\ task[i] = GoalTasks
  BY <1>1, <1>2 DEF Steps, Flow, GivenOut, Moving
<1>4. \A p \in Part : dir'[i][p] = IF reform.map[p] = i /\ ~Lost(p) /\ Goal[p] # i THEN None ELSE dir[i][p]
  BY <1>2, <1>3, GoalTaskFacts DEF FreeMigrated
<1>5. Move(i)
  BY <1>2 DEF Move
<1>6. MovesAlone(i)
  BY <1>1, <1>2, <1>3 DEF MovesAlone, Moving
<1>7. Flow'
  BY <1>1, <1>5, <1>6, MoveFlow
<1>8. ~NotBegun
  BY <1>2 DEF NotBegun, Early
<1>9. Begins'
  BY <1>1, <1>2, <1>8, BeginsStays DEF Early
<1>10. /\ Goal' = Goal /\ \A p : /\ First(p)' = First(p) /\ Clean(p)' = Clean(p) /\ Partly(p)' = Partly(p)
                                 /\ Lost(p)' <=> Lost(p)
  BY <1>1, Unmoved
<1>11. Kept'
  <2>1. ASSUME NEW p \in Part, ~Lost(p) PROVE KeptAt(reform.map[p], p)'
    <3>1. reform.map[p] \in Inst /\ KeptAt(reform.map[p], p)
      BY <1>1, <2>1, ReformFacts DEF Kept, Maps
    <3>2. CASE reform.map[p] = i
      <4>1. dir[i][p] = Clean(p)
        BY <1>2, <3>1, <3>2 DEF KeptAt
      <4>2. status'[i] = "ENDED" /\ dir'[i][p] = IF Goal[p] = i THEN Clean(p) ELSE None
        BY <1>2, <1>4, <2>1, <3>2, <4>1
      <4>3. QED
        BY <1>1, <1>10, <3>2, <4>2 DEF KeptAt, Early
    <3>3. CASE reform.map[p] # i
      BY <1>1, <1>2, <1>10, <3>1, <3>3 DEF KeptAt
    <3>4. QED
      BY <3>2, <3>3
  <2>2. ASSUME NEW p \in Part, ~Lost(p), NEW j \in Inst \ {reform.map[p]} PROVE CameTo(j, p)'
    <3>1. CameTo(j, p) /\ dir'[j][p] = dir[j][p]
      BY <1>1, <1>2, <1>4, <2>2 DEF Kept
    <3>2. status'[j] \in Through => status[j] \in Through
      BY <1>2 DEF Through
    <3>3. QED
      BY <1>1, <1>10, <3>1, <3>2 DEF CameTo
  <2>3. \A m \in net' : Carries(m)
    BY <1>1, <1>2 DEF Kept, Carries
  <2>4. \A m : Carries(m)' <=> Carries(m)
    BY <1>1, <1>10 DEF Carries, Count
  <2>5. \A j \in Inst, p \in Part : due'[j][p] # -1 => ~Lost(p) /\ j = Goal[p] /\ due'[j][p] = Count(Clean(p))
    BY <1>1, <1>2 DEF Kept
  <2>6. \A p : Count(Clean(p))' = Count(Clean(p))
    BY <1>10 DEF Count
  <2>7. QED
    BY <1>1, <1>10, <2>1, <2>2, <2>3, <2>4, <2>5, <2>6 DEF Kept
<1>12. Rebuilding'
  <2>1. \A j \in Alive, p \in Part : Lost(p) => dir'[j][p] = dir[j][p]
    BY <1>1, <1>2, <1>4
  <2>2. \A j \in Inst : status[j] = "STOPPED" => status'[j] = "STOPPED"
    BY <1>2
  <2>3. QED
    BY <1>1, <1>2, <2>1, <2>2, RebuildingStays
<1>13. Freed'
  BY <1>1, <1>2, FreedStays
<1>14. QED
  BY <1>7, <1>9, <1>11, <1>12, <1>13 DEF EInv

(* What came is freed; nothing of the instance's own parts is.             *)
LEMMA StopRemasterEntries ==
    ASSUME TInv, PInv, EInv, NEW i \in Inst, StopRemaster(i)
    PROVE  EInv'
<1>1. /\ reform \in Reforms /\ reform' = reform /\ target' = target /\ Reformer \in Inst
      /\ Begins /\ Flow /\ Kept /\ Rebuilding /\ Freed /\ Steps /\ dir \in [Inst -> [Part -> Slots]]
      /\ sent \subseteq Stay /\ Stay \subseteq Inst /\ Stay \subseteq Alive /\ Alive \subseteq Inst
      /\ status \in [Inst -> Statuses] /\ map \in [Inst -> Maps]
      /\ task \in [Inst -> SUBSET TaskRec] /\ drm \in [Inst -> Statuses]
  BY StepFacts DEF StopRemaster, TInv, Directory
<1>2. /\ UNCHANGED <<assigned, due, assign, sent, owed, pub, net>>
      /\ i \in Stay /\ status[i] = "FAIL" /\ status'[i] = "STOPPED"
      /\ i = Reformer => assign = Idle /\ pub = Quiet
      /\ \A j \in Inst \ {i} : /\ status'[j] = status[j] /\ dir'[j] = dir[j]
                               /\ task'[j] = task[j] /\ map'[j] = map[j]
      /\ map'[i] = map[i] \/ map'[i] = reform.map
      /\ i \in assigned => map'[i] = reform.map
      /\ task'[i] = {} /\ status' \in [Inst -> Statuses]
      /\ \A j \in Inst : drm'[j] = drm[j] \/ drm'[j] = "PREPARE"
  BY <1>1 DEF StopRemaster, Statuses
<1>3. /\ \A p \in Part : dir'[i][p] = dir[i][p]
                         \/ (dir'[i][p] = None /\ target[i][p] = i /\ reform.map[p] # i)
      /\ i \in assigned => \A p \in Part : target[i][p] = i /\ reform.map[p] # i => dir'[i][p] = None
  BY <1>1 DEF StopRemaster, FreeImmigrated
<1>4. i \notin reform.join /\ Stay \cap reform.join = {}
  BY <1>1, <1>2, ListFacts
<1>5. Move(i)
  <2>1. i = Reformer => map'[i] = reform.map
    BY <1>1, <1>2 DEF Flow, OldMaps
  <2>2. QED
    BY <1>2, <2>1 DEF Move
<1>6. MovesAlone(i)
  <2>1. \A j \in Inst : \/ task'[j] = task[j]
                        \/ status'[j] \notin Moving /\ assign' = Idle
                        \/ status'[j] \notin Moving /\ j # Reformer
    BY <1>2 DEF Moving
  <2>2. QED
    BY <1>1, <1>2, <2>1 DEF MovesAlone
<1>7. Flow'
  BY <1>1, <1>5, <1>6, MoveFlow
<1>8. /\ Goal' = Goal /\ \A p : /\ First(p)' = First(p) /\ Clean(p)' = Clean(p) /\ Partly(p)' = Partly(p)
                                /\ Lost(p)' <=> Lost(p)
  BY <1>1, Unmoved
<1>9. Begins'
  <2>1. NotBegun => NotBegun'
    <3>1. SUFFICES ASSUME NotBegun PROVE NotBegun'
      OBVIOUS
    <3>2. reform.before \subseteq Inst
      BY <1>1, ReformFacts
    <3>3. \A j \in Inst, p \in Part : dir'[j][p] = dir[j][p]
      BY <1>2, <1>3, <3>1 DEF NotBegun
    <3>4. \A j \in Inst : status'[j] \in Early \cup {"FAIL", "STOPPED"} /\ task'[j] = {}
      BY <1>2, <3>1 DEF NotBegun
    <3>5. \A j \in reform.before : map'[j] = reform.map
      BY <1>2, <3>1, <3>2 DEF NotBegun
    <3>6. \A j \in Inst, p \in Part :
              due'[j][p] = -1 /\ dir'[j][p] = IF reform.map[p] = j THEN First(p) ELSE None
      BY <1>2, <3>1, <3>3 DEF NotBegun
    <3>7. assign' = Idle /\ pub' = Quiet /\ sent' = {} /\ \A m \in net' : m.type = "notify"
      BY <1>2, <3>1 DEF NotBegun
    <3>8. QED
      BY <1>1, <1>8, <3>4, <3>5, <3>6, <3>7 DEF NotBegun, Idle, Quiet, Early
  <2>2. QED
    BY <1>1, <1>2, <2>1, BeginsStays DEF Early
<1>10. Kept'
  <2>1. ASSUME NEW p \in Part, ~Lost(p) PROVE KeptAt(reform.map[p], p)'
    <3>1. reform.map[p] \in Inst /\ KeptAt(reform.map[p], p)
      BY <1>1, <2>1, ReformFacts DEF Kept, Maps
    <3>2. CASE reform.map[p] = i
      <4>1. dir'[i][p] \in Partly(p)
        BY <1>2, <1>3, <3>1, <3>2 DEF KeptAt
      <4>2. QED
        BY <1>1, <1>2, <1>8, <3>2, <4>1 DEF KeptAt, Early
    <3>3. CASE reform.map[p] # i
      BY <1>1, <1>2, <1>8, <3>1, <3>3 DEF KeptAt
    <3>4. QED
      BY <3>2, <3>3
  <2>2. ASSUME NEW p \in Part, ~Lost(p), NEW j \in Inst \ {reform.map[p]} PROVE CameTo(j, p)'
    <3>1. CameTo(j, p) /\ (dir'[j][p] = dir[j][p] \/ (j = i /\ dir'[j][p] = None))
      BY <1>1, <1>2, <1>3, <2>2 DEF Kept
    <3>2. j \in reform.join => status'[j] = status[j] /\ dir'[j][p] = dir[j][p]
      BY <1>2, <1>4
    <3>3. QED
      BY <1>1, <1>8, <3>1, <3>2 DEF CameTo
  <2>3. \A m \in net' : Carries(m)
    BY <1>1, <1>2 DEF Kept, Carries
  <2>4. \A m : Carries(m)' <=> Carries(m)
    BY <1>1, <1>8 DEF Carries, Count
  <2>5. \A j \in Inst, p \in Part : due'[j][p] # -1 => ~Lost(p) /\ j = Goal[p] /\ due'[j][p] = Count(Clean(p))
    BY <1>1, <1>2 DEF Kept
  <2>6. \A p : Count(Clean(p))' = Count(Clean(p))
    BY <1>8 DEF Count
  <2>7. QED
    BY <1>1, <1>8, <2>1, <2>2, <2>3, <2>4, <2>5, <2>6 DEF Kept
<1>11. /\ Alive' = Alive /\ Stay' = Stay /\ Reformer' = Reformer
       /\ \A j, p : Owes(j, p)' <=> Owes(j, p)
       /\ \A e, p : Sums(e, p)' <=> Sums(e, p)
  BY <1>1, Unmoved
<1>12. Rebuilding'
  <2>1. ASSUME NEW j \in Alive, NEW p \in Part, Lost(p)
        PROVE  /\ Sums(dir'[j][p], p)
               /\ dir'[j][p] # None => \E k \in Stay : Owes(k, p) /\ target[k][p] = j
    <3>1. dir'[j][p] = dir[j][p] \/ dir'[j][p] = None
      BY <1>1, <1>2, <1>3
    <3>2. Sums(None, p)
      BY DEF Sums
    <3>3. QED
      BY <1>1, <2>1, <3>1, <3>2 DEF Rebuilding
  <2>2. ASSUME NEW j \in sent, NEW p \in Part, Owes(j, p)
        PROVE  /\ target[j][p] \in Alive
               /\ \/ status'[target[j][p]] = "STOPPED"
                  \/ In(dir'[target[j][p]][p], j)
                  \/ AckDue(j, target[j][p])'
    <3>1. /\ target[j][p] \in Alive /\ target[j][p] \in Inst
          /\ \/ status[target[j][p]] = "STOPPED"
             \/ In(dir[target[j][p]][p], j)
             \/ AckDue(j, target[j][p])
      BY <1>1, <2>2 DEF Rebuilding
    <3>2. CASE target[j][p] = i
      BY <1>2, <3>1, <3>2
    <3>3. CASE target[j][p] # i
      <4>1. dir'[target[j][p]][p] = dir[target[j][p]][p] /\ status'[target[j][p]] = status[target[j][p]]
        BY <1>2, <3>1, <3>3
      <4>2. AckDue(j, target[j][p])' <=> AckDue(j, target[j][p])
        BY <1>1, <1>2 DEF AckDue
      <4>3. QED
        BY <3>1, <4>1, <4>2
    <3>4. QED
      BY <3>2, <3>3
  <2>3. \A j : Reporter(j) => Reporter(j)'
    BY <1>1, <1>2, <1>11 DEF Reporter
  <2>4. QED
    BY <1>1, <1>2, <1>8, <1>11, <2>1, <2>2, <2>3 DEF Rebuilding, In
<1>13. Freed'
  <2>1. CASE i # Reformer
    BY <1>1, <1>2, <2>1, FreedStays
  <2>2. CASE i = Reformer
    <3>1. SUFFICES ASSUME Reformer \in assigned, NEW p \in Part,
                          dir'[Reformer][p] # None, reform.map[p] # Reformer
                   PROVE  Lost(p) /\ \E j \in Stay : Owes(j, p) /\ target[j][p] # Goal[p]
      BY <1>1, <1>2, <1>8, <1>11 DEF Freed
    <3>2. Goal[p] # Reformer /\ dir[Reformer][p] # None
      BY <1>3, <2>2, <3>1 DEF Goal
    <3>3. Lost(p)
      BY <1>1, <3>1, <3>2 DEF Kept, CameTo
    <3>4. PICK j \in Stay : Owes(j, p) /\ target[j][p] = Reformer
      BY <1>1, <1>2, <2>2, <3>2, <3>3 DEF Rebuilding
    <3>5. QED
      BY <3>2, <3>3, <3>4
  <2>3. QED
    BY <2>1, <2>2
<1>14. QED
  BY <1>7, <1>9, <1>10, <1>12, <1>13 DEF EInv

LEMMA InitEntries == Init => EInv
<1>1. SUFFICES ASSUME Init PROVE EInv
  OBVIOUS
<1>2. TInv /\ reform \in Reforms
  BY <1>1, InitTypes DEF Init
<1>3. /\ Reformer \in Inst /\ Reformer \in Stay /\ Stay \subseteq reform.before /\ reform.before \subseteq Inst
      /\ Alive \cap reform.abort = {} /\ Stay \subseteq Inst /\ Alive \subseteq Inst
      /\ \A p \in Part : reform.map[p] \in reform.before
  BY <1>2, ReformFacts, ListFacts
<1>4. /\ \A i \in Inst : status[i] = "IDLE" /\ task[i] = {} /\ drm[i] = "PREPARE"
      /\ assign = Idle /\ sent = {} /\ pub = Quiet /\ net = {}
      /\ \A i \in Inst, p \in Part : due[i][p] = -1
      /\ \A i \in reform.before : map[i] = reform.map
  BY <1>1, <1>3 DEF Init
<1>5. \A i \in Inst, p \in Part : dir[i][p] = IF reform.map[p] = i THEN First(p) ELSE None
  BY <1>1, <1>3 DEF Init, First
<1>6. NotBegun
  BY <1>4, <1>5 DEF NotBegun, Early
<1>7. Flow
  BY <1>3, <1>4 DEF Flow, Members, Heard, OldMaps, GivenOut, Answered, Quiet, Past, Through, Moving
<1>8. Kept
  <2>1. \A p \in Part : KeptAt(reform.map[p], p)
    BY <1>3, <1>4, <1>5 DEF KeptAt
  <2>2. \A p \in Part : \A i \in Inst \ {reform.map[p]} : CameTo(i, p)
    BY <1>3, <1>4, <1>5 DEF CameTo, Through
  <2>3. QED
    BY <1>4, <2>1, <2>2 DEF Kept
<1>9. Rebuilding
  <2>1. \A i \in Alive, p \in Part : Lost(p) => dir[i][p] = None
    BY <1>3, <1>5 DEF Lost
  <2>2. \A p : Sums(None, p)
    BY DEF Sums
  <2>3. QED
    BY <1>4, <2>1, <2>2 DEF Rebuilding
<1>10. Freed
  BY <1>3, <1>4 DEF Freed
<1>11. QED
  BY <1>6, <1>7, <1>8, <1>9, <1>10 DEF EInv, Begins

LEMMA NextEntries == TInv /\ PInv /\ EInv /\ [Next]_vars => EInv'
<1>1. SUFFICES ASSUME TInv, PInv, EInv, [Next]_vars PROVE EInv'
  OBVIOUS
<1>2. CASE Direct
  BY <1>1, <1>2, ExecuteEntries, BroadcastEntries, PublishedEntries, GiveUpEntries DEF Direct
<1>3. ASSUME NEW i \in Inst, Step(i) PROVE EInv'
  BY <1>1, <1>3, StartEntries, PrepareEntries, MigrateEntries, ImmigrateEntries, RecoverEntries,
     RecoveredEntries, CleanRemasterResEntries, StopRemasterEntries DEF Step
<1>4. ASSUME NEW i \in Inst, SendTask(i) PROVE EInv'
  BY <1>1, <1>4, SendTaskEntries
<1>5. ASSUME NEW m \in net, Receive(m) PROVE EInv'
  BY <1>1, <1>5, HandleNotifyEntries, HandleTaskEntries, HandleTaskAckEntries, HandleDataEntries,
     HandleEndEntries, HandleTaskDoneEntries, HandleReportEntries, HandleReportAckEntries,
     HandleTargetEntries, HandleDoneEntries DEF Receive
<1>6. CASE UNCHANGED vars
  <2>1. UNCHANGED <<reform, status, map, target, dir, task, assigned, due, drm, assign, sent, owed, pub, net>>
    BY <1>6 DEF vars
  <2>2. /\ Reformer \in Inst /\ status \in [Inst -> Statuses] /\ sent \subseteq Stay
        /\ Begins /\ Flow /\ Kept /\ Rebuilding /\ Freed
    BY <1>1, StepFacts
  <2>3. NotBegun => NotBegun'
    BY <2>1, Unmoved DEF NotBegun, Idle, Quiet, Early
  <2>4. Begins'
    BY <2>1, <2>2, <2>3, BeginsStays
  <2>5. Flow'
    BY <1>1, <2>1, <2>2, SameStatusFlow
  <2>6. Kept'
    BY <1>1, <2>1, <2>2, KeptStays DEF SameStation
  <2>7. Rebuilding' /\ Freed'
    BY <1>1, <2>1, <2>2, RebuildingStays, FreedStays
  <2>8. QED
    BY <2>4, <2>5, <2>6, <2>7 DEF EInv
<1>7. QED
  BY <1>1, <1>2, <1>3, <1>4, <1>5, <1>6 DEF Next

LEMMA EntriesHold == Spec => [](TInv /\ PInv /\ EInv)
<1>1. Init => TInv /\ PInv /\ EInv
  BY InitTypes, InitPublishing, InitEntries
<1>2. (TInv /\ PInv /\ EInv) /\ [Next]_vars => (TInv /\ PInv /\ EInv)'
  BY NextTypes, NextPublishing, NextEntries
<1>3. QED
  BY <1>1, <1>2, PTL DEF Spec

-----------------------------------------------------------------------------
(* When the remastering is done, the new master of every part has the      *)
(* entry that names exactly the surviving holders, the surviving earlier   *)
(* dirty versions and the latest of them, whatever the order, the loss or  *)
(* the delay of entries, counts and reports; an entry is missing only if   *)
(* its old master leaves and the new one did not wait for it               *)
(* (drc_remaster_step_migrate, dtc_drc.c:5793; drc_collect_page_info,      *)
(* dtc_drc.c:6450).  The survivors must report where the reformer put the  *)
(* parts of the dead.                                                      *)
THEOREM EntriesRebuilt == Spec => [](MapsAgree => RebuiltOrMissing)
<1>1. TInv /\ PInv /\ EInv => (MapsAgree => RebuiltOrMissing)
  <2>1. SUFFICES ASSUME TInv, PInv, EInv, MapsAgree, status[Reformer] \in Finished, NEW p \in Part
                 PROVE  \/ Says(dir[Goal[p]][p], p)
                        \/ dir[Goal[p]][p] = None /\ reform.map[p] \in reform.leave
    BY DEF RebuiltOrMissing, Goal
  <2> DEFINE g == Goal[p]
  <2>2. /\ reform \in Reforms /\ Begins /\ Flow /\ Kept /\ Rebuilding /\ Reformer \in Inst
        /\ Stay \subseteq Alive /\ Alive \subseteq Inst /\ dir \in [Inst -> [Part -> Slots]]
    BY <2>1, StepFacts DEF TInv, Directory
  <2>3. \A i \in Alive : status[i] \in Finished
    BY <2>1 DEF PInv, PublishedTogether
  <2>4. Fits
    BY <2>1, <2>2 DEF Begins, NotBegun, Finished, Early
  <2>5. g \in Alive /\ (g = reform.map[p] \/ g \in reform.join \/ reform.map[p] \in Gone)
    BY <2>4 DEF Fits, Alive
  <2> HIDE DEF g
  <2>6. CASE Lost(p)
    <3>1. ASSUME NEW i \in Stay, Holds(i, p) PROVE In(dir[g][p], i)
      <4>1. Owes(i, p) /\ target[i][p] = g
        BY <2>1, <2>6, <3>1 DEF Owes, MapsAgree, g
      <4>2. i \in sent /\ owed[i] = {}
        BY <2>2, <2>3 DEF Flow, Answered, Finished, Through
      <4>3. ~AckDue(i, g) /\ status[g] # "STOPPED"
        BY <2>3, <2>5, <4>2 DEF AckDue, Finished
      <4>4. QED
        BY <2>2, <4>1, <4>2, <4>3 DEF Rebuilding
    <3>2. Sums(dir[g][p], p) /\ dir[g][p] \in Slots
      BY <2>2, <2>5, <2>6 DEF Rebuilding
    <3>3. Says(dir[g][p], p)
      BY <2>2, <3>1, <3>2, SumsSay
    <3>4. QED
      BY <3>3 DEF g
  <2>7. CASE ~Lost(p)
    <3>1. reform.map[p] \in Alive /\ status[reform.map[p]] \in Finished
      BY <2>2, <2>3, <2>7, ListFacts
    <3>2. Says(Clean(p), p)
      BY <2>2, CleanSays
    <3>3. CASE g = reform.map[p]
      <4>1. dir[g][p] = Clean(p)
        BY <2>2, <2>7, <3>1, <3>3 DEF Kept, KeptAt, Finished, g
      <4>2. QED
        BY <3>2, <4>1 DEF g
    <3>4. CASE g # reform.map[p]
      <4>1. CameTo(g, p)
        BY <2>2, <2>5, <2>7, <3>4 DEF Kept
      <4>2. status[g] \in Through
        BY <2>3, <2>5 DEF Finished, Through
      <4>3. CASE g \in reform.join
        <5>1. dir[g][p] = Clean(p)
          BY <4>1, <4>2, <4>3 DEF CameTo, g
        <5>2. QED
          BY <3>2, <5>1 DEF g
      <4>4. CASE g \notin reform.join
        <5>1. reform.map[p] \in reform.leave
          BY <2>5, <2>7, <3>4, <4>4 DEF Gone, Lost
        <5>2. dir[g][p] = None \/ dir[g][p] = Clean(p)
          BY <4>1 DEF CameTo
        <5>3. QED
          BY <3>2, <5>1, <5>2 DEF g
      <4>5. QED
        BY <4>3, <4>4
    <3>5. QED
      BY <3>3, <3>4
  <2>8. QED
    BY <2>6, <2>7
<1>2. QED
  BY <1>1, EntriesHold, PTL

(* When all have ended, only the master of a part has its entry: the old   *)
(* masters freed what they sent away and the new ones nothing that came    *)
(* (drc_free_migrated_res, dtc_drc.c:5037), if the survivors reported      *)
(* where the reformer put the parts of the dead.                           *)
THEOREM OneDirectoryLeft == Spec => [](MapsAgree => OneDirectory)
<1>1. TInv /\ PInv /\ EInv => (MapsAgree => OneDirectory)
  <2>1. SUFFICES ASSUME TInv, PInv, EInv, MapsAgree, \A i \in Alive : status[i] = "ENDED",
                        NEW i \in Alive, NEW p \in Part, dir[i][p] # None
                 PROVE  map[i][p] = i
    BY DEF OneDirectory
  <2>2. /\ Kept /\ Rebuilding /\ Reformer \in Alive /\ i \in Inst
    BY <2>1, StepFacts
  <2>3. map[i] = Goal
    BY <2>1, <2>2 DEF PInv, PublishedTogether, Finished, Goal
  <2>4. CASE ~Lost(p) /\ reform.map[p] = i
    BY <2>1, <2>2, <2>3, <2>4 DEF Kept, KeptAt
  <2>5. CASE ~Lost(p) /\ reform.map[p] # i
    BY <2>1, <2>2, <2>3, <2>5 DEF Kept, CameTo
  <2>6. CASE Lost(p)
    BY <2>1, <2>2, <2>3, <2>6 DEF Rebuilding, MapsAgree
  <2>7. QED
    BY <2>4, <2>5, <2>6
<1>2. QED
  BY <1>1, EntriesHold, PTL

(* A reformer that undid a failed remastering has its map and its parts    *)
(* back, with every surviving holder named, and, once the tasks were given *)
(* out, nothing of other parts, wherever it failed and whatever had come   *)
(* by then (drc_stop_remaster, dtc_drc.c:6997), if the survivors report    *)
(* where it put the parts of the dead.                                     *)
THEOREM FailureUndone == Spec => [](MapsAgree => Undone)
<1>1. TInv /\ PInv /\ EInv => (MapsAgree => Undone)
  <2>1. SUFFICES ASSUME TInv, PInv, EInv, MapsAgree, status[Reformer] = "STOPPED"
                 PROVE  Undone
    BY DEF Undone
  <2>2. /\ reform \in Reforms /\ Flow /\ Kept /\ Freed /\ Reformer \in Inst /\ Reformer \in Stay
    BY <2>1, StepFacts
  <2>3. map[Reformer] = reform.map
    BY <2>1, <2>2 DEF Flow, OldMaps
  <2>4. ASSUME NEW p \in Part, reform.map[p] # Reformer, Reformer \in assigned
        PROVE  dir[Reformer][p] = None
    BY <2>1, <2>2, <2>4 DEF Freed, MapsAgree
  <2>5. ASSUME NEW p \in Part, reform.map[p] = Reformer
        PROVE  dir[Reformer][p] \in Partly(p)
    <3>1. ~Lost(p)
      BY <2>2, <2>5, ListFacts DEF Lost
    <3>2. QED
      BY <2>1, <2>2, <2>5, <3>1 DEF Kept, KeptAt
  <2>6. ASSUME NEW p \in Part, reform.map[p] = Reformer
        PROVE  /\ Holders(p) \cup EdpHolders(p) # {} => dir[Reformer][p] # None
               /\ dir[Reformer][p] # None =>
                     /\ Holders(p) \subseteq dir[Reformer][p].copies \cup {dir[Reformer][p].owner}
                     /\ EdpHolders(p) \subseteq dir[Reformer][p].edps
    BY <2>2, <2>5, <2>6, OldEntryCovers
  <2>7. QED
    BY <2>3, <2>4, <2>6 DEF Undone
<1>2. QED
  BY <1>1, EntriesHold, PTL

=============================================================================

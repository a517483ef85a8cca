---------------------------- MODULE DrcRemaster ----------------------------
(***************************************************************************)
(* Remastering: a reform changes the set of instances, and the directory   *)
(* of pages is spread over the new set.  Each part of the directory has a  *)
(* master (part_map).  The reformer computes the new map (target), gives   *)
(* out the tasks, the old masters send the entries of the parts they lose, *)
(* the survivors report the pages whose master died, and the reformer      *)
(* publishes the map and then the end.  One attempt is modelled, to its    *)
(* end or to the undoing of a failed one (dtc_drc.c, dtc_reform.c).        *)
(*                                                                         *)
(* A part stands for one of its pages.  Locks move like pages and are left *)
(* out; so are requests in conversion: the cluster is frozen.  A message   *)
(* may be delivered at any time or never; a send that fails, a thread that *)
(* cannot be created and a timeout are the "fails" of the steps.           *)
(***************************************************************************)
EXTENDS Integers, FiniteSets

CONSTANTS
    Inst,        \* the instances
    Id,          \* their numbers
    Part,        \* the parts of the directory
    Zero,        \* the instance numbered 0: what a cleared map names
    Reforms,     \* the reforms: reformer, before, join, leave, abort, map, held
    None,        \* no instance, no entry
    MaxResends,  \* how often a broadcast is repeated
    MaxLsn       \* the largest log sequence number

ASSUME RemasterAssumption ==
    /\ Id \in [Inst -> Nat]
    /\ \A i, j \in Inst : Id[i] = Id[j] => i = j
    /\ Zero \in Inst /\ None \notin Inst
    /\ IsFiniteSet(Inst) /\ IsFiniteSet(Part)
    /\ MaxResends \in Nat /\ MaxLsn \in Nat

(* The reformer is an instance of the new cluster; a buffer holds a page   *)
(* in a lock mode, or an earlier dirty version with its lsn, or both.      *)
ASSUME ReformsAssumption ==
    \A r \in Reforms :
        /\ r.before \cup r.join \cup r.leave \cup r.abort \subseteq Inst
        /\ r.reformer \in (r.before \cup r.join) \ (r.leave \cup r.abort)
        /\ r.map \in [Part -> Inst]
        /\ r.held \in [Inst -> [Part -> [mode : {"N", "S", "X"}, edp : 0 .. MaxLsn]]]

(* Who leaves or dies was in the old cluster, who joins was not (the table *)
(* of rc_reform.c:655); the reformer was, if anyone stays of it            *)
(* (cms_elect_res_reformer_continue, cms_stat.c:2201).  The masters and    *)
(* the holders of pages are of the old cluster, and a page has one writer. *)
ASSUME ReformListsAssumption ==
    \A r \in Reforms :
        /\ r.leave \cup r.abort \subseteq r.before
        /\ r.join \cap r.before = {} /\ r.leave \cap r.abort = {}
        /\ r.reformer \in r.before
        /\ \A p \in Part : r.map[p] \in r.before
        /\ \A p \in Part, i \in Inst \ r.before :
              r.held[i][p].mode = "N" /\ r.held[i][p].edp = 0
        /\ \A p \in Part, i, j \in Inst :
              r.held[i][p].mode = "X" /\ r.held[j][p].mode = "X" => i = j

VARIABLES
    reform,   \* the reform under way: reform_info, and what the buffers hold
    status,   \* remaster_status of each instance
    map,      \* part_map of each instance
    target,   \* target_part_map of each instance
    dir,      \* global_buf_res of each instance: an entry per part, or None
    task,     \* remaster_task_set of each instance
    assigned, \* instances whose remaster_finish_step is ASSIGN_TASK or later
    due,      \* the number of entries a part's end message announced, or -1
    drm,      \* inst_drm_info of the reformer: what each instance reported
    assign,   \* drc_assign_remaster_task: instances left, and the one awaited
    sent,     \* the instances that have sent their page reports
    owed,     \* of each instance, those whose report acknowledgement is due
    pub,      \* the reformer's broadcast: step, repetition, acknowledgements
    net       \* messages under way

vars == <<reform, status, map, target, dir, task, assigned, due, drm, assign, sent, owed, pub, net>>

-----------------------------------------------------------------------------
Reformer == reform.reformer
After == (reform.before \cup reform.join) \ (reform.leave \cup reform.abort)
(* get_alive_bitmap_by_reform_info *)
Alive == After \cup reform.leave
Gone == reform.leave \cup reform.abort
Stay == reform.before \ Gone
Holds(i, p) == reform.held[i][p].mode # "N" \/ reform.held[i][p].edp > 0

(* DRC_PART_REMASTER_MNGR is read by the handlers below only between the   *)
(* start of the remastering and its end: the version and status checks.    *)
Working == {"PREPARE", "ASSIGN_TASK", "MIGRATE", "RECOVERY", "PUBLISH", "FAIL"}

(* drc_update_remaster_local_status: a failure is not overwritten.         *)
NewStatus(i, s) == [status EXCEPT ![i] = IF @ = "FAIL" THEN @ ELSE s]

(* drc_remaster_fail: a follower that fails tells the reformer, once.      *)
FailNotice(i) ==
    IF i = Reformer \/ status[i] = "FAIL" THEN {}
    ELSE {[type |-> "notify", src |-> i, dst |-> Reformer, status |-> "FAIL"]}

Fail(i) ==
    /\ status' = NewStatus(i, "FAIL")
    /\ net' = net \cup FailNotice(i)

-----------------------------------------------------------------------------
(* Entries of the directory.                                               *)

Edp(i, h) == IF h.edp > 0 THEN {i} ELSE {}

(* drc_rcy_page_info, no entry yet.                                        *)
NewEntry(i, h) ==
    [owner  |-> IF h.mode = "X" THEN i ELSE None,
     copies |-> IF h.mode = "S" THEN {i} ELSE {},
     edps   |-> Edp(i, h),
     latest |-> IF h.edp > 0 THEN i ELSE None,
     lsn    |-> h.edp]

(* drc_update_page_info                                                    *)
UpdatePageInfo(e, i, h) ==
    [owner  |-> IF h.mode = "X" /\ e.owner = None THEN i ELSE e.owner,
     copies |-> IF h.mode = "S" THEN e.copies \cup {i} ELSE e.copies,
     edps   |-> e.edps \cup Edp(i, h),
     latest |-> IF h.edp > e.lsn THEN i ELSE e.latest,
     lsn    |-> IF h.edp > e.lsn THEN h.edp ELSE e.lsn]

(* drc_rcy_page_info                                                       *)
Reported(e, i, p) ==
    LET h == reform.held[i][p]
    IN  IF e = None THEN NewEntry(i, h) ELSE UpdatePageInfo(e, i, h)

(* A slip: an entry nobody is left in stays.                               *)
Cleaned_KeepsEmpty(e, G) ==
    IF e = None THEN None
    ELSE [owner  |-> IF e.owner \in G THEN None ELSE e.owner,
          copies |-> e.copies \ G,
          edps   |-> e.edps \ G,
          latest |-> IF e.latest \in G THEN None ELSE e.latest,
          lsn    |-> IF e.latest \in G THEN 0 ELSE e.lsn]

(* drc_clean_page_owner_by_part for the instances of G; an entry nobody is *)
(* left in is removed.                                                     *)
Cleaned(e, G) ==
    IF e = None THEN None
    ELSE LET left == [owner  |-> IF e.owner \in G THEN None ELSE e.owner,
                      copies |-> e.copies \ G,
                      edps   |-> e.edps \ G,
                      latest |-> IF e.latest \in G THEN None ELSE e.latest,
                      lsn    |-> IF e.latest \in G THEN 0 ELSE e.lsn]
         IN  IF left.owner = None /\ left.copies = {} /\ left.edps = {} THEN None ELSE left

Count(e) == IF e = None THEN 0 ELSE 1

-----------------------------------------------------------------------------
(* The new map (drc_execute_remaster).                                     *)

(* How many parts each of S is to have: the first ones one more.           *)
Expected(i, S) ==
    LET n == Cardinality(Part)
        k == Cardinality(S)
    IN  n \div k + (IF Cardinality({j \in S : Id[j] < Id[i]}) < n % k THEN 1 ELSE 0)

(* drc_scaleout_remaster and drc_scalein_remaster: a part leaves its master *)
(* for a joining instance, or because the master goes.                      *)
NewMaps ==
    {t \in [Part -> After] :
        /\ \A i \in After : Cardinality({p \in Part : t[p] = i}) = Expected(i, After)
        /\ \A p \in Part : t[p] = map[Reformer][p] \/ t[p] \in reform.join
                              \/ map[Reformer][p] \in Gone}

(* The tasks to migrate: none for what an aborted instance had.            *)
Tasks(t) ==
    {[part |-> p, exp |-> map[Reformer][p], imp |-> t[p]] :
        p \in {q \in Part : t[q] # map[Reformer][q] /\ map[Reformer][q] \notin reform.abort}}

TaskOf(i, t) == [type |-> "task", src |-> Reformer, dst |-> i, tasks |-> Tasks(t)]

Exporters(T) == {k.exp : k \in T}

Idle == [left |-> {}, awaits |-> None]
Quiet == [step |-> "none", round |-> 0, acks |-> {}]
Others == Alive \ {Reformer}

(* drc_remaster_is_ready                                                   *)
Ready(s) == \A i \in Alive : drm[i] = s

-----------------------------------------------------------------------------
(* What the directory says before the reform.                              *)
FirstEntry(r, p) ==
    LET hs == {i \in r.before : r.held[i][p].mode # "N"}
        xs == {i \in hs : r.held[i][p].mode = "X"}
        es == {i \in r.before : r.held[i][p].edp > 0}
        o  == IF hs = {} THEN None ELSE IF xs # {} THEN CHOOSE i \in xs : TRUE ELSE CHOOSE i \in hs : TRUE
        l  == IF es = {} THEN None
              ELSE CHOOSE i \in es : \A j \in es : r.held[j][p].edp <= r.held[i][p].edp
    IN  IF hs = {} /\ es = {} THEN None
        ELSE [owner |-> o, copies |-> hs \ {o}, edps |-> es, latest |-> l,
              lsn |-> IF l = None THEN 0 ELSE r.held[l][p].edp]

Init ==
    /\ reform \in Reforms
    /\ status = [i \in Inst |-> "IDLE"]
    /\ map = [i \in Inst |-> IF i \in reform.before THEN reform.map ELSE [p \in Part |-> Zero]]
    /\ target = [i \in Inst |-> [p \in Part |-> Zero]]
    /\ dir = [i \in Inst |-> [p \in Part |->
                  IF i \in reform.before /\ reform.map[p] = i THEN FirstEntry(reform, p) ELSE None]]
    /\ task = [i \in Inst |-> {}]
    /\ \E s \in BOOLEAN :
          assigned = {i \in reform.before : s \/ Cardinality(reform.before) > 1}
    /\ due = [i \in Inst |-> [p \in Part |-> -1]]
    /\ drm = [i \in Inst |-> "PREPARE"]
    /\ assign = Idle
    /\ sent = {}
    /\ owed = [i \in Inst |-> {}]
    /\ pub = Quiet
    /\ net = {}

(* rc_start_new_reform up to drc_start_remaster.                           *)
Start(i) ==
    /\ i \in Alive /\ status[i] = "IDLE"
    /\ status' = [status EXCEPT ![i] = "PREPARE"]
    /\ UNCHANGED <<reform, map, target, dir, task, assigned, due, drm, assign, sent, owed, pub, net>>

(* drc_prepare_remaster: the reformer has compared parameters with all, or *)
(* failed; every instance says that it is ready.                           *)
Prepare(i) ==
    /\ status[i] = "PREPARE"
    /\ \/ /\ status' = NewStatus(i, "ASSIGN_TASK")
          /\ IF i = Reformer
             THEN drm' = [drm EXCEPT ![i] = "ASSIGN_TASK"] /\ UNCHANGED net
             ELSE /\ net' = net \cup {[type |-> "notify", src |-> i, dst |-> Reformer,
                                        status |-> "ASSIGN_TASK"]}
                  /\ UNCHANGED drm
       \/ Fail(i) /\ UNCHANGED drm
    /\ UNCHANGED <<reform, map, target, dir, task, assigned, due, assign, sent, owed, pub>>

(* drc_process_remaster_status_notify                                      *)
HandleNotify(m) ==
    /\ m.type = "notify"
    /\ net' = net \ {m}
    /\ IF status[Reformer] \in Working \cup {"DONE"}
       THEN /\ drm' = [drm EXCEPT ![m.src] = m.status]
            /\ status' = IF m.status = "FAIL" THEN NewStatus(Reformer, "FAIL") ELSE status
       ELSE UNCHANGED <<drm, status>>
    /\ UNCHANGED <<reform, map, target, dir, task, assigned, due, assign, sent, owed, pub>>

-----------------------------------------------------------------------------
(* Assigning the tasks (reformer).                                         *)

(* drc_execute_remaster, when all are ready; drc_assign_remaster_task is   *)
(* the steps that follow.                                                  *)
Execute ==
    /\ status[Reformer] = "ASSIGN_TASK" /\ assign = Idle /\ Ready("ASSIGN_TASK")
    /\ \E t \in NewMaps :
          /\ target' = [target EXCEPT ![Reformer] = t]
          /\ task' = [task EXCEPT ![Reformer] = Tasks(t)]
    /\ IF Others = {}
       THEN /\ status' = NewStatus(Reformer, "MIGRATE")
            /\ assigned' = assigned \cup {Reformer}
            /\ UNCHANGED assign
       ELSE /\ assign' = [left |-> Others, awaits |-> None]
            /\ assigned' = assigned \ {Reformer}
            /\ UNCHANGED status
    /\ UNCHANGED <<reform, map, dir, due, drm, sent, owed, pub, net>>

(* drc_send_remaster_task_msg: those that export come first.               *)
SendTask(i) ==
    /\ i \in assign.left /\ assign.awaits = None
    /\ i \in Exporters(task[Reformer]) \/ assign.left \cap Exporters(task[Reformer]) = {}
    /\ assign' = [left |-> assign.left \ {i}, awaits |-> i]
    /\ net' = net \cup {TaskOf(i, target[Reformer])}
    /\ UNCHANGED <<reform, status, map, target, dir, task, assigned, due, drm, sent, owed, pub>>

(* The answer to the task; after the last one the reformer migrates too.   *)
HandleTaskAck(m) ==
    /\ m.type = "task_ack"
    /\ net' = net \ {m}
    /\ IF m.src # assign.awaits THEN UNCHANGED <<assign, assigned, status>>
       ELSE /\ assign' = [assign EXCEPT !.awaits = None]
            /\ IF assign.left = {}
               THEN /\ status' = NewStatus(Reformer, "MIGRATE")
                    /\ assigned' = assigned \cup {Reformer}
               ELSE UNCHANGED <<assigned, status>>
    /\ UNCHANGED <<reform, map, target, dir, task, due, drm, sent, owed, pub>>

(* A slip: the reformer waits for ever.                                    *)
GiveUp_Never ==
    /\ FALSE
    /\ UNCHANGED vars

(* A wait of the reformer ends by timeout or by a failed send:             *)
(* drc_remaster_wait_all_node_ready, the task messages, the broadcasts.    *)
GiveUp ==
    /\ \/ status[Reformer] \in {"ASSIGN_TASK", "PUBLISH"}
       \/ assign # Idle \/ pub # Quiet
    /\ status' = NewStatus(Reformer, "FAIL")
    /\ assign' = Idle /\ pub' = Quiet
    /\ UNCHANGED <<reform, map, target, dir, task, assigned, due, drm, sent, owed, net>>

(* drc_accept_remaster_task: the set of tasks is taken, the map is not.    *)
HandleTask(m) ==
    /\ m.type = "task"
    /\ IF status[m.dst] \notin Working
       THEN net' = net \ {m} /\ UNCHANGED <<status, task>>
       ELSE /\ net' = (net \ {m}) \cup {[type |-> "task_ack", src |-> m.dst, dst |-> m.src]}
            /\ IF status[m.dst] = "ASSIGN_TASK"
               THEN /\ status' = NewStatus(m.dst, "MIGRATE")
                    /\ task' = [task EXCEPT ![m.dst] = m.tasks]
               ELSE UNCHANGED <<status, task>>
    /\ UNCHANGED <<reform, map, target, dir, assigned, due, drm, assign, sent, owed, pub>>

-----------------------------------------------------------------------------
(* Migrating.                                                              *)

TaskDone(i) == {[type |-> "done_task", src |-> i, dst |-> Reformer]}

(* local_task_set                                                          *)
Exports(i) == {k \in task[i] : k.exp = i}

(* The messages of drc_migrate_master_blk: the entries, then their number. *)
Outgoing(i, d) ==
    {[type |-> "data", src |-> i, dst |-> k.imp, part |-> k.part, entry |-> d[k.part]] :
         k \in {l \in Exports(i) : d[l.part] # None}}
    \cup {[type |-> "end", src |-> i, dst |-> k.imp, part |-> k.part,
           count |-> Count(d[k.part])] : k \in Exports(i)}

(* drc_remaster_migrate_clean_res_owner, on the parts the instance has: of *)
(* the instances g[p] in part p.                                           *)
CleanLocal(i, g) ==
    [p \in Part |-> IF map[i][p] = i THEN Cleaned(dir[i][p], g[p]) ELSE dir[i][p]]

(* drc_remaster_step_migrate of an instance that stays or leaves.  Where   *)
(* the sending fails, some of it is done.  Where the cleaning fails, some  *)
(* of it is done, and the step goes on: nothing more is sent, for the      *)
(* status is FAIL by then, and one that has nothing to send does the rest  *)
(* of the step.                                                            *)
Migrate(i) ==
    /\ status[i] = "MIGRATE" /\ i \notin reform.join
    /\ \/ LET d == CleanLocal(i, [p \in Part |-> Gone])
          IN  /\ dir' = [dir EXCEPT ![i] = d]
              /\ \/ /\ status' = NewStatus(i, IF i \in reform.leave THEN "PUBLISH" ELSE "RECOVERY")
                    /\ net' = net \cup Outgoing(i, d)
                                  \cup (IF i \in reform.leave THEN TaskDone(i) ELSE {})
                    /\ assigned' = assigned \cup {i}
                 \/ /\ Exports(i) # {} \/ i \in reform.leave
                    /\ status' = NewStatus(i, "FAIL")
                    /\ UNCHANGED assigned
                    /\ \E M \in SUBSET Outgoing(i, d) : net' = net \cup M \cup FailNotice(i)
       \/ \E g \in [Part -> SUBSET Gone], ends \in BOOLEAN :
             /\ Gone # {}
             /\ IF i \in reform.leave THEN ends => Exports(i) = {} ELSE ends <=> Exports(i) = {}
             /\ dir' = [dir EXCEPT ![i] = CleanLocal(i, g)]
             /\ status' = NewStatus(i, "FAIL")
             /\ assigned' = IF ends THEN assigned \cup {i} ELSE assigned
             /\ net' = net \cup FailNotice(i)
                           \cup (IF ends /\ i \in reform.leave THEN TaskDone(i) ELSE {})
    /\ UNCHANGED <<reform, map, target, task, due, drm, assign, sent, owed, pub>>

(* drc_process_buf_master_blk                                              *)
HandleData(m) ==
    /\ m.type = "data"
    /\ net' = net \ {m}
    /\ dir' = IF status[m.dst] \in Working /\ dir[m.dst][m.part] = None
              THEN [dir EXCEPT ![m.dst][m.part] = m.entry] ELSE dir
    /\ UNCHANGED <<reform, status, map, target, task, assigned, due, drm, assign, sent, owed, pub>>

(* drc_process_mgrt_part_end: kept only if the task is known here.         *)
HandleEnd(m) ==
    /\ m.type = "end"
    /\ net' = net \ {m}
    /\ due' = IF /\ status[m.dst] \in Working
                 /\ [part |-> m.part, exp |-> m.src, imp |-> m.dst] \in task[m.dst]
              THEN [due EXCEPT ![m.dst][m.part] = m.count] ELSE due
    /\ UNCHANGED <<reform, status, map, target, dir, task, assigned, drm, assign, sent, owed, pub>>

(* A slip: the end messages are enough.                                    *)
AllCame_Ended(i) == \A k \in task[i] : k.imp = i => due[i][k.part] >= 0

(* drc_remaster_wait_migrate_finish: every part has its entries.           *)
AllCame(i) == \A k \in task[i] : k.imp = i => due[i][k.part] = Count(dir[i][k.part])

(* drc_remaster_step_migrate of an instance that joins.                    *)
Immigrate(i) ==
    /\ status[i] = "MIGRATE" /\ i \in reform.join
    /\ \/ /\ AllCame(i)
          /\ status' = NewStatus(i, "PUBLISH")
          /\ net' = net \cup TaskDone(i)
          /\ assigned' = assigned \cup {i}
       \/ Fail(i) /\ UNCHANGED assigned
    /\ UNCHANGED <<reform, map, target, dir, task, due, drm, assign, sent, owed, pub>>

-----------------------------------------------------------------------------
(* Rebuilding the parts of the instances that aborted.                     *)

(* drc_collect_page_info: what the instance holds of their parts.          *)
ToReport(i) == {p \in Part : map[i][p] \in reform.abort /\ Holds(i, p)}

(* drc_send_page_info2master, for the parts P: the new masters are told,   *)
(* which for its own parts is the instance itself.                         *)
Reports(i, P) ==
    {[type |-> "report", src |-> i, dst |-> d, parts |-> {p \in P : target[i][p] = d}] :
        d \in {target[i][p] : p \in P} \ {i}}
Noted(i, P) ==
    [p \in Part |-> IF p \in P /\ target[i][p] = i THEN Reported(dir[i][p], i, p) ELSE dir[i][p]]

(* drc_remaster_recovery.  Where some reports cannot be collected or sent  *)
(* the instance has failed; the others are sent, and if they are answered  *)
(* (drc_send_rest_page_info returns a success) the reformer is still told  *)
(* that the task is done.                                                  *)
Recover(i) ==
    /\ status[i] = "RECOVERY" /\ i \notin sent
    /\ \E P \in SUBSET ToReport(i) :
          LET to == {target[i][p] : p \in P}
          IN  /\ to \subseteq Alive
              /\ dir' = [dir EXCEPT ![i] = Noted(i, P)]
              /\ \/ /\ P = ToReport(i)
                    /\ sent' = sent \cup {i}
                    /\ owed' = [owed EXCEPT ![i] = to \ {i}]
                    /\ net' = net \cup Reports(i, P)
                    /\ UNCHANGED status
                 \/ /\ status' = NewStatus(i, "FAIL")
                    /\ \E M \in SUBSET TaskDone(i) :
                          /\ i = Reformer => M = {}
                          /\ net' = net \cup Reports(i, P) \cup FailNotice(i) \cup M
                    /\ UNCHANGED <<sent, owed>>
    /\ UNCHANGED <<reform, map, target, task, assigned, due, drm, assign, pub>>

(* drc_process_send_page_info                                              *)
HandleReport(m) ==
    /\ m.type = "report"
    /\ IF status[m.dst] \notin Working
       THEN net' = net \ {m} /\ UNCHANGED dir
       ELSE /\ net' = (net \ {m}) \cup {[type |-> "report_ack", src |-> m.dst, dst |-> m.src]}
            /\ dir' = [dir EXCEPT ![m.dst] = [p \in Part |->
                          IF p \in m.parts THEN Reported(@[p], m.src, p) ELSE @[p]]]
    /\ UNCHANGED <<reform, status, map, target, task, assigned, due, drm, assign, sent, owed, pub>>

(* drc_process_remaster_recovery_task_ack                                  *)
HandleReportAck(m) ==
    /\ m.type = "report_ack"
    /\ net' = net \ {m}
    /\ owed' = [owed EXCEPT ![m.dst] = @ \ {m.src}]
    /\ UNCHANGED <<reform, status, map, target, dir, task, assigned, due, drm, assign, sent, pub>>

(* drc_remaster_recovery_is_complete                                       *)
Acknowledged(i) == i \in sent /\ owed[i] = {}

(* drc_remaster_step_recover, the end: drc_remaster_task_ack.              *)
Recovered(i) ==
    /\ status[i] = "RECOVERY" /\ i \in sent
    /\ \/ /\ Acknowledged(i)
          /\ status' = NewStatus(i, "PUBLISH")
          /\ IF i = Reformer THEN drm' = [drm EXCEPT ![i] = "PUBLISH"] /\ UNCHANGED net
             ELSE net' = net \cup TaskDone(i) /\ UNCHANGED drm
       \/ Fail(i) /\ UNCHANGED drm
    /\ UNCHANGED <<reform, map, target, dir, task, assigned, due, assign, sent, owed, pub>>

(* drc_process_remaster_task_ack                                           *)
HandleTaskDone(m) ==
    /\ m.type = "done_task"
    /\ net' = net \ {m}
    /\ drm' = IF status[Reformer] \in Working /\ drm[m.src] # "FAIL"
              THEN [drm EXCEPT ![m.src] = "PUBLISH"] ELSE drm
    /\ UNCHANGED <<reform, status, map, target, dir, task, assigned, due, assign, sent, owed, pub>>

-----------------------------------------------------------------------------
(* Publishing.                                                             *)

(* mes_broadcast_data_and_wait_with_retry: each repetition asks all again. *)
Broadcast(type, round) ==
    {[type |-> type, src |-> Reformer, dst |-> i, round |-> round, map |-> target[Reformer]] :
        i \in Others}

(* drc_remaster_step_publish, first the map...                             *)
PublishTarget ==
    /\ status[Reformer] = "PUBLISH" /\ pub = Quiet /\ Ready("PUBLISH")
    /\ pub' = [step |-> "target", round |-> 0, acks |-> {}]
    /\ net' = net \cup Broadcast("target", 0)
    /\ UNCHANGED <<reform, status, map, target, dir, task, assigned, due, drm, assign, sent, owed>>

(* ... then the end, when all have the map...                              *)
PublishDone ==
    /\ pub.step = "target" /\ pub.acks = Others
    /\ map' = [map EXCEPT ![Reformer] = target[Reformer]]
    /\ pub' = [step |-> "done", round |-> 0, acks |-> {}]
    /\ net' = net \cup Broadcast("done", 0)
    /\ UNCHANGED <<reform, status, target, dir, task, assigned, due, drm, assign, sent, owed>>

(* ... and when all have that, it is done here too.                        *)
Published ==
    /\ pub.step = "done" /\ pub.acks = Others
    /\ status' = NewStatus(Reformer, "DONE")
    /\ pub' = Quiet
    /\ UNCHANGED <<reform, map, target, dir, task, assigned, due, drm, assign, sent, owed, net>>

Resend ==
    /\ pub # Quiet /\ pub.acks # Others /\ pub.round < MaxResends
    /\ pub' = [pub EXCEPT !.round = @ + 1, !.acks = {}]
    /\ net' = net \cup Broadcast(pub.step, pub.round + 1)
    /\ UNCHANGED <<reform, status, map, target, dir, task, assigned, due, drm, assign, sent, owed>>

Ack(m) == [type |-> "ack", src |-> m.dst, dst |-> m.src, step |-> m.type, round |-> m.round]

(* drc_accept_target_part                                                  *)
HandleTarget(m) ==
    /\ m.type = "target"
    /\ IF status[m.dst] \in Working \ {"FAIL"}
       THEN /\ map' = [map EXCEPT ![m.dst] = m.map]
            /\ net' = (net \ {m}) \cup {Ack(m)}
       ELSE net' = net \ {m} /\ UNCHANGED map
    /\ UNCHANGED <<reform, status, target, dir, task, assigned, due, drm, assign, sent, owed, pub>>

(* drc_accept_remaster_done                                                *)
HandleDone(m) ==
    /\ m.type = "done"
    /\ IF status[m.dst] = "PUBLISH"
       THEN /\ status' = NewStatus(m.dst, "DONE")
            /\ net' = (net \ {m}) \cup {Ack(m)}
       ELSE net' = net \ {m} /\ UNCHANGED status
    /\ UNCHANGED <<reform, map, target, dir, task, assigned, due, drm, assign, sent, owed, pub>>

(* A slip: an answer to an earlier broadcast counts too.                   *)
CountsFor_AnyStep(m) == pub # Quiet

(* An answer counts for the broadcast it answers: the rsn.                 *)
CountsFor(m) == pub.step = m.step /\ pub.round = m.round

HandleAck(m) ==
    /\ m.type = "ack"
    /\ net' = net \ {m}
    /\ pub' = IF CountsFor(m) THEN [pub EXCEPT !.acks = @ \cup {m.src}] ELSE pub
    /\ UNCHANGED <<reform, status, map, target, dir, task, assigned, due, drm, assign, sent, owed>>

-----------------------------------------------------------------------------
(* The end, and the undoing.                                               *)

(* A slip: what was sent away is kept.                                     *)
FreeMigrated_Nothing(i) == dir[i]

(* drc_free_migrated_res: the entries that were sent away.                 *)
FreeMigrated(i) == [p \in Part |->
    IF \E k \in task[i] : k.part = p /\ k.exp = i THEN None ELSE dir[i][p]]

(* drc_clean_remaster_res, after the redo of the aborted was applied.      *)
CleanRemasterRes(i) ==
    /\ status[i] = "DONE" /\ status[Reformer] \in {"DONE", "ENDED"}
    /\ dir' = [dir EXCEPT ![i] = FreeMigrated(i)]
    /\ task' = [task EXCEPT ![i] = {}]
    /\ status' = [status EXCEPT ![i] = "ENDED"]
    /\ UNCHANGED <<reform, map, target, assigned, due, drm, assign, sent, owed, pub, net>>

(* A slip: what came is kept.                                              *)
FreeImmigrated_Nothing(i) == dir[i]

(* drc_free_immigrated_res                                                 *)
FreeImmigrated(i) == [p \in Part |->
    IF target[i][p] = i /\ reform.map[p] # i THEN None ELSE dir[i][p]]

(* drc_stop_remaster, by the next reform: nothing is undone if the tasks   *)
(* were not all given out.  An instance that does not stay does not come   *)
(* back to it.                                                             *)
StopRemaster(i) ==
    /\ i \in Stay /\ status[i] = "FAIL"
    /\ i = Reformer => assign = Idle /\ pub = Quiet
    /\ IF i \in assigned
       THEN /\ dir' = [dir EXCEPT ![i] = FreeImmigrated(i)]
            /\ map' = [map EXCEPT ![i] = reform.map]
       ELSE UNCHANGED <<dir, map>>
    /\ task' = [task EXCEPT ![i] = {}]
    /\ drm' = IF i = Reformer THEN [j \in Inst |-> "PREPARE"] ELSE drm
    /\ status' = [status EXCEPT ![i] = "STOPPED"]
    /\ UNCHANGED <<reform, target, assigned, due, assign, sent, owed, pub, net>>

Receive(m) ==
    \/ HandleNotify(m) \/ HandleTask(m) \/ HandleTaskAck(m)
    \/ HandleData(m) \/ HandleEnd(m) \/ HandleTaskDone(m)
    \/ HandleReport(m) \/ HandleReportAck(m)
    \/ HandleTarget(m) \/ HandleDone(m) \/ HandleAck(m)

Step(i) ==
    \/ Start(i) \/ Prepare(i) \/ Migrate(i) \/ Immigrate(i)
    \/ Recover(i) \/ Recovered(i) \/ CleanRemasterRes(i) \/ StopRemaster(i)

Direct == Execute \/ PublishTarget \/ PublishDone \/ Published \/ Resend \/ GiveUp

Next ==
    \/ \E i \in Inst : Step(i)
    \/ \E i \in Inst : SendTask(i)
    \/ Direct
    \/ \E m \in net : Receive(m)

Spec == Init /\ [][Next]_vars

(* The remaster thread of the reformer runs, and its waits end.            *)
FairSpec ==
    /\ Spec
    /\ \A i \in Inst : WF_vars(i = Reformer /\ Step(i))
    /\ WF_vars(Execute) /\ WF_vars(GiveUp)

-----------------------------------------------------------------------------
Maps == [Part -> Inst]
Statuses == Working \cup {"IDLE", "DONE", "ENDED", "STOPPED"}
Entries ==
    [owner : Inst \cup {None}, copies : SUBSET Inst, edps : SUBSET Inst,
     latest : Inst \cup {None}, lsn : Nat]

ASSUME NoneAssumption == None \notin Entries

(* Every variable has its type, and an entry that exists names an instance *)
(* (drc_clean_page_owner_by_part removes the others, dtc_drc.c:2079).      *)
RemasterTypeOK ==
    /\ reform \in Reforms
    /\ status \in [Inst -> Statuses]
    /\ map \in [Inst -> Maps] /\ target \in [Inst -> Maps]
    /\ \A i \in Inst, p \in Part : dir[i][p] # None =>
          /\ dir[i][p] \in Entries
          /\ dir[i][p].owner # None \/ dir[i][p].copies \cup dir[i][p].edps # {}
    /\ \A i \in Inst : task[i] \subseteq [part : Part, exp : Inst, imp : Inst]
    /\ assigned \subseteq Inst
    /\ due \in [Inst -> [Part -> {-1, 0, 1}]]
    /\ drm \in [Inst -> Statuses]
    /\ assign.left \subseteq Inst /\ assign.awaits \in Inst \cup {None}
    /\ sent \subseteq Inst /\ owed \in [Inst -> SUBSET Inst]
    /\ pub.acks \subseteq Inst /\ pub.round \in 0..MaxResends

Finished == {"DONE", "ENDED"}

(* When the remastering is done at the reformer it is done everywhere, and *)
(* every instance has the reformer's map: no two masters for one page      *)
(* (drc_remaster_step_publish, dtc_drc.c:6677; acknowledgements of the     *)
(* first broadcast, or of an earlier repetition, arrive during the second).*)
PublishedTogether ==
    status[Reformer] \in Finished =>
        \A i \in Alive : status[i] \in Finished /\ map[i] = target[Reformer]

Holders(p) == {i \in Inst \ Gone : reform.held[i][p].mode # "N"}
Writers(p) == {i \in Inst \ Gone : reform.held[i][p].mode = "X"}
EdpHolders(p) == {i \in Inst \ Gone : reform.held[i][p].edp > 0}

(* The entry e says who still holds the page of part p.                    *)
Says(e, p) ==
    IF Holders(p) \cup EdpHolders(p) = {} THEN e = None
    ELSE /\ e # None
         /\ e.copies \cup ({e.owner} \ {None}) = Holders(p)
         /\ Writers(p) \subseteq {e.owner}
         /\ e.edps = EdpHolders(p)
         /\ \/ /\ e.latest \in EdpHolders(p)
               /\ \A i \in EdpHolders(p) : reform.held[i][p].edp <= reform.held[e.latest][p].edp
            \/ e.latest = None /\ \/ EdpHolders(p) = {}
                                  \/ \E i \in Gone : reform.held[i][p].edp > 0

(* When the remastering is done, the master of a part has its entry, and   *)
(* the entry names exactly the surviving holders, the surviving earlier    *)
(* dirty versions and the latest of them, whatever the order in which the  *)
(* entries, the counts and the reports came (drc_remaster_step_migrate,    *)
(* dtc_drc.c:5793; drc_collect_page_info, dtc_drc.c:6450).                 *)
Rebuilt ==
    status[Reformer] \in Finished =>
        \A p \in Part : Says(dir[target[Reformer][p]][p], p)

(* As Rebuilt; when an instance leaves, an entry it sent may still be on   *)
(* its way to an instance that does not wait for it (only one that joins   *)
(* calls drc_remaster_wait_migrate_finish, dtc_drc.c:5811), and is then    *)
(* missing, never wrong.                                                   *)
RebuiltOrMissing ==
    status[Reformer] \in Finished =>
        \A p \in Part :
            LET e == dir[target[Reformer][p]][p]
            IN  Says(e, p) \/ (e = None /\ reform.map[p] \in reform.leave)

(* When all have ended, only the master of a part has its entry: what was  *)
(* sent away is freed, and nothing that came is                            *)
(* (drc_free_migrated_res, dtc_drc.c:5037).                                *)
OneDirectory ==
    (\A i \in Alive : status[i] = "ENDED") =>
        \A i \in Alive, p \in Part : dir[i][p] # None => map[i][p] = i

(* A reformer that undid a failed remastering has its map and its parts    *)
(* back, with every surviving holder named, and nothing of other parts     *)
(* (drc_stop_remaster, dtc_drc.c:6997); unless it failed while it gave out *)
(* the tasks, when what an early exporter sent stays with it.              *)
Undone ==
    status[Reformer] = "STOPPED" =>
        /\ map[Reformer] = reform.map
        /\ \A p \in Part :
             LET e == dir[Reformer][p]
             IN  IF reform.map[p] # Reformer THEN Reformer \in assigned => e = None
                 ELSE /\ Holders(p) \cup EdpHolders(p) # {} => e # None
                      /\ e # None => /\ Holders(p) \subseteq e.copies \cup {e.owner}
                                     /\ EdpHolders(p) \subseteq e.edps

(* The remastering of the reformer ends, whatever the other instances and  *)
(* the messages do (rc_master_start_remaster waits for it,                 *)
(* dtc_reform.c:434).                                                      *)
ReformerEnds ==
    (status[Reformer] = "PREPARE") ~> (status[Reformer] \in Finished \cup {"STOPPED"})
=============================================================================

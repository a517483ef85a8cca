# A TLA+ verification of oGRAC's cluster services

oGRAC is a relational database in which several instances (at most 64) open the
same database files on shared storage and all of them write. What keeps them from
corrupting each other is the *cache fusion* layer under `src/pkg/src/cluster`: a
page travels from the memory of one instance to that of another under a lock that
a *master* instance administers, and reaches the disk through the checkpoint of
whichever instance has it. Around it stand distributed locks and latches, waits for
transactions of other instances with their deadlock search, and the remastering that
spreads the directory anew when instances come and go. This project models these
services and checks them with TLC on small clusters. With TLAPS it proves, for clusters
of any size, the coherence of the page service and that it implements its abstract
specification, with and without the checkpoint; the exclusion of the distributed locks;
the waits for transactions; the soundness of the deadlock search; and, for a remastering,
the common publication of the new map, that the directory's entries are moved, rebuilt or
freed and never doubled, and that a failure is undone.

## 1. Inventory

| Part (source) | State | Operations | Hard because | Correct when | Here |
|---|---|---|---|---|---|
| DRC, page directory (`cluster/dtc_drc.c`) | per page `drc_buf_res_t`: owner, mode, readonly copies, edp map, converting request, queue | request, claim, convert next, recycle, clean edp | requests, claims and returning threads meet an entry that others changed; the entry is unlocked during invalidations | entry consistent; every holder known; every waiter answered | DrcBufRes, DcsPage, DcsRecycle |
| DCS, page transfer (`cluster/dtc_dcs.c`) | messages, waiting sessions, the ctrl's lock mode and flags | ask master, ask owner, answer, claim, invalidate, edp cleaning | answers late or dropped, messages overtake each other, retries | one writer or many readers; holders see the last version | DcsPage, DcsCkpt |
| Clustered access (`cluster/dtc_buffer.c`) | load status of the ctrl | read page, finish, give up | failure in the middle | a session uses the page under a sufficient lock | DcsPage |
| Buffer pool (`kernel/buffer`) | `buf_ctrl_t`, LRU lists, latches | evict, invalidate, latch | eviction races requests | the only copy of a version is never given away | DcsRecycle (flags only) |
| Checkpoint (`kernel/persist/knl_ckpt.c`, `cluster/dtc_ckpt.c`) | queue, group, four edp groups | prepare, write, ask owner, clean edp | a page is dirty in several instances, messages are not acknowledged | redo is given up only after a write | DcsCkpt |
| MES (`mec`) | rooms per session, queues, pools | send, receive with timeout, answer | reordering between worker threads | an answer reaches its own request only | inside DcsPage, TxnWait, DrcRemaster |
| DLS (`cluster/dtc_dls.c`) | lock and latch entries, local copies | lock, try lock, S, X and timed latches, upgrade, release, recycle | as DRC, plus spinning sessions and several releases per request | one exclusive holder; the master knows the owners; every call ends | DrcLockRes, DlsLock |
| Reform, remaster (`rc/rc_reform.c`, `dtc_drc.c` 5417-6830, `dtc_reform.c`) | member sets, partition map, tasks, migrating entries | prepare, assign, migrate, recover, publish, undo | messages late, lost and repeated; any step fails on any instance | one map for all; entries neither lost nor doubled; a failure undone | DrcRemaster (one attempt) |
| Instance recovery (`cluster/dtc_recovery.c`) | recovery sets, replay positions | analyse, replay | partial pages, several logs | every committed change replayed | plan, late |
| Remote transactions (`cluster/dtc_tran.c`, `dtc_dls.c` 1834-2070, `kernel/xact/knl_tran.c`) | two maps of waiters, SCN of each instance | wait, register, end, awake | lost or early wake-up, reused items and slots | waits end, and only after the transaction | TxnWait |
| Deadlock search (`cluster/dtc_smon.c`) | waits of sessions, marks and snapshots of the search | walk, recheck, flag | the waits change during the walk | only real rings are broken | SmonDeadlock |
| CMS (`cms`) | votes, heart beats, disk locks | vote, lock, fence | split brain | one master, fenced before reform | plan |
| Redo, transactions, undo, tables, indexes, catalog (`kernel`) | | | local engine above the page service | | not modelled |
| SQL, server, drivers, common library, tools, scripts | | | I/O, parsing, libraries | | not modelled |

`PROJECT.json` lists every part with its status, and under "hazards" the places in
the code that are hard to test, with the properties that watch them.

How the modelled parts interact: a session that lacks a lock asks the page's master
(`MES_CMD_ASK_MASTER`). The master grants the page (no entry yet), says that the
requester is the owner already, refuses, queues the request, or makes it the
*converting* request: it first invalidates the readonly copies (X requests only),
then tells the owner (`ASK_OWNER`). The owner sends the page straight to the
requester and changes its own ctrl; the requester takes lock and page and sends a
*claim* to the master, which updates the entry and converts the next waiter. A
dirty page that leaves an instance stays there as an *edp* (earlier dirty page):
its redo is needed until a later version is on disk. The checkpoint of the edp
holder asks, through the master, the present owner to write; after its write the
owner has the edps cleaned, through the master again.

## 2. Modules

| Module | Stands for | Actions and the code they translate |
|---|---|---|
| `DrcBufRes` | the entry and the decisions taken under the bucket lock, as operators | `GrantNew`, `Conflicting`, `StartConvert`, `ReplaceQueued`, `AppendQueued`, `ClaimShare`, `ClaimExclusive`, `ConvertNext`, `DropHead`, `AcceptsRecycle`, `CleanEdpInfo` |
| `DcsPage` | one page in a cluster without evictions | `RequestPage` (dtc_read_page), `GiveUp` (mes_recv fails), `HandleAck` (dcs_handle_ask_master_ack), `Finish` (dtc_buf_finish), `Modify`, `ProcessAskMaster`, `InvalidateCopy`, `RequestInvalidated`, `ConvertInvalidated`, `ProcessClaim`, `TransferPage` |
| `DcsRecycle` | extends it by eviction and recycling of the entry | `Evict`, `SendRecycled`, `ProcessRecycle`, `RecycleItem`, `InvalidateOwner`, `RecycleDone` |
| `DcsCkpt` | extends that by the checkpoint | `PrepareNormal`, `RemotePrepare`, `CleanLocalEdp`, `Prepared`, `FlushPages`, `ProcessAskCkpt`, `ProcessWritten`, `ClearEdpInfo` |
| `DrcLockRes` | the master's entry of a lock or latch and the decisions on it, as operators | `OwnersToAsk`, `StartConvert`, `MustNotWait`, `Enqueue`, `ConvertNext`, `Cancel`, `Claim`, `ClearGranted`, `RecycleGranted` |
| `DlsLock` | one spin lock or latch in a cluster: sessions, local entries, the master's workers, the owners | the calls of `dtc_dls.c` from the local check to the return, the master's handling of a request owner by owner, `OwnerRelease`, `OwnerTryRelease`, recycling of the entries |
| `SmonDeadlock` | sessions that wait for each other and the smon threads | waits that begin, succeed, time out and end; the walk, the recheck and the flagging, one read of a wait per step |
| `TxnWait` | tx_wait, tx_end and the messages between them | the loop of tx_wait and dls_wait_txn, `dls_process_txn_wait` in its four critical sections, the stages of tx_end, `dls_process_txn_awake`, the reuse of the slot |
| `DrcRemaster` | one remastering of the page directory | `Start`, `Prepare`, `Execute`, `SendTask`, `Migrate`, `Immigrate`, `Recover`, `Recovered`, `PublishTarget`, `PublishDone`, `Published`, `CleanRemasterRes`, `StopRemaster` and a `Handle...` per message |
| `PageLock` | what the service promises: readers or one writer, everyone on the last version | abstract; `ImplementsPageLock` maps `ctrl[i].lock` and the version in memory |
| `MCDcsPage`, `MCDcsRecycle`, `MCDcsCkpt`, `MCDlsLock`, `MCSmonDeadlock`, `MCTxnWait`, `MCDrcRemaster` | instances for TLC (model values, symmetry) | |
| `DrcBufRes_proofs`, `DcsPage_proofs`, `DcsCoherence_proofs`, `DcsCkpt_proofs` | theorems about the page modules, each extending the one before | section 4 |
| `DlsLock_proofs`, `TxnWait_proofs`, `SmonDeadlock_proofs`, `DrcRemaster_proofs` | theorems about the module of that name | section 4 |

State of the page modules: `res` is the master's entry, `ctrl[i]` the buffer ctrl of instance `i`,
`sess[i]` the session that works on the page there, `askm`, `asko`, `acks`,
`claims`, `notices` and the checkpoint's sets the messages under way (sets: any
order), `tasks` the master's threads between unlocking an entry and locking it
again, `clock` the source of request numbers and times, `latest` the last version
of the page and `disk` the one on storage. A step is what the code does between two
points at which another thread can interfere: a critical section on the entry, a
latched stretch on a ctrl, one message. `InLocalRequest` and `InLocalClaim` keep
the master's own calls, which are not messages, inside its session.

State of the others. `DlsLock`: `res[i]` is the local entry of an instance
(`drc_local_lock_res_t` with its latch), `drc` the master's, `sess[s]` the point a
session has reached in its call, `job[i][r]` the master's worker for a request,
`rels` the releases under way. `SmonDeadlock`: `txn`, `wait` and `lsn` of the
sessions, `det[i]` the local variables of the search of instance `i`. `TxnWait`:
`slot` the transaction slots with the stage of tx_end, `txnRes` and `localTxn` the
two maps, `handlers` and `awakes` the messages. `DrcRemaster`: `reform` is chosen
initially and says who joins, leaves or died and which pages the instances hold;
`status`, `map`, `target`, `task`, `dir` are those of each instance, `drm`, `assign`
and `pub` the reformer's bookkeeping, `assigned` whether `remaster_finish_step` has
reached the value from which a failure is undone.

Definitions named `X_Something` directly before `X` are slips: `X` with a mistake a
programmer could make. They are not part of any specification; replacing `X` by
one must break the property it is listed with, which shows that the property
depends on the code.

### What is abstracted

- One page, one master, one session per instance that holds the ctrl's latch
  (`inst_sid` is therefore the instance). Sessions that would queue on the latch
  make the same requests one after another.
- Claims under way are a set, so two equal ones of one instance (possible only after an
  eviction) count as one; told apart, `page`, `recycle` and `ckpt_evict` pass as well.
- The latch is `sess[i].st # "idle"`: held while a session waits for an answer and
  while it uses the page. Handlers of messages need it free; those of X requests
  and invalidations also need the page not to be under write (`check_io`).
- `rsn` and `req_time` are one number, and there is one clock. The code compares
  times of different instances in two places (`dtc_drc.c:761`, `1148`); expiry is a
  free choice in the model (`ConvertWaiter`'s `expired`, counted as timeouts).
- A message that is lost is one that is never delivered: safety covers it. A failed
  send is not told apart from it.
- Prefetching (`is_try`), the conditions on a running reform
  (`DRC_STOP_DCS_IO_FOR_REFORMING`), the pending actions set by reform and pages
  that are not cached in the cluster are left out.
- The checkpoint sees one page, so groups are never full. The sub-steps of one
  preparation (`ckpt_prepare_pages`) may come in any order and number; `is_marked`
  keeps the page from being copied twice. The first loop of
  `dcs_master_clean_edp` is one step, its second loop another.
- `lastmod`, `flushed` and `early` in `DcsCkpt` are history variables of the properties:
  the last change of each instance, the highest version some instance has written, and
  the versions announced as written that were not.
- `DlsLock`: one resource. A spinning session is one that may take its step again
  and again. Refusals (a btree that splits while it is to release a latch) and
  recycled entries are bounded. An owner's thread that waits for its own sharers is
  a step that is not enabled.
- `SmonDeadlock`: a session has one rm and one transaction at a time; what makes
  sessions wait is free. `ring` in `det` is a history variable of the properties: a ring
  through the session where the recheck began has existed during the recheck, or a wait
  that the search had read has failed since.
- `TxnWait`: transactions of one instance; a sleep ends at any time
  (`TX_WAIT_INTERVEL`). Fetching the snapshot from the other instance is one step.
- `DrcRemaster`: a part of the directory stands for one page in it, three or four
  parts instead of 1024. Balancing is the set of maps that `drc_scaleout_remaster` and
  `drc_scalein_remaster` can produce (`NewMaps`: expected counts, only parts that
  must move). A timeout, a failed send and a failed thread are one "fails" branch, with
  what was done by then: any part of the entries to migrate or of the reports may have
  been sent, and any part of the entries cleaned. After a failed cleaning the step goes
  on (`dtc_drc.c:5834`), which with the status FAIL (5684) sends nothing; after a failed
  report (6438 ignores the result) the reformer may still be told that the task is done.

## 3. Runs

### 3.1 Passing runs

All runs have CHECK_DEADLOCK FALSE: the bounds `MaxClock` (requests), `MaxLsn`
(modifications), `MaxTimeouts`, `MaxEvicts`, `MaxRecycles`, `MaxOps`, `MaxWaits`,
`MaxTxns` and `MaxFaults` exhaust the environment, a remastering is one attempt, and
the system then stops as it should. That nobody is left waiting is a property of its
own (`Served`, `CallsEnd`, `WaitsEnd`, `ReformerEnds`).

| Run | Instance | States | Checks |
|---|---|---|---|
| `page` | 3 instances, symmetric but for the master; 6 requests, 1 modification | 0.27 M | `TypeOK`, `SingleWriter`, `Coherent`, `HoldersKnown`, `AckPanics` (the panics of the answer handlers), `UpgradeNotBlocked` (drc_check_new_req), `ImplementsPageLock` |
| `page_timeouts` | 2 instances, 6 requests, 2 timeouts, 1 lock item | 0.6 M | `DirectoryOK`, `HeldCovered`, `RequestsCover` |
| `page_live` | 2 instances, 5 requests, 2 modifications, fair handlers | 8 k | `Served` |
| `recycle` | 2 instances, 5 requests, 2 evictions, 1 recycling by the master | 1.6 M | `RecycleTypeOK`, `SingleWriter`, `LoadFresh`, `PendingUndisturbed` (panic of drc_recycle_items) |
| `ckpt` | 2 instances, 4 requests, 2 modifications | 2.6 M | `CkptTypeOK`, `RedoWritten`, `CkptPanics` |
| `ckpt_evict` | the same with 1 modification, 1 eviction | 2.2 M | `LoadFresh`, `Coherent`, `LatestKept` |
| `dls` | 3 instances, 4 sessions (two of one instance, symmetric), 4 calls, 1 refusal, 1 recycling, spin lock and latch | 0.98 M | `DlsTypeOK`, `Exclusion`, `OwnersKnown`, `DlsPanics`, `ReleasesPossible` |
| `dls_live` | 2 instances, 3 sessions, 3 calls | 33 k | `CallsEnd` |
| `deadlock` | 2 instances, 3 sessions, two of them with one sid; 3 waits, 1 further transaction, 1 fault | 2.0 M | `SmonTypeOK`, `WaitsReal` |
| `txn_wait` | 2 instances, 1 slot used twice, 2 waits, 1 fault | 0.64 M | `WaitTypeOK`, `EndedWhenWaited`, `ScnCaughtUp`, `NoEntryLeft`, `WaitsEnd` |
| `remaster` | 3 instances, 3 parts, seven reforms, every broadcast repeated once | 55 k | `RemasterTypeOK`, `PublishedTogether`, `RebuiltOrMissing`, `OneDirectory`, `Undone`, `ReformerEnds` |

Why the bounds are enough to be interesting: three instances are the first cluster
in which owner, copy and converting requester are all different and none need be
the master; six requests let each instance ask twice, so that every upgrade,
transfer, queueing, restart and conflict happens (every action and every disjunct of
the next-state relations fires in the passing runs). Two timeouts let a
retry itself be given up; one lock item empties the pool. One eviction followed by
a new request is the race the notice's time is for; a second lets the notice of
the first arrive in the middle. Two modifications are needed for an edp to be older
than what is written. In `dls` two sessions of one instance are needed for the
shared latch and its upgrade, a third instance for a request with two owners to
release. In `deadlock` three sessions make rings of two and of three over both
instances, the further transaction lets a wait end and another begin during a
walk, and the two sessions of one sid let a recheck close at the wrong one. In `txn_wait` the second use of the slot is what a late request, wake-up or
recycled item can be confused with. The seven reforms of `remaster` are a joining
second and third instance, one of two and one of three that leave, and one of two
and one of three that die, with the reformer numbered 0 or not and pages held in
every mode. (`recycle` with six requests also passes, with 4.4 M states; so do `ckpt` and
`ckpt_evict` with three requests and a recycling by the master, `MaxRecycles = 1` and
`MaxClock = 3`, with 1.5 M and 1.3 M.)

Fairness of `page_live`: weak fairness of `Handlers`, the disjunction of all message
handlers, master threads and `Finish`. MES worker threads take every message from
their queues, and a session that has its answer goes on by itself; nothing makes a
session ask again, modify or give up, so those actions have no fairness. As every
handler consumes a message or a task, the disjunction is enough. `Served` is
claimed for two instances: with three, the own claim of 3.3 is a deadlock.

Fairness of `dls_live`: weak for the master's workers, which are threads that run;
strong for a session and for an owner's release, because both spin on state that
others set and clear (`cm_spin_sleep` loops; the scheduler lets a spinner see the
lock free some time). Nothing makes a session begin a call, and it holds what it got
for a finite time, as callers of latches do. Fairness of `txn_wait`: weak for each
session's loop and each handler; a transaction need not end, and `WaitsEnd` speaks
of those that do. Fairness of `remaster`: weak for the thread of the reformer
(`drc_remaster_proc`) and for its timeouts; messages and other instances have none,
so `ReformerEnds` holds whatever they do.

`Rebuilt` (an entry for every page that is held) is checked in the weaker form
`RebuiltOrMissing`: of an instance that leaves, the entries may still be under way
when the end is published, because only joining instances wait for the counts
(`dtc_drc.c:5811`); they are dropped on arrival (4907).

### 3.2 The run that ends in a violation

`remaster_lost` / `Rebuilt`: in a reform after a crash the survivors report the pages
of the dead master to the master that the new map names. The task message carries
that map ("copy target_part_map", `dtc_drc.c:3870`), the receiver skips it (4111),
and the reports go to whatever the receiver's own `target_part_map` says, which is
zeroed memory or an older remastering's. When the parts go to an instance other than
number 0, the new master ends without the entries. The passing run contains the
reforms in which they do go to instance 0.

### 3.3 Seen while modelling, without a run of their own

These were reached in the model and bound what the passing runs claim. Where the
property is a definition of the module it is named, and running it with the constants
given shows the behaviour.

| Definition | Sentence of the code | What happens |
|---|---|---|
| `LoadFresh` in `DcsPage`, one timeout | `dtc_dcs.c:574` "If ctrl is not dirty, it's safe to be loaded from disk" | the owner of a remote-dirty page serves a given-up request, forgets that the page is on no disk, and tells the retry to load |
| `OwnClaimSparesMaster`, 3 instances | `dtc_drc.c:1776` CM_ASSERT(OGRAC_REPLAY_NODE(session)) | the master's session has to invalidate the copy whose latch it holds |
| `ConvertingWhileInvalidating`, one timeout | `dtc_drc.c:1625` "converting buf_res won't be recycled" | a thread returns from its invalidations when the conversion is over and clears the copies |
| `ClaimFindsNoCopies` in `DcsRecycle` | `dtc_drc.c:1037` knl_panic(readonly_copies == 0) | a second claim, made after an eviction, is taken for that of a later conversion |
| `LoadFresh` and `Coherent` in `DcsCkpt`, the constants of `ckpt_evict` with `MaxClock = 8`, `MaxLsn = 3`, `MaxEvicts = 2` (TLC's simulation mode, some 50 steps) | `dtc_drc.c:1187` again | an instance changes the page, writes it, evicts it and asks anew while its own earlier claim is under way; that claim is taken for the new request's, the old owner is asked in its place and serves its edp, an older version than the one on disk |
| `RedoCovered` in `DcsCkpt`, one eviction | `dtc_ckpt.c:534` "Notify requester with invalid lsn" | the lsn asked for is sent; the edp is given up though its version is on no disk |
| `WriteNotOlder` in `DcsCkpt` | `dtc_ckpt.c:580` "it's newer than page on disk" | a copy and the owner's page are written by two instances, the older version last |
| `AnnouncedWhenWritten` in `DcsCkpt`, `MaxClock = 5`, `MaxLsn = 2`, `Master = n2`, no evictions | `knl_ckpt.c:1269` "added to ckpt->queue again during we flush it, end this prepare" | the page is remote dirty and is changed again while an older version is being written; `ckpt_prepare_normal` puts its new lsn into `remote_edp_clean_group` (1259-1263) before it sees `is_marked` and leaves (1273), and the edp holders are told that the new version is on disk |
| `PendingUndisturbed` in `DcsRecycle`, the constants of `recycle` with one timeout | `dtc_drc.c:1625` again | the thread of a given-up request returns from its invalidations when the entry is being recycled, and clears the copies it is to invalidate |
| `DlsPanics` under `LossySpec`, `MaxLost = 1`, `MCSmallSession` | `dtc_dls.c:471` "when guest not recieve ack, but master already claimed" | only the spin lock path allows for it: an S latch is granted, the answer is lost, the instance asks again and is in `granted_map` already, where `drc_claim_lock_owner` panics (2701) |
| `RingsReal`, the constants of `deadlock` (`MCShared`) or `MCPair` with `MCSame` | `dtc_smon.c:560` `begin == id` | sids are compared without the instance: with equal sids the recheck closes after half a ring, and a session that waits outside any ring is failed as deadlocked; likewise `dtc_smon_find_first_local_sid` (424) can take a remote sid for a local one and miss a ring |

So `SingleWriter`, `Coherent`, `HoldersKnown`, `LoadFresh` and `PendingUndisturbed` are
stated without timeouts, `HoldersKnown` without evictions. Where pages are written and
evicted too, `Coherent`, `LoadFresh` and `LatestKept` hold up to the one change and one
eviction of `ckpt_evict`; `Coherent` and `LoadFresh` fail with larger bounds (the late
claim in the table). The checkpoint's promise is `RedoWritten` (some instance has finished
a write of the change, or announced it too early in the way of the table) rather than
`RedoCovered` (it is on disk now), the lock service is checked with answers that arrive.
The deadlock search promises `WaitsReal` rather than `RingsReal`: as the instances number
their sessions alike, a flagged session may only have been at the head of a chain of waits.

`RingsBroken` (a ring that stays is broken, `FairSpec` of `SmonDeadlock`) holds for the
three sessions of different sids with `MaxTxns = 0` and `MaxFaults = 0`, 133,316 states; with the bounds of `deadlock` it
takes TLC too long for a run.

Further: with two timeouts an already-owner answer can find an edp, where
`dcs_set_ctrl4already_owner` panics (`dtc_dcs.c:349`); a granted page is held in X mode
while the entry records the mode asked for, although the comment at `dtc_dcs.c:329`
says the master marked X; `drc_check_new_req` protects the upgrade of the owner only,
an X request of a mere copy holder can meet latched copies; `g_recycle_page_records` has
four slots and is indexed by the master's instance id, which may be up to 63
(`dtc_drc.c:665`). In the remastering: a
failure of the reformer is not told to the followers, who wait for the next reform;
a repeated DONE broadcast is not acknowledged by an instance that is done already
(`dtc_drc.c:5260`), so the repetition fails; a part's end message that comes before the
task is dropped (4223) and the joining instance waits for its timeout; when the
reformer fails while it gives out tasks, entries that an early exporter sent stay
with it, because `remaster_finish_step` is then PREPARE (7011) although the comment at
6935 says "free immigrated res for reentrant"; a failed cleaning is logged and the
migration goes on with the lock released (5834-5841), so that an instance that has
nothing to export counts as migrated although it failed; `mgrt_fail_list` is cleared by a
failed remastering (7044), so that a second attempt leaves the parts of an aborted
instance where they are.

## 4. Proofs

Everything below is proved for every value of the constants: any set of instances and
sessions, any master, any bound on requests, changes, calls, transactions and so on.
What is assumed of the constants is what the modules' named ASSUMEs say: `NoInst`,
`NoSession` and `None` are not in the sets they stand outside of, the master and the
reformer are instances, the bounds are natural numbers, sessions (and in the remastering
instances and parts) are finite in number, the pool of `TxnWait` has an item per session
(as the code allocates it), and `Reforms` are records of the right shape whose lists fit
together (`ReformListsAssumption`): who leaves or has crashed was a member and not both, who
joins was not; the reformer was a member (`cms_stat.c:2201` takes one that has joined
before one that is joining, and `rc_reform.c:655` builds the lists from the old and the
new member sets); the old map and the buffers name members only, and a page has one X
holder, which is what the page service is proved to keep. Hypotheses beyond these are
part of the theorem and are named here.

| Theorem | States | Hypothesis |
|---|---|---|
| **`DcsPage_proofs`** | | |
| `TypeCorrect`, `DirectoryConsistent`, `RequestsKeepMode`, `HeldUnderLock` | `TypeOK`, `DirectoryOK`, `RequestsCover`, `HeldCovered`, with timeouts, retries, expiry and refused invalidations | none |
| **`DcsCoherence_proofs`** | | |
| `OneWriter`, `LastVersionSeen`, `MasterKnowsHolders`, `AnswersNeverPanic`, `UpgradeProceeds` | `SingleWriter`, `Coherent`, `HoldersKnown`, `AckPanics`, `UpgradeNotBlocked` | `MaxTimeouts = 0` |
| `PageServiceImplements` | the service implements `PageLock` | `MaxTimeouts = 0` |
| **`DcsCkpt_proofs`** | | |
| `RecycleTypeCorrect`, `CkptTypeCorrect`, `HeldUnderEviction` | `RecycleTypeOK`, `CkptTypeOK`; `DirectoryOK`, `RequestsCover` and `HeldCovered` with timeouts, evictions, recycling and checkpoints | none |
| `CheckpointNeverPanics`, `RedoKept`, `LastVersionKept` | `CkptPanics`, `RedoWritten`, `LatestKept`, with recycling by the master | `NoFaults` |
| `LoadsAreFresh`, `RecyclingUndisturbed` | `LoadFresh` and `PendingUndisturbed`, with recycling by the master and checkpoints | `NoFaults` |
| `CheckpointedServiceImplements` | the service with its checkpoint implements `PageLock` | `NoFaults` |
| **`DlsLock_proofs`** | | |
| `DlsTypeCorrect`, `LocksExclude`, `MasterKnowsOwners`, `DlsNeverPanics`, `ReleasesSucceed` | `DlsTypeOK`, `Exclusion`, `OwnersKnown`, `DlsPanics`, `ReleasesPossible` | none (`Spec`: answers arrive) |
| **`TxnWait_proofs`** | | |
| `WaitTypeCorrect`, `WaitsAreForEnds`, `WaitsCatchUp`, `EntriesAreRemoved` | `WaitTypeOK`, `EndedWhenWaited`, `ScnCaughtUp`, `NoEntryLeft` | none |
| **`SmonDeadlock_proofs`** | | |
| `SmonTypeCorrect`, `RecheckSound` | `SmonTypeOK`; a recheck that comes back to the session where it began has seen a ring (but for failed waits, below) | none |
| `OnlyWaitersFailed` | `WaitsReal`, for any sids, shared ones included | none |
| **`DrcRemaster_proofs`** | | |
| `RemasterTypeCorrect`, `MapPublishedTogether` | `RemasterTypeOK`, `PublishedTogether` | none |
| `EntriesRebuilt`, `OneDirectoryLeft`, `FailureUndone` | `RebuiltOrMissing`, `OneDirectory`, `Undone`, for every reform, any order and repetition of the messages and any failure of a step | `MapsAgree`, in the state in question |

What the hypotheses say, and why they are there. `MaxTimeouts = 0`: no wait for an answer
runs into its timeout. With timeouts the code leaves these statements behind (section
3.3: copies are cleared under a later request, an answer finds an edp).
`NoFaults`: no timeouts, and no instance evicts the page from its own buffer; the master
may recycle the entry, which makes all instances give the page up, as often as the bounds
say. With evictions the code leaves
`RedoWritten` behind already under the constants of `ckpt_evict` (3.3, `RedoCovered`), and
`LoadFresh` and `Coherent` with two of them (3.3, the late claim): the hypothesis is needed
as long as a claim does not carry the number of its request.
`MapsAgree`: whoever has to report a page of a crashed master's part sends the report where
the reformer's new map puts the part. It excludes the behaviour of `remaster_lost` and
nothing else: it holds of every reform in which nobody crashed, of parts of which the
survivors hold nothing, of the reformer's own reports, and of parts that go to where the
survivors' `target_part_map` points (instance 0 after a start). It holds in all states of the
run `remaster`, a crash whose parts are rebuilt included.
Under `NoFaults` a page that was changed is loaded again after a checkpoint wrote it and the
master recycled its entry; `LoadsAreFresh` says that those loads find the last version.
The loads that follow an eviction are those of `recycle` and `ckpt_evict`.

**The page entry** (`DcsPage_proofs`). `HeldCovered` is not inductive: that an answer's
mode covers what the session wants depends on the request it answers, which the master
may have folded into a retry, queued, or handed to a thread. `IInv` adds `RequestsCover`
(all places a request can be in), `AnswersCover` (only a waiting session has an answer
coming, and it covers), `TasksOK` and `DirectoryOK`. The steps on the entry are proved
once, as lemmas of `DrcBufRes_proofs` about each operator; `HandlerStep` and
`SessionStep` say what a step that only sends answers, or only changes one session,
preserves; then there is one lemma per action.

**Coherence** (`DcsCoherence_proofs`). That there is one writer depends on everything
that is under way: the old owner gives its lock up before the new one has it, and the
master learns of it last. `CInv` says that without timeouts a conversion is in exactly
one of its stages (`Resting`, `Invalidating`, `Asking`, `Answering`, `Claiming`), what
each of them leaves of the others' locks, what the answer brings (`Brings`), that every
request is in one place (`OnePlace`), which versions are where (`Data`), and `Locks`. Each
action moves from stage to stage. For the refinement each step is shown to be a step of
`PageLock` or to leave the locks and versions that it sees as they are.

**Checkpoint** (`DcsCkpt_proofs`). The invariant of the page service is carried over
unchanged (a checkpoint step is one that changes flags and the disk only), and `KInv` is
added: who may have a dirty page (`Flagged`: the owner, or its successor whose claim is
under way), what the groups contain (`Groups`), that the redo of a change is kept until it
is written (`Redo`), and who has the last version (`Kept`). While the master
recycles the entry (the sixth stage of `CInv`, `Recycling`), nothing of a conversion is under
way, the instances asked so far have given the page up, and once the owner, asked last,
has, the last version is on disk. `RedoWritten` came out of the
attempt to prove it without its last disjunct: the step from `PrepareNormal` failed for a
page that is marked, and TLC then found the behaviour that 3.3 lists as
`AnnouncedWhenWritten`, with larger bounds than the run has. The property now says which
versions are excepted, by the history variable `early`, and is proved in that form.

**Locks** (`DlsLock_proofs`). `IInv` has a part per instance (the local entry agrees with
the sessions that hold, share or upgrade it; the one that has the `resx` asks) and a part
at the master: the queue holds each waiting request once, `granted_map` names exactly the
owners but for one that has just released and is about to be recorded (`Releasing`), and
the converting request has yet to ask whoever is in its way (`Converting`). `Owned` counts
a lock as owned from the master's grant on, which is what makes the answer under way
harmless.

**Waits for transactions** (`TxnWait_proofs`). The point of `NoEntryLeft` is that of a
request and the tx_end it races with one has seen the other; `EntryReleased` says it for
the moment between the registration and the recheck. `Counted` ties the SCN to the number
of transactions that ended, from which the types follow.

**Deadlock search** (`SmonDeadlock_proofs`). The recheck reads one wait after another, so
that it is not obvious that the ring it closes ever existed at one moment. `Behind` says
that as long as no ring has existed the sessions behind the recheck still wait as it saw
them wait, or the recheck cannot get further: a session whose wait succeeds, or whose
transaction ends, has its `lsn` raised, and a transaction that ended does not come back.
At the moment in which the recheck reaches its beginning all of them wait at once. A wait
that fails (as a deadlock, or by its lock timeout) and is begun again logs nothing, so the
recheck cannot tell it from one that lasted: both theorems except the searches during
which a wait they had read has failed. A recheck that ends at another session which has
the sid of the first has by the same argument all the waits it followed before it at
once, which is the second half of `WaitsReal`.

**Remastering** (`DrcRemaster_proofs`). `PInv` gives a meaning to each message of the two
broadcasts and to each acknowledgement, late ones of an earlier round included, and to
the ones counted so far; together they say that the map is everywhere before DONE is.
`EInv` follows the entries. `Begins`: until the new map is made everything is as it was.
`Flow`: who takes part, that the reformer hears only of work that has ended, that the old
map is in force until then, that all have the same tasks, and that whoever is through
was answered. `Kept`: the entry of a living master's part is the old one (`First`) until it
migrates and its cleaned form (`Clean`) from then on, and a message on its way to the new
master carries the cleaned one; the entry of a master that failed may be cleaned of some
of those gone (`Partly`). `Rebuilding`: an entry made of reports names exactly the
instances whose reports arrived, an instance that has sent its reports is named by
the receiver or still waits for the acknowledgement, and one that failed may have sent
some of them (`Reporter`). `Freed`: a reformer that stopped has
kept nothing of the parts of others. The lemmas it turns on are `CleanSays` (cleaning an
entry leaves what the remaining members hold), `SumsSay` and `ReportedSums` (adding a report
to an entry adds its sender, in whatever order reports come) and `OldEntryCovers`. The
invariant holds without `MapsAgree`: only the step from it to the three properties needs
that reports and new master meet.

Only model-checked: liveness (`Served`, `CallsEnd`, `WaitsEnd`, `ReformerEnds`,
`RingsBroken`), which is outside the prover's reach; `SingleWriter`, `LoadFresh` and
`PendingUndisturbed` with evictions (`recycle`; the recycling by the master is proved),
for which the invariant would have to tell the stays of a page in memory apart (a claim
made before an eviction may arrive after it); `Coherent`, `LoadFresh` and `LatestKept` with
the checkpoint and an eviction, which hold within the bounds of `ckpt_evict` only; the
behaviours of `LossySpec`.

## 5. Not modelled

- Page service: prefetch (`is_try`, batched claims), the reform branches
  (`DRC_STOP_DCS_IO_FOR_REFORMING`, pending actions), CR pages, full checkpoint groups,
  clocks that differ between instances.
- `DlsLock`: table locks, `dls_spin_add`, `dls_spin_dec`, `dls_spin_lock_by_self`,
  `dls_spin_timed_lock`, `is_force`, `release_timeout_ticks`, the reform version checks.
- `SmonDeadlock`: deadlocks of ITL slots and table locks, the log of the statements.
- `TxnWait`: XA phases, takeover of undo segments, transactions of more than one
  instance at once.
- `DrcRemaster`: lock entries (they move like pages), requests in conversion while
  entries are cleaned, `drc_in_reformer_mode`, second attempts with their versions, a
  reform that joins and aborts at once, the undoing on a joining instance, the
  comparison of parameters, the deposit map.
- Instance recovery and CMS: they depend on the redo format and on disk heart beats;
  in the plan below.
- The local engine, SQL, server, drivers, library, tools and scripts: no protocol
  between instances of their own, or data structures out of TLC's reach. They make up
  most of the repository's lines, so the map covers a small share of them.

## 6. Plan

1. Proofs: `SingleWriter`, `LoadFresh` and `PendingUndisturbed` with evictions (the invariant must then say which answer, claim and notice belong to which
   stay of the page in memory).
2. Second attempts of a remastering with their versions, its lock half, and the reform
   state machine of `rc_reform.c` around it; instance recovery on top.
3. Prefetch as further actions of `DcsPage`; one clock per instance in `DcsRecycle`.
4. MES on its own (rooms, rsn, broadcasts with partial answers), refined to the sets of
   messages used here.
5. CMS voting and disk lock; the buffer latch and the checkpoint queue.

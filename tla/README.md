# TLA+ models of gitx

gitx keeps a git repository in a Cloudflare Durable Object: refs and small tables
in the object's SQLite database, git objects in Parquet files on R2, and a
versioned log of ref updates that can be branched and merged. This directory
holds TLA+ modules of the parts on which its correctness rests, TLC
configurations that check them on small instances, and proofs that TLAPS checks
for every instance.

Paths below are relative to the repository; the library lives in `src/`.

## 1. Inventory

### How the system fits together

    client --push--> wire-routes.receivePack --> PushTransaction --> SQLite: refs
                                                   |      \--> RefLog (optional)
                                                   v
                            SqliteObjectStore (LRU) --> ParquetStore --> R2: objects/*.parquet
                                                          |               R2: raw/* (large objects)
                                                          +--> SQLite: write_buffer_wal,
                                                               compaction_journal, sha_cache
    alarm --> ParquetStore.compact         DeltaBranch --reads--> RefLog (parent)
    GitBackendAdapter (cache) --> SQLite: refs <-- ParquetRefStore --copies--> R2: refs
    GarbageCollector --lists, deletes--> ParquetStore      R2PackStorage --> R2: packs, locks
    RefStorage --> a RefStorageBackend     handleReceivePack --> a ReceivePackObjectStore
    TierMigrator --> hot and warm tiers    CDCPipeline --> outputs

The last two lines are library code behind interfaces: RefStorage over any backend
of refs and locks, receive-pack over any object store, the migrator over any
tiers. Their models make the interface as weak as its comments let it be.

All of it runs in one JavaScript thread. What interleaves are promise chains, at
their `await`s; SQLite calls are synchronous; R2 calls are awaited and may fail;
the Durable Object may be evicted at any `await` and start again with nothing but
SQLite and R2.

### Components

| component | state | operations | what is hard | what makes it correct |
|---|---|---|---|---|
| Async locks (`utils/async-mutex.ts`) | locked / readers / writing, queues, closures in the microtask queue | acquire, release, withLock, withReadLock, withWriteLock | release frees the lock and only schedules the next holder | exclusion, nobody stranded, no starvation of writers |
| Parquet object store (`storage/parquet-store.ts`) | R2 files, log rows, journal rows, sha_cache; buffer, bufferIndex, objectFileKeys, tombstones, walEntryIds | putObject, getObject, hasObject, deleteObject, flush, compact, initialize | crash between any two steps, R2 failures, puts during a flush, flushes against compactions | what hasObject vouches for is on disk, recovery deletes no only copy, acknowledged objects can be read |
| Push transaction (`storage/push-transaction.ts`) | phase, buffer, flushed, pending log entries; the refs table | bufferObject, execute (flush, protect, validate, BEGIN, apply, COMMIT or ROLLBACK) | other pushes between its awaits, failures in each phase | refs point at objects that exist, all updates or none, no lost update |
| Ref log (`delta/ref-log.ts`) | entries, nextVersion, latestSnapshot | append, checkpoint, replayState, rollback, snapshot, loadEntries | snapshots taken in the middle of what is rolled back | replay tells the refs, versions count entries |
| Delta branches (`delta/branch.ts`, `merge.ts`) | base version and log of a branch; the live parent log | create, append, replay, threeWayMerge, canFastForward | the parent moves while branches read it | isolation; merging is a three-way merge |
| Ref storage (`refs/storage.ts`) | refs, packed refs and locks of a backend | updateRef, deleteRef, batchUpdateRefs, packRefs, updateRefWithRetry | read, compare and write are awaits apart; batches write ref by ref; locks of several refs | each call takes effect at one moment, no circle of waiters, packed refs of one moment |
| Ref table (`do/git-backend-adapter.ts`, `storage/parquet-ref-store.ts`, pushes) | refs table, the adapter's cache, dirty flag, copy on R2 | load, write, swap; set, delete, swap, syncToR2; push | three writers of one table; writes during a copy | cache and copy miss only what others wrote |
| Receive-pack (`wire/receive-pack.ts`) | refs of a store; a push half done | handleReceivePack, validateCommand, atomicRefUpdate with rollback | awaits between validating and applying; a rollback that fails or meets others | reports add up to the refs, only forward moves, a rollback restores |
| Pack lock (`storage/r2-pack.ts`) | a lock object in R2 with an expiry; handles | acquire, steal, force, verify, refresh, release, clean up | leases that run out between a read and a write; refused puts taken for written | one holder that R2 has written, named there as long as it holds; whoever else goes on disturbs nothing there |
| Pack upload (`storage/r2-pack.ts`) | staged files, stored files, manifest | uploadPackfile both ways, rollback, isPackComplete, orphan clean-up, deletePackfile | a failure or crash between any two of six writes; clean-ups at start-up | complete packs are whole |
| Garbage collection (`storage/gc.ts`) | marks, list, deletions | collect | pushes between mark and sweep | what refs reach is stored |
| Compaction alarm (`do/git-repo-do.ts`) | flag in memory, attempt count in SQLite, alarm | scheduleCompaction, alarm | requests while an alarm's compaction is awaited, evictions | retries end, a needed compaction has an alarm |
| Tier migration (`tiered/migration.ts`) | tiers, location index, locks, queued writes | migrate; jobs: start, complete, cancel; writes during a job | failure between copy and delete; jobs settled twice | never in no tier |
| Change data capture (`tiered/cdc-pipeline.ts`) | batch, timer, batches being handled, dead letters | process, flush, start, stop, retries | flushes of four kinds overlap | accepted events are kept, and a batch is settled once |
| Bloom cache (`storage/bloom-cache.ts`) | sha_cache, segments | add, check, persist, evict | eviction, false positives | no false negative |
| SQLite object store (`do/object-store.ts`) | LRU cache, objects table | put, get, has, delete, batch | cache against backend | reads agree with the backend |
| WAL of the Durable Object (`do/wal.ts`) | wal, transactions, checkpoints | append, begin, commit, rollback, checkpoint, recover | commit against rollback, restart | committed work is recovered (unused, see section 5) |
| Rate limiter (`middleware/rate-limit.ts`) | counters by window | check, increment | windows rolling over | never more than the limit in a window |
| Wire formats, packs, bundles, LFS, git operations, Iceberg/export, front ends (MCP, CLI, web, RPC) | none the core depends on | parse, format, compute | formats | out of scope here |

The hazards of the code, each at its line, are listed in `PROJECT.json` with the
properties that cover them.

## 2. Modules

| module | models | built on |
|---|---|---|
| `AsyncLocks` | the two lock classes, as operators on lock values | |
| `ExclusiveAccess` | what the locks of ParquetStore promise (abstract specification) | |
| `StoreLocks` | readers, flushers and compactions on `flushMutex` and `rwLock` | AsyncLocks; refines ExclusiveAccess |
| `ParquetStore` | the object store: put, delete, flush, compact, crash, recover | the promise of ExclusiveAccess |
| `RefLog` | the ref log, as operators on log values | |
| `PushTransaction` | interleaved pushes on the refs table and the log | RefLog; the promise of ParquetStore |
| `DeltaBranches` | branches of a log and their merge | RefLog |
| `AtomicRefs` | what RefStorage promises: compare-and-swap of several refs at one moment (abstract specification) | |
| `RefStorage` | locked updates, deletes, batches, packing and retries | refines AtomicRefs |
| `RefTable` | the refs table with adapter, ref store and pushes | |
| `ReceivePack` | the commands of pushes on a store; atomicRefUpdate | |
| `PackLock` | the lock of a pack in R2, with time | |
| `PackUpload` | the files and manifest of a pack, uploads, clean-ups, deletions | |
| `ObjectCollection` | a collection beside pushes, over a graph of objects, with time | the promise of ParquetStore |
| `CompactionAlarm` | alarm and scheduleCompaction | the promise of ParquetStore |
| `TierMigration` | migrate() and jobs on one object | |
| `CdcPipeline` | events, batches, flushes, stops | |
| `RefHomes` | the three homes of refs side by side | RefStorage, RefTable, ReceivePack |
| `Upkeep` | what goes on beside the requests, side by side | PackLock, PackUpload, ObjectCollection, CompactionAlarm, TierMigration, CdcPipeline |
| `StoreLocks_proofs`, `ParquetStore_proofs`, `RefLog_proofs`, `PushTransaction_proofs`, `DeltaBranches_proofs`, `RefStorage_proofs`, `RefHomes_proofs`, `Upkeep_proofs` | lemmas and theorems | the module of that name |
| `MC*` | instances for TLC | |

### AsyncLocks, StoreLocks, ExclusiveAccess

A lock value has the fields of its class and `woken`, the closures a release has
given to `queueMicrotask`. `MutexTake`, `ReadTake`, `WriteTake` are the branches
of acquire that find the lock free; `...Queue` the others; `...Release` the
release functions; `...Wake` the closures. Every client of `StoreLocks` goes
round through the control points of the calling code (`pc`).

The variable `turns` distinguishes two ways the event loop can drive the clients.
*drained*: whenever a client calls on a lock, no scheduled closure is pending,
which is so when each event resumes one promise chain, because the microtask
queue is emptied before the next event. *shared*: several chains advance in the
same turn, and a call may come between a release and the closure it scheduled. The
locks implement `ExclusiveAccess` in drained behaviours; in shared ones they do
not (run `store_locks_shared`), and the other properties hold in both.

### ParquetStore

One action per stretch of code between two awaits. `PutBegin`, `PutInsert`: the
two sides of `await hashObject`. `FlushTake`, `FlushStore`, `FlushEnd`: taking the
buffer, R2 having the file, its answer arriving (a crash or a failure fits between
any two). `CompactBegin` to `CompactEnd` follow compact with the journal row
in_progress, then written; `CompactRead` reads one file, `CompactReadPart` is the
read that fails inside a file. `Crash`, `Boot`, `RecoverDelete`, `RecoverRow`,
`RecoverWAL` are a restart. `deleteObject` takes no lock and runs at any time.

Abstractions: an object is its SHA; a file is a set of SHAs under a key that is a
function of the flushed objects for flushes (as the digest is) and fresh for
compactions; log rows keep their ids because flush deletes by id; `buffer` counts
copies because the same object may be buffered twice; the byte thresholds are
folded into `FlushThreshold`; `sha_cache` stands for the whole bloom cache (only
its "definite" answers matter to the properties; eviction is left out). The order
in which files are read or deleted is arbitrary, which covers the code's order. The
compaction journal is a set of rows; a recovery takes them by their id (`Oldest`), the
uuid in the row's target, and keeps in `tried` the sources it has attempted.
The locks are taken at the promise of ExclusiveAccess.

History variables: `acked` (SHAs a put returned), `deleted`, `skipped` (what a
compaction gave up on), `impaired` (since the start, a failed flush or a
compaction that failed among its deletes left memory behind the disk; a restart
mends it). Properties except objects deleted or skipped, since
the store keeps no promise about them: what goes wrong there is in the runs
`parquet_flaky` and `parquet_reput`.

### RefLog, PushTransaction

A log is a record of entries, nextVersion and snapshot. `None` is the empty
string of the code; no snapshot is the snapshot of the empty state at version 0,
which replays the same. `Latest` and `ReplayOn` say what a sequence of updates
leaves behind, without recursion.

A push goes idle, flushing, updating_refs, then completed, failed or threw (an
exception outside any try; the phase field of the code then stays where it was,
and so nothing depends on it). `Receive` is receivePack with the pack's objects and
the commands; `FlushHas` and `FlushPut` are the two awaits per object;
`CheckTarget` one awaited hasObject; `Begin` compares all old values; `Apply` is
one command with its log entry; `Commit` or `Rollback` ends. Between `Begin` and
the end there is no await, so the model lets nothing but a crash in
(`MayRun`); the intermediate states are there because a statement may fail at
each. A crash starts a new, empty log at the refs of that moment (`origin`).

receivePack itself passes no rules and no log; the model has the options of
PushTransaction, as its tests use them, and Rules = {} is receivePack.

### DeltaBranches

A branch stores its base version and its own log; `BranchState` replays the
parent up to the base each time, as the code does. Merge and fast-forward are
operators, since they change nothing. Appends record the value the ref has. Branch
logs use the same `SnapshotInterval` as the parent (the code's default is
100 for them); branch replay never looks at the snapshot of a branch's own log.

### AtomicRefs, RefStorage

A caller's operation is a record: the names it locks in order, how far it is
(`phase`, `done`), what it has read (`seen`). `TakeLock`, `Check`, `WriteRef`,
`Release` are one await each. What is asked is `Calls`: a new value and an
expectation for each name, where "anything" and "existing" stand for the absent
oldValue with force and without. `LockRefused` and `WriteFails` are what a backend
may do. `PromptRemoval` says whether a removal has landed when its promise is
returned: deleteRef does not await it before it gives the lock back, so that it
matters (run `ref_delete`). `Locking` FALSE is a StorageBackend, whose locks are
no-ops.

The refinement: a call takes effect when its last write lands. `Settled` is the
refs with half-written batches taken back, `Client` what a caller knows.

### RefTable, ReceivePack

SQL statements are synchronous, so each access to the table is one step; `SyncStart`,
`SyncLands`, `SyncEnd` are the copy to R2. `by` (history) says who wrote a row last.
In ReceivePack, `Validate` and `Apply` are validateCommand and the swap after it;
its awaits of isAncestor change nothing, since the commit graph does not.
`accepted` (history) counts what clients were told "ok".

### PackLock, PackUpload

One action per request to R2, which is linearizable; conditional puts compare
etags. `Tick` may come between any two. A put whose condition fails is rejected, which
is what the code waits for, or answered with null, which is what R2 does and the code
does not look at (`PutIf`): then the process goes on as if it had the lock. `wrote`
(history) tells the handles that R2 has written from those. Two processes may believe
that they hold the lock (run `pack_lock`); the passing properties say what R2 still
guarantees: one of them at most was written (`OneHolder`), it is named there for as long as
it holds, and the others are not (`HandleIsBacked`), so that what they refresh or release
is nobody's (`LiveLockIsOwners`). `robbed` (history) is a delete that removed another lock
than the one read just before; all that follows is excepted, and `DeletesWhatItRead` of
`MCUpkeepDocs` shows it.
In PackUpload the pack and its id are one; the upload's requests fail with or
without their effect; clean-ups and deletions are processes of their own, and
`raced` (history) is one of them coming upon an upload still running.

### ObjectCollection

Objects, their references and refs are constants of the model: any graph. `Walk`
marks one object; `Old` computes the cutoff after marking, as collect does. A push
uploads what its client thinks missing, one object at a time, then sets its ref.
`PushTime` and `MarkTime` bound how long a push and a marking take, in ticks:
without bounds no grace period would do. `reused` (history) is a push that relied
on stored garbage instead of uploading: a collection that has listed the object by then
deletes it (`storage/gc.ts:286` looks at nothing again), so that `ReachableStays` excepts
such pushes.

### CompactionAlarm, TierMigration, CdcPipeline

CompactionAlarm keeps what is in memory (`needed`) apart from the row (`attempts`)
and the alarm, and loses the former in `Restart`. An alarm may fail to be set
(`SetAlarm`): the code logs it and goes on, and `refused` (history) excepts the moments
after that, when a needed compaction has no alarm. TierMigration follows one object;
`foul` (history) is a job settled that had not got its lock, or found nothing and
was undone, or was settled twice. In CdcPipeline a batch that has been taken is a
member of `runs` until it is through or goes to the dead letters. Every one of `Handlers`
output handlers takes it in turn; when one throws, those before it have taken the batch
(`Handed`) and take it again with the next try, so that `SettledOnce` counts batches
(`done`, history, and `dead`) and bounds what a handler takes by the tries. flush() makes
two batches of one (`twice`, history). What handlers are promised instead,
`OutputsAreOfSuccesses` and `FlushOutputsOnce`, fails (`MCUpkeepDocs`). `late` (history)
are events accepted while a stop was under way, which `EventsAreKept` excepts.

## 3. Runs

| run | expects | instance and bounds | shows |
|---|---|---|---|
| `store_locks` | pass | 1 reader, 2 flushers, 2 compactions, drained and shared | `ImplementsExclusiveAccess` (refinement), `NoStrandedWaiter`, `CompactionProceeds`, `ReadsProceed` |
| `store_locks_shared` | violation | 1 reader, 1 compaction | `CompactionRunsAlone` fails when a call falls between a release and its closure |
| `parquet_store` | pass | 2 objects (one large), 2 callers, threshold 2, 3 puts, 2 compactions, 1 fault, 1 crash; deletes unbounded | `HasObjectIsHonest`, `RecoveryLosesNothing`, `AckedIsReadable`, `LogDroppedOnlyWhenFiled` |
| `parquet_flaky` | violation | the same | `CompactionKeepsObjects` fails on one failed raw read |
| `parquet_reput` | violation | the same, no fault, no crash | `BufferedIsReadable` fails when an object is put again after a delete |
| `push` | pass | 2 pushes, 2 refs (one protected), 2 objects, snapshot interval 2, 1 fault, 1 crash | `RefsResolve`, `AtomicPush`, `LogMirrorsRefs`, `SnapshotIsFaithful`, `LogChains`, `ProtectedRefsStay` |
| `delta_branches` | pass | 2 refs, 2 objects, 2 branches, 3 parent appends, 1 rollback, 2 entries per branch | `MergeIsThreeWay`, `FastForwardIsMerge`, `BranchesAreIsolated` |
| `delta_forks` | violation | the same, no rollback | `MergeAcrossForks` fails for branches forked at different versions |
| `ref_homes` | pass | RefStorage: 2 callers, 2 refs, 3 calls of 4 kinds, 1 retry, 1 failure; the same over late removals; RefTable: 2 refs, 2 copies, 1 failure; ReceivePack: 2 pushes of up to 2 commands, 1 failure; atomicRefUpdate: 2 pushes, 2 failures | `ImplementsAtomicRefs` (refinement), `LocksAreOrdered`, `PackIsSnapshot`, `CacheMissesOnlyOthers`, `CleanMissesOnlyOthers`, `ReportsExplainRefs`, `FastForwardOnly`, `RollbackRestores` |
| `ref_delete` | violation | 2 callers, 2 refs, late removals | `DeleteRemovesWhatItSaw` fails |
| `upkeep` | pass | PackLock: 2 processes, lease 2, 3 ticks, 3 acquisitions, 3 puts; PackUpload: 1 upload, 2 clean-ups, 1 deletion, 2 failures; ObjectCollection: 3 objects, 1 ref, 1 push at a time, grace 2, 3 ticks; CompactionAlarm: 3 requests; TierMigration: 2 moves, 1 job, 1 write, 2 failures; CdcPipeline: 3 events, batches of 2, 2 output handlers, 1 retry, 2 starts, 2 stops, 1 flush | `OneHolder`, `HandleIsBacked`, `LiveLockIsOwners`, `PackIsWhole`, `ReachableStays`, `TriesAreBounded`, `ObjectIsKept`, `EventsAreKept`, `SettledOnce` |
| `pack_lock` | violation | PackLock as above | `HoldersAreAlone` fails: two processes steal one expired lock, R2 refuses the second put with null, and both hold it |

`RefHomes` and `Upkeep` put modules side by side that share no state: a step is a step
of one of them. `MCRefHomes` and `MCUpkeep` check them one at a time (`home`), with
the others at rest, so that the state space is the sum of theirs and not the
product; what they cannot tell of each other they cannot disturb. The theorems are
about any interleaving. Where the components do share state, they are one module
(RefTable, ObjectCollection). `serves` in RefHomes says which of the two functions
that apply pushes, handleReceivePack and atomicRefUpdate, a store is used with.

Why the bounds suffice. Locks: a second flusher makes a mutex queue, a second
compaction a writer queue and the preference of one writer for the next, and a
reader and flushers together make the broadcast to several readers. Store: three
puts with threshold 2 give two files and a buffered object, or a put during a
flush; two compactions let the second meet what the first left; one fault and
one crash combine to a failure followed by a restart at every step (the second
compaction of a run may meet the leftover journal row of the first). Pushes: two
pushes with overlapping refs, objects and old values are enough for every race
between check and commit; pushes of two commands with interval 2 take a
snapshot in the middle of a transaction. Branches: three parent entries with
interval 2 give a snapshot before, at and after a fork. Ref storage: two batches
over both refs beside an update and a delete make every conflict between a
comparison and a write; a fault in the middle of a batch leaves it half written.
Pack lock: three ticks with a lease of two let a lock expire and be stolen, refreshed or
cleaned up at every point of another call, with three owners after each other;
Upkeep_proofs takes the bounds away.
Collection: two commits over a tree are garbage, shared and reachable in turn; three
ticks reach past the grace period; Upkeep_proofs takes the bounds away.
The constraint `Promised` of `MCUpkeep.cfg` ends a behaviour of TierMigration or
ObjectCollection where `foul` or `reused` becomes true: `ObjectIsKept` and
`ReachableStays` say nothing from there on, and neither variable becomes false again.
Three requests let one come before, during and after a failing alarm. Three events
with batches of two fill a batch and leave one for the timer, flush or stop; of two output
handlers the first has taken what the second throws at.

Symmetry is used in the runs without liveness, over sets whose members the
specification and the instance treat alike. `CHECK_DEADLOCK FALSE` is set where
bounded counters or finished pushes let the system stop; the lock and branch
runs check deadlock.

**Fairness** (`StoreLocks`). Closures in the microtask queue run: weak
fairness. A critical section ends, because the events it awaits are delivered
and withLock releases in a finally: strong fairness per client, since turns of
others may come between (in drained behaviours a pending closure disables it now
and again). A flusher that got the mutex goes on to the read lock. Nothing makes
a client call in the first place, and `ReadsProceed` asks for compactions to
leave room, because a stream of writers may starve readers in this code.
`RefStorage` has weak fairness of every step of a call (`FairSpec`), for
configuration `MCRefHomesPack`: a backend answers every request.

### Disagreements between code and documentation

The six violation runs are described in `PROJECT.json` under "findings": the lock
hand-over against "no other operations can run during compaction"; compaction
dropping the rest of a file after one failed read; put after delete staying
invisible and then lost; merges across fork versions; two holders of one pack
lock, after a put that R2 refused and the code took for written; and deleteRef
giving its lock back before its removal has landed. Every property of a passing
run has a mutant of the code that breaks it (`..._Something` operators next to
the definitions they vary).

More of them have a configuration that shows the counterexample in seconds; run
`tlc -config <cfg>` with `MCRefHomes`, `MCUpkeep` or `MCPushTransaction`:

| configuration | fails | the text, and what the code does |
|---|---|---|
| `MCPushTransactionRepeated` | `OldIsPrevious` | `delta/ref-log.ts:23` "Previous SHA"; a push that names one ref twice is compared with the table before either command applies (`storage/push-transaction.ts:362`), and the second entry has an old value the ref no longer had |
| `MCRefHomesBatch` | `BatchIsAllOrNothing` | `refs/storage.ts:1456` "all updates are rolled back (all-or-nothing semantics)"; the loop of writes (1534-1542) has no undo |
| `MCRefHomesPack` | `CallsReturn` | `refs/storage.ts:1495` "Sort by name to prevent deadlocks"; packRefs locks in listing order (1639) and waits in a circle with a batch |
| `MCRefHomesRetry` | `RetryIsPatient` | `refs/storage.ts:1370` "automatic retry logic for handling concurrent modifications"; ALREADY_EXISTS is not tried again (1427) |
| `MCRefHomesUnlocked` | `SwapComparesWhatItWrites` | `refs/storage.ts:1559` "only if its current value matches"; over a StorageBackend the lock is a no-op (685-692) |
| `MCRefHomesCache` | `CacheIsCoherent` | `do/git-backend-adapter.ts:384` "subsequent reads will reload from SQLite"; nothing calls invalidateRefCache after a push |
| | `CleanMeansSynced` | `storage/parquet-ref-store.ts` isDirty "Check if there are unsynchronized changes"; syncToR2 clears the flag (229) over writes made during its upload |
| | `SwapAnswers` | "`true` if the swap succeeded, `false` if the current value didn't match" (compareAndSwapRef); it may throw instead |
| `MCRefHomesRollback` | `RollbackIsOwn` | `wire/receive-pack.ts:1944` "rolled back to the original state"; the rollback (2003) undoes other pushes as well |
| `MCRefHomesAtomic` | `AtomicIsAllOrNone` | `wire/receive-pack.ts:200` "Atomic push - all refs update or none"; handleReceivePack does not look at the capability |
| `MCRefHomesBlind` | `ReportsExplainRefs` | `wire/receive-pack.ts:1820` "atomic check for concurrent updates"; stores without compareAndSwapRef get a blind write (2564) |
| `MCUpkeepMark` | `ReachableStays` | `storage/gc.ts:178` the grace period protects "objects that are being written concurrently"; it counts from after the marking (261) |
| `MCUpkeepDocs` | `DeletesWhatItRead` | `storage/r2-pack.ts` "Safe to call even if lock has expired or been taken by another process"; get and delete are two requests (2024, 2159) |
| | `PackIsAlwaysWhole` | "Call on worker startup" (cleanupOrphanedStagingFiles), while another worker uploads: it deletes files of a running upload |
| | `SkipsWhenUsedUp` | `do/git-repo-do.ts:652` "skips compaction"; the handler writes back a count read before its await (692) |
| | `ObjectIsAlwaysKept` | cancelling a completed job deletes the only copy (`tiered/migration.ts:1618`, 1652); a refused lock is ignored (1498) |
| | `QueuedIsReplayed` | "the write is queued and replayed after migration completes"; not when migrate() or a cancelled job ends (1816) |
| | `EventsAreAlwaysKept` | `tiered/cdc-pipeline.ts:2224` "Flushes any pending events"; those accepted during the flush are dropped |
| | `FlushOutputsOnce` | `tiered/cdc-pipeline.ts:2321` flush processes a batch its batcher's handler has processed already |
| | `OutputsAreOfSuccesses` | `tiered/cdc-pipeline.ts` onOutput "called when a batch is successfully processed"; the handlers before one that throws (2350) take it on every try, and of a batch that goes to the dead letters |

Each property of `MCUpkeepDocs` and of `MCRefHomesCache` fails; TLC stops at the first it finds, and
shows another when that one is taken out of the configuration.

## 4. Proofs

`RefLog_proofs` proves, for every log, set of refs and snapshot interval: replay
of a prefix and then of the rest is replay of the whole (`ReplayOnSplit`), append
and rollback keep a log numbered and its snapshot faithful
(`LogAppendProperties`, `LogRollbackProperties`), and replayState from a faithful
snapshot is the replay of all entries (`ReplayStateIsReplay`). The maximum and
minimum in the definitions are reasoned about without induction: bounded sets of
naturals have them because the set of entry positions is an interval.

`StoreLocks_proofs` proves, for any readers, flushers and writers:

- `TypeCorrect`,
- `NobodyStranded` (`NoStrandedWaiter`), in drained and in shared turns,
- `AloneWhenDrained`: in drained turns `CompactionRunsAlone`, which run
  `store_locks_shared` refutes for shared ones,
- `LocksImplementExclusiveAccess` (`ImplementsExclusiveAccess`, the refinement).

The invariant has a part for each lock (`MutexFits`, `RWFits`), because a step of one
leaves the other alone. Each says who is in which queue, and that nobody is in two, or in
one twice; that the count of readers is the cardinality of those reading; and that
whoever waits has somebody before it: a holder, or a closure that is scheduled. The
second half holds of drained turns only: a closure that is scheduled finds the lock
free, and at most one is scheduled for a lock that one client can have. It is what
the promise of ExclusiveAccess needs, and what a call between a release and its
closure breaks.

`PushTransaction_proofs` proves of the specification, for any set of pushes,
packs, command sequences and rules and any bounds:

- `TypeCorrect`, `RefsAlwaysResolve`, `LogAlwaysMirrorsRefs`, `SnapshotAlwaysFaithful`,
- `PushesAreAtomic` and `ProtectedRefsAlwaysStay` (action properties),
- `LogAlwaysChains`, under the assumption `OneUpdatePerRef` that no push names a
  ref twice. Without it the statement is false (`MCPushTransactionRepeated`).

The argument. `RefsResolve` is not inductive: a commit publishes refs it does not
inspect. `IInv` adds what the push has established on the way: `ChecksHold` (the
targets checked so far are in the store, which only grows), `LogIsSound` (numbered,
faithful snapshot), and `TransactionIsSound` (while a transaction is open its
owner is past all checks, the compared values still stand because nothing else
runs, its view is the first `done` commands on top of the refs, and the entries
pending are exactly those logged since BEGIN, so that dropping from the least of
their versions restores the log of BEGIN). There is one lemma per action;
`Inductive` puts them together. TLC has checked `IInv` as an invariant on the
instance of run `push` as well.

Assumptions: `RefLogAssumption` and `PushAssumption` (None is no object, the
interval is positive, inputs have their types). TLC evaluates them in every run.

`RefStorage_proofs` proves, for any names, callers, requests, orders of listing, retries
and failures, over a backend that has locks and removes a ref before it returns the
promise (`Locks`):

- `TypeCorrect`,
- `Implementation` (`ImplementsAtomicRefs`): the initial states map to initial states of
  AtomicRefs, and every step to one of its steps or to a stutter,
- `PacksAreSnapshots` (`PackIsSnapshot`) and `OrderedLocks` (`LocksAreOrdered`).

`IInv` ties each operation to the refs and locks around it (`Fits`): a caller has exactly
the locks of the names it has come to (`Locked`); what it has compared is as it was read
and as expected, and while it writes, the names up to its turn have their new values and
the others what was read (`Compared`). A step of one caller touches only refs and locks
that nobody else has (`Moves`), so that all others still fit. `Settled` takes half-written
refs back; the last write, or the failure, of a batch is the moment at which AtomicRefs
takes its step (`Settling`). For `OrderedLocks`, the caller in a circle that waits for the
greatest name in `Order` would wait for one that waits for a greater one.

`RefHomes_proofs` proves, for any names, values, users, copies, pushes, commits and
failures, and any ancestry:

- `HomesTyped` (`TypesOK`), under `Locks`, since the types of RefStorage are part of it,
- `CacheMisses` (`CacheMissesOnlyOthers`) and `CleanMisses` (`CleanMissesOnlyOthers`),
- `RollbackIsWhole` (`RollbackRestores`),
- `OnlyForward` (`FastForwardOnly`, an action property) and `ReportsAddUp`
  (`ReportsExplainRefs`), if the store has compareAndSwapRef (`CanSwap`); without it
  `MCRefHomesBlind` refutes the second.

For the table, `Current` says of a copy of it that it differs only in rows that others
wrote, or the store itself while a copy was on its way; `TableInv` says it of the
file while the store is clean, of what each copy under way has taken, and of the file
once a copy has landed: so the flag may be cleared when its answer arrives. For
pushes, `PushFits` ties results, position and phase; `AloneFits` and `Undoable` say of
a push that is alone what it has read and what of the refs it may have changed:
each is put back from what was read when the rollback comes to it, and none is beside
those it names. A command that is applied was found to go forward
(`Forward`) before the awaits in between, and the swap compares the value of that
moment. The counts of `ReportsExplainRefs` are cardinalities of sets of
positions in `accepted`: one more position is one more in one of two sets, so that
no induction is needed.

`Upkeep_proofs` proves of each part of Upkeep, whatever the others do, `PartsTyped`
(`TypesOK`) and:

- of the lock of a pack, `TypeCorrect`, `BackedHandles` (`HandleIsBacked`), `MutualExclusion`
  (`OneHolder`) and `OwnersTouch` (`LiveLockIsOwners`), for any processes, lease, grace
  period and bounds, whichever way R2 answers a put that it refuses,
- `WholePacks` (`PackIsWhole`) for any clean-ups, deletions and number of failures,
- `ReachableIsKept` (`ReachableStays`) over any graph of objects, any pushes and refs, if
  `PushTime + MarkTime < CollectGrace`,
- `BoundedTries` (`TriesAreBounded`) for any number of attempts, requests, restarts and
  alarms that cannot be set,
- `MovedIsKept` (`ObjectIsKept`) for any moves, jobs, targets and failures, with and without
  checks,
- `AcceptedIsKept` (`EventsAreKept`) and `BatchesSettleOnce` (`SettledOnce`) for any events,
  batch size, output handlers, retries and calls of flush, stop and start.

*The lock of a pack.* `OneHolder` says nothing of a process between a read of the lock
and its conditional put. `IInv` adds, for the record of each process (`Fits`): what it
has read of the lock object is an older version of it, or the same one (`Older`), so
that a put conditional on that etag replaces what was looked at; a lock that is being
stolen had expired when it was read; and a handle, also a new one on its way, is named
by the object until its expiry (`Backed`), if R2 has written it (`wrote`). Two holders of
that kind would both be named in one object, and ids are distinct. A process that R2 has
refused is not named there (`Named`): a new id never was, and a refresh is refused only
when what it has read is no longer there; and no later step of others names it, since each
writes its own id. Two lemmas carry the actions: a step that changes one
process's record (`Quiet`), and a put by a process that may make it (`Write`).

*Uploads.* `UploadInv` says at each step of an upload which files are there and what the
manifest says (`FilesFit`), and that nobody else has begun to delete, unless one
came upon the running upload.

*Collections.* `Reach` is the least closed set above its roots, so the lemmas about it need
no induction. `CollectionInv` says what a collection half way through has established
(`MarkingFits`): whatever the refs reach now is reached from what is marked or to be
walked, or is too young; what a push has uploaded is younger than the push
(`PushesFit`); and what is listed for deletion is reached by no ref.

*Alarms.* A request clears the count while a handler holds an older one, so a bound on
the stored count says nothing of the tries. `TriesFit`: while a compaction is needed, none
of its tries has been made, or no handler is under way and the row counts them all; a
handler counts all but its own.

*Tiers.* `Safe` and `JobFits` say what a call or job at each step knows of the two copies:
the hot one is there while it is being copied, and the warm one from when it was
written until the deletion. What keeps them true is the lock: whoever has not got it
takes no copy away and leaves the lock alone (`Calm`), and every step of the others is
checked against that. A job without its lock, one that found nothing, or one settled
twice breaks it, and `foul` excepts the behaviours with one of these.

*Events.* `EventFits` counts for each event how many batches with it were settled: none while
it is in the batcher or in a batch, and at most one if that batch is one flush() processes
again; and no two batches hold it. `Tried` bounds what each output handler has taken of it:
once for every failure so far of the batch it is in, and once for every try of those that
were settled, since a handler that throws may have others before it. `BatchFits` and `StopsFit` say why none is lost in a
batcher that is given up: while a stop is under way, what is in it came after the
stop began, and otherwise it has a timer.

`ParquetStore_proofs` proves, for any objects and callers, any number of operations,
failures and crashes, and any thresholds:

- `TypeCorrect` and `VouchedIsOnDisk` (`HasObjectIsHonest`),
- `RecoveryIsSafe` (`RecoveryLosesNothing`): replaying every row of the journal, from
  wherever a crash left it, loses no object,
- `LogOutlivesFlush` (`LogDroppedOnlyWhenFiled`, an action property),
- `AckedStaysReadable` (`AckedIsReadable`).

`RecoveryLosesNothing` speaks of the disk only; `IInv` says why a compaction half way
through keeps it. `JournalFits`: each row has its own target, and no target is the
source of another row, so that what one row deletes is never what another one has
written; a row that is written has a target that holds all its sources held.
`Excluded`: flush and compaction are never both past their lock. `CompactFits` and
`NamesFit` tie the running operation's memory to files and row: a flushed file holds
what its name says, so writing it again changes nothing. `LogFits`: what the log has and the
buffer has not is being flushed. Files shrink only when a row's sources go, and `Safe`,
what is left after all rows were replayed, never does. `AckedIsReadable` needs a second
invariant, `ReadFits`: what was acknowledged is at hand (in the buffer, a file in the
index, or the flush under way), or memory is impaired or being rebuilt from the disk.

`DeltaBranches_proofs` proves `TypeCorrect`, `MergesAreThreeWay` (`MergeIsThreeWay`),
`FastForwardsAreMerges` (`FastForwardIsMerge`) and `BranchesStayIsolated`
(`BranchesAreIsolated`) for any refs, branches, logs and snapshot interval. `IInv` says
that every log, the parent's and each branch's, is numbered and has a faithful snapshot;
then what a branch inherits is a prefix of the parent's entries (`UpTo`), which appends
and checkpoints leave alone and a rollback shortens only from its version on. Merge and
replay are compared ref by ref (`SameBase`). Branches that forked at different versions
are outside these theorems: run `delta_forks` refutes the statement for them.

Assumptions: `ConstantsOK` of ParquetStore, evaluated in run `parquet_store`;
`DeltaAssumption`, in run `delta_branches`; `HomesAssumption` (with `RefAssumption`), in
run `ref_homes`; `UpkeepAssumption`, in run `upkeep`; they say what types the constants have and
that the tags of the models are distinct. The hypotheses that say more each have a
configuration that shows what goes wrong without it: the grace period `MCUpkeepMark`, `CanSwap` `MCRefHomesBlind`, and `Locks` `MCRefHomesUnlocked`
and `MCRefHomesDelete`.

So every safety property of a passing run is proved under these, and both refinements. Model-checked
only is liveness, `CompactionProceeds` and `ReadsProceed`: it is beyond the prover. What
the violation runs and the configurations of section 3 show are counterexamples.
TLC has checked the inductive invariants as well, on the instances of the passing runs.

## 5. Not modelled

See "components" in `PROJECT.json`. Formats (pkt-lines, packs, Parquet, bundles) and
pure computations on the object graph are left out on purpose: they keep no state,
and their inputs are bytes. They, and the front ends, are most of the code by lines.

`do/wal.ts` is left out although it has transactions: nothing in `src/src` constructs
WALManager, and its statements name columns and a table that the schema of the
Durable Object does not have, so it has no state that the program could be in.

Of the modelled components these operations are left: HEAD and other symbolic refs,
and locks handed to callers (RefStorage); upload-pack, quarantine and hooks (wire); the
multi-pack index and downloads (pack storage); two collections at once; the scheduler
of `tiered/background-migration.ts` and the read path; rolling back a branch's own
log; a listing of R2 with more than 1000 keys; bloom false positives. The object store
under PushTransaction is taken at its promise, without deletes; ObjectCollection is
the composition of pushes with deletions.

## 6. Plan

What is left, in order of what the system depends on most:

1. The LRU cache of `do/object-store.ts` over ParquetStore with tombstones; the rate
   limiter; the scheduler of background migration.
2. The composition of PushTransaction with ParquetStore itself, in place of its promise.

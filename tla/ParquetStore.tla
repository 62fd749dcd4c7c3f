---------------------------- MODULE ParquetStore ----------------------------
(***************************************************************************)
(* storage/parquet-store.ts: the git object store over R2 Parquet files.   *)
(*                                                                         *)
(* A put writes a row of the SQLite write-ahead log (write_buffer_wal),    *)
(* buffers the object in memory and records its SHA in the exact cache     *)
(* (sha_cache, storage/bloom-cache.ts).  A flush turns the buffer into one *)
(* file on R2 and drops the log rows; a compaction merges all files into   *)
(* one under a journal; a restart lists the files, finishes or undoes the  *)
(* journalled compactions and replays the log.                             *)
(*                                                                         *)
(* An object is its SHA: content addressing makes every copy equal.  A     *)
(* step ends where the code awaits R2; SQLite and memory are updated       *)
(* together between two awaits.  The locks are those of ExclusiveAccess:   *)
(* puts and flushes share, one flush at a time, compaction alone (see      *)
(* StoreLocks for the lock code).                                          *)
(***************************************************************************)
EXTENDS Naturals, Sequences, FiniteSets, Functions, TLC

CONSTANTS
    Sha,             \* object names
    Flaky,           \* large objects, kept raw on R2: reading one may fail
    Proc,            \* callers of putObject and flush
    None,
    FlushThreshold,  \* buffered objects that make putObject flush
    MaxPuts,         \* bound: putObject calls
    MaxFiles,        \* bound: compactions started
    MaxFaults,       \* bound: R2 calls that fail
    MaxCrashes       \* bound: restarts of the Durable Object

ASSUME ConstantsOK == /\ Flaky \subseteq Sha
                      /\ None \notin Sha
                      /\ FlushThreshold \in Nat \ {0}

VARIABLES
    r2,          \* the bucket: file key -> SHAs of its rows       (durable)
    wal,         \* rows of write_buffer_wal                       (durable)
    journal,     \* rows of compaction_journal; a younger row has a
                 \* target of higher uuid                       (durable)
    shaCache,    \* SHAs in sha_cache: bloomCache says "definite"  (durable)
    phase,       \* of this instance of the store
    buffer,      \* buffer and bufferIndex: copies buffered of each SHA
    fileKeys,    \* objectFileKeys
    tombstones,
    walIds,      \* walEntryIds
    op,          \* what each caller is doing
    cp,          \* the compaction in progress
    tried,       \* recovery: files it tried to delete for the oldest row
    acked,       \* history: SHAs some putObject has returned
    deleted,     \* history: SHAs somebody asked deleteObject to delete
    skipped,     \* history: SHAs a compaction could not read and gave up
    impaired,    \* history: since the start, a failed flush or compaction
                 \* left the instance's memory behind what is on disk
    used         \* counters behind the bounds

durable == <<r2, wal, journal, shaCache>>
memory  == <<buffer, fileKeys, tombstones, walIds>>
history == <<acked, deleted, skipped, impaired>>
vars    == <<durable, phase, memory, op, cp, tried, history, used>>

Nothing == [s \in Sha |-> 0]
Holds(b) == {s \in Sha : b[s] > 0}

\* flush names its file by the digest of the SHAs in it, so the same objects
\* give the same key again; compact takes a random UUID.
FlushKey(b) == [rows |-> b, uuid |-> 0]
CompactKey(n) == [rows |-> Nothing, uuid |-> n]

Put(key, shas) == [k \in DOMAIN r2 \cup {key} |-> IF k = key THEN shas ELSE r2[k]]
Remove(key) == Restrict(r2, DOMAIN r2 \ {key})

Idle == [at |-> "idle", sha |-> None, snap |-> Nothing, ids |-> {}]
NoCompaction == [at |-> "idle", src |-> {}, target |-> CompactKey(0),
                 left |-> {}, seen |-> {}, kept |-> {}]

Init == /\ r2 = <<>> /\ wal = {} /\ journal = {} /\ shaCache = {}
        /\ phase = "down"
        /\ buffer = Nothing /\ fileKeys = {} /\ tombstones = {} /\ walIds = {}
        /\ op = [p \in Proc |-> Idle]
        /\ cp = NoCompaction
        /\ tried = {}
        /\ acked = {} /\ deleted = {} /\ skipped = {} /\ impaired = FALSE
        /\ used = [puts |-> 0, rows |-> 0, files |-> 0, faults |-> 0, crashes |-> 0]

Ready == phase = "ready"
Compacting == cp.at # "idle"

Use(c) == used' = [used EXCEPT ![c] = @ + 1]
Fault == used.faults < MaxFaults /\ Use("faults")
-----------------------------------------------------------------------------
(* ------------------------------ putObject ------------------------------ *)

\* withReadLock, then await hashObject (and the raw upload of a large object).
PutBegin(p, s) ==
    /\ Ready /\ ~Compacting /\ op[p] = Idle
    /\ used.puts < MaxPuts /\ Use("puts")
    /\ op' = [op EXCEPT ![p].at = "hashing", ![p].sha = s]
    /\ UNCHANGED <<durable, phase, memory, cp, tried, history>>

\* The upload of the raw object fails: nothing is recorded.
PutFail(p) ==
    /\ op[p].at = "hashing" /\ op[p].sha \in Flaky
    /\ Fault
    /\ op' = [op EXCEPT ![p] = Idle]
    /\ UNCHANGED <<durable, phase, memory, cp, tried, history>>

\* The put goes on to flush when the buffer is full (the byte limits and the
\* back-pressure limits of the code are further ways to be full).
NeedsFlush(b) == SumFunction(b) >= FlushThreshold

\* Log row, buffer, exact cache; the put returns unless it has to flush.
PutInsert(p) ==
    LET s == op[p].sha IN
    /\ op[p].at = "hashing"
    /\ wal' = wal \cup {[id |-> used.rows + 1, sha |-> s]}
    /\ walIds' = walIds \cup {used.rows + 1}
    /\ Use("rows")
    /\ buffer' = [buffer EXCEPT ![s] = @ + 1]
    /\ shaCache' = shaCache \cup {s}
    /\ IF NeedsFlush(buffer')
         THEN op' = [op EXCEPT ![p].at = "wantFlush"] /\ UNCHANGED acked
         ELSE op' = [op EXCEPT ![p] = Idle] /\ acked' = acked \cup {s}
    /\ UNCHANGED <<r2, journal, phase, fileKeys, tombstones, cp, tried, deleted,
                   skipped, impaired>>
-----------------------------------------------------------------------------
(* -------------------------------- flush --------------------------------- *)

\* The caller's promise resolves: a put that flushed returns its SHA now.
Return(p) == /\ op' = [op EXCEPT ![p] = Idle]
             /\ acked' = acked \cup ({op[p].sha} \ {None})

FlushCall(p) ==
    /\ Ready /\ op[p] = Idle /\ buffer # Nothing
    /\ op' = [op EXCEPT ![p].at = "wantFlush"]
    /\ UNCHANGED <<durable, phase, memory, cp, tried, history, used>>

\* Both tests of an empty buffer, before and under the locks.
FlushNothing(p) ==
    /\ op[p].at = "wantFlush" /\ buffer = Nothing
    /\ Return(p)
    /\ UNCHANGED <<durable, phase, memory, cp, tried, deleted, skipped, impaired, used>>

Flushing(p) == op[p].at \in {"flushing", "stored"}

\* Under both locks: take the buffer and its log ids, and leave empty ones.
FlushTake(p) ==
    /\ op[p].at = "wantFlush" /\ buffer # Nothing
    /\ ~Compacting /\ \A q \in Proc : ~Flushing(q)
    /\ op' = [op EXCEPT ![p] = [@ EXCEPT !.at = "flushing", !.snap = buffer, !.ids = walIds]]
    /\ buffer' = Nothing /\ walIds' = {}
    /\ UNCHANGED <<durable, phase, fileKeys, tombstones, cp, tried, history, used>>

\* R2 has the file; its answer is still on the way.
FlushStore(p) ==
    /\ op[p].at = "flushing"
    /\ r2' = Put(FlushKey(op[p].snap), Holds(op[p].snap))
    /\ op' = [op EXCEPT ![p].at = "stored"]
    /\ UNCHANGED <<wal, journal, shaCache, phase, memory, cp, tried, history, used>>

\* A wrong Covered: the whole log, with what was put while the file was under way.
Covered_Whole(p) == wal

\* The log rows of the buffer that this flush took.
Covered(p) == {w \in wal : w.id \in op[p].ids}

\* The answer: register the file, then drop the log rows it covers.
FlushEnd(p) ==
    /\ op[p].at = "stored"
    /\ fileKeys' = fileKeys \cup {FlushKey(op[p].snap)}
    /\ wal' = wal \ Covered(p)
    /\ Return(p)
    /\ UNCHANGED <<r2, journal, shaCache, phase, buffer, tombstones, walIds, cp, tried,
                   deleted, skipped, impaired, used>>

\* R2 refuses the file, or its answer is lost: the caller gets the error, and
\* nothing puts the objects back into the buffer.
FlushFail(p) ==
    /\ Flushing(p) /\ Fault
    /\ op' = [op EXCEPT ![p] = Idle]
    /\ impaired' = TRUE
    /\ UNCHANGED <<durable, phase, memory, cp, tried, acked, deleted, skipped>>
-----------------------------------------------------------------------------
(* ----------------------------- deleteObject ----------------------------- *)

\* A wrong DeleteObject: takes a copy off the buffer without looking for one.
DeleteObject_OneCopy(s) ==
    /\ tombstones' = tombstones \cup {s}
    /\ buffer' = [buffer EXCEPT ![s] = @ - 1]
    /\ wal' = {w \in wal : w.sha # s}
    /\ deleted' = deleted \cup {s}
    /\ UNCHANGED <<r2, journal, shaCache, phase, fileKeys, walIds, op, cp, tried, acked,
                   skipped, impaired, used>>

\* deleteObject takes no lock and awaits nothing, not even initialize().
DeleteObject(s) ==
    /\ tombstones' = tombstones \cup {s}
    /\ buffer' = [buffer EXCEPT ![s] = 0]
    /\ wal' = {w \in wal : w.sha # s}
    /\ deleted' = deleted \cup {s}
    /\ UNCHANGED <<r2, journal, shaCache, phase, fileKeys, walIds, op, cp, tried, acked,
                   skipped, impaired, used>>
-----------------------------------------------------------------------------
(* ------------------------------- compact -------------------------------- *)

\* A wrong JournalRow: promises the target before it is uploaded.
JournalRow_Early(target) == [src |-> fileKeys, target |-> target, status |-> "written"]

JournalRow(target) == [src |-> fileKeys, target |-> target, status |-> "in_progress"]

\* Write lock taken: no put is inside and no flush has taken the buffer.
CompactBegin ==
    LET target == CompactKey(used.files + 1) IN
    /\ Ready /\ ~Compacting
    /\ \A p \in Proc : op[p].at \in {"idle", "wantFlush"}
    /\ Cardinality(fileKeys) >= 2
    /\ used.files < MaxFiles /\ Use("files")
    /\ journal' = journal \cup {JournalRow(target)}
    /\ cp' = [NoCompaction EXCEPT !.at = "reading", !.src = fileKeys, !.target = target,
                                  !.left = fileKeys]
    /\ UNCHANGED <<r2, wal, shaCache, phase, memory, op, tried, history>>

\* Read one source file (a missing one is skipped): keep the rows that are
\* neither tombstoned nor seen before.
CompactRead(k) ==
    LET new == (IF k \in DOMAIN r2 THEN r2[k] ELSE {}) \ (tombstones \cup cp.seen) IN
    /\ cp.at = "reading" /\ k \in cp.left
    /\ cp' = [cp EXCEPT !.left = @ \ {k}, !.seen = @ \cup new, !.kept = @ \cup new]
    /\ UNCHANGED <<durable, phase, memory, op, tried, history, used>>

\* Reading the raw copy of large object s fails inside the try of this file:
\* s is already marked seen, the rows before it are kept, the rest of the
\* file is abandoned with a warning.
CompactReadPart(k, s, before) ==
    LET new == before \ (tombstones \cup cp.seen) IN
    /\ cp.at = "reading" /\ k \in cp.left /\ k \in DOMAIN r2
    /\ s \in (r2[k] \cap Flaky) \ (tombstones \cup cp.seen)
    /\ before \subseteq r2[k] \ {s}
    /\ Fault
    /\ cp' = [cp EXCEPT !.left = @ \ {k}, !.seen = @ \cup new \cup {s}, !.kept = @ \cup new]
    /\ skipped' = skipped \cup (r2[k] \ (before \cup cp.seen))
    /\ UNCHANGED <<durable, phase, memory, op, tried, acked, deleted, impaired>>

\* The rows of the journal for one compaction, dropped or marked by target.
JournalDrop(t) == {j \in journal : j.target # t}
JournalMark(t) == {[j EXCEPT !.status = IF j.target = t THEN "written" ELSE @] : j \in journal}

\* Nothing survived: forget the compaction.  (The buffer is not looked at.)
CompactNothing ==
    /\ cp.at = "reading" /\ cp.left = {} /\ cp.kept = {}
    /\ journal' = JournalDrop(cp.target)
    /\ cp' = NoCompaction
    /\ UNCHANGED <<r2, wal, shaCache, phase, memory, op, tried, history, used>>

\* A wrong Folded: the buffer is reset all the same.
Folded_Nothing == {}

\* The buffered objects that the merged file also takes.
Folded == Holds(buffer) \ (tombstones \cup cp.seen)

\* Fold the buffer in and start the upload of the merged file.
CompactMerge ==
    /\ cp.at = "reading" /\ cp.left = {} /\ cp.kept # {}
    /\ cp' = [cp EXCEPT !.at = "merged", !.kept = @ \cup Folded]
    /\ UNCHANGED <<durable, phase, memory, op, tried, history, used>>

CompactStore ==
    /\ cp.at = "merged"
    /\ r2' = Put(cp.target, cp.kept)
    /\ cp' = [cp EXCEPT !.at = "stored"]
    /\ UNCHANGED <<wal, journal, shaCache, phase, memory, op, tried, history, used>>

\* The upload is confirmed: from here on the sources may go.
CompactMark ==
    /\ cp.at = "stored"
    /\ journal' = JournalMark(cp.target)
    /\ cp' = [cp EXCEPT !.at = "deleting", !.left = cp.src]
    /\ UNCHANGED <<r2, wal, shaCache, phase, memory, op, tried, history, used>>

CompactDelete(k) ==
    /\ cp.at = "deleting" /\ k \in cp.left
    /\ r2' = Remove(k)
    /\ cp' = [cp EXCEPT !.left = @ \ {k}]
    /\ UNCHANGED <<wal, journal, shaCache, phase, memory, op, tried, history, used>>

\* Everything is in the target: reset memory, drop the journal row.  The log
\* rows of the folded buffer stay, and so do their ids in walEntryIds.
CompactEnd ==
    /\ cp.at = "deleting" /\ cp.left = {}
    /\ fileKeys' = {cp.target}
    /\ buffer' = Nothing
    /\ tombstones' = {}
    /\ journal' = JournalDrop(cp.target)
    /\ cp' = NoCompaction
    /\ UNCHANGED <<r2, wal, shaCache, phase, walIds, op, tried, history, used>>

\* An R2 call throws (its effect may have happened): the journal row and the
\* memory stay as they are.
CompactFail ==
    /\ Compacting /\ Fault
    /\ cp' = NoCompaction
    /\ \/ UNCHANGED r2
       \/ cp.at = "deleting" /\ \E k \in cp.left : r2' = Remove(k)
    /\ impaired' = (impaired \/ cp.at = "deleting")
    /\ UNCHANGED <<wal, journal, shaCache, phase, memory, op, tried, acked, deleted, skipped>>
-----------------------------------------------------------------------------
(* --------------------------- crash and restart -------------------------- *)

\* The Durable Object is evicted or fails: memory and calls are gone.
Crash ==
    /\ used.crashes < MaxCrashes /\ Use("crashes")
    /\ phase' = "down"
    /\ buffer' = Nothing /\ fileKeys' = {} /\ tombstones' = {} /\ walIds' = {}
    /\ op' = [p \in Proc |-> Idle] /\ cp' = NoCompaction /\ tried' = {}
    /\ UNCHANGED <<durable, acked, deleted, skipped, impaired>>

\* A wrong Leftovers: deletes the side that must stay.
Leftovers_Swapped(j) == IF j.status = "written" THEN {j.target} ELSE j.src

\* What recovery deletes for a journal row: the sources once the target is
\* written, a half-written target otherwise.
Leftovers(j) == IF j.status = "written" THEN j.src ELSE {j.target}
Oldest(j) == j \in journal /\ \A i \in journal : j.target.uuid <= i.target.uuid

\* The first call on a new instance: discoverObjectFiles, then the journal.
Boot ==
    /\ phase = "down"
    /\ phase' = "recovering"
    /\ fileKeys' = DOMAIN r2
    /\ impaired' = FALSE
    /\ UNCHANGED <<durable, buffer, tombstones, walIds, op, cp, tried, acked, deleted, skipped,
                   used>>

\* The listing fails: initPromise keeps the rejection and every later call of
\* this instance fails.
BootFail ==
    /\ phase = "down" /\ Fault
    /\ phase' = "broken"
    /\ UNCHANGED <<durable, memory, op, cp, tried, history>>

\* Recovery deletes a file; a failure is only logged.
RecoverDelete(j, k) ==
    /\ phase = "recovering" /\ Oldest(j) /\ k \in Leftovers(j) \ tried
    /\ \/ r2' = Remove(k) /\ UNCHANGED used
       \/ Fault /\ UNCHANGED r2
    /\ tried' = tried \cup {k}
    /\ UNCHANGED <<wal, journal, shaCache, phase, memory, op, cp, history>>

\* The oldest journal row is settled.  (A half-written target keeps its place
\* in objectFileKeys; reading it finds nothing.)
RecoverRow(j) ==
    /\ phase = "recovering" /\ Oldest(j) /\ Leftovers(j) \subseteq tried
    /\ fileKeys' = IF j.status = "written" THEN (fileKeys \ j.src) \cup {j.target}
                                           ELSE fileKeys
    /\ journal' = journal \ {j}
    /\ tried' = {}
    /\ UNCHANGED <<r2, wal, shaCache, phase, buffer, tombstones, walIds, op, cp, history, used>>

\* recoverWAL: each logged SHA once into the buffer, every row id kept.
RecoverWAL ==
    /\ phase = "recovering" /\ journal = {}
    /\ buffer' = [s \in Sha |-> IF \E w \in wal : w.sha = s THEN 1 ELSE 0]
    /\ walIds' = {w.id : w \in wal}
    /\ phase' = "ready"
    /\ UNCHANGED <<durable, fileKeys, tombstones, op, cp, tried, history, used>>
-----------------------------------------------------------------------------
PutObject(p) == (\E s \in Sha : PutBegin(p, s)) \/ PutFail(p) \/ PutInsert(p)

Flush(p) == \/ FlushCall(p) \/ FlushNothing(p) \/ FlushTake(p) \/ FlushStore(p)
            \/ FlushEnd(p) \/ FlushFail(p)

Compact == \/ CompactBegin \/ CompactNothing \/ CompactMerge \/ CompactStore
           \/ CompactMark \/ CompactEnd \/ CompactFail
           \/ \E k \in cp.left : CompactRead(k) \/ CompactDelete(k)
           \/ \E k \in cp.left \cap DOMAIN r2 :
                \E s \in r2[k] : \E before \in SUBSET r2[k] : CompactReadPart(k, s, before)

Recover == \/ Boot \/ BootFail \/ RecoverWAL
           \/ \E j \in journal : \/ RecoverRow(j)
                                 \/ \E k \in Leftovers(j) : RecoverDelete(j, k)

Next == \/ \E p \in Proc : PutObject(p) \/ Flush(p)
        \/ \E s \in Sha : DeleteObject(s)
        \/ Compact \/ Crash \/ Recover

Spec == Init /\ [][Next]_vars
-----------------------------------------------------------------------------
Key == [rows : [Sha -> Nat], uuid : Nat]

TypeOK ==
    /\ DOMAIN r2 \subseteq Key /\ \A k \in DOMAIN r2 : r2[k] \subseteq Sha
    /\ wal \subseteq [id : Nat, sha : Sha]
    /\ journal \subseteq [src : SUBSET Key, target : Key, status : {"in_progress", "written"}]
    /\ shaCache \subseteq Sha
    /\ phase \in {"down", "recovering", "ready", "broken"}
    /\ buffer \in [Sha -> Nat] /\ fileKeys \subseteq Key
    /\ tombstones \subseteq Sha /\ walIds \subseteq Nat
    /\ op \in [Proc -> [at : {"idle", "hashing", "wantFlush", "flushing", "stored"},
                        sha : Sha \cup {None}, snap : [Sha -> Nat], ids : SUBSET Nat]]
    /\ cp \in [at : {"idle", "reading", "merged", "stored", "deleting"}, src : SUBSET Key,
               target : Key, left : SUBSET Key, seen : SUBSET Sha, kept : SUBSET Sha]
    /\ tried \subseteq Key
    /\ acked \subseteq Sha /\ deleted \subseteq Sha /\ skipped \subseteq Sha
    /\ impaired \in BOOLEAN

\* Objects the store may have lost: deleted ones, and those a compaction gave
\* up because a raw copy could not be read (CompactReadPart).
Lost == deleted \cup skipped

\* The SHAs a restart would find if the files in "gone" were not there.
StoredWithout(gone) == {w.sha : w \in wal} \cup UNION {r2[k] : k \in DOMAIN r2 \ gone}

(* Every object the exact cache calls "definite" (so hasObject answers yes  *)
(* and a push skips the upload) is in the log or in a file on R2, across    *)
(* flushes, compactions, failures and restarts.  Objects that were deleted  *)
(* or given up are excepted: sha_cache is never told of either.             *)
HasObjectIsHonest == shaCache \ Lost \subseteq StoredWithout({})

(* At every moment the files that a restart would delete for the journal    *)
(* are dispensable: sources of a written compaction, or its unconfirmed     *)
(* target (recoverCompaction).                                              *)
RecoveryLosesNothing ==
    \A j \in journal : shaCache \ Lost \subseteq StoredWithout(Leftovers(j))

\* getObject(s) would return the object.
Readable(s) == /\ s \notin tombstones
               /\ \/ buffer[s] > 0
                  \/ s \in shaCache /\ \E k \in fileKeys \cap DOMAIN r2 : s \in r2[k]

(* Unless a failure since the start made memory lag, every acknowledged     *)
(* object not deleted or given up can be read back, but for the window in which *)
(* a flush carries it to R2 (the buffer is emptied before the upload) and   *)
(* the one in which a compaction, with readers locked out, deletes files.   *)
AckedIsReadable ==
    Ready /\ ~impaired => \A s \in acked \ Lost :
        \/ Readable(s)
        \/ \E p \in Proc : Flushing(p) /\ op[p].snap[s] > 0
        \/ cp.at = "deleting" /\ s \in cp.kept

(* "WAL entries are cleared ONLY after the Parquet file is successfully     *)
(* written to R2" (flush): no step drops a log row of an object that is     *)
(* neither deleted nor given up unless a file on R2 holds the object.       *)
LogDroppedOnlyWhenFiled ==
    [][\A w \in wal \ wal' :
          \/ w.sha \in Lost'
          \/ \E k \in DOMAIN r2' : w.sha \in r2'[k]]_vars

(* "Reads all objects from existing Parquet files, excludes tombstoned      *)
(* SHAs, deduplicates by SHA, and writes a single merged Parquet file"      *)
(* (compact): once the merged file is confirmed, no object that nobody      *)
(* deleted is left behind in the sources alone.                             *)
CompactionKeepsObjects ==
    cp.at = "deleting" =>
        \A k \in cp.src \cap DOMAIN r2 : r2[k] \ deleted \subseteq StoredWithout(cp.src)

(* putObject "stores the object, and returns the hash" (storage/backend.ts) *)
(* and a tombstone stands for a deletion: what a put has buffered, getObject*)
(* returns, also when the object had been deleted before it was put again.  *)
BufferedIsReadable == \A s \in Sha : buffer[s] > 0 => Readable(s)
=============================================================================

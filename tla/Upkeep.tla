-------------------------------- MODULE Upkeep --------------------------------
(***************************************************************************)
(* What goes on beside the requests, together: the lock on a pack          *)
(* (PackLock), the upload of a pack, its clean-up and deletion             *)
(* (PackUpload), garbage collection (ObjectCollection), the compaction     *)
(* alarm (CompactionAlarm), the migration of an object between tiers       *)
(* (TierMigration) and change data capture (CdcPipeline).  They share no   *)
(* state: a step is a step of one of them.                                 *)
(***************************************************************************)
EXTENDS PackLock

CONSTANTS
    Cleaner, Deleter, UploadFaults,                     \* PackUpload
    Object, Needs, Ref, Pusher, CollectGrace,           \* ObjectCollection
    MaxDeletes, PushTime, MarkTime, CollectTime,
    MaxAttempts, MaxRequests,                           \* CompactionAlarm
    Mover, Job, Target, VerifyChecksum, MaxWrites, MoveFaults,
                                                        \* TierMigration
    Event, Stop, BatchSize, MaxRetries, Handlers, MaxStarts, MaxFlushes
                                                        \* CdcPipeline

VARIABLES
    staged, stored, manifest, upload, cleaner, deleter, uFaults, raced, deleted,
    gClock, refs, born, push, gc, reused,
    alarms, needed, attempts, alarm, handler, requests, tries, refused,
    hot, warm, tier, lock, migrating, mover, job, queued, landing, writes, tFaults, foul,
    running, batcher, runs, stops, outputs, done, dead, accepted, late, twice, starts, flushes

uVars == <<staged, stored, manifest, upload, cleaner, deleter, uFaults, raced, deleted>>
gVars == <<gClock, refs, born, push, gc, reused>>
aVars == <<alarms, needed, attempts, alarm, handler, requests, tries, refused>>
tVars == <<hot, warm, tier, lock, migrating, mover, job, queued, landing, writes, tFaults, foul>>
cVars == <<running, batcher, runs, stops, outputs, done, dead, accepted, late, twice, starts, flushes>>
upkeepVars == <<vars, uVars, gVars, aVars, tVars, cVars>>

U == INSTANCE PackUpload WITH faults <- uFaults, MaxFaults <- UploadFaults
G == INSTANCE ObjectCollection WITH
        clock <- gClock, Proc <- Pusher, Grace <- CollectGrace, MaxTime <- CollectTime
A == INSTANCE CompactionAlarm
T == INSTANCE TierMigration WITH faults <- tFaults, MaxFaults <- MoveFaults
C == INSTANCE CdcPipeline

UpkeepAssumption ==
    /\ PackLockAssumption /\ U!UploadAssumption /\ G!CollectionAssumption
    /\ A!AlarmAssumption /\ T!TierAssumption /\ C!CdcAssumption
ASSUME UpkeepAssumption

UpkeepInit == Init /\ U!Init /\ G!Init /\ A!Init /\ T!Init /\ C!Init

InPack == Next /\ UNCHANGED <<uVars, gVars, aVars, tVars, cVars>>
InUpload == U!Next /\ UNCHANGED <<vars, gVars, aVars, tVars, cVars>>
InCollection == G!Next /\ UNCHANGED <<vars, uVars, aVars, tVars, cVars>>
InAlarm == A!Next /\ UNCHANGED <<vars, uVars, gVars, tVars, cVars>>
InTier == T!Next /\ UNCHANGED <<vars, uVars, gVars, aVars, cVars>>
InCdc == C!Next /\ UNCHANGED <<vars, uVars, gVars, aVars, tVars>>

UpkeepNext == InPack \/ InUpload \/ InCollection \/ InAlarm \/ InTier \/ InCdc
UpkeepSpec == UpkeepInit /\ [][UpkeepNext]_upkeepVars
-----------------------------------------------------------------------------
(* Types of the six modules.  The properties of PackLock are in it.         *)
TypesOK == TypeOK /\ U!TypeOK /\ G!TypeOK /\ A!TypeOK /\ T!TypeOK /\ C!TypeOK

(* PackUpload: see the module for each.                                     *)
PackIsWhole == U!PackIsWhole
PackIsAlwaysWhole == U!PackIsAlwaysWhole

(* ObjectCollection: likewise; a push and a marking are shorter than the    *)
(* grace period together, or it is not so.                                  *)
ReachableStays == G!ReachableStays

(* CompactionAlarm: likewise.                                               *)
TriesAreBounded == A!TriesAreBounded
SkipsWhenUsedUp == A!SkipsWhenUsedUp

(* TierMigration: likewise.                                                 *)
ObjectIsKept == T!ObjectIsKept
ObjectIsAlwaysKept == T!ObjectIsAlwaysKept
QueuedIsReplayed == T!QueuedIsReplayed

(* CdcPipeline: likewise.                                                   *)
EventsAreKept == C!EventsAreKept
SettledOnce == C!SettledOnce
EventsAreAlwaysKept == C!EventsAreAlwaysKept
FlushOutputsOnce == C!FlushOutputsOnce
OutputsAreOfSuccesses == C!OutputsAreOfSuccesses
=============================================================================

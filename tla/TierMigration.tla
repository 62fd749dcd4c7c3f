----------------------------- MODULE TierMigration -----------------------------
(***************************************************************************)
(* tiered/migration.ts: TierMigrator and one object that moves from the    *)
(* hot to the warm tier.  migrate() does it in one call; a job is started, *)
(* and later completed, or rolled back or cancelled, by calls of its own.  *)
(* The tiers, the location index and the lock are behind awaits; writes    *)
(* made while the object moves are queued.                                 *)
(***************************************************************************)
EXTENDS Naturals

CONSTANTS
    Mover,      \* calls of migrate()
    Job,        \* migration jobs
    None,
    Target,     \* tiers that are asked for, of {"hot", "warm"}
    VerifyChecksum, \* options.verifyChecksum
    MaxWrites, MaxFaults

TierAssumption ==
    /\ Mover \cap Job = {} /\ None \notin Mover \cup Job
    /\ Target \subseteq {"hot", "warm"} /\ VerifyChecksum \in BOOLEAN
    /\ {MaxWrites, MaxFaults} \subseteq Nat

VARIABLES
    hot, warm,      \* the tiers that hold the object
    tier,           \* where the location index says it is
    lock,           \* whose lock it is, if any
    migrating,      \* the object is in migratingObjects
    mover,          \* how far each call of migrate() is
    job,            \* the jobs, and the calls made for each
    queued,         \* pendingWrites
    landing,        \* writes on their way to the hot tier
    writes, faults,
    foul            \* history: a job was settled that had not got the lock, or that
                    \* had found nothing to copy and was undone, or was settled twice

vars == <<hot, warm, tier, lock, migrating, mover, job, queued, landing, writes, faults, foul>>

NewMove == [phase |-> "idle", target |-> "warm"]
NewJob == [ phase |-> "idle", target |-> "warm", locked |-> FALSE, found |-> FALSE,
            complete |-> "no", undo |-> "no" ]

Init == /\ hot = TRUE /\ warm = FALSE /\ tier = "hot" /\ lock = None /\ migrating = FALSE
        /\ mover = [m \in Mover |-> NewMove] /\ job = [j \in Job |-> NewJob]
        /\ queued = 0 /\ landing = 0 /\ writes = 0 /\ faults = 0 /\ foul = FALSE

Fault == faults < MaxFaults /\ faults' = faults + 1
Fine == UNCHANGED faults

Goto(m, phase) == mover' = [mover EXCEPT ![m].phase = phase]
-----------------------------------------------------------------------------
\* migrate: the location is not the target, and nothing migrates here.
Migrate(m, target) ==
    /\ mover[m].phase = "idle" /\ tier # target /\ ~migrating
    /\ mover' = [mover EXCEPT ![m] = [phase |-> "locking", target |-> target]]
    /\ Fine /\ UNCHANGED <<hot, warm, tier, lock, migrating, job, queued, landing, writes, foul>>

\* The lock is waited for, up to a time.
Lock(m) ==
    /\ mover[m].phase = "locking"
    /\ \/ lock = None /\ lock' = m /\ migrating' = TRUE /\ Goto(m, "looking")
       \/ lock # None /\ Goto(m, "idle") /\ UNCHANGED <<lock, migrating>>
    /\ Fine /\ UNCHANGED <<hot, warm, tier, job, queued, landing, writes, foul>>

\* The location, read again under the lock.
Moved(m) == tier = mover[m].target

Look(m) ==
    /\ mover[m].phase = "looking"
    /\ Goto(m, IF Moved(m) THEN "finishing" ELSE "reading")
    /\ Fine /\ UNCHANGED <<hot, warm, tier, lock, migrating, job, queued, landing, writes, foul>>

Read(m) ==
    /\ mover[m].phase = "reading"
    /\ Goto(m, IF hot THEN "copying" ELSE "finishing")
    /\ Fine /\ UNCHANGED <<hot, warm, tier, lock, migrating, job, queued, landing, writes, foul>>

\* A wrong CopyFailed: the failure is not noticed.
CopyFailed_GoesOn == "moving"

\* Where migrate goes on after a put that fails: to clean up.
CopyFailed == "undoing"

\* putToWarm; a put that fails may have written or not.
Copy(m) ==
    /\ mover[m].phase = "copying"
    /\ \/ warm' = TRUE /\ Goto(m, IF VerifyChecksum THEN "verifying" ELSE "moving") /\ Fine
       \/ warm' \in {warm, TRUE} /\ Goto(m, CopyFailed) /\ Fault
    /\ UNCHANGED <<hot, tier, lock, migrating, job, queued, landing, writes, foul>>

\* A copy that is not there passes, one that differs is deleted.
Check(m) ==
    /\ mover[m].phase = "verifying"
    /\ \/ Goto(m, "moving") /\ Fine
       \/ warm /\ Goto(m, "undoing") /\ Fault
    /\ UNCHANGED <<hot, warm, tier, lock, migrating, job, queued, landing, writes, foul>>

Undo(m) ==
    /\ mover[m].phase = "undoing"
    /\ \/ warm' = FALSE /\ Fine
       \/ UNCHANGED warm /\ Fault
    /\ Goto(m, "finishing")
    /\ UNCHANGED <<hot, tier, lock, migrating, job, queued, landing, writes, foul>>

\* updateLocation.
Move(m) ==
    /\ mover[m].phase = "moving"
    /\ \/ tier' = mover[m].target /\ Goto(m, "deleting") /\ Fine
       \/ UNCHANGED tier /\ Goto(m, "undoing") /\ Fault
    /\ UNCHANGED <<hot, warm, lock, migrating, job, queued, landing, writes, foul>>

\* deleteFromHot; if it fails the copy stays.
Remove(m) ==
    /\ mover[m].phase = "deleting"
    /\ \/ hot' = FALSE /\ Fine
       \/ UNCHANGED hot /\ Fault
    /\ Goto(m, "finishing")
    /\ UNCHANGED <<warm, tier, lock, migrating, job, queued, landing, writes, foul>>

\* The finally of migrate.
Finish(m) ==
    /\ mover[m].phase = "finishing"
    /\ migrating' = FALSE /\ Goto(m, "unlocking")
    /\ Fine /\ UNCHANGED <<hot, warm, tier, lock, job, queued, landing, writes, foul>>

Unlock(m) ==
    /\ mover[m].phase = "unlocking"
    /\ lock' = None /\ Goto(m, "idle")
    /\ Fine /\ UNCHANGED <<hot, warm, tier, migrating, job, queued, landing, writes, foul>>
-----------------------------------------------------------------------------
\* startMigrationJob goes on without the lock if it is refused.
StartJob(j, target) ==
    /\ job[j].phase = "idle"
    /\ lock' = IF lock = None THEN j ELSE lock
    /\ job' = [job EXCEPT ![j] = [NewJob EXCEPT !.phase = IF hot THEN "copying" ELSE "open",
                                  !.target = target, !.locked = (lock = None), !.found = hot]]
    /\ migrating' = TRUE
    /\ Fine /\ UNCHANGED <<hot, warm, tier, mover, queued, landing, writes, foul>>

\* putToWarm; if it fails the caller has no job, but it can be cancelled.
CopyJob(j) ==
    /\ job[j].phase = "copying"
    /\ \/ warm' = TRUE /\ job' = [job EXCEPT ![j].phase = "open"] /\ Fine
       \/ warm' \in {warm, TRUE} /\ job' = [job EXCEPT ![j].phase = "failed"] /\ Fault
    /\ UNCHANGED <<hot, tier, lock, migrating, mover, queued, landing, writes, foul>>

Settle(j, how) == foul' = (foul \/ ~job[j].locked \/ job[j].complete # "no" \/ job[j].undo # "no"
                                \/ (how = "undo" /\ ~job[j].found))

\* completeMigrationJob: location, hot copy, lock, queue.
Complete(j) ==
    /\ job[j].phase = "open" /\ job[j].complete = "no"
    /\ job' = [job EXCEPT ![j].complete = "moving"]
    /\ Settle(j, "complete")
    /\ Fine /\ UNCHANGED <<hot, warm, tier, lock, migrating, mover, queued, landing, writes>>

\* It ends where a call fails, with the job and the lock as they are.
CompleteMove(j) ==
    /\ job[j].complete = "moving"
    /\ \/ tier' = job[j].target /\ job' = [job EXCEPT ![j].complete = "deleting"] /\ Fine
       \/ UNCHANGED tier /\ job' = [job EXCEPT ![j].complete = "failed"] /\ Fault
    /\ UNCHANGED <<hot, warm, lock, migrating, mover, queued, landing, writes, foul>>

CompleteDelete(j) ==
    /\ job[j].complete = "deleting"
    /\ \/ hot' = FALSE /\ job' = [job EXCEPT ![j].complete = "unlocking"] /\ Fine
       \/ UNCHANGED hot /\ job' = [job EXCEPT ![j].complete = "failed"] /\ Fault
    /\ UNCHANGED <<warm, tier, lock, migrating, mover, queued, landing, writes, foul>>

CompleteUnlock(j) ==
    /\ job[j].complete = "unlocking"
    /\ lock' = IF job[j].locked THEN None ELSE lock
    /\ job' = [job EXCEPT ![j].complete = "closing"]
    /\ Fine /\ UNCHANGED <<hot, warm, tier, migrating, mover, queued, landing, writes, foul>>

CompleteClose(j) ==
    /\ job[j].complete = "closing"
    /\ migrating' = FALSE
    /\ job' = [job EXCEPT ![j].complete = IF queued > 0 THEN "replaying" ELSE "done"]
    /\ Fine /\ UNCHANGED <<hot, warm, tier, lock, mover, queued, landing, writes, foul>>

CompleteReplay(j) ==
    /\ job[j].complete = "replaying"
    /\ \/ warm' = TRUE /\ queued' = 0 /\ job' = [job EXCEPT ![j].complete = "done"] /\ Fine
       \/ UNCHANGED <<warm, queued>> /\ job' = [job EXCEPT ![j].complete = "failed"] /\ Fault
    /\ UNCHANGED <<hot, tier, lock, migrating, mover, landing, writes, foul>>

\* rollbackMigrationJob of a job that was returned, or cancelMigrationJob of
\* one that is found in activeJobs.
UndoJob(j) ==
    /\ job[j].phase # "idle" /\ job[j].undo = "no"
    /\ job' = [job EXCEPT ![j].undo = "deleting"]
    /\ Settle(j, "undo")
    /\ Fine /\ UNCHANGED <<hot, warm, tier, lock, migrating, mover, queued, landing, writes>>

UndoDelete(j) ==
    /\ job[j].undo = "deleting"
    /\ \/ warm' = FALSE /\ job' = [job EXCEPT ![j].undo = "unlocking"] /\ Fine
       \/ UNCHANGED warm /\ job' = [job EXCEPT ![j].undo = "failed"] /\ Fault
    /\ UNCHANGED <<hot, tier, lock, migrating, mover, queued, landing, writes, foul>>

UndoUnlock(j) ==
    /\ job[j].undo = "unlocking"
    /\ lock' = IF job[j].locked THEN None ELSE lock
    /\ job' = [job EXCEPT ![j].undo = "closing"]
    /\ Fine /\ UNCHANGED <<hot, warm, tier, migrating, mover, queued, landing, writes, foul>>

UndoClose(j) ==
    /\ job[j].undo = "closing"
    /\ migrating' = FALSE
    /\ job' = [job EXCEPT ![j].undo = "done"]
    /\ Fine /\ UNCHANGED <<hot, warm, tier, lock, mover, queued, landing, writes, foul>>
-----------------------------------------------------------------------------
\* writeDuringMigration.
Write ==
    /\ writes < MaxWrites /\ writes' = writes + 1
    /\ IF migrating THEN queued' = queued + 1 /\ UNCHANGED landing
                    ELSE landing' = landing + 1 /\ UNCHANGED queued
    /\ Fine /\ UNCHANGED <<hot, warm, tier, lock, migrating, mover, job, foul>>

Land ==
    /\ landing > 0 /\ landing' = landing - 1
    /\ hot' = TRUE
    /\ Fine /\ UNCHANGED <<warm, tier, lock, migrating, mover, job, queued, writes, foul>>

Next == \/ Write \/ Land
        \/ \E m \in Mover : \/ \E target \in Target : Migrate(m, target)
                            \/ Lock(m) \/ Look(m) \/ Read(m) \/ Copy(m) \/ Check(m)
                            \/ Undo(m) \/ Move(m) \/ Remove(m) \/ Finish(m) \/ Unlock(m)
        \/ \E j \in Job : \/ \E target \in Target : StartJob(j, target)
                          \/ CopyJob(j) \/ Complete(j) \/ CompleteMove(j) \/ CompleteDelete(j)
                          \/ CompleteUnlock(j) \/ CompleteClose(j) \/ CompleteReplay(j)
                          \/ UndoJob(j) \/ UndoDelete(j) \/ UndoUnlock(j) \/ UndoClose(j)

Spec == Init /\ [][Next]_vars
-----------------------------------------------------------------------------
TypeOK ==
    /\ {hot, warm, migrating, foul} \subseteq BOOLEAN /\ tier \in {"hot", "warm"}
    /\ lock \in Mover \cup Job \cup {None}
    /\ mover \in [Mover -> [ target : {"hot", "warm"},
           phase : {"idle", "locking", "looking", "reading", "copying", "verifying",
                    "undoing", "moving", "deleting", "finishing", "unlocking"} ]]
    /\ job \in [Job -> [ target : {"hot", "warm"}, locked : BOOLEAN, found : BOOLEAN,
           phase : {"idle", "copying", "open", "failed"},
           complete : {"no", "moving", "deleting", "unlocking", "closing", "replaying", "done", "failed"},
           undo : {"no", "deleting", "unlocking", "closing", "done", "failed"} ]]
    /\ {queued, landing, writes, faults} \subseteq Nat

(* An object that is moved, or whose move fails anywhere, is undone or is   *)
(* written to meanwhile, is in one of the tiers: no copy is deleted before  *)
(* the other is there.  Not so once a job is settled that has no right to.  *)
ObjectIsKept == ~foul => hot \/ warm

(* "Cancels a migration job and cleans up any partial data in the target    *)
(* tier" (rollbackMigrationJob): for every job that is settled once.        *)
ObjectIsAlwaysKept == hot \/ warm

(* "If the object is being migrated, the write is queued and replayed after *)
(* migration completes" (writeDuringMigration).                             *)
QueuedIsReplayed == ~migrating => queued = 0
=============================================================================

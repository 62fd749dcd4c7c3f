------------------------------ MODULE PackLock ------------------------------
(***************************************************************************)
(* storage/r2-pack.ts: the lock on a pack that processes share through one *)
(* object in R2.  The object names its holder and an expiry; it is created *)
(* and replaced by conditional puts, stolen once expired, refreshed,       *)
(* released and cleaned up.  Every request to R2 is awaited, so that any   *)
(* time may pass and other processes may act between any two.  R2 answers  *)
(* a put whose condition fails with null, or rejects it; the code waits    *)
(* for a rejection only, so that a process may go on as if it had written. *)
(***************************************************************************)
EXTENDS Naturals

CONSTANTS
    Proc,       \* processes that use the lock of one pack
    None,
    TTL,        \* ttlMs
    Grace,      \* stealingGracePeriodMs
    MaxTime,    \* bound: the clock
    MaxCalls,   \* bound: lock ids
    MaxPuts     \* bound: puts

PackLockAssumption ==
    /\ {TTL, Grace, MaxTime, MaxCalls, MaxPuts} \subseteq Nat
    /\ None \notin [id : Nat, expiresAt : Nat, etag : Nat]

VARIABLES
    clock,      \* Date.now()
    file,       \* the lock object, with its etag
    puts,       \* R2 gives every put an etag of its own
    ids,        \* lock ids handed out
    proc,       \* what each process is doing, and the handle it has; history: whether
                \* R2 has written the lock that this is about
    robbed      \* history: a delete has removed another lock than the one read

vars == <<clock, file, puts, ids, proc, robbed>>

LockFile == [id : Nat, expiresAt : Nat, etag : Nat]
Acquiring == {"head", "get", "create", "steal", "created", "verify", "stolen"}
Refreshing == {"rhead", "rget", "rput", "rhead2"}
Phase == {"idle", "held", "releasing", "deleting", "cleaning"} \cup Acquiring \cup Refreshing

Nobody == [ phase |-> "idle", how |-> "acquire", id |-> 0, start |-> 0,
            seen |-> None, found |-> None, expiresAt |-> 0, wrote |-> FALSE ]

Init == /\ clock = 0 /\ file = None /\ puts = 0 /\ ids = 0
        /\ proc = [p \in Proc |-> Nobody] /\ robbed = FALSE

Goto(p, phase) == proc' = [proc EXCEPT ![p].phase = phase]
Leave(p) == proc' = [proc EXCEPT ![p] = Nobody]

\* The refresh is over, with the handle as it was.
Keep(p) == proc' = [proc EXCEPT ![p] = [Nobody EXCEPT
                        !.phase = "held", !.id = proc[p].id, !.expiresAt = proc[p].expiresAt,
                        !.wrote = proc[p].wrote]]

\* The object is written, under a new etag.
Put(id, expiresAt) == /\ puts < MaxPuts
                      /\ file' = [id |-> id, expiresAt |-> expiresAt, etag |-> puts + 1]
                      /\ puts' = puts + 1
-----------------------------------------------------------------------------
\* acquireDistributedLock, with stealing allowed or not, and
\* forceStealExpiredLock; acquireLock calls the first until it has a handle.
Acquire(p, how) ==
    /\ proc[p].phase = "idle" /\ ids < MaxCalls
    /\ ids' = ids + 1
    /\ proc' = [proc EXCEPT ![p] = [Nobody EXCEPT !.phase = "head", !.how = how,
                                                  !.id = ids + 1, !.start = clock]]
    /\ UNCHANGED <<clock, file, puts, robbed>>

\* Without an object to look at, a lock is created; a forced one is not.
Head(p) ==
    /\ proc[p].phase = "head"
    /\ IF file # None THEN proc' = [proc EXCEPT ![p].phase = "get", ![p].seen = file]
       ELSE IF proc[p].how = "force" THEN Leave(p) ELSE Goto(p, "create")
    /\ UNCHANGED <<clock, file, puts, ids, robbed>>

\* The lock found has expired, and this call may steal it.
Stealable(p) ==
    /\ file.expiresAt <= proc[p].start
    /\ proc[p].how = "acquire" => proc[p].start >= file.expiresAt + Grace
    /\ proc[p].how # "polite"

Get(p) ==
    /\ proc[p].phase = "get"
    /\ IF file = None
         THEN IF proc[p].how = "force" THEN Leave(p) ELSE Goto(p, "create")
         ELSE IF Stealable(p)
         THEN proc' = [proc EXCEPT ![p].phase = "steal", ![p].found = file]
         ELSE Leave(p)
    /\ UNCHANGED <<clock, file, puts, ids, robbed>>

\* The answer to p's put: null is not told from an object.
Answered(p, then, written) == proc' = [proc EXCEPT ![p].phase = then, ![p].wrote = written]

\* A conditional put by p, and where it goes on: also without the lock, if R2
\* does not reject the put whose condition fails.
PutIf(p, condition, expiresAt, then, failed) ==
    /\ \/ condition /\ Put(proc[p].id, expiresAt) /\ Answered(p, then, TRUE)
       \/ ~condition /\ UNCHANGED <<file, puts>> /\ (failed \/ Answered(p, then, FALSE))
    /\ UNCHANGED <<clock, ids, robbed>>

\* onlyIf: { etagDoesNotMatch: '*' }
Create(p) ==
    /\ proc[p].phase = "create"
    /\ PutIf(p, file = None, proc[p].start + TTL, "created", Leave(p))

\* A wrong Unmodified: the etag is not compared.
Unmodified_Blind(p) == file # None

\* onlyIf: { etagMatches: existingObj.etag }
Unmodified(p) == file # None /\ file.etag = proc[p].seen.etag

Steal(p) ==
    /\ proc[p].phase = "steal"
    /\ PutIf(p, Unmodified(p), proc[p].start + TTL, "stolen", Leave(p))

\* head for the new etag.
Created(p) ==
    /\ proc[p].phase = "created"
    /\ IF file = None THEN Leave(p) ELSE Goto(p, "verify")
    /\ UNCHANGED <<clock, file, puts, ids, robbed>>

\* A wrong Hold: the lease counts from when the put was answered.
Hold_Late(p) == proc' = [proc EXCEPT ![p] = [Nobody EXCEPT
                        !.phase = "held", !.id = proc[p].id, !.expiresAt = clock + TTL,
                        !.wrote = proc[p].wrote]]

Hold(p) == proc' = [proc EXCEPT ![p] = [Nobody EXCEPT
                        !.phase = "held", !.id = proc[p].id, !.expiresAt = proc[p].start + TTL,
                        !.wrote = proc[p].wrote]]

\* A created lock is read back and its id compared, a stolen one is not.
Verify(p) ==
    /\ proc[p].phase = "verify"
    /\ IF file # None /\ file.id # proc[p].id THEN Leave(p) ELSE Hold(p)
    /\ UNCHANGED <<clock, file, puts, ids, robbed>>

Stolen(p) ==
    /\ proc[p].phase = "stolen"
    /\ IF file = None THEN Leave(p) ELSE Hold(p)
    /\ UNCHANGED <<clock, file, puts, ids, robbed>>
-----------------------------------------------------------------------------
\* refreshDistributedLock; when it answers false the handle stays as it is.
Refresh(p) ==
    /\ proc[p].phase = "held"
    /\ proc' = [proc EXCEPT ![p].phase = "rhead", ![p].start = clock]
    /\ UNCHANGED <<clock, file, puts, ids, robbed>>

RefreshHead(p) ==
    /\ proc[p].phase = "rhead"
    /\ IF file = None THEN Keep(p)
       ELSE proc' = [proc EXCEPT ![p].phase = "rget", ![p].seen = file]
    /\ UNCHANGED <<clock, file, puts, ids, robbed>>

RefreshGet(p) ==
    /\ proc[p].phase = "rget"
    /\ IF file # None /\ file.id = proc[p].id /\ file.expiresAt > proc[p].start
         THEN proc' = [proc EXCEPT ![p].phase = "rput", ![p].found = file]
         ELSE Keep(p)
    /\ UNCHANGED <<clock, file, puts, ids, robbed>>

RefreshPut(p) ==
    /\ proc[p].phase = "rput"
    /\ PutIf(p, Unmodified(p), proc[p].start + TTL, "rhead2", Keep(p))

RefreshDone(p) ==
    /\ proc[p].phase = "rhead2"
    /\ IF file = None THEN Keep(p) ELSE Hold(p)
    /\ UNCHANGED <<clock, file, puts, ids, robbed>>
-----------------------------------------------------------------------------
\* release and releaseDistributedLock.
Release(p) ==
    /\ proc[p].phase = "held"
    /\ Goto(p, "releasing")
    /\ UNCHANGED <<clock, file, puts, ids, robbed>>

\* A wrong Owns: whatever lock is there is deleted.
Owns_Any(p) == file # None

Owns(p) == file # None /\ file.id = proc[p].id

\* What was read is to be deleted, if the condition on it holds.
DeleteIf(p, condition) ==
    IF condition THEN proc' = [proc EXCEPT ![p].phase = "deleting", ![p].seen = file] ELSE Leave(p)

ReleaseGet(p) ==
    /\ proc[p].phase = "releasing"
    /\ DeleteIf(p, Owns(p))
    /\ UNCHANGED <<clock, file, puts, ids, robbed>>

\* cleanupExpiredLocks lists the locks and takes the time.
Clean(p) ==
    /\ proc[p].phase = "idle" /\ file # None
    /\ proc' = [proc EXCEPT ![p] = [Nobody EXCEPT !.phase = "cleaning", !.start = clock]]
    /\ UNCHANGED <<clock, file, puts, ids, robbed>>

CleanGet(p) ==
    /\ proc[p].phase = "cleaning"
    /\ DeleteIf(p, file # None /\ file.expiresAt <= proc[p].start)
    /\ UNCHANGED <<clock, file, puts, ids, robbed>>

\* The delete of a release or of a clean-up, which has no condition: it
\* removes whatever lock is there by now.
Delete(p) ==
    /\ proc[p].phase = "deleting"
    /\ file' = None /\ Leave(p)
    /\ robbed' = (robbed \/ file \notin {None, proc[p].seen})
    /\ UNCHANGED <<clock, puts, ids>>

\* The process is gone, its lock object is not.
Crash(p) ==
    /\ proc[p].phase # "idle"
    /\ Leave(p)
    /\ UNCHANGED <<clock, file, puts, ids, robbed>>

Tick == /\ clock < MaxTime
        /\ clock' = clock + 1
        /\ UNCHANGED <<file, puts, ids, proc, robbed>>

Next == \/ Tick
        \/ \E p \in Proc :
              \/ \E how \in {"acquire", "polite", "force"} : Acquire(p, how)
              \/ Head(p) \/ Get(p) \/ Create(p) \/ Steal(p)
              \/ Created(p) \/ Verify(p) \/ Stolen(p)
              \/ Refresh(p) \/ RefreshHead(p) \/ RefreshGet(p) \/ RefreshPut(p) \/ RefreshDone(p)
              \/ Release(p) \/ ReleaseGet(p) \/ Clean(p) \/ CleanGet(p) \/ Delete(p)
              \/ Crash(p)

Spec == Init /\ [][Next]_vars
-----------------------------------------------------------------------------
TypeOK ==
    /\ clock \in Nat /\ puts \in Nat /\ ids \in Nat /\ robbed \in BOOLEAN
    /\ file \in LockFile \cup {None}
    /\ proc \in [Proc -> [ phase : Phase, how : {"acquire", "polite", "force"}, id : Nat,
                           start : Nat, seen : LockFile \cup {None},
                           found : LockFile \cup {None}, expiresAt : Nat, wrote : BOOLEAN ]]

\* isHeld of a lock that its caller has not begun to release.
IsHeld(p) == proc[p].phase \in {"held"} \cup Refreshing /\ proc[p].expiresAt > clock

(* Of the processes that hold the lock of a pack one at most has got it     *)
(* from R2, whatever the delays between reading the lock and writing it,    *)
(* whoever crashes, steals or refreshes; but for a delete that has removed  *)
(* another lock than the one read.  Others may believe that they hold it:   *)
(* those whose put was answered with null (see HoldersAreAlone).            *)
OneHolder ==
    ~robbed => \A p, q \in Proc :
        IsHeld(p) /\ IsHeld(q) /\ proc[p].wrote /\ proc[q].wrote => p = q

(* Whoever got the lock is named in R2, for at least as long: no other      *)
(* process reads there that the lock is free.  Who went on after a put that *)
(* was answered with null is not named: a refresh will tell it so, and its  *)
(* release deletes nothing.                                                 *)
HandleIsBacked == \A p \in Proc : IsHeld(p) =>
    IF proc[p].wrote
      THEN ~robbed => file # None /\ file.id = proc[p].id /\ file.expiresAt >= proc[p].expiresAt
      ELSE ~Owns(p)

(* Until it expires, a lock is touched by its holder only: it is refreshed  *)
(* or released.  That holds of the processes that went on after a null too. *)
LiveLockIsTouched ==
    ~robbed' /\ file # None /\ file.expiresAt > clock /\ file' # file =>
        \E p \in Proc : proc[p].id = file.id /\ proc[p].phase \in {"rput", "deleting"}
LiveLockIsOwners == [][LiveLockIsTouched]_vars

(* "Conditional write failed - another process got the lock" (the catch of  *)
(* acquireDistributedLock): two processes never both go on with the lock.   *)
HoldersAreAlone == ~robbed => \A p, q \in Proc : IsHeld(p) /\ IsHeld(q) => p = q

(* "Safe to call even if lock has expired or been taken by another process" *)
(* (release), "Lock is expired, safe to delete" (cleanupExpiredLocks): no   *)
(* delete removes a lock that it has not read.                              *)
DeletesWhatItRead == ~robbed
=============================================================================

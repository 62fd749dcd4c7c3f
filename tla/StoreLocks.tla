----------------------------- MODULE StoreLocks -----------------------------
(***************************************************************************)
(* How the operations of ParquetStore share its two locks                  *)
(* (storage/parquet-store.ts, utils/async-mutex.ts).                       *)
(*                                                                         *)
(*   Reader   putObject, getObject, hasObject: read lock                   *)
(*   Flusher  flush: flushMutex, then inside it the read lock              *)
(*   Writer   compact: write lock                                          *)
(*                                                                         *)
(* JavaScript runs one turn at a time.  A turn starts with an event (an    *)
(* R2 answer, a new request) and ends when the microtask queue is empty,   *)
(* and release() only schedules the next holder.  In a "drained" run every *)
(* call on a lock finds no scheduled closure: each event drives a single   *)
(* promise chain.  In a "shared" run several chains advance in one turn    *)
(* (Promise.all over operations, or release() and acquire() in the same    *)
(* synchronous block), so a call may come before the closures that an      *)
(* earlier release scheduled.                                              *)
(***************************************************************************)
EXTENDS AsyncLocks

CONSTANTS Reader, Flusher, Writer

ASSUME ClientsDisjoint == /\ Reader \cap Flusher = {}
                          /\ Reader \cap Writer = {}
                          /\ Flusher \cap Writer = {}

VARIABLES rw,      \* rwLock: the ReadWriteLock
          mx,      \* flushMutex: the AsyncMutex
          pc,      \* where each client is
          turns    \* "drained" or "shared"; it never changes

vars == <<rw, mx, pc, turns>>

Client == Reader \cup Flusher \cup Writer

State == { "idle", "mutexWait", "mutexHeld", "readWait", "reading", "readDone",
           "writeWait", "writing" }

Init == /\ rw = NewRWLock
        /\ mx = NewMutex
        /\ pc = [c \in Client |-> "idle"]
        /\ turns \in {"drained", "shared"}

Drained == rw.woken = <<>> /\ mx.woken = <<>>

\* A client may call on a lock now.
InTurn == turns = "shared" \/ Drained

Goto(c, s) == pc' = [pc EXCEPT ![c] = s] /\ UNCHANGED turns
-----------------------------------------------------------------------------
\* flush(): flushMutex.withLock(...)
CallMutex(c) ==
    /\ InTurn /\ c \in Flusher /\ pc[c] = "idle"
    /\ IF MutexIsFree(mx)
         THEN mx' = MutexTake(mx) /\ Goto(c, "mutexHeld")
         ELSE mx' = MutexQueue(mx, c) /\ Goto(c, "mutexWait")
    /\ UNCHANGED rw

\* rwLock.withReadLock(...): a reader at once, a flusher inside the mutex.
CallRead(c) ==
    /\ InTurn
    /\ \/ c \in Reader /\ pc[c] = "idle"
       \/ c \in Flusher /\ pc[c] = "mutexHeld"
    /\ IF ReadIsFree(rw)
         THEN rw' = ReadTake(rw) /\ Goto(c, "reading")
         ELSE rw' = ReadQueue(rw, c) /\ Goto(c, "readWait")
    /\ UNCHANGED mx

\* compact(): rwLock.withWriteLock(...)
CallWrite(c) ==
    /\ InTurn /\ c \in Writer /\ pc[c] = "idle"
    /\ IF WriteIsFree(rw)
         THEN rw' = WriteTake(rw) /\ Goto(c, "writing")
         ELSE rw' = WriteQueue(rw, c) /\ Goto(c, "writeWait")
    /\ UNCHANGED mx

\* The finally of withReadLock; a flusher still holds the mutex then.
EndRead(c) ==
    /\ InTurn /\ pc[c] = "reading"
    /\ rw' = ReadRelease(rw)
    /\ Goto(c, IF c \in Flusher THEN "readDone" ELSE "idle")
    /\ UNCHANGED mx

EndMutex(c) ==
    /\ InTurn /\ pc[c] = "readDone"
    /\ mx' = MutexRelease(mx)
    /\ Goto(c, "idle")
    /\ UNCHANGED rw

EndWrite(c) ==
    /\ InTurn /\ pc[c] = "writing"
    /\ rw' = WriteRelease(rw)
    /\ Goto(c, "idle")
    /\ UNCHANGED mx

\* The next closure of the microtask queue of each lock.
RunMutexClosure ==
    /\ mx.woken # <<>>
    /\ mx' = MutexWake(mx)
    /\ Goto(Head(mx.woken), "mutexHeld")
    /\ UNCHANGED rw

RunReadClosure ==
    /\ rw.woken # <<>> /\ Head(rw.woken) \notin Writer
    /\ rw' = ReadWake(rw)
    /\ Goto(Head(rw.woken), "reading")
    /\ UNCHANGED mx

RunWriteClosure ==
    /\ rw.woken # <<>> /\ Head(rw.woken) \in Writer
    /\ rw' = WriteWake(rw)
    /\ Goto(Head(rw.woken), "writing")
    /\ UNCHANGED mx

RunClosure == RunMutexClosure \/ RunReadClosure \/ RunWriteClosure

Finish(c) == EndRead(c) \/ EndMutex(c) \/ EndWrite(c)

Next == \/ \E c \in Client : CallMutex(c) \/ CallRead(c) \/ CallWrite(c) \/ Finish(c)
        \/ RunClosure

(***************************************************************************)
(* The microtask queue is always run to its end.  Every critical section   *)
(* of the store ends (withLock releases in a finally) and a flusher that   *)
(* got the mutex goes on to the read lock: their events are delivered      *)
(* sooner or later, though turns of others come between, hence SF.         *)
(* Nothing makes a client call again.                                      *)
(***************************************************************************)
Fairness == /\ WF_vars(RunMutexClosure)
            /\ WF_vars(RunReadClosure \/ RunWriteClosure)
            /\ \A c \in Client : SF_vars(Finish(c))
            /\ \A c \in Flusher : SF_vars(CallRead(c))

Spec == Init /\ [][Next]_vars
FairSpec == Spec /\ Fairness
-----------------------------------------------------------------------------
In(c) == pc[c] \in {"reading", "writing"}

InMutex(c) == c \in Flusher /\ pc[c] \in {"mutexHeld", "readWait", "reading", "readDone"}

TypeOK ==
    /\ mx \in [locked : BOOLEAN, waiters : Seq(Flusher), woken : Seq(Flusher)]
    /\ rw \in [ readers : Nat, writing : BOOLEAN, writeWaiters : Seq(Writer),
                readWaiters : Seq(Reader \cup Flusher), woken : Seq(Client) ]
    /\ pc \in [Client -> State]
    /\ turns \in {"drained", "shared"}

\* What each client does, seen as ExclusiveAccess sees it.
Phase(c) == IF In(c) THEN "in"
            ELSE IF pc[c] \in {"idle", "readDone"} THEN "out" ELSE "wait"

EA == INSTANCE ExclusiveAccess WITH at <- [c \in Client |-> Phase(c)],
                                    strict <- (turns = "drained")

(* When each event drives one promise chain, the queue-and-microtask locks  *)
(* implement the promise of ExclusiveAccess: compaction alone, one flush.   *)
ImplementsExclusiveAccess == EA!Spec

(* Nobody waits in a queue that nobody will serve, whatever the turns: a    *)
(* queued flusher has a flusher before it, a queued writer somebody inside  *)
(* or scheduled, and queued readers a writer (the last reader out never     *)
(* looks at readWaiters, so only a writer's release can wake them).         *)
NoStrandedWaiter ==
    /\ mx.waiters # <<>> => mx.woken # <<>> \/ \E c \in Flusher : InMutex(c)
    /\ rw.writeWaiters # <<>> => rw.woken # <<>> \/ \E c \in Client : In(c)
    /\ rw.readWaiters # <<>> =>
          \/ rw.writeWaiters # <<>>
          \/ \E c \in Writer : pc[c] = "writing"
          \/ \E i \in DOMAIN rw.woken : rw.woken[i] \in Writer

(* Writers have priority: a compaction that queues gets the lock, however   *)
(* many reads, puts and flushes keep arriving.                              *)
CompactionProceeds == \A c \in Writer : (pc[c] = "writeWait" ~> pc[c] = "writing")

\* Some writer holds the write lock, queues for it or is scheduled.
WriterAbout == \E c \in Writer : pc[c] # "idle"

(* Reads and flushes get in as soon as compactions leave room: a stream of  *)
(* writers may starve them, nothing else does.                              *)
ReadsProceed ==
    []<>(~WriterAbout) =>
        \A c \in Client : (pc[c] \in {"readWait", "mutexWait"} ~> pc[c] = "reading")

(* "Uses write lock for exclusive access - no other operations can run      *)
(* during compaction" (parquet-store.ts, compact).                          *)
CompactionRunsAlone ==
    \A c \in Writer : pc[c] = "writing" => \A d \in Client \ {c} : ~In(d)
=============================================================================

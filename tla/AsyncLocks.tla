----------------------------- MODULE AsyncLocks -----------------------------
(***************************************************************************)
(* utils/async-mutex.ts as operators on lock values: AsyncMutex and        *)
(* ReadWriteLock, the two classes every coordinated operation of the       *)
(* object store goes through.                                              *)
(*                                                                         *)
(* A lock value holds the fields of the class and "woken", the closures    *)
(* that release() has handed to queueMicrotask and that have not run yet.  *)
(* A closure is the client it resolves.  Releasing hands nothing over: the *)
(* lock is marked free at once, and the waiter takes it only when its      *)
(* closure runs.                                                           *)
(***************************************************************************)
EXTENDS Naturals, Sequences

(* ------------------------------ AsyncMutex ------------------------------ *)

NewMutex == [locked |-> FALSE, waiters |-> <<>>, woken |-> <<>>]

\* acquire(): a free mutex is taken in the caller's own turn.
MutexIsFree(m) == ~m.locked
MutexTake(m) == [m EXCEPT !.locked = TRUE]

\* acquire() on a held mutex: the waiter joins the queue.
MutexQueue(m, c) == [m EXCEPT !.waiters = Append(@, c)]

\* The release function: unlock, then schedule the head of the queue.
MutexRelease(m) ==
    [ locked  |-> FALSE,
      waiters |-> IF m.waiters = <<>> THEN <<>> ELSE Tail(m.waiters),
      woken   |-> IF m.waiters = <<>> THEN m.woken
                                      ELSE Append(m.woken, Head(m.waiters)) ]

\* The scheduled closure runs: it sets locked whatever it finds.
MutexWake(m) == [m EXCEPT !.locked = TRUE, !.woken = Tail(@)]

(* ---------------------------- ReadWriteLock ----------------------------- *)

NewRWLock == [ readers |-> 0, writing |-> FALSE,
               writeWaiters |-> <<>>, readWaiters |-> <<>>, woken |-> <<>> ]

\* A wrong ReadIsFree: lets a stream of readers pass a queued writer.
ReadIsFree_Streaming(l) == ~l.writing

\* acquireRead(): also refused while a writer queues, so that readers
\* arriving in a stream cannot starve it.
ReadIsFree(l) == ~l.writing /\ l.writeWaiters = <<>>
ReadTake(l) == [l EXCEPT !.readers = @ + 1]
ReadQueue(l, c) == [l EXCEPT !.readWaiters = Append(@, c)]

\* A wrong WriteIsFree: forgets the readers.
WriteIsFree_Barging(l) == ~l.writing

\* acquireWrite()
WriteIsFree(l) == ~l.writing /\ l.readers = 0
WriteTake(l) == [l EXCEPT !.writing = TRUE]
WriteQueue(l, c) == [l EXCEPT !.writeWaiters = Append(@, c)]

\* Shift one writer off the queue and schedule it.
WakeWriter(l) == [l EXCEPT !.writeWaiters = Tail(@),
                           !.woken = Append(@, Head(l.writeWaiters))]

\* A wrong ReadRelease: leaves the queued writer asleep.
ReadRelease_Silent(l) == [l EXCEPT !.readers = @ - 1]

\* The last reader out schedules a writer; it does not look at the readers.
ReadRelease(l) ==
    LET out == [l EXCEPT !.readers = @ - 1]
    IN  IF out.readers = 0 /\ out.writeWaiters # <<>> THEN WakeWriter(out) ELSE out

\* A wrong WriteRelease: schedules only the first of the readers.
WriteRelease_OneReader(l) ==
    LET out == [l EXCEPT !.writing = FALSE]
    IN  IF out.writeWaiters # <<>> THEN WakeWriter(out)
        ELSE IF out.readWaiters = <<>> THEN out
        ELSE [out EXCEPT !.readWaiters = Tail(@), !.woken = Append(@, Head(l.readWaiters))]

\* A writer prefers the next writer; only when there is none does it
\* schedule all the readers at once.
WriteRelease(l) ==
    LET out == [l EXCEPT !.writing = FALSE]
    IN  IF out.writeWaiters # <<>>
          THEN WakeWriter(out)
          ELSE [out EXCEPT !.readWaiters = <<>>, !.woken = @ \o l.readWaiters]

\* A wrong ReadWake: the reader that waited is not counted.
ReadWake_Uncounted(l) == [l EXCEPT !.woken = Tail(@)]

\* The closures acquireRead() and acquireWrite() queued.
ReadWake(l) == [l EXCEPT !.readers = @ + 1, !.woken = Tail(@)]
WriteWake(l) == [l EXCEPT !.writing = TRUE, !.woken = Tail(@)]
=============================================================================

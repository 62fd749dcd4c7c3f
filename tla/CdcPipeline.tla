------------------------------ MODULE CdcPipeline ------------------------------
(***************************************************************************)
(* tiered/cdc-pipeline.ts: CDCPipeline over its CDCBatcher.  Events gather *)
(* in a batch that is taken when it is full, by a timer, by flush() or by  *)
(* stop(); a batch that is taken is transformed and handed to the output   *)
(* handlers in turn, all over again when one throws, until it is through   *)
(* or goes to the dead letters.  All of this is awaited, and calls of      *)
(* every kind come in meanwhile.                                           *)
(***************************************************************************)
EXTENDS Naturals, FiniteSets

CONSTANTS
    Event, None,
    Stop,           \* calls of stop()
    BatchSize, MaxRetries,
    Handlers,       \* how many output handlers are registered
    MaxStarts, MaxFlushes

Batcher == [events : SUBSET Event, timer : BOOLEAN, stopped : BOOLEAN]

CdcAssumption == /\ IsFiniteSet(Event) /\ BatchSize \in Nat \ {0} /\ MaxRetries \in Nat
                 /\ {Handlers, MaxStarts, MaxFlushes} \subseteq Nat
                 /\ Stop \cap {"timer", "add", "flush", "again"} = {} /\ None \notin Batcher

VARIABLES
    running,    \* the state of the pipeline
    batcher,    \* its batcher, or None: the events of the batch, whether a timer runs
    runs,       \* the batches being handled: their events, failures so far, by whom taken
    stops,      \* where each call of stop() is
    outputs,    \* how often each output handler has taken each event
    done,       \* history: how often a batch with the event got through all of them
    dead,       \* how often one went to the dead letters
    accepted, late, twice, starts, flushes
                \* history: events accepted, those of them accepted while a stop()
                \* was under way, those flush() has taken; calls

vars == <<running, batcher, runs, stops, outputs, done, dead, accepted, late, twice, starts, flushes>>

NewBatcher == [events |-> {}, timer |-> FALSE, stopped |-> FALSE]

Init == /\ running = FALSE /\ batcher = None /\ runs = {}
        /\ stops = [s \in Stop |-> "idle"]
        /\ outputs = [h \in 1..Handlers |-> [e \in Event |-> 0]]
        /\ done = [e \in Event |-> 0] /\ dead = [e \in Event |-> 0]
        /\ accepted = {} /\ late = {} /\ twice = {} /\ starts = 0 /\ flushes = 0

Batch(es, by) == [events |-> es, failures |-> 0, by |-> by]
Stopping == \E s \in Stop : stops[s] \in {"flushing", "halting", "halted"}

\* A wrong Taken: the events stay in the batch as well.
Taken_Kept == [batcher EXCEPT !.timer = FALSE]

\* The batcher once its batch is taken, by whomever: no timer is left.
Taken == [batcher EXCEPT !.events = {}, !.timer = FALSE]
-----------------------------------------------------------------------------
\* start(): nothing while running, even while stopping.
Start ==
    /\ starts < MaxStarts /\ starts' = starts + 1
    /\ IF running THEN UNCHANGED <<running, batcher>>
                  ELSE running' = TRUE /\ batcher' = NewBatcher
    /\ UNCHANGED <<runs, stops, outputs, done, dead, accepted, late, twice, flushes>>

\* process(): the event joins the batch, which is taken when it is full.
Process(e) ==
    /\ running /\ e \notin accepted
    /\ LET events == batcher.events \cup {e}
       IN IF Cardinality(events) >= BatchSize
            THEN batcher' = Taken /\ runs' = runs \cup {Batch(events, "add")}
            ELSE /\ batcher' = [batcher EXCEPT !.events = events, !.timer = @ \/ ~batcher.stopped]
                 /\ UNCHANGED runs
    /\ accepted' = accepted \cup {e}
    /\ late' = IF Stopping THEN late \cup {e} ELSE late
    /\ UNCHANGED <<running, stops, outputs, done, dead, twice, starts, flushes>>

\* The timer.
Timer ==
    /\ batcher # None /\ batcher.timer
    /\ batcher' = Taken
    /\ runs' = IF batcher.events = {} THEN runs ELSE runs \cup {Batch(batcher.events, "timer")}
    /\ UNCHANGED <<running, stops, outputs, done, dead, accepted, late, twice, starts, flushes>>

\* flush(): the batcher's handler is the pipeline, which afterwards handles
\* the same batch itself.
Flush ==
    /\ flushes < MaxFlushes /\ flushes' = flushes + 1
    /\ batcher # None /\ batcher.events # {}
    /\ batcher' = Taken
    /\ runs' = runs \cup {Batch(batcher.events, "flush")}
    /\ twice' = twice \cup batcher.events
    /\ UNCHANGED <<running, stops, outputs, done, dead, accepted, late, starts>>

\* The batch is through; what awaits it goes on.
Through(r) ==
    /\ runs' = (runs \ {r}) \cup (IF r.by = "flush" THEN {Batch(r.events, "again")} ELSE {})
    /\ stops' = [s \in Stop |-> IF s = r.by THEN "halting" ELSE stops[s]]

\* It is given up with an error: what awaits it fails, a stop() half-way.
Broken(r) ==
    /\ runs' = runs \ {r}
    /\ stops' = [s \in Stop |-> IF s = r.by THEN "idle" ELSE stops[s]]

Plus(f, es) == [e \in Event |-> IF e \in es THEN f[e] + 1 ELSE f[e]]

\* The first n output handlers have taken the batch.
Handed(es, n) == [h \in 1..Handlers |-> IF h <= n THEN Plus(outputs[h], es) ELSE outputs[h]]

\* handleBatch: every output handler takes the batch.
Output(r) ==
    /\ r \in runs
    /\ outputs' = Handed(r.events, Handlers)
    /\ done' = Plus(done, r.events)
    /\ Through(r)
    /\ UNCHANGED <<running, batcher, dead, accepted, late, twice, starts, flushes>>

\* A wrong Exhausted: the last failure is not noticed.
Exhausted_Last(failures) == failures > MaxRetries + 1

\* The loop runs while attempts <= maxRetries.
Exhausted(failures) == failures > MaxRetries

\* The transformation throws, or a handler does when others before it have taken
\* the batch: once more from the first, or to the dead letters, where a handler
\* may throw as well.
Throw(r) ==
    /\ r \in runs
    /\ \E n \in {0} \cup 1..(Handlers - 1) : outputs' = Handed(r.events, n)
    /\ IF Exhausted(r.failures + 1)
         THEN dead' = Plus(dead, r.events) /\ (Through(r) \/ Broken(r))
         ELSE /\ runs' = (runs \ {r}) \cup {[r EXCEPT !.failures = @ + 1]}
              /\ UNCHANGED <<dead, stops>>
    /\ UNCHANGED <<running, batcher, done, accepted, late, twice, starts, flushes>>
-----------------------------------------------------------------------------
\* A wrong Unflushed: the batcher is stopped with its batch in it.
Unflushed_None == {}

Unflushed == batcher.events

\* stop(): the batch is flushed first.
BeginStop(s) ==
    /\ stops[s] = "idle" /\ running
    /\ batcher' = Taken
    /\ runs' = IF Unflushed = {} THEN runs ELSE runs \cup {Batch(Unflushed, s)}
    /\ stops' = [stops EXCEPT ![s] = IF Unflushed = {} THEN "halting" ELSE "flushing"]
    /\ UNCHANGED <<running, outputs, done, dead, accepted, late, twice, starts, flushes>>

\* Then whatever batcher there is by now is stopped; if there is none, the
\* call fails.
Halt(s) ==
    /\ stops[s] = "halting"
    /\ IF batcher = None
         THEN stops' = [stops EXCEPT ![s] = "idle"] /\ UNCHANGED batcher
         ELSE /\ stops' = [stops EXCEPT ![s] = "halted"]
              /\ batcher' = [batcher EXCEPT !.stopped = TRUE, !.timer = FALSE]
    /\ UNCHANGED <<running, runs, outputs, done, dead, accepted, late, twice, starts, flushes>>

EndStop(s) ==
    /\ stops[s] = "halted"
    /\ stops' = [stops EXCEPT ![s] = "idle"]
    /\ batcher' = None /\ running' = FALSE
    /\ UNCHANGED <<runs, outputs, done, dead, accepted, late, twice, starts, flushes>>

Next == \/ Start \/ Timer \/ Flush
        \/ \E e \in Event : Process(e)
        \/ \E r \in runs : Output(r) \/ Throw(r)
        \/ \E s \in Stop : BeginStop(s) \/ Halt(s) \/ EndStop(s)

Spec == Init /\ [][Next]_vars
-----------------------------------------------------------------------------
TypeOK ==
    /\ running \in BOOLEAN
    /\ batcher \in Batcher \cup {None}
    /\ runs \subseteq [ events : SUBSET Event, failures : 0..MaxRetries,
                        by : {"timer", "add", "flush", "again"} \cup Stop ]
    /\ stops \in [Stop -> {"idle", "flushing", "halting", "halted"}]
    /\ outputs \in [1..Handlers -> [Event -> Nat]]
    /\ done \in [Event -> Nat] /\ dead \in [Event -> Nat]
    /\ accepted \subseteq Event /\ late \subseteq Event /\ twice \subseteq Event
    /\ starts \in Nat /\ flushes \in Nat

\* Where an event that was accepted may be: with a timer to flush it if it
\* waits.
Waiting == IF batcher # None /\ batcher.timer THEN batcher.events ELSE {}
Handled == UNION {r.events : r \in runs}
Settled == {e \in Event : done[e] + dead[e] > 0}

(* What process() has accepted reaches all outputs or the dead letters: it  *)
(* waits for a timer, or is being handled, or has got there, whichever      *)
(* flushes, stops, restarts and failures overlap; but for the events that   *)
(* were accepted while a stop() was under way.                              *)
EventsAreKept == accepted \ late \subseteq Waiting \cup Handled \cup Settled

(* "Flushes any pending events" (stop): for those as well.                  *)
EventsAreAlwaysKept == accepted \subseteq Waiting \cup Handled \cup Settled

\* The batches an event is in: flush() makes two of one.
Batches(e) == IF e \in twice THEN 2 ELSE 1

(* A batch is settled once: it gets through all the output handlers, or it  *)
(* goes to the dead letters when its retries are used up, whichever         *)
(* flushes, timers, stops, restarts and failures overlap.  Every handler    *)
(* has taken the batches that got through, and none is given a batch more   *)
(* often than it is tried: those before the one that throws take it again   *)
(* with every retry (see OutputsAreOfSuccesses), and flush() makes two      *)
(* batches of one (see FlushOutputsOnce).                                   *)
SettledOnce == \A e \in Event :
    /\ done[e] + dead[e] <= Batches(e)
    /\ \A h \in 1..Handlers : outputs[h][e] \in done[e]..(Batches(e) * (MaxRetries + 1))

(* "Forces an immediate flush of the batcher and processes the resulting    *)
(* batch" (flush): that way too an event is handed over once.               *)
FlushOutputsOnce == \A e \in Event : done[e] + dead[e] <= 1

(* "Output handlers are called when a batch is successfully processed"      *)
(* (onOutput): none has an event more often than its batch got through.     *)
OutputsAreOfSuccesses == \A h \in 1..Handlers : \A e \in Event : outputs[h][e] <= done[e]
=============================================================================

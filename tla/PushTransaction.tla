--------------------------- MODULE PushTransaction ---------------------------
(***************************************************************************)
(* storage/push-transaction.ts with its options (branch protection, a      *)
(* RefLog): several pushes at once against one Durable Object.  A push     *)
(* flushes its objects to the object store, checks that the new targets    *)
(* exist, and moves all its refs in one SQLite transaction, logging each   *)
(* move.  do/wire-routes.ts receivePack drives it without rules and        *)
(* without a log: Rules = {} and a log that nobody reads.                  *)
(*                                                                         *)
(* The object store is seen through its promise: an object it has stays    *)
(* (ParquetStore!HasObjectIsHonest shows it of the Parquet store as long   *)
(* as nobody deletes).  Pushes interleave at their awaits.  The SQLite     *)
(* transaction contains none, so while it is open nothing else runs: only  *)
(* a crash can come in between.                                            *)
(***************************************************************************)
EXTENDS RefLog

CONSTANTS
    Push,        \* push requests
    Packs,       \* sets of objects a push may bring
    Commands,    \* sequences of ref updates a push may ask for
    Rules,       \* branch protection rules
    MaxFaults,   \* bound: object-store and SQLite calls that fail
    MaxCrashes   \* bound: restarts of the Durable Object

Command == [ref : Ref, old : Value, new : Value]

Rule == [covers : SUBSET Ref, preventDeletion : BOOLEAN,
         preventForcePush : BOOLEAN, requiredReviews : Nat]

ASSUME PushAssumption ==
    /\ None \notin Push
    /\ Packs \subseteq SUBSET Sha
    /\ Commands \subseteq Seq(Command)
    /\ Rules \subseteq Rule
    /\ MaxFaults \in Nat /\ MaxCrashes \in Nat

VARIABLES
    objects,   \* objects in the store                             (durable)
    refs,      \* the committed refs table                         (durable)
    log,       \* the RefLog of this instance of the Durable Object
    tx,        \* the PushTransaction of each push
    open,      \* the open SQLite transaction
    origin,    \* history: refs when this instance started
    used       \* counters behind the bounds

vars == <<objects, refs, log, tx, open, origin, used>>

NewTx == [ phase |-> "idle", buffer |-> {}, flushed |-> {}, putting |-> None,
           commands |-> <<>>, checked |-> 0 ]

\* No SQLite transaction: the view of a transaction is the table itself.
Closed == [owner |-> None, refs |-> EmptyState, done |-> 0, pending |-> {}]

Init == /\ objects = {}
        /\ refs = EmptyState
        /\ log = EmptyLog
        /\ tx = [p \in Push |-> NewTx]
        /\ open = Closed
        /\ origin = EmptyState
        /\ used = [faults |-> 0, crashes |-> 0]

\* The event loop may run push p: no other is inside its SQLite transaction.
MayRun == open.owner = None

Fault == used.faults < MaxFaults /\ used' = [used EXCEPT !.faults = @ + 1]

SetPhase(p, ph) == tx' = [tx EXCEPT ![p].phase = ph]
-----------------------------------------------------------------------------
(* ---------------------------- buffer and flush -------------------------- *)

\* receivePack: the unpacked objects are buffered, then execute starts.
Receive(p, pack, cmds) ==
    /\ MayRun /\ tx[p].phase = "idle"
    /\ tx' = [tx EXCEPT ![p].phase = "flushing", ![p].buffer = pack, ![p].commands = cmds]
    /\ UNCHANGED <<objects, refs, log, open, origin, used>>

\* The pack cannot be unpacked, or overflows the buffer: nothing is executed.
ReceiveFail(p) ==
    /\ MayRun /\ tx[p].phase = "idle"
    /\ SetPhase(p, "failed")
    /\ UNCHANGED <<objects, refs, log, open, origin, used>>

\* flushObjects: hasObject first, putObject only when it says no.
FlushHas(p, o) ==
    /\ MayRun /\ tx[p].phase = "flushing" /\ tx[p].putting = None
    /\ o \in tx[p].buffer \ tx[p].flushed
    /\ tx' = IF o \in objects THEN [tx EXCEPT ![p].flushed = @ \cup {o}]
                              ELSE [tx EXCEPT ![p].putting = o]
    /\ UNCHANGED <<objects, refs, log, open, origin, used>>

FlushPut(p) ==
    /\ MayRun /\ tx[p].phase = "flushing" /\ tx[p].putting # None
    /\ objects' = objects \cup {tx[p].putting}
    /\ tx' = [tx EXCEPT ![p].flushed = @ \cup {tx[p].putting}, ![p].putting = None]
    /\ UNCHANGED <<refs, log, open, origin, used>>

\* The store throws; a put may have stored the object all the same.
FlushFail(p) ==
    /\ MayRun /\ tx[p].phase = "flushing" /\ ~(tx[p].buffer \subseteq tx[p].flushed)
    /\ Fault
    /\ objects' \in {objects, objects \cup ({tx[p].putting} \ {None})}
    /\ SetPhase(p, "failed")
    /\ UNCHANGED <<refs, log, open, origin>>
-----------------------------------------------------------------------------
(* ----------------------- protection and validation ---------------------- *)

IsDelete(c) == c.new = None
IsCreate(c) == c.old = None

\* checkBranchProtection.  execute always says isForcePush: false, so the
\* force-push rule never refuses anything here.
Refuses(rule, c, isForcePush) ==
    /\ c.ref \in rule.covers
    /\ \/ IsDelete(c) /\ rule.preventDeletion
       \/ ~IsDelete(c) /\ ~IsCreate(c) /\ isForcePush /\ rule.preventForcePush
       \/ ~IsDelete(c) /\ rule.requiredReviews > 0

\* A wrong Allowed: the verdict on each command replaces the one before.
Allowed_LastOnly(cmds) == \A rule \in Rules : ~Refuses(rule, cmds[Len(cmds)], FALSE)

Allowed(cmds) == \A i \in DOMAIN cmds : \A rule \in Rules : ~Refuses(rule, cmds[i], FALSE)

\* Everything is flushed: done if there is nothing to update, refused if a
\* rule forbids one of the updates, on to the targets otherwise.
FlushEnd(p) ==
    /\ MayRun /\ tx[p].phase = "flushing" /\ tx[p].buffer \subseteq tx[p].flushed
    /\ tx[p].putting = None
    /\ SetPhase(p, IF tx[p].commands = <<>> THEN "completed"
                   ELSE IF Allowed(tx[p].commands) THEN "updating_refs" ELSE "failed")
    /\ UNCHANGED <<objects, refs, log, open, origin, used>>

AllChecked(p) == tx[p].checked = Len(tx[p].commands)

\* A wrong CheckTarget: every target passes.
CheckTarget_Blind(p) ==
    /\ MayRun /\ tx[p].phase = "updating_refs" /\ ~AllChecked(p)
    /\ tx' = [tx EXCEPT ![p].checked = @ + 1]
    /\ UNCHANGED <<objects, refs, log, open, origin, used>>

\* One target: hasObject, unless the command deletes.
CheckTarget(p) ==
    LET c == tx[p].commands[tx[p].checked + 1] IN
    /\ MayRun /\ tx[p].phase = "updating_refs" /\ ~AllChecked(p)
    /\ IF IsDelete(c) \/ c.new \in objects
         THEN tx' = [tx EXCEPT ![p].checked = @ + 1]
         ELSE SetPhase(p, "failed")
    /\ UNCHANGED <<objects, refs, log, open, origin, used>>

\* hasObject or BEGIN throws, outside any try: execute rejects, and the phase
\* field of the code stays at updating_refs for good.
Throw(p) ==
    /\ MayRun /\ tx[p].phase = "updating_refs"
    /\ Fault /\ SetPhase(p, "threw")
    /\ UNCHANGED <<objects, refs, log, open, origin>>
-----------------------------------------------------------------------------
(* ------------------------- the SQLite transaction ----------------------- *)

\* Every ref still has the value the client saw.
Unmoved(cmds) == \A i \in DOMAIN cmds : refs[cmds[i].ref] = cmds[i].old

\* A wrong Begin: takes the client's word for the old values.
Begin_NoCompare(p) ==
    /\ MayRun /\ tx[p].phase = "updating_refs" /\ AllChecked(p)
    /\ open' = [owner |-> p, refs |-> refs, done |-> 0, pending |-> {}]
    /\ UNCHANGED <<objects, refs, log, tx, origin, used>>

\* BEGIN and the comparison of every old value; one mismatch rolls back.
Begin(p) ==
    /\ MayRun /\ tx[p].phase = "updating_refs" /\ AllChecked(p)
    /\ IF Unmoved(tx[p].commands)
         THEN /\ open' = [owner |-> p, refs |-> refs, done |-> 0, pending |-> {}]
              /\ UNCHANGED tx
         ELSE SetPhase(p, "failed") /\ UNCHANGED open
    /\ UNCHANGED <<objects, refs, log, origin, used>>

\* A wrong Apply: writes outside the transaction.
Apply_Direct(p) ==
    LET c == tx[p].commands[open.done + 1] IN
    /\ open.owner = p /\ open.done < Len(tx[p].commands)
    /\ log' = LogAppend(log, c.ref, c.old, c.new)
    /\ refs' = [refs EXCEPT ![c.ref] = c.new]
    /\ open' = [open EXCEPT !.refs[c.ref] = c.new, !.done = @ + 1,
                            !.pending = @ \cup {log.nextVersion}]
    /\ UNCHANGED <<objects, tx, origin, used>>

\* One command: the row of refs, then the log entry.
Apply(p) ==
    LET c == tx[p].commands[open.done + 1] IN
    /\ open.owner = p /\ open.done < Len(tx[p].commands)
    /\ log' = LogAppend(log, c.ref, c.old, c.new)
    /\ open' = [open EXCEPT !.refs[c.ref] = c.new, !.done = @ + 1,
                            !.pending = @ \cup {log.nextVersion}]
    /\ UNCHANGED <<objects, refs, tx, origin, used>>

Commit(p) ==
    /\ open.owner = p /\ open.done = Len(tx[p].commands)
    /\ refs' = open.refs
    /\ open' = Closed
    /\ SetPhase(p, "completed")
    /\ UNCHANGED <<objects, log, origin, used>>

\* A wrong UndoLog: SQLite rolls back, the log does not.
UndoLog_Forgotten == log

\* rollbackRefLogEntries: undo what this push logged.
UndoLog == IF open.pending = {} THEN log ELSE LogRollback(log, Min(open.pending))

\* A statement or the COMMIT throws: ROLLBACK, and the log follows.
Rollback(p) ==
    /\ open.owner = p /\ Fault
    /\ log' = UndoLog
    /\ open' = Closed
    /\ SetPhase(p, "failed")
    /\ UNCHANGED <<objects, refs, origin>>
-----------------------------------------------------------------------------
\* The Durable Object restarts: pushes under way are lost, SQLite drops an
\* open transaction, and the new RefLog starts empty (nothing reloads it).
Crash ==
    /\ used.crashes < MaxCrashes /\ used' = [used EXCEPT !.crashes = @ + 1]
    /\ tx' = [p \in Push |->
                IF tx[p].phase \in {"flushing", "updating_refs"}
                  THEN [tx[p] EXCEPT !.phase = "failed", !.putting = None] ELSE tx[p]]
    /\ open' = Closed
    /\ log' = EmptyLog
    /\ origin' = refs
    /\ UNCHANGED <<objects, refs>>

Execute(p) ==
    \/ \E o \in tx[p].buffer : FlushHas(p, o)
    \/ FlushPut(p) \/ FlushFail(p) \/ FlushEnd(p) \/ CheckTarget(p) \/ Throw(p)
    \/ Begin(p) \/ Apply(p) \/ Commit(p) \/ Rollback(p)

Next == \/ \E p \in Push : \/ \E pack \in Packs, cmds \in Commands : Receive(p, pack, cmds)
                           \/ ReceiveFail(p) \/ Execute(p)
        \/ Crash

Spec == Init /\ [][Next]_vars
-----------------------------------------------------------------------------
Phase == {"idle", "flushing", "updating_refs", "completed", "failed", "threw"}

Tx == [phase : Phase, buffer : SUBSET Sha, flushed : SUBSET Sha, putting : Value,
       commands : Seq(Command), checked : Nat]
Transaction == [owner : Push \cup {None}, refs : RefState, done : Nat, pending : SUBSET Nat]

TypeOK ==
    /\ objects \subseteq Sha
    /\ refs \in RefState /\ origin \in RefState
    /\ log \in Log
    /\ tx \in [Push -> Tx]
    /\ open \in Transaction
    /\ used \in [faults : Nat, crashes : Nat]

(* "The critical invariant is: refs must never point to objects that don't  *)
(* exist" (push-transaction.ts), for committed refs, whatever pushes        *)
(* interleave and wherever one of them or the Durable Object fails.         *)
RefsResolve == \A r \in Ref : refs[r] # None => refs[r] \in objects

(* "The key invariant is: all ref updates succeed or none do" (execute):    *)
(* refs change only when one push completes, by exactly its commands, each  *)
(* of them moving the ref away from the value its client had seen.          *)
AtomicPush ==
    [][refs' # refs =>
         \E p \in Push :
            /\ tx[p].phase # "completed" /\ tx'[p].phase = "completed"
            /\ Unmoved(tx[p].commands)
            /\ refs' = ReplayOn(refs, tx[p].commands)]_vars

\* The refs as the running code reads them: inside the open transaction if
\* there is one.
CurrentRefs == IF open.owner = None THEN refs ELSE open.refs

(* The log tells the truth: replaying what this instance logged, from the   *)
(* refs it started with, gives the refs, also after a transaction was       *)
(* rolled back.                                                             *)
LogMirrorsRefs == CurrentRefs = ReplayOn(origin, log.entries)

(* A snapshot never changes the outcome of replayState(), although append   *)
(* takes one on its own in the middle of a transaction that may roll back.  *)
SnapshotIsFaithful == ReplayState(log) = ReplayOn(EmptyState, log.entries)

(* The previous SHA of an entry is the value its ref had just before ("Pre- *)
(* vious SHA", ref-log.ts): two pushes never both move a ref away from the  *)
(* same value.                                                              *)
OldIsPrevious ==
    \A i \in DOMAIN log.entries :
       LET e == log.entries[i] IN
       e.old = ReplayOn(origin, SubSeq(log.entries, 1, i - 1))[e.ref]

(* Entries are numbered from 1 without a gap or a repetition, also after a  *)
(* rollback, and each one starts where the one before left its ref.         *)
LogChains == Numbered(log) /\ OldIsPrevious

(* No push deletes a ref that a rule protects from deletion, on its own or  *)
(* among other commands.                                                    *)
ProtectedRefsStay ==
    [][\A rule \in Rules : \A r \in rule.covers :
         rule.preventDeletion /\ refs[r] # None => refs'[r] # None]_vars
=============================================================================

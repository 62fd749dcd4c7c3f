------------------------------- MODULE RefLog -------------------------------
(***************************************************************************)
(* delta/ref-log.ts: the versioned log of ref updates, as operators on a   *)
(* log value.                                                              *)
(*                                                                         *)
(* An entry moves ref from old to new; None is the empty string of the     *)
(* code (no previous value, or a deletion).  A ref state is a function     *)
(* that gives None to the refs that do not exist.  A log that has no       *)
(* snapshot is one whose snapshot is the empty state at version 0.         *)
(***************************************************************************)
EXTENDS Naturals, Sequences, FiniteSetsExt

CONSTANTS Ref, Sha, None,
          SnapshotInterval   \* entries between two automatic checkpoints

ASSUME RefLogAssumption == None \notin Sha /\ SnapshotInterval \in Nat \ {0}

Value == Sha \cup {None}
RefState == [Ref -> Value]
Entry == [version : Nat \ {0}, ref : Ref, old : Value, new : Value]

EmptyState == [r \in Ref |-> None]
Snapshot == [version : Nat, state : RefState]
Log == [entries : Seq(Entry), nextVersion : Nat \ {0}, snap : Snapshot]

NoSnapshot == [version |-> 0, state |-> EmptyState]
EmptyLog == [entries |-> <<>>, nextVersion |-> 1, snap |-> NoSnapshot]

Version(l) == l.nextVersion - 1

\* Positions of the updates of ref r in a sequence of updates.
UpdatesOf(es, r) == {i \in DOMAIN es : es[i].ref = r}

\* What a sequence of updates leaves behind: the last value of each ref in it.
Latest(es) == [r \in {es[i].ref : i \in DOMAIN es} |-> es[Max(UpdatesOf(es, r))].new]

\* The updates es, applied in order to state.
ReplayOn(state, es) ==
    LET latest == Latest(es)
    IN  [r \in Ref |-> IF r \in DOMAIN latest THEN latest[r] ELSE state[r]]

\* Positions of the entries from a version on.
Since(es, version) == {i \in DOMAIN es : es[i].version >= version}

\* The entries before a version.  append() numbers entries in ascending order,
\* so the filter of the code keeps a prefix.
Before(es, version) ==
    IF Since(es, version) = {} THEN es ELSE SubSeq(es, 1, Min(Since(es, version)) - 1)

\* The entries that the snapshot does not cover: all from the first whose
\* version is past it.
AfterSnapshot(l) ==
    LET past == Since(l.entries, l.snap.version + 1)
    IN  IF past = {} THEN <<>> ELSE SubSeq(l.entries, Min(past), Len(l.entries))

ReplayState(l) == ReplayOn(l.snap.state, AfterSnapshot(l))

Checkpoint(l) ==
    IF l.entries = <<>> THEN l
    ELSE [l EXCEPT !.snap = [version |-> Version(l),
                             state   |-> ReplayOn(EmptyState, l.entries)]]

LogAppend(l, r, old, new) ==
    LET e   == [version |-> l.nextVersion, ref |-> r, old |-> old, new |-> new]
        out == [l EXCEPT !.entries = Append(@, e), !.nextVersion = @ + 1]
    IN  IF Len(out.entries) % SnapshotInterval = 0 THEN Checkpoint(out) ELSE out

\* A wrong VersionAfter: takes the highest version again.
VersionAfter_Reused(es) == Max({0} \cup {es[i].version : i \in DOMAIN es})

\* The version after the highest in es (1 when es is empty).
VersionAfter(es) == 1 + Max({0} \cup {es[i].version : i \in DOMAIN es})

\* A wrong LogRollback: keeps a snapshot taken at the first entry dropped.
LogRollback_KeepsSnapshot(l, from) ==
    LET kept == Before(l.entries, from)
    IN  [ entries     |-> kept,
          nextVersion |-> VersionAfter(kept),
          snap        |-> IF l.snap.version > from THEN NoSnapshot ELSE l.snap ]

\* rollback(from): drop the entries from that version on, and a snapshot that
\* is as recent.
LogRollback(l, from) ==
    LET kept == Before(l.entries, from)
    IN  [ entries     |-> kept,
          nextVersion |-> VersionAfter(kept),
          snap        |-> IF l.snap.version >= from THEN NoSnapshot ELSE l.snap ]

\* snapshot(at): the entries up to that version.
LogUpTo(l, at) == Before(l.entries, at + 1)
-----------------------------------------------------------------------------
\* The versions of a log count its entries.
Numbered(l) == /\ l.nextVersion = Len(l.entries) + 1
               /\ \A i \in DOMAIN l.entries : l.entries[i].version = i

\* The snapshot is the state after the entries it covers.
SnapshotIsPrefix(l) ==
    /\ l.snap.version <= Len(l.entries)
    /\ l.snap.state = ReplayOn(EmptyState, SubSeq(l.entries, 1, l.snap.version))
=============================================================================

---------------------------- MODULE DeltaBranches ----------------------------
(***************************************************************************)
(* delta/branch.ts and delta/merge.ts: branches that fork a RefLog at a    *)
(* version and keep a log of their own, and the three-way merge of two of  *)
(* them.                                                                   *)
(*                                                                         *)
(* A branch stores no copy of what it inherits: its state is computed from *)
(* the parent log, up to the version it forked at, each time it is asked   *)
(* for, while the parent goes on, takes checkpoints and is rolled back.    *)
(* Merging computes a result and changes nothing.                          *)
(***************************************************************************)
EXTENDS RefLog

CONSTANTS
    Branch,         \* branch names
    MaxAppends,     \* bound: entries ever appended to the parent
    MaxRollbacks,   \* bound: rollbacks of the parent
    MaxOwn          \* bound: entries of one branch

ASSUME DeltaAssumption == {MaxAppends, MaxRollbacks, MaxOwn} \subseteq Nat

VARIABLES
    parent,   \* the log that is forked
    forks,    \* the branches that exist: base version and own log
    used      \* counters behind the bounds

vars == <<parent, forks, used>>

Init == /\ parent = EmptyLog
        /\ forks = <<>>
        /\ used = [appends |-> 0, rollbacks |-> 0]

Forked == DOMAIN forks
-----------------------------------------------------------------------------
(* replayState(): the parent's entries up to the fork are replayed in a     *)
(* fresh log, which has no snapshot; then the branch's own entries.         *)
StateAt(version) == ReplayOn(EmptyState, LogUpTo(parent, version))

Own(b) == forks[b].log.entries

\* A wrong BranchState: on top of the parent as it is now.
BranchState_Live(b) == ReplayOn(ReplayState(parent), Own(b))

BranchState(b) == ReplayOn(StateAt(forks[b].base), Own(b))

\* computeChanges: the refs the branch's own entries name, and where each
\* ends up.
Changes(b) == Latest(Own(b))

CommonAncestor(b, c) == Min({forks[b].base, forks[c].base})

\* A wrong Conflicts: an update against a deletion goes unnoticed.
Conflicts_UpdatesOnly(b, c) ==
    LET ours   == Changes(b)
        theirs == Changes(c)
    IN  {r \in DOMAIN ours \cap DOMAIN theirs :
            ours[r] # theirs[r] /\ ours[r] # None /\ theirs[r] # None}

\* Both branches name the ref and leave it at different values.
Conflicts(b, c) ==
    LET ours   == Changes(b)
        theirs == Changes(c)
    IN  {r \in DOMAIN ours \cap DOMAIN theirs : ours[r] # theirs[r]}

\* The merged state; a ref in conflict keeps its base value.
Merged(b, c) ==
    LET base   == StateAt(CommonAncestor(b, c))
        ours   == Changes(b)
        theirs == Changes(c)
        clash  == Conflicts(b, c)
    IN  [r \in Ref |-> IF r \in clash            THEN base[r]
                       ELSE IF r \in DOMAIN ours   THEN ours[r]
                       ELSE IF r \in DOMAIN theirs THEN theirs[r]
                       ELSE base[r]]

Succeeds(b, c) == Conflicts(b, c) = {}

\* A wrong FastForward: adopts the branch that has no changes.
FastForward_Swapped(b, c) == IF Own(b) = <<>> THEN b ELSE IF Own(c) = <<>> THEN c ELSE None

\* canFastForward: the branch to adopt, or None.
FastForward(b, c) == IF Own(b) = <<>> THEN c ELSE IF Own(c) = <<>> THEN b ELSE None
-----------------------------------------------------------------------------
AppendParent(r, new) ==
    LET old == ReplayState(parent)[r] IN
    /\ used.appends < MaxAppends /\ used' = [used EXCEPT !.appends = @ + 1]
    /\ new # old
    /\ parent' = LogAppend(parent, r, old, new)
    /\ UNCHANGED forks

CheckpointParent == /\ parent' = Checkpoint(parent)
                    /\ UNCHANGED <<forks, used>>

RollbackParent(from) ==
    /\ used.rollbacks < MaxRollbacks /\ used' = [used EXCEPT !.rollbacks = @ + 1]
    /\ parent' = LogRollback(parent, from)
    /\ UNCHANGED forks

\* createBranchAtVersion refuses a version the parent has not reached;
\* createBranch is the case version = the parent's.
Fork(b, version) ==
    /\ b \notin Forked /\ version <= Version(parent)
    /\ forks' = [c \in Forked \cup {b} |->
                    IF c = b THEN [base |-> version, log |-> EmptyLog] ELSE forks[c]]
    /\ UNCHANGED <<parent, used>>

AppendBranch(b, r, new) ==
    LET old == BranchState(b)[r] IN
    /\ Len(Own(b)) < MaxOwn
    /\ new # old
    /\ forks' = [forks EXCEPT ![b].log = LogAppend(@, r, old, new)]
    /\ UNCHANGED <<parent, used>>

Next == \/ \E r \in Ref, new \in Value :
             AppendParent(r, new) \/ \E b \in Forked : AppendBranch(b, r, new)
        \/ CheckpointParent
        \/ \E v \in 1..Version(parent) : RollbackParent(v)
        \/ \E b \in Branch, v \in 0..Version(parent) : Fork(b, v)

Spec == Init /\ [][Next]_vars
-----------------------------------------------------------------------------
TypeOK == /\ parent \in Log
          /\ Forked \subseteq Branch
          /\ \A b \in Forked : forks[b] \in [base : Nat, log : Log]
          /\ used \in [appends : Nat, rollbacks : Nat]

\* The textbook merge of two states over their base.
ThreeWay(base, x, y) == [r \in Ref |-> IF x[r] = base[r] THEN y[r] ELSE x[r]]

(* Two branches that forked at the same version: a merge without conflicts  *)
(* is the three-way merge of their states over the state at the fork,       *)
(* though threeWayMerge works on log entries and never looks at the states  *)
(* of the branches; and no clash of states goes unreported.                 *)
MergeIsThreeWay ==
    \A b \in Forked : \A c \in Forked \ {b} :
        LET base == StateAt(forks[b].base)
            x == BranchState(b)
            y == BranchState(c)
        IN  forks[b].base = forks[c].base =>
                /\ Succeeds(b, c) => Merged(b, c) = ThreeWay(base, x, y)
                /\ \A r \in Ref : Cardinality({base[r], x[r], y[r]}) = 3 => r \in Conflicts(b, c)

(* "When one branch has no changes, just adopt the other branch's state"    *)
(* (canFastForward): for branches that forked at the same version, adopting *)
(* that state is what the merge would give.                                 *)
FastForwardIsMerge ==
    \A b \in Forked : \A c \in Forked \ {b} :
        forks[b].base = forks[c].base /\ FastForward(b, c) # None =>
            Merged(b, c) = BranchState(FastForward(b, c))

(* A branch is isolated: its state changes only when it is appended to      *)
(* itself, or when the parent is rolled back behind the fork (from then on  *)
(* the versions the branch inherits are written anew).                      *)
BranchesAreIsolated ==
    [][\A b \in Forked :
          BranchState(b)' # BranchState(b) =>
              \/ Len(Own(b)') = Len(Own(b)) + 1
              \/ Version(parent) < forks[b].base \/ Version(parent)' < forks[b].base]_vars

(* As MergeIsThreeWay, for branches that forked at different versions too:  *)
(* "The common ancestor is the minimum of both base versions", and "If only *)
(* one branch changed it: accept that change" (merge.ts).                   *)
MergeAcrossForks ==
    \A b \in Forked : \A c \in Forked \ {b} :
        Succeeds(b, c) =>
            Merged(b, c) = ThreeWay(StateAt(CommonAncestor(b, c)), BranchState(b), BranchState(c))
=============================================================================

------------------------- MODULE DeltaBranches_proofs -------------------------
(***************************************************************************)
(* The merge of two branches that forked at one version is the three-way   *)
(* merge of their states, and a branch stays what it is while its parent   *)
(* goes on, for any refs, values, branches and number of entries.          *)
(***************************************************************************)
EXTENDS DeltaBranches, RefLog_proofs, FiniteSetTheorems

\* A log numbers its entries, and its snapshot is what they lead to.
Sound(l) == l \in Log /\ Numbered(l) /\ SnapshotIsPrefix(l)

IInv == /\ TypeOK
        /\ Sound(parent)
        /\ \A b \in Forked : Sound(forks[b].log)
-----------------------------------------------------------------------------
(* A state inherited from a log is made of the entries up to its version.   *)
LEMMA UpTo ==
    ASSUME NEW l, Sound(l), NEW v \in Nat
    PROVE  /\ v <= Version(l) => LogUpTo(l, v) = SubSeq(l.entries, 1, v)
           /\ LogUpTo(l, v) \in Seq(Entry)
<1> DEFINE es == l.entries
<1>1. es \in Seq(Entry) /\ Version(l) = Len(es) /\ \A i \in 1..Len(es) : es[i].version = i
  BY DEF Sound, Log, Numbered, Version
<1>2. CASE v <= Version(l)
  <2>1. v + 1 \in 1..(Len(es) + 1) /\ (v + 1) - 1 = v
    BY <1>1, <1>2
  <2>2. Before(es, v + 1) = SubSeq(es, 1, (v + 1) - 1)
    BY <1>1, <2>1, NumberedPrefix
  <2>3. SubSeq(es, 1, v) \in Seq(Entry)
    BY <1>1, <2>1
  <2> QED BY <2>1, <2>2, <2>3 DEF LogUpTo
<1>3. CASE ~ (v <= Version(l))
  <2>1. Since(es, v + 1) = {}
    BY <1>1, <1>3 DEF Since
  <2> QED BY <1>1, <1>3, <2>1 DEF LogUpTo, Before
<1> QED BY <1>2, <1>3

(* States of branches are ref states.                                       *)
LEMMA StatesTyped ==
    ASSUME IInv
    PROVE  /\ ReplayState(parent) \in RefState
           /\ \A b \in Forked : BranchState(b) \in RefState
<1>1. ReplayState(parent) \in RefState
  <2>1. parent.entries \in Seq(Entry)
    BY DEF IInv, Sound, Log
  <2>2. ReplayOn(EmptyState, parent.entries) \in RefState
    BY <2>1, EntriesAreUpdates, EmptyStateType, ReplayOnType
  <2> QED BY <2>2, ReplayStateIsReplay DEF IInv, Sound
<1>2. ASSUME NEW b \in Forked PROVE BranchState(b) \in RefState
  <2>1. forks[b].base \in Nat /\ Own(b) \in Seq(Entry)
    BY DEF IInv, TypeOK, Sound, Log, Own
  <2>2. LogUpTo(parent, forks[b].base) \in Seq(Entry)
    BY <2>1, UpTo DEF IInv
  <2>3. StateAt(forks[b].base) \in RefState
    BY <2>2, EntriesAreUpdates, EmptyStateType, ReplayOnType DEF StateAt
  <2> QED BY <2>1, <2>3, EntriesAreUpdates, ReplayOnType DEF BranchState
<1> QED BY <1>1, <1>2
-----------------------------------------------------------------------------
(* The invariant holds of the empty log.                                    *)
LEMMA Initially == Init => IInv
<1> SUFFICES ASSUME Init PROVE IInv
  OBVIOUS
<1>1. Sound(EmptyLog)
  BY EmptyLogProperties DEF Sound
<1>2. Forked = {}
  BY DEF Init, Forked
<1>3. used \in [appends : Nat, rollbacks : Nat] /\ parent = EmptyLog
  BY DEF Init
<1> QED BY <1>1, <1>2, <1>3 DEF IInv, TypeOK, Sound

(* Steps of the parent keep it sound.                                       *)
LEMMA ParentSteps ==
    ASSUME IInv, Sound(parent'), used' \in [appends : Nat, rollbacks : Nat], UNCHANGED forks
    PROVE  IInv'
BY DEF IInv, TypeOK, Sound, Forked

(* An append to the parent adds one entry to its log.                       *)
LEMMA AppendParentStep ==
    ASSUME IInv, NEW r \in Ref, NEW new \in Value, AppendParent(r, new)
    PROVE  IInv' /\ \E e \in Entry : parent'.entries = Append(parent.entries, e)
<1> DEFINE old == ReplayState(parent)[r]
           e == [version |-> parent.nextVersion, ref |-> r, old |-> old, new |-> new]
<1>1. old \in Value
  BY StatesTyped DEF RefState
<1>2. parent' = LogAppend(parent, r, old, new) /\ UNCHANGED forks
      /\ used' = [used EXCEPT !.appends = @ + 1]
  BY DEF AppendParent
<1>3. Sound(parent') /\ e \in Entry /\ parent'.entries = Append(parent.entries, e)
  BY <1>1, <1>2, LogAppendProperties DEF IInv, Sound
<1>4. used' \in [appends : Nat, rollbacks : Nat]
  BY <1>2 DEF IInv, TypeOK
<1> QED BY <1>2, <1>3, <1>4, ParentSteps

(* A checkpoint leaves the entries alone.                                   *)
LEMMA CheckpointParentStep ==
    ASSUME IInv, CheckpointParent
    PROVE  IInv' /\ parent'.entries = parent.entries
<1>1. Sound(parent') /\ parent'.entries = parent.entries
  BY CheckpointProperties DEF IInv, Sound, CheckpointParent
<1>2. used' \in [appends : Nat, rollbacks : Nat] /\ UNCHANGED forks
  BY DEF IInv, TypeOK, CheckpointParent
<1> QED BY <1>1, <1>2, ParentSteps

(* A rollback of the parent keeps its first entries.                        *)
LEMMA RollbackParentStep ==
    ASSUME IInv, NEW from \in 1..Version(parent), RollbackParent(from)
    PROVE  IInv' /\ parent'.entries = SubSeq(parent.entries, 1, from - 1)
<1>1. parent.entries \in Seq(Entry) /\ Version(parent) = Len(parent.entries)
  BY DEF IInv, Sound, Log, Numbered, Version
<1>2. from \in 1..(Len(parent.entries) + 1)
  BY <1>1
<1>3. parent' = LogRollback(parent, from) /\ UNCHANGED forks
      /\ used' = [used EXCEPT !.rollbacks = @ + 1]
  BY DEF RollbackParent
<1>4. Sound(parent') /\ parent'.entries = SubSeq(parent.entries, 1, from - 1)
  BY <1>2, <1>3, LogRollbackProperties DEF IInv, Sound
<1>5. used' \in [appends : Nat, rollbacks : Nat]
  BY <1>3 DEF IInv, TypeOK
<1> QED BY <1>3, <1>4, <1>5, ParentSteps

(* A fork has an empty log, and touches no other branch.                    *)
LEMMA ForkStep ==
    ASSUME IInv, NEW b \in Branch, NEW v \in 0..Version(parent), Fork(b, v)
    PROVE  IInv' /\ UNCHANGED parent /\ \A c \in Forked : c \in Forked' /\ forks'[c] = forks[c]
<1>1. Sound(EmptyLog) /\ EmptyLog \in Log
  BY EmptyLogProperties DEF Sound
<1>2. UNCHANGED <<parent, used>> /\ b \notin Forked
      /\ forks' = [c \in Forked \cup {b} |->
                     IF c = b THEN [base |-> v, log |-> EmptyLog] ELSE forks[c]]
  BY DEF Fork
<1>3. Forked' = Forked \cup {b} /\ forks'[b] = [base |-> v, log |-> EmptyLog]
      /\ \A c \in Forked : forks'[c] = forks[c]
  BY <1>2 DEF Forked
<1>4. v \in Nat
  BY DEF IInv, Sound, Log, Version
<1> QED BY <1>1, <1>2, <1>3, <1>4 DEF IInv, TypeOK, Sound

(* An append to a branch touches that branch only.                          *)
LEMMA AppendBranchStep ==
    ASSUME IInv, NEW b \in Forked, NEW r \in Ref, NEW new \in Value, AppendBranch(b, r, new)
    PROVE  /\ IInv' /\ UNCHANGED parent
           /\ Len(Own(b)') = Len(Own(b)) + 1
           /\ \A c \in Forked \ {b} : forks'[c] = forks[c]
<1> DEFINE old == BranchState(b)[r]
           out == LogAppend(forks[b].log, r, old, new)
           e == [version |-> forks[b].log.nextVersion, ref |-> r, old |-> old, new |-> new]
<1>1. old \in Value
  BY StatesTyped DEF RefState
<1>2. Sound(forks[b].log) /\ forks[b] \in [base : Nat, log : Log]
  BY DEF IInv, TypeOK
<1>3. Sound(out) /\ e \in Entry /\ out.entries = Append(forks[b].log.entries, e)
  BY <1>1, <1>2, LogAppendProperties DEF Sound
<1>4. forks' = [forks EXCEPT ![b].log = out] /\ UNCHANGED <<parent, used>>
  BY DEF AppendBranch
<1>5. /\ Forked' = Forked
      /\ forks'[b].base = forks[b].base /\ forks'[b].log = out
      /\ forks'[b] \in [base : Nat, log : Log]
      /\ \A c \in Forked \ {b} : forks'[c] = forks[c]
  BY <1>2, <1>3, <1>4 DEF Forked, Sound
<1>6. IInv'
  BY <1>3, <1>4, <1>5 DEF IInv, TypeOK, Sound
<1>7. Len(Own(b)') = Len(Own(b)) + 1
  BY <1>2, <1>3, <1>5 DEF Own, Log
<1> QED BY <1>4, <1>5, <1>6, <1>7
-----------------------------------------------------------------------------
(* The invariant is inductive: whatever the branches and the parent do,     *)
(* every log numbers its entries and has a faithful snapshot.               *)
THEOREM Inductive == Spec => []IInv
<1>1. ASSUME IInv, Next PROVE IInv'
  <2>1. ASSUME NEW r \in Ref, NEW new \in Value, AppendParent(r, new) PROVE IInv'
    BY <1>1, <2>1, AppendParentStep
  <2>2. ASSUME NEW r \in Ref, NEW new \in Value, NEW b \in Forked, AppendBranch(b, r, new)
        PROVE  IInv'
    BY <1>1, <2>2, AppendBranchStep
  <2>3. CASE CheckpointParent
    BY <1>1, <2>3, CheckpointParentStep
  <2>4. ASSUME NEW v \in 1..Version(parent), RollbackParent(v) PROVE IInv'
    BY <1>1, <2>4, RollbackParentStep
  <2>5. ASSUME NEW b \in Branch, NEW v \in 0..Version(parent), Fork(b, v) PROVE IInv'
    BY <1>1, <2>5, ForkStep
  <2> QED BY <1>1, <2>1, <2>2, <2>3, <2>4, <2>5 DEF Next
<1>2. ASSUME IInv, UNCHANGED vars PROVE IInv'
  BY <1>2 DEF vars, IInv, TypeOK, Sound, Forked
<1> QED BY Initially, <1>1, <1>2, PTL DEF Spec

(* Logs, branches and counters have their types.                            *)
THEOREM TypeCorrect == Spec => []TypeOK
<1>1. IInv => TypeOK
  BY DEF IInv
<1> QED BY Inductive, <1>1, PTL
-----------------------------------------------------------------------------
(* What two branches of one base come to, ref by ref.                       *)
LEMMA SameBase ==
    ASSUME IInv, NEW b \in Forked, NEW c \in Forked, forks[b].base = forks[c].base, NEW r \in Ref
    PROVE  LET base == StateAt(forks[b].base)
               ours == Changes(b)
               theirs == Changes(c)
           IN  /\ BranchState(b)[r] = IF r \in DOMAIN ours THEN ours[r] ELSE base[r]
               /\ BranchState(c)[r] = IF r \in DOMAIN theirs THEN theirs[r] ELSE base[r]
               /\ r \in Conflicts(b, c) <=>
                     r \in DOMAIN ours \cap DOMAIN theirs /\ ours[r] # theirs[r]
               /\ Merged(b, c)[r] = IF r \in Conflicts(b, c)     THEN base[r]
                                    ELSE IF r \in DOMAIN ours   THEN ours[r]
                                    ELSE IF r \in DOMAIN theirs THEN theirs[r]
                                    ELSE base[r]
<1>1. forks[b].base \in Nat
  BY DEF IInv, TypeOK
<1>2. CommonAncestor(b, c) = forks[b].base
  <2>1. Min({forks[b].base}) = forks[b].base
    BY <1>1, MinIs
  <2> QED BY <2>1 DEF CommonAncestor
<1>3. /\ BranchState(b)[r] = IF r \in DOMAIN Changes(b) THEN Changes(b)[r]
                             ELSE StateAt(forks[b].base)[r]
      /\ BranchState(c)[r] = IF r \in DOMAIN Changes(c) THEN Changes(c)[r]
                             ELSE StateAt(forks[b].base)[r]
  BY DEF BranchState, ReplayOn, Changes
<1>4. r \in Conflicts(b, c) <=>
        r \in DOMAIN Changes(b) \cap DOMAIN Changes(c) /\ Changes(b)[r] # Changes(c)[r]
  BY DEF Conflicts
<1>5. Merged(b, c)[r] = IF r \in Conflicts(b, c) THEN StateAt(forks[b].base)[r]
                        ELSE IF r \in DOMAIN Changes(b) THEN Changes(b)[r]
                        ELSE IF r \in DOMAIN Changes(c) THEN Changes(c)[r]
                        ELSE StateAt(forks[b].base)[r]
  BY <1>2 DEF Merged
<1> QED BY <1>3, <1>4, <1>5

(* Three values that are not all different.                                 *)
LEMMA AtMostTwo ==
    ASSUME NEW x, NEW y, NEW z, x = y \/ y = z \/ x = z
    PROVE  Cardinality({x, y, z}) # 3
<1>1. \A u, v : Cardinality({u, v}) \in {1, 2}
  <2> TAKE u, v
  <2>1. IsFiniteSet({u}) /\ Cardinality({u}) = 1
    BY FS_Singleton
  <2>2. Cardinality({u} \cup {v}) \in {1, 2}
    BY <2>1, FS_AddElement
  <2>3. {u} \cup {v} = {u, v}
    OBVIOUS
  <2> QED BY <2>2, <2>3
<1>2. PICK u, v : {x, y, z} = {u, v}
  OBVIOUS
<1>3. Cardinality({x, y, z}) = 1 \/ Cardinality({x, y, z}) = 2
  BY <1>1, <1>2
<1> QED BY <1>3

(* The merge of entries, as threeWayMerge computes it, is the merge of the  *)
(* states of the branches, and it reports every clash of states.            *)
THEOREM MergesAreThreeWay == Spec => []MergeIsThreeWay
<1>1. IInv => MergeIsThreeWay
  <2> SUFFICES ASSUME IInv, NEW b \in Forked, NEW c \in Forked \ {b}, forks[b].base = forks[c].base
               PROVE  LET base == StateAt(forks[b].base)
                          x == BranchState(b)
                          y == BranchState(c)
                      IN  /\ Succeeds(b, c) => Merged(b, c) = ThreeWay(base, x, y)
                          /\ \A r \in Ref :
                                Cardinality({base[r], x[r], y[r]}) = 3 => r \in Conflicts(b, c)
    BY DEF MergeIsThreeWay
  <2> DEFINE base == StateAt(forks[b].base)
             x == BranchState(b)
             y == BranchState(c)
  <2>1. ASSUME Succeeds(b, c) PROVE Merged(b, c) = ThreeWay(base, x, y)
    <3>1. ASSUME NEW r \in Ref PROVE Merged(b, c)[r] = IF x[r] = base[r] THEN y[r] ELSE x[r]
      <4>1. r \notin Conflicts(b, c)
        BY <2>1 DEF Succeeds
      <4> QED BY <4>1, SameBase
    <3>2. Merged(b, c) = [r \in Ref |-> Merged(b, c)[r]]
      BY DEF Merged
    <3> HIDE DEF base, x, y
    <3>3. Merged(b, c) = [r \in Ref |-> IF x[r] = base[r] THEN y[r] ELSE x[r]]
      BY <3>1, <3>2
    <3> QED BY <3>3 DEF ThreeWay
  <2>2. ASSUME NEW r \in Ref, r \notin Conflicts(b, c)
        PROVE  Cardinality({base[r], x[r], y[r]}) # 3
    <3>1. base[r] = x[r] \/ x[r] = y[r] \/ base[r] = y[r]
      BY <2>2, SameBase
    <3> QED BY <3>1, AtMostTwo
  <2> QED BY <2>1, <2>2
<1> QED BY Inductive, <1>1, PTL

(* Adopting the other branch, when one has no entries, is what merging      *)
(* would give.                                                              *)
THEOREM FastForwardsAreMerges == Spec => []FastForwardIsMerge
<1>1. IInv => FastForwardIsMerge
  <2> SUFFICES ASSUME IInv, NEW b \in Forked, NEW c \in Forked \ {b},
                      forks[b].base = forks[c].base, FastForward(b, c) # None
               PROVE  Merged(b, c) = BranchState(FastForward(b, c))
    BY DEF FastForwardIsMerge
  <2>1. \A d \in Forked : Own(d) = <<>> => DOMAIN Changes(d) = {}
    BY DEF Changes, Latest
  <2>2. Merged(b, c) = [r \in Ref |-> Merged(b, c)[r]]
    BY DEF Merged
  <2>3. \A d \in Forked : BranchState(d) = [r \in Ref |-> BranchState(d)[r]]
    BY DEF BranchState, ReplayOn
  <2>4. CASE Own(b) = <<>>
    <3>1. \A r \in Ref : Merged(b, c)[r] = BranchState(c)[r]
      BY <2>1, <2>4, SameBase
    <3>2. FastForward(b, c) = c
      BY <2>4 DEF FastForward
    <3> QED BY <2>2, <2>3, <3>1, <3>2
  <2>5. CASE Own(b) # <<>> /\ Own(c) = <<>>
    <3>1. \A r \in Ref : Merged(b, c)[r] = BranchState(b)[r]
      BY <2>1, <2>5, SameBase
    <3>2. FastForward(b, c) = b
      BY <2>5 DEF FastForward
    <3> QED BY <2>2, <2>3, <3>1, <3>2
  <2> QED BY <2>4, <2>5 DEF FastForward
<1> QED BY Inductive, <1>1, PTL
-----------------------------------------------------------------------------
(* A branch whose own record stays, over a parent whose entries up to the   *)
(* fork stay, has the same state.                                           *)
LEMMA StaysIf ==
    ASSUME IInv, IInv', NEW b \in Forked, forks'[b] = forks[b],
           forks[b].base <= Version(parent), forks[b].base <= Version(parent'),
           SubSeq(parent'.entries, 1, forks[b].base) = SubSeq(parent.entries, 1, forks[b].base)
    PROVE  BranchState(b)' = BranchState(b)
<1>1. forks[b].base \in Nat
  BY DEF IInv, TypeOK
<1>2. LogUpTo(parent', forks[b].base) = LogUpTo(parent, forks[b].base)
  BY <1>1, UpTo DEF IInv
<1> QED BY <1>2 DEF BranchState, StateAt, Own

(* The state of a branch changes only by its own appends, or when the       *)
(* parent is rolled back behind the fork.                                   *)
THEOREM BranchesStayIsolated == Spec => BranchesAreIsolated
<1> DEFINE Free(b) == \/ Len(Own(b)') = Len(Own(b)) + 1
                      \/ Version(parent) < forks[b].base \/ Version(parent)' < forks[b].base
<1>1. ASSUME IInv, IInv', [Next]_vars, NEW b \in Forked, ~ Free(b)
      PROVE  BranchState(b)' = BranchState(b)
  <2>1. /\ forks[b].base \in Nat /\ Version(parent) \in Nat /\ Version(parent') \in Nat
        /\ parent.entries \in Seq(Entry) /\ Version(parent) = Len(parent.entries)
        /\ parent'.entries \in Seq(Entry) /\ Version(parent') = Len(parent'.entries)
    BY <1>1 DEF IInv, TypeOK, Sound, Log, Numbered, Version
  <2>2. forks[b].base <= Version(parent) /\ forks[b].base <= Version(parent')
    BY <1>1, <2>1
  <2>3. SUFFICES /\ forks'[b] = forks[b]
                 /\ SubSeq(parent'.entries, 1, forks[b].base) = SubSeq(parent.entries, 1, forks[b].base)
    BY <1>1, <2>2, StaysIf
  <2>4. ASSUME NEW r \in Ref, NEW new \in Value, AppendParent(r, new)
        PROVE  SubSeq(parent'.entries, 1, forks[b].base) = SubSeq(parent.entries, 1, forks[b].base)
    <3>1. PICK e \in Entry : parent'.entries = Append(parent.entries, e)
      BY <1>1, <2>4, AppendParentStep
    <3> QED BY <2>1, <2>2, <3>1
  <2>5. ASSUME NEW v \in 1..Version(parent), RollbackParent(v)
        PROVE  SubSeq(parent'.entries, 1, forks[b].base) = SubSeq(parent.entries, 1, forks[b].base)
    <3>1. parent'.entries = SubSeq(parent.entries, 1, v - 1) /\ v \in Nat /\ v - 1 <= Len(parent.entries)
      BY <1>1, <2>1, <2>5, RollbackParentStep
    <3> QED BY <2>1, <2>2, <3>1
  <2>6. CASE \E r \in Ref, new \in Value : AppendParent(r, new)
    BY <2>4, <2>6 DEF AppendParent
  <2>7. CASE \E r \in Ref, new \in Value : \E c \in Forked : AppendBranch(c, r, new)
    <3>1. PICK r \in Ref, new \in Value : \E c \in Forked : AppendBranch(c, r, new)
      BY <2>7
    <3>2. PICK c \in Forked : AppendBranch(c, r, new)
      BY <3>1
    <3>3. /\ UNCHANGED parent /\ Len(Own(c)') = Len(Own(c)) + 1
          /\ \A d \in Forked \ {c} : forks'[d] = forks[d]
      BY <1>1, <3>2, AppendBranchStep
    <3>4. b # c
      BY <1>1, <3>3
    <3> QED BY <3>3, <3>4
  <2>8. CASE CheckpointParent
    BY <1>1, <2>8, CheckpointParentStep DEF CheckpointParent
  <2>9. CASE \E v \in 1..Version(parent) : RollbackParent(v)
    BY <2>5, <2>9 DEF RollbackParent
  <2>10. CASE \E d \in Branch, v \in 0..Version(parent) : Fork(d, v)
    BY <1>1, <2>10, ForkStep
  <2>11. CASE UNCHANGED vars
    BY <2>11 DEF vars
  <2> QED BY <1>1, <2>6, <2>7, <2>8, <2>9, <2>10, <2>11 DEF Next
<1>2. IInv /\ IInv' /\ [Next]_vars =>
        [\A b \in Forked : BranchState(b)' # BranchState(b) => Free(b)]_vars
  BY <1>1
<1> QED BY Inductive, <1>2, PTL DEF Spec, BranchesAreIsolated
=============================================================================

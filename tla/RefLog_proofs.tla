---------------------------- MODULE RefLog_proofs ----------------------------
(***************************************************************************)
(* What the operators of RefLog do to the state that a log stands for.     *)
(* Everything rests on the last update of a ref in a sequence, a maximum   *)
(* of a set of positions, so the first lemmas are about Max and Min.       *)
(***************************************************************************)
EXTENDS RefLog, WellFoundedInduction, TLAPS

Less == {ss \in Nat \X Nat : ss[1] < ss[2]}

(* A nonempty set of numbers has a least element.                           *)
LEMMA MinProperties ==
    ASSUME NEW T \in SUBSET Nat, T # {}
    PROVE  Min(T) \in T /\ \A y \in T : Min(T) <= y
<1>1. IsWellFoundedOn(Less, Nat)
  BY NatLessThanWellFounded DEF OpToRel, Less
<1>2. PICK x \in T : \A y \in T : ~ (<<y, x>> \in Less)
  BY <1>1, WFMin
<1>3. ASSUME NEW y \in T PROVE x <= y
  <2>1. ~ (<<y, x>> \in Less)
    BY <1>2
  <2>2. <<y, x>> \in Nat \X Nat /\ <<y, x>>[1] = y /\ <<y, x>>[2] = x
    OBVIOUS
  <2> QED BY <2>1, <2>2 DEF Less
<1> QED BY <1>3 DEF Min

(* A nonempty bounded set of numbers has a greatest element: the bound      *)
(* minus it is least.                                                       *)
LEMMA MaxProperties ==
    ASSUME NEW n \in Nat, NEW T \in SUBSET (0..n), T # {}
    PROVE  Max(T) \in T /\ \A y \in T : y <= Max(T)
<1> DEFINE U == {n - t : t \in T}
<1>1. \A t \in T : t \in 0..n /\ n - t \in Nat
  OBVIOUS
<1>2. U \in SUBSET Nat /\ U # {}
  BY <1>1
<1>3. Min(U) \in U /\ \A y \in U : Min(U) <= y
  <2> HIDE DEF U
  <2> QED BY <1>2, MinProperties
<1>4. PICK t \in T : Min(U) = n - t
  BY <1>3
<1>5. ASSUME NEW y \in T PROVE y <= t
  <2>1. n - t <= n - y
    BY <1>3, <1>4, Zenon
  <2>2. t \in Int /\ y \in Int
    OBVIOUS
  <2> HIDE DEF U
  <2> QED BY <2>1, <2>2
<1> QED BY <1>5 DEF Max

(* The least element of a set of numbers is its Min, the greatest its Max.  *)
LEMMA MinIs ==
    ASSUME NEW T \in SUBSET Nat, NEW n \in T, \A y \in T : n <= y
    PROVE  Min(T) = n
<1>1. Min(T) \in T /\ Min(T) <= n
  BY MinProperties
<1> DEFINE m == Min(T)
<1>2. m \in Nat /\ n \in Nat /\ n <= m /\ m <= n
  BY <1>1
<1> HIDE DEF m
<1>3. m = n
  BY <1>2
<1> QED BY <1>3 DEF m

(* The maximum of a set that contains its bound.                            *)
LEMMA MaxIs ==
    ASSUME NEW n \in Nat, NEW T \in SUBSET (0..n), n \in T
    PROVE  Max(T) = n
<1>1. Max(T) \in T /\ n <= Max(T)
  BY MaxProperties
<1> DEFINE m == Max(T)
<1>2. m \in 0..n /\ n <= m
  BY <1>1
<1> HIDE DEF m
<1>3. m = n
  BY <1>2
<1> QED BY <1>3 DEF m
-----------------------------------------------------------------------------
(* S is a set of ref updates: entries of a log, or commands of a push.      *)
IsUpdates(S) == \A u \in S : u.ref \in Ref /\ u.new \in Value

(* The positions of a ref's updates, and the last of them.                  *)
LEMMA LastUpdate ==
    ASSUME NEW S, NEW es \in Seq(S), NEW r
    PROVE  /\ UpdatesOf(es, r) \subseteq 1..Len(es)
           /\ UpdatesOf(es, r) # {} =>
                /\ Max(UpdatesOf(es, r)) \in UpdatesOf(es, r)
                /\ \A i \in UpdatesOf(es, r) : i <= Max(UpdatesOf(es, r))
<1>1. UpdatesOf(es, r) \subseteq 1..Len(es)
  BY DEF UpdatesOf
<1>2. UpdatesOf(es, r) \in SUBSET (0..Len(es)) /\ Len(es) \in Nat
  BY <1>1
<1> QED BY <1>1, <1>2, MaxProperties

(* Replaying, one ref at a time.                                            *)
LEMMA ReplayOnAt ==
    ASSUME NEW S, NEW es \in Seq(S), NEW state, NEW r \in Ref
    PROVE  ReplayOn(state, es)[r] =
             IF UpdatesOf(es, r) = {} THEN state[r] ELSE es[Max(UpdatesOf(es, r))].new
<1>1. r \in DOMAIN Latest(es) <=> UpdatesOf(es, r) # {}
  BY DEF Latest, UpdatesOf
<1>2. r \in DOMAIN Latest(es) => Latest(es)[r] = es[Max(UpdatesOf(es, r))].new
  BY DEF Latest
<1> QED BY <1>1, <1>2 DEF ReplayOn

(* Replaying updates gives a ref state.                                     *)
LEMMA ReplayOnType ==
    ASSUME NEW S, IsUpdates(S), NEW es \in Seq(S), NEW state \in RefState
    PROVE  ReplayOn(state, es) \in RefState
<1>1. ASSUME NEW r \in Ref PROVE ReplayOn(state, es)[r] \in Value
  <2>1. CASE UpdatesOf(es, r) = {}
    BY <2>1, ReplayOnAt DEF RefState
  <2>2. CASE UpdatesOf(es, r) # {}
    <3>1. Max(UpdatesOf(es, r)) \in 1..Len(es)
      BY <2>2, LastUpdate
    <3>2. es[Max(UpdatesOf(es, r))] \in S
      BY <3>1
    <3> QED BY <2>2, <3>2, ReplayOnAt DEF IsUpdates
  <2> QED BY <2>1, <2>2
<1>2. ReplayOn(state, es) = [r \in Ref |-> ReplayOn(state, es)[r]]
  BY DEF ReplayOn
<1> QED BY <1>1, <1>2 DEF RefState

(* Replaying nothing changes nothing.                                       *)
LEMMA ReplayOnEmpty ==
    ASSUME NEW state \in RefState
    PROVE  ReplayOn(state, <<>>) = state
<1>1. \A r : UpdatesOf(<<>>, r) = {}
  BY DEF UpdatesOf
<1>2. \A r \in Ref : ReplayOn(state, <<>>)[r] = state[r]
  <2>1. <<>> \in Seq({})
    OBVIOUS
  <2> QED BY <1>1, <2>1, ReplayOnAt
<1>3. ReplayOn(state, <<>>) = [r \in Ref |-> ReplayOn(state, <<>>)[r]]
  BY DEF ReplayOn
<1> QED BY <1>2, <1>3 DEF RefState

(* One more update moves one ref.                                           *)
LEMMA ReplayOnAppend ==
    ASSUME NEW S, IsUpdates(S), NEW es \in Seq(S), NEW u \in S, NEW state \in RefState
    PROVE  ReplayOn(state, Append(es, u)) = [ReplayOn(state, es) EXCEPT ![u.ref] = u.new]
<1> DEFINE new == Append(es, u)
<1>1. /\ new \in Seq(S) /\ Len(new) = Len(es) + 1 /\ Len(es) \in Nat
      /\ new[Len(es) + 1] = u /\ \A i \in 1..Len(es) : new[i] = es[i]
  OBVIOUS
<1>2. u.ref \in Ref
  BY DEF IsUpdates
<1>3. ASSUME NEW r \in Ref, r # u.ref
      PROVE  ReplayOn(state, new)[r] = ReplayOn(state, es)[r]
  <2>1. UpdatesOf(new, r) = UpdatesOf(es, r)
    BY <1>1, <1>3 DEF UpdatesOf
  <2>2. UpdatesOf(es, r) # {} => Max(UpdatesOf(es, r)) \in 1..Len(es)
    BY LastUpdate
  <2> HIDE DEF new
  <2> QED BY <2>1, <2>2, <1>1, ReplayOnAt
<1>4. ReplayOn(state, new)[u.ref] = u.new
  <2>1. Len(es) + 1 \in UpdatesOf(new, u.ref)
    BY <1>1 DEF UpdatesOf
  <2>2. Max(UpdatesOf(new, u.ref)) = Len(es) + 1
    <3> HIDE DEF new
    <3> QED BY <2>1, <1>1, LastUpdate
  <2> HIDE DEF new
  <2> QED BY <2>1, <2>2, <1>1, <1>2, ReplayOnAt
<1>5. /\ ReplayOn(state, new) = [r \in Ref |-> ReplayOn(state, new)[r]]
      /\ ReplayOn(state, es) = [r \in Ref |-> ReplayOn(state, es)[r]]
  BY DEF ReplayOn
<1> HIDE DEF new
<1>6. ReplayOn(state, new) = [ReplayOn(state, es) EXCEPT ![u.ref] = u.new]
  BY <1>2, <1>3, <1>4, <1>5
<1> QED BY <1>6 DEF new

(* Replaying a prefix and then the rest is replaying the whole.             *)
LEMMA ReplayOnSplit ==
    ASSUME NEW S, IsUpdates(S), NEW es \in Seq(S), NEW n \in 0..Len(es), NEW state \in RefState
    PROVE  ReplayOn(ReplayOn(state, SubSeq(es, 1, n)), SubSeq(es, n + 1, Len(es)))
             = ReplayOn(state, es)
<1> DEFINE pre == SubSeq(es, 1, n)
           post == SubSeq(es, n + 1, Len(es))
           mid == ReplayOn(state, pre)
<1>1. /\ pre \in Seq(S) /\ Len(pre) = n
      /\ \A i \in 1..n : pre[i] = es[i]
  OBVIOUS
<1>2. /\ post \in Seq(S) /\ Len(post) = Len(es) - n
      /\ \A i \in 1..(Len(es) - n) : post[i] = es[n + i]
  OBVIOUS
<1>3. Len(es) \in Nat /\ n \in Nat /\ n <= Len(es)
  OBVIOUS
<1> HIDE DEF pre, post, mid
<1>4. ASSUME NEW r \in Ref PROVE ReplayOn(mid, post)[r] = ReplayOn(state, es)[r]
  <2> DEFINE A == UpdatesOf(pre, r)
             B == UpdatesOf(post, r)
             C == UpdatesOf(es, r)
  <2>1. A = {i \in 1..n : es[i].ref = r}
    BY <1>1 DEF UpdatesOf
  <2>2. B = {i \in 1..(Len(es) - n) : es[n + i].ref = r}
    BY <1>2 DEF UpdatesOf
  <2>3. C = {i \in 1..Len(es) : es[i].ref = r}
    BY DEF UpdatesOf
  <2>4. CASE B = {}
    <3>1. C \subseteq A
      <4>1. ASSUME NEW i \in C, i > n PROVE FALSE
        <5>1. i - n \in B
          BY <4>1, <2>2, <2>3, <1>3
        <5> QED BY <5>1, <2>4
      <4> QED BY <4>1, <2>1, <2>3, <1>3
    <3>2. A = C
      BY <3>1, <2>1, <2>3, <1>3
    <3>3. ReplayOn(mid, post)[r] = mid[r]
      BY <2>4, <1>2, ReplayOnAt
    <3>4. A # {} => Max(A) \in 1..n
      BY <1>1, LastUpdate
    <3>5. mid[r] = IF A = {} THEN state[r] ELSE es[Max(A)].new
      <4>1. mid[r] = IF A = {} THEN state[r] ELSE pre[Max(A)].new
        BY <1>1, ReplayOnAt DEF mid
      <4> QED BY <4>1, <3>4, <1>1
    <3> QED BY <3>2, <3>3, <3>5, ReplayOnAt
  <2>5. CASE B # {}
    <3>1. /\ Max(B) \in 1..(Len(es) - n) /\ es[n + Max(B)].ref = r
          /\ \A i \in B : i <= Max(B)
      BY <2>5, <2>2, <1>2, LastUpdate
    <3>2. n + Max(B) \in C
      BY <3>1, <2>3, <1>3
    <3>3. Max(C) = n + Max(B)
      <4> DEFINE b == Max(B)
                 c == Max(C)
      <4>1. c \in C /\ \A i \in C : i <= c
        BY <3>2, LastUpdate
      <4>2. b \in 1..(Len(es) - n)
        BY <3>1
      <4>3. c \in 1..Len(es) /\ es[c].ref = r
        BY <4>1, <2>3
      <4>4. n + b <= c
        BY <4>1, <3>2
      <4> HIDE DEF b, c
      <4>5. c - n \in 1..(Len(es) - n) /\ n + (c - n) = c
        BY <4>2, <4>3, <4>4, <1>3
      <4>6. c - n \in B
        BY <4>3, <4>5, <2>2
      <4>7. c - n <= b
        BY <4>6, <3>1 DEF b
      <4>8. c = n + b
        BY <4>2, <4>3, <4>4, <4>7, <1>3
      <4> QED BY <4>8 DEF b, c
    <3>4. ReplayOn(mid, post)[r] = post[Max(B)].new
      BY <2>5, <1>2, ReplayOnAt
    <3>5. ReplayOn(state, es)[r] = es[Max(C)].new
      BY <3>2, ReplayOnAt
    <3> QED BY <3>1, <3>3, <3>4, <3>5, <1>2
  <2> QED BY <2>4, <2>5
<1>5. /\ ReplayOn(mid, post) = [r \in Ref |-> ReplayOn(mid, post)[r]]
      /\ ReplayOn(state, es) = [r \in Ref |-> ReplayOn(state, es)[r]]
  BY DEF ReplayOn
<1>6. ReplayOn(mid, post) = ReplayOn(state, es)
  BY <1>4, <1>5
<1> QED BY <1>6 DEF mid, pre, post
-----------------------------------------------------------------------------
(* Log entries are updates.                                                 *)
LEMMA EntriesAreUpdates == IsUpdates(Entry)
BY DEF IsUpdates, Entry

(* The state without refs is a state.                                       *)
LEMMA EmptyStateType == EmptyState \in RefState
BY DEF EmptyState, RefState, Value

(* The new log is numbered and its snapshot is faithful.                    *)
LEMMA EmptyLogProperties ==
    EmptyLog \in Log /\ Numbered(EmptyLog) /\ SnapshotIsPrefix(EmptyLog)
<1>1. EmptyLog \in Log /\ Numbered(EmptyLog)
  BY EmptyStateType DEF EmptyLog, Log, Snapshot, NoSnapshot, Numbered
<1>2. SubSeq(<<>>, 1, 0) = <<>>
  OBVIOUS
<1>3. /\ EmptyLog.entries = <<>> /\ EmptyLog.snap.version = 0
      /\ EmptyLog.snap.state = EmptyState /\ Len(<<>>) = 0
  BY DEF EmptyLog, NoSnapshot
<1>4. ReplayOn(EmptyState, <<>>) = EmptyState
  BY EmptyStateType, ReplayOnEmpty
<1>5. SnapshotIsPrefix(EmptyLog)
  <2>1. EmptyLog.snap.version <= Len(EmptyLog.entries)
    BY <1>3
  <2>2. EmptyLog.snap.state = ReplayOn(EmptyState, SubSeq(EmptyLog.entries, 1, EmptyLog.snap.version))
    BY <1>2, <1>3, <1>4, Zenon
  <2> QED BY <2>1, <2>2, Zenon DEF SnapshotIsPrefix
<1> QED BY <1>1, <1>5

(* A checkpoint keeps the entries; its snapshot is the state after them.    *)
LEMMA CheckpointProperties ==
    ASSUME NEW l \in Log, Numbered(l), SnapshotIsPrefix(l)
    PROVE  /\ Checkpoint(l) \in Log
           /\ Checkpoint(l).entries = l.entries
           /\ Checkpoint(l).nextVersion = l.nextVersion
           /\ Numbered(Checkpoint(l)) /\ SnapshotIsPrefix(Checkpoint(l))
<1>1. CASE l.entries = <<>>
  BY <1>1 DEF Checkpoint
<1>2. CASE l.entries # <<>>
  <2> DEFINE st == ReplayOn(EmptyState, l.entries)
             out == Checkpoint(l)
  <2>1. st \in RefState
    BY EntriesAreUpdates, EmptyStateType, ReplayOnType DEF Log
  <2>2. Version(l) = Len(l.entries) /\ Len(l.entries) \in Nat
    BY DEF Version, Numbered, Log
  <2> HIDE DEF st
  <2>3. out = [l EXCEPT !.snap = [version |-> Version(l), state |-> st]]
    BY <1>2 DEF Checkpoint, st
  <2>4. /\ out.entries = l.entries /\ out.nextVersion = l.nextVersion
        /\ out.snap = [version |-> Len(l.entries), state |-> st]
    BY <2>2, <2>3 DEF Log
  <2>5. out \in Log
    BY <2>1, <2>2, <2>3 DEF Log, Snapshot
  <2>6. SubSeq(l.entries, 1, Len(l.entries)) = l.entries
    BY DEF Log
  <2> HIDE DEF out
  <2>7. Numbered(out)
    BY <2>4 DEF Numbered
  <2>8. SubSeq(out.entries, 1, out.snap.version) = l.entries
    BY <2>4, <2>6
  <2>9. SnapshotIsPrefix(out)
    <3>1. out.snap.version <= Len(out.entries)
      BY <2>2, <2>4
    <3>2. out.snap.state = ReplayOn(EmptyState, SubSeq(out.entries, 1, out.snap.version))
      <4>1. out.snap.state = st
        BY <2>4
      <4> QED BY <4>1, <2>8, Zenon DEF st
    <3> QED BY <3>1, <3>2, Zenon DEF SnapshotIsPrefix
  <2> QED BY <2>4, <2>5, <2>7, <2>9 DEF out
<1> QED BY <1>1, <1>2

(* append() adds one entry with the next number, and a checkpoint that it   *)
(* takes on the way changes nothing else.                                   *)
LEMMA LogAppendProperties ==
    ASSUME NEW l \in Log, Numbered(l), SnapshotIsPrefix(l),
           NEW r \in Ref, NEW old \in Value, NEW new \in Value
    PROVE  LET e == [version |-> l.nextVersion, ref |-> r, old |-> old, new |-> new]
               out == LogAppend(l, r, old, new)
           IN  /\ e \in Entry
               /\ out \in Log /\ Numbered(out) /\ SnapshotIsPrefix(out)
               /\ out.entries = Append(l.entries, e)
<1> DEFINE e == [version |-> l.nextVersion, ref |-> r, old |-> old, new |-> new]
           out == [l EXCEPT !.entries = Append(@, e), !.nextVersion = @ + 1]
           es == l.entries
<1>1. e \in Entry
  BY DEF Entry, Log
<1>2. /\ es \in Seq(Entry) /\ Len(es) \in Nat /\ e.version = Len(es) + 1
      /\ l.nextVersion = Len(es) + 1 /\ \A i \in 1..Len(es) : es[i].version = i
      /\ l.snap.version \in Nat /\ l.snap.version <= Len(es)
  BY DEF Log, Snapshot, Numbered, SnapshotIsPrefix
<1>3. /\ out.entries = Append(es, e) /\ out.nextVersion = l.nextVersion + 1
      /\ out.snap = l.snap
  BY DEF Log
<1>4. out \in Log
  <2>1. /\ Append(es, e) \in Seq(Entry) /\ l.nextVersion + 1 \in Nat \ {0}
        /\ l.snap \in Snapshot
    BY <1>1, <1>2 DEF Log
  <2>2. ASSUME NEW s \in Seq(Entry), NEW n \in Nat \ {0}
        PROVE  [l EXCEPT !.entries = s, !.nextVersion = n] \in Log
    BY DEF Log
  <2> HIDE DEF e
  <2>3. out = [l EXCEPT !.entries = Append(es, e), !.nextVersion = l.nextVersion + 1]
    OBVIOUS
  <2> HIDE DEF out, es
  <2> QED BY <2>1, <2>2, <2>3
<1> HIDE DEF out, es, e
<1>5. /\ Append(es, e) \in Seq(Entry) /\ Len(Append(es, e)) = Len(es) + 1
      /\ Append(es, e)[Len(es) + 1] = e
      /\ \A i \in 1..Len(es) : Append(es, e)[i] = es[i]
  BY <1>1, <1>2
<1>6. Numbered(out)
  <2>1. ASSUME NEW i \in 1..(Len(es) + 1) PROVE Append(es, e)[i].version = i
    BY <1>2, <1>5
  <2>2. DOMAIN out.entries = 1..(Len(es) + 1) /\ Len(out.entries) = Len(es) + 1
    BY <1>3, <1>5
  <2> QED BY <1>2, <1>3, <2>1, <2>2 DEF Numbered
<1>7. SnapshotIsPrefix(out)
  <2>1. SubSeq(Append(es, e), 1, l.snap.version) = SubSeq(es, 1, l.snap.version)
    BY <1>1, <1>2
  <2>2. l.snap.state = ReplayOn(EmptyState, SubSeq(es, 1, l.snap.version))
    BY DEF SnapshotIsPrefix, es
  <2>3. SubSeq(out.entries, 1, out.snap.version) = SubSeq(es, 1, l.snap.version)
    BY <1>3, <2>1
  <2>4. out.snap.version <= Len(out.entries)
    BY <1>2, <1>3, <1>5
  <2> QED BY <1>3, <2>2, <2>3, <2>4 DEF SnapshotIsPrefix
<1>8. LogAppend(l, r, old, new) \in {out, Checkpoint(out)}
  BY DEF LogAppend, out, e
<1>9. /\ Checkpoint(out) \in Log /\ Checkpoint(out).entries = out.entries
      /\ Numbered(Checkpoint(out)) /\ SnapshotIsPrefix(Checkpoint(out))
  BY <1>4, <1>6, <1>7, CheckpointProperties
<1> QED BY <1>1, <1>3, <1>4, <1>6, <1>7, <1>8, <1>9 DEF e, es

(* In a numbered log, the entries before a version are the first ones, and  *)
(* the next version after them is the one asked for.                        *)
LEMMA NumberedPrefix ==
    ASSUME NEW es \in Seq(Entry), \A i \in 1..Len(es) : es[i].version = i,
           NEW from \in 1..(Len(es) + 1)
    PROVE  /\ Before(es, from) = SubSeq(es, 1, from - 1)
           /\ VersionAfter(SubSeq(es, 1, from - 1)) = from
<1> DEFINE S == Since(es, from)
           pre == SubSeq(es, 1, from - 1)
           V == {0} \cup {pre[i].version : i \in DOMAIN pre}
<1>1. Len(es) \in Nat /\ S = {i \in 1..Len(es) : i >= from}
  BY DEF Since
<1>2. Before(es, from) = pre
  <2>1. CASE from = Len(es) + 1
    <3>1. S = {}
      BY <1>1, <2>1
    <3>2. pre = es
      BY <2>1
    <3> QED BY <3>1, <3>2 DEF Before
  <2>2. CASE from # Len(es) + 1
    <3>1. from \in S /\ S \in SUBSET Nat /\ \A i \in S : from <= i
      BY <1>1, <2>2
    <3> HIDE DEF S
    <3>2. Min(S) = from
      BY <3>1, MinIs
    <3>3. Before(es, from) = SubSeq(es, 1, Min(S) - 1)
      BY <3>1 DEF Before, S
    <3> QED BY <3>2, <3>3
  <2> QED BY <2>1, <2>2
<1>3. V = 0..(from - 1)
  <2>1. DOMAIN pre = 1..(from - 1) /\ \A i \in 1..(from - 1) : pre[i] = es[i]
    OBVIOUS
  <2>2. \A i \in 1..(from - 1) : pre[i].version = i
    BY <2>1
  <2> HIDE DEF pre
  <2>3. {pre[i].version : i \in DOMAIN pre} = 1..(from - 1)
    BY <2>1, <2>2
  <2> QED BY <2>3
<1>4. Max(V) = from - 1
  <2>1. from - 1 \in Nat
    BY <1>1
  <2> HIDE DEF V
  <2>2. V \in SUBSET (0..(from - 1)) /\ from - 1 \in V
    BY <1>3, <2>1
  <2> QED BY <2>1, <2>2, MaxIs
<1>5. VersionAfter(pre) = 1 + Max(V)
  BY DEF VersionAfter
<1> HIDE DEF V, pre
<1>6. VersionAfter(pre) = from
  BY <1>4, <1>5
<1> QED BY <1>2, <1>6 DEF pre

(* rollback(from) is the log as it was when entry from was about to be      *)
(* appended, a snapshot past that point included.                           *)
LEMMA LogRollbackProperties ==
    ASSUME NEW l \in Log, Numbered(l), SnapshotIsPrefix(l),
           NEW from \in 1..(Len(l.entries) + 1)
    PROVE  LET out == LogRollback(l, from)
           IN  /\ out \in Log /\ Numbered(out) /\ SnapshotIsPrefix(out)
               /\ out.entries = SubSeq(l.entries, 1, from - 1)
<1> DEFINE es == l.entries
           pre == SubSeq(es, 1, from - 1)
           sn == IF l.snap.version >= from THEN NoSnapshot ELSE l.snap
           out == LogRollback(l, from)
<1>1. /\ es \in Seq(Entry) /\ Len(es) \in Nat /\ from \in 1..(Len(es) + 1)
      /\ \A i \in 1..Len(es) : es[i].version = i
      /\ l.snap \in Snapshot /\ l.snap.version \in Nat
  BY DEF Log, Snapshot, Numbered
<1>2. /\ l.snap.version <= Len(es)
      /\ l.snap.state = ReplayOn(EmptyState, SubSeq(es, 1, l.snap.version))
  BY DEF SnapshotIsPrefix
<1> HIDE DEF es
<1>3. pre \in Seq(Entry) /\ Len(pre) = from - 1 /\ \A i \in 1..(from - 1) : pre[i] = es[i]
  BY <1>1
<1>4. Before(es, from) = pre /\ VersionAfter(pre) = from
  BY <1>1, NumberedPrefix
<1> HIDE DEF pre
<1>5. out = [entries |-> pre, nextVersion |-> from, snap |-> sn]
  BY <1>4 DEF LogRollback, es
<1>6. /\ NoSnapshot \in Snapshot /\ NoSnapshot.version = 0
      /\ NoSnapshot.state = EmptyState
  BY EmptyStateType DEF NoSnapshot, Snapshot
<1>7. sn \in Snapshot
  BY <1>1, <1>6
<1>8. /\ sn.version \in Nat /\ sn.version <= from - 1
      /\ sn.state = ReplayOn(EmptyState, SubSeq(pre, 1, sn.version))
  <2>1. CASE l.snap.version >= from
    <3>1. sn = NoSnapshot
      BY <2>1
    <3>2. SubSeq(pre, 1, 0) = <<>>
      BY <1>3
    <3>3. ReplayOn(EmptyState, SubSeq(pre, 1, 0)) = EmptyState
      BY <3>2, EmptyStateType, ReplayOnEmpty, Zenon
    <3>4. sn.version = 0 /\ sn.state = EmptyState
      BY <3>1, <1>6
    <3>5. sn.state = ReplayOn(EmptyState, SubSeq(pre, 1, sn.version))
      BY <3>3, <3>4, Zenon
    <3> QED BY <3>4, <3>5, <1>1
  <2>2. CASE ~(l.snap.version >= from)
    <3>1. sn = l.snap /\ l.snap.version <= from - 1
      BY <2>2, <1>1
    <3>2. SubSeq(pre, 1, l.snap.version) = SubSeq(es, 1, l.snap.version)
      BY <3>1, <1>1 DEF pre
    <3>3. sn.state = ReplayOn(EmptyState, SubSeq(pre, 1, sn.version))
      BY <3>1, <3>2, <1>2, Zenon
    <3> QED BY <3>1, <3>3, <1>1
  <2> QED BY <2>1, <2>2
<1> HIDE DEF sn
<1>9. out \in Log
  BY <1>1, <1>3, <1>5, <1>7 DEF Log
<1>10. out.entries = pre /\ out.nextVersion = from /\ out.snap = sn
  BY <1>5
<1> HIDE DEF out
<1>11. Numbered(out)
  <2>1. \A i \in 1..(from - 1) : pre[i].version = i
    BY <1>1, <1>3
  <2>2. DOMAIN pre = 1..(from - 1) /\ from = Len(pre) + 1
    BY <1>1, <1>3
  <2> QED BY <2>1, <2>2, <1>10 DEF Numbered
<1>12. SnapshotIsPrefix(out)
  <2>1. out.snap.version <= Len(out.entries)
    BY <1>3, <1>8, <1>10
  <2>2. out.snap.state = ReplayOn(EmptyState, SubSeq(out.entries, 1, out.snap.version))
    BY <1>8, <1>10, Zenon
  <2> QED BY <2>1, <2>2, Zenon DEF SnapshotIsPrefix
<1> QED BY <1>9, <1>10, <1>11, <1>12 DEF out, pre, es

(* replayState() gives what replaying every entry would.                    *)
LEMMA ReplayStateIsReplay ==
    ASSUME NEW l \in Log, Numbered(l), SnapshotIsPrefix(l)
    PROVE  ReplayState(l) = ReplayOn(EmptyState, l.entries)
<1> DEFINE es == l.entries
           n == l.snap.version
           S == Since(es, n + 1)
           post == SubSeq(es, n + 1, Len(es))
<1>1. /\ es \in Seq(Entry) /\ Len(es) \in Nat /\ n \in 0..Len(es)
      /\ \A i \in 1..Len(es) : es[i].version = i
  BY DEF Log, Snapshot, Numbered, SnapshotIsPrefix
<1>2. l.snap.state = ReplayOn(EmptyState, SubSeq(es, 1, n))
  BY DEF SnapshotIsPrefix
<1>3. S = {i \in 1..Len(es) : i >= n + 1}
  BY <1>1 DEF Since
<1>4. AfterSnapshot(l) = post
  <2>1. CASE n = Len(es)
    <3>1. S = {}
      BY <1>1, <1>3, <2>1
    <3>2. post = <<>>
      BY <1>1, <2>1
    <3> QED BY <3>1, <3>2 DEF AfterSnapshot
  <2>2. CASE n # Len(es)
    <3>1. n + 1 \in S /\ S \in SUBSET Nat /\ \A i \in S : n + 1 <= i
      BY <1>1, <1>3, <2>2
    <3> HIDE DEF S
    <3>2. Min(S) = n + 1
      BY <3>1, MinIs
    <3>3. AfterSnapshot(l) = SubSeq(es, Min(S), Len(es))
      BY <3>1 DEF AfterSnapshot, S
    <3> QED BY <3>2, <3>3
  <2> QED BY <2>1, <2>2
<1> HIDE DEF es, n
<1>5. ReplayOn(ReplayOn(EmptyState, SubSeq(es, 1, n)), post) = ReplayOn(EmptyState, es)
  BY <1>1, EntriesAreUpdates, EmptyStateType, ReplayOnSplit
<1>6. ReplayState(l) = ReplayOn(l.snap.state, post)
  BY <1>4 DEF ReplayState
<1> QED BY <1>2, <1>5, <1>6, Zenon DEF es
=============================================================================

-------------------------- MODULE StoreLocks_proofs --------------------------
(***************************************************************************)
(* The locks of ParquetStore, proved for any set of readers, flushers and  *)
(* writers: nobody waits in a queue that nobody will serve, and when each  *)
(* event drives one promise chain the queues and microtasks implement      *)
(* ExclusiveAccess.                                                        *)
(*                                                                         *)
(* Every step moves one client through one of the two locks, so the        *)
(* invariant has a part for each, and a step of one lock leaves the other  *)
(* part alone.                                                             *)
(***************************************************************************)
EXTENDS StoreLocks, FiniteSetTheorems, SequenceTheorems, TLAPS

\* Who is in a queue, and that nobody is in it twice.
Queued(q) == {q[i] : i \in DOMAIN q}
Once(q) == \A i, j \in DOMAIN q : q[i] = q[j] => i = j

\* The states of each kind of client.
Kinds ==
    /\ pc \in [Client -> State]
    /\ \A c \in Reader : pc[c] \in {"idle", "readWait", "reading"}
    /\ \A c \in Writer : pc[c] \in {"idle", "writeWait", "writing"}
    /\ \A c \in Flusher : pc[c] \in {"idle", "mutexWait", "mutexHeld", "readWait", "reading", "readDone"}
    /\ turns \in {"drained", "shared"}

Mutex == [locked : BOOLEAN, waiters : Seq(Flusher), woken : Seq(Flusher)]
RWLock == [ readers : Nat, writing : BOOLEAN, writeWaiters : Seq(Writer),
            readWaiters : Seq(Reader \cup Flusher), woken : Seq(Client) ]

\* The mutex is marked locked only while somebody is inside.  In drained turns
\* it is so marked whenever somebody is, and a flusher that is scheduled finds
\* nobody.
MutexFits ==
    /\ mx \in Mutex
    /\ \A c \in Queued(mx.waiters) \cup Queued(mx.woken) : pc[c] = "mutexWait"
    /\ Once(mx.waiters) /\ Once(mx.woken) /\ Queued(mx.waiters) \cap Queued(mx.woken) = {}
    /\ mx.locked => \E c \in Flusher : InMutex(c)
    /\ mx.waiters # <<>> => mx.woken # <<>> \/ \E c \in Flusher : InMutex(c)
    /\ turns = "drained" =>
          /\ \A c \in Flusher : InMutex(c) => mx.locked /\ mx.woken = <<>>
          /\ \A c, d \in Flusher : InMutex(c) /\ InMutex(d) => c = d
          /\ Len(mx.woken) <= 1

Reading == {c \in Client : pc[c] = "reading"}
Writing == {c \in Writer : pc[c] = "writing"}
WokenWriters == Queued(rw.woken) \cap Writer

\* The same of the read-write lock, which also counts its readers.
RWFits ==
    /\ rw \in RWLock
    /\ \A c \in Queued(rw.writeWaiters) : pc[c] = "writeWait"
    /\ \A c \in Queued(rw.readWaiters) : pc[c] = "readWait"
    /\ \A c \in Queued(rw.woken) : pc[c] \in {"readWait", "writeWait"}
    /\ Once(rw.writeWaiters) /\ Once(rw.readWaiters) /\ Once(rw.woken)
    /\ Queued(rw.writeWaiters) \cap Queued(rw.woken) = {}
    /\ Queued(rw.readWaiters) \cap Queued(rw.woken) = {}
    /\ IsFiniteSet(Reading) /\ rw.readers = Cardinality(Reading)
    /\ rw.writing => Writing # {}
    /\ rw.writeWaiters # <<>> => rw.woken # <<>> \/ Reading # {} \/ Writing # {}
    /\ rw.readWaiters # <<>> => rw.writeWaiters # <<>> \/ Writing # {} \/ WokenWriters # {}
    /\ turns = "drained" =>
          /\ Writing # {} => rw.writing
          /\ \A c, d \in Writing : c = d
          /\ rw.writing => Reading = {} /\ rw.woken = <<>>
          /\ WokenWriters # {} => Reading = {} /\ Len(rw.woken) = 1

IInv == Kinds /\ MutexFits /\ RWFits
-----------------------------------------------------------------------------
(* Nobody is in the empty queue.                                            *)
LEMMA EmptyQueue ==
    /\ Queued(<<>>) = {} /\ Once(<<>>) /\ Len(<<>>) = 0
    /\ \A S : <<>> \in Seq(S)
    /\ \A S : \A q \in Seq(S) : (q = <<>> <=> Queued(q) = {}) /\ (q = <<>> <=> Len(q) = 0)
<1>1. \A S : \A q \in Seq(S) : q # <<>> => 1 \in DOMAIN q /\ q[1] \in Queued(q) /\ Len(q) # 0
  <2> SUFFICES ASSUME NEW S, NEW q \in Seq(S), q # <<>>
               PROVE  1 \in DOMAIN q /\ q[1] \in Queued(q) /\ Len(q) # 0
    OBVIOUS
  <2>1. Len(q) \in Nat \ {0}
    BY EmptySeq
  <2> QED BY <2>1 DEF Queued
<1> QED BY <1>1 DEF Queued, Once

(* A client that joins a queue.                                             *)
LEMMA JoinQueue ==
    ASSUME NEW S, NEW q \in Seq(S), NEW c \in S
    PROVE  /\ Append(q, c) \in Seq(S) /\ Append(q, c) # <<>>
           /\ Queued(Append(q, c)) = Queued(q) \cup {c}
           /\ Once(q) /\ c \notin Queued(q) => Once(Append(q, c))
           /\ Len(Append(q, c)) = Len(q) + 1
<1> DEFINE out == Append(q, c)
           n == Len(q)
<1>1. /\ n \in Nat /\ DOMAIN q = 1..n /\ out \in Seq(S) /\ Len(out) = n + 1
      /\ DOMAIN out = 1..(n + 1) /\ out[n + 1] = c
  OBVIOUS
<1>2. \A i \in 1..n : out[i] = q[i]
  OBVIOUS
<1>3. out # <<>>
  BY <1>1, EmptyQueue
<1> HIDE DEF out, n
<1>4. Queued(out) = Queued(q) \cup {c}
  <2>1. ASSUME NEW x \in Queued(out) PROVE x \in Queued(q) \cup {c}
    <3>1. PICK i \in 1..(n + 1) : x = out[i]
      BY <1>1 DEF Queued
    <3>2. CASE i = n + 1
      BY <1>1, <3>1, <3>2
    <3>3. CASE i # n + 1
      <4>1. i \in 1..n
        BY <1>1, <3>3
      <4> QED BY <1>1, <1>2, <3>1, <4>1 DEF Queued
    <3> QED BY <3>2, <3>3
  <2>2. ASSUME NEW x \in Queued(q) PROVE x \in Queued(out)
    <3>1. PICK i \in 1..n : x = q[i]
      BY <1>1 DEF Queued
    <3>2. i \in DOMAIN out /\ out[i] = x
      BY <1>1, <1>2, <3>1
    <3> QED BY <3>2 DEF Queued
  <2>3. n + 1 \in DOMAIN out
    BY <1>1
  <2>4. c \in Queued(out)
    BY <1>1, <2>3 DEF Queued
  <2> QED BY <2>1, <2>2, <2>4
<1>5. ASSUME Once(q), c \notin Queued(q) PROVE Once(out)
  <2> SUFFICES ASSUME NEW i \in 1..(n + 1), NEW j \in 1..(n + 1), out[i] = out[j] PROVE i = j
    BY <1>1 DEF Once
  <2>1. \A k \in 1..n : out[k] = q[k] /\ out[k] # c
    BY <1>1, <1>2, <1>5 DEF Queued
  <2>2. CASE i \in 1..n /\ j \in 1..n
    BY <1>1, <1>5, <2>1, <2>2 DEF Once
  <2>3. CASE i = n + 1 \/ j = n + 1
    BY <1>1, <2>1, <2>3
  <2> QED BY <1>1, <2>2, <2>3
<1> QED BY <1>1, <1>3, <1>4, <1>5 DEF out, n

(* The first client leaves a queue.                                         *)
LEMMA LeaveQueue ==
    ASSUME NEW S, NEW q \in Seq(S), q # <<>>
    PROVE  /\ Head(q) \in S /\ Head(q) \in Queued(q)
           /\ Tail(q) \in Seq(S) /\ Len(Tail(q)) = Len(q) - 1
           /\ Once(q) => Once(Tail(q)) /\ Queued(Tail(q)) = Queued(q) \ {Head(q)}
<1> DEFINE out == Tail(q)
           n == Len(q)
<1>1. /\ Head(q) \in S /\ out \in Seq(S) /\ Len(out) = n - 1
      /\ \A i \in 1..Len(out) : out[i] = q[i + 1]
  BY HeadTailProperties
<1>2. n \in Nat \ {0} /\ DOMAIN q = 1..n /\ DOMAIN out = 1..(n - 1) /\ Head(q) = q[1]
  BY EmptySeq, <1>1
<1>3. Head(q) \in Queued(q)
  BY <1>2 DEF Queued
<1>4. ASSUME Once(q) PROVE Once(out) /\ Queued(out) = Queued(q) \ {Head(q)}
  <2>1. \A i \in 1..(n - 1) : i + 1 \in DOMAIN q /\ i + 1 # 1 /\ out[i] = q[i + 1]
    BY <1>1, <1>2
  <2> HIDE DEF out, n
  <2>2. Once(out)
    <3> SUFFICES ASSUME NEW i \in 1..(n - 1), NEW j \in 1..(n - 1), out[i] = out[j] PROVE i = j
      BY <1>2 DEF Once
    <3>1. i + 1 = j + 1
      BY <1>4, <2>1 DEF Once
    <3> QED BY <3>1
  <2>3. ASSUME NEW x \in Queued(out) PROVE x \in Queued(q) \ {Head(q)}
    <3>1. PICK i \in 1..(n - 1) : x = out[i]
      BY <1>2 DEF Queued
    <3>2. x = q[i + 1] /\ i + 1 \in DOMAIN q /\ i + 1 # 1 /\ 1 \in DOMAIN q
      BY <1>2, <2>1, <3>1
    <3> QED BY <1>2, <1>4, <3>2 DEF Queued, Once
  <2>4. ASSUME NEW x \in Queued(q) \ {Head(q)} PROVE x \in Queued(out)
    <3>1. PICK i \in 1..n : x = q[i]
      BY <1>2 DEF Queued
    <3>2. i # 1
      BY <1>2, <3>1
    <3>3. i - 1 \in 1..(n - 1) /\ (i - 1) + 1 = i
      BY <1>2, <3>2
    <3>4. out[i - 1] = x
      BY <2>1, <3>1, <3>3
    <3> QED BY <1>2, <3>3, <3>4 DEF Queued
  <2> QED BY <2>2, <2>3, <2>4
<1> QED BY <1>1, <1>3, <1>4

(* One queue after another.                                                 *)
LEMMA JoinQueues ==
    ASSUME NEW S, NEW q \in Seq(S), NEW r \in Seq(S)
    PROVE  /\ q \o r \in Seq(S)
           /\ Queued(q \o r) = Queued(q) \cup Queued(r)
           /\ Once(q) /\ Once(r) /\ Queued(q) \cap Queued(r) = {} => Once(q \o r)
<1> DEFINE out == q \o r
           m == Len(q)
           n == Len(r)
<1>1. /\ out \in Seq(S) /\ Len(out) = m + n
      /\ \A i \in 1..(m + n) : out[i] = IF i <= m THEN q[i] ELSE r[i - m]
  BY ConcatProperties
<1>2. /\ m \in Nat /\ n \in Nat /\ DOMAIN q = 1..m /\ DOMAIN r = 1..n
      /\ DOMAIN out = 1..(m + n)
  BY <1>1
<1> HIDE DEF out, m, n
<1>3. \A i \in 1..m : i \in DOMAIN out /\ out[i] = q[i]
  BY <1>1, <1>2
<1>4. \A i \in 1..n : m + i \in DOMAIN out /\ out[m + i] = r[i]
  <2> SUFFICES ASSUME NEW i \in 1..n PROVE m + i \in DOMAIN out /\ out[m + i] = r[i]
    OBVIOUS
  <2>1. m + i \in 1..(m + n) /\ ~(m + i <= m) /\ (m + i) - m = i
    BY <1>2
  <2> QED BY <1>1, <1>2, <2>1
<1>5. \A i \in DOMAIN out : i \in 1..m \/ \E k \in 1..n : i = m + k
  <2> SUFFICES ASSUME NEW i \in DOMAIN out, i \notin 1..m PROVE \E k \in 1..n : i = m + k
    OBVIOUS
  <2>1. i - m \in 1..n /\ i = m + (i - m)
    BY <1>2
  <2> QED BY <2>1
<1>6. Queued(out) = Queued(q) \cup Queued(r)
  <2>1. ASSUME NEW x \in Queued(out) PROVE x \in Queued(q) \cup Queued(r)
    <3>1. PICK i \in DOMAIN out : x = out[i]
      BY DEF Queued
    <3>2. CASE i \in 1..m
      BY <1>2, <1>3, <3>1, <3>2 DEF Queued
    <3>3. CASE i \notin 1..m
      <4>1. PICK k \in 1..n : i = m + k
        BY <1>5, <3>3
      <4> QED BY <1>2, <1>4, <3>1, <4>1 DEF Queued
    <3> QED BY <3>2, <3>3
  <2>2. Queued(q) \subseteq Queued(out)
    BY <1>2, <1>3 DEF Queued
  <2>3. Queued(r) \subseteq Queued(out)
    BY <1>2, <1>4 DEF Queued
  <2> QED BY <2>1, <2>2, <2>3
<1>7. ASSUME Once(q), Once(r), Queued(q) \cap Queued(r) = {} PROVE Once(out)
  <2> SUFFICES ASSUME NEW i \in DOMAIN out, NEW j \in DOMAIN out, out[i] = out[j] PROVE i = j
    BY DEF Once
  <2>1. CASE i \in 1..m /\ j \in 1..m
    BY <1>2, <1>3, <1>7, <2>1 DEF Once
  <2>2. CASE i \notin 1..m /\ j \notin 1..m
    <3>1. PICK k \in 1..n, l \in 1..n : i = m + k /\ j = m + l
      BY <1>5, <2>2
    <3>2. k = l
      BY <1>2, <1>4, <1>7, <3>1 DEF Once
    <3> QED BY <3>1, <3>2
  <2>3. \A k \in 1..m, l \in 1..n : q[k] # r[l]
    BY <1>2, <1>7 DEF Queued
  <2>4. CASE i \in 1..m /\ j \notin 1..m
    BY <1>3, <1>4, <1>5, <2>3, <2>4
  <2>5. CASE i \notin 1..m /\ j \in 1..m
    BY <1>3, <1>4, <1>5, <2>3, <2>5
  <2> QED BY <2>1, <2>2, <2>4, <2>5
<1> QED BY <1>1, <1>6, <1>7 DEF out
-----------------------------------------------------------------------------
(* The invariant holds of free locks.                                       *)
LEMMA Initially == Init => IInv
<1> SUFFICES ASSUME Init PROVE IInv
  OBVIOUS
<1>1. /\ rw = NewRWLock /\ mx = NewMutex /\ turns \in {"drained", "shared"}
      /\ pc = [c \in Client |-> "idle"]
  BY DEF Init
<1>2. Kinds
  BY <1>1, ClientsDisjoint DEF Kinds, State, Client
<1>3. MutexFits
  <2>1. \A c \in Flusher : ~InMutex(c)
    BY <1>1 DEF InMutex, Client
  <2> QED BY <1>1, <2>1, EmptyQueue DEF MutexFits, NewMutex, Mutex
<1>4. RWFits
  <2>1. Reading = {} /\ Writing = {}
    BY <1>1 DEF Reading, Writing, Client
  <2>2. IsFiniteSet({}) /\ Cardinality({}) = 0
    BY FS_EmptySet
  <2>3. rw \in RWLock
    BY <1>1, EmptyQueue DEF NewRWLock, RWLock
  <2> QED BY <1>1, <2>1, <2>2, <2>3, EmptyQueue DEF RWFits, NewRWLock, WokenWriters
<1> QED BY <1>2, <1>3, <1>4 DEF IInv

(* A step moves one client to a state that its kind has.                    *)
LEMMA Moved ==
    ASSUME Kinds, NEW c \in Client, NEW s \in State, Goto(c, s),
           c \in Reader => s \in {"idle", "readWait", "reading"},
           c \in Writer => s \in {"idle", "writeWait", "writing"},
           c \in Flusher => s \in {"idle", "mutexWait", "mutexHeld", "readWait", "reading", "readDone"}
    PROVE  /\ Kinds'
           /\ pc'[c] = s /\ \A d \in Client \ {c} : pc'[d] = pc[d]
           /\ Flusher \subseteq Client /\ Writer \subseteq Client /\ Reader \subseteq Client
           /\ turns' = turns
<1>1. pc' = [pc EXCEPT ![c] = s] /\ turns' = turns
  BY DEF Goto
<1>2. pc' \in [Client -> State] /\ pc'[c] = s /\ \A d \in Client \ {c} : pc'[d] = pc[d]
  BY <1>1 DEF Kinds
<1>3. Flusher \subseteq Client /\ Writer \subseteq Client /\ Reader \subseteq Client
  BY DEF Client
<1> QED BY <1>1, <1>2, <1>3 DEF Kinds

(* A step that leaves the mutex alone, and moves no flusher into or out of  *)
(* it.                                                                      *)
LEMMA MutexKept ==
    ASSUME MutexFits, UNCHANGED <<mx, turns>>,
           \A c \in Flusher : InMutex(c)' = InMutex(c) /\ (pc[c] = "mutexWait" => pc'[c] = "mutexWait")
    PROVE  MutexFits'
<1>1. Queued(mx.waiters) \subseteq Flusher /\ Queued(mx.woken) \subseteq Flusher
  BY DEF MutexFits, Mutex, Queued
<1> QED BY <1>1 DEF MutexFits

(* A step that leaves the read-write lock alone, and moves no client into   *)
(* or out of it, or out of its queues.                                      *)
LEMMA RWKept ==
    ASSUME RWFits, UNCHANGED <<rw, turns>>,
           \A c \in Client : /\ pc'[c] = "reading" <=> pc[c] = "reading"
                             /\ pc'[c] = "writing" <=> pc[c] = "writing"
                             /\ pc[c] \in {"readWait", "writeWait"} => pc'[c] = pc[c]
    PROVE  RWFits'
<1>1. /\ Queued(rw.writeWaiters) \subseteq Client /\ Queued(rw.readWaiters) \subseteq Client
      /\ Queued(rw.woken) \subseteq Client
  BY DEF RWFits, RWLock, Queued, Client
<1>2. Reading' = Reading /\ Writing' = Writing
  BY DEF Reading, Writing, Client
<1>3. WokenWriters' = WokenWriters
  BY DEF WokenWriters
<1> QED BY <1>1, <1>2, <1>3 DEF RWFits
-----------------------------------------------------------------------------
(* flush() calls on the mutex.                                              *)
LEMMA CallMutexStep ==
    ASSUME IInv, NEW c \in Client, CallMutex(c)
    PROVE  IInv'
<1>1. Kinds /\ MutexFits /\ RWFits /\ c \in Flusher /\ pc[c] = "idle" /\ UNCHANGED rw
  BY DEF IInv, CallMutex
<1>2. turns = "drained" => mx.woken = <<>>
  BY <1>1 DEF CallMutex, InTurn, Drained, Kinds
<1>3. c \notin Queued(mx.waiters) /\ c \notin Queued(mx.woken)
  BY <1>1 DEF MutexFits
<1>4. CASE MutexIsFree(mx)
  <2>1. mx' = [mx EXCEPT !.locked = TRUE] /\ Goto(c, "mutexHeld") /\ mx.locked = FALSE
    BY <1>1, <1>4 DEF CallMutex, MutexTake, MutexIsFree, MutexFits, Mutex
  <2>2. /\ Kinds' /\ pc'[c] = "mutexHeld" /\ \A d \in Client \ {c} : pc'[d] = pc[d]
        /\ Flusher \subseteq Client /\ Writer \subseteq Client /\ Reader \subseteq Client
        /\ turns' = turns
    BY <1>1, <2>1, Moved, ClientsDisjoint DEF State
  <2>3. RWFits'
    BY <1>1, <2>2, RWKept
  <2>4. /\ mx' \in Mutex /\ mx'.locked
        /\ mx'.waiters = mx.waiters /\ mx'.woken = mx.woken
    BY <1>1, <2>1 DEF MutexFits, Mutex
  <2>5. InMutex(c)' /\ \A d \in Flusher \ {c} : InMutex(d)' = InMutex(d)
    BY <1>1, <2>2 DEF InMutex
  <2>6. \A d \in Queued(mx.waiters) \cup Queued(mx.woken) : pc'[d] = "mutexWait"
    <3>1. Queued(mx.waiters) \subseteq Flusher /\ Queued(mx.woken) \subseteq Flusher
      BY <1>1 DEF MutexFits, Mutex, Queued
    <3> QED BY <1>1, <1>3, <2>2, <3>1 DEF MutexFits
  <2>7. turns = "drained" => \A d \in Flusher : ~InMutex(d)
    BY <1>1, <2>1 DEF MutexFits
  <2>8. MutexFits'
    BY <1>1, <1>2, <2>2, <2>4, <2>5, <2>6, <2>7, EmptyQueue DEF MutexFits
  <2> QED BY <2>2, <2>3, <2>8 DEF IInv
<1>5. CASE ~MutexIsFree(mx)
  <2>1. mx' = [mx EXCEPT !.waiters = Append(@, c)] /\ Goto(c, "mutexWait") /\ mx.locked
    BY <1>1, <1>5 DEF CallMutex, MutexQueue, MutexIsFree, MutexFits, Mutex
  <2>2. /\ Kinds' /\ pc'[c] = "mutexWait" /\ \A d \in Client \ {c} : pc'[d] = pc[d]
        /\ Flusher \subseteq Client /\ Writer \subseteq Client /\ Reader \subseteq Client
        /\ turns' = turns
    BY <1>1, <2>1, Moved, ClientsDisjoint DEF State
  <2>3. RWFits'
    BY <1>1, <2>2, RWKept
  <2>4. /\ mx' \in Mutex /\ mx'.locked = mx.locked /\ mx'.woken = mx.woken
        /\ Queued(mx'.waiters) = Queued(mx.waiters) \cup {c} /\ Once(mx'.waiters)
    <3>1. mx.waiters \in Seq(Flusher) /\ mx \in Mutex /\ Once(mx.waiters)
      BY <1>1 DEF MutexFits, Mutex
    <3>2. /\ Append(mx.waiters, c) \in Seq(Flusher) /\ Once(Append(mx.waiters, c))
          /\ Queued(Append(mx.waiters, c)) = Queued(mx.waiters) \cup {c}
      BY <1>1, <1>3, <3>1, JoinQueue
    <3>3. /\ mx' \in Mutex /\ mx'.locked = mx.locked /\ mx'.woken = mx.woken
          /\ mx'.waiters = Append(mx.waiters, c)
      BY <2>1, <3>1, <3>2 DEF Mutex
    <3> QED BY <3>2, <3>3
  <2>5. \A d \in Flusher : InMutex(d)' = InMutex(d)
    BY <1>1, <2>2 DEF InMutex
  <2>6. \A d \in Queued(mx'.waiters) \cup Queued(mx.woken) : pc'[d] = "mutexWait"
    <3>1. Queued(mx.waiters) \subseteq Flusher /\ Queued(mx.woken) \subseteq Flusher
      BY <1>1 DEF MutexFits, Mutex, Queued
    <3> QED BY <1>1, <1>3, <2>2, <2>4, <3>1 DEF MutexFits
  <2>7. MutexFits'
    BY <1>1, <1>3, <2>1, <2>2, <2>4, <2>5, <2>6 DEF MutexFits
  <2> QED BY <2>2, <2>3, <2>7 DEF IInv
<1> QED BY <1>4, <1>5

(* The release function of the mutex.                                       *)
LEMMA EndMutexStep ==
    ASSUME IInv, NEW c \in Client, EndMutex(c)
    PROVE  IInv'
<1>1. Kinds /\ MutexFits /\ RWFits /\ pc[c] = "readDone" /\ UNCHANGED rw /\ Goto(c, "idle")
  BY DEF IInv, EndMutex
<1>2. c \in Flusher /\ InMutex(c)
  BY <1>1 DEF Kinds, Client, InMutex
<1>3. turns = "drained" => mx.woken = <<>>
  BY <1>1 DEF EndMutex, InTurn, Drained, Kinds
<1>4. /\ Kinds' /\ pc'[c] = "idle" /\ \A d \in Client \ {c} : pc'[d] = pc[d]
      /\ Flusher \subseteq Client /\ Writer \subseteq Client /\ Reader \subseteq Client
      /\ turns' = turns
  BY <1>1, <1>2, Moved, ClientsDisjoint DEF State
<1>5. RWFits'
  BY <1>1, <1>4, RWKept
<1>6. ~InMutex(c)' /\ \A d \in Flusher \ {c} : InMutex(d)' = InMutex(d)
  BY <1>1, <1>4 DEF InMutex
<1>7. turns = "drained" => \A d \in Flusher : ~InMutex(d)'
  BY <1>1, <1>2, <1>6 DEF MutexFits
<1>8. Queued(mx.waiters) \subseteq Flusher \ {c} /\ Queued(mx.woken) \subseteq Flusher \ {c}
  BY <1>1 DEF MutexFits, Mutex, Queued
<1>9. \A d \in Queued(mx.waiters) \cup Queued(mx.woken) : pc'[d] = "mutexWait"
  BY <1>1, <1>4, <1>8 DEF MutexFits
<1>10. CASE mx.waiters = <<>>
  <2>1. mx' = [locked |-> FALSE, waiters |-> <<>>, woken |-> mx.woken]
    BY <1>10 DEF EndMutex, MutexRelease
  <2>2. mx' \in Mutex
    BY <1>1, <2>1, EmptyQueue DEF MutexFits, Mutex
  <2>3. mx'.waiters = <<>> /\ mx'.woken = mx.woken /\ mx'.locked = FALSE
    BY <2>1
  <2>4. MutexFits'
    BY <1>1, <1>3, <1>4, <1>7, <1>9, <2>2, <2>3, EmptyQueue DEF MutexFits
  <2> QED BY <1>4, <1>5, <2>4 DEF IInv
<1>11. CASE mx.waiters # <<>>
  <2>1. mx' = [locked |-> FALSE, waiters |-> Tail(mx.waiters), woken |-> Append(mx.woken, Head(mx.waiters))]
    BY <1>11 DEF EndMutex, MutexRelease
  <2>2. mx'.waiters = Tail(mx.waiters) /\ mx'.woken = Append(mx.woken, Head(mx.waiters)) /\ mx'.locked = FALSE
    BY <2>1
  <2>3. mx.waiters \in Seq(Flusher) /\ mx.woken \in Seq(Flusher)
    BY <1>1 DEF MutexFits, Mutex
  <2>4. /\ Head(mx.waiters) \in Flusher /\ Head(mx.waiters) \in Queued(mx.waiters)
        /\ Tail(mx.waiters) \in Seq(Flusher) /\ Once(Tail(mx.waiters))
        /\ Queued(Tail(mx.waiters)) = Queued(mx.waiters) \ {Head(mx.waiters)}
    BY <1>1, <1>11, <2>3, LeaveQueue DEF MutexFits
  <2>5. Head(mx.waiters) \notin Queued(mx.woken)
    BY <1>1, <2>4 DEF MutexFits
  <2>6. /\ mx'.woken \in Seq(Flusher) /\ mx'.woken # <<>> /\ Once(mx'.woken)
        /\ Queued(mx'.woken) = Queued(mx.woken) \cup {Head(mx.waiters)}
        /\ Len(mx'.woken) = Len(mx.woken) + 1
    BY <1>1, <2>2, <2>3, <2>4, <2>5, JoinQueue DEF MutexFits
  <2>7. mx' \in Mutex
    BY <2>1, <2>2, <2>4, <2>6 DEF Mutex
  <2>8. turns = "drained" => Len(mx'.woken) <= 1
    BY <1>3, <2>6, EmptyQueue
  <2>9. Queued(mx'.waiters) \cap Queued(mx'.woken) = {}
    BY <1>1, <2>2, <2>4, <2>6 DEF MutexFits
  <2>10. \A d \in Queued(mx'.waiters) \cup Queued(mx'.woken) : pc'[d] = "mutexWait"
    BY <1>9, <2>2, <2>4, <2>6
  <2>11. MutexFits'
    BY <1>4, <1>7, <2>2, <2>4, <2>6, <2>7, <2>8, <2>9, <2>10 DEF MutexFits
  <2> QED BY <1>4, <1>5, <2>11 DEF IInv
<1> QED BY <1>10, <1>11

(* The closure that a release of the mutex has scheduled.                   *)
LEMMA RunMutexClosureStep ==
    ASSUME IInv, RunMutexClosure, NEW c, c = Head(mx.woken)
    PROVE  IInv' /\ c \in Flusher /\ pc[c] = "mutexWait"
<1>1. /\ Kinds /\ MutexFits /\ RWFits /\ mx.woken # <<>> /\ UNCHANGED rw
      /\ Goto(c, "mutexHeld") /\ mx' = [mx EXCEPT !.locked = TRUE, !.woken = Tail(@)]
  BY DEF IInv, RunMutexClosure, MutexWake
<1>2. mx.woken \in Seq(Flusher) /\ mx.waiters \in Seq(Flusher)
  BY <1>1 DEF MutexFits, Mutex
<1>3. /\ c \in Flusher /\ c \in Queued(mx.woken)
      /\ Tail(mx.woken) \in Seq(Flusher) /\ Len(Tail(mx.woken)) = Len(mx.woken) - 1
      /\ Once(Tail(mx.woken)) /\ Queued(Tail(mx.woken)) = Queued(mx.woken) \ {c}
  BY <1>1, <1>2, LeaveQueue DEF MutexFits
<1>4. pc[c] = "mutexWait" /\ c \notin Queued(mx.waiters)
  BY <1>1, <1>3 DEF MutexFits
<1>5. /\ Kinds' /\ pc'[c] = "mutexHeld" /\ \A d \in Client \ {c} : pc'[d] = pc[d]
      /\ Flusher \subseteq Client /\ Writer \subseteq Client /\ Reader \subseteq Client
      /\ turns' = turns
  <2>1. c \in Client
    BY <1>3 DEF Client
  <2> QED BY <1>1, <1>3, <2>1, Moved, ClientsDisjoint DEF State
<1>6. RWFits'
  BY <1>1, <1>4, <1>5, RWKept
<1>7. mx' \in Mutex /\ mx'.locked /\ mx'.waiters = mx.waiters /\ mx'.woken = Tail(mx.woken)
  BY <1>1, <1>3 DEF MutexFits, Mutex
<1>8. InMutex(c)' /\ \A d \in Flusher \ {c} : InMutex(d)' = InMutex(d)
  BY <1>3, <1>5 DEF InMutex
<1>9. turns = "drained" => (\A d \in Flusher : ~InMutex(d)) /\ mx'.woken = <<>>
  <2> SUFFICES ASSUME turns = "drained" PROVE (\A d \in Flusher : ~InMutex(d)) /\ mx'.woken = <<>>
    OBVIOUS
  <2>1. \A d \in Flusher : ~InMutex(d)
    BY <1>1 DEF MutexFits
  <2>2. Len(mx.woken) <= 1 /\ Len(mx.woken) \in Nat /\ Len(mx.woken) # 0
    BY <1>1, <1>2, EmptyQueue DEF MutexFits
  <2>3. Len(mx.woken) = 1
    <3>1. \A k \in Nat : k <= 1 /\ k # 0 => k = 1
      OBVIOUS
    <3> QED BY <2>2, <3>1
  <2>4. Len(Tail(mx.woken)) = 0
    BY <1>3, <2>3
  <2> QED BY <1>3, <1>7, <2>1, <2>4, EmptyQueue
<1>10. \A d \in Queued(mx'.waiters) \cup Queued(mx'.woken) : pc'[d] = "mutexWait"
  <2>1. Queued(mx.waiters) \subseteq Flusher /\ Queued(mx.woken) \subseteq Flusher
    BY <1>2 DEF Queued
  <2> QED BY <1>1, <1>3, <1>4, <1>5, <1>7, <2>1 DEF MutexFits
<1>11. MutexFits'
  BY <1>1, <1>3, <1>5, <1>7, <1>8, <1>9, <1>10, EmptyQueue DEF MutexFits
<1> QED BY <1>3, <1>4, <1>5, <1>6, <1>11 DEF IInv
-----------------------------------------------------------------------------
(* The sets that the read-write lock part speaks of, in a typed lock.       *)
LEMMA RWTyped ==
    ASSUME RWFits
    PROVE  /\ rw \in RWLock /\ rw.readers \in Nat /\ rw.writing \in BOOLEAN
           /\ rw.writeWaiters \in Seq(Writer) /\ rw.readWaiters \in Seq(Reader \cup Flusher)
           /\ rw.woken \in Seq(Client)
           /\ Queued(rw.writeWaiters) \subseteq Writer
           /\ Queued(rw.readWaiters) \subseteq Reader \cup Flusher
           /\ Queued(rw.woken) \subseteq Client
           /\ Reader \subseteq Client /\ Flusher \subseteq Client /\ Writer \subseteq Client
           /\ (Reader \cup Flusher) \cap Writer = {}
           /\ rw.readers = 0 <=> Reading = {}
<1>1. /\ rw \in RWLock /\ rw.readers \in Nat /\ rw.writing \in BOOLEAN
      /\ rw.writeWaiters \in Seq(Writer) /\ rw.readWaiters \in Seq(Reader \cup Flusher)
      /\ rw.woken \in Seq(Client)
  BY DEF RWFits, RWLock
<1>2. rw.readers = 0 <=> Reading = {}
  BY FS_EmptySet DEF RWFits
<1>3. /\ Queued(rw.writeWaiters) \subseteq Writer
      /\ Queued(rw.readWaiters) \subseteq Reader \cup Flusher
      /\ Queued(rw.woken) \subseteq Client
  BY <1>1 DEF Queued
<1> QED BY <1>1, <1>2, <1>3, ClientsDisjoint DEF Client

(* A client starts to read: it is counted once.                             *)
LEMMA StartsReading ==
    ASSUME RWFits, NEW c \in Client \ Writer, pc[c] # "reading", pc'[c] = "reading",
           \A d \in Client \ {c} : pc'[d] = pc[d]
    PROVE  /\ Reading' = Reading \cup {c} /\ IsFiniteSet(Reading')
           /\ Cardinality(Reading') = rw.readers + 1
           /\ Writing' = Writing
<1>1. Reading' = Reading \cup {c} /\ c \notin Reading
  BY DEF Reading
<1>2. Writing' = Writing
  BY RWTyped DEF Writing
<1>3. IsFiniteSet(Reading) /\ rw.readers = Cardinality(Reading)
  BY DEF RWFits
<1>4. IsFiniteSet(Reading') /\ Cardinality(Reading') = rw.readers + 1
  BY <1>1, <1>3, FS_AddElement
<1> QED BY <1>1, <1>2, <1>4

(* withReadLock calls on the lock.                                          *)
LEMMA CallReadStep ==
    ASSUME IInv, NEW c \in Client, CallRead(c)
    PROVE  IInv'
<1>1. /\ Kinds /\ MutexFits /\ RWFits /\ UNCHANGED mx
      /\ \/ c \in Reader /\ pc[c] = "idle"
         \/ c \in Flusher /\ pc[c] = "mutexHeld"
  BY DEF IInv, CallRead
<1>2. turns = "drained" => rw.woken = <<>>
  BY <1>1 DEF CallRead, InTurn, Drained, Kinds
<1>3. /\ c \notin Queued(rw.writeWaiters) /\ c \notin Queued(rw.readWaiters)
      /\ c \notin Queued(rw.woken) /\ c \in Reader \cup Flusher /\ c \notin Writer
  BY <1>1, RWTyped DEF RWFits
<1>4. ASSUME NEW s \in {"reading", "readWait"}, Goto(c, s)
      PROVE  /\ Kinds' /\ MutexFits' /\ pc'[c] = s /\ \A d \in Client \ {c} : pc'[d] = pc[d]
             /\ turns' = turns
  <2>1. /\ Kinds' /\ pc'[c] = s /\ \A d \in Client \ {c} : pc'[d] = pc[d]
        /\ Flusher \subseteq Client /\ Writer \subseteq Client /\ Reader \subseteq Client
        /\ turns' = turns
    BY <1>1, <1>3, <1>4, Moved DEF State
  <2>2. \A d \in Flusher : InMutex(d)' = InMutex(d) /\ (pc[d] = "mutexWait" => pc'[d] = "mutexWait")
    BY <1>1, <2>1, ClientsDisjoint DEF InMutex
  <2>3. MutexFits'
    BY <1>1, <2>1, <2>2, MutexKept
  <2> QED BY <2>1, <2>3
<1>5. CASE ReadIsFree(rw)
  <2>1. rw' = [rw EXCEPT !.readers = @ + 1] /\ Goto(c, "reading") /\ rw.writing = FALSE
    BY <1>1, <1>5, RWTyped DEF CallRead, ReadTake, ReadIsFree
  <2>2. /\ Kinds' /\ MutexFits' /\ pc'[c] = "reading" /\ \A d \in Client \ {c} : pc'[d] = pc[d]
        /\ turns' = turns
    BY <1>4, <2>1
  <2>3. /\ rw'.readers = rw.readers + 1 /\ rw'.writing = rw.writing
        /\ rw'.writeWaiters = rw.writeWaiters /\ rw'.readWaiters = rw.readWaiters
        /\ rw'.woken = rw.woken /\ rw' \in RWLock
    <3>1. rw \in RWLock /\ rw.readers + 1 \in Nat
      BY <1>1, RWTyped
    <3> QED BY <2>1, <3>1 DEF RWLock
  <2>4. /\ Reading' = Reading \cup {c} /\ IsFiniteSet(Reading')
        /\ Cardinality(Reading') = rw.readers + 1 /\ Writing' = Writing
    BY <1>1, <1>3, <2>2, StartsReading
  <2>5. /\ \A d \in Queued(rw.writeWaiters) : pc'[d] = "writeWait"
        /\ \A d \in Queued(rw.readWaiters) : pc'[d] = "readWait"
        /\ \A d \in Queued(rw.woken) : pc'[d] \in {"readWait", "writeWait"}
    BY <1>1, <1>3, <2>2, RWTyped, SMTT(30) DEF RWFits
  <2>6. turns = "drained" => Writing = {} /\ WokenWriters' = {}
    BY <1>1, <1>2, <2>1, <2>3, EmptyQueue DEF RWFits, WokenWriters
  <2>7. WokenWriters' = WokenWriters
    BY <2>3 DEF WokenWriters
  <2>8. RWFits'
    BY <1>1, <1>2, <2>1, <2>2, <2>3, <2>4, <2>5, <2>6, <2>7 DEF RWFits
  <2> QED BY <2>2, <2>8 DEF IInv
<1>6. CASE ~ReadIsFree(rw)
  <2>1. /\ rw' = [rw EXCEPT !.readWaiters = Append(@, c)] /\ Goto(c, "readWait")
        /\ rw.writing \/ rw.writeWaiters # <<>>
    BY <1>1, <1>6 DEF CallRead, ReadQueue, ReadIsFree
  <2>2. /\ Kinds' /\ MutexFits' /\ pc'[c] = "readWait" /\ \A d \in Client \ {c} : pc'[d] = pc[d]
        /\ turns' = turns
    BY <1>4, <2>1
  <2>3. /\ Append(rw.readWaiters, c) \in Seq(Reader \cup Flusher) /\ Once(Append(rw.readWaiters, c))
        /\ Queued(Append(rw.readWaiters, c)) = Queued(rw.readWaiters) \cup {c}
    <3>1. rw.readWaiters \in Seq(Reader \cup Flusher) /\ Once(rw.readWaiters)
      BY <1>1, RWTyped DEF RWFits
    <3> QED BY <1>3, <3>1, JoinQueue
  <2>4. /\ rw'.readers = rw.readers /\ rw'.writing = rw.writing
        /\ rw'.writeWaiters = rw.writeWaiters /\ rw'.readWaiters = Append(rw.readWaiters, c)
        /\ rw'.woken = rw.woken /\ rw' \in RWLock
    BY <1>1, <2>1, <2>3, RWTyped DEF RWLock
  <2>5. Reading' = Reading /\ Writing' = Writing /\ WokenWriters' = WokenWriters
    BY <1>1, <1>3, <2>2, <2>4, RWTyped DEF Reading, Writing, WokenWriters
  <2>6. /\ \A d \in Queued(rw.writeWaiters) : pc'[d] = "writeWait"
        /\ \A d \in Queued(rw.readWaiters) : pc'[d] = "readWait"
        /\ \A d \in Queued(rw.woken) : pc'[d] \in {"readWait", "writeWait"}
    BY <1>1, <1>3, <2>2, RWTyped, SMTT(30) DEF RWFits
  <2>9. \A d \in Queued(rw'.readWaiters) : pc'[d] = "readWait"
    BY <2>2, <2>3, <2>4, <2>6
  <2>7. RWFits'
    BY <1>1, <1>3, <2>1, <2>2, <2>3, <2>4, <2>5, <2>6, <2>9 DEF RWFits
  <2> QED BY <2>2, <2>7 DEF IInv
<1> QED BY <1>5, <1>6

(* compact() calls on the lock.                                             *)
LEMMA CallWriteStep ==
    ASSUME IInv, NEW c \in Client, CallWrite(c)
    PROVE  IInv'
<1>1. /\ Kinds /\ MutexFits /\ RWFits /\ UNCHANGED mx /\ c \in Writer /\ pc[c] = "idle"
  BY DEF IInv, CallWrite
<1>2. turns = "drained" => rw.woken = <<>>
  BY <1>1 DEF CallWrite, InTurn, Drained, Kinds
<1>3. /\ c \notin Queued(rw.writeWaiters) /\ c \notin Queued(rw.readWaiters)
      /\ c \notin Queued(rw.woken) /\ c \notin Reader \cup Flusher
  BY <1>1, RWTyped DEF RWFits
<1>4. ASSUME NEW s \in {"writing", "writeWait"}, Goto(c, s)
      PROVE  /\ Kinds' /\ MutexFits' /\ pc'[c] = s /\ \A d \in Client \ {c} : pc'[d] = pc[d]
             /\ turns' = turns /\ Reading' = Reading
  <2>1. /\ Kinds' /\ pc'[c] = s /\ \A d \in Client \ {c} : pc'[d] = pc[d]
        /\ Flusher \subseteq Client /\ Writer \subseteq Client /\ Reader \subseteq Client
        /\ turns' = turns
    BY <1>1, <1>3, <1>4, Moved DEF State
  <2>2. \A d \in Flusher : InMutex(d)' = InMutex(d) /\ (pc[d] = "mutexWait" => pc'[d] = "mutexWait")
    BY <1>1, <2>1, ClientsDisjoint DEF InMutex
  <2>3. MutexFits'
    BY <1>1, <2>1, <2>2, MutexKept
  <2>4. Reading' = Reading
    BY <1>1, <2>1 DEF Reading
  <2> QED BY <2>1, <2>3, <2>4
<1>5. CASE WriteIsFree(rw)
  <2>1. /\ rw' = [rw EXCEPT !.writing = TRUE] /\ Goto(c, "writing") /\ rw.writing = FALSE
        /\ Reading = {}
    BY <1>1, <1>5, RWTyped DEF CallWrite, WriteTake, WriteIsFree
  <2>2. /\ Kinds' /\ MutexFits' /\ pc'[c] = "writing" /\ \A d \in Client \ {c} : pc'[d] = pc[d]
        /\ turns' = turns /\ Reading' = Reading
    BY <1>4, <2>1
  <2>3. /\ rw'.readers = rw.readers /\ rw'.writing = TRUE
        /\ rw'.writeWaiters = rw.writeWaiters /\ rw'.readWaiters = rw.readWaiters
        /\ rw'.woken = rw.woken /\ rw' \in RWLock
    BY <1>1, <2>1, RWTyped DEF RWLock
  <2>4. Writing' = Writing \cup {c} /\ WokenWriters' = WokenWriters
    BY <1>1, <2>2, <2>3, RWTyped DEF Writing, WokenWriters
  <2>5. /\ \A d \in Queued(rw.writeWaiters) : pc'[d] = "writeWait"
        /\ \A d \in Queued(rw.readWaiters) : pc'[d] = "readWait"
        /\ \A d \in Queued(rw.woken) : pc'[d] \in {"readWait", "writeWait"}
    BY <1>1, <1>3, <2>2, RWTyped, SMTT(30) DEF RWFits
  <2>6. turns = "drained" => Writing = {} /\ WokenWriters' = {}
    BY <1>1, <1>2, <2>1, <2>3, EmptyQueue DEF RWFits, WokenWriters
  <2>7. RWFits'
    BY <1>1, <1>2, <2>1, <2>2, <2>3, <2>4, <2>5, <2>6 DEF RWFits
  <2> QED BY <2>2, <2>7 DEF IInv
<1>6. CASE ~WriteIsFree(rw)
  <2>1. /\ rw' = [rw EXCEPT !.writeWaiters = Append(@, c)] /\ Goto(c, "writeWait")
        /\ rw.writing \/ Reading # {}
    BY <1>1, <1>6, RWTyped DEF CallWrite, WriteQueue, WriteIsFree
  <2>2. /\ Kinds' /\ MutexFits' /\ pc'[c] = "writeWait" /\ \A d \in Client \ {c} : pc'[d] = pc[d]
        /\ turns' = turns /\ Reading' = Reading
    BY <1>4, <2>1
  <2>3. /\ Append(rw.writeWaiters, c) \in Seq(Writer) /\ Once(Append(rw.writeWaiters, c))
        /\ Append(rw.writeWaiters, c) # <<>>
        /\ Queued(Append(rw.writeWaiters, c)) = Queued(rw.writeWaiters) \cup {c}
    <3>1. rw.writeWaiters \in Seq(Writer) /\ Once(rw.writeWaiters)
      BY <1>1, RWTyped DEF RWFits
    <3> QED BY <1>1, <1>3, <3>1, JoinQueue
  <2>4. /\ rw'.readers = rw.readers /\ rw'.writing = rw.writing
        /\ rw'.writeWaiters = Append(rw.writeWaiters, c) /\ rw'.readWaiters = rw.readWaiters
        /\ rw'.woken = rw.woken /\ rw' \in RWLock
    BY <1>1, <2>1, <2>3, RWTyped DEF RWLock
  <2>5. Writing' = Writing /\ WokenWriters' = WokenWriters
    BY <1>1, <2>2, <2>4, RWTyped DEF Writing, WokenWriters
  <2>6. /\ \A d \in Queued(rw.writeWaiters) : pc'[d] = "writeWait"
        /\ \A d \in Queued(rw.readWaiters) : pc'[d] = "readWait"
        /\ \A d \in Queued(rw.woken) : pc'[d] \in {"readWait", "writeWait"}
    BY <1>1, <1>3, <2>2, RWTyped, SMTT(30) DEF RWFits
  <2>9. \A d \in Queued(rw'.writeWaiters) : pc'[d] = "writeWait"
    BY <2>2, <2>3, <2>4, <2>6
  <2>7. rw.writing => Writing # {}
    BY <1>1 DEF RWFits
  <2>8. RWFits'
    BY <1>1, <1>3, <2>1, <2>2, <2>3, <2>4, <2>5, <2>6, <2>7, <2>9 DEF RWFits
  <2> QED BY <2>2, <2>8 DEF IInv
<1> QED BY <1>5, <1>6

(* The release function of a read lock: the last reader schedules a writer. *)
LEMMA EndReadStep ==
    ASSUME IInv, NEW c \in Client, EndRead(c)
    PROVE  IInv'
<1>1. /\ Kinds /\ MutexFits /\ RWFits /\ UNCHANGED mx /\ pc[c] = "reading"
      /\ Goto(c, IF c \in Flusher THEN "readDone" ELSE "idle")
  BY DEF IInv, EndRead
<1>2. turns = "drained" => rw.woken = <<>>
  BY <1>1 DEF EndRead, InTurn, Drained, Kinds
<1>3. /\ c \notin Queued(rw.writeWaiters) /\ c \notin Queued(rw.readWaiters)
      /\ c \notin Queued(rw.woken) /\ c \notin Writer
  BY <1>1 DEF RWFits, Kinds
<1>4. /\ Kinds' /\ pc'[c] \in {"readDone", "idle"} /\ \A d \in Client \ {c} : pc'[d] = pc[d]
      /\ turns' = turns /\ (c \in Flusher => pc'[c] = "readDone")
  <2>1. CASE c \in Flusher
    BY <1>1, <1>3, <2>1, Moved, ClientsDisjoint DEF State
  <2>2. CASE c \notin Flusher
    BY <1>1, <1>3, <2>2, Moved DEF State
  <2> QED BY <2>1, <2>2
<1>5. MutexFits'
  <2>1. \A d \in Flusher : InMutex(d)' = InMutex(d) /\ (pc[d] = "mutexWait" => pc'[d] = "mutexWait")
    BY <1>1, <1>4, RWTyped DEF InMutex
  <2> QED BY <1>1, <1>4, <2>1, MutexKept
<1>6. /\ Reading' = Reading \ {c} /\ IsFiniteSet(Reading') /\ Writing' = Writing
      /\ Cardinality(Reading') = rw.readers - 1 /\ rw.readers - 1 \in Nat
      /\ rw.readers - 1 = 0 <=> Reading' = {}
  <2>1. Reading' = Reading \ {c} /\ c \in Reading /\ Writing' = Writing
    BY <1>1, <1>3, <1>4, RWTyped DEF Reading, Writing
  <2>2. IsFiniteSet(Reading) /\ rw.readers = Cardinality(Reading)
    BY <1>1 DEF RWFits
  <2>3. IsFiniteSet(Reading') /\ Cardinality(Reading') = rw.readers - 1
    BY <2>1, <2>2, FS_RemoveElement
  <2>4. Cardinality(Reading') \in Nat /\ (Cardinality(Reading') = 0 <=> Reading' = {})
    BY <2>3, FS_EmptySet, FS_CardinalityType
  <2> QED BY <2>1, <2>3, <2>4
<1>7. /\ \A d \in Queued(rw.writeWaiters) : pc'[d] = "writeWait"
      /\ \A d \in Queued(rw.readWaiters) : pc'[d] = "readWait"
      /\ \A d \in Queued(rw.woken) : pc'[d] \in {"readWait", "writeWait"}
  BY <1>1, <1>3, <1>4, RWTyped, SMTT(30) DEF RWFits
<1>8. rw \in RWLock /\ rw.writing \in BOOLEAN /\ [rw EXCEPT !.readers = @ - 1] \in RWLock
  BY <1>1, <1>6, RWTyped DEF RWLock
<1>9. CASE rw.readers - 1 = 0 /\ rw.writeWaiters # <<>>
  <2>1. /\ Head(rw.writeWaiters) \in Writer /\ Head(rw.writeWaiters) \in Queued(rw.writeWaiters)
        /\ Tail(rw.writeWaiters) \in Seq(Writer) /\ Once(Tail(rw.writeWaiters))
        /\ Queued(Tail(rw.writeWaiters)) = Queued(rw.writeWaiters) \ {Head(rw.writeWaiters)}
    <3>1. rw.writeWaiters \in Seq(Writer) /\ Once(rw.writeWaiters)
      BY <1>1, RWTyped DEF RWFits
    <3> QED BY <1>9, <3>1, LeaveQueue
  <2>2. Head(rw.writeWaiters) \in Client /\ Head(rw.writeWaiters) \notin Queued(rw.woken)
    BY <1>1, <2>1, RWTyped DEF RWFits
  <2>3. /\ Append(rw.woken, Head(rw.writeWaiters)) \in Seq(Client)
        /\ Append(rw.woken, Head(rw.writeWaiters)) # <<>>
        /\ Once(Append(rw.woken, Head(rw.writeWaiters)))
        /\ Queued(Append(rw.woken, Head(rw.writeWaiters))) = Queued(rw.woken) \cup {Head(rw.writeWaiters)}
        /\ Len(Append(rw.woken, Head(rw.writeWaiters))) = Len(rw.woken) + 1
    <3>1. rw.woken \in Seq(Client) /\ Once(rw.woken)
      BY <1>1, RWTyped DEF RWFits
    <3> QED BY <2>2, <3>1, JoinQueue
  <2>4. /\ rw'.readers = rw.readers - 1 /\ rw'.writing = rw.writing
        /\ rw'.writeWaiters = Tail(rw.writeWaiters) /\ rw'.readWaiters = rw.readWaiters
        /\ rw'.woken = Append(rw.woken, Head(rw.writeWaiters)) /\ rw' \in RWLock
    <3>1. rw' = WakeWriter([rw EXCEPT !.readers = @ - 1])
      BY <1>1, <1>8, <1>9 DEF EndRead, ReadRelease, RWLock
    <3> QED BY <1>8, <2>1, <2>3, <3>1 DEF WakeWriter, RWLock
  <2>5. Head(rw.writeWaiters) \in WokenWriters' /\ WokenWriters' # {}
    BY <2>1, <2>3, <2>4 DEF WokenWriters
  <2>6. /\ Queued(rw'.writeWaiters) \cap Queued(rw'.woken) = {}
        /\ Queued(rw'.readWaiters) \cap Queued(rw'.woken) = {}
    BY <1>1, <2>1, <2>3, <2>4, RWTyped, SMTT(30) DEF RWFits
  <2>7. /\ \A d \in Queued(rw'.writeWaiters) : pc'[d] = "writeWait"
        /\ \A d \in Queued(rw'.woken) : pc'[d] \in {"readWait", "writeWait"}
    BY <1>7, <2>1, <2>3, <2>4
  <2>8. turns = "drained" => ~rw.writing /\ Len(rw'.woken) = 1
    <3>1. Reading # {}
      BY <1>1 DEF Reading
    <3> QED BY <1>1, <1>2, <2>3, <2>4, <3>1, EmptyQueue DEF RWFits
  <2>9. /\ rw'.writing => Writing' # {}
        /\ turns' = "drained" =>
              /\ Writing' # {} => rw'.writing
              /\ \A d, e \in Writing' : d = e
              /\ rw'.writing => Reading' = {} /\ rw'.woken = <<>>
              /\ WokenWriters' # {} => Reading' = {} /\ Len(rw'.woken) = 1
    BY <1>1, <1>4, <1>6, <1>9, <2>4, <2>8 DEF RWFits
  <2>10. Once(rw'.readWaiters)
    BY <1>1, <2>4 DEF RWFits
  <2>11. RWFits'
    BY <1>6, <1>7, <2>1, <2>3, <2>4, <2>5, <2>6, <2>7, <2>9, <2>10 DEF RWFits
  <2> QED BY <1>4, <1>5, <2>11 DEF IInv
<1>10. CASE ~(rw.readers - 1 = 0 /\ rw.writeWaiters # <<>>)
  <2>1. /\ rw'.readers = rw.readers - 1 /\ rw'.writing = rw.writing
        /\ rw'.writeWaiters = rw.writeWaiters /\ rw'.readWaiters = rw.readWaiters
        /\ rw'.woken = rw.woken /\ rw' \in RWLock
    <3>1. rw' = [rw EXCEPT !.readers = @ - 1]
      BY <1>1, <1>8, <1>10 DEF EndRead, ReadRelease, RWLock
    <3> QED BY <1>8, <3>1 DEF RWLock
  <2>2. WokenWriters' = WokenWriters
    BY <2>1 DEF WokenWriters
  <2>3. turns = "drained" => WokenWriters' = {}
    BY <1>2, <2>2, EmptyQueue DEF WokenWriters
  <2>4. rw'.writeWaiters # <<>> => Reading' # {}
    BY <1>6, <1>10, <2>1
  <2>5. RWFits'
    BY <1>1, <1>4, <1>6, <1>7, <2>1, <2>2, <2>3, <2>4 DEF RWFits
  <2> QED BY <1>4, <1>5, <2>5 DEF IInv
<1> QED BY <1>9, <1>10

(* The release function of a write lock: the next writer, else every reader *)
(* that queued.                                                             *)
LEMMA EndWriteStep ==
    ASSUME IInv, NEW c \in Client, EndWrite(c)
    PROVE  IInv'
<1>1. /\ Kinds /\ MutexFits /\ RWFits /\ UNCHANGED mx /\ pc[c] = "writing" /\ Goto(c, "idle")
  BY DEF IInv, EndWrite
<1>2. turns = "drained" => rw.woken = <<>>
  BY <1>1 DEF EndWrite, InTurn, Drained, Kinds
<1>3. /\ c \notin Queued(rw.writeWaiters) /\ c \notin Queued(rw.readWaiters)
      /\ c \notin Queued(rw.woken) /\ c \in Writer /\ c \notin Flusher /\ c \notin Reader
  BY <1>1, ClientsDisjoint DEF RWFits, Kinds, Client
<1>4. /\ Kinds' /\ pc'[c] = "idle" /\ \A d \in Client \ {c} : pc'[d] = pc[d]
      /\ turns' = turns
  BY <1>1, <1>3, Moved DEF State
<1>5. MutexFits'
  <2>1. \A d \in Flusher : InMutex(d)' = InMutex(d) /\ (pc[d] = "mutexWait" => pc'[d] = "mutexWait")
    BY <1>1, <1>3, <1>4, RWTyped DEF InMutex
  <2> QED BY <1>1, <1>4, <2>1, MutexKept
<1>6. Reading' = Reading /\ Writing' = Writing \ {c} /\ c \in Writing
  BY <1>1, <1>3, <1>4, RWTyped DEF Reading, Writing
<1>7. turns = "drained" => Writing' = {} /\ Reading = {}
  BY <1>1, <1>6 DEF RWFits
<1>8. /\ \A d \in Queued(rw.writeWaiters) : pc'[d] = "writeWait"
      /\ \A d \in Queued(rw.readWaiters) : pc'[d] = "readWait"
      /\ \A d \in Queued(rw.woken) : pc'[d] \in {"readWait", "writeWait"}
  BY <1>1, <1>3, <1>4, RWTyped, SMTT(30) DEF RWFits
<1>9. /\ rw \in RWLock /\ [rw EXCEPT !.writing = FALSE] \in RWLock
      /\ Once(rw.woken) /\ rw.woken \in Seq(Client)
  BY <1>1, RWTyped DEF RWLock, RWFits
<1>10. CASE rw.writeWaiters # <<>>
  <2>1. /\ Head(rw.writeWaiters) \in Writer /\ Head(rw.writeWaiters) \in Queued(rw.writeWaiters)
        /\ Tail(rw.writeWaiters) \in Seq(Writer) /\ Once(Tail(rw.writeWaiters))
        /\ Queued(Tail(rw.writeWaiters)) = Queued(rw.writeWaiters) \ {Head(rw.writeWaiters)}
    <3>1. rw.writeWaiters \in Seq(Writer) /\ Once(rw.writeWaiters)
      BY <1>1, RWTyped DEF RWFits
    <3> QED BY <1>10, <3>1, LeaveQueue
  <2>2. Head(rw.writeWaiters) \in Client /\ Head(rw.writeWaiters) \notin Queued(rw.woken)
    BY <1>1, <2>1, RWTyped DEF RWFits
  <2>3. /\ Append(rw.woken, Head(rw.writeWaiters)) \in Seq(Client)
        /\ Append(rw.woken, Head(rw.writeWaiters)) # <<>>
        /\ Once(Append(rw.woken, Head(rw.writeWaiters)))
        /\ Queued(Append(rw.woken, Head(rw.writeWaiters))) = Queued(rw.woken) \cup {Head(rw.writeWaiters)}
        /\ Len(Append(rw.woken, Head(rw.writeWaiters))) = Len(rw.woken) + 1
    BY <1>9, <2>2, JoinQueue
  <2>4. /\ rw'.readers = rw.readers /\ rw'.writing = FALSE
        /\ rw'.writeWaiters = Tail(rw.writeWaiters) /\ rw'.readWaiters = rw.readWaiters
        /\ rw'.woken = Append(rw.woken, Head(rw.writeWaiters)) /\ rw' \in RWLock
    <3>1. rw' = WakeWriter([rw EXCEPT !.writing = FALSE])
      BY <1>1, <1>9, <1>10 DEF EndWrite, WriteRelease, RWLock
    <3> QED BY <1>9, <2>1, <2>3, <3>1 DEF WakeWriter, RWLock
  <2>5. Head(rw.writeWaiters) \in WokenWriters' /\ WokenWriters' # {}
    BY <2>1, <2>3, <2>4 DEF WokenWriters
  <2>6. /\ Queued(rw'.writeWaiters) \cap Queued(rw'.woken) = {}
        /\ Queued(rw'.readWaiters) \cap Queued(rw'.woken) = {}
    BY <1>1, <2>1, <2>3, <2>4, RWTyped DEF RWFits
  <2>7. /\ \A d \in Queued(rw'.writeWaiters) : pc'[d] = "writeWait"
        /\ \A d \in Queued(rw'.woken) : pc'[d] \in {"readWait", "writeWait"}
    BY <1>8, <2>1, <2>3, <2>4
  <2>8. turns = "drained" => Len(rw'.woken) = 1
    BY <1>2, <2>3, <2>4, EmptyQueue
  <2>9. /\ Once(rw'.readWaiters) /\ IsFiniteSet(Reading') /\ rw'.readers = Cardinality(Reading')
    BY <1>1, <1>6, <2>4 DEF RWFits
  <2>10. RWFits'
    BY <1>4, <1>6, <1>7, <1>8, <2>1, <2>3, <2>4, <2>5, <2>6, <2>7, <2>8, <2>9 DEF RWFits
  <2> QED BY <1>4, <1>5, <2>10 DEF IInv
<1>11. CASE rw.writeWaiters = <<>>
  <2>1. rw.readWaiters \in Seq(Client) /\ Once(rw.readWaiters) /\ Queued(rw.woken) \cap Queued(rw.readWaiters) = {}
    <3>1. rw.readWaiters \in Seq(Reader \cup Flusher)
      BY <1>1, RWTyped
    <3>2. rw.readWaiters \in Seq(Client)
      BY <3>1 DEF Client
    <3> QED BY <1>1, <3>2 DEF RWFits
  <2>2. /\ rw.woken \o rw.readWaiters \in Seq(Client) /\ Once(rw.woken \o rw.readWaiters)
        /\ Queued(rw.woken \o rw.readWaiters) = Queued(rw.woken) \cup Queued(rw.readWaiters)
    BY <1>9, <2>1, JoinQueues
  <2>3. /\ rw'.readers = rw.readers /\ rw'.writing = FALSE
        /\ rw'.writeWaiters = rw.writeWaiters /\ rw'.readWaiters = <<>>
        /\ rw'.woken = rw.woken \o rw.readWaiters /\ rw' \in RWLock
    <3>1. rw' = [[rw EXCEPT !.writing = FALSE] EXCEPT !.readWaiters = <<>>, !.woken = @ \o rw.readWaiters]
      BY <1>1, <1>9, <1>11 DEF EndWrite, WriteRelease, RWLock
    <3>2. <<>> \in Seq(Reader \cup Flusher)
      BY EmptyQueue
    <3> QED BY <1>9, <2>2, <3>1, <3>2 DEF RWLock
  <2>4. \A d \in Queued(rw'.woken) : pc'[d] \in {"readWait", "writeWait"}
    BY <1>8, <2>2, <2>3
  <2>5. turns = "drained" => WokenWriters' = {}
    <3>1. turns = "drained" => Queued(rw'.woken) = Queued(rw.readWaiters)
      BY <1>2, <2>2, <2>3, EmptyQueue
    <3> QED BY <1>1, <3>1, RWTyped DEF WokenWriters
  <2>6. /\ IsFiniteSet(Reading') /\ rw'.readers = Cardinality(Reading')
    BY <1>1, <1>6, <2>3 DEF RWFits
  <2>7. /\ Queued(rw'.writeWaiters) = {} /\ Queued(rw'.readWaiters) = {}
        /\ Once(rw'.writeWaiters) /\ Once(rw'.readWaiters)
    BY <1>11, <2>3, EmptyQueue
  <2>8. RWFits'
    BY <1>4, <1>6, <1>7, <1>11, <2>2, <2>3, <2>4, <2>5, <2>6, <2>7 DEF RWFits
  <2> QED BY <1>4, <1>5, <2>8 DEF IInv
<1> QED BY <1>10, <1>11

(* A closure that acquireRead queued: the reader goes in.                   *)
LEMMA RunReadClosureStep ==
    ASSUME IInv, RunReadClosure, NEW c, c = Head(rw.woken)
    PROVE  /\ IInv' /\ c \in Client \ Writer /\ pc[c] = "readWait"
           /\ turns = "drained" => Writing = {}
<1>1. /\ Kinds /\ MutexFits /\ RWFits /\ rw.woken # <<>> /\ c \notin Writer /\ UNCHANGED mx
      /\ Goto(c, "reading") /\ rw' = [rw EXCEPT !.readers = @ + 1, !.woken = Tail(@)]
  BY DEF IInv, RunReadClosure, ReadWake
<1>2. /\ c \in Client /\ c \in Queued(rw.woken)
      /\ Tail(rw.woken) \in Seq(Client) /\ Len(Tail(rw.woken)) = Len(rw.woken) - 1
      /\ Once(Tail(rw.woken)) /\ Queued(Tail(rw.woken)) = Queued(rw.woken) \ {c}
  <2>1. rw.woken \in Seq(Client) /\ Once(rw.woken)
    BY <1>1, RWTyped DEF RWFits
  <2> QED BY <1>1, <2>1, LeaveQueue
<1>3. pc[c] = "readWait" /\ c \notin Queued(rw.writeWaiters) /\ c \notin Queued(rw.readWaiters)
  <2>1. pc[c] \in {"readWait", "writeWait"} /\ c \notin Queued(rw.writeWaiters) /\ c \notin Queued(rw.readWaiters)
    BY <1>1, <1>2 DEF RWFits
  <2> QED BY <1>1, <1>2, <2>1 DEF Kinds, Client
<1>4. /\ Kinds' /\ pc'[c] = "reading" /\ \A d \in Client \ {c} : pc'[d] = pc[d]
      /\ turns' = turns
  <2>1. c \in Reader \cup Flusher
    BY <1>1, <1>2 DEF Client
  <2> QED BY <1>1, <1>2, <2>1, Moved DEF State
<1>5. MutexFits'
  <2>1. \A d \in Flusher : InMutex(d)' = InMutex(d) /\ (pc[d] = "mutexWait" => pc'[d] = "mutexWait")
    BY <1>1, <1>3, <1>4, RWTyped DEF InMutex
  <2> QED BY <1>1, <1>4, <2>1, MutexKept
<1>6. /\ Reading' = Reading \cup {c} /\ IsFiniteSet(Reading')
      /\ Cardinality(Reading') = rw.readers + 1 /\ Writing' = Writing
  BY <1>1, <1>2, <1>3, <1>4, StartsReading
<1>7. /\ rw'.readers = rw.readers + 1 /\ rw'.writing = rw.writing
      /\ rw'.writeWaiters = rw.writeWaiters /\ rw'.readWaiters = rw.readWaiters
      /\ rw'.woken = Tail(rw.woken) /\ rw' \in RWLock
  <2>1. rw \in RWLock /\ rw.readers + 1 \in Nat
    BY <1>1, RWTyped
  <2> QED BY <1>1, <1>2, <2>1 DEF RWLock
<1>8. WokenWriters' = WokenWriters
  BY <1>1, <1>2, <1>7 DEF WokenWriters
<1>9. turns = "drained" => ~rw.writing /\ Writing = {} /\ WokenWriters = {}
  <2> SUFFICES ASSUME turns = "drained" PROVE ~rw.writing /\ Writing = {} /\ WokenWriters = {}
    OBVIOUS
  <2>1. ~rw.writing /\ Writing = {}
    BY <1>1 DEF RWFits
  <2>2. ASSUME WokenWriters # {} PROVE FALSE
    <3>1. Len(rw.woken) = 1
      BY <1>1, <2>2 DEF RWFits
    <3>2. Len(Tail(rw.woken)) = 0
      BY <1>2, <3>1
    <3>3. Queued(Tail(rw.woken)) = {}
      BY <1>2, <3>2, EmptyQueue
    <3> QED BY <1>1, <1>2, <2>2, <3>3 DEF WokenWriters
  <2> QED BY <2>1, <2>2
<1>10. /\ \A d \in Queued(rw.writeWaiters) : pc'[d] = "writeWait"
       /\ \A d \in Queued(rw.readWaiters) : pc'[d] = "readWait"
       /\ \A d \in Queued(rw'.woken) : pc'[d] \in {"readWait", "writeWait"}
       /\ Queued(rw'.woken) \subseteq Queued(rw.woken)
  BY <1>1, <1>2, <1>3, <1>4, <1>7, RWTyped, ZenonT(60) DEF RWFits
<1>11. RWFits'
  BY <1>1, <1>2, <1>4, <1>6, <1>7, <1>8, <1>9, <1>10 DEF RWFits
<1> QED BY <1>1, <1>2, <1>3, <1>4, <1>5, <1>9, <1>11 DEF IInv

(* A closure that acquireWrite queued: the writer goes in.                  *)
LEMMA RunWriteClosureStep ==
    ASSUME IInv, RunWriteClosure, NEW c, c = Head(rw.woken)
    PROVE  /\ IInv' /\ c \in Writer /\ pc[c] = "writeWait"
           /\ turns = "drained" => Reading = {} /\ Writing = {}
<1>1. /\ Kinds /\ MutexFits /\ RWFits /\ rw.woken # <<>> /\ c \in Writer /\ UNCHANGED mx
      /\ Goto(c, "writing") /\ rw' = [rw EXCEPT !.writing = TRUE, !.woken = Tail(@)]
  BY DEF IInv, RunWriteClosure, WriteWake
<1>2. /\ c \in Client /\ c \in Queued(rw.woken)
      /\ Tail(rw.woken) \in Seq(Client) /\ Len(Tail(rw.woken)) = Len(rw.woken) - 1
      /\ Once(Tail(rw.woken)) /\ Queued(Tail(rw.woken)) = Queued(rw.woken) \ {c}
  <2>1. rw.woken \in Seq(Client) /\ Once(rw.woken)
    BY <1>1, RWTyped DEF RWFits
  <2> QED BY <1>1, <2>1, LeaveQueue
<1>3. pc[c] = "writeWait" /\ c \notin Queued(rw.writeWaiters) /\ c \notin Queued(rw.readWaiters)
  <2>1. pc[c] \in {"readWait", "writeWait"} /\ c \notin Queued(rw.writeWaiters) /\ c \notin Queued(rw.readWaiters)
    BY <1>1, <1>2 DEF RWFits
  <2> QED BY <1>1, <1>2, <2>1 DEF Kinds
<1>4. /\ Kinds' /\ pc'[c] = "writing" /\ \A d \in Client \ {c} : pc'[d] = pc[d]
      /\ turns' = turns
  BY <1>1, <1>2, Moved, ClientsDisjoint DEF State
<1>5. MutexFits'
  <2>1. \A d \in Flusher : InMutex(d)' = InMutex(d) /\ (pc[d] = "mutexWait" => pc'[d] = "mutexWait")
    BY <1>1, <1>4, RWTyped DEF InMutex
  <2> QED BY <1>1, <1>4, <2>1, MutexKept
<1>6. Reading' = Reading /\ Writing' = Writing \cup {c}
  BY <1>1, <1>2, <1>3, <1>4, RWTyped DEF Reading, Writing
<1>7. /\ rw'.readers = rw.readers /\ rw'.writing = TRUE
      /\ rw'.writeWaiters = rw.writeWaiters /\ rw'.readWaiters = rw.readWaiters
      /\ rw'.woken = Tail(rw.woken) /\ rw' \in RWLock
  <2>1. rw \in RWLock
    BY <1>1, RWTyped
  <2> QED BY <1>1, <1>2, <2>1 DEF RWLock
<1>8. c \in WokenWriters /\ WokenWriters' \subseteq WokenWriters
  BY <1>1, <1>2, <1>7 DEF WokenWriters
<1>9. turns = "drained" => Reading = {} /\ Writing = {} /\ rw'.woken = <<>>
  <2> SUFFICES ASSUME turns = "drained" PROVE Reading = {} /\ Writing = {} /\ rw'.woken = <<>>
    OBVIOUS
  <2>1. Reading = {} /\ Writing = {} /\ Len(rw.woken) = 1
    BY <1>1, <1>8 DEF RWFits
  <2>2. Len(Tail(rw.woken)) = 0
    BY <1>2, <2>1
  <2> QED BY <1>2, <1>7, <2>1, <2>2, EmptyQueue
<1>10. turns = "drained" => WokenWriters' = {}
  BY <1>9, EmptyQueue DEF WokenWriters
<1>11. /\ \A d \in Queued(rw.writeWaiters) : pc'[d] = "writeWait"
       /\ \A d \in Queued(rw.readWaiters) : pc'[d] = "readWait"
       /\ \A d \in Queued(rw'.woken) : pc'[d] \in {"readWait", "writeWait"}
       /\ Queued(rw'.woken) \subseteq Queued(rw.woken)
  BY <1>1, <1>2, <1>3, <1>4, <1>7, RWTyped DEF RWFits
<1>12. /\ Once(rw'.writeWaiters) /\ Once(rw'.readWaiters) /\ Once(rw'.woken)
       /\ Queued(rw'.writeWaiters) \cap Queued(rw'.woken) = {}
       /\ Queued(rw'.readWaiters) \cap Queued(rw'.woken) = {}
       /\ IsFiniteSet(Reading') /\ rw'.readers = Cardinality(Reading')
  BY <1>1, <1>2, <1>6, <1>7, <1>11 DEF RWFits
<1>13. RWFits'
  BY <1>4, <1>6, <1>7, <1>9, <1>10, <1>11, <1>12 DEF RWFits
<1> QED BY <1>1, <1>3, <1>4, <1>5, <1>9, <1>13 DEF IInv
-----------------------------------------------------------------------------
(* Every step keeps the invariant.                                          *)
LEMMA Inductive == IInv /\ [Next]_vars => IInv'
<1> SUFFICES ASSUME IInv, [Next]_vars PROVE IInv'
  OBVIOUS
<1>1. ASSUME NEW c \in Client, CallMutex(c) PROVE IInv'
  BY <1>1, CallMutexStep
<1>2. ASSUME NEW c \in Client, CallRead(c) PROVE IInv'
  BY <1>2, CallReadStep
<1>3. ASSUME NEW c \in Client, CallWrite(c) PROVE IInv'
  BY <1>3, CallWriteStep
<1>4. ASSUME NEW c \in Client, EndRead(c) PROVE IInv'
  BY <1>4, EndReadStep
<1>5. ASSUME NEW c \in Client, EndMutex(c) PROVE IInv'
  BY <1>5, EndMutexStep
<1>6. ASSUME NEW c \in Client, EndWrite(c) PROVE IInv'
  BY <1>6, EndWriteStep
<1>7. CASE RunMutexClosure
  BY <1>7, RunMutexClosureStep
<1>8. CASE RunReadClosure
  BY <1>8, RunReadClosureStep
<1>9. CASE RunWriteClosure
  BY <1>9, RunWriteClosureStep
<1>10. CASE UNCHANGED vars
  BY <1>10 DEF vars, IInv, Kinds, MutexFits, RWFits, InMutex, Reading, Writing, WokenWriters
<1> QED BY <1>1, <1>2, <1>3, <1>4, <1>5, <1>6, <1>7, <1>8, <1>9, <1>10
        DEF Next, Finish, RunClosure

(* The invariant holds of every behaviour.                                  *)
THEOREM Invariance == Spec => []IInv
<1> QED BY Initially, Inductive, PTL DEF Spec

(* The queues hold the clients they are meant for and the reader count is   *)
(* never negative (async-mutex.ts, every release).                          *)
THEOREM TypeCorrect == Spec => []TypeOK
<1>1. IInv => TypeOK
  BY DEF IInv, Kinds, MutexFits, RWFits, Mutex, RWLock, TypeOK
<1> QED BY <1>1, Invariance, PTL

(* A queued flush, compaction or read always has somebody before it whose   *)
(* release serves the queue, in any turns (async-mutex.ts, releaseRead and  *)
(* releaseWrite).                                                           *)
THEOREM NobodyStranded == Spec => []NoStrandedWaiter
<1>1. IInv => NoStrandedWaiter
  <2> SUFFICES ASSUME IInv PROVE NoStrandedWaiter
    OBVIOUS
  <2>1. mx.waiters # <<>> => mx.woken # <<>> \/ \E c \in Flusher : InMutex(c)
    BY DEF IInv, MutexFits
  <2>2. rw.writeWaiters # <<>> => rw.woken # <<>> \/ \E c \in Client : In(c)
    BY DEF IInv, RWFits, Reading, Writing, In, Client
  <2>3. rw.readWaiters # <<>> =>
            \/ rw.writeWaiters # <<>>
            \/ \E c \in Writer : pc[c] = "writing"
            \/ \E i \in DOMAIN rw.woken : rw.woken[i] \in Writer
    BY DEF IInv, RWFits, Writing, WokenWriters, Queued
  <2> QED BY <2>1, <2>2, <2>3 DEF NoStrandedWaiter
<1> QED BY <1>1, Invariance, PTL

(* The comment on compact ("no other operations can run during              *)
(* compaction") is true of drained turns.                                   *)
THEOREM AloneWhenDrained == Spec => [](turns = "drained" => CompactionRunsAlone)
<1>1. IInv /\ turns = "drained" => CompactionRunsAlone
  <2> SUFFICES ASSUME IInv, turns = "drained", NEW c \in Writer, pc[c] = "writing",
                      NEW d \in Client \ {c}, In(d)
               PROVE  FALSE
    BY DEF CompactionRunsAlone
  <2>1. c \in Writing /\ Reading = {} /\ \A e \in Writing : e = c
    BY DEF IInv, RWFits, Writing
  <2>2. d \in Reading \/ d \in Writing
    BY ClientsDisjoint DEF IInv, Kinds, In, Reading, Writing, Client
  <2> QED BY <2>1, <2>2
<1> QED BY <1>1, Invariance, PTL
-----------------------------------------------------------------------------
Phases == [c \in Client |-> Phase(c)]

(* Nobody inside is in the way of a client whose turn it is.                *)
LEMMA Entering ==
    ASSUME IInv, NEW c \in Client, c \in Flusher => InMutex(c),
           turns = "drained" => Writing = {} /\ (c \in Writer => Reading = {})
    PROVE  EA!MayEnter(c)
<1> SUFFICES ASSUME turns = "drained", NEW d \in Client \ {c}, Phase(d) = "in"
             PROVE  EA!Compatible(c, d)
  BY DEF EA!MayEnter, EA!Client, Client
<1>1. pc[d] \in {"reading", "writing"}
  BY DEF Phase, In
<1>2. pc[d] = "reading" /\ d \notin Writer
  BY <1>1 DEF IInv, Kinds, Client, Writing
<1>3. c \notin Writer
  BY <1>2 DEF Reading
<1>4. ~(c \in Flusher /\ d \in Flusher)
  BY <1>2 DEF IInv, MutexFits, InMutex
<1> QED BY <1>2, <1>3, <1>4 DEF EA!Compatible

(* A move of one client is a move of its phase.                             *)
LEMMA PhaseMoves ==
    ASSUME IInv, NEW c \in Client, NEW s \in State, Goto(c, s)
    PROVE  /\ Phases' = [Phases EXCEPT ![c] = Phase(c)']
           /\ Phases[c] = Phase(c)
           /\ Phase(c)' = IF s \in {"reading", "writing"} THEN "in"
                          ELSE IF s \in {"idle", "readDone"} THEN "out" ELSE "wait"
           /\ UNCHANGED (turns = "drained")
<1>1. pc' = [pc EXCEPT ![c] = s] /\ turns' = turns /\ pc \in [Client -> State]
  BY DEF Goto, IInv, Kinds
<1>2. \A d \in Client : pc'[d] = IF d = c THEN s ELSE pc[d]
  BY <1>1
<1>3. \A d \in Client \ {c} : Phase(d)' = Phase(d)
  BY <1>2 DEF Phase, In
<1>4. Phase(c)' = IF s \in {"reading", "writing"} THEN "in"
                  ELSE IF s \in {"idle", "readDone"} THEN "out" ELSE "wait"
  BY <1>2 DEF Phase, In
<1>5. Phases' = [Phases EXCEPT ![c] = Phase(c)']
  BY <1>3 DEF Phases
<1> QED BY <1>1, <1>4, <1>5 DEF Phases

(* Every step of the locks is a step of ExclusiveAccess or none.            *)
LEMMA StepRefines ==
    IInv /\ [Next]_vars => [EA!Next]_<<Phases, turns = "drained">>
<1> SUFFICES ASSUME IInv, [Next]_vars
             PROVE  EA!Next \/ UNCHANGED <<Phases, turns = "drained">>
  OBVIOUS
<1>1. ASSUME NEW c \in Client, NEW s \in State, Goto(c, s),
             \/ Phase(c)' = Phase(c)
             \/ Phase(c) = "out" /\ Phase(c)' = "wait"
             \/ Phase(c) \in {"out", "wait"} /\ Phase(c)' = "in" /\ EA!MayEnter(c)
             \/ Phase(c) = "in" /\ Phase(c)' = "out"
      PROVE  EA!Next \/ UNCHANGED <<Phases, turns = "drained">>
  <2>1. /\ Phases' = [Phases EXCEPT ![c] = Phase(c)'] /\ Phases[c] = Phase(c)
        /\ UNCHANGED (turns = "drained")
    BY <1>1, PhaseMoves
  <2>2. Phase(c)' = Phase(c) => Phases' = Phases
    BY <2>1 DEF Phases
  <2>3. c \in EA!Client
    BY DEF EA!Client, Client
  <2>4. \/ Phase(c)' = Phase(c) \/ EA!Ask(c) \/ EA!Enter(c) \/ EA!Leave(c)
    BY <1>1, <2>1 DEF EA!Ask, EA!Enter, EA!Leave, Phases
  <2> QED BY <2>1, <2>2, <2>3, <2>4 DEF EA!Next
<1>2. ASSUME NEW c \in Client, CallMutex(c) PROVE EA!Next \/ UNCHANGED <<Phases, turns = "drained">>
  <2>1. PICK s \in {"mutexHeld", "mutexWait"} : Goto(c, s)
    BY <1>2 DEF CallMutex
  <2>2. s \in State /\ Phase(c) = "out" /\ Phase(c)' = "wait"
    BY <1>2, <2>1, PhaseMoves DEF CallMutex, State, Phase, In
  <2> QED BY <1>1, <2>1, <2>2
<1>3. ASSUME NEW c \in Client, CallRead(c) PROVE EA!Next \/ UNCHANGED <<Phases, turns = "drained">>
  <2>1. /\ pc[c] \in {"idle", "mutexHeld"} /\ c \notin Writer
        /\ c \in Flusher => InMutex(c)
    BY <1>3, ClientsDisjoint DEF CallRead, InMutex
  <2>2. Phase(c) \in {"out", "wait"}
    BY <2>1 DEF Phase, In
  <2>3. CASE ReadIsFree(rw)
    <3>1. Goto(c, "reading") /\ "reading" \in State /\ ~rw.writing
      BY <1>3, <2>3 DEF CallRead, ReadIsFree, State
    <3>2. turns = "drained" => Writing = {}
      BY <3>1 DEF IInv, RWFits
    <3>3. EA!MayEnter(c)
      BY <2>1, <3>2, Entering
    <3>4. Phase(c)' = "in"
      BY <3>1, PhaseMoves
    <3> QED BY <1>1, <2>2, <3>1, <3>3, <3>4
  <2>4. CASE ~ReadIsFree(rw)
    <3>1. Goto(c, "readWait") /\ "readWait" \in State
      BY <1>3, <2>4 DEF CallRead, State
    <3>2. Phase(c)' = "wait"
      BY <3>1, PhaseMoves
    <3> QED BY <1>1, <2>2, <3>1, <3>2
  <2> QED BY <2>3, <2>4
<1>4. ASSUME NEW c \in Client, CallWrite(c) PROVE EA!Next \/ UNCHANGED <<Phases, turns = "drained">>
  <2>1. Phase(c) = "out" /\ c \notin Flusher
    BY <1>4, ClientsDisjoint DEF CallWrite, Phase, In
  <2>2. CASE WriteIsFree(rw)
    <3>1. Goto(c, "writing") /\ "writing" \in State /\ ~rw.writing /\ rw.readers = 0
      BY <1>4, <2>2 DEF CallWrite, WriteIsFree, State
    <3>2. turns = "drained" => Writing = {} /\ Reading = {}
      BY <3>1, RWTyped DEF IInv, RWFits
    <3>3. EA!MayEnter(c)
      BY <2>1, <3>2, Entering
    <3>4. Phase(c)' = "in"
      BY <3>1, PhaseMoves
    <3> QED BY <1>1, <2>1, <3>1, <3>3, <3>4
  <2>3. CASE ~WriteIsFree(rw)
    <3>1. Goto(c, "writeWait") /\ "writeWait" \in State
      BY <1>4, <2>3 DEF CallWrite, State
    <3>2. Phase(c)' = "wait"
      BY <3>1, PhaseMoves
    <3> QED BY <1>1, <2>1, <3>1, <3>2
  <2> QED BY <2>2, <2>3
<1>5. ASSUME NEW c \in Client, Finish(c) PROVE EA!Next \/ UNCHANGED <<Phases, turns = "drained">>
  <2>1. PICK s \in {"readDone", "idle"} : Goto(c, s)
    BY <1>5 DEF Finish, EndRead, EndMutex, EndWrite
  <2>2. s \in State /\ Phase(c) \in {"in", "out"} /\ Phase(c)' = "out"
    BY <1>5, <2>1, PhaseMoves DEF Finish, EndRead, EndMutex, EndWrite, State, Phase, In
  <2> QED BY <1>1, <2>1, <2>2
<1>6. ASSUME NEW c, c = Head(mx.woken), RunMutexClosure
      PROVE  EA!Next \/ UNCHANGED <<Phases, turns = "drained">>
  <2>1. c \in Client /\ pc[c] = "mutexWait"
    BY <1>6, RunMutexClosureStep DEF Client
  <2>2. Goto(c, "mutexHeld") /\ "mutexHeld" \in State
    BY <1>6 DEF RunMutexClosure, State
  <2>3. Phase(c) = "wait" /\ Phase(c)' = "wait"
    BY <2>1, <2>2, PhaseMoves DEF Phase, In
  <2> QED BY <1>1, <2>1, <2>2, <2>3
<1>7. ASSUME NEW c, c = Head(rw.woken), RunReadClosure
      PROVE  EA!Next \/ UNCHANGED <<Phases, turns = "drained">>
  <2>1. c \in Client \ Writer /\ pc[c] = "readWait" /\ (turns = "drained" => Writing = {})
    BY <1>7, RunReadClosureStep
  <2>2. Goto(c, "reading") /\ "reading" \in State
    BY <1>7 DEF RunReadClosure, State
  <2>3. Phase(c) = "wait" /\ Phase(c)' = "in" /\ (c \in Flusher => InMutex(c))
    BY <2>1, <2>2, PhaseMoves DEF Phase, In, InMutex
  <2>4. EA!MayEnter(c)
    BY <2>1, <2>3, Entering
  <2> QED BY <1>1, <2>1, <2>2, <2>3, <2>4
<1>8. ASSUME NEW c, c = Head(rw.woken), RunWriteClosure
      PROVE  EA!Next \/ UNCHANGED <<Phases, turns = "drained">>
  <2>1. c \in Writer /\ pc[c] = "writeWait" /\ (turns = "drained" => Writing = {} /\ Reading = {})
    BY <1>8, RunWriteClosureStep
  <2>2. Goto(c, "writing") /\ "writing" \in State /\ c \in Client /\ c \notin Flusher
    BY <1>8, <2>1, ClientsDisjoint DEF RunWriteClosure, State, Client
  <2>3. Phase(c) = "wait" /\ Phase(c)' = "in"
    BY <2>1, <2>2, PhaseMoves DEF Phase, In
  <2>4. EA!MayEnter(c)
    BY <2>1, <2>2, Entering
  <2> QED BY <1>1, <2>2, <2>3, <2>4
<1>9. CASE UNCHANGED vars
  BY <1>9 DEF vars, Phases, Phase, In
<1> QED BY <1>2, <1>3, <1>4, <1>5, <1>6, <1>7, <1>8, <1>9 DEF Next, RunClosure

(* The queue-and-microtask locks implement ExclusiveAccess: every step maps *)
(* to a step of it or to none, under the promise itself in drained turns    *)
(* and under the order out, wait, in of each client in shared ones.         *)
THEOREM LocksImplementExclusiveAccess == Spec => ImplementsExclusiveAccess
<1>1. Init => EA!Init
  BY DEF Init, EA!Init, EA!Client, Client, Phase, In
<1>2. IInv /\ [Next]_vars => [EA!Next]_<<[c \in Client |-> Phase(c)], turns = "drained">>
  BY StepRefines DEF Phases
<1> QED BY <1>1, <1>2, Invariance, PTL DEF Spec, ImplementsExclusiveAccess, EA!Spec
=============================================================================

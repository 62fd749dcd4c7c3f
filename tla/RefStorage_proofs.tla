-------------------------- MODULE RefStorage_proofs --------------------------
(***************************************************************************)
(* RefStorage implements the atomic compare-and-swap of AtomicRefs, packs  *)
(* snapshots and never lets its callers wait in a circle: proved for any   *)
(* names, callers, calls, retries and failures, over a backend with locks  *)
(* that removes a ref before it returns the promise.                       *)
(***************************************************************************)
EXTENDS RefStorage, WellFoundedInduction, TLAPS

Locks == RefAssumption /\ Locking /\ PromptRemoval

Requests == UNION {[ns -> Write] : ns \in (SUBSET Name) \ {{}}}

OpRecord == [ kind : {"none", "update", "delete", "batch", "pack", "retry"},
              ws : Requests \cup {<<>>}, names : Seq(Name), phase : Phase, done : Nat,
              seen : [Name -> Value], tries : 0..MaxRetries, result : Result ]

Named(r) == {r.names[i] : i \in DOMAIN r.names}
First(r, k) == {r.names[i] : i \in 1..k}

\* A call that compares refs and writes them.
Writes(r) == r.kind \notin {"none", "pack"}

\* The form of an operation.
Formed(r) ==
    /\ r.phase # "idle" => r.kind # "none"
    /\ \A i, j \in DOMAIN r.names : r.names[i] = r.names[j] => i = j
    /\ r.phase \in {"locking", "checking", "writing"} => r.done < Len(r.names) /\ r.result = "none"
    /\ Writes(r) /\ r.phase \notin {"idle", "reading"} => r.ws \in Requests /\ DOMAIN r.ws = Named(r)
    /\ r.kind = "retry" => Len(r.names) = 1
    /\ r.phase = "packing" => r.kind = "pack"
    /\ r.phase = "writing" => Writes(r)
    /\ r.phase = "reading" => r.kind = "retry"
    /\ Writes(r) => \A i, j \in DOMAIN r.names : i < j => Before(Order, r.names[i], r.names[j])

\* The locks it has.
Locked(p, r) ==
    /\ r.phase \in {"idle", "reading"} => Held(p) = {}
    /\ r.phase = "locking" => Held(p) = First(r, r.done)
    /\ r.phase \in {"checking", "writing", "packing"} => Held(p) = Named(r)

\* What it has read of its refs, and what it has written.
Reads(r, n) == r.seen[n] = refs[n]
Agrees(r, n) == Writes(r) => Matches(r.seen[n], r.ws[n].expect)
Compared(r) ==
    /\ r.phase = "checking" =>
          \A i \in 1..r.done : Reads(r, r.names[i]) /\ Agrees(r, r.names[i])
    /\ r.phase = "packing" => \A i \in DOMAIN r.names : Reads(r, r.names[i])
    /\ r.phase = "writing" =>
          \A i \in DOMAIN r.names :
              /\ Agrees(r, r.names[i])
              /\ i > r.done => Reads(r, r.names[i])
              /\ i <= r.done => refs[r.names[i]] = r.ws[r.names[i]].new

Fits(p) == Formed(op[p]) /\ Locked(p, op[p]) /\ Compared(op[p])

IInv == /\ TypeOK
        /\ op \in [Proc -> OpRecord]
        /\ removing = {}
        /\ \A p \in Proc : Fits(p)
-----------------------------------------------------------------------------
(* The order in which names are locked: each name once, and, but for        *)
(* packRefs, in Order.                                                      *)
LEMMA ArrangedProperties ==
    ASSUME RefAssumption, NEW ns \in SUBSET Name, NEW orders \in SUBSET (Listings \cup {Order}),
           NEW names \in Arranged(ns, orders)
    PROVE  /\ names \in Seq(Name) /\ {names[i] : i \in DOMAIN names} = ns
           /\ \A i, j \in DOMAIN names : names[i] = names[j] => i = j
           /\ orders = {Order} => \A i, j \in DOMAIN names : i < j => Before(Order, names[i], names[j])
<1>1. PICK k \in 0..Len(Order) : names \in [1..k -> ns]
  BY DEF Arranged
<1>2. Order \in Seq(Name)
  BY DEF RefAssumption
<1>3. k \in Nat
  BY <1>1, <1>2
<1>4. names \in Seq(Name) /\ DOMAIN names = 1..k
  BY <1>1, <1>3
<1>5. {names[i] : i \in DOMAIN names} = ns
  BY <1>1 DEF Arranged
<1>6. PICK order \in orders : \A i, j \in DOMAIN names : i < j => Before(order, names[i], names[j])
  BY DEF Arranged
<1>7. order \in Seq(Name) /\ \A i, j \in DOMAIN order : order[i] = order[j] => i = j
  BY DEF RefAssumption
<1>8. ASSUME NEW i \in DOMAIN names, NEW j \in DOMAIN names, names[i] = names[j], i < j PROVE FALSE
  <2>1. PICK a, b \in DOMAIN order : a < b /\ order[a] = names[i] /\ order[b] = names[j]
    BY <1>6, <1>8 DEF Before
  <2>2. a = b /\ a \in Nat
    BY <1>7, <1>8, <2>1
  <2> QED
    BY <2>1, <2>2
<1>9. \A i, j \in DOMAIN names : names[i] = names[j] => i = j
  BY <1>4, <1>8
<1> QED
  BY <1>4, <1>5, <1>6, <1>9

(* What one caller does to its operation, the refs it has locked and the    *)
(* locks it takes or gives back, leaves all others as they are.             *)
LEMMA Moves ==
    ASSUME IInv, NEW p \in Proc, NEW r \in OpRecord, op' = [op EXCEPT ![p] = r],
           RefAssumption,
           refs' \in [Name -> Value], packed' \in [Name -> Value],
           holder' \in [Name -> Proc \cup {None}], used' \in [calls : Nat, faults : Nat],
           \A n \in Name : holder[n] # p => refs'[n] = refs[n],
           \A n \in Name : holder'[n] # holder[n] =>
               {holder[n], holder'[n]} \subseteq {p, None},
           removing' = removing,
           Formed(r), Locked(p, r)', Compared(r)'
    PROVE  IInv'
<1>1. \A q \in Proc : op'[q] = IF q = p THEN r ELSE op[q]
  BY DEF IInv
<1>2. op' \in [Proc -> OpRecord]
  BY DEF IInv
<1>3. TypeOK'
  BY <1>2 DEF TypeOK, OpRecord, IInv
<1>4. ASSUME NEW q \in Proc, q # p PROVE Fits(q)'
  <2>1. op'[q] = op[q] /\ Fits(q) /\ op[q] \in OpRecord
    BY <1>1, <1>4 DEF IInv
  <2>2. q # None
    BY DEF RefAssumption
  <2>3. Held(q)' = Held(q)
    BY <1>4, <2>2 DEF Held, IInv, TypeOK
  <2>4. \A n \in Held(q) : refs'[n] = refs[n]
    BY <1>4 DEF Held
  <2>5. Formed(op'[q]) /\ Locked(q, op[q])'
    BY <2>1, <2>3 DEF Fits, Locked
  <2>6. Compared(op[q])'
    <3>1. op[q].phase \in {"checking", "writing", "packing"} =>
             \A i \in DOMAIN op[q].names : op[q].names[i] \in Held(q)
      BY <2>1 DEF Fits, Locked, Named
    <3>2. op[q].phase = "checking" => \A i \in 1..op[q].done : i \in DOMAIN op[q].names
      BY <2>1 DEF Fits, Formed, OpRecord
    <3> QED
      BY <2>1, <2>4, <3>1, <3>2 DEF Fits, Compared, Reads, Agrees
  <2> QED
    BY <2>1, <2>5, <2>6 DEF Fits
<1>5. Fits(p)'
  BY <1>1 DEF Fits
<1> QED
  BY <1>2, <1>3, <1>4, <1>5 DEF IInv

(* The same for a step that writes neither a ref nor a lock.                *)
LEMMA MovesOn ==
    ASSUME IInv, NEW p \in Proc, NEW r \in OpRecord, op' = [op EXCEPT ![p] = r],
           RefAssumption, UNCHANGED <<refs, packed, holder, removing>>,
           used' \in [calls : Nat, faults : Nat],
           Formed(r), Locked(p, r)', Compared(r)'
    PROVE  IInv'
<1>1. refs' \in [Name -> Value] /\ packed' \in [Name -> Value]
      /\ holder' \in [Name -> Proc \cup {None}]
  BY DEF IInv, TypeOK
<1>2. /\ \A n \in Name : refs'[n] = refs[n]
      /\ \A n \in Name : holder'[n] = holder[n]
  OBVIOUS
<1> QED
  BY <1>1, <1>2, Moves

LEMMA NoOpIsOne ==
    ASSUME RefAssumption PROVE NoOp \in OpRecord
BY DEF NoOp, OpRecord, RefAssumption, Phase, Result, Value

LEMMA Initially ==
    ASSUME RefAssumption, Init PROVE IInv
<1>1. NoOp \in OpRecord
  BY NoOpIsOne
<1>2. op \in [Proc -> OpRecord] /\ \A p \in Proc : op[p] = NoOp
  BY <1>1 DEF Init
<1>3. TypeOK
  BY <1>1, <1>2 DEF Init, TypeOK, OpRecord, Value
<1>4. ASSUME NEW p \in Proc PROVE Fits(p)
  <2>1. Held(p) = {}
    BY DEF Held, Init, RefAssumption
  <2>2. op[p] = NoOp
    BY <1>2
  <2> QED
    BY <2>1, <2>2 DEF Fits, NoOp, Formed, Locked, Compared, Writes
<1> QED
  BY <1>2, <1>3, <1>4 DEF Init, IInv
-----------------------------------------------------------------------------
(* The step of AtomicRefs that a step here is, or a stutter of it.          *)
Clients == [p \in Proc |-> Client(p)]
Implements == UNCHANGED AtomicVars \/ Atomic!Next

LEMMA Requested == Requests = Atomic!Asked
BY DEF Requests, Atomic!Asked, Write, Expected, Atomic!Expected, Value, Atomic!Value

(* Others see nothing of a step of one caller but what it has settled.      *)
LEMMA Unseen ==
    ASSUME IInv, NEW p \in Proc, NEW r \in OpRecord, op' = [op EXCEPT ![p] = r], RefAssumption,
           \A n \in Name : holder[n] # p => refs'[n] = refs[n],
           \A n \in Name : holder'[n] # holder[n] =>
               {holder[n], holder'[n]} \subseteq {p, None}
    PROVE  /\ Clients' = [Clients EXCEPT ![p] = Client(p)']
           /\ \A n \in Name : p \notin {holder[n], holder'[n]} => Settled'[n] = Settled[n]
<1>1. \A q \in Proc : op'[q] = IF q = p THEN r ELSE op[q]
  BY DEF IInv
<1>2. \A q \in Proc : q # p => Client(q)' = Client(q)
  BY <1>1 DEF Client
<1>3. ASSUME NEW n \in Name, p \notin {holder[n], holder'[n]} PROVE Settled'[n] = Settled[n]
  <2>1. holder'[n] = holder[n] /\ refs'[n] = refs[n]
    BY <1>3
  <2>2. CASE holder[n] = None
    BY <2>1, <2>2 DEF Settled
  <2>3. CASE holder[n] \in Proc
    <3>1. op'[holder[n]] = op[holder[n]]
      BY <1>1, <1>3, <2>3
    <3> QED
      BY <2>1, <3>1 DEF Settled, HasWritten
  <2> QED
    BY <2>2, <2>3 DEF IInv, TypeOK
<1> QED
  BY <1>2, <1>3 DEF Clients

(* What AtomicRefs takes the refs for that a caller has locked: until the   *)
(* last of them is written, what they were when they were read.             *)
LEMMA OwnRefs ==
    ASSUME IInv, RefAssumption, NEW p \in Proc, NEW n \in Name, holder[n] \in {p, None}
    PROVE  /\ op[p].phase # "writing" \/ holder[n] = None => Settled[n] = refs[n]
           /\ op[p].phase = "writing" /\ holder[n] = p => Settled[n] = op[p].seen[n]
<1>1. p # None
  BY DEF RefAssumption
<1>2. op[p].phase # "writing" \/ holder[n] = None => Settled[n] = refs[n]
  BY <1>1 DEF Settled, HasWritten
<1>3. ASSUME op[p].phase = "writing", holder[n] = p PROVE Settled[n] = op[p].seen[n]
  <2>1. Fits(p) /\ op[p] \in OpRecord
    BY DEF IInv
  <2>2. n \in Named(op[p])
    BY <1>3, <2>1 DEF Fits, Locked, Held
  <2>3. PICK i \in DOMAIN op[p].names : op[p].names[i] = n
    BY <2>2 DEF Named
  <2>4. i \in Nat /\ i >= 1 /\ op[p].done \in Nat
    BY <2>1 DEF OpRecord
  <2>5. CASE i <= op[p].done
    BY <1>1, <1>3, <2>3, <2>4, <2>5 DEF Settled, HasWritten
  <2>6. CASE i > op[p].done
    <3>1. refs[n] = op[p].seen[n]
      BY <1>3, <2>1, <2>3, <2>6 DEF Fits, Compared, Reads
    <3> QED
      BY <1>1, <1>3, <3>1 DEF Settled
  <2> QED
    BY <2>4, <2>5, <2>6
<1> QED
  BY <1>2, <1>3

(* A step that writes no ref, by a caller that is not half way through its  *)
(* writes, settles nothing.                                                 *)
LEMMA Unsettled ==
    ASSUME IInv, NEW p \in Proc, NEW r \in OpRecord, op' = [op EXCEPT ![p] = r], RefAssumption,
           UNCHANGED refs,
           \A n \in Name : holder'[n] # holder[n] =>
               {holder[n], holder'[n]} \subseteq {p, None},
           op[p].phase # "writing", r.phase # "writing" \/ r.done = 0
    PROVE  /\ UNCHANGED Settled
           /\ Clients' = [Clients EXCEPT ![p] = Client(p)']
<1>1. \A n \in Name : p \notin {holder[n], holder'[n]} => Settled'[n] = Settled[n]
  BY Unseen
<1>2. Clients' = [Clients EXCEPT ![p] = Client(p)']
  BY Unseen
<1>3. op'[p] = r
  BY DEF IInv
<1>4. \A m : ~HasWritten(p, m)'
  BY <1>3 DEF HasWritten, OpRecord
<1>5. p # None
  BY DEF RefAssumption
<1>6. ASSUME NEW n \in Name, p \in {holder[n], holder'[n]} PROVE Settled'[n] = Settled[n]
  <2>1. {holder[n], holder'[n]} \subseteq {p, None}
    BY <1>6
  <2>2. Settled[n] = refs[n]
    BY <2>1, OwnRefs
  <2>3. Settled'[n] = refs'[n]
    BY <1>4, <2>1 DEF Settled
  <2> QED
    BY <2>2, <2>3
<1>7. Settled' = Settled
  BY <1>1, <1>6 DEF Settled
<1> QED
  BY <1>2, <1>7

LEMMA Stutters ==
    ASSUME NEW p \in Proc, UNCHANGED Settled, Clients' = [Clients EXCEPT ![p] = Client(p)'],
           Client(p)' = Client(p)
    PROVE  Implements
<1>1. Clients' = Clients
  BY DEF Clients
<1> QED
  BY <1>1 DEF Implements, AtomicVars, Clients
-----------------------------------------------------------------------------
LEMMA CallSteps ==
    ASSUME Locks, IInv, NEW p \in Proc, NEW c \in Calls, Call(p, c) PROVE IInv' /\ Implements
<1>1. PICK names \in LockOrder(c.kind, DOMAIN c.ws) :
         op' = [op EXCEPT ![p] = [NoOp EXCEPT !.kind = c.kind, !.ws = c.ws,
                                              !.names = names, !.phase = "locking"]]
  BY DEF Call
<1> DEFINE r == [NoOp EXCEPT !.kind = c.kind, !.ws = c.ws, !.names = names, !.phase = "locking"]
<1>2. /\ c.kind \in {"update", "delete", "batch"}
      /\ DOMAIN c.ws \in (SUBSET Name) \ {{}} /\ c.ws \in [DOMAIN c.ws -> Write]
  BY DEF Locks, RefAssumption
<1>3. c.ws \in Requests
  BY <1>2 DEF Requests
<1>4. names \in Arranged(DOMAIN c.ws, {Order})
  BY <1>1, <1>2 DEF LockOrder
<1>5. /\ names \in Seq(Name) /\ {names[i] : i \in DOMAIN names} = DOMAIN c.ws
      /\ \A i, j \in DOMAIN names : names[i] = names[j] => i = j
      /\ \A i, j \in DOMAIN names : i < j => Before(Order, names[i], names[j])
  BY <1>2, <1>4, ArrangedProperties DEF Locks
<1>6. r.kind = c.kind /\ r.ws = c.ws /\ r.names = names /\ r.phase = "locking"
      /\ r.done = 0 /\ r.result = "none" /\ r.tries = 0 /\ r.seen = [n \in Name |-> None]
  BY DEF NoOp
<1>7. r \in OpRecord
  BY <1>2, <1>3, <1>5, NoOpIsOne DEF OpRecord, Locks, Phase
<1>8. Len(names) > 0
  <2>1. DOMAIN names # {}
    BY <1>2, <1>5
  <2> QED
    BY <1>5, <2>1
<1>9. Formed(r)
  BY <1>2, <1>3, <1>5, <1>6, <1>8 DEF Formed, Writes, Named
<1>10. Held(p) = {}
  BY DEF IInv, Fits, Locked, Call
<1>11. UNCHANGED <<refs, packed, holder, removing>> /\ used' \in [calls : Nat, faults : Nat]
  BY DEF Call, Counted, IInv, TypeOK
<1>12. Locked(p, r)'
  BY <1>6, <1>10, <1>11 DEF Locked, First, Held
<1>13. Compared(r)'
  BY <1>6 DEF Compared
<1>14. IInv'
  <2> HIDE DEF r
  <2> QED
    BY <1>1, <1>7, <1>9, <1>11, <1>12, <1>13, MovesOn DEF Locks, r
<1>15. UNCHANGED Settled /\ Clients' = [Clients EXCEPT ![p] = Client(p)']
  <2>1. op[p].phase # "writing"
    BY DEF Call
  <2> HIDE DEF r
  <2> QED
    BY <1>1, <1>6, <1>7, <1>11, <2>1, Unsettled DEF Locks, r
<1>16. Client(p)' = [at |-> "pending", ws |-> c.ws, result |-> "none"] /\ Client(p).at = "idle"
  <2>1. op'[p] = r
    BY <1>1 DEF IInv
  <2> HIDE DEF r
  <2> QED
    BY <1>2, <1>6, <2>1 DEF Client, Call
<1>17. Atomic!Invoke(p)
  BY <1>3, <1>15, <1>16, Requested DEF Atomic!Invoke, Clients
<1> QED
  BY <1>14, <1>17 DEF Implements, Atomic!Next

LEMMA CallPackSteps ==
    ASSUME Locks, IInv, NEW p \in Proc, CallPack(p) PROVE IInv' /\ Implements
<1> DEFINE ns == {n \in Name : refs[n] # None}
<1>1. PICK names \in LockOrder("pack", ns), phase \in {"packing", "locking"} :
         /\ phase = IF names = <<>> THEN "packing" ELSE "locking"
         /\ op' = [op EXCEPT ![p] = [NoOp EXCEPT !.kind = "pack", !.names = names, !.phase = phase]]
  BY Zenon DEF CallPack
<1> DEFINE r == [NoOp EXCEPT !.kind = "pack", !.names = names, !.phase = phase]
<1>2. names \in Arranged(ns, Listings)
  BY <1>1 DEF LockOrder
<1>3. names \in Seq(Name) /\ \A i, j \in DOMAIN names : names[i] = names[j] => i = j
  BY <1>2, ArrangedProperties DEF Locks
<1>4. r.kind = "pack" /\ r.names = names /\ r.done = 0 /\ r.result = "none"
      /\ r.phase = IF names = <<>> THEN "packing" ELSE "locking"
  BY <1>1 DEF NoOp
<1>5. r \in OpRecord
  <2>1. NoOp \in OpRecord
    BY NoOpIsOne DEF Locks
  <2>2. names \in Seq(Name) /\ phase \in Phase
    BY <1>1, <1>3 DEF Phase
  <2> QED
    BY <2>1, <2>2 DEF OpRecord
<1>6. Formed(r)
  BY <1>3, <1>4 DEF Formed, Writes
<1>7. Held(p) = {} /\ op[p].phase = "idle"
  BY DEF IInv, Fits, Locked, CallPack
<1>8. UNCHANGED <<refs, packed, holder, removing>> /\ used' \in [calls : Nat, faults : Nat]
  BY DEF CallPack, Counted, IInv, TypeOK
<1>9. Locked(p, r)' /\ Compared(r)'
  BY <1>4, <1>7, <1>8 DEF Locked, Compared, First, Named, Held
<1> HIDE DEF r
<1>10. IInv'
  BY <1>1, <1>5, <1>6, <1>8, <1>9, MovesOn DEF Locks, r
<1>11. UNCHANGED Settled /\ Clients' = [Clients EXCEPT ![p] = Client(p)']
  BY <1>1, <1>4, <1>5, <1>7, <1>8, Unsettled DEF Locks, r
<1>12. Client(p)' = Client(p)
  <2>1. op'[p] = r
    BY <1>1 DEF IInv, r
  <2> QED
    BY <1>4, <1>7, <2>1 DEF Client
<1> QED
  BY <1>10, <1>11, <1>12, Stutters

LEMMA CallRetrySteps ==
    ASSUME Locks, IInv, NEW p \in Proc, NEW n \in Name, CallRetry(p, n) PROVE IInv' /\ Implements
<1> DEFINE r == [NoOp EXCEPT !.kind = "retry", !.names = <<n>>, !.phase = "reading"]
<1>1. op' = [op EXCEPT ![p] = r]
  BY DEF CallRetry
<1>2. r.kind = "retry" /\ r.names = <<n>> /\ r.done = 0 /\ r.result = "none" /\ r.phase = "reading"
  BY DEF NoOp
<1>3. r \in OpRecord
  <2>1. NoOp \in OpRecord
    BY NoOpIsOne DEF Locks
  <2>2. <<n>> \in Seq(Name) /\ "reading" \in Phase
    BY DEF Phase
  <2> QED
    BY <2>1, <2>2 DEF OpRecord
<1>4. Formed(r)
  BY <1>2 DEF Formed, Writes
<1>5. Held(p) = {} /\ op[p].phase = "idle"
  BY DEF IInv, Fits, Locked, CallRetry
<1>6. UNCHANGED <<refs, packed, holder, removing>> /\ used' \in [calls : Nat, faults : Nat]
  BY DEF CallRetry, Counted, IInv, TypeOK
<1>7. Locked(p, r)' /\ Compared(r)'
  BY <1>2, <1>5, <1>6 DEF Locked, Compared, Held
<1> HIDE DEF r
<1>8. IInv'
  BY <1>1, <1>3, <1>4, <1>6, <1>7, MovesOn DEF Locks
<1>9. UNCHANGED Settled /\ Clients' = [Clients EXCEPT ![p] = Client(p)']
  BY <1>1, <1>2, <1>3, <1>5, <1>6, Unsettled DEF Locks
<1>10. Client(p)' = Client(p)
  <2>1. op'[p] = r
    BY <1>1 DEF IInv
  <2> QED
    BY <1>2, <1>5, <2>1 DEF Client
<1> QED
  BY <1>8, <1>9, <1>10, Stutters

LEMMA RetryReadSteps ==
    ASSUME Locks, IInv, NEW p \in Proc, NEW new \in Sha, RetryRead(p, new) PROVE IInv' /\ Implements
<1>1. op[p] \in OpRecord /\ Fits(p) /\ op[p].phase = "reading" /\ op[p].kind = "retry"
  BY DEF IInv, RetryRead, Fits, Formed
<1>2. op[p].names \in Seq(Name) /\ Len(op[p].names) = 1
  BY <1>1 DEF OpRecord, Fits, Formed
<1>3. PICK n \in Name : n = op[p].names[1]
  BY <1>2
<1>4. Named(op[p]) = {n}
  BY <1>2, <1>3 DEF Named
<1>5. PICK ws \in Requests :
         ws = [m \in {n} |-> [new |-> new, expect |-> refs[n]]] /\ DOMAIN ws = {n}
  <2>1. [new |-> new, expect |-> refs[n]] \in Write
    BY DEF Write, Expected, Value, IInv, TypeOK
  <2>2. [m \in {n} |-> [new |-> new, expect |-> refs[n]]] \in [{n} -> Write]
        /\ {n} \in (SUBSET Name) \ {{}}
    BY <2>1
  <2> QED
    BY <2>2 DEF Requests
<1>6. PICK r \in OpRecord :
         r = [op[p] EXCEPT !.ws = ws, !.phase = "locking", !.done = 0, !.result = "none"]
  BY <1>1 DEF OpRecord, Phase, Result
<1>7. op' = [op EXCEPT ![p] = r]
  BY <1>1, <1>3, <1>5, <1>6 DEF RetryRead, IInv
<1>8. r.kind = "retry" /\ r.names = op[p].names /\ r.phase = "locking" /\ r.done = 0
      /\ r.result = "none" /\ r.ws = ws
  BY <1>1, <1>6 DEF OpRecord
<1>9. Formed(r)
  BY <1>1, <1>2, <1>4, <1>5, <1>8 DEF Fits, Formed, Writes, Named
<1>10. UNCHANGED <<refs, packed, holder, removing>> /\ used' \in [calls : Nat, faults : Nat]
  BY DEF RetryRead, IInv, TypeOK
<1>11. Locked(p, r)' /\ Compared(r)'
  BY <1>1, <1>8, <1>10 DEF Fits, Locked, Compared, Held, First
<1>12. IInv'
  BY <1>7, <1>9, <1>10, <1>11, MovesOn DEF Locks
<1>13. UNCHANGED Settled /\ Clients' = [Clients EXCEPT ![p] = Client(p)']
  BY <1>1, <1>7, <1>8, <1>10, Unsettled DEF Locks
<1>14. Client(p)' = [at |-> "pending", ws |-> ws, result |-> "none"] /\ Client(p).at = "idle"
  <2>1. op'[p] = r
    BY <1>7 DEF IInv
  <2> QED
    BY <1>1, <1>8, <2>1 DEF Client
<1>15. Atomic!Invoke(p)
  BY <1>13, <1>14, Requested DEF Atomic!Invoke, Clients
<1> QED
  BY <1>12, <1>15 DEF Implements, Atomic!Next

(* A call is answered.                                                      *)
LEMMA Settles ==
    ASSUME NEW p \in Proc, NEW result, Clients' = [Clients EXCEPT ![p] = Client(p)'],
           Client(p)' = [at |-> "done", ws |-> Client(p).ws, result |-> result]
    PROVE  Atomic!Settle(p, result) /\ Clients[p] = Client(p)
<1>1. Clients[p] = Client(p)
  BY DEF Clients
<1>2. Clients' = [Clients EXCEPT ![p] = [at |-> "done", ws |-> Clients[p].ws, result |-> result]]
  BY <1>1
<1> QED
  BY <1>1, <1>2, Zenon DEF Atomic!Settle, Clients

(* The name whose turn it is.                                               *)
LEMMA Turn ==
    ASSUME IInv, NEW p \in Proc, op[p].phase \in {"locking", "checking", "writing"}
    PROVE  LET r == op[p] IN
           /\ r.names \in Seq(Name) /\ r.done \in Nat /\ r.done + 1 \in DOMAIN r.names
           /\ At(p) \in Named(r) /\ At(p) \in Name /\ At(p) = r.names[r.done + 1]
           /\ First(r, r.done + 1) = First(r, r.done) \cup {At(p)}
           /\ r.done + 1 = Len(r.names) => First(r, r.done + 1) = Named(r)
           /\ \A i \in DOMAIN r.names : r.names[i] = At(p) => i = r.done + 1
<1> DEFINE r == op[p]
<1>1. r \in OpRecord /\ Formed(r)
  BY DEF IInv, Fits
<1>2. r.names \in Seq(Name) /\ r.done \in Nat /\ r.done < Len(r.names)
  BY <1>1 DEF OpRecord, Formed
<1>3. r.done + 1 \in DOMAIN r.names /\ At(p) = r.names[r.done + 1]
  BY <1>2 DEF At
<1>4. At(p) \in Name /\ At(p) \in Named(r)
  BY <1>2, <1>3 DEF Named
<1>5. First(r, r.done + 1) = First(r, r.done) \cup {At(p)}
  <2>1. 1..(r.done + 1) = (1..r.done) \cup {r.done + 1}
    BY <1>2
  <2> QED
    BY <1>3, <2>1 DEF First
<1>6. r.done + 1 = Len(r.names) => First(r, r.done + 1) = Named(r)
  BY <1>2 DEF First, Named
<1>7. \A i \in DOMAIN r.names : r.names[i] = At(p) => i = r.done + 1
  BY <1>1, <1>3 DEF Formed
<1> QED
  BY <1>2, <1>3, <1>4, <1>5, <1>6, <1>7

LEMMA TakeLockSteps ==
    ASSUME Locks, IInv, NEW p \in Proc, TakeLock(p) PROVE IInv' /\ Implements
<1>1. op[p] \in OpRecord /\ Fits(p) /\ op[p].phase = "locking" /\ Held(p) = First(op[p], op[p].done)
  BY DEF IInv, TakeLock, Fits, Locked
<1>2. PICK a \in Name : a = At(p)
  BY <1>1, Turn
<1>3. holder[a] = None /\ holder' = [holder EXCEPT ![a] = p]
      /\ UNCHANGED <<refs, packed, removing, used>>
  BY <1>2 DEF TakeLock, Locks
<1>4. p # None
  BY DEF Locks, RefAssumption
<1>5. Held(p)' = First(op[p], op[p].done + 1)
  <2>1. Held(p)' = Held(p) \cup {a}
    BY <1>2, <1>3, <1>4 DEF Held, IInv, TypeOK
  <2> QED
    BY <1>1, <1>2, <2>1, Turn
<1>6. PICK r \in OpRecord :
         r = IF op[p].done + 1 = Len(op[p].names)
               THEN [op[p] EXCEPT !.phase = "checking", !.done = 0]
               ELSE [op[p] EXCEPT !.done = @ + 1]
  <2>1. [op[p] EXCEPT !.phase = "checking", !.done = 0] \in OpRecord
    BY <1>1 DEF OpRecord, Phase
  <2>2. [op[p] EXCEPT !.done = @ + 1] \in OpRecord
    BY <1>1 DEF OpRecord
  <2> QED
    BY <2>1, <2>2
<1>7. op' = [op EXCEPT ![p] = r]
  BY <1>6 DEF TakeLock, Advance, Goto, IInv
<1>8. /\ r.kind = op[p].kind /\ r.ws = op[p].ws /\ r.names = op[p].names /\ r.result = op[p].result
      /\ r.phase = (IF op[p].done + 1 = Len(op[p].names) THEN "checking" ELSE "locking")
      /\ r.done = (IF op[p].done + 1 = Len(op[p].names) THEN 0 ELSE op[p].done + 1)
  BY <1>1, <1>6 DEF OpRecord
<1>9. Formed(r)
  BY <1>1, <1>8, Turn DEF Fits, Formed, Writes, Named
<1>10. Locked(p, r)'
  BY <1>1, <1>5, <1>8, Turn DEF Locked, First, Named
<1>11. Compared(r)'
  BY <1>8 DEF Compared
<1>12. IInv'
  <2>1. /\ refs' \in [Name -> Value] /\ packed' \in [Name -> Value]
        /\ holder' \in [Name -> Proc \cup {None}] /\ used' \in [calls : Nat, faults : Nat]
    BY <1>3 DEF IInv, TypeOK
  <2>2. \A n \in Name : holder'[n] # holder[n] => {holder[n], holder'[n]} \subseteq {p, None}
    BY <1>3 DEF IInv, TypeOK
  <2> QED
    BY <1>3, <1>7, <1>9, <1>10, <1>11, <2>1, <2>2, Moves DEF Locks
<1>13. UNCHANGED Settled /\ Clients' = [Clients EXCEPT ![p] = Client(p)']
  <2>1. \A n \in Name : holder'[n] # holder[n] => {holder[n], holder'[n]} \subseteq {p, None}
    BY <1>3 DEF IInv, TypeOK
  <2> QED
    BY <1>1, <1>3, <1>7, <1>8, <2>1, Unsettled DEF Locks
<1>14. Client(p)' = Client(p)
  <2>1. op'[p] = r
    BY <1>7 DEF IInv
  <2> QED
    BY <1>1, <1>8, <2>1 DEF Client
<1> QED
  BY <1>12, <1>13, <1>14, Stutters

LEMMA LockRefusedSteps ==
    ASSUME Locks, IInv, NEW p \in Proc, LockRefused(p) PROVE IInv' /\ Implements
<1>1. op[p] \in OpRecord /\ Fits(p) /\ op[p].phase = "locking"
  BY DEF IInv, LockRefused, Fits
<1>2. PICK r \in OpRecord :
         r = [op[p] EXCEPT !.phase = "releasing", !.done = 0, !.result = "LOCKED"]
  BY <1>1 DEF OpRecord, Phase, Result
<1>3. op' = [op EXCEPT ![p] = r]
  BY <1>2 DEF LockRefused, Finish, IInv
<1>4. /\ r.kind = op[p].kind /\ r.ws = op[p].ws /\ r.names = op[p].names
      /\ r.phase = "releasing" /\ r.result = "LOCKED"
  BY <1>1, <1>2 DEF OpRecord
<1>5. Formed(r) /\ Locked(p, r)' /\ Compared(r)'
  BY <1>1, <1>4 DEF Fits, Formed, Writes, Named, Locked, Compared
<1>6. UNCHANGED <<refs, packed, holder, removing>> /\ used' \in [calls : Nat, faults : Nat]
  BY DEF LockRefused, Faulty, IInv, TypeOK
<1>7. IInv'
  BY <1>3, <1>5, <1>6, MovesOn DEF Locks
<1>8. UNCHANGED Settled /\ Clients' = [Clients EXCEPT ![p] = Client(p)']
  BY <1>1, <1>3, <1>4, <1>6, Unsettled DEF Locks
<1>9. op'[p] = r
  BY <1>3 DEF IInv
<1>10. CASE Writes(op[p])
  <2>1. /\ Client(p) = [at |-> "pending", ws |-> op[p].ws, result |-> op[p].result]
        /\ Client(p)' = [at |-> "done", ws |-> op[p].ws, result |-> "LOCKED"]
    BY <1>1, <1>4, <1>9, <1>10 DEF Client, Writes
  <2>2. Clients[p] = Client(p) /\ Atomic!Settle(p, "LOCKED")
    <3>1. Client(p)' = [at |-> "done", ws |-> Client(p).ws, result |-> "LOCKED"]
      BY <2>1
    <3> QED
      BY <1>8, <3>1, Settles
  <2>3. Atomic!Break(p)
    BY <1>8, <2>1, <2>2 DEF Atomic!Break, Clients
  <2> QED
    BY <1>7, <2>3 DEF Implements, Atomic!Next
<1>11. CASE ~Writes(op[p])
  <2>1. Client(p)' = Client(p)
    BY <1>4, <1>9, <1>11 DEF Client, Writes
  <2> QED
    BY <1>7, <1>8, <2>1, Stutters
<1> QED
  BY <1>10, <1>11

LEMMA SameMatch ==
    /\ \A v, e : Matches(v, e) <=> Atomic!Matches(v, e)
    /\ \A e : Code(e) = Atomic!Code(e)
BY DEF Matches, Atomic!Matches, Code, Atomic!Code

LEMMA CheckSteps ==
    ASSUME Locks, IInv, NEW p \in Proc, Check(p) PROVE IInv' /\ Implements
<1> DEFINE last == op[p].done + 1 = Len(op[p].names)
<1>1. op[p] \in OpRecord /\ Fits(p) /\ op[p].phase = "checking" /\ Held(p) = Named(op[p])
  BY DEF IInv, Check, Fits, Locked
<1>2. PICK a \in Name : a = At(p) /\ a = op[p].names[op[p].done + 1] /\ a \in Named(op[p])
  BY <1>1, Turn
<1>3. PICK v \in Result : v = Verdict(p)
  BY DEF Verdict, Code, Result
<1>4. PICK next \in {"packing", "writing"} :
         next = IF op[p].kind = "pack" THEN "packing" ELSE "writing"
  OBVIOUS
<1>5. PICK phase \in Phase : phase = IF v # "none" THEN "releasing"
                                     ELSE IF last THEN next ELSE "checking"
  BY DEF Phase
<1>6. PICK done \in Nat : done = IF last \/ v # "none" THEN 0 ELSE op[p].done + 1
  BY <1>1 DEF OpRecord
<1>7. PICK seen \in [Name -> Value] : seen = [op[p].seen EXCEPT ![a] = refs[a]]
  BY <1>1 DEF OpRecord, IInv, TypeOK
<1>8. PICK r \in OpRecord :
         r = [op[p] EXCEPT !.seen = seen, !.done = done, !.phase = phase, !.result = v]
  BY <1>1 DEF OpRecord
<1>9. op' = [op EXCEPT ![p] = r]
  <2>1. op' = [op EXCEPT ![p].seen[a] = refs[a], ![p].done = done, ![p].phase = phase,
                         ![p].result = v]
    <3>1. op' = [op EXCEPT ![p].seen[a] = refs[a],
                           ![p].done = IF last \/ v # "none" THEN 0 ELSE op[p].done + 1,
                           ![p].phase = IF v # "none" THEN "releasing"
                                        ELSE IF last THEN next ELSE op[p].phase,
                           ![p].result = v]
      BY <1>2, <1>3, <1>4, Zenon DEF Check
    <3> HIDE DEF last
    <3> QED
      BY <1>1, <1>5, <1>6, <3>1
  <2> QED
    BY <1>1, <1>7, <1>8, <2>1 DEF IInv, OpRecord
<1>10. /\ r.kind = op[p].kind /\ r.ws = op[p].ws /\ r.names = op[p].names
       /\ r.seen = seen /\ r.done = done /\ r.phase = phase /\ r.result = v
  BY <1>1, <1>8 DEF OpRecord
<1>11. UNCHANGED <<refs, packed, holder, removing>> /\ used' \in [calls : Nat, faults : Nat]
  BY DEF Check, IInv, TypeOK
<1>12. op[p].kind # "none" /\ (op[p].kind # "pack" <=> Writes(op[p]))
  BY <1>1 DEF Fits, Formed, Writes
<1>13. op[p].done \in Nat /\ op[p].names \in Seq(Name) /\ op[p].done + 1 \in DOMAIN op[p].names
  BY <1>1, Turn
<1>14. Formed(r)
  BY <1>1, <1>4, <1>5, <1>6, <1>10, <1>12, <1>13 DEF Fits, Formed, Writes, Named
<1>15. Locked(p, r)'
  BY <1>1, <1>4, <1>5, <1>10, <1>11 DEF Locked, Named, Held
<1>16. ASSUME v = "none", NEW i \in 1..(op[p].done + 1) PROVE (Reads(r, r.names[i]) /\ Agrees(r, r.names[i]))'
  <2>1. i \in DOMAIN op[p].names /\ op[p].names[i] \in Name
    BY <1>13
  <2>2. CASE op[p].names[i] = a
    <3>1. Writes(op[p]) => Matches(refs[a], op[p].ws[a].expect)
      BY <1>2, <1>3, <1>12, <1>16 DEF Verdict, Code
    <3> QED
      BY <1>7, <1>10, <1>11, <2>1, <2>2, <3>1 DEF Reads, Agrees, Writes
  <2>3. CASE op[p].names[i] # a
    <3>1. i \in 1..op[p].done
      BY <1>2, <1>13, <2>3
    <3>2. Reads(op[p], op[p].names[i]) /\ Agrees(op[p], op[p].names[i])
      BY <1>1, <3>1 DEF Fits, Compared
    <3> QED
      BY <1>7, <1>10, <1>11, <2>1, <2>3, <3>2 DEF Reads, Agrees, Writes
  <2> QED
    BY <2>2, <2>3
<1>17. Compared(r)'
  <2>1. CASE v # "none"
    BY <1>5, <1>10, <2>1 DEF Compared
  <2>2. CASE v = "none" /\ ~last
    BY <1>5, <1>6, <1>10, <1>16, <2>2 DEF Compared
  <2>3. CASE v = "none" /\ last
    <3>1. phase = next /\ done = 0
      BY <1>5, <1>6, <2>3
    <3>2. \A i \in DOMAIN r.names : i \in 1..(op[p].done + 1) /\ i > 0
      BY <1>10, <1>13, <2>3
    <3>3. \A i \in DOMAIN r.names : (Reads(r, r.names[i]) /\ Agrees(r, r.names[i]))'
      BY <1>16, <2>3, <3>2
    <3> QED
      BY <1>4, <1>10, <3>1, <3>2, <3>3 DEF Compared
  <2> QED
    BY <2>1, <2>2, <2>3
<1>18. IInv'
  BY <1>9, <1>11, <1>14, <1>15, <1>17, MovesOn DEF Locks
<1>19. UNCHANGED Settled /\ Clients' = [Clients EXCEPT ![p] = Client(p)']
  <2>1. r.phase # "writing" \/ r.done = 0
    BY <1>5, <1>6, <1>10
  <2> QED
    BY <1>1, <1>9, <1>11, <2>1, Unsettled DEF Locks
<1>20. op'[p] = r
  BY <1>9 DEF IInv
<1>21. CASE v = "none"
  <2>1. op[p].result = "none"
    BY <1>1 DEF Fits, Formed
  <2>2. phase \notin {"idle", "reading", "releasing"}
    BY <1>4, <1>5, <1>21
  <2>3. Client(p)' = Client(p)
    BY <1>1, <1>10, <1>20, <1>21, <2>1, <2>2 DEF Client
  <2> QED
    BY <1>18, <1>19, <2>3, Stutters
<1>22. CASE v # "none"
  <2>1. /\ Writes(op[p]) /\ ~Matches(refs[a], op[p].ws[a].expect)
        /\ v = Code(op[p].ws[a].expect)
    BY <1>2, <1>3, <1>12, <1>22 DEF Verdict
  <2>2. a \in DOMAIN op[p].ws
    BY <1>1, <1>2, <2>1 DEF Fits, Formed
  <2>3. /\ Client(p) = [at |-> "pending", ws |-> op[p].ws, result |-> op[p].result]
        /\ Client(p)' = [at |-> "done", ws |-> op[p].ws, result |-> v]
    BY <1>1, <1>5, <1>10, <1>20, <1>22, <2>1 DEF Client, Writes
  <2>4. Clients[p] = Client(p) /\ Atomic!Settle(p, v)
    <3>1. Client(p)' = [at |-> "done", ws |-> Client(p).ws, result |-> v]
      BY <2>3
    <3> QED
      BY <1>19, <3>1, Settles
  <2>5. Settled[a] = refs[a]
    <3>1. holder[a] = p
      BY <1>1, <1>2 DEF Held
    <3> QED
      BY <1>1, <3>1, OwnRefs DEF Locks
  <2>6. Atomic!Refuse(p)
    BY <1>19, <2>1, <2>2, <2>3, <2>4, <2>5, SameMatch DEF Atomic!Refuse, Clients
  <2> QED
    BY <1>18, <2>6 DEF Implements, Atomic!Next
<1> QED
  BY <1>21, <1>22

(* A caller that writes has compared all its refs.                          *)
LEMMA Expectations ==
    ASSUME Locks, IInv, NEW p \in Proc, op[p].phase = "writing"
    PROVE  /\ op[p].ws \in Requests /\ DOMAIN op[p].ws = Named(op[p])
           /\ \A n \in Name : n \in Named(op[p]) <=> holder[n] = p
           /\ \A n \in Named(op[p]) : n \in Name /\ Settled[n] = op[p].seen[n]
           /\ Atomic!Holds(op[p].ws)
           /\ Client(p) = [at |-> "pending", ws |-> op[p].ws, result |-> op[p].result]
<1>1. op[p] \in OpRecord /\ Fits(p) /\ Writes(op[p]) /\ Held(p) = Named(op[p])
  BY DEF IInv, Fits, Formed, Locked
<1>2. op[p].ws \in Requests /\ DOMAIN op[p].ws = Named(op[p])
  BY <1>1 DEF Fits, Formed
<1>3. \A n \in Name : n \in Named(op[p]) <=> holder[n] = p
  BY <1>1 DEF Held
<1>4. ASSUME NEW n \in Named(op[p]) PROVE n \in Name /\ Settled[n] = op[p].seen[n]
  <2>1. n \in Name
    BY <1>1 DEF Held
  <2> QED
    BY <1>3, <2>1, OwnRefs DEF Locks
<1>5. ASSUME NEW n \in DOMAIN op[p].ws PROVE Atomic!Matches(Settled[n], op[p].ws[n].expect)
  <2>1. PICK i \in DOMAIN op[p].names : op[p].names[i] = n
    BY <1>2 DEF Named
  <2>2. Matches(op[p].seen[n], op[p].ws[n].expect)
    BY <1>1, <2>1 DEF Fits, Compared, Agrees
  <2> QED
    BY <1>2, <1>4, <2>2, SameMatch
<1>6. Client(p) = [at |-> "pending", ws |-> op[p].ws, result |-> op[p].result]
  BY <1>1 DEF Client, Writes
<1> QED
  BY <1>2, <1>3, <1>4, <1>5, <1>6 DEF Atomic!Holds

(* A caller whose last write lands, or that gives up, settles what it has   *)
(* written.                                                                 *)
LEMMA Settling ==
    ASSUME Locks, IInv, IInv', NEW p \in Proc, NEW r \in OpRecord, op' = [op EXCEPT ![p] = r],
           op[p].phase = "writing", r.phase = "releasing", UNCHANGED holder,
           \A n \in Name : holder[n] # p => refs'[n] = refs[n],
           NEW ns \in SUBSET Named(op[p]),
           \A n \in Named(op[p]) : refs'[n] = IF n \in ns THEN op[p].ws[n].new ELSE op[p].seen[n]
    PROVE  Settled' = Atomic!After(ns, op[p].ws)
<1>1. RefAssumption /\ RefAssumption'
  BY DEF Locks
<1>2. op'[p].phase = "releasing"
  BY DEF IInv
<1>3. ASSUME NEW n \in Name
      PROVE  Settled'[n] = IF n \in ns THEN op[p].ws[n].new ELSE Settled[n]
  <2>1. CASE n \in Named(op[p])
    <3>1. holder[n] = p /\ Settled[n] = op[p].seen[n]
      BY <2>1, Expectations
    <3>2. Settled'[n] = refs'[n]
      BY <1>2, <3>1 DEF Settled, HasWritten
    <3> QED
      BY <2>1, <3>1, <3>2
  <2>2. CASE n \notin Named(op[p])
    <3>1. holder[n] # p
      BY <2>2, Expectations
    <3>2. \A m \in Name : p \notin {holder[m], holder'[m]} => Settled'[m] = Settled[m]
      BY <1>1, Unseen
    <3> QED
      BY <2>2, <3>1, <3>2
  <2> QED
    BY <2>1, <2>2
<1>4. Settled' = [n \in Name |-> Settled'[n]]
  BY DEF Settled
<1> QED
  BY <1>3, <1>4 DEF Atomic!After

(* What a write leaves: the names up to the one whose turn it is are        *)
(* written, the ones after it are as they were read.                        *)
LEMMA Written ==
    ASSUME Locks, IInv, NEW p \in Proc, op[p].phase = "writing",
           refs' = [refs EXCEPT ![At(p)] = op[p].ws[At(p)].new]
    PROVE  /\ refs' \in [Name -> Value]
           /\ \A n \in Name : holder[n] # p => refs'[n] = refs[n]
           /\ \A i \in DOMAIN op[p].names :
                 refs'[op[p].names[i]] = IF i <= op[p].done + 1 THEN op[p].ws[op[p].names[i]].new
                                         ELSE op[p].seen[op[p].names[i]]
<1>1. op[p] \in OpRecord /\ Fits(p)
  BY DEF IInv
<1>2. PICK a \in Name : a = At(p) /\ a = op[p].names[op[p].done + 1] /\ a \in Named(op[p])
  BY Turn
<1>3. op[p].done \in Nat /\ op[p].names \in Seq(Name)
      /\ \A i \in DOMAIN op[p].names : op[p].names[i] = a => i = op[p].done + 1
  BY <1>2, Turn
<1>4. refs \in [Name -> Value] /\ refs' = [refs EXCEPT ![a] = op[p].ws[a].new]
  BY <1>2 DEF IInv, TypeOK
<1>5. op[p].ws[a].new \in Value
  <2>1. op[p].ws \in Requests /\ a \in DOMAIN op[p].ws
    BY <1>2, Expectations
  <2>2. op[p].ws[a] \in Write
    BY <2>1 DEF Requests
  <2> QED
    BY <2>2 DEF Write
<1>6. ASSUME NEW n \in Name, holder[n] # p PROVE refs'[n] = refs[n]
  <2>1. n # a
    BY <1>2, <1>6, Expectations
  <2> QED
    BY <1>4, <2>1
<1>7. ASSUME NEW i \in DOMAIN op[p].names
      PROVE  refs'[op[p].names[i]] = IF i <= op[p].done + 1 THEN op[p].ws[op[p].names[i]].new
                                     ELSE op[p].seen[op[p].names[i]]
  <2>1. i \in Nat /\ op[p].names[i] \in Name
    BY <1>3
  <2>2. CASE i = op[p].done + 1
    BY <1>2, <1>3, <1>4, <2>2
  <2>3. CASE i # op[p].done + 1
    <3>1. refs'[op[p].names[i]] = refs[op[p].names[i]]
      BY <1>3, <1>4, <2>1, <2>3
    <3>2. i <= op[p].done => refs[op[p].names[i]] = op[p].ws[op[p].names[i]].new
      BY <1>1 DEF Fits, Compared
    <3>3. i > op[p].done => refs[op[p].names[i]] = op[p].seen[op[p].names[i]]
      BY <1>1 DEF Fits, Compared, Reads
    <3> QED
      BY <1>3, <2>1, <2>3, <3>1, <3>2, <3>3
  <2> QED
    BY <2>2, <2>3
<1> QED
  BY <1>4, <1>5, <1>6, <1>7

LEMMA WriteRefSteps ==
    ASSUME Locks, IInv, NEW p \in Proc, WriteRef(p) PROVE IInv' /\ Implements
<1> DEFINE last == op[p].done + 1 = Len(op[p].names)
<1>1. op[p] \in OpRecord /\ Fits(p) /\ op[p].phase = "writing" /\ op[p].result = "none"
  BY DEF IInv, WriteRef, Fits, Formed
<1>2. op[p].done \in Nat /\ op[p].names \in Seq(Name) /\ op[p].done + 1 \in DOMAIN op[p].names
  BY <1>1, Turn
<1>3. refs' = [refs EXCEPT ![At(p)] = op[p].ws[At(p)].new]
      /\ UNCHANGED <<packed, holder, removing, used>>
  BY DEF WriteRef
<1>4. /\ refs' \in [Name -> Value]
      /\ \A n \in Name : holder[n] # p => refs'[n] = refs[n]
      /\ \A i \in DOMAIN op[p].names :
            refs'[op[p].names[i]] = IF i <= op[p].done + 1 THEN op[p].ws[op[p].names[i]].new
                                    ELSE op[p].seen[op[p].names[i]]
  BY <1>1, <1>3, Written
<1>5. PICK r \in OpRecord :
         r = IF last THEN [op[p] EXCEPT !.phase = "releasing", !.done = 0, !.result = "ok"]
             ELSE [op[p] EXCEPT !.done = @ + 1]
  <2>1. [op[p] EXCEPT !.phase = "releasing", !.done = 0, !.result = "ok"] \in OpRecord
    BY <1>1 DEF OpRecord, Phase, Result
  <2>2. [op[p] EXCEPT !.done = @ + 1] \in OpRecord
    BY <1>1 DEF OpRecord
  <2> QED
    BY <2>1, <2>2
<1>6. op' = [op EXCEPT ![p] = r]
  BY <1>5 DEF WriteRef, Finish, IInv
<1>7. /\ r.kind = op[p].kind /\ r.ws = op[p].ws /\ r.names = op[p].names /\ r.seen = op[p].seen
      /\ r.phase = (IF last THEN "releasing" ELSE "writing")
      /\ r.result = (IF last THEN "ok" ELSE "none")
      /\ ~last => r.done = op[p].done + 1
  BY <1>1, <1>5 DEF OpRecord
<1>8. op'[p] = r
  BY <1>6 DEF IInv
<1>9. Formed(r)
  BY <1>1, <1>2, <1>7 DEF Fits, Formed, Writes, Named
<1>10. Locked(p, r)'
  BY <1>1, <1>3, <1>7 DEF Fits, Locked, Named, Held
<1>11. Compared(r)'
  <2>1. CASE last
    BY <1>7, <2>1 DEF Compared
  <2>2. CASE ~last
    <3>1. r.phase = "writing" /\ r.done = op[p].done + 1
      BY <1>7, <2>2
    <3>2. ASSUME NEW i \in DOMAIN r.names
          PROVE  /\ Agrees(r, r.names[i])'
                 /\ i > r.done => Reads(r, r.names[i])'
                 /\ i <= r.done => refs'[r.names[i]] = r.ws[r.names[i]].new
      <4>1. Agrees(op[p], op[p].names[i])
        BY <1>1, <1>7, <3>2 DEF Fits, Compared
      <4>2. i \in Nat /\ r.done \in Nat
        BY <1>2, <1>7, <3>1, <3>2
      <4> QED
        BY <1>4, <1>7, <3>1, <4>1, <4>2 DEF Agrees, Reads, Writes
    <3> QED
      BY <3>1, <3>2 DEF Compared
  <2> QED
    BY <2>1, <2>2
<1>12. /\ \A n \in Name : holder'[n] # holder[n] => {holder[n], holder'[n]} \subseteq {p, None}
       /\ RefAssumption
  BY <1>3 DEF Locks
<1>13. IInv'
  <2>1. /\ packed' \in [Name -> Value] /\ holder' \in [Name -> Proc \cup {None}]
        /\ used' \in [calls : Nat, faults : Nat]
    BY <1>3 DEF IInv, TypeOK
  <2> QED
    BY <1>3, <1>4, <1>6, <1>9, <1>10, <1>11, <1>12, <2>1, Moves
<1>14. /\ Clients' = [Clients EXCEPT ![p] = Client(p)']
       /\ \A n \in Name : p \notin {holder[n], holder'[n]} => Settled'[n] = Settled[n]
  BY <1>4, <1>6, <1>12, Unseen
<1>15. CASE ~last
  <2>1. Client(p)' = Client(p)
    BY <1>1, <1>7, <1>8, <1>15 DEF Client
  <2>2. ASSUME NEW n \in Name, holder[n] = p PROVE Settled'[n] = Settled[n]
    <3>1. Settled[n] = op[p].seen[n]
      BY <1>1, <1>12, <2>2, OwnRefs
    <3>2. Settled'[n] = refs'[n] \/ Settled'[n] = op'[p].seen[n]
      BY <1>3, <2>2 DEF Settled
    <3>3. n \in Named(op[p])
      BY <1>1, <2>2, Expectations
    <3>4. PICK i \in DOMAIN op[p].names : op[p].names[i] = n
      BY <3>3 DEF Named
    <3>5. CASE i <= op[p].done + 1
      <4>1. op'[p].phase = "writing" /\ op'[p].names[i] = n /\ i \in 1..op'[p].done /\ holder'[n] = p
        BY <1>2, <1>3, <1>7, <1>8, <1>15, <2>2, <3>4, <3>5
      <4>2. Settled'[n] = op'[p].seen[n]
        BY <1>12, <4>1 DEF Settled, HasWritten, RefAssumption
      <4> QED
        BY <1>7, <1>8, <3>1, <4>2
    <3>6. CASE ~(i <= op[p].done + 1)
      BY <1>4, <1>7, <1>8, <3>1, <3>2, <3>4, <3>6
    <3> QED
      BY <3>5, <3>6
  <2>3. UNCHANGED Settled
    BY <1>3, <1>14, <2>2 DEF Settled
  <2> QED
    BY <1>13, <1>14, <2>1, <2>3, Stutters
<1>16. CASE last
  <2>1. \A n \in Named(op[p]) : refs'[n] = op[p].ws[n].new
    BY <1>2, <1>4, <1>16 DEF Named
  <2>2. Settled' = Atomic!After(Named(op[p]), op[p].ws)
    <3>1. r.phase = "releasing" /\ UNCHANGED holder
      BY <1>3, <1>7, <1>16
    <3> QED
      BY <1>1, <1>4, <1>6, <1>13, <2>1, <3>1, Settling
  <2>3. /\ Client(p) = [at |-> "pending", ws |-> op[p].ws, result |-> op[p].result]
        /\ DOMAIN op[p].ws = Named(op[p]) /\ Atomic!Holds(op[p].ws)
    BY <1>1, Expectations
  <2>4. Client(p)' = [at |-> "done", ws |-> Client(p).ws, result |-> "ok"]
    <3>1. op[p].kind \notin {"none", "pack"}
      BY <1>1 DEF Fits, Formed, Writes
    <3> QED
      BY <1>7, <1>8, <1>16, <2>3, <3>1 DEF Client
  <2>5. Atomic!Settle(p, "ok") /\ Clients[p] = Client(p)
    BY <1>14, <2>4, Settles
  <2>6. Atomic!Succeed(p)
    BY <2>2, <2>3, <2>5 DEF Atomic!Succeed, Clients
  <2> QED
    BY <1>13, <2>6 DEF Implements, Atomic!Next
<1> QED
  BY <1>15, <1>16

LEMMA WriteFailsSteps ==
    ASSUME Locks, IInv, NEW p \in Proc, WriteFails(p) PROVE IInv' /\ Implements
<1>1. op[p] \in OpRecord /\ Fits(p) /\ op[p].phase = "writing" /\ Writes(op[p])
  BY DEF IInv, WriteFails, Fits, Formed
<1>2. /\ op[p].done \in Nat /\ op[p].names \in Seq(Name) /\ op[p].done + 1 \in DOMAIN op[p].names
      /\ \A i, j \in DOMAIN op[p].names : op[p].names[i] = op[p].names[j] => i = j
  BY <1>1, Turn DEF Fits, Formed
<1>3. UNCHANGED <<packed, holder, removing>> /\ used' \in [calls : Nat, faults : Nat]
  BY DEF WriteFails, Faulty, IInv, TypeOK
<1>4. PICK k \in {op[p].done, op[p].done + 1} :
         /\ refs' \in [Name -> Value]
         /\ \A n \in Name : holder[n] # p => refs'[n] = refs[n]
         /\ \A i \in DOMAIN op[p].names :
               refs'[op[p].names[i]] = IF i <= k THEN op[p].ws[op[p].names[i]].new
                                       ELSE op[p].seen[op[p].names[i]]
  <2>1. CASE refs' = [refs EXCEPT ![At(p)] = op[p].ws[At(p)].new]
    BY <1>1, <2>1, Written
  <2>2. CASE UNCHANGED refs
    <3>1. refs' \in [Name -> Value] /\ \A n \in Name : refs'[n] = refs[n]
      BY <2>2 DEF IInv, TypeOK
    <3>2. ASSUME NEW i \in DOMAIN op[p].names
          PROVE  refs'[op[p].names[i]] = IF i <= op[p].done THEN op[p].ws[op[p].names[i]].new
                                         ELSE op[p].seen[op[p].names[i]]
      <4>1. i \in Nat
        BY <1>2
      <4> QED
        BY <1>1, <1>2, <2>2, <4>1 DEF Fits, Compared, Reads
    <3> QED
      BY <3>1, <3>2
  <2> QED
    BY <2>1, <2>2 DEF WriteFails
<1>5. PICK r \in OpRecord :
         r = [op[p] EXCEPT !.phase = "releasing", !.done = 0, !.result = "failed"]
  BY <1>1 DEF OpRecord, Phase, Result
<1>6. op' = [op EXCEPT ![p] = r] /\ op'[p] = r
  BY <1>5 DEF WriteFails, Finish, IInv
<1>7. /\ r.kind = op[p].kind /\ r.ws = op[p].ws /\ r.names = op[p].names
      /\ r.phase = "releasing" /\ r.result = "failed"
  BY <1>1, <1>5 DEF OpRecord
<1>8. Formed(r) /\ Locked(p, r)' /\ Compared(r)'
  BY <1>1, <1>7 DEF Fits, Formed, Writes, Named, Locked, Compared
<1>9. /\ \A n \in Name : holder'[n] # holder[n] => {holder[n], holder'[n]} \subseteq {p, None}
      /\ RefAssumption
  BY <1>3 DEF Locks
<1>10. IInv'
  <2>1. packed' \in [Name -> Value] /\ holder' \in [Name -> Proc \cup {None}]
    BY <1>3 DEF IInv, TypeOK
  <2> QED
    BY <1>3, <1>4, <1>6, <1>8, <1>9, <2>1, Moves
<1>11. Clients' = [Clients EXCEPT ![p] = Client(p)']
  BY <1>4, <1>6, <1>9, Unseen
<1> DEFINE ns == {op[p].names[i] : i \in {j \in DOMAIN op[p].names : j <= k}}
<1>12. ns \in SUBSET Named(op[p])
  BY DEF Named
<1>13. ASSUME NEW n \in Named(op[p])
       PROVE  refs'[n] = IF n \in ns THEN op[p].ws[n].new ELSE op[p].seen[n]
  <2>1. PICK i \in DOMAIN op[p].names : op[p].names[i] = n
    BY DEF Named
  <2>2. n \in ns <=> i <= k
    BY <1>2, <2>1
  <2> QED
    BY <1>4, <2>1, <2>2
<1> HIDE DEF ns
<1>14. Settled' = Atomic!After(ns, op[p].ws)
  BY <1>1, <1>3, <1>4, <1>6, <1>7, <1>10, <1>12, <1>13, Settling
<1>15. /\ Client(p) = [at |-> "pending", ws |-> op[p].ws, result |-> op[p].result]
       /\ DOMAIN op[p].ws = Named(op[p]) /\ Atomic!Holds(op[p].ws)
  BY <1>1, Expectations
<1>16. Client(p)' = [at |-> "done", ws |-> Client(p).ws, result |-> "failed"]
  BY <1>1, <1>6, <1>7, <1>15 DEF Client, Writes
<1>17. Atomic!Settle(p, "failed") /\ Clients[p] = Client(p)
  BY <1>11, <1>16, Settles
<1>18. Atomic!Break(p)
  BY <1>12, <1>14, <1>15, <1>17 DEF Atomic!Break, Clients
<1> QED
  BY <1>10, <1>18 DEF Implements, Atomic!Next

LEMMA PackWriteSteps ==
    ASSUME Locks, IInv, NEW p \in Proc, PackWrite(p) PROVE IInv' /\ Implements
<1>1. op[p] \in OpRecord /\ Fits(p) /\ op[p].phase = "packing" /\ op[p].kind = "pack"
  BY DEF IInv, PackWrite, Fits, Formed
<1>2. PICK r \in OpRecord :
         r = [op[p] EXCEPT !.phase = "releasing", !.done = 0, !.result = "ok"]
  BY <1>1 DEF OpRecord, Phase, Result
<1>3. op' = [op EXCEPT ![p] = r] /\ op'[p] = r
  BY <1>2 DEF PackWrite, Finish, IInv
<1>4. r.kind = "pack" /\ r.names = op[p].names /\ r.phase = "releasing" /\ r.result = "ok"
  BY <1>1, <1>2 DEF OpRecord
<1>5. Formed(r) /\ Locked(p, r)' /\ Compared(r)'
  BY <1>1, <1>4 DEF Fits, Formed, Writes, Locked, Compared
<1>6. UNCHANGED <<refs, holder, removing, used>> /\ packed' = op[p].seen
  BY DEF PackWrite
<1>7. /\ \A n \in Name : holder'[n] # holder[n] => {holder[n], holder'[n]} \subseteq {p, None}
      /\ \A n \in Name : refs'[n] = refs[n]
      /\ RefAssumption
  BY <1>6 DEF Locks
<1>8. IInv'
  <2>1. /\ refs' \in [Name -> Value] /\ packed' \in [Name -> Value]
        /\ holder' \in [Name -> Proc \cup {None}] /\ used' \in [calls : Nat, faults : Nat]
    BY <1>1, <1>6 DEF IInv, TypeOK, OpRecord
  <2> QED
    BY <1>3, <1>5, <1>6, <1>7, <2>1, Moves
<1>9. UNCHANGED Settled /\ Clients' = [Clients EXCEPT ![p] = Client(p)']
  BY <1>1, <1>3, <1>4, <1>6, <1>7, Unsettled
<1>10. Client(p)' = Client(p)
  BY <1>1, <1>3, <1>4 DEF Client
<1> QED
  BY <1>8, <1>9, <1>10, Stutters

LEMMA ReleaseSteps ==
    ASSUME Locks, IInv, NEW p \in Proc, Release(p) PROVE IInv' /\ Implements
<1>1. op[p] \in OpRecord /\ Fits(p) /\ op[p].phase = "releasing"
  BY DEF IInv, Release, Fits
<1>2. PICK n \in Held(p) : holder' = [holder EXCEPT ![n] = None]
  BY DEF Release
<1>3. n \in Name /\ holder[n] = p
  BY DEF Held
<1>4. UNCHANGED <<refs, packed, op, removing, used>>
  BY DEF Release
<1>5. PICK r \in OpRecord : r = op[p]
  BY <1>1
<1>6. op' = [op EXCEPT ![p] = r] /\ op'[p] = r
  BY <1>4, <1>5 DEF IInv
<1>7. Formed(r) /\ Locked(p, r)' /\ Compared(r)'
  BY <1>1, <1>5 DEF Fits, Locked, Compared
<1>8. /\ \A m \in Name : holder'[m] # holder[m] => {holder[m], holder'[m]} \subseteq {p, None}
      /\ \A m \in Name : refs'[m] = refs[m]
      /\ RefAssumption
  BY <1>2, <1>3, <1>4 DEF Locks, IInv, TypeOK
<1>9. IInv'
  <2>1. /\ refs' \in [Name -> Value] /\ packed' \in [Name -> Value]
        /\ holder' \in [Name -> Proc \cup {None}] /\ used' \in [calls : Nat, faults : Nat]
    BY <1>2, <1>4 DEF IInv, TypeOK
  <2> QED
    BY <1>4, <1>6, <1>7, <1>8, <2>1, Moves
<1>10. UNCHANGED Settled /\ Clients' = [Clients EXCEPT ![p] = Client(p)']
  BY <1>1, <1>4, <1>5, <1>6, <1>8, Unsettled
<1>11. Client(p)' = Client(p)
  BY <1>4 DEF Client
<1> QED
  BY <1>9, <1>10, <1>11, Stutters

LEMMA ReturnSteps ==
    ASSUME Locks, IInv, NEW p \in Proc, Return(p) PROVE IInv' /\ Implements
<1>1. op[p] \in OpRecord /\ Fits(p) /\ op[p].phase = "releasing" /\ Held(p) = {}
  BY DEF IInv, Return, Fits
<1>2. PICK r \in OpRecord :
         /\ op' = [op EXCEPT ![p] = r]
         /\ \/ r = NoOp
            \/ /\ r.kind = "retry" /\ op[p].kind = "retry" /\ r.phase = "reading"
               /\ r.names = op[p].names
  <2>1. CASE Retries(p)
    <3>1. op[p].kind = "retry" /\ op[p].tries + 1 \in 0..MaxRetries
      BY <1>1, <2>1 DEF Retries, OpRecord, Locks, RefAssumption
    <3>2. [op[p] EXCEPT !.phase = "reading", !.tries = @ + 1] \in OpRecord
      BY <1>1, <3>1 DEF OpRecord, Phase
    <3>3. op' = [op EXCEPT ![p] = [op[p] EXCEPT !.phase = "reading", !.tries = @ + 1]]
      BY <1>1, <2>1 DEF Return, IInv
    <3> QED
      BY <1>1, <3>1, <3>2, <3>3 DEF OpRecord
  <2>2. CASE ~Retries(p)
    <3>1. NoOp \in OpRecord
      BY NoOpIsOne DEF Locks
    <3> QED
      BY <2>2, <3>1 DEF Return
  <2> QED
    BY <2>1, <2>2
<1>3. op'[p] = r
  BY <1>2 DEF IInv
<1>4. r.phase \in {"idle", "reading"}
  BY <1>2 DEF NoOp
<1>5. UNCHANGED <<refs, packed, holder, removing>> /\ used' \in [calls : Nat, faults : Nat]
  BY DEF Return, IInv, TypeOK
<1>6. Formed(r)
  <2>1. CASE r = NoOp
    BY <2>1 DEF Formed, Writes, NoOp
  <2>2. CASE r # NoOp
    BY <1>1, <1>2, <2>2 DEF Fits, Formed, Writes
  <2> QED
    BY <2>1, <2>2
<1>7. Locked(p, r)' /\ Compared(r)'
  BY <1>1, <1>4, <1>5 DEF Locked, Compared, Held
<1>8. IInv'
  BY <1>2, <1>5, <1>6, <1>7, MovesOn DEF Locks
<1>9. UNCHANGED Settled /\ Clients' = [Clients EXCEPT ![p] = Client(p)']
  BY <1>1, <1>2, <1>4, <1>5, Unsettled DEF Locks
<1>10. Client(p)' = [at |-> "idle", ws |-> None, result |-> "none"]
  BY <1>3, <1>4 DEF Client
<1>11. CASE Writes(op[p])
  <2>1. Clients[p].at = "done"
    BY <1>1, <1>11 DEF Clients, Client, Writes
  <2>2. Atomic!Return(p)
    BY <1>9, <1>10, <2>1 DEF Atomic!Return, Atomic!Quiet, Clients
  <2> QED
    BY <1>8, <2>2 DEF Implements, Atomic!Next
<1>12. CASE ~Writes(op[p])
  <2>1. Client(p)' = Client(p)
    BY <1>10, <1>12 DEF Client, Writes
  <2> QED
    BY <1>8, <1>9, <2>1, Stutters
<1> QED
  BY <1>11, <1>12
-----------------------------------------------------------------------------
LEMMA NextSteps ==
    ASSUME Locks, IInv, [Next]_vars PROVE IInv' /\ Implements
<1>1. CASE UNCHANGED vars
  <2>1. IInv' <=> IInv
    BY <1>1 DEF vars, IInv, TypeOK, Fits, Locked, Held, Compared, Reads
  <2>2. UNCHANGED AtomicVars
    BY <1>1 DEF vars, AtomicVars, Settled, HasWritten, Client
  <2> QED
    BY <2>1, <2>2 DEF Implements
<1>2. CASE Next
  <2>1. PICK p \in Proc : \/ \E c \in Calls : Call(p, c)
                          \/ CallPack(p)
                          \/ \E n \in Name : CallRetry(p, n)
                          \/ LockRefused(p) \/ WriteFails(p)
                          \/ Step(p)
    BY <1>2 DEF Next
  <2>2. ~IssueRemoval(p) /\ ~RemovalLands(p)
    BY DEF Locks, IssueRemoval, RemovalLands, IInv
  <2>3. Step(p) => \/ \E new \in Sha : RetryRead(p, new)
                   \/ TakeLock(p) \/ Check(p) \/ WriteRef(p)
                   \/ PackWrite(p) \/ Release(p) \/ Return(p)
    BY <2>2 DEF Step
  <2> QED
    BY <2>1, <2>3, CallSteps, CallPackSteps, CallRetrySteps, RetryReadSteps, TakeLockSteps,
       LockRefusedSteps, CheckSteps, WriteRefSteps, WriteFailsSteps, PackWriteSteps,
       ReleaseSteps, ReturnSteps
<1> QED
  BY <1>1, <1>2

LEMMA Invariance ==
    ASSUME Locks PROVE Spec => []IInv
<1>1. Init => IInv
  BY Initially DEF Locks
<1>2. IInv /\ [Next]_vars => IInv'
  BY NextSteps
<1> QED
  BY <1>1, <1>2, PTL DEF Spec

(* Every variable keeps its type.                                           *)
THEOREM TypeCorrect ==
    ASSUME Locks PROVE Spec => []TypeOK
<1>1. IInv => TypeOK
  BY DEF IInv
<1> QED
  BY <1>1, Invariance, PTL

(* Every call takes effect at one moment, when what it expects holds, or is *)
(* refused because something does not, or stops where the backend fails.    *)
THEOREM Implementation ==
    ASSUME Locks PROVE Spec => ImplementsAtomicRefs
<1>1. Init => Atomic!Init
  <2> SUFFICES ASSUME Init PROVE Atomic!Init
    OBVIOUS
  <2>1. Settled = refs
    BY DEF Init, Settled
  <2>2. \A p \in Proc : Client(p) = [at |-> "idle", ws |-> None, result |-> "none"]
    BY DEF Init, NoOp, Client
  <2> QED
    BY <2>1, <2>2 DEF Init, Atomic!Init, Atomic!Quiet, Value, Atomic!Value
<1>2. IInv /\ [Next]_vars => (UNCHANGED AtomicVars \/ Atomic!Next)
  BY NextSteps DEF Implements
<1>3. IInv /\ [Next]_vars => [UNCHANGED AtomicVars \/ Atomic!Next]_vars
  BY <1>2
<1> QED
  BY <1>1, <1>3, Invariance, PTL DEF Spec, ImplementsAtomicRefs

(* The file a packRefs writes is what its refs are at that moment.          *)
THEOREM PacksAreSnapshots ==
    ASSUME Locks PROVE Spec => PackIsSnapshot
<1>1. IInv /\ [Next]_vars => [PacksSnapshot]_vars
  <2> SUFFICES ASSUME IInv, Next, NEW p \in Proc,
                      op[p].phase = "packing", op'[p].phase = "releasing"
               PROVE  \A i \in DOMAIN op[p].names : packed'[op[p].names[i]] = refs[op[p].names[i]]
    BY DEF PacksSnapshot
  <2>1. Fits(p)
    BY DEF IInv
  <2>2. PackWrite(p)
    <3>1. PICK q \in Proc : \/ \E c \in Calls : Call(q, c)
                            \/ CallPack(q)
                            \/ \E n \in Name : CallRetry(q, n)
                            \/ LockRefused(q) \/ WriteFails(q)
                            \/ Step(q)
      BY DEF Next
    <3>2. CASE q = p
      BY <3>1, <3>2 DEF Call, CallPack, CallRetry, LockRefused, WriteFails, Step, RetryRead, TakeLock,
         Check, WriteRef, IssueRemoval, RemovalLands, Release, Return, IInv
    <3>3. CASE q # p
      <4>1. ASSUME LockRefused(q) \/ WriteFails(q) \/ WriteRef(q) \/ IssueRemoval(q) \/ PackWrite(q)
            PROVE  op'[p] = op[p]
        BY <3>3, <4>1 DEF LockRefused, WriteFails, WriteRef, IssueRemoval, PackWrite, Finish, IInv
      <4>2. ASSUME TakeLock(q) \/ Check(q) \/ RemovalLands(q) \/ Release(q) \/ Return(q)
            PROVE  op'[p] = op[p]
        BY <3>3, <4>2 DEF TakeLock, Advance, Goto, Check, RemovalLands, Release, Return, IInv
      <4>3. ASSUME NEW c, Call(q, c) PROVE op'[p] = op[p]
        BY <3>3, <4>3 DEF Call, IInv
      <4>4. ASSUME CallPack(q) PROVE op'[p] = op[p]
        BY <3>3, <4>4 DEF CallPack, IInv
      <4>5. ASSUME NEW n, CallRetry(q, n) \/ RetryRead(q, n) PROVE op'[p] = op[p]
        BY <3>3, <4>5 DEF CallRetry, RetryRead, IInv
      <4> QED
        BY <3>1, <4>1, <4>2, <4>3, <4>4, <4>5 DEF Step
    <3> QED
      BY <3>2, <3>3
  <2> QED
    BY <2>1, <2>2 DEF PackWrite, Fits, Compared, Reads
<1> QED
  BY <1>1, Invariance, PTL DEF Spec, PackIsSnapshot

(* A nonempty bounded set of numbers has a greatest element.                *)
LEMMA Greatest ==
    ASSUME NEW n \in Nat, NEW T \in SUBSET (0..n), T # {}
    PROVE  \E t \in T : \A y \in T : y <= t
<1> DEFINE Less == {ss \in Nat \X Nat : ss[1] < ss[2]}
           U == {n - t : t \in T}
<1>1. IsWellFoundedOn(Less, Nat)
  BY NatLessThanWellFounded DEF OpToRel
<1>2. U \subseteq Nat /\ U # {}
  <2>1. \A t \in T : n - t \in Nat
    OBVIOUS
  <2> QED
    BY <2>1
<1>3. PICK u \in U : \A y \in U : <<y, u>> \notin Less
  <2> HIDE DEF Less, U
  <2> QED
    BY <1>1, <1>2, WFMin
<1>4. PICK t \in T : u = n - t
  OBVIOUS
<1>5. ASSUME NEW y \in T PROVE y <= t
  <2>1. n - y \in U /\ n - y \in Nat /\ u \in Nat
    BY <1>2
  <2>2. ~(n - y < u)
    BY <1>3, <2>1
  <2> QED
    BY <1>4, <2>1, <2>2
<1> QED
  BY <1>5

(* No circle of callers waits for each other's locks: each waits for a name *)
(* that comes later in Order than all it has locked.                        *)
THEOREM OrderedLocks ==
    ASSUME Locks PROVE Spec => []LocksAreOrdered
<1>1. IInv => LocksAreOrdered
  <2> SUFFICES ASSUME IInv, NEW D \in SUBSET {p \in Proc : op[p].kind # "pack" /\ Waits(p)},
                      \A p \in D : holder[At(p)] \in D, D # {}
               PROVE  FALSE
    BY DEF LocksAreOrdered
  <2> DEFINE T == {i \in DOMAIN Order : \E p \in D : At(p) = Order[i]}
  <2>1. Order \in Seq(Name) /\ \A n \in Name : \E i \in DOMAIN Order : Order[i] = n
    BY DEF Locks, RefAssumption
  <2>2. \A p \in D : p \in Proc /\ op[p].phase = "locking" /\ At(p) \in Name
    BY Turn DEF Waits
  <2>3. T # {} /\ T \in SUBSET (0..Len(Order)) /\ Len(Order) \in Nat
    BY <2>1, <2>2
  <2>4. PICK t \in T : \A y \in T : y <= t
    <3> HIDE DEF T
    <3> QED
      BY <2>3, Greatest
  <2>5. PICK p \in D : At(p) = Order[t]
    OBVIOUS
  <2>6. PICK q \in D : holder[At(p)] = q
    OBVIOUS
  <2>7. /\ op[q] \in OpRecord /\ Fits(q) /\ Writes(op[q]) /\ At(p) \in First(op[q], op[q].done)
    BY <2>2, <2>6 DEF IInv, Fits, Formed, Locked, Held, Writes
  <2>8. PICK i \in 1..op[q].done : op[q].names[i] = At(p)
    BY <2>7 DEF First
  <2>9. i < op[q].done + 1 /\ {i, op[q].done + 1} \subseteq DOMAIN op[q].names
        /\ At(q) = op[q].names[op[q].done + 1]
    BY <2>2, Turn
  <2>10. Before(Order, At(p), At(q))
    BY <2>7, <2>8, <2>9 DEF Fits, Formed
  <2>11. PICK a, b \in DOMAIN Order : a < b /\ Order[a] = At(p) /\ Order[b] = At(q)
    BY <2>10 DEF Before
  <2>12. a = t /\ b \in T
    BY <2>5, <2>11 DEF Locks, RefAssumption
  <2> QED
    BY <2>1, <2>4, <2>11, <2>12
<1> QED
  BY <1>1, Invariance, PTL
=============================================================================

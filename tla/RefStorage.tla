----------------------------- MODULE RefStorage -----------------------------
(***************************************************************************)
(* refs/storage.ts: updateRef, deleteRef, batchUpdateRefs, packRefs and    *)
(* updateRefWithRetry over a backend of refs, packed refs and locks.       *)
(*                                                                         *)
(* Every operation takes the locks of its refs, reads and compares, writes *)
(* and releases, each step behind an await, so that calls interleave at    *)
(* every one of them.  The backend is an interface: its lock may make a    *)
(* caller wait or refuse it, a write may fail (and may have landed all the *)
(* same), a removal may land after its promise has been handed on.         *)
(***************************************************************************)
EXTENDS FiniteSets, Sequences, Naturals

CONSTANTS
    Name,           \* ref names other than HEAD
    Sha,            \* what a ref may point at
    None,           \* no ref; no lock holder
    Proc,           \* callers
    Order,          \* the names in the order of localeCompare
    Listings,       \* the orders in which the backend may list its refs
    Calls,          \* what is asked: [kind, ws], ws from names to [new, expect]
    MaxRetries,     \* updateRefWithRetry: attempts after the first
    PromptRemoval,  \* a backend removes a ref before it returns the promise
    Locking,        \* a RefStorageBackend; a StorageBackend has no locks
    MaxCalls,       \* bound: calls
    MaxFaults       \* bound: refused locks and failed writes

\* An expected old value, or "anything" (force, or create alone), or
\* "existing" (neither given: the ref must be there).
Value == Sha \cup {None}
Expected == Value \cup {"anything", "existing"}
Write == [new : Value, expect : Expected]

RefAssumption ==
    /\ None \notin Sha \cup Proc \cup Name
    /\ {"anything", "existing"} \cap Value = {}
    /\ \A c \in Calls : /\ c.kind \in {"update", "delete", "batch"}
                        /\ DOMAIN c.ws \subseteq Name /\ DOMAIN c.ws # {}
                        /\ c.ws \in [DOMAIN c.ws -> Write]
    /\ Order \in Seq(Name) /\ Listings \subseteq Seq(Name)
    /\ \A order \in Listings \cup {Order} :
          /\ \A n \in Name : \E i \in DOMAIN order : order[i] = n
          /\ \A i, j \in DOMAIN order : order[i] = order[j] => i = j
    /\ {MaxRetries, MaxCalls, MaxFaults} \subseteq Nat
    /\ PromptRemoval \in BOOLEAN /\ Locking \in BOOLEAN

VARIABLES
    refs,       \* backend: the value of each ref
    packed,     \* backend: the packed-refs file
    holder,     \* backend: who holds the lock of each ref
    op,         \* the operation each caller is in
    removing,   \* callers whose removal the backend has not applied yet
    used        \* counters behind the bounds

vars == <<refs, packed, holder, op, removing, used>>

Phase == {"idle", "reading", "locking", "checking", "writing", "packing", "releasing"}
Result == {"none", "ok", "failed", "LOCKED", "ALREADY_EXISTS", "NOT_FOUND", "CONFLICT"}

NoOp == [ kind |-> "none", ws |-> <<>>, names |-> <<>>, phase |-> "idle", done |-> 0,
          seen |-> [n \in Name |-> None], tries |-> 0, result |-> "none" ]

Init == /\ refs \in [Name -> Value]
        /\ packed = [n \in Name |-> None]
        /\ holder = [n \in Name |-> None]
        /\ op = [p \in Proc |-> NoOp]
        /\ removing = {}
        /\ used = [calls |-> 0, faults |-> 0]

Held(p) == {n \in Name : holder[n] = p}

\* The name whose turn it is: of the lock, the check or the write.
At(p) == op[p].names[op[p].done + 1]

\* The conditions on oldValue, force and create in updateRef, deleteRef and
\* batchUpdateRefs, and the code of the error if they are not met.
Matches(v, e) == e = "anything" \/ (e = "existing" /\ v # None) \/ v = e

Code(e) == IF e = None THEN "ALREADY_EXISTS"
           ELSE IF e = "existing" THEN "NOT_FOUND" ELSE "CONFLICT"

Before(order, m, n) == \E i, j \in DOMAIN order : i < j /\ order[i] = m /\ order[j] = n

\* The names of ns one after the other, in the order of one of orders.
Arranged(ns, orders) ==
    {names \in UNION {[1..k -> ns] : k \in 0..Len(Order)} :
        /\ \A n \in ns : \E i \in DOMAIN names : names[i] = n
        /\ \E order \in orders :
              \A i, j \in DOMAIN names : i < j => Before(order, names[i], names[j])}

\* A wrong LockOrder: a batch keeps the order in which its updates are given.
LockOrder_Unsorted(kind, ns) == Arranged(ns, Listings)

\* batchUpdateRefs sorts its updates by name; packRefs keeps the order in
\* which the backend listed the refs.
LockOrder(kind, ns) == Arranged(ns, IF kind = "pack" THEN Listings ELSE {Order})

Goto(p, phase) == op' = [op EXCEPT ![p].phase = phase, ![p].done = 0]
Advance(p, next) == IF op[p].done + 1 = Len(op[p].names)
                      THEN Goto(p, next) ELSE op' = [op EXCEPT ![p].done = @ + 1]
Finish(p, result) == op' = [op EXCEPT ![p].phase = "releasing", ![p].done = 0, ![p].result = result]
Counted == used.calls < MaxCalls /\ used' = [used EXCEPT !.calls = @ + 1]
Faulty == used.faults < MaxFaults /\ used' = [used EXCEPT !.faults = @ + 1]
-----------------------------------------------------------------------------
\* updateRef, deleteRef or batchUpdateRefs is called.
Call(p, c) ==
    /\ op[p].phase = "idle" /\ Counted
    /\ \E names \in LockOrder(c.kind, DOMAIN c.ws) :
          op' = [op EXCEPT ![p] = [NoOp EXCEPT !.kind = c.kind, !.ws = c.ws,
                                               !.names = names, !.phase = "locking"]]
    /\ UNCHANGED <<refs, packed, holder, removing>>

\* A wrong CallPack: reads the refs without locking them.
CallPack_Unlocked(p) ==
    /\ op[p].phase = "idle" /\ Counted
    /\ \E names \in LockOrder("pack", {n \in Name : refs[n] # None}) :
          op' = [op EXCEPT ![p] = [NoOp EXCEPT !.kind = "pack", !.names = names,
                    !.phase = IF names = <<>> THEN "packing" ELSE "checking"]]
    /\ UNCHANGED <<refs, packed, holder, removing>>

\* packRefs lists the refs, then locks what it found.
CallPack(p) ==
    /\ op[p].phase = "idle" /\ Counted
    /\ \E names \in LockOrder("pack", {n \in Name : refs[n] # None}) :
          op' = [op EXCEPT ![p] = [NoOp EXCEPT !.kind = "pack", !.names = names,
                    !.phase = IF names = <<>> THEN "packing" ELSE "locking"]]
    /\ UNCHANGED <<refs, packed, holder, removing>>

\* updateRefWithRetry starts on a ref.
CallRetry(p, n) ==
    /\ op[p].phase = "idle" /\ Counted
    /\ op' = [op EXCEPT ![p] = [NoOp EXCEPT !.kind = "retry", !.names = <<n>>, !.phase = "reading"]]
    /\ UNCHANGED <<refs, packed, holder, removing>>

\* It reads the ref without a lock, computes a new value from what it read
\* and calls updateRef with it.
RetryRead(p, new) ==
    LET n == op[p].names[1] IN
    /\ op[p].phase = "reading" /\ new # refs[n]
    /\ op' = [op EXCEPT ![p].ws = [m \in {n} |-> [new |-> new, expect |-> refs[n]]],
                        ![p].phase = "locking", ![p].done = 0, ![p].result = "none"]
    /\ UNCHANGED <<refs, packed, holder, removing, used>>

\* getLock; over a StorageBackend it hands out a lock that locks nothing.
TakeLock(p) ==
    /\ op[p].phase = "locking" /\ holder[At(p)] = None
    /\ holder' = IF Locking THEN [holder EXCEPT ![At(p)] = p] ELSE holder
    /\ Advance(p, "checking")
    /\ UNCHANGED <<refs, packed, removing, used>>

\* The backend gives up on a lock that is held.
LockRefused(p) ==
    /\ op[p].phase = "locking" /\ holder[At(p)] # None /\ Faulty
    /\ Finish(p, "LOCKED")
    /\ UNCHANGED <<refs, packed, holder, removing>>

\* A wrong Verdict: refs named after the first are not compared.
Verdict_FirstOnly(p) ==
    IF op[p].kind = "pack" \/ op[p].done > 0 \/ Matches(refs[At(p)], op[p].ws[At(p)].expect)
      THEN "none" ELSE Code(op[p].ws[At(p)].expect)

\* What comes of comparing the next ref: "none" if it is as expected.
Verdict(p) == IF op[p].kind = "pack" \/ Matches(refs[At(p)], op[p].ws[At(p)].expect)
                THEN "none" ELSE Code(op[p].ws[At(p)].expect)

\* getRef and the comparison; all refs are compared before any is written.
Check(p) ==
    /\ op[p].phase = "checking"
    /\ LET last == op[p].done + 1 = Len(op[p].names)
           next == IF op[p].kind = "pack" THEN "packing" ELSE "writing"
           v    == Verdict(p)
       IN  op' = [op EXCEPT ![p].seen[At(p)] = refs[At(p)],
                            ![p].done = IF last \/ v # "none" THEN 0 ELSE @ + 1,
                            ![p].phase = IF v # "none" THEN "releasing"
                                         ELSE IF last THEN next ELSE @,
                            ![p].result = v]
    /\ UNCHANGED <<refs, packed, holder, removing, used>>

\* writeRef; deleteRef removes the ref if there is one.
WriteRef(p) ==
    /\ op[p].phase = "writing"
    /\ op[p].kind = "delete" => PromptRemoval \/ op[p].seen[At(p)] = None
    /\ refs' = [refs EXCEPT ![At(p)] = op[p].ws[At(p)].new]
    /\ IF op[p].done + 1 = Len(op[p].names)
         THEN Finish(p, "ok") ELSE op' = [op EXCEPT ![p].done = @ + 1]
    /\ UNCHANGED <<packed, holder, removing, used>>

\* deleteRef returns the promise of the removal from inside its try: the
\* finally block releases the lock without waiting for it.
IssueRemoval(p) ==
    /\ op[p].phase = "writing" /\ op[p].kind = "delete" /\ ~PromptRemoval
    /\ op[p].seen[At(p)] # None
    /\ removing' = removing \cup {p}
    /\ Finish(p, "ok")
    /\ UNCHANGED <<refs, packed, holder, used>>

RemovalLands(p) ==
    /\ p \in removing
    /\ refs' = [refs EXCEPT ![op[p].names[1]] = None]
    /\ removing' = removing \ {p}
    /\ UNCHANGED <<packed, holder, op, used>>

\* writeRef rejects, whether or not the write has landed.
WriteFails(p) ==
    /\ op[p].phase = "writing" /\ op[p].kind # "delete" /\ Faulty
    /\ \/ refs' = [refs EXCEPT ![At(p)] = op[p].ws[At(p)].new]
       \/ UNCHANGED refs
    /\ Finish(p, "failed")
    /\ UNCHANGED <<packed, holder, removing>>

PackWrite(p) ==
    /\ op[p].phase = "packing"
    /\ packed' = op[p].seen
    /\ Finish(p, "ok")
    /\ UNCHANGED <<refs, holder, removing, used>>

\* The finally blocks, one lock at a time.
Release(p) ==
    /\ op[p].phase = "releasing"
    /\ \E n \in Held(p) : holder' = [holder EXCEPT ![n] = None]
    /\ UNCHANGED <<refs, packed, op, removing, used>>

\* Only CONFLICT is tried again, MaxRetries times at most.
Retries(p) == op[p].kind = "retry" /\ op[p].result = "CONFLICT" /\ op[p].tries < MaxRetries

\* The promise settles; updateRefWithRetry may go round again.
Return(p) ==
    /\ op[p].phase = "releasing" /\ Held(p) = {} /\ p \notin removing
    /\ op' = IF Retries(p) THEN [op EXCEPT ![p].phase = "reading", ![p].tries = @ + 1]
             ELSE [op EXCEPT ![p] = NoOp]
    /\ UNCHANGED <<refs, packed, holder, removing, used>>

Step(p) == \/ \E new \in Sha : RetryRead(p, new)
           \/ TakeLock(p) \/ Check(p) \/ WriteRef(p) \/ IssueRemoval(p) \/ RemovalLands(p)
           \/ PackWrite(p) \/ Release(p) \/ Return(p)

Next == \E p \in Proc : \/ \E c \in Calls : Call(p, c)
                        \/ CallPack(p)
                        \/ \E n \in Name : CallRetry(p, n)
                        \/ LockRefused(p) \/ WriteFails(p)
                        \/ Step(p)

Spec == Init /\ [][Next]_vars

\* The backend answers every request; nobody is made to call, and a lock
\* that is free is had by somebody, each time by another caller at most as
\* often as there are calls.
FairSpec == Spec /\ \A p \in Proc : WF_vars(Step(p))
-----------------------------------------------------------------------------
TypeOK ==
    /\ refs \in [Name -> Value] /\ packed \in [Name -> Value]
    /\ holder \in [Name -> Proc \cup {None}]
    /\ DOMAIN op = Proc
    /\ \A p \in Proc :
          /\ op[p].kind \in {"none", "update", "delete", "batch", "pack", "retry"}
          /\ op[p].phase \in Phase /\ op[p].result \in Result
          /\ op[p].done \in Nat /\ op[p].tries \in 0..MaxRetries
          /\ op[p].names \in Seq(Name) /\ op[p].seen \in [Name -> Value]
    /\ removing \subseteq Proc
    /\ used \in [calls : Nat, faults : Nat]

\* p has written n, and has more to write.
HasWritten(p, n) == /\ op[p].phase = "writing"
                    /\ \E i \in 1..op[p].done : op[p].names[i] = n

\* The refs as they are when what is half written does not count.
Settled == [n \in Name |-> IF holder[n] # None /\ HasWritten(holder[n], n)
                             THEN op[holder[n]].seen[n] ELSE refs[n]]

\* Each caller as AtomicRefs sees it.
Client(p) ==
    IF op[p].kind \in {"none", "pack"} \/ op[p].phase \in {"idle", "reading"}
      THEN [at |-> "idle", ws |-> None, result |-> "none"]
      ELSE [at |-> IF op[p].phase = "releasing" THEN "done" ELSE "pending",
            ws |-> op[p].ws, result |-> op[p].result]

Atomic == INSTANCE AtomicRefs WITH refs <- Settled, client <- [p \in Proc |-> Client(p)]

(* Though reads, comparisons and writes are apart, and a batch is written   *)
(* ref by ref, each call takes effect at one moment at which what it        *)
(* expects holds, or is refused because something does not: no update made  *)
(* between the comparison and the write is lost.                            *)
AtomicVars == <<Settled, [p \in Proc |-> Client(p)]>>
ImplementsAtomicRefs == Atomic!Init /\ [][UNCHANGED AtomicVars \/ Atomic!Next]_vars

PacksSnapshot ==
    \A p \in Proc : op[p].phase = "packing" /\ op'[p].phase = "releasing" =>
        \A i \in DOMAIN op[p].names : packed'[op[p].names[i]] = refs[op[p].names[i]]

(* "locks on all refs being packed for transactional consistency": the file *)
(* packRefs writes is what all the refs it lists are at that moment, not a  *)
(* mixture of before and after some batch.                                  *)
PackIsSnapshot == [][PacksSnapshot]_vars

Waits(p) == op[p].phase = "locking" /\ holder[At(p)] # None

(* No circle of callers waits for each other's locks, unless a packRefs is  *)
(* one of them: "Sort by name to prevent deadlocks from different lock      *)
(* acquisition orders" (batchUpdateRefs).                                   *)
LocksAreOrdered ==
    \A D \in SUBSET {p \in Proc : op[p].kind # "pack" /\ Waits(p)} :
        (\A p \in D : holder[At(p)] \in D) => D = {}

(* The same, whoever packs: every call returns.                             *)
CallsReturn == \A p \in Proc : (op[p].phase # "idle" ~> op[p].phase = "idle")

(* "Updates the ref only if its current value matches the expected value"   *)
(* (compareAndSwap): when the write of an update lands.                     *)
SwapComparesWhatItWrites ==
    [][\A p \in Proc : op[p].phase = "writing" /\ op[p].kind = "update" /\ op'[p].result = "ok" =>
          Matches(refs[At(p)], op[p].ws[At(p)].expect)]_vars

(* "If any update fails, all updates are rolled back (all-or-nothing        *)
(* semantics)" (batchUpdateRefs): a call that is over and was not accepted  *)
(* has left the refs it compared as they were.                              *)
BatchIsAllOrNothing ==
    \A p \in Proc : op[p].phase = "releasing" /\ op[p].kind = "batch" /\ op[p].result = "failed" =>
        \A n \in Held(p) : refs[n] = op[p].seen[n]

(* "Uses locking for atomic compare-and-swap operations when oldValue is    *)
(* specified" (deleteRef): what is removed is what was compared.            *)
DeleteRemovesWhatItSaw ==
    [][\A p \in removing : p \notin removing' =>
          refs[op[p].names[1]] = op[p].seen[op[p].names[1]]]_vars

(* "Performs an atomic update with automatic retry logic for handling       *)
(* concurrent modifications" (updateRefWithRetry): a concurrent             *)
(* modification is the reason to give up only when the attempts are used.   *)
RetryIsPatient ==
    \A p \in Proc : op[p].phase = "releasing" /\ op[p].kind = "retry"
                    /\ op[p].result \in {"CONFLICT", "ALREADY_EXISTS"} /\ Held(p) = {} =>
        Retries(p) \/ op[p].tries = MaxRetries
=============================================================================

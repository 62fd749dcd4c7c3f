------------------------------ MODULE RefTable ------------------------------
(***************************************************************************)
(* The refs table of the Durable Object and the code that goes through it: *)
(* GitBackendAdapter with its cache of all refs (do/git-backend-adapter.ts)*)
(* ParquetRefStore with its dirty flag and the copy it keeps on R2         *)
(* (storage/parquet-ref-store.ts), and pushes, which write the table       *)
(* directly (storage/push-transaction.ts).                                 *)
(*                                                                         *)
(* SQL statements are synchronous, so every access to the table is one     *)
(* step; what interleaves is a copy on its way to R2.                      *)
(***************************************************************************)
EXTENDS Naturals

CONSTANTS
    Name, Sha, None,
    Users,      \* who uses the table: a subset of {"adapter", "store", "push"}
    Sync,       \* syncToR2 calls that may be under way together
    MaxSyncs,   \* bound: copies started
    MaxFaults   \* bound: failed puts

Value == Sha \cup {None}

TableAssumption ==
    /\ None \notin Sha /\ "cas" \notin Sha
    /\ Users \subseteq {"adapter", "store", "push"}
    /\ {MaxSyncs, MaxFaults} \subseteq Nat

VARIABLES
    rows,       \* the refs table
    cache,      \* refCache of the adapter: None, or what it believes the refs are
    dirty,      \* the flag of ParquetRefStore
    file,       \* refs.ndjson on R2
    copy,       \* each syncToR2: what it puts, and whether R2 has it yet
    answer,     \* what the last compare-and-swap of the store answered
    by,         \* history: who wrote each row last; "late" is the store with a
                \* copy on its way
    used        \* counters behind the bounds

vars == <<rows, cache, dirty, file, copy, answer, by, used>>

Table == [Name -> Value]
NoCopy == [refs |-> None, landed |-> FALSE]

Init == /\ rows \in Table
        /\ cache = None
        /\ dirty = FALSE /\ file = rows
        /\ copy = [s \in Sync |-> NoCopy]
        /\ answer = "none"
        /\ by = [n \in Name |-> "nobody"]
        /\ used = [syncs |-> 0, faults |-> 0]

NoCopies == \A s \in Sync : copy[s] = NoCopy
Set(n, v, user) == /\ rows' = [rows EXCEPT ![n] = v]
                   /\ by' = [by EXCEPT ![n] = IF user = "store" /\ ~NoCopies THEN "late" ELSE user]

\* The expectations of both compareAndSwapRef; None, '' and the zero SHA
\* ask for a ref that is not there.
AsExpected(n, expected) == rows[n] = expected
-----------------------------------------------------------------------------
\* A wrong CacheAfter: a write goes past the cache.
CacheAfter_Untouched(n, v) == cache

\* A wrong CacheAfter: a write starts a cache of its own.
CacheAfter_Partial(n, v) ==
    IF cache = None THEN [m \in {n} |-> v] ELSE [cache EXCEPT ![n] = v]

\* writeRef and deleteRef update the cache if it is loaded.
CacheAfter(n, v) == IF cache = None THEN None ELSE [cache EXCEPT ![n] = v]

\* loadRefCache, from readRef and listRefs.
AdapterLoad ==
    /\ "adapter" \in Users /\ cache = None
    /\ cache' = rows
    /\ UNCHANGED <<rows, dirty, file, copy, answer, by, used>>

AdapterWrite(n, v) ==
    /\ "adapter" \in Users
    /\ Set(n, v, "adapter") /\ cache' = CacheAfter(n, v)
    /\ UNCHANGED <<dirty, file, copy, answer, used>>

\* compareAndSwapRef: a swap that succeeds drops the cache.
AdapterSwap(n, expected, v) ==
    /\ "adapter" \in Users
    /\ AsExpected(n, expected)
    /\ Set(n, v, "adapter") /\ cache' = None
    /\ UNCHANGED <<dirty, file, copy, answer, used>>

\* PushTransaction writes the table; nobody calls invalidateRefCache.
PushWrite(n, v) ==
    /\ "push" \in Users
    /\ Set(n, v, "push")
    /\ UNCHANGED <<cache, dirty, file, copy, answer, used>>
-----------------------------------------------------------------------------
\* setRef, and deleteRef of a ref that is there.
StoreWrite(n, v) ==
    /\ "store" \in Users
    /\ v # None \/ rows[n] # None
    /\ Set(n, v, "store") /\ dirty' = TRUE
    /\ UNCHANGED <<cache, file, copy, answer, used>>

\* The rows of SELECT target lack the name and type that the validator of
\* compareAndSwapRef asks of the first row: on a ref that is there it throws.
StoreSwap(n, expected, v) ==
    /\ "store" \in Users
    /\ IF rows[n] # None
         THEN answer' = "threw" /\ UNCHANGED <<rows, by, dirty>>
         ELSE IF AsExpected(n, expected)
         THEN answer' = "swapped" /\ Set(n, v, "store") /\ dirty' = TRUE
         ELSE answer' = "refused" /\ UNCHANGED <<rows, by, dirty>>
    /\ UNCHANGED <<cache, file, copy, used>>

\* A wrong SyncStart: the flag is cleared before the put.
SyncStart_Early(s) ==
    /\ "store" \in Users /\ dirty /\ copy[s] = NoCopy
    /\ used.syncs < MaxSyncs /\ used' = [used EXCEPT !.syncs = @ + 1]
    /\ copy' = [copy EXCEPT ![s] = [refs |-> rows, landed |-> FALSE]]
    /\ dirty' = FALSE
    /\ UNCHANGED <<rows, cache, file, answer, by>>

\* syncToR2 lists the refs and puts them.
SyncStart(s) ==
    /\ "store" \in Users /\ dirty /\ copy[s] = NoCopy
    /\ used.syncs < MaxSyncs /\ used' = [used EXCEPT !.syncs = @ + 1]
    /\ copy' = [copy EXCEPT ![s] = [refs |-> rows, landed |-> FALSE]]
    /\ UNCHANGED <<rows, cache, dirty, file, answer, by>>

\* R2 has the copy, and then the answer arrives.
SyncLands(s) ==
    /\ copy[s] # NoCopy /\ ~copy[s].landed
    /\ file' = copy[s].refs
    /\ copy' = [copy EXCEPT ![s].landed = TRUE]
    /\ UNCHANGED <<rows, cache, dirty, answer, by, used>>

SyncEnd(s) ==
    /\ copy[s].landed
    /\ dirty' = FALSE
    /\ copy' = [copy EXCEPT ![s] = NoCopy]
    /\ UNCHANGED <<rows, cache, file, answer, by, used>>

\* The put rejects, whether or not R2 has the copy.
SyncFails(s) ==
    /\ copy[s] # NoCopy
    /\ used.faults < MaxFaults /\ used' = [used EXCEPT !.faults = @ + 1]
    /\ copy' = [copy EXCEPT ![s] = NoCopy]
    /\ UNCHANGED <<rows, cache, dirty, file, answer, by>>

Next == \/ AdapterLoad
        \/ \E n \in Name, v \in Value :
              AdapterWrite(n, v) \/ PushWrite(n, v) \/ StoreWrite(n, v)
        \/ \E n \in Name, expected, v \in Value : AdapterSwap(n, expected, v)
        \/ \E n \in Name, expected \in Value, v \in Sha : StoreSwap(n, expected, v)
        \/ \E s \in Sync : SyncStart(s) \/ SyncLands(s) \/ SyncEnd(s) \/ SyncFails(s)

Spec == Init /\ [][Next]_vars
-----------------------------------------------------------------------------
TypeOK == /\ rows \in Table /\ file \in Table
          /\ cache = None \/ cache \in Table
          /\ dirty \in BOOLEAN
          /\ \A s \in Sync : copy[s] = NoCopy \/ copy[s] \in [refs : Table, landed : BOOLEAN]
          /\ by \in [Name -> {"nobody", "adapter", "store", "late", "push"}]
          /\ answer \in {"none", "swapped", "refused", "threw"}
          /\ used \in [syncs : Nat, faults : Nat]

(* What the adapter answers from its cache is what the table says, but for  *)
(* rows that somebody else wrote: a write of its own never misses the cache.*)
CacheMissesOnlyOthers ==
    cache # None => \A n \in Name : cache[n] # rows[n] => by[n] \in {"push", "store", "late"}

(* "Call this method when refs have been written to SQLite directly ... so  *)
(* that subsequent reads will reload from SQLite" (invalidateRefCache):     *)
(* nothing calls it after a push, and reads go on from the cache.           *)
CacheIsCoherent == cache # None => cache = rows

(* Failed and repeated copies included: when the store has nothing to sync  *)
(* and nothing on its way, R2 has every row the store wrote last, but for   *)
(* what it wrote while a copy was on its way.                               *)
CleanMissesOnlyOthers ==
    ~dirty /\ NoCopies => \A n \in Name : file[n] # rows[n] => by[n] \in {"push", "adapter", "late"}

(* isDirty, "Check if there are unsynchronized changes": the same, with     *)
(* what is written while a copy is on its way.                              *)
CleanMeansSynced ==
    ~dirty /\ NoCopies => \A n \in Name : file[n] # rows[n] => by[n] \in {"push", "adapter"}

(* "`true` if the swap succeeded, `false` if the current value didn't       *)
(* match" (ParquetRefStore.compareAndSwapRef): it answers one or the other. *)
SwapAnswers == answer # "threw"
=============================================================================

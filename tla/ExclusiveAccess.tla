--------------------------- MODULE ExclusiveAccess ---------------------------
(***************************************************************************)
(* What the two locks of ParquetStore promise its operations, with no      *)
(* queue and no microtask in sight (storage/parquet-store.ts, the comments *)
(* on rwLock and flushMutex): reads, puts and flushes may overlap, one     *)
(* flush runs at a time, and a compaction runs alone.                      *)
(*                                                                         *)
(* "strict" is the promise itself; with strict = FALSE only the order      *)
(* out, wait, in of each client is left.  ParquetStore.tla is built on     *)
(* Compatible, and StoreLocks.tla shows that the lock code implements it.  *)
(***************************************************************************)
CONSTANTS Reader, Flusher, Writer

VARIABLES at, strict

Client == Reader \cup Flusher \cup Writer

\* c and d may be inside together.
Compatible(c, d) == /\ c \notin Writer /\ d \notin Writer
                    /\ ~(c \in Flusher /\ d \in Flusher)

Init == /\ at = [c \in Client |-> "out"]
        /\ strict \in BOOLEAN

MayEnter(c) == strict => \A d \in Client \ {c} : at[d] = "in" => Compatible(c, d)

Ask(c)   == at[c] = "out" /\ at' = [at EXCEPT ![c] = "wait"]
Enter(c) == at[c] \in {"out", "wait"} /\ MayEnter(c) /\ at' = [at EXCEPT ![c] = "in"]
Leave(c) == at[c] = "in" /\ at' = [at EXCEPT ![c] = "out"]

Next == \E c \in Client : (Ask(c) \/ Enter(c) \/ Leave(c)) /\ UNCHANGED strict

Spec == Init /\ [][Next]_<<at, strict>>
=============================================================================

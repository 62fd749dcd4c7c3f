-------------------------- MODULE ObjectCollection --------------------------
(***************************************************************************)
(* storage/gc.ts: GarbageCollector.collect over a ParquetStore, beside the *)
(* pushes it does not know of.  A collection reads the refs, walks what    *)
(* they reach object by object, lists what is stored, and then deletes     *)
(* what it has not reached and is older than the grace period.  A push     *)
(* uploads the objects its client thinks are missing and then sets a ref.  *)
(* Every step of either is behind an await.                                *)
(***************************************************************************)
EXTENDS Naturals

CONSTANTS
    Object, Ref, None,
    Needs,          \* Needs[o]: the objects that the content of o names
    Proc,           \* pushes that may be under way together
    Grace,          \* gracePeriodMs
    MaxDeletes,     \* maxDeleteCount
    PushTime,       \* a push takes no longer, from its first upload to its ref
    MarkTime,       \* a collection takes no longer to read refs, walk and list
    MaxTime         \* bound: the clock

Closed(S) == \A o \in S : Needs[o] \subseteq S
Reach(roots) == {o \in Object : \A S \in SUBSET Object : roots \subseteq S /\ Closed(S) => o \in S}

CollectionAssumption ==
    /\ Needs \in [Object -> SUBSET Object]
    /\ None \notin Object \cup Nat
    /\ {Grace, MaxDeletes, PushTime, MarkTime, MaxTime} \subseteq Nat

VARIABLES
    clock,      \* Date.now()
    refs,       \* what each ref points at
    born,       \* when the oldest stored copy of each object was written, or None
    push,       \* the push each process serves
    gc,         \* the collection under way
    reused      \* history: a ref was set to what needs an object that was stored
                \* before the push and that no ref reached any more

vars == <<clock, refs, born, push, gc, reused>>

Stored == {o \in Object : born[o] # None}
Roots == {refs[r] : r \in Ref} \ {None}

NoPush == [phase |-> "idle", ref |-> None, target |-> None, start |-> 0, todo |-> {}, fresh |-> {}]
NoCollection == [ phase |-> "idle", start |-> 0, todo |-> {}, visited |-> {}, reachable |-> {},
                  listed |-> {}, deleted |-> 0, dry |-> FALSE ]

Init == /\ clock = 0
        /\ refs \in [Ref -> Object \cup {None}]
        /\ born \in [Object -> {None, 0}]
        /\ Reach(Roots) \subseteq Stored
        /\ push = [p \in Proc |-> NoPush]
        /\ gc = NoCollection /\ reused = FALSE
-----------------------------------------------------------------------------
\* A push arrives, with the objects its client believes the server lacks:
\* those that the refs it has been shown do not reach.
Receive(p, r, o) ==
    /\ push[p].phase = "idle"
    /\ push' = [push EXCEPT ![p] = [NoPush EXCEPT !.phase = "uploading", !.ref = r, !.target = o,
                               !.start = clock, !.todo = Reach({o}) \ Reach(Roots)]]
    /\ UNCHANGED <<clock, refs, born, gc, reused>>

\* An object is put.  One that is stored already is stored once more or not
\* at all: its oldest copy, which is listed too, is as old as it was.
Upload(p, o) ==
    /\ push[p].phase = "uploading" /\ o \in push[p].todo
    /\ born' = IF o \in Stored THEN born ELSE [born EXCEPT ![o] = clock]
    /\ push' = [push EXCEPT ![p].todo = @ \ {o},
                            ![p].fresh = IF o \in Stored THEN @ ELSE @ \cup {o}]
    /\ UNCHANGED <<clock, refs, gc, reused>>

SetRef(p) ==
    /\ push[p].phase = "uploading" /\ push[p].todo = {}
    /\ refs' = [refs EXCEPT ![push[p].ref] = push[p].target]
    /\ reused' = (reused \/ ~(Reach({push[p].target}) \subseteq push[p].fresh \cup Reach(Roots)))
    /\ push' = [push EXCEPT ![p] = NoPush]
    /\ UNCHANGED <<clock, born, gc>>

\* The push is refused or fails: what it has put stays.
Abandon(p) ==
    /\ push[p].phase = "uploading"
    /\ push' = [push EXCEPT ![p] = NoPush]
    /\ UNCHANGED <<clock, refs, born, gc, reused>>

DeleteRef(r) ==
    /\ refs[r] # None
    /\ refs' = [refs EXCEPT ![r] = None]
    /\ UNCHANGED <<clock, born, push, gc, reused>>
-----------------------------------------------------------------------------
\* collect, or preview; markReachable begins with all refs.
Collect(dry) ==
    /\ gc.phase = "idle"
    /\ gc' = [NoCollection EXCEPT !.phase = "marking", !.start = clock, !.todo = Roots, !.dry = dry]
    /\ UNCHANGED <<clock, refs, born, push, reused>>

\* A wrong Found: only the object itself is kept.
Found_Itself(o) == {}

\* What walkCommit, walkTree and walkTag go on to.
Found(o) == Needs[o]

\* walkObject; an object that is not there leads nowhere.
Walk(o) ==
    /\ gc.phase = "marking" /\ o \in gc.todo
    /\ gc' = IF o \in Stored
               THEN [gc EXCEPT !.todo = (@ \cup Found(o)) \ (gc.visited \cup {o}),
                               !.visited = @ \cup {o}, !.reachable = @ \cup {o}]
               ELSE [gc EXCEPT !.todo = @ \ {o}, !.visited = @ \cup {o}]
    /\ UNCHANGED <<clock, refs, born, push, reused>>

\* createdAt <= now - gracePeriodMs
Old(o, now) == born[o] + Grace <= now

\* listAllObjects, and the cutoff counted from then.
List ==
    /\ gc.phase = "marking" /\ gc.todo = {}
    /\ gc' = [gc EXCEPT !.phase = "sweeping",
                        !.listed = {o \in Stored \ gc.reachable : Old(o, clock)}]
    /\ UNCHANGED <<clock, refs, born, push, reused>>

\* The loop over the objects: one is deleted, or its delete fails, or it was
\* still in the store's buffer and not listed.
Delete(o) ==
    /\ gc.phase = "sweeping" /\ o \in gc.listed /\ gc.deleted < MaxDeletes
    /\ \/ /\ born' = IF gc.dry THEN born ELSE [born EXCEPT ![o] = None]
          /\ gc' = [gc EXCEPT !.listed = @ \ {o}, !.deleted = @ + 1]
       \/ /\ ~gc.dry /\ gc' = [gc EXCEPT !.listed = @ \ {o}] /\ UNCHANGED born
    /\ UNCHANGED <<clock, refs, push, reused>>

\* Nothing is left, or a call of the store or a restart ends it early.
EndCollection ==
    /\ gc.phase # "idle"
    /\ gc' = NoCollection
    /\ UNCHANGED <<clock, refs, born, push, reused>>

Tick ==
    /\ clock < MaxTime
    /\ \A p \in Proc : push[p].phase = "uploading" => clock < push[p].start + PushTime
    /\ gc.phase = "marking" => clock < gc.start + MarkTime
    /\ clock' = clock + 1
    /\ UNCHANGED <<refs, born, push, gc, reused>>

Next == \/ Tick \/ List \/ EndCollection
        \/ \E p \in Proc : \/ \E r \in Ref, o \in Object : Receive(p, r, o)
                           \/ \E o \in Object : Upload(p, o)
                           \/ SetRef(p) \/ Abandon(p)
        \/ \E r \in Ref : DeleteRef(r)
        \/ \E dry \in BOOLEAN : Collect(dry)
        \/ \E o \in Object : Walk(o) \/ Delete(o)

Spec == Init /\ [][Next]_vars
-----------------------------------------------------------------------------
TypeOK ==
    /\ clock \in Nat /\ refs \in [Ref -> Object \cup {None}] /\ born \in [Object -> Nat \cup {None}]
    /\ push \in [Proc -> [ phase : {"idle", "uploading"}, ref : Ref \cup {None},
                           target : Object \cup {None}, start : Nat,
                           todo : SUBSET Object, fresh : SUBSET Object ]]
    /\ gc \in [ phase : {"idle", "marking", "sweeping"}, start : Nat, todo : SUBSET Object,
                visited : SUBSET Object, reachable : SUBSET Object,
                listed : SUBSET Object, deleted : Nat, dry : BOOLEAN ]
    /\ reused \in BOOLEAN

(* "The grace period ... ensures objects that are being written             *)
(* concurrently are not accidentally deleted" (GarbageCollector): whatever  *)
(* the refs reach is stored, whichever pushes and collections overlap, as   *)
(* long as a push and the marking of a collection together take less than   *)
(* the grace period, and no push has relied on what was garbage.            *)
ReachableStays == ~reused => Reach(Roots) \subseteq Stored
=============================================================================

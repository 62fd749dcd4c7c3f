---------------------------- MODULE ReceivePack ----------------------------
(***************************************************************************)
(* wire/receive-pack.ts: what a push does to the refs of a store.          *)
(* handleReceivePack takes the commands one by one: it validates each      *)
(* against the ref as it is and then swaps it, or sets it blindly where    *)
(* the store has no compareAndSwapRef.  atomicRefUpdate writes all the     *)
(* commands of a push and puts the refs back when one of them fails.       *)
(* Pushes interleave at every call of the store.                           *)
(***************************************************************************)
EXTENDS FiniteSets, Sequences, Naturals

CONSTANTS
    RefName, Commit, None,
    Ancestor,       \* pairs <<a, b>>: a is reachable from b, as isAncestor says
    Pushes,         \* requests: [kind, commands, deleteRefs, atomic]
    Proc,           \* pushes that may be under way together
    CanSwap,        \* the store has compareAndSwapRef
    MaxPushes,      \* bound: requests
    MaxFaults       \* bound: calls of the store that reject

Value == Commit \cup {None}
Command == [refName : RefName, oldSha : Value, newSha : Value]

ReceiveAssumption ==
    /\ None \notin Commit /\ CanSwap \in BOOLEAN
    /\ Ancestor \subseteq Commit \X Commit
    /\ \A r \in Pushes : /\ r.kind \in {"each", "all"} /\ r.commands \in Seq(Command)
                         /\ r.commands # <<>> /\ r.deleteRefs \in BOOLEAN /\ r.atomic \in BOOLEAN
    /\ {MaxPushes, MaxFaults} \subseteq Nat

VARIABLES
    refs,       \* the store's refs
    objects,    \* the commits whose objects the store has
    push,       \* the push each process serves
    accepted,   \* history: the commands handleReceivePack answered "ok", in order
    first,      \* history: the refs in the beginning
    used        \* counters behind the bounds

vars == <<refs, objects, push, accepted, first, used>>

Phase == {"idle", "unpacking", "validating", "applying", "reading", "writing", "restoring"}

NoPush == [ req |-> [kind |-> "none", commands |-> <<>>, deleteRefs |-> FALSE, atomic |-> FALSE],
            phase |-> "idle", at |-> 1, seen |-> [n \in RefName |-> None],
            start |-> [n \in RefName |-> None], results |-> <<>>, broken |-> FALSE, alone |-> TRUE ]

Init == /\ refs \in [RefName -> Value]
        /\ objects = {refs[n] : n \in RefName} \ {None}
        /\ push = [p \in Proc |-> NoPush]
        /\ accepted = <<>>
        /\ first = refs
        /\ used = [pushes |-> 0, faults |-> 0]

Commands(p) == push[p].req.commands
Cmd(p) == Commands(p)[push[p].at]

\* parseCommandLine derives the type of a command from its SHAs.
Type(c) == IF c.oldSha = None THEN "create" ELSE IF c.newSha = None THEN "delete" ELSE "update"

Faulty == used.faults < MaxFaults /\ used' = [used EXCEPT !.faults = @ + 1]

\* The result of the current command, and the next one's turn.
Answered(p, result) ==
    [push[p] EXCEPT !.results = Append(@, result), !.at = @ + 1, !.phase = "validating"]
-----------------------------------------------------------------------------
\* A request arrives; which one is parsed out of it is up to the client.
Receive(p, r) ==
    /\ push[p].phase = "idle" /\ used.pushes < MaxPushes
    /\ used' = [used EXCEPT !.pushes = @ + 1]
    /\ push' = [q \in Proc |->
          IF q # p THEN [push[q] EXCEPT !.alone = @ /\ push[q].phase = "idle"]
          ELSE [NoPush EXCEPT !.req = r, !.start = refs,
                              !.alone = \A o \in Proc \ {p} : push[o].phase = "idle",
                              !.phase = IF r.kind = "each" THEN "unpacking" ELSE "reading"]]
    /\ UNCHANGED <<refs, objects, accepted, first>>

\* validatePackfile and unpackObjects look at the pack and keep nothing of
\* it; the commands are run whether it was found sound or not.
Unpack(p) ==
    /\ push[p].phase = "unpacking"
    /\ push' = [push EXCEPT ![p].phase = "validating"]
    /\ UNCHANGED <<refs, objects, accepted, first, used>>

\* A wrong Verdict: a ref may be moved back.
Verdict_NoAncestry(p) ==
    LET c == Cmd(p) IN
    IF Type(c) # "create" /\ refs[c.refName] # c.oldSha THEN "lock failed"
    ELSE IF Type(c) = "delete" /\ ~push[p].req.deleteRefs THEN "delete-refs not enabled" ELSE "ok"

\* validateCommand: the ref as it is now, then the rules for its type.
Verdict(p) ==
    LET c == Cmd(p) IN
    IF Type(c) # "create" /\ refs[c.refName] # c.oldSha THEN "lock failed"
    ELSE IF Type(c) = "delete" /\ ~push[p].req.deleteRefs THEN "delete-refs not enabled"
    ELSE IF Type(c) = "update" /\ c.oldSha # c.newSha /\ <<c.oldSha, c.newSha>> \notin Ancestor
      THEN "non-fast-forward" ELSE "ok"

Validate(p) ==
    /\ push[p].phase = "validating" /\ push[p].at \in DOMAIN Commands(p)
    /\ push' = [push EXCEPT ![p] = IF Verdict(p) = "ok" THEN [@ EXCEPT !.phase = "applying"]
                                   ELSE Answered(p, Verdict(p))]
    /\ UNCHANGED <<refs, objects, accepted, first, used>>

\* A wrong Applies: what was validated is taken to hold still.
Applies_Anyway(p) == TRUE

\* compareAndSwapRef succeeds; setRef and deleteRef do not compare.
Applies(p) == CanSwap => refs[Cmd(p).refName] = Cmd(p).oldSha

Apply(p) ==
    /\ push[p].phase = "applying"
    /\ IF Applies(p)
         THEN /\ refs' = [refs EXCEPT ![Cmd(p).refName] = Cmd(p).newSha]
              /\ push' = [push EXCEPT ![p] = Answered(p, "ok")]
              /\ accepted' = Append(accepted, Cmd(p))
         ELSE /\ push' = [push EXCEPT ![p] = Answered(p, "lock failed")]
              /\ UNCHANGED <<refs, accepted>>
    /\ UNCHANGED <<objects, first, used>>

\* The store rejects: handleReceivePack rejects with it, and what earlier
\* commands did stays done.
ApplyFails(p) ==
    /\ push[p].phase = "applying" /\ Faulty
    /\ push' = [push EXCEPT ![p] = NoPush]
    /\ UNCHANGED <<refs, objects, accepted, first>>

\* The report is sent.
Report(p) ==
    /\ push[p].phase = "validating" /\ push[p].at > Len(Commands(p))
    /\ push' = [push EXCEPT ![p] = NoPush]
    /\ UNCHANGED <<refs, objects, accepted, first, used>>
-----------------------------------------------------------------------------
\* atomicRefUpdate: it reads all refs, comparing those of updates only.
Read(p) ==
    LET c == Cmd(p) IN
    /\ push[p].phase = "reading"
    /\ push' = [push EXCEPT ![p] =
          IF Type(c) = "update" /\ refs[c.refName] # c.oldSha THEN NoPush
          ELSE IF push[p].at = Len(Commands(p))
            THEN [push[p] EXCEPT !.seen[c.refName] = refs[c.refName], !.at = 1, !.phase = "writing"]
          ELSE [push[p] EXCEPT !.seen[c.refName] = refs[c.refName], !.at = @ + 1]]
    /\ UNCHANGED <<refs, objects, accepted, first, used>>

\* It writes them one by one.
Write(p) ==
    LET c == Cmd(p)
        last == push[p].at = Len(Commands(p))
    IN
    /\ push[p].phase = "writing"
    /\ refs' = [refs EXCEPT ![c.refName] = c.newSha]
    /\ push' = [push EXCEPT ![p] = IF last THEN NoPush ELSE [push[p] EXCEPT !.at = @ + 1]]
    /\ UNCHANGED <<objects, accepted, first, used>>

\* A write rejects, having landed or not: the refs are to be put back.
WriteFails(p) ==
    /\ push[p].phase = "writing" /\ Faulty
    /\ \/ refs' = [refs EXCEPT ![Cmd(p).refName] = Cmd(p).newSha]
       \/ UNCHANGED refs
    /\ push' = [push EXCEPT ![p].phase = "restoring", ![p].at = 1]
    /\ UNCHANGED <<objects, accepted, first>>

\* A wrong Restored: the ref is dropped.
Restored_Dropped(p) == None

Restored(p) == push[p].seen[Cmd(p).refName]

NextRestore(p) == push' = [push EXCEPT ![p].at = @ + 1]

\* Every ref of the push is put back as it was read, written or not.
Restore(p) ==
    /\ push[p].phase = "restoring" /\ push[p].at \in DOMAIN Commands(p)
    /\ refs' = [refs EXCEPT ![Cmd(p).refName] = Restored(p)]
    /\ NextRestore(p)
    /\ UNCHANGED <<objects, accepted, first, used>>

\* A failure to put one back is noted, and the next is tried.
RestoreFails(p) ==
    /\ push[p].phase = "restoring" /\ push[p].at \in DOMAIN Commands(p) /\ Faulty
    /\ push' = [push EXCEPT ![p].at = @ + 1, ![p].broken = TRUE]
    /\ UNCHANGED <<refs, objects, accepted, first>>

GiveUp(p) ==
    /\ push[p].phase = "restoring" /\ push[p].at > Len(Commands(p))
    /\ push' = [push EXCEPT ![p] = NoPush]
    /\ UNCHANGED <<refs, objects, accepted, first, used>>

Next == \E p \in Proc : \/ \E r \in Pushes : Receive(p, r)
                        \/ Unpack(p) \/ Validate(p) \/ Apply(p) \/ ApplyFails(p) \/ Report(p)
                        \/ Read(p) \/ Write(p) \/ WriteFails(p)
                        \/ Restore(p) \/ RestoreFails(p) \/ GiveUp(p)

Spec == Init /\ [][Next]_vars
-----------------------------------------------------------------------------
TypeOK ==
    /\ refs \in [RefName -> Value] /\ first \in [RefName -> Value]
    /\ objects \subseteq Commit
    /\ DOMAIN push = Proc
    /\ \A p \in Proc :
          /\ push[p].phase \in Phase /\ push[p].at \in 1..(Len(Commands(p)) + 1)
          /\ Len(push[p].results) <= Len(Commands(p))
          /\ push[p].seen \in [RefName -> Value] /\ push[p].start \in [RefName -> Value]
    /\ accepted \in Seq(Command)

\* The accepted commands that brought a ref to a value, or away from it.
Arrivals(n, v) == {i \in DOMAIN accepted : accepted[i].refName = n /\ accepted[i].newSha = v}
Departures(n, v) == {i \in DOMAIN accepted : accepted[i].refName = n /\ accepted[i].oldSha = v}
One(b) == IF b THEN 1 ELSE 0

(* What pushes are told adds up to what the refs are: for each value, a ref *)
(* has come to it as often as it has left it, give or take the one it had   *)
(* first and the one it has now. So of several pushes from the same commit  *)
(* one succeeds ("exactly one succeeds when both try to update the same ref *)
(* from same base", concurrent-push-conflict.test.ts), and no update that   *)
(* was reported is lost.                                                    *)
ReportsExplainRefs ==
    \A n \in RefName, v \in Value :
        One(first[n] = v) + Cardinality(Arrivals(n, v))
            = One(refs[n] = v) + Cardinality(Departures(n, v))

MovesForward == \A n \in RefName : \/ None \in {refs[n], refs'[n]} \/ refs[n] = refs'[n]
                                   \/ <<refs[n], refs'[n]>> \in Ancestor
(* Whatever races with a push, a ref that stays only moves forward: the     *)
(* ancestry validateCommand asks about is that of the move that is made.    *)
FastForwardOnly == [][MovesForward]_vars

(* "If any update fails, all changes are rolled back to the original state" *)
(* (atomicRefUpdate), when no other push was served meanwhile and no write  *)
(* of the rollback has failed.                                              *)
RollbackRestores ==
    \A p \in Proc : push[p].phase = "restoring" /\ push[p].at > Len(Commands(p))
                    /\ push[p].alone /\ ~push[p].broken => refs = push[p].start

(* The same sentence, when another push is served: what a rollback undoes   *)
(* are changes of its own push.                                             *)
RollbackIsOwn ==
    [][\A p \in Proc : push[p].phase = "restoring" /\ push'[p].at # push[p].at =>
          \A n \in RefName : refs'[n] # refs[n] =>
              \E i \in DOMAIN Commands(p) : Commands(p)[i].refName = n /\ Commands(p)[i].newSha = refs[n]]_vars

(* "Atomic push - all refs update or none" (ReceivePackCapabilities,        *)
(* advertised by default): the report of a push that asked for it does not  *)
(* tell of some.                                                            *)
AtomicIsAllOrNone ==
    \A p \in Proc : push[p].phase = "validating" /\ push[p].at > Len(Commands(p)) /\ push[p].req.atomic =>
        \/ \A i \in DOMAIN push[p].results : push[p].results[i] = "ok"
        \/ \A i \in DOMAIN push[p].results : push[p].results[i] # "ok"

(* "Extracts and stores objects from a packfile into the object store"      *)
(* (unpackObjects): what a ref is moved to is in the store.                 *)
RefsResolve == \A n \in RefName : refs[n] \in objects \cup {None}
=============================================================================

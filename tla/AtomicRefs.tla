----------------------------- MODULE AtomicRefs -----------------------------
(***************************************************************************)
(* What RefStorage (refs/storage.ts) promises its callers: each call that  *)
(* names refs, new values and expected old values takes effect at one      *)
(* moment, when every expectation holds, or is refused because one of them *)
(* does not.  A call that meets a failing backend may stop halfway.        *)
(***************************************************************************)
CONSTANTS
    Name,       \* ref names
    Sha,        \* what a ref may point at
    None,       \* no ref; no holder
    Proc        \* callers

\* An expected old value, or "anything" (force, or create alone), or
\* "existing" (neither given: the ref must be there).
Expected == Sha \cup {None, "anything", "existing"}

VARIABLES
    refs,       \* the value of each ref
    client      \* each caller: at rest, pending, or done with a result

Value == Sha \cup {None}

\* What may be asked for: a new value and an expectation for some names.
Asked == UNION {[ns -> [new : Value, expect : Expected]] : ns \in (SUBSET Name) \ {{}}}

Quiet == [at |-> "idle", ws |-> None, result |-> "none"]

Matches(v, e) == e = "anything" \/ (e = "existing" /\ v # None) \/ v = e

\* The code of the error that an unmet expectation raises.
Code(e) == IF e = None THEN "ALREADY_EXISTS"
           ELSE IF e = "existing" THEN "NOT_FOUND" ELSE "CONFLICT"

Init == /\ refs \in [Name -> Value]
        /\ client = [p \in Proc |-> Quiet]

Holds(ws) == \A n \in DOMAIN ws : Matches(refs[n], ws[n].expect)
After(ns, ws) == [n \in Name |-> IF n \in ns THEN ws[n].new ELSE refs[n]]

Settle(p, result) ==
    client' = [client EXCEPT ![p] = [at |-> "done", ws |-> client[p].ws, result |-> result]]

Invoke(p) ==
    /\ client[p].at = "idle"
    /\ \E ws \in Asked :
          client' = [client EXCEPT ![p] = [at |-> "pending", ws |-> ws, result |-> "none"]]
    /\ UNCHANGED refs

Succeed(p) ==
    /\ client[p].at = "pending" /\ Holds(client[p].ws)
    /\ refs' = After(DOMAIN client[p].ws, client[p].ws)
    /\ Settle(p, "ok")

Refuse(p) ==
    /\ client[p].at = "pending"
    /\ \E n \in DOMAIN client[p].ws :
          /\ ~Matches(refs[n], client[p].ws[n].expect)
          /\ Settle(p, Code(client[p].ws[n].expect))
    /\ UNCHANGED refs

\* A lock that cannot be had, or a backend that fails a write.
Break(p) ==
    /\ client[p].at = "pending"
    /\ \/ Settle(p, "LOCKED") /\ UNCHANGED refs
       \/ /\ Holds(client[p].ws)
          /\ Settle(p, "failed")
          /\ \E ns \in SUBSET DOMAIN client[p].ws : refs' = After(ns, client[p].ws)

Return(p) == /\ client[p].at = "done"
             /\ client' = [client EXCEPT ![p] = Quiet]
             /\ UNCHANGED refs

Next == \E p \in Proc : Invoke(p) \/ Succeed(p) \/ Refuse(p) \/ Break(p) \/ Return(p)

Spec == Init /\ [][Next]_<<refs, client>>
=============================================================================

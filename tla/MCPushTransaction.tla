------------------------- MODULE MCPushTransaction -------------------------
(* PushTransaction for TLC: two refs, two objects.  A push brings at most   *)
(* one object and moves one ref from and to any value, or both refs to the  *)
(* same value (or deletes both), whatever values it believes they have.     *)
EXTENDS PushTransaction, TLC

CONSTANTS main, dev

\* One update of each ref at most, main first; none that changes nothing.
Moves(r) == {c \in Command : c.ref = r /\ c.old # c.new}

MCCommands == {<<>>} \cup {<<c>> : c \in Moves(main) \cup Moves(dev)}
              \cup {<<c, d>> \in Moves(main) \X Moves(dev) : c.new = d.new}

\* A push that names main twice.
MCRepeated == Moves(main) \X Moves(main)

MCPacks == {{}} \cup {{s} : s \in Sha}
MCRules == {[covers |-> {main}, preventDeletion |-> TRUE, preventForcePush |-> TRUE,
             requiredReviews |-> 0]}

Symmetry == Permutations(Push)
=============================================================================

------------------------------ MODULE MCUpkeep ------------------------------
(* Upkeep for TLC: a behaviour is one of its parts, with the others at rest,*)
(* which the parts, sharing nothing, cannot tell.  p and q are two of each  *)
(* kind: lock users, clean-ups, commits, moves, calls of stop().            *)
EXTENDS Upkeep, TLC

CONSTANTS Homes, p, q, t, j, m, d, e, f

VARIABLE home

Two == {p, q}

\* Two commits over one tree, one ref, one push at a time.
ObjectsMC == {p, q, t}
NeedsMC == p :> {t} @@ q :> {t} @@ t :> {}
EventsMC == {d, e, f}
TargetsMC == {"hot", "warm"}

\* What is at rest starts in one way.
MCInit == /\ home \in Homes
          /\ UpkeepInit
          /\ home # "collection" => \A o \in ObjectsMC : born[o] = None
          /\ home # "alarm" => alarms

MCNext == /\ \/ home = "pack" /\ InPack
             \/ home = "upload" /\ InUpload
             \/ home = "collection" /\ InCollection
             \/ home = "alarm" /\ InAlarm
             \/ home = "tier" /\ InTier
             \/ home = "cdc" /\ InCdc
          /\ UNCHANGED home
MCSpec == MCInit /\ [][MCNext]_<<home, upkeepVars>>

\* What ObjectIsKept and ReachableStays except, and goes on being excepted, is
\* followed no further.
Promised == ~foul /\ ~reused

Symmetry == Permutations(Two) \cup Permutations(EventsMC)
=============================================================================

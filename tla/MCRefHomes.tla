----------------------------- MODULE MCRefHomes -----------------------------
(* RefHomes for TLC: a behaviour is one of the homes, with the others at    *)
(* rest, which the homes, sharing nothing, cannot tell.  Two refs each.     *)
EXTENDS RefHomes, TLC

CONSTANTS Homes, main, dev, a, b, d, x, y, u, p, q

VARIABLES home, lRefs, lPacked, lHolder, lOp, lRemoving, lUsed

lVars == <<lRefs, lPacked, lHolder, lOp, lRemoving, lUsed>>

W(new, expect) == [new |-> new, expect |-> expect]

\* Updates with each kind of expectation, compared and plain deletes,
\* batches over both refs.
Updates == {[kind |-> "update", ws |-> (main :> W(b, e))] : e \in {a, None, "existing", "anything"}}
Deletes == {[kind |-> "delete", ws |-> (main :> W(None, e))] : e \in {b, "anything"}}
FewCalls == {[kind |-> "update", ws |-> (main :> W(b, a))],
             [kind |-> "delete", ws |-> (main :> W(None, b))],
             [kind |-> "batch", ws |-> (main :> W(a, b) @@ dev :> W(b, "existing"))],
             [kind |-> "batch", ws |-> (main :> W(b, "anything") @@ dev :> W(a, None))]}
CompareCalls == {k \in Updates \cup Deletes : \A n \in DOMAIN k.ws : k.ws[n].expect # "anything"}
NoCalls == {}

ByName == <<dev, main>>
EitherWay == {<<dev, main>>, <<main, dev>>}

\* RefStorage over a backend whose removals land late.
L == INSTANCE RefStorage WITH
        refs <- lRefs, packed <- lPacked, holder <- lHolder, op <- lOp, removing <- lRemoving,
        used <- lUsed, PromptRemoval <- FALSE, MaxCalls <- 2, MaxFaults <- 0

UsersMC == {"adapter", "store", "push"}

\* A history a <- b, a <- d; create, update (forward and not) and delete,
\* alone and in pairs.
AncestorMC == {<<a, b>>, <<a, d>>}
Cm(n, old, new) == [refName |-> n, oldSha |-> old, newSha |-> new]
Each(cs, atomic) == [kind |-> "each", commands |-> cs, deleteRefs |-> TRUE, atomic |-> atomic]
All(cs) == [kind |-> "all", commands |-> cs, deleteRefs |-> TRUE, atomic |-> TRUE]

EachPushes ==
    {Each(<<Cm(main, a, b)>>, FALSE), Each(<<Cm(main, a, d)>>, FALSE), Each(<<Cm(main, None, b)>>, FALSE),
     Each(<<Cm(main, b, None)>>, FALSE), Each(<<Cm(main, b, d)>>, FALSE),
     Each(<<Cm(main, a, None), Cm(main, None, a)>>, FALSE),
     [Each(<<Cm(main, a, None), Cm(dev, a, b)>>, FALSE) EXCEPT !.deleteRefs = FALSE]}
AllPushes == {All(<<Cm(main, a, b), Cm(dev, None, b)>>), All(<<Cm(dev, a, None), Cm(main, None, a)>>),
              All(<<Cm(main, b, d), Cm(dev, b, d)>>)}
BothPushes == EachPushes \cup AllPushes
MixedPushes == {All(<<Cm(main, a, b), Cm(dev, None, b)>>), Each(<<Cm(main, b, d)>>, FALSE),
                Each(<<Cm(dev, b, None)>>, FALSE)}
AtomicPushes == {Each(<<Cm(main, a, b), Cm(dev, a, b)>>, TRUE)}

\* A home at rest starts empty.
AtRest == [n \in Name |-> None]
Serving == CASE home = "receive" -> {"each"} [] home = "all" -> {"all"}
             [] home = "mixed" -> {"each", "all"} [] OTHER -> {}

MCInit == /\ home \in Homes
          /\ HomesInit /\ L!Init
          /\ home # "storage" => refs = AtRest
          /\ home # "lazy" => lRefs = AtRest
          /\ home # "table" => rows = [n \in TableName |-> None]
          /\ home \notin {"receive", "all", "mixed"} => rRefs = AtRest
          /\ serves = Serving

MCNext == /\ \/ home = "storage" /\ InStorage /\ UNCHANGED lVars
             \/ home = "lazy" /\ L!Next /\ UNCHANGED homeVars
             \/ home = "table" /\ InTable /\ UNCHANGED lVars
             \/ home \in {"receive", "all", "mixed"} /\ InReceive /\ UNCHANGED lVars
          /\ UNCHANGED home
MCSpec == MCInit /\ [][MCNext]_<<home, homeVars, lVars>>
MCFairSpec == MCSpec /\ \A w \in Proc :
                  WF_vars(home = "storage" /\ Step(w) /\ UNCHANGED <<home, tVars, rVars, serves, lVars>>)

Symmetry == Permutations(Proc) \cup Permutations(TableName)
=============================================================================

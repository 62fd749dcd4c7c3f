------------------------------- MODULE RefHomes -------------------------------
(***************************************************************************)
(* The homes refs have, together: a backend behind RefStorage, the refs    *)
(* table of the Durable Object (RefTable), and the store a push is         *)
(* received into (ReceivePack).  They share no state: a step is a step of  *)
(* one of them.                                                            *)
(***************************************************************************)
EXTENDS RefStorage

CONSTANTS
    TableName, TableSha, Users, Sync, MaxSyncs, PutFaults,              \* RefTable
    Commit, Ancestor, Pushes, CanSwap, MaxPushes, StoreFaults           \* ReceivePack

VARIABLES
    rows, cache, dirty, file, copy, answer, by, tUsed,
    rRefs, objects, push, accepted, first, rUsed,
    serves      \* the kinds of pushes that this store is sent; it never changes

tVars == <<rows, cache, dirty, file, copy, answer, by, tUsed>>
rVars == <<rRefs, objects, push, accepted, first, rUsed>>
homeVars == <<vars, tVars, rVars, serves>>

T == INSTANCE RefTable WITH
        used <- tUsed, Name <- TableName, Sha <- TableSha, MaxFaults <- PutFaults
R == INSTANCE ReceivePack WITH
        refs <- rRefs, used <- rUsed, RefName <- Name, MaxFaults <- StoreFaults

HomesAssumption == RefAssumption /\ T!TableAssumption /\ R!ReceiveAssumption
ASSUME HomesAssumption

HomesInit == Init /\ T!Init /\ R!Init /\ serves \in SUBSET {"each", "all"}

\* handleReceivePack takes the commands each, atomicRefUpdate all of them.
Served == \A p \in Proc : push[p].req.kind \in serves \cup {"none"}

InStorage == Next /\ UNCHANGED <<tVars, rVars, serves>>
InTable == T!Next /\ UNCHANGED <<vars, rVars, serves>>
InReceive == R!Next /\ UNCHANGED <<vars, tVars, serves>> /\ Served'

HomesNext == InStorage \/ InTable \/ InReceive
HomesSpec == HomesInit /\ [][HomesNext]_homeVars
-----------------------------------------------------------------------------
(* Types of the three modules.  The properties of RefStorage are in it.     *)
TypesOK == TypeOK /\ T!TypeOK /\ R!TypeOK

(* RefTable: see the module for each.                                       *)
CacheMissesOnlyOthers == T!CacheMissesOnlyOthers
CleanMissesOnlyOthers == T!CleanMissesOnlyOthers
CacheIsCoherent == T!CacheIsCoherent
CleanMeansSynced == T!CleanMeansSynced
SwapAnswers == T!SwapAnswers

(* ReceivePack: see the module for each; the first two are not what         *)
(* atomicRefUpdate promises.                                                *)
ReportsExplainRefs == "all" \notin serves => R!ReportsExplainRefs
FastForwardOnly == []["all" \notin serves => R!MovesForward]_rVars
RollbackRestores == R!RollbackRestores
RollbackIsOwn == R!RollbackIsOwn
AtomicIsAllOrNone == R!AtomicIsAllOrNone
RefsResolve == R!RefsResolve
=============================================================================

---------------------------- MODULE RefHomes_proofs ----------------------------
(***************************************************************************)
(* The refs table with its cache and its copy on R2, and the refs of a     *)
(* store that receives pushes, proved for any names and values, users,     *)
(* copies and pushes under way together, and failures without a bound;     *)
(* that the refs behind RefStorage keep their types is taken over from     *)
(* RefStorage_proofs.                                                      *)
(***************************************************************************)
EXTENDS RefHomes, RefStorage_proofs, FiniteSetTheorems, SequenceTheorems
-----------------------------------------------------------------------------
\* f is what the table says, but for rows that others than the store wrote
\* last, or the store while a copy was on its way.
Current(f) == \A n \in TableName : f[n] # rows[n] => by[n] \in {"push", "adapter", "late"}

CopyRecord == {T!NoCopy} \cup [refs : T!Table, landed : BOOLEAN]

\* A clean flag, a copy on its way, and one that R2 has each speak for the
\* store's own rows.
TableInv ==
    /\ T!TypeOK /\ copy \in [Sync -> CopyRecord]
    /\ T!CacheMissesOnlyOthers
    /\ ~dirty => Current(file)
    /\ \A s \in Sync : copy[s] # T!NoCopy => Current(copy[s].refs)
    /\ \A s \in Sync : copy[s].landed => Current(file)

(* The invariant holds of a table with nothing to copy.                     *)
LEMMA TableInitially ==
    ASSUME HomesAssumption, T!Init PROVE TableInv
<1>1. /\ rows \in T!Table /\ cache = None /\ dirty = FALSE /\ file = rows /\ answer = "none"
      /\ copy = [s \in Sync |-> T!NoCopy] /\ by = [n \in TableName |-> "nobody"]
      /\ tUsed = [syncs |-> 0, faults |-> 0]
  BY DEF T!Init
<1>2. T!TypeOK
  BY <1>1 DEF T!TypeOK
<1>3. \A s \in Sync : copy[s] = T!NoCopy /\ ~copy[s].landed
  BY <1>1 DEF T!NoCopy
<1>4. copy \in [Sync -> CopyRecord]
  BY <1>1 DEF CopyRecord
<1> QED BY <1>1, <1>2, <1>3, <1>4 DEF TableInv, T!CacheMissesOnlyOthers, Current

(* A row is written: what was current but for others stays so.              *)
LEMMA SetRow ==
    ASSUME TableInv, NEW n \in TableName, NEW v \in T!Value,
           NEW user \in {"adapter", "store", "push"}, T!Set(n, v, user)
    PROVE  /\ rows' \in T!Table /\ by' \in [TableName -> {"nobody", "adapter", "store", "late", "push"}]
           /\ \A m \in TableName \ {n} : rows'[m] = rows[m] /\ by'[m] = by[m]
           /\ rows'[n] = v /\ by'[n] = IF user = "store" /\ ~T!NoCopies THEN "late" ELSE user
           /\ user # "store" \/ ~T!NoCopies => \A f : Current(f) => Current(f)'
<1>1. /\ rows' = [rows EXCEPT ![n] = v]
      /\ by' = [by EXCEPT ![n] = IF user = "store" /\ ~T!NoCopies THEN "late" ELSE user]
      /\ rows \in T!Table /\ by \in [TableName -> {"nobody", "adapter", "store", "late", "push"}]
  BY DEF T!Set, TableInv, T!TypeOK
<1>2. /\ rows' \in T!Table
      /\ \A m \in TableName \ {n} : rows'[m] = rows[m]
      /\ rows'[n] = v
  BY <1>1 DEF T!Table
<1>3. /\ by' \in [TableName -> {"nobody", "adapter", "store", "late", "push"}]
      /\ \A m \in TableName \ {n} : by'[m] = by[m]
      /\ by'[n] = IF user = "store" /\ ~T!NoCopies THEN "late" ELSE user
  BY <1>1
<1>4. ASSUME user # "store" \/ ~T!NoCopies, NEW f, Current(f), NEW m \in TableName, f[m] # rows'[m]
      PROVE  by'[m] \in {"push", "adapter", "late"}
  BY <1>2, <1>3, <1>4 DEF Current
<1> QED BY <1>2, <1>3, <1>4 DEF Current

(* The adapter and pushes leave the copies alone.                           *)
LEMMA WriteRow ==
    ASSUME HomesAssumption, TableInv, NEW n \in TableName, NEW v \in T!Value,
           T!AdapterWrite(n, v) \/ T!PushWrite(n, v) \/ \E expected \in T!Value : T!AdapterSwap(n, expected, v)
    PROVE  TableInv'
<1>1. PICK user \in {"adapter", "push"} : T!Set(n, v, user)
  BY DEF T!AdapterWrite, T!PushWrite, T!AdapterSwap
<1>2. UNCHANGED <<dirty, file, copy, answer, tUsed>>
  BY DEF T!AdapterWrite, T!PushWrite, T!AdapterSwap
<1>3. /\ rows' \in T!Table /\ by' \in [TableName -> {"nobody", "adapter", "store", "late", "push"}]
      /\ \A m \in TableName \ {n} : rows'[m] = rows[m] /\ by'[m] = by[m] /\ rows'[n] = v
      /\ \A f : Current(f) => Current(f)'
  BY <1>1, SetRow
<1>4. /\ cache' = None \/ cache' \in T!Table
      /\ T!CacheMissesOnlyOthers'
  <2>1. cache = None \/ cache \in T!Table
    BY DEF TableInv, T!TypeOK
  <2>2. CASE T!AdapterWrite(n, v)
    <3>1. T!Set(n, v, "adapter") /\ cache' = IF cache = None THEN None ELSE [cache EXCEPT ![n] = v]
      BY <2>2 DEF T!AdapterWrite, T!CacheAfter
    <3>2. /\ \A m \in TableName \ {n} : rows'[m] = rows[m] /\ by'[m] = by[m]
          /\ rows'[n] = v
      BY <3>1, SetRow
    <3>3. CASE cache = None
      BY <3>1, <3>3 DEF T!CacheMissesOnlyOthers
    <3>4. CASE cache # None
      <4>1. /\ cache' \in T!Table /\ cache'[n] = v
            /\ \A m \in TableName \ {n} : cache'[m] = cache[m]
        BY <2>1, <3>1, <3>4 DEF T!Table
      <4> QED BY <3>2, <3>4, <4>1 DEF TableInv, T!CacheMissesOnlyOthers
    <3> QED BY <3>3, <3>4
  <2>3. CASE T!PushWrite(n, v)
    <3>1. T!Set(n, v, "push") /\ cache' = cache
      BY <2>3 DEF T!PushWrite
    <3>2. /\ \A m \in TableName \ {n} : rows'[m] = rows[m] /\ by'[m] = by[m]
          /\ by'[n] = "push"
      BY <3>1, SetRow
    <3> QED BY <2>1, <3>1, <3>2 DEF TableInv, T!CacheMissesOnlyOthers
  <2>4. CASE \E expected \in T!Value : T!AdapterSwap(n, expected, v)
    BY <2>4 DEF T!AdapterSwap, T!CacheMissesOnlyOthers
  <2> QED BY <2>2, <2>3, <2>4
<1>5. T!TypeOK'
  BY <1>2, <1>3, <1>4 DEF TableInv, T!TypeOK
<1> QED BY <1>2, <1>3, <1>4, <1>5 DEF TableInv

(* The store marks what it writes as not copied yet.                        *)
LEMMA StoreRow ==
    ASSUME HomesAssumption, TableInv, NEW n \in TableName, NEW v \in T!Value,
           T!StoreWrite(n, v) \/ \E expected \in T!Value : T!StoreSwap(n, expected, v)
    PROVE  TableInv'
<1>1. UNCHANGED <<cache, file, copy, tUsed>> /\ answer' \in {answer, "swapped", "refused", "threw"}
  BY DEF T!StoreWrite, T!StoreSwap
<1>2. CASE T!Set(n, v, "store") /\ dirty' = TRUE
  <2>1. /\ rows' \in T!Table /\ by' \in [TableName -> {"nobody", "adapter", "store", "late", "push"}]
        /\ \A m \in TableName \ {n} : rows'[m] = rows[m] /\ by'[m] = by[m]
        /\ by'[n] \in {"store", "late"}
        /\ ~T!NoCopies => \A f : Current(f) => Current(f)'
    BY <1>2, SetRow
  <2>2. T!TypeOK'
    BY <1>1, <1>2, <2>1 DEF TableInv, T!TypeOK
  <2>3. T!CacheMissesOnlyOthers'
    BY <1>1, <2>1 DEF TableInv, T!CacheMissesOnlyOthers
  <2>4. \A s \in Sync : copy[s].landed => copy[s] # T!NoCopy
    BY DEF T!NoCopy
  <2>5. /\ \A s \in Sync : copy'[s] # T!NoCopy => Current(copy[s].refs)'
        /\ \A s \in Sync : copy'[s].landed => Current(file)'
    BY <1>1, <2>1, <2>4 DEF TableInv, T!NoCopies, Current
  <2> QED BY <1>1, <1>2, <2>2, <2>3, <2>5 DEF TableInv
<1>3. CASE UNCHANGED <<rows, by, dirty>>
  <2>1. T!TypeOK'
    BY <1>1, <1>3 DEF TableInv, T!TypeOK
  <2> QED BY <1>1, <1>3, <2>1 DEF TableInv, T!CacheMissesOnlyOthers, Current
<1> QED BY <1>2, <1>3 DEF T!StoreWrite, T!StoreSwap

(* A copy starts, lands, ends or fails.                                     *)
LEMMA SyncKeeps ==
    ASSUME HomesAssumption, TableInv, NEW s \in Sync,
           T!SyncStart(s) \/ T!SyncLands(s) \/ T!SyncEnd(s) \/ T!SyncFails(s)
    PROVE  TableInv'
<1>1. UNCHANGED <<rows, cache, answer, by>>
  BY DEF T!SyncStart, T!SyncLands, T!SyncEnd, T!SyncFails
<1>2. /\ rows \in T!Table /\ file \in T!Table /\ copy \in [Sync -> CopyRecord] /\ dirty \in BOOLEAN
      /\ tUsed \in [syncs : Nat, faults : Nat]
  BY DEF TableInv, T!TypeOK
<1>3. \A f : Current(f)' <=> Current(f)
  BY <1>1 DEF Current
<1>4. ~T!NoCopy.landed /\ T!NoCopy \in CopyRecord
  BY DEF T!NoCopy, CopyRecord
<1>5. CASE T!SyncStart(s)
  <2>1. /\ copy' = [copy EXCEPT ![s] = [refs |-> rows, landed |-> FALSE]]
        /\ tUsed' = [tUsed EXCEPT !.syncs = @ + 1] /\ UNCHANGED <<dirty, file>>
    BY <1>5 DEF T!SyncStart
  <2>2. [refs |-> rows, landed |-> FALSE] \in CopyRecord /\ tUsed' \in [syncs : Nat, faults : Nat]
    BY <1>2, <2>1 DEF CopyRecord
  <2>3. /\ copy' \in [Sync -> CopyRecord]
        /\ copy'[s].refs = rows /\ ~copy'[s].landed
        /\ \A r \in Sync \ {s} : copy'[r] = copy[r]
    BY <1>2, <2>1, <2>2
  <2>4. Current(rows)
    BY DEF Current
  <2>5. T!TypeOK'
    BY <1>1, <2>1, <2>2, <2>3 DEF TableInv, T!TypeOK, CopyRecord
  <2> QED BY <1>1, <1>3, <2>1, <2>3, <2>4, <2>5 DEF TableInv, T!CacheMissesOnlyOthers
<1>6. CASE T!SyncLands(s)
  <2>1. /\ copy[s] # T!NoCopy /\ file' = copy[s].refs
        /\ copy' = [copy EXCEPT ![s].landed = TRUE] /\ UNCHANGED <<dirty, tUsed>>
    BY <1>6 DEF T!SyncLands
  <2>2. copy[s] \in [refs : T!Table, landed : BOOLEAN]
    BY <1>2, <2>1 DEF CopyRecord
  <2>3. /\ copy' \in [Sync -> CopyRecord] /\ copy'[s].refs = copy[s].refs
        /\ \A r \in Sync \ {s} : copy'[r] = copy[r]
    <3>1. [copy[s] EXCEPT !.landed = TRUE] \in CopyRecord
      BY <2>2 DEF CopyRecord
    <3> QED BY <1>2, <2>1, <2>2, <3>1
  <2>4. Current(copy[s].refs) /\ file' \in T!Table
    BY <2>1, <2>2 DEF TableInv
  <2>5. T!TypeOK'
    BY <1>1, <2>1, <2>3, <2>4 DEF TableInv, T!TypeOK, CopyRecord
  <2>6. Current(file)'
    BY <1>3, <2>1, <2>4 DEF Current
  <2>7. \A r \in Sync : copy'[r] # T!NoCopy => Current(copy[r].refs)'
    BY <1>3, <2>3, <2>4 DEF TableInv, Current
  <2> QED BY <1>1, <2>3, <2>5, <2>6, <2>7 DEF TableInv, T!CacheMissesOnlyOthers
<1>7. CASE T!SyncEnd(s) \/ T!SyncFails(s)
  <2>1. /\ copy' = [copy EXCEPT ![s] = T!NoCopy] /\ UNCHANGED file
        /\ tUsed' \in [syncs : Nat, faults : Nat]
        /\ dirty' \in BOOLEAN /\ (dirty' # dirty => copy[s].landed)
    <3>1. CASE T!SyncEnd(s)
      BY <1>2, <3>1 DEF T!SyncEnd
    <3>2. CASE T!SyncFails(s)
      BY <1>2, <3>2 DEF T!SyncFails
    <3> QED BY <1>7, <3>1, <3>2
  <2>2. /\ copy' \in [Sync -> CopyRecord] /\ copy'[s] = T!NoCopy
        /\ \A r \in Sync \ {s} : copy'[r] = copy[r]
    BY <1>2, <1>4, <2>1
  <2>3. T!TypeOK'
    BY <1>1, <2>1, <2>2 DEF TableInv, T!TypeOK, CopyRecord
  <2>4. ~dirty' => Current(file)'
    BY <1>3, <2>1 DEF TableInv, Current
  <2>5. \A r \in Sync : copy'[r] # T!NoCopy => Current(copy[r].refs)'
    BY <1>3, <2>2 DEF TableInv, Current
  <2>6. \A r \in Sync : copy'[r].landed => Current(file)'
    BY <1>3, <1>4, <2>1, <2>2 DEF TableInv, Current
  <2> QED BY <1>1, <2>2, <2>3, <2>4, <2>5, <2>6 DEF TableInv, T!CacheMissesOnlyOthers
<1> QED BY <1>5, <1>6, <1>7

(* Every step on the table keeps its invariant.                             *)
LEMMA TableInductive ==
    ASSUME HomesAssumption PROVE TableInv /\ [T!Next]_tVars => TableInv'
<1> SUFFICES ASSUME TableInv, [T!Next]_tVars PROVE TableInv'
  OBVIOUS
<1>1. CASE T!AdapterLoad
  <2>1. cache' = rows /\ UNCHANGED <<rows, dirty, file, copy, answer, by, tUsed>>
    BY <1>1 DEF T!AdapterLoad
  <2>2. T!TypeOK'
    BY <2>1 DEF TableInv, T!TypeOK
  <2> QED BY <2>1, <2>2 DEF TableInv, T!CacheMissesOnlyOthers, Current
<1>2. ASSUME NEW n \in TableName, NEW v \in T!Value,
             T!AdapterWrite(n, v) \/ T!PushWrite(n, v) \/ T!StoreWrite(n, v)
      PROVE  TableInv'
  BY <1>2, WriteRow, StoreRow
<1>3. ASSUME NEW n \in TableName, NEW expected \in T!Value, NEW v \in T!Value, T!AdapterSwap(n, expected, v)
      PROVE  TableInv'
  BY <1>3, WriteRow
<1>4. ASSUME NEW n \in TableName, NEW expected \in T!Value, NEW v \in TableSha, T!StoreSwap(n, expected, v)
      PROVE  TableInv'
  <2>1. v \in T!Value
    BY DEF T!Value
  <2> QED BY <1>4, <2>1, StoreRow
<1>5. ASSUME NEW s \in Sync, T!SyncStart(s) \/ T!SyncLands(s) \/ T!SyncEnd(s) \/ T!SyncFails(s)
      PROVE  TableInv'
  BY <1>5, SyncKeeps
<1>6. CASE UNCHANGED tVars
  <2>1. T!TypeOK'
    BY <1>6 DEF tVars, TableInv, T!TypeOK
  <2> QED BY <1>6, <2>1 DEF tVars, TableInv, T!CacheMissesOnlyOthers, Current
<1> QED BY <1>1, <1>2, <1>3, <1>4, <1>5, <1>6 DEF T!Next
-----------------------------------------------------------------------------
Request == Pushes \cup {R!NoPush.req}
Outcome == {"ok", "lock failed", "delete-refs not enabled", "non-fast-forward"}
PushRecord == [ req : Request, phase : R!Phase, at : Nat, seen : [Name -> R!Value],
                start : [Name -> R!Value], results : Seq(Outcome),
                broken : BOOLEAN, alone : BOOLEAN ]

\* An update that the rules of validateCommand let through.
Forward(c) == R!Type(c) = "update" /\ c.oldSha # c.newSha => <<c.oldSha, c.newSha>> \in Ancestor

\* The form of a push: the entry point of each phase, and how far it is.
PushFits(r) ==
    /\ r.at \in 1..(Len(r.req.commands) + 1)
    /\ r.phase = "unpacking" => r.at = 1
    /\ r.phase \in {"applying", "reading", "writing"} => r.at <= Len(r.req.commands)
    /\ r.phase \in {"validating", "applying"} => Len(r.results) = r.at - 1
    /\ r.phase \notin {"validating", "applying"} => Len(r.results) = 0
    /\ r.phase \in {"unpacking", "validating", "applying"} => r.req.kind = "each"
    /\ r.phase \in {"reading", "writing", "restoring"} => r.req.kind = "all"
    /\ r.phase = "applying" => Forward(r.req.commands[r.at])

\* No other push is served beside one that is alone.
AloneFits(p) ==
    push[p].alone /\ push[p].phase # "idle" => \A o \in Proc \ {p} : push[o].phase = "idle"

RefOf(r, i) == r.req.commands[i].refName

\* What a push that is alone has read is what its refs were when it began, and
\* nothing but its refs has changed, nor those it has put back.
Undoable(r) ==
    r.alone =>
        /\ r.phase = "reading" =>
              /\ rRefs = r.start
              /\ \A i \in 1..(r.at - 1) : r.seen[RefOf(r, i)] = r.start[RefOf(r, i)]
        /\ r.phase \in {"writing", "restoring"} =>
              /\ \A i \in DOMAIN r.req.commands : r.seen[RefOf(r, i)] = r.start[RefOf(r, i)]
              /\ \A n \in Name : (\A i \in DOMAIN r.req.commands : RefOf(r, i) # n) => rRefs[n] = r.start[n]
        /\ r.phase = "restoring" /\ ~r.broken =>
              \A i \in 1..(r.at - 1) : rRefs[RefOf(r, i)] = r.start[RefOf(r, i)]

ReceiveInv ==
    /\ rRefs \in [Name -> R!Value] /\ first \in [Name -> R!Value] /\ objects \subseteq Commit
    /\ accepted \in Seq(R!Command)
    /\ push \in [Proc -> PushRecord]
    /\ \A p \in Proc : PushFits(push[p]) /\ AloneFits(p) /\ Undoable(push[p])

(* The commands of a request.                                               *)
LEMMA RequestTyped ==
    ASSUME HomesAssumption, NEW r \in Request
    PROVE  /\ r.commands \in Seq(R!Command) /\ Len(r.commands) \in Nat
           /\ DOMAIN r.commands = 1..Len(r.commands)
           /\ r \in Pushes => Len(r.commands) > 0 /\ r.kind \in {"each", "all"}
<1>1. /\ r.commands \in Seq(R!Command)
      /\ r \in Pushes => r.commands # <<>> /\ r.kind \in {"each", "all"}
  <2>1. CASE r \in Pushes
    BY <2>1 DEF HomesAssumption, R!ReceiveAssumption
  <2>2. CASE r \notin Pushes
    <3>1. r.commands = <<>>
      BY <2>2 DEF Request, R!NoPush
    <3> QED BY <2>2, <3>1, EmptySeq
  <2> QED BY <2>1, <2>2
<1> QED BY <1>1, EmptySeq

(* A process that serves no push.                                           *)
LEMMA Unserved ==
    ASSUME HomesAssumption
    PROVE  R!NoPush \in PushRecord /\ PushFits(R!NoPush) /\ Undoable(R!NoPush) /\ Undoable(R!NoPush)'
<1>1. R!NoPush \in PushRecord
  BY DEF R!NoPush, PushRecord, Request, R!Phase, R!Value
<1> QED BY <1>1 DEF R!NoPush, PushFits, Undoable

(* The current command of a push, and the record without it.                *)
LEMMA CurrentCommand ==
    ASSUME HomesAssumption, ReceiveInv, NEW p \in Proc
    PROVE  /\ push[p] \in PushRecord /\ push[p].req \in Request /\ push[p].at \in Nat
           /\ R!Commands(p) = push[p].req.commands /\ R!Commands(p) \in Seq(R!Command)
           /\ Len(R!Commands(p)) \in Nat /\ DOMAIN R!Commands(p) = 1..Len(R!Commands(p))
           /\ push[p].at \in DOMAIN R!Commands(p) =>
                 /\ R!Cmd(p) \in R!Command /\ R!Cmd(p) = push[p].req.commands[push[p].at]
                 /\ R!Cmd(p).refName \in Name
                 /\ R!Cmd(p).oldSha \in R!Value /\ R!Cmd(p).newSha \in R!Value
<1>1. push[p] \in PushRecord /\ push[p].req \in Request /\ push[p].at \in Nat
  BY DEF ReceiveInv, PushRecord
<1>2. /\ R!Commands(p) = push[p].req.commands /\ R!Commands(p) \in Seq(R!Command)
      /\ Len(R!Commands(p)) \in Nat /\ DOMAIN R!Commands(p) = 1..Len(R!Commands(p))
  BY <1>1, RequestTyped DEF R!Commands
<1>3. ASSUME push[p].at \in DOMAIN R!Commands(p)
      PROVE  R!Cmd(p) \in R!Command /\ R!Cmd(p) = push[p].req.commands[push[p].at]
  BY <1>2, <1>3 DEF R!Cmd, R!Commands
<1> QED BY <1>1, <1>2, <1>3 DEF R!Command

(* One process goes on with the push it serves: the refs it may change are  *)
(* nobody's that is alone.                                                  *)
LEMMA PushMoves ==
    ASSUME HomesAssumption, ReceiveInv, NEW p \in Proc, push[p].phase # "idle",
           NEW r \in PushRecord, push' = [push EXCEPT ![p] = r],
           PushFits(r), Undoable(r)', r.alone = push[p].alone \/ r.phase = "idle",
           rRefs' \in [Name -> R!Value], UNCHANGED <<objects, first>>, accepted' \in Seq(R!Command)
    PROVE  ReceiveInv'
<1>1. /\ push' \in [Proc -> PushRecord] /\ push'[p] = r
      /\ \A o \in Proc \ {p} : push'[o] = push[o]
  BY SMTT(30) DEF ReceiveInv
<1>2. \A o \in Proc : PushFits(push[o])'
  BY <1>1, ZenonT(60) DEF ReceiveInv, PushFits, Forward, R!Type
<1>3. \A o \in Proc : AloneFits(o)'
  BY <1>1 DEF ReceiveInv, AloneFits
<1>4. ASSUME NEW o \in Proc PROVE Undoable(push[o])'
  <2>1. CASE o = p
    BY <1>1, <2>1 DEF Undoable, RefOf
  <2>2. CASE o # p
    <3>1. push'[o] = push[o] /\ (push[o].alone => push[o].phase = "idle")
      BY <1>1, <2>2 DEF ReceiveInv, AloneFits
    <3> QED BY <3>1 DEF Undoable
  <2> QED BY <2>1, <2>2
<1> QED BY <1>1, <1>2, <1>3, <1>4 DEF ReceiveInv

(* What there was first is what there is.                                   *)
LEMMA ReceiveInitially ==
    ASSUME HomesAssumption, R!Init PROVE ReceiveInv
<1>1. /\ rRefs \in [Name -> R!Value] /\ objects = {rRefs[n] : n \in Name} \ {None}
      /\ push = [p \in Proc |-> R!NoPush] /\ accepted = <<>> /\ first = rRefs
  BY DEF R!Init
<1>2. objects \subseteq Commit
  BY <1>1 DEF R!Value
<1>3. push \in [Proc -> PushRecord] /\ \A p \in Proc : PushFits(push[p]) /\ Undoable(push[p])
  BY <1>1, Unserved
<1>4. \A p \in Proc : AloneFits(p)
  BY <1>1 DEF AloneFits, R!NoPush
<1>5. accepted \in Seq(R!Command)
  BY <1>1, EmptySeq
<1> QED BY <1>1, <1>2, <1>3, <1>4, <1>5 DEF ReceiveInv

(* What a push is at says all of its form.                                  *)
LEMMA SamePlace ==
    ASSUME NEW r, NEW c, PushFits(r), c.req = r.req, c.at = r.at, c.phase = r.phase, c.results = r.results
    PROVE  PushFits(c)
BY DEF PushFits

(* A request is taken up by a process without one.                          *)
LEMMA ReceiveKeeps ==
    ASSUME HomesAssumption, ReceiveInv, NEW p \in Proc, NEW r \in Pushes, R!Receive(p, r)
    PROVE  ReceiveInv'
<1>1. /\ push[p].phase = "idle" /\ UNCHANGED <<rRefs, objects, accepted, first>>
      /\ push \in [Proc -> PushRecord]
      /\ rRefs \in [Name -> R!Value]
  BY DEF R!Receive, ReceiveInv
<1> DEFINE lone == \A o \in Proc \ {p} : push[o].phase = "idle"
           new == [R!NoPush EXCEPT !.req = r, !.start = rRefs, !.alone = lone,
                                   !.phase = IF r.kind = "each" THEN "unpacking" ELSE "reading"]
<1>2. push' = [q \in Proc |-> IF q # p THEN [push[q] EXCEPT !.alone = @ /\ push[q].phase = "idle"] ELSE new]
  BY DEF R!Receive
<1>3. r \in Request /\ Len(r.commands) \in Nat /\ Len(r.commands) > 0 /\ r.kind \in {"each", "all"}
  BY RequestTyped DEF Request
<1>4. R!NoPush \in PushRecord /\ R!NoPush.at = 1 /\ R!NoPush.results = <<>>
  BY Unserved, SMTT(30) DEF R!NoPush
<1>5. new \in PushRecord
  BY <1>1, <1>3, <1>4 DEF PushRecord, R!Phase
<1>6. /\ new.req = r /\ new.start = rRefs /\ new.alone = lone /\ new.at = 1 /\ new.results = <<>>
      /\ new.phase = IF r.kind = "each" THEN "unpacking" ELSE "reading"
  BY <1>4 DEF PushRecord
<1> HIDE DEF new
<1>8. ASSUME NEW q \in Proc \ {p}
      PROVE  /\ push'[q] \in PushRecord
             /\ push'[q].req = push[q].req /\ push'[q].phase = push[q].phase
             /\ push'[q].at = push[q].at /\ push'[q].seen = push[q].seen
             /\ push'[q].start = push[q].start /\ push'[q].results = push[q].results
             /\ push'[q].broken = push[q].broken
             /\ push'[q].alone => push[q].alone /\ push[q].phase = "idle"
  <2>1. push[q] \in PushRecord /\ push'[q] = [push[q] EXCEPT !.alone = @ /\ push[q].phase = "idle"]
    BY <1>1, <1>2
  <2> QED BY <2>1 DEF PushRecord
<1>9. push' \in [Proc -> PushRecord] /\ push'[p] = new
  BY <1>2, <1>5, <1>8
<1>10. ASSUME NEW q \in Proc PROVE PushFits(push[q])'
  <2>1. CASE q = p
    <3>1. /\ push'[p].at = 1 /\ push'[p].req = r /\ push'[p].results = <<>>
          /\ push'[p].phase = IF r.kind = "each" THEN "unpacking" ELSE "reading"
      BY <1>6, <1>9, SMTT(30)
    <3> QED BY <1>3, <2>1, <3>1 DEF PushFits
  <2>2. CASE q # p
    <3>1. PushFits(push[q])
      BY DEF ReceiveInv
    <3>2. PushFits(push'[q])
      BY <1>8, <2>2, <3>1, SamePlace
    <3> QED BY <3>2 DEF PushFits, Forward, R!Type
  <2> QED BY <2>1, <2>2
<1>11. ASSUME NEW q \in Proc PROVE AloneFits(q)'
  BY <1>6, <1>8, <1>9, ZenonT(60) DEF AloneFits
<1>12. ASSUME NEW q \in Proc PROVE Undoable(push[q])'
  <2>1. CASE q = p
    <3>1. /\ push'[p].at = 1 /\ push'[p].start = rRefs
          /\ push'[p].phase \in {"unpacking", "reading"}
      BY <1>6, <1>9
    <3> QED BY <1>1, <2>1, <3>1 DEF Undoable
  <2>2. CASE q # p
    <3>1. Undoable(push[q])
      BY DEF ReceiveInv
    <3>2. push'[q].alone => push'[q].phase = "idle"
      BY <1>8, <2>2
    <3> QED BY <3>2 DEF Undoable
  <2> QED BY <2>1, <2>2
<1> QED BY <1>1, <1>9, <1>10, <1>11, <1>12 DEF ReceiveInv

(* A push that is done, rejected or given up leaves its process without one. *)
LEMMA EndKeeps ==
    ASSUME HomesAssumption, ReceiveInv, NEW p \in Proc, push[p].phase # "idle",
           push' = [push EXCEPT ![p] = R!NoPush], rRefs' \in [Name -> R!Value],
           UNCHANGED <<objects, accepted, first>>
    PROVE  ReceiveInv'
<1>1. R!NoPush \in PushRecord /\ PushFits(R!NoPush) /\ R!NoPush.phase = "idle"
  BY Unserved DEF R!NoPush
<1>2. Undoable(R!NoPush)'
  BY Unserved
<1>3. R!NoPush' = R!NoPush
  BY DEF R!NoPush
<1>4. accepted' \in Seq(R!Command)
  BY DEF ReceiveInv
<1> QED BY <1>1, <1>2, <1>3, <1>4, PushMoves

(* The answer to a command, and the next one's turn.                        *)
LEMMA AnswerFits ==
    ASSUME HomesAssumption, ReceiveInv, NEW p \in Proc, push[p].phase \in {"validating", "applying"},
           push[p].at \in DOMAIN R!Commands(p), NEW result \in Outcome
    PROVE  /\ R!Answered(p, result) \in PushRecord /\ PushFits(R!Answered(p, result))
           /\ R!Answered(p, result).phase = "validating" /\ R!Answered(p, result).alone = push[p].alone
<1>1. /\ push[p] \in PushRecord /\ push[p].at \in Nat /\ push[p].at <= Len(push[p].req.commands)
      /\ Len(push[p].req.commands) \in Nat /\ PushFits(push[p])
  BY CurrentCommand DEF ReceiveInv
<1>2. push[p].results \in Seq(Outcome)
  BY <1>1 DEF PushRecord
<1>3. /\ Append(push[p].results, result) \in Seq(Outcome)
      /\ Len(Append(push[p].results, result)) = Len(push[p].results) + 1 /\ Len(push[p].results) \in Nat
  BY <1>2
<1>4. ASSUME NEW r, r = R!Answered(p, result)
      PROVE  r \in PushRecord /\ PushFits(r) /\ r.phase = "validating" /\ r.alone = push[p].alone
  <2>1. r = [push[p] EXCEPT !.results = Append(push[p].results, result), !.at = push[p].at + 1,
                            !.phase = "validating"]
    BY <1>4 DEF R!Answered
  <2>2. "validating" \in R!Phase /\ push[p].at + 1 \in Nat
    BY <1>1 DEF R!Phase
  <2>3. r \in PushRecord
    BY <1>1, <1>3, <2>1, <2>2 DEF PushRecord
  <2>4. /\ r.req = push[p].req /\ r.at = push[p].at + 1 /\ r.phase = "validating"
        /\ r.results = Append(push[p].results, result) /\ r.alone = push[p].alone
    BY <1>1, <2>1 DEF PushRecord
  <2>5. /\ Len(push[p].results) = push[p].at - 1 /\ push[p].at \in 1..(Len(push[p].req.commands) + 1)
        /\ push[p].req.kind = "each"
    BY <1>1 DEF PushFits
  <2>6. PushFits(r)
    <3>1. r.at \in 1..(Len(r.req.commands) + 1) /\ Len(r.results) = r.at - 1
      BY <1>1, <1>3, <2>4, <2>5, SMTT(30)
    <3> QED BY <2>4, <2>5, <3>1 DEF PushFits
  <2> QED BY <2>3, <2>4, <2>6
<1> QED BY <1>4

\* Pushes of single commands have nothing to undo.
LEMMA NothingToUndo ==
    ASSUME NEW r, r.phase \in {"idle", "unpacking", "validating", "applying"} PROVE Undoable(r)
BY DEF Undoable

(* handleReceivePack: the pack is looked at, and its commands are validated *)
(* and applied one by one.                                                  *)
LEMMA EachKeeps ==
    ASSUME HomesAssumption, ReceiveInv, NEW p \in Proc, R!Unpack(p) \/ R!Validate(p) \/ R!Apply(p)
    PROVE  ReceiveInv'
<1>1. /\ push[p] \in PushRecord /\ PushFits(push[p]) /\ Len(push[p].req.commands) \in Nat
      /\ push[p].at \in Nat /\ R!Commands(p) = push[p].req.commands
      /\ DOMAIN R!Commands(p) = 1..Len(push[p].req.commands)
      /\ push[p].phase # "idle" /\ UNCHANGED <<objects, first>>
  BY CurrentCommand DEF ReceiveInv, R!Unpack, R!Validate, R!Apply
<1>2. ASSUME NEW result \in Outcome, push' = [push EXCEPT ![p] = R!Answered(p, result)],
             push[p].phase \in {"validating", "applying"}, push[p].at \in DOMAIN R!Commands(p),
             rRefs' \in [Name -> R!Value], accepted' \in Seq(R!Command)
      PROVE  ReceiveInv'
  <2>1. PICK r : r = R!Answered(p, result)
    OBVIOUS
  <2>2. r \in PushRecord /\ PushFits(r) /\ r.phase = "validating" /\ r.alone = push[p].alone
    BY <1>2, <2>1, AnswerFits
  <2>3. Undoable(r)'
    BY <2>2 DEF Undoable
  <2>4. push' = [push EXCEPT ![p] = r]
    BY <1>2, <2>1
  <2> QED BY <1>1, <1>2, <2>2, <2>3, <2>4, PushMoves
<1>3. ASSUME NEW phase \in {"validating", "applying"}, push' = [push EXCEPT ![p].phase = phase],
             PushFits([push[p] EXCEPT !.phase = phase]), UNCHANGED <<rRefs, accepted>>
      PROVE  ReceiveInv'
  <2>1. PICK r : r = [push[p] EXCEPT !.phase = phase]
    OBVIOUS
  <2>2. r \in PushRecord /\ r.phase = phase /\ r.alone = push[p].alone
    BY <1>1, <2>1 DEF PushRecord, R!Phase
  <2>3. Undoable(r)' /\ PushFits(r)
    BY <1>3, <2>1, <2>2 DEF Undoable
  <2>4. push' = [push EXCEPT ![p] = r]
    BY <1>3, <2>1
  <2>5. rRefs' \in [Name -> R!Value] /\ accepted' \in Seq(R!Command)
    BY <1>3 DEF ReceiveInv
  <2> QED BY <1>1, <2>2, <2>3, <2>4, <2>5, PushMoves
<1>4. CASE R!Unpack(p)
  <2>1. /\ push[p].phase = "unpacking" /\ push' = [push EXCEPT ![p].phase = "validating"]
        /\ UNCHANGED <<rRefs, accepted>>
    BY <1>4 DEF R!Unpack
  <2>2. PushFits([push[p] EXCEPT !.phase = "validating"])
    <3>1. PICK r : r = [push[p] EXCEPT !.phase = "validating"]
      OBVIOUS
    <3>2. r.req = push[p].req /\ r.at = push[p].at /\ r.phase = "validating" /\ r.results = push[p].results
      BY <1>1, <3>1 DEF PushRecord
    <3>3. push[p].at = 1
      BY <1>1, <2>1 DEF PushFits
    <3>4. PushFits(r)
      BY <1>1, <2>1, <3>2, <3>3 DEF PushFits
    <3> QED BY <3>1, <3>4
  <2> QED BY <1>3, <2>1, <2>2
<1>5. CASE R!Validate(p)
  <2>1. /\ push[p].phase = "validating" /\ push[p].at \in DOMAIN R!Commands(p)
        /\ UNCHANGED <<rRefs, accepted>>
        /\ push' = [push EXCEPT ![p] = IF R!Verdict(p) = "ok" THEN [push[p] EXCEPT !.phase = "applying"]
                                       ELSE R!Answered(p, R!Verdict(p))]
    BY <1>5 DEF R!Validate
  <2>2. CASE R!Verdict(p) = "ok"
    <3>1. Forward(R!Cmd(p)) /\ R!Cmd(p) = push[p].req.commands[push[p].at]
      BY <2>1, <2>2, CurrentCommand DEF R!Verdict, Forward
    <3>2. PICK r : r = [push[p] EXCEPT !.phase = "applying"]
      OBVIOUS
    <3>3. r.req = push[p].req /\ r.at = push[p].at /\ r.phase = "applying" /\ r.results = push[p].results
      BY <1>1, <3>2 DEF PushRecord
    <3>4. PushFits(r)
      BY <1>1, <2>1, <3>1, <3>3 DEF PushFits
    <3>5. PushFits([push[p] EXCEPT !.phase = "applying"]) /\ push' = [push EXCEPT ![p].phase = "applying"]
      BY <2>1, <2>2, <3>2, <3>4
    <3> QED BY <1>3, <2>1, <3>5
  <2>3. CASE R!Verdict(p) # "ok"
    <3>1. R!Verdict(p) \in Outcome
      BY DEF R!Verdict, Outcome
    <3>2. push' = [push EXCEPT ![p] = R!Answered(p, R!Verdict(p))]
      BY <2>1, <2>3
    <3>3. rRefs' \in [Name -> R!Value] /\ accepted' \in Seq(R!Command)
      BY <2>1 DEF ReceiveInv
    <3> QED BY <1>2, <2>1, <3>1, <3>2, <3>3
  <2> QED BY <2>2, <2>3
<1>6. CASE R!Apply(p)
  <2>1. push[p].phase = "applying"
    BY <1>6 DEF R!Apply
  <2>2. push[p].at <= Len(push[p].req.commands) /\ push[p].at >= 1
    BY <1>1, <2>1 DEF PushFits
  <2>3. push[p].at \in DOMAIN R!Commands(p)
    BY <1>1, <2>2
  <2>4. /\ R!Cmd(p) \in R!Command /\ R!Cmd(p).newSha \in R!Value
        /\ rRefs \in [Name -> R!Value] /\ accepted \in Seq(R!Command)
    BY <2>3, CurrentCommand DEF ReceiveInv
  <2>5. CASE R!Applies(p)
    <3>1. /\ rRefs' = [rRefs EXCEPT ![R!Cmd(p).refName] = R!Cmd(p).newSha]
          /\ push' = [push EXCEPT ![p] = R!Answered(p, "ok")]
          /\ accepted' = Append(accepted, R!Cmd(p))
      BY <1>6, <2>5 DEF R!Apply
    <3>2. rRefs' \in [Name -> R!Value] /\ accepted' \in Seq(R!Command)
      <4>1. rRefs' \in [Name -> R!Value]
        BY <2>4, <3>1
      <4>2. accepted' \in Seq(R!Command)
        BY <2>4, <3>1, AppendProperties
      <4> QED BY <4>1, <4>2
    <3> QED BY <1>2, <2>1, <2>3, <3>1, <3>2 DEF Outcome
  <2>6. CASE ~R!Applies(p)
    <3>1. push' = [push EXCEPT ![p] = R!Answered(p, "lock failed")] /\ UNCHANGED <<rRefs, accepted>>
      BY <1>6, <2>6 DEF R!Apply
    <3> QED BY <1>2, <2>1, <2>3, <2>4, <3>1 DEF Outcome
  <2> QED BY <2>5, <2>6
<1> QED BY <1>4, <1>5, <1>6

\* The commands that an atomic push is at.
LEMMA AllAt ==
    ASSUME HomesAssumption, ReceiveInv, NEW p \in Proc, push[p].phase \in {"reading", "writing", "restoring"}
    PROVE  /\ push[p] \in PushRecord /\ Undoable(push[p]) /\ push[p].req.kind = "all"
           /\ Len(push[p].req.commands) \in Nat /\ push[p].at \in 1..(Len(push[p].req.commands) + 1)
           /\ Len(push[p].req.commands) > 0 /\ Len(push[p].results) = 0
           /\ R!Commands(p) = push[p].req.commands
           /\ DOMAIN push[p].req.commands = 1..Len(push[p].req.commands)
           /\ push[p].phase # "restoring" => push[p].at <= Len(push[p].req.commands)
           /\ push[p].at <= Len(push[p].req.commands) =>
                 R!Cmd(p).refName = RefOf(push[p], push[p].at) /\ R!Cmd(p).refName \in Name
                 /\ R!Cmd(p).newSha \in R!Value
           /\ \A i \in 1..Len(push[p].req.commands) : RefOf(push[p], i) \in Name
           /\ rRefs \in [Name -> R!Value]
<1>1. /\ push[p] \in PushRecord /\ PushFits(push[p]) /\ Undoable(push[p])
      /\ rRefs \in [Name -> R!Value] /\ push[p].req \in Request
  BY DEF ReceiveInv, PushRecord
<1>2. /\ push[p].req.kind = "all" /\ Len(push[p].results) = 0
      /\ push[p].at \in 1..(Len(push[p].req.commands) + 1)
      /\ push[p].phase # "restoring" => push[p].at <= Len(push[p].req.commands)
  BY <1>1 DEF PushFits
<1>3. push[p].req \in Pushes
  BY <1>1, <1>2 DEF Request, R!NoPush
<1>4. /\ push[p].req.commands \in Seq(R!Command) /\ Len(push[p].req.commands) \in Nat
      /\ Len(push[p].req.commands) > 0
      /\ DOMAIN push[p].req.commands = 1..Len(push[p].req.commands)
  BY <1>1, <1>3, RequestTyped
<1>5. \A i \in 1..Len(push[p].req.commands) : push[p].req.commands[i] \in R!Command
  BY <1>4
<1>6. \A i \in 1..Len(push[p].req.commands) : RefOf(push[p], i) \in Name
  BY <1>5 DEF RefOf, R!Command
<1>7. ASSUME push[p].at <= Len(push[p].req.commands)
      PROVE  /\ R!Cmd(p).refName = RefOf(push[p], push[p].at) /\ R!Cmd(p).refName \in Name
             /\ R!Cmd(p).newSha \in R!Value
  <2>1. push[p].at \in DOMAIN R!Commands(p)
    BY <1>2, <1>4, <1>7 DEF R!Commands
  <2> QED BY <2>1, CurrentCommand DEF RefOf
<1> QED BY <1>1, <1>2, <1>4, <1>6, <1>7, CurrentCommand

(* atomicRefUpdate reads: what a push that is alone has read is what its    *)
(* refs were when it began.                                                 *)
LEMMA ReadKeeps ==
    ASSUME HomesAssumption, ReceiveInv, NEW p \in Proc, R!Read(p) PROVE ReceiveInv'
<1> DEFINE N == Len(push[p].req.commands)
<1>1. push[p].phase = "reading" /\ UNCHANGED <<rRefs, objects, accepted, first>>
  BY DEF R!Read
<1>2. /\ push[p] \in PushRecord /\ Undoable(push[p]) /\ push[p].req.kind = "all"
      /\ N \in Nat /\ N > 0 /\ push[p].at \in 1..N /\ Len(push[p].results) = 0
      /\ R!Commands(p) = push[p].req.commands /\ DOMAIN push[p].req.commands = 1..N
      /\ R!Cmd(p).refName = RefOf(push[p], push[p].at) /\ R!Cmd(p).refName \in Name
      /\ \A i \in 1..N : RefOf(push[p], i) \in Name
      /\ rRefs \in [Name -> R!Value]
  BY <1>1, AllAt
<1>3. rRefs' \in [Name -> R!Value] /\ accepted' \in Seq(R!Command)
  BY <1>1 DEF ReceiveInv
<1>4. CASE push' = [push EXCEPT ![p] = R!NoPush]
  BY <1>1, <1>3, <1>4, EndKeeps
<1>5. ASSUME NEW at, NEW phase, push' = [push EXCEPT ![p] = [push[p] EXCEPT
                  !.seen[R!Cmd(p).refName] = rRefs[R!Cmd(p).refName], !.at = at, !.phase = phase]],
             \/ push[p].at = N /\ at = 1 /\ phase = "writing"
             \/ push[p].at < N /\ at = push[p].at + 1 /\ phase = "reading"
      PROVE  ReceiveInv'
  <2>1. PICK r : r = [push[p] EXCEPT !.seen[R!Cmd(p).refName] = rRefs[R!Cmd(p).refName],
                                     !.at = at, !.phase = phase]
    OBVIOUS
  <2>2. /\ push[p].seen \in [Name -> R!Value] /\ rRefs[R!Cmd(p).refName] \in R!Value
        /\ at \in Nat /\ phase \in R!Phase
    BY <1>2, <1>5 DEF PushRecord, R!Phase
  <2>3. /\ r.req = push[p].req /\ r.at = at /\ r.phase = phase /\ r.results = push[p].results
        /\ r.start = push[p].start /\ r.alone = push[p].alone /\ r.broken = push[p].broken
        /\ r.seen = [push[p].seen EXCEPT ![R!Cmd(p).refName] = rRefs[R!Cmd(p).refName]]
        /\ r \in PushRecord
    BY <1>2, <2>1, <2>2 DEF PushRecord
  <2>4. at \in 1..(N + 1) /\ at <= N
    BY <1>2, <1>5, SMTT(30)
  <2>5. PushFits(r)
    BY <1>2, <1>5, <2>3, <2>4 DEF PushFits
  <2>6. ASSUME r.alone
        PROVE  /\ rRefs = r.start
               /\ \A i \in 1..push[p].at : r.seen[RefOf(r, i)] = r.start[RefOf(r, i)]
    <3>1. /\ rRefs = push[p].start
          /\ \A i \in 1..(push[p].at - 1) : push[p].seen[RefOf(push[p], i)] = push[p].start[RefOf(push[p], i)]
      BY <1>1, <1>2, <2>3, <2>6 DEF Undoable
    <3>2. \A i : RefOf(r, i) = RefOf(push[p], i)
      BY <2>3 DEF RefOf
    <3>3. ASSUME NEW i \in 1..push[p].at PROVE r.seen[RefOf(r, i)] = r.start[RefOf(r, i)]
      <4>1. RefOf(r, i) \in Name
        BY <1>2, <3>2
      <4>2. CASE RefOf(r, i) = R!Cmd(p).refName
        BY <1>2, <2>2, <2>3, <3>1, <4>1, <4>2
      <4>3. CASE RefOf(r, i) # R!Cmd(p).refName
        <5>1. i \in 1..(push[p].at - 1)
          BY <1>2, <3>2, <4>3
        <5> QED BY <2>2, <2>3, <3>1, <3>2, <4>1, <4>3, <5>1
      <4> QED BY <4>2, <4>3
    <3> QED BY <2>3, <3>1, <3>3
  <2>7. Undoable(r)'
    <3>1. CASE phase = "reading"
      <4>1. phase = "reading" /\ at - 1 = push[p].at
        BY <1>2, <1>5, <3>1, SMTT(30)
      <4> QED BY <1>1, <2>3, <2>6, <4>1 DEF Undoable, RefOf
    <3>2. CASE phase = "writing"
      <4>1. DOMAIN r.req.commands = 1..push[p].at
        BY <1>2, <1>5, <2>3, <3>2
      <4> QED BY <1>1, <2>3, <2>6, <3>2, <4>1 DEF Undoable, RefOf
    <3> QED BY <1>5, <3>1, <3>2, SMTT(30)
  <2>8. push' = [push EXCEPT ![p] = r]
    BY <1>5, <2>1
  <2> QED BY <1>1, <1>3, <2>3, <2>5, <2>7, <2>8, PushMoves
<1>6. CASE push' # [push EXCEPT ![p] = R!NoPush]
  <2>1. push' = [push EXCEPT ![p] =
            IF push[p].at = N
            THEN [push[p] EXCEPT !.seen[R!Cmd(p).refName] = rRefs[R!Cmd(p).refName], !.at = 1, !.phase = "writing"]
            ELSE [push[p] EXCEPT !.seen[R!Cmd(p).refName] = rRefs[R!Cmd(p).refName], !.at = push[p].at + 1]]
    <3> DEFINE stop == R!Type(R!Cmd(p)) = "update" /\ rRefs[R!Cmd(p).refName] # R!Cmd(p).oldSha
               Kept(r) == IF push[p].at = Len(R!Commands(p))
                          THEN [r EXCEPT !.seen[R!Cmd(p).refName] = rRefs[R!Cmd(p).refName], !.at = 1, !.phase = "writing"]
                          ELSE [r EXCEPT !.seen[R!Cmd(p).refName] = rRefs[R!Cmd(p).refName], !.at = push[p].at + 1]
    <3>1. push' = [push EXCEPT ![p] = IF stop THEN R!NoPush ELSE Kept(push[p])]
      BY DEF R!Read
    <3>2. ~stop
      BY <1>6, <3>1
    <3> HIDE DEF stop
    <3> QED BY <1>2, <3>1, <3>2
  <2>2. CASE push[p].at = N
    BY <1>2, <1>5, <2>1, <2>2
  <2>3. CASE push[p].at # N
    <3>1. [push[p] EXCEPT !.seen[R!Cmd(p).refName] = rRefs[R!Cmd(p).refName], !.at = push[p].at + 1]
            = [push[p] EXCEPT !.seen[R!Cmd(p).refName] = rRefs[R!Cmd(p).refName],
                              !.at = push[p].at + 1, !.phase = "reading"]
      BY <1>1, <1>2 DEF PushRecord
    <3>2. push[p].at < N
      BY <1>2, <2>3
    <3> QED BY <1>5, <2>1, <2>3, <3>1, <3>2
  <2> QED BY <2>2, <2>3
<1> QED BY <1>4, <1>6

(* A step of a push that writes or puts back: what was read stays, and only *)
(* the ref of its current command is touched.                               *)
LEMMA AllMoves ==
    ASSUME HomesAssumption, ReceiveInv, NEW p \in Proc, push[p].phase \in {"writing", "restoring"},
           push[p].at <= Len(push[p].req.commands),
           NEW at \in Nat, NEW phase \in {"writing", "restoring"}, NEW broken \in BOOLEAN, NEW v \in R!Value,
           push' = [push EXCEPT ![p] = [push[p] EXCEPT !.at = at, !.phase = phase, !.broken = broken]],
           rRefs' = [rRefs EXCEPT ![R!Cmd(p).refName] = v] \/ rRefs' = rRefs,
           UNCHANGED <<objects, accepted, first>>,
           at \in 1..(Len(push[p].req.commands) + 1),
           phase = "writing" => at <= Len(push[p].req.commands),
           ~broken /\ phase = "restoring" /\ at # 1 =>
               /\ push[p].phase = "restoring" /\ ~push[p].broken /\ at = push[p].at + 1
               /\ rRefs' = [rRefs EXCEPT ![R!Cmd(p).refName] = R!Restored(p)]
    PROVE  ReceiveInv'
<1> DEFINE N == Len(push[p].req.commands)
<1>1. /\ push[p] \in PushRecord /\ Undoable(push[p]) /\ push[p].req.kind = "all"
      /\ N \in Nat /\ N > 0 /\ push[p].at \in 1..N /\ Len(push[p].results) = 0
      /\ DOMAIN push[p].req.commands = 1..N
      /\ R!Cmd(p).refName = RefOf(push[p], push[p].at) /\ R!Cmd(p).refName \in Name
      /\ \A i \in 1..N : RefOf(push[p], i) \in Name
      /\ rRefs \in [Name -> R!Value]
  BY AllAt
<1>2. rRefs' \in [Name -> R!Value] /\ accepted' \in Seq(R!Command)
  BY <1>1 DEF ReceiveInv
<1>3. PICK r : r = [push[p] EXCEPT !.at = at, !.phase = phase, !.broken = broken]
  OBVIOUS
<1>4. /\ r.req = push[p].req /\ r.at = at /\ r.phase = phase /\ r.results = push[p].results
      /\ r.start = push[p].start /\ r.alone = push[p].alone /\ r.broken = broken
      /\ r.seen = push[p].seen /\ r \in PushRecord
  BY <1>1, <1>3 DEF PushRecord, R!Phase
<1>5. PushFits(r)
  BY <1>1, <1>4 DEF PushFits
<1>6. \A i : RefOf(r, i) = RefOf(push[p], i)
  BY <1>4, SMTT(30) DEF RefOf
<1>7. Undoable(r)'
  <2> SUFFICES ASSUME r.alone PROVE Undoable(r)'
    BY DEF Undoable
  <2>1. /\ \A i \in 1..N : r.seen[RefOf(r, i)] = r.start[RefOf(r, i)]
        /\ \A n \in Name : (\A i \in 1..N : RefOf(r, i) # n) => rRefs[n] = r.start[n]
    BY <1>1, <1>4, <1>6 DEF Undoable
  <2>2. \A n \in Name : (\A i \in 1..N : RefOf(r, i) # n) => rRefs'[n] = r.start[n]
    BY <1>1, <1>6, <2>1
  <2>3. ASSUME phase = "restoring", ~broken, NEW i \in 1..(at - 1)
        PROVE  rRefs'[RefOf(r, i)] = r.start[RefOf(r, i)]
    <3>1. /\ push[p].phase = "restoring" /\ ~push[p].broken /\ at = push[p].at + 1
          /\ rRefs' = [rRefs EXCEPT ![R!Cmd(p).refName] = R!Restored(p)]
      BY <2>3
    <3>2. i \in 1..push[p].at /\ i \in 1..N /\ RefOf(r, i) \in Name
      BY <1>1, <1>6, <2>3, <3>1, SMTT(30)
    <3>3. \A j \in 1..(push[p].at - 1) : rRefs[RefOf(r, j)] = r.start[RefOf(r, j)]
      BY <1>1, <1>4, <1>6, <3>1 DEF Undoable
    <3>4. R!Restored(p) = r.start[R!Cmd(p).refName]
      BY <1>1, <1>4, <1>6, <2>1 DEF R!Restored
    <3>5. CASE RefOf(r, i) = R!Cmd(p).refName
      BY <1>1, <3>1, <3>2, <3>4, <3>5
    <3>6. CASE RefOf(r, i) # R!Cmd(p).refName
      <4>1. i \in 1..(push[p].at - 1)
        BY <1>1, <1>6, <3>2, <3>6
      <4> QED BY <1>1, <3>1, <3>2, <3>3, <3>6, <4>1
    <3> QED BY <3>5, <3>6
  <2>4. DOMAIN r.req.commands = 1..N
    BY <1>1, <1>4
  <2> QED BY <1>4, <2>1, <2>2, <2>3, <2>4 DEF Undoable, RefOf
<1>8. push' = [push EXCEPT ![p] = r] /\ push[p].phase # "idle"
  BY <1>3
<1> QED BY <1>2, <1>4, <1>5, <1>7, <1>8, PushMoves

(* atomicRefUpdate writes, fails, and puts back.                            *)
LEMMA WriteKeeps ==
    ASSUME HomesAssumption, ReceiveInv, NEW p \in Proc,
           R!Write(p) \/ R!WriteFails(p) \/ R!Restore(p) \/ R!RestoreFails(p)
    PROVE  ReceiveInv'
<1> DEFINE N == Len(push[p].req.commands)
           Turned(at, phase, broken) == [push[p] EXCEPT !.at = at, !.phase = phase, !.broken = broken]
<1>1. push[p].phase \in {"writing", "restoring"} /\ UNCHANGED <<objects, accepted, first>>
  BY DEF R!Write, R!WriteFails, R!Restore, R!RestoreFails, R!NextRestore
<1>2. /\ push[p] \in PushRecord /\ N \in Nat /\ N > 0 /\ push[p].at \in 1..(N + 1)
      /\ R!Commands(p) = push[p].req.commands /\ DOMAIN push[p].req.commands = 1..N
      /\ push[p].phase = "writing" => push[p].at <= N
      /\ push[p].at <= N => R!Cmd(p).refName \in Name /\ R!Cmd(p).newSha \in R!Value
      /\ rRefs \in [Name -> R!Value] /\ push \in [Proc -> PushRecord]
  <2>1. push \in [Proc -> PushRecord]
    BY DEF ReceiveInv
  <2> QED BY <1>1, <2>1, AllAt
<1>3. /\ push[p].seen \in [Name -> R!Value] /\ push[p].broken \in BOOLEAN /\ push[p].at \in Nat
      /\ \A at \in Nat, phase \in R!Phase, broken \in BOOLEAN : Turned(at, phase, broken) \in PushRecord
  BY <1>2 DEF PushRecord
<1>4. CASE R!Write(p)
  <2>1. /\ push[p].phase = "writing" /\ rRefs' = [rRefs EXCEPT ![R!Cmd(p).refName] = R!Cmd(p).newSha]
        /\ push' = [push EXCEPT ![p] = IF push[p].at = N THEN R!NoPush
                                       ELSE [push[p] EXCEPT !.at = push[p].at + 1]]
    BY <1>2, <1>4 DEF R!Write
  <2>2. rRefs' \in [Name -> R!Value]
    BY <1>2, <2>1
  <2>3. CASE push[p].at = N
    BY <1>1, <2>1, <2>2, <2>3, EndKeeps
  <2>4. CASE push[p].at # N
    <3>1. [push[p] EXCEPT !.at = push[p].at + 1] = Turned(push[p].at + 1, "writing", push[p].broken)
      BY <1>2, <2>1 DEF PushRecord
    <3>2. push' = [push EXCEPT ![p] = Turned(push[p].at + 1, "writing", push[p].broken)]
      BY <2>1, <2>4, <3>1
    <3>3. /\ push[p].at + 1 \in Nat /\ push[p].at + 1 \in 1..(N + 1) /\ push[p].at + 1 <= N
          /\ push[p].at <= N
      BY <1>2, <2>1, <2>4
    <3> QED BY <1>1, <1>2, <1>3, <2>1, <3>2, <3>3, AllMoves, ZenonT(60)
  <2> QED BY <2>3, <2>4
<1>5. CASE R!WriteFails(p)
  <2>1. /\ push[p].phase = "writing"
        /\ rRefs' = [rRefs EXCEPT ![R!Cmd(p).refName] = R!Cmd(p).newSha] \/ rRefs' = rRefs
        /\ push' = [push EXCEPT ![p].phase = "restoring", ![p].at = 1]
    BY <1>5 DEF R!WriteFails
  <2>2. push' = [push EXCEPT ![p] = Turned(1, "restoring", push[p].broken)]
    <3>1. [push EXCEPT ![p].phase = "restoring", ![p].at = 1]
            = [push EXCEPT ![p] = [push[p] EXCEPT !.phase = "restoring", !.at = 1]]
      BY <1>2
    <3>2. [push[p] EXCEPT !.phase = "restoring", !.at = 1] = Turned(1, "restoring", push[p].broken)
      BY <1>2 DEF PushRecord
    <3> QED BY <2>1, <3>1, <3>2
  <2>3. 1 \in Nat /\ 1 \in 1..(N + 1) /\ push[p].at <= N
    BY <1>2, <2>1
  <2> QED BY <1>1, <1>2, <1>3, <2>1, <2>2, <2>3, AllMoves, ZenonT(60)
<1>6. CASE R!Restore(p)
  <2>1. /\ push[p].phase = "restoring" /\ push[p].at <= N
        /\ rRefs' = [rRefs EXCEPT ![R!Cmd(p).refName] = R!Restored(p)]
        /\ push' = [push EXCEPT ![p].at = push[p].at + 1]
    BY <1>2, <1>6 DEF R!Restore, R!NextRestore
  <2>2. push' = [push EXCEPT ![p] = Turned(push[p].at + 1, "restoring", push[p].broken)]
    <3>1. [push EXCEPT ![p].at = push[p].at + 1] = [push EXCEPT ![p] = [push[p] EXCEPT !.at = push[p].at + 1]]
      BY <1>2
    <3>2. [push[p] EXCEPT !.at = push[p].at + 1] = Turned(push[p].at + 1, "restoring", push[p].broken)
      BY <1>2, <2>1 DEF PushRecord
    <3> QED BY <2>1, <3>1, <3>2
  <2>3. push[p].at + 1 \in Nat /\ push[p].at + 1 \in 1..(N + 1)
    BY <1>2, <2>1
  <2>4. R!Restored(p) \in R!Value
    BY <1>2, <1>3, <2>1 DEF R!Restored
  <2> QED BY <1>1, <1>2, <1>3, <2>1, <2>2, <2>3, <2>4, AllMoves, ZenonT(60)
<1>7. CASE R!RestoreFails(p)
  <2>1. /\ push[p].phase = "restoring" /\ push[p].at <= N /\ rRefs' = rRefs
        /\ push' = [push EXCEPT ![p].at = push[p].at + 1, ![p].broken = TRUE]
    BY <1>2, <1>7 DEF R!RestoreFails
  <2>2. push' = [push EXCEPT ![p] = Turned(push[p].at + 1, "restoring", TRUE)]
    <3>1. [push EXCEPT ![p].at = push[p].at + 1, ![p].broken = TRUE]
            = [push EXCEPT ![p] = [push[p] EXCEPT !.at = push[p].at + 1, !.broken = TRUE]]
      BY <1>2
    <3>2. [push[p] EXCEPT !.at = push[p].at + 1, !.broken = TRUE] = Turned(push[p].at + 1, "restoring", TRUE)
      BY <1>2, <2>1 DEF PushRecord
    <3> QED BY <2>1, <3>1, <3>2
  <2>3. push[p].at + 1 \in Nat /\ push[p].at + 1 \in 1..(N + 1)
    BY <1>2, <2>1
  <2>4. R!Cmd(p).newSha \in R!Value
    BY <1>2, <2>1
  <2> QED BY <1>1, <1>2, <1>3, <2>1, <2>2, <2>3, <2>4, AllMoves
<1> QED BY <1>4, <1>5, <1>6, <1>7

(* Every step of the pushes keeps their invariant.                          *)
LEMMA ReceiveInductive ==
    ASSUME HomesAssumption PROVE ReceiveInv /\ [R!Next]_rVars => ReceiveInv'
<1> SUFFICES ASSUME ReceiveInv, [R!Next]_rVars PROVE ReceiveInv'
  OBVIOUS
<1>1. CASE UNCHANGED rVars
  <2>1. UNCHANGED <<rRefs, objects, push, accepted, first>>
    BY <1>1, SMTT(30) DEF rVars
  <2>2. \A p \in Proc : PushFits(push[p])'
    BY <2>1, SMTT(30) DEF ReceiveInv, PushFits, Forward, R!Type
  <2>3. \A p \in Proc : AloneFits(p)'
    BY <2>1 DEF ReceiveInv, AloneFits
  <2>4. \A p \in Proc : Undoable(push[p])'
    BY <2>1 DEF ReceiveInv, Undoable, RefOf
  <2> QED BY <2>1, <2>2, <2>3, <2>4 DEF ReceiveInv
<1>2. ASSUME NEW p \in Proc, R!ApplyFails(p) \/ R!Report(p) \/ R!GiveUp(p) PROVE ReceiveInv'
  <2>1. /\ push[p].phase # "idle" /\ push' = [push EXCEPT ![p] = R!NoPush]
        /\ UNCHANGED <<rRefs, objects, accepted, first>>
    BY <1>2 DEF R!ApplyFails, R!Report, R!GiveUp
  <2>2. rRefs' \in [Name -> R!Value]
    BY <2>1 DEF ReceiveInv
  <2> QED BY <2>1, <2>2, EndKeeps
<1>3. CASE R!Next
  <2>1. PICK p \in Proc :
           \/ \E r \in Pushes : R!Receive(p, r)
           \/ R!Unpack(p) \/ R!Validate(p) \/ R!Apply(p) \/ R!ApplyFails(p) \/ R!Report(p)
           \/ R!Read(p) \/ R!Write(p) \/ R!WriteFails(p)
           \/ R!Restore(p) \/ R!RestoreFails(p) \/ R!GiveUp(p)
    BY <1>3 DEF R!Next
  <2> QED BY <1>2, <2>1, ReceiveKeeps, EachKeeps, ReadKeeps, WriteKeeps
<1> QED BY <1>1, <1>3

(* The invariant holds the types of the module.                             *)
LEMMA PushesTyped == ASSUME HomesAssumption, ReceiveInv PROVE R!TypeOK
<1>1. push \in [Proc -> PushRecord]
  BY DEF ReceiveInv
<1>2. ASSUME NEW p \in Proc
      PROVE  /\ push[p].phase \in R!Phase /\ push[p].at \in 1..(Len(R!Commands(p)) + 1)
             /\ Len(push[p].results) <= Len(R!Commands(p))
             /\ push[p].seen \in [Name -> R!Value] /\ push[p].start \in [Name -> R!Value]
  <2>1. /\ push[p] \in PushRecord /\ PushFits(push[p]) /\ Len(push[p].req.commands) \in Nat
        /\ R!Commands(p) = push[p].req.commands
    BY CurrentCommand DEF ReceiveInv
  <2>2. push[p].at \in 1..(Len(push[p].req.commands) + 1) /\ Len(push[p].results) \in {0, push[p].at - 1}
    BY <2>1 DEF PushFits
  <2> QED BY <2>1, <2>2 DEF PushRecord
<1> QED BY <1>1, <1>2 DEF ReceiveInv, R!TypeOK

(* A push that was alone and has put back all of its refs has put back      *)
(* everything.                                                              *)
LEMMA RollsBack == ASSUME HomesAssumption, ReceiveInv PROVE R!RollbackRestores
<1> SUFFICES ASSUME NEW p \in Proc, push[p].phase = "restoring", push[p].at > Len(R!Commands(p)),
                    push[p].alone, ~push[p].broken
             PROVE  rRefs = push[p].start
  BY DEF R!RollbackRestores
<1> DEFINE N == Len(push[p].req.commands)
<1>1. /\ push[p] \in PushRecord /\ Undoable(push[p]) /\ N \in Nat /\ push[p].at \in 1..(N + 1)
      /\ R!Commands(p) = push[p].req.commands /\ DOMAIN push[p].req.commands = 1..N
      /\ rRefs \in [Name -> R!Value]
  BY AllAt
<1>2. push[p].at - 1 = N
  BY <1>1
<1>3. /\ \A n \in Name : (\A i \in 1..N : RefOf(push[p], i) # n) => rRefs[n] = push[p].start[n]
      /\ \A i \in 1..N : rRefs[RefOf(push[p], i)] = push[p].start[RefOf(push[p], i)]
  BY <1>1, <1>2 DEF Undoable
<1>4. \A n \in Name : rRefs[n] = push[p].start[n]
  BY <1>3
<1>5. push[p].start \in [Name -> R!Value]
  BY <1>1 DEF PushRecord
<1> QED BY <1>1, <1>4, <1>5

\* What a step of the pushes does to the refs where no push is atomic: at most
\* a command is applied that its ref fits, and an update moves it forward.
Applied(c) ==
    /\ c \in R!Command /\ rRefs[c.refName] = c.oldSha /\ Forward(c)
    /\ rRefs' = [rRefs EXCEPT ![c.refName] = c.newSha] /\ accepted' = Append(accepted, c)

LEMMA EachMoves ==
    ASSUME HomesAssumption, CanSwap, ReceiveInv, Served, "all" \notin serves, [R!Next]_rVars
    PROVE  UNCHANGED <<rRefs, accepted>> \/ \E c \in R!Command : Applied(c)
<1>1. CASE UNCHANGED rVars
  BY <1>1, SMTT(30) DEF rVars
<1>2. CASE R!Next
  <2>1. PICK p \in Proc :
           \/ \E r \in Pushes : R!Receive(p, r)
           \/ R!Unpack(p) \/ R!Validate(p) \/ R!Apply(p) \/ R!ApplyFails(p) \/ R!Report(p)
           \/ R!Read(p) \/ R!Write(p) \/ R!WriteFails(p)
           \/ R!Restore(p) \/ R!RestoreFails(p) \/ R!GiveUp(p)
    BY <1>2 DEF R!Next
  <2>2. push[p].phase \notin {"reading", "writing", "restoring"}
    <3>1. PushFits(push[p]) /\ push[p].req.kind # "all"
      BY DEF ReceiveInv, Served
    <3> QED BY <3>1 DEF PushFits
  <2>3. CASE R!Apply(p)
    <3>1. push[p].phase = "applying" /\ PushFits(push[p])
      BY <2>3 DEF R!Apply, ReceiveInv
    <3>2. push[p].at \in 1..(Len(push[p].req.commands) + 1) /\ push[p].at <= Len(push[p].req.commands)
          /\ Forward(push[p].req.commands[push[p].at])
      BY <3>1 DEF PushFits
    <3>3. push[p].at \in DOMAIN R!Commands(p)
      BY <3>2, CurrentCommand
    <3>4. R!Cmd(p) \in R!Command /\ Forward(R!Cmd(p))
      BY <3>2, <3>3, CurrentCommand
    <3>5. \/ UNCHANGED <<rRefs, accepted>>
          \/ /\ rRefs[R!Cmd(p).refName] = R!Cmd(p).oldSha
             /\ rRefs' = [rRefs EXCEPT ![R!Cmd(p).refName] = R!Cmd(p).newSha]
             /\ accepted' = Append(accepted, R!Cmd(p))
      BY <2>3 DEF R!Apply, R!Applies
    <3> QED BY <3>4, <3>5 DEF Applied
  <2> QED BY <2>1, <2>2, <2>3 DEF R!Receive, R!Unpack, R!Validate, R!ApplyFails, R!Report, R!Read,
                                  R!Write, R!WriteFails, R!Restore, R!RestoreFails, R!GiveUp
<1> QED BY <1>1, <1>2

(* A set of indices, and the next one.                                      *)
LEMMA NextIndex ==
    ASSUME NEW N \in Nat, NEW A \in SUBSET (1..N)
    PROVE  Cardinality(A) \in Nat /\ Cardinality(A \cup {N + 1}) = Cardinality(A) + 1
<1>1. IsFiniteSet(A)
  <2>1. IsFiniteSet(1..N)
    BY FS_Interval
  <2> QED BY <2>1, FS_Subset
<1>2. N + 1 \notin A
  OBVIOUS
<1> QED BY <1>1, <1>2, FS_CardinalityType, FS_AddElement

\* The indices of the commands that bring a ref to a value, and away from it.
Into(s, n, v) == {i \in DOMAIN s : s[i].refName = n /\ s[i].newSha = v}
OutOf(s, n, v) == {i \in DOMAIN s : s[i].refName = n /\ s[i].oldSha = v}

Explains(s, from, to) ==
    \A n \in Name, v \in R!Value :
        R!One(from[n] = v) + Cardinality(Into(s, n, v)) = R!One(to[n] = v) + Cardinality(OutOf(s, n, v))

(* An applied command is counted once where its ref comes from, and once    *)
(* where it goes to.                                                        *)
LEMMA Explained ==
    ASSUME NEW s \in Seq(R!Command), NEW c \in R!Command,
           NEW from \in [Name -> R!Value], NEW to \in [Name -> R!Value],
           to[c.refName] = c.oldSha, Explains(s, from, to)
    PROVE  Explains(Append(s, c), from, [to EXCEPT ![c.refName] = c.newSha])
<1> DEFINE N == Len(s)
<1>1. N \in Nat /\ DOMAIN s = 1..N /\ c.refName \in Name
  BY DEF R!Command
<1>2. PICK t : t = Append(s, c)
  OBVIOUS
<1>3. DOMAIN t = 1..(N + 1) /\ t[N + 1] = c /\ \A i \in 1..N : t[i] = s[i]
  <2>1. t \in Seq(R!Command) /\ Len(t) = N + 1 /\ t[N + 1] = c /\ \A i \in 1..N : t[i] = s[i]
    BY <1>2, AppendProperties
  <2> QED BY <2>1
<1> SUFFICES ASSUME NEW n \in Name, NEW v \in R!Value
             PROVE  R!One(from[n] = v) + Cardinality(Into(t, n, v))
                      = R!One([to EXCEPT ![c.refName] = c.newSha][n] = v) + Cardinality(OutOf(t, n, v))
  BY <1>2 DEF Explains
<1>4. /\ Cardinality(Into(s, n, v)) \in Nat
      /\ Cardinality(Into(t, n, v)) = Cardinality(Into(s, n, v)) + R!One(c.refName = n /\ c.newSha = v)
  <2>1. Into(s, n, v) \in SUBSET (1..N)
    BY <1>1 DEF Into
  <2>2. ASSUME NEW i
        PROVE  i \in Into(t, n, v) <=> i \in Into(s, n, v) \/ (c.refName = n /\ c.newSha = v /\ i = N + 1)
    <3>1. CASE i \in 1..N
      BY <1>1, <1>3, <3>1 DEF Into
    <3>2. CASE i = N + 1
      BY <1>1, <1>3, <3>2 DEF Into
    <3>3. CASE i \notin 1..(N + 1)
      BY <1>1, <1>3, <3>3 DEF Into
    <3> QED BY <1>1, <3>1, <3>2, <3>3
  <2>3. /\ Cardinality(Into(s, n, v)) \in Nat
        /\ Cardinality(Into(s, n, v) \cup {N + 1}) = Cardinality(Into(s, n, v)) + 1
    BY <1>1, <2>1, NextIndex
  <2>4. CASE c.refName = n /\ c.newSha = v
    <3>1. Into(t, n, v) = Into(s, n, v) \cup {N + 1}
      BY <2>2, <2>4
    <3> QED BY <2>3, <2>4, <3>1 DEF R!One
  <2>5. CASE ~(c.refName = n /\ c.newSha = v)
    <3>1. Into(t, n, v) = Into(s, n, v)
      BY <2>2, <2>5
    <3> QED BY <2>3, <2>5, <3>1 DEF R!One
  <2> QED BY <2>4, <2>5
<1>5. /\ Cardinality(OutOf(s, n, v)) \in Nat
      /\ Cardinality(OutOf(t, n, v)) = Cardinality(OutOf(s, n, v)) + R!One(c.refName = n /\ c.oldSha = v)
  <2>1. OutOf(s, n, v) \in SUBSET (1..N)
    BY <1>1 DEF OutOf
  <2>2. ASSUME NEW i
        PROVE  i \in OutOf(t, n, v) <=> i \in OutOf(s, n, v) \/ (c.refName = n /\ c.oldSha = v /\ i = N + 1)
    <3>1. CASE i \in 1..N
      BY <1>1, <1>3, <3>1 DEF OutOf
    <3>2. CASE i = N + 1
      BY <1>1, <1>3, <3>2 DEF OutOf
    <3>3. CASE i \notin 1..(N + 1)
      BY <1>1, <1>3, <3>3 DEF OutOf
    <3> QED BY <1>1, <3>1, <3>2, <3>3
  <2>3. /\ Cardinality(OutOf(s, n, v)) \in Nat
        /\ Cardinality(OutOf(s, n, v) \cup {N + 1}) = Cardinality(OutOf(s, n, v)) + 1
    BY <1>1, <2>1, NextIndex
  <2>4. CASE c.refName = n /\ c.oldSha = v
    <3>1. OutOf(t, n, v) = OutOf(s, n, v) \cup {N + 1}
      BY <2>2, <2>4
    <3> QED BY <2>3, <2>4, <3>1 DEF R!One
  <2>5. CASE ~(c.refName = n /\ c.oldSha = v)
    <3>1. OutOf(t, n, v) = OutOf(s, n, v)
      BY <2>2, <2>5
    <3> QED BY <2>3, <2>5, <3>1 DEF R!One
  <2> QED BY <2>4, <2>5
<1>6. R!One(from[n] = v) + Cardinality(Into(s, n, v)) = R!One(to[n] = v) + Cardinality(OutOf(s, n, v))
  BY DEF Explains
<1>7. CASE c.refName = n
  <2>1. [to EXCEPT ![c.refName] = c.newSha][n] = c.newSha
    BY <1>7
  <2>2. /\ R!One(from[n] = v) \in Nat /\ R!One(c.newSha = v) \in Nat /\ R!One(c.oldSha = v) \in Nat
        /\ to[n] = c.oldSha
    BY <1>7 DEF R!One
  <2>3. (c.refName = n /\ c.newSha = v) = (c.newSha = v) /\ (c.refName = n /\ c.oldSha = v) = (c.oldSha = v)
    BY <1>7
  <2>4. /\ Cardinality(Into(t, n, v)) = Cardinality(Into(s, n, v)) + R!One(c.newSha = v)
        /\ Cardinality(OutOf(t, n, v)) = Cardinality(OutOf(s, n, v)) + R!One(c.oldSha = v)
        /\ R!One(from[n] = v) + Cardinality(Into(s, n, v)) = R!One(c.oldSha = v) + Cardinality(OutOf(s, n, v))
    BY <1>4, <1>5, <1>6, <2>2, <2>3
  <2>5. R!One(from[n] = v) + Cardinality(Into(t, n, v)) = R!One(c.newSha = v) + Cardinality(OutOf(t, n, v))
    BY <1>4, <1>5, <2>2, <2>4
  <2> QED BY <2>1, <2>5
<1>8. CASE c.refName # n
  <2>1. [to EXCEPT ![c.refName] = c.newSha][n] = to[n]
    BY <1>8
  <2>2. /\ Cardinality(Into(t, n, v)) = Cardinality(Into(s, n, v))
        /\ Cardinality(OutOf(t, n, v)) = Cardinality(OutOf(s, n, v))
    BY <1>4, <1>5, <1>8 DEF R!One
  <2> QED BY <1>6, <2>1, <2>2
<1> QED BY <1>7, <1>8

LEMMA SameCount == ASSUME NEW S PROVE R!Cardinality(S) = Cardinality(S)
BY DEF R!Cardinality, Cardinality

\* What ReportsExplainRefs says of a state, and of the next one.
LEMMA ReportsAre ==
    /\ R!ReportsExplainRefs <=> Explains(accepted, first, rRefs)
    /\ R!ReportsExplainRefs' <=> Explains(accepted', first', rRefs')
<1>1. R!ReportsExplainRefs <=> Explains(accepted, first, rRefs)
  BY SameCount DEF R!ReportsExplainRefs, R!Arrivals, R!Departures, Explains, Into, OutOf
<1>2. R!ReportsExplainRefs' <=> Explains(accepted', first', rRefs')
  BY SameCount DEF R!ReportsExplainRefs, R!Arrivals, R!Departures, Explains, Into, OutOf
<1> QED BY <1>1, <1>2
-----------------------------------------------------------------------------
HomesInv == TableInv /\ ReceiveInv /\ Served

(* The homes of refs keep their invariants beside each other.               *)
LEMMA HomesInvariant ==
    ASSUME HomesAssumption PROVE HomesSpec => []HomesInv
<1>1. HomesInit => HomesInv
  <2>1. R!Init => \A p \in Proc : push[p].req.kind = "none"
    BY DEF R!Init, R!NoPush
  <2> QED BY <2>1, TableInitially, ReceiveInitially DEF HomesInit, HomesInv, Served
<1>2. HomesInv /\ [HomesNext]_homeVars => HomesInv'
  <2> SUFFICES ASSUME HomesInv, [HomesNext]_homeVars PROVE HomesInv'
    OBVIOUS
  <2>1. [T!Next]_tVars /\ [R!Next]_rVars
    BY DEF HomesNext, InStorage, InTable, InReceive, homeVars
  <2>2. Served'
    BY DEF HomesNext, InStorage, InTable, InReceive, homeVars, rVars, HomesInv, Served
  <2> QED BY <2>1, <2>2, TableInductive, ReceiveInductive DEF HomesInv
<1> QED BY <1>1, <1>2, PTL DEF HomesSpec

(* RefStorage, RefTable and ReceivePack hold what their types say, where    *)
(* the lock of a ref's name is taken and freed at once (as RefStorage_proofs *)
(* assumes).                                                                *)
THEOREM HomesTyped ==
    ASSUME HomesAssumption, Locking, PromptRemoval PROVE HomesSpec => []TypesOK
<1>1. HomesSpec => Spec
  <2>1. HomesInit => Init
    BY DEF HomesInit
  <2>2. [HomesNext]_homeVars => [Next]_vars
    BY DEF HomesNext, InStorage, InTable, InReceive, homeVars
  <2> QED BY <2>1, <2>2, PTL DEF HomesSpec, Spec
<1>2. Spec => []TypeOK
  BY TypeCorrect DEF Locks, HomesAssumption
<1>3. HomesInv => T!TypeOK /\ R!TypeOK
  BY PushesTyped DEF HomesInv, TableInv
<1> QED BY <1>1, <1>2, <1>3, HomesInvariant, PTL DEF TypesOK

(* The cache over the refs table misses only what others than its adapter   *)
(* wrote (sqlite-refs and the worker write the table it caches).            *)
THEOREM CacheMisses ==
    ASSUME HomesAssumption PROVE HomesSpec => []CacheMissesOnlyOthers
<1>1. HomesInv => CacheMissesOnlyOthers
  BY DEF HomesInv, TableInv, CacheMissesOnlyOthers
<1> QED BY <1>1, HomesInvariant, PTL

(* A ref store that is not dirty has on R2 what the table says, but for     *)
(* what others wrote, or itself while a copy was on its way.                *)
THEOREM CleanMisses ==
    ASSUME HomesAssumption PROVE HomesSpec => []CleanMissesOnlyOthers
<1>1. HomesInv => CleanMissesOnlyOthers
  BY DEF HomesInv, TableInv, Current, CleanMissesOnlyOthers, T!CleanMissesOnlyOthers
<1> QED BY <1>1, HomesInvariant, PTL

(* atomicRefUpdate puts everything back, when no other push was served and  *)
(* no write of the rollback failed, whatever failed and however far the     *)
(* push was.                                                                *)
THEOREM RollbackIsWhole ==
    ASSUME HomesAssumption PROVE HomesSpec => []RollbackRestores
<1>1. HomesInv => RollbackRestores
  BY RollsBack DEF HomesInv, RollbackRestores
<1> QED BY <1>1, HomesInvariant, PTL

(* In a store that compares and swaps, a ref that handleReceivePack moves   *)
(* only moves forward, whatever pushes race.                                *)
THEOREM OnlyForward ==
    ASSUME HomesAssumption, CanSwap PROVE HomesSpec => FastForwardOnly
<1>1. HomesInv /\ [HomesNext]_homeVars => ["all" \notin serves => R!MovesForward]_rVars
  <2> SUFFICES ASSUME HomesInv, [HomesNext]_homeVars, "all" \notin serves PROVE R!MovesForward
    BY DEF R!MovesForward
  <2>1. [R!Next]_rVars
    BY DEF HomesNext, InStorage, InTable, InReceive, homeVars
  <2>2. UNCHANGED rRefs \/ \E c \in R!Command : Applied(c)
    BY <2>1, EachMoves DEF HomesInv
  <2>3. ASSUME NEW c \in R!Command, Applied(c), NEW n \in Name
        PROVE  None \in {rRefs[n], rRefs'[n]} \/ rRefs[n] = rRefs'[n] \/ <<rRefs[n], rRefs'[n]>> \in Ancestor
    <3>1. rRefs \in [Name -> R!Value]
      BY DEF HomesInv, ReceiveInv
    <3> QED BY <2>3, <3>1 DEF Applied, Forward, R!Type
  <2> QED BY <2>2, <2>3 DEF R!MovesForward
<1> QED BY <1>1, HomesInvariant, PTL DEF HomesSpec, FastForwardOnly

(* In a store that compares and swaps, what pushes are told adds up to what *)
(* the refs are: no update that was reported is lost, and of several from   *)
(* the same commit one succeeds.                                            *)
THEOREM ReportsAddUp ==
    ASSUME HomesAssumption, CanSwap PROVE HomesSpec => []ReportsExplainRefs
<1>1. HomesInit => ReportsExplainRefs
  <2> SUFFICES ASSUME HomesInit PROVE R!ReportsExplainRefs
    BY DEF ReportsExplainRefs
  <2>1. first = rRefs /\ accepted = <<>>
    BY DEF HomesInit, R!Init
  <2>2. \A n, v : Into(<<>>, n, v) = {} /\ OutOf(<<>>, n, v) = {}
    BY DEF Into, OutOf
  <2>3. Explains(accepted, first, rRefs)
    BY <2>1, <2>2 DEF Explains
  <2> QED BY <2>3, ReportsAre
<1>2. HomesInv /\ ReportsExplainRefs /\ [HomesNext]_homeVars => ReportsExplainRefs'
  <2> SUFFICES ASSUME HomesInv, ReportsExplainRefs, [HomesNext]_homeVars, "all" \notin serves'
               PROVE  R!ReportsExplainRefs'
    BY DEF ReportsExplainRefs
  <2>1. [R!Next]_rVars /\ "all" \notin serves
    BY DEF HomesNext, InStorage, InTable, InReceive, homeVars
  <2>2. UNCHANGED first
    BY <2>1 DEF rVars, R!Next, R!Receive, R!Unpack, R!Validate, R!Apply, R!ApplyFails, R!Report, R!Read,
                R!Write, R!WriteFails, R!Restore, R!RestoreFails, R!GiveUp
  <2>3. Explains(accepted, first, rRefs)
    BY <2>1, ReportsAre DEF ReportsExplainRefs
  <2>4. CASE UNCHANGED <<rRefs, accepted>>
    <3>1. Explains(accepted', first', rRefs')
      BY <2>2, <2>3, <2>4
    <3> QED BY <3>1, ReportsAre
  <2>5. ASSUME NEW c \in R!Command, Applied(c) PROVE R!ReportsExplainRefs'
    <3>1. /\ accepted \in Seq(R!Command) /\ first \in [Name -> R!Value] /\ rRefs \in [Name -> R!Value]
          /\ rRefs[c.refName] = c.oldSha
      BY <2>5 DEF HomesInv, ReceiveInv, Applied
    <3>2. Explains(Append(accepted, c), first, [rRefs EXCEPT ![c.refName] = c.newSha])
      BY <2>3, <3>1, Explained
    <3>3. Explains(accepted', first', rRefs')
      BY <2>2, <2>5, <3>2 DEF Applied
    <3> QED BY <3>3, ReportsAre
  <2> QED BY <2>1, <2>4, <2>5, EachMoves DEF HomesInv
<1> QED BY <1>1, <1>2, HomesInvariant, PTL DEF HomesSpec
=============================================================================

----------------------------- MODULE Upkeep_proofs -----------------------------
(***************************************************************************)
(* What goes on beside the requests, proved: the lock on a pack has one    *)
(* holder, a pack that is called complete is whole, the collector leaves   *)
(* what the refs reach, compaction is tried no more than it is allowed to, *)
(* an object that moves between tiers is in one of them, and no event of   *)
(* the pipeline is lost; for any number of processes, objects, jobs and    *)
(* events, and failures and restarts without a bound.                      *)
(***************************************************************************)
EXTENDS Upkeep, TLAPS

Holding == {"held"} \cup Refreshing
Written == {"created", "verify", "stolen", "rhead2"}
Asking == {"head", "get", "create", "steal"}

ProcRecord == [ phase : Phase, how : {"acquire", "polite", "force"}, id : Nat,
                start : Nat, seen : LockFile \cup {None},
                found : LockFile \cup {None}, expiresAt : Nat, wrote : BOOLEAN ]

\* The lock object gives record r the lock until then.
Backed(r, until) ==
    until > clock => file # None /\ file.id = r.id /\ file.expiresAt >= until

\* The lock object names the process of record r.
Named(r) == file # None /\ file.id = r.id

\* What has been read of the lock object is older than it, or the same.
Older(s) == s # None => s.etag <= puts /\ (file # None /\ s.etag = file.etag => s = file)

\* What holds of the record of a process, whatever the others do.
Fits(r) ==
    /\ r.id <= ids /\ r.start <= clock
    /\ r.phase \notin {"idle", "cleaning", "deleting"} => r.id > 0
    /\ Older(r.seen) /\ Older(r.found)
    /\ r.found # None => /\ r.phase \in {"steal", "stolen", "rput", "rhead2"}
                         /\ r.seen # None /\ r.seen.etag <= r.found.etag
    /\ r.phase \in {"get", "rget"} => r.seen # None
    /\ r.phase = "steal" => r.found # None /\ r.found.expiresAt <= r.start
    /\ r.phase = "rput" => r.found # None /\ r.found.id = r.id
    /\ r.phase = "deleting" => /\ r.seen # None
                               /\ (r.seen.id = r.id /\ r.id > 0) \/ r.seen.expiresAt <= clock
    /\ r.phase \in Holding => r.expiresAt <= clock + TTL
    /\ r.phase \in Refreshing => r.expiresAt <= r.start + TTL
    /\ ~robbed /\ r.wrote => /\ r.phase \in Holding => Backed(r, r.expiresAt)
                             /\ r.phase \in Written => Backed(r, r.start + TTL)
    /\ r.phase \in Asking => ~r.wrote
    /\ r.id > 0 /\ ~r.wrote => ~Named(r)
    /\ r.phase \in {"rget", "rput"} /\ Named(r) => r.seen.etag = file.etag

DistinctIds == \A p, q \in Proc : p # q /\ proc[p].id = proc[q].id => proc[p].id = 0

IInv == /\ TypeOK
        /\ file # None => file.etag = puts /\ file.id <= ids
        /\ DistinctIds
        /\ \A p \in Proc : Fits(proc[p])
-----------------------------------------------------------------------------
(* A step that changes the record of one process and nothing else keeps the *)
(* invariant, if the new record fits.                                       *)
LEMMA Quiet ==
    ASSUME IInv, NEW p \in Proc, NEW r \in ProcRecord, Fits(r), r.id \in {0, proc[p].id},
           proc' = [proc EXCEPT ![p] = r], UNCHANGED <<clock, file, puts, ids, robbed>>
    PROVE  IInv'
<1>1. TypeOK'
  BY DEF IInv, TypeOK, ProcRecord
<1>2. \A q \in Proc : proc'[q] = IF q = p THEN r ELSE proc[q]
  BY DEF IInv, TypeOK
<1>3. DistinctIds'
  <2> SUFFICES ASSUME NEW a \in Proc, NEW b \in Proc, a # b, proc'[a].id = proc'[b].id
               PROVE  proc'[a].id = 0
    BY DEF DistinctIds
  <2> QED
    BY <1>2 DEF IInv, DistinctIds
<1>4. ASSUME NEW q \in Proc PROVE Fits(proc[q])'
  BY <1>2 DEF IInv, Fits, Older, Backed, Named
<1> QED
  BY <1>1, <1>3, <1>4 DEF IInv

(* A put by a process that may make it keeps the invariant: its own lock is *)
(* replaced, or none, or one that has expired.                              *)
LEMMA Write ==
    ASSUME IInv, PackLockAssumption, NEW p \in Proc, NEW next \in {"created", "stolen", "rhead2"},
           proc[p].phase \in {"create", "steal", "rput"},
           Put(proc[p].id, proc[p].start + TTL), Answered(p, next, TRUE),
           (next = "rhead2") <=> (proc[p].phase = "rput"),
           next = "created" => proc[p].found = None,
           file # None => file.id = proc[p].id \/ file.expiresAt <= clock,
           UNCHANGED <<clock, ids, robbed>>
    PROVE  IInv'
<1> USE DEF PackLockAssumption
<1> DEFINE r == proc[p]
           s == [r EXCEPT !.phase = next, !.wrote = TRUE]
           new == [id |-> r.id, expiresAt |-> r.start + TTL, etag |-> puts + 1]
<1>1. /\ r \in ProcRecord /\ TTL \in Nat /\ puts \in Nat /\ clock \in Nat
      /\ proc \in [Proc -> ProcRecord]
  BY DEF IInv, TypeOK, ProcRecord
<1>2. file' = new /\ puts' = puts + 1 /\ new \in LockFile /\ new # None
  BY <1>1 DEF Put, LockFile, ProcRecord
<1>3. /\ s \in ProcRecord /\ s.id = r.id /\ s.start = r.start /\ s.seen = r.seen
      /\ s.found = r.found /\ s.expiresAt = r.expiresAt /\ s.phase = next /\ s.wrote = TRUE
  BY <1>1 DEF ProcRecord, Phase, Acquiring, Refreshing
<1>4. proc' = [proc EXCEPT ![p] = s]
  BY DEF Answered
<1> HIDE DEF s
<1>5. \A q \in Proc : proc'[q] = IF q = p THEN s ELSE proc[q]
  BY <1>1, <1>4
<1>6. TypeOK'
  BY <1>1, <1>2, <1>3, <1>4 DEF IInv, TypeOK, ProcRecord
<1>7. DistinctIds'
  <2> SUFFICES ASSUME NEW a \in Proc, NEW b \in Proc, a # b, proc'[a].id = proc'[b].id
               PROVE  proc'[a].id = 0
    BY DEF DistinctIds
  <2>1. proc'[a].id = proc[a].id /\ proc'[b].id = proc[b].id
    BY <1>3, <1>5
  <2> QED
    BY <2>1 DEF IInv, DistinctIds
<1>8. ASSUME NEW q \in Proc PROVE Fits(proc[q])'
  <2>1. Fits(proc[q]) /\ proc[q] \in ProcRecord
    BY <1>1 DEF IInv
  <2>0. proc'[q].seen = proc[q].seen /\ proc'[q].found = proc[q].found
    BY <1>3, <1>5
  <2>2. Older(proc[q].seen)' /\ Older(proc[q].found)'
    BY <1>1, <1>2, <2>0, <2>1 DEF Fits, Older, ProcRecord, LockFile
  <2>3. CASE q # p
    <3>1. proc'[q] = proc[q]
      BY <1>5, <2>3
    <3>0. ~Named(proc[q])' \/ proc[q].id = 0
      BY <1>1, <1>2, <2>1, <2>3, <3>1 DEF IInv, DistinctIds, ProcRecord, Named
    <3>2. ~robbed /\ proc[q].wrote =>
                     /\ proc[q].phase \in Holding => proc[q].expiresAt <= clock
                     /\ proc[q].phase \in Written => proc[q].start + TTL <= clock
      <4>1. proc[q].phase \in Holding \cup Written => proc[q].id > 0
        BY <2>1 DEF Fits, Holding, Written, Refreshing
      <4>2. proc[q].id > 0 => proc[q].id # proc[p].id
        BY <1>1, <2>1, <2>3 DEF IInv, DistinctIds, ProcRecord
      <4>3. file \in LockFile \cup {None} /\ None \notin LockFile
        BY DEF IInv, TypeOK, LockFile
      <4>4. ASSUME NEW until \in Nat, proc[q].id > 0, Backed(proc[q], until) PROVE until <= clock
        BY <1>1, <4>2, <4>3, <4>4 DEF Backed, LockFile
      <4>5. proc[q].expiresAt \in Nat /\ proc[q].start + TTL \in Nat
        BY <1>1, <2>1 DEF ProcRecord
      <4> QED
        BY <2>1, <4>1, <4>4, <4>5 DEF Fits
    <3> QED
      BY <1>1, <1>2, <2>1, <2>2, <3>0, <3>1, <3>2 DEF Fits, Backed, ProcRecord, LockFile, Refreshing
  <2>4. CASE q = p
    <3>1. proc'[p] = s
      BY <1>5
    <3>2. r.phase = "rput" => r.expiresAt <= r.start + TTL
      BY <2>1, <2>4 DEF Fits, Refreshing
    <3>4. /\ proc'[p].id = r.id /\ proc'[p].start = r.start /\ proc'[p].seen = r.seen
          /\ proc'[p].found = r.found /\ proc'[p].expiresAt = r.expiresAt /\ proc'[p].phase = next
          /\ proc'[p].wrote = TRUE
      BY <1>3, <3>1
    <3>3. Backed(proc[p], r.start + TTL)' /\ (r.phase = "rput" => Backed(proc[p], r.expiresAt)')
      BY <1>1, <1>2, <3>2, <3>4 DEF Backed, ProcRecord
    <3>5. r.id > 0 /\ r.start <= clock /\ r.id <= ids /\ clock' = clock /\ ids' = ids /\ robbed' = robbed
      BY <2>1, <2>4 DEF Fits
    <3>6. r.found # None => next \in {"stolen", "rhead2"} /\ r.seen # None /\ r.seen.etag <= r.found.etag
      BY <2>1, <2>4 DEF Fits
    <3>7. next \in Refreshing => next = "rhead2" /\ r.expiresAt <= r.start + TTL /\ r.expiresAt <= clock + TTL
      BY <1>1, <2>1, <2>4, <3>2 DEF Fits, Refreshing, Holding, ProcRecord
    <3>8. next \in Holding => next \in Refreshing
      BY DEF Holding
    <3>9. Backed(proc[p], proc[p].start + TTL)' /\ (next \in Holding => Backed(proc[p], proc[p].expiresAt)')
      BY <3>3, <3>4, <3>7, <3>8 DEF Backed
    <3>10. next \notin Asking
      BY DEF Asking
    <3> QED
      BY <2>2, <2>4, <3>4, <3>10, <3>5, <3>6, <3>7, <3>8, <3>9 DEF Fits
  <2> QED
    BY <2>3, <2>4
<1>9. file'.etag = puts' /\ file'.id <= ids'
  BY <1>1, <1>2 DEF IInv, Fits
<1> QED
  BY <1>2, <1>6, <1>7, <1>8, <1>9 DEF IInv

(* The records processes end up with that have no call under way.           *)
LEMMA Resting ==
    ASSUME IInv, PackLockAssumption, NEW p \in Proc
    PROVE  /\ Nobody \in ProcRecord /\ Fits(Nobody) /\ Nobody.id = 0
           /\ proc \in [Proc -> ProcRecord] /\ Fits(proc[p])
<1>1. 0 \in Nat /\ clock \in Nat /\ ids \in Nat /\ TTL \in Nat
  BY DEF IInv, TypeOK, PackLockAssumption
<1>2. Nobody \in ProcRecord
  BY DEF Nobody, ProcRecord, Phase
<1>3. Fits(Nobody)
  BY <1>1 DEF Nobody, Fits, Older, Holding, Refreshing, Written, Asking
<1> QED
  BY <1>2, <1>3 DEF IInv, TypeOK, ProcRecord, Nobody

LEMMA LeaveKeeps ==
    ASSUME IInv, PackLockAssumption, NEW p \in Proc, Leave(p), UNCHANGED <<clock, file, puts, ids, robbed>>
    PROVE  IInv'
BY Resting, Quiet DEF Leave

(* A step to another phase, for which the record as it is fits too.         *)
LEMMA GotoKeeps ==
    ASSUME IInv, PackLockAssumption, NEW p \in Proc, NEW next \in Phase, Goto(p, next),
           Fits([proc[p] EXCEPT !.phase = next]), UNCHANGED <<clock, file, puts, ids, robbed>>
    PROVE  IInv'
<1>1. /\ [proc[p] EXCEPT !.phase = next] \in ProcRecord
      /\ [proc[p] EXCEPT !.phase = next].id = proc[p].id
  BY Resting DEF ProcRecord
<1>2. proc' = [proc EXCEPT ![p] = [proc[p] EXCEPT !.phase = next]]
  BY DEF Goto
<1> QED
  BY <1>1, <1>2, Quiet

Handle(p, until) == [Nobody EXCEPT !.phase = "held", !.id = proc[p].id, !.expiresAt = until,
                                   !.wrote = proc[p].wrote]

(* A handle whose lease is backed is one to hold.                           *)
LEMMA HandleKeeps ==
    ASSUME IInv, PackLockAssumption, NEW p \in Proc, NEW until \in Nat,
           until <= clock + TTL, ~robbed /\ proc[p].wrote => Backed(proc[p], until), proc[p].id > 0,
           proc' = [proc EXCEPT ![p] = Handle(p, until)],
           UNCHANGED <<clock, file, puts, ids, robbed>>
    PROVE  IInv'
<1> DEFINE r == Handle(p, until)
<1>1. proc[p] \in ProcRecord /\ Fits(proc[p])
  BY Resting
<1>2. r \in ProcRecord
  BY <1>1 DEF Handle, Nobody, ProcRecord, Phase
<1>3. /\ r.phase = "held" /\ r.id = proc[p].id /\ r.start = 0 /\ r.seen = None /\ r.found = None
      /\ r.expiresAt = until /\ r.wrote = proc[p].wrote
  BY DEF Handle, Nobody
<1>4. proc[p].id <= ids /\ proc[p].id \in Nat /\ clock \in Nat
  BY <1>1 DEF Fits, ProcRecord, IInv, TypeOK
<1>5. /\ ~robbed /\ r.wrote => Backed(r, until)
      /\ ~r.wrote => ~Named(r)
  BY <1>1, <1>3 DEF Backed, Named, Fits
<1>6. Fits(r)
  BY <1>3, <1>4, <1>5 DEF Fits, Older, Holding, Refreshing, Written, Asking
<1> QED
  BY <1>2, <1>3, <1>6, Quiet
-----------------------------------------------------------------------------
LEMMA Initially ==
    ASSUME PackLockAssumption, Init PROVE IInv
<1>1. Nobody \in ProcRecord
  BY DEF Nobody, ProcRecord, Phase
<1>2. TypeOK
  BY <1>1 DEF Init, TypeOK, ProcRecord
<1>3. ASSUME NEW p \in Proc PROVE Fits(proc[p])
  BY DEF Init, Fits, Nobody, Older, Holding, Refreshing, Written, Asking, PackLockAssumption
<1>4. DistinctIds
  BY DEF Init, DistinctIds, Nobody
<1> QED
  BY <1>2, <1>3, <1>4 DEF IInv, Init

LEMMA AcquireKeeps ==
    ASSUME IInv, PackLockAssumption, NEW p \in Proc, NEW how \in {"acquire", "polite", "force"},
           Acquire(p, how)
    PROVE  IInv'
<1> DEFINE r == [Nobody EXCEPT !.phase = "head", !.how = how, !.id = ids + 1, !.start = clock]
<1>1. /\ proc \in [Proc -> ProcRecord] /\ ids \in Nat /\ clock \in Nat /\ TTL \in Nat
      /\ \A q \in Proc : Fits(proc[q])
  BY Resting DEF IInv, TypeOK, PackLockAssumption
<1>2. proc' = [proc EXCEPT ![p] = r]
  BY DEF Acquire
<1>3. /\ r \in ProcRecord /\ r.phase = "head" /\ r.id = ids + 1 /\ r.start = clock
      /\ r.seen = None /\ r.found = None /\ r.wrote = FALSE
  <2>0. Nobody \in ProcRecord /\ "head" \in Phase /\ ids + 1 \in Nat /\ clock \in Nat
    BY <1>1, Resting DEF Phase, Acquiring
  <2>1. r \in ProcRecord
    <3>1. [Nobody EXCEPT !.phase = "head", !.how = how] \in ProcRecord
      BY <2>0 DEF ProcRecord
    <3>2. [[Nobody EXCEPT !.phase = "head", !.how = how] EXCEPT !.id = ids + 1, !.start = clock] \in ProcRecord
      BY <2>0, <3>1 DEF ProcRecord
    <3> QED
      BY <3>2
  <2>2. r.phase = "head" /\ r.id = ids + 1 /\ r.start = clock
    BY <2>0 DEF ProcRecord
  <2>3. r.seen = None /\ r.found = None /\ r.wrote = FALSE
    BY DEF Nobody
  <2> QED
    BY <2>1, <2>2, <2>3
<1>4. TypeOK'
  BY <1>1, <1>2, <1>3 DEF IInv, TypeOK, ProcRecord, Acquire
<1>5. \A q \in Proc : proc'[q] = IF q = p THEN r ELSE proc[q]
  BY <1>1, <1>2
<1> HIDE DEF r
<1>6. ASSUME NEW q \in Proc PROVE proc[q].id <= ids /\ proc[q].id \in Nat
  <2>1. proc[q] \in ProcRecord /\ Fits(proc[q])
    BY <1>1
  <2> QED
    BY <2>1 DEF Fits, ProcRecord
<1>7. DistinctIds'
  <2> SUFFICES ASSUME NEW a \in Proc, NEW b \in Proc, a # b, proc'[a].id = proc'[b].id
               PROVE  proc'[a].id = 0
    BY DEF DistinctIds
  <2>1. proc[a].id <= ids /\ proc[b].id <= ids /\ proc[a].id \in Nat /\ proc[b].id \in Nat
    BY <1>6
  <2>2. CASE a # p /\ b # p
    <3>1. proc'[a] = proc[a] /\ proc'[b] = proc[b]
      BY <1>5, <2>2
    <3> QED
      BY <3>1 DEF IInv, DistinctIds
  <2>3. CASE a = p \/ b = p
    BY <1>1, <1>3, <1>5, <2>1, <2>3
  <2> QED
    BY <2>2, <2>3
<1>8. ASSUME NEW q \in Proc PROVE Fits(proc[q])'
  <2>0. ids' = ids + 1 /\ UNCHANGED <<clock, file, puts, robbed>>
    BY DEF Acquire
  <2>1. CASE q = p
    <3>1. file # None => file.id <= ids /\ file.id \in Nat
      BY DEF IInv, TypeOK, LockFile
    <3>2. proc'[q] = r
      BY <1>5, <2>1
    <3>3. ~(file # None /\ file.id = ids + 1)
      BY <1>1, <3>1
    <3>4. ~Named(proc[q])'
      BY <1>3, <2>0, <3>2, <3>3 DEF Named
    <3>5. proc'[q].found = None /\ proc'[q].seen = None /\ ~proc'[q].wrote /\ proc'[q].phase = "head"
      BY <1>3, <3>2
    <3>6. proc'[q].id <= ids' /\ proc'[q].id > 0 /\ proc'[q].start <= clock'
      BY <1>1, <1>3, <2>0, <3>2
    <3> QED
      BY <3>4, <3>5, <3>6 DEF Fits, Older, Holding, Refreshing, Written
  <2>2. CASE q # p
    <3>1. proc'[q] = proc[q] /\ Fits(proc[q])
      BY <1>1, <1>5, <2>2
    <3> QED
      BY <1>1, <1>6, <2>0, <3>1 DEF Fits, Older, Backed, Named
  <2> QED
    BY <2>1, <2>2
<1>9. file # None => file.id <= ids + 1
  BY <1>1 DEF IInv, TypeOK, LockFile
<1> QED
  BY <1>4, <1>7, <1>8, <1>9 DEF IInv, Acquire

LEMMA TickKeeps ==
    ASSUME IInv, PackLockAssumption, Tick PROVE IInv'
<1>1. TypeOK' /\ DistinctIds'
  BY DEF IInv, TypeOK, DistinctIds, Tick
<1>2. ASSUME NEW q \in Proc PROVE Fits(proc[q])'
  <2>1. Fits(proc[q]) /\ proc[q] \in ProcRecord /\ clock \in Nat /\ TTL \in Nat
    BY Resting DEF IInv, TypeOK, PackLockAssumption
  <2>2. clock' = clock + 1 /\ UNCHANGED <<file, puts, ids, proc, robbed>>
    BY DEF Tick
  <2>3. proc[q].seen \in LockFile => proc[q].seen.expiresAt \in Nat
    BY DEF LockFile
  <2> QED
    BY <2>1, <2>2, <2>3 DEF Fits, Older, Backed, Named, ProcRecord
<1> QED
  BY <1>1, <1>2 DEF IInv, Tick

(* The lock object is read, by a process with nothing else on record.       *)
LEMMA SeeKeeps ==
    ASSUME IInv, PackLockAssumption, NEW p \in Proc, NEW next \in {"get", "rget", "deleting"},
           file # None, proc[p].found = None,
           next # "deleting" => proc[p].id > 0,
           next = "get" => ~proc[p].wrote,
           next = "rget" => proc[p].phase = "rhead",
           next = "deleting" => (file.id = proc[p].id /\ proc[p].id > 0) \/ file.expiresAt <= clock,
           proc' = [proc EXCEPT ![p].phase = next, ![p].seen = file],
           UNCHANGED <<clock, file, puts, ids, robbed>>
    PROVE  IInv'
<1> DEFINE r == [proc[p] EXCEPT !.phase = next, !.seen = file]
<1>1. /\ proc \in [Proc -> ProcRecord] /\ Fits(proc[p]) /\ file \in LockFile
      /\ puts \in Nat /\ file.etag = puts
  BY Resting DEF IInv, TypeOK
<1>2. proc[p] \in ProcRecord /\ next \in Phase
  BY <1>1 DEF Phase, Acquiring, Refreshing
<1>3. r \in ProcRecord
  BY <1>1, <1>2 DEF ProcRecord
<1>4. /\ r.phase = next /\ r.seen = file /\ r.found = None /\ r.id = proc[p].id
      /\ r.start = proc[p].start /\ r.expiresAt = proc[p].expiresAt /\ r.wrote = proc[p].wrote
  BY <1>2 DEF ProcRecord
<1>5. proc' = [proc EXCEPT ![p] = r]
  BY <1>1
<1> HIDE DEF r
<1>6. Older(r.seen) /\ Older(r.found)
  BY <1>1, <1>4 DEF Older
<1>7. next = "rget" => /\ r.expiresAt <= clock + TTL /\ r.expiresAt <= r.start + TTL
                       /\ ~robbed /\ r.wrote => Backed(r, r.expiresAt)
  BY <1>1, <1>4 DEF Fits, Backed, Holding, Refreshing
<1>8. Fits(r)
  BY <1>1, <1>4, <1>6, <1>7 DEF Fits, Holding, Refreshing, Written, Asking, Named
<1> QED
  BY <1>3, <1>4, <1>5, <1>8, Quiet

(* The lock object is read once more and found fit to replace.              *)
LEMMA FindKeeps ==
    ASSUME IInv, PackLockAssumption, NEW p \in Proc, NEW next \in {"steal", "rput"},
           file # None, proc[p].seen # None, proc[p].id > 0,
           next = "steal" => file.expiresAt <= proc[p].start /\ ~proc[p].wrote,
           next = "rput" => proc[p].phase = "rget" /\ file.id = proc[p].id,
           proc' = [proc EXCEPT ![p].phase = next, ![p].found = file],
           UNCHANGED <<clock, file, puts, ids, robbed>>
    PROVE  IInv'
<1> DEFINE r == [proc[p] EXCEPT !.phase = next, !.found = file]
<1>1. /\ proc \in [Proc -> ProcRecord] /\ Fits(proc[p]) /\ file \in LockFile
      /\ puts \in Nat /\ file.etag = puts
  BY Resting DEF IInv, TypeOK
<1>2. proc[p] \in ProcRecord /\ next \in Phase
  BY <1>1 DEF Phase, Acquiring, Refreshing
<1>3. r \in ProcRecord
  BY <1>1, <1>2 DEF ProcRecord
<1>4. /\ r.phase = next /\ r.seen = proc[p].seen /\ r.found = file /\ r.id = proc[p].id
      /\ r.start = proc[p].start /\ r.expiresAt = proc[p].expiresAt /\ r.wrote = proc[p].wrote
  BY <1>2 DEF ProcRecord
<1>5. proc' = [proc EXCEPT ![p] = r]
  BY <1>1
<1> HIDE DEF r
<1>6. Older(r.seen) /\ Older(r.found) /\ r.seen.etag <= r.found.etag
  BY <1>1, <1>4 DEF Older, Fits
<1>7. next = "rput" => /\ r.expiresAt <= clock + TTL /\ r.expiresAt <= r.start + TTL
                       /\ ~robbed /\ r.wrote => Backed(r, r.expiresAt)
  BY <1>1, <1>4 DEF Fits, Backed, Holding, Refreshing
<1>8. Fits(r)
  BY <1>1, <1>4, <1>6, <1>7 DEF Fits, Holding, Refreshing, Written, Asking, Named
<1> QED
  BY <1>3, <1>4, <1>5, <1>8, Quiet
-----------------------------------------------------------------------------
(* What is known of the file where a conditional put on its etag succeeds.  *)
LEMMA UnmodifiedIsFound ==
    ASSUME IInv, NEW p \in Proc, proc[p].phase \in {"steal", "rput"}, Unmodified(p)
    PROVE  file # None /\ proc[p].found = file
<1>1. /\ Fits(proc[p]) /\ proc[p] \in ProcRecord /\ file \in LockFile /\ puts \in Nat
      /\ file.etag = puts /\ file # None
  BY DEF IInv, TypeOK, ProcRecord, Unmodified
<1>2. proc[p].found # None /\ proc[p].seen # None /\ proc[p].seen.etag <= proc[p].found.etag
  BY <1>1 DEF Fits
<1>3. proc[p].found \in LockFile /\ proc[p].seen \in LockFile
  BY <1>1, <1>2 DEF ProcRecord
<1>4. proc[p].found.etag <= puts /\ proc[p].seen.etag = puts
  BY <1>1, <1>2 DEF Fits, Older, Unmodified
<1>5. proc[p].found.etag = file.etag
  BY <1>1, <1>2, <1>3, <1>4 DEF LockFile
<1> QED
  BY <1>1, <1>2, <1>5 DEF Fits, Older

(* A process that goes on after a refused put has a lock that R2 never got. *)
LEMMA RefusedKeeps ==
    ASSUME IInv, PackLockAssumption, NEW p \in Proc, NEW next \in {"created", "stolen", "rhead2"},
           proc[p].phase \in {"create", "steal", "rput"},
           (next = "rhead2") <=> (proc[p].phase = "rput"),
           next = "created" => proc[p].found = None,
           ~Named(proc[p]), Answered(p, next, FALSE), UNCHANGED <<clock, file, puts, ids, robbed>>
    PROVE  IInv'
<1> DEFINE r == [proc[p] EXCEPT !.phase = next, !.wrote = FALSE]
<1>1. /\ Fits(proc[p]) /\ proc[p] \in ProcRecord /\ proc \in [Proc -> ProcRecord]
      /\ clock \in Nat /\ TTL \in Nat
  BY Resting DEF IInv, TypeOK, PackLockAssumption
<1>2. next \in Phase
  BY DEF Phase, Acquiring, Refreshing
<1>3. r \in ProcRecord
  BY <1>1, <1>2 DEF ProcRecord
<1>4. /\ r.phase = next /\ r.seen = proc[p].seen /\ r.found = proc[p].found /\ r.id = proc[p].id
      /\ r.start = proc[p].start /\ r.expiresAt = proc[p].expiresAt /\ r.wrote = FALSE
  BY <1>1 DEF ProcRecord
<1>5. proc' = [proc EXCEPT ![p] = r]
  BY DEF Answered
<1> HIDE DEF r
<1>6. ~Named(r)
  BY <1>4 DEF Named
<1>7. Fits(r)
  BY <1>1, <1>4, <1>6 DEF Fits, Holding, Refreshing, Written, Asking
<1> QED
  BY <1>3, <1>4, <1>5, <1>7, Quiet

LEMMA AcquiringKeeps ==
    ASSUME IInv, PackLockAssumption, NEW p \in Proc,
           Head(p) \/ Get(p) \/ Create(p) \/ Steal(p) \/ Created(p) \/ Verify(p) \/ Stolen(p)
    PROVE  IInv'
<1>1. Fits(proc[p]) /\ proc[p] \in ProcRecord /\ clock \in Nat /\ TTL \in Nat
  BY Resting DEF IInv, TypeOK, PackLockAssumption
<1>2. CASE Head(p)
  <2>1. /\ proc[p].id > 0 /\ proc[p].found = None /\ UNCHANGED <<clock, file, puts, ids, robbed>>
        /\ proc[p].phase = "head" /\ ~proc[p].wrote
    BY <1>1, <1>2 DEF Fits, Head, Asking
  <2>2. CASE file # None
    BY <1>2, <2>1, <2>2, SeeKeeps DEF Head
  <2>3. CASE file = None /\ Leave(p)
    BY <2>1, <2>3, LeaveKeeps
  <2>4. CASE file = None /\ Goto(p, "create")
    <3>1. Fits([proc[p] EXCEPT !.phase = "create"])
      BY <1>1, <2>1 DEF Fits, ProcRecord, Holding, Written, Refreshing, Asking, Named
    <3> QED
      BY <2>1, <2>4, <3>1, GotoKeeps DEF Phase, Acquiring
  <2> QED
    BY <1>2, <2>2, <2>3, <2>4 DEF Head
<1>3. CASE Get(p)
  <2>1. /\ proc[p].id > 0 /\ proc[p].seen # None /\ proc[p].found = None
        /\ UNCHANGED <<clock, file, puts, ids, robbed>> /\ proc[p].phase = "get"
        /\ ~proc[p].wrote
    BY <1>1, <1>3 DEF Fits, Get, Asking
  <2>2. CASE file = None /\ Goto(p, "create")
    <3>1. Fits([proc[p] EXCEPT !.phase = "create"])
      BY <1>1, <2>1 DEF Fits, ProcRecord, Holding, Written, Refreshing, Asking, Named
    <3> QED
      BY <2>1, <2>2, <3>1, GotoKeeps DEF Phase, Acquiring
  <2>3. CASE file # None /\ Stealable(p)
    <3>1. proc' = [proc EXCEPT ![p].phase = "steal", ![p].found = file]
      BY <1>3, <2>3 DEF Get
    <3> QED
      BY <2>1, <2>3, <3>1, FindKeeps DEF Stealable
  <2>4. CASE Leave(p)
    BY <2>1, <2>4, LeaveKeeps
  <2> QED
    BY <1>3, <2>2, <2>3, <2>4 DEF Get
<1>4. CASE Create(p)
  <2>1. proc[p].phase = "create" /\ proc[p].found = None /\ UNCHANGED <<clock, ids, robbed>>
    BY <1>1, <1>4 DEF Fits, Create, PutIf, Leave, Answered
  <2>2. CASE file = None
    BY <1>4, <2>1, <2>2, Write DEF Create, PutIf
  <2>3. CASE file # None
    <3>1. (Leave(p) \/ Answered(p, "created", FALSE)) /\ UNCHANGED <<file, puts>>
      BY <1>4, <2>3 DEF Create, PutIf
    <3>2. ~Named(proc[p])
      BY <1>1, <2>1 DEF Fits, Asking
    <3> QED
      BY <2>1, <3>1, <3>2, LeaveKeeps, RefusedKeeps
  <2> QED
    BY <2>2, <2>3
<1>5. CASE Steal(p)
  <2>1. proc[p].phase = "steal" /\ proc[p].found.expiresAt <= clock /\ UNCHANGED <<clock, ids, robbed>>
    <3>1. proc[p].phase = "steal" /\ UNCHANGED <<clock, ids, robbed>>
      BY <1>5 DEF Steal, PutIf
    <3>2. proc[p].found # None /\ proc[p].found.expiresAt <= proc[p].start /\ proc[p].start <= clock
      BY <1>1, <3>1 DEF Fits
    <3>3. proc[p].found.expiresAt \in Nat /\ proc[p].start \in Nat
      BY <1>1, <3>2 DEF ProcRecord, LockFile
    <3> QED
      BY <1>1, <3>1, <3>2, <3>3
  <2>2. CASE Unmodified(p)
    <3>1. file = proc[p].found
      BY <2>1, <2>2, UnmodifiedIsFound
    <3>2. Put(proc[p].id, proc[p].start + TTL) /\ Answered(p, "stolen", TRUE)
      BY <1>5, <2>2 DEF Steal, PutIf
    <3> QED
      BY <2>1, <3>1, <3>2, Write
  <2>3. CASE ~Unmodified(p)
    <3>1. (Leave(p) \/ Answered(p, "stolen", FALSE)) /\ UNCHANGED <<file, puts>>
      BY <1>5, <2>3 DEF Steal, PutIf
    <3>2. ~Named(proc[p])
      BY <1>1, <2>1 DEF Fits, Asking
    <3> QED
      BY <2>1, <3>1, <3>2, LeaveKeeps, RefusedKeeps
  <2> QED
    BY <2>2, <2>3
<1>6. CASE Created(p)
  <2>1. /\ proc[p].id > 0 /\ proc[p].found = None /\ UNCHANGED <<clock, file, puts, ids, robbed>>
        /\ ~robbed /\ proc[p].wrote => Backed(proc[p], proc[p].start + TTL)
    BY <1>1, <1>6 DEF Fits, Created, Written
  <2>2. CASE Leave(p)
    BY <2>1, <2>2, LeaveKeeps
  <2>3. CASE Goto(p, "verify")
    <3>1. Fits([proc[p] EXCEPT !.phase = "verify"])
      BY <1>1, <2>1 DEF Fits, Backed, Named, ProcRecord, Holding, Written, Refreshing, Asking
    <3> QED
      BY <2>1, <2>3, <3>1, GotoKeeps DEF Phase, Acquiring
  <2> QED
    BY <1>6, <2>2, <2>3 DEF Created
<1>7. CASE Verify(p) \/ Stolen(p)
  <2>1. /\ proc[p].id > 0 /\ UNCHANGED <<clock, file, puts, ids, robbed>>
        /\ ~robbed /\ proc[p].wrote => Backed(proc[p], proc[p].start + TTL)
    BY <1>1, <1>7 DEF Fits, Verify, Stolen, Written
  <2>2. proc[p].start + TTL \in Nat /\ proc[p].start + TTL <= clock + TTL
    BY <1>1 DEF Fits, ProcRecord
  <2>3. CASE Leave(p)
    BY <2>1, <2>3, LeaveKeeps
  <2>4. CASE Hold(p)
    <3>1. ~robbed /\ proc[p].wrote => Backed(proc[p], proc[p].start + TTL)
      BY <2>1
    <3>2. proc' = [proc EXCEPT ![p] = Handle(p, proc[p].start + TTL)]
      BY <2>4 DEF Hold, Handle
    <3> QED
      BY <2>1, <2>2, <3>1, <3>2, HandleKeeps
  <2> QED
    BY <1>7, <2>3, <2>4 DEF Verify, Stolen
<1> QED
  BY <1>2, <1>3, <1>4, <1>5, <1>6, <1>7

LEMMA RefreshingKeeps ==
    ASSUME IInv, PackLockAssumption, NEW p \in Proc,
           Refresh(p) \/ RefreshHead(p) \/ RefreshGet(p) \/ RefreshPut(p) \/ RefreshDone(p)
    PROVE  IInv'
<1>1. /\ Fits(proc[p]) /\ proc[p] \in ProcRecord /\ clock \in Nat /\ TTL \in Nat
      /\ proc \in [Proc -> ProcRecord]
  BY Resting DEF IInv, TypeOK, PackLockAssumption
<1>2. /\ proc[p].phase \in Holding /\ proc[p].id > 0 /\ UNCHANGED <<clock, ids, robbed>>
      /\ proc[p].expiresAt <= clock + TTL
      /\ ~robbed /\ proc[p].wrote => Backed(proc[p], proc[p].expiresAt)
  BY <1>1 DEF Fits, Holding, Refreshing, Refresh, RefreshHead, RefreshGet, RefreshPut, RefreshDone, PutIf
<1>3. ASSUME Keep(p), UNCHANGED <<file, puts>> PROVE IInv'
  <2>1. proc' = [proc EXCEPT ![p] = Handle(p, proc[p].expiresAt)]
    BY <1>3 DEF Keep, Handle
  <2>2. proc[p].expiresAt \in Nat
    BY <1>1 DEF ProcRecord
  <2> QED
    BY <1>2, <1>3, <2>1, <2>2, HandleKeeps
<1>4. CASE Refresh(p)
  <2> DEFINE r == [proc[p] EXCEPT !.phase = "rhead", !.start = clock]
  <2>1. r \in ProcRecord
    BY <1>1 DEF ProcRecord, Phase, Refreshing
  <2>2. /\ r.phase = "rhead" /\ r.start = clock /\ r.id = proc[p].id /\ r.seen = proc[p].seen
        /\ r.found = proc[p].found /\ r.wrote = proc[p].wrote /\ r.expiresAt = proc[p].expiresAt
    BY <1>1 DEF ProcRecord
  <2>3. proc' = [proc EXCEPT ![p] = r] /\ UNCHANGED <<file, puts>> /\ proc[p].phase = "held"
    BY <1>1, <1>4 DEF Refresh
  <2> HIDE DEF r
  <2>4. Fits(r)
    BY <1>1, <1>2, <2>2, <2>3 DEF Fits, Backed, Named, Holding, Refreshing, Written, Asking
  <2> QED
    BY <1>2, <2>1, <2>2, <2>3, <2>4, Quiet
<1>5. CASE RefreshHead(p)
  <2>1. UNCHANGED <<file, puts>> /\ proc[p].phase = "rhead" /\ proc[p].found = None
    BY <1>1, <1>5 DEF RefreshHead, Fits
  <2>2. CASE file = None
    BY <1>3, <1>5, <2>1, <2>2 DEF RefreshHead
  <2>3. CASE file # None
    BY <1>2, <1>5, <2>1, <2>3, SeeKeeps DEF RefreshHead
  <2> QED
    BY <2>2, <2>3
<1>6. CASE RefreshGet(p)
  <2>1. UNCHANGED <<file, puts>> /\ proc[p].phase = "rget" /\ proc[p].seen # None
    BY <1>1, <1>6 DEF RefreshGet, Fits
  <2>2. CASE file # None /\ file.id = proc[p].id /\ file.expiresAt > proc[p].start
    BY <1>2, <1>6, <2>1, <2>2, FindKeeps DEF RefreshGet
  <2>3. CASE Keep(p)
    BY <1>3, <2>1, <2>3
  <2> QED
    BY <1>6, <2>2, <2>3 DEF RefreshGet
<1>7. CASE RefreshPut(p)
  <2>1. proc[p].phase = "rput" /\ proc[p].found.id = proc[p].id
    BY <1>1, <1>7 DEF RefreshPut, Fits
  <2>2. CASE Unmodified(p)
    <3>1. file = proc[p].found
      BY <2>1, <2>2, UnmodifiedIsFound
    <3>2. Put(proc[p].id, proc[p].start + TTL) /\ Answered(p, "rhead2", TRUE)
      BY <1>7, <2>2 DEF RefreshPut, PutIf
    <3> QED
      BY <1>2, <2>1, <3>1, <3>2, Write
  <2>3. CASE ~Unmodified(p)
    <3>1. (Keep(p) \/ Answered(p, "rhead2", FALSE)) /\ UNCHANGED <<file, puts>>
      BY <1>7, <2>3 DEF RefreshPut, PutIf
    <3>2. ~Named(proc[p])
      BY <1>1, <2>1, <2>3 DEF Fits, Named, Unmodified
    <3> QED
      BY <1>2, <1>3, <2>1, <3>1, <3>2, RefusedKeeps
  <2> QED
    BY <2>2, <2>3
<1>8. CASE RefreshDone(p)
  <2>1. UNCHANGED <<file, puts>> /\ (~robbed /\ proc[p].wrote => Backed(proc[p], proc[p].start + TTL))
    BY <1>1, <1>8 DEF Fits, RefreshDone, Written
  <2>2. proc[p].start + TTL \in Nat /\ proc[p].start + TTL <= clock + TTL
    BY <1>1 DEF Fits, ProcRecord
  <2>3. CASE Hold(p)
    <3>1. ~robbed /\ proc[p].wrote => Backed(proc[p], proc[p].start + TTL)
      BY <2>1
    <3>2. proc' = [proc EXCEPT ![p] = Handle(p, proc[p].start + TTL)]
      BY <2>3 DEF Hold, Handle
    <3> QED
      BY <1>2, <2>1, <2>2, <3>1, <3>2, HandleKeeps
  <2> QED
    BY <1>3, <1>8, <2>1, <2>3 DEF RefreshDone
<1> QED
  BY <1>4, <1>5, <1>6, <1>7, <1>8

LEMMA ReleasingKeeps ==
    ASSUME IInv, PackLockAssumption, NEW p \in Proc,
           Release(p) \/ ReleaseGet(p) \/ Clean(p) \/ CleanGet(p) \/ Crash(p)
    PROVE  IInv'
<1>1. /\ Fits(proc[p]) /\ proc[p] \in ProcRecord /\ clock \in Nat /\ file \in LockFile \cup {None}
      /\ UNCHANGED <<clock, file, puts, ids, robbed>>
  BY Resting DEF IInv, TypeOK, Release, ReleaseGet, Clean, CleanGet, Crash
<1>2. CASE Release(p)
  <2>1. Fits([proc[p] EXCEPT !.phase = "releasing"])
    BY <1>1, <1>2 DEF Release, Fits, ProcRecord, Holding, Written, Refreshing, Asking, Named
  <2> QED
    BY <1>1, <1>2, <2>1, GotoKeeps DEF Release, Phase
<1>3. CASE ReleaseGet(p)
  <2>1. proc[p].found = None /\ proc[p].id > 0 /\ proc[p].phase = "releasing"
    BY <1>1, <1>3 DEF ReleaseGet, Fits
  <2>2. CASE Owns(p)
    BY <1>1, <1>3, <2>1, <2>2, SeeKeeps DEF ReleaseGet, DeleteIf, Owns
  <2>3. CASE Leave(p)
    BY <1>1, <2>3, LeaveKeeps
  <2> QED
    BY <1>3, <2>2, <2>3 DEF ReleaseGet, DeleteIf
<1>4. CASE Clean(p)
  <2> DEFINE r == [Nobody EXCEPT !.phase = "cleaning", !.start = clock]
  <2>1. Nobody \in ProcRecord /\ Fits(Nobody) /\ Nobody.id = 0
    BY Resting
  <2>2. r \in ProcRecord
    BY <1>1, <2>1 DEF ProcRecord, Phase
  <2>3. /\ r.phase = "cleaning" /\ r.start = clock /\ r.id = 0 /\ r.seen = None /\ r.found = None
        /\ r.wrote = FALSE
    BY DEF Nobody
  <2>4. proc' = [proc EXCEPT ![p] = r]
    BY <1>4 DEF Clean
  <2> HIDE DEF r
  <2>5. Fits(r)
    BY <1>1, <2>3 DEF Fits, Older, Holding, Refreshing, Written, Asking, IInv, TypeOK
  <2> QED
    BY <1>1, <2>2, <2>3, <2>4, <2>5, Quiet
<1>5. CASE CleanGet(p)
  <2>1. proc[p].found = None /\ proc[p].phase = "cleaning" /\ proc[p].start <= clock
    BY <1>1, <1>5 DEF CleanGet, Fits
  <2>2. CASE file # None /\ file.expiresAt <= proc[p].start
    <3>1. file.expiresAt <= clock
      BY <1>1, <2>1, <2>2 DEF LockFile, ProcRecord
    <3>2. proc' = [proc EXCEPT ![p].phase = "deleting", ![p].seen = file]
      BY <1>5, <2>2 DEF CleanGet, DeleteIf
    <3> QED
      BY <1>1, <2>1, <2>2, <3>1, <3>2, SeeKeeps
  <2>3. CASE Leave(p)
    BY <1>1, <2>3, LeaveKeeps
  <2> QED
    BY <1>5, <2>2, <2>3 DEF CleanGet, DeleteIf
<1>6. CASE Crash(p)
  BY <1>1, <1>6, LeaveKeeps DEF Crash
<1> QED
  BY <1>2, <1>3, <1>4, <1>5, <1>6

(* A delete leaves nobody without the lock who has it, unless it removes    *)
(* another lock than the one that was read.                                 *)
LEMMA DeleteKeeps ==
    ASSUME IInv, PackLockAssumption, NEW p \in Proc, Delete(p)
    PROVE  IInv'
<1>1. /\ \A q \in Proc : proc[q] \in ProcRecord /\ Fits(proc[q])
      /\ proc \in [Proc -> ProcRecord] /\ clock \in Nat /\ TTL \in Nat /\ puts \in Nat
      /\ file \in LockFile \cup {None} /\ Nobody \in ProcRecord /\ Fits(Nobody) /\ Nobody.id = 0
  BY Resting DEF IInv, TypeOK, ProcRecord, PackLockAssumption
<1>2. /\ file' = None /\ proc' = [proc EXCEPT ![p] = Nobody] /\ UNCHANGED <<clock, puts, ids>>
      /\ robbed' = (robbed \/ file \notin {None, proc[p].seen}) /\ proc[p].phase = "deleting"
  BY DEF Delete, Leave
<1>3. \A q \in Proc : proc'[q] = IF q = p THEN Nobody ELSE proc[q]
  BY <1>1, <1>2
<1>4. TypeOK'
  <2>1. proc' \in [Proc -> ProcRecord]
    BY <1>1, <1>2
  <2> QED
    BY <1>2, <2>1 DEF IInv, TypeOK, ProcRecord
<1>5. DistinctIds'
  <2> SUFFICES ASSUME NEW a \in Proc, NEW b \in Proc, a # b, proc'[a].id = proc'[b].id
               PROVE  proc'[a].id = 0
    BY DEF DistinctIds
  <2> QED
    BY <1>1, <1>3 DEF IInv, DistinctIds
<1>6. ASSUME NEW q \in Proc PROVE Fits(proc[q])'
  <2>1. CASE q = p
    <3>1. proc'[q] = Nobody
      BY <1>3, <2>1
    <3> QED
      BY <1>1, <1>2, <3>1 DEF Fits, Nobody, Older, Holding, Refreshing, Written, Asking
  <2>2. CASE q # p
    <3>1. proc'[q] = proc[q]
      BY <1>3, <2>2
    <3>2. ASSUME NEW until \in Nat, ~robbed', proc[q].id > 0, Backed(proc[q], until)
          PROVE  until <= clock
      <4>1. CASE file = None
        BY <1>1, <3>2, <4>1 DEF Backed
      <4>2. CASE file = proc[p].seen /\ file # None
        <5>1. (file.id = proc[p].id /\ proc[p].id > 0) \/ file.expiresAt <= clock
          BY <1>1, <1>2, <4>2 DEF Fits
        <5>2. proc[q].id # proc[p].id
          BY <1>1, <2>2, <3>2 DEF IInv, DistinctIds, ProcRecord
        <5> QED
          BY <1>1, <3>2, <4>2, <5>1, <5>2 DEF Backed, LockFile
      <4> QED
        BY <1>2, <3>2, <4>1, <4>2
    <3>3. proc[q].phase \in Holding \cup Written => proc[q].id > 0
      BY <1>1 DEF Fits, Holding, Written, Refreshing
    <3>4. proc[q].expiresAt \in Nat /\ proc[q].start + TTL \in Nat
      BY <1>1 DEF ProcRecord
    <3>5. ~robbed' /\ proc[q].wrote =>
                      /\ proc[q].phase \in Holding => proc[q].expiresAt <= clock
                      /\ proc[q].phase \in Written => proc[q].start + TTL <= clock
      BY <1>1, <1>2, <3>2, <3>3, <3>4 DEF Fits
    <3> QED
      BY <1>1, <1>2, <3>1, <3>4, <3>5 DEF Fits, Older, Backed, Named
  <2> QED
    BY <2>1, <2>2
<1> QED
  BY <1>2, <1>4, <1>5, <1>6 DEF IInv

LEMMA NextKeeps ==
    ASSUME PackLockAssumption, IInv, [Next]_vars PROVE IInv'
<1>1. CASE UNCHANGED vars
  BY <1>1 DEF IInv, TypeOK, DistinctIds, Fits, Older, Backed, Named, vars
<1>2. CASE Tick
  BY <1>2, TickKeeps
<1>3. ASSUME NEW p \in Proc, NEW how \in {"acquire", "polite", "force"}, Acquire(p, how)
      PROVE  IInv'
  BY <1>3, AcquireKeeps
<1>4. ASSUME NEW p \in Proc,
             Head(p) \/ Get(p) \/ Create(p) \/ Steal(p) \/ Created(p) \/ Verify(p) \/ Stolen(p)
      PROVE  IInv'
  BY <1>4, AcquiringKeeps
<1>5. ASSUME NEW p \in Proc,
             Refresh(p) \/ RefreshHead(p) \/ RefreshGet(p) \/ RefreshPut(p) \/ RefreshDone(p)
      PROVE  IInv'
  BY <1>5, RefreshingKeeps
<1>6. ASSUME NEW p \in Proc,
             Release(p) \/ ReleaseGet(p) \/ Clean(p) \/ CleanGet(p) \/ Crash(p)
      PROVE  IInv'
  BY <1>6, ReleasingKeeps
<1>7. ASSUME NEW p \in Proc, Delete(p) PROVE IInv'
  BY <1>7, DeleteKeeps
<1> QED
  BY <1>1, <1>2, <1>3, <1>4, <1>5, <1>6, <1>7 DEF Next

LEMMA Invariance ==
    ASSUME PackLockAssumption PROVE Spec => []IInv
<1>1. Init => IInv
  BY Initially
<1>2. IInv /\ [Next]_vars => IInv'
  BY NextKeeps
<1> QED
  BY <1>1, <1>2, PTL DEF Spec
-----------------------------------------------------------------------------
(* Every step keeps the types.                                              *)
THEOREM TypeCorrect ==
    ASSUME PackLockAssumption PROVE Spec => []TypeOK
<1>1. IInv => TypeOK
  BY DEF IInv
<1> QED
  BY <1>1, Invariance, PTL

LEMMA HandlesAreBacked ==
    ASSUME IInv PROVE HandleIsBacked
<1> SUFFICES ASSUME NEW p \in Proc, IsHeld(p)
             PROVE  IF proc[p].wrote
                      THEN ~robbed => file # None /\ file.id = proc[p].id /\ file.expiresAt >= proc[p].expiresAt
                      ELSE ~Owns(p)
  BY DEF HandleIsBacked
<1>1. Fits(proc[p]) /\ proc[p].phase \in Holding /\ proc[p].expiresAt > clock
  BY DEF IInv, IsHeld, Holding
<1>2. CASE proc[p].wrote
  BY <1>1, <1>2 DEF Fits, Backed
<1>3. CASE ~proc[p].wrote
  <2>1. proc[p].id > 0
    BY <1>1 DEF Fits, Holding, Refreshing
  <2> QED
    BY <1>1, <1>3, <2>1 DEF Fits, Named, Owns
<1> QED
  BY <1>2, <1>3

(* Of the handles that have not expired, one that R2 has written is named   *)
(* in the lock object for at least as long, and one that it has not is not  *)
(* named (acquireDistributedLock, refreshDistributedLock): for any number   *)
(* of processes and any lease, whether R2 rejects a put whose condition     *)
(* fails or answers it with null.                                           *)
THEOREM BackedHandles ==
    ASSUME PackLockAssumption PROVE Spec => []HandleIsBacked
<1>1. IInv => HandleIsBacked
  BY HandlesAreBacked
<1> QED
  BY <1>1, Invariance, PTL

(* Hence of the processes that hold the lock of a pack no two have got it   *)
(* from R2.  That others do not hold it is not so: who is answered with     *)
(* null goes on (HoldersAreAlone).                                          *)
THEOREM MutualExclusion ==
    ASSUME PackLockAssumption PROVE Spec => []OneHolder
<1>1. IInv => OneHolder
  <2> SUFFICES ASSUME IInv, ~robbed, NEW p \in Proc, NEW q \in Proc, IsHeld(p), IsHeld(q),
                      proc[p].wrote, proc[q].wrote
               PROVE  p = q
    BY DEF OneHolder
  <2>1. proc[p].id = proc[q].id
    BY HandlesAreBacked DEF HandleIsBacked
  <2>2. proc[p].id > 0 /\ proc[p].id \in Nat
    BY DEF IInv, TypeOK, Fits, IsHeld, Refreshing
  <2> QED
    BY <2>1, <2>2 DEF IInv, DistinctIds
<1> QED
  BY <1>1, Invariance, PTL

(* A lock that has not expired is replaced or removed by its holder only:   *)
(* no other process creates, steals or deletes it.                          *)
THEOREM OwnersTouch ==
    ASSUME PackLockAssumption PROVE Spec => LiveLockIsOwners
<1>1. IInv /\ [Next]_vars => [LiveLockIsTouched]_vars
  <2> SUFFICES ASSUME IInv, Next, ~robbed', file # None, file.expiresAt > clock, file' # file
               PROVE  \E p \in Proc : proc[p].id = file.id /\ proc[p].phase \in {"rput", "deleting"}
    BY DEF LiveLockIsTouched
  <2>1. PICK p \in Proc : Create(p) \/ Steal(p) \/ RefreshPut(p) \/ Delete(p)
    BY DEF Next, Tick, Acquire, Head, Get, Created, Verify, Stolen, Refresh, RefreshHead,
           RefreshGet, RefreshDone, Release, ReleaseGet, Clean, CleanGet, Crash
  <2>2. Fits(proc[p]) /\ proc[p] \in ProcRecord /\ file \in LockFile /\ clock \in Nat
    BY DEF IInv, TypeOK, ProcRecord
  <2>3. ~Create(p)
    BY DEF Create, PutIf
  <2>4. ~Steal(p)
    <3> SUFFICES ASSUME Steal(p) PROVE FALSE
      OBVIOUS
    <3>1. Unmodified(p) /\ proc[p].phase = "steal"
      BY DEF Steal, PutIf
    <3>2. proc[p].found = file
      BY <3>1, UnmodifiedIsFound
    <3> QED
      BY <2>2, <3>1, <3>2 DEF Fits, LockFile, ProcRecord
  <2>5. CASE RefreshPut(p)
    <3>1. Unmodified(p) /\ proc[p].phase = "rput"
      BY <2>5 DEF RefreshPut, PutIf
    <3>2. proc[p].found = file
      BY <3>1, UnmodifiedIsFound
    <3> QED
      BY <2>2, <3>1, <3>2 DEF Fits
  <2>6. CASE Delete(p)
    <3>1. proc[p].phase = "deleting" /\ proc[p].seen = file
      BY <2>6 DEF Delete
    <3> QED
      BY <2>2, <3>1 DEF Fits, LockFile
  <2> QED
    BY <2>1, <2>3, <2>4, <2>5, <2>6
<1> QED
  BY <1>1, Invariance, PTL DEF Spec, LiveLockIsOwners
\* Which files are there, and what the manifest says, at each step.
FilesFit ==
    /\ upload \in {"idle", "stagePack", "stageIdx", "mark", "plainPack"} =>
           stored = {} /\ manifest = None
    /\ upload = "putPack" => stored = {} /\ manifest = "staging"
    /\ upload = "putIdx" => stored = {"pack"} /\ manifest = "staging"
    /\ upload = "complete" => stored = U!File /\ manifest = "staging"
    /\ upload = "unstage" => stored = U!File /\ manifest = "complete"
    /\ upload = "plainIdx" => stored = {"pack"} /\ manifest = None
    /\ upload = "acked" => deleted \/ U!Complete
    /\ manifest = "complete" => stored = U!File

\* Nobody has come upon the upload: what could be cleaned up or deleted is
\* not there yet, or not any more.
Alone ==
    /\ upload \in U!Running \cup {"idle", "acked"} => \A c \in Cleaner : cleaner[c].phase = "idle"
    /\ upload \in U!Running \cup {"idle"} => \A d \in Deleter : deleter[d] = "idle"

UploadInv ==
    /\ U!TypeOK
    /\ upload \in {"idle", "stagePack", "plainPack", "plainIdx", "acked"} => staged = {}
    /\ ~raced => FilesFit /\ Alone

CleanerRecord == [ phase : {"idle", "manifest", "heads", "tidying", "deleting"},
                   asked : SUBSET U!File, seen : SUBSET U!File ]

LEMMA UploadInitially ==
    ASSUME U!UploadAssumption, U!Init PROVE UploadInv
<1>1. U!Idle \in CleanerRecord
  BY DEF U!Idle, CleanerRecord
<1>2. cleaner \in [Cleaner -> CleanerRecord] /\ deleter \in [Deleter -> {"idle", "deleting"}]
  BY <1>1 DEF U!Init
<1>3. U!TypeOK
  BY <1>2 DEF U!Init, U!TypeOK, CleanerRecord
<1> QED
  BY <1>3 DEF U!Init, UploadInv, FilesFit, Alone, U!Running, U!Idle, U!UploadAssumption
-----------------------------------------------------------------------------
(* The requests of an upload, which leave clean-ups and deletions alone.    *)
LEMMA FilesKeep ==
    ASSUME U!UploadAssumption, UploadInv,
           \/ U!StagePack \/ U!StageIdx \/ U!MarkStaging \/ U!PutPack \/ U!PutIdx \/ U!MarkComplete
           \/ U!RemoveStaged \/ U!PlainPack \/ U!PlainIdx
    PROVE  UploadInv'
<1> USE DEF U!After, U!Stage, U!Store, U!Mark, U!Unstage, U!Fault, U!File
<1>1. UNCHANGED <<cleaner, deleter, raced, deleted>> /\ upload \in U!Running
  BY DEF U!StagePack, U!StageIdx, U!MarkStaging, U!PutPack, U!PutIdx, U!MarkComplete, U!RemoveStaged,
         U!PlainPack, U!PlainIdx, U!Running
<1>2. uFaults' \in Nat
  BY DEF U!StagePack, U!StageIdx, U!MarkStaging, U!PutPack, U!PutIdx, U!MarkComplete, U!RemoveStaged,
         U!PlainPack, U!PlainIdx, UploadInv, U!TypeOK
<1>3. upload' \in U!Running \cup {"acked", "failed"}
  BY DEF U!StagePack, U!StageIdx, U!MarkStaging, U!PutPack, U!PutIdx, U!MarkComplete, U!RemoveStaged,
         U!PlainPack, U!PlainIdx, U!Running
<1>4. /\ staged' \subseteq U!File /\ stored' \subseteq U!File
      /\ manifest' \in {None, "staging", "complete"}
  BY DEF U!StagePack, U!StageIdx, U!MarkStaging, U!PutPack, U!PutIdx, U!MarkComplete, U!RemoveStaged,
         U!PlainPack, U!PlainIdx, UploadInv, U!TypeOK
<1>5. U!TypeOK'
  BY <1>1, <1>2, <1>3, <1>4 DEF UploadInv, U!TypeOK
<1>6. upload' \in {"idle", "stagePack", "plainPack", "plainIdx", "acked"} => staged' = {}
  BY DEF U!StagePack, U!StageIdx, U!MarkStaging, U!PutPack, U!PutIdx, U!MarkComplete, U!RemoveStaged,
         U!PlainPack, U!PlainIdx, UploadInv
<1>7. ~raced => Alone'
  BY <1>1, <1>3 DEF UploadInv, Alone
<1>8. ~raced => FilesFit'
  <2> SUFFICES ASSUME ~raced PROVE FilesFit'
    OBVIOUS
  <2>1. FilesFit
    BY DEF UploadInv
  <2>2. CASE U!StagePack \/ U!StageIdx \/ U!MarkStaging
    BY <2>1, <2>2 DEF U!StagePack, U!StageIdx, U!MarkStaging, FilesFit, U!Complete, U!UploadAssumption
  <2>3. CASE U!PutPack \/ U!PutIdx
    BY <2>1, <2>3 DEF U!PutPack, U!PutIdx, FilesFit, U!Complete, U!UploadAssumption
  <2>4. CASE U!MarkComplete \/ U!RemoveStaged
    BY <2>1, <2>4 DEF U!MarkComplete, U!RemoveStaged, FilesFit, U!Complete, U!UploadAssumption
  <2>5. CASE U!PlainPack \/ U!PlainIdx
    BY <2>1, <2>5 DEF U!PlainPack, U!PlainIdx, FilesFit, U!Complete, U!UploadAssumption
  <2> QED
    BY <2>2, <2>3, <2>4, <2>5
<1> QED
  BY <1>1, <1>5, <1>6, <1>7, <1>8 DEF UploadInv

LEMMA BeginKeeps ==
    ASSUME U!UploadAssumption, UploadInv, U!Begin PROVE UploadInv'
<1>1. U!TypeOK' /\ staged' = {}
  BY DEF U!Begin, UploadInv, U!TypeOK, U!Running
<1>2. ~raced => FilesFit' /\ Alone'
  BY DEF U!Begin, UploadInv, FilesFit, Alone, U!Running
<1> QED
  BY <1>1, <1>2 DEF U!Begin, UploadInv

LEMMA UndoKeeps ==
    ASSUME U!UploadAssumption, UploadInv, U!Undo PROVE UploadInv'
<1>1. U!TypeOK'
  <2>1. uFaults' \in Nat
    BY DEF U!Undo, U!Fault, UploadInv, U!TypeOK
  <2>2. /\ staged' \subseteq U!File /\ stored' \subseteq U!File
        /\ manifest' \in {None, "staging", "complete"}
    BY DEF U!Undo, U!Gone, UploadInv, U!TypeOK
  <2>3. upload' = "failed" /\ UNCHANGED <<cleaner, deleter, raced, deleted>>
    BY DEF U!Undo
  <2> QED
    BY <2>1, <2>2, <2>3 DEF UploadInv, U!TypeOK
<1>2. ~raced => FilesFit' /\ Alone'
  BY DEF U!Undo, U!Gone, UploadInv, FilesFit, Alone, U!Running, U!UploadAssumption
<1> QED
  BY <1>1, <1>2 DEF U!Undo, UploadInv

LEMMA CrashKeeps ==
    ASSUME U!UploadAssumption, UploadInv, U!Crash PROVE UploadInv'
<1>1. U!TypeOK'
  BY DEF U!Crash, UploadInv, U!TypeOK
<1>2. ~raced => FilesFit' /\ Alone'
  BY DEF U!Crash, UploadInv, FilesFit, Alone, U!Running
<1> QED
  BY <1>1, <1>2 DEF U!Crash, UploadInv
-----------------------------------------------------------------------------
(* The reads of a clean-up change nothing else.                             *)
LEMMA ListingKeeps ==
    ASSUME U!UploadAssumption, UploadInv, NEW c \in Cleaner, U!List(c) PROVE UploadInv'
<1>1. cleaner' \in [Cleaner -> CleanerRecord]
  <2>1. cleaner \in [Cleaner -> CleanerRecord]
    BY DEF UploadInv, U!TypeOK, CleanerRecord
  <2>2. [cleaner[c] EXCEPT !.phase = "manifest"] \in CleanerRecord
    BY <2>1 DEF CleanerRecord
  <2>3. cleaner' = [cleaner EXCEPT ![c] = [cleaner[c] EXCEPT !.phase = "manifest"]]
    BY <2>1 DEF U!List
  <2> QED
    BY <2>1, <2>2, <2>3
<1>2. U!TypeOK'
  BY <1>1 DEF U!List, UploadInv, U!TypeOK, CleanerRecord
<1>3. ~raced' => ~raced /\ upload \notin U!Running \cup {"idle", "acked"}
  BY DEF U!List, UploadInv
<1>4. ~raced' => FilesFit' /\ Alone'
  BY <1>3 DEF U!List, UploadInv, FilesFit, Alone, U!Complete, U!Running
<1> QED
  BY <1>2, <1>4 DEF U!List, UploadInv

LEMMA ReadingKeeps ==
    ASSUME U!UploadAssumption, UploadInv, NEW c \in Cleaner,
           U!ReadManifest(c) \/ \E f \in U!File : U!ReadHead(c, f)
    PROVE  UploadInv'
<1>1. /\ UNCHANGED <<staged, stored, manifest, upload, deleter, uFaults, raced, deleted>>
      /\ cleaner[c].phase # "idle"
  BY DEF U!ReadManifest, U!ReadHead
<1>2. cleaner' \in [Cleaner -> CleanerRecord]
  <2>1. cleaner \in [Cleaner -> CleanerRecord]
    BY DEF UploadInv, U!TypeOK, CleanerRecord
  <2>2. CASE U!ReadManifest(c)
    <3> DEFINE new == IF manifest = None THEN [phase |-> "heads", asked |-> U!File, seen |-> {}]
                      ELSE [phase |-> IF manifest = "complete" THEN "tidying" ELSE "deleting",
                            asked |-> {}, seen |-> {}]
    <3>1. new \in CleanerRecord
      BY DEF CleanerRecord
    <3>2. cleaner' = [cleaner EXCEPT ![c] = new]
      BY <2>2 DEF U!ReadManifest
    <3> QED
      BY <2>1, <3>1, <3>2
  <2>3. ASSUME NEW f \in U!File, U!ReadHead(c, f) PROVE cleaner' \in [Cleaner -> CleanerRecord]
    <3> DEFINE seen == cleaner[c].seen \cup ({f} \cap stored)
               asked == cleaner[c].asked \ {f}
               phase == IF asked # {} THEN "heads" ELSE IF seen = U!File THEN "tidying" ELSE "deleting"
               new == [phase |-> phase, asked |-> asked, seen |-> seen]
    <3>1. cleaner[c].seen \subseteq U!File /\ cleaner[c].asked \subseteq U!File
      BY <2>1 DEF CleanerRecord
    <3>2. new \in CleanerRecord
      BY <3>1 DEF CleanerRecord
    <3>3. cleaner' = [cleaner EXCEPT ![c] = new]
      BY <2>3 DEF U!ReadHead
    <3> QED
      BY <2>1, <3>2, <3>3
  <2> QED
    BY <2>2, <2>3
<1>3. U!TypeOK'
  BY <1>1, <1>2 DEF UploadInv, U!TypeOK, CleanerRecord
<1>4. ~raced => FilesFit' /\ upload' \notin U!Running \cup {"idle", "acked"}
  BY <1>1 DEF UploadInv, FilesFit, Alone, U!Complete
<1> QED
  BY <1>1, <1>3, <1>4 DEF UploadInv, Alone

LEMMA CleanUpKeeps ==
    ASSUME U!UploadAssumption, UploadInv, NEW c \in Cleaner, U!CleanUp(c) PROVE UploadInv'
<1>1. /\ UNCHANGED <<upload, deleter, raced, deleted>> /\ cleaner[c].phase # "idle"
  BY DEF U!CleanUp
<1>2. cleaner' \in [Cleaner -> CleanerRecord]
  BY DEF U!CleanUp, UploadInv, U!TypeOK, CleanerRecord, U!Idle
<1>3. U!TypeOK'
  BY <1>1, <1>2 DEF U!CleanUp, U!Unstage, U!Gone, U!Fault, UploadInv, U!TypeOK, CleanerRecord
<1>4. ~raced => FilesFit' /\ upload' \notin U!Running \cup {"idle", "acked"}
  BY <1>1 DEF U!CleanUp, U!Unstage, U!Gone, UploadInv, FilesFit, Alone, U!Running, U!UploadAssumption
<1>5. staged = {} => staged' = {}
  BY DEF U!CleanUp, U!Unstage, U!Gone
<1> QED
  BY <1>1, <1>3, <1>4, <1>5 DEF UploadInv, Alone

LEMMA DeleterKeeps ==
    ASSUME U!UploadAssumption, UploadInv, NEW d \in Deleter, U!Delete(d) PROVE UploadInv'
<1>1. U!TypeOK'
  BY DEF U!Delete, UploadInv, U!TypeOK
<1>2. ~raced' => ~raced /\ upload \notin U!Running \cup {"idle"}
  BY DEF U!Delete, UploadInv, FilesFit
<1>3. ~raced' => FilesFit' /\ Alone'
  BY <1>2 DEF U!Delete, UploadInv, FilesFit, Alone, U!Complete
<1> QED
  BY <1>1, <1>3 DEF U!Delete, UploadInv

LEMMA DeleteFilesKeeps ==
    ASSUME U!UploadAssumption, UploadInv, NEW d \in Deleter, U!DeleteFiles(d) PROVE UploadInv'
<1>1. U!TypeOK'
  <2>1. uFaults' \in Nat
    BY DEF U!DeleteFiles, U!Fault, UploadInv, U!TypeOK
  <2>2. /\ stored' \subseteq U!File /\ manifest' \in {None, "staging", "complete"}
        /\ {raced', deleted'} \subseteq BOOLEAN
    BY DEF U!DeleteFiles, UploadInv, U!TypeOK
  <2>3. deleter' \in [Deleter -> {"idle", "deleting"}]
    BY DEF U!DeleteFiles, UploadInv, U!TypeOK
  <2>4. UNCHANGED <<staged, upload, cleaner>>
    BY DEF U!DeleteFiles
  <2> QED
    BY <2>1, <2>2, <2>3, <2>4 DEF UploadInv, U!TypeOK
<1>2. ~raced => upload \notin U!Running \cup {"idle"}
  BY DEF U!DeleteFiles, UploadInv, Alone
<1>3. ~raced => FilesFit'
  BY <1>2 DEF U!DeleteFiles, UploadInv, FilesFit, U!Complete, U!Running, U!UploadAssumption
<1>4. ~raced => Alone'
  BY <1>2 DEF U!DeleteFiles, UploadInv, Alone
<1> QED
  BY <1>1, <1>3, <1>4 DEF U!DeleteFiles, UploadInv
-----------------------------------------------------------------------------
LEMMA UploadInductive ==
    ASSUME UpkeepAssumption PROVE UploadInv /\ [U!Next]_uVars => UploadInv'
<1> SUFFICES ASSUME UploadInv, [U!Next]_uVars PROVE UploadInv'
  OBVIOUS
<1>1. CASE UNCHANGED uVars
  BY <1>1 DEF uVars, UploadInv, U!TypeOK, FilesFit, Alone, U!Complete
<1>2. CASE U!Next
  BY <1>2, FilesKeep, BeginKeeps, UndoKeeps, CrashKeeps, ListingKeeps, ReadingKeeps, CleanUpKeeps,
     DeleterKeeps, DeleteFilesKeeps DEF U!Next, UpkeepAssumption
<1> QED BY <1>1, <1>2
GraceIsEnough == G!CollectionAssumption /\ PushTime + MarkTime < CollectGrace
-----------------------------------------------------------------------------
(* Reach: the least closed set above its roots.                             *)
LEMMA ReachHas ==
    ASSUME NEW R \in SUBSET Object PROVE R \subseteq G!Reach(R) /\ G!Reach(R) \subseteq Object
BY DEF G!Reach

LEMMA ReachLeast ==
    ASSUME NEW R, NEW S \in SUBSET Object, R \subseteq S, G!Closed(S) PROVE G!Reach(R) \subseteq S
BY DEF G!Reach

LEMMA ReachClosed ==
    ASSUME G!CollectionAssumption, NEW R \in SUBSET Object PROVE G!Closed(G!Reach(R))
<1> SUFFICES ASSUME NEW o \in G!Reach(R), NEW x \in Needs[o] PROVE x \in G!Reach(R)
  BY DEF G!Closed
<1>1. o \in Object /\ x \in Object
  BY DEF G!Reach, G!CollectionAssumption
<1>2. ASSUME NEW S \in SUBSET Object, R \subseteq S, G!Closed(S) PROVE x \in S
  BY <1>2 DEF G!Reach, G!Closed
<1> QED
  BY <1>1, <1>2 DEF G!Reach

LEMMA ReachGrows ==
    ASSUME G!CollectionAssumption, NEW S \in SUBSET Object, NEW R \in SUBSET Object, S \subseteq G!Reach(R)
    PROVE  G!Reach(S) \subseteq G!Reach(R)
BY ReachHas, ReachClosed, ReachLeast

LEMMA ReachUnion ==
    ASSUME G!CollectionAssumption, NEW S \in SUBSET Object, NEW R \in SUBSET Object
    PROVE  G!Reach(S \cup R) \subseteq G!Reach(S) \cup G!Reach(R)
<1>1. G!Closed(G!Reach(S)) /\ G!Closed(G!Reach(R))
  BY ReachClosed
<1>2. G!Closed(G!Reach(S) \cup G!Reach(R))
  BY <1>1 DEF G!Closed
<1>3. S \cup R \subseteq G!Reach(S) \cup G!Reach(R) /\ G!Reach(S) \cup G!Reach(R) \in SUBSET Object
  BY ReachHas
<1> QED
  BY <1>2, <1>3, ReachLeast
-----------------------------------------------------------------------------
\* What a push under way has written is stored, young, and not to be deleted.
PushesFit ==
    \A p \in Pusher : push[p].phase = "uploading" =>
        /\ push[p].start <= gClock /\ gClock <= push[p].start + PushTime
        /\ \A x \in push[p].fresh : x \in G!Stored \ gc.listed /\ born[x] >= push[p].start

\* What the marking has found and has yet to walk.
Marked == gc.reachable \cup gc.todo

\* Every object that the refs reach, the marking has found or will find, or it
\* is too young to be collected.
MarkingFits ==
    gc.phase = "marking" =>
        /\ gc.start <= gClock /\ gClock <= gc.start + MarkTime
        /\ ~reused => /\ gc.visited = gc.reachable
                      /\ G!Reach(Marked) \subseteq G!Stored
                      /\ \A o \in gc.reachable : Needs[o] \subseteq Marked
                      /\ \A x \in G!Reach(G!Roots) : x \in G!Reach(Marked) \/ born[x] + PushTime >= gc.start

CollectionInv ==
    /\ G!TypeOK
    /\ PushesFit /\ MarkingFits
    /\ gc.listed \subseteq G!Stored
    /\ ~reused => G!Reach(G!Roots) \subseteq G!Stored \ gc.listed

PushRecord == [ phase : {"idle", "uploading"}, ref : Ref \cup {None}, target : Object \cup {None},
                start : Nat, todo : SUBSET Object, fresh : SUBSET Object ]
CollectionRecord == [ phase : {"idle", "marking", "sweeping"}, start : Nat, todo : SUBSET Object,
                visited : SUBSET Object, reachable : SUBSET Object,
                listed : SUBSET Object, deleted : Nat, dry : BOOLEAN ]

LEMMA CollectionStarts ==
    ASSUME G!CollectionAssumption, G!Init PROVE G!TypeOK
<1>1. G!NoPush \in PushRecord /\ G!NoCollection \in CollectionRecord
  BY DEF G!NoPush, PushRecord, G!NoCollection, CollectionRecord
<1>2. push \in [Pusher -> PushRecord] /\ gc \in CollectionRecord
  BY <1>1 DEF G!Init
<1>3. gClock \in Nat /\ born \in [Object -> Nat \cup {None}] /\ reused \in BOOLEAN
  <2>1. \A o \in Object : born[o] \in Nat \cup {None}
    BY DEF G!Init
  <2>2. born \in [Object -> Nat \cup {None}]
    BY <2>1 DEF G!Init
  <2> QED
    BY <2>2 DEF G!Init
<1> QED
  BY <1>2, <1>3 DEF G!Init, G!TypeOK, PushRecord, CollectionRecord

LEMMA CollectionInitially ==
    ASSUME GraceIsEnough, G!Init PROVE CollectionInv
<1>1. G!TypeOK
  BY CollectionStarts DEF GraceIsEnough
<1> QED
  BY <1>1 DEF G!Init, CollectionInv, PushesFit, MarkingFits, G!NoPush, G!NoCollection

(* Roots are objects.                                                       *)
LEMMA RootsAreObjects ==
    ASSUME G!TypeOK PROVE G!Roots \in SUBSET Object
BY DEF G!TypeOK, G!Roots
-----------------------------------------------------------------------------
LEMMA CollectionTypes ==
    ASSUME CollectionInv, G!CollectionAssumption
    PROVE  /\ gClock \in Nat /\ refs \in [Ref -> Object \cup {None}] /\ born \in [Object -> Nat \cup {None}]
           /\ push \in [Pusher -> PushRecord] /\ gc \in CollectionRecord /\ reused \in BOOLEAN
           /\ G!NoPush \in PushRecord /\ G!NoCollection \in CollectionRecord
           /\ PushTime \in Nat /\ MarkTime \in Nat /\ CollectGrace \in Nat
           /\ None \notin Object /\ None \notin Nat /\ G!Roots \in SUBSET Object
BY RootsAreObjects DEF CollectionInv, G!TypeOK, PushRecord, CollectionRecord, G!NoPush, G!NoCollection, G!CollectionAssumption

LEMMA ReceiveKeeps ==
    ASSUME GraceIsEnough, CollectionInv, NEW p \in Pusher, NEW r \in Ref, NEW o \in Object, G!Receive(p, r, o)
    PROVE  CollectionInv'
<1> DEFINE new == [G!NoPush EXCEPT !.phase = "uploading", !.ref = r, !.target = o,
                                 !.start = gClock, !.todo = G!Reach({o}) \ G!Reach(G!Roots)]
<1>1. push' = [push EXCEPT ![p] = new] /\ UNCHANGED <<gClock, refs, born, gc, reused>>
  BY DEF G!Receive
<1>2. new \in PushRecord
  <2>1. G!Reach({o}) \ G!Reach(G!Roots) \in SUBSET Object /\ gClock \in Nat /\ G!NoPush \in PushRecord
    BY CollectionTypes, ReachHas DEF GraceIsEnough
  <2>2. [G!NoPush EXCEPT !.phase = "uploading", !.ref = r, !.target = o] \in PushRecord
    BY <2>1 DEF PushRecord
  <2>3. [[G!NoPush EXCEPT !.phase = "uploading", !.ref = r, !.target = o]
            EXCEPT !.start = gClock, !.todo = G!Reach({o}) \ G!Reach(G!Roots)] \in PushRecord
    BY <2>1, <2>2 DEF PushRecord
  <2> QED
    BY <2>3
<1>3. new.start = gClock /\ new.fresh = {}
  BY DEF G!NoPush
<1> HIDE DEF new
<1>4. G!TypeOK'
  BY <1>1, <1>2, CollectionTypes DEF CollectionInv, G!TypeOK, PushRecord, GraceIsEnough
<1>5. PushesFit'
  <2> SUFFICES ASSUME NEW q \in Pusher, push'[q].phase = "uploading"
               PROVE  /\ push'[q].start <= gClock /\ gClock <= push'[q].start + PushTime
                      /\ \A x \in push'[q].fresh : x \in G!Stored \ gc.listed /\ born[x] >= push'[q].start
    BY <1>1 DEF PushesFit, G!Stored
  <2>1. CASE q = p
    BY <1>1, <1>3, <2>1, CollectionTypes DEF GraceIsEnough
  <2>2. CASE q # p
    BY <1>1, <2>2, CollectionTypes DEF CollectionInv, PushesFit, GraceIsEnough
  <2> QED
    BY <2>1, <2>2
<1> QED
  BY <1>1, <1>4, <1>5 DEF CollectionInv, MarkingFits, Marked, G!Stored, G!Roots, G!Reach

LEMMA UploadKeeps ==
    ASSUME GraceIsEnough, CollectionInv, NEW p \in Pusher, NEW o \in Object, G!Upload(p, o)
    PROVE  CollectionInv'
<1> DEFINE new == [push[p] EXCEPT !.todo = @ \ {o},
                                  !.fresh = IF o \in G!Stored THEN @ ELSE @ \cup {o}]
<1>1. /\ born' = IF o \in G!Stored THEN born ELSE [born EXCEPT ![o] = gClock]
      /\ UNCHANGED <<gClock, refs, gc, reused>> /\ push[p].phase = "uploading"
  BY DEF G!Upload
<1>2. push \in [Pusher -> PushRecord] /\ push[p] \in PushRecord
  BY CollectionTypes DEF GraceIsEnough
<1>3. push' = [push EXCEPT ![p] = new]
  BY <1>2 DEF G!Upload
<1>4. new \in PushRecord
  BY <1>2 DEF PushRecord
<1>5. /\ new.phase = "uploading" /\ new.start = push[p].start
      /\ new.fresh = IF o \in G!Stored THEN push[p].fresh ELSE push[p].fresh \cup {o}
  BY <1>1, <1>2 DEF PushRecord
<1> HIDE DEF new
<1>6. G!TypeOK'
  <2>1. born' \in [Object -> Nat \cup {None}]
    BY <1>1, CollectionTypes DEF GraceIsEnough
  <2> QED
    BY <1>1, <1>2, <1>3, <1>4, <2>1 DEF CollectionInv, G!TypeOK, PushRecord
\* What was stored stays, as old as it was; what was not is young.
<1>7. /\ G!Stored' = G!Stored \cup {o}
      /\ \A x \in G!Stored : born'[x] = born[x]
      /\ o \notin G!Stored => born'[o] = gClock
  BY <1>1, CollectionTypes DEF G!Stored, GraceIsEnough
<1>8. PushesFit'
  <2> SUFFICES ASSUME NEW q \in Pusher, push'[q].phase = "uploading"
               PROVE  /\ push'[q].start <= gClock /\ gClock <= push'[q].start + PushTime
                      /\ \A x \in push'[q].fresh : x \in G!Stored' \ gc.listed /\ born'[x] >= push'[q].start
    BY <1>1 DEF PushesFit
  <2>1. /\ push[q].phase = "uploading" /\ push'[q].start = push[q].start
        /\ \A x \in push'[q].fresh : x \in push[q].fresh \/ (x = o /\ o \notin G!Stored)
    BY <1>1, <1>2, <1>3, <1>5
  <2>2. /\ push[q].start <= gClock /\ gClock <= push[q].start + PushTime
        /\ \A x \in push[q].fresh : x \in G!Stored \ gc.listed /\ born[x] >= push[q].start
    BY <2>1 DEF CollectionInv, PushesFit
  <2> QED
    BY <1>7, <2>1, <2>2, CollectionTypes DEF CollectionInv, GraceIsEnough
<1>9. MarkingFits'
  <2> SUFFICES ASSUME gc.phase = "marking", ~reused
               PROVE  /\ G!Reach(Marked) \subseteq G!Stored'
                      /\ \A x \in G!Reach(G!Roots) : x \in G!Reach(Marked) \/ born'[x] + PushTime >= gc.start
    BY <1>1 DEF CollectionInv, MarkingFits, Marked, G!Roots, G!Reach
  <2>1. G!Reach(G!Roots) \subseteq G!Stored
    BY DEF CollectionInv
  <2> QED
    BY <1>7, <2>1 DEF CollectionInv, MarkingFits
<1>10. gc'.listed \subseteq G!Stored' /\ (~reused' => (G!Reach(G!Roots) \subseteq G!Stored \ gc.listed)')
  BY <1>1, <1>7 DEF CollectionInv, G!Reach, G!Roots
<1> QED
  BY <1>6, <1>8, <1>9, <1>10 DEF CollectionInv

(* A step of the collector or the clock apart, what a push or a ref changes *)
(* but for its uploads leaves the collection as it is.                      *)
LEMMA RootsKeep ==
    ASSUME GraceIsEnough, CollectionInv, UNCHANGED <<gClock, born, gc>>, G!TypeOK', reused => reused',
           \A q \in Pusher : push'[q].phase = "uploading" => push'[q] = push[q],
           ~reused' => \A x \in G!Reach(G!Roots)' : x \in G!Reach(G!Roots)
                           \/ (x \in G!Stored \ gc.listed /\ born[x] + PushTime >= gClock)
    PROVE  CollectionInv'
<1>1. PushesFit'
  BY DEF CollectionInv, PushesFit, G!Stored
<1>2. MarkingFits'
  <2> SUFFICES ASSUME gc.phase = "marking"
               PROVE  ~reused' => \A x \in G!Reach(G!Roots)' :
                                    x \in G!Reach(Marked) \/ born[x] + PushTime >= gc.start
    BY DEF CollectionInv, MarkingFits, Marked, G!Stored, G!Reach
  <2> SUFFICES ASSUME ~reused', NEW x \in G!Reach(G!Roots)', x \notin G!Reach(G!Roots)
               PROVE  born[x] + PushTime >= gc.start
    BY DEF CollectionInv, MarkingFits
  <2>1. born[x] \in Nat /\ gc.start \in Nat /\ gClock \in Nat /\ PushTime \in Nat
    BY CollectionTypes DEF G!Stored, GraceIsEnough, CollectionRecord
  <2> QED
    BY <2>1 DEF CollectionInv, MarkingFits
<1> QED
  BY <1>1, <1>2 DEF CollectionInv, G!Stored

LEMMA SetRefKeeps ==
    ASSUME GraceIsEnough, CollectionInv, NEW p \in Pusher, G!SetRef(p)
    PROVE  CollectionInv'
<1> DEFINE target == push[p].target
<1>1. /\ push' = [push EXCEPT ![p] = G!NoPush] /\ UNCHANGED <<gClock, born, gc>>
      /\ refs' = [refs EXCEPT ![push[p].ref] = target]
      /\ reused' = (reused \/ ~(G!Reach({target}) \subseteq push[p].fresh \cup G!Reach(G!Roots)))
      /\ push[p].phase = "uploading"
  BY DEF G!SetRef
<1>2. push \in [Pusher -> PushRecord] /\ push[p] \in PushRecord /\ G!CollectionAssumption
  BY CollectionTypes DEF GraceIsEnough
<1>3. refs' \in [Ref -> Object \cup {None}]
  BY <1>1, <1>2, CollectionTypes DEF PushRecord
<1>4. push' \in [Pusher -> PushRecord]
  BY <1>1, <1>2, CollectionTypes
<1>5. G!TypeOK'
  BY <1>1, <1>3, <1>4 DEF CollectionInv, G!TypeOK, PushRecord
<1>6. G!Roots' \subseteq G!Roots \cup ({target} \ {None})
  BY <1>1, <1>2, CollectionTypes DEF G!Roots
<1>7. ASSUME ~reused', NEW x \in G!Reach(G!Roots)', x \notin G!Reach(G!Roots)
      PROVE  x \in G!Stored \ gc.listed /\ born[x] + PushTime >= gClock
  <2>1. G!Roots \in SUBSET Object /\ {target} \ {None} \in SUBSET Object
    BY <1>2, CollectionTypes DEF PushRecord
  <2>2. x \in G!Reach({target} \ {None})
    <3>1. x \in G!Reach(G!Roots')
      BY <1>7 DEF G!Reach
    <3>2. G!Reach(G!Roots') \subseteq G!Reach(G!Roots \cup ({target} \ {None}))
      BY <1>2, <1>6, <2>1, ReachGrows, ReachHas
    <3> QED
      BY <1>2, <1>7, <2>1, <3>1, <3>2, ReachUnion
  <2>3. x \in push[p].fresh
    <3>1. G!Reach({target} \ {None}) \subseteq G!Reach({target})
      BY DEF G!Reach
    <3> QED
      BY <1>1, <1>7, <2>2, <3>1
  <2>4. x \in G!Stored \ gc.listed /\ born[x] >= push[p].start /\ gClock <= push[p].start + PushTime
    BY <1>1, <2>3 DEF CollectionInv, PushesFit
  <2>5. born[x] \in Nat /\ push[p].start \in Nat /\ PushTime \in Nat /\ gClock \in Nat
    BY <1>2, <2>4, CollectionTypes DEF G!Stored, PushRecord
  <2> QED
    BY <2>4, <2>5
<1>8. \A q \in Pusher : push'[q].phase = "uploading" => push'[q] = push[q]
  BY <1>1, <1>2 DEF G!NoPush
<1> QED
  BY <1>1, <1>5, <1>7, <1>8, RootsKeep

LEMMA AbandonKeeps ==
    ASSUME GraceIsEnough, CollectionInv, NEW p \in Pusher, G!Abandon(p)
    PROVE  CollectionInv'
<1>1. push' = [push EXCEPT ![p] = G!NoPush] /\ UNCHANGED <<gClock, refs, born, gc, reused>>
  BY DEF G!Abandon
<1>2. push \in [Pusher -> PushRecord] /\ G!NoPush \in PushRecord
  BY CollectionTypes DEF GraceIsEnough
<1>3. G!TypeOK'
  BY <1>1, <1>2 DEF CollectionInv, G!TypeOK, PushRecord
<1>4. \A q \in Pusher : push'[q].phase = "uploading" => push'[q] = push[q]
  BY <1>1, <1>2 DEF G!NoPush
<1>5. G!Reach(G!Roots)' = G!Reach(G!Roots)
  BY <1>1 DEF G!Reach, G!Roots
<1> QED
  BY <1>1, <1>3, <1>4, <1>5, RootsKeep

LEMMA DeleteRefKeeps ==
    ASSUME GraceIsEnough, CollectionInv, NEW r \in Ref, G!DeleteRef(r)
    PROVE  CollectionInv'
<1>1. refs' = [refs EXCEPT ![r] = None] /\ UNCHANGED <<gClock, born, push, gc, reused>>
  BY DEF G!DeleteRef
<1>2. G!TypeOK'
  BY <1>1 DEF CollectionInv, G!TypeOK
<1>3. G!Roots' \subseteq G!Roots
  BY <1>1, CollectionTypes DEF G!Roots, GraceIsEnough
<1>4. G!Reach(G!Roots)' \subseteq G!Reach(G!Roots)
  <2>1. G!Reach(G!Roots)' = G!Reach(G!Roots')
    BY DEF G!Reach
  <2> QED
    BY <1>3, <2>1, CollectionTypes, ReachGrows, ReachHas DEF GraceIsEnough
<1> QED
  BY <1>1, <1>2, <1>4, RootsKeep
-----------------------------------------------------------------------------
LEMMA CollectKeeps ==
    ASSUME GraceIsEnough, CollectionInv, NEW dry \in BOOLEAN, G!Collect(dry)
    PROVE  CollectionInv'
<1>1. /\ gc' = [G!NoCollection EXCEPT !.phase = "marking", !.start = gClock, !.todo = G!Roots, !.dry = dry]
      /\ UNCHANGED <<gClock, refs, born, push, reused>>
  BY DEF G!Collect
<1>2. /\ gc'.phase = "marking" /\ gc'.start = gClock /\ gc'.todo = G!Roots /\ gc'.visited = {}
      /\ gc'.reachable = {} /\ gc'.listed = {}
  BY <1>1 DEF G!NoCollection
<1>3. gc' \in CollectionRecord
  <2>1. [G!NoCollection EXCEPT !.phase = "marking", !.start = gClock] \in CollectionRecord
    BY CollectionTypes DEF CollectionRecord, GraceIsEnough
  <2>2. [[G!NoCollection EXCEPT !.phase = "marking", !.start = gClock]
            EXCEPT !.todo = G!Roots, !.dry = dry] \in CollectionRecord
    BY <2>1, CollectionTypes DEF CollectionRecord, GraceIsEnough
  <2> QED
    BY <1>1, <2>2
<1>4. G!TypeOK'
  BY <1>1, <1>3 DEF CollectionInv, G!TypeOK, CollectionRecord
<1>5. PushesFit'
  BY <1>1, <1>2 DEF CollectionInv, PushesFit, G!Stored
<1>6. G!Reach(G!Roots)' = G!Reach(G!Roots) /\ G!Reach(Marked)' = G!Reach(G!Roots)
  <2>1. G!Roots' = G!Roots /\ Marked' = G!Roots
    BY <1>1, <1>2 DEF G!Roots, Marked
  <2> QED
    BY <2>1 DEF G!Reach
<1>7. MarkingFits'
  <2>1. gClock' = gClock /\ gClock <= gClock /\ gClock <= gClock + MarkTime /\ reused' = reused /\ born' = born
    BY <1>1, CollectionTypes DEF GraceIsEnough
  <2>2. ~reused => (G!Reach(Marked) \subseteq G!Stored)'
    BY <1>1, <1>6 DEF CollectionInv, G!Stored
  <2> QED
    BY <1>2, <1>6, <2>1, <2>2 DEF MarkingFits
<1> QED
  BY <1>1, <1>2, <1>4, <1>5, <1>6, <1>7 DEF CollectionInv, G!Stored

LEMMA WalkKeeps ==
    ASSUME GraceIsEnough, CollectionInv, NEW o \in Object, G!Walk(o)
    PROVE  CollectionInv'
<1>1. /\ gc.phase = "marking" /\ o \in gc.todo /\ UNCHANGED <<gClock, refs, born, push, reused>>
      /\ gc \in CollectionRecord /\ Needs \in [Object -> SUBSET Object] /\ G!CollectionAssumption
  BY CollectionTypes DEF G!Walk, GraceIsEnough, G!CollectionAssumption
<1>2. /\ gc' \in CollectionRecord
      /\ gc'.phase = "marking" /\ gc'.start = gc.start /\ gc'.listed = gc.listed
      /\ gc'.visited = gc.visited \cup {o}
      /\ o \in G!Stored => gc'.reachable = gc.reachable \cup {o}
                          /\ gc'.todo = (gc.todo \cup Needs[o]) \ (gc.visited \cup {o})
  <2>1. CASE o \in G!Stored
    <3>1. gc' = [gc EXCEPT !.todo = (@ \cup Needs[o]) \ (gc.visited \cup {o}),
                           !.visited = @ \cup {o}, !.reachable = @ \cup {o}]
      BY <2>1 DEF G!Walk, G!Found
    <3>2. /\ (gc.todo \cup Needs[o]) \ (gc.visited \cup {o}) \in SUBSET Object
          /\ gc.visited \cup {o} \in SUBSET Object /\ gc.reachable \cup {o} \in SUBSET Object
      BY <1>1 DEF CollectionRecord
    <3>3. gc' \in CollectionRecord
      BY <1>1, <3>1, <3>2 DEF CollectionRecord
    <3> QED
      BY <1>1, <3>1, <3>3 DEF CollectionRecord
  <2>2. CASE o \notin G!Stored
    <3>1. gc' = [gc EXCEPT !.todo = @ \ {o}, !.visited = @ \cup {o}]
      BY <2>2 DEF G!Walk
    <3>2. gc.todo \ {o} \in SUBSET Object /\ gc.visited \cup {o} \in SUBSET Object
      BY <1>1 DEF CollectionRecord
    <3> QED
      BY <1>1, <2>2, <3>1, <3>2 DEF CollectionRecord
  <2> QED
    BY <2>1, <2>2
<1>3. G!TypeOK'
  BY <1>1, <1>2 DEF CollectionInv, G!TypeOK, CollectionRecord
<1>4. PushesFit'
  BY <1>1, <1>2 DEF CollectionInv, PushesFit, G!Stored
<1>5. G!Reach(G!Roots)' = G!Reach(G!Roots) /\ G!Stored' = G!Stored
  BY <1>1 DEF G!Roots, G!Reach, G!Stored
<1>6. MarkingFits'
  <2>1. gc'.start <= gClock' /\ gClock' <= gc'.start + MarkTime
    BY <1>1, <1>2 DEF CollectionInv, MarkingFits
  <2>2. ASSUME ~reused
        PROVE  /\ gc'.visited = gc'.reachable
               /\ G!Reach(Marked)' = G!Reach(Marked)
               /\ \A x \in gc'.reachable : Needs[x] \subseteq Marked'
    <3>1. /\ gc.visited = gc.reachable /\ G!Reach(Marked) \subseteq G!Stored
          /\ \A x \in gc.reachable : Needs[x] \subseteq Marked
      BY <1>1, <2>2 DEF CollectionInv, MarkingFits
    <3>2. Marked \in SUBSET Object /\ Marked \subseteq G!Reach(Marked) /\ G!Closed(G!Reach(Marked)) /\ o \in Marked
      BY <1>1, ReachHas, ReachClosed DEF Marked, CollectionRecord
    <3>3. o \in G!Stored
      BY <3>1, <3>2
    <3>4. Marked' = Marked \cup Needs[o]
      BY <1>1, <1>2, <3>1, <3>3 DEF Marked
    <3>5. Needs[o] \in SUBSET Object /\ Needs[o] \subseteq G!Reach(Marked)
      BY <1>1, <3>2 DEF G!Closed
    <3>6. G!Reach(Marked') = G!Reach(Marked)
      <4>1. PICK m : m = Marked'
        OBVIOUS
      <4>2. m \in SUBSET Object /\ m \subseteq G!Reach(Marked)
        BY <3>2, <3>4, <3>5, <4>1
      <4>3. Marked \subseteq G!Reach(m)
        BY <3>4, <4>1, <4>2, ReachHas
      <4>4. G!Reach(m) \subseteq G!Reach(Marked)
        BY <1>1, <3>2, <4>2, ReachGrows
      <4>5. G!Reach(Marked) \subseteq G!Reach(m)
        BY <1>1, <3>2, <4>2, <4>3, ReachGrows
      <4> QED
        BY <4>1, <4>4, <4>5
    <3>7. G!Reach(Marked)' = G!Reach(Marked')
      BY DEF G!Reach
    <3> QED
      BY <1>2, <3>1, <3>3, <3>4, <3>6, <3>7
  <2>3. ~reused => /\ G!Reach(Marked) \subseteq G!Stored
                   /\ \A x \in G!Reach(G!Roots) : x \in G!Reach(Marked) \/ born[x] + PushTime >= gc.start
    BY <1>1 DEF CollectionInv, MarkingFits
  <2> QED
    BY <1>1, <1>2, <1>5, <2>1, <2>2, <2>3 DEF MarkingFits
<1> QED
  BY <1>1, <1>2, <1>3, <1>4, <1>5, <1>6 DEF CollectionInv

(* What is listed for deletion is old and was not found by the marking, so  *)
(* that neither a ref nor a push under way needs it.                        *)
LEMMA ListKeeps ==
    ASSUME GraceIsEnough, CollectionInv, G!List
    PROVE  CollectionInv'
<1> DEFINE condemned == {o \in G!Stored \ gc.reachable : G!Old(o, gClock)}
<1>1. /\ gc.phase = "marking" /\ gc.todo = {} /\ UNCHANGED <<gClock, refs, born, push, reused>>
      /\ gc \in CollectionRecord /\ condemned \subseteq G!Stored /\ condemned \in SUBSET Object
      /\ G!CollectionAssumption
  BY CollectionTypes DEF G!List, G!Stored, GraceIsEnough
<1>2. gc' = [gc EXCEPT !.phase = "sweeping", !.listed = condemned]
  BY DEF G!List
<1>3. gc'.phase = "sweeping" /\ gc'.listed = condemned /\ gc' \in CollectionRecord
  BY <1>1, <1>2 DEF CollectionRecord
<1>4. G!TypeOK'
  BY <1>1, <1>3 DEF CollectionInv, G!TypeOK, CollectionRecord
<1>5. /\ gClock \in Nat /\ gc.start \in Nat /\ PushTime \in Nat /\ MarkTime \in Nat /\ CollectGrace \in Nat
      /\ PushTime + MarkTime < CollectGrace /\ \A x \in G!Stored : born[x] \in Nat
      /\ \A q \in Pusher : push[q].start \in Nat
  BY <1>1, CollectionTypes DEF GraceIsEnough, G!Stored, CollectionRecord, PushRecord
<1>6. \A x \in condemned : x \in G!Stored \ gc.reachable /\ born[x] + CollectGrace <= gClock
  BY DEF G!Old
<1> HIDE DEF condemned
<1>7. PushesFit'
  <2> SUFFICES ASSUME NEW q \in Pusher, push[q].phase = "uploading", NEW x \in push[q].fresh
               PROVE  x \notin condemned
    BY <1>1, <1>3 DEF CollectionInv, PushesFit, G!Stored
  <2>1. born[x] >= push[q].start /\ gClock <= push[q].start + PushTime /\ x \in G!Stored
    BY DEF CollectionInv, PushesFit
  <2> QED
    BY <1>5, <1>6, <2>1
<1>8. ASSUME ~reused, NEW x \in G!Reach(G!Roots) PROVE x \in G!Stored \ condemned
  <2>1. /\ x \in G!Stored /\ gClock <= gc.start + MarkTime
        /\ x \in G!Reach(Marked) \/ born[x] + PushTime >= gc.start
    BY <1>1, <1>8 DEF CollectionInv, MarkingFits
  <2>2. CASE x \in G!Reach(Marked)
    <3>1. Marked = gc.reachable /\ G!Closed(gc.reachable) /\ gc.reachable \in SUBSET Object
      BY <1>1, <1>8 DEF CollectionInv, MarkingFits, Marked, G!Closed, CollectionRecord
    <3>2. x \in gc.reachable
      BY <2>2, <3>1, ReachLeast
    <3> QED
      BY <1>6, <2>1, <3>2
  <2>3. CASE born[x] + PushTime >= gc.start
    BY <1>5, <1>6, <2>1, <2>3
  <2> QED
    BY <2>1, <2>2, <2>3
<1>9. G!Reach(G!Roots)' = G!Reach(G!Roots) /\ G!Stored' = G!Stored
  BY <1>1 DEF G!Roots, G!Reach, G!Stored
<1> QED
  BY <1>1, <1>3, <1>4, <1>7, <1>8, <1>9 DEF CollectionInv, MarkingFits

LEMMA SweepKeeps ==
    ASSUME GraceIsEnough, CollectionInv, NEW o \in Object, G!Delete(o)
    PROVE  CollectionInv'
<1>1. /\ gc.phase = "sweeping" /\ o \in gc.listed /\ UNCHANGED <<gClock, refs, push, reused>>
      /\ gc \in CollectionRecord /\ born \in [Object -> Nat \cup {None}]
      /\ born' = born \/ born' = [born EXCEPT ![o] = None]
      /\ \/ gc' = [gc EXCEPT !.listed = @ \ {o}, !.deleted = @ + 1]
         \/ gc' = [gc EXCEPT !.listed = @ \ {o}]
  BY CollectionTypes DEF G!Delete, GraceIsEnough
<1>2. gc'.phase = "sweeping" /\ gc'.listed = gc.listed \ {o} /\ gc' \in CollectionRecord
  <2>1. gc.listed \ {o} \in SUBSET Object /\ gc.deleted + 1 \in Nat
    BY <1>1 DEF CollectionRecord
  <2> QED
    BY <1>1, <2>1, ZenonT(60) DEF CollectionRecord
<1>3. G!TypeOK'
  BY <1>1, <1>2 DEF CollectionInv, G!TypeOK, CollectionRecord
<1>4. \A x \in G!Stored \ {o} : x \in G!Stored' /\ born'[x] = born[x]
  BY <1>1 DEF G!Stored
<1>5. PushesFit'
  BY <1>1, <1>2, <1>4 DEF CollectionInv, PushesFit
<1>6. G!Reach(G!Roots)' = G!Reach(G!Roots)
  BY <1>1 DEF G!Roots, G!Reach
<1> QED
  BY <1>1, <1>2, <1>3, <1>4, <1>5, <1>6 DEF CollectionInv, MarkingFits

LEMMA EndKeeps ==
    ASSUME GraceIsEnough, CollectionInv, G!EndCollection
    PROVE  CollectionInv'
<1>1. /\ gc' = G!NoCollection /\ UNCHANGED <<gClock, refs, born, push, reused>>
      /\ G!NoCollection \in CollectionRecord
  BY CollectionTypes DEF G!EndCollection, GraceIsEnough
<1>2. gc'.phase = "idle" /\ gc'.listed = {}
  BY <1>1 DEF G!NoCollection
<1>3. G!TypeOK'
  BY <1>1 DEF CollectionInv, G!TypeOK, CollectionRecord
<1>4. G!Reach(G!Roots)' = G!Reach(G!Roots) /\ G!Stored' = G!Stored
  BY <1>1 DEF G!Roots, G!Reach, G!Stored
<1> QED
  BY <1>1, <1>2, <1>3, <1>4 DEF CollectionInv, PushesFit, MarkingFits

LEMMA ClockKeeps ==
    ASSUME GraceIsEnough, CollectionInv, G!Tick
    PROVE  CollectionInv'
<1>1. /\ gClock' = gClock + 1 /\ UNCHANGED <<refs, born, push, gc, reused>>
      /\ \A p \in Pusher : push[p].phase = "uploading" => gClock < push[p].start + PushTime
      /\ gc.phase = "marking" => gClock < gc.start + MarkTime
  BY DEF G!Tick
<1>2. /\ gClock \in Nat /\ PushTime \in Nat /\ MarkTime \in Nat /\ gc.start \in Nat
      /\ \A q \in Pusher : push[q].start \in Nat
  BY CollectionTypes DEF GraceIsEnough, CollectionRecord, PushRecord
<1>3. G!TypeOK'
  BY <1>1 DEF CollectionInv, G!TypeOK
<1>4. G!Reach(G!Roots)' = G!Reach(G!Roots) /\ G!Reach(Marked)' = G!Reach(Marked) /\ G!Stored' = G!Stored /\ Marked' = Marked
  BY <1>1 DEF G!Roots, G!Reach, G!Stored, Marked
<1>5. PushesFit'
  BY <1>1, <1>2, <1>4 DEF CollectionInv, PushesFit
<1>6. MarkingFits'
  BY <1>1, <1>2, <1>4 DEF CollectionInv, MarkingFits
<1> QED
  BY <1>1, <1>3, <1>4, <1>5, <1>6 DEF CollectionInv

LEMMA CollectionInductive ==
    ASSUME GraceIsEnough PROVE CollectionInv /\ [G!Next]_gVars => CollectionInv'
<1> SUFFICES ASSUME CollectionInv, [G!Next]_gVars PROVE CollectionInv'
  OBVIOUS
<1>1. CASE UNCHANGED gVars
  <2>1. UNCHANGED <<gClock, refs, born, push, gc, reused>>
    BY <1>1 DEF gVars
  <2>2. G!TypeOK'
    BY <2>1 DEF CollectionInv, G!TypeOK
  <2>3. /\ G!Stored' = G!Stored /\ Marked' = Marked
        /\ G!Reach(G!Roots)' = G!Reach(G!Roots) /\ G!Reach(Marked)' = G!Reach(Marked)
    BY <2>1 DEF G!Stored, Marked, G!Reach, G!Roots
  <2> QED BY <2>1, <2>2, <2>3 DEF CollectionInv, PushesFit, MarkingFits
<1>2. CASE G!Next
  BY <1>2, ReceiveKeeps, UploadKeeps, SetRefKeeps, AbandonKeeps, DeleteRefKeeps, CollectKeeps,
     WalkKeeps, ListKeeps, SweepKeeps, EndKeeps, ClockKeeps DEF G!Next
<1> QED BY <1>1, <1>2
-----------------------------------------------------------------------------
LEMMA CollectionTypesBefore ==
    ASSUME G!TypeOK, G!CollectionAssumption
    PROVE  /\ gClock \in Nat /\ refs \in [Ref -> Object \cup {None}] /\ born \in [Object -> Nat \cup {None}]
           /\ push \in [Pusher -> PushRecord] /\ gc \in CollectionRecord /\ reused \in BOOLEAN
           /\ G!NoPush \in PushRecord /\ G!NoCollection \in CollectionRecord
           /\ G!Roots \in SUBSET Object /\ G!Stored \in SUBSET Object
           /\ \A R : G!Reach(R) \in SUBSET Object
BY DEF G!TypeOK, PushRecord, CollectionRecord, G!NoPush, G!NoCollection, G!CollectionAssumption, G!Roots,
       G!Stored, G!Reach

\* The types alone need no grace period.
LEMMA CollectionTyped ==
    ASSUME G!CollectionAssumption PROVE G!TypeOK /\ [G!Next]_gVars => G!TypeOK'
<1> SUFFICES ASSUME G!TypeOK, [G!Next]_gVars
             PROVE  /\ gClock' \in Nat /\ refs' \in [Ref -> Object \cup {None}]
                    /\ born' \in [Object -> Nat \cup {None}] /\ push' \in [Pusher -> PushRecord]
                    /\ gc' \in CollectionRecord /\ reused' \in BOOLEAN
  BY DEF G!TypeOK, PushRecord, CollectionRecord
<1>1. ASSUME NEW p \in Pusher, NEW r \in Ref, NEW o \in Object, G!Receive(p, r, o)
      PROVE  push' \in [Pusher -> PushRecord] /\ UNCHANGED <<gClock, refs, born, gc, reused>>
  <2>1. PICK n : n = [G!NoPush EXCEPT !.phase = "uploading", !.ref = r, !.target = o,
                               !.start = gClock, !.todo = G!Reach({o}) \ G!Reach(G!Roots)]
    OBVIOUS
  <2>2. n = [ phase |-> "uploading", ref |-> r, target |-> o, start |-> gClock,
              todo |-> G!Reach({o}) \ G!Reach(G!Roots), fresh |-> {} ]
    BY <2>1 DEF G!NoPush
  <2>3. n \in PushRecord
    BY <2>2, CollectionTypesBefore DEF PushRecord
  <2> QED
    BY <1>1, <2>1, <2>3, CollectionTypesBefore DEF G!Receive
<1>2. ASSUME NEW p \in Pusher, NEW o \in Object, G!Upload(p, o)
      PROVE  /\ push' \in [Pusher -> PushRecord] /\ born' \in [Object -> Nat \cup {None}]
             /\ UNCHANGED <<gClock, refs, gc, reused>>
  <2>1. PICK n : n = [push[p] EXCEPT !.todo = push[p].todo \ {o},
                                     !.fresh = IF o \in G!Stored THEN push[p].fresh ELSE push[p].fresh \cup {o}]
    OBVIOUS
  <2>2. push' = [push EXCEPT ![p] = n]
    BY <1>2, <2>1, CollectionTypesBefore DEF G!Upload
  <2>3. n \in PushRecord
    BY <2>1, CollectionTypesBefore DEF PushRecord
  <2> QED
    BY <1>2, <2>2, <2>3, CollectionTypesBefore DEF G!Upload
<1>3. ASSUME NEW p \in Pusher, G!SetRef(p) \/ G!Abandon(p)
      PROVE  /\ push' \in [Pusher -> PushRecord] /\ refs' \in [Ref -> Object \cup {None}] /\ reused' \in BOOLEAN
             /\ UNCHANGED <<gClock, born, gc>>
  <2>1. push' = [push EXCEPT ![p] = G!NoPush] /\ UNCHANGED <<gClock, born, gc>>
    BY <1>3 DEF G!SetRef, G!Abandon
  <2>2. refs' \in [Ref -> Object \cup {None}]
    BY <1>3, CollectionTypesBefore DEF G!SetRef, G!Abandon, PushRecord
  <2>3. reused' \in BOOLEAN
    BY <1>3, CollectionTypesBefore, Zenon DEF G!SetRef, G!Abandon
  <2> QED
    BY <2>1, <2>2, <2>3, CollectionTypesBefore
<1>4. ASSUME NEW r \in Ref, G!DeleteRef(r)
      PROVE  refs' \in [Ref -> Object \cup {None}] /\ UNCHANGED <<gClock, born, push, gc, reused>>
  BY <1>4, CollectionTypesBefore DEF G!DeleteRef
<1>5. ASSUME NEW dry \in BOOLEAN, G!Collect(dry)
      PROVE  gc' \in CollectionRecord /\ UNCHANGED <<gClock, refs, born, push, reused>>
  <2>1. gc' = [ phase |-> "marking", start |-> gClock, todo |-> G!Roots, visited |-> {}, reachable |-> {},
                listed |-> {}, deleted |-> 0, dry |-> dry ]
    BY <1>5 DEF G!Collect, G!NoCollection
  <2> QED
    BY <1>5, <2>1, CollectionTypesBefore DEF G!Collect, CollectionRecord
<1>6. ASSUME NEW o \in Object, G!Walk(o)
      PROVE  gc' \in CollectionRecord /\ UNCHANGED <<gClock, refs, born, push, reused>>
  <2>1. Needs[o] \in SUBSET Object
    BY DEF G!CollectionAssumption
  <2> QED
    BY <1>6, <2>1, CollectionTypesBefore DEF G!Walk, G!Found, CollectionRecord
<1>7. ASSUME G!List
      PROVE  gc' \in CollectionRecord /\ UNCHANGED <<gClock, refs, born, push, reused>>
  BY <1>7, CollectionTypesBefore DEF G!List, CollectionRecord
<1>8. ASSUME NEW o \in Object, G!Delete(o)
      PROVE  /\ gc' \in CollectionRecord /\ born' \in [Object -> Nat \cup {None}]
             /\ UNCHANGED <<gClock, refs, push, reused>>
  <2>1. born' \in [Object -> Nat \cup {None}] /\ UNCHANGED <<gClock, refs, push, reused>>
    BY <1>8, CollectionTypesBefore DEF G!Delete
  <2>2. \/ gc' = [gc EXCEPT !.listed = gc.listed \ {o}, !.deleted = gc.deleted + 1]
        \/ gc' = [gc EXCEPT !.listed = gc.listed \ {o}]
    BY <1>8 DEF G!Delete
  <2>3. gc.listed \ {o} \in SUBSET Object /\ gc.deleted + 1 \in Nat
    BY CollectionTypesBefore DEF CollectionRecord
  <2>4. gc' \in CollectionRecord
    BY <2>2, <2>3, CollectionTypesBefore DEF CollectionRecord
  <2> QED
    BY <2>1, <2>4
<1>9. ASSUME G!EndCollection \/ G!Tick
      PROVE  gc' \in CollectionRecord /\ gClock' \in Nat /\ UNCHANGED <<refs, born, push, reused>>
  BY <1>9, CollectionTypesBefore DEF G!EndCollection, G!Tick
<1>10. CASE UNCHANGED gVars
  BY <1>10, CollectionTypesBefore DEF gVars
<1>11. CASE G!Next
  BY <1>1, <1>2, <1>3, <1>4, <1>5, <1>6, <1>7, <1>8, <1>9, <1>11, CollectionTypesBefore DEF G!Next
<1> QED
  BY <1>10, <1>11
-----------------------------------------------------------------------------
\* While a compaction is needed an alarm is set for it, if the last one could be,
\* and of the attempts that are recorded or under way there are at least as many
\* as were made.
AlarmFlags == alarms \in BOOLEAN /\ needed \in BOOLEAN /\ alarm \in BOOLEAN /\ refused \in BOOLEAN

AlarmCounts ==
    /\ attempts \in 0..MaxAttempts /\ requests \in Nat /\ tries \in Nat
    /\ handler \in 0..MaxAttempts \cup {None}

TriesFit ==
    /\ tries <= MaxAttempts
    /\ needed => alarm \/ refused
    /\ needed => tries = 0 \/ (handler = None /\ tries <= attempts /\ attempts < MaxAttempts)
    /\ handler # None => tries <= handler + 1
    /\ alarms \/ (~needed /\ handler = None)

AlarmInv == AlarmFlags /\ AlarmCounts /\ TriesFit

LEMMA AlarmInitially ==
    ASSUME A!AlarmAssumption, A!Init PROVE AlarmInv
<1> USE DEF A!AlarmAssumption, A!Init
<1>1. AlarmFlags
  BY DEF AlarmFlags
<1>2. AlarmCounts
  BY DEF AlarmCounts
<1>3. TriesFit
  BY DEF TriesFit
<1> QED
  BY <1>1, <1>2, <1>3 DEF AlarmInv

LEMMA AlarmInductive ==
    ASSUME A!AlarmAssumption PROVE AlarmInv /\ [A!Next]_aVars => AlarmInv'
<1> SUFFICES ASSUME AlarmInv, [A!Next]_aVars PROVE AlarmFlags' /\ AlarmCounts' /\ TriesFit'
  BY DEF AlarmInv
<1> USE DEF A!AlarmAssumption, A!Failed
<1>1. CASE A!Schedule
  <2>1. AlarmFlags'
    BY <1>1 DEF A!Schedule, A!SetAlarm, AlarmInv, AlarmFlags
  <2>2. AlarmCounts'
    BY <1>1 DEF A!Schedule, A!SetAlarm, AlarmInv, AlarmCounts
  <2>3. TriesFit'
    BY <1>1 DEF A!Schedule, A!SetAlarm, AlarmInv, AlarmCounts, TriesFit
  <2> QED
    BY <2>1, <2>2, <2>3
<1>2. CASE A!Fire
  <2>1. AlarmFlags'
    BY <1>2 DEF A!Fire, AlarmInv, AlarmFlags
  <2>2. AlarmCounts'
    BY <1>2 DEF A!Fire, AlarmInv, AlarmCounts
  <2>3. TriesFit'
    BY <1>2 DEF A!Fire, AlarmInv, AlarmCounts, TriesFit
  <2> QED
    BY <2>1, <2>2, <2>3
<1>3. CASE A!Succeed
  <2>1. AlarmFlags'
    BY <1>3 DEF A!Succeed, AlarmInv, AlarmFlags
  <2>2. AlarmCounts'
    BY <1>3 DEF A!Succeed, AlarmInv, AlarmCounts
  <2>3. TriesFit'
    BY <1>3 DEF A!Succeed, AlarmInv, AlarmCounts, TriesFit
  <2> QED
    BY <2>1, <2>2, <2>3
<1>4. CASE A!Fail
  <2>1. AlarmFlags'
    BY <1>4 DEF A!Fail, A!SetAlarm, AlarmInv, AlarmFlags
  <2>2. AlarmCounts'
    BY <1>4 DEF A!Fail, A!SetAlarm, AlarmInv, AlarmCounts
  <2>3. TriesFit'
    BY <1>4 DEF A!Fail, A!SetAlarm, AlarmInv, AlarmCounts, TriesFit
  <2> QED
    BY <2>1, <2>2, <2>3
<1>5. CASE A!Restart
  <2>1. AlarmFlags'
    BY <1>5 DEF A!Restart, AlarmInv, AlarmFlags
  <2>2. AlarmCounts'
    BY <1>5 DEF A!Restart, AlarmInv, AlarmCounts
  <2>3. TriesFit'
    BY <1>5 DEF A!Restart, AlarmInv, AlarmCounts, TriesFit
  <2> QED
    BY <2>1, <2>2, <2>3
<1>6. CASE UNCHANGED aVars
  BY <1>6 DEF aVars, AlarmInv, AlarmFlags, AlarmCounts, TriesFit
<1> QED
  BY <1>1, <1>2, <1>3, <1>4, <1>5, <1>6 DEF A!Next

LEMMA AlarmTypesOK ==
    ASSUME AlarmInv PROVE A!TypeOK
<1>1. {alarms, needed, alarm, refused} \subseteq BOOLEAN
  BY Zenon DEF AlarmInv, AlarmFlags
<1>2. attempts \in 0..MaxAttempts /\ handler \in Nat \cup {None} /\ requests \in Nat /\ tries \in Nat
  BY DEF AlarmInv, AlarmCounts
<1> QED
  BY <1>1, <1>2 DEF A!TypeOK
-----------------------------------------------------------------------------
MoveRecord == [ target : {"hot", "warm"},
                phase : {"idle", "locking", "looking", "reading", "copying", "verifying",
                         "undoing", "moving", "deleting", "finishing", "unlocking"} ]
JobRecord == [ target : {"hot", "warm"}, locked : BOOLEAN, found : BOOLEAN,
               phase : {"idle", "copying", "open", "failed"},
               complete : {"no", "moving", "deleting", "unlocking", "closing", "replaying", "done", "failed"},
               undo : {"no", "deleting", "unlocking", "closing", "done", "failed"} ]

TierTyped == /\ tier \in {"hot", "warm"} /\ lock \in Mover \cup Job \cup {None}
             /\ mover \in [Mover -> MoveRecord] /\ job \in [Job -> JobRecord]
             /\ queued \in Nat /\ landing \in Nat /\ writes \in Nat /\ tFaults \in Nat
TierFlags == hot \in BOOLEAN /\ warm \in BOOLEAN /\ migrating \in BOOLEAN /\ foul \in BOOLEAN

\* A call that is at work has the lock, and before a copy is deleted the other is
\* there: the hot one until it is removed, the warm one from when it is written.
Safe(m, phase) ==
    /\ phase \notin {"idle", "locking"} => lock = m
    /\ phase \in {"copying", "verifying", "moving", "undoing"} => hot
    /\ phase \in {"verifying", "moving", "deleting"} => warm
MoverFits(m) == Safe(m, mover[m].phase)

\* A job that has not yet given its lock back.
Holds(j) == job[j].locked /\ job[j].complete \in {"no", "moving", "deleting", "unlocking"}
                          /\ job[j].undo \in {"no", "deleting", "unlocking"}
JobFits(j) ==
    /\ job[j].complete # "no" => job[j].locked /\ job[j].phase = "open" /\ job[j].undo = "no"
    /\ job[j].undo # "no" => job[j].locked /\ job[j].found /\ job[j].complete = "no"
    /\ Holds(j) => /\ lock = j
                   /\ job[j].found /\ job[j].complete # "unlocking" => hot
                   /\ (job[j].phase = "open" \/ ~job[j].found) /\ job[j].undo = "no" => warm

\* As long as every job was settled that may be, and once.
TierFits == ~foul => /\ hot \/ warm
                     /\ \A m \in Mover : MoverFits(m)
                     /\ \A j \in Job : JobFits(j)

TierInv == TierTyped /\ TierFlags /\ TierFits

\* What x does cannot disturb the others: it has the lock, or takes nothing away.
Calm(x) == lock = x \/ ((lock' = lock \/ lock = None) /\ (hot => hot') /\ (warm => warm'))

LEMMA OtherMovers ==
    ASSUME T!TierAssumption, TierInv, ~foul, NEW x, Calm(x), NEW n \in Mover, n # x,
           mover'[n] = mover[n]
    PROVE  MoverFits(n)'
<1>1. MoverFits(n) /\ n # None
  BY DEF TierInv, TierFits, T!TierAssumption
<1> QED
  BY <1>1 DEF MoverFits, Safe, Calm

LEMMA OtherJobs ==
    ASSUME T!TierAssumption, TierInv, ~foul, NEW x, Calm(x), NEW k \in Job, k # x, job'[k] = job[k]
    PROVE  JobFits(k)'
<1>1. JobFits(k) /\ k # None
  BY DEF TierInv, TierFits, T!TierAssumption
<1> QED
  BY <1>1 DEF JobFits, Holds, Calm

LEMMA MoverStep ==
    ASSUME T!TierAssumption, TierInv, NEW m \in Mover, UNCHANGED <<job, foul>>,
           \A n \in Mover \ {m} : mover'[n] = mover[n],
           ~foul => Calm(m) /\ (hot' \/ warm') /\ MoverFits(m)'
    PROVE  TierFits'
<1> SUFFICES ASSUME ~foul PROVE (hot \/ warm)' /\ (\A n \in Mover : MoverFits(n)') /\ \A k \in Job : JobFits(k)'
  BY DEF TierFits
<1>1. Calm(m) /\ (hot' \/ warm') /\ MoverFits(m)'
  OBVIOUS
<1>2. ASSUME NEW n \in Mover PROVE MoverFits(n)'
  BY <1>1, OtherMovers
<1>3. ASSUME NEW k \in Job PROVE JobFits(k)'
  <2>1. k # m
    BY DEF T!TierAssumption
  <2> QED
    BY <1>1, <2>1, OtherJobs
<1> QED
  BY <1>1, <1>2, <1>3

LEMMA JobStep ==
    ASSUME T!TierAssumption, TierInv, NEW j \in Job, UNCHANGED mover, foul => foul',
           \A k \in Job \ {j} : job'[k] = job[k],
           ~foul /\ ~foul' => Calm(j) /\ (hot' \/ warm') /\ JobFits(j)'
    PROVE  TierFits'
<1> SUFFICES ASSUME ~foul, ~foul'
             PROVE  (hot \/ warm)' /\ (\A n \in Mover : MoverFits(n)') /\ \A k \in Job : JobFits(k)'
  BY DEF TierFits
<1>1. Calm(j) /\ (hot' \/ warm') /\ JobFits(j)'
  OBVIOUS
<1>2. ASSUME NEW n \in Mover PROVE MoverFits(n)'
  <2>1. n # j
    BY DEF T!TierAssumption
  <2> QED
    BY <1>1, <2>1, OtherMovers
<1>3. ASSUME NEW k \in Job PROVE JobFits(k)'
  BY <1>1, OtherJobs
<1> QED
  BY <1>1, <1>2, <1>3

LEMMA TierInitially ==
    ASSUME T!TierAssumption, T!Init PROVE TierInv
<1>1. T!NewMove \in MoveRecord /\ T!NewJob \in JobRecord
  BY DEF T!NewMove, T!NewJob, MoveRecord, JobRecord
<1>2. TierTyped
  BY <1>1 DEF T!Init, TierTyped
<1>3. TierFlags
  BY DEF T!Init, TierFlags
<1>4. TierFits
  BY DEF T!Init, TierFits, MoverFits, Safe, JobFits, Holds, T!NewMove, T!NewJob
<1> QED
  BY <1>2, <1>3, <1>4 DEF TierInv

LEMMA TierTypesOK ==
    ASSUME TierInv PROVE T!TypeOK
<1>1. {queued, landing, writes, tFaults} \subseteq Nat
  BY DEF TierInv, TierTyped
<1>2. {hot, warm, migrating, foul} \subseteq BOOLEAN
  BY Zenon DEF TierInv, TierFlags
<1> QED
  BY <1>1, <1>2 DEF TierInv, TierTyped, T!TypeOK, MoveRecord, JobRecord

\* A call of migrate() that goes to another place of its own.
LEMMA MoverGoes ==
    ASSUME TierInv, NEW m \in Mover, NEW to, T!Goto(m, to), [mover[m] EXCEPT !.phase = to] \in MoveRecord
    PROVE  /\ mover' \in [Mover -> MoveRecord] /\ mover'[m].phase = to
           /\ \A n \in Mover \ {m} : mover'[n] = mover[n]
<1>1. mover \in [Mover -> MoveRecord]
  BY DEF TierInv, TierTyped
<1> QED
  BY <1>1 DEF T!Goto, MoveRecord

LEMMA MoverPlaces ==
    ASSUME TierInv, NEW m \in Mover,
           NEW to \in {"idle", "locking", "looking", "reading", "copying", "verifying",
                       "undoing", "moving", "deleting", "finishing", "unlocking"}
    PROVE  [mover[m] EXCEPT !.phase = to] \in MoveRecord
<1>1. mover[m] \in MoveRecord
  BY DEF TierInv, TierTyped
<1> QED
  BY <1>1 DEF MoveRecord

LEMMA FaultsCount ==
    ASSUME T!TierAssumption, TierInv, T!Fine \/ T!Fault PROVE tFaults' \in Nat
BY DEF TierInv, TierTyped, T!Fine, T!Fault, T!TierAssumption

LEMMA GoesOn ==
    ASSUME T!TierAssumption, TierInv, NEW m \in Mover,
           NEW to \in {"idle", "locking", "looking", "reading", "copying", "verifying",
                       "undoing", "moving", "deleting", "finishing", "unlocking"},
           T!Goto(m, to), T!Fine \/ T!Fault, UNCHANGED <<job, queued, landing, writes, foul>>,
           lock' \in {lock, m, None}, tier' \in {"hot", "warm"},
           hot' \in BOOLEAN, warm' \in BOOLEAN, migrating' \in BOOLEAN,
           ~foul => Calm(m) /\ (hot' \/ warm') /\ Safe(m, to)'
    PROVE  TierInv'
<1>1. /\ mover' \in [Mover -> MoveRecord] /\ mover'[m].phase = to
      /\ \A n \in Mover \ {m} : mover'[n] = mover[n]
  BY MoverGoes, MoverPlaces
<1>2. lock' \in Mover \cup Job \cup {None}
  BY DEF TierInv, TierTyped
<1>3. TierTyped'
  BY <1>1, <1>2, FaultsCount DEF TierInv, TierTyped
<1>4. TierFlags'
  BY Zenon DEF TierInv, TierFlags
<1>5. ~foul => MoverFits(m)'
  BY <1>1 DEF MoverFits
<1>6. TierFits'
  BY <1>1, <1>5, MoverStep
<1> QED
  BY <1>3, <1>4, <1>6 DEF TierInv

LEMMA MigrateKeeps ==
    ASSUME T!TierAssumption, TierInv, NEW m \in Mover, NEW target \in Target, T!Migrate(m, target)
    PROVE  TierInv'
<1> DEFINE new == [phase |-> "locking", target |-> target]
<1>1. mover' = [mover EXCEPT ![m] = new]
  BY DEF T!Migrate
<1>2. UNCHANGED <<hot, warm, tier, lock, migrating, job, queued, landing, writes, foul, tFaults>>
  BY DEF T!Migrate, T!Fine
<1>3. new \in MoveRecord /\ mover \in [Mover -> MoveRecord]
  BY DEF MoveRecord, TierInv, TierTyped, T!TierAssumption
<1>4. /\ mover' \in [Mover -> MoveRecord] /\ mover'[m].phase = "locking"
      /\ \A n \in Mover \ {m} : mover'[n] = mover[n]
  BY <1>1, <1>3
<1>5. MoverFits(m)'
  BY <1>4 DEF MoverFits, Safe
<1>6. ~foul => Calm(m) /\ (hot' \/ warm')
  BY <1>2 DEF Calm, TierInv, TierFits
<1>7. TierFits'
  BY <1>2, <1>4, <1>5, <1>6, MoverStep
<1>8. TierTyped'
  BY <1>2, <1>4 DEF TierInv, TierTyped
<1>9. TierFlags'
  BY <1>2, Zenon DEF TierInv, TierFlags
<1> QED
  BY <1>7, <1>8, <1>9 DEF TierInv

\* What is known before a step of m.
LEMMA MoverBefore ==
    ASSUME T!TierAssumption, TierInv, NEW m \in Mover
    PROVE  /\ tier \in {"hot", "warm"} /\ hot \in BOOLEAN /\ warm \in BOOLEAN /\ migrating \in BOOLEAN
           /\ mover[m].target \in {"hot", "warm"}
           /\ ~foul => MoverFits(m) /\ (hot \/ warm)
<1>1. tier \in {"hot", "warm"} /\ mover[m].target \in {"hot", "warm"}
  BY DEF TierInv, TierTyped, MoveRecord
<1>2. hot \in BOOLEAN /\ warm \in BOOLEAN /\ migrating \in BOOLEAN
  BY Zenon DEF TierInv, TierFlags
<1>3. ~foul => MoverFits(m) /\ (hot \/ warm)
  BY DEF TierInv, TierFits
<1> QED
  BY <1>1, <1>2, <1>3, Zenon

LEMMA LockKeeps ==
    ASSUME T!TierAssumption, TierInv, NEW m \in Mover, T!Lock(m) PROVE TierInv'
<1>1. UNCHANGED <<hot, warm, tier, job, queued, landing, writes, foul, tFaults>>
  BY DEF T!Lock, T!Fine
<1>2. CASE lock = None /\ lock' = m /\ migrating' = TRUE /\ T!Goto(m, "looking")
  <2>1. migrating' \in BOOLEAN /\ hot' \in BOOLEAN /\ warm' \in BOOLEAN /\ tier' \in {"hot", "warm"}
    BY <1>1, <1>2, MoverBefore
  <2>2. ~foul => Calm(m) /\ (hot' \/ warm') /\ Safe(m, "looking")'
    BY <1>1, <1>2, MoverBefore DEF Calm, Safe
  <2> QED
    BY <1>1, <1>2, <2>1, <2>2, GoesOn DEF T!Fine
<1>3. CASE lock # None /\ T!Goto(m, "idle") /\ UNCHANGED <<lock, migrating>>
  <2>1. migrating' \in BOOLEAN /\ hot' \in BOOLEAN /\ warm' \in BOOLEAN /\ tier' \in {"hot", "warm"}
    BY <1>1, <1>3, MoverBefore
  <2>2. ~foul => Calm(m) /\ (hot' \/ warm') /\ Safe(m, "idle")'
    BY <1>1, <1>3, MoverBefore DEF Calm, Safe
  <2> QED
    BY <1>1, <1>3, <2>1, <2>2, GoesOn DEF T!Fine
<1> QED
  BY <1>2, <1>3 DEF T!Lock

LEMMA LookKeeps ==
    ASSUME T!TierAssumption, TierInv, NEW m \in Mover, T!Look(m) PROVE TierInv'
<1>1. /\ mover[m].phase = "looking" /\ (T!Fine \/ T!Fault)
      /\ UNCHANGED <<hot, warm, tier, lock, migrating, queued, landing, writes, job, foul>>
  BY DEF T!Look
<1>2. ~foul => lock = m /\ Calm(m)
  BY <1>1, MoverBefore DEF MoverFits, Safe, Calm
<1>3. CASE T!Moved(m) /\ T!Goto(m, "finishing")
  <2>1. hot' \in BOOLEAN /\ warm' \in BOOLEAN /\ migrating' \in BOOLEAN /\ tier' \in {"hot", "warm"}
    BY <1>1, <1>3, MoverBefore, Zenon
  <2>2. ~foul => (hot' \/ warm') /\ Safe(m, "finishing")'
    BY <1>1, <1>2, <1>3, MoverBefore DEF MoverFits, Safe
  <2>3. lock' \in {lock, m, None}
    BY <1>1, <1>3
  <2> QED
    BY <1>1, <1>2, <1>3, <2>1, <2>2, <2>3, GoesOn
<1>4. CASE ~T!Moved(m) /\ T!Goto(m, "reading")
  <2>1. hot' \in BOOLEAN /\ warm' \in BOOLEAN /\ migrating' \in BOOLEAN /\ tier' \in {"hot", "warm"}
    BY <1>1, <1>4, MoverBefore, Zenon
  <2>2. ~foul => (hot' \/ warm') /\ Safe(m, "reading")'
    BY <1>1, <1>2, <1>4, MoverBefore DEF MoverFits, Safe
  <2>3. lock' \in {lock, m, None}
    BY <1>1, <1>4
  <2> QED
    BY <1>1, <1>2, <1>4, <2>1, <2>2, <2>3, GoesOn
<1> QED
  BY <1>1, <1>3, <1>4 DEF T!Look, T!Goto

LEMMA ReadKeeps ==
    ASSUME T!TierAssumption, TierInv, NEW m \in Mover, T!Read(m) PROVE TierInv'
<1>1. /\ mover[m].phase = "reading" /\ (T!Fine \/ T!Fault)
      /\ UNCHANGED <<hot, warm, tier, lock, migrating, queued, landing, writes, job, foul>>
  BY DEF T!Read
<1>2. ~foul => lock = m /\ Calm(m)
  BY <1>1, MoverBefore DEF MoverFits, Safe, Calm
<1>3. CASE hot /\ T!Goto(m, "copying")
  <2>1. hot' \in BOOLEAN /\ warm' \in BOOLEAN /\ migrating' \in BOOLEAN /\ tier' \in {"hot", "warm"}
    BY <1>1, <1>3, MoverBefore, Zenon
  <2>2. ~foul => (hot' \/ warm') /\ Safe(m, "copying")'
    BY <1>1, <1>2, <1>3, MoverBefore DEF MoverFits, Safe
  <2>3. lock' \in {lock, m, None}
    BY <1>1, <1>3
  <2> QED
    BY <1>1, <1>2, <1>3, <2>1, <2>2, <2>3, GoesOn
<1>4. CASE ~hot /\ T!Goto(m, "finishing")
  <2>1. hot' \in BOOLEAN /\ warm' \in BOOLEAN /\ migrating' \in BOOLEAN /\ tier' \in {"hot", "warm"}
    BY <1>1, <1>4, MoverBefore, Zenon
  <2>2. ~foul => (hot' \/ warm') /\ Safe(m, "finishing")'
    BY <1>1, <1>2, <1>4, MoverBefore DEF MoverFits, Safe
  <2>3. lock' \in {lock, m, None}
    BY <1>1, <1>4
  <2> QED
    BY <1>1, <1>2, <1>4, <2>1, <2>2, <2>3, GoesOn
<1> QED
  BY <1>1, <1>3, <1>4 DEF T!Read, T!Goto

LEMMA CopyKeeps ==
    ASSUME T!TierAssumption, TierInv, NEW m \in Mover, T!Copy(m) PROVE TierInv'
<1>1. /\ mover[m].phase = "copying" /\ (T!Fine \/ T!Fault)
      /\ UNCHANGED <<hot, tier, lock, migrating, queued, landing, writes, job, foul>>
  BY DEF T!Copy
<1>2. ~foul => lock = m /\ Calm(m)
  BY <1>1, MoverBefore DEF MoverFits, Safe, Calm
<1>3. CASE warm' = TRUE /\ T!Goto(m, "verifying")
  <2>1. hot' \in BOOLEAN /\ warm' \in BOOLEAN /\ migrating' \in BOOLEAN /\ tier' \in {"hot", "warm"}
    BY <1>1, <1>3, MoverBefore, Zenon
  <2>2. ~foul => (hot' \/ warm') /\ Safe(m, "verifying")'
    BY <1>1, <1>2, <1>3, MoverBefore DEF MoverFits, Safe
  <2>3. lock' \in {lock, m, None}
    BY <1>1, <1>3
  <2> QED
    BY <1>1, <1>2, <1>3, <2>1, <2>2, <2>3, GoesOn
<1>4. CASE warm' = TRUE /\ T!Goto(m, "moving")
  <2>1. hot' \in BOOLEAN /\ warm' \in BOOLEAN /\ migrating' \in BOOLEAN /\ tier' \in {"hot", "warm"}
    BY <1>1, <1>4, MoverBefore, Zenon
  <2>2. ~foul => (hot' \/ warm') /\ Safe(m, "moving")'
    BY <1>1, <1>2, <1>4, MoverBefore DEF MoverFits, Safe
  <2>3. lock' \in {lock, m, None}
    BY <1>1, <1>4
  <2> QED
    BY <1>1, <1>2, <1>4, <2>1, <2>2, <2>3, GoesOn
<1>5. CASE warm' \in {warm, TRUE} /\ T!Goto(m, "undoing")
  <2>1. hot' \in BOOLEAN /\ warm' \in BOOLEAN /\ migrating' \in BOOLEAN /\ tier' \in {"hot", "warm"}
    BY <1>1, <1>5, MoverBefore, Zenon
  <2>2. ~foul => (hot' \/ warm') /\ Safe(m, "undoing")'
    BY <1>1, <1>2, <1>5, MoverBefore DEF MoverFits, Safe
  <2>3. lock' \in {lock, m, None}
    BY <1>1, <1>5
  <2> QED
    BY <1>1, <1>2, <1>5, <2>1, <2>2, <2>3, GoesOn
<1> QED
  BY <1>1, <1>3, <1>4, <1>5 DEF T!Copy, T!Goto, T!CopyFailed

LEMMA CheckKeeps ==
    ASSUME T!TierAssumption, TierInv, NEW m \in Mover, T!Check(m) PROVE TierInv'
<1>1. /\ mover[m].phase = "verifying" /\ (T!Fine \/ T!Fault)
      /\ UNCHANGED <<hot, warm, tier, lock, migrating, queued, landing, writes, job, foul>>
  BY DEF T!Check
<1>2. ~foul => lock = m /\ Calm(m)
  BY <1>1, MoverBefore DEF MoverFits, Safe, Calm
<1>3. CASE T!Fine /\ T!Goto(m, "moving")
  <2>1. hot' \in BOOLEAN /\ warm' \in BOOLEAN /\ migrating' \in BOOLEAN /\ tier' \in {"hot", "warm"}
    BY <1>1, <1>3, MoverBefore, Zenon
  <2>2. ~foul => (hot' \/ warm') /\ Safe(m, "moving")'
    BY <1>1, <1>2, <1>3, MoverBefore DEF MoverFits, Safe
  <2>3. lock' \in {lock, m, None}
    BY <1>1, <1>3
  <2> QED
    BY <1>1, <1>2, <1>3, <2>1, <2>2, <2>3, GoesOn
<1>4. CASE warm /\ T!Goto(m, "undoing")
  <2>1. hot' \in BOOLEAN /\ warm' \in BOOLEAN /\ migrating' \in BOOLEAN /\ tier' \in {"hot", "warm"}
    BY <1>1, <1>4, MoverBefore, Zenon
  <2>2. ~foul => (hot' \/ warm') /\ Safe(m, "undoing")'
    BY <1>1, <1>2, <1>4, MoverBefore DEF MoverFits, Safe
  <2>3. lock' \in {lock, m, None}
    BY <1>1, <1>4
  <2> QED
    BY <1>1, <1>2, <1>4, <2>1, <2>2, <2>3, GoesOn
<1> QED
  BY <1>1, <1>3, <1>4 DEF T!Check, T!Goto

LEMMA UndoMoveKeeps ==
    ASSUME T!TierAssumption, TierInv, NEW m \in Mover, T!Undo(m) PROVE TierInv'
<1>1. /\ mover[m].phase = "undoing" /\ (T!Fine \/ T!Fault)
      /\ UNCHANGED <<hot, tier, lock, migrating, queued, landing, writes, job, foul>>
  BY DEF T!Undo
<1>2. ~foul => lock = m /\ Calm(m)
  BY <1>1, MoverBefore DEF MoverFits, Safe, Calm
<1>3. CASE warm' \in {FALSE, warm} /\ T!Goto(m, "finishing")
  <2>1. hot' \in BOOLEAN /\ warm' \in BOOLEAN /\ migrating' \in BOOLEAN /\ tier' \in {"hot", "warm"}
    BY <1>1, <1>3, MoverBefore, Zenon
  <2>2. ~foul => (hot' \/ warm') /\ Safe(m, "finishing")'
    BY <1>1, <1>2, <1>3, MoverBefore DEF MoverFits, Safe
  <2>3. lock' \in {lock, m, None}
    BY <1>1, <1>3
  <2> QED
    BY <1>1, <1>2, <1>3, <2>1, <2>2, <2>3, GoesOn
<1> QED
  BY <1>1, <1>3 DEF T!Undo, T!Goto

LEMMA MoveKeeps ==
    ASSUME T!TierAssumption, TierInv, NEW m \in Mover, T!Move(m) PROVE TierInv'
<1>1. /\ mover[m].phase = "moving" /\ (T!Fine \/ T!Fault)
      /\ UNCHANGED <<hot, warm, lock, migrating, queued, landing, writes, job, foul>>
  BY DEF T!Move
<1>2. ~foul => lock = m /\ Calm(m)
  BY <1>1, MoverBefore DEF MoverFits, Safe, Calm
<1>3. CASE tier' = mover[m].target /\ T!Goto(m, "deleting")
  <2>1. hot' \in BOOLEAN /\ warm' \in BOOLEAN /\ migrating' \in BOOLEAN /\ tier' \in {"hot", "warm"}
    BY <1>1, <1>3, MoverBefore, Zenon
  <2>2. ~foul => (hot' \/ warm') /\ Safe(m, "deleting")'
    BY <1>1, <1>2, <1>3, MoverBefore DEF MoverFits, Safe
  <2>3. lock' \in {lock, m, None}
    BY <1>1, <1>3
  <2> QED
    BY <1>1, <1>2, <1>3, <2>1, <2>2, <2>3, GoesOn
<1>4. CASE UNCHANGED tier /\ T!Goto(m, "undoing")
  <2>1. hot' \in BOOLEAN /\ warm' \in BOOLEAN /\ migrating' \in BOOLEAN /\ tier' \in {"hot", "warm"}
    BY <1>1, <1>4, MoverBefore, Zenon
  <2>2. ~foul => (hot' \/ warm') /\ Safe(m, "undoing")'
    BY <1>1, <1>2, <1>4, MoverBefore DEF MoverFits, Safe
  <2>3. lock' \in {lock, m, None}
    BY <1>1, <1>4
  <2> QED
    BY <1>1, <1>2, <1>4, <2>1, <2>2, <2>3, GoesOn
<1> QED
  BY <1>1, <1>3, <1>4 DEF T!Move, T!Goto

LEMMA RemoveKeeps ==
    ASSUME T!TierAssumption, TierInv, NEW m \in Mover, T!Remove(m) PROVE TierInv'
<1>1. /\ mover[m].phase = "deleting" /\ (T!Fine \/ T!Fault)
      /\ UNCHANGED <<warm, tier, lock, migrating, queued, landing, writes, job, foul>>
  BY DEF T!Remove
<1>2. ~foul => lock = m /\ Calm(m)
  BY <1>1, MoverBefore DEF MoverFits, Safe, Calm
<1>3. CASE hot' \in {FALSE, hot} /\ T!Goto(m, "finishing")
  <2>1. hot' \in BOOLEAN /\ warm' \in BOOLEAN /\ migrating' \in BOOLEAN /\ tier' \in {"hot", "warm"}
    BY <1>1, <1>3, MoverBefore, Zenon
  <2>2. ~foul => (hot' \/ warm') /\ Safe(m, "finishing")'
    BY <1>1, <1>2, <1>3, MoverBefore DEF MoverFits, Safe
  <2>3. lock' \in {lock, m, None}
    BY <1>1, <1>3
  <2> QED
    BY <1>1, <1>2, <1>3, <2>1, <2>2, <2>3, GoesOn
<1> QED
  BY <1>1, <1>3 DEF T!Remove, T!Goto

LEMMA FinishKeeps ==
    ASSUME T!TierAssumption, TierInv, NEW m \in Mover, T!Finish(m) PROVE TierInv'
<1>1. /\ mover[m].phase = "finishing" /\ (T!Fine \/ T!Fault)
      /\ UNCHANGED <<hot, warm, tier, lock, queued, landing, writes, job, foul>>
  BY DEF T!Finish
<1>2. ~foul => lock = m /\ Calm(m)
  BY <1>1, MoverBefore DEF MoverFits, Safe, Calm
<1>3. CASE migrating' = FALSE /\ T!Goto(m, "unlocking")
  <2>1. hot' \in BOOLEAN /\ warm' \in BOOLEAN /\ migrating' \in BOOLEAN /\ tier' \in {"hot", "warm"}
    BY <1>1, <1>3, MoverBefore, Zenon
  <2>2. ~foul => (hot' \/ warm') /\ Safe(m, "unlocking")'
    BY <1>1, <1>2, <1>3, MoverBefore DEF MoverFits, Safe
  <2>3. lock' \in {lock, m, None}
    BY <1>1, <1>3
  <2> QED
    BY <1>1, <1>2, <1>3, <2>1, <2>2, <2>3, GoesOn
<1> QED
  BY <1>1, <1>3 DEF T!Finish, T!Goto

LEMMA UnlockKeeps ==
    ASSUME T!TierAssumption, TierInv, NEW m \in Mover, T!Unlock(m) PROVE TierInv'
<1>1. /\ mover[m].phase = "unlocking" /\ (T!Fine \/ T!Fault)
      /\ UNCHANGED <<hot, warm, tier, migrating, queued, landing, writes, job, foul>>
  BY DEF T!Unlock
<1>2. ~foul => lock = m /\ Calm(m)
  BY <1>1, MoverBefore DEF MoverFits, Safe, Calm
<1>3. CASE lock' = None /\ T!Goto(m, "idle")
  <2>1. hot' \in BOOLEAN /\ warm' \in BOOLEAN /\ migrating' \in BOOLEAN /\ tier' \in {"hot", "warm"}
    BY <1>1, <1>3, MoverBefore, Zenon
  <2>2. ~foul => (hot' \/ warm') /\ Safe(m, "idle")'
    BY <1>1, <1>2, <1>3, MoverBefore DEF MoverFits, Safe
  <2>3. lock' \in {lock, m, None}
    BY <1>1, <1>3
  <2> QED
    BY <1>1, <1>2, <1>3, <2>1, <2>2, <2>3, GoesOn
<1> QED
  BY <1>1, <1>3 DEF T!Unlock, T!Goto
-----------------------------------------------------------------------------
LEMMA JobBefore ==
    ASSUME T!TierAssumption, TierInv, NEW j \in Job
    PROVE  /\ tier \in {"hot", "warm"} /\ hot \in BOOLEAN /\ warm \in BOOLEAN /\ migrating \in BOOLEAN
           /\ foul \in BOOLEAN /\ job[j] \in JobRecord /\ job \in [Job -> JobRecord]
           /\ lock \in Mover \cup Job \cup {None} /\ queued \in Nat /\ landing \in Nat /\ writes \in Nat
           /\ ~foul => JobFits(j) /\ (hot \/ warm)
<1>1. /\ tier \in {"hot", "warm"} /\ job \in [Job -> JobRecord] /\ job[j] \in JobRecord
      /\ lock \in Mover \cup Job \cup {None} /\ queued \in Nat /\ landing \in Nat /\ writes \in Nat
  BY DEF TierInv, TierTyped
<1>2. hot \in BOOLEAN /\ warm \in BOOLEAN /\ migrating \in BOOLEAN /\ foul \in BOOLEAN
  BY Zenon DEF TierInv, TierFlags
<1>3. ~foul => JobFits(j) /\ (hot \/ warm)
  BY DEF TierInv, TierFits
<1> QED
  BY <1>1, <1>2, <1>3, Zenon

LEMMA JobGoesOn ==
    ASSUME T!TierAssumption, TierInv, NEW j \in Job, NEW new \in JobRecord,
           job' = [job EXCEPT ![j] = new], T!Fine \/ T!Fault, UNCHANGED <<mover, landing, writes>>,
           lock' \in {lock, j, None}, tier' \in {"hot", "warm"}, queued' \in Nat,
           hot' \in BOOLEAN, warm' \in BOOLEAN, migrating' \in BOOLEAN, foul' \in BOOLEAN, foul => foul',
           ~foul /\ ~foul' => Calm(j) /\ (hot' \/ warm') /\ JobFits(j)'
    PROVE  TierInv'
<1>1. job' \in [Job -> JobRecord] /\ (\A k \in Job \ {j} : job'[k] = job[k])
  BY JobBefore
<1>2. lock' \in Mover \cup Job \cup {None}
  BY JobBefore
<1>3. TierTyped'
  BY <1>1, <1>2, FaultsCount DEF TierInv, TierTyped
<1>4. TierFlags'
  BY Zenon DEF TierFlags
<1>5. TierFits'
  BY <1>1, JobStep
<1> QED
  BY <1>3, <1>4, <1>5 DEF TierInv

LEMMA StartKeeps ==
    ASSUME T!TierAssumption, TierInv, NEW j \in Job, NEW target \in Target, T!StartJob(j, target)
    PROVE  TierInv'
<1>1. PICK new : new = [T!NewJob EXCEPT !.phase = IF hot THEN "copying" ELSE "open",
                                        !.target = target, !.locked = (lock = None), !.found = hot]
  OBVIOUS
<1>2. /\ job' = [job EXCEPT ![j] = new] /\ lock' = (IF lock = None THEN j ELSE lock) /\ T!Fine
      /\ UNCHANGED <<hot, warm, tier, mover, queued, landing, writes, foul>> /\ migrating' = TRUE
  BY <1>1 DEF T!StartJob
<1>3. /\ new.phase = (IF hot THEN "copying" ELSE "open") /\ new.locked = (lock = None) /\ new.found = hot
      /\ new.complete = "no" /\ new.undo = "no" /\ new.target = target
      /\ new = [ target |-> target, locked |-> (lock = None), found |-> hot,
                 phase |-> IF hot THEN "copying" ELSE "open", complete |-> "no", undo |-> "no" ]
  BY <1>1 DEF T!NewJob
<1>4. (lock = None) \in BOOLEAN /\ hot \in BOOLEAN /\ target \in {"hot", "warm"}
  BY JobBefore DEF T!TierAssumption
<1>5. new \in JobRecord
  BY <1>3, <1>4 DEF JobRecord
<1>6. job'[j] = new
  BY <1>2, JobBefore
<1>7. ~foul => Calm(j) /\ (hot' \/ warm')
  BY <1>2, JobBefore DEF Calm
<1>8. ~foul => JobFits(j)'
  BY <1>2, <1>3, <1>6, JobBefore DEF JobFits, Holds
<1>9. hot' \in BOOLEAN /\ warm' \in BOOLEAN /\ migrating' \in BOOLEAN /\ foul' \in BOOLEAN /\ queued' \in Nat
      /\ tier' \in {"hot", "warm"} /\ (foul => foul')
  BY <1>2, JobBefore, Zenon
<1>10. lock' \in {lock, j, None}
  BY <1>2
<1> QED
  BY <1>2, <1>5, <1>7, <1>8, <1>9, <1>10, JobGoesOn

\* A job that goes on, in one of its fields.
Field(j, new) == /\ job' = [job EXCEPT ![j] = new] /\ job'[j] = new
                 /\ new.locked = job[j].locked /\ new.found = job[j].found

LEMMA PhaseGoes ==
    ASSUME T!TierAssumption, TierInv, NEW j \in Job, NEW to \in {"idle", "copying", "open", "failed"},
           job' = [job EXCEPT ![j].phase = to]
    PROVE  \E new \in JobRecord : /\ Field(j, new) /\ new.phase = to
                                  /\ new.complete = job[j].complete /\ new.undo = job[j].undo
<1>1. PICK new : new = [job[j] EXCEPT !.phase = to]
  OBVIOUS
<1>2. job' = [job EXCEPT ![j] = new] /\ job[j] \in JobRecord /\ job \in [Job -> JobRecord]
  BY <1>1, JobBefore
<1>3. /\ new \in JobRecord /\ new.phase = to /\ new.complete = job[j].complete /\ new.undo = job[j].undo
      /\ new.locked = job[j].locked /\ new.found = job[j].found
  BY <1>1, <1>2 DEF JobRecord
<1> QED
  BY <1>2, <1>3 DEF Field

LEMMA CompleteGoes ==
    ASSUME T!TierAssumption, TierInv, NEW j \in Job,
           NEW to \in {"no", "moving", "deleting", "unlocking", "closing", "replaying", "done", "failed"},
           job' = [job EXCEPT ![j].complete = to]
    PROVE  \E new \in JobRecord : /\ Field(j, new) /\ new.complete = to
                                  /\ new.phase = job[j].phase /\ new.undo = job[j].undo
<1>1. PICK new : new = [job[j] EXCEPT !.complete = to]
  OBVIOUS
<1>2. job' = [job EXCEPT ![j] = new] /\ job[j] \in JobRecord /\ job \in [Job -> JobRecord]
  BY <1>1, JobBefore
<1>3. /\ new \in JobRecord /\ new.complete = to /\ new.phase = job[j].phase /\ new.undo = job[j].undo
      /\ new.locked = job[j].locked /\ new.found = job[j].found
  BY <1>1, <1>2 DEF JobRecord
<1> QED
  BY <1>2, <1>3 DEF Field

LEMMA UndoGoes ==
    ASSUME T!TierAssumption, TierInv, NEW j \in Job,
           NEW to \in {"no", "deleting", "unlocking", "closing", "done", "failed"},
           job' = [job EXCEPT ![j].undo = to]
    PROVE  \E new \in JobRecord : /\ Field(j, new) /\ new.undo = to
                                  /\ new.phase = job[j].phase /\ new.complete = job[j].complete
<1>1. PICK new : new = [job[j] EXCEPT !.undo = to]
  OBVIOUS
<1>2. job' = [job EXCEPT ![j] = new] /\ job[j] \in JobRecord /\ job \in [Job -> JobRecord]
  BY <1>1, JobBefore
<1>3. /\ new \in JobRecord /\ new.undo = to /\ new.phase = job[j].phase /\ new.complete = job[j].complete
      /\ new.locked = job[j].locked /\ new.found = job[j].found
  BY <1>1, <1>2 DEF JobRecord
<1> QED
  BY <1>2, <1>3 DEF Field

LEMMA FieldKeeps ==
    ASSUME T!TierAssumption, TierInv, NEW j \in Job, NEW new \in JobRecord, Field(j, new),
           T!Fine \/ T!Fault, UNCHANGED <<mover, landing, writes>>,
           lock' \in {lock, j, None}, tier' \in {"hot", "warm"}, queued' \in Nat,
           hot' \in BOOLEAN, warm' \in BOOLEAN, migrating' \in BOOLEAN, foul' \in BOOLEAN, foul => foul',
           ~foul /\ ~foul' => Calm(j) /\ (hot' \/ warm') /\ JobFits(j)'
    PROVE  TierInv'
BY JobGoesOn DEF Field

LEMMA CopyJobKeeps ==
    ASSUME T!TierAssumption, TierInv, NEW j \in Job, T!CopyJob(j) PROVE TierInv'
<1>1. /\ job[j].phase = "copying" /\ (T!Fine \/ T!Fault)
      /\ UNCHANGED <<hot, tier, lock, migrating, mover, queued, foul, landing, writes>>
  BY DEF T!CopyJob
<1>2. foul' \in BOOLEAN /\ (foul => foul')
  BY <1>1, JobBefore, Zenon
<1>3. CASE /\ warm' = TRUE
          /\ job' = [job EXCEPT ![j].phase = "open"]
  <2>1. PICK new \in JobRecord : /\ Field(j, new) /\ new.phase = "open"
                                 /\ new.complete = job[j].complete /\ new.undo = job[j].undo
    BY <1>3, PhaseGoes
  <2>2. /\ hot' \in BOOLEAN /\ warm' \in BOOLEAN /\ migrating' \in BOOLEAN
        /\ tier' \in {"hot", "warm"} /\ queued' \in Nat
    BY <1>1, <1>3, JobBefore, Zenon DEF JobRecord
  <2>3. lock' \in {lock, j, None}
    BY <1>1, <1>3
  <2>4. ~foul /\ ~foul' => Calm(j) /\ (hot' \/ warm')
    BY <1>1, <1>2, <1>3, JobBefore DEF JobFits, Holds, Calm
  <2>5. ~foul /\ ~foul' => JobFits(j)'
    BY <1>1, <1>2, <1>3, <2>1, <2>4, JobBefore DEF Field, JobFits, Holds
  <2> QED
    BY <1>1, <1>2, <2>1, <2>2, <2>3, <2>4, <2>5, FieldKeeps
<1>4. CASE /\ warm' = TRUE \/ UNCHANGED warm
          /\ job' = [job EXCEPT ![j].phase = "failed"]
  <2>1. PICK new \in JobRecord : /\ Field(j, new) /\ new.phase = "failed"
                                 /\ new.complete = job[j].complete /\ new.undo = job[j].undo
    BY <1>4, PhaseGoes
  <2>2. /\ hot' \in BOOLEAN /\ warm' \in BOOLEAN /\ migrating' \in BOOLEAN
        /\ tier' \in {"hot", "warm"} /\ queued' \in Nat
    BY <1>1, <1>4, JobBefore, Zenon DEF JobRecord
  <2>3. lock' \in {lock, j, None}
    BY <1>1, <1>4
  <2>4. ~foul /\ ~foul' => Calm(j) /\ (hot' \/ warm')
    BY <1>1, <1>2, <1>4, JobBefore DEF JobFits, Holds, Calm
  <2>5. ~foul /\ ~foul' => JobFits(j)'
    BY <1>1, <1>2, <1>4, <2>1, <2>4, JobBefore DEF Field, JobFits, Holds
  <2> QED
    BY <1>1, <1>2, <2>1, <2>2, <2>3, <2>4, <2>5, FieldKeeps
<1> QED
  BY <1>1, <1>3, <1>4 DEF T!CopyJob

LEMMA CompleteKeeps ==
    ASSUME T!TierAssumption, TierInv, NEW j \in Job, T!Complete(j) PROVE TierInv'
<1>1. /\ job[j].phase = "open" /\ job[j].complete = "no" /\ (T!Fine \/ T!Fault)
      /\ UNCHANGED <<hot, warm, tier, lock, migrating, mover, queued, landing, writes>>
  BY DEF T!Complete
<1>2. /\ foul' = (foul \/ ~job[j].locked \/ job[j].complete # "no" \/ job[j].undo # "no")
      /\ foul \in BOOLEAN
  BY JobBefore DEF T!Complete, T!Settle
<1>3. foul' \in BOOLEAN /\ (foul => foul')
  BY <1>2, Zenon
<1>4. CASE /\ UNCHANGED warm
          /\ job' = [job EXCEPT ![j].complete = "moving"]
  <2>1. PICK new \in JobRecord : /\ Field(j, new) /\ new.complete = "moving"
                                 /\ new.phase = job[j].phase /\ new.undo = job[j].undo
    BY <1>4, CompleteGoes
  <2>2. /\ hot' \in BOOLEAN /\ warm' \in BOOLEAN /\ migrating' \in BOOLEAN
        /\ tier' \in {"hot", "warm"} /\ queued' \in Nat
    BY <1>1, <1>4, JobBefore, Zenon DEF JobRecord
  <2>3. lock' \in {lock, j, None}
    BY <1>1, <1>4
  <2>4. ~foul /\ ~foul' => Calm(j) /\ (hot' \/ warm')
    BY <1>1, <1>2, <1>3, <1>4, JobBefore DEF JobFits, Holds, Calm
  <2>5. ~foul /\ ~foul' => JobFits(j)'
    BY <1>1, <1>2, <1>3, <1>4, <2>1, <2>4, JobBefore DEF Field, JobFits, Holds
  <2> QED
    BY <1>1, <1>2, <1>3, <2>1, <2>2, <2>3, <2>4, <2>5, FieldKeeps
<1> QED
  BY <1>1, <1>4 DEF T!Complete

LEMMA CompleteMoveKeeps ==
    ASSUME T!TierAssumption, TierInv, NEW j \in Job, T!CompleteMove(j) PROVE TierInv'
<1>1. /\ job[j].complete = "moving" /\ (T!Fine \/ T!Fault)
      /\ UNCHANGED <<hot, warm, lock, migrating, mover, queued, foul, landing, writes>>
  BY DEF T!CompleteMove
<1>2. foul' \in BOOLEAN /\ (foul => foul')
  BY <1>1, JobBefore, Zenon
<1>3. CASE /\ tier' = job[j].target
          /\ job' = [job EXCEPT ![j].complete = "deleting"]
  <2>1. PICK new \in JobRecord : /\ Field(j, new) /\ new.complete = "deleting"
                                 /\ new.phase = job[j].phase /\ new.undo = job[j].undo
    BY <1>3, CompleteGoes
  <2>2. /\ hot' \in BOOLEAN /\ warm' \in BOOLEAN /\ migrating' \in BOOLEAN
        /\ tier' \in {"hot", "warm"} /\ queued' \in Nat
    BY <1>1, <1>3, JobBefore, Zenon DEF JobRecord
  <2>3. lock' \in {lock, j, None}
    BY <1>1, <1>3
  <2>4. ~foul /\ ~foul' => Calm(j) /\ (hot' \/ warm')
    BY <1>1, <1>2, <1>3, JobBefore DEF JobFits, Holds, Calm
  <2>5. ~foul /\ ~foul' => JobFits(j)'
    BY <1>1, <1>2, <1>3, <2>1, <2>4, JobBefore DEF Field, JobFits, Holds
  <2> QED
    BY <1>1, <1>2, <2>1, <2>2, <2>3, <2>4, <2>5, FieldKeeps
<1>4. CASE /\ UNCHANGED tier
          /\ job' = [job EXCEPT ![j].complete = "failed"]
  <2>1. PICK new \in JobRecord : /\ Field(j, new) /\ new.complete = "failed"
                                 /\ new.phase = job[j].phase /\ new.undo = job[j].undo
    BY <1>4, CompleteGoes
  <2>2. /\ hot' \in BOOLEAN /\ warm' \in BOOLEAN /\ migrating' \in BOOLEAN
        /\ tier' \in {"hot", "warm"} /\ queued' \in Nat
    BY <1>1, <1>4, JobBefore, Zenon DEF JobRecord
  <2>3. lock' \in {lock, j, None}
    BY <1>1, <1>4
  <2>4. ~foul /\ ~foul' => Calm(j) /\ (hot' \/ warm')
    BY <1>1, <1>2, <1>4, JobBefore DEF JobFits, Holds, Calm
  <2>5. ~foul /\ ~foul' => JobFits(j)'
    BY <1>1, <1>2, <1>4, <2>1, <2>4, JobBefore DEF Field, JobFits, Holds
  <2> QED
    BY <1>1, <1>2, <2>1, <2>2, <2>3, <2>4, <2>5, FieldKeeps
<1> QED
  BY <1>1, <1>3, <1>4 DEF T!CompleteMove

LEMMA CompleteDeleteKeeps ==
    ASSUME T!TierAssumption, TierInv, NEW j \in Job, T!CompleteDelete(j) PROVE TierInv'
<1>1. /\ job[j].complete = "deleting" /\ (T!Fine \/ T!Fault)
      /\ UNCHANGED <<warm, tier, lock, migrating, mover, queued, foul, landing, writes>>
  BY DEF T!CompleteDelete
<1>2. foul' \in BOOLEAN /\ (foul => foul')
  BY <1>1, JobBefore, Zenon
<1>3. CASE /\ hot' = FALSE
          /\ job' = [job EXCEPT ![j].complete = "unlocking"]
  <2>1. PICK new \in JobRecord : /\ Field(j, new) /\ new.complete = "unlocking"
                                 /\ new.phase = job[j].phase /\ new.undo = job[j].undo
    BY <1>3, CompleteGoes
  <2>2. /\ hot' \in BOOLEAN /\ warm' \in BOOLEAN /\ migrating' \in BOOLEAN
        /\ tier' \in {"hot", "warm"} /\ queued' \in Nat
    BY <1>1, <1>3, JobBefore, Zenon DEF JobRecord
  <2>3. lock' \in {lock, j, None}
    BY <1>1, <1>3
  <2>4. ~foul /\ ~foul' => Calm(j) /\ (hot' \/ warm')
    BY <1>1, <1>2, <1>3, JobBefore DEF JobFits, Holds, Calm
  <2>5. ~foul /\ ~foul' => JobFits(j)'
    BY <1>1, <1>2, <1>3, <2>1, <2>4, JobBefore DEF Field, JobFits, Holds
  <2> QED
    BY <1>1, <1>2, <2>1, <2>2, <2>3, <2>4, <2>5, FieldKeeps
<1>4. CASE /\ UNCHANGED hot
          /\ job' = [job EXCEPT ![j].complete = "failed"]
  <2>1. PICK new \in JobRecord : /\ Field(j, new) /\ new.complete = "failed"
                                 /\ new.phase = job[j].phase /\ new.undo = job[j].undo
    BY <1>4, CompleteGoes
  <2>2. /\ hot' \in BOOLEAN /\ warm' \in BOOLEAN /\ migrating' \in BOOLEAN
        /\ tier' \in {"hot", "warm"} /\ queued' \in Nat
    BY <1>1, <1>4, JobBefore, Zenon DEF JobRecord
  <2>3. lock' \in {lock, j, None}
    BY <1>1, <1>4
  <2>4. ~foul /\ ~foul' => Calm(j) /\ (hot' \/ warm')
    BY <1>1, <1>2, <1>4, JobBefore DEF JobFits, Holds, Calm
  <2>5. ~foul /\ ~foul' => JobFits(j)'
    BY <1>1, <1>2, <1>4, <2>1, <2>4, JobBefore DEF Field, JobFits, Holds
  <2> QED
    BY <1>1, <1>2, <2>1, <2>2, <2>3, <2>4, <2>5, FieldKeeps
<1> QED
  BY <1>1, <1>3, <1>4 DEF T!CompleteDelete

LEMMA CompleteUnlockKeeps ==
    ASSUME T!TierAssumption, TierInv, NEW j \in Job, T!CompleteUnlock(j) PROVE TierInv'
<1>1. /\ job[j].complete = "unlocking" /\ (T!Fine \/ T!Fault)
      /\ UNCHANGED <<hot, warm, tier, migrating, mover, queued, foul, landing, writes>>
  BY DEF T!CompleteUnlock
<1>2. foul' \in BOOLEAN /\ (foul => foul')
  BY <1>1, JobBefore, Zenon
<1>3. CASE /\ lock' = (IF job[j].locked THEN None ELSE lock)
          /\ job' = [job EXCEPT ![j].complete = "closing"]
  <2>1. PICK new \in JobRecord : /\ Field(j, new) /\ new.complete = "closing"
                                 /\ new.phase = job[j].phase /\ new.undo = job[j].undo
    BY <1>3, CompleteGoes
  <2>2. /\ hot' \in BOOLEAN /\ warm' \in BOOLEAN /\ migrating' \in BOOLEAN
        /\ tier' \in {"hot", "warm"} /\ queued' \in Nat
    BY <1>1, <1>3, JobBefore, Zenon DEF JobRecord
  <2>3. lock' \in {lock, j, None}
    BY <1>1, <1>3
  <2>4. ~foul /\ ~foul' => Calm(j) /\ (hot' \/ warm')
    BY <1>1, <1>2, <1>3, JobBefore DEF JobFits, Holds, Calm
  <2>5. ~foul /\ ~foul' => JobFits(j)'
    BY <1>1, <1>2, <1>3, <2>1, <2>4, JobBefore DEF Field, JobFits, Holds
  <2> QED
    BY <1>1, <1>2, <2>1, <2>2, <2>3, <2>4, <2>5, FieldKeeps
<1> QED
  BY <1>1, <1>3 DEF T!CompleteUnlock

LEMMA CompleteCloseKeeps ==
    ASSUME T!TierAssumption, TierInv, NEW j \in Job, T!CompleteClose(j) PROVE TierInv'
<1>1. /\ job[j].complete = "closing" /\ (T!Fine \/ T!Fault)
      /\ UNCHANGED <<hot, warm, tier, lock, mover, queued, foul, landing, writes>>
  BY DEF T!CompleteClose
<1>2. foul' \in BOOLEAN /\ (foul => foul')
  BY <1>1, JobBefore, Zenon
<1>3. CASE /\ migrating' = FALSE
          /\ job' = [job EXCEPT ![j].complete = "replaying"]
  <2>1. PICK new \in JobRecord : /\ Field(j, new) /\ new.complete = "replaying"
                                 /\ new.phase = job[j].phase /\ new.undo = job[j].undo
    BY <1>3, CompleteGoes
  <2>2. /\ hot' \in BOOLEAN /\ warm' \in BOOLEAN /\ migrating' \in BOOLEAN
        /\ tier' \in {"hot", "warm"} /\ queued' \in Nat
    BY <1>1, <1>3, JobBefore, Zenon DEF JobRecord
  <2>3. lock' \in {lock, j, None}
    BY <1>1, <1>3
  <2>4. ~foul /\ ~foul' => Calm(j) /\ (hot' \/ warm')
    BY <1>1, <1>2, <1>3, JobBefore DEF JobFits, Holds, Calm
  <2>5. ~foul /\ ~foul' => JobFits(j)'
    BY <1>1, <1>2, <1>3, <2>1, <2>4, JobBefore DEF Field, JobFits, Holds
  <2> QED
    BY <1>1, <1>2, <2>1, <2>2, <2>3, <2>4, <2>5, FieldKeeps
<1>4. CASE /\ migrating' = FALSE
          /\ job' = [job EXCEPT ![j].complete = "done"]
  <2>1. PICK new \in JobRecord : /\ Field(j, new) /\ new.complete = "done"
                                 /\ new.phase = job[j].phase /\ new.undo = job[j].undo
    BY <1>4, CompleteGoes
  <2>2. /\ hot' \in BOOLEAN /\ warm' \in BOOLEAN /\ migrating' \in BOOLEAN
        /\ tier' \in {"hot", "warm"} /\ queued' \in Nat
    BY <1>1, <1>4, JobBefore, Zenon DEF JobRecord
  <2>3. lock' \in {lock, j, None}
    BY <1>1, <1>4
  <2>4. ~foul /\ ~foul' => Calm(j) /\ (hot' \/ warm')
    BY <1>1, <1>2, <1>4, JobBefore DEF JobFits, Holds, Calm
  <2>5. ~foul /\ ~foul' => JobFits(j)'
    BY <1>1, <1>2, <1>4, <2>1, <2>4, JobBefore DEF Field, JobFits, Holds
  <2> QED
    BY <1>1, <1>2, <2>1, <2>2, <2>3, <2>4, <2>5, FieldKeeps
<1> QED
  BY <1>1, <1>3, <1>4 DEF T!CompleteClose

LEMMA CompleteReplayKeeps ==
    ASSUME T!TierAssumption, TierInv, NEW j \in Job, T!CompleteReplay(j) PROVE TierInv'
<1>1. /\ job[j].complete = "replaying" /\ (T!Fine \/ T!Fault)
      /\ UNCHANGED <<hot, tier, lock, migrating, mover, foul, landing, writes>>
  BY DEF T!CompleteReplay
<1>2. foul' \in BOOLEAN /\ (foul => foul')
  BY <1>1, JobBefore, Zenon
<1>3. CASE /\ warm' = TRUE /\ queued' = 0
          /\ job' = [job EXCEPT ![j].complete = "done"]
  <2>1. PICK new \in JobRecord : /\ Field(j, new) /\ new.complete = "done"
                                 /\ new.phase = job[j].phase /\ new.undo = job[j].undo
    BY <1>3, CompleteGoes
  <2>2. /\ hot' \in BOOLEAN /\ warm' \in BOOLEAN /\ migrating' \in BOOLEAN
        /\ tier' \in {"hot", "warm"} /\ queued' \in Nat
    BY <1>1, <1>3, JobBefore, Zenon DEF JobRecord
  <2>3. lock' \in {lock, j, None}
    BY <1>1, <1>3
  <2>4. ~foul /\ ~foul' => Calm(j) /\ (hot' \/ warm')
    BY <1>1, <1>2, <1>3, JobBefore DEF JobFits, Holds, Calm
  <2>5. ~foul /\ ~foul' => JobFits(j)'
    BY <1>1, <1>2, <1>3, <2>1, <2>4, JobBefore DEF Field, JobFits, Holds
  <2> QED
    BY <1>1, <1>2, <2>1, <2>2, <2>3, <2>4, <2>5, FieldKeeps
<1>4. CASE /\ UNCHANGED <<warm, queued>>
          /\ job' = [job EXCEPT ![j].complete = "failed"]
  <2>1. PICK new \in JobRecord : /\ Field(j, new) /\ new.complete = "failed"
                                 /\ new.phase = job[j].phase /\ new.undo = job[j].undo
    BY <1>4, CompleteGoes
  <2>2. /\ hot' \in BOOLEAN /\ warm' \in BOOLEAN /\ migrating' \in BOOLEAN
        /\ tier' \in {"hot", "warm"} /\ queued' \in Nat
    BY <1>1, <1>4, JobBefore, Zenon DEF JobRecord
  <2>3. lock' \in {lock, j, None}
    BY <1>1, <1>4
  <2>4. ~foul /\ ~foul' => Calm(j) /\ (hot' \/ warm')
    BY <1>1, <1>2, <1>4, JobBefore DEF JobFits, Holds, Calm
  <2>5. ~foul /\ ~foul' => JobFits(j)'
    BY <1>1, <1>2, <1>4, <2>1, <2>4, JobBefore DEF Field, JobFits, Holds
  <2> QED
    BY <1>1, <1>2, <2>1, <2>2, <2>3, <2>4, <2>5, FieldKeeps
<1> QED
  BY <1>1, <1>3, <1>4 DEF T!CompleteReplay

LEMMA UndoJobKeeps ==
    ASSUME T!TierAssumption, TierInv, NEW j \in Job, T!UndoJob(j) PROVE TierInv'
<1>1. /\ job[j].phase # "idle" /\ job[j].undo = "no" /\ (T!Fine \/ T!Fault)
      /\ UNCHANGED <<hot, warm, tier, lock, migrating, mover, queued, landing, writes>>
  BY DEF T!UndoJob
<1>2. /\ foul' = (foul \/ ~job[j].locked \/ job[j].complete # "no" \/ job[j].undo # "no" \/ ~job[j].found)
      /\ foul \in BOOLEAN
  BY JobBefore DEF T!UndoJob, T!Settle
<1>3. foul' \in BOOLEAN /\ (foul => foul')
  BY <1>2, Zenon
<1>4. CASE /\ UNCHANGED warm
          /\ job' = [job EXCEPT ![j].undo = "deleting"]
  <2>1. PICK new \in JobRecord : /\ Field(j, new) /\ new.undo = "deleting"
                                 /\ new.phase = job[j].phase /\ new.complete = job[j].complete
    BY <1>4, UndoGoes
  <2>2. /\ hot' \in BOOLEAN /\ warm' \in BOOLEAN /\ migrating' \in BOOLEAN
        /\ tier' \in {"hot", "warm"} /\ queued' \in Nat
    BY <1>1, <1>4, JobBefore, Zenon DEF JobRecord
  <2>3. lock' \in {lock, j, None}
    BY <1>1, <1>4
  <2>4. ~foul /\ ~foul' => Calm(j) /\ (hot' \/ warm')
    BY <1>1, <1>2, <1>3, <1>4, JobBefore DEF JobFits, Holds, Calm
  <2>5. ~foul /\ ~foul' => JobFits(j)'
    BY <1>1, <1>2, <1>3, <1>4, <2>1, <2>4, JobBefore DEF Field, JobFits, Holds
  <2> QED
    BY <1>1, <1>2, <1>3, <2>1, <2>2, <2>3, <2>4, <2>5, FieldKeeps
<1> QED
  BY <1>1, <1>4 DEF T!UndoJob

LEMMA UndoDeleteKeeps ==
    ASSUME T!TierAssumption, TierInv, NEW j \in Job, T!UndoDelete(j) PROVE TierInv'
<1>1. /\ job[j].undo = "deleting" /\ (T!Fine \/ T!Fault)
      /\ UNCHANGED <<hot, tier, lock, migrating, mover, queued, foul, landing, writes>>
  BY DEF T!UndoDelete
<1>2. foul' \in BOOLEAN /\ (foul => foul')
  BY <1>1, JobBefore, Zenon
<1>3. CASE /\ warm' = FALSE
          /\ job' = [job EXCEPT ![j].undo = "unlocking"]
  <2>1. PICK new \in JobRecord : /\ Field(j, new) /\ new.undo = "unlocking"
                                 /\ new.phase = job[j].phase /\ new.complete = job[j].complete
    BY <1>3, UndoGoes
  <2>2. /\ hot' \in BOOLEAN /\ warm' \in BOOLEAN /\ migrating' \in BOOLEAN
        /\ tier' \in {"hot", "warm"} /\ queued' \in Nat
    BY <1>1, <1>3, JobBefore, Zenon DEF JobRecord
  <2>3. lock' \in {lock, j, None}
    BY <1>1, <1>3
  <2>4. ~foul /\ ~foul' => Calm(j) /\ (hot' \/ warm')
    BY <1>1, <1>2, <1>3, JobBefore DEF JobFits, Holds, Calm
  <2>5. ~foul /\ ~foul' => JobFits(j)'
    BY <1>1, <1>2, <1>3, <2>1, <2>4, JobBefore DEF Field, JobFits, Holds
  <2> QED
    BY <1>1, <1>2, <2>1, <2>2, <2>3, <2>4, <2>5, FieldKeeps
<1>4. CASE /\ UNCHANGED warm
          /\ job' = [job EXCEPT ![j].undo = "failed"]
  <2>1. PICK new \in JobRecord : /\ Field(j, new) /\ new.undo = "failed"
                                 /\ new.phase = job[j].phase /\ new.complete = job[j].complete
    BY <1>4, UndoGoes
  <2>2. /\ hot' \in BOOLEAN /\ warm' \in BOOLEAN /\ migrating' \in BOOLEAN
        /\ tier' \in {"hot", "warm"} /\ queued' \in Nat
    BY <1>1, <1>4, JobBefore, Zenon DEF JobRecord
  <2>3. lock' \in {lock, j, None}
    BY <1>1, <1>4
  <2>4. ~foul /\ ~foul' => Calm(j) /\ (hot' \/ warm')
    BY <1>1, <1>2, <1>4, JobBefore DEF JobFits, Holds, Calm
  <2>5. ~foul /\ ~foul' => JobFits(j)'
    BY <1>1, <1>2, <1>4, <2>1, <2>4, JobBefore DEF Field, JobFits, Holds
  <2> QED
    BY <1>1, <1>2, <2>1, <2>2, <2>3, <2>4, <2>5, FieldKeeps
<1> QED
  BY <1>1, <1>3, <1>4 DEF T!UndoDelete

LEMMA UndoUnlockKeeps ==
    ASSUME T!TierAssumption, TierInv, NEW j \in Job, T!UndoUnlock(j) PROVE TierInv'
<1>1. /\ job[j].undo = "unlocking" /\ (T!Fine \/ T!Fault)
      /\ UNCHANGED <<hot, warm, tier, migrating, mover, queued, foul, landing, writes>>
  BY DEF T!UndoUnlock
<1>2. foul' \in BOOLEAN /\ (foul => foul')
  BY <1>1, JobBefore, Zenon
<1>3. CASE /\ lock' = (IF job[j].locked THEN None ELSE lock)
          /\ job' = [job EXCEPT ![j].undo = "closing"]
  <2>1. PICK new \in JobRecord : /\ Field(j, new) /\ new.undo = "closing"
                                 /\ new.phase = job[j].phase /\ new.complete = job[j].complete
    BY <1>3, UndoGoes
  <2>2. /\ hot' \in BOOLEAN /\ warm' \in BOOLEAN /\ migrating' \in BOOLEAN
        /\ tier' \in {"hot", "warm"} /\ queued' \in Nat
    BY <1>1, <1>3, JobBefore, Zenon DEF JobRecord
  <2>3. lock' \in {lock, j, None}
    BY <1>1, <1>3
  <2>4. ~foul /\ ~foul' => Calm(j) /\ (hot' \/ warm')
    BY <1>1, <1>2, <1>3, JobBefore DEF JobFits, Holds, Calm
  <2>5. ~foul /\ ~foul' => JobFits(j)'
    BY <1>1, <1>2, <1>3, <2>1, <2>4, JobBefore DEF Field, JobFits, Holds
  <2> QED
    BY <1>1, <1>2, <2>1, <2>2, <2>3, <2>4, <2>5, FieldKeeps
<1> QED
  BY <1>1, <1>3 DEF T!UndoUnlock

LEMMA UndoCloseKeeps ==
    ASSUME T!TierAssumption, TierInv, NEW j \in Job, T!UndoClose(j) PROVE TierInv'
<1>1. /\ job[j].undo = "closing" /\ (T!Fine \/ T!Fault)
      /\ UNCHANGED <<hot, warm, tier, lock, mover, queued, foul, landing, writes>>
  BY DEF T!UndoClose
<1>2. foul' \in BOOLEAN /\ (foul => foul')
  BY <1>1, JobBefore, Zenon
<1>3. CASE /\ migrating' = FALSE
          /\ job' = [job EXCEPT ![j].undo = "done"]
  <2>1. PICK new \in JobRecord : /\ Field(j, new) /\ new.undo = "done"
                                 /\ new.phase = job[j].phase /\ new.complete = job[j].complete
    BY <1>3, UndoGoes
  <2>2. /\ hot' \in BOOLEAN /\ warm' \in BOOLEAN /\ migrating' \in BOOLEAN
        /\ tier' \in {"hot", "warm"} /\ queued' \in Nat
    BY <1>1, <1>3, JobBefore, Zenon DEF JobRecord
  <2>3. lock' \in {lock, j, None}
    BY <1>1, <1>3
  <2>4. ~foul /\ ~foul' => Calm(j) /\ (hot' \/ warm')
    BY <1>1, <1>2, <1>3, JobBefore DEF JobFits, Holds, Calm
  <2>5. ~foul /\ ~foul' => JobFits(j)'
    BY <1>1, <1>2, <1>3, <2>1, <2>4, JobBefore DEF Field, JobFits, Holds
  <2> QED
    BY <1>1, <1>2, <2>1, <2>2, <2>3, <2>4, <2>5, FieldKeeps
<1> QED
  BY <1>1, <1>3 DEF T!UndoClose

LEMMA WriteKeeps ==
    ASSUME T!TierAssumption, TierInv, T!Write \/ T!Land PROVE TierInv'
<1>1. /\ UNCHANGED <<warm, tier, lock, migrating, mover, job, foul, tFaults>>
      /\ hot' = TRUE \/ UNCHANGED hot
      /\ writes' \in Nat /\ queued' \in Nat /\ landing' \in Nat
  BY DEF T!Write, T!Land, T!Fine, TierInv, TierTyped
<1>2. TierTyped'
  BY <1>1 DEF TierInv, TierTyped
<1>3. TierFlags'
  BY <1>1, Zenon DEF TierInv, TierFlags
<1>4. TierFits'
  <2> SUFFICES ASSUME ~foul PROVE (hot \/ warm)' /\ (\A m \in Mover : MoverFits(m)') /\ \A j \in Job : JobFits(j)'
    BY <1>1 DEF TierFits
  <2>1. (hot \/ warm) /\ (\A m \in Mover : MoverFits(m)) /\ \A j \in Job : JobFits(j)
    BY DEF TierInv, TierFits
  <2>2. (hot => hot') /\ warm' = warm
    BY <1>1
  <2>3. ASSUME NEW m \in Mover PROVE MoverFits(m)'
    BY <1>1, <2>1, <2>2 DEF MoverFits, Safe
  <2>4. ASSUME NEW j \in Job PROVE JobFits(j)'
    BY <1>1, <2>1, <2>2 DEF JobFits, Holds
  <2> QED
    BY <2>1, <2>2, <2>3, <2>4
<1> QED
  BY <1>2, <1>3, <1>4 DEF TierInv

LEMMA TierInductive ==
    ASSUME T!TierAssumption PROVE TierInv /\ [T!Next]_tVars => TierInv'
<1> SUFFICES ASSUME TierInv, [T!Next]_tVars PROVE TierInv'
  OBVIOUS
<1>1. CASE T!Write \/ T!Land
  BY <1>1, WriteKeeps
<1>2. ASSUME NEW m \in Mover, \/ \E target \in Target : T!Migrate(m, target)
                              \/ T!Lock(m) \/ T!Look(m) \/ T!Read(m) \/ T!Copy(m) \/ T!Check(m)
                              \/ T!Undo(m) \/ T!Move(m) \/ T!Remove(m) \/ T!Finish(m) \/ T!Unlock(m)
      PROVE  TierInv'
  BY <1>2, MigrateKeeps, LockKeeps, LookKeeps, ReadKeeps, CopyKeeps, CheckKeeps, UndoMoveKeeps, MoveKeeps,
     RemoveKeeps, FinishKeeps, UnlockKeeps
<1>3. ASSUME NEW j \in Job, \/ \E target \in Target : T!StartJob(j, target)
                            \/ T!CopyJob(j) \/ T!Complete(j) \/ T!CompleteMove(j) \/ T!CompleteDelete(j)
                            \/ T!CompleteUnlock(j) \/ T!CompleteClose(j) \/ T!CompleteReplay(j)
                            \/ T!UndoJob(j) \/ T!UndoDelete(j) \/ T!UndoUnlock(j) \/ T!UndoClose(j)
      PROVE  TierInv'
  BY <1>3, StartKeeps, CopyJobKeeps, CompleteKeeps, CompleteMoveKeeps, CompleteDeleteKeeps, CompleteUnlockKeeps,
     CompleteCloseKeeps, CompleteReplayKeeps, UndoJobKeeps, UndoDeleteKeeps, UndoUnlockKeeps, UndoCloseKeeps
<1>4. CASE UNCHANGED tVars
  <2>1. TierTyped'
    BY <1>4 DEF tVars, TierInv, TierTyped
  <2>2. TierFlags'
    BY <1>4, Zenon DEF tVars, TierInv, TierFlags
  <2>3. TierFits'
    BY <1>4, Zenon DEF tVars, TierInv, TierFits, MoverFits, Safe, JobFits, Holds
  <2> QED
    BY <2>1, <2>2, <2>3 DEF TierInv
<1> QED
  BY <1>1, <1>2, <1>3, <1>4 DEF T!Next
-----------------------------------------------------------------------------
RunRecord == [ events : SUBSET Event, failures : 0..MaxRetries,
               by : {"timer", "add", "flush", "again"} \cup Stop ]

CdcTyped ==
    /\ running \in BOOLEAN /\ batcher \in C!Batcher \cup {None} /\ runs \subseteq RunRecord
    /\ stops \in [Stop -> {"idle", "flushing", "halting", "halted"}]
    /\ outputs \in [1..Handlers -> [Event -> Nat]]
    /\ done \in [Event -> Nat] /\ dead \in [Event -> Nat]
    /\ accepted \in SUBSET Event /\ late \in SUBSET Event /\ twice \in SUBSET Event
    /\ starts \in Nat /\ flushes \in Nat

\* A pipeline that runs has a batcher, and a stop() that flushes one batch.
StopsFit ==
    /\ running = (batcher # None)
    /\ \A r \in runs : r.by \in Stop => stops[r.by] = "flushing" /\ \A o \in runs : o.by = r.by => o = r

Halted == \E s \in Stop : stops[s] = "halted"

\* A batch that has no timer holds late events alone: stop() has emptied it, and
\* it is not stopped but by a stop() that is under way.
BatchFits == batcher # None =>
    /\ C!Stopping => batcher.events \subseteq late
    /\ batcher.stopped => Halted
    /\ batcher.timer \/ batcher.events \subseteq late

InBatch == IF batcher = None THEN {} ELSE batcher.events

EventsStay == accepted \ late \subseteq InBatch \cup C!Handled \cup C!Settled

\* How many batches with the event were settled.
Went(e) == done[e] + dead[e]

\* The output handlers have taken event e at most n times: once for every failure
\* so far of the batch it is in, and at most MaxRetries + 1 times for each that
\* was settled.
Tried(e, n) == \A h \in 1..Handlers :
    /\ done[e] <= outputs[h][e]
    /\ Went(e) = 0 => outputs[h][e] <= n
    /\ Went(e) = 1 => outputs[h][e] <= MaxRetries + 1 + n
    /\ Went(e) = 2 => outputs[h][e] <= 2 * (MaxRetries + 1)

\* An event is in the batch, in one batch that is being handled, or in none; and
\* as often as it was settled, it had been taken and is no longer there.
EventFits(e) ==
    /\ Went(e) <= IF e \in twice THEN 2 ELSE 1
    /\ e \notin accepted => Went(e) = 0 /\ e \notin InBatch /\ \A r \in runs : e \notin r.events
    /\ e \in InBatch => Went(e) = 0 /\ \A r \in runs : e \notin r.events
    /\ \A r \in runs : e \in r.events =>
         /\ \A o \in runs : e \in o.events => o = r
         /\ IF r.by = "again" THEN Went(e) <= 1 ELSE Went(e) = 0
         /\ r.by \in {"flush", "again"} => e \in twice
         /\ Tried(e, r.failures)
    /\ (\A r \in runs : e \notin r.events) => Tried(e, 0)

CdcInv == CdcTyped /\ StopsFit /\ BatchFits /\ EventsStay /\ \A e \in Event : EventFits(e)

LEMMA CdcInitially ==
    ASSUME C!CdcAssumption, C!Init PROVE CdcInv
<1>1. CdcTyped
  BY DEF C!Init, CdcTyped
<1>2. StopsFit /\ BatchFits /\ EventsStay
  BY DEF C!Init, StopsFit, BatchFits, EventsStay
<1>3. \A e \in Event : EventFits(e)
  BY DEF C!Init, EventFits, Went, Tried, InBatch, C!CdcAssumption
<1> QED
  BY <1>1, <1>2, <1>3 DEF CdcInv

LEMMA CdcTypesOK ==
    ASSUME CdcInv PROVE C!TypeOK
BY DEF CdcInv, CdcTyped, C!TypeOK, RunRecord

\* What is accepted and not late is where the run looks for it.
LEMMA KeptAre ==
    ASSUME CdcInv PROVE C!EventsAreKept
<1>1. InBatch \ late \subseteq C!Waiting
  BY DEF CdcInv, BatchFits, InBatch, C!Waiting
<1> QED
  BY <1>1 DEF CdcInv, EventsStay, C!EventsAreKept

LEMMA OnceAre ==
    ASSUME C!CdcAssumption, CdcInv PROVE C!SettledOnce
<1> SUFFICES ASSUME NEW e \in Event
             PROVE  /\ done[e] + dead[e] <= C!Batches(e)
                    /\ \A h \in 1..Handlers : outputs[h][e] \in done[e]..(C!Batches(e) * (MaxRetries + 1))
  BY DEF C!SettledOnce
<1>1. /\ EventFits(e) /\ done[e] \in Nat /\ dead[e] \in Nat /\ MaxRetries \in Nat
      /\ \A h \in 1..Handlers : outputs[h][e] \in Nat
  <2>1. /\ outputs \in [1..Handlers -> [Event -> Nat]]
        /\ done \in [Event -> Nat] /\ dead \in [Event -> Nat]
    BY DEF CdcInv, CdcTyped
  <2>2. ASSUME NEW h \in 1..Handlers PROVE outputs[h][e] \in Nat
    <3>1. outputs[h] \in [Event -> Nat]
      BY <2>1
    <3> QED
      BY <3>1
  <2> QED
    BY <2>1, <2>2 DEF CdcInv, C!CdcAssumption
<1>2. Went(e) <= C!Batches(e) /\ Went(e) = done[e] + dead[e] /\ Went(e) \in Nat
  BY <1>1 DEF EventFits, Went, C!Batches
<1>3. PICK n \in 0..MaxRetries : Tried(e, n) /\ (Went(e) = 1 /\ e \notin twice => n = 0)
  <2>1. CASE \A r \in runs : e \notin r.events
    BY <1>1, <2>1 DEF EventFits
  <2>2. ASSUME NEW r \in runs, e \in r.events
        PROVE  \E n \in 0..MaxRetries : Tried(e, n) /\ (Went(e) = 1 /\ e \notin twice => n = 0)
    <3>1. r.failures \in 0..MaxRetries
      BY DEF CdcInv, CdcTyped, RunRecord
    <3>2. Tried(e, r.failures) /\ (Went(e) = 1 => e \in twice)
      BY <1>1, <2>2 DEF EventFits
    <3> QED
      BY <3>1, <3>2
  <2> QED
    BY <2>1, <2>2
<1>4. ASSUME NEW h \in 1..Handlers PROVE outputs[h][e] \in done[e]..(C!Batches(e) * (MaxRetries + 1))
  <2>1. outputs[h][e] \in Nat /\ done[e] <= outputs[h][e]
    BY <1>1, <1>3 DEF Tried
  <2>2. CASE e \in twice
    <3>1. C!Batches(e) = 2
      BY <2>2 DEF C!Batches
    <3>2. outputs[h][e] <= 2 * (MaxRetries + 1)
      BY <1>1, <1>2, <1>3, <2>1, <3>1 DEF Tried
    <3> QED
      BY <1>1, <2>1, <3>1, <3>2
  <2>3. CASE e \notin twice
    <3>1. C!Batches(e) = 1
      BY <2>3 DEF C!Batches
    <3>2. outputs[h][e] <= MaxRetries + 1
      BY <1>1, <1>2, <1>3, <2>1, <2>3, <3>1 DEF Tried
    <3> QED
      BY <1>1, <2>1, <3>1, <3>2
  <2> QED
    BY <2>2, <2>3
<1> QED
  BY <1>2, <1>4
-----------------------------------------------------------------------------
LEMMA BatcherTaken ==
    ASSUME C!CdcAssumption, CdcInv, batcher # None
    PROVE  /\ C!Taken \in C!Batcher /\ C!Taken # None
           /\ C!Taken.events = {} /\ C!Taken.stopped = batcher.stopped
           /\ batcher \in C!Batcher
<1>1. batcher \in C!Batcher
  BY DEF CdcInv, CdcTyped
<1>2. PICK b : b = C!Taken
  OBVIOUS
<1>3. b = [events |-> {}, timer |-> FALSE, stopped |-> batcher.stopped]
  BY <1>1, <1>2 DEF C!Taken, C!Batcher
<1>4. b \in C!Batcher
  BY <1>1, <1>3 DEF C!Batcher
<1>5. b.events = {} /\ b.stopped = batcher.stopped
  BY <1>3
<1> QED
  BY <1>1, <1>2, <1>4, <1>5 DEF C!CdcAssumption

LEMMA StartPipelineKeeps ==
    ASSUME C!CdcAssumption, CdcInv, C!Start PROVE CdcInv'
<1>1. /\ starts' \in Nat
      /\ UNCHANGED <<runs, stops, outputs, done, dead, accepted, late, twice, flushes>>
  BY DEF C!Start, CdcInv, CdcTyped
<1>2. CASE UNCHANGED <<running, batcher>>
  BY <1>1, <1>2 DEF CdcInv, CdcTyped, StopsFit, BatchFits, Halted, EventsStay, EventFits, Went, Tried, InBatch,
                    C!Stopping, C!Handled, C!Settled
<1>3. CASE ~running /\ running' = TRUE /\ batcher' = C!NewBatcher
  <2>1. batcher' \in C!Batcher /\ batcher'.events = {} /\ batcher'.stopped = FALSE
    BY <1>3 DEF C!NewBatcher, C!Batcher
  <2>2. batcher' # None /\ batcher = None
    BY <1>3, <2>1 DEF C!CdcAssumption, CdcInv, StopsFit
  <2>3. CdcTyped'
    BY <1>1, <1>3, <2>1 DEF CdcInv, CdcTyped
  <2>4. StopsFit'
    BY <1>1, <1>3, <2>2 DEF CdcInv, StopsFit
  <2>5. BatchFits'
    BY <2>1 DEF BatchFits
  <2>6. InBatch = {} /\ InBatch' = {}
    BY <2>1, <2>2 DEF InBatch
  <2>7. EventsStay'
    BY <1>1, <2>6 DEF CdcInv, EventsStay, C!Handled, C!Settled
  <2>8. \A e \in Event : EventFits(e)'
    BY <1>1, <2>6 DEF CdcInv, EventFits, Went, Tried
  <2> QED
    BY <2>3, <2>4, <2>5, <2>7, <2>8 DEF CdcInv
<1> QED
  BY <1>2, <1>3 DEF C!Start

\* A batch that is taken is handled from then on.
LEMMA TakingKeeps ==
    ASSUME C!CdcAssumption, CdcInv, batcher # None, NEW es \in SUBSET Event,
           NEW by \in {"timer", "add", "flush"} \cup Stop,
           batcher' = C!Taken, runs' = runs \cup {C!Batch(es, by)},
           UNCHANGED <<running, outputs, done, dead, starts>>, flushes' \in Nat,
           accepted' \in SUBSET Event, late' \in SUBSET Event, twice' \in SUBSET Event,
           accepted \subseteq accepted', late \subseteq late', twice \subseteq twice',
           batcher.events \subseteq es, es \subseteq batcher.events \cup (accepted' \ accepted),
           accepted' \ accepted \subseteq es, by = "flush" => es \subseteq twice',
           stops' = IF by \in Stop THEN [stops EXCEPT ![by] = "flushing"] ELSE stops,
           by \in Stop => stops[by] = "idle"
    PROVE  CdcInv'
<1>1. PICK r : r = C!Batch(es, by)
  OBVIOUS
<1>2. r \in RunRecord /\ r.events = es /\ r.by = by /\ r.failures = 0
  BY <1>1 DEF C!Batch, RunRecord, C!CdcAssumption
<1>3. runs' = runs \cup {r}
  BY <1>1
<1>4. /\ batcher' \in C!Batcher /\ batcher' # None /\ batcher'.events = {}
      /\ batcher'.stopped = batcher.stopped
  BY BatcherTaken
<1>5. InBatch' = {} /\ InBatch = batcher.events
  BY <1>4 DEF InBatch
<1>6. CdcTyped'
  <2>1. stops' \in [Stop -> {"idle", "flushing", "halting", "halted"}]
    BY DEF CdcInv, CdcTyped
  <2> QED
    BY <1>2, <1>3, <1>4, <2>1 DEF CdcInv, CdcTyped
<1>7. StopsFit'
  <2>1. running' = (batcher' # None)
    BY <1>4 DEF CdcInv, StopsFit
  <2>2. ASSUME NEW o \in runs, o.by \in Stop
        PROVE  o.by # by /\ stops'[o.by] = "flushing" /\ \A u \in runs : u.by = o.by => u = o
    BY <2>2 DEF CdcInv, StopsFit, CdcTyped
  <2>3. by \in Stop => stops'[by] = "flushing"
    BY DEF CdcInv, CdcTyped
  <2> QED
    BY <1>2, <1>3, <2>1, <2>2, <2>3 DEF StopsFit
<1>8. BatchFits'
  <2>1. C!Stopping => C!Stopping'
    BY DEF C!Stopping, CdcInv, CdcTyped
  <2>2. (batcher.stopped => Halted) /\ (Halted => Halted')
    BY DEF CdcInv, CdcTyped, BatchFits, Halted
  <2> QED
    BY <1>4, <2>1, <2>2 DEF BatchFits
<1>9. EventsStay'
  <2>1. C!Handled' = C!Handled \cup es /\ C!Settled' = C!Settled
    BY <1>2, <1>3 DEF C!Handled, C!Settled
  <2> QED
    BY <1>5, <2>1 DEF CdcInv, EventsStay
<1>10. ASSUME NEW e \in Event PROVE EventFits(e)'
  <2>1. EventFits(e) /\ Went(e)' = Went(e) /\ Went(e) \in Nat /\ \A n : Tried(e, n) => Tried(e, n)'
    BY DEF CdcInv, CdcTyped, Went, Tried
  <2>2. CASE e \in es
    <3>1. Went(e) = 0 /\ (\A o \in runs : e \notin o.events) /\ e \in accepted'
      BY <1>5, <2>1, <2>2 DEF EventFits
    <3>2. Went(e)' = 0 /\ \A o \in runs' : e \in o.events => o = r
      BY <1>3, <2>1, <3>1
    <3>3. r.by # "again" /\ (r.by \in {"flush", "again"} => e \in twice')
      BY <1>2, <2>2 DEF C!CdcAssumption
    <3>4. Tried(e, 0)'
      BY <2>1, <3>1 DEF EventFits
    <3> QED
      BY <1>2, <1>5, <2>2, <3>1, <3>2, <3>3, <3>4 DEF EventFits
  <2>3. CASE e \notin es
    BY <1>2, <1>3, <1>5, <2>1, <2>3 DEF EventFits
  <2> QED
    BY <2>2, <2>3
<1> QED
  BY <1>6, <1>7, <1>8, <1>9, <1>10 DEF CdcInv

\* As is an empty batch that is taken, of which nothing is left to handle.
LEMMA EmptyKeeps ==
    ASSUME C!CdcAssumption, CdcInv, batcher # None, batcher.events = {}, batcher' = C!Taken,
           UNCHANGED <<running, runs, outputs, done, dead, accepted, late, twice, starts, flushes>>,
           stops' \in [Stop -> {"idle", "flushing", "halting", "halted"}],
           C!Stopping => C!Stopping', Halted => Halted',
           \A s \in Stop : stops[s] = "flushing" => stops'[s] = "flushing"
    PROVE  CdcInv'
<1>1. /\ batcher' \in C!Batcher /\ batcher' # None /\ batcher'.events = {}
      /\ batcher'.stopped = batcher.stopped
  BY BatcherTaken
<1>2. InBatch' = {} /\ InBatch = {}
  BY <1>1 DEF InBatch
<1>3. CdcTyped'
  BY <1>1 DEF CdcInv, CdcTyped
<1>4. StopsFit'
  BY <1>1 DEF CdcInv, StopsFit
<1>5. BatchFits'
  BY <1>1 DEF CdcInv, BatchFits
<1>6. EventsStay'
  BY <1>2 DEF CdcInv, EventsStay, C!Handled, C!Settled
<1>7. \A e \in Event : EventFits(e)'
  BY <1>2 DEF CdcInv, EventFits, Went, Tried
<1> QED
  BY <1>3, <1>4, <1>5, <1>6, <1>7 DEF CdcInv

LEMMA TimerKeeps ==
    ASSUME C!CdcAssumption, CdcInv, C!Timer PROVE CdcInv'
<1>1. /\ batcher # None /\ batcher' = C!Taken
      /\ UNCHANGED <<running, stops, outputs, done, dead, accepted, late, twice, starts, flushes>>
  BY DEF C!Timer
<1>2. CASE batcher.events = {}
  <2>1. UNCHANGED runs
    BY <1>2 DEF C!Timer
  <2>2. (C!Stopping => C!Stopping') /\ (Halted => Halted')
    BY <1>1 DEF C!Stopping, Halted
  <2>3. stops' \in [Stop -> {"idle", "flushing", "halting", "halted"}]
    BY <1>1 DEF CdcInv, CdcTyped
  <2> QED
    BY <1>1, <1>2, <2>1, <2>2, <2>3, EmptyKeeps
<1>3. CASE batcher.events # {}
  <2>1. runs' = runs \cup {C!Batch(batcher.events, "timer")}
    BY <1>3 DEF C!Timer
  <2>2. batcher.events \in SUBSET Event
    BY <1>1, BatcherTaken DEF C!Batcher
  <2>3. /\ flushes' \in Nat /\ accepted' \in SUBSET Event /\ late' \in SUBSET Event /\ twice' \in SUBSET Event
        /\ "timer" \notin Stop
    BY <1>1 DEF CdcInv, CdcTyped, C!CdcAssumption
  <2> QED
    BY <1>1, <2>1, <2>2, <2>3, TakingKeeps
<1> QED
  BY <1>2, <1>3

LEMMA FlushKeeps ==
    ASSUME C!CdcAssumption, CdcInv, C!Flush PROVE CdcInv'
<1>1. /\ batcher # None /\ batcher' = C!Taken /\ runs' = runs \cup {C!Batch(batcher.events, "flush")}
      /\ twice' = twice \cup batcher.events
      /\ UNCHANGED <<running, stops, outputs, done, dead, accepted, late, starts>>
  BY DEF C!Flush
<1>2. batcher.events \in SUBSET Event
  BY <1>1, BatcherTaken DEF C!Batcher
<1>3. /\ flushes' \in Nat /\ accepted' \in SUBSET Event /\ late' \in SUBSET Event /\ twice' \in SUBSET Event
      /\ "flush" \notin Stop
  BY <1>1, <1>2 DEF C!Flush, CdcInv, CdcTyped, C!CdcAssumption
<1> QED
  BY <1>1, <1>2, <1>3, TakingKeeps

LEMMA BeginStopKeeps ==
    ASSUME C!CdcAssumption, CdcInv, NEW s \in Stop, C!BeginStop(s) PROVE CdcInv'
<1>1. /\ stops[s] = "idle" /\ batcher # None /\ batcher' = C!Taken
      /\ UNCHANGED <<running, outputs, done, dead, accepted, late, twice, starts, flushes>>
  BY DEF C!BeginStop, CdcInv, StopsFit
<1>2. stops \in [Stop -> {"idle", "flushing", "halting", "halted"}] /\ batcher.events \in SUBSET Event
  BY <1>1, BatcherTaken DEF CdcInv, CdcTyped, C!Batcher
<1>3. CASE batcher.events = {}
  <2>1. UNCHANGED runs /\ stops' = [stops EXCEPT ![s] = "halting"]
    BY <1>3 DEF C!BeginStop, C!Unflushed
  <2>2. stops' \in [Stop -> {"idle", "flushing", "halting", "halted"}]
    BY <1>2, <2>1
  <2>3. /\ (C!Stopping => C!Stopping') /\ (Halted => Halted')
        /\ \A u \in Stop : stops[u] = "flushing" => stops'[u] = "flushing"
    BY <1>1, <1>2, <2>1 DEF C!Stopping, Halted
  <2> QED
    BY <1>1, <1>3, <2>1, <2>2, <2>3, EmptyKeeps
<1>4. CASE batcher.events # {}
  <2>1. runs' = runs \cup {C!Batch(batcher.events, s)} /\ stops' = [stops EXCEPT ![s] = "flushing"]
    BY <1>4 DEF C!BeginStop, C!Unflushed
  <2>2. /\ flushes' \in Nat /\ accepted' \in SUBSET Event /\ late' \in SUBSET Event /\ twice' \in SUBSET Event
        /\ s # "flush"
    BY <1>1 DEF CdcInv, CdcTyped, C!CdcAssumption
  <2> QED
    BY <1>1, <1>2, <2>1, <2>2, TakingKeeps
<1> QED
  BY <1>3, <1>4

LEMMA ProcessKeeps ==
    ASSUME C!CdcAssumption, CdcInv, NEW e \in Event, C!Process(e) PROVE CdcInv'
<1> DEFINE es == batcher.events \cup {e}
<1>1. /\ batcher # None /\ e \notin accepted /\ accepted' = accepted \cup {e}
      /\ late' = (IF C!Stopping THEN late \cup {e} ELSE late)
      /\ UNCHANGED <<running, stops, outputs, done, dead, twice, starts, flushes>>
  BY DEF C!Process, CdcInv, StopsFit
<1>2. /\ batcher \in C!Batcher /\ batcher.events \in SUBSET Event /\ es \in SUBSET Event
      /\ accepted' \in SUBSET Event /\ late' \in SUBSET Event /\ twice' \in SUBSET Event /\ flushes' \in Nat
      /\ "add" \notin Stop
  BY <1>1, BatcherTaken DEF C!Batcher, CdcInv, CdcTyped, C!CdcAssumption
<1>3. CASE batcher' = C!Taken /\ runs' = runs \cup {C!Batch(es, "add")}
  BY <1>1, <1>2, <1>3, TakingKeeps
<1>4. CASE batcher' = [batcher EXCEPT !.events = es, !.timer = batcher.timer \/ ~batcher.stopped] /\ UNCHANGED runs
  <2>1. PICK b : b = [batcher EXCEPT !.events = es, !.timer = batcher.timer \/ ~batcher.stopped]
    OBVIOUS
  <2>2. b.events = es /\ b.timer = (batcher.timer \/ ~batcher.stopped) /\ b.stopped = batcher.stopped /\ batcher' = b
    BY <1>2, <1>4, <2>1 DEF C!Batcher
  <2>3. b \in C!Batcher
    <3>1. (batcher.timer \/ ~batcher.stopped) \in BOOLEAN
      BY Zenon
    <3>2. b = [events |-> es, timer |-> (batcher.timer \/ ~batcher.stopped), stopped |-> batcher.stopped]
      BY <1>2, <2>1 DEF C!Batcher
    <3>3. batcher.stopped \in BOOLEAN
      BY <1>2 DEF C!Batcher
    <3> QED
      BY <1>2, <3>1, <3>2, <3>3 DEF C!Batcher
  <2>4. b # None
    BY <2>3 DEF C!CdcAssumption
  <2>5. CdcTyped'
    BY <1>1, <1>2, <1>4, <2>2, <2>3 DEF CdcInv, CdcTyped
  <2>6. StopsFit'
    BY <1>1, <1>4, <2>2, <2>4 DEF CdcInv, StopsFit
  <2>7. (C!Stopping' <=> C!Stopping) /\ (Halted' <=> Halted) /\ (Halted => C!Stopping)
    BY <1>1 DEF C!Stopping, Halted
  <2>8. /\ C!Stopping => batcher.events \subseteq late
        /\ batcher.stopped => Halted
        /\ batcher.timer \/ batcher.events \subseteq late
    BY <1>1 DEF CdcInv, BatchFits
  <2>9. C!Stopping => BatchFits'
    BY <1>1, <2>2, <2>7, <2>8 DEF BatchFits
  <2>10. ~C!Stopping => BatchFits'
    <3> SUFFICES ASSUME ~C!Stopping PROVE BatchFits'
      OBVIOUS
    <3>1. ~batcher.stopped
      BY <2>7, <2>8, Zenon
    <3>2. b.timer /\ ~b.stopped
      BY <2>2, <3>1, Zenon
    <3>3. batcher'.timer /\ ~batcher'.stopped
      BY <2>2, <3>2, Zenon
    <3> QED
      BY <2>7, <3>3, Zenon DEF BatchFits
  <2>11. InBatch = batcher.events /\ InBatch' = es
    BY <1>1, <2>2, <2>4 DEF InBatch
  <2>12. EventsStay'
    BY <1>1, <1>4, <2>11 DEF CdcInv, EventsStay, C!Handled, C!Settled
  <2>13. ASSUME NEW x \in Event PROVE EventFits(x)'
    <3>1. /\ EventFits(x) /\ Went(x)' = Went(x) /\ (EventFits(e) /\ e \notin accepted)
          /\ \A n : Tried(x, n) => Tried(x, n)'
      BY <1>1 DEF CdcInv, Went, Tried
    <3> QED
      BY <1>1, <1>4, <2>11, <3>1 DEF EventFits
  <2> QED
    BY <2>5, <2>6, <2>9, <2>10, <2>12, <2>13 DEF CdcInv
<1> QED
  BY <1>3, <1>4 DEF C!Process
-----------------------------------------------------------------------------
\* What is known of a batch that is being handled.
LEMMA RunBefore ==
    ASSUME CdcInv, NEW r \in runs
    PROVE  /\ r \in RunRecord /\ runs \subseteq RunRecord
           /\ r.by \in Stop => stops[r.by] = "flushing" /\ \A o \in runs : o.by = r.by => o = r
           /\ stops \in [Stop -> {"idle", "flushing", "halting", "halted"}]
BY DEF CdcInv, CdcTyped, StopsFit

\* What the first n output handlers take is counted.
LEMMA HandedAdds ==
    ASSUME CdcInv, NEW es, NEW n, outputs' = C!Handed(es, n)
    PROVE  /\ outputs' \in [1..Handlers -> [Event -> Nat]]
           /\ \A h \in 1..Handlers, e \in Event :
                /\ outputs[h][e] \in Nat
                /\ outputs'[h][e] = IF h <= n /\ e \in es THEN outputs[h][e] + 1 ELSE outputs[h][e]
<1>1. outputs \in [1..Handlers -> [Event -> Nat]]
  BY DEF CdcInv, CdcTyped
<1>2. ASSUME NEW f \in [Event -> Nat]
      PROVE  /\ C!Plus(f, es) \in [Event -> Nat]
             /\ \A e \in Event : C!Plus(f, es)[e] = IF e \in es THEN f[e] + 1 ELSE f[e]
  BY DEF C!Plus
<1>3. \A h \in 1..Handlers : outputs'[h] = IF h <= n THEN C!Plus(outputs[h], es) ELSE outputs[h]
  BY DEF C!Handed
<1>4. outputs' \in [1..Handlers -> [Event -> Nat]]
  BY <1>1, <1>2 DEF C!Handed
<1> QED
  BY <1>1, <1>2, <1>3, <1>4

LEMMA PlusAdds ==
    ASSUME NEW f \in [Event -> Nat], NEW es
    PROVE  /\ C!Plus(f, es) \in [Event -> Nat]
           /\ \A e \in Event : C!Plus(f, es)[e] = IF e \in es THEN f[e] + 1 ELSE f[e]
BY DEF C!Plus

\* A batch that is settled has got its events somewhere, and the handlers have
\* had it as often as it was tried.
LEMMA SettleKeeps ==
    ASSUME C!CdcAssumption, CdcInv, NEW r \in runs, C!Through(r) \/ C!Broken(r),
           NEW n \in 0..Handlers, outputs' = C!Handed(r.events, n),
           \/ done' = C!Plus(done, r.events) /\ UNCHANGED dead /\ n = Handlers
           \/ dead' = C!Plus(dead, r.events) /\ UNCHANGED done,
           UNCHANGED <<running, batcher, accepted, late, twice, starts, flushes>>
    PROVE  CdcInv'
<1>1. PICK a : a = C!Batch(r.events, "again")
  OBVIOUS
<1>2. a.events = r.events /\ a.by = "again" /\ a.failures = 0 /\ a \in RunRecord /\ "again" \notin Stop
  BY <1>1, RunBefore DEF C!Batch, RunRecord, C!CdcAssumption
<1>3. /\ \A o \in runs : o # r => o \in runs'
      /\ \A o \in runs' : (o \in runs /\ o # r) \/ (o = a /\ r.by = "flush")
  BY <1>1 DEF C!Through, C!Broken
<1>4. /\ stops' \in [Stop -> {"idle", "flushing", "halting", "halted"}]
      /\ \A s \in Stop : s # r.by => stops'[s] = stops[s]
      /\ r.by \in Stop => stops[r.by] = "flushing" /\ stops'[r.by] \in {"halting", "idle"}
  BY RunBefore DEF C!Through, C!Broken
<1>5. /\ C!Stopping' => C!Stopping
      /\ \A s \in Stop : stops[s] = "halted" => stops'[s] = "halted"
  BY <1>4 DEF C!Stopping
<1>6. done \in [Event -> Nat] /\ dead \in [Event -> Nat] /\ MaxRetries \in Nat /\ Handlers \in Nat
  BY DEF CdcInv, CdcTyped, C!CdcAssumption
<1>7. /\ done' \in [Event -> Nat] /\ dead' \in [Event -> Nat]
      /\ outputs' \in [1..Handlers -> [Event -> Nat]]
  BY <1>6, PlusAdds, HandedAdds
<1>8. \A e \in Event : /\ Went(e) \in Nat
                       /\ Went(e)' = IF e \in r.events THEN Went(e) + 1 ELSE Went(e)
                       /\ e \notin r.events => done'[e] = done[e]
  BY <1>6, PlusAdds DEF Went
<1>9. ASSUME NEW e \in Event, NEW h \in 1..Handlers
      PROVE  /\ outputs[h][e] \in Nat /\ outputs'[h][e] \in Nat
             /\ outputs'[h][e] <= outputs[h][e] + 1
             /\ e \notin r.events => outputs'[h][e] = outputs[h][e]
             /\ done[e] <= outputs[h][e] => done'[e] <= outputs'[h][e]
  <2>1. /\ outputs[h][e] \in Nat
        /\ outputs'[h][e] = IF h <= n /\ e \in r.events THEN outputs[h][e] + 1 ELSE outputs[h][e]
    BY HandedAdds
  <2>2. done[e] \in Nat /\ (done'[e] = done[e] \/ (h <= n /\ e \in r.events /\ done'[e] = done[e] + 1)
                                         \/ (e \notin r.events /\ done'[e] = done[e]))
    BY <1>6, PlusAdds
  <2> QED
    BY <2>1, <2>2
<1>10. CdcTyped'
  <2>1. runs' \subseteq RunRecord
    BY <1>2, <1>3, RunBefore
  <2> QED
    BY <1>4, <1>7, <2>1 DEF CdcInv, CdcTyped
<1>11. StopsFit'
  <2>1. ASSUME NEW o \in runs', o.by \in Stop
        PROVE  stops'[o.by] = "flushing" /\ \A u \in runs' : u.by = o.by => u = o
    <3>1. o \in runs /\ o # r
      BY <1>2, <1>3, <2>1
    <3>2. stops[o.by] = "flushing" /\ (\A u \in runs : u.by = o.by => u = o) /\ o.by # r.by
      BY <2>1, <3>1, RunBefore
    <3> QED
      BY <1>2, <1>3, <1>4, <2>1, <3>2
  <2>2. running' = (batcher' # None)
    BY DEF CdcInv, StopsFit
  <2> QED
    BY <2>1, <2>2 DEF StopsFit
<1>12. BatchFits'
  <2> SUFFICES ASSUME batcher # None PROVE BatchFits'
    BY DEF BatchFits
  <2>1. /\ C!Stopping => batcher.events \subseteq late
        /\ batcher.stopped => Halted
        /\ batcher.timer \/ batcher.events \subseteq late
    BY DEF CdcInv, BatchFits
  <2>2. Halted => Halted'
    BY <1>5 DEF Halted
  <2> QED
    BY <1>5, <2>1, <2>2 DEF BatchFits
<1>13. InBatch' = InBatch
  BY DEF InBatch
<1>14. EventsStay'
  <2> SUFFICES ASSUME NEW e \in accepted, e \notin late PROVE e \in InBatch \/ e \in C!Handled' \/ e \in C!Settled'
    BY <1>13 DEF EventsStay
  <2>1. e \in Event /\ (e \in InBatch \/ e \in C!Handled \/ e \in C!Settled)
    BY DEF CdcInv, CdcTyped, EventsStay
  <2>2. CASE e \in r.events
    BY <1>8, <2>1, <2>2 DEF C!Settled, Went
  <2>3. CASE e \notin r.events
    BY <1>3, <1>8, <2>1, <2>3 DEF C!Handled, C!Settled, Went
  <2> QED
    BY <2>2, <2>3
<1>15. ASSUME NEW e \in Event PROVE EventFits(e)'
  <2>1. EventFits(e) /\ Went(e) \in Nat
    BY <1>8 DEF CdcInv
  <2>2. Went(e)' = IF e \in r.events THEN Went(e) + 1 ELSE Went(e)
    BY <1>8
  <2>3. CASE e \in r.events
    <3>1. /\ \A o \in runs : e \in o.events => o = r
          /\ IF r.by = "again" THEN Went(e) <= 1 ELSE Went(e) = 0
          /\ r.by \in {"flush", "again"} => e \in twice
          /\ e \in accepted /\ e \notin InBatch
          /\ Tried(e, r.failures)
      BY <2>1, <2>3 DEF EventFits
    <3>2. \A o \in runs' : e \in o.events => o = a /\ r.by = "flush"
      BY <1>3, <3>1
    <3>3. Went(e)' <= IF e \in twice THEN 2 ELSE 1
      BY <2>1, <2>2, <2>3, <3>1
    <3>4. r.by = "flush" => Went(e)' <= 1 /\ e \in twice
      BY <2>1, <2>2, <2>3, <3>1
    <3>5. Tried(e, 0)'
      <4>1. r.failures \in 0..MaxRetries /\ Went(e) \in {0, 1} /\ Went(e)' = Went(e) + 1
        BY <2>1, <2>2, <2>3, <3>1, RunBefore DEF RunRecord
      <4>2. ASSUME NEW h \in 1..Handlers
            PROVE  /\ done'[e] <= outputs'[h][e]
                   /\ Went(e)' = 0 => outputs'[h][e] <= 0
                   /\ Went(e)' = 1 => outputs'[h][e] <= MaxRetries + 1 + 0
                   /\ Went(e)' = 2 => outputs'[h][e] <= 2 * (MaxRetries + 1)
        BY <1>6, <1>9, <3>1, <4>1 DEF Tried
      <4> QED
        BY <4>2 DEF Tried
    <3> QED
      BY <1>2, <1>13, <3>1, <3>2, <3>3, <3>4, <3>5 DEF EventFits
  <2>4. CASE e \notin r.events
    <3>1. \A o \in runs' : e \in o.events => o \in runs
      BY <1>2, <1>3, <2>4
    <3>2. \A m : Tried(e, m) => Tried(e, m)'
      BY <1>8, <1>9, <2>2, <2>4 DEF Tried
    <3>3. (\A o \in runs' : e \notin o.events) => \A o \in runs : e \notin o.events
      BY <1>3, <2>4
    <3> QED
      BY <1>13, <2>1, <2>2, <2>4, <3>1, <3>2, <3>3 DEF EventFits
  <2> QED
    BY <2>3, <2>4
<1> QED
  BY <1>10, <1>11, <1>12, <1>14, <1>15 DEF CdcInv

LEMMA OutputKeeps ==
    ASSUME C!CdcAssumption, CdcInv, NEW r \in runs, C!Output(r) PROVE CdcInv'
<1>1. /\ outputs' = C!Handed(r.events, Handlers) /\ done' = C!Plus(done, r.events) /\ C!Through(r)
      /\ UNCHANGED <<running, batcher, dead, accepted, late, twice, starts, flushes>>
  BY DEF C!Output
<1>2. Handlers \in 0..Handlers
  BY DEF C!CdcAssumption
<1> QED
  BY <1>1, <1>2, SettleKeeps

\* A batch that is to be tried again, of which the first n handlers took this try.
LEMMA RetryKeeps ==
    ASSUME C!CdcAssumption, CdcInv, NEW r \in runs, NEW n, outputs' = C!Handed(r.events, n),
           ~C!Exhausted(r.failures + 1),
           runs' = (runs \ {r}) \cup {[r EXCEPT !.failures = r.failures + 1]},
           UNCHANGED <<running, batcher, stops, done, dead, accepted, late, twice, starts, flushes>>
    PROVE  CdcInv'
<1>1. PICK a : a = [r EXCEPT !.failures = r.failures + 1]
  OBVIOUS
<1>2. r.failures + 1 \in 0..MaxRetries /\ MaxRetries \in Nat
  BY RunBefore DEF RunRecord, C!Exhausted, C!CdcAssumption
<1>3. a.events = r.events /\ a.by = r.by /\ a \in RunRecord /\ a.failures = r.failures + 1
  BY <1>1, <1>2, RunBefore DEF RunRecord
<1>4. runs' = (runs \ {r}) \cup {a}
  BY <1>1
<1>5. CdcTyped'
  <2>1. outputs' \in [1..Handlers -> [Event -> Nat]]
    BY HandedAdds
  <2> QED
    BY <1>3, <1>4, <2>1 DEF CdcInv, CdcTyped
<1>6. StopsFit'
  <2>1. running' = (batcher' # None)
    BY DEF CdcInv, StopsFit
  <2>2. ASSUME NEW o \in runs', o.by \in Stop
        PROVE  stops'[o.by] = "flushing" /\ \A u \in runs' : u.by = o.by => u = o
    BY <1>3, <1>4, <2>2, RunBefore
  <2> QED
    BY <2>1, <2>2 DEF StopsFit
<1>7. BatchFits'
  BY DEF CdcInv, BatchFits, Halted, C!Stopping
<1>8. InBatch' = InBatch /\ C!Handled' = C!Handled /\ C!Settled' = C!Settled
  BY <1>3, <1>4 DEF InBatch, C!Handled, C!Settled
<1>9. EventsStay'
  BY <1>8 DEF CdcInv, EventsStay
<1>10. ASSUME NEW e \in Event PROVE EventFits(e)'
  <2>1. EventFits(e) /\ Went(e)' = Went(e) /\ Went(e) \in Nat
    BY DEF CdcInv, CdcTyped, Went
  <2>2. CASE e \in r.events
    <3>1. /\ \A o \in runs : e \in o.events => o = r
          /\ IF r.by = "again" THEN Went(e) <= 1 ELSE Went(e) = 0
          /\ r.by \in {"flush", "again"} => e \in twice
          /\ e \in accepted /\ e \notin InBatch
          /\ Tried(e, r.failures)
      BY <2>1, <2>2 DEF EventFits
    <3>2. \A o \in runs' : e \in o.events => o = a
      BY <1>4, <3>1
    <3>3. Tried(e, r.failures + 1)'
      <4>1. r.failures \in Nat /\ Went(e) \in {0, 1} /\ done[e] \in Nat
        BY <2>1, <3>1, RunBefore DEF RunRecord, CdcInv, CdcTyped
      <4> SUFFICES ASSUME NEW h \in 1..Handlers
                   PROVE  /\ done[e] <= outputs'[h][e]
                          /\ Went(e) = 0 => outputs'[h][e] <= r.failures + 1
                          /\ Went(e) = 1 => outputs'[h][e] <= MaxRetries + 1 + (r.failures + 1)
        BY <1>2, <2>1, <4>1 DEF Tried
      <4>2. outputs[h][e] \in Nat /\ outputs'[h][e] \in {outputs[h][e], outputs[h][e] + 1}
        BY HandedAdds
      <4> QED
        BY <1>2, <3>1, <4>1, <4>2 DEF Tried
    <3>4. a \in runs'
      BY <1>4
    <3> QED
      BY <1>3, <1>8, <2>1, <2>2, <3>1, <3>2, <3>3, <3>4 DEF EventFits
  <2>3. CASE e \notin r.events
    <3>1. \A m : Tried(e, m) => Tried(e, m)'
      <4>1. \A h \in 1..Handlers : outputs'[h][e] = outputs[h][e]
        BY <2>3, HandedAdds
      <4> QED
        BY <2>1, <4>1 DEF Tried
    <3>2. \A o \in runs' : e \in o.events => o \in runs /\ o # r
      BY <1>3, <1>4, <2>3
    <3>3. \A o \in runs : e \in o.events => o \in runs'
      BY <1>4, <2>3
    <3> QED
      BY <1>8, <2>1, <3>1, <3>2, <3>3 DEF EventFits
  <2> QED
    BY <2>2, <2>3
<1> QED
  BY <1>5, <1>6, <1>7, <1>9, <1>10 DEF CdcInv

LEMMA ThrowKeeps ==
    ASSUME C!CdcAssumption, CdcInv, NEW r \in runs, C!Throw(r) PROVE CdcInv'
<1>1. UNCHANGED <<running, batcher, done, accepted, late, twice, starts, flushes>>
  BY DEF C!Throw
<1>2. PICK n \in 0..Handlers : outputs' = C!Handed(r.events, n)
  BY DEF C!Throw, C!CdcAssumption
<1>3. CASE dead' = C!Plus(dead, r.events) /\ (C!Through(r) \/ C!Broken(r))
  BY <1>1, <1>2, <1>3, SettleKeeps
<1>4. CASE /\ ~C!Exhausted(r.failures + 1) /\ runs' = (runs \ {r}) \cup {[r EXCEPT !.failures = r.failures + 1]}
           /\ UNCHANGED <<dead, stops>>
  BY <1>1, <1>2, <1>4, RetryKeeps
<1> QED
  BY <1>3, <1>4 DEF C!Throw

LEMMA HaltKeeps ==
    ASSUME C!CdcAssumption, CdcInv, NEW s \in Stop, C!Halt(s) PROVE CdcInv'
<1>1. /\ stops[s] = "halting"
      /\ UNCHANGED <<running, runs, outputs, done, dead, accepted, late, twice, starts, flushes>>
  BY DEF C!Halt
<1>2. PICK to \in {"idle", "halted"} : stops' = [stops EXCEPT ![s] = to] /\ (batcher # None => to = "halted")
  BY DEF C!Halt
<1>3. /\ stops \in [Stop -> {"idle", "flushing", "halting", "halted"}]
      /\ \A u \in Stop : stops[u] = "flushing" => stops'[u] = "flushing"
      /\ stops' \in [Stop -> {"idle", "flushing", "halting", "halted"}]
  BY <1>1, <1>2 DEF CdcInv, CdcTyped
<1>4. CASE batcher = None /\ UNCHANGED batcher
  <2>1. CdcTyped' /\ StopsFit'
    BY <1>1, <1>3, <1>4 DEF CdcInv, CdcTyped, StopsFit
  <2>2. BatchFits' /\ EventsStay'
    BY <1>1, <1>4 DEF CdcInv, BatchFits, EventsStay, InBatch, C!Handled, C!Settled
  <2>3. \A e \in Event : EventFits(e)'
    BY <1>1, <1>4 DEF CdcInv, EventFits, Went, Tried, InBatch
  <2> QED
    BY <2>1, <2>2, <2>3 DEF CdcInv
<1>5. CASE batcher # None /\ batcher' = [batcher EXCEPT !.stopped = TRUE, !.timer = FALSE]
  <2>1. PICK b : b = [batcher EXCEPT !.stopped = TRUE, !.timer = FALSE]
    OBVIOUS
  <2>2. batcher \in C!Batcher
    BY <1>5 DEF CdcInv, CdcTyped
  <2>3. b = [events |-> batcher.events, timer |-> FALSE, stopped |-> TRUE] /\ batcher.events \in SUBSET Event
    BY <2>1, <2>2 DEF C!Batcher
  <2>4. b \in C!Batcher /\ b.events = batcher.events /\ batcher' = b
    BY <1>5, <2>1, <2>3 DEF C!Batcher
  <2>5. b # None
    BY <2>4 DEF C!CdcAssumption
  <2>6. CdcTyped' /\ StopsFit'
    BY <1>1, <1>3, <1>5, <2>4, <2>5 DEF CdcInv, CdcTyped, StopsFit
  <2>7. C!Stopping /\ Halted'
    BY <1>1, <1>2, <1>3, <1>5 DEF C!Stopping, Halted
  <2>8. batcher.events \subseteq late
    BY <1>5, <2>7 DEF CdcInv, BatchFits
  <2>9. BatchFits'
    BY <1>1, <2>4, <2>7, <2>8 DEF BatchFits
  <2>10. InBatch' = InBatch
    BY <1>5, <2>4, <2>5 DEF InBatch
  <2>11. EventsStay' /\ \A e \in Event : EventFits(e)'
    BY <1>1, <2>10 DEF CdcInv, EventsStay, EventFits, Went, Tried, C!Handled, C!Settled
  <2> QED
    BY <2>6, <2>9, <2>11 DEF CdcInv
<1> QED
  BY <1>4, <1>5 DEF C!Halt

LEMMA EndStopKeeps ==
    ASSUME C!CdcAssumption, CdcInv, NEW s \in Stop, C!EndStop(s) PROVE CdcInv'
<1>1. /\ stops[s] = "halted" /\ stops' = [stops EXCEPT ![s] = "idle"]
      /\ batcher' = None /\ running' = FALSE
      /\ UNCHANGED <<runs, outputs, done, dead, accepted, late, twice, starts, flushes>>
  BY DEF C!EndStop
<1>2. /\ stops \in [Stop -> {"idle", "flushing", "halting", "halted"}]
      /\ \A u \in Stop : stops[u] = "flushing" => stops'[u] = "flushing"
      /\ stops' \in [Stop -> {"idle", "flushing", "halting", "halted"}]
  BY <1>1 DEF CdcInv, CdcTyped
<1>3. CdcTyped' /\ StopsFit' /\ BatchFits'
  BY <1>1, <1>2 DEF CdcInv, CdcTyped, StopsFit, BatchFits
<1>4. C!Stopping
  BY <1>1 DEF C!Stopping
<1>5. InBatch \subseteq late /\ InBatch' = {}
  BY <1>1, <1>4 DEF CdcInv, BatchFits, InBatch
<1>6. EventsStay'
  BY <1>1, <1>5 DEF CdcInv, EventsStay, C!Handled, C!Settled
<1>7. \A e \in Event : EventFits(e)'
  BY <1>1, <1>5 DEF CdcInv, EventFits, Went, Tried
<1> QED
  BY <1>3, <1>6, <1>7 DEF CdcInv

LEMMA CdcInductive ==
    ASSUME C!CdcAssumption PROVE CdcInv /\ [C!Next]_cVars => CdcInv'
<1> SUFFICES ASSUME CdcInv, [C!Next]_cVars PROVE CdcInv'
  OBVIOUS
<1>1. CASE C!Next
  BY <1>1, StartPipelineKeeps, TimerKeeps, FlushKeeps, ProcessKeeps, OutputKeeps, ThrowKeeps, BeginStopKeeps,
     HaltKeeps, EndStopKeeps DEF C!Next
<1>2. CASE UNCHANGED cVars
  BY <1>2 DEF cVars, CdcInv, CdcTyped, StopsFit, BatchFits, Halted, EventsStay, EventFits, Went, Tried, InBatch,
              C!Stopping, C!Handled, C!Settled
<1> QED
  BY <1>1, <1>2
-----------------------------------------------------------------------------
\* A step is a step of each part, or leaves it alone.
LEMMA PartsStep ==
    ASSUME [UpkeepNext]_upkeepVars
    PROVE  /\ [Next]_vars /\ [U!Next]_uVars /\ [G!Next]_gVars /\ [A!Next]_aVars /\ [T!Next]_tVars /\ [C!Next]_cVars
BY DEF UpkeepNext, InPack, InUpload, InCollection, InAlarm, InTier, InCdc, upkeepVars

LEMMA UploadInvariant ==
    ASSUME UpkeepAssumption PROVE UpkeepSpec => []UploadInv
<1>1. UpkeepInit => UploadInv
  BY UploadInitially DEF UpkeepInit, UpkeepAssumption
<1>2. UploadInv /\ [UpkeepNext]_upkeepVars => UploadInv'
  BY UploadInductive, PartsStep
<1> QED
  BY <1>1, <1>2, PTL DEF UpkeepSpec

LEMMA CollectionInvariant ==
    ASSUME UpkeepAssumption, PushTime + MarkTime < CollectGrace PROVE UpkeepSpec => []CollectionInv
<1>1. UpkeepInit => CollectionInv
  BY CollectionInitially DEF UpkeepInit, UpkeepAssumption, GraceIsEnough
<1>2. CollectionInv /\ [UpkeepNext]_upkeepVars => CollectionInv'
  BY CollectionInductive, PartsStep DEF UpkeepAssumption, GraceIsEnough
<1> QED
  BY <1>1, <1>2, PTL DEF UpkeepSpec

LEMMA AlarmInvariant ==
    ASSUME UpkeepAssumption PROVE UpkeepSpec => []AlarmInv
<1>1. UpkeepInit => AlarmInv
  BY AlarmInitially DEF UpkeepInit, UpkeepAssumption
<1>2. AlarmInv /\ [UpkeepNext]_upkeepVars => AlarmInv'
  BY AlarmInductive, PartsStep DEF UpkeepAssumption
<1> QED
  BY <1>1, <1>2, PTL DEF UpkeepSpec

LEMMA TierInvariant ==
    ASSUME UpkeepAssumption PROVE UpkeepSpec => []TierInv
<1>1. UpkeepInit => TierInv
  BY TierInitially DEF UpkeepInit, UpkeepAssumption
<1>2. TierInv /\ [UpkeepNext]_upkeepVars => TierInv'
  BY TierInductive, PartsStep DEF UpkeepAssumption
<1> QED
  BY <1>1, <1>2, PTL DEF UpkeepSpec

LEMMA CdcInvariant ==
    ASSUME UpkeepAssumption PROVE UpkeepSpec => []CdcInv
<1>1. UpkeepInit => CdcInv
  BY CdcInitially DEF UpkeepInit, UpkeepAssumption
<1>2. CdcInv /\ [UpkeepNext]_upkeepVars => CdcInv'
  BY CdcInductive, PartsStep DEF UpkeepAssumption
<1> QED
  BY <1>1, <1>2, PTL DEF UpkeepSpec

(* A pack whose manifest says it is complete (uploadPack, cleanupOrphaned-  *)
(* StagingFiles, deletePack) has its files, and one whose upload was        *)
(* acknowledged is complete until it is deleted: whatever fails, for any    *)
(* number of clean-ups and deletions, unless one of them came upon the      *)
(* upload.                                                                  *)
THEOREM WholePacks ==
    ASSUME UpkeepAssumption PROVE UpkeepSpec => []PackIsWhole
<1>1. UploadInv => PackIsWhole
  BY DEF UploadInv, FilesFit, PackIsWhole, U!PackIsWhole, U!Complete
<1> QED
  BY <1>1, UploadInvariant, PTL

(* Whatever the refs reach is in the store and no collection has it on its  *)
(* list (collectGarbage), for any graph of objects and number of pushes, if *)
(* a push and a marking together are shorter than the grace period.         *)
THEOREM ReachableIsKept ==
    ASSUME UpkeepAssumption, PushTime + MarkTime < CollectGrace PROVE UpkeepSpec => []ReachableStays
<1>1. CollectionInv => ReachableStays
  BY DEF CollectionInv, ReachableStays, G!ReachableStays
<1> QED
  BY <1>1, CollectionInvariant, PTL

(* A request for a compaction leads to MAX_COMPACTION_ATTEMPTS at most, and *)
(* one that is needed has its alarm (scheduleCompaction, alarm), for any    *)
(* number of attempts, failures and restarts.                               *)
THEOREM BoundedTries ==
    ASSUME UpkeepAssumption PROVE UpkeepSpec => []TriesAreBounded
<1>1. AlarmInv => TriesAreBounded
  BY DEF AlarmInv, TriesFit, TriesAreBounded, A!TriesAreBounded
<1> QED
  BY <1>1, AlarmInvariant, PTL

(* An object that moves is in one of the tiers at every moment (migrate,    *)
(* startMigrationJob and what settles it), for any number of moves and jobs *)
(* and any failures, as long as no job is settled that must not be.         *)
THEOREM MovedIsKept ==
    ASSUME UpkeepAssumption PROVE UpkeepSpec => []ObjectIsKept
<1>1. TierInv => ObjectIsKept
  BY Zenon DEF TierInv, TierFits, ObjectIsKept, T!ObjectIsKept
<1> QED
  BY <1>1, TierInvariant, PTL

(* No event that process() accepted is lost, whichever calls of flush(),    *)
(* stop() and start() overlap, unless it came while a stop() was under way. *)
THEOREM AcceptedIsKept ==
    ASSUME UpkeepAssumption PROVE UpkeepSpec => []EventsAreKept
<1>1. CdcInv => EventsAreKept
  BY KeptAre DEF EventsAreKept
<1> QED
  BY <1>1, CdcInvariant, PTL

(* A batch gets through all the output handlers or goes to the dead letters *)
(* once, flush() making two batches of one; and no handler is given it more *)
(* often than it is tried (handleBatch): for any number of handlers, events *)
(* and retries, however batches, timers, flushes and failures overlap.      *)
THEOREM BatchesSettleOnce ==
    ASSUME UpkeepAssumption PROVE UpkeepSpec => []SettledOnce
<1>1. CdcInv => SettledOnce
  BY OnceAre DEF SettledOnce, UpkeepAssumption
<1> QED
  BY <1>1, CdcInvariant, PTL

(* Every step of the six parts keeps their types.                           *)
THEOREM PartsTyped ==
    ASSUME UpkeepAssumption PROVE UpkeepSpec => []TypesOK
<1>1. UpkeepInit => IInv
  BY Initially DEF UpkeepInit, UpkeepAssumption
<1>2. IInv /\ [UpkeepNext]_upkeepVars => IInv'
  BY NextKeeps, PartsStep DEF UpkeepAssumption
<1>3. UpkeepInit => G!TypeOK
  BY CollectionStarts DEF UpkeepInit, UpkeepAssumption
<1>4. G!TypeOK /\ [UpkeepNext]_upkeepVars => G!TypeOK'
  BY CollectionTyped, PartsStep DEF UpkeepAssumption
<1>5. IInv /\ UploadInv /\ G!TypeOK /\ AlarmInv /\ TierInv /\ CdcInv => TypesOK
  <2>1. AlarmInv => A!TypeOK
    BY AlarmTypesOK
  <2>2. TierInv => T!TypeOK
    BY TierTypesOK
  <2>3. CdcInv => C!TypeOK
    BY CdcTypesOK
  <2> QED
    BY <2>1, <2>2, <2>3 DEF TypesOK, IInv, UploadInv
<1> QED
  BY <1>1, <1>2, <1>3, <1>4, <1>5, UploadInvariant, AlarmInvariant, TierInvariant, CdcInvariant, PTL
     DEF UpkeepSpec
=============================================================================

------------------------ MODULE ParquetStore_proofs ------------------------
(***************************************************************************)
(* What the Parquet store vouches for is on disk, proved for any objects,  *)
(* callers, failures and restarts.                                         *)
(*                                                                         *)
(* The argument: a restart deletes the leftovers of every journal row, so  *)
(* only the other files count.  What they hold, with what the store may    *)
(* have lost anyway, never shrinks (Safe), and the log and the cache are   *)
(* measured against it.                                                    *)
(***************************************************************************)
EXTENDS ParquetStore, TLAPS

Gone == UNION {Leftovers(j) : j \in journal}
Filed == UNION {r2[k] : k \in DOMAIN r2 \ Gone}
Safe == Lost \cup Filed
Logged == {w.sha : w \in wal}

\* The counters run ahead of every log row and of every file key.
Counted ==
    /\ used \in [puts : Nat, rows : Nat, files : Nat, faults : Nat, crashes : Nat]
    /\ \A w \in wal : w.id <= used.rows
    /\ \A i \in walIds : i <= used.rows
    /\ \A p \in Proc : \A i \in op[p].ids : i <= used.rows
    /\ \A k \in DOMAIN r2 \cup fileKeys : k.uuid <= used.files
    /\ \A j \in journal : j.target.uuid <= used.files /\ \A k \in j.src : k.uuid <= used.files

\* A flushed file holds what its name says, and the store never forgets it.
NamesFit ==
    /\ \A k \in DOMAIN r2 : k.uuid = 0 => r2[k] = Holds(k.rows)
    /\ \A k \in fileKeys : k.uuid = 0 => Holds(k.rows) \subseteq Safe
    /\ \A j \in journal : \A k \in j.src : k.uuid = 0 => Holds(k.rows) \subseteq Safe

\* Each compaction has a target of its own, which no other one reads.
JournalFits ==
    /\ \A j \in journal : j.target.uuid # 0
    /\ \A i, j \in journal : i.target = j.target => i = j
    /\ \A i, j \in journal : i.target \notin j.src
    /\ Ready => \A j \in journal : j.target \notin fileKeys

\* The listed log rows are those of the buffer, or of a buffer on its way.
LogFits ==
    /\ \A w \in wal : w.id \in walIds => buffer[w.sha] > 0 \/ w.sha \in Safe
    /\ \A p \in Proc : \A w \in wal :
          w.id \in op[p].ids => op[p].snap[w.sha] > 0 \/ w.sha \in Safe
    /\ \A p \in Proc : op[p].at = "stored" => FlushKey(op[p].snap) \in DOMAIN r2
    /\ \A p \in Proc : op[p].at = "hashing" => op[p].sha \in Sha
    /\ shaCache \subseteq Safe \cup Logged
    /\ tombstones \subseteq deleted

\* Nobody works on an instance that is not ready, and a compaction is alone.
Excluded ==
    /\ ~Ready => cp.at = "idle" /\ \A p \in Proc : op[p].at = "idle"
    /\ Compacting => \A p \in Proc : op[p].at \in {"idle", "wantFlush"}

\* How far a compaction has come.
Row == [src |-> cp.src, target |-> cp.target,
        status |-> IF cp.at = "deleting" THEN "written" ELSE "in_progress"]
CompactFits ==
    Compacting =>
        /\ Row \in journal
        /\ cp.left \subseteq cp.src
        /\ cp.seen \subseteq cp.kept \cup Lost
        /\ cp.at \in {"reading", "merged", "stored"} =>
              \A k \in (cp.src \ cp.left) \cap DOMAIN r2 : r2[k] \subseteq cp.kept \cup Lost
        /\ cp.at \in {"merged", "stored"} => cp.left = {}
        /\ cp.at # "reading" => Holds(buffer) \subseteq cp.kept \cup Lost
        /\ cp.at \in {"stored", "deleting"} =>
              cp.target \in DOMAIN r2 /\ r2[cp.target] = cp.kept

IInv == /\ TypeOK /\ Counted /\ NamesFit /\ JournalFits /\ LogFits /\ Excluded /\ CompactFits

OpRecord == [at : {"idle", "hashing", "wantFlush", "flushing", "stored"},
             sha : Sha \cup {None}, snap : [Sha -> Nat], ids : SUBSET Nat]
CpRecord == [at : {"idle", "reading", "merged", "stored", "deleting"}, src : SUBSET Key,
             target : Key, left : SUBSET Key, seen : SUBSET Sha, kept : SUBSET Sha]

LEMMA Blank ==
    /\ Nothing \in [Sha -> Nat] /\ Holds(Nothing) = {}
    /\ Idle \in OpRecord
    /\ NoCompaction \in CpRecord
<1>1. Nothing \in [Sha -> Nat] /\ Holds(Nothing) = {}
  BY DEF Nothing, Holds
<1>2. Idle \in OpRecord
  BY <1>1 DEF Idle, OpRecord
<1>3. CompactKey(0) \in Key
  BY <1>1 DEF CompactKey, Key
<1> QED
  BY <1>1, <1>2, <1>3 DEF NoCompaction, CpRecord

LEMMA Initially ==
    ASSUME Init PROVE IInv
<1> USE DEF Init
<1>1. TypeOK
  <2>1. op \in [Proc -> OpRecord] /\ cp \in CpRecord /\ buffer \in [Sha -> Nat]
    BY Blank
  <2>2. DOMAIN r2 = {}
    OBVIOUS
  <2> QED
    BY <2>1, <2>2 DEF TypeOK, OpRecord, CpRecord
<1>2. Counted
  BY DEF Counted, Idle
<1>4. NamesFit /\ JournalFits
  BY DEF NamesFit, JournalFits
<1>5. LogFits
  BY DEF LogFits, Idle
<1>3. Excluded /\ CompactFits
  BY DEF Excluded, CompactFits, Idle, NoCompaction, Compacting, Ready
<1> QED
  BY <1>1, <1>2, <1>3, <1>4, <1>5 DEF IInv
-----------------------------------------------------------------------------
(* What a restart would keep: it grows, and holds every flushed file.       *)

LEMMA SafeGrows ==
    ASSUME Lost \subseteq Lost',
           \A k \in DOMAIN r2 \ Gone : k \in DOMAIN r2' \ Gone' /\ r2[k] \subseteq r2'[k]
    PROVE  Safe \subseteq Safe'
BY DEF Safe, Filed

LEMMA SafeStays ==
    ASSUME UNCHANGED <<r2, journal>>, Lost \subseteq Lost' PROVE Safe \subseteq Safe'
BY DEF Safe, Filed, Gone, Leftovers

LEMMA FlushedIsSafe ==
    ASSUME IInv, NEW b, FlushKey(b) \in DOMAIN r2 PROVE Holds(b) \subseteq Safe
<1> DEFINE k == FlushKey(b)
<1>1. k.uuid = 0 /\ k.rows = b
  BY DEF FlushKey
<1>2. r2[k] = Holds(b)
  BY <1>1 DEF IInv, NamesFit
<1>3. CASE k \notin Gone
  BY <1>2, <1>3 DEF Safe, Filed
<1>4. CASE k \in Gone
  <2>1. PICK j \in journal : k \in Leftovers(j)
    BY <1>4 DEF Gone
  <2>2. k \in j.src
    BY <1>1, <2>1 DEF Leftovers, IInv, JournalFits
  <2> QED
    BY <1>1, <2>2 DEF IInv, NamesFit
<1> QED
  BY <1>3, <1>4

-----------------------------------------------------------------------------
(* The steps of putObject.                                                  *)

\* A caller in the middle of a put or of a flush keeps compactions away.
LEMMA Working ==
    ASSUME IInv, NEW p \in Proc, op[p].at \in {"hashing", "flushing", "stored"}
    PROVE  Ready /\ ~Compacting
BY DEF IInv, Excluded, Compacting

LEMMA CallerTyped ==
    ASSUME IInv, NEW p \in Proc
    PROVE  /\ op \in [Proc -> OpRecord] /\ op[p] \in OpRecord
           /\ op[p].sha \in Sha \cup {None} /\ op[p].snap \in [Sha -> Nat]
           /\ op[p].ids \subseteq Nat
BY DEF IInv, TypeOK, OpRecord

LEMMA FilesStay ==
    ASSUME IInv, UNCHANGED <<r2, journal, fileKeys, phase>>, Safe \subseteq Safe'
    PROVE  NamesFit' /\ JournalFits'
<1>1. NamesFit'
  BY DEF IInv, NamesFit, Holds
<1>2. JournalFits'
  BY DEF IInv, JournalFits, Ready
<1> QED
  BY <1>1, <1>2

LEMMA PutKeeps ==
    ASSUME IInv, NEW p \in Proc, PutObject(p) PROVE IInv'
<1>1. /\ UNCHANGED <<r2, journal, fileKeys, phase, cp, tombstones, tried, deleted, skipped>>
      /\ Ready /\ ~Compacting
  BY Working DEF PutObject, PutBegin, PutFail, PutInsert, durable, memory, history
<1>2. Safe \subseteq Safe'
  BY <1>1, SafeStays DEF Lost
<1>3. NamesFit' /\ JournalFits'
  BY <1>1, <1>2, FilesStay
<1>4. Excluded' /\ CompactFits'
  BY <1>1 DEF Excluded, CompactFits, Ready, Compacting
<1>5. CASE \E s \in Sha : PutBegin(p, s)
  <2> PICK s \in Sha : PutBegin(p, s)
    BY <1>5
  <2> USE DEF PutBegin, durable, memory, history, Use
  <2>1. op' \in [Proc -> OpRecord]
    BY CallerTyped DEF OpRecord
  <2>2. TypeOK'
    BY <2>1, <1>1 DEF IInv, TypeOK, OpRecord
  <2>3. Counted'
    BY <1>1, CallerTyped DEF IInv, Counted
  <2>4. LogFits'
    BY <1>1, <1>2, CallerTyped DEF IInv, LogFits, Logged
  <2> QED
    BY <1>3, <1>4, <2>2, <2>3, <2>4 DEF IInv
<1>6. CASE PutFail(p)
  <2> USE <1>6 DEF PutFail, durable, memory, history, Use, Fault
  <2>1. op' \in [Proc -> OpRecord]
    BY CallerTyped, Blank
  <2>2. TypeOK'
    BY <2>1, <1>1 DEF IInv, TypeOK, OpRecord
  <2>3. Counted'
    BY <1>1, CallerTyped DEF IInv, Counted, Idle
  <2>4. LogFits'
    BY <1>1, <1>2, CallerTyped DEF IInv, LogFits, Logged, Idle
  <2> QED
    BY <1>3, <1>4, <2>2, <2>3, <2>4 DEF IInv
<1>7. CASE PutInsert(p)
  <2> USE <1>7 DEF Use
  <2> DEFINE s == op[p].sha  id == used.rows + 1
  <2>1. s \in Sha
    BY DEF PutInsert, IInv, LogFits
  <2>2. id \in Nat
    BY DEF IInv, Counted
  <2>3. /\ used' = [used EXCEPT !.rows = id]
        /\ wal' = wal \cup {[id |-> id, sha |-> s]} /\ walIds' = walIds \cup {id}
        /\ buffer' = [buffer EXCEPT ![s] = @ + 1]
        /\ shaCache' = shaCache \cup {s} /\ UNCHANGED impaired
    BY DEF PutInsert
  <2>4. acked' \subseteq acked \cup {s}
    BY DEF PutInsert
  <2>5. op' \in {[op EXCEPT ![p].at = "wantFlush"], [op EXCEPT ![p] = Idle]}
    BY DEF PutInsert
  <2>6. op' \in [Proc -> OpRecord]
    <3>1. Idle \in OpRecord /\ [op[p] EXCEPT !.at = "wantFlush"] \in OpRecord
      BY CallerTyped, Blank DEF OpRecord
    <3>2. op \in [Proc -> OpRecord]
      BY CallerTyped
    <3>3. CASE op' = [op EXCEPT ![p].at = "wantFlush"]
      BY <3>1, <3>2, <3>3
    <3>4. CASE op' = [op EXCEPT ![p] = Idle]
      BY <3>1, <3>2, <3>4
    <3> QED
      BY <2>5, <3>3, <3>4
  <2>7. \A q \in Proc : /\ op'[q].ids \subseteq op[q].ids
                        /\ op'[q].ids = {} \/ op'[q].snap = op[q].snap
                        /\ op'[q].at \in {"stored", "hashing"} => op'[q] = op[q]
    BY <2>5, CallerTyped DEF Idle, OpRecord
  <2>8. TypeOK'
    BY <1>1, <2>3, <2>4, <2>1, <2>2, <2>6 DEF IInv, TypeOK, OpRecord
  <2>9. Counted'
    BY <1>1, <2>3, <2>2, <2>7, CallerTyped DEF IInv, Counted, TypeOK
  <2>10. LogFits'
    <3>1. \A w \in wal' : w.id \in walIds' => buffer'[w.sha] > 0 \/ w.sha \in Safe'
      BY <1>2, <2>3, <2>1, <2>2 DEF IInv, LogFits, TypeOK, Counted
    <3>2. \A q \in Proc : \A w \in wal' :
             w.id \in op'[q].ids => op'[q].snap[w.sha] > 0 \/ w.sha \in Safe'
      BY <1>2, <2>3, <2>2, <2>7, CallerTyped DEF IInv, LogFits, TypeOK, Counted
    <3>3. shaCache' \subseteq Safe' \cup Logged'
      <4>1. s \in Logged' /\ Logged \subseteq Logged'
        <5> DEFINE row == [id |-> id, sha |-> s]
        <5>1. row \in wal' /\ row.sha = s /\ wal \subseteq wal'
          BY <2>3
        <5> HIDE DEF row
        <5> QED
          BY <5>1 DEF Logged
      <4> QED
        BY <1>2, <2>3, <4>1 DEF IInv, LogFits
    <3> QED
      BY <1>1, <2>7, <3>1, <3>2, <3>3 DEF IInv, LogFits
  <2> QED
    BY <1>3, <1>4, <2>8, <2>9, <2>10 DEF IInv
<1> QED
  BY <1>5, <1>6, <1>7 DEF PutObject

-----------------------------------------------------------------------------
(* The steps of flush.                                                      *)

LEMMA Returned ==
    ASSUME IInv, NEW p \in Proc, Return(p)
    PROVE  op' \in [Proc -> OpRecord] /\ acked' \subseteq Sha
BY CallerTyped, Blank DEF Return, IInv, TypeOK

LEMMA FlushCallKeeps ==
    ASSUME IInv, NEW p \in Proc, FlushCall(p) \/ FlushNothing(p) PROVE IInv'
<1>1. /\ UNCHANGED <<durable, phase, memory, cp, tried, deleted, skipped, impaired, used>>
      /\ Ready
  BY DEF FlushCall, FlushNothing, history, IInv, Excluded
<1> USE <1>1 DEF durable, memory
<1>2. op' \in [Proc -> OpRecord] /\ acked' \subseteq Sha
  <2>1. CASE FlushCall(p)
    <3>1. [op[p] EXCEPT !.at = "wantFlush"] \in OpRecord
      BY CallerTyped DEF OpRecord
    <3> QED
      BY <2>1, <3>1, CallerTyped DEF FlushCall, history, IInv, TypeOK
  <2> QED
    BY <2>1, Returned DEF FlushNothing
<1>3. \A q \in Proc : /\ op'[q].ids \subseteq op[q].ids
                      /\ op'[q].ids = {} \/ op'[q].snap = op[q].snap
                      /\ op'[q].at \in {"idle", "wantFlush"} \/ op'[q] = op[q]
  <2>1. op'[p].ids \subseteq op[p].ids /\ op'[p].at \in {"idle", "wantFlush"}
    BY CallerTyped DEF FlushCall, FlushNothing, Return, Idle, OpRecord
  <2>2. op'[p].ids = {} \/ op'[p].snap = op[p].snap
    BY CallerTyped DEF FlushCall, FlushNothing, Return, Idle, OpRecord
  <2>3. \A q \in Proc \ {p} : op'[q] = op[q]
    BY CallerTyped DEF FlushCall, FlushNothing, Return
  <2> QED
    BY <2>1, <2>2, <2>3
<1>4. Safe \subseteq Safe'
  BY SafeStays DEF Lost
<1>5. NamesFit' /\ JournalFits'
  BY <1>4, FilesStay
<1>6. TypeOK'
  BY <1>2 DEF IInv, TypeOK, OpRecord
<1>7. Counted'
  BY <1>3 DEF IInv, Counted
<1>8. LogFits'
  BY <1>3, <1>4 DEF IInv, LogFits, Logged
<1>9. Excluded' /\ CompactFits'
  BY <1>3 DEF IInv, Excluded, CompactFits, Ready, Compacting, Row, Lost, Holds
<1> QED
  BY <1>5, <1>6, <1>7, <1>8, <1>9 DEF IInv

LEMMA FlushTakeKeeps ==
    ASSUME IInv, NEW p \in Proc, FlushTake(p) PROVE IInv'
<1>1. /\ UNCHANGED <<durable, phase, fileKeys, tombstones, cp, tried, history, used>>
      /\ buffer' = Nothing /\ walIds' = {} /\ Ready /\ ~Compacting
  BY DEF FlushTake, IInv, Excluded
<1> USE <1>1 DEF durable, history
<1>2. /\ op' \in [Proc -> OpRecord]
      /\ op'[p].snap = buffer /\ op'[p].ids = walIds /\ op'[p].at = "flushing"
      /\ \A q \in Proc \ {p} : op'[q] = op[q]
  <2>1. [op[p] EXCEPT !.at = "flushing", !.snap = buffer, !.ids = walIds] \in OpRecord
    BY CallerTyped DEF OpRecord, IInv, TypeOK
  <2> QED
    BY <2>1, CallerTyped DEF FlushTake, OpRecord
<1>3. Safe \subseteq Safe'
  BY SafeStays DEF Lost
<1>4. NamesFit' /\ JournalFits'
  BY <1>3, FilesStay
<1>5. TypeOK'
  BY <1>2, Blank DEF IInv, TypeOK, OpRecord
<1>6. Counted'
  BY <1>2 DEF IInv, Counted
<1>7. LogFits'
  <2>1. \A q \in Proc : \A w \in wal :
           w.id \in op'[q].ids => op'[q].snap[w.sha] > 0 \/ w.sha \in Safe'
    <3> SUFFICES ASSUME NEW q \in Proc, NEW w \in wal, w.id \in op'[q].ids
                 PROVE  op'[q].snap[w.sha] > 0 \/ w.sha \in Safe'
      OBVIOUS
    <3>1. CASE q = p
      BY <3>1, <1>2, <1>3 DEF IInv, LogFits
    <3>2. CASE q # p
      BY <3>2, <1>2, <1>3 DEF IInv, LogFits
    <3> QED
      BY <3>1, <3>2
  <2> QED
    BY <2>1, <1>2, <1>3 DEF IInv, LogFits, Logged
<1>8. Excluded' /\ CompactFits'
  BY DEF IInv, Excluded, CompactFits, Ready, Compacting
<1> QED
  BY <1>4, <1>5, <1>6, <1>7, <1>8 DEF IInv

LEMMA FlushStoreKeeps ==
    ASSUME IInv, NEW p \in Proc, FlushStore(p) PROVE IInv'
<1> DEFINE b == op[p].snap
<1>1. /\ UNCHANGED <<wal, journal, shaCache, phase, memory, cp, tried, history, used>>
      /\ Ready /\ ~Compacting
  BY Working DEF FlushStore
<1> USE <1>1 DEF memory, history
<1>2. /\ b \in [Sha -> Nat] /\ Holds(b) \subseteq Sha
      /\ FlushKey(b) \in Key /\ FlushKey(b).uuid = 0 /\ FlushKey(b).rows = b
  BY CallerTyped DEF Holds, FlushKey, Key
<1>3. /\ DOMAIN r2' = DOMAIN r2 \cup {FlushKey(b)}
      /\ r2'[FlushKey(b)] = Holds(b)
      /\ \A k \in DOMAIN r2 : r2'[k] = r2[k]
  BY <1>2 DEF FlushStore, Put, IInv, NamesFit
<1>4. Safe \subseteq Safe'
  BY <1>3, SafeGrows DEF Lost, Gone, Leftovers
<1>5. /\ op' \in [Proc -> OpRecord]
      /\ \A q \in Proc : /\ op'[q].ids = op[q].ids /\ op'[q].snap = op[q].snap
                         /\ q = p \/ op'[q] = op[q]
      /\ op'[p].at = "stored"
  <2>1. [op[p] EXCEPT !.at = "stored"] \in OpRecord
    BY CallerTyped DEF OpRecord
  <2> QED
    BY <2>1, CallerTyped DEF FlushStore, OpRecord
<1>6. TypeOK'
  BY <1>2, <1>3, <1>5 DEF IInv, TypeOK, OpRecord
<1>7. Counted'
  BY <1>2, <1>3, <1>5 DEF IInv, Counted
<1>8. NamesFit'
  BY <1>2, <1>3, <1>4 DEF IInv, NamesFit, Holds
<1>9. JournalFits'
  BY DEF IInv, JournalFits, Ready
<1>10. LogFits'
  BY <1>3, <1>4, <1>5 DEF IInv, LogFits, Logged
<1>11. Excluded' /\ CompactFits'
  BY DEF IInv, Excluded, CompactFits, Ready, Compacting
<1> QED
  BY <1>6, <1>7, <1>8, <1>9, <1>10, <1>11 DEF IInv

LEMMA FlushEndKeeps ==
    ASSUME IInv, NEW p \in Proc, FlushEnd(p) PROVE IInv'
<1> DEFINE b == op[p].snap
<1>1. /\ UNCHANGED <<r2, journal, shaCache, phase, buffer, tombstones, walIds, cp, tried,
                     deleted, skipped, impaired, used>>
      /\ fileKeys' = fileKeys \cup {FlushKey(b)} /\ wal' = wal \ Covered(p)
      /\ Ready /\ ~Compacting
  BY Working DEF FlushEnd
<1> USE <1>1
<1>2. /\ FlushKey(b) \in Key /\ FlushKey(b).uuid = 0 /\ FlushKey(b).rows = b
  BY CallerTyped DEF FlushKey, Key
<1>3. FlushKey(b) \in DOMAIN r2 /\ Holds(b) \subseteq Safe
  BY FlushedIsSafe DEF FlushEnd, IInv, LogFits
<1>4. Safe \subseteq Safe'
  BY SafeStays DEF Lost
<1>5. op' \in [Proc -> OpRecord] /\ acked' \subseteq Sha
  BY Returned DEF FlushEnd
<1>6. \A q \in Proc : /\ op'[q].ids \subseteq op[q].ids
                      /\ op'[q].ids = {} \/ op'[q].snap = op[q].snap
                      /\ op'[q].at = "idle" \/ op'[q] = op[q]
  BY CallerTyped DEF FlushEnd, Return, Idle
<1>7. TypeOK'
  BY <1>2, <1>5 DEF IInv, TypeOK, OpRecord
<1>8. Counted'
  BY <1>2, <1>6 DEF IInv, Counted
<1>9. NamesFit'
  BY <1>2, <1>3, <1>4 DEF IInv, NamesFit, Holds
<1>10. JournalFits'
  BY <1>2 DEF IInv, JournalFits, Ready
<1>11. LogFits'
  <2>1. Logged \subseteq Logged' \cup Safe
    <3> SUFFICES ASSUME NEW w \in wal \ wal' PROVE w.sha \in Safe
      BY DEF Logged
    <3>1. b[w.sha] > 0 \/ w.sha \in Safe
      BY DEF Covered, IInv, LogFits
    <3> QED
      BY <3>1, <1>3 DEF Holds, IInv, TypeOK
  <2> QED
    BY <2>1, <1>4, <1>6 DEF IInv, LogFits
<1>12. Excluded' /\ CompactFits'
  BY DEF IInv, Excluded, CompactFits, Ready, Compacting
<1> QED
  BY <1>7, <1>8, <1>9, <1>10, <1>11, <1>12 DEF IInv

LEMMA FlushFailKeeps ==
    ASSUME IInv, NEW p \in Proc, FlushFail(p) PROVE IInv'
<1>1. /\ UNCHANGED <<durable, phase, memory, cp, tried, acked, deleted, skipped>>
      /\ op' = [op EXCEPT ![p] = Idle] /\ impaired' \in BOOLEAN /\ Use("faults")
      /\ Ready /\ ~Compacting
  BY Working DEF FlushFail, Flushing, Fault
<1> USE <1>1 DEF durable, memory
<1>2. op' \in [Proc -> OpRecord]
  BY CallerTyped, Blank
<1>3. \A q \in Proc : op'[q] = op[q] \/ (op'[q].ids = {} /\ op'[q].at = "idle")
  <2>1. op'[p] = Idle /\ \A q \in Proc \ {p} : op'[q] = op[q]
    BY CallerTyped
  <2>2. Idle.ids = {} /\ Idle.at = "idle"
    BY DEF Idle
  <2> QED
    BY <2>1, <2>2
<1>4. Safe \subseteq Safe'
  BY SafeStays DEF Lost
<1>5. NamesFit' /\ JournalFits'
  BY <1>4, FilesStay
<1>6. TypeOK'
  BY <1>2 DEF IInv, TypeOK, OpRecord
<1>7. Counted'
  BY <1>3 DEF IInv, Counted, Use
<1>8. LogFits'
  BY <1>3, <1>4 DEF IInv, LogFits, Logged
<1>9. Excluded' /\ CompactFits'
  BY DEF IInv, Excluded, CompactFits, Ready, Compacting
<1> QED
  BY <1>5, <1>6, <1>7, <1>8, <1>9 DEF IInv

-----------------------------------------------------------------------------
(* deleteObject.                                                            *)

LEMMA DeleteKeeps ==
    ASSUME IInv, NEW s \in Sha, DeleteObject(s) PROVE IInv'
<1>1. /\ UNCHANGED <<r2, journal, shaCache, phase, fileKeys, walIds, op, cp, tried, acked,
                     skipped, impaired, used>>
      /\ tombstones' = tombstones \cup {s} /\ buffer' = [buffer EXCEPT ![s] = 0]
      /\ wal' = {w \in wal : w.sha # s} /\ deleted' = deleted \cup {s}
  BY DEF DeleteObject
<1> USE <1>1
<1>2. Lost' = Lost \cup {s} /\ Safe \subseteq Safe' /\ s \in Safe'
  BY SafeStays DEF Lost, Safe
<1>3. NamesFit' /\ JournalFits'
  BY <1>2, FilesStay
<1>4. TypeOK'
  BY DEF IInv, TypeOK
<1>5. Counted'
  BY DEF IInv, Counted
<1>6. LogFits'
  <2>1. Logged \subseteq Logged' \cup {s}
    BY DEF Logged
  <2>2. \A w \in wal' : w.id \in walIds => buffer'[w.sha] > 0 \/ w.sha \in Safe'
    BY <1>2 DEF IInv, LogFits, TypeOK
  <2> QED
    BY <1>2, <2>1, <2>2 DEF IInv, LogFits
<1>7. Excluded'
  BY DEF IInv, Excluded, Ready, Compacting
<1>8. CompactFits'
  <2>1. Holds(buffer)' \subseteq Holds(buffer)
    BY DEF Holds, IInv, TypeOK
  <2> QED
    BY <1>2, <2>1 DEF IInv, CompactFits, Compacting, Row
<1> QED
  BY <1>3, <1>4, <1>5, <1>6, <1>7, <1>8 DEF IInv
-----------------------------------------------------------------------------
(* The steps of compact.                                                    *)

LEMMA CompactionTyped ==
    ASSUME IInv
    PROVE  /\ cp \in CpRecord /\ cp.src \subseteq Key /\ cp.target \in Key
           /\ cp.left \subseteq Key /\ cp.seen \subseteq Sha /\ cp.kept \subseteq Sha
BY DEF IInv, TypeOK, CpRecord

\* The files a restart would spare when a journal row is dropped.
LEMMA DropIsSafe ==
    ASSUME UNCHANGED <<r2, deleted, skipped>>, journal' \subseteq journal
    PROVE  Safe \subseteq Safe'
<1>1. Gone' \subseteq Gone
  BY DEF Gone, Leftovers
<1> QED
  BY <1>1, SafeGrows DEF Lost

LEMMA CompactBeginKeeps ==
    ASSUME IInv, CompactBegin PROVE IInv'
<1> DEFINE t == CompactKey(used.files + 1)
<1>1. /\ UNCHANGED <<r2, wal, shaCache, phase, memory, op, tried, history>>
      /\ Ready /\ ~Compacting /\ \A p \in Proc : op[p].at \in {"idle", "wantFlush"}
      /\ journal' = journal \cup {JournalRow(t)} /\ Use("files")
      /\ cp' = [NoCompaction EXCEPT !.at = "reading", !.src = fileKeys, !.target = t,
                                    !.left = fileKeys]
  BY DEF CompactBegin
<1> USE <1>1 DEF memory, history
<1>2. t \in Key /\ t.uuid = used.files + 1 /\ t.uuid \in Nat /\ t.uuid # 0
  BY Blank DEF CompactKey, Key, IInv, Counted
<1>3. /\ t \notin DOMAIN r2 \cup fileKeys
      /\ \A j \in journal : t # j.target /\ t \notin j.src
  BY <1>2 DEF IInv, Counted, TypeOK, Key
<1>4. /\ JournalRow(t).src = fileKeys /\ JournalRow(t).target = t
      /\ JournalRow(t).status = "in_progress" /\ Leftovers(JournalRow(t)) = {t}
  BY DEF JournalRow, Leftovers
<1>5. /\ cp' \in CpRecord /\ cp'.at = "reading" /\ cp'.src = fileKeys /\ cp'.left = fileKeys
      /\ cp'.target = t /\ cp'.seen = {} /\ cp'.kept = {}
  BY <1>2 DEF NoCompaction, CpRecord, IInv, TypeOK
<1>6. Safe \subseteq Safe'
  <2>1. Gone' = Gone \cup {t}
    BY <1>4 DEF Gone, Leftovers
  <2> QED
    BY <2>1, <1>3, SafeGrows DEF Lost
<1>7. TypeOK'
  <2>1. JournalRow(t) \in [src : SUBSET Key, target : Key, status : {"in_progress", "written"}]
    BY <1>2 DEF JournalRow, IInv, TypeOK
  <2> QED
    BY <1>5, <2>1 DEF IInv, TypeOK, CpRecord
<1>8. Counted'
  BY <1>2, <1>4 DEF IInv, Counted, Use, TypeOK, Key
<1>9. NamesFit'
  BY <1>4, <1>6 DEF IInv, NamesFit, Holds
<1>10. JournalFits'
  BY <1>2, <1>3, <1>4 DEF IInv, JournalFits, Ready
<1>11. LogFits'
  BY <1>6 DEF IInv, LogFits, Logged
<1>12. Excluded'
  BY DEF Excluded, Ready
<1>13. CompactFits'
  BY <1>5 DEF CompactFits, Row, JournalRow
<1> QED
  BY <1>7, <1>8, <1>9, <1>10, <1>11, <1>12, <1>13 DEF IInv

\* A step that only moves the compaction on: what is left to show of it.
LEMMA OnlyCompacting ==
    ASSUME IInv, Compacting, cp' \in CpRecord, skipped' \subseteq Sha,
           skipped \subseteq skipped', CompactFits',
           UNCHANGED <<durable, phase, memory, op, tried, acked, deleted, impaired>>,
           \/ UNCHANGED used
           \/ Use("faults")
    PROVE  IInv'
<1> USE DEF durable, memory
<1>1. Safe \subseteq Safe'
  BY SafeStays DEF Lost
<1>2. NamesFit' /\ JournalFits'
  BY <1>1, FilesStay
<1>3. TypeOK'
  BY DEF IInv, TypeOK, CpRecord
<1>4. Counted'
  BY DEF IInv, Counted, Use
<1>5. LogFits'
  BY <1>1 DEF IInv, LogFits, Logged
<1>6. Excluded'
  BY DEF IInv, Excluded, Ready, Compacting
<1> QED
  BY <1>2, <1>3, <1>4, <1>5, <1>6 DEF IInv

LEMMA CompactReadKeeps ==
    ASSUME IInv, NEW k \in cp.left, CompactRead(k) PROVE IInv'
<1> DEFINE new == (IF k \in DOMAIN r2 THEN r2[k] ELSE {}) \ (tombstones \cup cp.seen)
<1>1. /\ UNCHANGED <<durable, phase, memory, op, tried, history, used>>
      /\ cp.at = "reading" /\ Compacting
      /\ cp' = [cp EXCEPT !.left = @ \ {k}, !.seen = @ \cup new, !.kept = @ \cup new]
  BY DEF CompactRead, Compacting
<1> USE <1>1 DEF durable, memory, history
<1>2. new \subseteq Sha
  BY DEF IInv, TypeOK
<1> HIDE DEF new
<1>3. /\ cp' \in CpRecord /\ cp'.at = "reading" /\ cp'.src = cp.src /\ cp'.target = cp.target
      /\ cp'.left = cp.left \ {k} /\ cp'.seen = cp.seen \cup new /\ cp'.kept = cp.kept \cup new
  BY <1>2, CompactionTyped DEF CpRecord
<1>4. k \in DOMAIN r2 => r2[k] \subseteq new \cup cp.seen \cup Lost
  BY DEF new, IInv, LogFits, Lost
<1>5. CompactFits'
  BY <1>3, <1>4 DEF IInv, CompactFits, Row, Lost
<1> QED
  BY <1>3, <1>5, OnlyCompacting DEF IInv, TypeOK

LEMMA CompactReadPartKeeps ==
    ASSUME IInv, NEW k \in cp.left, NEW s, NEW before, CompactReadPart(k, s, before)
    PROVE  IInv'
<1> DEFINE new == before \ (tombstones \cup cp.seen)
<1>1. /\ UNCHANGED <<durable, phase, memory, op, tried, acked, deleted, impaired>>
      /\ cp.at = "reading" /\ Compacting /\ Use("faults")
      /\ s \in r2[k] \ (before \cup cp.seen) /\ before \subseteq r2[k] /\ k \in DOMAIN r2
      /\ cp' = [cp EXCEPT !.left = @ \ {k}, !.seen = @ \cup new \cup {s}, !.kept = @ \cup new]
      /\ skipped' = skipped \cup (r2[k] \ (before \cup cp.seen))
  BY DEF CompactReadPart, Compacting, Fault
<1> USE <1>1 DEF durable, memory
<1>2. new \cup {s} \subseteq Sha /\ skipped' \subseteq Sha
  BY DEF IInv, TypeOK
<1>3. r2[k] \subseteq new \cup cp.seen \cup Lost' /\ Lost \subseteq Lost' /\ s \in Lost'
  BY DEF IInv, LogFits, Lost
<1> HIDE DEF new
<1>4. /\ cp' \in CpRecord /\ cp'.at = "reading" /\ cp'.src = cp.src /\ cp'.target = cp.target
      /\ cp'.left = cp.left \ {k} /\ cp'.seen = cp.seen \cup new \cup {s}
      /\ cp'.kept = cp.kept \cup new
  BY <1>2, CompactionTyped DEF CpRecord
<1>5. CompactFits'
  BY <1>3, <1>4 DEF IInv, CompactFits, Row
<1> QED
  BY <1>2, <1>4, <1>5, OnlyCompacting

LEMMA CompactMergeKeeps ==
    ASSUME IInv, CompactMerge PROVE IInv'
<1>1. /\ UNCHANGED <<durable, phase, memory, op, tried, history, used>>
      /\ cp.at = "reading" /\ cp.left = {} /\ Compacting
      /\ cp' = [cp EXCEPT !.at = "merged", !.kept = @ \cup Folded]
  BY DEF CompactMerge, Compacting
<1> USE <1>1 DEF durable, memory, history
<1>2. Folded \subseteq Sha /\ Holds(buffer) \subseteq Folded \cup cp.seen \cup Lost
  BY DEF Folded, Holds, IInv, LogFits, Lost
<1>3. /\ cp' \in CpRecord /\ cp'.at = "merged" /\ cp'.src = cp.src /\ cp'.target = cp.target
      /\ cp'.left = cp.left /\ cp'.seen = cp.seen /\ cp'.kept = cp.kept \cup Folded
  BY <1>2, CompactionTyped DEF CpRecord
<1>4. CompactFits'
  BY <1>2, <1>3 DEF IInv, CompactFits, Row, Lost, Holds
<1> QED
  BY <1>3, <1>4, OnlyCompacting DEF IInv, TypeOK

\* Recovery and a compaction delete only what recovery may delete.
LEMMA RemoveIsSafe ==
    ASSUME NEW k \in Gone, r2' = Remove(k), UNCHANGED <<journal, deleted, skipped>>
    PROVE  /\ Safe \subseteq Safe'
           /\ DOMAIN r2' = DOMAIN r2 \ {k}
           /\ \A f \in DOMAIN r2' : r2'[f] = r2[f]
<1>1. DOMAIN r2' = DOMAIN r2 \ {k} /\ \A f \in DOMAIN r2' : r2'[f] = r2[f]
  BY DEF Remove, Restrict
<1>2. Gone' = Gone
  BY DEF Gone, Leftovers
<1> QED
  BY <1>1, <1>2, SafeGrows DEF Lost

LEMMA CompactNothingKeeps ==
    ASSUME IInv, CompactNothing PROVE IInv'
<1>1. /\ UNCHANGED <<r2, wal, shaCache, phase, memory, op, tried, history, used>>
      /\ journal' \subseteq journal /\ cp' = NoCompaction /\ Compacting
  BY DEF CompactNothing, JournalDrop, Compacting
<1> USE <1>1 DEF memory, history
<1>2. cp' \in CpRecord /\ cp'.at = "idle"
  BY Blank DEF NoCompaction
<1>3. Safe \subseteq Safe'
  BY DropIsSafe
<1>4. TypeOK'
  BY <1>2 DEF IInv, TypeOK, CpRecord
<1>5. Counted' /\ NamesFit' /\ JournalFits'
  BY <1>3 DEF IInv, Counted, NamesFit, JournalFits, Holds, Ready
<1>6. LogFits'
  BY <1>3 DEF IInv, LogFits, Logged
<1>7. Excluded' /\ CompactFits'
  BY <1>2 DEF IInv, Excluded, CompactFits, Compacting, Ready
<1> QED
  BY <1>4, <1>5, <1>6, <1>7 DEF IInv

LEMMA CompactStoreKeeps ==
    ASSUME IInv, CompactStore PROVE IInv'
<1> DEFINE t == cp.target
<1>1. /\ UNCHANGED <<wal, journal, shaCache, phase, memory, op, tried, history, used>>
      /\ cp.at = "merged" /\ Compacting
      /\ r2' = Put(t, cp.kept) /\ cp' = [cp EXCEPT !.at = "stored"]
  BY DEF CompactStore, Compacting
<1> USE <1>1 DEF memory, history
<1>2. /\ Row \in journal /\ Row.src = cp.src /\ Row.target = t /\ Leftovers(Row) = {t}
      /\ t \notin cp.src /\ t.uuid # 0 /\ t.uuid <= used.files
  BY DEF IInv, CompactFits, JournalFits, Counted, Row, Leftovers
<1>3. /\ DOMAIN r2' = DOMAIN r2 \cup {t} /\ r2'[t] = cp.kept
      /\ \A k \in DOMAIN r2 \ {t} : r2'[k] = r2[k]
  BY DEF Put
<1>4. /\ cp' \in CpRecord /\ cp'.at = "stored" /\ cp'.src = cp.src /\ cp'.target = t
      /\ cp'.left = cp.left /\ cp'.seen = cp.seen /\ cp'.kept = cp.kept
  BY CompactionTyped DEF CpRecord
<1>5. Safe \subseteq Safe'
  <2>1. t \in Gone /\ Gone' = Gone
    BY <1>2 DEF Gone, Leftovers
  <2> QED
    BY <2>1, <1>3, SafeGrows DEF Lost
<1>6. TypeOK'
  BY <1>3, <1>4, CompactionTyped DEF IInv, TypeOK, CpRecord
<1>7. Counted' /\ NamesFit' /\ JournalFits'
  <2>1. Counted'
    BY <1>2, <1>3 DEF IInv, Counted
  <2>2. NamesFit'
    BY <1>2, <1>3, <1>5 DEF IInv, NamesFit, Holds
  <2>3. JournalFits'
    BY DEF IInv, JournalFits, Ready
  <2> QED
    BY <2>1, <2>2, <2>3
<1>8. LogFits'
  BY <1>3, <1>5 DEF IInv, LogFits, Logged
<1>9. Excluded'
  BY DEF IInv, Excluded, Compacting, Ready
<1>10. CompactFits'
  BY <1>2, <1>3, <1>4 DEF IInv, CompactFits, Row, Lost, Holds
<1> QED
  BY <1>6, <1>7, <1>8, <1>9, <1>10 DEF IInv

\* Once the target is confirmed it takes the place of the sources.
LEMMA CompactMarkKeeps ==
    ASSUME IInv, CompactMark PROVE IInv'
<1> DEFINE t == cp.target
           written == [Row EXCEPT !.status = "written"]
<1>1. /\ UNCHANGED <<r2, wal, shaCache, phase, memory, op, tried, history, used>>
      /\ cp.at = "stored" /\ Compacting
      /\ journal' = JournalMark(t) /\ cp' = [cp EXCEPT !.at = "deleting", !.left = cp.src]
  BY DEF CompactMark, Compacting
<1> USE <1>1 DEF memory, history
<1>2. /\ Row \in journal /\ Row.src = cp.src /\ Row.target = t /\ Leftovers(Row) = {t}
      /\ t \in DOMAIN r2 /\ r2[t] = cp.kept
      /\ \A k \in cp.src \cap DOMAIN r2 : r2[k] \subseteq cp.kept \cup Lost
  BY DEF IInv, CompactFits, Row, Leftovers
<1>3. /\ written.src = cp.src /\ written.target = t /\ written.status = "written"
      /\ Leftovers(written) = cp.src
      /\ written \in [src : SUBSET Key, target : Key, status : {"in_progress", "written"}]
  BY CompactionTyped DEF Row, Leftovers
<1>4. /\ cp' \in CpRecord /\ cp'.at = "deleting" /\ cp'.src = cp.src /\ cp'.target = t
      /\ cp'.left = cp.src /\ cp'.seen = cp.seen /\ cp'.kept = cp.kept
  BY CompactionTyped DEF CpRecord
<1>5. journal' = (journal \ {Row}) \cup {written}
  <2>1. \A j \in journal : j.target = t => j = Row
    BY <1>2 DEF IInv, JournalFits
  <2>2. \A j \in journal \ {Row} : [j EXCEPT !.status = IF j.target = t THEN "written" ELSE @] = j
    BY <2>1 DEF IInv, TypeOK
  <2>3. [Row EXCEPT !.status = IF Row.target = t THEN "written" ELSE @] = written
    BY <1>2
  <2> QED
    BY <1>2, <2>2, <2>3 DEF JournalMark
<1> HIDE DEF written
<1>6. Safe \subseteq Safe'
  <2>1. Gone' \subseteq Gone \cup cp.src
    BY <1>3, <1>5 DEF Gone, Leftovers
  <2>2. t \notin Gone'
    <3>1. \A j \in journal' : t \notin j.src /\ (j.status # "written" => t # j.target)
      BY <1>2, <1>3, <1>5 DEF IInv, JournalFits
    <3> QED
      BY <3>1 DEF Gone, Leftovers
  <2>3. cp.kept \subseteq Filed'
    BY <1>2, <2>2 DEF Filed
  <2> SUFFICES ASSUME NEW k \in DOMAIN r2 \ Gone PROVE r2[k] \subseteq Safe'
    BY DEF Safe, Filed, Lost
  <2>4. CASE k \in cp.src
    BY <1>2, <2>3, <2>4 DEF Safe, Lost
  <2>5. CASE k \notin cp.src
    BY <2>1, <2>5 DEF Safe, Filed
  <2> QED
    BY <2>4, <2>5
<1>7. TypeOK'
  BY <1>3, <1>4, <1>5 DEF IInv, TypeOK, CpRecord
<1>8. Counted'
  BY <1>2, <1>3, <1>5 DEF IInv, Counted
<1>9. NamesFit'
  BY <1>2, <1>3, <1>5, <1>6 DEF IInv, NamesFit, Holds
<1>10. JournalFits'
  BY <1>2, <1>3, <1>5 DEF IInv, JournalFits, Ready
<1>11. LogFits'
  BY <1>6 DEF IInv, LogFits, Logged
<1>12. Excluded'
  BY DEF IInv, Excluded, Compacting, Ready
<1>13. CompactFits'
  <2>1. Row' = written
    BY <1>4 DEF Row, written
  <2> QED
    BY <1>2, <1>4, <1>5, <2>1 DEF IInv, CompactFits, Lost, Holds
<1> QED
  BY <1>7, <1>8, <1>9, <1>10, <1>11, <1>12, <1>13 DEF IInv

LEMMA CompactDeleteKeeps ==
    ASSUME IInv, NEW k \in cp.left, CompactDelete(k) PROVE IInv'
<1>1. /\ UNCHANGED <<wal, journal, shaCache, phase, memory, op, tried, history, used>>
      /\ cp.at = "deleting" /\ Compacting
      /\ r2' = Remove(k) /\ cp' = [cp EXCEPT !.left = @ \ {k}]
  BY DEF CompactDelete, Compacting
<1> USE <1>1 DEF memory, history
<1>2. k \in Gone /\ k # cp.target
  BY DEF IInv, CompactFits, JournalFits, Row, Gone, Leftovers
<1>3. /\ Safe \subseteq Safe'
      /\ DOMAIN r2' = DOMAIN r2 \ {k} /\ \A f \in DOMAIN r2' : r2'[f] = r2[f]
  BY <1>2, RemoveIsSafe
<1>4. /\ cp' \in CpRecord /\ cp'.at = "deleting" /\ cp'.src = cp.src
      /\ cp'.target = cp.target /\ cp'.left = cp.left \ {k}
      /\ cp'.seen = cp.seen /\ cp'.kept = cp.kept
  BY CompactionTyped DEF CpRecord
<1>5. TypeOK'
  BY <1>3, <1>4 DEF IInv, TypeOK, CpRecord
<1>6. Counted' /\ NamesFit' /\ JournalFits'
  BY <1>3 DEF IInv, Counted, NamesFit, JournalFits, Holds, Ready
<1>7. LogFits'
  BY <1>3 DEF IInv, LogFits, Logged, Excluded, Compacting
<1>8. Excluded'
  BY DEF IInv, Excluded, Compacting, Ready
<1>9. CompactFits'
  BY <1>2, <1>3, <1>4 DEF IInv, CompactFits, Row, Lost, Holds
<1> QED
  BY <1>5, <1>6, <1>7, <1>8, <1>9 DEF IInv

LEMMA CompactEndKeeps ==
    ASSUME IInv, CompactEnd PROVE IInv'
<1> DEFINE t == cp.target
<1>1. /\ UNCHANGED <<r2, wal, shaCache, phase, walIds, op, tried, history, used>>
      /\ cp.at = "deleting" /\ Compacting
      /\ fileKeys' = {t} /\ buffer' = Nothing /\ tombstones' = {}
      /\ journal' = {j \in journal : j.target # t} /\ cp' = NoCompaction
  BY DEF CompactEnd, JournalDrop, Compacting
<1> USE <1>1 DEF history
<1>2. /\ Row \in journal /\ Row.target = t /\ t \in DOMAIN r2 /\ r2[t] = cp.kept
      /\ Holds(buffer) \subseteq cp.kept \cup Lost
      /\ t \in Key /\ t.uuid # 0 /\ t.uuid <= used.files
  BY CompactionTyped DEF IInv, CompactFits, JournalFits, Counted, Row
<1>3. Safe \subseteq Safe'
  BY DropIsSafe
<1>4. cp.kept \subseteq Safe'
  <2>1. \A j \in journal' : t \notin j.src /\ t # j.target
    BY <1>2 DEF IInv, JournalFits
  <2>2. t \notin Gone'
    BY <2>1 DEF Gone, Leftovers
  <2> QED
    BY <1>2, <2>2 DEF Safe, Filed
<1>5. cp' \in CpRecord /\ cp'.at = "idle"
  BY Blank DEF NoCompaction
<1>6. TypeOK'
  BY <1>2, <1>5, Blank DEF IInv, TypeOK, CpRecord
<1>7. Counted'
  BY <1>2 DEF IInv, Counted
<1>8. NamesFit'
  BY <1>2, <1>3 DEF IInv, NamesFit, Holds
<1>9. JournalFits'
  BY <1>2 DEF IInv, JournalFits, Ready
<1>10. LogFits'
  <2>1. Lost \subseteq Safe'
    BY <1>3 DEF Safe
  <2>2. \A w \in wal : w.id \in walIds => w.sha \in Safe'
    BY <1>2, <1>3, <1>4, <2>1 DEF IInv, LogFits, Holds, TypeOK
  <2> QED
    BY <1>3, <2>2 DEF IInv, LogFits, Logged
<1>11. Excluded' /\ CompactFits'
  BY <1>5 DEF IInv, Excluded, CompactFits, Compacting, Ready
<1> QED
  BY <1>6, <1>7, <1>8, <1>9, <1>10, <1>11 DEF IInv

LEMMA CompactFailKeeps ==
    ASSUME IInv, CompactFail PROVE IInv'
<1>1. /\ UNCHANGED <<wal, journal, shaCache, phase, memory, op, tried, acked, deleted, skipped>>
      /\ Compacting /\ cp' = NoCompaction /\ Use("faults")
  BY DEF CompactFail, Fault
<1>2. impaired' \in BOOLEAN
  BY DEF CompactFail, IInv, TypeOK
<1> USE <1>1 DEF memory
<1>3. /\ Safe \subseteq Safe'
      /\ DOMAIN r2' \subseteq DOMAIN r2 /\ \A f \in DOMAIN r2' : r2'[f] = r2[f]
  <2>1. CASE UNCHANGED r2
    BY <2>1, SafeStays DEF Lost
  <2>2. CASE cp.at = "deleting" /\ \E k \in cp.left : r2' = Remove(k)
    <3>1. PICK k \in cp.left : r2' = Remove(k)
      BY <2>2
    <3>2. k \in Gone
      BY <2>2 DEF IInv, CompactFits, Row, Gone, Leftovers
    <3> QED
      BY <3>1, <3>2, RemoveIsSafe
  <2> QED
    BY <2>1, <2>2 DEF CompactFail
<1>4. cp' \in CpRecord /\ cp'.at = "idle"
  BY Blank DEF NoCompaction
<1>5. TypeOK'
  BY <1>2, <1>3, <1>4 DEF IInv, TypeOK, CpRecord
<1>6. Counted' /\ NamesFit' /\ JournalFits'
  BY <1>3 DEF IInv, Counted, NamesFit, JournalFits, Holds, Ready, Use
<1>7. LogFits'
  BY <1>3 DEF IInv, LogFits, Logged, Excluded, Compacting
<1>8. Excluded' /\ CompactFits'
  BY <1>4 DEF IInv, Excluded, CompactFits, Compacting, Ready
<1> QED
  BY <1>5, <1>6, <1>7, <1>8 DEF IInv
-----------------------------------------------------------------------------
(* A crash and the steps of recovery.                                       *)

LEMMA CrashKeeps ==
    ASSUME IInv, Crash PROVE IInv'
<1>1. /\ UNCHANGED <<durable, acked, deleted, skipped, impaired>> /\ Use("crashes")
      /\ phase' = "down" /\ tried' = {} /\ cp' = NoCompaction
      /\ buffer' = Nothing /\ fileKeys' = {} /\ tombstones' = {} /\ walIds' = {}
      /\ op' = [p \in Proc |-> Idle]
  BY DEF Crash
<1> USE <1>1 DEF durable
<1>2. /\ op' \in [Proc -> OpRecord] /\ cp' \in CpRecord /\ cp'.at = "idle"
      /\ \A p \in Proc : op'[p].at = "idle" /\ op'[p].ids = {}
  BY Blank DEF NoCompaction, Idle
<1>3. Safe \subseteq Safe'
  BY SafeStays DEF Lost
<1>4. TypeOK'
  BY <1>2, Blank DEF IInv, TypeOK, CpRecord, OpRecord
<1>5. Counted'
  BY <1>2 DEF IInv, Counted, Use
<1>6. NamesFit' /\ JournalFits'
  BY <1>3 DEF IInv, NamesFit, JournalFits, Holds, Ready
<1>7. LogFits'
  BY <1>2, <1>3 DEF IInv, LogFits, Logged
<1>8. Excluded' /\ CompactFits'
  BY <1>2 DEF Excluded, CompactFits, Compacting
<1> QED
  BY <1>4, <1>5, <1>6, <1>7, <1>8 DEF IInv

LEMMA BootKeeps ==
    ASSUME IInv, Boot \/ BootFail PROVE IInv'
<1>1. /\ UNCHANGED <<durable, buffer, tombstones, walIds, op, cp, tried, acked, deleted, skipped>>
      /\ fileKeys' \in {fileKeys, DOMAIN r2} /\ impaired' \in BOOLEAN
      /\ UNCHANGED used \/ Use("faults")
      /\ ~Ready /\ phase' \in {"recovering", "broken"}
  BY DEF Boot, BootFail, memory, history, Fault, Ready, IInv, TypeOK
<1> USE <1>1 DEF durable
<1>2. Safe \subseteq Safe'
  BY SafeStays DEF Lost
<1>3. TypeOK'
  BY DEF IInv, TypeOK
<1>4. Counted'
  BY DEF IInv, Counted, Use
<1>5. NamesFit'
  <2>1. \A k \in DOMAIN r2 : k.uuid = 0 => Holds(k.rows) \subseteq Safe
    <3> SUFFICES ASSUME NEW k \in DOMAIN r2, k.uuid = 0 PROVE Holds(k.rows) \subseteq Safe
      OBVIOUS
    <3>1. k = FlushKey(k.rows)
      BY DEF IInv, TypeOK, Key, FlushKey
    <3> QED
      BY <3>1, FlushedIsSafe
  <2> QED
    BY <2>1, <1>2 DEF IInv, NamesFit, Holds
<1>6. JournalFits'
  BY DEF IInv, JournalFits, Ready
<1>7. LogFits'
  BY <1>2 DEF IInv, LogFits, Logged
<1>8. Excluded' /\ CompactFits'
  BY DEF IInv, Excluded, CompactFits, Compacting, Ready
<1> QED
  BY <1>3, <1>4, <1>5, <1>6, <1>7, <1>8 DEF IInv

LEMMA RecoverDeleteKeeps ==
    ASSUME IInv, NEW j \in journal, NEW k \in Leftovers(j), RecoverDelete(j, k) PROVE IInv'
<1>1. /\ UNCHANGED <<wal, journal, shaCache, phase, memory, op, cp, history>>
      /\ ~Ready /\ tried' = tried \cup {k}
      /\ \/ r2' = Remove(k) /\ UNCHANGED used
         \/ UNCHANGED r2 /\ Use("faults")
  BY DEF RecoverDelete, Ready, Fault
<1> USE <1>1 DEF memory, history
<1>2. k \in Gone /\ k \in Key
  BY DEF Gone, Leftovers, IInv, TypeOK
<1>3. /\ Safe \subseteq Safe'
      /\ DOMAIN r2' \subseteq DOMAIN r2 /\ \A f \in DOMAIN r2' : r2'[f] = r2[f]
  <2>1. CASE UNCHANGED r2
    BY <2>1, SafeStays DEF Lost
  <2>2. CASE r2' = Remove(k)
    BY <2>2, <1>2, RemoveIsSafe
  <2> QED
    BY <2>1, <2>2
<1>4. TypeOK'
  BY <1>2, <1>3 DEF IInv, TypeOK
<1>5. Counted' /\ NamesFit' /\ JournalFits'
  BY <1>3 DEF IInv, Counted, NamesFit, JournalFits, Holds, Ready, Use
<1>6. LogFits'
  BY <1>3 DEF IInv, LogFits, Logged, Excluded
<1>7. Excluded' /\ CompactFits'
  BY DEF IInv, Excluded, CompactFits, Compacting, Ready
<1> QED
  BY <1>4, <1>5, <1>6, <1>7 DEF IInv

LEMMA RecoverRowKeeps ==
    ASSUME IInv, NEW j \in journal, RecoverRow(j) PROVE IInv'
<1>1. /\ UNCHANGED <<r2, wal, shaCache, phase, buffer, tombstones, walIds, op, cp, history, used>>
      /\ ~Ready /\ journal' = journal \ {j} /\ tried' = {}
      /\ fileKeys' \subseteq fileKeys \cup {j.target}
  BY DEF RecoverRow, Ready
<1> USE <1>1 DEF history
<1>2. Safe \subseteq Safe'
  BY DropIsSafe
<1>3. TypeOK'
  BY DEF IInv, TypeOK
<1>4. Counted'
  BY DEF IInv, Counted
<1>5. NamesFit' /\ JournalFits'
  BY <1>2 DEF IInv, NamesFit, JournalFits, Holds, Ready
<1>6. LogFits'
  BY <1>2 DEF IInv, LogFits, Logged
<1>7. Excluded' /\ CompactFits'
  BY DEF IInv, Excluded, CompactFits, Compacting, Ready
<1> QED
  BY <1>3, <1>4, <1>5, <1>6, <1>7 DEF IInv

LEMMA RecoverWALKeeps ==
    ASSUME IInv, RecoverWAL PROVE IInv'
<1>1. /\ UNCHANGED <<durable, fileKeys, tombstones, op, cp, tried, history, used>>
      /\ ~Ready /\ phase' = "ready" /\ journal = {}
      /\ buffer' = [s \in Sha |-> IF \E w \in wal : w.sha = s THEN 1 ELSE 0]
      /\ walIds' = {w.id : w \in wal}
  BY DEF RecoverWAL, Ready
<1> USE <1>1 DEF durable, history
<1>2. Safe \subseteq Safe'
  BY SafeStays DEF Lost
<1>3. TypeOK'
  BY DEF IInv, TypeOK
<1>4. Counted' /\ NamesFit' /\ JournalFits'
  BY <1>2 DEF IInv, Counted, NamesFit, JournalFits, Holds
<1>5. LogFits'
  <2>1. \A w \in wal : buffer'[w.sha] > 0
    BY DEF IInv, TypeOK
  <2> QED
    BY <1>2, <2>1 DEF IInv, LogFits, Logged
<1>6. Excluded' /\ CompactFits'
  BY DEF IInv, Excluded, CompactFits, Compacting, Ready
<1> QED
  BY <1>3, <1>4, <1>5, <1>6 DEF IInv
-----------------------------------------------------------------------------
LEMMA StutterKeeps ==
    ASSUME IInv, UNCHANGED vars PROVE IInv'
<1> USE DEF vars, durable, memory, history
<1>1. Safe \subseteq Safe'
  BY SafeStays DEF Lost
<1>2. TypeOK' /\ Counted'
  BY DEF IInv, TypeOK, Counted
<1>3. NamesFit' /\ JournalFits'
  BY <1>1, FilesStay
<1>4. LogFits'
  BY <1>1 DEF IInv, LogFits, Logged
<1>5. Excluded' /\ CompactFits'
  BY DEF IInv, Excluded, CompactFits, Compacting, Ready, Row, Lost, Holds
<1> QED
  BY <1>2, <1>3, <1>4, <1>5 DEF IInv

LEMMA StepKeeps ==
    ASSUME IInv, [Next]_vars PROVE IInv'
<1>1. CASE \E p \in Proc : PutObject(p)
  BY <1>1, PutKeeps
<1>2. CASE \E p \in Proc : Flush(p)
  BY <1>2, FlushCallKeeps, FlushTakeKeeps, FlushStoreKeeps, FlushEndKeeps, FlushFailKeeps
     DEF Flush
<1>3. CASE \E s \in Sha : DeleteObject(s)
  BY <1>3, DeleteKeeps
<1>4. CASE Compact
  <2>1. CASE \E k \in cp.left : CompactRead(k) \/ CompactDelete(k)
    BY <2>1, CompactReadKeeps, CompactDeleteKeeps
  <2>2. CASE \E k \in cp.left \cap DOMAIN r2 :
               \E s \in r2[k] : \E before \in SUBSET r2[k] : CompactReadPart(k, s, before)
    <3>1. PICK k \in cp.left : \E s, before : CompactReadPart(k, s, before)
      BY <2>2
    <3> QED
      BY <3>1, CompactReadPartKeeps
  <2> QED
    BY <1>4, <2>1, <2>2, CompactBeginKeeps, CompactNothingKeeps, CompactMergeKeeps,
       CompactStoreKeeps, CompactMarkKeeps, CompactEndKeeps, CompactFailKeeps DEF Compact
<1>5. CASE Crash
  BY <1>5, CrashKeeps
<1>6. CASE Recover
  BY <1>6, BootKeeps, RecoverWALKeeps, RecoverRowKeeps, RecoverDeleteKeeps DEF Recover
<1> QED
  BY <1>1, <1>2, <1>3, <1>4, <1>5, <1>6, StutterKeeps DEF Next

(* Every state of the store satisfies the inductive invariant.              *)
THEOREM Inductive == Spec => []IInv
<1>1. Init => IInv
  BY Initially
<1>2. IInv /\ [Next]_vars => IInv'
  BY StepKeeps
<1> QED
  BY <1>1, <1>2, PTL DEF Spec

(* The variables of the store keep their types, whatever fails or restarts. *)
THEOREM TypeCorrect == Spec => []TypeOK
<1>1. IInv => TypeOK
  BY DEF IInv
<1> QED
  BY <1>1, Inductive, PTL

(* What hasObject vouches for from its exact cache, so that a push skips    *)
(* the upload, is in the log or in a file on R2, through any failures and   *)
(* restarts.                                                                *)
THEOREM VouchedIsOnDisk == Spec => []HasObjectIsHonest
<1>1. IInv => HasObjectIsHonest
  BY DEF IInv, LogFits, Safe, Filed, Logged, HasObjectIsHonest, StoredWithout
<1> QED
  BY <1>1, Inductive, PTL

(* Whatever row of the journal a restart finds, the files it deletes for it *)
(* hold no object alone (recoverCompaction).                                *)
THEOREM RecoveryIsSafe == Spec => []RecoveryLosesNothing
<1>1. IInv => RecoveryLosesNothing
  <2> SUFFICES ASSUME IInv, NEW j \in journal
               PROVE  shaCache \ Lost \subseteq StoredWithout(Leftovers(j))
    BY DEF RecoveryLosesNothing
  <2>1. Leftovers(j) \subseteq Gone
    BY DEF Gone
  <2>2. Filed \cup Logged \subseteq StoredWithout(Leftovers(j))
    BY <2>1 DEF Filed, Logged, StoredWithout
  <2> QED
    BY <2>2 DEF IInv, LogFits, Safe
<1> QED
  BY <1>1, Inductive, PTL

(* The log row of an object leaves only after the object is in a file on    *)
(* R2, for any interleaving of puts, flushes and compactions (flush).       *)
THEOREM LogOutlivesFlush == Spec => LogDroppedOnlyWhenFiled
<1> DEFINE Covers == \A w \in wal \ wal' :
                        \/ w.sha \in Lost'
                        \/ \E k \in DOMAIN r2' : w.sha \in r2'[k]
<1>1. IInv /\ [Next]_vars => [Covers]_vars
  <2> SUFFICES ASSUME IInv, Next, NEW w \in wal \ wal'
               PROVE  w.sha \in Lost' \/ \E k \in DOMAIN r2' : w.sha \in r2'[k]
    OBVIOUS
  <2>1. CASE \E p \in Proc : FlushEnd(p)
    <3>1. PICK p \in Proc : FlushEnd(p)
      BY <2>1
    <3>2. op[p].at = "stored" /\ UNCHANGED <<r2, deleted, skipped>> /\ w.id \in op[p].ids
      BY <3>1 DEF FlushEnd, Covered
    <3>3. op[p].snap[w.sha] > 0 \/ w.sha \in Safe
      BY <3>2 DEF IInv, LogFits
    <3>4. Holds(op[p].snap) \subseteq Safe
      BY <3>2, FlushedIsSafe DEF IInv, LogFits
    <3>5. w.sha \in Safe
      BY <3>3, <3>4 DEF Holds, IInv, TypeOK
    <3> QED
      BY <3>2, <3>5 DEF Safe, Filed, Lost
  <2>2. CASE \E s \in Sha : DeleteObject(s)
    BY <2>2 DEF DeleteObject, Lost
  <2>3. CASE wal \subseteq wal'
    BY <2>3
  <2> QED
    BY <2>1, <2>2, <2>3 DEF Next, PutObject, PutBegin, PutFail, PutInsert, Flush, FlushCall,
       FlushNothing, FlushTake, FlushStore, FlushFail, Compact, CompactBegin, CompactNothing,
       CompactMerge, CompactStore, CompactMark, CompactEnd, CompactFail, CompactRead,
       CompactDelete, CompactReadPart, Crash, Recover, Boot, BootFail, RecoverRow, RecoverWAL,
       RecoverDelete, durable
<1> QED
  BY <1>1, Inductive, PTL DEF Spec, LogDroppedOnlyWhenFiled
-----------------------------------------------------------------------------
(* Reading back what was acknowledged.                                      *)

Listed == UNION {r2[k] : k \in fileKeys \cap DOMAIN r2}
Spared == UNION {r2[k] : k \in (fileKeys \cap DOMAIN r2) \ Gone}
Carried == UNION {Holds(op[p].snap) : p \in {q \in Proc : Flushing(q)}}
Merged == IF cp.at = "deleting" THEN cp.kept ELSE {}
AtHand == Lost \cup Holds(buffer) \cup Listed \cup Carried \cup Merged

\* An object is cached before it is acknowledged, a compaction takes every
\* file that is listed, and what is cached is at hand.
ReadFits ==
    /\ acked \subseteq shaCache
    /\ \A p \in Proc : op[p].at \in {"wantFlush", "flushing", "stored"} =>
                          op[p].sha \in shaCache \cup {None}
    /\ Compacting => fileKeys \subseteq cp.src
    /\ cp.at = "deleting" => \A k \in cp.src \cap DOMAIN r2 : r2[k] \subseteq cp.kept \cup Lost
    /\ phase = "recovering" => shaCache \subseteq Lost \cup Logged \cup Spared
    /\ Ready /\ ~impaired => shaCache \subseteq AtHand

LEMMA CarriedGrows ==
    ASSUME \A p \in Proc : Flushing(p) => Flushing(p)' /\ op'[p].snap = op[p].snap
    PROVE  Carried \subseteq Carried'
BY DEF Carried, Holds

\* Callers move only on a ready store, while no compaction has a file open.
LEMMA CallersRead ==
    ASSUME IInv, ReadFits, Ready,
           UNCHANGED <<r2, journal, phase, cp, deleted, skipped>>,
           fileKeys \subseteq fileKeys', Compacting => UNCHANGED fileKeys,
           shaCache \subseteq shaCache', acked' \subseteq shaCache',
           \A p \in Proc : op'[p].at \in {"wantFlush", "flushing", "stored"} =>
                              op'[p].sha \in shaCache' \cup {None},
           ~impaired' => ~impaired /\ shaCache' \subseteq shaCache \cup AtHand',
           ~impaired' => Holds(buffer) \cup Carried \subseteq AtHand'
    PROVE  ReadFits'
<1>1. (Ready /\ ~impaired)' => (shaCache \subseteq AtHand)'
  <2>1. Listed \subseteq Listed' /\ Lost' = Lost /\ Merged' = Merged
    BY DEF Listed, Lost, Merged
  <2> SUFFICES ASSUME ~impaired' PROVE shaCache' \subseteq AtHand'
    OBVIOUS
  <2>2. shaCache \subseteq AtHand
    BY DEF ReadFits
  <2>3. AtHand \subseteq AtHand'
    BY <2>1 DEF AtHand
  <2> QED
    BY <2>2, <2>3
<1>2. (Compacting => fileKeys \subseteq cp.src)'
  BY DEF ReadFits, Compacting
<1>3. (cp.at = "deleting" => \A k \in cp.src \cap DOMAIN r2 : r2[k] \subseteq cp.kept \cup Lost)'
  BY DEF ReadFits, Lost
<1> QED
  BY <1>1, <1>2, <1>3 DEF ReadFits, Ready

LEMMA PutReads ==
    ASSUME IInv, ReadFits, NEW p \in Proc, PutObject(p) PROVE ReadFits'
<1>1. /\ UNCHANGED <<r2, journal, fileKeys, phase, cp, deleted, skipped, impaired>>
      /\ Ready /\ ~Compacting
  BY Working DEF PutObject, PutBegin, PutFail, PutInsert, durable, memory, history
<1>2. Carried \subseteq Carried'
  <2>1. ~Flushing(p) /\ \A q \in Proc \ {p} : op'[q] = op[q]
    BY CallerTyped DEF PutObject, PutBegin, PutFail, PutInsert, Flushing, Idle
  <2> QED
    BY <2>1, CarriedGrows DEF Flushing
<1>3. CASE (\E s \in Sha : PutBegin(p, s)) \/ PutFail(p)
  <2>1. UNCHANGED <<buffer, shaCache, acked>>
    BY <1>3 DEF PutBegin, PutFail, durable, memory, history
  <2>2. op'[p].at \in {"idle", "hashing"} /\ \A q \in Proc \ {p} : op'[q] = op[q]
    BY <1>3, CallerTyped DEF PutBegin, PutFail, Idle
  <2> QED
    BY <1>1, <1>2, <2>1, <2>2, CallersRead DEF ReadFits, AtHand, Holds
<1>4. CASE PutInsert(p)
  <2> DEFINE s == op[p].sha
  <2>1. /\ buffer' = [buffer EXCEPT ![s] = @ + 1] /\ shaCache' = shaCache \cup {s}
        /\ acked' \subseteq acked \cup {s} /\ s \in Sha
    BY <1>4 DEF PutInsert, IInv, LogFits
  <2>2. /\ op'[p].sha \in {s, None}
        /\ \A q \in Proc \ {p} : op'[q] = op[q]
    <3>1. op' \in {[op EXCEPT ![p].at = "wantFlush"], [op EXCEPT ![p] = Idle]}
      BY <1>4 DEF PutInsert
    <3>2. CASE op' = [op EXCEPT ![p].at = "wantFlush"]
      BY <3>2, CallerTyped DEF OpRecord
    <3>3. CASE op' = [op EXCEPT ![p] = Idle]
      <4>1. op'[p] = Idle /\ \A q \in Proc \ {p} : op'[q] = op[q]
        BY <3>3, CallerTyped
      <4> QED
        BY <4>1 DEF Idle
    <3> QED
      BY <3>1, <3>2, <3>3
  <2>3. Holds(buffer) \cup {s} \subseteq Holds(buffer)'
    BY <2>1 DEF Holds, IInv, TypeOK
  <2>4. Holds(buffer)' \cup Carried' \subseteq AtHand'
    BY DEF AtHand
  <2> QED
    BY <1>1, <1>2, <2>1, <2>2, <2>3, <2>4, CallersRead DEF ReadFits
<1> QED
  BY <1>3, <1>4 DEF PutObject

LEMMA FlushReads ==
    ASSUME IInv, ReadFits, NEW p \in Proc, Flush(p), ~FlushStore(p) PROVE ReadFits'
<1>1. /\ UNCHANGED <<r2, journal, phase, cp, shaCache, deleted, skipped>>
      /\ Ready
  BY DEF Flush, FlushCall, FlushNothing, FlushTake, FlushEnd, FlushFail, Flushing,
         durable, memory, history, IInv, Excluded
<1>2. /\ \A q \in Proc \ {p} : op'[q] = op[q]
      /\ op'[p].sha \in {op[p].sha, None}
      /\ op[p].at \in {"wantFlush", "flushing", "stored"} \/ op'[p].sha = None
  <2>1. CASE FlushCall(p) \/ FlushTake(p)
    <3>1. op[p].sha = None \/ op[p].at = "wantFlush"
      BY <2>1 DEF FlushCall, FlushTake, Idle
    <3>2. op'[p].sha = op[p].sha /\ \A q \in Proc \ {p} : op'[q] = op[q]
      <4>1. CASE FlushCall(p)
        BY <4>1, CallerTyped DEF FlushCall, OpRecord
      <4>2. CASE FlushTake(p)
        BY <4>2, CallerTyped DEF FlushTake, OpRecord
      <4> QED
        BY <2>1, <4>1, <4>2
    <3> QED
      BY <3>1, <3>2
  <2>2. CASE FlushNothing(p) \/ FlushEnd(p) \/ FlushFail(p)
    <3>1. op' = [op EXCEPT ![p] = Idle]
      BY <2>2 DEF FlushNothing, FlushEnd, FlushFail, Return
    <3>2. op'[p] = Idle /\ \A q \in Proc \ {p} : op'[q] = op[q]
      BY <3>1, CallerTyped
    <3> QED
      BY <3>2 DEF Idle
  <2> QED
    BY <2>1, <2>2 DEF Flush
<1>3. acked' \subseteq shaCache
  BY <1>1 DEF Flush, FlushCall, FlushNothing, FlushTake, FlushEnd, FlushFail, Return, history,
         ReadFits
<1>4. \A q \in Proc : op'[q].at \in {"wantFlush", "flushing", "stored"} =>
                         op'[q].sha \in shaCache' \cup {None}
  BY <1>1, <1>2 DEF ReadFits
<1>5. fileKeys \subseteq fileKeys' /\ (Compacting => UNCHANGED fileKeys)
  BY Working DEF Flush, FlushCall, FlushNothing, FlushTake, FlushEnd, FlushFail, memory
<1>6. ~impaired' => ~impaired /\ Holds(buffer) \cup Carried \subseteq AtHand'
  <2>1. CASE FlushCall(p) \/ FlushNothing(p)
    <3>1. UNCHANGED <<buffer, impaired>> /\ ~Flushing(p)
      BY <2>1 DEF FlushCall, FlushNothing, memory, history, Flushing, Idle
    <3>2. Carried \subseteq Carried'
      BY <1>2, <3>1, CarriedGrows DEF Flushing
    <3> QED
      BY <3>1, <3>2 DEF AtHand, Holds
  <2>2. CASE FlushTake(p)
    <3>1. UNCHANGED impaired /\ ~Flushing(p) /\ op'[p].at = "flushing" /\ op'[p].snap = buffer
      BY <2>2, CallerTyped DEF FlushTake, history, Flushing, OpRecord
    <3>2. Carried \subseteq Carried'
      BY <1>2, <3>1, CarriedGrows DEF Flushing
    <3>3. Holds(buffer) \subseteq Carried'
      BY <3>1 DEF Carried, Holds, Flushing
    <3> QED
      BY <3>1, <3>2, <3>3 DEF AtHand
  <2>3. CASE FlushEnd(p)
    <3> DEFINE key == FlushKey(op[p].snap)
    <3>1. UNCHANGED <<buffer, impaired>> /\ fileKeys' = fileKeys \cup {key} /\ op[p].at = "stored"
      BY <2>3 DEF FlushEnd
    <3>2. key \in DOMAIN r2 /\ r2[key] = Holds(op[p].snap)
      BY <3>1 DEF IInv, LogFits, NamesFit, FlushKey
    <3>3. Holds(op[p].snap) \subseteq Listed'
      BY <1>1, <3>1, <3>2 DEF Listed
    <3>4. Carried \subseteq Carried' \cup Holds(op[p].snap)
      BY <1>2 DEF Carried, Holds, Flushing
    <3> QED
      BY <3>1, <3>3, <3>4 DEF AtHand, Holds
  <2>4. CASE FlushFail(p)
    BY <2>4 DEF FlushFail
  <2> QED
    BY <2>1, <2>2, <2>3, <2>4 DEF Flush
<1> QED
  BY <1>1, <1>3, <1>4, <1>5, <1>6, CallersRead

LEMMA FlushStoreReads ==
    ASSUME IInv, ReadFits, NEW p \in Proc, FlushStore(p) PROVE ReadFits'
<1> DEFINE b == op[p].snap
<1>1. /\ UNCHANGED <<wal, journal, shaCache, phase, memory, cp, tried, history, used>>
      /\ Ready /\ ~Compacting
  BY Working DEF FlushStore
<1> USE <1>1 DEF memory, history
<1>2. /\ op'[p].snap = b /\ op'[p].sha = op[p].sha /\ op'[p].at = "stored"
      /\ op[p].at = "flushing" /\ \A q \in Proc \ {p} : op'[q] = op[q]
  BY CallerTyped DEF FlushStore, OpRecord
<1>3. DOMAIN r2 \subseteq DOMAIN r2' /\ \A k \in DOMAIN r2 : r2'[k] = r2[k]
  BY DEF FlushStore, Put, IInv, NamesFit, FlushKey
<1>4. Listed \subseteq Listed'
  BY <1>3 DEF Listed
<1>5. Carried \subseteq Carried'
  BY <1>2, CarriedGrows DEF Flushing
<1>6. ~impaired => shaCache \subseteq AtHand'
  BY <1>4, <1>5 DEF ReadFits, AtHand, Merged, Lost, Holds
<1> QED
  BY <1>2, <1>6 DEF ReadFits, Ready, Compacting

LEMMA DeleteReads ==
    ASSUME IInv, ReadFits, NEW s \in Sha, DeleteObject(s) PROVE ReadFits'
<1>1. /\ UNCHANGED <<r2, journal, shaCache, phase, fileKeys, walIds, op, cp, tried, acked,
                     skipped, impaired, used>>
      /\ buffer' = [buffer EXCEPT ![s] = 0]
      /\ wal' = {w \in wal : w.sha # s} /\ deleted' = deleted \cup {s}
  BY DEF DeleteObject
<1> USE <1>1
<1>2. Lost' = Lost \cup {s}
  BY DEF Lost
<1>3. Logged \subseteq Logged' \cup {s} /\ Holds(buffer) \subseteq Holds(buffer)' \cup {s}
  BY DEF Logged, Holds, IInv, TypeOK
<1>4. Carried' = Carried /\ Listed' = Listed /\ Spared' = Spared /\ Merged' = Merged
  BY DEF Carried, Listed, Spared, Merged, Flushing, Holds, Gone, Leftovers
<1> QED
  BY <1>2, <1>3, <1>4 DEF ReadFits, AtHand, Ready, Compacting

\* A compaction that leaves the listed files and the buffer as they are.
LEMMA CompactionReads ==
    ASSUME IInv, ReadFits, Ready,
           UNCHANGED <<wal, shaCache, phase, memory, op, acked, deleted>>,
           skipped \subseteq skipped', ~impaired' => ~impaired,
           \A k \in fileKeys \cap DOMAIN r2 : k \in DOMAIN r2' /\ r2'[k] = r2[k],
           cp.at # "deleting",
           (Compacting => fileKeys \subseteq cp.src)',
           (cp.at = "deleting" =>
              \A k \in cp.src \cap DOMAIN r2 : r2[k] \subseteq cp.kept \cup Lost)'
    PROVE  ReadFits'
<1> USE DEF memory
<1>1. Listed \subseteq Listed' /\ Lost \subseteq Lost' /\ Carried' = Carried /\ Merged = {}
  BY DEF Listed, Lost, Carried, Merged, Flushing, Holds
<1>2. AtHand \subseteq AtHand'
  BY <1>1 DEF AtHand, Holds
<1> QED
  BY <1>2 DEF ReadFits, Ready

LEMMA CompactEarlyReads ==
    ASSUME IInv, ReadFits, CompactBegin \/ CompactNothing \/ CompactMerge \/ CompactStore
                           \/ \E k \in cp.left : CompactRead(k)
    PROVE  ReadFits'
<1>1. /\ UNCHANGED <<wal, shaCache, phase, memory, op, acked, deleted, skipped, impaired>>
      /\ Ready /\ cp.at # "deleting"
  BY DEF CompactBegin, CompactNothing, CompactMerge, CompactStore, CompactRead, durable, history,
         IInv, Excluded, Compacting
<1>2. \A k \in fileKeys \cap DOMAIN r2 : k \in DOMAIN r2' /\ r2'[k] = r2[k]
  <2>1. CASE CompactStore
    <3>1. cp.target \notin fileKeys
      BY <1>1, <2>1 DEF CompactStore, IInv, CompactFits, JournalFits, Row, Compacting
    <3> QED
      BY <2>1, <3>1 DEF CompactStore, Put
  <2>2. CASE UNCHANGED r2
    BY <2>2
  <2> QED
    BY <2>1, <2>2 DEF CompactBegin, CompactNothing, CompactMerge, CompactRead, durable
<1>3. (Compacting => fileKeys \subseteq cp.src)' /\ cp'.at # "deleting"
  <2>1. CASE CompactBegin
    BY <1>1, <2>1 DEF CompactBegin, memory, NoCompaction
  <2>2. CASE CompactNothing
    BY <2>2 DEF CompactNothing, NoCompaction, Compacting
  <2>3. CASE CompactMerge \/ CompactStore \/ \E k \in cp.left : CompactRead(k)
    <3>1. cp'.src = cp.src /\ cp'.at # "deleting" /\ Compacting
      BY <2>3, CompactionTyped DEF CompactMerge, CompactStore, CompactRead, CpRecord, Compacting
    <3> QED
      BY <1>1, <3>1 DEF ReadFits, memory
  <2> QED
    BY <2>1, <2>2, <2>3
<1> QED
  BY <1>1, <1>2, <1>3, CompactionReads

LEMMA CompactReadPartReads ==
    ASSUME IInv, ReadFits, NEW k \in cp.left, NEW s, NEW before, CompactReadPart(k, s, before)
    PROVE  ReadFits'
<1>1. /\ UNCHANGED <<r2, wal, shaCache, phase, memory, op, acked, deleted, impaired>>
      /\ skipped \subseteq skipped' /\ cp.at = "reading" /\ Ready /\ Compacting
  BY DEF CompactReadPart, durable, IInv, Excluded, Compacting
<1>2. cp'.at = "reading" /\ cp'.src = cp.src
  BY CompactionTyped DEF CompactReadPart, CpRecord
<1>3. (Compacting => fileKeys \subseteq cp.src)'
  BY <1>1, <1>2 DEF ReadFits, memory
<1> QED
  BY <1>1, <1>2, <1>3, CompactionReads

LEMMA CompactMarkReads ==
    ASSUME IInv, ReadFits, CompactMark PROVE ReadFits'
<1>1. /\ UNCHANGED <<r2, wal, shaCache, phase, memory, op, acked, deleted, skipped, impaired>>
      /\ cp.at = "stored" /\ Ready /\ Compacting
  BY DEF CompactMark, history, IInv, Excluded, Compacting
<1>2. cp'.src = cp.src /\ cp'.kept = cp.kept
  BY CompactionTyped DEF CompactMark, CpRecord
<1>3. \A k \in cp.src \cap DOMAIN r2 : r2[k] \subseteq cp.kept \cup Lost
  BY <1>1 DEF IInv, CompactFits
<1>4. (Compacting => fileKeys \subseteq cp.src)'
  BY <1>1, <1>2 DEF ReadFits, memory
<1> QED
  BY <1>1, <1>2, <1>3, <1>4, CompactionReads DEF Lost

LEMMA CompactDeleteReads ==
    ASSUME IInv, ReadFits, NEW k \in cp.left, CompactDelete(k) PROVE ReadFits'
<1>1. /\ UNCHANGED <<wal, shaCache, phase, memory, op, history>>
      /\ cp.at = "deleting" /\ Ready /\ Compacting /\ r2' = Remove(k)
      /\ cp' = [cp EXCEPT !.left = @ \ {k}]
  BY DEF CompactDelete, IInv, Excluded, Compacting
<1> USE <1>1 DEF memory, history
<1>2. cp'.at = "deleting" /\ cp'.src = cp.src /\ cp'.kept = cp.kept
  BY CompactionTyped DEF CpRecord
<1>3. DOMAIN r2' = DOMAIN r2 \ {k} /\ \A f \in DOMAIN r2' : r2'[f] = r2[f]
  BY DEF Remove, Restrict
<1>4. Listed \subseteq Listed' \cup cp.kept \cup Lost
  <2>1. k \in cp.src
    BY DEF IInv, CompactFits
  <2>2. k \in DOMAIN r2 => r2[k] \subseteq cp.kept \cup Lost
    BY <2>1 DEF ReadFits
  <2> QED
    BY <1>3, <2>2 DEF Listed
<1>5. AtHand \subseteq AtHand'
  <2>1. Lost' = Lost /\ Carried' = Carried /\ Merged = cp.kept /\ Merged' = cp.kept
    BY <1>2 DEF Lost, Carried, Merged, Flushing, Holds
  <2> QED
    BY <1>4, <2>1 DEF AtHand, Holds
<1>6. (cp.at = "deleting" => \A f \in cp.src \cap DOMAIN r2 : r2[f] \subseteq cp.kept \cup Lost)'
  BY <1>2, <1>3 DEF ReadFits, Lost
<1> QED
  BY <1>2, <1>5, <1>6 DEF ReadFits, Ready, Compacting

LEMMA CompactEndReads ==
    ASSUME IInv, ReadFits, CompactEnd PROVE ReadFits'
<1>1. /\ UNCHANGED <<r2, wal, shaCache, phase, op, history>>
      /\ cp.at = "deleting" /\ cp.left = {} /\ Ready /\ Compacting
      /\ fileKeys' = {cp.target} /\ cp' = NoCompaction
  BY DEF CompactEnd, IInv, Excluded, Compacting
<1> USE <1>1 DEF history
<1>2. cp'.at = "idle"
  BY DEF NoCompaction
<1>3. Holds(buffer) \cup Listed \cup Merged \subseteq cp.kept \cup Lost
  <2>1. Holds(buffer) \subseteq cp.kept \cup Lost
    BY DEF IInv, CompactFits
  <2>2. Listed \subseteq cp.kept \cup Lost
    BY DEF ReadFits, Listed
  <2> QED
    BY <2>1, <2>2 DEF Merged
<1>4. Carried = {}
  BY DEF IInv, Excluded, Carried, Flushing
<1>5. cp.kept \subseteq Listed' /\ Lost' = Lost
  BY DEF IInv, CompactFits, Listed, Lost
<1>6. AtHand \subseteq AtHand'
  BY <1>3, <1>4, <1>5 DEF AtHand
<1> QED
  BY <1>2, <1>6 DEF ReadFits, Ready, Compacting

LEMMA CompactFailReads ==
    ASSUME IInv, ReadFits, CompactFail PROVE ReadFits'
<1>1. /\ UNCHANGED <<wal, shaCache, phase, memory, op, acked, deleted, skipped>>
      /\ Ready /\ Compacting /\ cp' = NoCompaction
      /\ impaired' = (impaired \/ cp.at = "deleting")
  BY DEF CompactFail, IInv, Excluded, Compacting
<1>2. cp'.at = "idle"
  BY <1>1 DEF NoCompaction
<1>3. CASE cp.at = "deleting"
  <2>1. impaired'
    BY <1>1, <1>3
  <2> QED
    BY <1>1, <1>2, <2>1 DEF ReadFits, Ready, Compacting, IInv, Excluded
<1>4. CASE cp.at # "deleting"
  <2>1. UNCHANGED r2 /\ (~impaired' => ~impaired)
    BY <1>1, <1>4 DEF CompactFail
  <2> QED
    BY <1>1, <1>2, <1>4, <2>1, CompactionReads DEF Compacting
<1> QED
  BY <1>3, <1>4

LEMMA CrashReads ==
    ASSUME IInv, ReadFits, Crash PROVE ReadFits'
<1>1. /\ UNCHANGED <<shaCache, acked>> /\ phase' = "down" /\ cp' = NoCompaction
      /\ op' = [p \in Proc |-> Idle]
  BY DEF Crash, durable
<1>2. cp'.at = "idle" /\ \A p \in Proc : op'[p].at = "idle"
  BY <1>1 DEF NoCompaction, Idle
<1> QED
  BY <1>1, <1>2 DEF ReadFits, Ready, Compacting

LEMMA BootReads ==
    ASSUME IInv, ReadFits, Boot \/ BootFail PROVE ReadFits'
<1>1. /\ UNCHANGED <<durable, op, cp, acked, deleted, skipped>> /\ ~Ready
      /\ phase' \in {"recovering", "broken"}
      /\ phase' = "recovering" => fileKeys' = DOMAIN r2
  BY DEF Boot, BootFail, history, Ready
<1> USE <1>1 DEF durable
<1>2. cp.at = "idle"
  BY DEF IInv, Excluded
<1>3. phase' = "recovering" => shaCache \subseteq Lost' \cup Logged' \cup Spared'
  <2>1. Lost' = Lost /\ Logged' = Logged /\ Gone' = Gone
    BY DEF Lost, Logged, Gone, Leftovers
  <2>2. phase' = "recovering" => Spared' = Filed
    BY <2>1 DEF Spared, Filed
  <2> QED
    BY <2>1, <2>2 DEF IInv, LogFits, Safe
<1> QED
  BY <1>2, <1>3 DEF ReadFits, Ready, Compacting

LEMMA RecoverDeleteReads ==
    ASSUME IInv, ReadFits, NEW j \in journal, NEW k \in Leftovers(j), RecoverDelete(j, k)
    PROVE  ReadFits'
<1>1. /\ UNCHANGED <<wal, journal, shaCache, phase, memory, op, cp, history>>
      /\ phase = "recovering" /\ (r2' = Remove(k) \/ UNCHANGED r2)
  BY DEF RecoverDelete
<1> USE <1>1 DEF memory, history
<1>2. cp.at = "idle"
  BY DEF IInv, Excluded, Ready
<1>3. k \in Gone /\ Gone' = Gone /\ Lost' = Lost /\ Logged' = Logged
  BY DEF Gone, Leftovers, Lost, Logged
<1>4. Spared \subseteq Spared'
  BY <1>3 DEF Spared, Remove, Restrict
<1> QED
  BY <1>2, <1>3, <1>4 DEF ReadFits, Ready, Compacting

LEMMA RecoverRowReads ==
    ASSUME IInv, ReadFits, NEW j \in journal, RecoverRow(j) PROVE ReadFits'
<1>1. /\ UNCHANGED <<r2, wal, shaCache, phase, op, cp, history>>
      /\ phase = "recovering" /\ journal' = journal \ {j}
      /\ \/ j.status = "written" /\ fileKeys \ j.src \subseteq fileKeys'
         \/ fileKeys' = fileKeys
  BY DEF RecoverRow
<1> USE <1>1 DEF history
<1>2. cp.at = "idle"
  BY DEF IInv, Excluded, Ready
<1>3. Gone' \subseteq Gone /\ Lost' = Lost /\ Logged' = Logged
  BY DEF Gone, Leftovers, Lost, Logged
<1>4. fileKeys \ Gone \subseteq fileKeys'
  BY DEF Gone, Leftovers
<1>5. Spared \subseteq Spared'
  BY <1>3, <1>4 DEF Spared
<1> QED
  BY <1>2, <1>3, <1>5 DEF ReadFits, Ready, Compacting

LEMMA RecoverWALReads ==
    ASSUME IInv, ReadFits, RecoverWAL PROVE ReadFits'
<1>1. /\ UNCHANGED <<durable, fileKeys, op, cp, history>>
      /\ phase = "recovering" /\ phase' = "ready" /\ journal = {}
      /\ buffer' = [s \in Sha |-> IF \E w \in wal : w.sha = s THEN 1 ELSE 0]
  BY DEF RecoverWAL
<1> USE <1>1 DEF durable, history
<1>2. cp.at = "idle"
  BY DEF IInv, Excluded, Ready
<1>3. Spared \subseteq Listed' /\ Lost' = Lost
  BY DEF Spared, Listed, Lost
<1>4. Logged \subseteq Holds(buffer)'
  BY DEF Logged, Holds, IInv, TypeOK
<1>5. shaCache \subseteq AtHand'
  BY <1>3, <1>4 DEF ReadFits, AtHand
<1> QED
  BY <1>2, <1>5 DEF ReadFits, Compacting

LEMMA ReadsKept ==
    ASSUME IInv, ReadFits, [Next]_vars PROVE ReadFits'
<1>1. CASE \E p \in Proc : PutObject(p)
  BY <1>1, PutReads
<1>2. CASE \E p \in Proc : Flush(p)
  BY <1>2, FlushReads, FlushStoreReads
<1>3. CASE \E s \in Sha : DeleteObject(s)
  BY <1>3, DeleteReads
<1>4. CASE Compact
  <2>1. CASE \E k \in cp.left : CompactRead(k) \/ CompactDelete(k)
    BY <2>1, CompactEarlyReads, CompactDeleteReads
  <2>2. CASE \E k \in cp.left \cap DOMAIN r2 :
               \E s \in r2[k] : \E before \in SUBSET r2[k] : CompactReadPart(k, s, before)
    <3>1. PICK k \in cp.left : \E s, before : CompactReadPart(k, s, before)
      BY <2>2
    <3> QED
      BY <3>1, CompactReadPartReads
  <2> QED
    BY <1>4, <2>1, <2>2, CompactEarlyReads, CompactMarkReads, CompactEndReads,
       CompactFailReads DEF Compact
<1>5. CASE Crash
  BY <1>5, CrashReads
<1>6. CASE Recover
  BY <1>6, BootReads, RecoverWALReads, RecoverRowReads, RecoverDeleteReads DEF Recover
<1>7. CASE UNCHANGED vars
  <2> USE <1>7 DEF vars, durable, memory, history
  <2>1. /\ Lost' = Lost /\ Logged' = Logged /\ Spared' = Spared /\ Listed' = Listed
        /\ Carried' = Carried /\ Merged' = Merged
    BY DEF Lost, Logged, Spared, Listed, Carried, Merged, Gone, Leftovers, Flushing, Holds
  <2> QED
    BY <2>1 DEF ReadFits, AtHand, Holds, Ready, Compacting
<1> QED
  BY <1>1, <1>2, <1>3, <1>4, <1>5, <1>6, <1>7 DEF Next

(* On a store whose memory no failure has left behind, every acknowledged   *)
(* object that was not deleted or given up can be read, or is on its way to *)
(* R2 with a flush or a compaction.                                         *)
THEOREM AckedStaysReadable == Spec => []AckedIsReadable
<1>1. Init => ReadFits
  BY DEF Init, ReadFits, Ready, Compacting, Idle, NoCompaction
<1>2. IInv /\ ReadFits /\ [Next]_vars => ReadFits'
  BY ReadsKept
<1>3. IInv /\ ReadFits => AckedIsReadable
  <2> SUFFICES ASSUME IInv, ReadFits, Ready, ~impaired, NEW s \in acked \ Lost
               PROVE  \/ Readable(s)
                      \/ \E p \in Proc : Flushing(p) /\ op[p].snap[s] > 0
                      \/ cp.at = "deleting" /\ s \in cp.kept
    BY DEF AckedIsReadable
  <2>1. s \in shaCache /\ s \in Sha /\ s \notin tombstones
    BY DEF ReadFits, IInv, LogFits, TypeOK, Lost
  <2>2. s \in Holds(buffer) \cup Listed \cup Carried \cup Merged
    BY <2>1 DEF ReadFits, AtHand
  <2>3. CASE s \in Holds(buffer) \cup Listed
    BY <2>1, <2>3 DEF Readable, Holds, Listed
  <2>4. CASE s \in Carried
    BY <2>4 DEF Carried, Holds
  <2>5. CASE s \in Merged
    BY <2>5 DEF Merged
  <2> QED
    BY <2>2, <2>3, <2>4, <2>5
<1> QED
  BY <1>1, <1>2, <1>3, Inductive, PTL DEF Spec
=============================================================================

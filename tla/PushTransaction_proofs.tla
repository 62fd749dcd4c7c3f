------------------------ MODULE PushTransaction_proofs ------------------------
(***************************************************************************)
(* What a push guarantees for any number of pushes, refs, objects and      *)
(* commands, any rules, and any number of faults and restarts.             *)
(***************************************************************************)
EXTENDS PushTransaction, RefLog_proofs

(* A push that updates refs was allowed to, and a target that was found     *)
(* stays found: once checked, a command deletes, or points at an object     *)
(* that exists.  Nothing is checked before the flush has ended.             *)
ChecksHold ==
    \A p \in Push :
       LET t == tx[p] IN
       /\ t.phase \in {"idle", "flushing"} => t.checked = 0
       /\ t.phase = "updating_refs" =>
            /\ Allowed(t.commands) /\ t.checked <= Len(t.commands)
            /\ \A i \in 1..t.checked : t.commands[i].new \in objects \cup {None}

(* The log is numbered, and its snapshot is the state after a prefix of it. *)
LogIsSound == Numbered(log) /\ SnapshotIsPrefix(log)

(* While a push is inside its SQLite transaction: everything it wants is    *)
(* checked and unmoved; its view is the table with the commands done so     *)
(* far; the last entries of the log are its own, one for each command done, *)
(* and the table is what the entries before them say.                       *)
TransactionIsSound ==
    \A p \in Push : open.owner = p =>
       LET cmds == tx[p].commands
           n    == Len(log.entries)
       IN  /\ tx[p].phase = "updating_refs" /\ AllChecked(p) /\ Unmoved(cmds)
           /\ open.done <= Len(cmds) /\ open.done <= n
           /\ open.refs = ReplayOn(refs, SubSeq(cmds, 1, open.done))
           /\ open.pending = (n - open.done + 1)..n
           /\ refs = ReplayOn(origin, SubSeq(log.entries, 1, n - open.done))

(* The inductive invariant: every part is needed by the step of another.    *)
(* The log mirrors the refs after a rollback only if the pending entries    *)
(* are the last ones, and refs resolve after a commit only if every target  *)
(* was checked.                                                             *)
IInv == /\ TypeOK /\ ChecksHold /\ RefsResolve
        /\ LogIsSound /\ LogMirrorsRefs /\ TransactionIsSound
-----------------------------------------------------------------------------
(* Commands have the shape that the lemmas on logs ask for.                 *)
LEMMA CommandsAreUpdates == IsUpdates(Command)
BY DEF IsUpdates, Command

(* A prefix that grows by one element.                                      *)
LEMMA NextPrefix ==
    ASSUME NEW S, NEW s \in Seq(S), NEW k \in Nat, k < Len(s)
    PROVE  SubSeq(s, 1, k) \in Seq(S) /\ SubSeq(s, 1, k + 1) = Append(SubSeq(s, 1, k), s[k + 1])
OBVIOUS

(* The invariant holds at the start.                                        *)
LEMMA InitIInv == Init => IInv
<1> SUFFICES ASSUME Init PROVE IInv
  OBVIOUS
<1> USE DEF Init
<1>1. None \notin Push /\ open.owner = None
  BY PushAssumption DEF Closed
<1>2. TypeOK
  <2>1. NewTx \in Tx
    BY DEF NewTx, Tx, Phase, Value
  <2>2. Closed \in Transaction
    BY EmptyStateType DEF Closed, Transaction
  <2> QED BY <2>1, <2>2, EmptyStateType, EmptyLogProperties DEF TypeOK
<1>3. ChecksHold
  BY DEF ChecksHold, NewTx
<1>4. RefsResolve
  BY DEF RefsResolve, EmptyState
<1>5. LogIsSound
  BY EmptyLogProperties DEF LogIsSound
<1>6. LogMirrorsRefs
  <2>1. ReplayOn(EmptyState, <<>>) = EmptyState
    BY EmptyStateType, ReplayOnEmpty
  <2> QED BY <1>1, <2>1 DEF LogMirrorsRefs, CurrentRefs, EmptyLog
<1>7. TransactionIsSound
  BY <1>1 DEF TransactionIsSound
<1> QED BY <1>2, <1>3, <1>4, <1>5, <1>6, <1>7 DEF IInv

(* A step outside the SQLite transaction that only adds objects leaves the  *)
(* refs, the log and what they say of each other alone.                     *)
LEMMA QuietStep ==
    ASSUME IInv, MayRun, objects \subseteq objects', UNCHANGED <<refs, log, open, origin>>
    PROVE  RefsResolve' /\ LogIsSound' /\ LogMirrorsRefs' /\ TransactionIsSound'
<1>1. RefsResolve'
  BY DEF IInv, RefsResolve
<1>2. LogIsSound'
  BY DEF IInv, LogIsSound
<1>3. LogMirrorsRefs'
  BY DEF IInv, LogMirrorsRefs, CurrentRefs
<1>4. TransactionIsSound'
  BY PushAssumption DEF MayRun, TransactionIsSound
<1> QED BY <1>1, <1>2, <1>3, <1>4

(* A step of p that leaves the other pushes alone and forgets no object     *)
(* keeps what was checked, if it does so for p.                             *)
LEMMA OthersKeepChecks ==
    ASSUME ChecksHold, NEW p \in Push, objects \subseteq objects',
           \A q \in Push \ {p} : tx'[q] = tx[q],
           LET t == tx'[p] IN
              /\ t.phase \in {"idle", "flushing"} => t.checked = 0
              /\ t.phase = "updating_refs" =>
                   /\ Allowed(t.commands) /\ t.checked <= Len(t.commands)
                   /\ \A i \in 1..t.checked : t.commands[i].new \in objects' \cup {None}
    PROVE  ChecksHold'
BY DEF ChecksHold

(* Moving p to another phase changes nothing else.                          *)
LEMMA SetPhaseProperties ==
    ASSUME TypeOK, NEW p \in Push, NEW ph \in Phase, SetPhase(p, ph)
    PROVE  /\ tx' \in [Push -> Tx]
           /\ tx'[p] = [tx[p] EXCEPT !.phase = ph]
           /\ tx'[p].phase = ph /\ tx'[p].checked = tx[p].checked
           /\ tx'[p].commands = tx[p].commands
           /\ \A q \in Push \ {p} : tx'[q] = tx[q]
BY DEF SetPhase, TypeOK, Tx

(* A push that fails, throws or completes keeps what the others checked.    *)
LEMMA EndKeepsChecks ==
    ASSUME TypeOK, ChecksHold, NEW p \in Push, objects \subseteq objects',
           NEW ph \in {"completed", "failed", "threw"}, SetPhase(p, ph)
    PROVE  ChecksHold'
<1>1. ph \in Phase
  BY DEF Phase
<1>2. tx'[p].phase = ph /\ \A q \in Push \ {p} : tx'[q] = tx[q]
  BY <1>1, SetPhaseProperties
<1> QED BY <1>2, OthersKeepChecks
-----------------------------------------------------------------------------
(* Each action preserves the invariant, one lemma for each.                 *)
LEMMA ReceiveKeepsIInv ==
    ASSUME IInv, NEW p \in Push, NEW pack \in Packs, NEW cmds \in Commands,
           Receive(p, pack, cmds)
    PROVE  IInv'
<1>1. pack \in SUBSET Sha /\ cmds \in Seq(Command)
  BY PushAssumption
<1>2. TypeOK'
  <2>1. tx' \in [Push -> Tx]
    <3>1. tx \in [Push -> Tx] /\ tx[p] \in Tx
      BY DEF IInv, TypeOK
    <3>2. \A t \in Tx : [t EXCEPT !.phase = "flushing"] \in Tx
      BY DEF Tx, Phase
    <3>3. \A t \in Tx : [t EXCEPT !.buffer = pack] \in Tx
      BY <1>1 DEF Tx
    <3>4. \A t \in Tx : [t EXCEPT !.commands = cmds] \in Tx
      BY <1>1 DEF Tx
    <3> DEFINE t1 == [tx[p] EXCEPT !.phase = "flushing"]
               t2 == [t1 EXCEPT !.buffer = pack]
               t3 == [t2 EXCEPT !.commands = cmds]
    <3>5. tx' = [tx EXCEPT ![p] = t3]
      BY <3>1 DEF Receive
    <3>6. t3 \in Tx
      BY <3>1, <3>2, <3>3, <3>4
    <3> HIDE DEF t3
    <3> QED BY <3>1, <3>5, <3>6
  <2> QED BY <2>1 DEF Receive, IInv, TypeOK
<1>3. ChecksHold'
  <2>1. /\ tx'[p].phase = "flushing" /\ tx'[p].checked = tx[p].checked
        /\ \A q \in Push \ {p} : tx'[q] = tx[q]
    BY DEF Receive, IInv, TypeOK, Tx
  <2>2. tx[p].checked = 0 /\ objects' = objects
    BY DEF Receive, IInv, ChecksHold
  <2> QED BY <2>1, <2>2, OthersKeepChecks DEF IInv
<1>4. MayRun /\ objects \subseteq objects' /\ UNCHANGED <<refs, log, open, origin>>
  BY DEF Receive
<1> QED BY <1>2, <1>3, <1>4, QuietStep DEF IInv

(* A push that is not executed touches only its phase.                      *)
LEMMA ReceiveFailKeepsIInv ==
    ASSUME IInv, NEW p \in Push, ReceiveFail(p)
    PROVE  IInv'
<1>1. TypeOK'
  <2>1. tx' \in [Push -> Tx]
    BY SetPhaseProperties DEF ReceiveFail, IInv, Phase
  <2> QED BY <2>1 DEF ReceiveFail, IInv, TypeOK
<1>2. ChecksHold'
  BY EndKeepsChecks DEF ReceiveFail, IInv
<1>3. MayRun /\ objects \subseteq objects' /\ UNCHANGED <<refs, log, open, origin>>
  BY DEF ReceiveFail
<1> QED BY <1>1, <1>2, <1>3, QuietStep DEF IInv

(* An object found in the store counts as flushed.                          *)
LEMMA FlushHasKeepsIInv ==
    ASSUME IInv, NEW p \in Push, NEW o \in tx[p].buffer, FlushHas(p, o)
    PROVE  IInv'
<1>1. o \in Sha
  BY DEF IInv, TypeOK, Tx
<1>2. TypeOK'
  <2>1. tx' \in [Push -> Tx]
    <3>1. CASE o \in objects
      BY <1>1, <3>1 DEF FlushHas, IInv, TypeOK, Tx
    <3>2. CASE o \notin objects
      BY <1>1, <3>2 DEF FlushHas, IInv, TypeOK, Tx, Value
    <3> QED BY <3>1, <3>2
  <2> QED BY <2>1 DEF FlushHas, IInv, TypeOK
<1>3. ChecksHold'
  <2>1. /\ tx'[p].phase = "flushing" /\ tx'[p].checked = tx[p].checked
        /\ \A q \in Push \ {p} : tx'[q] = tx[q]
    BY DEF FlushHas, IInv, TypeOK, Tx
  <2>2. tx[p].checked = 0 /\ objects' = objects
    BY DEF FlushHas, IInv, ChecksHold
  <2> QED BY <2>1, <2>2, OthersKeepChecks DEF IInv
<1>4. MayRun /\ objects \subseteq objects' /\ UNCHANGED <<refs, log, open, origin>>
  BY DEF FlushHas
<1> QED BY <1>2, <1>3, <1>4, QuietStep DEF IInv

(* An object put is in the store before it counts as flushed.               *)
LEMMA FlushPutKeepsIInv ==
    ASSUME IInv, NEW p \in Push, FlushPut(p)
    PROVE  IInv'
<1>1. tx[p].putting \in Sha
  BY DEF FlushPut, IInv, TypeOK, Tx, Value
<1>2. TypeOK'
  <2>1. tx' \in [Push -> Tx]
    BY <1>1 DEF FlushPut, IInv, TypeOK, Tx, Value
  <2> QED BY <1>1, <2>1 DEF FlushPut, IInv, TypeOK
<1>3. ChecksHold'
  <2>1. /\ tx'[p].phase = "flushing" /\ tx'[p].checked = tx[p].checked
        /\ \A q \in Push \ {p} : tx'[q] = tx[q]
    BY DEF FlushPut, IInv, TypeOK, Tx
  <2>2. tx[p].checked = 0 /\ objects \subseteq objects'
    BY DEF FlushPut, IInv, ChecksHold
  <2> QED BY <2>1, <2>2, OthersKeepChecks DEF IInv
<1>4. MayRun /\ objects \subseteq objects' /\ UNCHANGED <<refs, log, open, origin>>
  BY DEF FlushPut
<1> QED BY <1>2, <1>3, <1>4, QuietStep DEF IInv

(* A failed put leaves the store as it was or larger.                       *)
LEMMA FlushFailKeepsIInv ==
    ASSUME IInv, NEW p \in Push, FlushFail(p)
    PROVE  IInv'
<1>1. {tx[p].putting} \ {None} \subseteq Sha
  BY DEF IInv, TypeOK, Tx, Value
<1>2. objects \subseteq objects' /\ objects' \subseteq Sha
  BY <1>1 DEF FlushFail, IInv, TypeOK
<1>3. TypeOK'
  <2>1. tx' \in [Push -> Tx]
    BY SetPhaseProperties DEF FlushFail, IInv, Phase
  <2>2. used' \in [faults : Nat, crashes : Nat]
    BY DEF FlushFail, Fault, IInv, TypeOK
  <2> QED BY <1>2, <2>1, <2>2 DEF FlushFail, IInv, TypeOK
<1>4. ChecksHold'
  BY <1>2, EndKeepsChecks DEF FlushFail, IInv
<1>5. MayRun /\ UNCHANGED <<refs, log, open, origin>>
  BY DEF FlushFail
<1> QED BY <1>2, <1>3, <1>4, <1>5, QuietStep DEF IInv

(* No target is checked yet when the flush ends.                            *)
LEMMA FlushEndKeepsIInv ==
    ASSUME IInv, NEW p \in Push, FlushEnd(p)
    PROVE  IInv'
<1> DEFINE ph == IF tx[p].commands = <<>> THEN "completed"
                 ELSE IF Allowed(tx[p].commands) THEN "updating_refs" ELSE "failed"
<1>1. /\ ph \in {"completed", "updating_refs", "failed"} /\ SetPhase(p, ph)
      /\ objects' = objects /\ tx[p].phase = "flushing" /\ TypeOK
  BY DEF FlushEnd, IInv
<1> HIDE DEF ph
<1>2. /\ tx' \in [Push -> Tx] /\ tx'[p].phase = ph
      /\ tx'[p].checked = tx[p].checked /\ tx'[p].commands = tx[p].commands
      /\ \A q \in Push \ {p} : tx'[q] = tx[q]
  <2>1. ph \in Phase
    BY <1>1 DEF Phase
  <2> QED BY <1>1, <2>1, SetPhaseProperties
<1>3. TypeOK'
  BY <1>2 DEF FlushEnd, IInv, TypeOK
<1>4. ChecksHold'
  <2>1. tx[p].checked = 0 /\ tx[p].commands \in Seq(Command)
    BY <1>1 DEF IInv, ChecksHold, TypeOK, Tx
  <2>2. tx'[p].checked <= Len(tx'[p].commands) /\ 1..tx'[p].checked = {}
    BY <1>2, <2>1
  <2>3. ph = "updating_refs" => Allowed(tx[p].commands)
    BY DEF ph
  <2> QED BY <1>1, <1>2, <2>2, <2>3, OthersKeepChecks DEF IInv
<1>5. MayRun /\ objects \subseteq objects' /\ UNCHANGED <<refs, log, open, origin>>
  BY DEF FlushEnd
<1> QED BY <1>3, <1>4, <1>5, QuietStep DEF IInv

(* A target that passes is in the store, and stays there.                   *)
LEMMA CheckTargetKeepsIInv ==
    ASSUME IInv, NEW p \in Push, CheckTarget(p)
    PROVE  IInv'
<1> DEFINE n == tx[p].checked + 1
           c == tx[p].commands[n]
<1>1. /\ MayRun /\ objects' = objects /\ UNCHANGED <<refs, log, open, origin, used>>
      /\ tx[p].phase = "updating_refs" /\ ~AllChecked(p)
  BY DEF CheckTarget
<1>2. CASE IsDelete(c) \/ c.new \in objects
  <2>1. tx' = [tx EXCEPT ![p].checked = @ + 1]
    BY <1>2 DEF CheckTarget
  <2>2. /\ tx' \in [Push -> Tx] /\ tx'[p].checked = n
        /\ tx'[p].phase = "updating_refs" /\ tx'[p].commands = tx[p].commands
        /\ \A q \in Push \ {p} : tx'[q] = tx[q]
    <3>1. tx \in [Push -> Tx] /\ tx[p] \in Tx /\ n \in Nat
      BY DEF IInv, TypeOK, Tx
    <3>2. tx' = [tx EXCEPT ![p].checked = n]
      BY <2>1
    <3> HIDE DEF n
    <3>3. [tx[p] EXCEPT !.checked = n] \in Tx
      BY <3>1 DEF Tx
    <3>4. tx' \in [Push -> Tx]
      BY <3>1, <3>2, <3>3
    <3>5. tx'[p] = [tx[p] EXCEPT !.checked = n] /\ \A q \in Push \ {p} : tx'[q] = tx[q]
      BY <3>1, <3>2
    <3> QED BY <1>1, <3>1, <3>4, <3>5 DEF Tx
  <2>3. TypeOK'
    BY <1>1, <2>2 DEF IInv, TypeOK
  <2>4. /\ Allowed(tx[p].commands)
        /\ tx[p].checked \in Nat /\ Len(tx[p].commands) \in Nat
        /\ tx[p].checked <= Len(tx[p].commands)
        /\ \A i \in 1..tx[p].checked : tx[p].commands[i].new \in objects \cup {None}
    BY <1>1 DEF IInv, TypeOK, Tx, ChecksHold
  <2>5. n <= Len(tx[p].commands)
    BY <1>1, <2>4 DEF AllChecked
  <2>6. \A i \in 1..n : tx[p].commands[i].new \in objects \cup {None}
    <3>1. \A i \in 1..n : i \in 1..tx[p].checked \/ i = n
      BY <2>4
    <3>2. c.new \in objects \cup {None}
      BY <1>2 DEF IsDelete
    <3> QED BY <2>4, <3>1, <3>2
  <2>7. ChecksHold'
    <3> HIDE DEF n, c
    <3> QED BY <1>1, <2>2, <2>4, <2>5, <2>6, OthersKeepChecks DEF IInv
  <2> QED BY <1>1, <2>3, <2>7, QuietStep DEF IInv
<1>3. CASE ~(IsDelete(c) \/ c.new \in objects)
  <2>1. SetPhase(p, "failed")
    BY <1>3 DEF CheckTarget
  <2>2. TypeOK'
    BY <1>1, <2>1, SetPhaseProperties DEF IInv, TypeOK, Phase
  <2>3. ChecksHold'
    BY <1>1, <2>1, EndKeepsChecks DEF IInv
  <2> QED BY <1>1, <2>2, <2>3, QuietStep DEF IInv
<1> QED BY <1>2, <1>3

(* A push that rejects early touches only its phase.                        *)
LEMMA ThrowKeepsIInv ==
    ASSUME IInv, NEW p \in Push, Throw(p)
    PROVE  IInv'
<1>1. TypeOK'
  <2>1. tx' \in [Push -> Tx]
    BY SetPhaseProperties DEF Throw, IInv, Phase
  <2>2. used' \in [faults : Nat, crashes : Nat]
    BY DEF Throw, Fault, IInv, TypeOK
  <2> QED BY <2>1, <2>2 DEF Throw, IInv, TypeOK
<1>2. ChecksHold'
  BY EndKeepsChecks DEF Throw, IInv
<1>3. MayRun /\ objects \subseteq objects' /\ UNCHANGED <<refs, log, open, origin>>
  BY DEF Throw
<1> QED BY <1>1, <1>2, <1>3, QuietStep DEF IInv
-----------------------------------------------------------------------------
(* BEGIN starts from the refs, on which the log agrees.                     *)
LEMMA BeginKeepsIInv ==
    ASSUME IInv, NEW p \in Push, Begin(p)
    PROVE  IInv'
<1>1. /\ open.owner = None /\ tx[p].phase = "updating_refs" /\ AllChecked(p)
      /\ UNCHANGED <<objects, refs, log, origin, used>>
  BY DEF Begin, MayRun
<1>2. CASE ~Unmoved(tx[p].commands)
  <2>1. SetPhase(p, "failed") /\ UNCHANGED open
    BY <1>2 DEF Begin
  <2>2. TypeOK'
    BY <1>1, <2>1, SetPhaseProperties DEF IInv, TypeOK, Phase
  <2>3. ChecksHold'
    BY <1>1, <2>1, EndKeepsChecks DEF IInv
  <2> QED BY <1>1, <2>1, <2>2, <2>3, QuietStep DEF IInv, MayRun
<1>3. CASE Unmoved(tx[p].commands)
  <2> DEFINE cmds == tx[p].commands
             es == log.entries
  <2>1. /\ open' = [owner |-> p, refs |-> refs, done |-> 0, pending |-> {}]
        /\ tx' = tx
    BY <1>3 DEF Begin
  <2>2. open'.owner = p /\ open'.refs = refs /\ open'.done = 0 /\ open'.pending = {}
    BY <2>1
  <2>3. /\ cmds \in Seq(Command) /\ es \in Seq(Entry) /\ Len(es) \in Nat
        /\ refs \in RefState /\ p # None
    BY PushAssumption DEF IInv, TypeOK, Tx, Log
  <2>4. TypeOK'
    BY <1>1, <2>1 DEF IInv, TypeOK, Transaction
  <2>5. ChecksHold'
    BY <1>1, <2>1 DEF IInv, ChecksHold
  <2>6. RefsResolve' /\ LogIsSound'
    BY <1>1 DEF IInv, RefsResolve, LogIsSound
  <2>7. refs = ReplayOn(origin, es)
    BY <1>1 DEF IInv, LogMirrorsRefs, CurrentRefs
  <2>8. LogMirrorsRefs'
    BY <1>1, <2>2, <2>3, <2>7 DEF LogMirrorsRefs, CurrentRefs
  <2>9. TransactionIsSound'
    <3>1. SubSeq(cmds, 1, 0) = <<>> /\ SubSeq(es, 1, Len(es) - 0) = es
      BY <2>3
    <3>2. refs = ReplayOn(refs, SubSeq(cmds, 1, 0))
      BY <3>1, <2>3, ReplayOnEmpty
    <3>3. refs = ReplayOn(origin, SubSeq(es, 1, Len(es) - 0))
      BY <3>1, <2>7, Zenon
    <3>4. {} = (Len(es) - 0 + 1)..Len(es) /\ 0 <= Len(cmds) /\ 0 <= Len(es)
      BY <2>3
    <3>5. AllChecked(p)' /\ Unmoved(cmds)'
      BY <1>1, <1>3, <2>1 DEF AllChecked, Unmoved
    <3>6. ASSUME NEW q \in Push, open'.owner = q PROVE q = p
      BY <3>6, <2>2
    <3> QED BY <1>1, <2>1, <2>2, <3>2, <3>3, <3>4, <3>5, <3>6, Zenon DEF TransactionIsSound
  <2> QED BY <2>4, <2>5, <2>6, <2>8, <2>9 DEF IInv
<1> QED BY <1>2, <1>3

(* What holds while p is inside its SQLite transaction.                     *)
LEMMA InsideTransaction ==
    ASSUME IInv, NEW p \in Push, open.owner = p
    PROVE  LET cmds == tx[p].commands
               es   == log.entries
               n    == Len(es)
           IN  /\ p # None /\ tx[p].phase = "updating_refs"
               /\ tx[p].checked = Len(cmds) /\ Unmoved(cmds)
               /\ cmds \in Seq(Command) /\ Len(cmds) \in Nat
               /\ es \in Seq(Entry) /\ n \in Nat
               /\ open.done \in Nat /\ open.done <= Len(cmds) /\ open.done <= n
               /\ open.refs \in RefState /\ refs \in RefState /\ origin \in RefState
               /\ open.refs = ReplayOn(refs, SubSeq(cmds, 1, open.done))
               /\ open.refs = ReplayOn(origin, es)
               /\ open.pending = (n - open.done + 1)..n
               /\ refs = ReplayOn(origin, SubSeq(es, 1, n - open.done))
<1>1. p # None
  BY PushAssumption
<1>2. /\ tx[p].commands \in Seq(Command) /\ log.entries \in Seq(Entry)
      /\ open.done \in Nat
      /\ open.refs \in RefState /\ refs \in RefState /\ origin \in RefState
  BY DEF IInv, TypeOK, Tx, Log, Transaction
<1>3. Len(tx[p].commands) \in Nat /\ Len(log.entries) \in Nat
  BY <1>2
<1>4. open.refs = ReplayOn(origin, log.entries)
  BY <1>1 DEF IInv, LogMirrorsRefs, CurrentRefs
<1>5. TransactionIsSound
  BY DEF IInv
<1> QED BY <1>1, <1>2, <1>3, <1>4, <1>5 DEF TransactionIsSound, AllChecked

(* A command moves the view of the transaction and the log together.        *)
LEMMA ApplyKeepsIInv ==
    ASSUME IInv, NEW p \in Push, Apply(p)
    PROVE  IInv'
<1> DEFINE cmds == tx[p].commands
           k == open.done
           c == cmds[k + 1]
           es == log.entries
           n == Len(es)
           e == [version |-> log.nextVersion, ref |-> c.ref, old |-> c.old, new |-> c.new]
           ncmds == SubSeq(cmds, 1, k + 1)
           nes == Append(es, e)
<1>1. /\ open.owner = p /\ k < Len(cmds)
      /\ log' = LogAppend(log, c.ref, c.old, c.new)
      /\ open' = [open EXCEPT !.refs[c.ref] = c.new, !.done = @ + 1,
                              !.pending = @ \cup {log.nextVersion}]
      /\ UNCHANGED <<objects, refs, tx, origin, used>>
  BY DEF Apply
<1>2. /\ p # None /\ tx[p].phase = "updating_refs"
      /\ tx[p].checked = Len(cmds) /\ Unmoved(cmds)
      /\ cmds \in Seq(Command) /\ Len(cmds) \in Nat
      /\ es \in Seq(Entry) /\ n \in Nat
      /\ k \in Nat /\ k <= n
      /\ open.refs \in RefState /\ refs \in RefState /\ origin \in RefState
      /\ open.refs = ReplayOn(refs, SubSeq(cmds, 1, k))
      /\ open.refs = ReplayOn(origin, es)
      /\ open.pending = (n - k + 1)..n
      /\ refs = ReplayOn(origin, SubSeq(es, 1, n - k))
  BY <1>1, InsideTransaction
<1>3. c \in Command /\ c.ref \in Ref /\ c.old \in Value /\ c.new \in Value
  <2>1. k + 1 \in 1..Len(cmds)
    BY <1>1, <1>2
  <2>2. c \in Command
    BY <1>2, <2>1
  <2> QED BY <2>2 DEF Command
<1>4. /\ e \in Entry /\ log' \in Log /\ Numbered(log') /\ SnapshotIsPrefix(log')
      /\ log'.entries = nes
  <2>1. log \in Log /\ Numbered(log) /\ SnapshotIsPrefix(log)
    BY DEF IInv, TypeOK, LogIsSound
  <2> HIDE DEF c
  <2> QED BY <1>1, <1>3, <2>1, LogAppendProperties
<1>5. open \in Transaction /\ log.nextVersion = n + 1
  BY DEF IInv, TypeOK, LogIsSound, Numbered
<1>6. /\ open'.owner = p /\ open'.done = k + 1
      /\ open'.refs = [open.refs EXCEPT ![c.ref] = c.new]
      /\ open'.pending = open.pending \cup {log.nextVersion}
  <2> HIDE DEF c
  <2> QED BY <1>1, <1>5 DEF Transaction
<1>7. open' \in Transaction
  <2> DEFINE rs == [open.refs EXCEPT ![c.ref] = c.new]
             pd == open.pending \cup {log.nextVersion}
             d == k + 1
  <2>1. rs \in RefState
    BY <1>2, <1>3 DEF RefState
  <2>2. pd \in SUBSET Nat
    BY <1>2, <1>5
  <2>3. d \in Nat
    BY <1>2
  <2>4. open' = [open EXCEPT !.refs = rs, !.done = d, !.pending = pd]
    BY <1>1, <1>5 DEF Transaction
  <2> HIDE DEF rs, pd, d
  <2> QED BY <1>5, <2>1, <2>2, <2>3, <2>4 DEF Transaction
<1>8. TypeOK'
  BY <1>1, <1>4, <1>7 DEF IInv, TypeOK
<1>9. ChecksHold' /\ RefsResolve'
  BY <1>1 DEF IInv, ChecksHold, RefsResolve
<1>10. LogIsSound'
  BY <1>4 DEF LogIsSound
<1>11. /\ SubSeq(cmds, 1, k) \in Seq(Command)
       /\ ncmds = Append(SubSeq(cmds, 1, k), c)
  <2> HIDE DEF cmds, k
  <2> QED BY <1>1, <1>2, NextPrefix
<1>12. open'.refs = ReplayOn(refs, ncmds)
  <2> DEFINE pre == SubSeq(cmds, 1, k)
  <2> HIDE DEF c, pre
  <2>1. pre \in Seq(Command) /\ ncmds = Append(pre, c) /\ open.refs = ReplayOn(refs, pre)
    BY <1>2, <1>11 DEF pre
  <2>2. ReplayOn(refs, Append(pre, c)) = [ReplayOn(refs, pre) EXCEPT ![c.ref] = c.new]
    BY <1>2, <1>3, <2>1, CommandsAreUpdates, ReplayOnAppend
  <2> HIDE DEF ncmds
  <2> QED BY <1>6, <2>1, <2>2, Zenon
<1>13. open'.refs = ReplayOn(origin, nes)
  <2>1. e.ref = c.ref /\ e.new = c.new
    OBVIOUS
  <2> HIDE DEF e, es, c
  <2>2. ReplayOn(origin, Append(es, e)) = [ReplayOn(origin, es) EXCEPT ![e.ref] = e.new]
    BY <1>2, <1>4, EntriesAreUpdates, ReplayOnAppend
  <2> QED BY <1>2, <1>6, <2>1, <2>2, Zenon
<1>14. LogMirrorsRefs'
  BY <1>1, <1>2, <1>4, <1>6, <1>13, Zenon DEF LogMirrorsRefs, CurrentRefs
<1>15. TransactionIsSound'
  <2> DEFINE m == Len(nes)
  <2>1. m = n + 1 /\ m - (k + 1) = n - k /\ k + 1 <= Len(cmds) /\ k + 1 <= m
    <3>1. Len(Append(es, e)) = Len(es) + 1
      BY <1>2, <1>4
    <3> HIDE DEF es, e, cmds, k
    <3> QED BY <1>1, <1>2, <3>1
  <2>2. SubSeq(nes, 1, n - k) = SubSeq(es, 1, n - k)
    BY <1>2, <1>4
  <2>3. refs = ReplayOn(origin, SubSeq(nes, 1, m - (k + 1)))
    <3> HIDE DEF nes, es, m, n, k
    <3> QED BY <1>2, <2>1, <2>2, Zenon
  <2>4. open'.pending = (m - (k + 1) + 1)..m
    <3> HIDE DEF m, n, k
    <3> QED BY <1>2, <1>5, <1>6, <2>1
  <2>5. AllChecked(p)' /\ Unmoved(cmds)'
    BY <1>1, <1>2 DEF AllChecked, Unmoved
  <2>6. ASSUME NEW q \in Push, open'.owner = q PROVE q = p
    BY <2>6, <1>6
  <2>7. /\ tx'[p].commands = cmds /\ tx'[p].phase = "updating_refs"
        /\ refs' = refs /\ origin' = origin
    BY <1>1, <1>2
  <2>8. open'.refs = ReplayOn(refs', SubSeq(tx'[p].commands, 1, open'.done))
    BY <1>6, <1>12, <2>7, Zenon
  <2>9. refs' = ReplayOn(origin', SubSeq(log'.entries, 1, Len(log'.entries) - open'.done))
    BY <1>4, <1>6, <2>3, <2>7, Zenon
  <2>10. open'.pending = (Len(log'.entries) - open'.done + 1)..Len(log'.entries)
    BY <1>4, <1>6, <2>4, Zenon
  <2>11. open'.done <= Len(tx'[p].commands) /\ open'.done <= Len(log'.entries)
    BY <1>4, <1>6, <2>1, <2>7, Zenon
  <2>12. AllChecked(p)' /\ Unmoved(tx[p].commands)'
    BY <2>5
  <2> HIDE DEF cmds, k, c, es, n, e, nes
  <2> QED BY <2>6, <2>7, <2>8, <2>9, <2>10, <2>11, <2>12, Zenon DEF TransactionIsSound
<1> QED BY <1>8, <1>9, <1>10, <1>14, <1>15 DEF IInv

(* A commit replaces the refs by what the commands make of them.            *)
LEMMA CommittedState ==
    ASSUME IInv, NEW p \in Push, Commit(p)
    PROVE  refs' = ReplayOn(refs, tx[p].commands)
<1> DEFINE cmds == tx[p].commands
<1>1. /\ open.owner = p /\ open.done = Len(cmds) /\ refs' = open.refs
  BY DEF Commit
<1>2. cmds \in Seq(Command) /\ open.refs = ReplayOn(refs, SubSeq(cmds, 1, open.done))
  BY <1>1, InsideTransaction
<1>3. SubSeq(cmds, 1, Len(cmds)) = cmds
  BY <1>2
<1> HIDE DEF cmds
<1>4. refs' = ReplayOn(refs, cmds)
  BY <1>1, <1>2, <1>3, Zenon
<1> QED BY <1>4 DEF cmds

(* So each ref keeps its value or gets the new value of a command.          *)
LEMMA CommittedRefs ==
    ASSUME IInv, NEW p \in Push, Commit(p), NEW r \in Ref
    PROVE  LET cmds == tx[p].commands IN
           \/ refs'[r] = refs[r]
           \/ \E i \in DOMAIN cmds : cmds[i].ref = r /\ refs'[r] = cmds[i].new
<1> DEFINE cmds == tx[p].commands
           last == Max(UpdatesOf(cmds, r))
<1>1. open.owner = p
  BY DEF Commit
<1>2. cmds \in Seq(Command)
  BY <1>1, InsideTransaction
<1>3. refs' = ReplayOn(refs, cmds)
  BY CommittedState
<1>4. refs'[r] = IF UpdatesOf(cmds, r) = {} THEN refs[r] ELSE cmds[last].new
  <2> HIDE DEF cmds
  <2> QED BY <1>2, <1>3, ReplayOnAt
<1>5. UpdatesOf(cmds, r) # {} => last \in UpdatesOf(cmds, r)
  <2> HIDE DEF cmds
  <2> QED BY <1>2, LastUpdate
<1>6. UpdatesOf(cmds, r) # {} => last \in DOMAIN cmds /\ cmds[last].ref = r
  BY <1>5 DEF UpdatesOf
<1> QED BY <1>4, <1>6

(* A commit publishes refs whose targets have all been checked.             *)
LEMMA CommitKeepsIInv ==
    ASSUME IInv, NEW p \in Push, Commit(p)
    PROVE  IInv'
<1> DEFINE cmds == tx[p].commands
<1>1. /\ open.owner = p /\ refs' = open.refs /\ open' = Closed
      /\ SetPhase(p, "completed") /\ UNCHANGED <<objects, log, origin, used>>
  BY DEF Commit
<1>2. open'.owner = None /\ open' \in Transaction
  BY <1>1, EmptyStateType DEF Closed, Transaction
<1>3. /\ p # None /\ tx[p].phase = "updating_refs" /\ tx[p].checked = Len(cmds)
      /\ cmds \in Seq(Command) /\ open.refs \in RefState
      /\ open.refs = ReplayOn(origin, log.entries)
  BY <1>1, InsideTransaction
<1>4. TypeOK'
  <2>1. tx' \in [Push -> Tx]
    BY <1>1, SetPhaseProperties DEF IInv, Phase
  <2> QED BY <1>1, <1>2, <1>3, <2>1 DEF IInv, TypeOK
<1>5. ChecksHold'
  BY <1>1, EndKeepsChecks DEF IInv
<1>6. RefsResolve'
  <2> SUFFICES ASSUME NEW r \in Ref, refs'[r] # None PROVE refs'[r] \in objects
    BY <1>1 DEF RefsResolve
  <2>1. CASE refs'[r] = refs[r]
    BY <2>1 DEF IInv, RefsResolve
  <2>2. CASE \E i \in DOMAIN cmds : cmds[i].ref = r /\ refs'[r] = cmds[i].new
    <3>1. PICK i \in DOMAIN cmds : refs'[r] = cmds[i].new
      BY <2>2
    <3>2. i \in 1..tx[p].checked
      BY <1>3, <3>1
    <3>3. cmds[i].new \in objects \cup {None}
      BY <1>3, <3>2 DEF IInv, ChecksHold
    <3> QED BY <3>1, <3>3
  <2> QED BY <2>1, <2>2, CommittedRefs
<1>7. LogIsSound'
  BY <1>1 DEF IInv, LogIsSound
<1>8. LogMirrorsRefs'
  BY <1>1, <1>2, <1>3 DEF LogMirrorsRefs, CurrentRefs
<1>9. TransactionIsSound'
  BY <1>2, PushAssumption DEF TransactionIsSound
<1> QED BY <1>4, <1>5, <1>6, <1>7, <1>8, <1>9 DEF IInv

(* Rolling back takes from the log what this transaction put there.         *)
LEMMA UndoLogProperties ==
    ASSUME IInv, NEW p \in Push, open.owner = p
    PROVE  /\ UndoLog \in Log /\ Numbered(UndoLog) /\ SnapshotIsPrefix(UndoLog)
           /\ UndoLog.entries = SubSeq(log.entries, 1, Len(log.entries) - open.done)
<1> DEFINE k == open.done
           es == log.entries
           n == Len(es)
           P == open.pending
           from == n - k + 1
<1>1. es \in Seq(Entry) /\ n \in Nat /\ k \in Nat /\ k <= n /\ P = from..n
  BY InsideTransaction
<1>2. log \in Log /\ Numbered(log) /\ SnapshotIsPrefix(log)
  BY DEF IInv, TypeOK, LogIsSound
<1>3. CASE P = {}
  <2>1. from > n
    <3> HIDE DEF P, n, k
    <3> QED BY <1>1, <1>3
  <2>2. n - k = n
    <3> HIDE DEF P, n, k
    <3> QED BY <1>1, <2>1
  <2>3. SubSeq(es, 1, n) = es
    BY <1>1
  <2> QED BY <1>2, <1>3, <2>2, <2>3 DEF UndoLog
<1>4. CASE P # {}
  <2>1. P \in SUBSET Nat /\ from \in P /\ \A y \in P : from <= y
    <3> HIDE DEF P, n, k
    <3> QED BY <1>1, <1>4
  <2>2. Min(P) = from
    <3> HIDE DEF P, from
    <3> QED BY <2>1, MinIs
  <2>3. UndoLog = LogRollback(log, from)
    BY <1>4, <2>2 DEF UndoLog
  <2>4. from \in 1..(Len(log.entries) + 1) /\ from - 1 = n - k
    <3> HIDE DEF P, n, k
    <3> QED BY <1>1 DEF n
  <2> HIDE DEF from
  <2> QED BY <1>2, <2>3, <2>4, LogRollbackProperties
<1> QED BY <1>3, <1>4

(* A rollback takes the log back to the refs that stay.                     *)
LEMMA RollbackKeepsIInv ==
    ASSUME IInv, NEW p \in Push, Rollback(p)
    PROVE  IInv'
<1> DEFINE k == open.done
           es == log.entries
           n == Len(es)
<1>1. /\ open.owner = p /\ Fault /\ log' = UndoLog /\ open' = Closed
      /\ SetPhase(p, "failed") /\ UNCHANGED <<objects, refs, origin>>
  BY DEF Rollback
<1>2. open'.owner = None /\ open' \in Transaction
  BY <1>1, EmptyStateType DEF Closed, Transaction
<1>3. refs = ReplayOn(origin, SubSeq(es, 1, n - k))
  BY <1>1, InsideTransaction
<1>4. /\ log' \in Log /\ Numbered(log') /\ SnapshotIsPrefix(log')
      /\ log'.entries = SubSeq(es, 1, n - k)
  BY <1>1, UndoLogProperties
<1>5. TypeOK'
  <2>1. tx' \in [Push -> Tx]
    BY <1>1, SetPhaseProperties DEF IInv, Phase
  <2>2. used' \in [faults : Nat, crashes : Nat]
    BY <1>1 DEF Fault, IInv, TypeOK
  <2> QED BY <1>1, <1>2, <1>4, <2>1, <2>2 DEF IInv, TypeOK
<1>6. ChecksHold'
  BY <1>1, EndKeepsChecks DEF IInv
<1>7. RefsResolve'
  BY <1>1 DEF IInv, RefsResolve
<1>8. LogIsSound'
  BY <1>4 DEF LogIsSound
<1>9. LogMirrorsRefs'
  <2> HIDE DEF es, n, k
  <2> QED BY <1>1, <1>2, <1>3, <1>4, Zenon DEF LogMirrorsRefs, CurrentRefs
<1>10. TransactionIsSound'
  BY <1>2, PushAssumption DEF TransactionIsSound
<1> QED BY <1>5, <1>6, <1>7, <1>8, <1>9, <1>10 DEF IInv

(* A restart starts an empty log at the refs of that moment.                *)
LEMMA CrashKeepsIInv == ASSUME IInv, Crash PROVE IInv'
<1>1. /\ open' = Closed /\ log' = EmptyLog /\ origin' = refs
      /\ UNCHANGED <<objects, refs>>
  BY DEF Crash
<1>2. open'.owner = None /\ open' \in Transaction
  BY <1>1, EmptyStateType DEF Closed, Transaction
<1>3. ASSUME NEW p \in Push
      PROVE  /\ tx'[p] \in Tx
             /\ \/ tx'[p] = tx[p]
                \/ tx'[p].phase = "failed"
  <2>1. tx[p] \in Tx
    BY DEF IInv, TypeOK
  <2>2. CASE tx[p].phase \in {"flushing", "updating_refs"}
    <3>1. tx'[p] = [tx[p] EXCEPT !.phase = "failed", !.putting = None]
      BY <2>2 DEF Crash
    <3> QED BY <2>1, <3>1 DEF Tx, Phase, Value
  <2>3. CASE tx[p].phase \notin {"flushing", "updating_refs"}
    BY <2>1, <2>3 DEF Crash
  <2> QED BY <2>2, <2>3
<1>4. TypeOK'
  <2>1. tx' \in [Push -> Tx]
    <3>1. tx' = [p \in Push |-> tx'[p]]
      BY DEF Crash
    <3> QED BY <1>3, <3>1
  <2>2. used' \in [faults : Nat, crashes : Nat]
    <3>1. used \in [faults : Nat, crashes : Nat]
      BY DEF IInv, TypeOK
    <3>2. used' = [used EXCEPT !.crashes = @ + 1]
      BY DEF Crash
    <3> QED BY <3>1, <3>2
  <2> QED BY <1>1, <1>2, <2>1, <2>2, EmptyLogProperties DEF IInv, TypeOK
<1>5. ChecksHold'
  BY <1>1, <1>3 DEF IInv, ChecksHold
<1>6. RefsResolve'
  BY <1>1 DEF IInv, RefsResolve
<1>7. LogIsSound'
  BY <1>1, EmptyLogProperties DEF LogIsSound
<1>8. LogMirrorsRefs'
  <2>1. ReplayOn(refs, <<>>) = refs
    BY ReplayOnEmpty DEF IInv, TypeOK
  <2>2. log'.entries = <<>>
    BY <1>1 DEF EmptyLog
  <2> QED BY <1>1, <1>2, <2>1, <2>2, Zenon DEF LogMirrorsRefs, CurrentRefs
<1>9. TransactionIsSound'
  BY <1>2, PushAssumption DEF TransactionIsSound
<1> QED BY <1>4, <1>5, <1>6, <1>7, <1>8, <1>9 DEF IInv
-----------------------------------------------------------------------------
(* A step of a push is one of its operations.                               *)
LEMMA NextCases ==
    ASSUME Next
    PROVE  \/ \E p \in Push : \/ \E pack \in Packs, cmds \in Commands : Receive(p, pack, cmds)
                              \/ ReceiveFail(p)
                              \/ \E o \in tx[p].buffer : FlushHas(p, o)
                              \/ FlushPut(p) \/ FlushFail(p) \/ FlushEnd(p) \/ CheckTarget(p)
                              \/ Throw(p) \/ Begin(p) \/ Apply(p) \/ Commit(p) \/ Rollback(p)
           \/ Crash
BY DEF Next, Execute

(* Every step preserves the invariant.                                      *)
LEMMA NextKeepsIInv == IInv /\ [Next]_vars => IInv'
<1> SUFFICES ASSUME IInv, [Next]_vars PROVE IInv'
  OBVIOUS
<1>1. CASE UNCHANGED vars
  <2>1. UNCHANGED <<objects, refs, log, tx, open, origin, used>>
    BY <1>1 DEF vars
  <2>2. TypeOK' /\ ChecksHold' /\ RefsResolve' /\ LogIsSound' /\ LogMirrorsRefs'
    BY <2>1 DEF IInv, TypeOK, ChecksHold, RefsResolve, LogIsSound, LogMirrorsRefs, CurrentRefs
  <2>3. TransactionIsSound'
    BY <2>1 DEF IInv, TransactionIsSound, AllChecked, Unmoved
  <2> QED BY <2>2, <2>3 DEF IInv
<1>2. CASE Next
  <2>1. ASSUME NEW p \in Push, NEW pack \in Packs, NEW cmds \in Commands, Receive(p, pack, cmds)
        PROVE  IInv'
    BY <2>1, ReceiveKeepsIInv
  <2>2. ASSUME NEW p \in Push, ReceiveFail(p) PROVE IInv'
    BY <2>2, ReceiveFailKeepsIInv
  <2>3. ASSUME NEW p \in Push, NEW o \in tx[p].buffer, FlushHas(p, o) PROVE IInv'
    BY <2>3, FlushHasKeepsIInv
  <2>4. ASSUME NEW p \in Push, FlushPut(p) PROVE IInv'
    BY <2>4, FlushPutKeepsIInv
  <2>5. ASSUME NEW p \in Push, FlushFail(p) PROVE IInv'
    BY <2>5, FlushFailKeepsIInv
  <2>6. ASSUME NEW p \in Push, FlushEnd(p) PROVE IInv'
    BY <2>6, FlushEndKeepsIInv
  <2>7. ASSUME NEW p \in Push, CheckTarget(p) PROVE IInv'
    BY <2>7, CheckTargetKeepsIInv
  <2>8. ASSUME NEW p \in Push, Throw(p) PROVE IInv'
    BY <2>8, ThrowKeepsIInv
  <2>9. ASSUME NEW p \in Push, Begin(p) PROVE IInv'
    BY <2>9, BeginKeepsIInv
  <2>10. ASSUME NEW p \in Push, Apply(p) PROVE IInv'
    BY <2>10, ApplyKeepsIInv
  <2>11. ASSUME NEW p \in Push, Commit(p) PROVE IInv'
    BY <2>11, CommitKeepsIInv
  <2>12. ASSUME NEW p \in Push, Rollback(p) PROVE IInv'
    BY <2>12, RollbackKeepsIInv
  <2>13. ASSUME Crash PROVE IInv'
    BY <2>13, CrashKeepsIInv
  <2> QED BY <1>2, <2>1, <2>2, <2>3, <2>4, <2>5, <2>6, <2>7, <2>8, <2>9, <2>10, <2>11,
             <2>12, <2>13, NextCases, Zenon
<1> QED BY <1>1, <1>2

(* The inductive invariant: what holds of the object store, the refs, the   *)
(* log and the open transaction in every reachable state.                   *)
THEOREM Inductive == Spec => []IInv
<1>1. Init => IInv
  BY InitIInv
<1>2. IInv /\ [Next]_vars => IInv'
  BY NextKeepsIInv
<1> QED BY <1>1, <1>2, PTL DEF Spec

(* Type correctness.                                                        *)
THEOREM TypeCorrect == Spec => []TypeOK
<1>1. IInv => TypeOK
  BY DEF IInv
<1> QED BY <1>1, Inductive, PTL

(* No committed ref points at a missing object: the invariant that          *)
(* push-transaction.ts calls critical.                                      *)
THEOREM RefsAlwaysResolve == Spec => []RefsResolve
<1>1. IInv => RefsResolve
  BY DEF IInv
<1> QED BY <1>1, Inductive, PTL

(* The log replays to the refs, during and after every transaction,         *)
(* whether it commits or rolls back.                                        *)
THEOREM LogAlwaysMirrorsRefs == Spec => []LogMirrorsRefs
<1>1. IInv => LogMirrorsRefs
  BY DEF IInv
<1> QED BY <1>1, Inductive, PTL

(* Snapshots, the automatic ones included, never change what the log says.  *)
THEOREM SnapshotAlwaysFaithful == Spec => []SnapshotIsFaithful
<1>1. IInv => SnapshotIsFaithful
  BY ReplayStateIsReplay DEF IInv, TypeOK, LogIsSound, SnapshotIsFaithful
<1> QED BY <1>1, Inductive, PTL

(* Only a commit moves refs.                                                *)
LEMMA OnlyCommitMovesRefs ==
    ASSUME [Next]_vars, refs' # refs
    PROVE  \E p \in Push : Commit(p)
<1>1. Next
  BY DEF vars
<1>2. ASSUME NEW p \in Push PROVE ~ReceiveFail(p) /\ ~FlushPut(p) /\ ~FlushFail(p)
                                  /\ ~FlushEnd(p) /\ ~CheckTarget(p) /\ ~Throw(p)
                                  /\ ~Begin(p) /\ ~Apply(p) /\ ~Rollback(p)
  BY DEF ReceiveFail, FlushPut, FlushFail, FlushEnd, CheckTarget, Throw, Begin, Apply, Rollback
<1>3. ASSUME NEW p \in Push, NEW o \in tx[p].buffer PROVE ~FlushHas(p, o)
  BY DEF FlushHas
<1>4. ASSUME NEW p \in Push, NEW pack \in Packs, NEW cmds \in Commands
      PROVE  ~Receive(p, pack, cmds)
  BY DEF Receive
<1>5. ~Crash
  BY DEF Crash
<1> QED BY <1>1, <1>2, <1>3, <1>4, <1>5, NextCases, Zenon

(* All ref updates of a push succeed or none do, and they start from the    *)
(* values its client had seen.                                              *)
THEOREM PushesAreAtomic == Spec => AtomicPush
<1> DEFINE Step == refs' # refs =>
              \E p \in Push :
                 /\ tx[p].phase # "completed" /\ tx'[p].phase = "completed"
                 /\ Unmoved(tx[p].commands)
                 /\ refs' = ReplayOn(refs, tx[p].commands)
<1>1. ASSUME IInv, [Next]_vars PROVE Step
  <2> SUFFICES ASSUME refs' # refs PROVE Step
    OBVIOUS
  <2>1. PICK p \in Push : Commit(p)
    BY <1>1, OnlyCommitMovesRefs
  <2>2. open.owner = p /\ SetPhase(p, "completed") /\ refs' = open.refs
    BY <2>1 DEF Commit
  <2>3. tx[p].phase = "updating_refs" /\ Unmoved(tx[p].commands)
    BY <1>1, <2>2, InsideTransaction
  <2>4. tx'[p].phase = "completed"
    BY <1>1, <2>2, SetPhaseProperties DEF IInv, Phase
  <2>5. refs' = ReplayOn(refs, tx[p].commands)
    BY <1>1, <2>1, CommittedState
  <2> QED BY <2>3, <2>4, <2>5
<1>2. IInv /\ [Next]_vars => [Step]_vars
  BY <1>1
<1> QED BY <1>2, Inductive, PTL DEF Spec, AtomicPush

(* A ref protected from deletion is never deleted.                          *)
THEOREM ProtectedRefsAlwaysStay == Spec => ProtectedRefsStay
<1> DEFINE Step == \A rule \in Rules : \A r \in rule.covers :
              rule.preventDeletion /\ refs[r] # None => refs'[r] # None
<1>1. ASSUME IInv, [Next]_vars PROVE Step
  <2> SUFFICES ASSUME NEW rule \in Rules, NEW r \in rule.covers,
                      rule.preventDeletion, refs[r] # None, refs'[r] = None
               PROVE  FALSE
    OBVIOUS
  <2>1. PICK p \in Push : Commit(p)
    BY <1>1, OnlyCommitMovesRefs
  <2>2. tx[p].phase = "updating_refs" /\ Allowed(tx[p].commands)
    <3>1. open.owner = p
      BY <2>1 DEF Commit
    <3>2. tx[p].phase = "updating_refs"
      BY <1>1, <3>1, InsideTransaction
    <3> QED BY <1>1, <3>2 DEF IInv, ChecksHold
  <2>3. r \in Ref
    BY PushAssumption DEF Rule
  <2>4. PICK i \in DOMAIN tx[p].commands :
           tx[p].commands[i].ref = r /\ refs'[r] = tx[p].commands[i].new
    BY <1>1, <2>1, <2>3, CommittedRefs
  <2>5. Refuses(rule, tx[p].commands[i], FALSE)
    BY <2>4 DEF Refuses, IsDelete
  <2> QED BY <2>2, <2>4, <2>5 DEF Allowed
<1>2. IInv /\ [Next]_vars => [Step]_vars
  BY <1>1
<1> QED BY <1>2, Inductive, PTL DEF Spec, ProtectedRefsStay
-----------------------------------------------------------------------------
(* Git clients name each ref once in a push.  Nothing in execute says so,   *)
(* and the entries of a push that names one twice do not chain.             *)
OneUpdatePerRef ==
    \A cmds \in Commands : \A i, j \in DOMAIN cmds : cmds[i].ref = cmds[j].ref => i = j

(* A push asks for what it received.                                        *)
CommandsAsked == \A p \in Push : tx[p].commands \in Commands \cup {<<>>}

(* The commands of a push are ones that were asked for.                     *)
LEMMA CommandsStayAsked ==
    ASSUME IInv, CommandsAsked, [Next]_vars
    PROVE  CommandsAsked'
<1> DEFINE Kept(p) == \A q \in Push : tx'[q].commands = tx[q].commands
<1>1. tx \in [Push -> Tx]
  BY DEF IInv, TypeOK
<1>2. ASSUME NEW p \in Push, NEW ph, SetPhase(p, ph) PROVE Kept(p)
  BY <1>1, <1>2 DEF SetPhase, Tx
<1>3. ASSUME NEW p \in Push, NEW pack \in Packs, NEW cmds \in Commands, Receive(p, pack, cmds)
      PROVE  CommandsAsked'
  <2>1. tx'[p].commands = cmds /\ \A q \in Push \ {p} : tx'[q] = tx[q]
    BY <1>1, <1>3 DEF Receive, Tx
  <2> QED BY <2>1 DEF CommandsAsked
<1>4. ASSUME NEW p \in Push, NEW o \in tx[p].buffer, FlushHas(p, o) PROVE Kept(p)
  BY <1>1, <1>4 DEF FlushHas, Tx
<1>5. ASSUME NEW p \in Push, FlushPut(p) PROVE Kept(p)
  BY <1>1, <1>5 DEF FlushPut, Tx
<1>6. ASSUME NEW p \in Push, CheckTarget(p) PROVE Kept(p)
  <2>1. CASE tx' = [tx EXCEPT ![p].checked = @ + 1]
    BY <1>1, <2>1 DEF Tx
  <2>2. CASE SetPhase(p, "failed")
    BY <1>2, <2>2
  <2> QED BY <1>6, <2>1, <2>2 DEF CheckTarget
<1>7. ASSUME NEW p \in Push, Begin(p) PROVE Kept(p)
  <2>1. tx' = tx \/ SetPhase(p, "failed")
    BY <1>7 DEF Begin
  <2> QED BY <1>2, <2>1
<1>8. ASSUME NEW p \in Push,
             \/ ReceiveFail(p) \/ FlushFail(p) \/ FlushEnd(p) \/ Throw(p)
             \/ Commit(p) \/ Rollback(p)
      PROVE  Kept(p)
  <2>1. \E ph : SetPhase(p, ph)
    BY <1>8 DEF ReceiveFail, FlushFail, FlushEnd, Throw, Commit, Rollback
  <2> QED BY <1>2, <2>1
<1>9. ASSUME NEW p \in Push, Apply(p) PROVE Kept(p)
  BY <1>9 DEF Apply
<1>10. ASSUME Crash PROVE \A q \in Push : tx'[q].commands = tx[q].commands
  BY <1>1, <1>10 DEF Crash, Tx
<1>11. CASE UNCHANGED vars
  BY <1>11 DEF vars, CommandsAsked
<1>12. CASE Next
  <2>1. ASSUME NEW p \in Push, Kept(p) PROVE CommandsAsked'
    BY <2>1 DEF CommandsAsked
  <2>2. ASSUME Crash PROVE CommandsAsked'
    BY <1>10, <2>2 DEF CommandsAsked
  <2> HIDE DEF Kept
  <2> QED BY <1>3, <1>4, <1>5, <1>6, <1>7, <1>8, <1>9, <1>12, <2>1, <2>2, NextCases, Zenon
<1> QED BY <1>11, <1>12

(* When refs are named once, every step keeps the log a chain.              *)
LEMMA OldStaysPrevious ==
    ASSUME OneUpdatePerRef, IInv, CommandsAsked, OldIsPrevious, [Next]_vars
    PROVE  OldIsPrevious'
<1> DEFINE es == log.entries
           n == Len(es)
<1>1. es \in Seq(Entry) /\ n \in Nat
  BY DEF IInv, TypeOK, Log
<1>2. CASE log' = log /\ origin' = origin
  BY <1>2 DEF OldIsPrevious
<1>3. ASSUME NEW p \in Push, Apply(p) PROVE OldIsPrevious'
  <2> DEFINE cmds == tx[p].commands
             k == open.done
             c == cmds[k + 1]
             e == [version |-> log.nextVersion, ref |-> c.ref, old |-> c.old, new |-> c.new]
  <2>1. /\ open.owner = p /\ k < Len(cmds) /\ origin' = origin
        /\ log' = LogAppend(log, c.ref, c.old, c.new)
    BY <1>3 DEF Apply
  <2>2. /\ cmds \in Seq(Command) /\ Len(cmds) \in Nat /\ k \in Nat /\ Unmoved(cmds)
        /\ open.refs = ReplayOn(refs, SubSeq(cmds, 1, k))
        /\ open.refs = ReplayOn(origin, es)
    BY <2>1, InsideTransaction
  <2>3. k + 1 \in 1..Len(cmds) /\ c.ref \in Ref /\ c.old \in Value /\ c.new \in Value
    <3>1. k + 1 \in 1..Len(cmds)
      BY <2>1, <2>2
    <3>2. c \in Command
      BY <2>2, <3>1
    <3> QED BY <3>1, <3>2 DEF Command
  <2>4. e \in Entry /\ log'.entries = Append(es, e)
    <3>1. log \in Log /\ Numbered(log) /\ SnapshotIsPrefix(log)
      BY DEF IInv, TypeOK, LogIsSound
    <3> HIDE DEF c
    <3> QED BY <2>1, <2>3, <3>1, LogAppendProperties
  <2>5. e.old = ReplayOn(origin, es)[e.ref]
    <3> DEFINE pre == SubSeq(cmds, 1, k)
    <3>1. pre \in Seq(Command) /\ DOMAIN pre = 1..k /\ \A i \in 1..k : pre[i] = cmds[i]
      BY <2>1, <2>2
    <3>2. cmds \in Commands /\ DOMAIN cmds = 1..Len(cmds)
      BY <2>2, <2>3 DEF CommandsAsked
    <3>3. \A i \in 1..k : cmds[i].ref # c.ref
      BY <2>1, <2>2, <2>3, <3>2 DEF OneUpdatePerRef
    <3> HIDE DEF pre, c
    <3>4. UpdatesOf(pre, c.ref) = {}
      BY <3>1, <3>3 DEF UpdatesOf
    <3>5. ReplayOn(refs, pre)[c.ref] = refs[c.ref]
      BY <2>3, <3>1, <3>4, ReplayOnAt
    <3>6. refs[c.ref] = c.old
      BY <2>2, <2>3, <3>2 DEF Unmoved, c
    <3> QED BY <2>2, <3>5, <3>6, Zenon DEF pre, e
  <2> HIDE DEF e, es, n, c, cmds, k
  <2>6. ASSUME NEW i \in 1..(n + 1)
        PROVE  LET new == Append(es, e) IN
               new[i].old = ReplayOn(origin, SubSeq(new, 1, i - 1))[new[i].ref]
    <3>1. CASE i = n + 1
      <4>1. Append(es, e)[i] = e /\ SubSeq(Append(es, e), 1, i - 1) = es
        BY <1>1, <2>4, <3>1 DEF n
      <4> QED BY <2>5, <4>1, Zenon
    <3>2. CASE i # n + 1
      <4>1. i \in 1..n
        BY <1>1, <3>2
      <4>2. Append(es, e)[i] = es[i] /\ SubSeq(Append(es, e), 1, i - 1) = SubSeq(es, 1, i - 1)
        BY <1>1, <2>4, <4>1 DEF n
      <4>3. es[i].old = ReplayOn(origin, SubSeq(es, 1, i - 1))[es[i].ref]
        BY <1>1, <4>1 DEF OldIsPrevious, es, n
      <4> QED BY <4>2, <4>3, Zenon
    <3> QED BY <3>1, <3>2
  <2>7. DOMAIN log'.entries = 1..(n + 1)
    BY <1>1, <2>4 DEF n
  <2> QED BY <2>1, <2>4, <2>6, <2>7, Zenon DEF OldIsPrevious
<1>4. ASSUME NEW p \in Push, Rollback(p) PROVE OldIsPrevious'
  <2> DEFINE m == n - open.done
             kept == SubSeq(es, 1, m)
  <2>1. log'.entries = kept /\ origin' = origin
    BY <1>4, UndoLogProperties DEF Rollback
  <2>2. m \in 0..n
    BY <1>4, InsideTransaction DEF Rollback
  <2> HIDE DEF m
  <2>3. DOMAIN kept = 1..m
    BY <1>1, <2>2
  <2>4. ASSUME NEW i \in 1..m
        PROVE  kept[i].old = ReplayOn(origin, SubSeq(kept, 1, i - 1))[kept[i].ref]
    <3>1. kept[i] = es[i] /\ SubSeq(kept, 1, i - 1) = SubSeq(es, 1, i - 1) /\ i \in 1..n
      BY <1>1, <2>2
    <3> HIDE DEF kept
    <3>2. es[i].old = ReplayOn(origin, SubSeq(es, 1, i - 1))[es[i].ref]
      BY <1>1, <3>1 DEF OldIsPrevious
    <3> QED BY <3>1, <3>2, Zenon
  <2> HIDE DEF kept
  <2> QED BY <2>1, <2>3, <2>4, Zenon DEF OldIsPrevious
<1>5. ASSUME Crash PROVE OldIsPrevious'
  <2>1. log'.entries = <<>>
    BY <1>5 DEF Crash, EmptyLog
  <2>2. \A i \in DOMAIN <<>> : FALSE
    OBVIOUS
  <2> QED BY <2>1, <2>2, Zenon DEF OldIsPrevious
<1>6. CASE UNCHANGED vars
  BY <1>2, <1>6 DEF vars
<1>7. CASE Next
  <2>1. ASSUME NEW p \in Push PROVE
          ReceiveFail(p) \/ FlushPut(p) \/ FlushFail(p) \/ FlushEnd(p) \/ CheckTarget(p)
             \/ Throw(p) \/ Begin(p) \/ Commit(p) => log' = log /\ origin' = origin
    BY DEF ReceiveFail, FlushPut, FlushFail, FlushEnd, CheckTarget, Throw, Begin, Commit
  <2>2. ASSUME NEW p \in Push, NEW o \in tx[p].buffer
        PROVE  FlushHas(p, o) => log' = log /\ origin' = origin
    BY DEF FlushHas
  <2>3. ASSUME NEW p \in Push, NEW pack \in Packs, NEW cmds \in Commands
        PROVE  Receive(p, pack, cmds) => log' = log /\ origin' = origin
    BY DEF Receive
  <2> QED BY <1>2, <1>3, <1>4, <1>5, <1>7, <2>1, <2>2, <2>3, NextCases, Zenon
<1> QED BY <1>6, <1>7

(* In pushes that name each ref once, the log is a chain: the previous SHA  *)
(* of an entry is what its ref had.                                         *)
THEOREM LogAlwaysChains == OneUpdatePerRef => (Spec => []LogChains)
<1> SUFFICES ASSUME OneUpdatePerRef PROVE Spec => []LogChains
  OBVIOUS
<1> DEFINE Chained == CommandsAsked /\ OldIsPrevious
<1>1. Init => Chained
  BY DEF Init, NewTx, EmptyLog, CommandsAsked, OldIsPrevious
<1>2. IInv /\ Chained /\ [Next]_vars => Chained'
  BY CommandsStayAsked, OldStaysPrevious
<1>3. IInv /\ Chained => LogChains
  BY DEF IInv, LogIsSound, LogChains
<1> HIDE DEF Chained
<1> QED BY <1>1, <1>2, <1>3, Inductive, PTL DEF Spec
=============================================================================

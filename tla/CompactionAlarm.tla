---------------------------- MODULE CompactionAlarm ----------------------------
(***************************************************************************)
(* do/git-repo-do.ts: compaction that is asked for by a request and run by *)
(* an alarm of the Durable Object, with its retries.  That it is needed is *)
(* a flag in memory (storage/parquet-store.ts), how often it has failed a  *)
(* row in SQLite, and the alarm is kept by the platform; the compaction    *)
(* itself is awaited, and requests are served meanwhile.                   *)
(***************************************************************************)
EXTENDS Naturals

CONSTANTS
    None,
    MaxAttempts,    \* MAX_COMPACTION_ATTEMPTS
    MaxRequests     \* bound: calls of scheduleCompaction

AlarmAssumption == MaxAttempts \in Nat \ {0} /\ MaxRequests \in Nat /\ None \notin Nat

VARIABLES
    alarms,     \* the runtime has setAlarm
    needed,     \* _compactionNeeded
    attempts,   \* attempt_count, 0 if there is no row
    alarm,      \* an alarm is set
    handler,    \* the attempt count the running alarm has read, or None
    requests, tries, refused
                \* history: requests made, the compactions begun since the last, and
                \* that the last setAlarm failed

vars == <<alarms, needed, attempts, alarm, handler, requests, tries, refused>>

Init == /\ alarms \in BOOLEAN
        /\ needed = FALSE /\ attempts = 0 /\ alarm = FALSE /\ handler = None
        /\ requests = 0 /\ tries = 0 /\ refused = FALSE

\* setAlarm, which nobody awaits: when it fails nobody is told, and the alarm
\* stays as it was.
SetAlarm == \/ alarm' = TRUE /\ refused' = FALSE
            \/ refused' = TRUE /\ UNCHANGED alarm

\* GitRepoDO.scheduleCompaction, when there is something to compact: with no
\* alarms, or if setAlarm throws at once, the compaction is begun right here, and
\* its failure only logged.
Schedule ==
    /\ requests < MaxRequests
    /\ requests' = requests + 1
    /\ attempts' = 0
    /\ \/ alarms /\ SetAlarm /\ needed' = TRUE /\ tries' = 0
       \/ needed' = FALSE /\ tries' = 1 /\ UNCHANGED <<alarm, refused>>
    /\ UNCHANGED <<alarms, handler>>

\* The alarm fires; runCompactionIfNeeded takes the flag before it awaits.
\* With the attempts used up it is called all the same.
Fire ==
    /\ alarm /\ handler = None
    /\ alarm' = FALSE
    /\ IF needed THEN handler' = attempts /\ needed' = FALSE /\ tries' = tries + 1
                 ELSE UNCHANGED <<handler, needed, tries>>
    /\ UNCHANGED <<alarms, attempts, requests, refused>>

Succeed ==
    /\ handler # None
    /\ attempts' = IF handler < MaxAttempts THEN 0 ELSE attempts
    /\ handler' = None
    /\ UNCHANGED <<alarms, needed, alarm, requests, tries, refused>>

\* A wrong Failed: the count that was read is written back.
Failed_Same == handler

\* newAttemptCount, from the count read before the compaction.
Failed == handler + 1

\* A failed attempt is recorded and, if another is allowed, asked for: the
\* flag is set unless the store has come to have nothing to compact.
Fail ==
    /\ handler # None
    /\ attempts' = IF handler < MaxAttempts THEN Failed ELSE attempts
    /\ IF Failed < MaxAttempts
         THEN SetAlarm /\ (needed' = TRUE \/ UNCHANGED needed)
         ELSE UNCHANGED <<needed, alarm, refused>>
    /\ handler' = None
    /\ UNCHANGED <<alarms, requests, tries>>

\* The object restarts without its memory.  SQLite and the alarm stay, and an
\* alarm whose handler did not return is run again.
Restart ==
    /\ needed' = FALSE /\ handler' = None
    /\ alarm' = (alarm \/ handler # None)
    /\ UNCHANGED <<alarms, attempts, requests, tries, refused>>

Next == Schedule \/ Fire \/ Succeed \/ Fail \/ Restart

Spec == Init /\ [][Next]_vars
-----------------------------------------------------------------------------
TypeOK == /\ {alarms, needed, alarm, refused} \subseteq BOOLEAN
          /\ attempts \in 0..MaxAttempts /\ handler \in Nat \cup {None}
          /\ requests \in Nat /\ tries \in Nat

(* "After MAX_COMPACTION_ATTEMPTS (3) failures, skips compaction" (alarm):  *)
(* one request leads to no more compactions than that, whatever fails,      *)
(* restarts or is asked for meanwhile; and while one is needed, an alarm is *)
(* set that will run it, unless the last setAlarm failed, which the code    *)
(* does not find out.                                                       *)
TriesAreBounded == tries <= MaxAttempts /\ (needed => alarm \/ refused)

(* The same comment, of a request made while an attempt was under way: once *)
(* the attempts are used up no compaction is begun.                         *)
SkipsWhenUsedUp == [][attempts >= MaxAttempts => tries' <= tries]_vars
=============================================================================

------------------------------ MODULE PackUpload ------------------------------
(***************************************************************************)
(* storage/r2-pack.ts: one pack and its files in R2.  An upload stages the *)
(* pack and its index, writes a manifest, puts both in their place and     *)
(* then calls the manifest complete; whoever asks takes the manifest's     *)
(* word, or, if there is none, that of the two files.  The upload may fail *)
(* or its process end anywhere; clean-ups remove what is left behind, and  *)
(* the pack may be deleted.  Every request to R2 is awaited.               *)
(***************************************************************************)
EXTENDS Naturals

CONSTANTS
    None,       \* no manifest
    Cleaner,    \* calls of cleanupOrphanedStagingFiles
    Deleter,    \* calls of deletePackfile
    MaxFaults   \* bound: requests to R2 that fail

UploadAssumption == MaxFaults \in Nat /\ None \notin {"staging", "complete"}

VARIABLES
    staged,     \* files under staging/
    stored,     \* files under packs/
    manifest,   \* the status in the manifest, or None
    upload,     \* how far uploadPackfile is
    cleaner,    \* each clean-up: how far, what it read
    deleter,    \* each deletion
    faults,
    raced, deleted
                \* history: a clean-up or a deletion has come upon an upload that was
                \* still running; deletePackfile has deleted the pack

vars == <<staged, stored, manifest, upload, cleaner, deleter, faults, raced, deleted>>

File == {"pack", "idx"}
\* The steps of an upload, of one that skips the staging, and its ends.
Running == {"stagePack", "stageIdx", "mark", "putPack", "putIdx", "complete", "unstage",
            "plainPack", "plainIdx", "undo"}
Idle == [phase |-> "idle", asked |-> {}, seen |-> {}]

Init == /\ staged = {} /\ stored = {} /\ manifest = None /\ upload = "idle"
        /\ cleaner = [c \in Cleaner |-> Idle] /\ deleter = [d \in Deleter |-> "idle"]
        /\ faults = 0 /\ raced = FALSE /\ deleted = FALSE

Fault == faults < MaxFaults /\ faults' = faults + 1

\* An upload begins, under an id of its own; with skipAtomic it goes straight
\* to the place of the pack.
Begin ==
    /\ upload = "idle" /\ upload' \in {"stagePack", "plainPack"}
    /\ UNCHANGED <<staged, stored, manifest, cleaner, deleter, faults, raced, deleted>>

\* A request of the upload: it is answered, and the upload goes on, or fails,
\* with its effect or without; a plain upload then leaves things as they are.
After(phase, done, next) ==
    /\ upload = phase
    /\ \/ done /\ upload' = next /\ UNCHANGED faults
       \/ /\ done \/ UNCHANGED <<staged, stored, manifest>>
          /\ Fault /\ upload' = IF phase \in {"plainPack", "plainIdx"} THEN "failed" ELSE "undo"
    /\ UNCHANGED <<cleaner, deleter, raced, deleted>>

Stage(f) == staged' = staged \cup {f} /\ UNCHANGED <<stored, manifest>>
Store(f) == stored' = stored \cup {f} /\ UNCHANGED <<staged, manifest>>
Mark(status) == manifest' = status /\ UNCHANGED <<staged, stored>>
Unstage == staged' = {} /\ UNCHANGED <<stored, manifest>>

StagePack == After("stagePack", Stage("pack"), "stageIdx")
StageIdx == After("stageIdx", Stage("idx"), "mark")
MarkStaging == After("mark", Mark("staging"), "putPack")
PutPack == After("putPack", Store("pack"), "putIdx")
PutIdx == After("putIdx", Store("idx"), "complete")
MarkComplete == After("complete", Mark("complete"), "unstage")
RemoveStaged == After("unstage", Unstage, "acked")
PlainPack == After("plainPack", Store("pack"), "plainIdx")
PlainIdx == After("plainIdx", Store("idx"), "acked")

\* A wrong Gone: the manifest is left.
Gone_NoManifest == staged' = {} /\ stored' = {} /\ UNCHANGED manifest

\* All five files are deleted, in one request.
Gone == staged' = {} /\ stored' = {} /\ manifest' = None

\* The catch block: the upload throws, whether or not its files are gone.
Undo ==
    /\ upload = "undo"
    /\ \/ Gone /\ UNCHANGED faults
       \/ UNCHANGED <<staged, stored, manifest>> /\ Fault
    /\ upload' = "failed"
    /\ UNCHANGED <<cleaner, deleter, raced, deleted>>

Crash ==
    /\ upload \in Running
    /\ upload' = "crashed"
    /\ UNCHANGED <<staged, stored, manifest, cleaner, deleter, faults, raced, deleted>>
-----------------------------------------------------------------------------
\* isPackComplete: the manifest's word or, if there is none, that both files
\* are there.
Complete == manifest = "complete" \/ (manifest = None /\ stored = File)

\* cleanupOrphanedStagingFiles lists staging/ and finds the pack.
List(c) ==
    /\ cleaner[c].phase = "idle" /\ staged # {}
    /\ cleaner' = [cleaner EXCEPT ![c].phase = "manifest"]
    /\ raced' = (raced \/ upload \in Running)
    /\ UNCHANGED <<staged, stored, manifest, upload, deleter, faults, deleted>>

\* getPackManifest; without a manifest both files are asked for.
ReadManifest(c) ==
    /\ cleaner[c].phase = "manifest"
    /\ cleaner' = [cleaner EXCEPT ![c] =
          IF manifest = None THEN [phase |-> "heads", asked |-> File, seen |-> {}]
          ELSE [phase |-> IF manifest = "complete" THEN "tidying" ELSE "deleting",
                asked |-> {}, seen |-> {}]]
    /\ UNCHANGED <<staged, stored, manifest, upload, deleter, faults, raced, deleted>>

\* The answer to one of the two heads.
ReadHead(c, f) ==
    /\ cleaner[c].phase = "heads" /\ f \in cleaner[c].asked
    /\ LET seen == cleaner[c].seen \cup ({f} \cap stored)
           asked == cleaner[c].asked \ {f}
           phase == IF asked # {} THEN "heads" ELSE IF seen = File THEN "tidying" ELSE "deleting"
       IN  cleaner' = [cleaner EXCEPT ![c] = [phase |-> phase, asked |-> asked, seen |-> seen]]
    /\ UNCHANGED <<staged, stored, manifest, upload, deleter, faults, raced, deleted>>

\* What a clean-up deletes: of a complete pack what is staged, else all.
CleanUp(c) ==
    /\ \/ cleaner[c].phase = "tidying" /\ Unstage /\ UNCHANGED faults
       \/ cleaner[c].phase = "deleting" /\ Gone /\ UNCHANGED faults
       \/ /\ cleaner[c].phase \in {"tidying", "deleting"} /\ Fault
          /\ UNCHANGED <<staged, stored, manifest>>
    /\ cleaner' = [cleaner EXCEPT ![c] = Idle]
    /\ UNCHANGED <<upload, deleter, raced, deleted>>

\* deletePackfile of a pack that is there, as listPackfiles names it: also
\* that of an upload which has not come to its end.
Delete(d) ==
    /\ deleter[d] = "idle" /\ "pack" \in stored
    /\ deleter' = [deleter EXCEPT ![d] = "deleting"]
    /\ raced' = (raced \/ upload \in Running)
    /\ UNCHANGED <<staged, stored, manifest, upload, cleaner, faults, deleted>>

\* The pack, its index and its manifest, in one request.
DeleteFiles(d) ==
    /\ deleter[d] = "deleting"
    /\ \/ stored' = {} /\ manifest' = None /\ deleted' = TRUE /\ UNCHANGED faults
       \/ UNCHANGED <<stored, manifest, deleted>> /\ Fault
    /\ deleter' = [deleter EXCEPT ![d] = "idle"]
    /\ UNCHANGED <<staged, upload, cleaner, raced>>

Next == \/ Begin \/ StagePack \/ StageIdx \/ MarkStaging \/ PutPack \/ PutIdx \/ MarkComplete
        \/ RemoveStaged \/ PlainPack \/ PlainIdx \/ Undo \/ Crash
        \/ \E c \in Cleaner : \/ List(c) \/ ReadManifest(c) \/ CleanUp(c)
                              \/ \E f \in File : ReadHead(c, f)
        \/ \E d \in Deleter : Delete(d) \/ DeleteFiles(d)

Spec == Init /\ [][Next]_vars
-----------------------------------------------------------------------------
TypeOK ==
    /\ staged \subseteq File /\ stored \subseteq File
    /\ manifest \in {None, "staging", "complete"}
    /\ upload \in {"idle", "acked", "failed", "crashed"} \cup Running
    /\ cleaner \in [Cleaner -> [ phase : {"idle", "manifest", "heads", "tidying", "deleting"},
                                 asked : SUBSET File, seen : SUBSET File ]]
    /\ deleter \in [Deleter -> {"idle", "deleting"}]
    /\ faults \in Nat /\ {raced, deleted} \subseteq BOOLEAN

(* "The pack is not considered complete until a valid manifest with status  *)
(* 'complete' exists" (uploadPackfile): whatever fails, ends or is cleaned  *)
(* up in between, a pack that is called complete has both its files, and an *)
(* upload that was answered for is complete until it is deleted; as long as *)
(* no clean-up and no deletion has come upon an upload still running.       *)
PackIsWhole ==
    ~raced => /\ Complete => stored = File
              /\ upload = "acked" => deleted \/ Complete

(* "Call on worker startup" (cleanupOrphanedStagingFiles), when the uploads *)
(* of other workers may be running.                                         *)
PackIsAlwaysWhole ==
    /\ Complete => stored = File
    /\ upload = "acked" => deleted \/ Complete
=============================================================================

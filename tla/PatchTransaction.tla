-------------------------- MODULE PatchTransaction --------------------------
(***************************************************************************)
(* POST /sync/patch: handle_patch plans its operations, compares each file *)
(* with the hash the sender expects, saves every file, applies the         *)
(* operations in order, and puts everything back when one of them fails.   *)
(* Each read and each write of a file is a step, and may fail.             *)
(*                                                                         *)
(* patch_lock keeps patches apart.  Nothing keeps others away from the     *)
(* files: a developer's editor, and the MCP tool that writes a list of     *)
(* files without lock, hash or rollback.                                   *)
(*                                                                         *)
(* A hash is the content it is of.  Contents are written whole: they come  *)
(* from a temporary file that is renamed into place, which is not part of  *)
(* the tree here.  Which snapshot the request names, and the one that      *)
(* follows it, are the matter of SnapshotStore.                            *)
(***************************************************************************)
EXTENDS Naturals, Sequences, Functions

CONSTANTS
  Paths,      (* files under the source root, normalized                      *)
  Contents,   (* what a file may hold                                         *)
  Missing,    (* what a file that does not exist holds                        *)
  Unknown,    (* expected_sha256 of an operation that expects nothing         *)
  Patchers,   (* tasks serving POST /sync/patch                               *)
  Requests,   (* lists of operations that are sent                            *)
  MaxEdits    (* bound on the changes made by others                          *)

States == Contents \cup {Missing}

(* A PlannedPatch: a deletion leaves the file missing.  An operation may   *)
(* expect its file to be missing.                                          *)
Operations == [path : Paths, to : States, expected : States \cup {Unknown}]

Nobody == "nobody"

ASSUME PatchAssumption ==
  /\ Missing \notin Contents
  /\ Unknown \notin States
  /\ Nobody \notin Patchers
  /\ Requests \subseteq Seq(Operations)
  /\ MaxEdits \in Nat

VARIABLES
  disk,       (* the files                                                    *)
  edits,      (* how often others changed one                                 *)
  holder,     (* who holds patch_lock                                         *)
  task        (* per request served: its progress and its local variables     *)

patchVars == <<disk, edits, holder, task>>

(* backups is what the function of that name collects.  errors are the     *)
(* files a failing rollback names.  found and touched are there for the    *)
(* properties: the files when the lock was taken, and the ones others      *)
(* changed since.                                                          *)
Fresh(phase, ops, files) ==
  [at |-> phase, ops |-> ops, next |-> 1, mismatch |-> FALSE, backups |-> << >>,
   errors |-> {}, found |-> files, touched |-> {}]
Idle(files) == Fresh("idle", << >>, files)

PatchInit ==
  /\ disk \in [Paths -> States]
  /\ edits = 0
  /\ holder = Nobody
  /\ task = [p \in Patchers |-> Idle(disk)]

-----------------------------------------------------------------------------
At(p, phase) == task[p].at = phase
Op(p) == task[p].ops[task[p].next]

(* The operation is dealt with; after the last one comes the next phase.   *)
Advance(t, phase) ==
  IF t.next = Len(t.ops) THEN [t EXCEPT !.next = 1, !.at = phase]
                         ELSE [t EXCEPT !.next = @ + 1]

(* plan_patch_ops finds nothing wrong; no operation twice on one file.     *)
Plannable(ops) == ops # << >> /\ IsInjective([i \in DOMAIN ops |-> ops[i].path])

TakeLock(p) == holder = Nobody /\ holder' = p

StartPatch(p, ops) ==
  /\ At(p, "idle") /\ TakeLock(p)
  /\ Plannable(ops)
  /\ task' = [task EXCEPT ![p] = Fresh("verifying", ops, disk)]
  /\ UNCHANGED <<disk, edits>>

(* The request names another snapshot, or cannot be planned.               *)
RefusePatch(p, ops) ==
  /\ At(p, "idle") /\ TakeLock(p)
  /\ task' = [task EXCEPT ![p] = Fresh("rejected", ops, disk)]
  /\ UNCHANGED <<disk, edits>>

(* verify_patch_expectations: all files are looked at before the verdict.  *)
(* A file that cannot be read counts as a mismatch.                        *)
Refuted(op) == op.expected \notin {Unknown, disk[op.path]}

JudgeLast(t, wrong) == [t EXCEPT !.mismatch = wrong]
Judge(t, wrong) == [t EXCEPT !.mismatch = @ \/ wrong]
Verdict(t) == Advance(t, IF t.mismatch THEN "rejected" ELSE "saving")

VerifyFile(p) ==
  /\ At(p, "verifying")
  /\ \E wrong \in {Refuted(Op(p)), Op(p).expected # Unknown} :
       task' = [task EXCEPT ![p] = Verdict(Judge(task[p], wrong))]
  /\ UNCHANGED <<disk, edits, holder>>

(* apply_planned_patches_atomically, first loop.                           *)
SaveExisting(t, c) == IF c = Missing THEN t ELSE [t EXCEPT !.backups = Append(@, c)]
Save(t, c) == [t EXCEPT !.backups = Append(@, c)]

SaveFile(p) ==
  /\ At(p, "saving")
  /\ task' = [task EXCEPT ![p] = Advance(Save(task[p], disk[Op(p).path]), "applying")]
  /\ UNCHANGED <<disk, edits, holder>>

SaveFails(p) ==
  /\ At(p, "saving")
  /\ task' = [task EXCEPT ![p].at = "rejected"]
  /\ UNCHANGED <<disk, edits, holder>>

(* Second loop.  A file that is written whole or not at all is also left   *)
(* alone by a failing operation; to delete a missing file succeeds.        *)
ApplyOperation(p) ==
  /\ At(p, "applying")
  /\ disk' = [disk EXCEPT ![Op(p).path] = Op(p).to]
  /\ task' = [task EXCEPT ![p] = Advance(task[p], "applied")]
  /\ UNCHANGED <<edits, holder>>

ApplyFails(p) ==
  /\ At(p, "applying")
  /\ Op(p).to = Missing => disk[Op(p).path] # Missing
  /\ task' = [task EXCEPT ![p].at = "restoring", ![p].next = Len(task[p].backups)]
  /\ UNCHANGED <<disk, edits, holder>>

(* rollback_patch_backups: all backups, the last one first, whether or not *)
(* their operation ran, and on past a failure.                             *)
Restored(t) ==
  IF t.next = 1 THEN [t EXCEPT !.at = "rejected"] ELSE [t EXCEPT !.next = @ - 1]

Blame(t, f) == [t EXCEPT !.errors = @ \cup {f}]

RestoreExisting(p) ==
  LET backup == task[p].backups[task[p].next] IN
  /\ At(p, "restoring")
  /\ disk' = IF backup = Missing THEN disk ELSE [disk EXCEPT ![Op(p).path] = backup]
  /\ task' = [task EXCEPT ![p] = Restored(task[p])]
  /\ UNCHANGED <<edits, holder>>
RestoreFile(p) ==
  /\ At(p, "restoring")
  /\ disk' = [disk EXCEPT ![Op(p).path] = task[p].backups[task[p].next]]
  /\ task' = [task EXCEPT ![p] = Restored(task[p])]
  /\ UNCHANGED <<edits, holder>>

RestoreFails(p) ==
  /\ At(p, "restoring")
  /\ {task[p].backups[task[p].next], disk[Op(p).path]} # {Missing}
  /\ task' = [task EXCEPT ![p] = Restored(Blame(task[p], Op(p).path))]
  /\ UNCHANGED <<disk, edits, holder>>

(* The answer: accepted, rejected, or the error of the snapshot that could *)
(* not be rebuilt after the files are in place.                            *)
Answer(p) ==
  /\ At(p, "applied") \/ At(p, "rejected")
  /\ holder' = Nobody
  /\ task' = [task EXCEPT ![p] = Idle(task[p].found)]
  /\ UNCHANGED <<disk, edits>>

(* An editor, or exec_patch of the MCP tools, which writes and deletes     *)
(* file by file whatever they hold.                                        *)
EditFile(f, c) ==
  /\ edits < MaxEdits
  /\ c # disk[f]
  /\ disk' = [disk EXCEPT ![f] = c]
  /\ edits' = edits + 1
  /\ task' = [p \in Patchers |->
       IF At(p, "idle") THEN task[p] ELSE [task[p] EXCEPT !.touched = @ \cup {f}]]
  /\ UNCHANGED holder

HandlePatch(p) ==
  \/ \E ops \in Requests : StartPatch(p, ops) \/ RefusePatch(p, ops)
  \/ VerifyFile(p)
  \/ SaveFile(p) \/ SaveFails(p)
  \/ ApplyOperation(p) \/ ApplyFails(p)
  \/ RestoreFile(p) \/ RestoreFails(p)
  \/ Answer(p)

PatchNext ==
  \/ \E p \in Patchers : HandlePatch(p)
  \/ \E f \in Paths, c \in States : EditFile(f, c)

PatchSpec == PatchInit /\ [][PatchNext]_patchVars

-----------------------------------------------------------------------------
Working == {"verifying", "saving", "applying", "restoring"}
Phases == Working \cup {"idle", "rejected", "applied"}
Trees == [Paths -> States]
TaskRecords ==
  [at : Phases, ops : Seq(Operations), next : Nat, mismatch : BOOLEAN,
   backups : Seq(States), errors : SUBSET Paths, found : Trees, touched : SUBSET Paths]

(* Every field keeps its type; one request at a time is past patch_lock,   *)
(* an operation is at hand while there is work to do, and no file is       *)
(* changed before all of them are saved.                                   *)
PatchTypeOK ==
  /\ disk \in Trees /\ edits \in 0..MaxEdits
  /\ holder \in Patchers \cup {Nobody}
  /\ task \in [Patchers -> TaskRecords]
  /\ \A p \in Patchers :
       LET t == task[p] IN
       /\ t.at = "idle" <=> holder # p
       /\ t.at \in Working => t.next \in DOMAIN t.ops
       /\ t.at \in {"applying", "restoring", "applied"} => Len(t.backups) = Len(t.ops)

(* A patch happens as a whole or not at all.  An answer that is not a      *)
(* rejection finds every operation carried out, and a rejection finds      *)
(* every file as it was, however many operations ran before one failed -   *)
(* except where somebody else changed a file under the patch, or where the *)
(* answer names the file as not restored                                   *)
(* (apply_planned_patches_atomically, rollback_patch_backups).             *)
AllOrNothing ==
  \A p \in Patchers :
    LET t == task[p] IN
    /\ At(p, "applied") =>
         \A i \in DOMAIN t.ops :
           t.ops[i].path \notin t.touched => disk[t.ops[i].path] = t.ops[i].to
    /\ At(p, "rejected") =>
         \A f \in Paths \ (t.touched \cup t.errors) : disk[f] = t.found[f]

(* No patch overwrites what its sender has not seen.  When an operation    *)
(* that names a hash is carried out, the file holds what was hashed, even  *)
(* when another patch changed it since the sender looked; only an edit     *)
(* that slips in after the file was compared can be lost                   *)
(* (verify_patch_expectations under patch_lock).                           *)
ExpectedIsOverwritten ==
  [][\A p \in Patchers :
       ApplyOperation(p) =>
         \/ Op(p).expected \in {Unknown, disk[Op(p).path]}
         \/ Op(p).path \in task[p].touched]_patchVars
=============================================================================

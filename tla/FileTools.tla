------------------------------ MODULE FileTools -----------------------------
(***************************************************************************)
(* The MCP tools that read and change single files, called in a batch      *)
(* (vsync_bridge_batch) with retries.  A tool looks at files, changes      *)
(* them, builds a snapshot of the tree and makes it the current one; no    *)
(* lock is held meanwhile, and any of its file operations may fail.        *)
(*                                                                         *)
(* A hash is the content it is of.  Directories are left out: they are     *)
(* made as needed.  A snapshot is read in one step.                        *)
(***************************************************************************)
EXTENDS Naturals, Sequences, Functions

CONSTANTS
  Paths,      (* files under the root                                       *)
  Contents,   (* what a file may hold                                       *)
  Torn,       (* what a write that broke off leaves behind                  *)
  Faulty,     (* the contents validation finds errors in                    *)
  Missing,    (* what a file that does not exist holds                      *)
  Tasks,      (* threads serving a batch                                    *)
  Batches,    (* per thread, the batches it may be sent                     *)
  Found,      (* what the files may hold at the start                       *)
  RetryCap,   (* upper limit of max_retries, 5 in the code                  *)
  MaxEdits    (* bound on the changes made by others                        *)

States == Contents \cup {Torn, Missing}
Trees == [Paths -> States]
NoTree == [f \in Paths |-> Missing]

Reading == {"source.read", "source.read_batch", "source.info", "source.check_conflict"}
Writing == {"source.write", "source.safe_write", "sync.scaffold_builder", "sync.convert_to_builder"}
Methods == Reading \cup Writing \cup {"source.delete", "source.move", "source.patch", "unknown"}

Codes == {"BAD_PARAMS", "NOT_FOUND", "EDIT_CONFLICT", "INTERNAL_ERROR"}
Verdicts == Codes \cup {"ok", "refused"}

(* source.move and convert_to_builder go to `other`; source.patch writes   *)
(* path and deletes other.  What is generated is the call's content.       *)
Calls == [method : Methods \cup {"none"}, path : Paths, other : Paths, content : Contents]

ASSUME FileToolsAssumption ==
  /\ Missing \notin Contents \cup {Torn} /\ Torn \notin Contents
  /\ Faulty \subseteq Contents /\ Found \subseteq Contents \cup {Missing}
  /\ RetryCap \in Nat /\ MaxEdits \in Nat
  /\ \A t \in Tasks : Batches[t] \subseteq
       [calls : Seq(Calls), stop : BOOLEAN, maxRetries : Nat, retryOn : SUBSET Codes]

VARIABLES
  disk,       (* the files                                                  *)
  current,    (* the entries of ServerState::current                        *)
  edits,      (* how often others changed a file                            *)
  task        (* per thread: the batch it serves and how far it is          *)

toolVars == <<disk, current, edits, task>>

(* acted, changed and touched are there for the properties: whether any    *)
(* attempt at the call did to the files all that the call asks for,        *)
(* whether any did something to them, and the files that somebody else     *)
(* changed since the thread last looked.                                   *)
Start(batch) ==
  [at |-> "calling", batch |-> batch, next |-> 1, retries |-> 0, patched |-> 0, faults |-> 0,
   built |-> NoTree, replies |-> << >>, acted |-> FALSE,
   changed |-> FALSE, touched |-> {}]

ToolInit ==
  /\ disk \in [Paths -> Found]
  /\ current = disk
  /\ edits = 0
  /\ \E sent \in [Tasks -> UNION Range(Batches)] :
       /\ \A t \in Tasks : sent[t] \in Batches[t]
       /\ task = [t \in Tasks |-> Start(sent[t])]

-----------------------------------------------------------------------------
At(t, phase) == task[t].at = phase
Call(t) == task[t].batch.calls[task[t].next]
Calling(t, method) == At(t, "calling") /\ Call(t).method = method

(* What one task does to a file, the others under way are told.            *)
Told(s, F) == [task[s] EXCEPT !.touched = @ \cup F]
Proceed(t, F, record) == task' = [s \in Tasks |-> IF s = t THEN record ELSE Told(s, F)]

(* annotate_bridge_attempts: the answer to one call.  A safe_write that is *)
(* refused is an answer like any other: only an error counts as a failure. *)
(* After a failure stop_on_error leaves the rest of the batch alone.       *)
Reply(rec, verdict) ==
  [call |-> rec.next, verdict |-> verdict, attempts |-> rec.retries + 1,
   acted |-> rec.acted, changed |-> rec.changed]

AfterCall(rec, verdict) ==
  IF rec.next = Len(rec.batch.calls) \/ (rec.batch.stop /\ verdict \in Codes)
  THEN [rec EXCEPT !.at = "answered"]
  ELSE [rec EXCEPT !.at = "calling", !.next = @ + 1]

Fresh(rec) == [rec EXCEPT !.patched = 0, !.faults = 0, !.built = NoTree, !.touched = {}]

Recorded(rec, reply) ==
  [Fresh(rec) EXCEPT !.replies = Append(@, reply), !.retries = 0, !.acted = FALSE, !.changed = FALSE]
Answered(rec, verdict) == AfterCall(Recorded(rec, Reply(rec, verdict)), verdict)

Succeed(t, verdict) ==
  /\ task' = [task EXCEPT ![t] = Answered(@, verdict)]
  /\ UNCHANGED <<disk, current, edits>>

(* A slip in Least: the request's own limit counts.                        *)
Uncapped(m, n) == m

(* parse_bridge_max_retries, parse_bridge_retry_codes and                  *)
(* should_retry_bridge_error: after a pause the call is made once more.    *)
Least(m, n) == IF m < n THEN m ELSE n
DefaultRetryCodes == {"INTERNAL_ERROR"}
RetryCodes(batch) == IF batch.retryOn = {} THEN DefaultRetryCodes ELSE batch.retryOn
MayRetry(rec, code) ==
  /\ rec.retries < Least(rec.batch.maxRetries, RetryCap)
  /\ code \in RetryCodes(rec.batch)

Retried(rec) == [Fresh(rec) EXCEPT !.at = "calling", !.retries = @ + 1]
Failed(rec, code) == IF MayRetry(rec, code) THEN Retried(rec) ELSE Answered(rec, code)

Fail(t, code) ==
  /\ task' = [task EXCEPT ![t] = Failed(@, code)]
  /\ UNCHANGED <<disk, current, edits>>

(* A call without a method, or whose params are no object, is answered     *)
(* before the loop of attempts.                                            *)
RejectCall(t) ==
  /\ Calling(t, "none")
  /\ Succeed(t, "BAD_PARAMS")
UnknownMethod(t) ==
  /\ Calling(t, "unknown")
  /\ Fail(t, "NOT_FOUND")

-----------------------------------------------------------------------------
(* exec_source: existence, content and hash, all of one reading, which     *)
(* fails where the file cannot be read or is no text.                      *)
ReadSource(t) ==
  /\ Calling(t, "source.read")
  /\ IF disk[Call(t).path] = Missing
       THEN Fail(t, "NOT_FOUND")
       ELSE Succeed(t, "ok") \/ Fail(t, "INTERNAL_ERROR")

(* exec_read_batch: a file that cannot be read is noted in the answer.     *)
ReadBatch(t) ==
  /\ Calling(t, "source.read_batch")
  /\ Succeed(t, "ok")

(* exec_file_info: first the metadata, with the size, then the content.    *)
StatFile(t) ==
  /\ Calling(t, "source.info")
  /\ IF disk[Call(t).path] = Missing
       THEN Fail(t, "NOT_FOUND")
       ELSE /\ Proceed(t, {}, [task[t] EXCEPT !.at = "stated"])
            /\ UNCHANGED <<disk, current, edits>>

HashFile(t) ==
  /\ At(t, "stated")
  /\ \/ disk[Call(t).path] # Missing /\ Succeed(t, "ok")
     \/ Fail(t, "INTERNAL_ERROR")

(* exec_check_conflict looks at the current snapshot, not at the files.    *)
CheckConflict(t) ==
  /\ Calling(t, "source.check_conflict")
  /\ Succeed(t, "ok")

-----------------------------------------------------------------------------
(* A slip in Act: the snapshot is built before the files are changed.      *)
ActAfterBuild(t, files) ==
  /\ disk' = files
  /\ Proceed(t, {f \in Paths : files[f] # disk[f]},
             [task[t] EXCEPT !.at = "built", !.built = disk, !.acted = TRUE,
                             !.changed = @ \/ files # disk, !.touched = {}])
  /\ UNCHANGED <<current, edits>>

(* One operation on the files has gone well: a snapshot is to be built.    *)
Act(t, files) ==
  /\ disk' = files
  /\ Proceed(t, {f \in Paths : files[f] # disk[f]},
             [task[t] EXCEPT !.at = "acted", !.acted = TRUE, !.changed = @ \/ files # disk])
  /\ UNCHANGED <<current, edits>>

(* exec_write.  A failing write may have cut the file short before.        *)
WriteFile(t, f) == Act(t, [disk EXCEPT ![f] = Call(t).content])
WriteFails(t, f) ==
  /\ \E left \in {disk[f], Torn} :
       /\ disk' = [disk EXCEPT ![f] = left]
       /\ Proceed(t, {f}, Failed([task[t] EXCEPT !.changed = @ \/ left # disk[f]], "INTERNAL_ERROR"))
  /\ UNCHANGED <<current, edits>>

Write(t, f) == WriteFile(t, f) \/ WriteFails(t, f)
WriteTool(t) == Calling(t, "source.write") /\ Write(t, Call(t).path)

(* A slip in SafeWrite: a refused write is reported as done.               *)
SafeWriteSayingDone(t, f) ==
  IF Call(t).content \in Faulty THEN Succeed(t, "ok") ELSE Write(t, f)

(* exec_safe_write validates in memory first; what phase 2 calls path      *)
(* conflicts is the shape of the path.                                     *)
SafeWrite(t, f) ==
  IF Call(t).content \in Faulty THEN Succeed(t, "refused") ELSE Write(t, f)
SafeWriteTool(t) == Calling(t, "source.safe_write") /\ SafeWrite(t, Call(t).path)

(* exec_scaffold_builder: a builder that is there is not replaced, and one *)
(* that appears after the look is.  A name may give no code.               *)
LookForBuilder(t) ==
  /\ Calling(t, "sync.scaffold_builder")
  /\ \/ Fail(t, "BAD_PARAMS")
     \/ /\ disk[Call(t).path] # Missing
        /\ Fail(t, "EDIT_CONFLICT")
     \/ /\ disk[Call(t).path] = Missing
        /\ Proceed(t, {}, [task[t] EXCEPT !.at = "found", !.touched = {}])
        /\ UNCHANGED <<disk, current, edits>>

ScaffoldBuilder(t) ==
  /\ At(t, "found") /\ Call(t).method = "sync.scaffold_builder"
  /\ SafeWrite(t, Call(t).path)

(* exec_convert_to_builder: the model file may vanish after the look, be   *)
(* no JSON, or not give any code.                                          *)
LookForModel(t) ==
  /\ Calling(t, "sync.convert_to_builder")
  /\ IF disk[Call(t).path] = Missing
       THEN Fail(t, "NOT_FOUND")
       ELSE /\ Proceed(t, {}, [task[t] EXCEPT !.at = "found", !.touched = {}])
            /\ UNCHANGED <<disk, current, edits>>

ConvertToBuilder(t) ==
  /\ At(t, "found") /\ Call(t).method = "sync.convert_to_builder"
  /\ \/ disk[Call(t).path] # Missing /\ SafeWrite(t, Call(t).other)
     \/ disk[Call(t).path] # Missing /\ Fail(t, "BAD_PARAMS")
     \/ Fail(t, "INTERNAL_ERROR")

(* exec_delete: a file that is not there is no error, one that vanishes    *)
(* between the look and the removal is.                                    *)
LookForFile(t) ==
  /\ Calling(t, "source.delete")
  /\ IF disk[Call(t).path] = Missing
       THEN Act(t, disk)
       ELSE /\ Proceed(t, {}, [task[t] EXCEPT !.at = "found", !.touched = {}])
            /\ UNCHANGED <<disk, current, edits>>

RemoveFile(t) ==
  /\ At(t, "found") /\ Call(t).method = "source.delete"
  /\ \/ disk[Call(t).path] # Missing /\ Act(t, [disk EXCEPT ![Call(t).path] = Missing])
     \/ Fail(t, "INTERNAL_ERROR")

(* exec_move: two looks, then a rename that replaces whatever is there.    *)
LookBeforeMove(t) ==
  /\ Calling(t, "source.move")
  /\ CASE disk[Call(t).path] = Missing  -> Fail(t, "NOT_FOUND")
       [] disk[Call(t).other] # Missing -> Fail(t, "EDIT_CONFLICT")
       [] OTHER ->
            /\ Proceed(t, {}, [task[t] EXCEPT !.at = "found", !.touched = {}])
            /\ UNCHANGED <<disk, current, edits>>

Moved(c) == [disk EXCEPT ![c.path] = Missing, ![c.other] = disk[c.path]]

RenameFile(t) ==
  /\ At(t, "found") /\ Call(t).method = "source.move"
  /\ disk[Call(t).path] # Missing
  /\ Act(t, Moved(Call(t)))
RenameFails(t) ==
  /\ At(t, "found") /\ Call(t).method = "source.move"
  /\ Fail(t, "INTERNAL_ERROR")

(* exec_patch: each entry on its own; a failing one is noted and passed    *)
(* over, and the answer tells.  To delete what is not there succeeds; a    *)
(* write that fails may have cut the file short.                           *)
PatchEntry(t) ==
  IF task[t].patched = 0 THEN [path |-> Call(t).path, content |-> Call(t).content]
                         ELSE [path |-> Call(t).other, content |-> Missing]

Patched(t, faults, different) ==
  [task[t] EXCEPT !.patched = @ + 1, !.faults = @ + faults, !.changed = @ \/ different,
                  !.at = IF task[t].patched = 0 THEN "calling" ELSE "acted",
                  !.acted = @ \/ (task[t].patched = 1 /\ task[t].faults + faults = 0)]

LeftBehind(entry) == {disk[entry.path]} \cup (IF entry.content = Missing THEN {} ELSE {Torn})

ApplyEntry(t) ==
  LET entry == PatchEntry(t)
      Leave(left, faults) ==
        /\ disk' = [disk EXCEPT ![entry.path] = left]
        /\ Proceed(t, {entry.path}, Patched(t, faults, left # disk[entry.path]))
  IN
  /\ Calling(t, "source.patch")
  /\ Leave(entry.content, 0) \/ \E left \in LeftBehind(entry) : Leave(left, 1)
  /\ UNCHANGED <<current, edits>>

-----------------------------------------------------------------------------
(* rebuild_snapshot.                                                       *)
BuildTree(t) ==
  /\ At(t, "acted")
  /\ Proceed(t, {}, [task[t] EXCEPT !.at = "built", !.built = disk, !.touched = {}])
  /\ UNCHANGED <<disk, current, edits>>
BuildFails(t) ==
  /\ At(t, "acted")
  /\ Fail(t, "INTERNAL_ERROR")

InstallTree(t) ==
  /\ At(t, "built")
  /\ current' = task[t].built
  /\ task' = [task EXCEPT ![t] = Answered(@, IF task[t].faults = 0 THEN "ok" ELSE "refused")]
  /\ UNCHANGED <<disk, edits>>

(* A developer's editor, or Studio through a patch.                        *)
EditFile(f, c) ==
  /\ edits < MaxEdits
  /\ c # disk[f]
  /\ disk' = [disk EXCEPT ![f] = c]
  /\ edits' = edits + 1
  /\ task' = [s \in Tasks |-> Told(s, {f})]
  /\ UNCHANGED current

ReadingStep(t) == ReadSource(t) \/ ReadBatch(t) \/ StatFile(t) \/ HashFile(t) \/ CheckConflict(t)
ChangingStep(t) ==
  \/ WriteTool(t) \/ SafeWriteTool(t) \/ ApplyEntry(t)
  \/ LookForBuilder(t) \/ ScaffoldBuilder(t) \/ LookForModel(t) \/ ConvertToBuilder(t)
  \/ LookForFile(t) \/ RemoveFile(t)
  \/ LookBeforeMove(t) \/ RenameFile(t) \/ RenameFails(t)

BatchStep(t) ==
  \/ RejectCall(t) \/ UnknownMethod(t)
  \/ ReadingStep(t) \/ ChangingStep(t)
  \/ BuildTree(t) \/ BuildFails(t) \/ InstallTree(t)

ToolNext ==
  \/ \E t \in Tasks : BatchStep(t)
  \/ \E f \in Paths, c \in Contents \cup {Missing} : EditFile(f, c)

ToolSpec == ToolInit /\ [][ToolNext]_toolVars

-----------------------------------------------------------------------------
(* Every variable keeps its type, a thread that calls has a call to make,  *)
(* and calls are answered in their order.                                  *)
ToolTypeOK ==
  /\ disk \in Trees /\ current \in Trees /\ edits \in 0..MaxEdits
  /\ \A t \in Tasks :
       LET rec == task[t] IN
       /\ rec.at \in {"calling", "stated", "found", "acted", "built", "answered"}
       /\ rec.next \in DOMAIN rec.batch.calls
       /\ rec.retries <= RetryCap
       /\ rec.built \in Trees
       /\ \A i \in DOMAIN rec.replies :
            /\ rec.replies[i].call = i /\ rec.replies[i].verdict \in Verdicts
            /\ rec.replies[i].attempts \in 1..(RetryCap + 1)

Replied(t) == {task[t].replies[i] : i \in DOMAIN task[t].replies}
MethodOf(t, reply) == task[t].batch.calls[reply.call].method

(* A call that is made again after an internal error has had an attempt    *)
(* nobody knows the outcome of.                                            *)
MadeAgain(t, reply) == reply.attempts > 1 /\ "INTERNAL_ERROR" \in RetryCodes(task[t].batch)

(* An answer says what became of the call.  A change that is reported was  *)
(* made in full, and was not if the call is refused; what is refused did   *)
(* not touch a file either, unless it is a patch, whose entries are        *)
(* applied each on its own.  Only an internal error leaves the caller in   *)
(* doubt, and so does what is answered after a further attempt where       *)
(* internal errors are retried: a move whose snapshot could not be built   *)
(* is answered with NOT_FOUND when it is tried again                       *)
(* (exec_bridge_batch around exec_write, exec_move, exec_patch).           *)
AnswersMatchTheFiles ==
  \A t \in Tasks : \A reply \in Replied(t) :
    LET method == MethodOf(t, reply) IN
    /\ reply.verdict = "ok" /\ method \notin Reading => reply.acted
    /\ reply.verdict \notin {"ok", "INTERNAL_ERROR"} /\ ~MadeAgain(t, reply) =>
         ~reply.acted /\ (reply.changed => method = "source.patch")

(* "Write ops rebuild the snapshot atomically": the snapshot a tool        *)
(* installs agrees with the files, its own change included, in all that    *)
(* nobody else touched since it was built (rebuild_snapshot).              *)
InstallsWhatIsOnDisk ==
  [][\A t \in Tasks :
       InstallTree(t) => \A f \in Paths \ task[t].touched : current'[f] = disk[f]]_toolVars
=============================================================================

------------------------------ MODULE BridgeProofs ---------------------------
(***************************************************************************)
(* Proofs about the MCP bridge, for any files, threads, batches, retries   *)
(* and for any requests of a pipeline.                                     *)
(*                                                                         *)
(* File tools: what may be answered depends on what the attempts so far    *)
(* have done to the files.  Unless an internal error was retried (InDoubt) *)
(* that follows from how far the call is: nothing is touched before the    *)
(* tool acts (Calm), and a tool that acted has done all, or is a patch and *)
(* has noted a fault (Whole).                                              *)
(*                                                                         *)
(* Pipelines: what is launched and no longer awaited has been noted, in    *)
(* the namespace, the results or the errors (Kept, Reported), and a level  *)
(* is launched only when everything launched has been noted.  So the       *)
(* copies of the namespace that its steps get hold all they depend on.     *)
(***************************************************************************)
EXTENDS FileTools, Pipeline, SequenceTheorems, FiniteSetTheorems, FunctionTheorems, TLAPS

InDoubt(r) == r.retries > 0 /\ "INTERNAL_ERROR" \in RetryCodes(r.batch)
Patching(r) == r.batch.calls[r.next].method = "source.patch"

Calm(r) == r.patched = 0 /\ r.faults = 0 /\ (r.acted \/ r.changed => InDoubt(r))
HalfPatched(r) == r.patched = 1 /\ Patching(r) /\ (r.acted => InDoubt(r))
Whole(r) == IF r.faults = 0 THEN r.acted ELSE Patching(r) /\ (r.acted => InDoubt(r))

AnswerRecords ==
  [call : Nat, verdict : Verdicts, attempts : Nat, acted : BOOLEAN, changed : BOOLEAN]

Fits(batch, reply) ==
  LET method == batch.calls[reply.call].method IN
  /\ reply.verdict = "ok" /\ method \notin Reading => reply.acted
  /\ /\ reply.verdict \notin {"ok", "INTERNAL_ERROR"}
     /\ ~(reply.attempts > 1 /\ "INTERNAL_ERROR" \in RetryCodes(batch))
     => ~reply.acted /\ (reply.changed => method = "source.patch")

(* A call may be answered so.                                              *)
MayAnswer(r, verdict) ==
  /\ verdict = "ok" /\ r.batch.calls[r.next].method \notin Reading => r.acted
  /\ verdict \notin {"ok", "INTERNAL_ERROR"} /\ ~InDoubt(r) => ~r.acted /\ (r.changed => Patching(r))

Fielded(r) ==
  DOMAIN r = {"at", "batch", "next", "retries", "patched", "faults", "built", "replies",
              "acted", "changed", "touched"}

Shaped(r) ==
  /\ Fielded(r)
  /\ r.next \in Nat /\ r.retries \in Nat /\ r.faults \in Nat
  /\ r.acted \in BOOLEAN /\ r.changed \in BOOLEAN
  /\ r.replies \in Seq(AnswerRecords)

Honest(r) == \A i \in 1..Len(r.replies) : Fits(r.batch, r.replies[i])

(* What is known of a thread's record, given the files.                    *)
Sound(r, files) ==
  /\ Shaped(r) /\ Honest(r)
  /\ r.at = "calling" => Calm(r) \/ HalfPatched(r)
  /\ r.at = "stated" => Calm(r) /\ r.batch.calls[r.next].method \in Reading
  /\ r.at = "found" => Calm(r)
  /\ r.at \in {"acted", "built"} => Whole(r)
  /\ r.at = "built" => \A f \in Paths \ r.touched : r.built[f] = files[f]

ToolInv ==
  /\ disk = [f \in Paths |-> disk[f]]
  /\ task = [t \in Tasks |-> task[t]]
  /\ \A t \in Tasks : Sound(task[t], disk)

-----------------------------------------------------------------------------
LEMMA ToolInvInit == ToolInit => ToolInv
<1> SUFFICES ASSUME ToolInit PROVE ToolInv
  OBVIOUS
<1>1. PICK sent : task = [t \in Tasks |-> Start(sent[t])]
  BY DEF ToolInit
<1>2. ASSUME NEW batch PROVE Sound(Start(batch), disk)
  BY EmptySeq DEF Start, Sound, Shaped, Fielded, Honest, Calm
<1>3. disk = [f \in Paths |-> disk[f]]
  BY DEF ToolInit
<1> HIDE DEF Start
<1> QED
  BY <1>1, <1>2, <1>3 DEF ToolInv

(* A thread does something to the files in F, and the others are told.     *)
LEMMA ProceedKeeps ==
  ASSUME ToolInv, NEW t \in Tasks, NEW F, NEW rec, Proceed(t, F, rec),
         disk' = [f \in Paths |-> disk'[f]], \A f \in Paths \ F : disk'[f] = disk[f],
         Sound(rec, disk')
  PROVE  ToolInv'
<1>1. ASSUME NEW s \in Tasks PROVE Sound(Told(s, F), disk')
  <2>1. Sound(task[s], disk)
    BY DEF ToolInv
  <2>2. Told(s, F) = [task[s] EXCEPT !.touched = @ \cup F]
    BY DEF Told
  <2> QED
    BY <2>1, <2>2 DEF Sound, Shaped, Fielded, Honest, Calm, Whole, HalfPatched, Patching, InDoubt
<1>2. \A s \in Tasks : Sound(IF s = t THEN rec ELSE Told(s, F), disk')
  BY <1>1
<1> HIDE DEF Told
<1>3. task' = [s \in Tasks |-> IF s = t THEN rec ELSE Told(s, F)]
  BY DEF Proceed
<1>4. \A s \in Tasks : Sound(task'[s], disk')
  BY <1>2, <1>3
<1>5. task' = [s \in Tasks |-> task'[s]]
  BY <1>3
<1> QED
  BY <1>4, <1>5 DEF ToolInv

LEMMA AloneKeeps ==
  ASSUME ToolInv, NEW t \in Tasks, NEW rec, task' = [task EXCEPT ![t] = rec],
         UNCHANGED disk, Sound(rec, disk)
  PROVE  ToolInv'
<1>1. \A s \in Tasks : Sound(task'[s], disk')
  BY DEF ToolInv
<1>2. task' = [s \in Tasks |-> task'[s]]
  BY DEF ToolInv
<1> QED
  BY <1>1, <1>2 DEF ToolInv

-----------------------------------------------------------------------------
(* An answer that fits is added to those that fit.                         *)
LEMMA RepliesGrow ==
  ASSUME NEW r, Shaped(r), Honest(r), NEW reply \in AnswerRecords, Fits(r.batch, reply)
  PROVE  Shaped(Recorded(r, reply)) /\ Honest(Recorded(r, reply)) /\ Calm(Recorded(r, reply))
<1> DEFINE kept == Recorded(r, reply)
           grown == Append(r.replies, reply)
<1>1. r.replies \in Seq(AnswerRecords) /\ Len(r.replies) \in Nat
  BY DEF Shaped, Fielded
<1>2. /\ grown \in Seq(AnswerRecords) /\ Len(grown) = Len(r.replies) + 1
      /\ grown[Len(r.replies) + 1] = reply
      /\ \A i \in 1..Len(r.replies) : grown[i] = r.replies[i]
  BY <1>1, AppendProperties
<1> HIDE DEF grown
<1>3. /\ Fielded(kept) /\ kept.batch = r.batch /\ kept.next = r.next /\ kept.retries = 0
      /\ kept.patched = 0 /\ kept.faults = 0 /\ kept.replies = grown
      /\ kept.acted = FALSE /\ kept.changed = FALSE
  BY DEF Shaped, Fielded, Fresh, Recorded, grown
<1> HIDE DEF kept
<1>4. \A i \in 1..(Len(r.replies) + 1) : i \in 1..Len(r.replies) \/ i = Len(r.replies) + 1
  BY <1>1
<1>5. \A i \in 1..Len(grown) : Fits(r.batch, grown[i])
  BY <1>2, <1>4 DEF Honest
<1>6. Honest(kept)
  BY <1>3, <1>5 DEF Honest
<1>7. Shaped(kept) /\ Calm(kept)
  <2>1. r.next \in Nat
    BY DEF Shaped, Fielded
  <2>2. kept.next \in Nat /\ kept.retries \in Nat /\ kept.faults \in Nat /\ kept.replies \in Seq(AnswerRecords)
    BY <1>2, <1>3, <2>1
  <2>3. kept.acted \in BOOLEAN /\ kept.changed \in BOOLEAN
    BY <1>3
  <2>4. Shaped(kept)
    BY <1>3, <2>2, <2>3 DEF Shaped
  <2> QED
    BY <1>3, <2>4 DEF Calm
<1> QED
  BY <1>6, <1>7 DEF kept

LEMMA NextCallIsSound ==
  ASSUME NEW r, Shaped(r), Honest(r), Calm(r), NEW verdict, NEW files
  PROVE  Sound(AfterCall(r, verdict), files)
<1>1. CASE AfterCall(r, verdict) = [r EXCEPT !.at = "answered"]
  BY <1>1 DEF Sound, Shaped, Fielded, Honest
<1>2. CASE AfterCall(r, verdict) = [r EXCEPT !.at = "calling", !.next = @ + 1]
  BY <1>2 DEF Sound, Shaped, Fielded, Honest, Calm, InDoubt
<1> QED
  BY <1>1, <1>2 DEF AfterCall

(* The next call is begun afresh.                                          *)
LEMMA AnsweredIsSound ==
  ASSUME NEW r, Shaped(r), Honest(r), NEW verdict \in Verdicts, NEW files, MayAnswer(r, verdict)
  PROVE  Sound(Answered(r, verdict), files)
<1> DEFINE reply == Reply(r, verdict)
<1>1. r.next \in Nat /\ r.retries \in Nat /\ r.acted \in BOOLEAN /\ r.changed \in BOOLEAN
  BY DEF Shaped, Fielded
<1>2. /\ reply \in AnswerRecords /\ reply.call = r.next /\ reply.verdict = verdict
      /\ reply.attempts = r.retries + 1 /\ reply.acted = r.acted /\ reply.changed = r.changed
  BY <1>1 DEF Reply, AnswerRecords
<1> HIDE DEF reply
<1>3. (reply.attempts > 1) = (r.retries > 0)
  BY <1>1, <1>2
<1>4. Fits(r.batch, reply)
  BY <1>2, <1>3 DEF Fits, MayAnswer, InDoubt, Patching
<1>5. Sound(AfterCall(Recorded(r, reply), verdict), files)
  BY <1>2, <1>4, RepliesGrow, NextCallIsSound
<1> QED
  BY <1>5 DEF Answered, reply

(* So is a failure that is answered, or tried again.                       *)
LEMMA FailedIsSound ==
  ASSUME NEW r, Shaped(r), Honest(r), NEW code \in Codes, NEW files,
         code # "INTERNAL_ERROR" => (r.acted \/ r.changed => InDoubt(r))
  PROVE  Sound(Failed(r, code), files)
<1>1. CASE MayRetry(r, code)
  <2>1. /\ Fielded(Retried(r)) /\ Retried(r).batch = r.batch /\ Retried(r).next = r.next
        /\ Retried(r).retries = r.retries + 1 /\ Retried(r).patched = 0 /\ Retried(r).faults = 0
        /\ Retried(r).acted = r.acted /\ Retried(r).changed = r.changed
        /\ Retried(r).replies = r.replies /\ Retried(r).at = "calling"
    BY DEF Retried, Fresh, Shaped, Fielded
  <2>2. Retried(r).retries \in Nat /\ Retried(r).retries > 0
    BY <2>1 DEF Shaped
  <2>3. Shaped(Retried(r)) /\ Honest(Retried(r))
    BY <2>1, <2>2 DEF Shaped, Honest
  <2>4. Calm(Retried(r))
    <3>1. r.acted \/ r.changed => "INTERNAL_ERROR" \in RetryCodes(r.batch)
      BY <1>1 DEF MayRetry, InDoubt
    <3> QED
      BY <2>1, <2>2, <3>1 DEF Calm, InDoubt
  <2>5. Sound(Retried(r), files)
    BY <2>1, <2>3, <2>4 DEF Sound
  <2> QED
    BY <1>1, <2>5 DEF Failed
<1>2. CASE ~MayRetry(r, code)
  <2>1. MayAnswer(r, code) /\ code \in Verdicts
    BY DEF MayAnswer, Codes, Verdicts
  <2> QED
    BY <1>2, <2>1, AnsweredIsSound DEF Failed
<1> QED
  BY <1>1, <1>2

LEMMA SucceedKeeps ==
  ASSUME ToolInv, NEW t \in Tasks, NEW verdict \in Verdicts, Succeed(t, verdict),
         MayAnswer(task[t], verdict)
  PROVE  ToolInv'
<1>1. Shaped(task[t]) /\ Honest(task[t])
  BY DEF ToolInv, Sound
<1>2. Sound(Answered(task[t], verdict), disk)
  BY <1>1, AnsweredIsSound
<1>3. task' = [task EXCEPT ![t] = Answered(task[t], verdict)] /\ UNCHANGED disk
  BY DEF Succeed
<1> QED
  BY <1>2, <1>3, AloneKeeps

LEMMA FailKeeps ==
  ASSUME ToolInv, NEW t \in Tasks, NEW code \in Codes, Fail(t, code),
         code # "INTERNAL_ERROR" => (task[t].acted \/ task[t].changed => InDoubt(task[t]))
  PROVE  ToolInv'
<1>1. Shaped(task[t]) /\ Honest(task[t])
  BY DEF ToolInv, Sound
<1>2. Sound(Failed(task[t], code), disk)
  BY <1>1, FailedIsSound
<1>3. task' = [task EXCEPT ![t] = Failed(task[t], code)] /\ UNCHANGED disk
  BY DEF Fail
<1> QED
  BY <1>2, <1>3, AloneKeeps

-----------------------------------------------------------------------------
(* A call other than a patch is calm until it acts.                        *)
LEMMA CalmAtFirst ==
  ASSUME ToolInv, NEW t \in Tasks, ~(Calling(t, "source.patch")),
         task[t].at \in {"calling", "stated", "found"}
  PROVE  Calm(task[t]) /\ Shaped(task[t]) /\ Honest(task[t])
  BY DEF ToolInv, Sound, Calling, At, Call, HalfPatched, Patching

(* The look before a change.                                               *)
LEMMA LookKeeps ==
  ASSUME ToolInv, NEW t \in Tasks, Calm(task[t]), NEW rec, Proceed(t, {}, rec), UNCHANGED disk,
         \/ rec = [task[t] EXCEPT !.at = "found", !.touched = {}]
         \/ rec = [task[t] EXCEPT !.at = "stated"] /\ Call(t).method \in Reading
  PROVE  ToolInv'
<1>1. Sound(rec, disk)
  BY DEF ToolInv, Sound, Shaped, Fielded, Honest, Calm, InDoubt, Call
<1> QED
  BY <1>1, ProceedKeeps DEF ToolInv

(* The change itself.                                                      *)
LEMMA ActKeeps ==
  ASSUME ToolInv, NEW t \in Tasks, Calm(task[t]), NEW files, Act(t, files),
         files = [f \in Paths |-> files[f]]
  PROVE  ToolInv'
<1> DEFINE different == task[t].changed \/ files # disk
           rec == [task[t] EXCEPT !.at = "acted", !.acted = TRUE, !.changed = different]
<1>1. different \in BOOLEAN
  BY DEF ToolInv, Sound, Shaped
<1> HIDE DEF different
<1>2. Sound(rec, disk')
  BY <1>1 DEF ToolInv, Sound, Shaped, Fielded, Honest, Calm, Whole
<1> HIDE DEF rec
<1>3. Proceed(t, {f \in Paths : files[f] # disk[f]}, rec) /\ disk' = files
  BY DEF Act, rec, different
<1> QED
  BY <1>2, <1>3, ProceedKeeps

LEMMA WriteKeeps ==
  ASSUME ToolInv, NEW t \in Tasks, Calm(task[t]), NEW f, Write(t, f)
  PROVE  ToolInv'
<1>1. CASE WriteFile(t, f)
  <2> DEFINE files == [disk EXCEPT ![f] = Call(t).content]
  <2>1. files = [g \in Paths |-> files[g]]
    BY DEF ToolInv
  <2> QED
    BY <1>1, <2>1, ActKeeps DEF WriteFile
<1>2. CASE WriteFails(t, f)
  <2>1. PICK left \in {disk[f], Torn} :
          /\ disk' = [disk EXCEPT ![f] = left]
          /\ Proceed(t, {f}, Failed([task[t] EXCEPT !.changed = @ \/ left # disk[f]], "INTERNAL_ERROR"))
    BY <1>2 DEF WriteFails
  <2> DEFINE different == task[t].changed \/ left # disk[f]
             rec == [task[t] EXCEPT !.changed = different]
  <2>2. different \in BOOLEAN
    BY DEF ToolInv, Sound, Shaped
  <2> HIDE DEF different
  <2>3. Shaped(rec) /\ Honest(rec)
    BY <2>2 DEF ToolInv, Sound, Shaped, Fielded, Honest
  <2> HIDE DEF rec
  <2>4. Sound(Failed(rec, "INTERNAL_ERROR"), disk')
    BY <2>3, FailedIsSound DEF Codes
  <2>5. disk' = [g \in Paths |-> disk'[g]] /\ \A g \in Paths \ {f} : disk'[g] = disk[g]
    BY <2>1 DEF ToolInv
  <2>6. Proceed(t, {f}, Failed(rec, "INTERNAL_ERROR"))
    BY <2>1 DEF rec, different
  <2> QED
    BY <2>4, <2>5, <2>6, ProceedKeeps
<1> QED
  BY <1>1, <1>2 DEF Write

LEMMA SafeWriteKeeps ==
  ASSUME ToolInv, NEW t \in Tasks, Calm(task[t]), NEW f, SafeWrite(t, f)
  PROVE  ToolInv'
<1>1. MayAnswer(task[t], "refused")
  BY DEF Calm, MayAnswer
<1> QED
  BY <1>1, WriteKeeps, SucceedKeeps DEF SafeWrite, Verdicts

(* An entry of a patch.                                                    *)
LEMMA ApplyEntryKeeps ==
  ASSUME ToolInv, NEW t \in Tasks, ApplyEntry(t)
  PROVE  ToolInv'
<1>1. /\ Shaped(task[t]) /\ Honest(task[t]) /\ Patching(task[t])
      /\ Calm(task[t]) \/ HalfPatched(task[t])
  BY DEF ToolInv, Sound, ApplyEntry, Calling, At, Call, Patching
<1>2. ASSUME NEW faults \in {0, 1}, NEW different \in BOOLEAN, NEW files
      PROVE  Sound(Patched(t, faults, different), files)
  <2> DEFINE r == task[t]
             p == Patched(t, faults, different)
  <2>1. /\ Fielded(p) /\ p.at = IF r.patched = 0 THEN "calling" ELSE "acted"
        /\ p.batch = r.batch /\ p.next = r.next /\ p.retries = r.retries /\ p.replies = r.replies
        /\ p.patched = r.patched + 1 /\ p.faults = r.faults + faults
        /\ p.acted = (r.acted \/ (r.patched = 1 /\ r.faults + faults = 0))
        /\ p.changed = (r.changed \/ different)
    BY <1>1 DEF Patched, Shaped, Fielded
  <2>2. Shaped(r) /\ Honest(r) /\ Patching(r) /\ (Calm(r) \/ HalfPatched(r))
    BY <1>1
  <2> HIDE DEF r, p
  <2>3. p.acted \in BOOLEAN /\ p.changed \in BOOLEAN /\ p.faults \in Nat
    BY <2>1, <2>2 DEF Shaped
  <2>4. Shaped(p) /\ Honest(p)
    BY <2>1, <2>2, <2>3 DEF Shaped, Honest
  <2>5. Patching(p) /\ (InDoubt(p) <=> InDoubt(r)) /\ (r.acted => InDoubt(r))
    BY <2>1, <2>2 DEF Patching, InDoubt, Calm, HalfPatched
  <2>6. CASE r.patched = 0
    <3>1. p.at = "calling" /\ p.patched = 1
      BY <2>1, <2>6
    <3>a. r.patched # 1
      BY <2>6
    <3>b. p.acted => InDoubt(p)
      BY <2>1, <2>5, <3>a
    <3>2. HalfPatched(p)
      BY <2>5, <3>1, <3>b DEF HalfPatched
    <3> QED
      BY <2>4, <3>1, <3>2 DEF Sound, p
  <2>7. CASE r.patched = 1
    <3>1. p.at = "acted"
      BY <2>1, <2>7
    <3>a. p.faults = 0 => p.acted
      BY <2>1, <2>7
    <3>b. p.faults # 0 /\ p.acted => InDoubt(p)
      BY <2>1, <2>5
    <3>2. Whole(p)
      BY <2>5, <3>a, <3>b DEF Whole
    <3> QED
      BY <2>4, <3>1, <3>2 DEF Sound, p
  <2> QED
    BY <2>2, <2>6, <2>7 DEF Calm, HalfPatched
<1> HIDE DEF Patched
<1> DEFINE entry == PatchEntry(t)
<1>3. \E left, faults :
        /\ faults \in {0, 1}
        /\ disk' = [disk EXCEPT ![entry.path] = left]
        /\ Proceed(t, {entry.path}, Patched(t, faults, left # disk[entry.path]))
  BY DEF ApplyEntry
<1>a. PICK left, faults :
        /\ faults \in {0, 1}
        /\ disk' = [disk EXCEPT ![entry.path] = left]
        /\ Proceed(t, {entry.path}, Patched(t, faults, left # disk[entry.path]))
  BY <1>3
<1>4. disk' = [f \in Paths |-> disk'[f]] /\ \A f \in Paths \ {entry.path} : disk'[f] = disk[f]
  BY <1>a DEF ToolInv
<1>5. Sound(Patched(t, faults, left # disk[entry.path]), disk')
  BY <1>2, <1>a
<1> QED
  BY <1>4, <1>5, <1>a, ProceedKeeps

-----------------------------------------------------------------------------
LEMMA ReadingKeeps ==
  ASSUME ToolInv, NEW t \in Tasks, ReadingStep(t)
  PROVE  ToolInv'
<1>1. Calm(task[t]) /\ Shaped(task[t])
  BY CalmAtFirst DEF ReadingStep, ReadSource, ReadBatch, StatFile, HashFile, CheckConflict, Calling, At
<1>2. Call(t).method \in Reading
  BY DEF ReadingStep, ReadSource, ReadBatch, StatFile, HashFile, CheckConflict, Calling, At,
     Reading, Call, ToolInv, Sound
<1>3. /\ MayAnswer(task[t], "ok")
      /\ task[t].acted \/ task[t].changed => InDoubt(task[t])
  BY <1>1, <1>2 DEF Calm, MayAnswer, Call
<1>4. \/ Succeed(t, "ok") \/ Fail(t, "NOT_FOUND") \/ Fail(t, "INTERNAL_ERROR")
      \/ Proceed(t, {}, [task[t] EXCEPT !.at = "stated"]) /\ UNCHANGED disk
  BY DEF ReadingStep, ReadSource, ReadBatch, StatFile, HashFile, CheckConflict
<1> QED
  BY <1>1, <1>2, <1>3, <1>4, SucceedKeeps, FailKeeps, LookKeeps DEF Verdicts, Codes

LEMMA ChangingKeeps ==
  ASSUME ToolInv, NEW t \in Tasks, ChangingStep(t)
  PROVE  ToolInv'
<1>1. CASE ApplyEntry(t)
  BY <1>1, ApplyEntryKeeps
<1>2. CASE ~ApplyEntry(t)
  <2>1. Calm(task[t]) /\ Shaped(task[t])
    BY <1>2, CalmAtFirst DEF ChangingStep, WriteTool, SafeWriteTool, LookForBuilder,
       ScaffoldBuilder, LookForModel, ConvertToBuilder, LookForFile, RemoveFile, LookBeforeMove,
       RenameFile, RenameFails, Calling, At
  <2>2. task[t].acted \/ task[t].changed => InDoubt(task[t])
    BY <2>1 DEF Calm
  <2>3. \A code \in Codes : Fail(t, code) => ToolInv'
    BY <2>2, FailKeeps
  <2>4. Proceed(t, {}, [task[t] EXCEPT !.at = "found", !.touched = {}]) /\ UNCHANGED disk => ToolInv'
    BY <2>1, LookKeeps
  <2>5. \A files : Act(t, files) /\ files = [f \in Paths |-> files[f]] => ToolInv'
    BY <2>1, ActKeeps
  <2>6. disk = [f \in Paths |-> disk[f]]
    BY DEF ToolInv
  <2>7. CASE WriteTool(t) \/ SafeWriteTool(t) \/ ScaffoldBuilder(t)
    BY <2>1, <2>7, WriteKeeps, SafeWriteKeeps DEF WriteTool, SafeWriteTool, ScaffoldBuilder
  <2>8. CASE LookForBuilder(t) \/ LookForModel(t)
    BY <2>3, <2>4, <2>8 DEF LookForBuilder, LookForModel, Codes
  <2>9. CASE ConvertToBuilder(t)
    BY <2>1, <2>3, <2>9, SafeWriteKeeps DEF ConvertToBuilder, Codes
  <2>10. CASE LookForFile(t)
    BY <2>4, <2>5, <2>6, <2>10 DEF LookForFile
  <2>11. CASE RemoveFile(t)
    <3>1. CASE Act(t, [disk EXCEPT ![Call(t).path] = Missing])
      <4> DEFINE files == [disk EXCEPT ![Call(t).path] = Missing]
      <4>1. files = [f \in Paths |-> files[f]]
        BY <2>6
      <4> QED
        BY <2>5, <3>1, <4>1
    <3>2. CASE Fail(t, "INTERNAL_ERROR")
      BY <2>3, <3>2 DEF Codes
    <3> QED
      BY <2>11, <3>1, <3>2 DEF RemoveFile
  <2>12. CASE LookBeforeMove(t)
    BY <2>3, <2>4, <2>12 DEF LookBeforeMove, Codes
  <2>13. CASE RenameFile(t)
    <3> DEFINE files == Moved(Call(t))
    <3>1. files = [f \in Paths |-> files[f]]
      BY <2>6 DEF Moved
    <3> HIDE DEF files
    <3> QED
      BY <2>5, <2>13, <3>1 DEF RenameFile, files
  <2>14. CASE RenameFails(t)
    BY <2>3, <2>14 DEF RenameFails, Codes
  <2> QED
    BY <1>2, <2>7, <2>8, <2>9, <2>10, <2>11, <2>12, <2>13, <2>14 DEF ChangingStep
<1> QED
  BY <1>1, <1>2

LEMMA BuildingKeeps ==
  ASSUME ToolInv, NEW t \in Tasks, BuildTree(t) \/ BuildFails(t) \/ InstallTree(t)
  PROVE  ToolInv'
<1>1. Shaped(task[t]) /\ Honest(task[t]) /\ Whole(task[t])
  BY DEF BuildTree, BuildFails, InstallTree, At, ToolInv, Sound
<1>2. CASE BuildTree(t)
  <2> DEFINE rec == [task[t] EXCEPT !.at = "built", !.built = disk, !.touched = {}]
  <2>1. Sound(rec, disk)
    BY <1>1 DEF Sound, Shaped, Fielded, Honest, Whole, Patching, InDoubt
  <2> HIDE DEF rec
  <2>2. Proceed(t, {}, rec) /\ UNCHANGED disk
    BY <1>2 DEF BuildTree, rec
  <2> QED
    BY <2>1, <2>2, ProceedKeeps DEF ToolInv
<1>3. CASE BuildFails(t)
  BY <1>3, FailKeeps DEF BuildFails, Codes
<1>4. CASE InstallTree(t)
  <2> DEFINE verdict == IF task[t].faults = 0 THEN "ok" ELSE "refused"
  <2>1. /\ verdict \in Verdicts
        /\ MayAnswer(task[t], verdict)
    BY <1>1 DEF Whole, MayAnswer, Verdicts
  <2>2. task' = [task EXCEPT ![t] = Answered(task[t], verdict)] /\ UNCHANGED disk
    BY <1>4 DEF InstallTree
  <2> HIDE DEF verdict
  <2>3. Sound(Answered(task[t], verdict), disk)
    BY <1>1, <2>1, AnsweredIsSound
  <2> QED
    BY <2>2, <2>3, AloneKeeps
<1> QED
  BY <1>2, <1>3, <1>4

LEMMA ToolInvStep == ToolInv /\ [ToolNext]_toolVars => ToolInv'
<1> SUFFICES ASSUME ToolInv, [ToolNext]_toolVars PROVE ToolInv'
  OBVIOUS
<1>1. ASSUME NEW t \in Tasks, RejectCall(t) \/ UnknownMethod(t) PROVE ToolInv'
  <2>1. Calm(task[t]) /\ Shaped(task[t])
    BY <1>1, CalmAtFirst DEF RejectCall, UnknownMethod, Calling, At
  <2>2. /\ MayAnswer(task[t], "BAD_PARAMS")
        /\ task[t].acted \/ task[t].changed => InDoubt(task[t])
    BY <2>1 DEF Calm, MayAnswer
  <2> QED
    BY <1>1, <2>2, SucceedKeeps, FailKeeps DEF RejectCall, UnknownMethod, Codes, Verdicts
<1>2. ASSUME NEW t \in Tasks, BatchStep(t) PROVE ToolInv'
  BY <1>1, <1>2, ReadingKeeps, ChangingKeeps, BuildingKeeps DEF BatchStep
<1>3. ASSUME NEW f \in Paths, NEW c \in Contents \cup {Missing}, EditFile(f, c) PROVE ToolInv'
  <2>1. /\ disk' = [disk EXCEPT ![f] = c] /\ task' = [s \in Tasks |-> Told(s, {f})]
    BY <1>3 DEF EditFile
  <2>2. ASSUME NEW s \in Tasks PROVE Sound(Told(s, {f}), disk')
    BY <2>1, <2>2 DEF Told, ToolInv, Sound, Shaped, Fielded, Honest, Calm, Whole, HalfPatched,
       Patching, InDoubt
  <2> HIDE DEF Told
  <2> QED
    BY <2>1, <2>2 DEF ToolInv
<1>4. CASE UNCHANGED toolVars
  BY <1>4 DEF toolVars, ToolInv
<1> QED
  BY <1>2, <1>3, <1>4 DEF ToolNext

(* What a batch answers of a call is so, whatever fails, however often it  *)
(* is tried and whoever else changes the files (exec_bridge_batch and the  *)
(* tools it calls).                                                        *)
THEOREM AnswersAlwaysMatch == ToolSpec => []AnswersMatchTheFiles
<1>1. ToolInv => AnswersMatchTheFiles
  <2> SUFFICES ASSUME ToolInv, NEW t \in Tasks, NEW i \in DOMAIN task[t].replies
               PROVE  Fits(task[t].batch, task[t].replies[i])
    BY DEF AnswersMatchTheFiles, Replied, Fits, MethodOf, MadeAgain
  <2>1. Honest(task[t]) /\ task[t].replies \in Seq(AnswerRecords)
    BY DEF ToolInv, Sound, Shaped, Fielded
  <2> QED
    BY <2>1 DEF Honest
<1> QED
  BY ToolInvInit, ToolInvStep, <1>1, PTL DEF ToolSpec

(* The snapshot a tool installs agrees with the files in all that nobody   *)
(* touched since it was built (rebuild_snapshot).                          *)
THEOREM InstalledTreesMatch == ToolSpec => InstallsWhatIsOnDisk
<1>1. ASSUME ToolInv, NEW t \in Tasks, InstallTree(t), NEW f \in Paths \ task[t].touched
      PROVE  current'[f] = disk[f]
  BY <1>1 DEF InstallTree, At, ToolInv, Sound
<1>2. ToolInv /\ [ToolNext]_toolVars =>
        [\A t \in Tasks :
           InstallTree(t) => \A f \in Paths \ task[t].touched : current'[f] = disk[f]]_toolVars
  BY <1>1
<1> QED
  BY ToolInvInit, ToolInvStep, <1>2, PTL DEF ToolSpec, InstallsWhatIsOnDisk

-----------------------------------------------------------------------------
(* Facts about the sequences of steps that are launched and awaited.       *)
LEMMA RangeIsFinite ==
  ASSUME NEW S, NEW q \in Seq(S)
  PROVE  IsFiniteSet(Range(q))
<1>1. q \in [1..Len(q) -> S] /\ Len(q) \in Nat
  BY LenProperties
<1>2. q \in Surjection(1..Len(q), Range(q))
  BY <1>1, Fun_RangeProperties
<1>3. IsFiniteSet(1..Len(q))
  BY <1>1, FS_Interval
<1> QED
  BY <1>2, <1>3, FS_Surjection

LEMMA TailWithoutHead ==
  ASSUME NEW S, NEW q \in Seq(S), q # << >>, IsInjective(q)
  PROVE  /\ IsInjective(Tail(q)) /\ Tail(q) \in Seq(S)
         /\ Head(q) \in Range(q) /\ Range(Tail(q)) = Range(q) \ {Head(q)}
<1>1. /\ Tail(q) \in Seq(S) /\ Len(Tail(q)) = Len(q) - 1 /\ Len(q) \in Nat \ {0}
      /\ \A i \in 1..Len(Tail(q)) : Tail(q)[i] = q[i + 1]
      /\ DOMAIN q = 1..Len(q) /\ DOMAIN Tail(q) = 1..Len(Tail(q)) /\ Head(q) = q[1]
  BY HeadTailProperties, LenProperties, EmptySeq
<1>2. IsInjective(Tail(q))
  BY <1>1 DEF IsInjective
<1>3. Head(q) \in Range(q)
  BY <1>1 DEF Range
<1>4. ASSUME NEW x \in Range(Tail(q)) PROVE x \in Range(q) \ {Head(q)}
  <2>1. PICK i \in DOMAIN Tail(q) : x = Tail(q)[i]
    BY DEF Range
  <2>2. i + 1 \in DOMAIN q /\ x = q[i + 1] /\ 1 \in DOMAIN q /\ i + 1 # 1
    BY <1>1, <2>1
  <2> QED
    BY <1>1, <2>2 DEF Range, IsInjective
<1>5. ASSUME NEW x \in Range(q) \ {Head(q)} PROVE x \in Range(Tail(q))
  <2>1. PICK i \in DOMAIN q : x = q[i]
    BY DEF Range
  <2>2. i - 1 \in DOMAIN Tail(q) /\ x = Tail(q)[i - 1]
    BY <1>1, <1>5, <2>1
  <2> QED
    BY <2>2 DEF Range
<1> QED
  BY <1>1, <1>2, <1>3, <1>4, <1>5

-----------------------------------------------------------------------------
InAuto == req.mode = "auto"
Dropped == req.mode = "parallel" /\ stopping
Awaited == Range(awaited)
Noted == Begun \ Awaited

Shape ==
  /\ req \in Requests
  /\ phase \in {"received", "running", "answered", "refused", "lost"}
  /\ phase = "received" => launched = << >>
  /\ phase \in {"running", "answered"} => Acceptable
  /\ phase = "answered" => awaited = << >>
  /\ launched \in Seq(Ids) /\ Range(launched) \subseteq Range(Listed)
  /\ Range(launched) = Begun
  /\ awaited \in Seq(Ids) /\ IsInjective(awaited) /\ Awaited \subseteq Begun
  /\ stopping => req.stop
  /\ run = [s \in Ids |-> run[s]]
  /\ \A s \in Ids : run[s] = [at |-> run[s].at, sees |-> run[s].sees,
                              blanks |-> run[s].blanks, text |-> run[s].text]
  /\ \A s \in Ids : run[s].at \in {"waiting", "filling", "stuck"} \cup Outcomes
  /\ report = [results |-> report.results, errors |-> report.errors, order |-> report.order]
  /\ report.errors \in Seq(Ids \cup {"unknown"})

Finished == ~Dropped => Noted \subseteq Ended
InOrder == InAuto => \A s \in Begun : Needs(s) \subseteq Ended

Under(map, n) == map[n] = n \/ (map[n] \in Range(Listed) /\ Collect(map[n]) = n)
Kept ==
  /\ req.mode # "parallel" => \A s \in Noted \cap Succeeded : s \in DOMAIN names
  /\ \A n \in DOMAIN names : Under(names, n)
Seen ==
  \A s \in Begun :
    /\ \A n \in DOMAIN run[s].sees : Under(run[s].sees, n)
    /\ InAuto => Needs(s) \cap Succeeded \subseteq DOMAIN run[s].sees

Failures == Noted \ Succeeded
Reported ==
  ~Dropped =>
    /\ Noted \cap Succeeded \subseteq DOMAIN report.results
    /\ IsFiniteSet(Failures)
    /\ Len(report.errors) = Cardinality(Failures)

PipeInv == Shape /\ Finished /\ InOrder /\ Kept /\ Seen /\ Reported

LEMMA StepFacts ==
  ASSUME req \in Requests, NEW s \in Range(Listed)
  PROVE  s \in Ids /\ Needs(s) \subseteq Ids /\ Collect(s) \in Names \cup {NoAlias}
<1>1. req.steps \in Seq(PipelineSteps)
  BY PipelineAssumption
<1>2. PICK i \in DOMAIN req.steps : s = req.steps[i].id
  BY DEF Range, Listed
<1>3. \E step \in Range(req.steps) : step.id = s
  BY <1>2 DEF Range
<1>4. StepOf(s) \in Range(req.steps) /\ StepOf(s).id = s
  BY <1>3 DEF StepOf
<1>5. Range(req.steps) \subseteq PipelineSteps
  BY <1>1, RangeOfSeq
<1> QED
  BY <1>4, <1>5 DEF Needs, Collect, PipelineSteps

LEMMA LevelFacts ==
  ASSUME req \in Requests, NEW level \in NextLevels
  PROVE  level \in Seq(Ids) /\ IsInjective(level) /\ Range(level) \subseteq NextSteps
<1>1. req.steps \in Seq(PipelineSteps)
  BY PipelineAssumption
<1>2. DOMAIN req.steps = 1..Len(req.steps) /\ Len(req.steps) \in Nat
  BY <1>1, LenProperties
<1>3. \A i \in DOMAIN req.steps : req.steps[i].id \in Ids
  <2>1. req.steps \in [1..Len(req.steps) -> PipelineSteps]
    BY <1>1, LenProperties
  <2> QED
    BY <2>1 DEF PipelineSteps
<1>4. Listed \in Seq(Ids)
  BY <1>2, <1>3 DEF Listed
<1>5. NextSteps \subseteq Range(Listed) /\ Range(Listed) \subseteq Ids
  BY <1>4, RangeOfSeq DEF NextSteps, First, Unblocked, Left
<1>6. IsFiniteSet(NextSteps)
  BY <1>4, <1>5, RangeIsFinite, FS_Subset
<1>7. Cardinality(NextSteps) \in Nat
  BY <1>6, FS_CardinalityType
<1>8. level \in [1..Cardinality(NextSteps) -> NextSteps] /\ IsInjective(level)
  BY DEF NextLevels, SetToSeqs, IsInjective
<1> QED
  BY <1>5, <1>7, <1>8, SeqDef DEF Range

LEMMA PipeInvInit == PipeInit => PipeInv
<1> SUFFICES ASSUME PipeInit PROVE PipeInv
  OBVIOUS
<1>1. Begun = {} /\ launched = << >> /\ awaited = << >> /\ Range(launched) = {} /\ Awaited = {}
  BY DEF PipeInit, Begun, Waiting, Range, Awaited
<1>2. Shape
  <2>1. << >> \in Seq(Ids) /\ IsInjective(<< >>)
    BY DEF IsInjective
  <2>2. report = [results |-> NoNames, errors |-> << >>, order |-> << >>]
    BY DEF PipeInit
  <2>3. report = [results |-> report.results, errors |-> report.errors, order |-> report.order]
        /\ report.errors \in Seq(Ids \cup {"unknown"})
    BY <2>2
  <2>4. run = [s \in Ids |-> Waiting]
    BY DEF PipeInit
  <2>5. \A s \in Ids : run[s] = Waiting
    BY <2>4
  <2>6. /\ run = [s \in Ids |-> run[s]]
        /\ \A s \in Ids : run[s] = [at |-> run[s].at, sees |-> run[s].sees,
                                    blanks |-> run[s].blanks, text |-> run[s].text]
        /\ \A s \in Ids : run[s].at \in {"waiting", "filling", "stuck"} \cup Outcomes
    BY <2>4, <2>5 DEF Waiting
  <2>7. launched = << >> /\ awaited = << >> /\ phase = "received" /\ req \in Requests /\ ~stopping
    BY DEF PipeInit
  <2> QED
    BY <1>1, <2>1, <2>3, <2>6, <2>7 DEF Shape
<1>3. Reported
  BY <1>1, FS_EmptySet DEF Reported, Failures, Noted, PipeInit, NoNames
<1> QED
  BY <1>1, <1>2, <1>3 DEF PipeInv, PipeInit, Finished, InOrder, Kept, Seen, Noted, NoNames
-----------------------------------------------------------------------------
LEMMA SameRequest ==
  ASSUME req' = req
  PROVE  /\ Listed' = Listed /\ Acceptable' = Acceptable /\ InAuto' = InAuto
         /\ \A s : Needs(s)' = Needs(s) /\ Collect(s)' = Collect(s)
  BY DEF Listed, Acceptable, InAuto, Needs, Collect, StepOf, NoCircle, Under

(* A step of the task that leaves the threads and the report alone.        *)
LEMMA PhaseKeeps ==
  ASSUME PipeInv, RefuseRequest \/ AcceptRequest \/ AnswerPipeline \/ UNCHANGED pipeVars
  PROVE  PipeInv'
<1>1. UNCHANGED <<req, launched, awaited, stopping, names, run, report>>
  BY DEF RefuseRequest, AcceptRequest, AnswerPipeline, pipeVars
<1>2. /\ Begun' = Begun /\ Ended' = Ended /\ Succeeded' = Succeeded /\ Awaited' = Awaited
      /\ Dropped' = Dropped /\ InAuto' = InAuto /\ Listed' = Listed /\ Acceptable' = Acceptable
  BY <1>1, SameRequest DEF Begun, Ended, Succeeded, Awaited, Dropped
<1>3. Noted' = Noted /\ Failures' = Failures
  BY <1>2 DEF Noted, Failures
<1>4. Shape'
  BY <1>1, <1>2 DEF PipeInv, Shape, RefuseRequest, AcceptRequest, AnswerPipeline, pipeVars
<1>5. Finished' /\ InOrder' /\ Reported'
  BY <1>1, <1>2, <1>3, SameRequest DEF PipeInv, Finished, InOrder, Reported
<1>6. Kept' /\ Seen'
  BY <1>1, <1>2, <1>3, SameRequest DEF PipeInv, Kept, Seen, Under
<1> QED
  BY <1>4, <1>5, <1>6 DEF PipeInv

(* A step that is launched waits for nothing that is left, and sees what   *)
(* has been stored by then.                                                *)
LEMMA LaunchKeeps == PipeInv /\ LaunchLevel => PipeInv'
<1> SUFFICES ASSUME PipeInv, LaunchLevel PROVE PipeInv'
  OBVIOUS
<1>1. PICK level \in NextLevels : Launch(level) /\ awaited' = level
  BY DEF LaunchLevel
<1>2. /\ phase = "running" /\ awaited = << >> /\ ~stopping
      /\ UNCHANGED <<req, phase, stopping, names, report>>
      /\ launched' = launched \o level
      /\ run' = [s \in Ids |-> IF s \in Range(level) THEN Launched(s) ELSE run[s]]
  BY <1>1 DEF LaunchLevel, Launch
<1>3. level \in Seq(Ids) /\ IsInjective(level) /\ Range(level) \subseteq NextSteps
  BY <1>1, LevelFacts DEF PipeInv, Shape
<1>4. Range(level) \subseteq Left
  BY <1>3 DEF NextSteps, First, Unblocked
<1> DEFINE N == Range(level)
<1>5. N \subseteq Range(Listed) /\ N \cap Begun = {} /\ N \subseteq Ids
  BY <1>3, <1>4, RangeOfSeq DEF Left, PipeInv, Shape
<1>6. \A s \in Ids : run'[s] = IF s \in N THEN Launched(s) ELSE run[s]
  BY <1>2
<1> HIDE DEF N
<1>f. ASSUME NEW s \in N PROVE run'[s].at = "filling" /\ run'[s].sees = names
  <2>1. run'[s] = Launched(s)
    BY <1>5, <1>6
  <2> QED
    BY <2>1 DEF Launched
<1>7. Begun' = Begun \cup N /\ Ended' = Ended /\ Succeeded' = Succeeded
  <2>1. \A s \in Ids : run'[s].at = IF s \in N THEN "filling" ELSE run[s].at
    BY <1>6, <1>f
  <2>2. \A s \in N : run[s].at = "waiting"
    BY <1>5 DEF Begun
  <2> QED
    BY <1>5, <2>1, <2>2 DEF Begun, Ended, Succeeded, Outcomes
<1>8. Awaited = {} /\ Awaited' = N /\ Noted = Begun /\ Noted' = Begun /\ Failures' = Failures
  BY <1>1, <1>2, <1>5, <1>7 DEF Awaited, Noted, N, Range, Failures
<1>9. ~Dropped /\ ~Dropped' /\ Noted \subseteq Ended
  BY <1>2 DEF Dropped, PipeInv, Finished
<1>10. Range(launched') = Range(launched) \cup N /\ launched' \in Seq(Ids)
  BY <1>2, <1>3, RangeConcatenation, ConcatProperties DEF N, PipeInv, Shape
<1>11. Shape'
  <2>1. /\ run' = [s \in Ids |-> run'[s]]
        /\ \A s \in Ids : run'[s] = [at |-> run'[s].at, sees |-> run'[s].sees,
                                     blanks |-> run'[s].blanks, text |-> run'[s].text]
        /\ \A s \in Ids : run'[s].at \in {"waiting", "filling", "stuck"} \cup Outcomes
    BY <1>2, <1>6 DEF PipeInv, Shape, Launched
  <2> QED
    BY <1>1, <1>2, <1>3, <1>5, <1>7, <1>8, <1>10, <2>1, SameRequest DEF PipeInv, Shape
<1>12. Finished' /\ Reported'
  BY <1>2, <1>7, <1>8, <1>9 DEF Finished, PipeInv, Reported
<1>13. ASSUME InAuto, NEW s \in N PROVE Needs(s) \subseteq Begun
  <2>1. s \in Unblocked
    BY <1>3, <1>13 DEF N, NextSteps, InAuto
  <2>2. Acceptable
    BY <1>2 DEF PipeInv, Shape
  <2> QED
    BY <1>5, <1>13, <2>1, <2>2 DEF Unblocked, Left, Acceptable, InAuto, PipeInv, Shape
<1>14. InOrder'
  BY <1>2, <1>7, <1>8, <1>9, <1>13, SameRequest DEF InOrder, PipeInv
<1>15. Kept'
  BY <1>2, <1>7, <1>8, SameRequest DEF Kept, PipeInv, Under
<1>16. Seen'
  <2>1. ASSUME NEW s \in N
        PROVE  /\ \A n \in DOMAIN run'[s].sees : Under(run'[s].sees, n)
               /\ InAuto => Needs(s) \cap Succeeded \subseteq DOMAIN run'[s].sees
    <3>1. run'[s].sees = names
      BY <1>f
    <3>2. InAuto => Needs(s) \cap Succeeded \subseteq DOMAIN names
      BY <1>8, <1>13, <2>1 DEF PipeInv, Kept, InAuto
    <3> QED
      BY <3>1, <3>2 DEF PipeInv, Kept
  <2>2. ASSUME NEW s \in Begun
        PROVE  /\ \A n \in DOMAIN run'[s].sees : Under(run'[s].sees, n)
               /\ InAuto => Needs(s) \cap Succeeded \subseteq DOMAIN run'[s].sees
    BY <1>5, <1>6, <2>2 DEF Begun, PipeInv, Seen
  <2> QED
    <3>1. \A s : Needs(s)' = Needs(s)
      BY <1>2, SameRequest
    <3>2. InAuto' = InAuto /\ Listed' = Listed /\ \A s : Collect(s)' = Collect(s)
      BY <1>2, SameRequest
    <3> QED
      BY <1>7, <2>1, <2>2, <3>1, <3>2 DEF Seen, Under
<1> QED
  BY <1>11, <1>12, <1>14, <1>15, <1>16 DEF PipeInv
(* Storing a step's result, in either order, adds its name and disturbs no *)
(* name but its own and the one it collects under.                         *)
LEMMA ResultIsKept ==
  ASSUME NEW s \in Range(Listed), NEW map,
         \A n \in DOMAIN map : Under(map, n)
  PROVE  /\ DOMAIN map \cup {s} \subseteq DOMAIN StoreCollected(Store(map, s, s), s)
         /\ DOMAIN map \cup {s} \subseteq DOMAIN Store(StoreCollected(map, s), s, s)
         /\ \A n \in DOMAIN StoreCollected(Store(map, s, s), s) :
              Under(StoreCollected(Store(map, s, s), s), n)
<1> DEFINE m1 == Store(map, s, s)
           m2 == StoreCollected(m1, s)
<1>2. DOMAIN m1 = DOMAIN map \cup {s} /\ m1[s] = s /\ \A m \in DOMAIN map \ {s} : m1[m] = map[m]
  BY DEF Store
<1>3. /\ DOMAIN Store(StoreCollected(map, s), s, s) = DOMAIN StoreCollected(map, s) \cup {s}
      /\ DOMAIN map \subseteq DOMAIN StoreCollected(map, s)
  BY DEF StoreCollected, Store
<1> HIDE DEF m1
<1>1. \A n \in DOMAIN m1 : Under(m1, n)
  BY <1>2 DEF Under
<1>4. m2 = m1 \/ m2 = Store(m1, Collect(s), s)
  BY DEF StoreCollected
<1>5. DOMAIN m1 \subseteq DOMAIN m2 /\ \A n \in DOMAIN m2 : Under(m2, n)
  <2>1. CASE m2 = m1
    BY <1>1, <2>1
  <2>2. CASE m2 = Store(m1, Collect(s), s)
    <3> DEFINE m3 == Store(m1, Collect(s), s)
    <3>1. /\ DOMAIN m3 = DOMAIN m1 \cup {Collect(s)} /\ m3[Collect(s)] = s
          /\ \A m \in DOMAIN m1 \ {Collect(s)} : m3[m] = m1[m]
      BY DEF Store
    <3> HIDE DEF m3
    <3>2. \A n \in DOMAIN m3 : Under(m3, n)
      BY <1>1, <3>1 DEF Under
    <3>3. m2 = m3
      BY <2>2 DEF m3
    <3> QED
      BY <3>1, <3>2, <3>3
  <2> QED
    BY <1>4, <2>1, <2>2
<1> QED
  BY <1>2, <1>3, <1>5 DEF m1

(* The result of the next step is stored, or its error is noted.           *)
LEMMA AwaitKeeps == PipeInv /\ AwaitStep => PipeInv'
<1> SUFFICES ASSUME PipeInv, AwaitStep PROVE PipeInv'
  OBVIOUS
<1> DEFINE s == Head(awaited)
           good == run[s].at = "succeeded"
<1>1. /\ phase = "running" /\ awaited # << >> /\ run[s].at \in Outcomes
      /\ UNCHANGED <<req, phase, launched, run>>
  BY DEF AwaitStep
<1>2. /\ awaited \in Seq(Ids) /\ IsInjective(awaited) /\ Awaited \subseteq Begun
      /\ Begun \subseteq Range(Listed) /\ Range(launched) = Begun
  BY DEF PipeInv, Shape
<1>3. /\ IsInjective(Tail(awaited)) /\ Tail(awaited) \in Seq(Ids)
      /\ s \in Awaited /\ Range(Tail(awaited)) = Awaited \ {s}
  BY <1>1, <1>2, TailWithoutHead DEF Awaited
<1>4. s \in Begun /\ s \in Ids /\ s \in Range(Listed) /\ s \in Ended /\ (s \in Succeeded <=> good)
  BY <1>1, <1>2, <1>3 DEF Begun, Ended, Succeeded
<1>5. Begun' = Begun /\ Ended' = Ended /\ Succeeded' = Succeeded /\ Listed' = Listed
  BY <1>1, SameRequest DEF Begun, Ended, Succeeded
<1>6. Dropped' \/ awaited' = Tail(awaited)
  BY DEF AwaitStep, Dropped
<1>7. Dropped => Dropped'
  BY <1>1 DEF AwaitStep, Dropped
<1>8. awaited' \in {Tail(awaited), << >>} /\ (stopping' => req.stop)
  BY DEF AwaitStep, PipeInv, Shape
<1>9. ~Dropped' => Awaited' = Awaited \ {s} /\ Noted' = Noted \cup {s}
  BY <1>3, <1>4, <1>5, <1>6 DEF Awaited, Noted
<1>10. awaited' \in Seq(Ids) /\ IsInjective(awaited') /\ Awaited' \subseteq Begun
  <2>1. << >> \in Seq(Ids) /\ IsInjective(<< >>) /\ Range(<< >>) = {}
    BY DEF IsInjective, Range
  <2>2. Awaited' = Range(awaited')
    BY DEF Awaited
  <2> QED
    BY <1>2, <1>3, <1>8, <2>1, <2>2
<1>11. Finished'
  BY <1>4, <1>5, <1>7, <1>9 DEF PipeInv, Finished
<1>12. InOrder' /\ Seen'
  BY <1>1, <1>5, SameRequest DEF PipeInv, InOrder, Seen, Under
<1>13. CASE good
  <2>1. TakeValue(s)
    BY <1>13 DEF AwaitStep
  <2>2. PICK results : /\ report' = [Note(s) EXCEPT !.results = results]
                       /\ s \in DOMAIN results /\ DOMAIN report.results \subseteq DOMAIN results
    <3>1. CASE req.mode = "parallel"
      <4> DEFINE results == Store(StoreCollected(report.results, s), s, s)
      <4>1. report' = [Note(s) EXCEPT !.results = results]
        BY <2>1, <3>1 DEF TakeValue, Note, PipeInv, Shape
      <4>2. s \in DOMAIN results /\ DOMAIN report.results \subseteq DOMAIN results
        BY DEF StoreCollected, Store
      <4> QED
        BY <4>1, <4>2
    <3>2. CASE req.mode # "parallel"
      <4> DEFINE results == Store(report.results, s, s)
      <4>1. report' = [Note(s) EXCEPT !.results = results]
        BY <2>1, <3>2 DEF TakeValue, Note, PipeInv, Shape
      <4>2. s \in DOMAIN results /\ DOMAIN report.results \subseteq DOMAIN results
        BY DEF Store
      <4> QED
        BY <4>1, <4>2
    <3> QED
      BY <3>1, <3>2
  <2>3. /\ report'.results = results /\ report'.errors = report.errors
        /\ report' = [results |-> report'.results, errors |-> report'.errors, order |-> report'.order]
    BY <2>2 DEF Note, PipeInv, Shape
  <2>4. Shape'
    BY <1>1, <1>2, <1>5, <1>8, <1>10, <2>3, SameRequest DEF PipeInv, Shape
  <2>5. Reported'
    <3>1. ~Dropped' => Failures' = Failures
      BY <1>4, <1>5, <1>9, <1>13 DEF Failures
    <3> QED
      BY <1>5, <1>7, <1>9, <2>2, <2>3, <3>1 DEF PipeInv, Reported
  <2>6. Kept'
    <3>1. CASE req.mode = "parallel"
      <4>1. names' = names
        BY <2>1, <3>1 DEF TakeValue
      <4> QED
        BY <1>1, <1>5, <3>1, <4>1, SameRequest DEF PipeInv, Kept, Under
    <3>2. CASE req.mode # "parallel"
      <4>1. names' = StoreCollected(Store(names, s, s), s)
        BY <2>1, <3>2 DEF TakeValue
      <4>2. \A n \in DOMAIN names : Under(names, n)
        BY DEF PipeInv, Kept
      <4>3. DOMAIN names \cup {s} \subseteq DOMAIN names' /\ \A n \in DOMAIN names' : Under(names', n)
        BY <1>4, <4>1, <4>2, ResultIsKept
      <4>4. ~Dropped' /\ Noted \cap Succeeded \subseteq DOMAIN names
        BY <1>1, <3>2 DEF Dropped, PipeInv, Kept
      <4>5. (Noted \cap Succeeded)' \subseteq DOMAIN names'
        BY <1>5, <1>9, <4>3, <4>4
      <4> QED
        BY <1>1, <1>5, <4>3, <4>5, SameRequest DEF Kept, Under
    <3> QED
      BY <3>1, <3>2
  <2> QED
    BY <1>11, <1>12, <2>4, <2>5, <2>6 DEF PipeInv
<1>14. CASE ~good
  <2>1. TakeFailure(s)
    BY <1>14 DEF AwaitStep
  <2>2. PICK e, order :
          /\ e \in Ids \cup {"unknown"}
          /\ report' = [report EXCEPT !.errors = Append(@, e), !.order = order]
    <3>1. CASE run[s].at = "panicked"
      <4>1. report' = [report EXCEPT !.errors = Append(@, "unknown")]
        BY <2>1, <3>1 DEF TakeFailure
      <4>2. report' = [report EXCEPT !.errors = Append(@, "unknown"), !.order = report.order]
        BY <4>1 DEF PipeInv, Shape
      <4> QED
        BY <4>2
    <3>2. CASE run[s].at # "panicked"
      <4>1. report' = [report EXCEPT !.errors = Append(@, s), !.order = Append(report.order, s)]
        BY <2>1, <3>2 DEF TakeFailure, Note, PipeInv, Shape
      <4> QED
        BY <1>4, <4>1
    <3> QED
      BY <3>1, <3>2
  <2>3. /\ report'.results = report.results /\ report'.errors = Append(report.errors, e)
        /\ report' = [results |-> report'.results, errors |-> report'.errors, order |-> report'.order]
    BY <2>2 DEF PipeInv, Shape
  <2>4. report.errors \in Seq(Ids \cup {"unknown"})
    BY DEF PipeInv, Shape
  <2>5. report'.errors \in Seq(Ids \cup {"unknown"}) /\ Len(report'.errors) = Len(report.errors) + 1
    <3>1. e \in Ids \cup {"unknown"}
      BY <2>2
    <3> QED
      BY <2>3, <2>4, <3>1, AppendProperties
  <2>6. Shape'
    BY <1>1, <1>2, <1>5, <1>8, <1>10, <2>3, <2>5, SameRequest DEF PipeInv, Shape
  <2>7. Reported'
    <3>1. SUFFICES ASSUME ~Dropped' PROVE Reported'
      BY DEF Reported
    <3>2. Failures' = Failures \cup {s} /\ s \notin Failures
      BY <1>3, <1>4, <1>5, <1>9, <1>14, <3>1 DEF Failures, Noted
    <3>3. IsFiniteSet(Failures) /\ Len(report.errors) = Cardinality(Failures)
          /\ Noted \cap Succeeded \subseteq DOMAIN report.results
      BY <1>7, <3>1 DEF PipeInv, Reported
    <3>4. IsFiniteSet(Failures') /\ Len(report'.errors) = Cardinality(Failures')
      BY <2>5, <3>2, <3>3, FS_AddElement
    <3>5. (Noted \cap Succeeded)' \subseteq DOMAIN report'.results
      BY <1>4, <1>5, <1>9, <1>14, <2>3, <3>1, <3>3
    <3> QED
      BY <3>4, <3>5 DEF Reported
  <2>8. Kept'
    <3>1. names' = names
      BY <2>1 DEF TakeFailure
    <3>2. req.mode # "parallel" => (Noted \cap Succeeded)' \subseteq Noted \cap Succeeded
      BY <1>1, <1>4, <1>5, <1>9, <1>14 DEF Dropped
    <3> QED
      BY <1>1, <1>5, <3>1, <3>2, SameRequest DEF PipeInv, Kept, Under
  <2> QED
    BY <1>11, <1>12, <2>6, <2>7, <2>8 DEF PipeInv
<1> QED
  BY <1>13, <1>14

-----------------------------------------------------------------------------
(* A step of a thread changes its own record: it fills in a reference, or  *)
(* its tool returns.                                                       *)
LEMMA ThreadKeeps ==
  ASSUME PipeInv, NEW s \in Ids, FillStep(s) \/ EndTool(s)
  PROVE  PipeInv'
<1>1. UNCHANGED <<req, launched, awaited, stopping, names, report>> /\ run[s].at = "filling"
      /\ phase' \in {phase, "lost"}
  BY DEF FillStep, EndTool, FillReference, RunTool
<1>2. /\ run' = [t \in Ids |-> run'[t]]
      /\ \A t \in Ids \ {s} : run'[t] = run[t]
      /\ run'[s] = [at |-> run'[s].at, sees |-> run[s].sees,
                    blanks |-> run'[s].blanks, text |-> run'[s].text]
      /\ run'[s].at \in {"filling", "stuck"} \cup Outcomes
  <2>1. CASE FillStep(s)
    <3>1. PICK n \in Names : FillReference(s, n)
      BY <2>1 DEF FillStep
    <3>2. PICK b : run' = [run EXCEPT ![s].blanks = b]
      BY <3>1 DEF FillReference
    <3>3. run = [t \in Ids |-> run[t]]
          /\ run[s] = [at |-> run[s].at, sees |-> run[s].sees,
                       blanks |-> run[s].blanks, text |-> run[s].text]
      BY DEF PipeInv, Shape
    <3>4. /\ run'[s] = [run[s] EXCEPT !.blanks = b]
          /\ \A t \in Ids \ {s} : run'[t] = run[t]
          /\ run' = [t \in Ids |-> run'[t]]
      <4> DEFINE new == [run[s] EXCEPT !.blanks = b]
      <4>1. run' = [run EXCEPT ![s] = new]
        BY <3>2
      <4> HIDE DEF new
      <4>2. run'[s] = new /\ (\A t \in Ids \ {s} : run'[t] = run[t]) /\ run' = [t \in Ids |-> run'[t]]
        BY <3>3, <4>1
      <4> QED
        BY <4>2 DEF new
    <3>5. run'[s] = [at |-> run[s].at, sees |-> run[s].sees, blanks |-> b, text |-> run[s].text]
      BY <3>3, <3>4
    <3> QED
      BY <1>1, <3>4, <3>5
  <2>2. CASE EndTool(s)
    <3>1. PICK outcome \in Outcomes \cup {"stuck"}, text \in Texts :
            run' = [run EXCEPT ![s] = [run[s] EXCEPT !.at = outcome, !.text = text]]
      BY <2>2 DEF EndTool, RunTool
    <3>2. /\ run' = [t \in Ids |-> run'[t]]
          /\ \A t \in Ids \ {s} : run'[t] = run[t]
          /\ run'[s] = [run[s] EXCEPT !.at = outcome, !.text = text]
      <4> DEFINE new == [run[s] EXCEPT !.at = outcome, !.text = text]
      <4> HIDE DEF new
      <4>1. run' = [run EXCEPT ![s] = new]
        BY <3>1 DEF new
      <4>2. run = [t \in Ids |-> run[t]]
        BY DEF PipeInv, Shape
      <4>3. run'[s] = new /\ \A t \in Ids \ {s} : run'[t] = run[t]
        BY <4>1, <4>2
      <4>4. run' = [t \in Ids |-> run'[t]]
        BY <4>1, <4>2
      <4> QED
        BY <4>3, <4>4 DEF new
    <3>3. run[s] = [at |-> run[s].at, sees |-> run[s].sees,
                    blanks |-> run[s].blanks, text |-> run[s].text]
      BY DEF PipeInv, Shape
    <3>4. run'[s] = [at |-> outcome, sees |-> run[s].sees, blanks |-> run[s].blanks, text |-> text]
      BY <3>2, <3>3
    <3> QED
      BY <3>2, <3>4
  <2> QED
    BY <2>1, <2>2
<1>3. Begun' = Begun /\ Ended \subseteq Ended' /\ Succeeded \subseteq Succeeded'
      /\ Ended' \subseteq Ended \cup {s} /\ Succeeded' \subseteq Succeeded \cup {s}
      /\ s \in Begun /\ s \notin Ended
  BY <1>1, <1>2 DEF Begun, Ended, Succeeded, Outcomes
<1>4. Awaited' = Awaited /\ Noted' = Noted /\ Dropped' = Dropped /\ Listed' = Listed
  BY <1>1, <1>3, SameRequest DEF Awaited, Noted, Dropped
<1>5. ~Dropped => s \notin Noted
  BY <1>3 DEF PipeInv, Finished
<1>6. Shape'
  BY <1>1, <1>2, <1>3, <1>4, SameRequest DEF PipeInv, Shape
<1>7. Finished' /\ InOrder'
  BY <1>1, <1>3, <1>4, SameRequest DEF PipeInv, Finished, InOrder
<1>8. ~Dropped => (Noted \cap Succeeded)' = Noted \cap Succeeded /\ Failures' = Failures
  BY <1>3, <1>4, <1>5 DEF Failures
<1>9. Kept'
  BY <1>1, <1>4, <1>8, SameRequest DEF PipeInv, Kept, Under, Dropped
<1>10. Reported'
  BY <1>1, <1>4, <1>8 DEF PipeInv, Reported
<1>11. ASSUME NEW t \in Begun
       PROVE  /\ \A n \in DOMAIN run'[t].sees : Under(run'[t].sees, n)
              /\ InAuto => Needs(t) \cap Succeeded' \subseteq DOMAIN run'[t].sees
  <2>1. t \in Ids /\ run'[t].sees = run[t].sees
    BY <1>2 DEF Begun
  <2>2. InAuto => Needs(t) \cap Succeeded' \subseteq Needs(t) \cap Succeeded
    BY <1>3 DEF PipeInv, InOrder, Ended
  <2> QED
    BY <2>1, <2>2 DEF PipeInv, Seen
<1>12. Seen'
  <2>1. InAuto' = InAuto /\ \A t : Needs(t)' = Needs(t) /\ Collect(t)' = Collect(t)
    BY <1>1, SameRequest
  <2> QED
    BY <1>3, <1>4, <1>11, <2>1 DEF Seen, Under
<1> QED
  BY <1>6, <1>7, <1>9, <1>10, <1>12 DEF PipeInv

LEMMA PipeInvStep == PipeInv /\ [PipeNext]_pipeVars => PipeInv'
  BY PhaseKeeps, LaunchKeeps, AwaitKeeps, ThreadKeeps DEF PipeNext, PipeTask

LEMMA PipelineInvariant == PipeSpec => []PipeInv
  BY PipeInvInit, PipeInvStep, PTL DEF PipeSpec

(* A step of auto mode that is launched sees the result of every step it   *)
(* depends on that succeeded, under that step's name, unless another step  *)
(* collects its own result there (execute_auto).                           *)
THEOREM DependenciesAreSeen == PipeSpec => []DependenciesResolved
<1>1. PipeInv => DependenciesResolved
  <2> SUFFICES ASSUME PipeInv, NEW s \in Begun, InAuto, NEW d \in Needs(s) \cap Succeeded
               PROVE  /\ d \in DOMAIN run[s].sees
                      /\ \/ run[s].sees[d] = d
                         \/ \E e \in Range(Listed) : Collect(e) = d
    BY DEF DependenciesResolved, InAuto
  <2>1. d \in DOMAIN run[s].sees /\ Under(run[s].sees, d)
    BY DEF PipeInv, Seen
  <2> QED
    BY <2>1 DEF Under
<1> QED
  BY <1>1, PipelineInvariant, PTL

(* When a pipeline is answered no step still runs, every success is among  *)
(* the results and every failure among the errors, except in a parallel    *)
(* pipeline that stops at an error (execute_sequential, execute_parallel,  *)
(* execute_auto).                                                          *)
THEOREM AnswersTellAll == PipeSpec => []ReportTellsAll
<1>1. PipeInv => ReportTellsAll
  <2> SUFFICES ASSUME PipeInv, phase = "answered", req.mode = "parallel" => ~req.stop
               PROVE  /\ Begun = Ended
                      /\ \A s \in Succeeded : s \in DOMAIN report.results
                      /\ Len(report.errors) = Cardinality(Ended \ Succeeded)
    BY DEF ReportTellsAll
  <2>1. awaited = << >> /\ ~Dropped
    BY DEF PipeInv, Shape, Dropped
  <2>2. Noted = Begun
    BY <2>1 DEF Noted, Awaited, Range
  <2>3. Begun = Ended /\ Succeeded \subseteq Begun
    BY <2>1, <2>2 DEF PipeInv, Finished, Begun, Ended, Succeeded, Outcomes
  <2> QED
    BY <2>1, <2>2, <2>3 DEF PipeInv, Reported, Failures
<1> QED
  BY <1>1, PipelineInvariant, PTL

(* A pipeline, in whatever mode and whatever fails, implements the run of  *)
(* a dependency graph: no step begins twice, and none in auto mode before  *)
(* all it depends on have ended (topological_levels, execute_auto).        *)
THEOREM PipelinesKeepTheOrder == PipeSpec => RunsInDependencyOrder
<1> DEFINE graph == [s \in Ids |-> IF req.mode = "auto" /\ s \in Range(Listed) THEN Needs(s) ELSE {}]
<1>1. PipeInit => Promise!RunInit
  <2> SUFFICES ASSUME PipeInit PROVE Promise!RunInit
    OBVIOUS
  <2>1. Begun = {} /\ Ended = {}
    BY DEF PipeInit, Begun, Ended, Waiting, Outcomes
  <2>2. \A s \in Range(Listed) : Needs(s) \subseteq Ids
    BY StepFacts DEF PipeInit
  <2> QED
    BY <2>1, <2>2 DEF Promise!RunInit
<1>2. PipeInv /\ [PipeNext]_pipeVars => [Promise!RunNext]_(Promise!runVars)
  <2> SUFFICES ASSUME PipeInv, [PipeNext]_pipeVars
               PROVE  [Promise!RunNext]_(Promise!runVars)
    OBVIOUS
  <2>1. req' = req
    BY DEF PipeNext, PipeTask, RefuseRequest, AcceptRequest, LaunchLevel, Launch, AwaitStep,
           AnswerPipeline, FillStep, FillReference, EndTool, RunTool, pipeVars
  <2>2. graph' = graph
    BY <2>1, SameRequest
  <2>3. CASE UNCHANGED run
    <3>1. Begun' = Begun /\ Ended' = Ended
      BY <2>3 DEF Begun, Ended
    <3> QED
      BY <2>2, <3>1 DEF Promise!runVars
  <2>4. CASE LaunchLevel
    <3>1. PICK level \in NextLevels : Launch(level)
      BY <2>4 DEF LaunchLevel
    <3> DEFINE N == Range(level)
    <3>2. level \in Seq(Ids) /\ N \subseteq NextSteps
      BY <3>1, LevelFacts DEF PipeInv, Shape
    <3>3. N \subseteq Ids /\ N \subseteq Left /\ N \cap Begun = {}
      BY <3>2, RangeOfSeq DEF NextSteps, First, Unblocked, Left, PipeInv, Shape
    <3>4. \A s \in Ids : run'[s] = IF s \in N THEN Launched(s) ELSE run[s]
      BY <3>1 DEF Launch
    <3> HIDE DEF N
    <3>a. ASSUME NEW s \in N PROVE run'[s].at = "filling"
      <4>1. run'[s] = Launched(s)
        BY <3>3, <3>4
      <4> QED
        BY <4>1 DEF Launched
    <3>5. \A s \in Ids : run'[s].at = IF s \in N THEN "filling" ELSE run[s].at
      BY <3>4, <3>a
    <3>6. \A s \in N : run[s].at = "waiting"
      BY <3>3 DEF Begun
    <3>7. Begun' = Begun \cup N /\ Ended' = Ended
      BY <3>3, <3>5, <3>6 DEF Begun, Ended, Outcomes
    <3>8. ASSUME NEW s \in N PROVE graph[s] \subseteq Ended
      <4>1. CASE InAuto
        <5>1. s \in Unblocked /\ s \in Range(Listed) /\ awaited = << >> /\ Acceptable
          BY <2>4, <3>2, <3>3, <4>1 DEF N, NextSteps, InAuto, Left, LaunchLevel, PipeInv, Shape
        <5>2. Needs(s) \subseteq Begun
          BY <4>1, <5>1 DEF Unblocked, Left, Acceptable, InAuto, PipeInv, Shape
        <5>3. Begun \subseteq Ended
          BY <4>1, <5>1 DEF InAuto, Dropped, Noted, Awaited, Range, PipeInv, Finished
        <5> QED
          BY <3>3, <5>2, <5>3
      <4>2. CASE ~InAuto
        BY <3>3, <4>2 DEF InAuto
      <4> QED
        BY <4>1, <4>2
    <3>9. CASE N = {}
      BY <2>2, <3>7, <3>9 DEF Promise!runVars
    <3>10. CASE N # {}
      <4>1. Promise!BeginSteps(N)
        BY <2>2, <3>3, <3>7, <3>8, <3>10 DEF Promise!BeginSteps
      <4> QED
        BY <3>3, <4>1 DEF Promise!RunNext
    <3> QED
      BY <3>9, <3>10
  <2>5. ASSUME NEW s \in Ids, FillStep(s)
        PROVE  [Promise!RunNext]_(Promise!runVars)
    <3>1. PICK n \in Names : FillReference(s, n)
      BY <2>5 DEF FillStep
    <3>2. PICK b : run' = [run EXCEPT ![s].blanks = b]
      BY <3>1 DEF FillReference
    <3>3. \A t \in Ids : run'[t].at = run[t].at
      BY <3>2 DEF PipeInv, Shape
    <3>4. Begun' = Begun /\ Ended' = Ended
      BY <3>3 DEF Begun, Ended
    <3> QED
      BY <2>2, <3>4 DEF Promise!runVars
  <2>6. ASSUME NEW s \in Ids, EndTool(s)
        PROVE  [Promise!RunNext]_(Promise!runVars)
    <3>1. PICK outcome \in Outcomes \cup {"stuck"}, text \in Texts :
            run' = [run EXCEPT ![s] = [run[s] EXCEPT !.at = outcome, !.text = text]]
      BY <2>6 DEF EndTool, RunTool
    <3>2. run[s].at = "filling" /\ run = [t \in Ids |-> run[t]]
          /\ run[s] = [at |-> run[s].at, sees |-> run[s].sees,
                       blanks |-> run[s].blanks, text |-> run[s].text]
      BY <2>6 DEF EndTool, RunTool, PipeInv, Shape
    <3>3. run'[s] = [run[s] EXCEPT !.at = outcome, !.text = text]
          /\ \A t \in Ids \ {s} : run'[t] = run[t]
      BY <3>1, <3>2
    <3>4. run'[s] = [at |-> outcome, sees |-> run[s].sees, blanks |-> run[s].blanks, text |-> text]
      BY <3>2, <3>3
    <3>5. /\ Begun' = Begun /\ s \in Begun \ Ended
          /\ Ended' = IF outcome = "stuck" THEN Ended ELSE Ended \cup {s}
      BY <3>2, <3>3, <3>4 DEF Begun, Ended, Outcomes
    <3>6. CASE outcome # "stuck"
      <4>1. Promise!EndStep(s)
        BY <2>2, <3>5, <3>6 DEF Promise!EndStep
      <4> QED
        BY <4>1 DEF Promise!RunNext
    <3>7. CASE outcome = "stuck"
      BY <2>2, <3>5, <3>7 DEF Promise!runVars
    <3> QED
      BY <3>6, <3>7
  <2> QED
    BY <2>3, <2>4, <2>5, <2>6 DEF PipeNext, PipeTask, RefuseRequest, AcceptRequest, AwaitStep,
       AnswerPipeline, pipeVars
<1> QED
  BY <1>1, <1>2, PipelineInvariant, PTL DEF PipeSpec, RunsInDependencyOrder, Promise!RunSpec
=============================================================================

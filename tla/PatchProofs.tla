---------------------------- MODULE PatchProofs ------------------------------
(***************************************************************************)
(* Proofs about PatchTransaction, for any files, requests and number of    *)
(* tasks.  What a request may rely on (Sound) speaks of its own progress   *)
(* and of the files.  The step of a request keeps it by the shape of the   *)
(* loop it is in; the other requests are idle then, because of the lock;   *)
(* and an edit only touches what Sound leaves open from then on.           *)
(***************************************************************************)
EXTENDS PatchTransaction, TLAPS

Carried(t, d, n) ==
  \A i \in DOMAIN t.ops :
    i <= n /\ t.ops[i].path \notin t.touched => d[t.ops[i].path] = t.ops[i].to

(* Files no operation among the first n is about are as they were found.   *)
UntouchedPast(t, d, n) ==
  \A f \in Paths \ (t.touched \cup t.errors) :
    (\A i \in DOMAIN t.ops : i <= n => t.ops[i].path # f) => d[f] = t.found[f]

SavedAsFound(t) ==
  \A i \in DOMAIN t.backups :
    i \in DOMAIN t.ops /\ t.ops[i].path \notin t.touched => t.backups[i] = t.found[t.ops[i].path]

(* The first n operations expect what their files held when the lock was   *)
(* taken.                                                                  *)
Matched(t, n) ==
  \A i \in DOMAIN t.ops :
    i <= n /\ t.ops[i].path \notin t.touched =>
      t.ops[i].expected \in {Unknown, t.found[t.ops[i].path]}

(* The inductive invariant: AllOrNothing says what a request ends with,    *)
(* Sound what each of its loops has done so far.                           *)
Sound(t, d) ==
  /\ t.at \in Working => Plannable(t.ops)
  /\ t.at \in {"verifying", "saving"} => UntouchedPast(t, d, 0)
  /\ t.at = "saving" => Len(t.backups) = t.next - 1
  /\ t.at = "verifying" => t.backups = << >>
  /\ t.at = "verifying" /\ ~t.mismatch => Matched(t, t.next - 1)
  /\ t.at \in {"saving", "applying"} => Matched(t, Len(t.ops))
  /\ t.at \in {"saving", "applying", "restoring"} => SavedAsFound(t)
  /\ t.at \in {"verifying", "saving", "applying"} => t.errors = {}
  /\ t.at = "applying" => Carried(t, d, t.next - 1) /\ UntouchedPast(t, d, t.next - 1)
  /\ t.at = "applied" => Carried(t, d, Len(t.ops))
  /\ t.at = "restoring" => UntouchedPast(t, d, t.next)
  /\ t.at = "rejected" => UntouchedPast(t, d, 0)

PatchInv == PatchTypeOK /\ \A p \in Patchers : Sound(task[p], disk)

-----------------------------------------------------------------------------
(* An operation of a request being worked on, and its file, are proper.    *)
LEMMA OperationAtHand ==
  ASSUME PatchTypeOK, NEW p \in Patchers, task[p].at \in Working
  PROVE  /\ task[p] \in TaskRecords
         /\ task[p].next \in 1..Len(task[p].ops)
         /\ DOMAIN task[p].ops = 1..Len(task[p].ops)
         /\ Len(task[p].ops) \in Nat
         /\ Op(p) = task[p].ops[task[p].next]
         /\ Op(p) \in Operations /\ Op(p).path \in Paths /\ Op(p).to \in States
         /\ disk[Op(p).path] \in States
<1>1. task[p] \in TaskRecords
  BY DEF PatchTypeOK
<1>2. task[p].ops \in Seq(Operations) /\ task[p].next \in DOMAIN task[p].ops
  BY <1>1 DEF PatchTypeOK, TaskRecords
<1>3. DOMAIN task[p].ops = 1..Len(task[p].ops) /\ Len(task[p].ops) \in Nat
  BY <1>2
<1>4. Op(p) \in Operations
  BY <1>2 DEF Op
<1> QED
  BY <1>1, <1>2, <1>3, <1>4 DEF Op, Operations, PatchTypeOK, Trees

(* A step of the request that holds the lock keeps the invariant when its  *)
(* own record is right afterwards: the others are idle.                    *)
LEMMA OwnStep ==
  ASSUME PatchInv, NEW p \in Patchers, NEW t, NEW d \in Trees,
         disk' = d, task' = [task EXCEPT ![p] = t], UNCHANGED edits,
         holder \in {p, Nobody},
         holder' = IF t.at = "idle" THEN Nobody ELSE p,
         t \in TaskRecords, Sound(t, d),
         t.at \in Working => t.next \in DOMAIN t.ops,
         t.at \in {"applying", "restoring", "applied"} => Len(t.backups) = Len(t.ops)
  PROVE  PatchInv'
<1>1. task \in [Patchers -> TaskRecords] /\ Nobody \notin Patchers
  BY PatchAssumption DEF PatchInv, PatchTypeOK
<1>2. task'[p] = t /\ \A q \in Patchers \ {p} : task'[q] = task[q] /\ task[q].at = "idle"
  BY <1>1 DEF PatchInv, PatchTypeOK
<1>3. PatchTypeOK'
  BY <1>1, <1>2 DEF PatchInv, PatchTypeOK, Working
<1>4. \A q \in Patchers : Sound(task'[q], disk')
  BY <1>2 DEF Sound, Working
<1> QED
  BY <1>3, <1>4 DEF PatchInv

LEMMA PatchInvInit == PatchInit => PatchInv
<1> SUFFICES ASSUME PatchInit PROVE PatchInv
  OBVIOUS
<1>1. \A p \in Patchers : task[p] = Idle(disk) /\ Idle(disk) \in TaskRecords
  BY DEF PatchInit, Idle, Fresh, TaskRecords, Phases, Trees
<1>2. PatchTypeOK
  <2>1. disk \in Trees /\ edits \in 0..MaxEdits /\ holder \in Patchers \cup {Nobody}
    BY PatchAssumption DEF PatchInit, Trees
  <2>2. task \in [Patchers -> TaskRecords]
    BY <1>1 DEF PatchInit
  <2>3. \A p \in Patchers : task[p].at = "idle" /\ holder # p
    BY <1>1, PatchAssumption DEF PatchInit, Idle, Fresh
  <2> QED
    BY <2>1, <2>2, <2>3 DEF PatchTypeOK, Working
<1>3. \A p \in Patchers : Sound(task[p], disk)
  BY <1>1 DEF Sound, Idle, Fresh, Working
<1> QED
  BY <1>2, <1>3 DEF PatchInv

(* Whoever is not idle holds the lock.                                     *)
LEMMA BusyHolds ==
  ASSUME PatchTypeOK, NEW p \in Patchers
  PROVE  task[p].at # "idle" <=> holder = p
BY DEF PatchTypeOK

LEMMA StartKeeps ==
  ASSUME PatchInv, NEW p \in Patchers, NEW ops \in Requests,
         StartPatch(p, ops) \/ RefusePatch(p, ops)
  PROVE  PatchInv'
<1> PICK phase \in {"verifying", "rejected"} :
      /\ task' = [task EXCEPT ![p] = Fresh(phase, ops, disk)]
      /\ phase = "verifying" => Plannable(ops)
  BY DEF StartPatch, RefusePatch
<1> DEFINE t == Fresh(phase, ops, disk)
<1>1. disk \in Trees /\ ops \in Seq(Operations)
  BY PatchAssumption DEF PatchInv, PatchTypeOK
<1>2. t = [at |-> phase, ops |-> ops, next |-> 1, mismatch |-> FALSE, backups |-> << >>,
           errors |-> {}, found |-> disk, touched |-> {}]
  BY DEF Fresh
<1>3. t \in TaskRecords
  BY <1>1, <1>2 DEF TaskRecords, Phases, Working
<1>4. Sound(t, disk)
  BY <1>1, <1>2 DEF Sound, UntouchedPast, Matched, Working
<1>5. t.at \in Working => t.next \in DOMAIN t.ops
  BY <1>1, <1>2 DEF Plannable, Working
<1>6. /\ disk' = disk /\ UNCHANGED edits /\ holder = Nobody /\ holder' = p
      /\ task' = [task EXCEPT ![p] = t]
  BY DEF StartPatch, RefusePatch, TakeLock
<1> HIDE DEF t
<1> QED
  BY <1>1, <1>2, <1>3, <1>4, <1>5, <1>6, OwnStep

LEMMA AnswerKeeps ==
  ASSUME PatchInv, NEW p \in Patchers, Answer(p)
  PROVE  PatchInv'
<1> DEFINE t == Idle(task[p].found)
<1>1. task[p] \in TaskRecords /\ disk \in Trees /\ holder = p
  BY BusyHolds DEF PatchInv, PatchTypeOK, Answer, At
<1>2. t.at = "idle" /\ t \in TaskRecords /\ Sound(t, disk)
  BY <1>1 DEF Idle, Fresh, TaskRecords, Phases, Sound, Working
<1>3. disk' = disk /\ UNCHANGED edits /\ holder' = Nobody /\ task' = [task EXCEPT ![p] = t]
  BY DEF Answer
<1> HIDE DEF t
<1> QED
  BY <1>1, <1>2, <1>3, OwnStep DEF Working

-----------------------------------------------------------------------------
(* What Advance does to a record with an operation at hand.                *)
LEMMA AdvanceIs ==
  ASSUME NEW t \in TaskRecords, NEW phase \in Phases, t.next \in 1..Len(t.ops)
  PROVE  LET u == Advance(t, phase) IN
         /\ u \in TaskRecords
         /\ u.ops = t.ops /\ u.backups = t.backups /\ u.errors = t.errors
         /\ u.found = t.found /\ u.touched = t.touched /\ u.mismatch = t.mismatch
         /\ \/ t.next = Len(t.ops) /\ u.at = phase /\ u.next = 1
            \/ t.next < Len(t.ops) /\ u.at = t.at /\ u.next = t.next + 1
<1>1. Len(t.ops) \in Nat
  BY DEF TaskRecords
<1>2. CASE t.next = Len(t.ops)
  BY <1>2 DEF Advance, TaskRecords
<1>3. CASE t.next # Len(t.ops)
  BY <1>1, <1>3 DEF Advance, TaskRecords
<1> QED
  BY <1>2, <1>3

LEMMA VerifyKeeps ==
  ASSUME PatchInv, NEW p \in Patchers, VerifyFile(p)
  PROVE  PatchInv'
<1>1. PICK wrong \in BOOLEAN :
        /\ task' = [task EXCEPT ![p] = Verdict(Judge(task[p], wrong))]
        /\ ~wrong => Op(p).expected \in {Unknown, disk[Op(p).path]}
  BY DEF VerifyFile, Refuted
<1> DEFINE s == task[p]
           r == Judge(s, wrong)
           phase == IF r.mismatch THEN "rejected" ELSE "saving"
           t == Advance(r, phase)
<1>2. /\ s \in TaskRecords /\ s.next \in 1..Len(s.ops) /\ s.at = "verifying"
      /\ Op(p) = s.ops[s.next] /\ Op(p).path \in Paths
      /\ DOMAIN s.ops = 1..Len(s.ops) /\ Sound(s, disk) /\ disk \in Trees /\ holder = p
  BY OperationAtHand, BusyHolds DEF PatchInv, PatchTypeOK, VerifyFile, At, Working
<1>3. /\ r \in TaskRecords /\ phase \in Phases
      /\ r.at = s.at /\ r.ops = s.ops /\ r.next = s.next /\ r.backups = s.backups
      /\ r.errors = s.errors /\ r.found = s.found /\ r.touched = s.touched
      /\ r.mismatch = (s.mismatch \/ wrong)
  BY <1>2 DEF Judge, TaskRecords, Phases, Working
<1>4. phase \in {"rejected", "saving"} /\ (phase = "saving" => ~r.mismatch)
  OBVIOUS
<1>5. /\ disk' = disk /\ UNCHANGED edits /\ holder' = p
      /\ task' = [task EXCEPT ![p] = t]
  BY <1>1, <1>2 DEF VerifyFile, Verdict
<1> HIDE DEF r, phase
<1>6. /\ t \in TaskRecords /\ t.ops = s.ops /\ t.backups = s.backups /\ t.errors = s.errors
      /\ t.found = s.found /\ t.touched = s.touched
      /\ t.mismatch = r.mismatch /\ (t.at = "saving" => ~t.mismatch)
      /\ \/ t.at \in {"rejected", "saving"} /\ t.next = 1 /\ s.next = Len(s.ops)
         \/ t.at = "verifying" /\ t.next = s.next + 1 /\ s.next < Len(s.ops)
  BY <1>2, <1>3, <1>4, AdvanceIs
<1> HIDE DEF t, s
<1>7. t.at \in Working => t.next \in DOMAIN t.ops
  BY <1>2, <1>6 DEF TaskRecords, Working
<1>a. ~t.mismatch => Matched(t, s.next)
  <2> SUFFICES ASSUME ~t.mismatch, NEW i \in DOMAIN s.ops, i <= s.next, s.ops[i].path \notin s.touched
               PROVE  s.ops[i].expected \in {Unknown, s.found[s.ops[i].path]}
    BY <1>6 DEF Matched
  <2>1. ~s.mismatch /\ ~wrong
    BY <1>3, <1>6
  <2>2. Matched(s, s.next - 1) /\ UntouchedPast(s, disk, 0) /\ s.errors = {}
    BY <1>2, <2>1 DEF Sound
  <2>3. CASE i = s.next
    BY <1>1, <1>2, <2>1, <2>2, <2>3 DEF UntouchedPast
  <2>4. CASE i # s.next
    <3>1. i <= s.next - 1
      BY <1>2, <2>4 DEF TaskRecords
    <3> QED
      BY <2>2, <3>1 DEF Matched
  <2> QED
    BY <2>3, <2>4
<1>8. Sound(t, disk)
  <2>1. s.next \in Nat /\ s.next + 1 - 1 = s.next
    BY <1>2 DEF TaskRecords
  <2> QED
    BY <1>2, <1>6, <1>a, <2>1 DEF Sound, Working, UntouchedPast, SavedAsFound
<1>9. /\ t.at # "idle" /\ t.at \notin {"applying", "restoring", "applied"}
  BY <1>6
<1> QED
  BY <1>2, <1>5, <1>6, <1>7, <1>8, <1>9, OwnStep

LEMMA SaveFileKeeps ==
  ASSUME PatchInv, NEW p \in Patchers, SaveFile(p)
  PROVE  PatchInv'
<1> DEFINE s == task[p]
           r == Save(s, disk[Op(p).path])
           t == Advance(r, "applying")
<1>1. /\ s \in TaskRecords /\ s.next \in 1..Len(s.ops) /\ s.at = "saving"
      /\ DOMAIN s.ops = 1..Len(s.ops) /\ Sound(s, disk) /\ disk \in Trees /\ holder = p
      /\ Op(p) = s.ops[s.next] /\ Op(p).path \in Paths /\ disk[Op(p).path] \in States
  BY OperationAtHand, BusyHolds DEF PatchInv, PatchTypeOK, SaveFile, At, Working
<1> DEFINE longer == Append(s.backups, disk[Op(p).path])
<1>a. s.backups \in Seq(States) /\ longer \in Seq(States)
  BY <1>1 DEF TaskRecords
<1> HIDE DEF longer
<1>b. r = [s EXCEPT !.backups = longer]
  BY DEF Save, longer
<1>2. /\ r \in TaskRecords /\ "applying" \in Phases
      /\ r.at = s.at /\ r.ops = s.ops /\ r.next = s.next
      /\ r.backups = longer
      /\ r.errors = s.errors /\ r.found = s.found /\ r.touched = s.touched
  BY <1>1, <1>a, <1>b DEF TaskRecords, Phases, Working
<1>3. /\ disk' = disk /\ UNCHANGED edits /\ holder' = p
      /\ task' = [task EXCEPT ![p] = t]
  BY <1>1 DEF SaveFile
<1> HIDE DEF r
<1>4. /\ t \in TaskRecords /\ t.ops = s.ops /\ t.errors = s.errors
      /\ t.backups = Append(s.backups, disk[Op(p).path])
      /\ t.found = s.found /\ t.touched = s.touched
      /\ \/ t.at = "applying" /\ t.next = 1 /\ s.next = Len(s.ops)
         \/ t.at = "saving" /\ t.next = s.next + 1 /\ s.next < Len(s.ops)
  BY <1>1, <1>2, AdvanceIs DEF longer
<1> HIDE DEF t, s
<1>5. /\ Len(s.backups) = s.next - 1 /\ s.backups \in Seq(States) /\ s.errors = {}
      /\ SavedAsFound(s) /\ UntouchedPast(s, disk, 0) /\ Plannable(s.ops)
      /\ Matched(s, Len(s.ops))
  BY <1>1 DEF Sound, TaskRecords, Working
<1>6. /\ Len(t.backups) = s.next /\ DOMAIN t.backups = 1..s.next
      /\ t.backups[s.next] = disk[s.ops[s.next].path]
      /\ \A i \in 1..(s.next - 1) : t.backups[i] = s.backups[i] /\ i \in DOMAIN s.backups
  BY <1>1, <1>4, <1>5
<1>7. disk[s.ops[s.next].path] = s.found[s.ops[s.next].path] \/ s.ops[s.next].path \in s.touched
  BY <1>1, <1>5 DEF UntouchedPast
<1>8. SavedAsFound(t)
  BY <1>1, <1>4, <1>5, <1>6, <1>7 DEF SavedAsFound
<1>9. t.at \in Working => t.next \in DOMAIN t.ops
  BY <1>1, <1>4
<1>10. Sound(t, disk)
  <2>1. UntouchedPast(t, disk, 0) /\ Matched(t, Len(t.ops)) /\ Plannable(t.ops) /\ t.errors = {}
    BY <1>4, <1>5 DEF UntouchedPast, Matched
  <2>2. CASE t.at = "applying"
    <3>1. Carried(t, disk, t.next - 1) /\ UntouchedPast(t, disk, t.next - 1)
      BY <1>1, <1>4, <2>1, <2>2 DEF Carried, UntouchedPast
    <3> QED
      BY <1>8, <2>1, <2>2, <3>1 DEF Sound
  <2>3. CASE t.at = "saving"
    <3>1. Len(t.backups) = t.next - 1
      BY <1>1, <1>4, <1>6, <2>3
    <3> QED
      BY <1>8, <2>1, <2>3, <3>1 DEF Sound
  <2> QED
    BY <1>4, <2>2, <2>3
<1>11. /\ t.at # "idle"
       /\ t.at \in {"applying", "restoring", "applied"} => Len(t.backups) = Len(t.ops)
  BY <1>4, <1>6
<1> QED
  BY <1>1, <1>3, <1>4, <1>9, <1>10, <1>11, OwnStep

LEMMA SaveFailsKeeps ==
  ASSUME PatchInv, NEW p \in Patchers, SaveFails(p)
  PROVE  PatchInv'
<1> DEFINE s == task[p]
           t == [s EXCEPT !.at = "rejected"]
<1>1. s \in TaskRecords /\ s.at = "saving" /\ Sound(s, disk) /\ disk \in Trees /\ holder = p
  BY BusyHolds DEF PatchInv, PatchTypeOK, SaveFails, At
<1>2. /\ t \in TaskRecords /\ t.at = "rejected" /\ t.found = s.found /\ t.ops = s.ops
      /\ t.touched = s.touched /\ t.errors = s.errors
  BY <1>1 DEF TaskRecords, Phases, Working
<1>3. /\ disk' = disk /\ UNCHANGED edits /\ holder' = p /\ task' = [task EXCEPT ![p] = t]
  BY <1>1 DEF SaveFails
<1> HIDE DEF t, s
<1>4. Sound(t, disk)
  BY <1>1, <1>2 DEF Sound, UntouchedPast, Working
<1> QED
  BY <1>1, <1>2, <1>3, <1>4, OwnStep DEF Working

(* An operation that runs moves its file from the ones left alone to the  *)
(* ones carried out; no other operation of the request is about that file. *)
LEMMA ApplyKeeps ==
  ASSUME PatchInv, NEW p \in Patchers, ApplyOperation(p)
  PROVE  PatchInv'
<1> DEFINE s == task[p]
           t == Advance(s, "applied")
           d == [disk EXCEPT ![Op(p).path] = Op(p).to]
<1>1. /\ s \in TaskRecords /\ s.next \in 1..Len(s.ops) /\ s.at = "applying"
      /\ DOMAIN s.ops = 1..Len(s.ops) /\ Sound(s, disk) /\ disk \in Trees /\ holder = p
      /\ Op(p) = s.ops[s.next] /\ Op(p).path \in Paths /\ Op(p).to \in States
  BY OperationAtHand, BusyHolds DEF PatchInv, PatchTypeOK, ApplyOperation, At, Working
<1>2. d \in Trees /\ disk' = d /\ UNCHANGED edits /\ holder' = p /\ task' = [task EXCEPT ![p] = t]
  BY <1>1 DEF ApplyOperation, Trees
<1>3. d[Op(p).path] = Op(p).to /\ \A f \in Paths : f # Op(p).path => d[f] = disk[f]
  BY <1>1 DEF Trees
<1>4. /\ t \in TaskRecords /\ t.ops = s.ops /\ t.backups = s.backups /\ t.errors = s.errors
      /\ t.found = s.found /\ t.touched = s.touched
      /\ \/ t.at = "applied" /\ t.next = 1 /\ s.next = Len(s.ops)
         \/ t.at = "applying" /\ t.next = s.next + 1 /\ s.next < Len(s.ops)
  BY <1>1, AdvanceIs DEF Phases
<1>5. /\ \A i \in DOMAIN s.ops : s.ops[i].path \in Paths
      /\ \A i, j \in DOMAIN s.ops : s.ops[i].path = s.ops[j].path => i = j
  <2>1. s.ops \in Seq(Operations) /\ Plannable(s.ops)
    BY <1>1 DEF Sound, TaskRecords, Working
  <2>2. IsInjective([i \in DOMAIN s.ops |-> s.ops[i].path])
    BY <2>1 DEF Plannable
  <2>3. \A i \in DOMAIN s.ops : s.ops[i] \in Operations
    BY <2>1
  <2> QED
    BY <2>2, <2>3 DEF IsInjective, Operations
<1>6. Len(s.backups) = Len(s.ops) /\ s.next \in Nat /\ Len(s.ops) \in Nat
  BY <1>1 DEF PatchInv, PatchTypeOK, TaskRecords
<1> HIDE DEF t, s, d
<1>7. Carried(s, disk, s.next - 1) /\ UntouchedPast(s, disk, s.next - 1) /\ SavedAsFound(s)
      /\ s.errors = {} /\ Matched(s, Len(s.ops))
  BY <1>1 DEF Sound
<1>8. Carried(s, d, s.next)
  <2> SUFFICES ASSUME NEW i \in DOMAIN s.ops, i <= s.next, s.ops[i].path \notin s.touched
               PROVE  d[s.ops[i].path] = s.ops[i].to
    BY DEF Carried
  <2>1. CASE i = s.next
    BY <1>1, <1>3, <2>1
  <2>2. CASE i # s.next
    <3>1. i <= s.next - 1 /\ s.ops[i].path # Op(p).path
      BY <1>1, <1>5, <1>6, <2>2
    <3> QED
      BY <1>3, <1>5, <1>7, <3>1 DEF Carried
  <2> QED
    BY <2>1, <2>2
<1>9. UntouchedPast(s, d, s.next)
  <2> SUFFICES ASSUME NEW f \in Paths \ (s.touched \cup s.errors),
                      \A i \in DOMAIN s.ops : i <= s.next => s.ops[i].path # f
               PROVE  d[f] = s.found[f]
    BY DEF UntouchedPast
  <2>1. \A i \in DOMAIN s.ops : i <= s.next - 1 => s.ops[i].path # f
    BY <1>1, <1>6
  <2>2. f # Op(p).path
    BY <1>1, <1>6
  <2> QED
    BY <1>3, <1>7, <2>1, <2>2 DEF UntouchedPast
<1>10. Sound(t, d)
  <2>1. CASE t.at = "applied"
    BY <1>4, <1>8, <2>1 DEF Sound, Carried, Working
  <2>2. CASE t.at = "applying"
    <3>1. t.next - 1 = s.next /\ Plannable(t.ops)
      BY <1>1, <1>4, <1>6, <2>2 DEF Sound, Working
    <3>2. Carried(t, d, t.next - 1) /\ UntouchedPast(t, d, t.next - 1) /\ SavedAsFound(t)
          /\ Matched(t, Len(t.ops))
      BY <1>4, <1>7, <1>8, <1>9, <3>1 DEF Carried, UntouchedPast, SavedAsFound, Matched
    <3> QED
      BY <1>4, <1>7, <2>2, <3>1, <3>2 DEF Sound
  <2> QED
    BY <1>4, <2>1, <2>2
<1>11. /\ t.at # "idle"
       /\ t.at \in Working => t.next \in DOMAIN t.ops
       /\ Len(t.backups) = Len(t.ops)
  BY <1>1, <1>4, <1>6 DEF Working
<1> QED
  BY <1>1, <1>2, <1>4, <1>10, <1>11, OwnStep

LEMMA ApplyFailsKeeps ==
  ASSUME PatchInv, NEW p \in Patchers, ApplyFails(p)
  PROVE  PatchInv'
<1> DEFINE s == task[p]
           t == [s EXCEPT !.at = "restoring", !.next = Len(s.backups)]
<1>1. /\ s \in TaskRecords /\ s.next \in 1..Len(s.ops) /\ s.at = "applying"
      /\ DOMAIN s.ops = 1..Len(s.ops) /\ Sound(s, disk) /\ disk \in Trees /\ holder = p
  BY OperationAtHand, BusyHolds DEF PatchInv, PatchTypeOK, ApplyFails, At, Working
<1>2. Len(s.backups) = Len(s.ops) /\ Len(s.ops) \in Nat /\ s.next \in Nat
  BY <1>1 DEF PatchInv, PatchTypeOK, TaskRecords
<1>3. /\ t \in TaskRecords /\ t.at = "restoring" /\ t.next = Len(s.ops)
      /\ t.ops = s.ops /\ t.backups = s.backups /\ t.errors = s.errors
      /\ t.found = s.found /\ t.touched = s.touched
  BY <1>1, <1>2 DEF TaskRecords, Phases, Working
<1>4. /\ disk' = disk /\ UNCHANGED edits /\ holder' = p /\ task' = [task EXCEPT ![p] = t]
  BY <1>1 DEF ApplyFails
<1> HIDE DEF t, s
<1>5. UntouchedPast(s, disk, s.next - 1) /\ SavedAsFound(s) /\ Plannable(s.ops)
  BY <1>1 DEF Sound, Working
<1>6. \A i \in DOMAIN s.ops : i <= s.next - 1 => i <= t.next
  BY <1>1, <1>2, <1>3
<1>7. UntouchedPast(t, disk, t.next)
  BY <1>3, <1>5, <1>6 DEF UntouchedPast
<1>8. SavedAsFound(t)
  BY <1>3, <1>5 DEF SavedAsFound
<1>9. Sound(t, disk)
  BY <1>3, <1>5, <1>7, <1>8 DEF Sound
<1>10. t.next \in DOMAIN t.ops /\ Len(t.backups) = Len(t.ops)
  BY <1>1, <1>2, <1>3
<1> QED
  BY <1>1, <1>3, <1>4, <1>9, <1>10, OwnStep

(* What a restored file, or one the answer names, leaves to do.            *)
LEMMA RestoredIs ==
  ASSUME NEW t \in TaskRecords, t.next \in 1..Len(t.ops)
  PROVE  LET u == Restored(t) IN
         /\ u \in TaskRecords
         /\ u.ops = t.ops /\ u.backups = t.backups /\ u.errors = t.errors
         /\ u.found = t.found /\ u.touched = t.touched
         /\ \/ t.next = 1 /\ u.at = "rejected"
            \/ t.next > 1 /\ u.at = t.at /\ u.next = t.next - 1
<1>1. Len(t.ops) \in Nat
  BY DEF TaskRecords
<1>2. CASE t.next = 1
  BY <1>2 DEF Restored, TaskRecords, Phases, Working
<1>3. CASE t.next # 1
  BY <1>1, <1>3 DEF Restored, TaskRecords
<1> QED
  BY <1>2, <1>3

(* A step of the rollback is right when its file holds what was found, or  *)
(* is excused, and the other files are as before.                          *)
LEMMA RestoreStep ==
  ASSUME PatchInv, NEW p \in Patchers, At(p, "restoring"),
         NEW r \in TaskRecords, NEW d \in Trees,
         /\ r.ops = task[p].ops /\ r.next = task[p].next /\ r.at = task[p].at
         /\ r.backups = task[p].backups /\ r.found = task[p].found
         /\ r.touched = task[p].touched /\ task[p].errors \subseteq r.errors,
         \A f \in Paths : f # Op(p).path => d[f] = disk[f],
         \/ Op(p).path \in r.touched \cup r.errors
         \/ d[Op(p).path] = r.found[Op(p).path],
         disk' = d, task' = [task EXCEPT ![p] = Restored(r)], UNCHANGED <<edits, holder>>
  PROVE  PatchInv'
<1> DEFINE s == task[p]
           t == Restored(r)
<1>1. /\ s \in TaskRecords /\ s.next \in 1..Len(s.ops) /\ s.at = "restoring"
      /\ DOMAIN s.ops = 1..Len(s.ops) /\ Sound(s, disk) /\ holder = p
      /\ Op(p) = s.ops[s.next] /\ Len(s.backups) = Len(s.ops)
      /\ s.next \in Nat /\ Len(s.ops) \in Nat
  BY OperationAtHand, BusyHolds DEF PatchInv, PatchTypeOK, At, Working
<1>2. /\ t \in TaskRecords /\ t.ops = s.ops /\ t.backups = s.backups /\ t.errors = r.errors
      /\ t.found = s.found /\ t.touched = s.touched
      /\ \/ s.next = 1 /\ t.at = "rejected"
         \/ s.next > 1 /\ t.at = "restoring" /\ t.next = s.next - 1
  BY <1>1, RestoredIs
<1> HIDE DEF t, s
<1>3. UntouchedPast(s, disk, s.next) /\ SavedAsFound(s) /\ Plannable(s.ops)
  BY <1>1 DEF Sound, Working
<1>4. UntouchedPast(t, d, s.next - 1)
  <2> SUFFICES ASSUME NEW f \in Paths \ (t.touched \cup t.errors),
                      \A i \in DOMAIN t.ops : i <= s.next - 1 => t.ops[i].path # f
               PROVE  d[f] = t.found[f]
    BY DEF UntouchedPast
  <2>1. CASE f = Op(p).path
    BY <1>2, <2>1 DEF s
  <2>2. CASE f # Op(p).path
    <3>1. \A i \in DOMAIN s.ops : i <= s.next => s.ops[i].path # f
      BY <1>1, <1>2, <2>2
    <3>2. f \in Paths \ (s.touched \cup s.errors)
      BY <1>2 DEF s
    <3> QED
      BY <1>2, <1>3, <2>2, <3>1, <3>2 DEF UntouchedPast
  <2> QED
    BY <2>1, <2>2
<1>5. Sound(t, d)
  <2>1. CASE t.at = "rejected"
    BY <1>1, <1>2, <1>4, <2>1 DEF Sound, UntouchedPast, Working
  <2>2. CASE t.at = "restoring"
    BY <1>2, <1>3, <1>4, <2>2 DEF Sound, SavedAsFound
  <2> QED
    BY <1>2, <2>1, <2>2
<1>6. /\ t.at # "idle"
      /\ t.at \in Working => t.next \in DOMAIN t.ops
      /\ Len(t.backups) = Len(t.ops)
  BY <1>1, <1>2 DEF Working
<1>7. holder' = p /\ task' = [task EXCEPT ![p] = t] /\ UNCHANGED edits
  BY <1>1 DEF t
<1> QED
  BY <1>1, <1>2, <1>5, <1>6, <1>7, OwnStep

LEMMA RestoreFileKeeps ==
  ASSUME PatchInv, NEW p \in Patchers, RestoreFile(p)
  PROVE  PatchInv'
<1> DEFINE s == task[p]
           d == [disk EXCEPT ![Op(p).path] = s.backups[s.next]]
<1>1. /\ s \in TaskRecords /\ s.next \in 1..Len(s.ops) /\ s.at = "restoring"
      /\ DOMAIN s.ops = 1..Len(s.ops) /\ Sound(s, disk) /\ disk \in Trees
      /\ Op(p) = s.ops[s.next] /\ Op(p).path \in Paths /\ Len(s.backups) = Len(s.ops)
  BY OperationAtHand DEF PatchInv, PatchTypeOK, RestoreFile, At, Working
<1>2. s.backups \in Seq(States) /\ DOMAIN s.backups = 1..Len(s.ops) /\ s.backups[s.next] \in States
  BY <1>1 DEF TaskRecords
<1>3. d \in Trees /\ d[Op(p).path] = s.backups[s.next]
      /\ \A f \in Paths : f # Op(p).path => d[f] = disk[f]
  BY <1>1, <1>2 DEF Trees
<1>4. SavedAsFound(s)
  BY <1>1 DEF Sound
<1>5. Op(p).path \in s.touched \/ d[Op(p).path] = s.found[Op(p).path]
  BY <1>1, <1>2, <1>3, <1>4 DEF SavedAsFound
<1>6. At(p, "restoring") /\ disk' = d /\ task' = [task EXCEPT ![p] = Restored(s)]
      /\ UNCHANGED <<edits, holder>>
  BY DEF RestoreFile
<1> HIDE DEF d
<1> QED
  BY <1>1, <1>3, <1>5, <1>6, RestoreStep

LEMMA RestoreFailsKeeps ==
  ASSUME PatchInv, NEW p \in Patchers, RestoreFails(p)
  PROVE  PatchInv'
<1> DEFINE s == task[p]
           r == Blame(s, Op(p).path)
<1>1. s \in TaskRecords /\ s.at = "restoring" /\ disk \in Trees /\ Op(p).path \in Paths
  BY OperationAtHand DEF PatchInv, PatchTypeOK, RestoreFails, At, Working
<1>2. /\ r \in TaskRecords /\ r.ops = s.ops /\ r.next = s.next /\ r.at = s.at
      /\ r.backups = s.backups /\ r.found = s.found
      /\ r.touched = s.touched /\ r.errors = s.errors \cup {Op(p).path}
  BY <1>1 DEF Blame, TaskRecords
<1>3. At(p, "restoring") /\ disk' = disk /\ task' = [task EXCEPT ![p] = Restored(r)]
      /\ UNCHANGED <<edits, holder>>
  BY DEF RestoreFails
<1> HIDE DEF r
<1> QED
  BY <1>1, <1>2, <1>3, RestoreStep

-----------------------------------------------------------------------------
(* Somebody else's edit of f is no business of a request any more: f is    *)
(* touched from then on.                                                   *)
LEMMA EditKeeps ==
  ASSUME PatchInv, NEW f \in Paths, NEW c \in States, EditFile(f, c)
  PROVE  PatchInv'
<1>1. disk \in Trees /\ edits \in 0..MaxEdits /\ MaxEdits \in Nat /\ task \in [Patchers -> TaskRecords]
  BY PatchAssumption DEF PatchInv, PatchTypeOK
<1>2. disk' \in Trees /\ \A g \in Paths : g # f => disk'[g] = disk[g]
  BY <1>1 DEF EditFile, Trees
<1>3. edits' \in 0..MaxEdits /\ UNCHANGED holder
  BY <1>1 DEF EditFile
<1>4. ASSUME NEW p \in Patchers
      PROVE  /\ task'[p] \in TaskRecords
             /\ task'[p].at = task[p].at /\ task'[p].ops = task[p].ops
             /\ task'[p].next = task[p].next /\ task'[p].backups = task[p].backups
             /\ task'[p].errors = task[p].errors /\ task'[p].found = task[p].found
             /\ task'[p].mismatch = task[p].mismatch
             /\ task[p].at # "idle" => task'[p].touched = task[p].touched \cup {f}
  <2>1. CASE At(p, "idle")
    BY <1>1, <2>1 DEF EditFile, At
  <2>2. CASE ~ At(p, "idle")
    <3>1. task'[p] = [task[p] EXCEPT !.touched = task[p].touched \cup {f}]
      BY <2>2 DEF EditFile
    <3> QED
      BY <1>1, <2>2, <3>1 DEF TaskRecords, At
  <2> QED
    BY <2>1, <2>2
<1>5. PatchTypeOK'
  <2>1. task' \in [Patchers -> TaskRecords]
    BY <1>4 DEF EditFile
  <2> QED
    BY <1>2, <1>3, <1>4, <2>1 DEF PatchInv, PatchTypeOK
<1>6. ASSUME NEW p \in Patchers
      PROVE  Sound(task'[p], disk')
  <2>1. Sound(task[p], disk) /\ task[p] \in TaskRecords
    BY <1>1 DEF PatchInv
  <2>2. CASE task[p].at = "idle"
    BY <1>4, <2>2 DEF Sound, Working
  <2>3. CASE task[p].at # "idle"
    <3> DEFINE s == task[p]
               t == task'[p]
    <3>1. /\ t.at = s.at /\ t.ops = s.ops /\ t.next = s.next /\ t.backups = s.backups
          /\ t.errors = s.errors /\ t.found = s.found /\ t.touched = s.touched \cup {f}
          /\ t.mismatch = s.mismatch
      BY <1>4, <2>3
    <3> HIDE DEF s, t
    <3>2. \A n : UntouchedPast(s, disk, n) => UntouchedPast(t, disk', n)
      BY <1>2, <3>1 DEF UntouchedPast
    <3>3. \A i \in DOMAIN s.ops : s.ops[i].path \in Paths
      <4>1. s.ops \in Seq(Operations)
        BY <2>1 DEF s, TaskRecords
      <4>2. \A i \in DOMAIN s.ops : s.ops[i] \in Operations
        BY <4>1
      <4> QED
        BY <4>2 DEF Operations
    <3>4. \A n : Carried(s, disk, n) => Carried(t, disk', n)
      BY <1>2, <3>1, <3>3 DEF Carried
    <3>5. (SavedAsFound(s) => SavedAsFound(t)) /\ \A n : Matched(s, n) => Matched(t, n)
      BY <3>1 DEF SavedAsFound, Matched
    <3>6. Sound(s, disk)
      BY <2>1 DEF s
    <3>7. Sound(t, disk')
      BY <3>1, <3>2, <3>4, <3>5, <3>6 DEF Sound
    <3> QED
      BY <3>7 DEF t
  <2> QED
    BY <2>2, <2>3
<1> QED
  BY <1>5, <1>6 DEF PatchInv

LEMMA PatchInvStep == PatchInv /\ [PatchNext]_patchVars => PatchInv'
<1> SUFFICES ASSUME PatchInv, [PatchNext]_patchVars PROVE PatchInv'
  OBVIOUS
<1>1. ASSUME NEW p \in Patchers, HandlePatch(p)
      PROVE  PatchInv'
  BY <1>1, StartKeeps, VerifyKeeps, SaveFileKeeps, SaveFailsKeeps, ApplyKeeps, ApplyFailsKeeps,
     RestoreFileKeeps, RestoreFailsKeeps, AnswerKeeps DEF HandlePatch
<1>2. CASE UNCHANGED patchVars
  BY <1>2 DEF patchVars, PatchInv, PatchTypeOK, Sound, Carried, UntouchedPast, SavedAsFound, Matched
<1> QED
  BY <1>1, <1>2, EditKeeps DEF PatchNext

(* Type correctness, with the exclusion of one patch by another: for any   *)
(* number of requests, files and edits (handle_patch, patch_lock).         *)
THEOREM PatchTypes == PatchSpec => []PatchTypeOK
<1>1. PatchInv => PatchTypeOK
  BY DEF PatchInv
<1> QED
  BY PatchInvInit, PatchInvStep, <1>1, PTL DEF PatchSpec

(* A patch of any length, failing at any operation and restoring any part  *)
(* of its files, happens as a whole or not at all, but for files others    *)
(* changed and files the answer names                                      *)
(* (apply_planned_patches_atomically, rollback_patch_backups).             *)
THEOREM PatchesAreAtomic == PatchSpec => []AllOrNothing
<1>1. PatchInv => AllOrNothing
  <2> SUFFICES ASSUME PatchInv, NEW p \in Patchers
               PROVE  LET t == task[p] IN
                      /\ At(p, "applied") =>
                           \A i \in DOMAIN t.ops :
                             t.ops[i].path \notin t.touched => disk[t.ops[i].path] = t.ops[i].to
                      /\ At(p, "rejected") =>
                           \A f \in Paths \ (t.touched \cup t.errors) : disk[f] = t.found[f]
    BY DEF AllOrNothing
  <2>1. Sound(task[p], disk) /\ task[p].ops \in Seq(Operations)
    BY DEF PatchInv, PatchTypeOK, TaskRecords
  <2>2. \A i \in DOMAIN task[p].ops : i >= 1 /\ i <= Len(task[p].ops)
    BY <2>1
  <2> QED
    BY <2>1, <2>2 DEF Sound, Carried, UntouchedPast, At
<1> QED
  BY PatchInvInit, PatchInvStep, <1>1, PTL DEF PatchSpec

(* An operation that names a hash overwrites what was hashed, for any      *)
(* number of patches racing for the files, but for edits by others         *)
(* (verify_patch_expectations under patch_lock).                           *)
THEOREM PatchesOverwriteWhatTheyExpect == PatchSpec => ExpectedIsOverwritten
<1>1. ASSUME PatchInv, NEW p \in Patchers, ApplyOperation(p)
      PROVE  Op(p).expected \in {Unknown, disk[Op(p).path]} \/ Op(p).path \in task[p].touched
  <2> DEFINE s == task[p]
  <2>1. /\ s.at = "applying" /\ s.next \in 1..Len(s.ops) /\ DOMAIN s.ops = 1..Len(s.ops)
        /\ Op(p) = s.ops[s.next] /\ Op(p).path \in Paths /\ s.next \in Nat /\ Len(s.ops) \in Nat
    BY <1>1, OperationAtHand DEF PatchInv, ApplyOperation, At, Working
  <2>2. Sound(s, disk)
    BY <1>1 DEF PatchInv
  <2> HIDE DEF s
  <2>3. /\ Plannable(s.ops) /\ UntouchedPast(s, disk, s.next - 1) /\ s.errors = {}
        /\ Matched(s, Len(s.ops))
    BY <2>1, <2>2 DEF Sound, Working
  <2>4. IsInjective([i \in DOMAIN s.ops |-> s.ops[i].path])
    BY <2>3 DEF Plannable
  <2>5. \A i \in DOMAIN s.ops : i <= s.next - 1 => s.ops[i].path # Op(p).path
    <3>1. \A i, j \in DOMAIN s.ops : s.ops[i].path = s.ops[j].path => i = j
      BY <2>4 DEF IsInjective
    <3> QED
      BY <2>1, <3>1
  <2>6. Op(p).path \notin s.touched => disk[Op(p).path] = s.found[Op(p).path]
    BY <2>1, <2>3, <2>5 DEF UntouchedPast
  <2>7. Op(p).path \notin s.touched => Op(p).expected \in {Unknown, s.found[Op(p).path]}
    BY <2>1, <2>3 DEF Matched
  <2> QED
    BY <2>6, <2>7 DEF s
<1>2. PatchInv /\ [PatchNext]_patchVars =>
        [\A p \in Patchers : ApplyOperation(p) =>
           \/ Op(p).expected \in {Unknown, disk[Op(p).path]}
           \/ Op(p).path \in task[p].touched]_patchVars
  BY <1>1
<1> QED
  BY PatchInvInit, PatchInvStep, <1>2, PTL DEF PatchSpec, ExpectedIsOverwritten
=============================================================================

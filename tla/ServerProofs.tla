----------------------------- MODULE ServerProofs -----------------------------
(***************************************************************************)
(* Proofs about the server's state: the readiness contract and the two     *)
(* channels that carry it, the event stream, for any number of handlers,   *)
(* any capacity of the channel and any bounds, and the plugin's command    *)
(* channel, for any commands and any limit of the queue; and the snapshot  *)
(* store, for any number of tasks, snapshots and any length of the history.*)
(*                                                                         *)
(* The argument about the contract is made on readiness values first: each *)
(* private method keeps a value consistent (Consistent) and moves its      *)
(* versions forward only (Follows).  A merge is a chain of such methods,   *)
(* and every action is one of them.                                        *)
(*                                                                         *)
(* Both channels take only steps of the contract, so that everything shown *)
(* of it holds beside them.  What the consumer of the stream shows never   *)
(* goes back, and nothing announced is lost: the argument is about the set *)
(* of the copies that are on their way, in whatever order they were or     *)
(* will be sent.                                                           *)
(*                                                                         *)
(* A command is in one place at a time, and its fate says which; it leaves *)
(* the queue once, and a batch once.  The expectation of a command that    *)
(* was overtaken names a version of preview that is past, and stays so.    *)
(*                                                                         *)
(* A task of the store carries the number of its event through several     *)
(* critical sections; that it is nobody else's rests on all tasks that     *)
(* carry one (Numbered).  The order, the rows and the history change in    *)
(* one section, so that their relation is inductive by itself.             *)
(***************************************************************************)
EXTENDS ReadinessStream, PluginCommands, SnapshotStore, SequenceTheorems, FiniteSetTheorems,
        FunctionTheorems, TLAPS

(* The inductive invariant.  PrerequisitesHold alone is not inductive: it  *)
(* needs every record to carry the current incarnation, ready or not, and  *)
(* the marker to be set only while edit_sync and full_bake_start are ready.*)
Typed(rs) ==
  /\ rs \in ReadinessStates
  /\ \A t \in Targets : WellShaped(rs.rec[t])

Ordered(rs) ==
  /\ \A t \in Targets : rs.rec[t].inc = rs.incarnation
  /\ rs.rec["preview"].ready => rs.rec["edit_sync"].ready
  /\ rs.rec["full_bake_start"].ready => rs.rec["edit_sync"].ready
  /\ rs.rec["full_bake_result"].ready => rs.successIn = rs.incarnation
  /\ rs.successIn # NoIncarnation =>
       /\ rs.successIn = rs.incarnation
       /\ rs.rec["edit_sync"].ready
       /\ rs.rec["full_bake_start"].ready

Consistent(rs) == Typed(rs) /\ Ordered(rs)

(* s may come after r: versions have not gone back, and a record that was  *)
(* ready and is no longer the same has a newer version.                    *)
NotBefore(r, s) ==
  /\ s.incarnation >= r.incarnation
  /\ \A t \in Targets : s.rec[t].epoch >= r.rec[t].epoch

Follows(r, s) ==
  /\ NotBefore(r, s)
  /\ \A t \in Targets : r.rec[t].ready =>
       \/ s.rec[t] = r.rec[t]
       \/ s.rec[t].epoch > r.rec[t].epoch
       \/ s.rec[t].inc > r.rec[t].inc

IInv == Consistent(readiness)

-----------------------------------------------------------------------------
(* Follows is transitive on consistent values.                             *)
LEMMA FollowsTransitive ==
  ASSUME NEW r, NEW s, NEW u, Consistent(r), Consistent(s), Consistent(u),
         Follows(r, s), Follows(s, u)
  PROVE  Follows(r, u)
<1>1. /\ r.incarnation \in Nat /\ s.incarnation \in Nat /\ u.incarnation \in Nat
      /\ \A t \in Targets : r.rec[t] \in Records /\ s.rec[t] \in Records /\ u.rec[t] \in Records
  BY DEF Consistent, Typed, ReadinessStates
<1>2. NotBefore(r, u)
  BY <1>1 DEF Follows, NotBefore, Records
<1>3. ASSUME NEW t \in Targets, r.rec[t].ready
      PROVE  u.rec[t] = r.rec[t] \/ u.rec[t].epoch > r.rec[t].epoch \/ u.rec[t].inc > r.rec[t].inc
  <2>1. /\ r.rec[t].inc = r.incarnation /\ s.rec[t].inc = s.incarnation /\ u.rec[t].inc = u.incarnation
        /\ r.rec[t].epoch \in Nat /\ s.rec[t].epoch \in Nat /\ u.rec[t].epoch \in Nat
    BY <1>1 DEF Consistent, Ordered, Records
  <2>2. /\ s.rec[t].epoch >= r.rec[t].epoch /\ u.rec[t].epoch >= s.rec[t].epoch
        /\ s.incarnation >= r.incarnation /\ u.incarnation >= s.incarnation
    BY DEF Follows, NotBefore
  <2>3. CASE s.rec[t] = r.rec[t]
    BY <1>3, <2>3 DEF Follows
  <2>4. CASE s.rec[t].epoch > r.rec[t].epoch
    BY <2>1, <2>2, <2>4
  <2>5. CASE s.rec[t].inc > r.rec[t].inc
    BY <1>1, <2>1, <2>2, <2>5
  <2>6. QED BY <1>3, <2>3, <2>4, <2>5 DEF Follows
<1>4. QED BY <1>2, <1>3 DEF Follows

LEMMA FollowsReflexive ==
  ASSUME NEW r, Consistent(r)
  PROVE  Follows(r, r)
BY DEF Follows, NotBefore, Consistent, Typed, ReadinessStates, Records

(* advance_epoch_if_invalidated leaves a consistent, later value.          *)
LEMMA AdvanceKeeps ==
  ASSUME NEW rs, Consistent(rs), NEW t \in Targets
  PROVE  Consistent(AdvanceEpoch(rs, t)) /\ Follows(rs, AdvanceEpoch(rs, t))
<1> DEFINE s == AdvanceEpoch(rs, t)
<1>1. /\ rs \in ReadinessStates /\ Ordered(rs) /\ \A d \in Targets : WellShaped(rs.rec[d])
  BY DEF Consistent, Typed
<1>2. /\ s.incarnation = rs.incarnation
      /\ s.signature = rs.signature
      /\ s.successIn = IF t \in {"edit_sync", "full_bake_start"} THEN NoIncarnation ELSE rs.successIn
      /\ s.rec = [d \in Targets |->
           IF d = t \/ (d \in Dependents(t) /\ rs.rec[d].ready)
             THEN [ready |-> FALSE, epoch |-> rs.rec[d].epoch + 1, inc |-> rs.incarnation,
                   code |-> "target_invalidated"]
             ELSE rs.rec[d]]
      /\ s = [rec |-> s.rec, incarnation |-> s.incarnation, successIn |-> s.successIn,
              signature |-> s.signature]
  <2> DEFINE q == [rs EXCEPT !.rec[t] = Invalidated(rs, t)]
  <2>1. /\ q.incarnation = rs.incarnation /\ q.signature = rs.signature
        /\ q.successIn = rs.successIn
        /\ q.rec = [rs.rec EXCEPT ![t] = Invalidated(rs, t)]
        /\ q = [rec |-> q.rec, incarnation |-> q.incarnation, successIn |-> q.successIn,
                signature |-> q.signature]
    BY <1>1 DEF ReadinessStates
  <2>2. \A d \in Targets : Invalidated(rs, d) =
          [ready |-> FALSE, epoch |-> rs.rec[d].epoch + 1, inc |-> rs.incarnation,
           code |-> "target_invalidated"]
    BY DEF Invalidated, NonReadyRecord
  <2>3. q.rec = [d \in Targets |-> IF d = t THEN Invalidated(rs, t) ELSE rs.rec[d]]
    BY <1>1, <2>1 DEF ReadinessStates
  <2>4. t \notin Dependents(t)
    BY DEF Dependents
  <2>5. \A d \in Targets : d \in Dependents(t) => Invalidated(q, d) = Invalidated(rs, d)
    BY <2>1, <2>3, <2>4 DEF Invalidated, NonReadyRecord
  <2> HIDE DEF q
  <2>6. s = [q EXCEPT !.rec = [d \in Targets |->
                        IF d \in Dependents(t) /\ q.rec[d].ready
                          THEN Invalidated(q, d) ELSE q.rec[d]],
             !.successIn = IF t \in {"edit_sync", "full_bake_start"}
                             THEN NoIncarnation ELSE q.successIn]
    BY DEF AdvanceEpoch, DemoteDependents, q
  <2>7. /\ s.incarnation = q.incarnation /\ s.signature = q.signature
        /\ s.successIn = IF t \in {"edit_sync", "full_bake_start"}
                           THEN NoIncarnation ELSE q.successIn
        /\ s.rec = [d \in Targets |-> IF d \in Dependents(t) /\ q.rec[d].ready
                                       THEN Invalidated(q, d) ELSE q.rec[d]]
        /\ s = [rec |-> s.rec, incarnation |-> s.incarnation, successIn |-> s.successIn,
                signature |-> s.signature]
    BY <2>1, <2>6
  <2>8. s.rec = [d \in Targets |->
           IF d = t \/ (d \in Dependents(t) /\ rs.rec[d].ready)
             THEN Invalidated(rs, d) ELSE rs.rec[d]]
    BY <2>3, <2>4, <2>5, <2>7
  <2>9. QED BY <2>1, <2>2, <2>7, <2>8
<1> HIDE DEF s
<1>3. Typed(s)
  <2>1. \A d \in Targets : s.rec[d] \in Records /\ WellShaped(s.rec[d])
    BY <1>1, <1>2 DEF ReadinessStates, Records, Codes, WellShaped
  <2>2. s.rec \in [Targets -> Records]
    BY <1>2, <2>1
  <2>3. s.successIn \in Nat /\ s.incarnation \in Nat \ {0}
        /\ s.signature \in ProjectFacts \cup {NoProject}
    BY <1>1, <1>2 DEF ReadinessStates, NoIncarnation
  <2>4. QED BY <1>2, <2>1, <2>2, <2>3 DEF Typed, ReadinessStates
<1>4. Ordered(s)
  BY <1>1, <1>2 DEF Ordered, Targets, Dependents, NoIncarnation
<1>5. Follows(rs, s)
  BY <1>1, <1>2 DEF Follows, NotBefore, ReadinessStates, Records
<1>6. QED BY <1>3, <1>4, <1>5 DEF Consistent, s

(* So does an accepted update; it comes after rs in the strong sense when  *)
(* the record it replaces was not ready.                                   *)
LEMMA UpdateKeeps ==
  ASSUME NEW rs, Consistent(rs), NEW t \in Targets, NEW r \in Records, Accepts(rs, t, r)
  PROVE  /\ Consistent(Update(rs, t, r))
         /\ NotBefore(rs, Update(rs, t, r))
         /\ ~ rs.rec[t].ready => Follows(rs, Update(rs, t, r))
         /\ \A d \in Targets \ {t} : rs.rec[d].ready =>
              \/ Update(rs, t, r).rec[d] = rs.rec[d]
              \/ Update(rs, t, r).rec[d].epoch > rs.rec[d].epoch
         /\ Update(rs, t, r).rec[t] = r
<1> DEFINE s == Update(rs, t, r)
<1>1. /\ rs \in ReadinessStates /\ Ordered(rs) /\ \A d \in Targets : WellShaped(rs.rec[d])
  BY DEF Consistent, Typed
<1>2. t \notin Dependents(t)
  BY DEF Dependents
<1>3. /\ s.incarnation = rs.incarnation
      /\ s.signature = rs.signature
      /\ s.successIn = IF ~ r.ready /\ t \in {"edit_sync", "full_bake_start"}
                         THEN NoIncarnation ELSE rs.successIn
      /\ s.rec = [d \in Targets |->
           IF d = t THEN r
           ELSE IF ~ r.ready /\ d \in Dependents(t) /\ rs.rec[d].ready
             THEN [ready |-> FALSE, epoch |-> rs.rec[d].epoch + 1, inc |-> rs.incarnation,
                   code |-> "target_invalidated"]
             ELSE rs.rec[d]]
      /\ s = [rec |-> s.rec, incarnation |-> s.incarnation, successIn |-> s.successIn,
              signature |-> s.signature]
  <2>1. CASE r.ready
    <3>1. s = [rs EXCEPT !.rec[t] = r]
      BY <2>1 DEF Update
    <3>2. /\ s.incarnation = rs.incarnation /\ s.signature = rs.signature
          /\ s.successIn = rs.successIn
          /\ s.rec = [rs.rec EXCEPT ![t] = r]
          /\ s = [rec |-> s.rec, incarnation |-> s.incarnation, successIn |-> s.successIn,
                  signature |-> s.signature]
      BY <1>1, <3>1 DEF ReadinessStates
    <3>3. s.rec = [d \in Targets |-> IF d = t THEN r ELSE rs.rec[d]]
      BY <1>1, <3>2 DEF ReadinessStates
    <3>4. QED BY <2>1, <3>2, <3>3
  <2>2. CASE ~ r.ready
    <3> DEFINE q == DemoteDependents(rs, t)
    <3>1. /\ q.incarnation = rs.incarnation /\ q.signature = rs.signature
          /\ q.successIn = IF t \in {"edit_sync", "full_bake_start"}
                             THEN NoIncarnation ELSE rs.successIn
          /\ q.rec = [d \in Targets |-> IF d \in Dependents(t) /\ rs.rec[d].ready
                                         THEN Invalidated(rs, d) ELSE rs.rec[d]]
          /\ q = [rec |-> q.rec, incarnation |-> q.incarnation, successIn |-> q.successIn,
                  signature |-> q.signature]
      <4>1. rs = [rec |-> rs.rec, incarnation |-> rs.incarnation, successIn |-> rs.successIn,
                  signature |-> rs.signature]
        BY <1>1 DEF ReadinessStates
      <4>2. q = [rs EXCEPT
              !.rec = [d \in Targets |-> IF d \in Dependents(t) /\ rs.rec[d].ready
                                         THEN Invalidated(rs, d) ELSE rs.rec[d]],
              !.successIn = IF t \in {"edit_sync", "full_bake_start"}
                              THEN NoIncarnation ELSE rs.successIn]
        BY DEF DemoteDependents
      <4> HIDE DEF q
      <4>3. QED BY <4>1, <4>2
    <3>2. \A d \in Targets : Invalidated(rs, d) =
            [ready |-> FALSE, epoch |-> rs.rec[d].epoch + 1, inc |-> rs.incarnation,
             code |-> "target_invalidated"]
      BY DEF Invalidated, NonReadyRecord
    <3>3. s = [q EXCEPT !.rec[t] = r]
      BY <2>2 DEF Update
    <3> HIDE DEF q
    <3>4. /\ s.incarnation = q.incarnation /\ s.signature = q.signature
          /\ s.successIn = q.successIn
          /\ s.rec = [q.rec EXCEPT ![t] = r]
          /\ s = [rec |-> s.rec, incarnation |-> s.incarnation, successIn |-> s.successIn,
                  signature |-> s.signature]
      BY <3>1, <3>3
    <3>5. s.rec = [d \in Targets |-> IF d = t THEN r ELSE q.rec[d]]
      BY <3>1, <3>4
    <3>6. QED BY <1>2, <2>2, <3>1, <3>2, <3>4, <3>5
  <2>3. QED BY <2>1, <2>2
<1> HIDE DEF s
<1>4. /\ r.inc = rs.incarnation /\ r.epoch = rs.rec[t].epoch /\ WellShaped(r)
      /\ r.ready /\ t \in {"preview", "full_bake_start"} => rs.rec["edit_sync"].ready
      /\ r.ready /\ t = "full_bake_result" => rs.successIn = rs.incarnation
  BY DEF Accepts
<1>5. Typed(s)
  <2>1. \A d \in Targets : s.rec[d] \in Records /\ WellShaped(s.rec[d])
    BY <1>1, <1>3, <1>4 DEF ReadinessStates, Records, Codes, WellShaped
  <2>2. s.rec \in [Targets -> Records]
    BY <1>3, <2>1
  <2>3. s.successIn \in Nat /\ s.incarnation \in Nat \ {0}
        /\ s.signature \in ProjectFacts \cup {NoProject}
    BY <1>1, <1>3 DEF ReadinessStates, NoIncarnation
  <2>4. QED BY <1>3, <2>1, <2>2, <2>3 DEF Typed, ReadinessStates
<1>6. Ordered(s)
  <2>1. \A d \in Targets : s.rec[d].inc = s.incarnation
    BY <1>1, <1>3, <1>4 DEF Ordered
  <2>2. rs.incarnation # NoIncarnation
    BY <1>1 DEF ReadinessStates, NoIncarnation
  <2>3. QED BY <1>1, <1>3, <1>4, <2>1, <2>2 DEF Ordered, Targets, Dependents
<1>7. NotBefore(rs, s)
  BY <1>1, <1>3, <1>4 DEF NotBefore, ReadinessStates, Records
<1>8. \A d \in Targets \ {t} : rs.rec[d].ready =>
        s.rec[d] = rs.rec[d] \/ s.rec[d].epoch > rs.rec[d].epoch
  BY <1>1, <1>3 DEF ReadinessStates, Records
<1>9. s.rec[t] = r
  BY <1>3
<1>10. QED BY <1>5, <1>6, <1>7, <1>8, <1>9 DEF Consistent, Follows, s

(* And so do rotate_incarnation and                                        *)
(* record_successful_full_bake_start_for_current_incarnation.              *)
LEMMA RotateKeeps ==
  ASSUME NEW rs, Consistent(rs)
  PROVE  Consistent(Rotate(rs)) /\ Follows(rs, Rotate(rs))
<1> DEFINE s == Rotate(rs)
<1>1. rs \in ReadinessStates /\ Ordered(rs)
  BY DEF Consistent, Typed
<1>2. /\ \A t \in Targets : /\ s.rec[t] = [ready |-> FALSE, epoch |-> rs.rec[t].epoch,
                                           inc |-> rs.incarnation + 1, code |-> "unavailable"]
                             /\ s.rec[t] \in Records /\ WellShaped(s.rec[t])
  BY <1>1 DEF Rotate, ReadinessStates, Records, Codes, WellShaped
<1>3. Typed(s)
  BY <1>1, <1>2 DEF Typed, Rotate, ReadinessStates, NoIncarnation
<1>4. s.incarnation = rs.incarnation + 1 /\ s.successIn = NoIncarnation
  BY DEF Rotate
<1> HIDE DEF s
<1>5. Ordered(s)
  BY <1>2, <1>4 DEF Ordered, Targets
<1>6. Follows(rs, s)
  <2>1. /\ rs.incarnation \in Nat
        /\ \A t \in Targets : rs.rec[t].epoch \in Nat /\ rs.rec[t].inc = rs.incarnation
    BY <1>1 DEF ReadinessStates, Records, Ordered
  <2>2. ASSUME NEW t \in Targets
        PROVE  s.rec[t].epoch = rs.rec[t].epoch /\ s.rec[t].inc = rs.incarnation + 1
    <3>1. s.rec[t] = [ready |-> FALSE, epoch |-> rs.rec[t].epoch,
                      inc |-> rs.incarnation + 1, code |-> "unavailable"]
      BY <1>2
    <3>2. QED BY <3>1
  <2>3. QED BY <1>4, <2>1, <2>2 DEF Follows, NotBefore
<1>7. QED BY <1>3, <1>5, <1>6 DEF Consistent, s

LEMMA MarkSuccessKeeps ==
  ASSUME NEW rs, Consistent(rs)
  PROVE  Consistent(MarkSuccess(rs)) /\ Follows(rs, MarkSuccess(rs))
<1> DEFINE s == MarkSuccess(rs)
<1>1. rs \in ReadinessStates /\ Ordered(rs) /\ \A d \in Targets : WellShaped(rs.rec[d])
  BY DEF Consistent, Typed
<1>2. /\ s.rec = rs.rec /\ s.incarnation = rs.incarnation
      /\ s.successIn \in Nat
      /\ s \in ReadinessStates
      /\ \/ s.successIn = rs.successIn
         \/ /\ s.successIn = rs.incarnation
            /\ rs.rec["edit_sync"].ready /\ rs.rec["full_bake_start"].ready
  BY <1>1 DEF MarkSuccess, ReadinessStates
<1> HIDE DEF s
<1>3. Typed(s) /\ Ordered(s)
  BY <1>1, <1>2 DEF Typed, Ordered
<1>4. Follows(rs, s)
  BY <1>1, <1>2 DEF Follows, NotBefore, ReadinessStates, Records
<1>5. QED BY <1>3, <1>4 DEF Consistent, s

-----------------------------------------------------------------------------
(* The merge.                                                              *)
Merging == [rs : ReadinessStates, changed : BOOLEAN, rejected : BOOLEAN]

LEMMA SettleKeeps ==
  ASSUME NEW m \in Merging, Consistent(m.rs), NEW t \in Targets, NEW b \in BOOLEAN
  PROVE  /\ Settle(m, t, b) \in Merging
         /\ Consistent(Settle(m, t, b).rs)
         /\ Follows(m.rs, Settle(m, t, b).rs)
<1> DEFINE s == Settle(m, t, b)
<1>1. /\ m.rs \in ReadinessStates /\ m.changed \in BOOLEAN /\ m.rejected \in BOOLEAN
      /\ m = [rs |-> m.rs, changed |-> m.changed, rejected |-> m.rejected]
  BY DEF Merging
<1>2. m.rs.rec[t] \in Records /\ m.rs.rec[t].inc = m.rs.incarnation
  BY <1>1 DEF Consistent, Ordered, ReadinessStates
<1>3. \A u : Consistent(u) => u \in ReadinessStates
  BY DEF Consistent, Typed
<1>4. CASE m.rs.rec[t].ready # b /\ ~ b
  <2>1. s = [m EXCEPT !.rs = AdvanceEpoch(m.rs, t), !.changed = TRUE]
    BY <1>4 DEF Settle
  <2>2. Consistent(AdvanceEpoch(m.rs, t)) /\ Follows(m.rs, AdvanceEpoch(m.rs, t))
    BY AdvanceKeeps
  <2>3. QED BY <1>1, <1>3, <2>1, <2>2 DEF Merging
<1>5. CASE m.rs.rec[t].ready # b /\ b
  <2> DEFINE r == ReadyRecord(m.rs, t)
  <2>1. r \in Records
    BY <1>2 DEF ReadyRecord, Records, Codes
  <2>2. CASE Accepts(m.rs, t, r)
    <3>1. s = [m EXCEPT !.rs = Update(m.rs, t, r), !.changed = TRUE]
      BY <1>5, <2>2 DEF Settle
    <3>2. Consistent(Update(m.rs, t, r)) /\ Follows(m.rs, Update(m.rs, t, r))
      BY <1>5, <2>1, <2>2, UpdateKeeps
    <3>3. QED BY <1>1, <1>3, <3>1, <3>2 DEF Merging
  <2>3. CASE ~ Accepts(m.rs, t, r)
    <3>1. s = [m EXCEPT !.changed = TRUE, !.rejected = TRUE]
      BY <1>5, <2>3 DEF Settle
    <3>2. QED BY <1>1, <3>1, FollowsReflexive DEF Merging
  <2>4. QED BY <2>2, <2>3
<1>6. CASE m.rs.rec[t].ready = b
  <2> DEFINE r == NonReadyRecord(m.rs, t, m.rs.rec[t].epoch, "pending")
  <2>1. CASE ~ b /\ m.rs.rec[t].code # "pending" /\ t # "edit_sync"
    <3>1. s = [m EXCEPT !.changed = TRUE, !.rs = Update(m.rs, t, r)]
      BY <1>6, <2>1 DEF Settle
    <3>2. r \in Records /\ Accepts(m.rs, t, r)
      BY <1>1, <1>2 DEF NonReadyRecord, Records, Codes, Accepts, WellShaped, ReadinessStates
    <3>3. Consistent(Update(m.rs, t, r)) /\ Follows(m.rs, Update(m.rs, t, r))
      BY <1>6, <2>1, <3>2, UpdateKeeps
    <3>4. QED BY <1>1, <1>3, <3>1, <3>3 DEF Merging
  <2>2. CASE ~ (~ b /\ m.rs.rec[t].code # "pending" /\ t # "edit_sync")
    <3>1. s = m
      BY <1>6, <2>2 DEF Settle
    <3>2. QED BY <3>1, FollowsReflexive
  <2>3. QED BY <2>1, <2>2
<1>7. QED BY <1>4, <1>5, <1>6

(* Every merge of a report leaves a consistent, later value.               *)
LEMMA MergeKeeps ==
  ASSUME NEW rs, Consistent(rs), NEW f \in Facts
  PROVE  Consistent(Merge(rs, f).rs) /\ Follows(rs, Merge(rs, f).rs)
<1> DEFINE Fine(m) == m \in Merging /\ Consistent(m.rs) /\ Follows(rs, m.rs)
           m0 == [rs |-> rs, changed |-> FALSE, rejected |-> FALSE]
           m1 == MergeRuntime(m0, f.runtime)
           m2 == [m1 EXCEPT !.rs.signature = f.project]
           m3 == MergePreview(m2, f.project.preview)
           m4 == MergeBakeStart(m3, f.project.bake)
           m5 == MergeBakeResult(m4, f.project.bake)
<1>1. ASSUME NEW m, Fine(m), NEW t \in Targets, NEW b \in BOOLEAN
      PROVE  Fine(Settle(m, t, b))
  BY <1>1, SettleKeeps, FollowsTransitive
<1>2. Fine(m0)
  BY FollowsReflexive DEF Merging, Consistent, Typed
<1> HIDE DEF m0
<1>3. Fine(m1)
  BY <1>1, <1>2 DEF MergeRuntime, Targets
<1> HIDE DEF m1
<1>4. f.project \in ProjectFacts \cup {NoProject}
  BY DEF Facts
<1>5. Fine(m2)
  <2>1. m1.rs \in ReadinessStates
    BY <1>3 DEF Merging
  <2>2. /\ m2.rs.rec = m1.rs.rec /\ m2.rs.incarnation = m1.rs.incarnation
        /\ m2.rs.successIn = m1.rs.successIn
        /\ m2.rs \in ReadinessStates /\ m2 \in Merging
    BY <1>3, <1>4, <2>1 DEF Merging, ReadinessStates
  <2> HIDE DEF m2
  <2>3. Consistent(m2.rs)
    BY <1>3, <2>2 DEF Consistent, Typed, Ordered
  <2>4. Follows(rs, m2.rs)
    BY <1>3, <2>2 DEF Follows, NotBefore
  <2>5. QED BY <2>2, <2>3, <2>4
<1> HIDE DEF m2
<1>6. Fine(m3)
  BY <1>1, <1>5 DEF MergePreview, Targets
<1> HIDE DEF m3
<1>7. Fine(m4)
  BY <1>1, <1>6 DEF MergeBakeStart, Targets
<1> HIDE DEF m4
<1>8. Fine(m5)
  <2> DEFINE marked == [m4 EXCEPT !.rs = IF f.project.bake = "success"
                                        THEN MarkSuccess(m4.rs) ELSE m4.rs]
  <2>1. Consistent(MarkSuccess(m4.rs)) /\ Follows(m4.rs, MarkSuccess(m4.rs))
    BY <1>7, MarkSuccessKeeps
  <2>2. Follows(rs, MarkSuccess(m4.rs))
    BY <1>7, <2>1, FollowsTransitive
  <2>3. Fine(marked)
    BY <1>7, <2>1, <2>2 DEF Merging, Consistent, Typed
  <2> HIDE DEF marked
  <2>4. Fine(Settle(marked, "full_bake_result", f.project.bake = "success"))
    BY <1>1, <2>3 DEF Targets
  <2>5. QED BY <1>7, <2>4 DEF MergeBakeResult, marked
<1> HIDE DEF m5
<1>9. Merge(rs, f) = IF m1.rejected \/ ~ IsFresh(f, rs.signature) THEN m1 ELSE m5
  BY DEF Merge, m0, m1, m2, m3, m4, m5
<1>10. QED BY <1>3, <1>8, <1>9

-----------------------------------------------------------------------------
LEMMA BootstrapConsistent == Consistent(Bootstrap)
BY DEF Bootstrap, Consistent, Typed, Ordered, ReadinessStates, Records, Codes, WellShaped,
       NoIncarnation, Targets

(* What every step but a caller's own update does to the value, and what   *)
(* such an update may do besides.                                          *)
LEMMA LosingStep ==
  ASSUME IInv, LosingNext
  PROVE  IInv' /\ Follows(readiness, readiness')
<1>1. ASSUME NEW f \in Facts, MergePluginStateFacts(f)
      PROVE  IInv' /\ Follows(readiness, readiness')
  BY <1>1, MergeKeeps DEF MergePluginStateFacts, IInv
<1>2. ASSUME NEW t \in Targets, AdvanceEpochIfInvalidated(t)
      PROVE  IInv' /\ Follows(readiness, readiness')
  BY <1>2, AdvanceKeeps DEF AdvanceEpochIfInvalidated, IInv
<1>3. CASE RotateIncarnation
  BY <1>3, RotateKeeps DEF RotateIncarnation, IInv
<1>4. QED BY <1>1, <1>2, <1>3 DEF LosingNext, ServerNext

LEMMA UpdateStep ==
  ASSUME IInv, NEW t \in Targets, NEW r \in Offered(t), UpdateReadiness(t, r)
  PROVE  /\ IInv' /\ NotBefore(readiness, readiness')
         /\ \A d \in Targets \ {t} : readiness.rec[d].ready =>
              \/ readiness'.rec[d] = readiness.rec[d]
              \/ readiness'.rec[d].epoch > readiness.rec[d].epoch
         /\ readiness'.rec[t] = r
<1>1. readiness.rec[t].epoch \in Nat /\ readiness.incarnation \in Nat
  BY DEF IInv, Consistent, Typed, ReadinessStates, Records
<1>2. r \in Records
  BY <1>1 DEF Offered, Records, Codes
<1>3. QED BY <1>2, UpdateKeeps DEF UpdateReadiness, IInv

LEMMA NextStep ==
  ASSUME IInv, [Next]_readiness
  PROVE  IInv' /\ NotBefore(readiness, readiness')
<1>1. CASE LosingNext
  BY <1>1, LosingStep DEF Follows
<1>2. ASSUME NEW t \in Targets, NEW r \in Offered(t), UpdateReadiness(t, r)
      PROVE  IInv' /\ NotBefore(readiness, readiness')
  BY <1>2, UpdateStep
<1>3. CASE RecordSuccessfulFullBakeStart
  BY <1>3, MarkSuccessKeeps DEF RecordSuccessfulFullBakeStart, IInv, Follows
<1>4. CASE UNCHANGED readiness
  <2>1. Follows(readiness, readiness)
    BY FollowsReflexive DEF IInv
  <2>2. QED BY <1>4, <2>1 DEF IInv, Follows, NotBefore
<1>5. QED BY <1>1, <1>2, <1>3, <1>4 DEF Next

(* The inductive invariant holds in every reachable state, of the server   *)
(* alone and of the whole public interface.                                *)
THEOREM InductiveInvariant == Spec => []IInv
<1>1. Init => IInv
  BY BootstrapConsistent DEF Init, IInv
<1>2. IInv /\ [Next]_readiness => IInv'
  BY NextStep
<1>3. QED BY <1>1, <1>2, PTL DEF Spec

(* The readiness state keeps its type and the public shape of its records. *)
THEOREM TypeCorrect == Spec => []TypeOK
<1>1. IInv => TypeOK
  BY DEF IInv, Consistent, Typed, TypeOK
<1>2. QED BY <1>1, InductiveInvariant, PTL

(* No target is ever ready without its prerequisites in this incarnation.  *)
THEOREM PrerequisitesAlwaysHold == Spec => []PrerequisitesHold
<1>1. IInv => PrerequisitesHold
  BY DEF IInv, Consistent, Typed, Ordered, PrerequisitesHold, ReadinessStates, NoIncarnation
<1>2. QED BY <1>1, InductiveInvariant, PTL

(* Epochs and incarnations only grow.                                      *)
THEOREM VersionsOnlyGrow == Spec => VersionsNeverRewind
<1>1. IInv /\ [Next]_readiness =>
        [/\ readiness'.incarnation >= readiness.incarnation
         /\ \A t \in Targets : readiness'.rec[t].epoch >= readiness.rec[t].epoch]_readiness
  BY NextStep DEF NotBefore
<1>2. QED BY <1>1, InductiveInvariant, PTL DEF Spec, VersionsNeverRewind

(* A record that stops being ready gets a new version, so that no stale    *)
(* expectation can be met again, except by a caller's own pending record.  *)
THEOREM LossIsVisible == Spec => LostReadinessChangesVersion
<1> DEFINE Visible == \A t \in Targets :
             readiness.rec[t].ready =>
               \/ readiness'.rec[t] = readiness.rec[t]
               \/ readiness'.rec[t].epoch > readiness.rec[t].epoch
               \/ readiness'.rec[t].inc > readiness.rec[t].inc
               \/ readiness'.rec[t].code = "pending"
<1>1. ASSUME IInv, Next PROVE Visible
  <2>1. CASE LosingNext
    BY <1>1, <2>1, LosingStep DEF Follows
  <2>2. ASSUME NEW t \in Targets, NEW r \in Offered(t), UpdateReadiness(t, r)
        PROVE  Visible
    <3>1. \A d \in Targets \ {t} : readiness.rec[d].ready =>
              \/ readiness'.rec[d] = readiness.rec[d]
              \/ readiness'.rec[d].epoch > readiness.rec[d].epoch
      BY <1>1, <2>2, UpdateStep
    <3>2. readiness'.rec[t] = r
      BY <1>1, <2>2, UpdateStep
    <3>3. CASE readiness.rec[t].ready
      <4>1. /\ r.code \in {"ready", "pending"} /\ r.ready \in BOOLEAN
            /\ r.epoch = readiness.rec[t].epoch /\ r.inc = readiness.rec[t].inc
            /\ r.ready <=> r.code = "ready"
            /\ r = [ready |-> r.ready, epoch |-> r.epoch, inc |-> r.inc, code |-> r.code]
        BY <1>1, <2>2 DEF UpdateReadiness, Accepts, Offered, WellShaped, IInv, Consistent, Ordered
      <4>2. /\ readiness.rec[t] \in Records
            /\ readiness.rec[t].code = "ready"
        BY <1>1, <3>3 DEF IInv, Consistent, Typed, ReadinessStates, WellShaped
      <4>3. r.code = "ready" => r = readiness.rec[t]
        BY <3>3, <4>1, <4>2 DEF Records
      <4>4. QED BY <3>1, <3>2, <4>1, <4>3
    <3>4. QED BY <3>1, <3>3
  <2>3. CASE RecordSuccessfulFullBakeStart
    BY <1>1, <2>3, MarkSuccessKeeps DEF RecordSuccessfulFullBakeStart, IInv, Follows
  <2>4. QED BY <1>1, <2>1, <2>2, <2>3 DEF Next
<1>2. IInv /\ [Next]_readiness => [Visible]_readiness
  BY <1>1
<1>3. QED BY <1>2, InductiveInvariant, PTL DEF Spec, LostReadinessChangesVersion

-----------------------------------------------------------------------------
(* The event stream.                                                       *)
Target == consumer.target
Current == readiness.rec[consumer.target]

(* The copies on their way to the consumer: with a handler, or unread.     *)
Held == {[seq |-> sending[h].seq, record |-> sending[h].rec[consumer.target]] :
           h \in {g \in Handlers : sending[g] # NotSending}}
Unread == {consumer.unread[i] : i \in 1..Len(consumer.unread)}
InFlight == Held \cup Unread

Copies == [seq : Nat \ {0}, record : Records]
Pending == [seq : Nat, rec : [Targets -> Records]]

(* The inductive invariant.  A copy is never newer than the state, and two *)
(* copies are in the order of their numbers; a copy the filter would pass  *)
(* is no older than what is shown; and a stream that has not seen the last *)
(* announcement still has it to come, unless it knows that it fell behind. *)
StreamTypes ==
  /\ eventSeq \in Nat
  /\ announced \in [Targets -> Records]
  /\ sending \in [Handlers -> Pending]
  /\ \A h \in Handlers : sending[h] = NotSending \/ sending[h].seq # 0
  /\ consumer \in [target : Targets, phase : {"idle", "subscribed", "streaming"},
                   unread : Seq(Copies), lagged : BOOLEAN, lastSeq : Nat,
                   shown : Records, readFromState : BOOLEAN]

CopiesFit(copies, last, record, latest) ==
  /\ ~ Older(latest, record)
  /\ \A c \in copies : /\ c.seq <= last
                       /\ c.seq = last => c.record = record
                       /\ ~ Older(latest, c.record)
  /\ \A c, d \in copies : c.seq < d.seq => ~ Older(d.record, c.record)

ShownFits(copies, last, record, latest, lastSeq, shown, fromState) ==
  /\ lastSeq <= last
  /\ ~ Older(latest, shown)
  /\ \A c \in copies : c.seq > lastSeq => ~ Older(c.record, shown)
  /\ lastSeq = last =>
       IF fromState THEN ~ Older(shown, record) ELSE shown = record

StillToCome(copies, last, lastSeq) ==
  lastSeq = last \/ \E c \in copies : c.seq = last

StreamInv ==
  /\ IInv
  /\ StreamTypes
  /\ CopiesFit(InFlight, eventSeq, announced[Target], Current)
  /\ consumer.phase = "streaming" =>
       /\ ShownFits(InFlight, eventSeq, announced[Target], Current,
                    consumer.lastSeq, consumer.shown, consumer.readFromState)
       /\ ~ consumer.lagged => StillToCome(InFlight, eventSeq, consumer.lastSeq)

-----------------------------------------------------------------------------
(* Age is a linear preorder on records.                                    *)
LEMMA AgeOrder ==
  ASSUME NEW a \in Records, NEW b \in Records
  PROVE  /\ ~ Older(a, a)
         /\ ~ Older(a, b) \/ ~ Older(b, a)
         /\ \A c \in Records : ~ Older(b, a) /\ ~ Older(c, b) => ~ Older(c, a)
BY DEF Older, Records

(* A step of the readiness contract never makes a record older.            *)
LEMMA StateMovesOn ==
  ASSUME IInv, [Next]_readiness, NEW t \in Targets
  PROVE  /\ IInv'
         /\ readiness.rec[t] \in Records /\ readiness'.rec[t] \in Records
         /\ readiness'.rec \in [Targets -> Records]
         /\ ~ Older(readiness'.rec[t], readiness.rec[t])
<1>1. IInv' /\ NotBefore(readiness, readiness')
  BY NextStep
<1>2. /\ readiness.rec \in [Targets -> Records] /\ readiness'.rec \in [Targets -> Records]
      /\ readiness.incarnation \in Nat /\ readiness'.incarnation \in Nat
      /\ readiness.rec[t].inc = readiness.incarnation
      /\ readiness'.rec[t].inc = readiness'.incarnation
  BY <1>1 DEF IInv, Consistent, Typed, Ordered, ReadinessStates
<1>3. readiness.rec[t] \in Records /\ readiness'.rec[t] \in Records
  BY <1>2
<1>4. readiness.rec[t].epoch \in Nat /\ readiness'.rec[t].epoch \in Nat
  BY <1>3 DEF Records
<1>5. /\ readiness'.incarnation >= readiness.incarnation
      /\ readiness'.rec[t].epoch >= readiness.rec[t].epoch
  BY <1>1 DEF NotBefore
<1>6. ~ Older(readiness'.rec[t], readiness.rec[t])
  BY <1>2, <1>4, <1>5 DEF Older
<1>7. QED BY <1>1, <1>2, <1>3, <1>6

(* Fewer copies and a newer state fit all the same.                        *)
LEMMA FewerFit ==
  ASSUME NEW copies \in SUBSET Copies, NEW fewer \in SUBSET copies, NEW last \in Nat,
         NEW record \in Records, NEW latest \in Records, NEW newer \in Records,
         ~ Older(newer, latest),
         CopiesFit(copies, last, record, latest)
  PROVE  /\ CopiesFit(fewer, last, record, newer)
         /\ \A lastSeq \in Nat, shown \in Records, fromState \in BOOLEAN :
              ShownFits(copies, last, record, latest, lastSeq, shown, fromState)
                => ShownFits(fewer, last, record, newer, lastSeq, shown, fromState)
<1>1. \A c \in copies : c.record \in Records
  BY DEF Copies
<1>2. CopiesFit(fewer, last, record, newer)
  BY <1>1, AgeOrder DEF CopiesFit
<1>3. ASSUME NEW lastSeq \in Nat, NEW shown \in Records, NEW fromState \in BOOLEAN,
             ShownFits(copies, last, record, latest, lastSeq, shown, fromState)
      PROVE  ShownFits(fewer, last, record, newer, lastSeq, shown, fromState)
  BY <1>3, AgeOrder DEF ShownFits
<1>4. QED BY <1>2, <1>3

(* A copy of the new state with the next number fits, too.                 *)
LEMMA NextCopyFits ==
  ASSUME NEW copies \in SUBSET Copies, NEW last \in Nat,
         NEW record \in Records, NEW latest \in Records, NEW newer \in Records,
         ~ Older(newer, latest),
         CopiesFit(copies, last, record, latest),
         NEW more \in SUBSET Copies,
         more \subseteq copies \cup {[seq |-> last + 1, record |-> newer]}
  PROVE  /\ CopiesFit(more, last + 1, newer, newer)
         /\ \A lastSeq \in Nat, shown \in Records, fromState \in BOOLEAN :
              ShownFits(copies, last, record, latest, lastSeq, shown, fromState)
                => ShownFits(more, last + 1, newer, newer, lastSeq, shown, fromState)
<1> DEFINE new == [seq |-> last + 1, record |-> newer]
<1>1. /\ \A c \in more : c.record \in Records /\ c.seq \in Nat
      /\ new.seq = last + 1 /\ new.record = newer
      /\ \A c \in more : c \in copies \/ c = new
  BY DEF Copies
<1> HIDE DEF new
<1>2. \A c \in more : ~ Older(newer, c.record)
  BY <1>1, AgeOrder DEF CopiesFit
<1>3. \A c \in more : c.seq <= last + 1 /\ (c.seq = last + 1 => c = new)
  BY <1>1 DEF CopiesFit
<1>4. ASSUME NEW c \in more, NEW d \in more, c.seq < d.seq
      PROVE  ~ Older(d.record, c.record)
  <2>1. CASE d = new
    BY <1>1, <1>2, <2>1
  <2>2. CASE d \in copies
    <3>1. c \in copies
      BY <1>1, <1>4, <2>2 DEF CopiesFit
    <3>2. QED BY <1>4, <2>2, <3>1 DEF CopiesFit
  <2>3. QED BY <1>1, <2>1, <2>2
<1>5. CopiesFit(more, last + 1, newer, newer)
  BY <1>1, <1>2, <1>3, <1>4, AgeOrder DEF CopiesFit
<1>6. ASSUME NEW lastSeq \in Nat, NEW shown \in Records, NEW fromState \in BOOLEAN,
             ShownFits(copies, last, record, latest, lastSeq, shown, fromState)
      PROVE  ShownFits(more, last + 1, newer, newer, lastSeq, shown, fromState)
  <2>1. lastSeq <= last /\ ~ Older(newer, shown)
    BY <1>6, AgeOrder DEF ShownFits
  <2>2. ASSUME NEW c \in more, c.seq > lastSeq PROVE ~ Older(c.record, shown)
    BY <1>1, <1>6, <2>1, <2>2 DEF ShownFits
  <2>3. QED BY <2>1, <2>2 DEF ShownFits
<1>7. QED BY <1>5, <1>6

-----------------------------------------------------------------------------
(* Every step of the stream is a step of the readiness contract or leaves  *)
(* the readiness state alone.                                              *)
LEMMA StreamStepIsReadinessStep ==
  ASSUME StreamNext
  PROVE  [Next]_readiness
<1>1. ASSUME NEW h \in Handlers, NEW f \in Reports, HandleReport(h, f)
      PROVE  Next
  BY <1>1, StreamAssumption DEF HandleReport, Next, LosingNext, ServerNext
<1>2. ASSUME NEW h \in Handlers, NEW t \in Targets, HandleInvalidation(h, t)
      PROVE  Next
  BY <1>2 DEF HandleInvalidation, Next, LosingNext
<1>3. ASSUME NEW h \in Handlers, HandleRotation(h)
      PROVE  Next
  BY <1>3 DEF HandleRotation, Next, LosingNext
<1>4. ASSUME NEW h \in Handlers, NEW t \in Targets, NEW r \in Offered(t), HandleUpdate(h, t, r)
      PROVE  Next
  BY <1>4 DEF HandleUpdate, Next
<1>5. ASSUME NEW h \in Handlers, HandleSuccess(h)
      PROVE  Next
  BY <1>5 DEF HandleSuccess, Next
<1>6. ASSUME NEW h \in Handlers, Broadcast(h)
      PROVE  UNCHANGED readiness
  BY <1>6 DEF Broadcast
<1>7. Subscribe \/ ReadBaseline \/ Receive \/ Resync => UNCHANGED readiness
  BY DEF Subscribe, ReadBaseline, Receive, Resync
<1>8. QED BY <1>1, <1>2, <1>3, <1>4, <1>5, <1>6, <1>7 DEF StreamNext

(* The readiness stream implements the readiness contract: whatever is     *)
(* proved of Spec in ReadinessProofs holds of the handlers that announce   *)
(* what they change (ServerState's methods in src/lib.rs).                 *)
THEOREM StreamKeepsContract == StreamSpec => Spec
<1>1. StreamInit => Init
  BY DEF StreamInit
<1>2. [StreamNext]_streamVars => [Next]_readiness
  BY StreamStepIsReadinessStep DEF streamVars
<1>3. QED BY <1>1, <1>2, PTL DEF StreamSpec, Spec

-----------------------------------------------------------------------------
(* What is in flight consists of copies.                                   *)
LEMMA InFlightTyped ==
  StreamTypes =>
         /\ InFlight \in SUBSET Copies
         /\ announced[Target] \in Records
         /\ consumer.lastSeq \in Nat /\ consumer.shown \in Records
         /\ consumer.readFromState \in BOOLEAN
<1> SUFFICES ASSUME StreamTypes
             PROVE  /\ InFlight \in SUBSET Copies
                    /\ announced[Target] \in Records
                    /\ consumer.lastSeq \in Nat /\ consumer.shown \in Records
                    /\ consumer.readFromState \in BOOLEAN
  OBVIOUS
<1>1. consumer.target \in Targets /\ consumer.unread \in Seq(Copies)
  BY DEF StreamTypes
<1>2. Unread \subseteq Copies
  BY <1>1 DEF Unread
<1>3. Held \subseteq Copies
  BY <1>1 DEF Held, Copies, StreamTypes, Pending
<1>4. QED BY <1>1, <1>2, <1>3 DEF InFlight, StreamTypes, Target

(* A change that is announced.                                             *)
LEMMA AnnounceKeeps ==
  ASSUME StreamInv, [Next]_readiness, NEW h \in Handlers, Announce(h)
  PROVE  StreamInv'
<1> DEFINE new == [seq |-> eventSeq + 1, record |-> Current']
<1>1. /\ StreamTypes /\ IInv /\ eventSeq \in Nat /\ Target \in Targets
      /\ consumer' = consumer /\ eventSeq' = eventSeq + 1 /\ announced' = readiness'.rec
      /\ sending' = [sending EXCEPT ![h] = [seq |-> eventSeq + 1, rec |-> readiness'.rec]]
  BY DEF StreamInv, StreamTypes, Announce, Target
<1>2. /\ IInv' /\ readiness'.rec \in [Targets -> Records]
      /\ Current \in Records /\ Current' \in Records /\ ~ Older(Current', Current)
  BY <1>1, StateMovesOn DEF Current, Target
<1>3. StreamTypes'
  BY <1>1, <1>2 DEF StreamTypes, Pending
<1>4. InFlight' \in SUBSET Copies /\ InFlight \in SUBSET Copies /\ announced[Target] \in Records
  <2>1. StreamTypes' => (InFlight \in SUBSET Copies)'
    BY InFlightTyped, PTL
  <2>2. QED BY <1>1, <1>3, <2>1, InFlightTyped
<1>5. sending'[h] = [seq |-> eventSeq + 1, rec |-> readiness'.rec]
      /\ \A g \in Handlers \ {h} : sending'[g] = sending[g]
  BY <1>1 DEF StreamTypes
<1>6. Held' \subseteq Held \cup {new}
  BY <1>1, <1>5 DEF Held, Current
<1>7. new \in Held'
  <2>1. sending'[h] # NotSending
    BY <1>1, <1>5 DEF NotSending
  <2>2. QED BY <1>1, <1>5, <2>1 DEF Held, Current
<1>8. Unread' = Unread
  BY <1>1 DEF Unread
<1>9. InFlight' \subseteq InFlight \cup {new} /\ new \in InFlight' /\ new.seq = eventSeq'
  BY <1>1, <1>6, <1>7, <1>8 DEF InFlight
<1>10. announced'[Target'] = Current' /\ Target' = Target
  BY <1>1 DEF Current, Target
<1>11. CopiesFit(InFlight, eventSeq, announced[Target], Current)
  BY DEF StreamInv
<1>12. CopiesFit(InFlight', eventSeq + 1, Current', Current')
  BY <1>1, <1>2, <1>4, <1>9, <1>11, NextCopyFits
<1>13. ASSUME consumer.phase = "streaming"
       PROVE  ShownFits(InFlight', eventSeq + 1, Current', Current',
                        consumer.lastSeq, consumer.shown, consumer.readFromState)
  <2>1. ShownFits(InFlight, eventSeq, announced[Target], Current,
                  consumer.lastSeq, consumer.shown, consumer.readFromState)
    BY <1>13 DEF StreamInv
  <2>2. consumer.lastSeq \in Nat /\ consumer.shown \in Records /\ consumer.readFromState \in BOOLEAN
    BY <1>1, InFlightTyped
  <2>3. QED BY <1>1, <1>2, <1>4, <1>9, <1>11, <2>1, <2>2, NextCopyFits
<1>14. StillToCome(InFlight', eventSeq', consumer'.lastSeq)
  BY <1>9 DEF StillToCome
<1>15. QED BY <1>1, <1>2, <1>3, <1>10, <1>12, <1>13, <1>14 DEF StreamInv

(* A step that changes neither the announcements nor the consumer's view,  *)
(* and loses no copy that the consumer does not know to be lost.           *)
LEMMA OthersKeep ==
  ASSUME StreamInv, [Next]_readiness, StreamTypes',
         UNCHANGED <<eventSeq, announced>>,
         consumer'.target = consumer.target, consumer'.phase = consumer.phase,
         consumer'.lastSeq = consumer.lastSeq, consumer'.shown = consumer.shown,
         consumer'.readFromState = consumer.readFromState,
         InFlight' \subseteq InFlight,
         consumer.phase = "streaming" /\ ~ consumer'.lagged =>
           ~ consumer.lagged /\ InFlight' = InFlight
  PROVE  StreamInv'
<1>1. StreamTypes /\ IInv /\ Target' = Target /\ Target \in Targets /\ eventSeq \in Nat
  BY DEF StreamInv, StreamTypes, Target
<1>2. IInv' /\ Current \in Records /\ Current' \in Records /\ ~ Older(Current', Current)
  BY <1>1, StateMovesOn DEF Current, Target
<1>3. /\ InFlight \in SUBSET Copies /\ announced[Target] \in Records
      /\ consumer.lastSeq \in Nat /\ consumer.shown \in Records
      /\ consumer.readFromState \in BOOLEAN
  BY <1>1, InFlightTyped
<1>4. CopiesFit(InFlight, eventSeq, announced[Target], Current)
  BY DEF StreamInv
<1>5. CopiesFit(InFlight', eventSeq, announced[Target], Current')
  BY <1>1, <1>2, <1>3, <1>4, FewerFit
<1>6. ASSUME consumer.phase = "streaming"
      PROVE  /\ ShownFits(InFlight', eventSeq, announced[Target], Current',
                          consumer.lastSeq, consumer.shown, consumer.readFromState)
             /\ ~ consumer'.lagged => StillToCome(InFlight', eventSeq, consumer.lastSeq)
  <2>1. ShownFits(InFlight, eventSeq, announced[Target], Current,
                  consumer.lastSeq, consumer.shown, consumer.readFromState)
    BY <1>6 DEF StreamInv
  <2>2. ShownFits(InFlight', eventSeq, announced[Target], Current',
                  consumer.lastSeq, consumer.shown, consumer.readFromState)
    BY <1>1, <1>2, <1>3, <1>4, <2>1, FewerFit
  <2>3. ~ consumer'.lagged => StillToCome(InFlight', eventSeq, consumer.lastSeq)
    BY <1>6 DEF StreamInv
  <2>4. QED BY <2>2, <2>3
<1>7. QED BY <1>1, <1>2, <1>5, <1>6 DEF StreamInv

LEMMA SilentlyKeeps ==
  ASSUME StreamInv, [Next]_readiness, Silently
  PROVE  StreamInv'
<1>1. UNCHANGED <<eventSeq, announced, sending, consumer>>
  BY DEF Silently
<1>2. StreamTypes'
  BY <1>1 DEF StreamInv, StreamTypes
<1>3. InFlight' = InFlight
  BY <1>1 DEF InFlight, Held, Unread
<1>4. QED BY <1>1, <1>2, <1>3, OthersKeep

-----------------------------------------------------------------------------
(* The elements of a queue.                                                *)
LEMMA AppendElements ==
  ASSUME NEW S, NEW s \in Seq(S), NEW e \in S
  PROVE  /\ Append(s, e) \in Seq(S) /\ Append(s, e) # << >>
         /\ {Append(s, e)[i] : i \in 1..Len(Append(s, e))} = {s[i] : i \in 1..Len(s)} \cup {e}
OBVIOUS

LEMMA TailElements ==
  ASSUME NEW S, NEW s \in Seq(S), s # << >>
  PROVE  /\ Tail(s) \in Seq(S) /\ Head(s) \in S
         /\ {s[i] : i \in 1..Len(s)} = {Tail(s)[i] : i \in 1..Len(Tail(s))} \cup {Head(s)}
<1> DEFINE all == {s[i] : i \in 1..Len(s)}
           rest == {Tail(s)[i] : i \in 1..Len(Tail(s))}
<1>1. Tail(s) \in Seq(S) /\ Head(s) \in S /\ Head(s) = s[1] /\ Len(s) \in Nat /\ Len(s) # 0
      /\ Len(Tail(s)) = Len(s) - 1 /\ \A i \in 1..Len(s) - 1 : Tail(s)[i] = s[i + 1]
  OBVIOUS
<1>2. ASSUME NEW i \in 1..Len(s) PROVE s[i] \in rest \cup {Head(s)}
  <2>1. CASE i = 1
    BY <1>1, <2>1
  <2>2. CASE i # 1
    <3>1. i - 1 \in 1..Len(Tail(s)) /\ Tail(s)[i - 1] = s[i]
      BY <1>1, <2>2
    <3>2. QED BY <3>1
  <2>3. QED BY <2>1, <2>2
<1>3. rest \subseteq all
  BY <1>1
<1>4. Head(s) \in all
  BY <1>1
<1>5. QED BY <1>1, <1>2, <1>3, <1>4

(* A copy is sent.  It is lost only to a consumer that is told so.         *)
LEMMA BroadcastKeeps ==
  ASSUME StreamInv, NEW h \in Handlers, Broadcast(h)
  PROVE  StreamInv'
<1> DEFINE message == [seq |-> sending[h].seq, record |-> sending[h].rec[consumer.target]]
           full == Len(consumer.unread) = Capacity
           longer == Append(consumer.unread, message)
<1>1. /\ StreamTypes /\ consumer.unread \in Seq(Copies) /\ consumer.target \in Targets
      /\ sending[h] # NotSending /\ sending[h] \in Pending
      /\ sending' = [sending EXCEPT ![h] = NotSending]
      /\ consumer' = IF consumer.phase = "idle" THEN consumer
                      ELSE [consumer EXCEPT !.unread = IF full THEN Tail(longer) ELSE longer,
                                            !.lagged = @ \/ full]
      /\ UNCHANGED <<readiness, eventSeq, announced>>
  BY DEF StreamInv, StreamTypes, Broadcast
<1>2. message \in Copies /\ message \in Held
  BY <1>1 DEF StreamTypes, Copies, Pending, Held
<1> HIDE DEF message
<1>3. /\ longer \in Seq(Copies) /\ longer # << >>
      /\ {longer[i] : i \in 1..Len(longer)} = Unread \cup {message}
  BY <1>1, <1>2, AppendElements DEF Unread
<1> HIDE DEF longer
<1>4. /\ Tail(longer) \in Seq(Copies)
      /\ {Tail(longer)[i] : i \in 1..Len(Tail(longer))} \subseteq Unread \cup {message}
  BY <1>3, TailElements
<1>5. /\ consumer' \in [target : Targets, phase : {"idle", "subscribed", "streaming"},
                         unread : Seq(Copies), lagged : BOOLEAN, lastSeq : Nat,
                         shown : Records, readFromState : BOOLEAN]
      /\ consumer'.target = consumer.target /\ consumer'.phase = consumer.phase
      /\ consumer'.lastSeq = consumer.lastSeq /\ consumer'.shown = consumer.shown
      /\ consumer'.readFromState = consumer.readFromState
      /\ \/ consumer'.unread = consumer.unread /\ consumer.phase = "idle"
         \/ consumer'.unread = longer /\ (~ consumer'.lagged => ~ consumer.lagged)
         \/ consumer'.unread = Tail(longer) /\ consumer'.lagged
  <2>1. CASE consumer.phase = "idle"
    BY <1>1, <2>1 DEF StreamTypes
  <2>2. CASE consumer.phase # "idle" /\ full
    <3>1. consumer' = [consumer EXCEPT !.unread = Tail(longer), !.lagged = TRUE]
      BY <1>1, <2>2
    <3>2. QED BY <1>1, <1>4, <3>1 DEF StreamTypes
  <2>3. CASE consumer.phase # "idle" /\ ~ full
    <3>1. consumer' = [consumer EXCEPT !.unread = longer, !.lagged = consumer.lagged]
      BY <1>1, <2>3 DEF StreamTypes
    <3>2. QED BY <1>1, <1>3, <3>1 DEF StreamTypes
  <2>4. QED BY <2>1, <2>2, <2>3
<1>6. sending'[h] = NotSending /\ \A g \in Handlers \ {h} : sending'[g] = sending[g]
  BY <1>1 DEF StreamTypes
<1>7. NotSending \in Pending
  BY BootstrapConsistent DEF NotSending, Pending, Consistent, Typed, ReadinessStates
<1>8. StreamTypes'
  BY <1>1, <1>5, <1>6, <1>7 DEF StreamTypes
<1>9. Held = Held' \cup {message}
  <2>1. \A c \in Held : c \in Held' \/ c = message
    BY <1>1, <1>5, <1>6 DEF Held, message
  <2>2. Held' \subseteq Held
    BY <1>1, <1>5, <1>6 DEF Held
  <2>3. QED BY <1>2, <2>1, <2>2
<1>10. Unread' \subseteq Unread \cup {message}
       /\ (consumer'.unread = longer => Unread' = Unread \cup {message})
  <2>1. consumer'.unread = longer => Unread' = Unread \cup {message}
    BY <1>3 DEF Unread
  <2>2. consumer'.unread = Tail(longer) => Unread' \subseteq Unread \cup {message}
    BY <1>4 DEF Unread
  <2>3. consumer'.unread = consumer.unread => Unread' = Unread
    BY DEF Unread
  <2>4. QED BY <1>5, <2>1, <2>2, <2>3
<1>11. InFlight' \subseteq InFlight
       /\ (consumer'.unread = longer => InFlight' = InFlight)
  BY <1>9, <1>10 DEF InFlight
<1>12. consumer.phase = "streaming" /\ ~ consumer'.lagged =>
         ~ consumer.lagged /\ InFlight' = InFlight
  BY <1>5, <1>11
<1>13. [Next]_readiness
  BY <1>1
<1>14. QED BY <1>1, <1>5, <1>8, <1>11, <1>12, <1>13, OthersKeep

(* The consumer's own steps.                                               *)
LEMMA ReceiveKeeps ==
  ASSUME StreamInv, Receive
  PROVE  /\ StreamInv'
         /\ consumer'.lastSeq >= consumer.lastSeq /\ ~ Older(consumer'.shown, consumer.shown)
<1> DEFINE message == Head(consumer.unread)
           Fits(copies, lastSeq, shown, fromState) ==
             ShownFits(copies, eventSeq, announced[Target], Current, lastSeq, shown, fromState)
<1>1. /\ StreamTypes /\ IInv /\ eventSeq \in Nat
      /\ Target \in Targets /\ Current \in Records
      /\ consumer.unread \in Seq(Copies) /\ consumer.unread # << >>
      /\ consumer.phase = "streaming" /\ ~ consumer.lagged
      /\ UNCHANGED <<readiness, eventSeq, announced, sending>>
  BY DEF StreamInv, StreamTypes, Receive, Target, Current, IInv, Consistent, Typed, ReadinessStates
<1>2. /\ InFlight \in SUBSET Copies /\ announced[Target] \in Records
      /\ consumer.lastSeq \in Nat /\ consumer.shown \in Records
      /\ consumer.readFromState \in BOOLEAN
  BY <1>1, InFlightTyped
<1>3. /\ CopiesFit(InFlight, eventSeq, announced[Target], Current)
      /\ Fits(InFlight, consumer.lastSeq, consumer.shown, consumer.readFromState)
      /\ StillToCome(InFlight, eventSeq, consumer.lastSeq)
  BY <1>1 DEF StreamInv
<1>4. /\ Tail(consumer.unread) \in Seq(Copies) /\ message \in Copies
      /\ Unread = {Tail(consumer.unread)[i] : i \in 1..Len(Tail(consumer.unread))} \cup {message}
  BY <1>1, TailElements DEF Unread
<1> HIDE DEF message
<1>5. message.seq \in Nat /\ message.record \in Records
  BY <1>4 DEF Copies
<1>6. consumer' = IF message.seq <= consumer.lastSeq
                    THEN [consumer EXCEPT !.unread = Tail(consumer.unread)]
                    ELSE [consumer EXCEPT !.unread = Tail(consumer.unread),
                                          !.lastSeq = message.seq, !.shown = message.record,
                                          !.readFromState = FALSE]
  BY DEF Receive, message
<1>7. /\ StreamTypes' /\ consumer'.target = consumer.target
      /\ consumer'.unread = Tail(consumer.unread) /\ consumer'.lagged = consumer.lagged
      /\ IF message.seq <= consumer.lastSeq
           THEN /\ consumer'.lastSeq = consumer.lastSeq /\ consumer'.shown = consumer.shown
                /\ consumer'.readFromState = consumer.readFromState
           ELSE /\ consumer'.lastSeq = message.seq /\ consumer'.shown = message.record
                /\ ~ consumer'.readFromState
  BY <1>1, <1>4, <1>5, <1>6 DEF StreamTypes
<1>8. Held' = Held
  BY <1>1, <1>7 DEF Held
<1>9. InFlight = InFlight' \cup {message}
  BY <1>4, <1>7, <1>8 DEF InFlight, Unread
<1>10. Target' = Target /\ Current' = Current
  BY <1>1, <1>7 DEF Target, Current
<1>11. /\ CopiesFit(InFlight', eventSeq, announced[Target], Current)
       /\ Fits(InFlight', consumer.lastSeq, consumer.shown, consumer.readFromState)
  BY <1>1, <1>2, <1>3, <1>9, AgeOrder, FewerFit
<1>12. CASE message.seq <= consumer.lastSeq
  <2>1. StillToCome(InFlight', eventSeq, consumer.lastSeq)
    BY <1>1, <1>2, <1>3, <1>5, <1>9, <1>12 DEF StillToCome, ShownFits
  <2>2. QED BY <1>1, <1>2, <1>7, <1>10, <1>11, <1>12, <2>1, AgeOrder DEF StreamInv, IInv
<1>13. CASE ~ message.seq <= consumer.lastSeq
  <2>1. message.seq > consumer.lastSeq /\ message \in InFlight
    BY <1>2, <1>5, <1>9, <1>13
  <2>2. ~ Older(message.record, consumer.shown)
    BY <1>3, <2>1 DEF ShownFits
  <2>3. Fits(InFlight', message.seq, message.record, consumer'.readFromState)
    <3>1. \A c \in InFlight' : c.seq > message.seq => ~ Older(c.record, message.record)
      <4>1. \A c \in InFlight' : c \in InFlight /\ c.seq \in Nat
        BY <1>2, <1>9 DEF Copies
      <4>2. QED BY <1>3, <1>5, <2>1, <4>1 DEF CopiesFit
    <3>2. QED BY <1>3, <1>7, <1>13, <2>1, <3>1 DEF CopiesFit, ShownFits
  <2>4. StillToCome(InFlight', eventSeq, message.seq)
    BY <1>1, <1>2, <1>3, <1>5, <1>9, <2>1 DEF StillToCome, CopiesFit
  <2>5. consumer'.lastSeq = message.seq /\ consumer'.shown = message.record
    BY <1>7, <1>13
  <2>6. StreamInv'
    BY <1>1, <1>7, <1>10, <1>11, <2>3, <2>4, <2>5 DEF StreamInv, IInv
  <2>7. QED BY <1>2, <1>5, <2>1, <2>2, <2>5, <2>6
<1>14. QED BY <1>12, <1>13

(* Reading the state, as a baseline or after a lag, shows nothing older    *)
(* than what was shown or announced.                                       *)
LEMMA ReadingKeeps ==
  ASSUME StreamInv, ReadBaseline \/ Resync
  PROVE  /\ StreamInv'
         /\ consumer.phase = "streaming" =>
              consumer'.lastSeq >= consumer.lastSeq /\ ~ Older(consumer'.shown, consumer.shown)
<1>1. /\ StreamTypes /\ IInv /\ eventSeq \in Nat
      /\ Target \in Targets /\ Current \in Records
      /\ UNCHANGED <<readiness, eventSeq, announced, sending>>
      /\ CopiesFit(InFlight, eventSeq, announced[Target], Current)
  BY DEF StreamInv, StreamTypes, ReadBaseline, Resync, Target, Current, IInv, Consistent, Typed,
         ReadinessStates
<1>2. InFlight \in SUBSET Copies /\ announced[Target] \in Records
  BY <1>1, InFlightTyped
<1>3. \/ consumer' = [consumer EXCEPT !.phase = "streaming", !.lastSeq = eventSeq,
                                      !.shown = Current, !.readFromState = TRUE]
      \/ /\ consumer.phase = "streaming"
         /\ consumer' = [consumer EXCEPT !.lagged = FALSE, !.lastSeq = eventSeq,
                                         !.shown = Current, !.readFromState = TRUE]
  BY DEF ReadBaseline, Resync, Current
<1>4. /\ StreamTypes' /\ consumer'.target = consumer.target
      /\ consumer'.unread = consumer.unread /\ consumer'.phase = "streaming"
      /\ consumer'.lastSeq = eventSeq /\ consumer'.shown = Current /\ consumer'.readFromState
  BY <1>1, <1>3 DEF StreamTypes
<1>5. InFlight' = InFlight /\ Target' = Target /\ Current' = Current
  BY <1>1, <1>4 DEF InFlight, Held, Unread, Target, Current
<1>6. ShownFits(InFlight, eventSeq, announced[Target], Current, eventSeq, Current,
                consumer'.readFromState)
  <2>1. \A c \in InFlight : ~ c.seq > eventSeq
    BY <1>1, <1>2 DEF CopiesFit, Copies
  <2>2. ~ Older(Current, Current) /\ ~ Older(Current, announced[Target])
    BY <1>1, AgeOrder DEF CopiesFit
  <2>3. QED BY <1>1, <1>4, <2>1, <2>2 DEF ShownFits
<1>7. StreamInv'
  BY <1>1, <1>4, <1>5, <1>6 DEF StreamInv, IInv, StillToCome
<1>8. consumer.phase = "streaming" =>
        consumer.lastSeq <= eventSeq /\ ~ Older(Current, consumer.shown)
  BY DEF StreamInv, ShownFits
<1>9. consumer.lastSeq \in Nat
  BY <1>1, InFlightTyped
<1>10. QED BY <1>1, <1>4, <1>7, <1>8, <1>9

LEMMA SubscribeKeeps ==
  ASSUME StreamInv, Subscribe
  PROVE  StreamInv'
<1>1. /\ StreamTypes /\ UNCHANGED <<readiness, eventSeq, announced, sending>>
      /\ consumer' = [consumer EXCEPT !.phase = "subscribed"]
  BY DEF StreamInv, Subscribe
<1>2. /\ StreamTypes' /\ consumer'.target = consumer.target
      /\ consumer'.unread = consumer.unread /\ consumer'.phase # "streaming"
  BY <1>1 DEF StreamTypes
<1>3. InFlight' = InFlight /\ Target' = Target /\ Current' = Current
  BY <1>1, <1>2 DEF InFlight, Held, Unread, Target, Current
<1>4. QED BY <1>1, <1>2, <1>3 DEF StreamInv, IInv

LEMMA StreamInitially == StreamInit => StreamInv
<1> SUFFICES ASSUME StreamInit PROVE StreamInv
  OBVIOUS
<1>1. /\ readiness = Bootstrap /\ eventSeq = 0 /\ announced = Bootstrap.rec
      /\ sending = [h \in Handlers |-> NotSending]
  BY DEF StreamInit, Init
<1>2. PICK t \in Watched :
        consumer = [target |-> t, phase |-> "idle", unread |-> << >>, lagged |-> FALSE,
                    lastSeq |-> 0, shown |-> Bootstrap.rec[t], readFromState |-> FALSE]
  BY DEF StreamInit
<1>3. t \in Targets /\ Target = t /\ consumer.phase = "idle" /\ consumer.unread = << >>
  BY <1>2, StreamAssumption DEF Target
<1>4. Bootstrap.rec \in [Targets -> Records] /\ Bootstrap.rec[t] \in Records
  BY <1>3, BootstrapConsistent DEF Consistent, Typed, ReadinessStates
<1>5. StreamTypes
  BY <1>1, <1>2, <1>3, <1>4 DEF StreamTypes, NotSending, Pending
<1>6. InFlight = {}
  BY <1>1, <1>3 DEF InFlight, Held, Unread
<1>7. CopiesFit(InFlight, eventSeq, announced[Target], Current)
  BY <1>1, <1>3, <1>4, <1>6, AgeOrder DEF CopiesFit, Current, Target
<1>8. QED BY <1>1, <1>3, <1>5, <1>7, BootstrapConsistent DEF StreamInv, IInv

(* Every step keeps the invariant and moves the consumer on.               *)
LEMMA StreamStep ==
  ASSUME StreamInv, [StreamNext]_streamVars
  PROVE  /\ StreamInv'
         /\ consumer.phase = "streaming" /\ consumer' # consumer =>
              consumer'.lastSeq >= consumer.lastSeq /\ ~ Older(consumer'.shown, consumer.shown)
<1> DEFINE MovesOn == consumer.phase = "streaming" /\ consumer' # consumer =>
             consumer'.lastSeq >= consumer.lastSeq /\ ~ Older(consumer'.shown, consumer.shown)
<1>1. [Next]_readiness
  BY StreamStepIsReadinessStep DEF streamVars
<1>2. ASSUME NEW h \in Handlers, Announce(h) \/ Silently
      PROVE  StreamInv' /\ MovesOn
  <2>1. consumer' = consumer
    BY <1>2 DEF Announce, Silently
  <2>2. QED BY <1>1, <1>2, <2>1, AnnounceKeeps, SilentlyKeeps
<1>3. ASSUME NEW h \in Handlers,
             \/ \E f \in Reports : HandleReport(h, f)
             \/ \E t \in Targets : HandleInvalidation(h, t)
             \/ HandleRotation(h)
             \/ \E t \in Targets : \E r \in Offered(t) : HandleUpdate(h, t, r)
             \/ HandleSuccess(h)
      PROVE  Announce(h) \/ Silently
  BY <1>3 DEF HandleReport, HandleInvalidation, HandleRotation, HandleUpdate, HandleSuccess
<1>4. ASSUME NEW h \in Handlers, Broadcast(h)
      PROVE  StreamInv' /\ MovesOn
  <2>1. StreamInv'
    BY <1>4, BroadcastKeeps
  <2>2. /\ StreamTypes
        /\ \/ consumer' = consumer
           \/ \E q, l : consumer' = [consumer EXCEPT !.unread = q, !.lagged = l]
    BY <1>4 DEF Broadcast, StreamInv
  <2>3. consumer'.lastSeq = consumer.lastSeq /\ consumer'.shown = consumer.shown
    BY <2>2 DEF StreamTypes
  <2>4. consumer.lastSeq \in Nat /\ consumer.shown \in Records
    BY <2>2, InFlightTyped
  <2>5. QED BY <2>1, <2>3, <2>4, AgeOrder
<1>5. CASE Subscribe
  BY <1>5, SubscribeKeeps DEF Subscribe
<1>6. CASE ReadBaseline \/ Resync
  BY <1>6, ReadingKeeps
<1>7. CASE Receive
  BY <1>7, ReceiveKeeps
<1>8. CASE UNCHANGED streamVars
  <2>1. Silently
    BY <1>8 DEF streamVars, Silently
  <2>2. QED BY <1>1, <1>8, <2>1, SilentlyKeeps DEF streamVars
<1>9. QED BY <1>2, <1>3, <1>4, <1>5, <1>6, <1>7, <1>8 DEF StreamNext

-----------------------------------------------------------------------------
LEMMA StreamInvariant == StreamSpec => []StreamInv
<1>1. StreamInit => StreamInv
  BY StreamInitially
<1>2. StreamInv /\ [StreamNext]_streamVars => StreamInv'
  BY StreamStep
<1>3. QED BY <1>1, <1>2, PTL DEF StreamSpec

(* Once nothing is in flight the consumer shows the last announcement or   *)
(* something no older, for any number of handlers and any capacity of the  *)
(* channel (readiness_records_stream, broadcast_readiness_snapshot).       *)
THEOREM NothingAnnouncedIsEverLost == StreamSpec => []NothingAnnouncedIsLost
<1>1. StreamInv => NothingAnnouncedIsLost
  <2> SUFFICES ASSUME StreamInv, Settled
               PROVE  /\ consumer.lastSeq = eventSeq
                      /\ IF consumer.readFromState
                           THEN ~ Older(consumer.shown, announced[consumer.target])
                           ELSE consumer.shown = announced[consumer.target]
    BY DEF NothingAnnouncedIsLost
  <2>1. InFlight = {}
    BY DEF Settled, InFlight, Held, Unread
  <2>2. /\ StillToCome(InFlight, eventSeq, consumer.lastSeq)
        /\ ShownFits(InFlight, eventSeq, announced[Target], Current,
                     consumer.lastSeq, consumer.shown, consumer.readFromState)
    BY DEF StreamInv, Settled
  <2>3. consumer.lastSeq = eventSeq
    BY <2>1, <2>2 DEF StillToCome
  <2>4. QED BY <2>2, <2>3 DEF ShownFits, Target
<1>2. QED BY <1>1, StreamInvariant, PTL

(* What the consumer shows never goes back, whatever the order in which    *)
(* the handlers send their copies (the last_sequence filter).              *)
THEOREM ConsumerNeverRewinds == StreamSpec => StreamNeverRewinds
<1>1. StreamInv /\ [StreamNext]_streamVars =>
        [consumer.phase = "streaming" => /\ consumer'.lastSeq >= consumer.lastSeq
                                         /\ ~ Older(consumer'.shown, consumer.shown)]_consumer
  BY StreamStep
<1>2. QED BY <1>1, StreamInvariant, PTL DEF StreamSpec, StreamNeverRewinds

-----------------------------------------------------------------------------
(* The command channel.                                                    *)
Batches == [todo : Seq(Commands), phase : {"begun", "running", "done"}]

CommandTypes ==
  /\ queue \in Seq(Commands) /\ Len(queue) <= QueueLimit
  /\ acks \in [Commands -> {"none", "done", "rejected"}]
  /\ expected \in [Commands -> Records]
  /\ caller \in [Commands -> Callers]
  /\ reporting \in BOOLEAN /\ busy \in BOOLEAN
  /\ stack \in Seq(Batches)
  /\ unacked \subseteq Commands /\ overtaken \subseteq Commands
  /\ fate \in [Commands -> Fates]

(* Every command is in one place, and its fate says which.                 *)
StackFits(batches, fates) ==
  \A i \in DOMAIN batches :
    /\ IsInjective(batches[i].todo)
    /\ \A c \in ToSet(batches[i].todo) :
         /\ fates[c] = "delivered"
         /\ \A j \in DOMAIN batches : i # j => c \notin ToSet(batches[j].todo)

OpenCommands ==
  /\ IsInjective(queue) /\ ToSet(queue) = {c \in Commands : fate[c] = "queued"}
  /\ StackFits(stack, fate)

RunsFollowFate == runs = [c \in Commands |-> IF fate[c] = "executed" THEN 1 ELSE 0]

WhatIsSaid ==
  \A c \in Commands :
    /\ caller[c] \in {"idle", "checked", "refused"} => fate[c] = "new"
    /\ caller[c] = "done" \/ acks[c] = "done" \/ c \in unacked => fate[c] = "executed"
    /\ caller[c] = "rejected" \/ acks[c] = "rejected" => fate[c] = "rejected"

(* No expectation is of a preview yet to come, and that of a command that  *)
(* was overtaken is past.                                                  *)
NotNewer(r, s) == r.epoch <= s.epoch /\ r.inc <= s.inc
Past(r, s) == r.epoch < s.epoch \/ r.inc < s.inc

Expectations ==
  /\ \A c \in Commands : NotNewer(expected[c], Preview)
  /\ \A c \in overtaken :
       /\ c \in Guarded /\ caller[c] # "idle" /\ Past(expected[c], Preview)
       /\ fate[c] \in {"new", "queued", "expired", "rejected"}

CommandInv ==
  IInv /\ CommandTypes /\ OpenCommands /\ RunsFollowFate /\ WhatIsSaid /\ Expectations

-----------------------------------------------------------------------------
LEMMA DropProperties ==
  ASSUME NEW S, NEW q \in Seq(S), NEW n \in 0..Len(q)
  PROVE  /\ SubSeq(q, n + 1, Len(q)) \in Seq(S)
         /\ Len(SubSeq(q, n + 1, Len(q))) = Len(q) - n
         /\ \A i \in 1..Len(SubSeq(q, n + 1, Len(q))) :
              SubSeq(q, n + 1, Len(q))[i] = q[n + i]
<1>1. Len(q) \in Nat /\ n \in Nat /\ n <= Len(q) /\ \A i \in 1..Len(q) : q[i] \in S
  BY LenProperties, ElementOfSeq
<1>2. n + 1 \in Int /\ Len(q) \in Int /\ \A i \in (n + 1)..Len(q) : q[i] \in S
  BY <1>1
<1>3. /\ SubSeq(q, n + 1, Len(q)) \in Seq(S)
      /\ Len(SubSeq(q, n + 1, Len(q))) =
           IF n + 1 <= Len(q) THEN Len(q) - (n + 1) + 1 ELSE 0
      /\ \A i \in 1..(Len(q) - (n + 1) + 1) :
           SubSeq(q, n + 1, Len(q))[i] = q[(n + 1) + i - 1]
  BY <1>2, SubSeqProperties
<1>4. Len(SubSeq(q, n + 1, Len(q))) = Len(q) - n
  BY <1>1, <1>3
<1>5. \A i \in 1..(Len(q) - n) : (n + 1) + i - 1 = n + i /\ i \in 1..(Len(q) - (n + 1) + 1)
  BY <1>1
<1> QED
  BY <1>3, <1>4, <1>5

LEMMA QueueParts ==
  ASSUME queue \in Seq(Commands), IsInjective(queue), NEW n \in 0..Len(queue)
  PROVE  /\ Remaining(n) \in Seq(Commands) /\ IsInjective(Remaining(n))
         /\ Len(Remaining(n)) <= Len(queue)
         /\ ToSet(Remaining(n)) = ToSet(queue) \ Expired(n)
<1> DEFINE q == Remaining(n)
<1>1. Len(queue) \in Nat /\ DOMAIN queue = 1..Len(queue) /\ n \in Nat /\ n <= Len(queue)
      /\ \A i \in 1..Len(queue) : queue[i] \in Commands
  BY LenProperties, ElementOfSeq
<1>2. /\ q \in Seq(Commands) /\ Len(q) = Len(queue) - n
      /\ \A i \in 1..Len(q) : q[i] = queue[n + i]
  BY DropProperties DEF Remaining
<1>3. DOMAIN q = 1..Len(q)
  BY <1>2, LenProperties
<1> HIDE DEF q
<1>4. IsInjective(q)
  <2> SUFFICES ASSUME NEW i \in DOMAIN q, NEW j \in DOMAIN q, q[i] = q[j] PROVE i = j
    BY DEF IsInjective
  <2>1. n + i \in DOMAIN queue /\ n + j \in DOMAIN queue /\ queue[n + i] = queue[n + j]
    BY <1>1, <1>2, <1>3
  <2>2. n + i = n + j
    BY <2>1 DEF IsInjective
  <2> QED
    BY <1>1, <1>2, <1>3, <2>2
<1>5. ASSUME NEW c \in ToSet(q) PROVE c \in ToSet(queue) \ Expired(n)
  <2>1. PICK i \in DOMAIN q : c = q[i]
    BY DEF ToSet
  <2>2. n + i \in DOMAIN queue /\ c = queue[n + i]
    BY <1>1, <1>2, <1>3, <2>1
  <2>3. \A j \in 1..n : j \in DOMAIN queue /\ j # n + i
    BY <1>1, <1>2, <1>3, <2>1
  <2> QED
    BY <2>2, <2>3 DEF ToSet, Expired, IsInjective
<1>6. ASSUME NEW c \in ToSet(queue) \ Expired(n) PROVE c \in ToSet(q)
  <2>1. PICK i \in DOMAIN queue : c = queue[i]
    BY DEF ToSet
  <2>2. i \notin 1..n
    BY <1>6, <2>1 DEF Expired
  <2>3. i - n \in DOMAIN q /\ q[i - n] = c
    BY <1>1, <1>2, <1>3, <2>1, <2>2
  <2> QED
    BY <2>3 DEF ToSet
<1> QED
  BY <1>1, <1>2, <1>4, <1>5, <1>6 DEF q

LEMMA QueueIsFinite ==
  ASSUME queue \in Seq(Commands), NEW S \in SUBSET ToSet(queue)
  PROVE  S \subseteq Commands /\ IsFiniteSet(S)
<1>1. queue \in [1..Len(queue) -> Commands] /\ Len(queue) \in Nat
  BY LenProperties
<1>2. queue \in Surjection(1..Len(queue), Range(queue)) /\ Range(queue) \subseteq Commands
  BY <1>1, Fun_RangeProperties
<1>3. ToSet(queue) = Range(queue)
  BY DEF ToSet, Range
<1>4. IsFiniteSet(1..Len(queue))
  BY <1>1, FS_Interval
<1>5. IsFiniteSet(Range(queue))
  BY <1>2, <1>4, FS_Surjection
<1> QED
  BY <1>2, <1>3, <1>5, FS_Subset

LEMMA BatchParts ==
  ASSUME NEW S \in SUBSET Commands, IsFiniteSet(S), NEW batch \in BatchesOf(S)
  PROVE  batch \in Seq(Commands) /\ IsInjective(batch) /\ ToSet(batch) \subseteq S
<1>1. batch \in [1..Cardinality(S) -> S] /\ IsInjective(batch)
  BY DEF BatchesOf, SetToSeqs, IsInjective
<1>2. Cardinality(S) \in Nat
  BY FS_CardinalityType
<1> QED
  BY <1>1, <1>2, SeqDef DEF ToSet

(* The stack of batches: fewer batches, a batch with another phase, and a  *)
(* further batch fit.                                                      *)
LEMMA FrontProperties ==
  ASSUME NEW S, NEW q \in Seq(S), q # << >>
  PROVE  /\ Front(q) \in Seq(S) /\ Len(Front(q)) = Len(q) - 1 /\ Len(q) \in Nat \ {0}
         /\ \A i \in 1..Len(Front(q)) : Front(q)[i] = q[i]
<1>1. Len(q) \in Nat \ {0} /\ \A i \in 1..Len(q) : q[i] \in S
  BY LenProperties, ElementOfSeq, EmptySeq
<1> DEFINE n == Len(q) - 1
<1>2. n \in Nat /\ n \in Int /\ n < Len(q)
  BY <1>1
<1> HIDE DEF n
<1>3. \A i \in 1..n : q[i] \in S
  BY <1>1, <1>2
<1>4. /\ SubSeq(q, 1, n) \in Seq(S)
      /\ Len(SubSeq(q, 1, n)) = IF 1 <= n THEN n - 1 + 1 ELSE 0
      /\ \A i \in 1..(n - 1 + 1) : SubSeq(q, 1, n)[i] = q[1 + i - 1]
  BY <1>2, <1>3, SubSeqProperties
<1>5. (IF 1 <= n THEN n - 1 + 1 ELSE 0) = n
      /\ \A i \in 1..n : 1 + i - 1 = i /\ i \in 1..(n - 1 + 1)
  BY <1>2
<1>6. Len(SubSeq(q, 1, n)) = n /\ \A i \in 1..n : SubSeq(q, 1, n)[i] = q[i]
  BY <1>4, <1>5
<1> QED
  BY <1>1, <1>4, <1>6 DEF Front, n

LEMMA TodosAreCommands ==
  ASSUME NEW b \in Seq(Batches)
  PROVE  \A i \in DOMAIN b : b[i] \in Batches /\ ToSet(b[i].todo) \subseteq Commands
<1> SUFFICES ASSUME NEW i \in DOMAIN b
             PROVE  b[i] \in Batches /\ ToSet(b[i].todo) \subseteq Commands
  OBVIOUS
<1>1. b \in [1..Len(b) -> Batches] /\ DOMAIN b = 1..Len(b)
  BY LenProperties
<1>2. b[i] \in Batches
  BY <1>1
<1>3. b[i].todo \in Seq(Commands)
  BY <1>2 DEF Batches
<1>4. b[i].todo \in [1..Len(b[i].todo) -> Commands]
  BY <1>3, LenProperties
<1> QED
  BY <1>2, <1>4 DEF ToSet

LEMMA SameTodosFit ==
  ASSUME NEW b1 \in Seq(Batches), NEW b2, NEW fates, StackFits(b1, fates),
         DOMAIN b2 \subseteq DOMAIN b1,
         \A i \in DOMAIN b2 : b2[i].todo = b1[i].todo
  PROVE  StackFits(b2, fates)
BY DEF StackFits

LEMMA PhaseChange ==
  ASSUME NEW b \in Seq(Batches), b # << >>, NEW p \in {"begun", "running", "done"},
         NEW fates, StackFits(b, fates)
  PROVE  LET c == [b EXCEPT ![Len(b)].phase = p]
         IN  c \in Seq(Batches) /\ StackFits(c, fates)
<1> DEFINE c == [b EXCEPT ![Len(b)].phase = p]
           new == [b[Len(b)] EXCEPT !.phase = p]
<1>1. Len(b) \in Nat \ {0} /\ DOMAIN b = 1..Len(b) /\ b \in [1..Len(b) -> Batches]
  BY LenProperties, EmptySeq
<1>2. b[Len(b)] \in Batches
  BY <1>1
<1>3. new \in Batches /\ new.todo = b[Len(b)].todo
  BY <1>2 DEF Batches
<1>4. c = [b EXCEPT ![Len(b)] = new]
  OBVIOUS
<1> HIDE DEF new, c
<1>5. c \in [1..Len(b) -> Batches] /\ \A i \in 1..Len(b) : c[i].todo = b[i].todo
  BY <1>1, <1>3, <1>4
<1>6. c \in Seq(Batches) /\ DOMAIN c = DOMAIN b
  BY <1>1, <1>5, SeqDef
<1>7. StackFits(c, fates)
  BY <1>1, <1>5, <1>6, SameTodosFit
<1> QED
  BY <1>6, <1>7 DEF c

LEMMA AfterReportFits ==
  ASSUME stack \in Seq(Batches), NEW fates, StackFits(stack, fates)
  PROVE  /\ AfterReport \in Seq(Batches) /\ StackFits(AfterReport, fates)
         /\ \A i \in DOMAIN AfterReport, c \in Commands :
              c \in ToSet(AfterReport[i].todo) => fates[c] = "delivered"
<1>1. AfterReport \in Seq(Batches) /\ StackFits(AfterReport, fates)
  <2>1. CASE stack = << >>
    BY <2>1 DEF AfterReport
  <2>2. CASE stack # << >> /\ Last(stack).phase = "done"
    <3>1. AfterReport = Front(stack)
      BY <2>2 DEF AfterReport
    <3>2. /\ Front(stack) \in Seq(Batches) /\ Len(Front(stack)) = Len(stack) - 1
          /\ Len(stack) \in Nat \ {0}
          /\ \A i \in 1..Len(Front(stack)) : Front(stack)[i] = stack[i]
      BY <2>2, FrontProperties
    <3>3. DOMAIN Front(stack) = 1..Len(Front(stack)) /\ DOMAIN stack = 1..Len(stack)
      BY <3>2, LenProperties
    <3>4. StackFits(Front(stack), fates)
      BY <3>2, <3>3, SameTodosFit
    <3> QED
      BY <3>1, <3>2, <3>4
  <2>3. CASE stack # << >> /\ Last(stack).phase # "done"
    BY <2>3, PhaseChange DEF AfterReport
  <2> QED
    BY <2>1, <2>2, <2>3
<1> QED
  BY <1>1 DEF StackFits

LEMMA FurtherBatchFits ==
  ASSUME NEW b \in Seq(Batches), NEW batch \in Seq(Commands), NEW fates,
         StackFits(b, fates), IsInjective(batch),
         \A c \in ToSet(batch) : fates[c] = "delivered",
         \A i \in DOMAIN b : ToSet(b[i].todo) \cap ToSet(batch) = {}
  PROVE  LET d == Append(b, [todo |-> batch, phase |-> "begun"])
         IN  d \in Seq(Batches) /\ StackFits(d, fates)
<1> DEFINE new == [todo |-> batch, phase |-> "begun"]
           d == Append(b, new)
<1>1. new \in Batches /\ new.todo = batch
  BY DEF Batches
<1> HIDE DEF new
<1>2. /\ d \in Seq(Batches) /\ Len(d) = Len(b) + 1 /\ Len(b) \in Nat
      /\ DOMAIN d = 1..(Len(b) + 1) /\ DOMAIN b = 1..Len(b)
      /\ d[Len(b) + 1] = new /\ \A i \in 1..Len(b) : d[i] = b[i]
  BY <1>1, AppendProperties, LenProperties
<1> HIDE DEF d
<1>3. \A i \in DOMAIN d : i \in DOMAIN b \/ i = Len(b) + 1
  BY <1>2
<1>4. StackFits(d, fates)
  <2> SUFFICES ASSUME NEW i \in DOMAIN d
               PROVE  /\ IsInjective(d[i].todo)
                      /\ \A c \in ToSet(d[i].todo) :
                           /\ fates[c] = "delivered"
                           /\ \A j \in DOMAIN d : i # j => c \notin ToSet(d[j].todo)
    BY DEF StackFits
  <2>1. CASE i \in DOMAIN b
    <3>1. d[i] = b[i]
      BY <1>2, <2>1
    <3>2. /\ IsInjective(b[i].todo)
          /\ \A c \in ToSet(b[i].todo) :
               /\ fates[c] = "delivered"
               /\ \A j \in DOMAIN b : i # j => c \notin ToSet(b[j].todo)
      BY <2>1 DEF StackFits
    <3>3. ASSUME NEW c \in ToSet(b[i].todo), NEW j \in DOMAIN d, i # j
          PROVE  c \notin ToSet(d[j].todo)
      BY <1>1, <1>2, <1>3, <2>1, <3>2, <3>3
    <3> QED
      BY <3>1, <3>2, <3>3
  <2>2. CASE i = Len(b) + 1
    <3>1. d[i].todo = batch
      BY <1>1, <1>2, <2>2
    <3>2. ASSUME NEW c \in ToSet(batch), NEW j \in DOMAIN d, i # j
          PROVE  c \notin ToSet(d[j].todo)
      BY <1>2, <1>3, <2>2, <3>2
    <3> QED
      BY <3>1, <3>2
  <2> QED
    BY <1>3, <2>1, <2>2
<1> QED
  BY <1>2, <1>4 DEF d, new

-----------------------------------------------------------------------------
LEMMA CommandInvInit == CommandsInit => CommandInv
<1> SUFFICES ASSUME CommandsInit PROVE CommandInv
  OBVIOUS
<1>1. IInv /\ readiness = Bootstrap
  BY BootstrapConsistent DEF CommandsInit, Init, IInv
<1>2. Bootstrap.rec["preview"] = [ready |-> FALSE, epoch |-> 0, inc |-> 1, code |-> "unavailable"]
  BY DEF Bootstrap, Targets
<1>3. Bootstrap.rec["preview"] \in Records /\ Preview = Bootstrap.rec["preview"]
  BY <1>1, <1>2 DEF Records, Codes, Preview
<1>4. CommandTypes
  <2>1. << >> \in Seq(Commands) /\ << >> \in Seq(Batches) /\ Len(<< >>) = 0
    BY EmptySeq
  <2>2. Len(<< >>) <= QueueLimit
    BY <2>1, CommandsAssumption
  <2> QED
    BY <1>3, <2>1, <2>2 DEF CommandsInit, CommandTypes, Callers, Fates
<1>5. OpenCommands /\ RunsFollowFate /\ WhatIsSaid
  BY DEF CommandsInit, OpenCommands, StackFits, RunsFollowFate, WhatIsSaid, IsInjective, ToSet
<1>6. Expectations
  BY <1>2, <1>3 DEF CommandsInit, Expectations, NotNewer
<1> QED
  BY <1>1, <1>4, <1>5, <1>6 DEF CommandInv

(* Steps that leave the contract and the expectations alone.               *)
LEMMA ExpectationsStay ==
  ASSUME CommandInv, UNCHANGED <<readiness, expected, overtaken>>,
         \A c \in Commands : caller[c] # "idle" => caller'[c] # "idle",
         \A c \in overtaken : fate'[c] \in {"new", "queued", "expired", "rejected"}
  PROVE  IInv' /\ Expectations'
<1>1. Preview' = Preview /\ overtaken \subseteq Commands
  BY DEF Preview, CommandInv, CommandTypes
<1> QED
  BY <1>1 DEF CommandInv, IInv, Expectations

(* The tool calls.                                                         *)
LEMMA CallToolKeeps == \A c \in Commands : CommandInv /\ CallTool(c) => CommandInv'
<1> SUFFICES ASSUME NEW c \in Commands, CommandInv, CallTool(c) PROVE CommandInv'
  OBVIOUS
<1>1. /\ caller[c] = "idle" /\ caller' = [caller EXCEPT ![c] = "checked"]
      /\ expected' \in {expected, [expected EXCEPT ![c] = Preview]}
      /\ UNCHANGED <<readiness, queue, acks, reporting, stack, busy, unacked, fate, runs, overtaken>>
  BY DEF CallTool, plugin
<1>2. Preview \in Records /\ Preview' = Preview
  BY <1>1 DEF Preview, CommandInv, IInv, Consistent, Typed, ReadinessStates, Targets
<1>3. CommandTypes'
  BY <1>1, <1>2 DEF CommandInv, CommandTypes, Callers
<1>4. OpenCommands' /\ RunsFollowFate' /\ WhatIsSaid'
  BY <1>1 DEF CommandInv, CommandTypes, OpenCommands, RunsFollowFate, WhatIsSaid
<1>5. NotNewer(Preview, Preview)
  BY <1>2 DEF NotNewer, Records
<1>6. c \notin overtaken /\ overtaken \subseteq Commands
  BY <1>1 DEF CommandInv, CommandTypes, Expectations
<1>7. Expectations'
  BY <1>1, <1>2, <1>5, <1>6 DEF CommandInv, CommandTypes, Expectations
<1> QED
  BY <1>1, <1>3, <1>4, <1>7 DEF CommandInv, IInv

LEMMA CallerKeeps ==
  ASSUME NEW c \in Commands, CommandInv, ReadAck(c) \/ GiveUp(c)
  PROVE  CommandInv'
<1>1. /\ caller[c] = "waiting" /\ caller' = [caller EXCEPT ![c] = caller'[c]]
      /\ caller'[c] = "timeout" \/ (caller'[c] = acks[c] /\ acks[c] # "none")
      /\ UNCHANGED <<readiness, queue, acks, expected, reporting, stack, busy, unacked,
                     fate, runs, overtaken>>
  BY DEF ReadAck, GiveUp, plugin, CommandInv, CommandTypes
<1>2. caller'[c] \in {"timeout", "done", "rejected"}
  BY <1>1 DEF CommandInv, CommandTypes
<1>3. CommandTypes' /\ OpenCommands' /\ RunsFollowFate'
  BY <1>1, <1>2 DEF CommandInv, CommandTypes, OpenCommands, RunsFollowFate, Callers
<1>4. \A d \in Commands \ {c} : caller'[d] = caller[d]
  BY <1>1 DEF CommandInv, CommandTypes
<1>5. WhatIsSaid'
  BY <1>1, <1>2, <1>4 DEF CommandInv, WhatIsSaid
<1>6. IInv' /\ Expectations'
  <2>1. \A d \in Commands : caller[d] # "idle" => caller'[d] # "idle"
    BY <1>2, <1>4
  <2>2. \A d \in overtaken : fate'[d] \in {"new", "queued", "expired", "rejected"}
    BY <1>1 DEF CommandInv, Expectations
  <2> QED
    BY <1>1, <2>1, <2>2, ExpectationsStay
<1> QED
  BY <1>3, <1>5, <1>6 DEF CommandInv

(* Whatever acknowledgments are kept, they were there.                     *)
LEMMA KeptAcks ==
  ASSUME CommandInv, NEW kept \in AcksKept
  PROVE  /\ kept \in [Commands -> {"none", "done", "rejected"}]
         /\ \A c \in Commands : kept[c] = acks[c] \/ kept[c] = "none"
BY DEF AcksKept, CommandInv, CommandTypes

LEMMA EnqueueKeeps ==
  ASSUME NEW c \in Commands, CommandInv, Enqueue(c)
  PROVE  CommandInv'
<1>1. /\ caller[c] = "checked" /\ acks' \in AcksKept
      /\ UNCHANGED <<readiness, expected, reporting, stack, busy, unacked, runs, overtaken>>
  BY DEF Enqueue, plugin
<1>2. PICK n \in 0..Len(queue) :
        LET expiring == Mark(fate, Expired(n), "expired") IN
        IF Full(Remaining(n))
          THEN /\ queue' = Remaining(n)
               /\ fate' = expiring
               /\ caller' = [caller EXCEPT ![c] = "refused"]
          ELSE /\ queue' = Append(Remaining(n), c)
               /\ fate' = [expiring EXCEPT ![c] = "queued"]
               /\ caller' = [caller EXCEPT ![c] = "waiting"]
  BY DEF Enqueue
<1> DEFINE expiring == Mark(fate, Expired(n), "expired")
           q == Remaining(n)
<1>3. /\ queue \in Seq(Commands) /\ IsInjective(queue) /\ Len(queue) <= QueueLimit
      /\ ToSet(queue) = {d \in Commands : fate[d] = "queued"}
      /\ fate \in [Commands -> Fates] /\ caller \in [Commands -> Callers]
  BY DEF CommandInv, CommandTypes, OpenCommands
<1>4. /\ q \in Seq(Commands) /\ IsInjective(q) /\ Len(q) <= Len(queue) /\ Len(queue) \in Nat
      /\ ToSet(q) = ToSet(queue) \ Expired(n) /\ Len(q) \in Nat
  BY <1>3, QueueParts, LenProperties
<1>5. Expired(n) \subseteq ToSet(queue)
  <2>1. \A i \in 1..n : i \in DOMAIN queue
    BY <1>3, LenProperties
  <2> QED
    BY <2>1 DEF Expired, ToSet
<1>6. \A d \in Commands : expiring[d] = IF d \in Expired(n) THEN "expired" ELSE fate[d]
  BY DEF Mark
<1>7. expiring \in [Commands -> Fates] /\ ToSet(q) = {d \in Commands : expiring[d] = "queued"}
  BY <1>3, <1>4, <1>6 DEF Mark, Fates
<1>8. fate[c] = "new" /\ c \notin ToSet(queue) /\ expiring[c] = "new"
  BY <1>1, <1>3, <1>5, <1>6 DEF CommandInv, WhatIsSaid
<1>9. \A d \in Commands \ {c} : fate'[d] = expiring[d] /\ caller'[d] = caller[d]
  BY <1>2, <1>3, <1>7
<1>10. (fate'[c] = "new" /\ caller'[c] = "refused") \/ (fate'[c] = "queued" /\ caller'[c] = "waiting")
  BY <1>2, <1>3, <1>7, <1>8
<1>11. fate' \in [Commands -> Fates] /\ caller' \in [Commands -> Callers]
  BY <1>2, <1>3, <1>7 DEF Fates, Callers
<1>12. /\ queue' \in Seq(Commands) /\ Len(queue') <= QueueLimit /\ IsInjective(queue')
       /\ ToSet(queue') = {d \in Commands : fate'[d] = "queued"}
  <2>1. CASE Full(q)
    BY <1>2, <1>3, <1>4, <1>7, <2>1, CommandsAssumption
  <2>2. CASE ~Full(q)
    <3>1. /\ queue' = Append(q, c) /\ queue' \in Seq(Commands) /\ Len(queue') = Len(q) + 1
          /\ queue'[Len(q) + 1] = c /\ \A i \in 1..Len(q) : queue'[i] = q[i]
          /\ DOMAIN queue' = 1..(Len(q) + 1) /\ DOMAIN q = 1..Len(q)
      BY <1>2, <1>4, <2>2, AppendProperties, LenProperties
    <3>2. c \notin ToSet(q)
      BY <1>4, <1>8
    <3>3. \A i \in DOMAIN queue' : i \in DOMAIN q \/ i = Len(q) + 1
      BY <1>4, <3>1
    <3>4. IsInjective(queue')
      BY <1>4, <3>1, <3>2, <3>3 DEF IsInjective, ToSet
    <3>5. ToSet(queue') = ToSet(q) \cup {c}
      <4>1. Len(q) + 1 \in DOMAIN queue' /\ \A i \in DOMAIN q : i \in DOMAIN queue'
        BY <1>4, <3>1
      <4> QED
        BY <3>1, <3>3, <4>1 DEF ToSet
    <3>6. fate'[c] = "queued"
      BY <1>2, <1>7, <2>2
    <3>7. Len(queue') <= QueueLimit
      BY <1>4, <2>2, <3>1, CommandsAssumption DEF Full
    <3> QED
      BY <1>7, <1>9, <3>1, <3>4, <3>5, <3>6, <3>7
  <2> QED
    BY <2>1, <2>2
<1>13. /\ acks' \in [Commands -> {"none", "done", "rejected"}]
       /\ \A d \in Commands : acks'[d] = acks[d] \/ acks'[d] = "none"
  BY <1>1, KeptAcks
<1>14. CommandTypes'
  BY <1>1, <1>11, <1>12, <1>13 DEF CommandInv, CommandTypes
<1>15. \A d \in Commands : fate'[d] # fate[d] => fate[d] \in {"new", "queued"} /\ fate'[d] \in {"queued", "expired"}
  BY <1>3, <1>5, <1>6, <1>8, <1>9, <1>10
<1>16. OpenCommands'
  <2>1. \A i \in DOMAIN stack : ToSet(stack[i].todo) \subseteq Commands
    BY TodosAreCommands DEF CommandInv, CommandTypes
  <2>2. StackFits(stack, fate')
    BY <1>15, <2>1 DEF CommandInv, OpenCommands, StackFits
  <2> QED
    BY <1>1, <1>12, <2>2 DEF OpenCommands
<1>17. RunsFollowFate'
  BY <1>1, <1>15 DEF CommandInv, RunsFollowFate
<1>18. WhatIsSaid'
  BY <1>1, <1>6, <1>8, <1>9, <1>10, <1>13, <1>15, <1>3, <1>5 DEF CommandInv, WhatIsSaid
<1>19. IInv' /\ Expectations'
  <2>1. \A d \in overtaken : fate'[d] \in {"new", "queued", "expired", "rejected"} /\ d \in Commands
    BY <1>15 DEF CommandInv, CommandTypes, Expectations
  <2> QED
    BY <1>1, <1>9, <1>10, <2>1, ExpectationsStay
<1> QED
  BY <1>14, <1>16, <1>17, <1>18, <1>19 DEF CommandInv

-----------------------------------------------------------------------------
(* The plugin reports: the state may move on, and what relied on a preview *)
(* that is lost now names a version that is past.                          *)
LEMMA ReportKeeps ==
  ASSUME NEW f \in PluginReports, CommandInv, Report(f)
  PROVE  CommandInv'
<1>1. /\ MergePluginStateFacts(f) /\ reporting' = TRUE
      /\ overtaken' = IF Preview.ready /\ ~ Preview'.ready
                        THEN overtaken \cup {c \in Guarded : caller[c] = "checked" \/ fate[c] = "queued"}
                        ELSE overtaken
      /\ UNCHANGED <<queue, acks, expected, caller, stack, busy, unacked, fate, runs>>
  BY DEF Report
<1>2. IInv' /\ Follows(readiness, readiness') /\ IInv
  <2>1. LosingNext
    BY <1>1, CommandsAssumption DEF LosingNext, ServerNext
  <2> QED
    BY <2>1, LosingStep DEF CommandInv
<1>3. Preview \in Records /\ Preview' \in Records
      /\ Preview.inc = readiness.incarnation /\ Preview'.inc = readiness'.incarnation
  BY <1>2 DEF Preview, IInv, Consistent, Typed, Ordered, ReadinessStates, Targets
<1>4. NotNewer(Preview, Preview')
  BY <1>2, <1>3 DEF NotNewer, Follows, NotBefore, Preview, Targets
<1>5. Preview.ready /\ ~ Preview'.ready => Past(Preview, Preview')
  BY <1>2, <1>3 DEF Past, Follows, Preview, Targets
<1>6. \A c \in Commands : /\ expected[c] \in Records
                          /\ expected[c].epoch \in Nat /\ expected[c].inc \in Nat
                          /\ NotNewer(expected[c], Preview)
  BY DEF CommandInv, CommandTypes, Expectations, Records
<1>7. Preview.epoch \in Nat /\ Preview.inc \in Nat /\ Preview'.epoch \in Nat /\ Preview'.inc \in Nat
  BY <1>3 DEF Records
<1>8. \A c \in Commands :
        /\ NotNewer(expected[c], Preview')
        /\ Past(expected[c], Preview) => Past(expected[c], Preview')
        /\ Past(Preview, Preview') => Past(expected[c], Preview')
  BY <1>4, <1>6, <1>7 DEF NotNewer, Past
<1>9. \A c \in overtaken' : c \in overtaken \/
        (c \in Guarded /\ caller[c] # "idle" /\ fate[c] \in {"new", "queued"} /\ Past(Preview, Preview'))
  BY <1>1, <1>5, CommandsAssumption DEF CommandInv, WhatIsSaid
<1>10. overtaken' \subseteq Commands
  BY <1>1, CommandsAssumption DEF CommandInv, CommandTypes
<1>11. Expectations'
  BY <1>1, <1>8, <1>9, <1>10, CommandsAssumption DEF CommandInv, Expectations
<1>12. CommandTypes' /\ OpenCommands' /\ RunsFollowFate' /\ WhatIsSaid'
  BY <1>1, <1>10 DEF CommandInv, CommandTypes, OpenCommands, RunsFollowFate, WhatIsSaid
<1> QED
  BY <1>2, <1>11, <1>12 DEF CommandInv

(* The answer to a report empties the queue: what has expired, what is     *)
(* stale and what is handed out each get their fate.                       *)
LEMMA AnswerKeeps == CommandInv /\ Answer => CommandInv'
<1> SUFFICES ASSUME CommandInv, Answer PROVE CommandInv'
  OBVIOUS
<1>1. UNCHANGED <<readiness, expected, caller, unacked, runs, overtaken>>
  BY DEF Answer
<1>2. PICK n \in 0..Len(queue), kept \in AcksKept, arrives \in BOOLEAN :
        LET accepted == Accepted(n)
            stale == {c \in ToSet(Remaining(n)) : ~ Acceptable(c)}
        IN  /\ queue' = Undrained(n)
            /\ acks' = Mark(kept, stale, "rejected")
            /\ fate' = Mark(Mark(Mark(fate, Expired(n), "expired"), stale, "rejected"),
                            accepted, IF arrives THEN "delivered" ELSE "lost")
            /\ \E batch \in BatchesOf(accepted) : Deliver(batch, arrives)
  BY DEF Answer
<1> DEFINE accepted == Accepted(n)
           stale == {c \in ToSet(Remaining(n)) : ~ Acceptable(c)}
<1>3. PICK batch \in BatchesOf(accepted) : Deliver(batch, arrives)
  BY <1>2
<1>4. /\ queue \in Seq(Commands) /\ IsInjective(queue)
      /\ ToSet(queue) = {d \in Commands : fate[d] = "queued"}
      /\ fate \in [Commands -> Fates] /\ stack \in Seq(Batches) /\ StackFits(stack, fate)
  BY DEF CommandInv, CommandTypes, OpenCommands
<1>5. Expired(n) \subseteq ToSet(queue) /\ ToSet(Remaining(n)) = ToSet(queue) \ Expired(n)
  <2>1. \A i \in 1..n : i \in DOMAIN queue
    BY <1>4, LenProperties
  <2> QED
    BY <1>4, <2>1, QueueParts DEF Expired, ToSet
<1>6. /\ accepted \subseteq ToSet(queue) /\ stale \subseteq ToSet(queue)
      /\ ToSet(queue) = accepted \cup stale \cup Expired(n)
      /\ \A d \in accepted : Acceptable(d)
  BY <1>5 DEF Accepted
<1>7. /\ queue' = << >> /\ acks' = Mark(kept, stale, "rejected")
      /\ fate' = Mark(Mark(Mark(fate, Expired(n), "expired"), stale, "rejected"),
                      accepted, IF arrives THEN "delivered" ELSE "lost")
  BY <1>2 DEF Undrained
<1> HIDE DEF accepted, stale
<1>8. /\ \A d \in accepted : fate'[d] = IF arrives THEN "delivered" ELSE "lost"
      /\ \A d \in stale \ accepted : fate'[d] = "rejected"
      /\ \A d \in Expired(n) \ (accepted \cup stale) : fate'[d] = "expired"
      /\ \A d \in Commands \ ToSet(queue) : fate'[d] = fate[d]
      /\ DOMAIN fate' = Commands /\ fate' = [d \in Commands |-> fate'[d]]
  BY <1>4, <1>6, <1>7 DEF Mark
<1>9. stale \cap accepted = {}
  BY DEF stale, accepted, Accepted
<1>10. \A d \in Commands :
         \/ fate'[d] = fate[d] /\ fate[d] # "queued"
         \/ fate[d] = "queued" /\ fate'[d] \in {"expired", "rejected", "delivered", "lost"}
  BY <1>4, <1>6, <1>8
<1>11. fate' \in [Commands -> Fates]
  <2>1. \A d \in Commands : fate'[d] \in Fates
    BY <1>4, <1>10 DEF Fates
  <2> QED
    BY <1>8, <2>1
<1>12. /\ acks' \in [Commands -> {"none", "done", "rejected"}]
       /\ \A d \in Commands : d \in stale \/ acks'[d] = acks[d] \/ acks'[d] = "none"
       /\ \A d \in stale : d \in Commands => acks'[d] = "rejected"
  <2>1. /\ kept \in [Commands -> {"none", "done", "rejected"}]
        /\ \A d \in Commands : kept[d] = acks[d] \/ kept[d] = "none"
    BY KeptAcks
  <2> QED
    BY <1>7, <2>1 DEF Mark
<1>13. batch \in Seq(Commands) /\ IsInjective(batch) /\ ToSet(batch) \subseteq accepted
  BY <1>3, <1>4, <1>6, QueueIsFinite, BatchParts
<1>14. StackFits(stack, fate')
  <2>1. \A i \in DOMAIN stack : ToSet(stack[i].todo) \subseteq Commands
    BY <1>4, TodosAreCommands
  <2> QED
    BY <1>4, <1>10, <2>1 DEF StackFits
<1>15. stack' \in Seq(Batches) /\ StackFits(stack', fate') /\ busy' \in BOOLEAN
  <2>1. /\ AfterReport \in Seq(Batches) /\ StackFits(AfterReport, fate')
        /\ \A i \in DOMAIN AfterReport, c \in Commands :
              c \in ToSet(AfterReport[i].todo) => fate[c] = "delivered"
    BY <1>4, <1>14, AfterReportFits
  <2>2. CASE arrives /\ batch # << >>
    <3>1. /\ stack' = Append(AfterReport, [todo |-> batch, phase |-> "begun"]) /\ busy' = TRUE
      BY <1>3, <2>2 DEF Deliver
    <3>2. \A c \in ToSet(batch) : fate'[c] = "delivered" /\ fate[c] = "queued" /\ c \in Commands
      BY <1>4, <1>6, <1>8, <1>13, <2>2
    <3>3. \A i \in DOMAIN AfterReport : ToSet(AfterReport[i].todo) \cap ToSet(batch) = {}
      BY <2>1, <3>2
    <3> QED
      BY <1>13, <2>1, <3>1, <3>2, <3>3, FurtherBatchFits
  <2>3. CASE ~(arrives /\ batch # << >>)
    BY <1>3, <2>1, <2>3 DEF Deliver, CommandInv, CommandTypes
  <2> QED
    BY <2>2, <2>3
<1>16. reporting' = FALSE
  BY <1>3 DEF Deliver
<1>17. CommandTypes'
  <2>1. << >> \in Seq(Commands) /\ Len(<< >>) <= QueueLimit
    BY EmptySeq, CommandsAssumption
  <2> QED
    BY <1>1, <1>7, <1>11, <1>12, <1>15, <1>16, <2>1 DEF CommandInv, CommandTypes
<1>18. OpenCommands'
  <2>1. IsInjective(<< >>) /\ ToSet(<< >>) = {}
    BY DEF IsInjective, ToSet
  <2> QED
    BY <1>7, <1>10, <1>15, <2>1 DEF OpenCommands
<1>19. RunsFollowFate'
  BY <1>1, <1>10 DEF CommandInv, RunsFollowFate
<1>20. WhatIsSaid'
  <2>1. \A d \in stale : fate'[d] = "rejected"
    BY <1>8, <1>9
  <2> QED
    BY <1>1, <1>10, <1>12, <2>1 DEF CommandInv, WhatIsSaid
<1>21. IInv' /\ Expectations'
  <2>1. ASSUME NEW c \in overtaken
        PROVE  fate'[c] \in {"new", "queued", "expired", "rejected"}
    <3>1. /\ c \in Guarded /\ c \in Commands /\ Past(expected[c], Preview)
          /\ NotNewer(expected[c], Preview)
          /\ fate[c] \in {"new", "queued", "expired", "rejected"}
      BY <2>1 DEF CommandInv, CommandTypes, Expectations
    <3>2. expected[c] \in Records /\ Preview \in Records
      BY <3>1 DEF Preview, CommandInv, CommandTypes, IInv, Consistent, Typed, ReadinessStates, Targets
    <3>3. c \notin accepted
      BY <1>6, <3>1, <3>2 DEF Acceptable, MeetsExpectation, Preview, Past, Records
    <3> QED
      BY <1>4, <1>6, <1>8, <3>1, <3>3
  <2> QED
    BY <1>1, <2>1, ExpectationsStay
<1> QED
  BY <1>17, <1>18, <1>19, <1>20, <1>21 DEF CommandInv

-----------------------------------------------------------------------------
(* The plugin at work.                                                     *)
LEMMA BatchChangeKeeps ==
  ASSUME CommandInv, LoseReport \/ FinishBatch
  PROVE  CommandInv'
<1>1. /\ UNCHANGED <<readiness, queue, acks, expected, caller, reporting, unacked, fate, runs, overtaken>>
      /\ busy' \in BOOLEAN /\ stack # << >>
      /\ stack' = AfterReport \/ stack' = [stack EXCEPT ![Len(stack)].phase = "done"]
  BY DEF LoseReport, FinishBatch, CommandInv, CommandTypes
<1>2. stack \in Seq(Batches) /\ StackFits(stack, fate)
  BY DEF CommandInv, CommandTypes, OpenCommands
<1>3. stack' \in Seq(Batches) /\ StackFits(stack', fate)
  BY <1>1, <1>2, AfterReportFits, PhaseChange
<1>4. CommandTypes' /\ OpenCommands' /\ RunsFollowFate' /\ WhatIsSaid'
  BY <1>1, <1>3 DEF CommandInv, CommandTypes, OpenCommands, RunsFollowFate, WhatIsSaid
<1>5. IInv' /\ Expectations'
  <2>1. \A c \in overtaken : fate'[c] \in {"new", "queued", "expired", "rejected"}
    BY <1>1 DEF CommandInv, Expectations
  <2> QED
    BY <1>1, <2>1, ExpectationsStay
<1> QED
  BY <1>4, <1>5 DEF CommandInv

LEMMA HeadLeaves ==
  ASSUME NEW S, NEW q \in Seq(S), q # << >>, IsInjective(q)
  PROVE  /\ Tail(q) \in Seq(S) /\ IsInjective(Tail(q))
         /\ Head(q) \in ToSet(q) /\ ToSet(Tail(q)) \subseteq ToSet(q) \ {Head(q)}
<1>1. /\ Tail(q) \in Seq(S) /\ Len(Tail(q)) = Len(q) - 1 /\ Len(q) \in Nat \ {0}
      /\ \A i \in 1..Len(Tail(q)) : Tail(q)[i] = q[i + 1]
      /\ DOMAIN q = 1..Len(q) /\ DOMAIN Tail(q) = 1..Len(Tail(q)) /\ Head(q) = q[1]
  BY HeadTailProperties, LenProperties, EmptySeq
<1>2. \A i \in DOMAIN Tail(q) : i + 1 \in DOMAIN q /\ 1 \in DOMAIN q /\ i + 1 # 1
  BY <1>1
<1>3. IsInjective(Tail(q))
  BY <1>1 DEF IsInjective
<1>4. ASSUME NEW x \in ToSet(Tail(q)) PROVE x \in ToSet(q) \ {Head(q)}
  <2>1. PICK i \in DOMAIN Tail(q) : x = Tail(q)[i]
    BY DEF ToSet
  <2>2. x = q[i + 1] /\ i + 1 \in DOMAIN q /\ 1 \in DOMAIN q /\ i + 1 # 1
    BY <1>1, <1>2, <2>1
  <2> QED
    BY <1>1, <2>2 DEF ToSet, IsInjective
<1>5. Head(q) \in ToSet(q)
  BY <1>1 DEF ToSet
<1> QED
  BY <1>1, <1>3, <1>4, <1>5

LEMMA ExecuteKeeps == CommandInv /\ Execute => CommandInv'
<1> SUFFICES ASSUME CommandInv, Execute PROVE CommandInv'
  OBVIOUS
<1> DEFINE top == Len(stack)
           todo == stack[top].todo
           c == Head(todo)
<1>1. /\ stack # << >> /\ todo # << >>
      /\ runs' = [runs EXCEPT ![c] = @ + 1] /\ fate' = [fate EXCEPT ![c] = "executed"]
      /\ unacked' = unacked \cup {c}
      /\ stack' = [stack EXCEPT ![top].todo = Tail(@)]
      /\ UNCHANGED <<readiness, queue, acks, expected, caller, reporting, busy, overtaken>>
  BY DEF Execute, Last
<1>2. stack \in Seq(Batches) /\ StackFits(stack, fate) /\ fate \in [Commands -> Fates]
      /\ unacked \subseteq Commands
  BY DEF CommandInv, CommandTypes, OpenCommands
<1>3. /\ top \in Nat \ {0} /\ DOMAIN stack = 1..top /\ stack \in [1..top -> Batches]
      /\ top \in DOMAIN stack
  BY <1>1, <1>2, LenProperties, EmptySeq
<1>4. /\ stack[top] \in Batches /\ IsInjective(todo) /\ todo \in Seq(Commands)
      /\ stack[top] = [todo |-> todo, phase |-> stack[top].phase]
  BY <1>2, <1>3 DEF StackFits, Batches
<1>5. /\ Tail(todo) \in Seq(Commands) /\ IsInjective(Tail(todo))
      /\ c \in ToSet(todo) /\ ToSet(Tail(todo)) \subseteq ToSet(todo) \ {c}
  BY <1>1, <1>4, HeadLeaves
<1>6. c \in Commands /\ fate[c] = "delivered"
  BY <1>2, <1>3, <1>5, TodosAreCommands DEF StackFits
<1> DEFINE new == [todo |-> Tail(todo), phase |-> stack[top].phase]
<1>7. stack' = [stack EXCEPT ![top] = new]
  <2>1. stack' = [stack EXCEPT ![top] = [stack[top] EXCEPT !.todo = Tail(todo)]]
    BY <1>1
  <2>2. ASSUME NEW b \in Batches, NEW t
        PROVE  [b EXCEPT !.todo = t] = [todo |-> t, phase |-> b.phase]
    BY DEF Batches
  <2>3. [stack[top] EXCEPT !.todo = Tail(todo)] = new
    BY <1>4, <2>2
  <2> QED
    BY <2>1, <2>3
<1>8. new \in Batches /\ new.todo = Tail(todo)
  BY <1>4, <1>5 DEF Batches
<1> HIDE DEF new
<1>9. /\ stack' \in [1..top -> Batches] /\ stack' \in Seq(Batches) /\ DOMAIN stack' = DOMAIN stack
      /\ stack'[top] = new /\ \A i \in DOMAIN stack \ {top} : stack'[i] = stack[i]
  BY <1>3, <1>7, <1>8, SeqDef
<1>10. fate' \in [Commands -> Fates] /\ fate'[c] = "executed"
       /\ \A d \in Commands \ {c} : fate'[d] = fate[d]
  BY <1>1, <1>2, <1>6 DEF Fates
<1>11. StackFits(stack', fate')
  <2>1. \A i \in DOMAIN stack : ToSet(stack'[i].todo) \subseteq ToSet(stack[i].todo) \ {c}
    BY <1>2, <1>3, <1>5, <1>8, <1>9 DEF StackFits
  <2>2. \A i \in DOMAIN stack : IsInjective(stack'[i].todo)
    BY <1>2, <1>5, <1>8, <1>9 DEF StackFits
  <2>3. \A i \in DOMAIN stack : ToSet(stack[i].todo) \subseteq Commands
    BY <1>2, TodosAreCommands
  <2> HIDE DEF todo, c
  <2>4. ASSUME NEW i \in DOMAIN stack, NEW d \in ToSet(stack'[i].todo)
        PROVE  /\ fate'[d] = "delivered"
               /\ \A j \in DOMAIN stack : i # j => d \notin ToSet(stack'[j].todo)
    <3>1. d \in ToSet(stack[i].todo) /\ d # c /\ d \in Commands
      BY <2>1, <2>3, <2>4
    <3>2. fate[d] = "delivered" /\ \A j \in DOMAIN stack : i # j => d \notin ToSet(stack[j].todo)
      BY <1>2, <3>1 DEF StackFits
    <3> QED
      BY <1>10, <2>1, <3>1, <3>2
  <2> QED
    BY <1>9, <2>2, <2>4 DEF StackFits
<1> HIDE DEF c, todo, top
<1>12. CommandTypes'
  BY <1>1, <1>6, <1>9, <1>10 DEF CommandInv, CommandTypes
<1>13. OpenCommands'
  BY <1>1, <1>6, <1>10, <1>11 DEF CommandInv, OpenCommands
<1>14. RunsFollowFate'
  BY <1>1, <1>6, <1>10 DEF CommandInv, RunsFollowFate
<1>15. WhatIsSaid'
  BY <1>1, <1>6, <1>10 DEF CommandInv, WhatIsSaid
<1>16. IInv' /\ Expectations'
  <2>1. c \notin overtaken
    BY <1>6 DEF CommandInv, Expectations
  <2>2. \A d \in overtaken : fate'[d] \in {"new", "queued", "expired", "rejected"}
    BY <1>10, <2>1 DEF CommandInv, CommandTypes, Expectations
  <2> QED
    BY <1>1, <2>2, ExpectationsStay
<1> QED
  BY <1>12, <1>13, <1>14, <1>15, <1>16 DEF CommandInv

LEMMA AcknowledgeKeeps ==
  ASSUME NEW c \in Commands, CommandInv, Acknowledge(c)
  PROVE  CommandInv'
<1>1. /\ c \in unacked /\ unacked' = unacked \ {c}
      /\ acks' \in {acks, [acks EXCEPT ![c] = "done"]}
      /\ UNCHANGED <<readiness, queue, expected, caller, reporting, stack, busy, fate, runs, overtaken>>
  BY DEF Acknowledge
<1>2. CommandTypes' /\ OpenCommands' /\ RunsFollowFate'
  BY <1>1 DEF CommandInv, CommandTypes, OpenCommands, RunsFollowFate
<1>3. WhatIsSaid'
  BY <1>1 DEF CommandInv, CommandTypes, WhatIsSaid
<1>4. IInv' /\ Expectations'
  <2>1. \A d \in overtaken : fate'[d] \in {"new", "queued", "expired", "rejected"}
    BY <1>1 DEF CommandInv, Expectations
  <2> QED
    BY <1>1, <2>1, ExpectationsStay
<1> QED
  BY <1>2, <1>3, <1>4 DEF CommandInv

LEMMA CommandInvStep == CommandInv /\ [CommandsNext]_commandVars => CommandInv'
<1>1. CASE UNCHANGED commandVars
  <2>1. UNCHANGED <<readiness, queue, acks, expected, caller, reporting, stack, busy, unacked,
                   fate, runs, overtaken>>
    BY <1>1 DEF commandVars, plugin
  <2> QED
    BY <2>1 DEF CommandInv, IInv, CommandTypes, OpenCommands, RunsFollowFate, WhatIsSaid,
       Expectations, Preview
<1>2. CASE CommandsNext
  BY <1>2, CallToolKeeps, EnqueueKeeps, CallerKeeps, AcknowledgeKeeps, ReportKeeps, AnswerKeeps,
     ExecuteKeeps, BatchChangeKeeps DEF CommandsNext, PluginStep
<1> QED
  BY <1>1, <1>2

LEMMA CommandInvariant == CommandsSpec => []CommandInv
  BY CommandInvInit, CommandInvStep, PTL DEF CommandsSpec

(* The command channel implements the readiness contract as the server     *)
(* uses it (handle_post_plugin_state).                                     *)
THEOREM CommandsKeepContract == CommandsSpec => ServerSpec
<1>1. CommandsInit => Init
  BY DEF CommandsInit
<1>2. [CommandsNext]_commandVars => [ServerNext]_readiness
  BY CommandsAssumption DEF CommandsNext, PluginStep, CallTool, Enqueue, ReadAck, GiveUp,
     Acknowledge, Report, Answer, Execute, FinishBatch, LoseReport, ServerNext, commandVars
<1> QED
  BY <1>1, <1>2, PTL DEF CommandsSpec, ServerSpec

(* Types, the bound of the queue, and that the queue holds exactly the     *)
(* commands whose fate is open (exec_sync_plugin_command).                 *)
THEOREM CommandTypesHold == CommandsSpec => []CommandsTypeOK
<1>1. CommandInv => CommandsTypeOK
  <2> SUFFICES ASSUME CommandInv PROVE CommandsTypeOK
    OBVIOUS
  <2>1. TypeOK
    BY DEF CommandInv, IInv, Consistent, Typed, TypeOK
  <2>2. runs \in [Commands -> Nat]
    BY DEF CommandInv, RunsFollowFate
  <2> QED
    BY <2>1, <2>2 DEF CommandInv, CommandTypes, OpenCommands, CommandsTypeOK, Batches
<1> QED
  BY <1>1, CommandInvariant, PTL

(* No command runs twice (drain_ready_plugin_commands,                     *)
(* processPluginCommands).                                                 *)
THEOREM CommandsRunOnce == CommandsSpec => []RunsAtMostOnce
<1>1. CommandInv => RunsAtMostOnce
  BY DEF CommandInv, RunsFollowFate, RunsAtMostOnce
<1> QED
  BY <1>1, CommandInvariant, PTL

(* What a caller is told of its command is so (exec_sync_plugin_command,   *)
(* record_plugin_command_rejection, handle_plugin_command_ack).            *)
THEOREM CallersAreToldTheTruth == CommandsSpec => []AnswersAreTrue
<1>1. CommandInv => AnswersAreTrue
  BY DEF CommandInv, RunsFollowFate, WhatIsSaid, AnswersAreTrue
<1> QED
  BY <1>1, CommandInvariant, PTL

(* A command whose preview was lost before it was handed out never runs    *)
(* (validate_expectation and the epochs of the readiness contract).        *)
THEOREM OvertakenCommandsNeverRun == CommandsSpec => []NothingOvertakenRuns
<1>1. CommandInv => NothingOvertakenRuns
  BY DEF CommandInv, CommandTypes, RunsFollowFate, Expectations, NothingOvertakenRuns
<1> QED
  BY <1>1, CommandInvariant, PTL

-----------------------------------------------------------------------------
(* The snapshot store.                                                     *)
StoreTypes ==
  /\ disk \in Contents
  /\ current \in Snapshots
  /\ sequence \in Nat
  /\ sent \in Seq([number : Nat, hash : Snapshots])
  /\ task \in [Tasks -> [at : Phases, built : Snapshots, number : Nat]]

OrderInv ==
  /\ history \subseteq Snapshots
  /\ order \in Seq(Snapshots)
  /\ Len(order) \in 1..MaxHistory
  /\ \A i, j \in 1..Len(order) : order[i] = order[j] => i = j
  /\ rows = Tail(order)
  /\ \A i \in 1..Len(order) : order[i] \in history

Numbered(p) == task[p].at \in {"numbered", "installed", "recording", "recorded"}

NumberInv ==
  /\ \A i \in 1..Len(sent) : sent[i].number <= sequence
  /\ \A i, j \in 1..Len(sent) : sent[i].number = sent[j].number => i = j
  /\ \A p \in Tasks : Numbered(p) =>
       /\ task[p].number <= sequence
       /\ \A i \in 1..Len(sent) : sent[i].number # task[p].number
       /\ \A q \in Tasks : Numbered(q) /\ task[q].number = task[p].number => q = p

StoreInv == StoreTypes /\ OrderInv /\ NumberInv

-----------------------------------------------------------------------------
LEMMA BuildsAreSnapshots ==
  ASSUME NEW p, NEW c \in Contents
  PROVE  Build(p, c) \in Snapshots
  BY StoreAssumption DEF Build, Snapshots

LEMMA FirstIsSnapshot == First \in Snapshots
  BY BuildsAreSnapshots, StoreAssumption DEF First

LEMMA StoreInvInit == StoreInit => StoreInv
<1> SUFFICES ASSUME StoreInit PROVE StoreInv
  OBVIOUS
<1>1. StoreTypes
  BY FirstIsSnapshot, StoreAssumption DEF StoreInit, StoreTypes, Idle, Phases
<1>2. OrderInv
  <2>1. order = <<First>> /\ rows = << >> /\ history = {First}
    BY DEF StoreInit
  <2>2. Len(order) = 1 /\ order[1] = First /\ Tail(order) = << >> /\ order \in Seq(Snapshots)
    BY <2>1, FirstIsSnapshot
  <2> QED
    BY <2>1, <2>2, FirstIsSnapshot, StoreAssumption DEF OrderInv
<1>3. NumberInv
  BY DEF StoreInit, NumberInv, Numbered, Idle
<1> QED
  BY <1>1, <1>2, <1>3 DEF StoreInv

-----------------------------------------------------------------------------
(* A task moves on, and neither its number, nor those of others, nor the   *)
(* events change: what is known of the numbers stays.                      *)
LEMMA NumbersStay ==
  ASSUME StoreTypes, NumberInv, UNCHANGED <<sequence, sent>>, NEW p \in Tasks, NEW t,
         task' = [task EXCEPT ![p] = t],
         t.at \in {"numbered", "installed", "recording", "recorded"} =>
           Numbered(p) /\ t.number = task[p].number
  PROVE  NumberInv'
<1>1. \A q \in Tasks : q # p => task'[q] = task[q]
  BY DEF StoreTypes
<1>2. task'[p] = t
  BY DEF StoreTypes
<1>3. \A q \in Tasks : Numbered(q)' => Numbered(q) /\ task'[q].number = task[q].number
  BY <1>1, <1>2 DEF Numbered
<1> QED
  BY <1>3 DEF NumberInv

LEMMA OrderStays == OrderInv /\ UNCHANGED past => OrderInv'
  BY DEF OrderInv, past

LEMMA Moving ==
  ASSUME StoreTypes, NEW p \in Tasks, NEW phase \in Phases, Go(p, phase),
         UNCHANGED <<sequence, sent>>, disk' \in Contents, current' \in Snapshots
  PROVE  StoreTypes'
  BY DEF StoreTypes, Go

LEMMA Leaving ==
  ASSUME StoreTypes, NumberInv, NEW p \in Tasks, Leave(p),
         UNCHANGED <<disk, current, sequence, sent>>
  PROVE  StoreTypes' /\ NumberInv'
<1>1. Idle \in [at : Phases, built : Snapshots, number : Nat] /\ Idle.at = "idle"
  BY FirstIsSnapshot DEF Idle, Phases
<1>2. StoreTypes'
  BY <1>1 DEF StoreTypes, Leave
<1>3. NumberInv'
  BY <1>1, NumbersStay DEF Leave
<1> QED
  BY <1>2, <1>3

LEMMA Building ==
  ASSUME StoreInv, NEW p \in Tasks, BuildSnapshot(p)
  PROVE  StoreInv'
<1> DEFINE t == [task[p] EXCEPT !.at = "built", !.built = Build(p, disk)]
<1>1. Build(p, disk) \in Snapshots
  BY BuildsAreSnapshots DEF StoreInv, StoreTypes
<1>2. t \in [at : Phases, built : Snapshots, number : Nat] /\ t.at = "built"
  BY <1>1 DEF StoreInv, StoreTypes, Phases
<1>3. task' = [task EXCEPT ![p] = t]
  BY DEF BuildSnapshot, StoreInv, StoreTypes
<1>4. UNCHANGED <<disk, current, history, order, rows, sequence, sent>>
  BY DEF BuildSnapshot, tree, past
<1> HIDE DEF t
<1>5. StoreTypes'
  BY <1>2, <1>3, <1>4 DEF StoreInv, StoreTypes
<1>6. NumberInv'
  BY <1>2, <1>3, <1>4, NumbersStay DEF StoreInv
<1> QED
  BY <1>4, <1>5, <1>6, OrderStays DEF StoreInv, past

(* A step that moves a task from one phase to another, outside the number- *)
(* ed ones or within them, and leaves history, numbers and events alone.   *)
LEMMA MoveKeeps ==
  ASSUME StoreInv, NEW p \in Tasks, NEW phase \in Phases, Go(p, phase),
         UNCHANGED <<history, order, rows, sequence, sent>>, disk' \in Contents,
         current' \in Snapshots,
         phase \in {"numbered", "installed", "recording", "recorded"} => Numbered(p)
  PROVE  StoreInv'
<1> DEFINE t == [task[p] EXCEPT !.at = phase]
<1>1. t.at = phase /\ t.number = task[p].number /\ task' = [task EXCEPT ![p] = t]
  BY DEF Go, StoreInv, StoreTypes
<1> HIDE DEF t
<1>2. NumberInv'
  BY <1>1, NumbersStay DEF StoreInv
<1> QED
  BY <1>2, Moving, OrderStays DEF StoreInv, past

-----------------------------------------------------------------------------
LEMMA NumberKeeps ==
  ASSUME StoreInv, NEW p \in Tasks, TakeNumber(p)
  PROVE  StoreInv'
<1> DEFINE t == [task[p] EXCEPT !.at = "numbered", !.number = sequence + 1]
<1>1. /\ task' = [task EXCEPT ![p] = t] /\ sequence' = sequence + 1
      /\ UNCHANGED <<disk, current, history, order, rows, sent>>
  BY DEF TakeNumber, tree, past, StoreInv, StoreTypes
<1>2. t \in [at : Phases, built : Snapshots, number : Nat] /\ t.number = sequence + 1
  <2>1. task[p] \in [at : Phases, built : Snapshots, number : Nat] /\ sequence + 1 \in Nat
    BY DEF StoreInv, StoreTypes
  <2>2. "numbered" \in Phases
    BY DEF Phases
  <2> QED
    BY <2>1, <2>2
<1> HIDE DEF t
<1>3. StoreTypes'
  BY <1>1, <1>2 DEF StoreInv, StoreTypes
<1>4. task'[p] = t /\ \A q \in Tasks : q # p => task'[q] = task[q] /\ (Numbered(q)' <=> Numbered(q))
  BY <1>1 DEF StoreInv, StoreTypes, Numbered
<1>5. sequence \in Nat /\ \A i \in 1..Len(sent) : sent[i].number \in Nat
  <2>1. sent \in Seq([number : Nat, hash : Snapshots]) /\ sequence \in Nat
    BY DEF StoreInv, StoreTypes
  <2>2. \A i \in 1..Len(sent) : sent[i] \in [number : Nat, hash : Snapshots]
    BY <2>1, ElementOfSeq
  <2> QED
    BY <2>1, <2>2
<1>6. ASSUME NEW i \in 1..Len(sent)
      PROVE  sent[i].number <= sequence' /\ sent[i].number # sequence'
  BY <1>1, <1>5, <1>6 DEF StoreInv, NumberInv
<1>7. ASSUME NEW q \in Tasks, q # p, Numbered(q)
      PROVE  task[q].number \in Nat /\ task[q].number <= sequence /\ task[q].number # sequence'
  BY <1>1, <1>5, <1>7 DEF StoreInv, StoreTypes, NumberInv
<1>8. ASSUME NEW q \in Tasks, Numbered(q)'
      PROVE  /\ task'[q].number <= sequence'
             /\ \A i \in 1..Len(sent) : sent[i].number # task'[q].number
             /\ \A r \in Tasks : Numbered(r)' /\ task'[r].number = task'[q].number => r = q
  <2>1. CASE q = p
    BY <1>1, <1>2, <1>4, <1>5, <1>6, <1>7, <2>1
  <2>2. CASE q # p
    <3>1. task'[q] = task[q] /\ Numbered(q)
      BY <1>4, <1>8, <2>2
    <3>2. task[q].number <= sequence' /\ task[q].number # sequence'
      BY <1>1, <1>5, <1>7, <2>2, <3>1
    <3>3. \A i \in 1..Len(sent) : sent[i].number # task[q].number
      BY <3>1 DEF StoreInv, NumberInv
    <3>4. ASSUME NEW r \in Tasks, Numbered(r)', task'[r].number = task'[q].number PROVE r = q
      BY <1>1, <1>2, <1>4, <3>1, <3>2, <3>4 DEF StoreInv, NumberInv
    <3> QED
      BY <3>1, <3>2, <3>3, <3>4
  <2> QED
    BY <2>1, <2>2
<1>9. NumberInv'
  BY <1>1, <1>6, <1>8 DEF StoreInv, NumberInv
<1> QED
  BY <1>1, <1>3, <1>9, OrderStays DEF StoreInv, past

LEMMA RecordKeeps ==
  ASSUME StoreInv, NEW p \in Tasks, RecordHistory(p)
  PROVE  StoreInv'
<1> DEFINE b == task[p].built
           grown == Append(order, b)
           full == Len(grown) > MaxHistory
<1>1. b \in Snapshots /\ Numbered(p)
  BY DEF StoreInv, StoreTypes, RecordHistory, At, Numbered
<1>2. StoreTypes' /\ NumberInv'
  <2> DEFINE t == [task[p] EXCEPT !.at = "recorded"]
  <2>1. t.at = "recorded" /\ t.number = task[p].number /\ task' = [task EXCEPT ![p] = t]
    BY DEF RecordHistory, Go, StoreInv, StoreTypes
  <2>2. UNCHANGED <<disk, current, sequence, sent>>
    BY DEF RecordHistory, tree
  <2>3. StoreTypes'
    BY <2>2, Moving DEF RecordHistory, Phases, StoreInv, StoreTypes
  <2> HIDE DEF t
  <2> QED
    BY <1>1, <2>1, <2>2, <2>3, NumbersStay DEF StoreInv
<1>3. CASE b \in history
  BY <1>2, <1>3, OrderStays DEF RecordHistory, StoreInv
<1>4. CASE b \notin history
  <2>1. /\ order' = IF full THEN Tail(grown) ELSE grown
        /\ history' = (history \cup {b}) \ (IF full THEN {Head(grown)} ELSE {})
        /\ rows' = IF full THEN Tail(Append(rows, b)) ELSE Append(rows, b)
    BY <1>4 DEF RecordHistory
  <2> DEFINE n == Len(order)
  <2>2. /\ order \in Seq(Snapshots) /\ n \in 1..MaxHistory /\ rows = Tail(order)
        /\ \A i \in 1..n : order[i] \in history /\ order[i] # b
        /\ \A i, j \in 1..n : order[i] = order[j] => i = j
        /\ history \subseteq Snapshots /\ MaxHistory \in Nat /\ n \in Nat
    BY <1>4, StoreAssumption DEF StoreInv, OrderInv
  <2>3. /\ grown \in Seq(Snapshots) /\ Len(grown) = n + 1 /\ grown[n + 1] = b
        /\ \A i \in 1..n : grown[i] = order[i]
    BY <1>1, <2>2, AppendProperties
  <2>4. \A i, j \in 1..(n + 1) : grown[i] = grown[j] => i = j
    <3>1. \A i \in 1..(n + 1) : i \in 1..n \/ i = n + 1
      BY <2>2
    <3> QED
      BY <2>2, <2>3, <3>1
  <2>5. Tail(grown) = Append(rows, b)
    BY <1>1, <2>2
  <2> HIDE DEF n, grown
  <2>6. /\ Tail(grown) \in Seq(Snapshots) /\ Len(Tail(grown)) = n /\ Head(grown) = order[1]
        /\ \A i \in 1..n : Tail(grown)[i] = grown[i + 1]
    BY <2>2, <2>3, HeadTailProperties
  <2>7. CASE full
    <3>1. order' = Tail(grown) /\ rows' = Tail(order') /\ history' = (history \cup {b}) \ {order[1]}
      BY <2>1, <2>5, <2>6, <2>7
    <3>2. \A i, j \in 1..n : order'[i] = order'[j] => i = j
      BY <2>2, <2>4, <2>6, <3>1
    <3>3. ASSUME NEW i \in 1..n PROVE order'[i] \in history'
      <4>1. order'[i] = grown[i + 1] /\ i + 1 \in 1..(n + 1) /\ 1 \in 1..(n + 1) /\ i + 1 # 1
        BY <2>2, <2>6, <3>1, <3>3
      <4>2. grown[i + 1] # grown[1] /\ grown[1] = order[1]
        BY <2>2, <2>3, <2>4, <4>1
      <4>3. grown[i + 1] \in history \cup {b}
        BY <2>2, <2>3, <3>3, <4>1
      <4> QED
        BY <3>1, <4>1, <4>2, <4>3
    <3> QED
      BY <1>1, <1>2, <2>2, <2>6, <3>1, <3>2, <3>3 DEF StoreInv, OrderInv
  <2>8. CASE ~full
    <3>1. order' = grown /\ rows' = Tail(order') /\ history' = history \cup {b}
      BY <2>1, <2>5, <2>8
    <3>2. ASSUME NEW i \in 1..(n + 1) PROVE order'[i] \in history'
      BY <2>2, <2>3, <3>1, <3>2
    <3>3. n + 1 \in 1..MaxHistory
      BY <2>2, <2>3, <2>8
    <3> QED
      BY <1>1, <1>2, <2>2, <2>3, <2>4, <3>1, <3>2, <3>3 DEF StoreInv, OrderInv
  <2> QED
    BY <2>7, <2>8
<1> QED
  BY <1>3, <1>4

LEMMA SendKeeps ==
  ASSUME StoreInv, NEW p \in Tasks, SendEvent(p)
  PROVE  StoreInv'
<1> DEFINE e == [number |-> task[p].number, hash |-> task[p].built]
           n == Len(sent)
<1>1. /\ task' = [task EXCEPT ![p].at = "sent"] /\ sent' = Append(sent, e)
      /\ UNCHANGED <<disk, current, history, order, rows, sequence>> /\ Numbered(p)
  BY DEF SendEvent, Go, At, Numbered, tree, past
<1>2. e \in [number : Nat, hash : Snapshots] /\ e.number = task[p].number
  BY DEF StoreInv, StoreTypes
<1>3. sent \in Seq([number : Nat, hash : Snapshots])
  BY DEF StoreInv, StoreTypes
<1> HIDE DEF e
<1>4. /\ sent' \in Seq([number : Nat, hash : Snapshots]) /\ Len(sent') = n + 1
      /\ sent'[n + 1] = e /\ \A i \in 1..n : sent'[i] = sent[i]
  BY <1>1, <1>2, <1>3, AppendProperties
<1>5. n \in Nat /\ \A i \in 1..(n + 1) : i \in 1..n \/ i = n + 1
  BY <1>3
<1>6. StoreTypes'
  BY <1>1, <1>4 DEF StoreInv, StoreTypes, Phases
<1>7. \A q \in Tasks : Numbered(q)' => q # p /\ Numbered(q) /\ task'[q] = task[q]
  BY <1>1 DEF StoreInv, StoreTypes, Numbered
<1> HIDE DEF n
<1>8. NumberInv'
  <2>1. \A i \in 1..(n + 1) : sent'[i].number <= sequence
    BY <1>1, <1>2, <1>4, <1>5 DEF StoreInv, NumberInv, n
  <2>2. \A i, j \in 1..(n + 1) : sent'[i].number = sent'[j].number => i = j
    BY <1>1, <1>2, <1>4, <1>5 DEF StoreInv, NumberInv, n
  <2>3. ASSUME NEW q \in Tasks, Numbered(q)'
        PROVE  /\ task'[q].number <= sequence
               /\ \A i \in 1..(n + 1) : sent'[i].number # task'[q].number
               /\ \A r \in Tasks : Numbered(r)' /\ task'[r].number = task'[q].number => r = q
    BY <1>1, <1>2, <1>4, <1>5, <1>7, <2>3 DEF StoreInv, NumberInv, n
  <2> QED
    BY <1>1, <1>4, <2>1, <2>2, <2>3 DEF NumberInv
<1> QED
  BY <1>1, <1>6, <1>8, OrderStays DEF StoreInv, past

-----------------------------------------------------------------------------
LEMMA InstallKeeps ==
  ASSUME StoreInv, NEW p \in Installers, Install(p)
  PROVE  StoreInv'
<1>1. p \in Tasks
  BY DEF Tasks
<1>2. CASE CompareWithCurrent(p)
  <2>1. PICK phase \in {"sent", "changed"} : Go(p, phase)
    BY <1>2 DEF CompareWithCurrent
  <2> QED
    BY <1>1, <1>2, <2>1, MoveKeeps DEF CompareWithCurrent, tree, past, Phases, StoreInv, StoreTypes
<1>3. CASE SetCurrent(p)
  BY <1>1, <1>3, MoveKeeps DEF SetCurrent, At, Numbered, tree, past, Phases, StoreInv, StoreTypes
<1>4. CASE LockHistory(p)
  BY <1>1, <1>4, MoveKeeps DEF LockHistory, At, Numbered, tree, past, Phases, StoreInv, StoreTypes
<1> QED
  BY <1>1, <1>2, <1>3, <1>4, NumberKeeps, RecordKeeps, SendKeeps DEF Install

LEMMA StoreInvStep == StoreInv /\ [ListingNext]_storeVars => StoreInv'
<1> SUFFICES ASSUME StoreInv, [ListingNext]_storeVars PROVE StoreInv'
  OBVIOUS
<1>0. StoreTypes /\ OrderInv /\ NumberInv
  BY DEF StoreInv
<1>1. ASSUME NEW c \in Contents, EditTree(c) PROVE StoreInv'
  BY <1>0, <1>1, OrderStays DEF EditTree, Edit, past, StoreInv, StoreTypes, NumberInv, Numbered
<1>2. CASE Poller
  <2>1. "poller" \in Installers /\ "poller" \in Tasks
    BY DEF Installers, Tasks
  <2>2. CASE Poll
    BY <2>1, <2>2, Building DEF Poll
  <2>3. CASE PollDone
    BY <1>0, <2>1, <2>3, Leaving, OrderStays DEF PollDone, tree, StoreInv
  <2> QED
    BY <1>2, <2>1, <2>2, <2>3, InstallKeeps DEF Poller
<1>3. ASSUME NEW p \in Patchers, StartPatch(p) PROVE StoreInv'
  BY <1>0, <1>3, MoveKeeps DEF StartPatch, tree, past, Phases, Tasks, Installers, StoreTypes
<1>4. ASSUME NEW p \in Patchers, NEW c \in Contents, ApplyPatch(p, c) PROVE StoreInv'
  BY <1>0, <1>4, MoveKeeps DEF ApplyPatch, Edit, past, Phases, Tasks, Installers, StoreTypes
<1>5. ASSUME NEW p \in Patchers, AbandonPatch(p) \/ AckPatch(p) PROVE StoreInv'
  BY <1>0, <1>5, Leaving, OrderStays DEF AbandonPatch, AckPatch, tree, Tasks, Installers, StoreInv
<1>6. ASSUME NEW p \in Patchers, BuildPatched(p) \/ Install(p) PROVE StoreInv'
  BY <1>6, Building, InstallKeeps DEF BuildPatched, Tasks, Installers
<1>7. ASSUME NEW w \in Writers, NEW c \in Contents, WriteFiles(w, c) PROVE StoreInv'
  BY <1>0, <1>7, MoveKeeps DEF WriteFiles, Edit, past, Phases, Tasks, StoreTypes
<1>8. ASSUME NEW w \in Writers, BuildWritten(w) PROVE StoreInv'
  BY <1>8, Building DEF BuildWritten, Tasks
<1>9. ASSUME NEW w \in Writers, SetCurrentRebuilt(w) PROVE StoreInv'
  BY <1>0, <1>9, MoveKeeps DEF SetCurrentRebuilt, tree, past, Phases, Tasks, StoreTypes
<1>10. ASSUME NEW w \in Writers, InsertRebuilt(w) PROVE StoreInv'
  <2>1. w \in Tasks /\ task[w].built \in Snapshots
    BY <1>0 DEF Tasks, StoreTypes
  <2>2. StoreTypes' /\ NumberInv'
    BY <1>0, <1>10, <2>1, Leaving DEF InsertRebuilt, tree
  <2>3. OrderInv'
    BY <1>0, <1>10, <2>1 DEF InsertRebuilt, OrderInv
  <2> QED
    BY <2>2, <2>3 DEF StoreInv
<1>11. ASSUME NEW r \in Readers, LockOrder(r) PROVE StoreInv'
  BY <1>0, <1>11, MoveKeeps DEF LockOrder, tree, past, Phases, Tasks, StoreTypes
<1>12. ASSUME NEW r \in Readers, ListHistory(r) PROVE StoreInv'
  BY <1>0, <1>12, Leaving, OrderStays DEF ListHistory, tree, Tasks, StoreInv
<1>13. CASE UNCHANGED storeVars
  BY <1>0, <1>13, OrderStays DEF storeVars, tree, past, StoreInv, StoreTypes, NumberInv, Numbered
<1> QED
  BY <1>1, <1>2, <1>3, <1>4, <1>5, <1>6, <1>7, <1>8, <1>9, <1>10, <1>11, <1>12, <1>13
     DEF ListingNext, StoreNext, FinishPatch, FinishWrite

LEMMA StoreInvSuffices == StoreInv => HistoryConsistent
<1> SUFFICES ASSUME StoreInv PROVE HistoryConsistent
  OBVIOUS
<1>1. DOMAIN order = 1..Len(order) /\ DOMAIN sent = 1..Len(sent)
  BY DEF StoreInv, StoreTypes, OrderInv
<1>2. IsInjective(order)
  BY <1>1 DEF IsInjective, StoreInv, OrderInv
<1> QED
  BY <1>1, <1>2 DEF StoreInv, OrderInv, NumberInv, HistoryConsistent, EventNumbersUnique

(* Order, rows and history agree, and events have numbers of their own,    *)
(* however many polls, patches and tools race                              *)
(* (install_snapshot_and_broadcast, rebuild_snapshot).                     *)
THEOREM HistoryStaysConsistent == StoreSpec => []HistoryConsistent
<1>1. StoreInv /\ [StoreNext]_storeVars => StoreInv'
  BY StoreInvStep DEF ListingNext
<1> QED
  BY StoreInvInit, <1>1, StoreInvSuffices, PTL DEF StoreSpec

(* The same with tools that list the history, whatever they block.         *)
THEOREM ListingKeepsHistory == ListingSpec => []HistoryConsistent
  BY StoreInvInit, StoreInvStep, StoreInvSuffices, PTL DEF ListingSpec
=============================================================================

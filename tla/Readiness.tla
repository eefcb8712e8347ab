------------------------------ MODULE Readiness ------------------------------
(***************************************************************************)
(* The readiness contract of the serve process: `ReadinessState` of        *)
(* src/lib.rs, the value the mutex `ServerState::readiness` protects.  It  *)
(* holds one record per target, the current incarnation, the marker left   *)
(* by a successful full-bake start and the signature of the last project   *)
(* facts the plugin reported.  Every action below is one call of a public  *)
(* method, made while the mutex is held, hence atomic.                     *)
(*                                                                         *)
(* Data: an incarnation id "inc-N" is the number N, the status class and   *)
(* the reason of a record follow from its code, and the facts of a report  *)
(* keep only what the merge tells apart.                                   *)
(*                                                                         *)
(* Here and in the other modules, a definition that stands before another  *)
(* one of the same shape and is named for a mistake in it is a variant:    *)
(* put in its place, it must break a property.                             *)
(***************************************************************************)
EXTENDS Naturals

CONSTANTS
  MaxEpoch,        (* bound on the epoch of a record (u64 in the code)        *)
  MaxIncarnation   (* bound on the incarnation number (u64 in the code)       *)

ASSUME BoundsAssumption == MaxEpoch \in Nat /\ MaxIncarnation \in Nat \ {0}

VARIABLE
  readiness        (* the ReadinessState                                      *)

Targets == {"edit_sync", "preview", "full_bake_start", "full_bake_result"}

NoIncarnation == 0                       (* None for an incarnation id        *)
NoProject == [preview |-> "none", bake |-> "none"]      (* no project facts   *)

(***************************************************************************)
(* What a POST /plugin/state reports.  "absent" is a missing section or    *)
(* one whose fields do not settle the question (the `?` returns of the     *)
(* helpers); a settled preview is neither building, nor applying state,    *)
(* and is idle; a bake is active, idle, or idle after a success.  Only     *)
(* "settled" and "success" stand for one payload: two reports that agree   *)
(* here may still differ in the code, and then so do their signatures.     *)
(***************************************************************************)
RuntimeFacts == {"absent", "connected", "disconnected"}
ProjectFacts == [preview : {"absent", "settled", "building"},
                 bake    : {"absent", "idle", "active", "success"}]
Facts == [runtime : RuntimeFacts, project : ProjectFacts \cup {NoProject},
          differs : BOOLEAN]

(* The project signature of f is not the one taken in last.                *)
SameFacts == [preview |-> "settled", bake |-> "success"]
IsFresh(f, signature) ==
  /\ f.project # NoProject
  /\ f.project # signature \/ (f.differs /\ f.project # SameFacts)

(* "pending" is every other code of a non-ready record: what the merge     *)
(* derives from unsettled facts, and what a caller of update_readiness may *)
(* choose; "unavailable" is plugin_unavailable or incarnation_rotated.     *)
Codes == {"ready", "unavailable", "target_invalidated", "pending"}
Records == [ready : BOOLEAN, epoch : Nat, inc : Nat, code : Codes]
ReadinessStates == [rec : [Targets -> Records], incarnation : Nat \ {0},
                    successIn : Nat, signature : ProjectFacts \cup {NoProject}]

-----------------------------------------------------------------------------
(* Operators on a readiness state rs: the private methods.                 *)

Dependents(t) ==
  CASE t = "edit_sync"       -> {"preview", "full_bake_start", "full_bake_result"}
    [] t = "full_bake_start" -> {"full_bake_result"}
    [] OTHER                 -> {}

NonReadyRecord(rs, t, epoch, code) ==
  [ready |-> FALSE, epoch |-> epoch, inc |-> rs.incarnation, code |-> code]

Invalidated(rs, t) ==
  NonReadyRecord(rs, t, rs.rec[t].epoch + 1, "target_invalidated")

(* The recursion of the code (edit_sync invalidates full_bake_start, which *)
(* invalidates full_bake_result) reaches each ready dependent once.        *)
DemoteNothing(rs, t) == rs
DemoteDependents(rs, t) ==
  [rs EXCEPT !.rec = [d \in Targets |->
                        IF d \in Dependents(t) /\ rs.rec[d].ready
                          THEN Invalidated(rs, d) ELSE rs.rec[d]],
             !.successIn = IF t \in {"edit_sync", "full_bake_start"}
                             THEN NoIncarnation ELSE rs.successIn]

AdvanceKeepingEpoch(rs, t) ==
  DemoteDependents([rs EXCEPT !.rec[t] =
    NonReadyRecord(rs, t, rs.rec[t].epoch, "target_invalidated")], t)
AdvanceEpoch(rs, t) ==
  DemoteDependents([rs EXCEPT !.rec[t] = Invalidated(rs, t)], t)

RotateResettingEpochs(rs) ==
  [rec |-> [t \in Targets |-> [ready |-> FALSE, epoch |-> 0, inc |-> rs.incarnation + 1,
                               code |-> "unavailable"]],
   incarnation |-> rs.incarnation + 1,
   successIn |-> NoIncarnation,
   signature |-> NoProject]
Rotate(rs) ==
  [rec |-> [t \in Targets |->
              [ready |-> FALSE, epoch |-> rs.rec[t].epoch,
               inc |-> rs.incarnation + 1, code |-> "unavailable"]],
   incarnation |-> rs.incarnation + 1,
   successIn |-> NoIncarnation,
   signature |-> NoProject]

(* The record that update_readiness accepts for t: its shape, its          *)
(* incarnation, its epoch and, when ready, its prerequisites.              *)
WellShaped(r) == r.ready <=> r.code = "ready"

AcceptsAnyShape(rs, t, r) ==
  /\ r.inc = rs.incarnation
  /\ r.epoch = rs.rec[t].epoch
  /\ r.ready /\ t \in {"preview", "full_bake_start"} =>
       rs.rec["edit_sync"].ready /\ rs.rec["edit_sync"].inc = rs.incarnation
  /\ r.ready /\ t = "full_bake_result" => rs.successIn = rs.incarnation
Accepts(rs, t, r) ==
  /\ WellShaped(r)
  /\ r.inc = rs.incarnation
  /\ r.epoch = rs.rec[t].epoch
  /\ r.ready /\ t \in {"preview", "full_bake_start"} =>
       rs.rec["edit_sync"].ready /\ rs.rec["edit_sync"].inc = rs.incarnation
  /\ r.ready /\ t = "full_bake_result" => rs.successIn = rs.incarnation

Update(rs, t, r) ==
  IF r.ready THEN [rs EXCEPT !.rec[t] = r]
             ELSE [DemoteDependents(rs, t) EXCEPT !.rec[t] = r]

ReadyRecord(rs, t) ==
  [ready |-> TRUE, epoch |-> rs.rec[t].epoch, inc |-> rs.rec[t].inc, code |-> "ready"]

MarkSuccess(rs) ==
  IF /\ rs.rec["edit_sync"].ready /\ rs.rec["edit_sync"].inc = rs.incarnation
     /\ rs.rec["full_bake_start"].ready /\ rs.rec["full_bake_start"].inc = rs.incarnation
    THEN [rs EXCEPT !.successIn = rs.incarnation] ELSE rs

-----------------------------------------------------------------------------
(* merge_plugin_state_facts.  A merge in progress is a record m: the state *)
(* so far, whether it changed, and whether a rejected promotion has made   *)
(* the method return early (`?`), which skips all that follows.            *)

Settle(m, t, reportedReady) ==
  LET cur == m.rs.rec[t] IN
  IF cur.ready # reportedReady
    THEN IF ~ reportedReady
           THEN [m EXCEPT !.rs = AdvanceEpoch(m.rs, t), !.changed = TRUE]
           ELSE IF Accepts(m.rs, t, ReadyRecord(m.rs, t))
             THEN [m EXCEPT !.rs = Update(m.rs, t, ReadyRecord(m.rs, t)), !.changed = TRUE]
             ELSE [m EXCEPT !.changed = TRUE, !.rejected = TRUE]
    ELSE IF ~ reportedReady /\ cur.code # "pending" /\ t # "edit_sync"
           THEN [m EXCEPT !.changed = TRUE,
                          !.rs = Update(m.rs, t, NonReadyRecord(m.rs, t, cur.epoch, "pending"))]
           ELSE m

MergeRuntime(m, runtime) ==
  IF runtime = "absent" THEN m
  ELSE Settle(m, "edit_sync", runtime = "connected")

MergePreview(m, preview) ==
  IF m.rejected \/ preview = "absent" THEN m
  ELSE Settle(m, "preview", preview = "settled")

MergeBakeStart(m, bake) ==
  IF m.rejected \/ bake = "absent" THEN m
  ELSE Settle(m, "full_bake_start", bake # "active")

MergeBakeResult(m, bake) ==
  IF m.rejected \/ bake = "absent" THEN m
  ELSE Settle([m EXCEPT !.rs = IF bake = "success" THEN MarkSuccess(m.rs) ELSE m.rs],
              "full_bake_result", bake = "success")

Merge(rs, f) ==
  LET runtime == MergeRuntime([rs |-> rs, changed |-> FALSE, rejected |-> FALSE], f.runtime)
      signed  == [runtime EXCEPT !.rs.signature = f.project]
  IN  IF runtime.rejected \/ ~ IsFresh(f, rs.signature) THEN runtime
      ELSE MergeBakeResult(
             MergeBakeStart(MergePreview(signed, f.project.preview), f.project.bake),
             f.project.bake)

(* Whether a command that names target t, epoch e and incarnation i may    *)
(* run: validate_expectation.                                              *)
MeetsExpectation(rs, t, e, i) ==
  /\ rs.rec[t].epoch = e
  /\ rs.rec[t].inc = i
  /\ rs.rec[t].ready

-----------------------------------------------------------------------------
Bootstrap ==
  [rec |-> [t \in Targets |-> [ready |-> FALSE, epoch |-> 0, inc |-> 1,
                               code |-> "unavailable"]],
   incarnation |-> 1, successIn |-> NoIncarnation, signature |-> NoProject]

Init == readiness = Bootstrap

WithinBounds(rs) ==
  rs.incarnation <= MaxIncarnation /\ \A t \in Targets : rs.rec[t].epoch <= MaxEpoch

MergePluginStateFacts(f) ==
  LET m == Merge(readiness, f)
  IN  WithinBounds(m.rs) /\ readiness' = m.rs

AdvanceEpochIfInvalidated(t) ==
  /\ readiness' = AdvanceEpoch(readiness, t)
  /\ WithinBounds(readiness')

RotateIncarnation ==
  /\ readiness' = Rotate(readiness)
  /\ WithinBounds(readiness')

UpdateReadiness(t, r) ==
  /\ Accepts(readiness, t, r)
  /\ readiness' = Update(readiness, t, r)
  /\ WithinBounds(readiness')

RecordSuccessfulFullBakeStart == readiness' = MarkSuccess(readiness)

(* The records a caller of update_readiness can hold: one it read before,  *)
(* made ready or pending.  Stale epochs and incarnations are rejected.     *)
Offered(t) ==
  [ready : BOOLEAN, epoch : 0..readiness.rec[t].epoch, inc : 1..readiness.incarnation,
   code : {"ready", "pending"}]

(* What the server itself does, for POST /plugin/state; what the library   *)
(* offers besides to say that a target or everything is lost; and the rest *)
(* of the public interface.                                                *)
ServerNext == \E f \in Facts : MergePluginStateFacts(f)
LosingNext ==
  \/ ServerNext
  \/ \E t \in Targets : AdvanceEpochIfInvalidated(t)
  \/ RotateIncarnation
Next ==
  \/ LosingNext
  \/ \E t \in Targets : \E r \in Offered(t) : UpdateReadiness(t, r)
  \/ RecordSuccessfulFullBakeStart

Spec == Init /\ [][Next]_readiness
ServerSpec == Init /\ [][ServerNext]_readiness

-----------------------------------------------------------------------------
(* The state is a ReadinessState, and every record keeps the public shape: *)
(* code "ready" exactly when it is ready (validate_record_shape).          *)
TypeOK ==
  /\ readiness \in ReadinessStates
  /\ \A t \in Targets : WellShaped(readiness.rec[t])

(* A target is ready only on top of its prerequisites, in the incarnation  *)
(* that is current: preview and full_bake_start need a ready edit_sync,    *)
(* full_bake_result the marker of a successful start, and the marker       *)
(* itself is dropped as soon as edit_sync or full_bake_start is lost.      *)
(* (validate and demote logic of update_readiness, demote_dependents,      *)
(* rotate_incarnation, merge_plugin_state_facts.)                          *)
PrerequisitesHold ==
  LET rec == readiness.rec IN
  /\ \A t \in {"preview", "full_bake_start"} :
       rec[t].ready => rec["edit_sync"].ready
  /\ rec["full_bake_result"].ready =>
       readiness.successIn = readiness.incarnation /\ rec["full_bake_start"].ready
  /\ \A t \in Targets : rec[t].ready => rec[t].inc = readiness.incarnation

(* A caller that was told (target, epoch, incarnation) can compare it with *)
(* any later record: neither number ever goes back, whichever sequence of  *)
(* reports, invalidations, updates and rotations happens.                  *)
VersionsNeverRewind ==
  [][/\ readiness'.incarnation >= readiness.incarnation
     /\ \A t \in Targets : readiness'.rec[t].epoch >= readiness.rec[t].epoch]_readiness

(* No ABA: when a ready record is lost, its epoch or incarnation moves on, *)
(* so an expectation that named it can never be met again                  *)
(* (validate_expectation).  The one exception is a non-ready record that a *)
(* caller of update_readiness put in the place of that very record.        *)
LostReadinessChangesVersion ==
  [][\A t \in Targets :
       readiness.rec[t].ready =>
         \/ readiness'.rec[t] = readiness.rec[t]
         \/ readiness'.rec[t].epoch > readiness.rec[t].epoch
         \/ readiness'.rec[t].inc > readiness.rec[t].inc
         \/ readiness'.rec[t].code = "pending"]_readiness

(* Project facts drive preview once edit_sync is satisfied: when the last  *)
(* facts taken in say the preview is settled and edit_sync is ready, then  *)
(* preview is ready, unless it was invalidated since.                      *)
SettledFactsDrivePreview ==
  LET rec == readiness.rec IN
  (rec["edit_sync"].ready /\ readiness.signature.preview = "settled") =>
    rec["preview"].ready \/ rec["preview"].code = "target_invalidated"
=============================================================================

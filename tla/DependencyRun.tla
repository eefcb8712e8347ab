---------------------------- MODULE DependencyRun ---------------------------
(***************************************************************************)
(* What a pipeline of tool calls promises, whatever way it is carried out: *)
(* every step runs at most once, and none is begun before all those it     *)
(* depends on have ended.  Several steps may be begun at once.             *)
(***************************************************************************)
CONSTANT Ids      (* the steps                                              *)

VARIABLES
  needs,          (* per step, those that have to end before it begins      *)
  begun,          (* steps whose tool has been called                       *)
  ended           (* steps whose tool has returned, or has failed           *)

runVars == <<needs, begun, ended>>

RunInit ==
  /\ needs \in [Ids -> SUBSET Ids]
  /\ begun = {} /\ ended = {}

BeginSteps(S) ==
  /\ S # {} /\ S \cap begun = {}
  /\ \A s \in S : needs[s] \subseteq ended
  /\ begun' = begun \cup S
  /\ UNCHANGED <<needs, ended>>

EndStep(s) ==
  /\ s \in begun \ ended
  /\ ended' = ended \cup {s}
  /\ UNCHANGED <<needs, begun>>

RunNext == (\E S \in SUBSET Ids : BeginSteps(S)) \/ (\E s \in Ids : EndStep(s))

RunSpec == RunInit /\ [][RunNext]_runVars
=============================================================================

------------------------------- MODULE Pipeline -----------------------------
(***************************************************************************)
(* The MCP tool vsync_pipeline: a list of tool calls, run in the order of  *)
(* the list, all at once, or level by level of their dependency graph.     *)
(*                                                                         *)
(* The request's own task launches a level, and then waits for its steps   *)
(* one after the other.  Steps of a level run on threads of their own; a   *)
(* level of one step runs in the task itself, unless the mode is parallel. *)
(* A thread fills the references "${name}" in its arguments from a copy of *)
(* the namespace made at the launch, and calls the tool.                   *)
(*                                                                         *)
(* A value is known by the step it is the result of; the step's record     *)
(* keeps the references that the value's text happens to hold.  What a     *)
(* tool does is left to the modules about the state it changes.            *)
(***************************************************************************)
EXTENDS Naturals, Sequences, SequencesExt, FiniteSets, Functions

CONSTANTS
  Ids,        (* names a step may have                                      *)
  Aliases,    (* further names a result may be collected under              *)
  NoAlias,    (* collect of a step that names none                          *)
  Texts,      (* sets of references that a result's text may hold           *)
  Requests    (* requests that are sent                                     *)

Names == Ids \cup Aliases
Outcomes == {"succeeded", "failed", "panicked"}

(* A PipelineStep, its tool and arguments left out: a step refers, in its  *)
(* arguments, to the steps it depends on.                                  *)
PipelineSteps == [id : Ids, needs : SUBSET Ids, collect : Names \cup {NoAlias}]

ASSUME PipelineAssumption ==
  /\ NoAlias \notin Names
  /\ {} \in Texts /\ Texts \subseteq SUBSET Names
  /\ Requests \subseteq
       [steps : Seq(PipelineSteps), mode : {"sequential", "parallel", "auto"},
        stop : BOOLEAN]

VARIABLES
  req,        (* the request                                                *)
  phase,      (* received, running, answered, refused or lost               *)
  launched,   (* steps launched so far, in order                            *)
  awaited,    (* steps of the level under way, in the order they are awaited *)
  stopping,   (* should_stop                                                *)
  names,      (* namespace: the results so far by name                      *)
  run,        (* per step: its thread                                       *)
  report      (* the answer that is being put together                      *)

pipeVars == <<req, phase, launched, awaited, stopping, names, run, report>>

NoNames == [n \in {} |-> << >>]
Waiting == [at |-> "waiting", sees |-> NoNames, blanks |-> {}, text |-> {}]

PipeInit ==
  /\ req \in Requests
  /\ phase = "received"
  /\ launched = << >> /\ awaited = << >>
  /\ stopping = FALSE
  /\ names = NoNames
  /\ run = [s \in Ids |-> Waiting]
  /\ report = [results |-> NoNames, errors |-> << >>, order |-> << >>]

-----------------------------------------------------------------------------
Listed == [i \in DOMAIN req.steps |-> req.steps[i].id]
StepOf(s) == CHOOSE step \in Range(req.steps) : step.id = s
Needs(s) == StepOf(s).needs
Collect(s) == StepOf(s).collect

Position(s) == CHOOSE i \in DOMAIN Listed : Listed[i] = s
Left == Range(Listed) \ Range(launched)

(* The steps launched together: one step of the list, all of them, or, in  *)
(* auto mode, those that wait for none that is left.  An unknown mode      *)
(* means auto.                                                             *)
First == {s \in Left : \A t \in Left : Position(s) <= Position(t)}
Unblocked == {s \in Left : Needs(s) \cap Left = {}}

NextSteps ==
  CASE req.mode = "sequential" -> First
    [] req.mode = "parallel"   -> Left
    [] OTHER                   -> Unblocked

(* topological_levels takes them in the order in which the last dependency *)
(* is met, and list order; it works out all levels beforehand.             *)
LastMet(s) == Max({0} \cup {i \in DOMAIN launched : launched[i] \in Needs(s)})
Before(s, t) ==
  LastMet(s) < LastMet(t) \/ (LastMet(s) = LastMet(t) /\ Position(s) < Position(t))

NextLevels ==
  {level \in SetToSeqs(NextSteps) :
     \A i, j \in DOMAIN level : i < j => Before(level[i], level[j])}

(* A circle is a set of steps each of which waits for another one of them. *)
NoCircle ==
  \A S \in SUBSET Range(Listed) : S # {} => \E s \in S : Needs(s) \cap S = {}

(* exec_pipeline looks for duplicate names; execute_auto, for dependencies *)
(* that do not exist or go in a circle.                                    *)
Acceptable ==
  /\ IsInjective(Listed)
  /\ req.mode = "auto" =>
       /\ \A s \in Range(Listed) : Needs(s) \subseteq Range(Listed)
       /\ NoCircle

RefuseRequest ==
  /\ phase = "received" /\ ~Acceptable
  /\ phase' = "refused"
  /\ UNCHANGED <<req, launched, awaited, stopping, names, run, report>>

AcceptRequest ==
  /\ phase = "received" /\ Acceptable
  /\ phase' = "running"
  /\ UNCHANGED <<req, launched, awaited, stopping, names, run, report>>

(* Every step of a level gets a copy of the namespace; in parallel mode it *)
(* is empty.                                                               *)
Launched(s) == [at |-> "filling", sees |-> names, blanks |-> Needs(s), text |-> {}]

Launch(level) ==
  /\ launched' = launched \o level
  /\ run' = [s \in Ids |-> IF s \in Range(level) THEN Launched(s) ELSE run[s]]
  /\ UNCHANGED <<req, phase, stopping, names, report>>

(* A slip in LaunchLevel: a level does not wait for the one before.        *)
LaunchAhead ==
  /\ phase = "running" /\ Left # {} /\ ~stopping
  /\ \E level \in NextLevels : Launch(level) /\ awaited' = awaited \o level

LaunchLevel ==
  /\ phase = "running" /\ awaited = << >> /\ Left # {} /\ ~stopping
  /\ \E level \in NextLevels : Launch(level) /\ awaited' = level

(* interpolate_args and resolve_ref.  An argument that is one reference and *)
(* nothing else becomes the value.  Within a longer text the reference is  *)
(* replaced by the value's text, or by nothing, and the search starts over *)
(* in what is there now.                                                   *)
TextOf(s, n) == run[run[s].sees[n]].text


FillReference(s, n) ==
  /\ run[s].at = "filling" /\ n \in run[s].blanks
  /\ \E brought \in {{}} \cup {TextOf(s, m) : m \in DOMAIN run[s].sees \cap {n}} :
       run' = [run EXCEPT ![s].blanks = (@ \ {n}) \cup brought]
  /\ UNCHANGED <<req, phase, launched, awaited, stopping, names, report>>

(* execute_step: the tool's answer, if it ever returns.  A panic is caught *)
(* only on a thread of its own: one in the request's task ends the task,   *)
(* and no answer is sent.                                                  *)
Inline == req.mode # "parallel" /\ Len(awaited) = 1

RunTool(s, outcome, text) ==
  /\ run[s].at = "filling" /\ run[s].blanks = {}
  /\ outcome # "succeeded" => text = {}
  /\ run' = [run EXCEPT ![s] = [@ EXCEPT !.at = outcome, !.text = text]]
  /\ phase' = IF outcome = "panicked" /\ Inline THEN "lost" ELSE phase
  /\ UNCHANGED <<req, launched, awaited, stopping, names, report>>

(* The result of the next step awaited.  It is stored under the step's own *)
(* name and then under the one it asks for; parallel mode does it the      *)
(* other way round, and in the answer.                                     *)
Store(map, n, v) == [m \in DOMAIN map \cup {n} |-> IF m = n THEN v ELSE map[m]]
StoreCollected(map, s) == IF Collect(s) = NoAlias THEN map ELSE Store(map, Collect(s), s)

Note(s) == [report EXCEPT !.order = Append(@, s)]

(* A slip in TakeValue: collect renames the result.                        *)
TakeValueRenamed(s) ==
  /\ report' = [Note(s) EXCEPT !.results = Store(@, s, s)]
  /\ names' = IF Collect(s) = NoAlias THEN Store(names, s, s) ELSE Store(names, Collect(s), s)

TakeValue(s) ==
  IF req.mode = "parallel"
  THEN /\ report' = [Note(s) EXCEPT !.results = Store(StoreCollected(@, s), s, s)]
       /\ UNCHANGED names
  ELSE /\ report' = [Note(s) EXCEPT !.results = Store(@, s, s)]
       /\ names' = StoreCollected(Store(names, s, s), s)

TakeFailure(s) ==
  /\ report' = IF run[s].at = "panicked"
                 THEN [report EXCEPT !.errors = Append(@, "unknown")]
                 ELSE [Note(s) EXCEPT !.errors = Append(@, s)]
  /\ UNCHANGED names

(* A slip in AwaitStep: every mode drops the level it stops in.            *)
AwaitDropping ==
  LET s == Head(awaited) IN
  /\ phase = "running" /\ awaited # << >> /\ run[s].at \in Outcomes
  /\ IF run[s].at # "succeeded" THEN TakeFailure(s) ELSE TakeValue(s)
  /\ stopping' = (stopping \/ (run[s].at # "succeeded" /\ req.stop))
  /\ awaited' = IF run[s].at # "succeeded" /\ req.stop THEN << >> ELSE Tail(awaited)
  /\ UNCHANGED <<req, phase, launched, run>>

(* A first failure keeps auto mode from its next level, and parallel mode  *)
(* from waiting for the steps it has launched.                             *)
AwaitStep ==
  LET s == Head(awaited) IN
  /\ phase = "running" /\ awaited # << >> /\ run[s].at \in Outcomes
  /\ IF run[s].at # "succeeded"
       THEN /\ TakeFailure(s)
            /\ stopping' = (stopping \/ req.stop)
            /\ awaited' = IF req.mode = "parallel" /\ req.stop THEN << >> ELSE Tail(awaited)
       ELSE /\ TakeValue(s)
            /\ awaited' = Tail(awaited)
            /\ UNCHANGED stopping
  /\ UNCHANGED <<req, phase, launched, run>>

AnswerPipeline ==
  /\ phase = "running" /\ awaited = << >> /\ (Left = {} \/ stopping)
  /\ phase' = "answered"
  /\ UNCHANGED <<req, launched, awaited, stopping, names, run, report>>

FillStep(s) == \E n \in Names : FillReference(s, n)
EndTool(s) == \E outcome \in Outcomes \cup {"stuck"}, text \in Texts : RunTool(s, outcome, text)

PipeTask == RefuseRequest \/ AcceptRequest \/ LaunchLevel \/ AwaitStep \/ AnswerPipeline
PipeNext == PipeTask \/ \E s \in Ids : FillStep(s) \/ EndTool(s)

(* The task and the threads of the pool run on, until a tool is stuck.     *)
PipeFairness ==
  /\ WF_pipeVars(PipeTask)
  /\ \A s \in Ids : WF_pipeVars(FillStep(s) \/ EndTool(s))

PipeSpec == PipeInit /\ [][PipeNext]_pipeVars /\ PipeFairness

-----------------------------------------------------------------------------
Begun == {s \in Ids : run[s].at # "waiting"}
Ended == {s \in Ids : run[s].at \in Outcomes}
Succeeded == {s \in Ids : run[s].at = "succeeded"}
Stored(map) == DOMAIN map \subseteq Names /\ map \in [DOMAIN map -> Ids]

(* Every variable keeps its type, and no step is launched twice.            *)
PipeTypeOK ==
  /\ req \in Requests
  /\ phase \in {"received", "running", "answered", "refused", "lost"}
  /\ stopping \in BOOLEAN
  /\ IsInjective(launched) /\ Range(launched) = Begun
  /\ IsInjective(awaited) /\ Range(awaited) \subseteq Begun
  /\ Stored(names) /\ Stored(report.results)
  /\ \A s \in Ids :
       /\ run[s].at \in {"waiting", "filling", "stuck"} \cup Outcomes
       /\ run[s].blanks \subseteq Names /\ run[s].text \in Texts
       /\ Stored(run[s].sees)

(* Steps run once, and in auto mode only after the steps they depend on,   *)
(* whatever fails on the way: a pipeline implements the abstract run of a  *)
(* dependency graph.  The other modes do not look at dependencies          *)
(* (topological_levels, execute_auto).                                     *)
Promise == INSTANCE DependencyRun WITH
  needs <- [s \in Ids |-> IF req.mode = "auto" /\ s \in Range(Listed) THEN Needs(s) ELSE {}],
  begun <- Begun, ended <- Ended
RunsInDependencyOrder == Promise!RunSpec

(* A step of auto mode that is launched sees the result of every step it   *)
(* depends on that succeeded, under that step's name, unless another step  *)
(* collects its own result under the same name (execute_auto copies the    *)
(* namespace at the launch, after all of the level before was awaited).    *)
DependenciesResolved ==
  \A s \in Begun :
    req.mode = "auto" =>
      \A d \in Needs(s) \cap Succeeded :
        /\ d \in DOMAIN run[s].sees
        /\ \/ run[s].sees[d] = d
           \/ \E e \in Range(Listed) : Collect(e) = d

(* The answer tells all that happened: no step still runs when it is sent, *)
(* every success is in the results and every failure in the errors.  It is *)
(* not so in parallel mode when the pipeline stops at an error.            *)
ReportTellsAll ==
  phase = "answered" /\ (req.mode = "parallel" => ~req.stop) =>
    /\ Begun = Ended
    /\ \A s \in Succeeded : s \in DOMAIN report.results
    /\ Len(report.errors) = Cardinality(Ended \ Succeeded)

(* "Stop pipeline on first error": once a step of a sequential or automatic *)
(* pipeline has failed, no step of a later level is begun                  *)
(* (the breaks on stop_on_error, should_stop).                             *)
StopsOnError ==
  [][req.stop /\ Begun' # Begun => Ended = Succeeded]_pipeVars

(* Every pipeline is answered, however its steps fail and whichever mode   *)
(* gives up on them, with three exceptions: a tool that never returns (one *)
(* may wait for a lock for ever), a tool that panics in the request's own  *)
(* task, and a step that is given a value whose text leads back to itself  *)
(* by its references: they are filled in like the others, without end      *)
(* (interpolate_args, execute_sequential, execute_auto).                   *)
LeadsBack(s) ==
  \E S \in SUBSET DOMAIN run[s].sees :
     S \cap run[s].blanks # {} /\ \A n \in S : TextOf(s, n) \cap S # {}
Unanswerable == phase = "lost" \/ \E s \in Begun : run[s].at = "stuck" \/ LeadsBack(s)
=============================================================================

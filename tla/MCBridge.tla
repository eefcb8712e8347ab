------------------------------ MODULE MCBridge ------------------------------
(***************************************************************************)
(* The MCP bridge: a pipeline, or two threads that serve a batch of file   *)
(* tools each, where one moves, writes and asks and the other is in its    *)
(* way.  A pipeline's tools are opaque to it: a behaviour is about one.    *)
(***************************************************************************)
EXTENDS Pipeline, FileTools

CONSTANTS a, b, c, x, bad, t1, t2

VARIABLE subject   \* what the behaviour is about

(* Three steps: independent, a chain with a shortcut, a fork, a join, a    *)
(* circle and a dependency that does not exist; names that collide; no     *)
(* step at all.                                                            *)
Step(s, needs, collect) == [id |-> s, needs |-> needs, collect |-> collect]

MCLists == {
  << >>,
  << Step(a, {}, NoAlias), Step(b, {}, a), Step(c, {}, x) >>,
  << Step(c, {a, b}, NoAlias), Step(b, {a}, x), Step(a, {}, NoAlias) >>,
  << Step(a, {}, x), Step(b, {a}, NoAlias), Step(c, {a}, a) >>,
  << Step(a, {}, NoAlias), Step(c, {a, b}, NoAlias), Step(b, {}, x) >>,
  << Step(a, {c}, NoAlias), Step(b, {}, NoAlias), Step(c, {a}, NoAlias) >>,
  << Step(a, {b}, NoAlias) >>,
  << Step(a, {}, NoAlias), Step(a, {}, x) >> }

MCPipelines == [steps : MCLists, mode : {"sequential", "parallel", "auto"}, stop : BOOLEAN]
MCTexts == {{}, {a}}

(* Moves, removals, checked writes, reads, patches and calls that are none. *)
Ask(method, f, g, new) == [method |-> method, path |-> f, other |-> g, content |-> new]
Batch(calls, stop, retries, codes) ==
  [calls |-> calls, stop |-> stop, maxRetries |-> retries, retryOn |-> codes]

Move == Batch(<<Ask("source.move", a, b, c), Ask("source.info", b, b, c)>>, TRUE, 2, {})
Drop == Batch(<<Ask("source.delete", b, b, c), Ask("source.write", b, b, c)>>, FALSE, 0, {"NOT_FOUND"})
Safe == Batch(<<Ask("source.safe_write", b, b, bad), Ask("source.safe_write", b, b, c)>>, TRUE, 1, {})
Read == Batch(<<Ask("source.read", a, a, c), Ask("source.check_conflict", a, a, c), Ask("source.read_batch", a, b, c)>>, FALSE, 2, {"NOT_FOUND"})
Patch == Batch(<<Ask("source.patch", b, a, c)>>, TRUE, 1, {})
Wrong == Batch(<<Ask("none", a, a, c), Ask("unknown", a, a, c)>>, FALSE, 1, {"BAD_PARAMS"})
Build == Batch(<<Ask("sync.scaffold_builder", b, b, c), Ask("sync.convert_to_builder", a, b, c)>>, FALSE, 0, {})
Bad == Batch(<<Ask("sync.convert_to_builder", b, b, bad)>>, TRUE, 1, {"BAD_PARAMS", "NOT_FOUND"})

MCBatches == (t1 :> {Move, Drop, Patch}) @@ (t2 :> {Move, Safe, Read, Build, Bad, Wrong})

NoPipeline ==
  /\ req = CHOOSE r \in Requests : TRUE
  /\ phase = "answered" /\ launched = << >> /\ awaited = << >> /\ stopping = FALSE
  /\ names = NoNames /\ run = [s \in Ids |-> Waiting]
  /\ report = [results |-> NoNames, errors |-> << >>, order |-> << >>]

NoBatch ==
  /\ disk = NoTree /\ current = NoTree /\ edits = MaxEdits
  /\ task = [t \in Tasks |-> Start(CHOOSE batch \in Batches[t] : TRUE)]

MCInit ==
  \/ subject = "pipeline" /\ PipeInit /\ NoBatch
  \/ subject = "batches" /\ ToolInit /\ NoPipeline

MCNext ==
  /\ UNCHANGED subject
  /\ \/ subject = "pipeline" /\ PipeNext /\ UNCHANGED toolVars
     \/ subject = "batches" /\ ToolNext /\ UNCHANGED pipeVars

MCVars == <<subject, pipeVars, toolVars>>
MCSpec == MCInit /\ [][MCNext]_MCVars /\ PipeFairness
=============================================================================

---------------------------- MODULE PluginCommands ----------------------------
(***************************************************************************)
(* The command channel from MCP clients to the Studio plugin: a tool call  *)
(* checks the readiness it was told and queues a command; the plugin gets  *)
(* what is queued in the answer to POST /plugin/state, executes it, and    *)
(* acknowledges each command on its own; a caller that waits polls for the *)
(* acknowledgment for ten seconds.  The plugin reports its state before    *)
(* and after it executes a batch, and the answer to such a report is a     *)
(* batch of its own, handled on top of the first: `stack` holds them.      *)
(*                                                                         *)
(* A report, its answer and an acknowledgment can be lost, and nothing     *)
(* repeats them.  Time is left out: a queued command may be older than its *)
(* TTL, and a wait may be over, at any moment.                             *)
(***************************************************************************)
EXTENDS Readiness, Sequences, SequencesExt, FiniteSetsExt

CONSTANTS
  Commands,    (* the tool calls, one command each                            *)
  Guarded,     (* those that need a readiness expectation on preview          *)
  PluginReports, (* the facts the plugin reports                              *)
  QueueLimit   (* PLUGIN_COMMAND_QUEUE_CAPACITY, 32 in the code               *)

ASSUME CommandsAssumption ==
  Guarded \subseteq Commands /\ PluginReports \subseteq Facts /\ QueueLimit \in Nat \ {0}

VARIABLES
  queue,       (* ServerState::plugin_commands                                *)
  acks,        (* ServerState::plugin_command_acks                            *)
  expected,    (* per command: the preview record its caller relied on        *)
  caller,      (* per command: what the tool call is doing or returned        *)
  reporting,   (* a report was merged and is not answered yet                 *)
  stack,       (* the plugin's unfinished batches, innermost last             *)
  busy,        (* pluginCommandBusy                                           *)
  unacked,     (* commands executed whose acknowledgment is under way         *)
  fate,        (* history: what became of each command                        *)
  runs,        (* history: how often each command was executed                *)
  overtaken    (* history: commands whose preview was lost before delivery    *)

plugin == <<reporting, stack, busy, unacked>>
commandVars == <<readiness, queue, acks, expected, caller, plugin, fate, runs, overtaken>>

Preview == readiness.rec["preview"]

CommandsInit ==
  /\ Init
  /\ queue = << >> /\ stack = << >>
  /\ acks = [c \in Commands |-> "none"]
  /\ expected = [c \in Commands |-> Bootstrap.rec["preview"]]
  /\ caller = [c \in Commands |-> "idle"]
  /\ reporting = FALSE /\ busy = FALSE
  /\ unacked = {} /\ overtaken = {}
  /\ fate = [c \in Commands |-> "new"]
  /\ runs = [c \in Commands |-> 0]

-----------------------------------------------------------------------------
(* gc_plugin_commands: the n oldest commands are past their TTL; of more   *)
(* acknowledgments than twice the limit of the queue, an arbitrary part    *)
(* stays.                                                                  *)
Remaining(n) == SubSeq(queue, n + 1, Len(queue))
Expired(n) == {queue[i] : i \in 1..n}
Acked == {c \in Commands : acks[c] # "none"}
AcksKept ==
  IF Cardinality(Acked) > 2 * QueueLimit
    THEN {[c \in Commands |-> IF c \in kept THEN acks[c] ELSE "none"] :
            kept \in kSubset(QueueLimit, Acked)}
    ELSE {acks}

FullTooLate(q) == Len(q) > QueueLimit
Full(q) == Len(q) >= QueueLimit

(* f with the value v for every command in S.                              *)
Mark(f, S, v) == [c \in Commands |-> IF c \in S THEN v ELSE f[c]]

-----------------------------------------------------------------------------
(* exec_sync_plugin_command: the expectation is checked first; a caller    *)
(* that does not meet it gets an error and nothing changes ...             *)
CallTool(c) ==
  /\ caller[c] = "idle"
  /\ c \in Guarded =>
       MeetsExpectation(readiness, "preview", Preview.epoch, Preview.inc)
  /\ caller' = [caller EXCEPT ![c] = "checked"]
  /\ expected' = IF c \in Guarded THEN [expected EXCEPT ![c] = Preview] ELSE expected
  /\ UNCHANGED <<readiness, queue, acks, plugin, fate, runs, overtaken>>

(* ... then expired commands go, and the command is queued, or refused     *)
(* when the queue is full.                                                 *)
Enqueue(c) ==
  /\ caller[c] = "checked"
  /\ acks' \in AcksKept
  /\ \E n \in 0..Len(queue) :
       LET expiring == Mark(fate, Expired(n), "expired") IN
       IF Full(Remaining(n))
         THEN /\ queue' = Remaining(n)
              /\ fate' = expiring
              /\ caller' = [caller EXCEPT ![c] = "refused"]
         ELSE /\ queue' = Append(Remaining(n), c)
              /\ fate' = [expiring EXCEPT ![c] = "queued"]
              /\ caller' = [caller EXCEPT ![c] = "waiting"]
  /\ UNCHANGED <<readiness, expected, plugin, runs, overtaken>>

ReadAck(c) ==
  /\ caller[c] = "waiting" /\ acks[c] # "none"
  /\ caller' = [caller EXCEPT ![c] = acks[c]]
  /\ UNCHANGED <<readiness, queue, acks, expected, plugin, fate, runs, overtaken>>

(* The ten seconds are over, or the caller did not ask to wait at all.     *)
GiveUp(c) ==
  /\ caller[c] = "waiting"
  /\ caller' = [caller EXCEPT ![c] = "timeout"]
  /\ UNCHANGED <<readiness, queue, acks, expected, plugin, fate, runs, overtaken>>

-----------------------------------------------------------------------------
(* The plugin reports periodically, and first and last in a batch.         *)
Reporting ==
  ~ reporting /\ (stack # << >> => Last(stack).phase \in {"begun", "done"})

AfterReport ==
  IF stack = << >> THEN stack
  ELSE IF Last(stack).phase = "done" THEN Front(stack)
  ELSE [stack EXCEPT ![Len(stack)].phase = "running"]

(* handle_post_plugin_state takes in the facts ...                         *)
Report(f) ==
  /\ Reporting
  /\ MergePluginStateFacts(f)
  /\ reporting' = TRUE
  /\ overtaken' = IF Preview.ready /\ ~ Preview'.ready
                    THEN overtaken \cup {c \in Guarded : caller[c] = "checked" \/ fate[c] = "queued"}
                    ELSE overtaken
  /\ UNCHANGED <<queue, acks, expected, caller, stack, busy, unacked, fate, runs>>

(* ... and answers with what drain_ready_plugin_commands accepts.          *)
Acceptable(c) ==
  c \in Guarded => MeetsExpectation(readiness, "preview", expected[c].epoch, expected[c].inc)

AcceptedUnchecked(n) == ToSet(Remaining(n))
Accepted(n) == {c \in ToSet(Remaining(n)) : Acceptable(c)}

(* The batch keeps the order of the queue.                                 *)
Queued(c, d) == \E i, j \in DOMAIN queue : i < j /\ queue[i] = c /\ queue[j] = d
BatchesOf(S) ==
  {batch \in SetToSeqs(S) : \A i, j \in DOMAIN batch : i < j => Queued(batch[i], batch[j])}

UndrainedCopy(n) == Remaining(n)
Undrained(n) == << >>

(* A batch that arrives is begun on top of those the plugin is at.         *)
DeliverReplacing(batch, arrives) ==
  /\ reporting' = FALSE
  /\ IF arrives /\ batch # << >>
       THEN /\ stack' = <<[todo |-> batch, phase |-> "begun"]>>
            /\ busy' = TRUE
       ELSE stack' = AfterReport /\ busy' = busy
Deliver(batch, arrives) ==
  /\ reporting' = FALSE
  /\ IF arrives /\ batch # << >>
       THEN /\ stack' = Append(AfterReport, [todo |-> batch, phase |-> "begun"])
            /\ busy' = TRUE
       ELSE stack' = AfterReport /\ busy' = busy

Answer ==
  /\ reporting
  /\ \E n \in 0..Len(queue), kept \in AcksKept, arrives \in BOOLEAN :
       LET accepted == Accepted(n)
           stale == {c \in ToSet(Remaining(n)) : ~ Acceptable(c)}
       IN  /\ queue' = Undrained(n)
           /\ acks' = Mark(kept, stale, "rejected")
           /\ fate' = Mark(Mark(Mark(fate, Expired(n), "expired"), stale, "rejected"),
                           accepted, IF arrives THEN "delivered" ELSE "lost")
           /\ \E batch \in BatchesOf(accepted) : Deliver(batch, arrives)
  /\ UNCHANGED <<readiness, expected, caller, unacked, runs, overtaken>>

(* The request never reached the server.                                   *)
LoseReport ==
  /\ Reporting /\ stack # << >>
  /\ stack' = AfterReport
  /\ UNCHANGED <<readiness, queue, acks, expected, caller, reporting, busy, unacked,
                 fate, runs, overtaken>>

(* processPluginCommands, after its first report: one command, and the     *)
(* acknowledgment it defers ...                                            *)
Execute ==
  /\ stack # << >> /\ Last(stack).phase = "running" /\ Last(stack).todo # << >>
  /\ LET c == Head(Last(stack).todo) IN
       /\ runs' = [runs EXCEPT ![c] = @ + 1]
       /\ fate' = [fate EXCEPT ![c] = "executed"]
       /\ unacked' = unacked \cup {c}
  /\ stack' = [stack EXCEPT ![Len(stack)].todo = Tail(@)]
  /\ UNCHANGED <<readiness, queue, acks, expected, caller, reporting, busy, overtaken>>

(* ... and the end of the batch, before the last report.                   *)
FinishBatch ==
  /\ stack # << >> /\ Last(stack).phase = "running" /\ Last(stack).todo = << >>
  /\ busy' = FALSE
  /\ stack' = [stack EXCEPT ![Len(stack)].phase = "done"]
  /\ UNCHANGED <<readiness, queue, acks, expected, caller, reporting, unacked,
                 fate, runs, overtaken>>

(* ackPluginCommand and handle_plugin_command_ack.                         *)
Acknowledge(c) ==
  /\ c \in unacked
  /\ unacked' = unacked \ {c}
  /\ \E arrives \in BOOLEAN : acks' = IF arrives THEN [acks EXCEPT ![c] = "done"] ELSE acks
  /\ UNCHANGED <<readiness, queue, expected, caller, reporting, stack, busy,
                 fate, runs, overtaken>>

-----------------------------------------------------------------------------
PluginStep ==
  \/ \E f \in PluginReports : Report(f)
  \/ Answer
  \/ Execute
  \/ FinishBatch

CommandsNext ==
  \/ \E c \in Commands :
       CallTool(c) \/ Enqueue(c) \/ ReadAck(c) \/ GiveUp(c) \/ Acknowledge(c)
  \/ PluginStep
  \/ LoseReport

(* The plugin reports for ever and works off its batches.                  *)
CommandsSpec == CommandsInit /\ [][CommandsNext]_commandVars /\ WF_commandVars(PluginStep)

-----------------------------------------------------------------------------
Callers == {"idle", "checked", "waiting", "refused", "timeout", "done", "rejected"}
Fates == {"new", "queued", "expired", "rejected", "delivered", "lost", "executed"}

(* Types, the bound of the queue, and that the queue holds the commands    *)
(* whose fate is open, each once.                                          *)
CommandsTypeOK ==
  /\ TypeOK
  /\ queue \in Seq(Commands) /\ Len(queue) <= QueueLimit
  /\ IsInjective(queue) /\ ToSet(queue) = {c \in Commands : fate[c] = "queued"}
  /\ acks \in [Commands -> {"none", "done", "rejected"}]
  /\ expected \in [Commands -> Records]
  /\ caller \in [Commands -> Callers]
  /\ reporting \in BOOLEAN /\ busy \in BOOLEAN
  /\ stack \in Seq([todo : Seq(Commands), phase : {"begun", "running", "done"}])
  /\ unacked \subseteq Commands /\ overtaken \subseteq Commands
  /\ fate \in [Commands -> Fates] /\ runs \in [Commands -> Nat]

(* No command runs twice, although batches nest and several reports drain  *)
(* the queue (drain_ready_plugin_commands, processPluginCommands).         *)
RunsAtMostOnce == \A c \in Commands : runs[c] <= 1

(* What a caller is told is so: a command acknowledged as executed was     *)
(* executed, one refused or rejected never is, and an error leaves nothing *)
(* behind (exec_sync_plugin_command, record_plugin_command_rejection).     *)
AnswersAreTrue ==
  \A c \in Commands :
    /\ caller[c] = "done" => runs[c] > 0
    /\ caller[c] \in {"rejected", "refused"} \/ acks[c] = "rejected" => runs[c] = 0

(* A command that relies on preview never runs when preview was lost after *)
(* the caller's check and before the command was handed out, even if it is *)
(* ready again by then (validate_expectation at both ends and the epochs   *)
(* of the readiness contract).                                             *)
NothingOvertakenRuns == \A c \in overtaken : runs[c] = 0

(* While the plugin reports, no queued command lingers, and one that       *)
(* reached the plugin is executed, however batches nest: after the last    *)
(* call each has expired, was rejected, got lost on the way or was         *)
(* executed.                                                               *)
CommandsSettle == <>[](\A c \in Commands : fate[c] \notin {"queued", "delivered"})

(* VertigoSyncPluginCommandBusy is set while commands are left to process. *)
BusyTellsTheTruth ==
  (\E i \in DOMAIN stack : stack[i].phase = "running" /\ stack[i].todo # << >>) => busy
=============================================================================

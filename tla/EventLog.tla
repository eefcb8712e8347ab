------------------------------ MODULE EventLog ------------------------------
(***************************************************************************)
(* The files the commands vsync event, vsync snapshot and vsync diff keep: *)
(* a log with one line per event, whose highest number gives the next one, *)
(* and snapshots.  An event is computed against the previous snapshot, and *)
(* the current one is written; nothing makes the one the other, so that    *)
(* who wants the next event to go on from there names the file (--previous *)
(* and --snapshot), or is told the same changes again.  Commands may run   *)
(* side by side, and be killed at any point; every file is written in      *)
(* pieces.                                                                 *)
(*                                                                         *)
(* The tree is a number that stands for its fingerprint.  The log is the   *)
(* sequence of what was written to it: the first half of an event, its     *)
(* second half, a newline.                                                 *)
(***************************************************************************)
EXTENDS Naturals, FiniteSets, Sequences

CONSTANTS Commands,   \* the processes that run one of the commands
          Torn,       \* a snapshot file that is missing, cut short, or written by two at once
          MaxTree,    \* bound: states of the tree
          MaxEvents,  \* bound: events begun
          MaxShots,   \* bound: snapshots taken without an event
          MaxKills    \* bound: commands killed

VARIABLES
  current,   \* the tree
  log,       \* the pieces in the log
  kept,      \* what each snapshot file holds
  shared,    \* the snapshot files that were emptied while another was writing them
  pc,        \* where each command is
  base,      \* the snapshot each command read
  made,      \* the tree each command built
  number,    \* the number each command took
  target,    \* the snapshot file each command writes
  logged,    \* history: trees with an event
  shot,      \* history: trees of which a snapshot was taken without an event
  disturbed, \* history: an event may share its number or its line with another
  begun, shots, kills  \* bounds

ours == <<pc, base, made, number, target>>
bounds == <<begun, shots, kills>>
logVars == <<current, log, kept, shared, ours, logged, shot, disturbed, bounds>>

SnapshotFiles == {"current", "previous"}

Newline == [piece |-> "newline"]
Half(part, n, from, to) == [piece |-> part, seq |-> n, base |-> from, tree |-> to]

(* The lines of the log; what follows the last newline is one more line    *)
(* when there is any.                                                      *)
Newlines == {i \in DOMAIN log : log[i] = Newline}
LineStart(i) == i \in DOMAIN log /\ log[i] # Newline /\ (i = 1 \/ log[i - 1] = Newline)
LineEnd(i) == CHOOSE j \in i .. Len(log) :
                /\ \A k \in i .. j : log[k] # Newline
                /\ j = Len(log) \/ log[j + 1] = Newline
Lines == {SubSeq(log, i, LineEnd(i)) : i \in {k \in DOMAIN log : LineStart(k)}}

(* A line is JSON when it is one event, whole.                             *)
Parses(line) ==
  /\ Len(line) = 2 /\ line[1].piece = "head" /\ line[2].piece = "tail"
  /\ \A field \in {"seq", "base", "tree"} : line[1][field] = line[2][field]

(* A slip in NextEventSeq: the events are counted from zero.               *)
Highest(numbers) == CHOOSE n \in numbers \cup {0} : \A m \in numbers : m <= n
NextEventSeqCounted == Cardinality(Lines)
NextEventSeq == Highest({line[1].seq : line \in Lines}) + 1

LogInit ==
  /\ current = 1 /\ log = <<>>
  /\ kept = [f \in SnapshotFiles |-> Torn] /\ shared = {}
  /\ pc = [c \in Commands |-> "idle"]
  /\ base = [c \in Commands |-> 0] /\ made = [c \in Commands |-> 0] /\ number = [c \in Commands |-> 0]
  /\ target = [c \in Commands |-> "current"]
  /\ logged = {} /\ shot = {} /\ disturbed = FALSE
  /\ begun = 0 /\ shots = 0 /\ kills = 0

ChangeTree ==
  /\ current < MaxTree /\ current' = current + 1
  /\ UNCHANGED <<log, kept, shared, ours, logged, shot, disturbed, bounds>>

(* A command that ends takes what it knew with it.                         *)
Leave(c) ==
  /\ pc' = [pc EXCEPT ![c] = "idle"]
  /\ base' = [base EXCEPT ![c] = 0] /\ made' = [made EXCEPT ![c] = 0]
  /\ number' = [number EXCEPT ![c] = 0] /\ target' = [target EXCEPT ![c] = "current"]

(* A command that cannot read the snapshot gives up.                       *)
ReadPrevious(c) ==
  /\ pc[c] = "idle" /\ begun < MaxEvents /\ begun' = begun + 1
  /\ \E f \in SnapshotFiles : kept[f] # Torn /\ base' = [base EXCEPT ![c] = kept[f]]
  /\ pc' = [pc EXCEPT ![c] = "building"]
  /\ UNCHANGED <<current, log, kept, shared, made, number, target, logged, shot, disturbed, shots, kills>>

BuildCurrent(c) ==
  /\ pc[c] = "building"
  /\ made' = [made EXCEPT ![c] = current]
  /\ pc' = [pc EXCEPT ![c] = "numbering"]
  /\ UNCHANGED <<current, log, kept, shared, base, number, target, logged, shot, disturbed, bounds>>

(* next_event_seq; one line that is not JSON and the command gives up.     *)
Writing == {"head", "tail", "newline"}
TakeNumber(c) ==
  /\ pc[c] = "numbering"
  /\ \/ /\ \A line \in Lines : Parses(line)
        /\ number' = [number EXCEPT ![c] = NextEventSeq]
        /\ pc' = [pc EXCEPT ![c] = "head"]
        /\ UNCHANGED <<base, made, target>>
        /\ disturbed' = (disturbed \/ \E d \in Commands : pc[d] \in Writing)
     \/ /\ \E line \in Lines : ~ Parses(line)
        /\ Leave(c) /\ UNCHANGED disturbed
  /\ UNCHANGED <<current, log, kept, shared, logged, shot, bounds>>

(* append_event writes through an unbuffered file: the event in pieces,    *)
(* then the newline.                                                       *)
AppendHead(c) ==
  /\ pc[c] = "head"
  /\ log' = Append(log, Half("head", number[c], base[c], made[c]))
  /\ pc' = [pc EXCEPT ![c] = "tail"]
  /\ UNCHANGED <<current, kept, shared, base, made, number, target, logged, shot, disturbed, bounds>>

AppendTail(c) ==
  /\ pc[c] = "tail"
  /\ log' = Append(log, Half("tail", number[c], base[c], made[c]))
  /\ logged' = logged \cup {made[c]}
  /\ pc' = [pc EXCEPT ![c] = "newline"]
  /\ UNCHANGED <<current, kept, shared, base, made, number, target, shot, disturbed, bounds>>

AppendNewline(c) ==
  /\ pc[c] = "newline"
  /\ log' = Append(log, Newline)
  /\ pc' = [pc EXCEPT ![c] = "truncating"]
  /\ UNCHANGED <<current, kept, shared, base, made, number, target, logged, shot, disturbed, bounds>>

(* vsync snapshot, and vsync diff --snapshot: the tree is kept, and there  *)
(* is no event.                                                            *)
Shoot(c) ==
  /\ pc[c] = "idle" /\ shots < MaxShots /\ shots' = shots + 1
  /\ made' = [made EXCEPT ![c] = current]
  /\ shot' = shot \cup {current}
  /\ pc' = [pc EXCEPT ![c] = "truncating"]
  /\ UNCHANGED <<current, log, kept, shared, base, number, target, logged, disturbed, begun, kills>>

(* write_json_file empties the file, then fills it.  Two that do so at     *)
(* once write over each other; pieces of both are taken not to be JSON.    *)
TruncateSnapshot(c) ==
  /\ pc[c] = "truncating"
  /\ \E f \in SnapshotFiles :
       /\ kept' = [kept EXCEPT ![f] = Torn]
       /\ target' = [target EXCEPT ![c] = f]
       /\ shared' = IF \E d \in Commands : pc[d] = "filling" /\ target[d] = f
                      THEN shared \cup {f} ELSE shared \ {f}
  /\ pc' = [pc EXCEPT ![c] = "filling"]
  /\ UNCHANGED <<current, log, base, made, number, logged, shot, disturbed, bounds>>

FillSnapshotAnew(c) ==
  /\ pc[c] = "filling"
  /\ kept' = [kept EXCEPT ![target[c]] = current]
  /\ Leave(c)
  /\ UNCHANGED <<current, log, shared, logged, shot, disturbed, bounds>>

(* What is kept is the snapshot the event leads to; in the slip above the  *)
(* tree as it is by now.                                                   *)
FillSnapshot(c) ==
  /\ pc[c] = "filling"
  /\ \E content \in {made[c]} \cup (IF target[c] \in shared THEN {Torn} ELSE {}) :
       kept' = [kept EXCEPT ![target[c]] = content]
  /\ Leave(c)
  /\ UNCHANGED <<current, log, shared, logged, shot, disturbed, bounds>>

(* A command is killed, or fails to write.                                 *)
Kill(c) ==
  /\ pc[c] # "idle" /\ kills < MaxKills /\ kills' = kills + 1
  /\ Leave(c)
  /\ disturbed' = (disturbed \/ pc[c] \in {"tail", "newline"})
  /\ UNCHANGED <<current, log, kept, shared, logged, shot, begun, shots>>

Command(c) ==
  \/ ReadPrevious(c) \/ BuildCurrent(c) \/ TakeNumber(c)
  \/ AppendHead(c) \/ AppendTail(c) \/ AppendNewline(c)
  \/ Shoot(c) \/ TruncateSnapshot(c) \/ FillSnapshot(c)

LogNext == ChangeTree \/ \E c \in Commands : Command(c) \/ Kill(c)

LogSpec == LogInit /\ [][LogNext]_logVars

---------------------------------------------------------------------------
(* A snapshot the next event may be computed against has its event in the  *)
(* log, unless it was taken without one: otherwise a change would never be *)
(* told.  Commands may be killed and overlap (command_event appends the    *)
(* event first and writes the snapshot last; command_snapshot).            *)
NothingGoesUnlogged == \A f \in SnapshotFiles : kept[f] \in {Torn} \cup logged \cup shot

(* The events of the log are numbered from one without a gap, in order,    *)
(* and each starts from the tree an earlier one led to, or from one of     *)
(* which a snapshot was taken without an event.  Commands may overlap, but *)
(* none takes its number while another is about to append, and none is     *)
(* killed within a line (next_event_seq, append_event, command_event).     *)
Events == {i \in DOMAIN log : LineStart(i) /\ Parses(SubSeq(log, i, LineEnd(i)))}
EventsChain ==
  ~disturbed =>
    \A i \in Events :
      /\ log[i].seq = 1 \/ \E k \in Events : k < i /\ log[k].seq + 1 = log[i].seq
      /\ \A k \in Events : k < i => log[k].seq < log[i].seq
      /\ log[i].base \in shot \/ \E k \in Events : k < i /\ log[k].tree = log[i].base

(* A log can be read again, whatever happened to its writers.              *)
LogStaysReadable == (\A c \in Commands : pc[c] = "idle") => \A line \in Lines : Parses(line)
=============================================================================

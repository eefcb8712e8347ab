---------------------------- MODULE MCFileWriters --------------------------
(* Those who write several files one after the other and may be stopped or *)
(* fail in between: POST /sync/patch on the sources, and the commands that *)
(* keep the event log and its snapshots.  They share no file: a behaviour  *)
(* is about one of them.                                                   *)
(*                                                                         *)
(* Patches: two files, with requests that write, delete and expect in      *)
(* either order, one that names a file twice and an empty one.  The log:   *)
(* two commands, alike.                                                    *)
EXTENDS PatchTransaction, EventLog, TLC

VARIABLE subject   \* what the behaviour is about

CONSTANTS a, b, c1, c2

Do(f, c, e) == [path |-> f, to |-> c, expected |-> e]

MCRequests == {
  << >>,
  << Do(a, c2, c1), Do(b, c2, Unknown) >>,
  << Do(b, c1, Missing), Do(a, Missing, c2) >>,
  << Do(a, c1, Unknown), Do(a, c2, Unknown) >>,
  << Do(b, Missing, c2) >> }

MCInit ==
  /\ subject \in {"patch", "log"}
  /\ PatchInit /\ (subject # "patch" => disk = [f \in Paths |-> Missing])
  /\ LogInit

MCNext ==
  /\ UNCHANGED subject
  /\ \/ subject = "patch" /\ PatchNext /\ UNCHANGED logVars
     \/ subject = "log" /\ LogNext /\ UNCHANGED patchVars

MCVars == <<subject, patchVars, logVars>>
MCSpec == MCInit /\ [][MCNext]_MCVars

Alike == Permutations(Commands)
=============================================================================

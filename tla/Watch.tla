------------------------------- MODULE Watch -------------------------------
(***************************************************************************)
(* The loops that follow a tree that changes: vsync watch (poll), vsync    *)
(* watch-native (native), vsync sourcemap --watch (sourcemap) and the      *)
(* poller of vsync serve with the source map it keeps up to date (serve).  *)
(* Each reads the roots one after the other, so that a root may change     *)
(* behind its back, and compares with what it read before.                 *)
(*                                                                         *)
(* A root's content is a number, 0 when it is not there.  What a root      *)
(* holds, and the difference of two readings, is in SnapshotBuilder and    *)
(* TreeDiff; the source map is in PlaceFiles.                              *)
(***************************************************************************)
EXTENDS Naturals, Sequences, Functions

CONSTANTS IncludeRoots,   \* the include roots, in the order they are read
          MaxChanges,     \* bound: changes of the tree
          MaxFailures     \* bound: readings that fail

VARIABLES
  mode,      \* the command
  tree,      \* what each root holds
  watched,   \* the roots the file watcher was told of
  posted,    \* changes the file watcher has yet to report
  channel,   \* reports in the channel
  phase,     \* where the loop is
  scan,      \* what has been read of the tree in this pass
  output,    \* the reading last reported
  unheard,   \* history: roots changed since they were read and not watched
  dropped,   \* history: a report was used up by a reading that failed
  changes, failures  \* bounds

watchVars == <<mode, tree, watched, posted, channel, phase, scan, output, unheard, dropped, changes, failures>>

Present == {r \in Range(IncludeRoots) : tree[r] > 0}
Polls == mode \in {"poll", "serve"}
Whole == Len(scan) = Len(IncludeRoots)
Reading == [r \in Range(IncludeRoots) |-> scan[CHOOSE i \in DOMAIN IncludeRoots : IncludeRoots[i] = r]]

(* The first reading is taken before anything is watched.                  *)
WatchInit ==
  /\ mode \in {"poll", "native", "sourcemap", "serve"}
  /\ tree \in [Range(IncludeRoots) -> {0, 1}]
  /\ watched = {} /\ posted = 0 /\ channel = 0
  /\ phase = "opening" /\ scan = <<>>
  /\ output = [r \in Range(IncludeRoots) |-> 0]
  /\ unheard = {} /\ dropped = FALSE
  /\ changes = 0 /\ failures = 0

(* A developer changes, adds or removes a root.  A watcher follows the     *)
(* roots that were there when it was set up; whether it still does once a  *)
(* root was removed depends on the operating system.                       *)
ChangeRoot(r) ==
  /\ changes < MaxChanges /\ changes' = changes + 1
  /\ \E content \in {0, changes + 2} \ {tree[r]} :
        /\ tree' = [tree EXCEPT ![r] = content]
        /\ watched' \in {watched} \cup IF content = 0 THEN {watched \ {r}} ELSE {}
  /\ posted' = IF r \in watched THEN posted + 1 ELSE posted
  /\ unheard' = IF r \in watched \/ Polls THEN unheard ELSE unheard \cup {r}
  /\ UNCHANGED <<mode, channel, phase, scan, output, dropped, failures>>

(* The operating system reports in its own time.                           *)
Notify ==
  /\ posted > 0
  /\ posted' = posted - 1 /\ channel' = channel + 1
  /\ UNCHANGED <<mode, tree, watched, phase, scan, output, unheard, dropped, changes, failures>>

(* One root of the pass is read.                                           *)
ReadRoot ==
  /\ phase \in {"opening", "reading"} /\ ~Whole
  /\ LET r == IncludeRoots[Len(scan) + 1]
     IN  scan' = Append(scan, tree[r]) /\ unheard' = unheard \ {r}
  /\ UNCHANGED <<mode, tree, watched, posted, channel, phase, output, dropped, changes, failures>>

(* The first reading goes out, or stays what later ones are compared with; *)
(* then the watcher is told of the roots, one by one.                      *)
Open ==
  /\ phase = "opening" /\ Whole
  /\ output' = Reading /\ scan' = <<>>
  /\ phase' = IF Polls THEN "waiting" ELSE "registering"
  /\ UNCHANGED <<mode, tree, watched, posted, channel, unheard, dropped, changes, failures>>

Register ==
  /\ phase = "registering"
  /\ scan' = Append(scan, 0)
  /\ watched' = watched \cup ({IncludeRoots[Len(scan')]} \cap Present)
  /\ phase' = IF Len(scan') = Len(IncludeRoots) THEN "listening" ELSE "registering"
  /\ UNCHANGED <<mode, tree, posted, channel, output, unheard, dropped, changes, failures>>

(* watch-native and sourcemap --watch sleep until a report is there, then  *)
(* take what comes within the window.                                      *)
Receive ==
  /\ phase \in {"listening", "draining"} /\ channel > 0
  /\ channel' = channel - 1
  /\ phase' = "draining" /\ scan' = <<>>
  /\ UNCHANGED <<mode, tree, watched, posted, output, unheard, dropped, changes, failures>>

CloseWindow ==
  /\ phase = "draining"
  /\ phase' = "reading" /\ dropped' = FALSE
  /\ UNCHANGED <<mode, tree, watched, posted, channel, scan, output, unheard, changes, failures>>

(* watch and serve sleep for their interval.  In serve the task that       *)
(* signals the coalescer is the one that waits for it, so that the window  *)
(* is one more delay.                                                      *)
Tick ==
  /\ phase = "waiting"
  /\ phase' = "reading" /\ scan' = <<>>
  /\ UNCHANGED <<mode, tree, watched, posted, channel, output, unheard, dropped, changes, failures>>

Rest == IF Polls THEN "waiting" ELSE "listening"

(* A slip in Report: what was reported meanwhile is taken to be read.      *)
ReportAndClear ==
  /\ phase = "reading" /\ Whole
  /\ output' = Reading
  /\ channel' = 0
  /\ phase' = Rest
  /\ UNCHANGED <<mode, tree, watched, posted, scan, unheard, dropped, changes, failures>>

(* A reading that differs is written, and is what the next is compared     *)
(* with; serve and sourcemap --watch write the source map in any case.     *)
Report ==
  /\ phase = "reading" /\ Whole
  /\ output' = Reading
  /\ phase' = Rest
  /\ UNCHANGED <<mode, tree, watched, posted, channel, scan, unheard, dropped, changes, failures>>

(* A file that vanishes between listing and reading fails the reading:     *)
(* watch ends, the others go on, and a report that led to it is gone.      *)
ReadFails ==
  /\ phase = "reading" /\ failures < MaxFailures
  /\ failures' = failures + 1
  /\ phase' = IF mode = "poll" THEN "ended" ELSE Rest
  /\ dropped' = ~Polls
  /\ UNCHANGED <<mode, tree, watched, posted, channel, scan, output, unheard, changes>>

Loop ==
  \/ ReadRoot \/ Open \/ Register \/ Receive \/ CloseWindow \/ Tick \/ Report

WatchNext ==
  \/ \E r \in Range(IncludeRoots) : ChangeRoot(r)
  \/ Notify \/ Loop \/ ReadFails

WatchFairness == WF_watchVars(Notify) /\ WF_watchVars(Loop)
WatchSpec == WatchInit /\ [][WatchNext]_watchVars /\ WatchFairness

---------------------------------------------------------------------------
(* Whatever changes while a pass reads, while the window is open and while *)
(* roots are being registered, what is reported is the tree in the end,    *)
(* but for what no watcher was told of: roots that changed between the     *)
(* first reading and their registration or were not there then, and a      *)
(* reading that failed with nothing reported since (run_watch_native's     *)
(* continue).                                                              *)
ReportsCatchUp ==
  <>[](\/ phase = "ended" \/ dropped
       \/ \A r \in Range(IncludeRoots) : output[r] = tree[r] \/ r \in unheard)

=============================================================================

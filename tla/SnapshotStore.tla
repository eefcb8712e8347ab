---------------------------- MODULE SnapshotStore ----------------------------
(***************************************************************************)
(* The snapshots of the serve process: the fields `current`, `history`,    *)
(* `history_order`, `history_rows`, `sequence` and `tx` of `ServerState`,  *)
(* each behind a mutex of its own, and the tasks that install snapshots in *)
(* them: the poller, POST /sync/patch and the MCP tools that write files.  *)
(* A step is what a task does between taking and releasing a mutex, so     *)
(* tasks interleave wherever the code lets go of one.                      *)
(*                                                                         *)
(* A state of the source tree is a member of Contents; the fingerprint of  *)
(* a snapshot identifies what it was built from, so the two are one value. *)
(* Only the poller applies the project's globIgnorePaths.                  *)
(***************************************************************************)
EXTENDS Naturals, Sequences, SequencesExt

CONSTANTS
  Contents,      (* states of the source tree                                 *)
  FirstContent,  (* the one the server starts with                            *)
  HasIgnored,    (* whether the project ignores files that exist              *)
  Patchers,      (* tasks serving POST /sync/patch                            *)
  Writers,       (* tasks serving an MCP tool that writes files               *)
  Readers,       (* tasks serving the MCP tools that list the history         *)
  MaxHistory,    (* MAX_HISTORY_ENTRIES, 256 in the code                      *)
  MaxEdits       (* bound on the changes of the source tree                   *)

ASSUME StoreAssumption ==
  /\ FirstContent \in Contents
  /\ HasIgnored \in BOOLEAN
  /\ MaxHistory \in Nat \ {0}
  /\ MaxEdits \in Nat

VARIABLES
  disk,          (* the source tree                                           *)
  edits,         (* how often it has changed                                  *)
  current,       (* ServerState::current                                      *)
  history,       (* the keys of ServerState::history                          *)
  order,         (* ServerState::history_order, oldest first                  *)
  rows,          (* the fingerprints of ServerState::history_rows             *)
  sequence,      (* ServerState::sequence                                     *)
  sent,          (* every event broadcast on ServerState::tx, in order        *)
  holder,        (* who holds patch_lock, history and history_order           *)
  task           (* per task: where it is, what it has built, its number      *)

storeVars == <<disk, edits, current, history, order, rows, sequence, sent, holder, task>>
tree == <<disk, edits>>
past == <<history, order, rows>>

Installers == {"poller"} \cup Patchers
Tasks == Installers \cup Writers \cup Readers
Nobody == "nobody"

Build(p, c) == [content |-> c, ignored |-> HasIgnored /\ p # "poller"]
Snapshots == [content : Contents, ignored : BOOLEAN]
First == Build("poller", FirstContent)
Idle == [at |-> "idle", built |-> First, number |-> 0]

Phases == {"idle", "patching", "patched", "built", "changed", "numbered", "installed",
           "recording", "recorded", "sent", "written", "listing"}

StoreInit ==
  /\ disk = FirstContent
  /\ edits = 0
  /\ current = First
  /\ history = {First}
  /\ order = <<First>>
  /\ rows = << >>
  /\ sequence = 0
  /\ sent = << >>
  /\ holder = [l \in {"patch", "history", "order"} |-> Nobody]
  /\ task = [p \in Tasks |-> Idle]

-----------------------------------------------------------------------------
Free(l) == holder[l] = Nobody
At(p, phase) == task[p].at = phase
Go(p, phase) == task' = [task EXCEPT ![p].at = phase]
Leave(p) == task' = [task EXCEPT ![p] = Idle]

Edit(c) ==
  /\ edits < MaxEdits
  /\ c # disk
  /\ disk' = c
  /\ edits' = edits + 1

(* A developer, or Studio through the file system, changes the tree.       *)
EditTree(c) == Edit(c) /\ UNCHANGED <<current, past, sequence, sent, holder, task>>

BuildSnapshot(p) ==
  /\ task' = [task EXCEPT ![p].at = "built", ![p].built = Build(p, disk)]
  /\ UNCHANGED <<tree, current, past, sequence, sent, holder>>

(* poll_and_broadcast up to install_snapshot_and_broadcast.                *)
Poll == At("poller", "idle") /\ BuildSnapshot("poller")

(* install_snapshot_and_broadcast, one critical section at a time.         *)
CompareWithHistory(p) ==
  /\ p \in Installers /\ At(p, "built")
  /\ Go(p, IF task[p].built \in history THEN "sent" ELSE "changed")
  /\ UNCHANGED <<tree, current, past, sequence, sent, holder>>
CompareWithCurrent(p) ==
  /\ p \in Installers /\ At(p, "built")
  /\ Go(p, IF task[p].built = current THEN "sent" ELSE "changed")
  /\ UNCHANGED <<tree, current, past, sequence, sent, holder>>

NumberWithoutLock(p) ==
  /\ At(p, "changed")
  /\ task' = [task EXCEPT ![p].at = "numbered", ![p].number = Len(sent) + 1]
  /\ sequence' = Len(sent) + 1
  /\ UNCHANGED <<tree, current, past, sent, holder>>
TakeNumber(p) ==
  /\ At(p, "changed")
  /\ sequence' = sequence + 1
  /\ task' = [task EXCEPT ![p].at = "numbered", ![p].number = sequence + 1]
  /\ UNCHANGED <<tree, current, past, sent, holder>>

SetCurrent(p) ==
  /\ At(p, "numbered")
  /\ current' = task[p].built
  /\ Go(p, "installed")
  /\ UNCHANGED <<tree, past, sequence, sent, holder>>

EnterHistory(p) ==
  /\ At(p, "installed")
  /\ holder' = [holder EXCEPT !["history"] = p]
  /\ Go(p, "recording")
  /\ UNCHANGED <<tree, current, past, sequence, sent>>
LockHistory(p) ==
  /\ At(p, "installed") /\ Free("history")
  /\ holder' = [holder EXCEPT !["history"] = p]
  /\ Go(p, "recording")
  /\ UNCHANGED <<tree, current, past, sequence, sent>>

(* With history held, history_order is taken; rows and timestamps follow,  *)
(* which no task keeps.  A snapshot seen before is not recorded again.     *)
RecordAgain(p) ==
  LET grown == Append(order, task[p].built)
      full  == Len(grown) > MaxHistory
  IN
  /\ At(p, "recording") /\ Free("order")
  /\ order' = IF full THEN Tail(grown) ELSE grown
  /\ history' = (history \cup {task[p].built}) \ (IF full THEN {Head(grown)} ELSE {})
  /\ rows' = IF full THEN Tail(Append(rows, task[p].built)) ELSE Append(rows, task[p].built)
  /\ holder' = [holder EXCEPT !["history"] = Nobody]
  /\ Go(p, "recorded")
  /\ UNCHANGED <<tree, current, sequence, sent>>
RecordHistory(p) ==
  LET grown == Append(order, task[p].built)
      full  == Len(grown) > MaxHistory
  IN
  /\ At(p, "recording") /\ Free("order")
  /\ IF task[p].built \in history THEN UNCHANGED past
     ELSE /\ order' = IF full THEN Tail(grown) ELSE grown
          /\ history' = (history \cup {task[p].built}) \ (IF full THEN {Head(grown)} ELSE {})
          /\ LET longer == Append(rows, task[p].built)
             IN  rows' = IF full THEN Tail(longer) ELSE longer
  /\ holder' = [holder EXCEPT !["history"] = Nobody]
  /\ Go(p, "recorded")
  /\ UNCHANGED <<tree, current, sequence, sent>>

SendEvent(p) ==
  /\ At(p, "recorded")
  /\ sent' = Append(sent, [number |-> task[p].number, hash |-> task[p].built])
  /\ Go(p, "sent")
  /\ UNCHANGED <<tree, current, past, sequence, holder>>

PollDone ==
  /\ At("poller", "sent")
  /\ Leave("poller")
  /\ UNCHANGED <<tree, current, past, sequence, sent, holder>>

-----------------------------------------------------------------------------
(* handle_patch: patch_lock is held to the end.  A request that names      *)
(* another snapshot than the current one is rejected without effect, and   *)
(* so is one that cannot be planned, expected or applied (AbandonPatch).   *)
StartPatch(p) ==
  /\ At(p, "idle") /\ Free("patch")
  /\ edits < MaxEdits
  /\ holder' = [holder EXCEPT !["patch"] = p]
  /\ Go(p, "patching")
  /\ UNCHANGED <<tree, current, past, sequence, sent>>

ApplyPatch(p, c) ==
  /\ At(p, "patching")
  /\ Edit(c)
  /\ Go(p, "patched")
  /\ UNCHANGED <<current, past, sequence, sent, holder>>

AbandonPatch(p) ==
  /\ At(p, "patching")
  /\ holder' = [holder EXCEPT !["patch"] = Nobody]
  /\ Leave(p)
  /\ UNCHANGED <<tree, current, past, sequence, sent>>

BuildPatched(p) == At(p, "patched") /\ p \in Patchers /\ BuildSnapshot(p)

AckPatch(p) ==
  /\ p \in Patchers /\ At(p, "sent")
  /\ holder' = [holder EXCEPT !["patch"] = Nobody]
  /\ Leave(p)
  /\ UNCHANGED <<tree, current, past, sequence, sent>>

(* An MCP tool that writes, then rebuild_snapshot: no number, no order, no *)
(* row and no event.                                                       *)
WriteFiles(w, c) ==
  /\ At(w, "idle")
  /\ Edit(c)
  /\ Go(w, "patched")
  /\ UNCHANGED <<current, past, sequence, sent, holder>>

BuildWritten(w) == At(w, "patched") /\ w \in Writers /\ BuildSnapshot(w)

SetCurrentRebuilt(w) ==
  /\ w \in Writers /\ At(w, "built")
  /\ current' = task[w].built
  /\ Go(w, "written")
  /\ UNCHANGED <<tree, past, sequence, sent, holder>>

InsertRebuilt(w) ==
  /\ At(w, "written") /\ Free("history")
  /\ history' = history \cup {task[w].built}
  /\ Leave(w)
  /\ UNCHANGED <<tree, current, order, rows, sequence, sent, holder>>

(* exec_events and exec_sync_file_history: history_order, then history.    *)
LockOrder(r) ==
  /\ At(r, "idle") /\ Free("order")
  /\ holder' = [holder EXCEPT !["order"] = r]
  /\ Go(r, "listing")
  /\ UNCHANGED <<tree, current, past, sequence, sent>>

ListHistory(r) ==
  /\ At(r, "listing") /\ Free("history")
  /\ holder' = [holder EXCEPT !["order"] = Nobody]
  /\ Leave(r)
  /\ UNCHANGED <<tree, current, past, sequence, sent>>

-----------------------------------------------------------------------------
Install(p) ==
  \/ CompareWithCurrent(p) \/ TakeNumber(p) \/ SetCurrent(p)
  \/ LockHistory(p) \/ RecordHistory(p) \/ SendEvent(p)

Poller == Poll \/ Install("poller") \/ PollDone
FinishPatch(p) == BuildPatched(p) \/ Install(p) \/ AckPatch(p)
FinishWrite(w) == BuildWritten(w) \/ SetCurrentRebuilt(w) \/ InsertRebuilt(w)

StoreNext ==
  \/ \E c \in Contents : EditTree(c)
  \/ Poller
  \/ \E p \in Patchers :
       \/ StartPatch(p)
       \/ \E c \in Contents : ApplyPatch(p, c)
       \/ AbandonPatch(p)
       \/ FinishPatch(p)
  \/ \E w \in Writers :
       \/ \E c \in Contents : WriteFiles(w, c)
       \/ FinishWrite(w)

(* With the tools that list the history.                                   *)
ListingNext == StoreNext \/ \E r \in Readers : LockOrder(r) \/ ListHistory(r)

(* The poller is a loop that never ends, and a request that has begun is   *)
(* carried on by the async runtime.                                        *)
StoreFairness ==
  /\ WF_storeVars(Poller)
  /\ \A p \in Patchers : WF_storeVars(FinishPatch(p) \/ AbandonPatch(p))
  /\ \A w \in Writers : WF_storeVars(FinishWrite(w))

StoreSpec == StoreInit /\ [][StoreNext]_storeVars /\ StoreFairness
ListingSpec == StoreInit /\ [][ListingNext]_storeVars

-----------------------------------------------------------------------------
(* Every field keeps its type, and a mutex has a holder exactly while one  *)
(* task is in the section it guards (patch_lock through all of             *)
(* handle_patch, history while its maps are updated).                      *)
StoreTypeOK ==
  /\ disk \in Contents /\ edits \in 0..MaxEdits
  /\ current \in Snapshots /\ history \subseteq Snapshots
  /\ order \in Seq(Snapshots) /\ rows \in Seq(Snapshots)
  /\ sequence \in Nat
  /\ sent \in Seq([number : Nat, hash : Snapshots])
  /\ holder \in [{"patch", "history", "order"} -> Tasks \cup {Nobody}]
  /\ task \in [Tasks -> [at : Phases, built : Snapshots, number : Nat]]
  /\ \A p \in Patchers : At(p, "idle") <=> holder["patch"] # p
  /\ \A p \in Installers : At(p, "recording") <=> holder["history"] = p
  /\ \A r \in Readers : At(r, "listing") <=> holder["order"] = r

(* No two events carry the same sequence_id, whichever installers race.    *)
EventNumbersUnique ==
  \A i, j \in DOMAIN sent : sent[i].number = sent[j].number => i = j

(* Time travel finds what the timeline offers: the order has no snapshot   *)
(* twice and stays within its limit, the rows are the order without its    *)
(* oldest entry, both name snapshots the history still holds, and the      *)
(* events have numbers of their own, although tasks install, revisit and   *)
(* evict snapshots side by side (install_snapshot_and_broadcast,           *)
(* rebuild_snapshot).                                                      *)
HistoryConsistent ==
  /\ Len(order) \in 1..MaxHistory
  /\ IsInjective(order)
  /\ rows = Tail(order)
  /\ \A i \in DOMAIN order : order[i] \in history
  /\ EventNumbersUnique

(* However installers overwrite each other with snapshots built too early, *)
(* once the tree is left alone the server ends up serving it.              *)
ServesTheTree == <>[](current = Build("poller", disk))

(* No task waits for a mutex held by one that waits for its own.           *)
LocksDoNotCycle ==
  ~ \E p \in Installers, r \in Readers :
      At(p, "recording") /\ At(r, "listing")
=============================================================================

---------------------------- MODULE PluginApply -----------------------------
(***************************************************************************)
(* How the Studio plugin turns snapshots, diffs and events into instances, *)
(* and how it travels in time (assets/plugin_src/00_main.lua).  What a     *)
(* snapshot, a diff or an event asks for is staged as one operation per    *)
(* file, under an epoch; the sources are fetched beside that, a batch at a *)
(* time, and operations are applied a few per frame.  Every request yields *)
(* to the other coroutines.  SnapshotClient has the same plugin by its     *)
(* fingerprint alone, with the window between greeting and subscription    *)
(* and with eviction; here a socket is subscribed when it greets.          *)
(* A file's source is its content, a script of its own; binary models and  *)
(* scripts that are too long for Studio are left out, as is the reuse of   *)
(* instances (instancePool).                                               *)
(***************************************************************************)
EXTENDS TreeDiff, SequencesExt

CONSTANTS
  Paths,        (* the files, numbered in their order                         *)
  Sources,      (* what a file may hold                                       *)
  FirstTree,    (* the files there are at first, a function to Sources        *)
  Slots,        (* adaptiveFetchConcurrency at most                           *)
  FetchRetries, (* MAX_SOURCE_FETCH_RETRIES                                   *)
  MaxWrites,    (* bound: how often the tree changes                          *)
  MaxLosses,    (* bound: requests that fail, batches that are too large      *)
  MaxClicks     (* bound: what the user asks for                              *)

ASSUME ApplyAssumption ==
  /\ IsFiniteSet(Paths) /\ Paths \subseteq Nat
  /\ FirstTree \in [DOMAIN FirstTree -> Sources] /\ DOMAIN FirstTree \subseteq Paths
  /\ "none" \notin Sources
  /\ Slots \in Nat \ {0} /\ FetchRetries \in Nat
  /\ {MaxWrites, MaxLosses, MaxClicks} \subseteq Nat

VARIABLES
  source,       (* the source tree: its files, and per path the change that   *)
                (* made it what it is                                         *)
  timeline,     (* the snapshots the server has served, the last one now      *)
  link,         (* the socket: is it open, which events are on their way      *)
  follower,     (* syncEnabled, lastHash, the request of tickSyncManager      *)
  work,         (* pendingOps and all the queues, and the instances           *)
  fetches,      (* the requests for sources under way                         *)
  travel,       (* HISTORY                                                    *)
  losses, clicks,
  wish          (* history: what the user last asked to see                   *)

applyVars == <<source, timeline, link, follower, work, fetches, travel, losses, clicks, wish>>

Never == [files |-> [p \in {} |-> 0], at |-> [p \in Paths |-> -1]]  (* lastHash is nil *)
Served == Last(timeline)
NoOp == [action |-> "none"]
Nothing == [epoch |-> 0]
Bare == [sha |-> "none"]

(* Of the fields of work, ops is pendingOps, queue and fetchQueue what is  *)
(* in the queues, fetchQueued and inflight the epochs of fetches, busy is  *)
(* fetchInFlight, and shown[p] the instance of a file with its attribute   *)
(* for the hash.  The rest is there for the properties: wanted[p] is the   *)
(* change of p that was last asked for, ahead has the files whose instance *)
(* is from a later change, tangled those that were moved with an operation *)
(* pending, and twinned those an instance was moved to that had one left.  *)
(* An instance is left when it was to be removed and was not.              *)
ApplyInit ==
  /\ source = [files |-> FirstTree, at |-> [p \in Paths |-> 0]]
  /\ timeline = <<source>>
  /\ link = [open |-> FALSE, events |-> << >>]
  /\ follower = [enabled |-> TRUE, last |-> Never, asks |-> "none",
                 base |-> Never, since |-> 0, mixed |-> FALSE]
  /\ work = [ops |-> [p \in Paths |-> NoOp], queue |-> << >>, epoch |-> 0, fetchQueue |-> << >>,
             fetchQueued |-> [p \in Paths |-> 0], inflight |-> [p \in Paths |-> 0], busy |-> 0,
             ready |-> [p \in Paths |-> Nothing], shown |-> [p \in Paths |-> Bare],
             resync |-> TRUE, wanted |-> [p \in Paths |-> -1], ahead |-> {}, tangled |-> {},
             twinned |-> {}]
  /\ fetches = {}
  /\ travel = [active |-> FALSE, at |-> "idle", index |-> 0, target |-> 0,
               next |-> 0, back |-> FALSE]
  /\ losses = 0 /\ clicks = 0 /\ wish = "live"

(* A set of files in the order of their places.                            *)
ByPath == [p \in Paths |-> p]
Rank(p, S, place) == Cardinality({q \in S : place[q] <= place[p]})
Listing(S, place) == [n \in 1..Cardinality(S) |-> CHOOSE p \in S : Rank(p, S, place) = n]

-----------------------------------------------------------------------------
(* Staging.                                                                *)
BeginFullResync(w) ==
  [w EXCEPT !.ops = [p \in Paths |-> NoOp], !.queue = << >>, !.fetchQueue = << >>,
            !.fetchQueued = [p \in Paths |-> 0], !.inflight = [p \in Paths |-> 0],
            !.ready = [p \in Paths |-> Nothing], !.epoch = @ + 1]

(* By default the queue has no limit (SETTINGS.applyQueueLimit is 0).      *)
EnqueuePaths(w, S, place) ==
  LET unqueued == {p \in S : w.ops[p] # NoOp /\ ~ w.ops[p].queued}
  IN  [w EXCEPT !.ops = [p \in Paths |->
                           IF p \in unqueued THEN [@[p] EXCEPT !.queued = TRUE] ELSE @[p]],
                !.queue = @ \o Listing(unqueued, place)]

(* The sources of operations that are neither asked for nor under way.     *)
PushFetchTasks(w, S, place) ==
  LET due == {p \in S : w.fetchQueued[p] < w.ops[p].epoch /\ w.inflight[p] < w.ops[p].epoch}
      task(p) == [path |-> p, epoch |-> w.ops[p].epoch]
  IN  [w EXCEPT !.fetchQueued = [p \in Paths |-> IF p \in due THEN w.ops[p].epoch ELSE @[p]],
                !.fetchQueue = @ \o [n \in 1..Cardinality(due) |-> task(Listing(due, place)[n])]]

(* A slip in Operation: one that is pending keeps its epoch.               *)
OperationInPlace(w, p, actions, place, at) ==
  [action |-> actions[p], retries |-> 0, at |-> at[p],
   epoch |-> IF w.ops[p] = NoOp THEN w.epoch + Rank(p, DOMAIN actions, place) ELSE w.ops[p].epoch,
   queued |-> w.ops[p] # NoOp /\ w.ops[p].queued]

Operation(w, p, actions, place, at) ==
  [action |-> actions[p], retries |-> 0, at |-> at[p],
   epoch |-> w.epoch + Rank(p, DOMAIN actions, place),
   queued |-> w.ops[p] # NoOp /\ w.ops[p].queued]

(* One operation for each of some files, in the order of their places.     *)
NewOperations(w, actions, place, at) ==
  LET asked == DOMAIN actions
  IN  [w EXCEPT !.epoch = @ + Cardinality(asked),
                !.ops = [p \in Paths |->
                           IF p \in asked THEN Operation(w, p, actions, place, at) ELSE @[p]],
                !.ready = [p \in Paths |->
                             IF p \in asked /\ actions[p] = "delete" THEN Nothing ELSE @[p]]]

StageOperations(w, actions, place, at) ==
  PushFetchTasks(EnqueuePaths(NewOperations(w, actions, place, at), DOMAIN actions, place),
                 {p \in DOMAIN actions : actions[p] = "write"}, place)

(* What a snapshot, a diff or an event says of some files.                 *)
Ask(w, actions, place, tree) ==
  LET asked == DOMAIN actions
  IN  StageOperations(
        [w EXCEPT !.wanted = [p \in Paths |-> IF p \in asked THEN tree.at[p] ELSE @[p]],
                  !.tangled = @ \ asked],
        actions, place, tree.at)

StageAll(w, action, files, tree) == Ask(w, [p \in files |-> action], ByPath, tree)

(* An instance is moved at once, whatever is pending for it, and whatever  *)
(* was left where it goes: of two that bear the name of one file shown has *)
(* the one that was moved.  Only a diff tells the hash.                    *)
Ends(moves) == {m.old : m \in moves} \cup {m.new : m \in moves}
MoveTo(p, moves) == CHOOSE m \in moves : m.new = p
Clean(w, m) ==
  w.ops[m.old] = NoOp /\ w.ops[m.new] = NoOp /\ w.shown[m.old].source = m.sha

Carried(w, m, sha) ==
  IF sha THEN [w.shown[m.old] EXCEPT !.sha = m.sha] ELSE w.shown[m.old]

CarryInstances(w, moves, tree, sha) ==
  LET clean == {m \in moves : Clean(w, m)}
  IN  [w EXCEPT !.shown = [p \in Paths |->
                    IF \E m \in moves : m.new = p THEN Carried(w, MoveTo(p, moves), sha)
                    ELSE IF p \in Ends(moves) THEN Bare ELSE @[p]],
                !.wanted = [p \in Paths |-> IF p \in Ends(moves) THEN tree.at[p] ELSE @[p]],
                !.ahead = @ \ Ends(moves),
                !.twinned = @ \cup {m.new : m \in {n \in moves : w.shown[n.new] # Bare}},
                !.tangled = (@ \ Ends(clean)) \cup Ends(moves \ clean)]

(* Without an instance, one is deleted and one written, a move after the   *)
(* other.                                                                  *)
PairedPlace(moves) ==
  [p \in Ends(moves) |-> IF \E m \in moves : m.new = p THEN 2 * p + 1
                         ELSE 2 * (CHOOSE m \in moves : m.old = p).new]
DeleteAndWrite(w, moves, tree) ==
  Ask(w, [p \in Ends(moves) |-> IF \E m \in moves : m.new = p THEN "write" ELSE "delete"],
      PairedPlace(moves), tree)

StageRenames(w, moves, tree, sha) ==
  LET bare == {m \in moves : w.shown[m.old] = Bare}
  IN  DeleteAndWrite(CarryInstances(w, moves \ bare, tree, sha), bare, tree)

(* pollDiff and onWsMessage take the four lists in different orders.       *)
StageDiff(w, base, tree) ==
  LET diff == DiffSnapshots(base.files, tree.files)
      fewer == StageAll(w, "delete", DOMAIN diff.deleted, tree)
      moved == StageRenames(fewer, diff.renamed, tree, TRUE)
      more == StageAll(moved, "write", DOMAIN diff.added, tree)
  IN  StageAll(more, "write", DOMAIN diff.modified, tree)

StageEvent(w, base, tree) ==
  LET diff == DiffSnapshots(base.files, tree.files)
      more == StageAll(w, "write", DOMAIN diff.added, tree)
      other == StageAll(more, "write", DOMAIN diff.modified, tree)
      fewer == StageAll(other, "delete", DOMAIN diff.deleted, tree)
  IN  StageRenames(fewer, diff.renamed, tree, FALSE)

(* Everything pending is dropped, what is managed is read off the          *)
(* instances, and what differs from the snapshot is staged.                *)
ReconcileSnapshot(w, tree) ==
  LET clean == BeginFullResync(w)
      extra == {p \in Paths : w.shown[p] # Bare} \ DOMAIN tree.files
      stale == {p \in DOMAIN tree.files : w.shown[p].sha # tree.files[p]}
  IN  StageAll(StageAll(clean, "delete", extra, tree), "write", stale, tree)

-----------------------------------------------------------------------------
(* The source tree and the server.                                         *)
Alike(f, g, p) ==
  (p \in DOMAIN f) = (p \in DOMAIN g) /\ (p \in DOMAIN f => f[p] = g[p])

(* The n-th change.                                                        *)
ChangeTree(files) ==
  \E n \in 1..MaxWrites :
    /\ \A p \in Paths : source.at[p] < n
    /\ \E p \in Paths : source.at[p] = n - 1
    /\ files # source.files
    /\ source' = [files |-> files,
                  at |-> [p \in Paths |->
                            IF Alike(files, source.files, p) THEN source.at[p] ELSE n]]
    /\ UNCHANGED <<timeline, link, follower, work, fetches, travel, losses, clicks, wish>>

Containing(files, p, s) == [q \in DOMAIN files \cup {p} |-> IF q = p THEN s ELSE files[q]]

WriteFile(p) == \E s \in Sources : ChangeTree(Containing(source.files, p, s))
RemoveFile(p) == ChangeTree(Restrict(source.files, DOMAIN source.files \ {p}))
RenameFile(p, q) ==
  /\ p \in DOMAIN source.files /\ p # q
  /\ ChangeTree(Containing(Restrict(source.files, DOMAIN source.files \ {p}), q, source.files[p]))

Serve ==
  /\ source.files # Served.files
  /\ timeline' = Append(timeline, source)
  /\ link' = [link EXCEPT !.events = IF link.open THEN Append(@, Len(timeline) + 1) ELSE @]
  /\ UNCHANGED <<source, follower, work, fetches, travel, losses, clicks, wish>>

-----------------------------------------------------------------------------
(* tickSyncManager, which does not run while the plugin is in the past.    *)
Ticking == ~ travel.active /\ follower.asks = "none"
Unsettled == work.resync \/ follower.last = Never

AskFor(what) ==
  /\ Ticking /\ follower.enabled
  /\ (what = "snapshot") = Unsettled
  /\ what = "diff" => ~ link.open
  /\ follower' = [follower EXCEPT !.asks = what, !.base = follower.last,
                                    !.since = Len(timeline)]
  /\ UNCHANGED <<source, timeline, link, work, fetches, travel, losses, clicks, wish>>

Answered == [follower EXCEPT !.asks = "none", !.base = Never, !.since = 0]

(* syncFromSnapshot: the request for a resync is over, whoever made it.    *)
TakeSnapshotAnswer ==
  /\ follower.asks = "snapshot"
  /\ \E i \in follower.since..Len(timeline) :
       /\ work' = [ReconcileSnapshot(work, timeline[i]) EXCEPT !.resync = FALSE]
       /\ follower' = [Answered EXCEPT !.last = timeline[i], !.mixed = FALSE]
  /\ UNCHANGED <<source, timeline, link, fetches, travel, losses, clicks, wish>>

(* The diff is from the hash the plugin had when it asked.  The plugin     *)
(* moves on to what the server has, or stays if nothing changed.           *)
TakeDiffAnswer ==
  /\ follower.asks = "diff"
  /\ \E i \in follower.since..Len(timeline) :
       IF timeline[i].files = follower.base.files
         THEN follower' = Answered /\ UNCHANGED work
         ELSE /\ work' = StageDiff(work, follower.base, timeline[i])
              /\ follower' = [Answered EXCEPT !.last = timeline[i],
                                !.mixed = @ \/ follower.base # follower.last]
  /\ UNCHANGED <<source, timeline, link, fetches, travel, losses, clicks, wish>>

(* A request fails, or the base of a diff is no longer known.              *)
RequestFails ==
  /\ follower.asks # "none" /\ losses < MaxLosses
  /\ losses' = losses + 1 /\ follower' = Answered
  /\ work' \in {work} \cup IF follower.asks = "diff" THEN {[work EXCEPT !.resync = TRUE]} ELSE {}
  /\ UNCHANGED <<source, timeline, link, fetches, travel, clicks, wish>>

OpenSocket ==
  /\ Ticking /\ follower.enabled /\ ~ Unsettled /\ ~ link.open
  /\ link' = [open |-> TRUE, events |-> << >>]
  /\ work' = [work EXCEPT !.resync = @ \/ follower.last.files # Served.files]
  /\ UNCHANGED <<source, timeline, follower, fetches, travel, losses, clicks, wish>>

(* onWsMessage, which asks neither for syncEnabled nor for HISTORY.        *)
HearEvent ==
  /\ link.events # << >>
  /\ LET i == Head(link.events)
     IN  /\ work' = StageEvent(work, timeline[i - 1], timeline[i])
         /\ follower' = [follower EXCEPT !.last = timeline[i],
                           !.mixed = @ \/ follower.last # timeline[i - 1]]
  /\ link' = [link EXCEPT !.events = Tail(@)]
  /\ UNCHANGED <<source, timeline, fetches, travel, losses, clicks, wish>>

FallBehind ==
  /\ link.events # << >> /\ losses < MaxLosses
  /\ losses' = losses + 1
  /\ link' = [link EXCEPT !.events = << >>]
  /\ work' = [work EXCEPT !.resync = TRUE]
  /\ UNCHANGED <<source, timeline, follower, fetches, travel, clicks, wish>>

CloseSocket ==
  /\ link.open
  /\ link' = [open |-> FALSE, events |-> << >>]
  /\ UNCHANGED <<source, timeline, follower, work, fetches, travel, losses, clicks, wish>>

-----------------------------------------------------------------------------
(* processFetchQueue and its workers.                                      *)
Wants(w, p, epoch) ==
  /\ w.ops[p] # NoOp /\ w.ops[p].action = "write" /\ w.ops[p].epoch = epoch

(* What the queue holds for an operation of the past is skipped.  How many *)
(* tasks go into one request is the adaptive concurrency's matter.         *)
StartFetch ==
  \E n \in 1..Len(work.fetchQueue) :
    LET items == Range(SubSeq(work.fetchQueue, 1, n))
        alive == {t \in items : Wants(work, t.path, t.epoch)}
        wants == [p \in {t.path : t \in alive} |-> work.ops[p].epoch]
    IN  /\ work.busy < Slots /\ Cardinality(alive) <= Slots - work.busy
        /\ work' = [work EXCEPT
             !.fetchQueue = SubSeq(@, n + 1, Len(@)),
             !.fetchQueued = [p \in Paths |-> IF \E t \in items : t.path = p THEN 0 ELSE @[p]],
             !.inflight = [p \in Paths |-> IF p \in DOMAIN wants THEN wants[p] ELSE @[p]],
             !.busy = @ + Cardinality(alive)]
        /\ fetches' = fetches \cup IF alive = {} THEN {}
                                     ELSE {[wants |-> wants, answered |-> FALSE,
                                            answer |-> [p \in {} |-> 0]]}
        /\ UNCHANGED <<source, timeline, link, follower, travel, losses, clicks, wish>>

(* handle_source and handle_sources_content: a file the current snapshot   *)
(* does not have is not found, any other is read from the disk.  A request *)
(* is answered in one step, and the hash is that of the content; how it    *)
(* may be another is in SnapshotBuilder.                                   *)
Answer(p) ==
  IF p \notin DOMAIN Served.files THEN [found |-> FALSE, at |-> Served.at[p]]
    ELSE IF p \notin DOMAIN source.files THEN [found |-> FALSE, at |-> source.at[p]]
    ELSE [found |-> TRUE, at |-> source.at[p], sha |-> source.files[p]]

AnswerFetch ==
  \E f \in fetches :
    /\ ~ f.answered
    /\ fetches' = (fetches \ {f}) \cup {[f EXCEPT !.answered = TRUE,
                                               !.answer = [p \in DOMAIN f.wants |-> Answer(p)]]}
    /\ UNCHANGED <<source, timeline, link, follower, work, travel, losses, clicks, wish>>

CompleteInflight(w, f) ==
  [w EXCEPT !.busy = IF @ < Cardinality(DOMAIN f.wants) THEN 0 ELSE @ - Cardinality(DOMAIN f.wants),
            !.inflight = [p \in Paths |->
               IF p \in DOMAIN f.wants /\ @[p] = f.wants[p] THEN 0 ELSE @[p]]]

(* A file that is not there is deleted.                                    *)
TakeSources(w, f) ==
  LET live == {p \in DOMAIN f.wants : Wants(w, p, f.wants[p])}
      found == {p \in live : f.answer[p].found}
      taken == [w EXCEPT !.ready = [p \in Paths |->
                  IF p \in found
                    THEN [epoch |-> f.wants[p], sha |-> f.answer[p].sha, at |-> f.answer[p].at]
                    ELSE @[p]]]
  IN  EnqueuePaths(
        NewOperations(taken, [p \in live \ found |-> "delete"], ByPath,
                      [p \in live |-> f.answer[p].at]),
        live, ByPath)

TakeFetch ==
  \E f \in fetches :
    /\ f.answered
    /\ fetches' = fetches \ {f}
    /\ work' = TakeSources(CompleteInflight(work, f), f)
    /\ UNCHANGED <<source, timeline, link, follower, travel, losses, clicks, wish>>

Retried(w, S) ==
  LET again(op) == [op EXCEPT !.retries = @ + 1]
  IN  [w EXCEPT !.ops = [p \in Paths |-> IF p \in S THEN again(w.ops[p]) ELSE w.ops[p]]]

(* A slip in ScheduleFetchRetries: after the last retry nothing is asked   *)
(* for.                                                                    *)
ScheduleFetchRetriesGiveUp(w, f) ==
  LET live == {p \in DOMAIN f.wants : Wants(w, p, f.wants[p])}
      last == {p \in live : w.ops[p].retries = FetchRetries}
  IN  PushFetchTasks(Retried(w, live), live \ last, ByPath)

(* The delay before a retry is left out: what changes meanwhile is found   *)
(* when the task is popped.  The last retry asks for a resync.             *)
ScheduleFetchRetries(w, f) ==
  LET live == {p \in DOMAIN f.wants : Wants(w, p, f.wants[p])}
      last == {p \in live : w.ops[p].retries = FetchRetries}
  IN  PushFetchTasks([Retried(w, live) EXCEPT !.resync = @ \/ last # {}], live \ last, ByPath)

FetchFails ==
  \E f \in fetches :
    /\ losses < MaxLosses /\ losses' = losses + 1
    /\ fetches' = fetches \ {f}
    /\ work' = ScheduleFetchRetries(CompleteInflight(work, f), f)
    /\ UNCHANGED <<source, timeline, link, follower, travel, clicks, wish>>

(* 413: the files are asked for again, one by one, and no retry is spent.  *)
BatchTooLarge ==
  \E f \in fetches :
    /\ Cardinality(DOMAIN f.wants) > 1
    /\ losses < MaxLosses /\ losses' = losses + 1
    /\ fetches' = fetches \ {f}
    /\ LET freed == CompleteInflight(work, f)
           alive == {p \in DOMAIN f.wants : Wants(freed, p, f.wants[p])}
       IN  work' = PushFetchTasks(freed, alive, ByPath)
    /\ UNCHANGED <<source, timeline, link, follower, travel, clicks, wish>>

-----------------------------------------------------------------------------
(* processApplyQueue, one operation.                                       *)
Applying == (follower.enabled \/ travel.active) /\ work.queue # << >>

Pop(w) == [w EXCEPT !.queue = Tail(@)]
Done(w, p, late) ==
  [w EXCEPT !.ops[p] = NoOp, !.ready[p] = Nothing,
            !.ahead = IF late THEN @ \cup {p} ELSE @ \ {p}]

ApplyWrite(w, p) ==
  IF w.ready[p].epoch # w.ops[p].epoch
    THEN IF w.inflight[p] # w.ops[p].epoch THEN PushFetchTasks(w, {p}, ByPath) ELSE w
    ELSE Done([w EXCEPT !.shown[p] = [sha |-> w.ready[p].sha, source |-> w.ready[p].sha,
                                      left |-> FALSE]],
              p, w.ready[p].at > w.wanted[p])

(* The function that removes an instance is called by a name that is not   *)
(* defined (applyDelete, where there is only Runtime.applyDelete), within  *)
(* a pcall: a warning is all that comes of it, and the operation is over.  *)
ApplyDelete(w, p) ==
  Done([w EXCEPT !.shown[p] = IF @ = Bare THEN Bare ELSE [@ EXCEPT !.left = TRUE]],
       p, w.ops[p].at > w.wanted[p])

Apply ==
  /\ Applying
  /\ LET p == Head(work.queue)
         popped == Pop(work)
         op == work.ops[p]
         taken == [popped EXCEPT !.ops[p].queued = FALSE]
     IN  work' = CASE op = NoOp             -> popped
                   [] op # NoOp /\ op.action = "delete" -> ApplyDelete(taken, p)
                   [] op # NoOp /\ op.action = "write"  -> ApplyWrite(taken, p)
  /\ UNCHANGED <<source, timeline, link, follower, fetches, travel, losses, clicks, wish>>

(* A write that fails is tried again, a few times, with the same source.   *)
ApplyFails ==
  /\ Applying /\ losses < MaxLosses /\ losses' = losses + 1
  /\ LET p == Head(work.queue)
         op == work.ops[p]
         taken == [Pop(work) EXCEPT !.ops[p].queued = FALSE]
     IN  /\ op # NoOp /\ op.action = "write" /\ work.ready[p].epoch = op.epoch
         /\ work' = IF op.retries = FetchRetries
                      THEN [taken EXCEPT !.ops[p] = NoOp, !.ready[p] = Nothing, !.resync = TRUE]
                      ELSE EnqueuePaths([taken EXCEPT !.ops[p].retries = @ + 1], {p}, ByPath)
  /\ UNCHANGED <<source, timeline, link, follower, fetches, travel, clicks, wish>>

-----------------------------------------------------------------------------
(* Time travel.  `at` is where rewindToIndex is: asked for the snapshot or *)
(* draining the queues for the builders.                                   *)
Busy == travel.at # "idle"

RewindToIndex(t, i) ==
  IF t.at # "idle" THEN [t EXCEPT !.back = FALSE, !.next = i]
    ELSE IF t.active /\ t.index = i THEN t
    ELSE [t EXCEPT !.active = TRUE, !.at = "asked", !.target = i]

ResumeLiveSync(t) ==
  IF t.at # "idle" THEN [t EXCEPT !.next = 0, !.back = TRUE]
    ELSE [t EXCEPT !.active = FALSE, !.index = 0, !.next = 0, !.back = FALSE]

(* What both do to the rest of the plugin.                                 *)
GoTo(t, i) ==
  /\ travel' = RewindToIndex(t, i)
  /\ follower' = IF travel' = t \/ t.at # "idle" THEN follower
                   ELSE [follower EXCEPT !.enabled = FALSE]
  /\ UNCHANGED work
GoLive(t) ==
  /\ travel' = ResumeLiveSync(t)
  /\ IF t.at # "idle" THEN UNCHANGED <<follower, work>>
       ELSE /\ follower' = [follower EXCEPT !.enabled = TRUE]
            /\ work' = [work EXCEPT !.resync = TRUE]

Click ==
  /\ clicks < MaxClicks /\ clicks' = clicks + 1
  /\ UNCHANGED <<source, timeline, link, fetches, losses>>
ClickHistory ==
  Click /\ wish' = "past" /\ \E i \in 1..Len(timeline) : GoTo(travel, i)
ClickLive ==
  Click /\ wish' = "live" /\ GoLive(travel)
(* The toolbar's button and toggle_sync.                                   *)
ToggleSync ==
  /\ Click
  /\ follower' = [follower EXCEPT !.enabled = ~ @]
  /\ work' = [work EXCEPT !.resync = @ \/ ~ follower.enabled]
  /\ wish' = IF follower.enabled THEN "off" ELSE IF travel.active THEN "past" ELSE "live"
  /\ UNCHANGED travel

Aside == UNCHANGED <<source, timeline, link, fetches, clicks, wish>>

RewindAnswered ==
  /\ travel.at = "asked"
  /\ LET tree == timeline[travel.target]
     IN  /\ work' = ReconcileSnapshot(work, tree)
         /\ follower' = [follower EXCEPT !.last = tree, !.mixed = FALSE]
  /\ travel' = [travel EXCEPT !.at = "draining", !.index = travel.target]
  /\ Aside /\ UNCHANGED losses
RewindFails ==
  /\ travel.at = "asked" /\ losses < MaxLosses /\ losses' = losses + 1
  /\ travel' = [travel EXCEPT !.at = "idle", !.active = FALSE]
  /\ follower' = [follower EXCEPT !.enabled = TRUE]
  /\ Aside /\ UNCHANGED work

(* The queues are drained, or five seconds are over, or there are no       *)
(* builders to wait for; what was asked for meanwhile comes next, before   *)
(* anything else (task.defer).                                             *)
RewindEnds ==
  /\ travel.at = "draining"
  /\ LET t == [travel EXCEPT !.at = "idle", !.back = FALSE, !.next = 0]
     IN  IF travel.back THEN GoLive(t)
         ELSE IF travel.next # 0 THEN GoTo(t, travel.next)
         ELSE travel' = t /\ UNCHANGED <<follower, work>>
  /\ Aside /\ UNCHANGED losses

-----------------------------------------------------------------------------
ChangeSource ==
  \/ \E p \in Paths : WriteFile(p)
  \/ \E p \in Paths : RemoveFile(p)
  \/ \E p, q \in Paths : RenameFile(p, q)

Poll == AskFor("snapshot") \/ AskFor("diff")
TakeAnswer == TakeSnapshotAnswer \/ TakeDiffAnswer
Rewinding == RewindAnswered \/ RewindEnds

ApplyNext ==
  \/ ChangeSource
  \/ Serve
  \/ Poll
  \/ TakeAnswer
  \/ RequestFails
  \/ OpenSocket
  \/ HearEvent
  \/ FallBehind
  \/ CloseSocket
  \/ StartFetch
  \/ AnswerFetch
  \/ TakeFetch
  \/ FetchFails
  \/ BatchTooLarge
  \/ Apply
  \/ ApplyFails
  \/ ClickHistory
  \/ ClickLive
  \/ ToggleSync
  \/ Rewinding
  \/ RewindFails

(* The server polls, the plugin ticks, its heartbeat goes on, and requests *)
(* are answered or fail: weak fairness of each.  Where a guard is simple   *)
(* and the effect is not, weak fairness is written out by that guard.      *)
ApplyFairness ==
  /\ WF_applyVars(Serve) /\ WF_applyVars(Poll) /\ WF_applyVars(AnswerFetch)
  /\ ([]<>(follower.asks = "none") \/ []<><<TakeAnswer>>_applyVars)
  /\ ([]<>(work.fetchQueue = << >> \/ work.busy = Slots) \/ []<><<StartFetch>>_applyVars)
  /\ ([]<>(\A f \in fetches : ~ f.answered) \/ []<><<TakeFetch>>_applyVars)
  /\ ([]<>(~ Applying) \/ []<><<Apply>>_applyVars)
  /\ ([]<>(travel.at = "idle") \/ []<><<Rewinding>>_applyVars)

ApplySpec == ApplyInit /\ [][ApplyNext]_applyVars /\ ApplyFairness

-----------------------------------------------------------------------------
Shows(p, tree) ==
  IF p \in DOMAIN tree.files
    THEN work.shown[p] # Bare /\ work.shown[p].source = tree.files[p]
    ELSE work.shown[p] = Bare

Mislabelled(p) == work.shown[p] # Bare /\ work.shown[p].sha # work.shown[p].source
OutOfStep(p) == p \in work.ahead \cup work.tangled \cup work.twinned \/ Mislabelled(p)
LeftBehind(p) == work.shown[p] # Bare /\ work.shown[p].left

Follows(p, tree) == Shows(p, tree) \/ (p \notin DOMAIN tree.files /\ LeftBehind(p)) \/ OutOfStep(p)

(* Nothing that was overtaken is applied and nothing is lost: a file with  *)
(* no operation pending is in Studio as it is in the snapshot the plugin   *)
(* believes to have, whichever fetches, diffs, events and resyncs crossed, *)
(* unless a resync is due.  Of a file the snapshot does not have there is  *)
(* nothing in Studio but an instance whose removal was tried and failed.   *)
(* What the code does not look at is left out: the source may come from a  *)
(* later change than the snapshot, an instance may have been moved before  *)
(* it was up to date or to a place where another was left, and a diff or   *)
(* an event may have been taken for a base the plugin did not have         *)
(* (stageOperation, processFetchQueue, processApplyQueue).                 *)
InstancesFollow ==
  (follower.last # Never /\ ~ work.resync /\ ~ follower.mixed) =>
    \A p \in Paths : work.ops[p] = NoOp => Follows(p, follower.last)

(* However often requests failed, the user travelled and switched sync off *)
(* and on: once the user wants to see what there is, and the plugin polls, *)
(* Studio ends up with every file of the tree, and with no other but those *)
(* whose removal failed.  What InstancesFollow leaves out stays wrong: it  *)
(* is out of step with the hashes for good.                                *)
StudioCatchesUp ==
  <>[](wish = "live" /\ ~ link.open) =>
    <>[](\A p \in Paths : follower.mixed \/ Follows(p, source))

(* Studio is synchronized with the files: once nothing is pending for a    *)
(* file the snapshot does not have, it has no instance.  The code does not *)
(* keep this (processApplyQueue).                                          *)
DeletedInstancesGo ==
  (follower.last # Never /\ ~ work.resync /\ ~ follower.mixed) =>
    \A p \in Paths \ DOMAIN follower.last.files : work.ops[p] = NoOp => work.shown[p] = Bare

(* When a rewind is through, Studio shows the snapshot it went back to.    *)
RewindShowsThePast ==
  (travel.active /\ ~ Busy /\ \A p \in Paths : work.ops[p] = NoOp) =>
    \A p \in Paths : Shows(p, timeline[travel.index])
=============================================================================

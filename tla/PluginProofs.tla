---------------------------- MODULE PluginProofs ----------------------------
(***************************************************************************)
(* Proofs about PluginApply, for any files and sources, any number of      *)
(* workers and retries, and any bounds.                                    *)
(*                                                                         *)
(* Whatever asks for something does so file by file: a stage leaves some   *)
(* files as they are (SameAt) and brings the others on the way to one      *)
(* snapshot (FollowsAt).  Stages of one snapshot compose, so that a diff,  *)
(* an event and a resync are each one stage, and what they leave alone is  *)
(* alike in both snapshots or right already.                               *)
(*                                                                         *)
(* An operation is only carried out with a source that was answered for    *)
(* it, and such an answer is never older than what was asked for: the      *)
(* number of the change that made it tells what the file then was.         *)
(***************************************************************************)
EXTENDS PluginApply, SequenceTheorems, FiniteSetTheorems, WellFoundedInduction, TLAPS

-----------------------------------------------------------------------------
(* The tree and the snapshots of it: a file that was made what it is by    *)
(* one change is the same in all of them.                                  *)
TreeTypes == [files : UNION {[S -> Sources] : S \in SUBSET Paths}, at : [Paths -> Nat]]
Snapshots == Range(timeline)
Trees == Snapshots \cup {source}

ChangesTell ==
  \A T, U \in Trees : \A p \in Paths : T.at[p] = U.at[p] => Alike(T.files, U.files, p)

HistoryInv ==
  /\ source \in TreeTypes /\ timeline \in Seq(TreeTypes) /\ timeline # << >>
  /\ \A T \in Snapshots : \A p \in Paths :
       T.at[p] <= Served.at[p] /\ Served.at[p] <= source.at[p]
  /\ ChangesTell

(* What change number `at` of a file made of it.                           *)
TellsHere(p, at, sha) ==
  /\ at \in Nat /\ at <= source.at[p]
  /\ \A T \in Trees : T.at[p] = at => p \in DOMAIN T.files /\ T.files[p] = sha
TellsGone(p, at) ==
  /\ at \in Nat /\ at <= source.at[p]
  /\ \A T \in Trees : T.at[p] = at => p \notin DOMAIN T.files

-----------------------------------------------------------------------------
Operations == [action : {"write", "delete"}, retries : Nat, at : Nat, epoch : Nat \ {0},
               queued : BOOLEAN]
FetchedSources == [epoch : Nat \ {0}, sha : Sources, at : Nat]
Instances == [sha : Sources, source : Sources, left : BOOLEAN]
Tasks == [path : Paths, epoch : Nat]

WorkShape(w) ==
  w = [ops |-> w.ops, queue |-> w.queue, epoch |-> w.epoch, fetchQueue |-> w.fetchQueue,
       fetchQueued |-> w.fetchQueued, inflight |-> w.inflight, busy |-> w.busy,
       ready |-> w.ready, shown |-> w.shown, resync |-> w.resync, wanted |-> w.wanted,
       ahead |-> w.ahead, tangled |-> w.tangled, twinned |-> w.twinned]

WorkTypes(w) ==
  /\ WorkShape(w)
  /\ w.epoch \in Nat
  /\ w.queue \in Seq(Paths) /\ w.fetchQueue \in Seq(Tasks)
  /\ w.ops \in [Paths -> Operations \cup {NoOp}]
  /\ \A p \in Paths : w.ops[p] # NoOp => w.ops[p].epoch <= w.epoch
  /\ w.ready \in [Paths -> FetchedSources \cup {Nothing}]
  /\ \A p \in Paths : w.ready[p].epoch <= w.epoch
  /\ w.shown \in [Paths -> Instances \cup {Bare}]
  /\ w.wanted \in [Paths -> Int]
  /\ w.ahead \subseteq Paths /\ w.tangled \subseteq Paths /\ w.twinned \subseteq Paths

FetchTypes(w) ==
  \A f \in fetches :
    /\ f = [wants |-> f.wants, answered |-> f.answered, answer |-> f.answer]
    /\ DOMAIN f.wants \subseteq Paths
    /\ \A p \in DOMAIN f.wants : f.wants[p] \in Nat /\ f.wants[p] <= w.epoch

(* What is pending for a file, and what was answered for it, is no older   *)
(* than what was last asked for, unless an instance was moved meanwhile.   *)
NotOlder(w, p, at) == p \in w.tangled \/ w.wanted[p] <= at

AnswerIsSound(w, f, p) ==
  /\ IF f.answer[p].found
       THEN f.answer[p].sha \in Sources /\ TellsHere(p, f.answer[p].at, f.answer[p].sha)
       ELSE TellsGone(p, f.answer[p].at)
  /\ Wants(w, p, f.wants[p]) => NotOlder(w, p, f.answer[p].at)

SoundAt(w, p) ==
  /\ w.wanted[p] <= Served.at[p]
  /\ w.ready[p] # Nothing => TellsHere(p, w.ready[p].at, w.ready[p].sha)
  /\ w.ops[p] # NoOp /\ w.ready[p].epoch = w.ops[p].epoch => NotOlder(w, p, w.ready[p].at)
  /\ w.ops[p] # NoOp /\ w.ops[p].action = "delete" =>
       TellsGone(p, w.ops[p].at) /\ NotOlder(w, p, w.ops[p].at)
  /\ \A f \in fetches : f.answered /\ p \in DOMAIN f.wants => AnswerIsSound(w, f, p)

(* A file is as in a snapshot, or out of step, or an operation will make   *)
(* it what a snapshot has that is alike.                                   *)
ShowsIn(w, p, tree) ==
  IF p \in DOMAIN tree.files
    THEN w.shown[p] # Bare /\ w.shown[p].source = tree.files[p]
    ELSE w.shown[p] = Bare \/ w.shown[p].left
OutOfStepIn(w, p) ==
  \/ p \in w.ahead \cup w.tangled \cup w.twinned
  \/ w.shown[p] # Bare /\ w.shown[p].sha # w.shown[p].source

FollowsAt(w, p, tree) ==
  IF w.ops[p] = NoOp THEN ShowsIn(w, p, tree) \/ OutOfStepIn(w, p)
    ELSE \/ p \in w.tangled
         \/ \E T \in Snapshots : T.at[p] = w.wanted[p] /\ Alike(T.files, tree.files, p)

Sound(w) == WorkTypes(w) /\ FetchTypes(w) /\ \A p \in Paths : SoundAt(w, p)

-----------------------------------------------------------------------------
LinkInv ==
  /\ link = [open |-> link.open, events |-> link.events]
  /\ link.events \in Seq(2 .. Len(timeline))

FollowerInv ==
  /\ follower = [enabled |-> follower.enabled, last |-> follower.last, asks |-> follower.asks,
                 base |-> follower.base, since |-> follower.since, mixed |-> follower.mixed]
  /\ follower.last \in Snapshots \cup {Never}
  /\ follower.asks = "diff" => follower.base \in Snapshots
  /\ follower.asks # "none" => follower.since \in 1 .. Len(timeline)

TravelInv ==
  /\ travel = [active |-> travel.active, at |-> travel.at, index |-> travel.index,
               target |-> travel.target, next |-> travel.next, back |-> travel.back]
  /\ travel.at = "asked" => travel.target \in 1 .. Len(timeline)
  /\ travel.next \in 0 .. Len(timeline)

Believing == follower.last # Never /\ ~ work.resync /\ ~ follower.mixed

PluginInv ==
  /\ HistoryInv /\ LinkInv /\ FollowerInv /\ TravelInv
  /\ Sound(work)
  /\ Believing => \A p \in Paths : FollowsAt(work, p, follower.last)

-----------------------------------------------------------------------------
(* Listings: a set of files in the order of their places.                  *)
Orders(place, S) ==
  /\ \A p \in S : place[p] \in Nat
  /\ \A p, q \in S : place[p] = place[q] => p = q

LEMMA SomePathsAreFinite == \A S : S \subseteq Paths => IsFiniteSet(S) /\ Orders(ByPath, S)
<1>1. IsFiniteSet(Paths) /\ Paths \subseteq Nat
  BY ApplyAssumption
<1>2. \A S : S \subseteq Paths => IsFiniteSet(S)
  BY <1>1, FS_Subset
<1> QED
  BY <1>1, <1>2 DEF Orders, ByPath

LEMMA RanksGrow ==
  ASSUME NEW S, IsFiniteSet(S), NEW place, Orders(place, S), NEW p \in S
  PROVE  /\ Rank(p, S, place) \in 1 .. Cardinality(S)
         /\ \A q \in S : place[p] < place[q] => Rank(p, S, place) < Rank(q, S, place)
<1> DEFINE below(q) == {r \in S : place[r] <= place[q]}
<1>1. \A q \in S : /\ IsFiniteSet(below(q)) /\ Cardinality(below(q)) \in Nat
                   /\ Cardinality(below(q)) <= Cardinality(S) /\ q \in below(q)
  <2> TAKE q \in S
  <2>1. below(q) \in SUBSET S /\ q \in below(q)
    BY DEF Orders
  <2>2. IsFiniteSet(below(q)) /\ Cardinality(below(q)) <= Cardinality(S)
    BY <2>1, FS_Subset
  <2> QED
    BY <2>1, <2>2, FS_CardinalityType
<1>2. Cardinality(below(p)) # 0
  BY <1>1, FS_EmptySet
<1>3. ASSUME NEW q \in S, place[p] < place[q]
      PROVE  Cardinality(below(p)) < Cardinality(below(q))
  <2>1. below(p) \in SUBSET below(q) /\ q \notin below(p) /\ q \in below(q)
    BY <1>3 DEF Orders
  <2>2. /\ Cardinality(below(p)) <= Cardinality(below(q))
        /\ Cardinality(below(q)) = Cardinality(below(p)) => below(q) = below(p)
    BY <1>1, <2>1, FS_Subset
  <2>3. below(q) # below(p)
    BY <2>1
  <2>4. Cardinality(below(p)) \in Nat /\ Cardinality(below(q)) \in Nat
    BY <1>1
  <2> HIDE DEF below
  <2> QED
    BY <2>2, <2>3, <2>4
<1>4. \A q : Rank(q, S, place) = Cardinality(below(q))
  BY DEF Rank
<1>5. Cardinality(S) \in Nat
  BY FS_CardinalityType
<1> HIDE DEF below
<1> QED
  BY <1>1, <1>2, <1>3, <1>4, <1>5

LEMMA ListingLists ==
  ASSUME NEW S, IsFiniteSet(S), NEW place, Orders(place, S)
  PROVE  /\ Cardinality(S) \in Nat
         /\ Listing(S, place) \in [1 .. Cardinality(S) -> S]
<1> DEFINE n == Cardinality(S)
           f == [p \in S |-> Rank(p, S, place)]
<1>1. n \in Nat
  BY FS_CardinalityType
<1>2. f \in Injection(S, 1 .. n)
  <2>1. f \in [S -> 1 .. n]
    BY RanksGrow
  <2>2. ASSUME NEW p \in S, NEW q \in S, f[p] = f[q] PROVE p = q
    <3>1. place[p] \in Nat /\ place[q] \in Nat /\ (place[p] = place[q] => p = q)
      BY DEF Orders
    <3>2. Rank(p, S, place) \in 1 .. n /\ Rank(q, S, place) \in 1 .. n
      BY RanksGrow
    <3>4. Rank(p, S, place) = Rank(q, S, place)
      BY <2>2
    <3>3. /\ place[p] < place[q] => Rank(p, S, place) < Rank(q, S, place)
          /\ place[q] < place[p] => Rank(q, S, place) < Rank(p, S, place)
      BY RanksGrow
    <3> HIDE DEF n, f
    <3> QED
      BY <1>1, <3>1, <3>2, <3>3, <3>4
  <2> QED
    BY <2>1, <2>2 DEF Injection, IsInjective
<1>3. f \in Surjection(S, 1 .. n)
  <2>1. IsFiniteSet(1 .. n) /\ Cardinality(1 .. n) = n
    BY <1>1, FS_Interval
  <2> HIDE DEF f
  <2> QED
    BY <1>2, <2>1, FS_Injection
<1>4. \A k \in 1 .. n : \E p \in S : Rank(p, S, place) = k
  BY <1>3 DEF Surjection
<1> QED
  BY <1>1, <1>4 DEF Listing

-----------------------------------------------------------------------------
(* What a stage leaves of a file as it is.                                 *)
SameAt(w, r, p) ==
  /\ w.ops[p] = NoOp <=> r.ops[p] = NoOp
  /\ w.ops[p] # NoOp => /\ r.ops[p].action = w.ops[p].action
                        /\ r.ops[p].epoch = w.ops[p].epoch
                        /\ r.ops[p].at = w.ops[p].at
  /\ r.ready[p] = w.ready[p] /\ r.shown[p] = w.shown[p] /\ r.wanted[p] = w.wanted[p]
  /\ p \in r.ahead <=> p \in w.ahead
  /\ p \in r.tangled <=> p \in w.tangled
  /\ p \in r.twinned <=> p \in w.twinned

LEMMA SameIsSound ==
  ASSUME NEW w, NEW r, NEW p \in Paths, SameAt(w, r, p), SoundAt(w, p)
  PROVE  SoundAt(r, p)
<1>1. ASSUME NEW at PROVE NotOlder(r, p, at) <=> NotOlder(w, p, at)
  BY DEF NotOlder, SameAt
<1>2. ASSUME NEW epoch PROVE Wants(r, p, epoch) <=> Wants(w, p, epoch)
  BY DEF Wants, SameAt
<1>3. ASSUME NEW f \in fetches, f.answered, p \in DOMAIN f.wants PROVE AnswerIsSound(r, f, p)
  <2>1. AnswerIsSound(w, f, p)
    BY <1>3 DEF SoundAt
  <2> QED
    BY <1>1, <1>2, <2>1 DEF AnswerIsSound
<1> QED
  BY <1>1, <1>3 DEF SoundAt, SameAt

LEMMA SameFollows ==
  ASSUME NEW w, NEW r, NEW p \in Paths, SameAt(w, r, p), NEW tree, FollowsAt(w, p, tree)
  PROVE  FollowsAt(r, p, tree)
  BY DEF SameAt, FollowsAt, ShowsIn, OutOfStepIn

LEMMA SameIsTransitive ==
  ASSUME NEW w, NEW r, NEW s, NEW p, SameAt(w, r, p), SameAt(r, s, p)
  PROVE  SameAt(w, s, p)
  BY DEF SameAt

-----------------------------------------------------------------------------
(* The queues.                                                             *)
LEMMA NoOperation == NoOp \notin Operations
<1>1. \A op \in Operations : op.action \in {"write", "delete"}
  BY DEF Operations
<1>2. NoOp.action = "none"
  BY DEF NoOp
<1> QED
  BY <1>1, <1>2

LEMMA EnqueueingIsSame ==
  ASSUME NEW w, WorkTypes(w), NEW S \in SUBSET Paths, NEW place, Orders(place, S)
  PROVE  LET r == EnqueuePaths(w, S, place)
         IN  /\ WorkTypes(r) /\ r.epoch = w.epoch /\ r.resync = w.resync
             /\ \A p \in Paths : SameAt(w, r, p)
<1> DEFINE unqueued == {p \in S : w.ops[p] # NoOp /\ ~ w.ops[p].queued}
           ops == [p \in Paths |-> IF p \in unqueued THEN [w.ops[p] EXCEPT !.queued = TRUE]
                                   ELSE w.ops[p]]
           r == EnqueuePaths(w, S, place)
<1>1. Listing(unqueued, place) \in Seq(Paths)
  <2>1. IsFiniteSet(unqueued) /\ Orders(place, unqueued) /\ unqueued \subseteq Paths
    BY SomePathsAreFinite DEF Orders
  <2> HIDE DEF unqueued
  <2>2. /\ Cardinality(unqueued) \in Nat
        /\ Listing(unqueued, place) \in [1 .. Cardinality(unqueued) -> unqueued]
    BY <2>1, ListingLists
  <2> QED
    BY <2>1, <2>2
<1>2. r = [w EXCEPT !.ops = ops, !.queue = @ \o Listing(unqueued, place)]
  BY DEF EnqueuePaths
<1>3. /\ r.ops = ops /\ r.queue = w.queue \o Listing(unqueued, place) /\ WorkShape(r)
      /\ r.epoch = w.epoch /\ r.fetchQueue = w.fetchQueue /\ r.ready = w.ready
      /\ r.shown = w.shown /\ r.resync = w.resync /\ r.wanted = w.wanted
      /\ r.ahead = w.ahead /\ r.tangled = w.tangled /\ r.twinned = w.twinned
  <2> HIDE DEF r, ops, unqueued
  <2> QED
    BY <1>2 DEF WorkTypes, WorkShape
<1>4. r.queue \in Seq(Paths)
  BY <1>1, <1>3, ConcatProperties DEF WorkTypes
<1>5. ASSUME NEW p \in Paths
      PROVE  /\ ops[p] \in Operations \cup {NoOp}
             /\ ops[p] = NoOp <=> w.ops[p] = NoOp
             /\ w.ops[p] # NoOp => /\ ops[p].action = w.ops[p].action
                                   /\ ops[p].epoch = w.ops[p].epoch /\ ops[p].at = w.ops[p].at
  <2>1. w.ops[p] \in Operations \cup {NoOp}
    BY DEF WorkTypes
  <2>2. ASSUME NEW op \in Operations
        PROVE  /\ [op EXCEPT !.queued = TRUE] \in Operations
               /\ [op EXCEPT !.queued = TRUE].action = op.action
               /\ [op EXCEPT !.queued = TRUE].epoch = op.epoch
               /\ [op EXCEPT !.queued = TRUE].at = op.at
    BY DEF Operations
  <2>3. \A op \in Operations : op # NoOp
    BY NoOperation
  <2>4. p \in unqueued => w.ops[p] \in Operations
    BY <2>1
  <2>5. CASE p \in unqueued
    <3>1. ops[p] = [w.ops[p] EXCEPT !.queued = TRUE]
      BY <2>5
    <3> HIDE DEF ops, unqueued
    <3> QED
      BY <2>2, <2>3, <2>4, <2>5, <3>1
  <2>6. CASE p \notin unqueued
    <3>1. ops[p] = w.ops[p]
      BY <2>6
    <3> QED
      BY <2>1, <3>1
  <2> QED
    BY <2>5, <2>6
<1>6. ops \in [Paths -> Operations \cup {NoOp}]
  <2>1. ops = [p \in Paths |-> ops[p]]
    OBVIOUS
  <2> HIDE DEF ops
  <2> QED
    BY <1>5, <2>1
<1> HIDE DEF r, ops, unqueued
<1>7. WorkTypes(r)
  BY <1>3, <1>4, <1>5, <1>6 DEF WorkTypes
<1>8. \A p \in Paths : SameAt(w, r, p)
  BY <1>3, <1>5 DEF SameAt
<1> QED
  BY <1>3, <1>7, <1>8 DEF r

LEMMA FetchingIsSame ==
  ASSUME NEW w, WorkTypes(w), NEW S \in SUBSET Paths, NEW place, Orders(place, S),
         \A p \in S : w.ops[p] # NoOp
  PROVE  LET r == PushFetchTasks(w, S, place)
         IN  /\ WorkTypes(r) /\ r.epoch = w.epoch /\ r.resync = w.resync
             /\ \A p \in Paths : SameAt(w, r, p)
<1> DEFINE due == {p \in S : w.fetchQueued[p] < w.ops[p].epoch /\ w.inflight[p] < w.ops[p].epoch}
           task(p) == [path |-> p, epoch |-> w.ops[p].epoch]
           fetchQueued == [p \in Paths |-> IF p \in due THEN w.ops[p].epoch ELSE w.fetchQueued[p]]
           tasks == [n \in 1 .. Cardinality(due) |-> task(Listing(due, place)[n])]
           r == PushFetchTasks(w, S, place)
<1>1. tasks \in Seq(Tasks)
  <2>1. IsFiniteSet(due) /\ Orders(place, due) /\ due \subseteq S
    BY SomePathsAreFinite DEF Orders
  <2>2. /\ Cardinality(due) \in Nat
        /\ Listing(due, place) \in [1 .. Cardinality(due) -> due]
    <3> HIDE DEF due
    <3> QED
      BY <2>1, ListingLists
  <2>3. \A p \in due : task(p) \in Tasks
    <3> TAKE p \in due
    <3>1. w.ops[p] \in Operations
      BY <2>1 DEF WorkTypes
    <3> QED
      BY <2>1, <3>1 DEF Tasks, Operations
  <2> HIDE DEF due, task
  <2>4. \A n \in 1 .. Cardinality(due) : task(Listing(due, place)[n]) \in Tasks
    BY <2>2, <2>3
  <2> QED
    BY <2>2, <2>4
<1>2. r = [w EXCEPT !.fetchQueued = fetchQueued, !.fetchQueue = @ \o tasks]
  BY DEF PushFetchTasks
<1> HIDE DEF r, tasks, fetchQueued, due
<1>3. /\ r.ops = w.ops /\ r.queue = w.queue /\ WorkShape(r)
      /\ r.epoch = w.epoch /\ r.fetchQueue = w.fetchQueue \o tasks /\ r.ready = w.ready
      /\ r.shown = w.shown /\ r.resync = w.resync /\ r.wanted = w.wanted
      /\ r.ahead = w.ahead /\ r.tangled = w.tangled /\ r.twinned = w.twinned
  BY <1>2 DEF WorkTypes, WorkShape
<1>4. r.fetchQueue \in Seq(Tasks)
  BY <1>1, <1>3, ConcatProperties DEF WorkTypes
<1>5. WorkTypes(r)
  BY <1>3, <1>4 DEF WorkTypes
<1>6. \A p \in Paths : SameAt(w, r, p)
  BY <1>3 DEF SameAt
<1> QED
  BY <1>3, <1>5, <1>6 DEF r

-----------------------------------------------------------------------------
(* New operations: no source that is ready or under way is for them.       *)
LEMMA OperationsAreNew ==
  ASSUME NEW w, WorkTypes(w), FetchTypes(w), NEW S \in SUBSET Paths,
         NEW actions \in [S -> {"write", "delete"}], NEW place, Orders(place, S),
         NEW at, \A p \in S : at[p] \in Nat
  PROVE  LET r == NewOperations(w, actions, place, at)
         IN  /\ WorkTypes(r) /\ FetchTypes(r) /\ r.resync = w.resync
             /\ \A p \in Paths \ S : SameAt(w, r, p)
             /\ \A p \in S :
                  /\ r.ops[p] # NoOp /\ r.ops[p].action = actions[p] /\ r.ops[p].at = at[p]
                  /\ r.ops[p].epoch \in Nat /\ r.ops[p].epoch > w.epoch
                  /\ r.ready[p] \in {w.ready[p], Nothing} /\ r.shown[p] = w.shown[p]
                  /\ r.wanted[p] = w.wanted[p]
                  /\ p \in r.ahead <=> p \in w.ahead
                  /\ p \in r.tangled <=> p \in w.tangled
                  /\ p \in r.twinned <=> p \in w.twinned
<1> DEFINE ops == [p \in Paths |-> IF p \in S THEN Operation(w, p, actions, place, at) ELSE w.ops[p]]
           ready == [p \in Paths |-> IF p \in S /\ actions[p] = "delete" THEN Nothing ELSE w.ready[p]]
           r == NewOperations(w, actions, place, at)
<1>1. DOMAIN actions = S
  OBVIOUS
<1>2. r = [w EXCEPT !.epoch = @ + Cardinality(S), !.ops = ops, !.ready = ready]
  BY <1>1 DEF NewOperations
<1>3. /\ r.ops = ops /\ r.ready = ready /\ r.epoch = w.epoch + Cardinality(S) /\ WorkShape(r)
      /\ r.queue = w.queue /\ r.fetchQueue = w.fetchQueue
      /\ r.shown = w.shown /\ r.resync = w.resync /\ r.wanted = w.wanted
      /\ r.ahead = w.ahead /\ r.tangled = w.tangled /\ r.twinned = w.twinned
  <2> HIDE DEF r, ops, ready
  <2> QED
    BY <1>2 DEF WorkTypes, WorkShape
<1>4. w.epoch \in Nat /\ Cardinality(S) \in Nat /\ r.epoch \in Nat /\ r.epoch >= w.epoch
  BY <1>3, SomePathsAreFinite, FS_CardinalityType DEF WorkTypes
<1>5. ASSUME NEW p \in S
      PROVE  /\ ops[p] \in Operations /\ ops[p].action = actions[p] /\ ops[p].at = at[p]
             /\ ops[p].epoch > w.epoch /\ ops[p].epoch <= r.epoch
  <2>1. Rank(p, S, place) \in 1 .. Cardinality(S)
    BY SomePathsAreFinite, RanksGrow
  <2>2. ops[p] = [action |-> actions[p], retries |-> 0, at |-> at[p],
                  epoch |-> w.epoch + Rank(p, S, place),
                  queued |-> w.ops[p] # NoOp /\ w.ops[p].queued]
    BY <1>1 DEF Operation
  <2>3. ops[p].epoch = w.epoch + Rank(p, S, place) /\ ops[p].action = actions[p] /\ ops[p].at = at[p]
    BY <2>2
  <2>4. w.epoch + Rank(p, S, place) \in Nat \ {0}
    BY <1>4, <2>1
  <2>5. actions[p] \in {"write", "delete"} /\ at[p] \in Nat
    OBVIOUS
  <2>6. ops[p] \in Operations
    <3> HIDE DEF ops
    <3> QED
      BY <2>2, <2>4, <2>5 DEF Operations
  <2>7. w.epoch + Rank(p, S, place) > w.epoch /\ w.epoch + Rank(p, S, place) <= r.epoch
    BY <1>3, <1>4, <2>1
  <2> QED
    BY <2>3, <2>6, <2>7
<1>6. \A p \in Paths \ S : ops[p] = w.ops[p] /\ ready[p] = w.ready[p]
  OBVIOUS
<1>7. \A p \in S : ready[p] \in {w.ready[p], Nothing}
  OBVIOUS
<1>8. ops = [p \in Paths |-> ops[p]] /\ ready = [p \in Paths |-> ready[p]]
  OBVIOUS
<1> HIDE DEF r, ops, ready
<1>9. ASSUME NEW p \in Paths
      PROVE  /\ ops[p] \in Operations \cup {NoOp} /\ (ops[p] # NoOp => ops[p].epoch <= r.epoch)
             /\ ready[p] \in FetchedSources \cup {Nothing} /\ ready[p].epoch <= r.epoch
  <2>1. CASE p \in S
    <3>1. ready[p].epoch <= r.epoch /\ ready[p] \in FetchedSources \cup {Nothing}
      <4>1. w.ready[p] \in FetchedSources \cup {Nothing} /\ w.ready[p].epoch <= w.epoch
        BY DEF WorkTypes
      <4>2. w.ready[p].epoch \in Nat /\ Nothing.epoch = 0
        BY <4>1 DEF FetchedSources, Nothing
      <4>3. CASE ready[p] = Nothing
        BY <1>4, <4>2, <4>3
      <4>4. CASE ready[p] = w.ready[p]
        BY <1>4, <4>1, <4>2, <4>4
      <4> QED
        BY <1>7, <2>1, <4>3, <4>4
    <3> QED
      BY <1>5, <2>1, <3>1
  <2>2. CASE p \notin S
    <3>1. w.ready[p] \in FetchedSources \cup {Nothing} /\ w.ready[p].epoch <= w.epoch
      BY DEF WorkTypes
    <3>2. w.ready[p].epoch \in Nat
      BY <3>1 DEF FetchedSources, Nothing
    <3>3. w.ops[p] \in Operations \cup {NoOp} /\ (w.ops[p] # NoOp => w.ops[p].epoch <= w.epoch)
      BY DEF WorkTypes
    <3>4. w.ops[p] # NoOp => w.ops[p].epoch \in Nat
      BY <3>3 DEF Operations
    <3> QED
      BY <1>4, <1>6, <2>2, <3>1, <3>2, <3>3, <3>4
  <2> QED
    BY <2>1, <2>2
<1>10. WorkTypes(r)
  BY <1>3, <1>4, <1>8, <1>9 DEF WorkTypes
<1>11. FetchTypes(r)
  BY <1>4 DEF FetchTypes
<1>12. \A p \in Paths \ S : SameAt(w, r, p)
  BY <1>3, <1>6 DEF SameAt
<1>13. \A p \in S : ops[p] # NoOp /\ ops[p].epoch \in Nat
  BY <1>5, NoOperation DEF Operations
<1> QED
  BY <1>3, <1>5, <1>7, <1>10, <1>11, <1>12, <1>13 DEF r

LEMMA NewIsSound ==
  ASSUME NEW w, WorkTypes(w), FetchTypes(w), NEW r, NEW p \in Paths, SoundAt(w, p),
         r.ops[p] # NoOp, r.ops[p].epoch \in Nat, r.ops[p].epoch > w.epoch,
         r.ready[p] \in {w.ready[p], Nothing}, r.wanted[p] <= Served.at[p],
         r.ops[p].action = "delete" => TellsGone(p, r.ops[p].at) /\ NotOlder(r, p, r.ops[p].at)
  PROVE  SoundAt(r, p)
<1>1. w.epoch \in Nat /\ w.ready[p].epoch \in Nat /\ w.ready[p].epoch <= w.epoch /\ Nothing.epoch = 0
  <2>1. w.ready[p] \in FetchedSources \cup {Nothing}
    BY DEF WorkTypes
  <2>2. w.ready[p].epoch \in Nat /\ Nothing.epoch = 0
    BY <2>1 DEF FetchedSources, Nothing
  <2> QED
    BY <2>2 DEF WorkTypes
<1>2. r.ready[p].epoch # r.ops[p].epoch
  BY <1>1
<1>3. r.ready[p] # Nothing => TellsHere(p, r.ready[p].at, r.ready[p].sha)
  BY DEF SoundAt
<1>4. ASSUME NEW f \in fetches, f.answered, p \in DOMAIN f.wants PROVE AnswerIsSound(r, f, p)
  <2>1. f.wants[p] \in Nat /\ f.wants[p] <= w.epoch
    BY <1>4 DEF FetchTypes
  <2>2. ~ Wants(r, p, f.wants[p])
    BY <1>1, <2>1 DEF Wants
  <2> QED
    BY <1>4, <2>2 DEF SoundAt, AnswerIsSound
<1> QED
  BY <1>2, <1>3, <1>4 DEF SoundAt

-----------------------------------------------------------------------------
(* Stages.                                                                 *)
Staged(w, r, S, tree) ==
  /\ Sound(r) /\ r.resync = w.resync
  /\ \A p \in Paths \ S : SameAt(w, r, p)
  /\ \A p \in S : FollowsAt(r, p, tree)

LEMMA StagesCompose ==
  ASSUME NEW w, NEW r, NEW s, NEW S \in SUBSET Paths, NEW T \in SUBSET Paths, NEW tree,
         Staged(w, r, S, tree), Staged(r, s, T, tree)
  PROVE  Staged(w, s, S \cup T, tree)
<1>1. \A p \in Paths \ (S \cup T) : SameAt(w, s, p)
  BY SameIsTransitive DEF Staged
<1>2. ASSUME NEW p \in S \cup T PROVE FollowsAt(s, p, tree)
  <2>1. CASE p \in T
    BY <2>1 DEF Staged
  <2>2. CASE p \notin T
    BY <2>2, SameFollows DEF Staged
  <2> QED
    BY <2>1, <2>2
<1> QED
  BY <1>1, <1>2 DEF Staged

LEMMA TreeFacts ==
  ASSUME HistoryInv
  PROVE  /\ Served \in Snapshots
         /\ \A T \in Trees : /\ T.at \in [Paths -> Nat] /\ DOMAIN T.files \subseteq Paths
                             /\ T.files \in [DOMAIN T.files -> Sources]
                             /\ T = [files |-> T.files, at |-> T.at]
         /\ \A T \in Trees : \A p \in Paths : T.at[p] <= source.at[p]
<1>1. timeline \in [1 .. Len(timeline) -> TreeTypes] /\ Len(timeline) \in Nat \ {0}
  BY LenProperties, EmptySeq DEF HistoryInv
<1>2. Served \in Snapshots
  BY <1>1 DEF Served, Last, Snapshots, Range
<1>3. Trees \subseteq TreeTypes
  BY <1>1 DEF Trees, Snapshots, Range, HistoryInv
<1>4. ASSUME NEW T \in TreeTypes
      PROVE  /\ T.at \in [Paths -> Nat] /\ DOMAIN T.files \subseteq Paths
             /\ T.files \in [DOMAIN T.files -> Sources]
             /\ T = [files |-> T.files, at |-> T.at]
  <2>1. PICK S \in SUBSET Paths : T.files \in [S -> Sources]
    BY DEF TreeTypes
  <2> QED
    BY <2>1 DEF TreeTypes
<1>5. ASSUME NEW T \in Trees, NEW p \in Paths PROVE T.at[p] <= source.at[p]
  <2>1. source.at[p] \in Nat
    BY <1>3, <1>4 DEF Trees
  <2>2. CASE T = source
    BY <2>1, <2>2
  <2>3. CASE T \in Snapshots
    <3>1. T.at[p] \in Nat /\ Served.at[p] \in Nat
      BY <1>2, <1>3, <1>4, <2>3 DEF Trees
    <3> QED
      BY <2>1, <2>3, <3>1 DEF HistoryInv
  <2> QED
    BY <2>2, <2>3 DEF Trees
<1> QED
  BY <1>2, <1>3, <1>4, <1>5

LEMMA SnapshotTells ==
  ASSUME HistoryInv, NEW T \in Trees, NEW p \in Paths
  PROVE  /\ p \notin DOMAIN T.files => TellsGone(p, T.at[p])
         /\ p \in DOMAIN T.files => TellsHere(p, T.at[p], T.files[p])
<1>1. T.at[p] \in Nat /\ T.at[p] <= source.at[p]
  BY TreeFacts
<1>2. \A U \in Trees : U.at[p] = T.at[p] => Alike(U.files, T.files, p)
  BY DEF HistoryInv, ChangesTell
<1> QED
  BY <1>1, <1>2 DEF TellsGone, TellsHere, Alike

LEMMA AskStages ==
  ASSUME HistoryInv, NEW w, Sound(w), NEW tree \in Snapshots, NEW S \in SUBSET Paths,
         NEW actions \in [S -> {"write", "delete"}], NEW place, Orders(place, S),
         \A p \in S : actions[p] = "delete" => p \notin DOMAIN tree.files
  PROVE  Staged(w, Ask(w, actions, place, tree), S, tree)
<1> DEFINE wanted == [p \in Paths |-> IF p \in S THEN tree.at[p] ELSE w.wanted[p]]
           v == [w EXCEPT !.wanted = wanted, !.tangled = @ \ S]
           writes == {p \in S : actions[p] = "write"}
           n == NewOperations(v, actions, place, tree.at)
           e == EnqueuePaths(n, S, place)
           r == PushFetchTasks(e, writes, place)
<1>1. Ask(w, actions, place, tree) = r
  <2>1. DOMAIN actions = S
    OBVIOUS
  <2> QED
    BY <2>1 DEF Ask, StageOperations
<1>2. /\ tree \in Trees
      /\ \A p \in Paths : tree.at[p] \in Nat /\ tree.at[p] <= Served.at[p]
  BY TreeFacts DEF Trees, HistoryInv
<1>3. /\ WorkShape(v) /\ v.wanted = wanted /\ v.tangled = w.tangled \ S
      /\ v.twinned = w.twinned
      /\ v.ops = w.ops /\ v.epoch = w.epoch /\ v.queue = w.queue /\ v.fetchQueue = w.fetchQueue
      /\ v.ready = w.ready /\ v.shown = w.shown /\ v.resync = w.resync /\ v.ahead = w.ahead
  <2>1. v = [w EXCEPT !.wanted = wanted, !.tangled = @ \ S]
    OBVIOUS
  <2> HIDE DEF v, wanted
  <2> QED
    BY <2>1 DEF Sound, WorkTypes, WorkShape
<1>4. wanted \in [Paths -> Int]
  BY <1>2 DEF Sound, WorkTypes
<1>5. \A p \in Paths : wanted[p] = IF p \in S THEN tree.at[p] ELSE w.wanted[p]
  OBVIOUS
<1> HIDE DEF wanted
<1> HIDE DEF v
<1>6. WorkTypes(v)
  BY <1>3, <1>4 DEF Sound, WorkTypes
<1>7. FetchTypes(v) /\ FetchTypes(w) /\ WorkTypes(w)
  BY <1>3 DEF Sound, FetchTypes
<1>8. \A p \in Paths \ S : SameAt(w, v, p)
  BY <1>3, <1>5 DEF SameAt
<1>9. /\ WorkTypes(n) /\ FetchTypes(n) /\ n.resync = v.resync
      /\ \A p \in Paths \ S : SameAt(v, n, p)
      /\ \A p \in S : /\ n.ops[p] # NoOp /\ n.ops[p].action = actions[p] /\ n.ops[p].at = tree.at[p]
                      /\ n.ops[p].epoch \in Nat /\ n.ops[p].epoch > v.epoch
                      /\ n.ready[p] \in {v.ready[p], Nothing} /\ n.shown[p] = v.shown[p]
                      /\ n.wanted[p] = v.wanted[p]
                      /\ p \in n.ahead <=> p \in v.ahead
                      /\ p \in n.tangled <=> p \in v.tangled
                      /\ p \in n.twinned <=> p \in v.twinned
  <2>1. \A p \in S : tree.at[p] \in Nat
    BY <1>2
  <2> QED
    BY <1>6, <1>7, <2>1, OperationsAreNew, ZenonT(120)
<1> HIDE DEF n
<1>10. ASSUME NEW p \in Paths PROVE SoundAt(n, p)
  <2>1. CASE p \in S
    <3>1. n.wanted[p] = tree.at[p]
      BY <1>3, <1>5, <1>9, <2>1
    <3>2. n.ops[p].action = "delete" => TellsGone(p, n.ops[p].at) /\ NotOlder(n, p, n.ops[p].at)
      BY <1>2, <1>9, <2>1, <3>1, SnapshotTells DEF NotOlder
    <3>3. n.ops[p].epoch > w.epoch /\ n.ready[p] \in {w.ready[p], Nothing}
      BY <1>3, <1>9, <2>1
    <3> QED
      BY <1>2, <1>7, <1>9, <2>1, <3>1, <3>2, <3>3, NewIsSound DEF Sound
  <2>2. CASE p \notin S
    BY <1>8, <1>9, <2>2, SameIsSound DEF Sound
  <2> QED
    BY <2>1, <2>2
<1>11. WorkTypes(e) /\ e.epoch = n.epoch /\ e.resync = n.resync /\ \A p \in Paths : SameAt(n, e, p)
  BY <1>9, EnqueueingIsSame
<1> HIDE DEF e
<1>12. WorkTypes(r) /\ r.epoch = e.epoch /\ r.resync = e.resync /\ \A p \in Paths : SameAt(e, r, p)
  <2>1. writes \in SUBSET Paths /\ Orders(place, writes)
    BY DEF Orders
  <2>2. \A p \in writes : e.ops[p] # NoOp
    BY <1>9, <1>11 DEF SameAt
  <2> HIDE DEF writes
  <2> QED
    BY <1>11, <2>1, <2>2, FetchingIsSame
<1> HIDE DEF r
<1>13. \A p \in Paths : SameAt(n, r, p)
  BY <1>11, <1>12, SameIsTransitive
<1>14. Sound(r)
  <2>1. FetchTypes(r)
    BY <1>9, <1>11, <1>12 DEF FetchTypes
  <2> QED
    BY <1>10, <1>12, <1>13, <2>1, SameIsSound DEF Sound
<1>15. \A p \in Paths \ S : SameAt(w, r, p)
  BY <1>8, <1>9, <1>13, SameIsTransitive
<1>16. ASSUME NEW p \in S PROVE FollowsAt(r, p, tree)
  <2>1. n.ops[p] # NoOp /\ tree.at[p] = n.wanted[p] /\ Alike(tree.files, tree.files, p)
    BY <1>3, <1>5, <1>9 DEF Alike
  <2>2. FollowsAt(n, p, tree)
    BY <2>1 DEF FollowsAt
  <2> QED
    BY <1>13, <2>2, SameFollows
<1>17. r.resync = w.resync
  BY <1>3, <1>9, <1>11, <1>12
<1> QED
  BY <1>1, <1>14, <1>15, <1>16, <1>17 DEF Staged

-----------------------------------------------------------------------------
(* Moves of a difference: each takes an instance from a path that is not   *)
(* there any more to one that is, with the same source.                    *)
Paired(moves, tree) ==
  /\ \A m \in moves : /\ m.old \in Paths /\ m.old \notin DOMAIN tree.files
                      /\ m.new \in Paths /\ m.new \in DOMAIN tree.files
                      /\ tree.files[m.new] = m.sha
  /\ \A m, n \in moves : m.new = n.new \/ m.old = n.old => m = n

LEMMA BareIsNoInstance == Bare \notin Instances
<1>1. "none" \notin Sources /\ Bare.sha = "none"
  BY ApplyAssumption DEF Bare
<1>2. \A i \in Instances : i.sha \in Sources
  BY DEF Instances
<1> QED
  BY <1>1, <1>2

LEMMA CarryStages ==
  ASSUME HistoryInv, NEW w, Sound(w), NEW tree \in Snapshots, NEW moves, Paired(moves, tree),
         \A m \in moves : w.shown[m.old] # Bare, NEW sha
  PROVE  Staged(w, CarryInstances(w, moves, tree, sha), Ends(moves), tree)
<1> DEFINE clean == {m \in moves : Clean(w, m)}
           carried == [p \in Paths |->
                         IF \E m \in moves : m.new = p THEN Carried(w, MoveTo(p, moves), sha)
                         ELSE IF p \in Ends(moves) THEN Bare ELSE w.shown[p]]
           wanted == [p \in Paths |-> IF p \in Ends(moves) THEN tree.at[p] ELSE w.wanted[p]]
           tangled == (w.tangled \ Ends(clean)) \cup Ends(moves \ clean)
           twinned == w.twinned \cup {m.new : m \in {n \in moves : w.shown[n.new] # Bare}}
           r == CarryInstances(w, moves, tree, sha)
<1>1. r = [w EXCEPT !.shown = carried, !.wanted = wanted, !.ahead = @ \ Ends(moves),
                    !.twinned = twinned, !.tangled = tangled]
  BY DEF CarryInstances
<1>2. /\ tree \in Trees /\ tree.files \in [DOMAIN tree.files -> Sources]
      /\ \A p \in Paths : tree.at[p] \in Nat /\ tree.at[p] <= Served.at[p]
  BY TreeFacts DEF Trees, HistoryInv
<1>3. /\ Ends(moves) \subseteq Paths /\ Ends(moves \ clean) \subseteq Paths
      /\ \A p \in twinned : p \in w.twinned \/ p \in Ends(moves)
      /\ w.twinned \subseteq twinned
  BY DEF Ends, Paired
<1>4. /\ \A p \in Paths : wanted[p] = IF p \in Ends(moves) THEN tree.at[p] ELSE w.wanted[p]
      /\ wanted \in [Paths -> Int]
  BY <1>2 DEF Sound, WorkTypes
<1>5. ASSUME NEW m \in moves
      PROVE  /\ carried[m.new] \in Instances /\ carried[m.new].source = w.shown[m.old].source
             /\ carried[m.old] = Bare
  <2>1. m.new \in Paths /\ m.old \in Paths /\ m.sha \in Sources
    BY <1>2 DEF Paired
  <2>2. MoveTo(m.new, moves) = m
    BY DEF MoveTo, Paired
  <2>3. carried[m.new] = Carried(w, m, sha)
    BY <2>1, <2>2
  <2>4. w.shown[m.old] \in Instances
    BY <2>1 DEF Sound, WorkTypes
  <2>5. Carried(w, m, sha) \in Instances /\ Carried(w, m, sha).source = w.shown[m.old].source
    BY <2>1, <2>4 DEF Carried, Instances
  <2>6. m.old \in Ends(moves) /\ ~ \E n \in moves : n.new = m.old
    BY DEF Ends, Paired
  <2> QED
    BY <2>1, <2>3, <2>5, <2>6
<1>6. ASSUME NEW p \in Paths \ Ends(moves) PROVE carried[p] = w.shown[p]
  <2>1. ~ \E m \in moves : m.new = p
    BY DEF Ends
  <2> QED
    BY <2>1
<1>7. carried \in [Paths -> Instances \cup {Bare}]
  <2>1. ASSUME NEW p \in Paths PROVE carried[p] \in Instances \cup {Bare}
    <3>1. CASE p \in Ends(moves)
      <4>1. PICK m \in moves : p = m.old \/ p = m.new
        BY <3>1 DEF Ends
      <4> QED
        BY <1>5, <4>1
    <3>2. CASE p \notin Ends(moves)
      BY <1>6, <3>2 DEF Sound, WorkTypes
    <3> QED
      BY <3>1, <3>2
  <2>2. carried = [p \in Paths |-> carried[p]]
    OBVIOUS
  <2> HIDE DEF carried
  <2> QED
    BY <2>1, <2>2
<1> HIDE DEF r, carried, wanted, twinned
<1>8. /\ WorkShape(r) /\ r.shown = carried /\ r.wanted = wanted /\ r.tangled = tangled
      /\ r.twinned = twinned
      /\ r.ahead = w.ahead \ Ends(moves)
      /\ r.ops = w.ops /\ r.epoch = w.epoch /\ r.queue = w.queue /\ r.fetchQueue = w.fetchQueue
      /\ r.ready = w.ready /\ r.resync = w.resync
  <2> HIDE DEF tangled, twinned
  <2> QED
    BY <1>1 DEF Sound, WorkTypes, WorkShape
<1>9. WorkTypes(r) /\ FetchTypes(r)
  BY <1>3, <1>4, <1>7, <1>8 DEF Sound, WorkTypes, FetchTypes
<1>10. \A p \in Paths \ Ends(moves) : SameAt(w, r, p)
  <2>1. Ends(clean) \subseteq Ends(moves) /\ Ends(moves \ clean) \subseteq Ends(moves)
    BY DEF Ends
  <2> QED
    BY <1>3, <1>4, <1>6, <1>8, <2>1 DEF SameAt
<1>11. ASSUME NEW p \in Ends(moves)
       PROVE  SoundAt(r, p) /\ FollowsAt(r, p, tree)
  <2>1. PICK m \in moves : p = m.old \/ p = m.new
    BY DEF Ends
  <2>2. p \in Paths /\ r.wanted[p] <= Served.at[p]
    BY <1>2, <1>3, <1>4, <1>8
  <2>3. SoundAt(w, p)
    BY <2>2 DEF Sound
  <2>4. CASE Clean(w, m)
    <3>1. r.ops[p] = NoOp
      BY <1>8, <2>1, <2>4 DEF Clean
    <3>2. SoundAt(r, p)
      BY <1>8, <2>2, <2>3, <3>1 DEF SoundAt, AnswerIsSound, Wants
    <3>3. ShowsIn(r, p, tree)
      <4>1. CASE p = m.old
        BY <1>5, <1>8, <4>1 DEF ShowsIn, Paired
      <4>2. CASE p = m.new
        <5>1. carried[p] # Bare /\ carried[p].source = m.sha
          BY <1>5, <2>4, <4>2, BareIsNoInstance DEF Clean
        <5> QED
          BY <1>8, <4>2, <5>1 DEF ShowsIn, Paired
      <4> QED
        BY <2>1, <4>1, <4>2
    <3> QED
      BY <3>1, <3>2, <3>3 DEF FollowsAt
  <2>5. CASE ~ Clean(w, m)
    <3>1. p \in r.tangled
      BY <1>8, <2>1, <2>5 DEF Ends
    <3>2. SoundAt(r, p)
      BY <1>8, <2>2, <2>3, <3>1 DEF SoundAt, AnswerIsSound, NotOlder
    <3> QED
      BY <3>1, <3>2 DEF FollowsAt, OutOfStepIn
  <2> QED
    BY <2>4, <2>5
<1>12. Sound(r)
  <2>1. ASSUME NEW p \in Paths \ Ends(moves) PROVE SoundAt(r, p)
    BY <1>10, SameIsSound DEF Sound
  <2> QED
    BY <1>9, <1>11, <2>1 DEF Sound
<1> QED
  BY <1>8, <1>10, <1>11, <1>12 DEF Staged, r

LEMMA DeleteAndWriteStages ==
  ASSUME HistoryInv, NEW w, Sound(w), NEW tree \in Snapshots, NEW moves, Paired(moves, tree)
  PROVE  Staged(w, DeleteAndWrite(w, moves, tree), Ends(moves), tree)
<1> DEFINE actions == [p \in Ends(moves) |-> IF \E m \in moves : m.new = p THEN "write" ELSE "delete"]
           place == PairedPlace(moves)
<1>1. Ends(moves) \in SUBSET Paths /\ actions \in [Ends(moves) -> {"write", "delete"}]
  BY DEF Ends, Paired
<1>2. ASSUME NEW p \in Ends(moves), actions[p] = "delete" PROVE p \notin DOMAIN tree.files
  BY <1>2 DEF Ends, Paired
<1>3. ASSUME NEW m \in moves
      PROVE  m.new \in Nat /\ place[m.new] = 2 * m.new + 1 /\ place[m.old] = 2 * m.new
  <2>1. m.new \in Nat
    BY ApplyAssumption DEF Paired
  <2>2. m.new \in Ends(moves) /\ m.old \in Ends(moves) /\ ~ \E n \in moves : n.new = m.old
    BY DEF Ends, Paired
  <2>3. (CHOOSE n \in moves : n.old = m.old) = m
    BY DEF Paired
  <2> QED
    BY <2>1, <2>2, <2>3 DEF PairedPlace
<1> HIDE DEF place
<1>4. Orders(place, Ends(moves))
  <2>1. \A p \in Ends(moves) : \E m \in moves : p = m.old \/ p = m.new
    BY DEF Ends
  <2>2. \A p \in Ends(moves) : place[p] \in Nat
    BY <1>3, <2>1
  <2>3. ASSUME NEW p \in Ends(moves), NEW q \in Ends(moves), place[p] = place[q]
        PROVE  p = q
    <3>1. PICK m \in moves : p = m.old \/ p = m.new
      BY <2>1
    <3>2. PICK n \in moves : q = n.old \/ q = n.new
      BY <2>1
    <3>3. /\ m.new \in Nat /\ place[m.new] = 2 * m.new + 1 /\ place[m.old] = 2 * m.new
          /\ n.new \in Nat /\ place[n.new] = 2 * n.new + 1 /\ place[n.old] = 2 * n.new
      BY <1>3
    <3>4. m.new = n.new /\ (p = m.old <=> q = n.old)
      <4>1. CASE p = m.old /\ q = n.old
        BY <2>3, <3>3, <4>1
      <4>2. CASE p = m.new /\ q = n.new
        <5>1. p # m.old /\ q # n.old
          BY <4>2 DEF Paired
        <5> QED
          BY <2>3, <3>3, <4>2, <5>1
      <4>3. ~ (p = m.old /\ q = n.new) /\ ~ (p = m.new /\ q = n.old)
        BY <2>3, <3>3
      <4> QED
        BY <3>1, <3>2, <4>1, <4>2, <4>3
    <3>5. m = n
      BY <3>4 DEF Paired
    <3> QED
      BY <3>1, <3>2, <3>4, <3>5
  <2> QED
    BY <2>2, <2>3 DEF Orders
<1>5. DeleteAndWrite(w, moves, tree) = Ask(w, actions, place, tree)
  BY DEF DeleteAndWrite, place
<1> HIDE DEF actions
<1> QED
  BY <1>1, <1>2, <1>4, <1>5, AskStages

LEMMA RenamesStage ==
  ASSUME HistoryInv, NEW w, Sound(w), NEW tree \in Snapshots, NEW moves, Paired(moves, tree), NEW sha
  PROVE  Staged(w, StageRenames(w, moves, tree, sha), Ends(moves), tree)
<1> DEFINE bare == {m \in moves : w.shown[m.old] = Bare}
           r == CarryInstances(w, moves \ bare, tree, sha)
<1>1. Paired(bare, tree) /\ Paired(moves \ bare, tree)
  BY DEF Paired
<1>2. Staged(w, r, Ends(moves \ bare), tree)
  <2>1. \A m \in moves \ bare : w.shown[m.old] # Bare
    OBVIOUS
  <2> HIDE DEF bare
  <2> QED
    BY <1>1, <2>1, CarryStages
<1> HIDE DEF r
<1>3. Staged(r, DeleteAndWrite(r, bare, tree), Ends(bare), tree)
  <2>1. Sound(r)
    BY <1>2 DEF Staged
  <2> HIDE DEF bare
  <2> QED
    BY <1>1, <2>1, DeleteAndWriteStages
<1>4. /\ Ends(moves \ bare) \cup Ends(bare) = Ends(moves)
      /\ Ends(moves \ bare) \in SUBSET Paths /\ Ends(bare) \in SUBSET Paths
  BY DEF Ends, Paired
<1>5. StageRenames(w, moves, tree, sha) = DeleteAndWrite(r, bare, tree)
  BY DEF StageRenames, r
<1> HIDE DEF bare
<1> QED
  BY <1>2, <1>3, <1>4, <1>5, StagesCompose

LEMMA StageAllStages ==
  ASSUME HistoryInv, NEW w, Sound(w), NEW tree \in Snapshots, NEW S \in SUBSET Paths,
         NEW action \in {"write", "delete"}, action = "delete" => S \cap DOMAIN tree.files = {}
  PROVE  Staged(w, StageAll(w, action, S, tree), S, tree)
<1> DEFINE actions == [p \in S |-> action]
<1>1. Orders(ByPath, S)
  BY SomePathsAreFinite
<1>2. actions \in [S -> {"write", "delete"}] /\ \A p \in S : actions[p] = action
  OBVIOUS
<1>3. StageAll(w, action, S, tree) = Ask(w, actions, ByPath, tree)
  BY DEF StageAll
<1> HIDE DEF actions
<1> QED
  BY <1>1, <1>2, <1>3, AskStages

-----------------------------------------------------------------------------
(* The least of some numbers is one of them.                               *)
LEMMA LeastIsThere ==
  ASSUME NEW S, S \subseteq Nat, S # {}
  PROVE  Least(S) \in S
<1> DEFINE R == {q \in Nat \X Nat : q[1] < q[2]}
<1>1. PICK n \in S : \A m \in S : ~ (<<m, n>> \in R)
  <2>1. IsWellFoundedOn(R, Nat)
    BY NatLessThanWellFounded DEF OpToRel
  <2> QED
    BY <2>1, WFMin
<1>2. ASSUME NEW m \in S PROVE n <= m
  <2>1. ~ (<<m, n>> \in {q \in Nat \X Nat : q[1] < q[2]})
    BY <1>1
  <2>2. m \in Nat /\ n \in Nat
    OBVIOUS
  <2> QED
    BY <2>1, <2>2
<1> QED
  BY <1>2 DEF Least

(* A difference has all that is not alike, and its moves are pairs.        *)
Touched(d) ==
  DOMAIN d.added \cup DOMAIN d.deleted \cup DOMAIN d.modified \cup Ends(d.renamed)

LEMMA DiffFacts ==
  ASSUME HistoryInv, NEW base \in Snapshots, NEW tree \in Snapshots
  PROVE  LET d == DiffSnapshots(base.files, tree.files)
         IN  /\ Touched(d) \subseteq Paths
             /\ DOMAIN d.deleted \cap DOMAIN tree.files = {}
             /\ Paired(d.renamed, tree)
             /\ \A p \in Paths \ Touched(d) : Alike(base.files, tree.files, p)
<1> DEFINE prev == base.files
           cur == tree.files
           d == DiffSnapshots(prev, cur)
           gone(h) == Holding(Deleted(prev, cur), prev, h)
           come(h) == Holding(Added(prev, cur), cur, h)
<1>1. DOMAIN prev \subseteq Paths /\ DOMAIN cur \subseteq Paths /\ Paths \subseteq Nat
  BY TreeFacts, ApplyAssumption DEF Trees
<1>2. /\ d.renamed = Moves(prev, cur)
      /\ DOMAIN d.added = Added(prev, cur) \ {m.new : m \in d.renamed}
      /\ DOMAIN d.deleted = Deleted(prev, cur) \ {m.old : m \in d.renamed}
      /\ DOMAIN d.modified = Modified(prev, cur)
  BY DEF DiffSnapshots, Restrict
<1>3. ASSUME NEW m \in d.renamed
      PROVE  /\ m.old \in DOMAIN prev \ DOMAIN cur /\ m.new \in DOMAIN cur \ DOMAIN prev
             /\ prev[m.old] = m.sha /\ cur[m.new] = m.sha
             /\ m = [old |-> Least(gone(m.sha)), new |-> Least(come(m.sha)), sha |-> m.sha]
  <2>1. PICK h : /\ gone(h) # {} /\ come(h) # {}
                 /\ m = [old |-> Least(gone(h)), new |-> Least(come(h)), sha |-> h]
    BY <1>2 DEF Moves
  <2>2. gone(h) \subseteq Nat /\ come(h) \subseteq Nat
    BY <1>1 DEF Holding, Deleted, Added
  <2>3. Least(gone(h)) \in gone(h) /\ Least(come(h)) \in come(h)
    BY <2>1, <2>2, LeastIsThere
  <2>4. m.sha = h /\ m.old \in gone(h) /\ m.new \in come(h)
    BY <2>1, <2>3
  <2> QED
    BY <2>1, <2>4 DEF Holding, Deleted, Added
<1> HIDE DEF d
<1>4. Paired(d.renamed, tree)
  <2>1. ASSUME NEW m \in d.renamed, NEW n \in d.renamed, m.new = n.new \/ m.old = n.old
        PROVE  m = n
    <3>1. m.sha = n.sha
      BY <1>3, <2>1
    <3> QED
      BY <1>3, <3>1
  <2> QED
    BY <1>1, <1>3, <2>1 DEF Paired
<1>5. Touched(d) \subseteq Paths /\ DOMAIN d.deleted \cap DOMAIN tree.files = {}
  BY <1>1, <1>2, <1>3 DEF Touched, Ends, Added, Deleted, Modified
<1>6. ASSUME NEW p \in Paths \ Touched(d) PROVE Alike(prev, cur, p)
  <2>1. /\ p \notin DOMAIN d.added /\ p \notin DOMAIN d.deleted /\ p \notin DOMAIN d.modified
        /\ p \notin Ends(d.renamed)
    BY DEF Touched
  <2>2. p \notin Added(prev, cur) /\ p \notin Deleted(prev, cur) /\ p \notin Modified(prev, cur)
    BY <1>2, <2>1 DEF Ends
  <2> QED
    BY <2>2 DEF Added, Deleted, Modified, Alike
<1> QED
  BY <1>4, <1>5, <1>6 DEF d

(* What a difference leaves alone is alike in both snapshots.              *)
LEMMA DiffIsFollowed ==
  ASSUME HistoryInv, NEW base \in Snapshots, NEW tree \in Snapshots, NEW w, NEW r,
         Staged(w, r, Touched(DiffSnapshots(base.files, tree.files)), tree),
         NEW p \in Paths, FollowsAt(w, p, base)
  PROVE  FollowsAt(r, p, tree)
<1> DEFINE S == Touched(DiffSnapshots(base.files, tree.files))
<1>1. p \notin S => Alike(base.files, tree.files, p)
  BY DiffFacts
<1> HIDE DEF S
<1>2. CASE p \in S
  BY <1>2 DEF Staged, S
<1>3. CASE p \notin S
  <2>1. FollowsAt(r, p, base)
    BY <1>3, SameFollows DEF Staged, S
  <2> QED
    BY <1>1, <1>3, <2>1 DEF FollowsAt, ShowsIn, Alike
<1> QED
  BY <1>2, <1>3

LEMMA DiffStages ==
  ASSUME HistoryInv, NEW base \in Snapshots, NEW tree \in Snapshots, NEW w, Sound(w)
  PROVE  /\ Staged(w, StageDiff(w, base, tree),
                   Touched(DiffSnapshots(base.files, tree.files)), tree)
         /\ Staged(w, StageEvent(w, base, tree),
                   Touched(DiffSnapshots(base.files, tree.files)), tree)
<1> DEFINE d == DiffSnapshots(base.files, tree.files)
           gone == DOMAIN d.deleted
           come == DOMAIN d.added
           other == DOMAIN d.modified
           ends == Ends(d.renamed)
<1>1. /\ gone \in SUBSET Paths /\ come \in SUBSET Paths /\ other \in SUBSET Paths
      /\ ends \in SUBSET Paths /\ gone \cap DOMAIN tree.files = {} /\ Paired(d.renamed, tree)
      /\ Touched(d) = gone \cup come \cup other \cup ends
  <2>1. /\ Touched(d) \subseteq Paths /\ gone \cap DOMAIN tree.files = {}
        /\ Paired(d.renamed, tree)
    BY DiffFacts
  <2>2. Touched(d) = gone \cup come \cup other \cup ends
    BY DEF Touched
  <2> QED
    BY <2>1, <2>2
<1>2. Staged(w, StageDiff(w, base, tree), Touched(d), tree)
  <2> DEFINE fewer == StageAll(w, "delete", gone, tree)
             moved == StageRenames(fewer, d.renamed, tree, TRUE)
             more == StageAll(moved, "write", come, tree)
             r == StageAll(more, "write", other, tree)
  <2>1. StageDiff(w, base, tree) = r
    BY DEF StageDiff
  <2> HIDE DEF d, gone, come, other
  <2>2. Staged(w, fewer, gone, tree)
    BY <1>1, StageAllStages
  <2> HIDE DEF fewer
  <2>3. Staged(fewer, moved, ends, tree)
    BY <1>1, <2>2, RenamesStage DEF Staged
  <2> HIDE DEF moved, ends
  <2>4. Staged(w, moved, gone \cup ends, tree)
    BY <1>1, <2>2, <2>3, StagesCompose
  <2>5. Staged(moved, more, come, tree)
    BY <1>1, <2>4, StageAllStages DEF Staged
  <2> HIDE DEF more
  <2>6. gone \cup ends \in SUBSET Paths /\ (gone \cup ends) \cup come \in SUBSET Paths
    BY <1>1
  <2>7. Staged(w, more, (gone \cup ends) \cup come, tree)
    BY <1>1, <2>4, <2>5, <2>6, StagesCompose
  <2>8. Staged(more, r, other, tree)
    BY <1>1, <2>7, StageAllStages DEF Staged
  <2> HIDE DEF r
  <2>9. Staged(w, r, ((gone \cup ends) \cup come) \cup other, tree)
    BY <1>1, <2>6, <2>7, <2>8, StagesCompose
  <2>10. ((gone \cup ends) \cup come) \cup other = Touched(d)
    BY <1>1
  <2> QED
    BY <2>1, <2>9, <2>10
<1>3. Staged(w, StageEvent(w, base, tree), Touched(d), tree)
  <2> DEFINE more == StageAll(w, "write", come, tree)
             most == StageAll(more, "write", other, tree)
             fewer == StageAll(most, "delete", gone, tree)
             r == StageRenames(fewer, d.renamed, tree, FALSE)
  <2>1. StageEvent(w, base, tree) = r
    BY DEF StageEvent
  <2> HIDE DEF d, gone, come, other
  <2>2. Staged(w, more, come, tree)
    BY <1>1, StageAllStages
  <2> HIDE DEF more
  <2>3. Staged(more, most, other, tree)
    BY <1>1, <2>2, StageAllStages DEF Staged
  <2> HIDE DEF most
  <2>4. Staged(w, most, come \cup other, tree)
    BY <1>1, <2>2, <2>3, StagesCompose
  <2>5. Staged(most, fewer, gone, tree)
    BY <1>1, <2>4, StageAllStages DEF Staged
  <2> HIDE DEF fewer
  <2>6. come \cup other \in SUBSET Paths /\ (come \cup other) \cup gone \in SUBSET Paths
    BY <1>1
  <2>7. Staged(w, fewer, (come \cup other) \cup gone, tree)
    BY <1>1, <2>4, <2>5, <2>6, StagesCompose
  <2>8. Staged(fewer, r, ends, tree)
    BY <1>1, <2>7, RenamesStage DEF Staged
  <2> HIDE DEF r, ends
  <2>9. Staged(w, r, ((come \cup other) \cup gone) \cup ends, tree)
    BY <1>1, <2>6, <2>7, <2>8, StagesCompose
  <2>10. ((come \cup other) \cup gone) \cup ends = Touched(d)
    BY <1>1
  <2> QED
    BY <2>1, <2>9, <2>10
<1> QED
  BY <1>2, <1>3

-----------------------------------------------------------------------------
(* A resync asks for all that differs.                                     *)
LEMMA ResyncFollows ==
  ASSUME HistoryInv, NEW w, Sound(w), NEW tree \in Snapshots
  PROVE  LET r == ReconcileSnapshot(w, tree)
         IN  Sound(r) /\ r.resync = w.resync /\ \A p \in Paths : FollowsAt(r, p, tree)
<1> DEFINE c == BeginFullResync(w)
           extra == {p \in Paths : w.shown[p] # Bare} \ DOMAIN tree.files
           stale == {p \in DOMAIN tree.files : w.shown[p].sha # tree.files[p]}
           v == StageAll(c, "delete", extra, tree)
           r == StageAll(v, "write", stale, tree)
<1>1. ReconcileSnapshot(w, tree) = r
  BY DEF ReconcileSnapshot
<1>2. /\ DOMAIN tree.files \subseteq Paths /\ tree.files \in [DOMAIN tree.files -> Sources]
      /\ extra \in SUBSET Paths /\ stale \in SUBSET Paths
      /\ extra \cap DOMAIN tree.files = {}
  BY TreeFacts DEF Trees
<1>3. /\ WorkShape(c) /\ c.ops = [p \in Paths |-> NoOp] /\ c.queue = << >>
      /\ c.fetchQueue = << >> /\ c.ready = [p \in Paths |-> Nothing] /\ c.epoch = w.epoch + 1
      /\ c.shown = w.shown /\ c.resync = w.resync /\ c.wanted = w.wanted
      /\ c.ahead = w.ahead /\ c.tangled = w.tangled /\ c.twinned = w.twinned
  <2> DEFINE fetchQueued == [p \in Paths |-> 0]
             none == [p \in Paths |-> NoOp]
             nothing == [p \in Paths |-> Nothing]
  <2>1. c = [w EXCEPT !.ops = none, !.queue = << >>, !.fetchQueue = << >>,
                      !.fetchQueued = fetchQueued, !.inflight = fetchQueued,
                      !.ready = nothing, !.epoch = @ + 1]
    BY DEF BeginFullResync
  <2> HIDE DEF c, fetchQueued, none, nothing
  <2>2. /\ WorkShape(c) /\ c.ops = none /\ c.queue = << >>
        /\ c.fetchQueue = << >> /\ c.ready = nothing /\ c.epoch = w.epoch + 1
        /\ c.shown = w.shown /\ c.resync = w.resync /\ c.wanted = w.wanted
        /\ c.ahead = w.ahead /\ c.tangled = w.tangled /\ c.twinned = w.twinned
    BY <2>1 DEF Sound, WorkTypes, WorkShape
  <2> QED
    BY <2>2 DEF none, nothing
<1>4. Sound(c)
  <2>1. c.epoch \in Nat /\ Nothing.epoch = 0
    BY <1>3 DEF Sound, WorkTypes, Nothing
  <2>2. WorkTypes(c)
    BY <1>3, <2>1 DEF Sound, WorkTypes
  <2>3. FetchTypes(c)
    BY <1>3 DEF Sound, WorkTypes, FetchTypes
  <2>4. ASSUME NEW p \in Paths PROVE SoundAt(c, p)
    <3>1. c.ops[p] = NoOp /\ c.ready[p] = Nothing /\ c.wanted[p] = w.wanted[p]
      BY <1>3
    <3>2. SoundAt(w, p)
      BY DEF Sound
    <3> HIDE DEF c
    <3> QED
      BY <3>1, <3>2 DEF SoundAt, AnswerIsSound, Wants
  <2> QED
    BY <2>2, <2>3, <2>4 DEF Sound
<1>5. ASSUME NEW p \in Paths \ (extra \cup stale) PROVE FollowsAt(c, p, tree)
  <2>1. c.ops[p] = NoOp /\ c.shown[p] = w.shown[p]
    BY <1>3
  <2>2. CASE p \in DOMAIN tree.files
    <3>1. c.shown[p].sha = tree.files[p] /\ tree.files[p] \in Sources
      BY <1>2, <2>1, <2>2
    <3>2. c.shown[p] # Bare
      BY <3>1, ApplyAssumption DEF Bare
    <3> HIDE DEF c
    <3> QED
      BY <2>1, <2>2, <3>1, <3>2 DEF FollowsAt, ShowsIn, OutOfStepIn
  <2>3. CASE p \notin DOMAIN tree.files
    BY <2>1, <2>3 DEF FollowsAt, ShowsIn
  <2> QED
    BY <2>2, <2>3
<1> HIDE DEF c, extra, stale
<1>6. Staged(c, v, extra, tree)
  BY <1>2, <1>4, StageAllStages
<1> HIDE DEF v
<1>7. Staged(v, r, stale, tree)
  BY <1>2, <1>6, StageAllStages DEF Staged
<1> HIDE DEF r
<1>8. Staged(c, r, extra \cup stale, tree)
  BY <1>2, <1>6, <1>7, StagesCompose
<1>9. \A p \in Paths : FollowsAt(r, p, tree)
  BY <1>5, <1>8, SameFollows DEF Staged
<1> QED
  BY <1>1, <1>3, <1>8, <1>9 DEF Staged

(* To ask for one changes nothing else.                                    *)
LEMMA AskingForResyncIsSame ==
  ASSUME NEW w, Sound(w), NEW b
  PROVE  LET r == [w EXCEPT !.resync = b]
         IN  Sound(r) /\ r.resync = b /\ \A p \in Paths : SameAt(w, r, p)
<1> DEFINE r == [w EXCEPT !.resync = b]
<1>1. /\ WorkShape(r) /\ r.ops = w.ops /\ r.queue = w.queue /\ r.fetchQueue = w.fetchQueue
      /\ r.ready = w.ready /\ r.epoch = w.epoch /\ r.shown = w.shown /\ r.resync = b
      /\ r.wanted = w.wanted /\ r.ahead = w.ahead /\ r.tangled = w.tangled /\ r.twinned = w.twinned
  <2>1. r = [w EXCEPT !.resync = b]
    OBVIOUS
  <2> HIDE DEF r
  <2> QED
    BY <2>1 DEF Sound, WorkTypes, WorkShape
<1> HIDE DEF r
<1>2. WorkTypes(r) /\ FetchTypes(r)
  BY <1>1 DEF Sound, WorkTypes, FetchTypes
<1>3. \A p \in Paths : SameAt(w, r, p)
  BY <1>1 DEF SameAt
<1>4. Sound(r)
  BY <1>2, <1>3, SameIsSound DEF Sound
<1> QED
  BY <1>1, <1>3, <1>4 DEF r

-----------------------------------------------------------------------------
(* The fetches.                                                            *)
LEMMA SameStaysSound ==
  ASSUME NEW w, Sound(w), NEW r, WorkTypes(r), r.epoch = w.epoch,
         \A p \in Paths : SameAt(w, r, p)
  PROVE  Sound(r)
<1>1. FetchTypes(r)
  BY DEF Sound, FetchTypes
<1>2. \A p \in Paths : SoundAt(r, p)
  BY SameIsSound DEF Sound
<1> QED
  BY <1>1, <1>2 DEF Sound

LEMMA CompletingIsSame ==
  ASSUME NEW w, Sound(w), NEW f
  PROVE  LET r == CompleteInflight(w, f)
         IN  Sound(r) /\ r.resync = w.resync /\ \A p \in Paths : SameAt(w, r, p)
<1> DEFINE r == CompleteInflight(w, f)
<1>1. PICK busy, inflight : r = [w EXCEPT !.busy = busy, !.inflight = inflight]
  BY DEF CompleteInflight
<1> HIDE DEF r
<1>2. /\ WorkShape(r) /\ r.ops = w.ops /\ r.queue = w.queue /\ r.fetchQueue = w.fetchQueue
      /\ r.ready = w.ready /\ r.epoch = w.epoch /\ r.shown = w.shown /\ r.resync = w.resync
      /\ r.wanted = w.wanted /\ r.ahead = w.ahead /\ r.tangled = w.tangled /\ r.twinned = w.twinned
  BY <1>1 DEF Sound, WorkTypes, WorkShape
<1>3. WorkTypes(r)
  BY <1>2 DEF Sound, WorkTypes
<1>4. \A p \in Paths : SameAt(w, r, p)
  BY <1>2 DEF SameAt
<1> QED
  BY <1>2, <1>3, <1>4, SameStaysSound DEF r

(* What is taken from an answer is for the operation that asked.           *)
LEMMA TakenFollows ==
  ASSUME NEW w, Sound(w), NEW f \in fetches, f.answered
  PROVE  LET r == TakeSources(w, f)
         IN  /\ Sound(r) /\ r.resync = w.resync
             /\ \A p \in Paths : \A tree : FollowsAt(w, p, tree) => FollowsAt(r, p, tree)
<1> DEFINE live == {p \in DOMAIN f.wants : Wants(w, p, f.wants[p])}
           found == {p \in live : f.answer[p].found}
           ready == [p \in Paths |->
                       IF p \in found
                         THEN [epoch |-> f.wants[p], sha |-> f.answer[p].sha, at |-> f.answer[p].at]
                         ELSE w.ready[p]]
           taken == [w EXCEPT !.ready = ready]
           gone == live \ found
           actions == [p \in gone |-> "delete"]
           ats == [p \in live |-> f.answer[p].at]
           n == NewOperations(taken, actions, ByPath, ats)
           r == EnqueuePaths(n, live, ByPath)
<1>1. TakeSources(w, f) = r
  BY DEF TakeSources
<1>2. ASSUME NEW p \in live
      PROVE  /\ p \in Paths /\ p \in DOMAIN f.wants /\ AnswerIsSound(w, f, p)
             /\ Wants(w, p, f.wants[p]) /\ w.ops[p] \in Operations
             /\ f.wants[p] \in Nat \ {0} /\ f.wants[p] = w.ops[p].epoch
             /\ f.wants[p] <= w.epoch
  <2>1. p \in Paths /\ p \in DOMAIN f.wants /\ Wants(w, p, f.wants[p])
    BY DEF Sound, FetchTypes
  <2>2. w.ops[p] \in Operations /\ f.wants[p] = w.ops[p].epoch
    BY <2>1 DEF Sound, WorkTypes, Wants
  <2>3. f.wants[p] \in Nat \ {0} /\ f.wants[p] <= w.epoch
    BY <2>1, <2>2 DEF Operations, Sound, FetchTypes
  <2> QED
    BY <2>1, <2>2, <2>3 DEF Sound, SoundAt
<1>3. /\ WorkShape(taken) /\ taken.ops = w.ops /\ taken.queue = w.queue
      /\ taken.fetchQueue = w.fetchQueue /\ taken.ready = ready /\ taken.epoch = w.epoch
      /\ taken.shown = w.shown /\ taken.resync = w.resync /\ taken.wanted = w.wanted
      /\ taken.ahead = w.ahead /\ taken.tangled = w.tangled /\ taken.twinned = w.twinned
  <2>1. taken = [w EXCEPT !.ready = ready]
    OBVIOUS
  <2> HIDE DEF taken, ready
  <2> QED
    BY <2>1 DEF Sound, WorkTypes, WorkShape
<1>4. ASSUME NEW p \in found
      PROVE  /\ ready[p] \in FetchedSources /\ ready[p].epoch = f.wants[p]
             /\ TellsHere(p, ready[p].at, ready[p].sha) /\ NotOlder(w, p, ready[p].at)
  <2>1. ready[p] = [epoch |-> f.wants[p], sha |-> f.answer[p].sha, at |-> f.answer[p].at]
    BY <1>2
  <2>2. /\ f.answer[p].sha \in Sources /\ TellsHere(p, f.answer[p].at, f.answer[p].sha)
        /\ NotOlder(w, p, f.answer[p].at)
    BY <1>2 DEF AnswerIsSound
  <2>3. f.answer[p].at \in Nat /\ f.wants[p] \in Nat \ {0}
    BY <1>2, <2>2 DEF TellsHere
  <2>4. /\ ready[p].epoch = f.wants[p] /\ ready[p].sha = f.answer[p].sha
        /\ ready[p].at = f.answer[p].at
    BY <2>1
  <2>5. ready[p] \in FetchedSources
    <3> HIDE DEF ready
    <3> QED
      BY <2>1, <2>2, <2>3 DEF FetchedSources
  <2> HIDE DEF ready
  <2> QED
    BY <2>2, <2>4, <2>5
<1>5. \A p \in Paths \ found : ready[p] = w.ready[p]
  OBVIOUS
<1>6. ready = [p \in Paths |-> ready[p]]
  OBVIOUS
<1>7. ASSUME NEW p \in gone
      PROVE  /\ ats[p] = f.answer[p].at /\ ats[p] \in Nat
             /\ TellsGone(p, ats[p]) /\ NotOlder(w, p, ats[p])
  <2>1. p \in live /\ ~ f.answer[p].found
    OBVIOUS
  <2>2. ats[p] = f.answer[p].at
    BY <2>1
  <2>3. TellsGone(p, f.answer[p].at) /\ NotOlder(w, p, f.answer[p].at)
    BY <1>2, <2>1 DEF AnswerIsSound
  <2> QED
    BY <2>2, <2>3 DEF TellsGone
<1>8. gone \in SUBSET Paths /\ live \in SUBSET Paths /\ gone \in SUBSET live
      /\ found \in SUBSET live /\ actions \in [gone -> {"write", "delete"}]
      /\ \A p \in gone : actions[p] = "delete"
  <2>1. live \in SUBSET Paths
    BY <1>2
  <2>2. gone \in SUBSET live /\ found \in SUBSET live
    OBVIOUS
  <2> HIDE DEF live, gone, found
  <2> QED
    BY <2>1, <2>2
<1> HIDE DEF taken, ready, found, gone, actions, ats
<1>9. WorkTypes(taken) /\ FetchTypes(taken)
  <2>1. ASSUME NEW p \in Paths
        PROVE  ready[p] \in FetchedSources \cup {Nothing} /\ ready[p].epoch <= w.epoch
    <3>1. CASE p \in found
      BY <1>2, <1>4, <1>8, <3>1
    <3>2. CASE p \notin found
      BY <1>5, <3>2 DEF Sound, WorkTypes
    <3> QED
      BY <3>1, <3>2
  <2> QED
    BY <1>3, <1>6, <2>1 DEF Sound, WorkTypes, FetchTypes
<1>10. ASSUME NEW p \in Paths PROVE SoundAt(taken, p)
  <2>1. SoundAt(w, p)
    BY DEF Sound
  <2>2. ASSUME NEW at PROVE NotOlder(taken, p, at) <=> NotOlder(w, p, at)
    BY <1>3 DEF NotOlder
  <2>3. ASSUME NEW g \in fetches, g.answered, p \in DOMAIN g.wants
        PROVE  AnswerIsSound(taken, g, p)
    BY <1>3, <2>1, <2>2, <2>3 DEF SoundAt, AnswerIsSound, Wants
  <2>4. CASE p \in found
    BY <1>3, <1>4, <2>1, <2>2, <2>3, <2>4 DEF SoundAt
  <2>5. CASE p \notin found
    BY <1>3, <1>5, <2>1, <2>2, <2>3, <2>5 DEF SoundAt
  <2> QED
    BY <2>4, <2>5
<1>11. /\ WorkTypes(n) /\ FetchTypes(n) /\ n.resync = taken.resync
       /\ \A p \in Paths \ gone : SameAt(taken, n, p)
       /\ \A p \in gone :
            /\ n.ops[p] # NoOp /\ n.ops[p].action = actions[p] /\ n.ops[p].at = ats[p]
            /\ n.ops[p].epoch \in Nat /\ n.ops[p].epoch > taken.epoch
            /\ n.ready[p] \in {taken.ready[p], Nothing} /\ n.shown[p] = taken.shown[p]
            /\ n.wanted[p] = taken.wanted[p]
            /\ p \in n.ahead <=> p \in taken.ahead
            /\ p \in n.tangled <=> p \in taken.tangled
            /\ p \in n.twinned <=> p \in taken.twinned
  <2>1. \A p \in gone : ats[p] \in Nat
    BY <1>7
  <2>2. Orders(ByPath, gone)
    BY <1>8, SomePathsAreFinite
  <2> HIDE DEF live
  <2>3. gone \in SUBSET Paths /\ actions \in [gone -> {"write", "delete"}]
    BY <1>8
  <2> HIDE DEF taken, gone, actions, ats
  <2>4. LET v == NewOperations(taken, actions, ByPath, ats)
        IN  /\ WorkTypes(v) /\ FetchTypes(v) /\ v.resync = taken.resync
            /\ \A p \in Paths \ gone : SameAt(taken, v, p)
            /\ \A p \in gone :
                 /\ v.ops[p] # NoOp /\ v.ops[p].action = actions[p] /\ v.ops[p].at = ats[p]
                 /\ v.ops[p].epoch \in Nat /\ v.ops[p].epoch > taken.epoch
                 /\ v.ready[p] \in {taken.ready[p], Nothing} /\ v.shown[p] = taken.shown[p]
                 /\ v.wanted[p] = taken.wanted[p]
                 /\ p \in v.ahead <=> p \in taken.ahead
                 /\ p \in v.tangled <=> p \in taken.tangled
                 /\ p \in v.twinned <=> p \in taken.twinned
    BY <1>9, <2>1, <2>2, <2>3, OperationsAreNew
  <2> QED
    BY <2>4
<1> HIDE DEF n
<1>12. ASSUME NEW p \in Paths PROVE SoundAt(n, p)
  <2>1. CASE p \in gone
    <3>1. SoundAt(taken, p) /\ n.wanted[p] <= Served.at[p]
      BY <1>10, <1>11, <2>1 DEF SoundAt
    <3>2. TellsGone(p, n.ops[p].at) /\ NotOlder(n, p, n.ops[p].at)
      BY <1>3, <1>7, <1>11, <2>1 DEF NotOlder
    <3> QED
      BY <1>9, <1>11, <2>1, <3>1, <3>2, NewIsSound
  <2>2. CASE p \notin gone
    BY <1>10, <1>11, <2>2, SameIsSound
  <2> QED
    BY <2>1, <2>2
<1>13. WorkTypes(r) /\ r.epoch = n.epoch /\ r.resync = n.resync /\ \A p \in Paths : SameAt(n, r, p)
  <2>1. Orders(ByPath, live)
    BY <1>8, SomePathsAreFinite
  <2> HIDE DEF live
  <2> QED
    BY <1>8, <1>11, <2>1, EnqueueingIsSame
<1> HIDE DEF r
<1>14. Sound(r)
  BY <1>11, <1>12, <1>13, SameStaysSound DEF Sound
<1>15. ASSUME NEW p \in Paths, NEW tree, FollowsAt(w, p, tree) PROVE FollowsAt(r, p, tree)
  <2>1. FollowsAt(taken, p, tree)
    BY <1>3, <1>15 DEF FollowsAt, ShowsIn, OutOfStepIn
  <2>2. CASE p \in gone
    <3>1. w.ops[p] # NoOp
      BY <1>2, <1>8, <2>2 DEF Wants
    <3>2. FollowsAt(n, p, tree)
      BY <1>3, <1>11, <2>1, <2>2, <3>1 DEF FollowsAt
    <3> QED
      BY <1>13, <3>2, SameFollows
  <2>3. CASE p \notin gone
    BY <1>11, <1>13, <2>1, <2>3, SameFollows
  <2> QED
    BY <2>2, <2>3
<1>16. r.resync = w.resync
  BY <1>3, <1>11, <1>13
<1> QED
  BY <1>1, <1>14, <1>15, <1>16

(* An operation that is queued or tried again is the same operation.       *)
Continues(op, new) ==
  \/ new = op
  \/ /\ op # NoOp
     /\ new = [op EXCEPT !.queued = FALSE] \/ new = [op EXCEPT !.retries = @ + 1]

Proceeds(w, r, ops, queue) ==
  /\ r = [w EXCEPT !.ops = ops, !.queue = queue]
  /\ ops = [p \in Paths |-> ops[p]] /\ queue \in Seq(Paths)
  /\ \A p \in Paths : Continues(w.ops[p], ops[p])

LEMMA OperationsLast ==
  ASSUME NEW w, Sound(w), NEW r, NEW ops, NEW queue, Proceeds(w, r, ops, queue)
  PROVE  Sound(r) /\ r.resync = w.resync /\ r.ops = ops /\ \A p \in Paths : SameAt(w, r, p)
<1>1. /\ WorkShape(r) /\ r.ops = ops /\ r.queue = queue /\ r.fetchQueue = w.fetchQueue
      /\ r.ready = w.ready /\ r.epoch = w.epoch /\ r.shown = w.shown /\ r.resync = w.resync
      /\ r.wanted = w.wanted /\ r.ahead = w.ahead /\ r.tangled = w.tangled /\ r.twinned = w.twinned
  <2>1. r = [w EXCEPT !.ops = ops, !.queue = queue]
    BY DEF Proceeds
  <2> QED
    BY <2>1 DEF Sound, WorkTypes, WorkShape
<1>2. ASSUME NEW p \in Paths
      PROVE  /\ ops[p] \in Operations \cup {NoOp}
             /\ ops[p] = NoOp <=> w.ops[p] = NoOp
             /\ w.ops[p] # NoOp => /\ ops[p].action = w.ops[p].action
                                   /\ ops[p].epoch = w.ops[p].epoch /\ ops[p].at = w.ops[p].at
  <2>1. w.ops[p] \in Operations \cup {NoOp}
    BY DEF Sound, WorkTypes
  <2>2. ASSUME NEW op \in Operations, NEW new,
               new = [op EXCEPT !.queued = FALSE] \/ new = [op EXCEPT !.retries = @ + 1]
        PROVE  new \in Operations /\ new.action = op.action /\ new.epoch = op.epoch /\ new.at = op.at
    <3>1. /\ op = [action |-> op.action, retries |-> op.retries, at |-> op.at,
                   epoch |-> op.epoch, queued |-> op.queued]
          /\ op.action \in {"write", "delete"} /\ op.retries \in Nat /\ op.at \in Nat
          /\ op.epoch \in Nat \ {0} /\ op.queued \in BOOLEAN
      BY DEF Operations
    <3>2. CASE new = [op EXCEPT !.queued = FALSE]
      <4>1. new = [action |-> op.action, retries |-> op.retries, at |-> op.at,
                   epoch |-> op.epoch, queued |-> FALSE]
        BY <3>1, <3>2
      <4> QED
        BY <3>1, <4>1 DEF Operations
    <3>3. CASE new = [op EXCEPT !.retries = @ + 1]
      <4>1. new = [action |-> op.action, retries |-> op.retries + 1, at |-> op.at,
                   epoch |-> op.epoch, queued |-> op.queued]
        BY <3>1, <3>3
      <4> QED
        BY <3>1, <4>1 DEF Operations
    <3> QED
      BY <2>2, <3>2, <3>3
  <2>3. CASE ops[p] = w.ops[p]
    BY <2>1, <2>3
  <2>4. CASE ops[p] # w.ops[p]
    <3>1. w.ops[p] \in Operations
      BY <2>1, <2>4 DEF Continues, Proceeds
    <3>2. \/ ops[p] = [w.ops[p] EXCEPT !.queued = FALSE]
          \/ ops[p] = [w.ops[p] EXCEPT !.retries = @ + 1]
      BY <2>4 DEF Continues, Proceeds
    <3>3. /\ ops[p] \in Operations /\ ops[p].action = w.ops[p].action
          /\ ops[p].epoch = w.ops[p].epoch /\ ops[p].at = w.ops[p].at
      BY <2>2, <3>1, <3>2
    <3> QED
      BY <3>1, <3>3, NoOperation
  <2> QED
    BY <2>3, <2>4
<1>3. WorkTypes(r)
  <2>1. ops \in [Paths -> Operations \cup {NoOp}] /\ queue \in Seq(Paths)
    BY <1>2 DEF Proceeds
  <2> QED
    BY <1>1, <1>2, <2>1 DEF Sound, WorkTypes
<1>4. \A p \in Paths : SameAt(w, r, p)
  BY <1>1, <1>2 DEF SameAt
<1> QED
  BY <1>1, <1>3, <1>4, SameStaysSound

LEMMA PoppingIsSame ==
  ASSUME NEW w, Sound(w), w.queue # << >>
  PROVE  LET p == Head(w.queue)
             r == Pop(w)
         IN  /\ p \in Paths
             /\ Sound(r) /\ r.resync = w.resync /\ \A q \in Paths : SameAt(w, r, q)
             /\ w.ops[p] # NoOp =>
                  LET s == [r EXCEPT !.ops[p].queued = FALSE]
                  IN  /\ Sound(s) /\ s.resync = w.resync /\ \A q \in Paths : SameAt(w, s, q)
                      /\ s.ops[p].retries = w.ops[p].retries
<1> DEFINE p == Head(w.queue)
           r == Pop(w)
           s == [r EXCEPT !.ops[p].queued = FALSE]
           ops == [w.ops EXCEPT ![p] = [w.ops[p] EXCEPT !.queued = FALSE]]
<1>1. p \in Paths /\ Tail(w.queue) \in Seq(Paths)
  BY HeadTailProperties DEF Sound, WorkTypes
<1>2. w.ops = [q \in Paths |-> w.ops[q]]
  BY DEF Sound, WorkTypes
<1>3. r = [w EXCEPT !.ops = w.ops, !.queue = Tail(w.queue)]
  BY DEF Pop, Sound, WorkTypes, WorkShape
<1>4. s = [w EXCEPT !.ops = ops, !.queue = Tail(w.queue)]
  BY DEF Pop, Sound, WorkTypes, WorkShape
<1>5. ops = [q \in Paths |-> ops[q]] /\ ops[p] = [w.ops[p] EXCEPT !.queued = FALSE]
  BY <1>1, <1>2
<1>6. \A q \in Paths : q # p => ops[q] = w.ops[q]
  BY <1>1, <1>2
<1> HIDE DEF p, r, s, ops
<1>7. Sound(r) /\ r.resync = w.resync /\ \A q \in Paths : SameAt(w, r, q)
  <2>1. \A q \in Paths : Continues(w.ops[q], w.ops[q])
    BY DEF Continues
  <2>2. Proceeds(w, r, w.ops, Tail(w.queue))
    BY <1>1, <1>2, <1>3, <2>1 DEF Proceeds
  <2> QED
    BY <2>2, OperationsLast
<1>8. ASSUME w.ops[p] # NoOp
      PROVE  /\ Sound(s) /\ s.resync = w.resync /\ \A q \in Paths : SameAt(w, s, q)
             /\ s.ops[p].retries = w.ops[p].retries
  <2>1. \A q \in Paths : Continues(w.ops[q], ops[q])
    BY <1>5, <1>6, <1>8 DEF Continues
  <2>2. Proceeds(w, s, ops, Tail(w.queue))
    BY <1>1, <1>4, <1>5, <2>1 DEF Proceeds
  <2>3. /\ Sound(s) /\ s.resync = w.resync /\ s.ops = ops
        /\ \A q \in Paths : SameAt(w, s, q)
    BY <2>2, OperationsLast
  <2>4. w.ops[p] \in Operations
    BY <1>1, <1>8 DEF Sound, WorkTypes
  <2>5. ops[p].retries = w.ops[p].retries
    BY <1>5, <2>4 DEF Operations
  <2> QED
    BY <2>3, <2>5
<1> QED
  BY <1>1, <1>7, <1>8 DEF p, r, s

LEMMA PushingIsSame ==
  ASSUME NEW w, Sound(w), NEW S \in SUBSET Paths, \A p \in S : w.ops[p] # NoOp
  PROVE  LET r == PushFetchTasks(w, S, ByPath)
         IN  Sound(r) /\ r.resync = w.resync /\ \A p \in Paths : SameAt(w, r, p)
<1> DEFINE r == PushFetchTasks(w, S, ByPath)
<1>1. Orders(ByPath, S)
  BY SomePathsAreFinite
<1>2. WorkTypes(r) /\ r.epoch = w.epoch /\ r.resync = w.resync /\ \A p \in Paths : SameAt(w, r, p)
  BY <1>1, FetchingIsSame DEF Sound
<1> HIDE DEF r
<1> QED
  BY <1>2, SameStaysSound DEF r

(* A request that failed is made again; the last one asks for a resync.    *)
LEMMA RetriesAreSame ==
  ASSUME NEW w, Sound(w), NEW f \in fetches
  PROVE  LET r == ScheduleFetchRetries(w, f)
         IN  Sound(r) /\ (~ r.resync => ~ w.resync) /\ \A p \in Paths : SameAt(w, r, p)
<1> DEFINE live == {p \in DOMAIN f.wants : Wants(w, p, f.wants[p])}
           last == {p \in live : w.ops[p].retries = FetchRetries}
           ops == [p \in Paths |-> IF p \in live THEN [w.ops[p] EXCEPT !.retries = @ + 1]
                                   ELSE w.ops[p]]
           again == Retried(w, live)
           v == [again EXCEPT !.resync = @ \/ last # {}]
           r == PushFetchTasks(v, live \ last, ByPath)
<1>1. ScheduleFetchRetries(w, f) = r
  BY DEF ScheduleFetchRetries
<1>2. \A p \in live : p \in Paths /\ w.ops[p] # NoOp
  BY DEF Sound, FetchTypes, Wants
<1>3. again = [w EXCEPT !.ops = ops, !.queue = w.queue]
  <2>1. again = [w EXCEPT !.ops = ops]
    BY DEF Retried
  <2> HIDE DEF again, ops
  <2> QED
    BY <2>1 DEF Sound, WorkTypes, WorkShape
<1>4. ops = [p \in Paths |-> ops[p]]
  OBVIOUS
<1>5. \A p \in Paths : Continues(w.ops[p], ops[p])
  BY <1>2 DEF Continues
<1> HIDE DEF again, ops
<1>6. Sound(again) /\ again.resync = w.resync /\ \A p \in Paths : SameAt(w, again, p)
  <2>1. w.queue \in Seq(Paths)
    BY DEF Sound, WorkTypes
  <2>2. Proceeds(w, again, ops, w.queue)
    BY <1>3, <1>4, <1>5, <2>1 DEF Proceeds
  <2> QED
    BY <2>2, OperationsLast
<1>7. Sound(v) /\ \A p \in Paths : SameAt(again, v, p)
  BY <1>6, AskingForResyncIsSame
<1>8. v.resync = (again.resync \/ last # {})
  BY <1>6, AskingForResyncIsSame
<1> HIDE DEF v
<1>9. Sound(r) /\ r.resync = v.resync /\ \A p \in Paths : SameAt(v, r, p)
  <2>1. \A p \in live \ last : v.ops[p] # NoOp
    BY <1>2, <1>6, <1>7 DEF SameAt
  <2>2. live \ last \in SUBSET Paths
    BY <1>2
  <2> HIDE DEF live, last
  <2> QED
    BY <1>7, <2>1, <2>2, PushingIsSame
<1> HIDE DEF r, live, last
<1>10. ~ r.resync => ~ w.resync
  BY <1>6, <1>8, <1>9
<1>11. \A p \in Paths : SameAt(w, r, p)
  BY <1>6, <1>7, <1>9, SameIsTransitive
<1> QED
  BY <1>1, <1>9, <1>10, <1>11

-----------------------------------------------------------------------------
(* The instances.                                                          *)
Becomes(w, p, i, at) ==
  /\ i \in Instances \cup {Bare} /\ at \in Nat /\ NotOlder(w, p, at)
  /\ IF i = Bare \/ i.left THEN TellsGone(p, at) ELSE TellsHere(p, at, i.source)

LEMMA DoneFollows ==
  ASSUME HistoryInv, NEW w, Sound(w), NEW p \in Paths, w.ops[p] # NoOp,
         NEW i, NEW at, Becomes(w, p, i, at)
  PROVE  LET r == Done([w EXCEPT !.shown[p] = i], p, at > w.wanted[p])
         IN  /\ Sound(r) /\ r.resync = w.resync
             /\ \A q \in Paths : \A tree \in Snapshots : FollowsAt(w, q, tree) => FollowsAt(r, q, tree)
<1> DEFINE late == at > w.wanted[p]
           ops == [w.ops EXCEPT ![p] = NoOp]
           ready == [w.ready EXCEPT ![p] = Nothing]
           shown == [w.shown EXCEPT ![p] = i]
           ahead == IF late THEN w.ahead \cup {p} ELSE w.ahead \ {p}
           r == Done([w EXCEPT !.shown[p] = i], p, late)
<1>1. r = [w EXCEPT !.ops = ops, !.ready = ready, !.shown = shown, !.ahead = ahead]
  BY DEF Done, Sound, WorkTypes, WorkShape
<1>2. /\ ops \in [Paths -> Operations \cup {NoOp}] /\ ready \in [Paths -> FetchedSources \cup {Nothing}]
      /\ shown \in [Paths -> Instances \cup {Bare}]
      /\ ops[p] = NoOp /\ ready[p] = Nothing /\ shown[p] = i
      /\ \A q \in Paths \ {p} :
           ops[q] = w.ops[q] /\ ready[q] = w.ready[q] /\ shown[q] = w.shown[q]
  BY DEF Sound, WorkTypes, Becomes
<1>3. ahead \subseteq Paths /\ \A q \in Paths \ {p} : q \in ahead <=> q \in w.ahead
  BY DEF Sound, WorkTypes
<1>4. at > w.wanted[p] => p \in ahead
  OBVIOUS
<1> HIDE DEF r, ops, ready, shown, ahead
<1>5. /\ WorkShape(r) /\ r.ops = ops /\ r.queue = w.queue /\ r.fetchQueue = w.fetchQueue
      /\ r.ready = ready /\ r.epoch = w.epoch /\ r.shown = shown /\ r.resync = w.resync
      /\ r.wanted = w.wanted /\ r.ahead = ahead /\ r.tangled = w.tangled /\ r.twinned = w.twinned
  BY <1>1 DEF Sound, WorkTypes, WorkShape
<1>6. Nothing.epoch = 0
  BY DEF Nothing
<1>7. WorkTypes(r) /\ FetchTypes(r)
  <2>1. ASSUME NEW q \in Paths
        PROVE  (ops[q] # NoOp => ops[q].epoch <= w.epoch) /\ ready[q].epoch <= w.epoch
    <3>1. CASE q = p
      <4>1. w.epoch \in Nat
        BY DEF Sound, WorkTypes
      <4> QED
        BY <1>2, <1>6, <3>1, <4>1
    <3>2. CASE q # p
      BY <1>2, <3>2 DEF Sound, WorkTypes
    <3> QED
      BY <3>1, <3>2
  <2> QED
    BY <1>2, <1>3, <1>5, <2>1 DEF Sound, WorkTypes, FetchTypes
<1>8. \A q \in Paths \ {p} : SameAt(w, r, q)
  BY <1>2, <1>3, <1>5 DEF SameAt
<1>9. SoundAt(r, p)
  <2>1. SoundAt(w, p)
    BY DEF Sound
  <2>2. r.ops[p] = NoOp /\ r.ready[p] = Nothing /\ r.wanted[p] = w.wanted[p]
    BY <1>2, <1>5
  <2> QED
    BY <2>1, <2>2 DEF SoundAt, AnswerIsSound, Wants
<1>10. Sound(r)
  <2>1. ASSUME NEW q \in Paths PROVE SoundAt(r, q)
    <3>1. CASE q # p
      BY <1>8, <3>1, SameIsSound DEF Sound
    <3> QED
      BY <1>9, <3>1
  <2> QED
    BY <1>7, <2>1 DEF Sound
<1>11. ASSUME NEW tree \in Snapshots, FollowsAt(w, p, tree) PROVE FollowsAt(r, p, tree)
  <2>1. r.ops[p] = NoOp /\ r.shown[p] = i
    BY <1>2, <1>5
  <2>2. CASE p \in w.tangled \/ at > w.wanted[p]
    BY <1>4, <1>5, <2>1, <2>2 DEF FollowsAt, OutOfStepIn
  <2>3. CASE p \notin w.tangled /\ ~ (at > w.wanted[p])
    <3>1. PICK T \in Snapshots : T.at[p] = w.wanted[p] /\ Alike(T.files, tree.files, p)
      BY <1>11, <2>3 DEF FollowsAt
    <3>2. T.at[p] = at
      <4>1. w.wanted[p] \in Int /\ at \in Nat /\ w.wanted[p] <= at
        BY <2>3 DEF Becomes, NotOlder, Sound, WorkTypes
      <4> QED
        BY <2>3, <3>1, <4>1
    <3>3. ShowsIn(r, p, tree)
      <4>1. CASE i = Bare \/ i.left
        BY <2>1, <3>1, <3>2, <4>1 DEF Becomes, TellsGone, Trees, Alike, ShowsIn
      <4>2. CASE ~ (i = Bare \/ i.left)
        BY <2>1, <3>1, <3>2, <4>2 DEF Becomes, TellsHere, Trees, Alike, ShowsIn
      <4> QED
        BY <4>1, <4>2
    <3> QED
      BY <2>1, <3>3 DEF FollowsAt
  <2> QED
    BY <2>2, <2>3
<1>12. ASSUME NEW q \in Paths, NEW tree \in Snapshots, FollowsAt(w, q, tree)
       PROVE  FollowsAt(r, q, tree)
  BY <1>8, <1>11, <1>12, SameFollows
<1> QED
  BY <1>5, <1>10, <1>12 DEF r

LEMMA DropIsSound ==
  ASSUME NEW w, Sound(w), NEW p \in Paths
  PROVE  LET r == [w EXCEPT !.ops[p] = NoOp, !.ready[p] = Nothing, !.resync = TRUE]
         IN  Sound(r) /\ r.resync = TRUE
<1> DEFINE ops == [w.ops EXCEPT ![p] = NoOp]
           ready == [w.ready EXCEPT ![p] = Nothing]
           r == [w EXCEPT !.ops[p] = NoOp, !.ready[p] = Nothing, !.resync = TRUE]
<1>1. r = [w EXCEPT !.ops = ops, !.ready = ready, !.resync = TRUE]
  BY DEF Sound, WorkTypes, WorkShape
<1>2. /\ ops \in [Paths -> Operations \cup {NoOp}] /\ ready \in [Paths -> FetchedSources \cup {Nothing}]
      /\ ops[p] = NoOp /\ ready[p] = Nothing
      /\ \A q \in Paths \ {p} : ops[q] = w.ops[q] /\ ready[q] = w.ready[q]
  BY DEF Sound, WorkTypes
<1> HIDE DEF r, ops, ready
<1>3. /\ WorkShape(r) /\ r.ops = ops /\ r.queue = w.queue /\ r.fetchQueue = w.fetchQueue
      /\ r.ready = ready /\ r.epoch = w.epoch /\ r.shown = w.shown /\ r.resync = TRUE
      /\ r.wanted = w.wanted /\ r.ahead = w.ahead /\ r.tangled = w.tangled /\ r.twinned = w.twinned
  BY <1>1 DEF Sound, WorkTypes, WorkShape
<1>4. WorkTypes(r) /\ FetchTypes(r)
  <2>1. ASSUME NEW q \in Paths
        PROVE  (ops[q] # NoOp => ops[q].epoch <= w.epoch) /\ ready[q].epoch <= w.epoch
    <3>1. CASE q = p
      <4>1. w.epoch \in Nat /\ Nothing.epoch = 0
        BY DEF Sound, WorkTypes, Nothing
      <4> QED
        BY <1>2, <3>1, <4>1
    <3>2. CASE q # p
      BY <1>2, <3>2 DEF Sound, WorkTypes
    <3> QED
      BY <3>1, <3>2
  <2> QED
    BY <1>2, <1>3, <2>1 DEF Sound, WorkTypes, FetchTypes
<1>5. ASSUME NEW q \in Paths PROVE SoundAt(r, q)
  <2>1. SoundAt(w, q)
    BY DEF Sound
  <2>2. CASE q = p
    <3>1. r.ops[p] = NoOp /\ r.ready[p] = Nothing /\ r.wanted[p] = w.wanted[p]
      BY <1>2, <1>3
    <3> QED
      BY <2>1, <2>2, <3>1 DEF SoundAt, AnswerIsSound, Wants
  <2>3. CASE q # p
    <3>1. SameAt(w, r, q)
      BY <1>2, <1>3, <2>3 DEF SameAt
    <3> QED
      BY <2>1, <3>1, SameIsSound
  <2> QED
    BY <2>2, <2>3
<1> QED
  BY <1>3, <1>4, <1>5 DEF Sound, r

-----------------------------------------------------------------------------
(* What follows a snapshot goes on to do so, until a resync is due.        *)
Keeps(w, r) ==
  /\ Sound(r)
  /\ ~ r.resync =>
       /\ ~ w.resync
       /\ \A p \in Paths : \A tree \in Snapshots : FollowsAt(w, p, tree) => FollowsAt(r, p, tree)

LEMMA SameKeeps ==
  ASSUME NEW w, NEW r, Sound(r), ~ r.resync => ~ w.resync, \A p \in Paths : SameAt(w, r, p)
  PROVE  Keeps(w, r)
  BY SameFollows DEF Keeps

LEMMA KeepingIsTransitive ==
  ASSUME NEW w, NEW r, NEW s, Keeps(w, r), Keeps(r, s)
  PROVE  Keeps(w, s)
  BY DEF Keeps

LEMMA WritingKeeps ==
  ASSUME HistoryInv, NEW w, Sound(w), NEW p \in Paths, w.ops[p] # NoOp
  PROVE  Keeps(w, ApplyWrite(w, p))
<1>1. CASE w.ready[p].epoch # w.ops[p].epoch
  <2>1. CASE w.inflight[p] # w.ops[p].epoch
    <3> DEFINE r == PushFetchTasks(w, {p}, ByPath)
    <3>1. Sound(r) /\ r.resync = w.resync /\ \A q \in Paths : SameAt(w, r, q)
      BY PushingIsSame
    <3>2. ApplyWrite(w, p) = r
      BY <1>1, <2>1 DEF ApplyWrite
    <3> HIDE DEF r
    <3> QED
      BY <3>1, <3>2, SameKeeps
  <2>2. CASE w.inflight[p] = w.ops[p].epoch
    BY <1>1, <2>2 DEF ApplyWrite, Keeps
  <2> QED
    BY <2>1, <2>2
<1>2. CASE w.ready[p].epoch = w.ops[p].epoch
  <2> DEFINE i == [sha |-> w.ready[p].sha, source |-> w.ready[p].sha, left |-> FALSE]
             at == w.ready[p].at
             r == Done([w EXCEPT !.shown[p] = i], p, at > w.wanted[p])
  <2>1. ApplyWrite(w, p) = r
    BY <1>2 DEF ApplyWrite
  <2>2. w.ready[p] \in FetchedSources
    <3>1. w.ops[p] \in Operations /\ w.ready[p] \in FetchedSources \cup {Nothing}
      BY DEF Sound, WorkTypes
    <3>2. w.ops[p].epoch # 0 /\ Nothing.epoch = 0
      BY <3>1 DEF Operations, Nothing
    <3> QED
      BY <1>2, <3>1, <3>2
  <2>3. w.ready[p] # Nothing
    BY <2>2 DEF FetchedSources, Nothing
  <2>4. TellsHere(p, at, w.ready[p].sha) /\ NotOlder(w, p, at)
    BY <1>2, <2>3 DEF Sound, SoundAt
  <2>5. i \in Instances /\ i.source = w.ready[p].sha /\ ~ i.left /\ at \in Nat
    BY <2>2 DEF FetchedSources, Instances
  <2> HIDE DEF i, at
  <2>6. Becomes(w, p, i, at)
    BY <2>4, <2>5, BareIsNoInstance DEF Becomes
  <2>7. Sound(r) /\ r.resync = w.resync
        /\ \A q \in Paths : \A tree \in Snapshots : FollowsAt(w, q, tree) => FollowsAt(r, q, tree)
    BY <2>6, DoneFollows
  <2> HIDE DEF r
  <2> QED
    BY <2>1, <2>7 DEF Keeps
<1> QED
  BY <1>1, <1>2

LEMMA DeletingKeeps ==
  ASSUME HistoryInv, NEW w, Sound(w), NEW p \in Paths, w.ops[p] # NoOp, w.ops[p].action = "delete"
  PROVE  Keeps(w, ApplyDelete(w, p))
<1> DEFINE i == IF w.shown[p] = Bare THEN Bare ELSE [w.shown[p] EXCEPT !.left = TRUE]
           r == Done([w EXCEPT !.shown[p] = i], p, w.ops[p].at > w.wanted[p])
<1>1. ApplyDelete(w, p) = r
  BY DEF ApplyDelete, Sound, WorkTypes
<1>2. TellsGone(p, w.ops[p].at) /\ NotOlder(w, p, w.ops[p].at)
  BY DEF Sound, SoundAt
<1>3. i \in Instances \cup {Bare} /\ (i = Bare \/ i.left)
  BY DEF Sound, WorkTypes, Instances
<1> HIDE DEF i
<1>4. Becomes(w, p, i, w.ops[p].at)
  BY <1>2, <1>3 DEF Becomes, TellsGone
<1>5. Sound(r) /\ r.resync = w.resync
      /\ \A q \in Paths : \A tree \in Snapshots : FollowsAt(w, q, tree) => FollowsAt(r, q, tree)
  BY <1>4, DoneFollows
<1> HIDE DEF r
<1> QED
  BY <1>1, <1>5 DEF Keeps

LEMMA ApplyKeeps ==
  ASSUME HistoryInv, Sound(work), Apply
  PROVE  Keeps(work, work')
<1> DEFINE p == Head(work.queue)
           r == Pop(work)
           s == [r EXCEPT !.ops[p].queued = FALSE]
<1>1. work.queue # << >>
  BY DEF Apply, Applying
<1>2. /\ work.ops[p] = NoOp => work' = r
      /\ work.ops[p] # NoOp /\ work.ops[p].action = "delete" => work' = ApplyDelete(s, p)
      /\ work.ops[p] # NoOp /\ work.ops[p].action = "write" => work' = ApplyWrite(s, p)
  <2>1. NoOp.action = "none"
    BY DEF NoOp
  <2> QED
    BY <2>1 DEF Apply
<1>3. /\ p \in Paths
      /\ Sound(r) /\ r.resync = work.resync /\ \A q \in Paths : SameAt(work, r, q)
      /\ work.ops[p] # NoOp =>
           /\ Sound(s) /\ s.resync = work.resync /\ \A q \in Paths : SameAt(work, s, q)
  BY <1>1, PoppingIsSame
<1> HIDE DEF p, r, s
<1>4. CASE work.ops[p] = NoOp
  BY <1>2, <1>3, <1>4, SameKeeps
<1>5. CASE work.ops[p] # NoOp
  <2>1. s.ops[p] # NoOp /\ s.ops[p].action = work.ops[p].action
    BY <1>3, <1>5 DEF SameAt
  <2>2. work.ops[p].action \in {"write", "delete"}
    <3>1. work.ops[p] \in Operations
      BY <1>3, <1>5 DEF Sound, WorkTypes
    <3> QED
      BY <3>1 DEF Operations
  <2>3. Keeps(work, s)
    BY <1>3, <1>5, SameKeeps
  <2>4. Keeps(s, work')
    BY <1>2, <1>3, <1>5, <2>1, <2>2, WritingKeeps, DeletingKeeps
  <2> QED
    BY <2>3, <2>4, KeepingIsTransitive
<1> QED
  BY <1>4, <1>5

LEMMA FailingKeeps ==
  ASSUME HistoryInv, Sound(work), ApplyFails
  PROVE  Keeps(work, work')
<1> DEFINE p == Head(work.queue)
           s == [Pop(work) EXCEPT !.ops[p].queued = FALSE]
           dropped == [s EXCEPT !.ops[p] = NoOp, !.ready[p] = Nothing, !.resync = TRUE]
           again == [s EXCEPT !.ops[p].retries = @ + 1]
           r == EnqueuePaths(again, {p}, ByPath)
<1>1. /\ work.queue # << >> /\ work.ops[p] # NoOp
      /\ work' = dropped \/ work' = r
  BY DEF ApplyFails, Applying
<1>2. /\ p \in Paths /\ Sound(s) /\ s.resync = work.resync
      /\ \A q \in Paths : SameAt(work, s, q)
  BY <1>1, PoppingIsSame
<1>3. CASE work' = dropped
  <2> HIDE DEF s
  <2>1. Sound(dropped) /\ dropped.resync = TRUE
    BY <1>2, DropIsSound
  <2> HIDE DEF dropped
  <2> QED
    BY <1>3, <2>1 DEF Keeps
<1>4. CASE work' = r
  <2> DEFINE ops == [s.ops EXCEPT ![p] = [s.ops[p] EXCEPT !.retries = @ + 1]]
  <2> HIDE DEF s
  <2>1. again = [s EXCEPT !.ops = ops, !.queue = s.queue]
    BY DEF Sound, WorkTypes, WorkShape
  <2>2. ops = [q \in Paths |-> ops[q]] /\ s.queue \in Seq(Paths)
    <3>1. s.ops = [q \in Paths |-> s.ops[q]] /\ s.queue \in Seq(Paths)
      BY <1>2 DEF Sound, WorkTypes
    <3> HIDE DEF p
    <3> QED
      BY <1>2, <3>1
  <2>3. s.ops[p] # NoOp
    BY <1>1, <1>2 DEF SameAt
  <2>4. \A q \in Paths : Continues(s.ops[q], ops[q])
    BY <1>2, <2>3 DEF Continues, Sound, WorkTypes
  <2> HIDE DEF ops, again, p
  <2>5. Proceeds(s, again, ops, s.queue)
    BY <2>1, <2>2, <2>4 DEF Proceeds
  <2>6. Sound(again) /\ again.resync = s.resync /\ \A q \in Paths : SameAt(s, again, q)
    BY <1>2, <2>5, OperationsLast
  <2>7. WorkTypes(r) /\ r.epoch = again.epoch /\ r.resync = again.resync
        /\ \A q \in Paths : SameAt(again, r, q)
    <3>1. Orders(ByPath, {p}) /\ {p} \in SUBSET Paths
      BY <1>2, SomePathsAreFinite
    <3> QED
      BY <2>6, <3>1, EnqueueingIsSame DEF Sound
  <2> HIDE DEF r
  <2>8. Sound(r)
    BY <2>6, <2>7, SameStaysSound
  <2>9. \A q \in Paths : SameAt(work, r, q)
    BY <1>2, <2>6, <2>7, SameIsTransitive
  <2> QED
    BY <1>2, <1>4, <2>6, <2>7, <2>8, <2>9, SameKeeps
<1> QED
  BY <1>1, <1>3, <1>4

LEMMA TakeFetchKeeps ==
  ASSUME Sound(work), TakeFetch
  PROVE  Keeps(work, work') /\ fetches' \subseteq fetches
<1>1. PICK f \in fetches : /\ f.answered /\ fetches' = fetches \ {f}
                           /\ work' = TakeSources(CompleteInflight(work, f), f)
  BY DEF TakeFetch
<1> DEFINE c == CompleteInflight(work, f)
           r == TakeSources(c, f)
<1>2. Sound(c) /\ c.resync = work.resync /\ \A p \in Paths : SameAt(work, c, p)
  BY CompletingIsSame
<1> HIDE DEF c
<1>3. /\ Sound(r) /\ r.resync = c.resync
      /\ \A p \in Paths : \A tree : FollowsAt(c, p, tree) => FollowsAt(r, p, tree)
  BY <1>1, <1>2, TakenFollows
<1>4. work' = r
  BY <1>1 DEF c
<1> HIDE DEF r
<1>5. Keeps(work, c) /\ Keeps(c, r)
  BY <1>2, <1>3, SameKeeps DEF Keeps
<1> QED
  BY <1>1, <1>4, <1>5, KeepingIsTransitive

LEMMA FetchFailsKeeps ==
  ASSUME Sound(work), FetchFails
  PROVE  Keeps(work, work') /\ fetches' \subseteq fetches
<1>1. PICK f \in fetches : /\ fetches' = fetches \ {f}
                           /\ work' = ScheduleFetchRetries(CompleteInflight(work, f), f)
  BY DEF FetchFails
<1> DEFINE c == CompleteInflight(work, f)
           r == ScheduleFetchRetries(c, f)
<1>2. Sound(c) /\ c.resync = work.resync /\ \A p \in Paths : SameAt(work, c, p)
  BY CompletingIsSame
<1> HIDE DEF c
<1>3. Sound(r) /\ (~ r.resync => ~ c.resync) /\ \A p \in Paths : SameAt(c, r, p)
  BY <1>1, <1>2, RetriesAreSame
<1>4. work' = r
  BY <1>1 DEF c
<1> HIDE DEF r
<1>5. Keeps(work, c) /\ Keeps(c, r)
  BY <1>2, <1>3, SameKeeps
<1> QED
  BY <1>1, <1>4, <1>5, KeepingIsTransitive

LEMMA BatchTooLargeKeeps ==
  ASSUME Sound(work), BatchTooLarge
  PROVE  Keeps(work, work') /\ fetches' \subseteq fetches
<1>1. PICK f \in fetches :
        /\ fetches' = fetches \ {f}
        /\ LET freed == CompleteInflight(work, f)
               alive == {p \in DOMAIN f.wants : Wants(freed, p, f.wants[p])}
           IN  work' = PushFetchTasks(freed, alive, ByPath)
  BY DEF BatchTooLarge
<1> DEFINE c == CompleteInflight(work, f)
           alive == {p \in DOMAIN f.wants : Wants(c, p, f.wants[p])}
           r == PushFetchTasks(c, alive, ByPath)
<1>2. Sound(c) /\ c.resync = work.resync /\ \A p \in Paths : SameAt(work, c, p)
  BY CompletingIsSame
<1>3. work' = r
  BY <1>1
<1> HIDE DEF c
<1>4. Sound(r) /\ r.resync = c.resync /\ \A p \in Paths : SameAt(c, r, p)
  <2>1. alive \in SUBSET Paths /\ \A p \in alive : c.ops[p] # NoOp
    BY <1>2 DEF Sound, FetchTypes, Wants
  <2> HIDE DEF alive
  <2> QED
    BY <1>2, <2>1, PushingIsSame
<1> HIDE DEF r
<1>5. Keeps(work, c) /\ Keeps(c, r)
  BY <1>2, <1>4, SameKeeps
<1> QED
  BY <1>1, <1>3, <1>5, KeepingIsTransitive

(* A request that was just made.                                           *)
Fresh(w, f) ==
  /\ f = [wants |-> f.wants, answered |-> f.answered, answer |-> f.answer] /\ ~ f.answered
  /\ DOMAIN f.wants \subseteq Paths
  /\ \A p \in DOMAIN f.wants : f.wants[p] \in Nat /\ f.wants[p] <= w.epoch

LEMMA StartFetchKeeps ==
  ASSUME Sound(work), StartFetch
  PROVE  Keeps(work, work') /\ \A f \in fetches' : f \in fetches \/ Fresh(work', f)
<1>1. PICK n \in 1 .. Len(work.fetchQueue) :
        LET items == Range(SubSeq(work.fetchQueue, 1, n))
            alive == {t \in items : Wants(work, t.path, t.epoch)}
            wants == [p \in {t.path : t \in alive} |-> work.ops[p].epoch]
        IN  /\ work' = [work EXCEPT
                 !.fetchQueue = SubSeq(@, n + 1, Len(@)),
                 !.fetchQueued = [p \in Paths |-> IF \E t \in items : t.path = p THEN 0 ELSE @[p]],
                 !.inflight = [p \in Paths |-> IF p \in DOMAIN wants THEN wants[p] ELSE @[p]],
                 !.busy = @ + Cardinality(alive)]
            /\ fetches' = fetches \cup IF alive = {} THEN {}
                                       ELSE {[wants |-> wants, answered |-> FALSE,
                                              answer |-> [p \in {} |-> 0]]}
  BY DEF StartFetch
<1> DEFINE items == Range(SubSeq(work.fetchQueue, 1, n))
           alive == {t \in items : Wants(work, t.path, t.epoch)}
           wants == [p \in {t.path : t \in alive} |-> work.ops[p].epoch]
           queue == SubSeq(work.fetchQueue, n + 1, Len(work.fetchQueue))
           request == [wants |-> wants, answered |-> FALSE, answer |-> [p \in {} |-> 0]]
<1>2. /\ work.fetchQueue \in Seq(Tasks) /\ Len(work.fetchQueue) \in Nat
      /\ work.fetchQueue \in [1 .. Len(work.fetchQueue) -> Tasks]
  BY LenProperties DEF Sound, WorkTypes
<1>3. queue \in Seq(Tasks) /\ items \subseteq Tasks
  <2>1. SubSeq(work.fetchQueue, 1, n) \in Seq(Tasks)
    BY <1>2, SubSeqProperties
  <2>2. queue \in Seq(Tasks)
    <3>1. \A k \in n + 1 .. Len(work.fetchQueue) : work.fetchQueue[k] \in Tasks
      BY <1>2
    <3>2. n + 1 \in Nat
      OBVIOUS
    <3> QED
      BY <1>2, <3>1, <3>2, SubSeqProperties
  <2>3. SubSeq(work.fetchQueue, 1, n) \in
          [1 .. Len(SubSeq(work.fetchQueue, 1, n)) -> Tasks]
    BY <2>1, LenProperties
  <2> QED
    BY <2>2, <2>3 DEF Range
<1>4. PICK queued, inflight, busy :
        work' = [work EXCEPT !.fetchQueue = queue, !.fetchQueued = queued,
                             !.inflight = inflight, !.busy = busy]
  BY <1>1
<1>5. fetches' \subseteq fetches \cup {request}
  BY <1>1
<1> HIDE DEF queue
<1>6. /\ WorkShape(work') /\ work'.ops = work.ops /\ work'.queue = work.queue
      /\ work'.fetchQueue = queue /\ work'.ready = work.ready /\ work'.epoch = work.epoch
      /\ work'.shown = work.shown /\ work'.resync = work.resync /\ work'.wanted = work.wanted
      /\ work'.ahead = work.ahead /\ work'.tangled = work.tangled /\ work'.twinned = work.twinned
  BY <1>4 DEF Sound, WorkTypes, WorkShape
<1>7. WorkTypes(work') /\ \A p \in Paths : SameAt(work, work', p)
  BY <1>3, <1>6 DEF Sound, WorkTypes, SameAt
<1>8. Keeps(work, work')
  BY <1>6, <1>7, SameStaysSound, SameKeeps
<1>9. Fresh(work', request)
  <2>1. ASSUME NEW p \in DOMAIN wants
        PROVE  p \in Paths /\ wants[p] \in Nat /\ wants[p] <= work.epoch
    <3>1. PICK t \in alive : t.path = p
      OBVIOUS
    <3>2. p \in Paths /\ work.ops[p] # NoOp /\ wants[p] = work.ops[p].epoch
      BY <1>3, <3>1 DEF Tasks, Wants
    <3> HIDE DEF wants, alive
    <3>3. work.ops[p] \in Operations /\ work.ops[p].epoch <= work.epoch
      BY <3>2 DEF Sound, WorkTypes
    <3> QED
      BY <3>2, <3>3 DEF Operations
  <2> HIDE DEF wants
  <2> QED
    BY <1>6, <2>1 DEF Fresh
<1> QED
  BY <1>5, <1>8, <1>9

-----------------------------------------------------------------------------
(* Steps that leave the tree and the snapshots as they are.                *)
LEMMA TreeStands ==
  ASSUME UNCHANGED <<source, timeline>>
  PROVE  /\ HistoryInv => HistoryInv'
         /\ Served' = Served /\ Snapshots' = Snapshots /\ Trees' = Trees
         /\ \A p, at, sha : TellsHere(p, at, sha) => TellsHere(p, at, sha)'
         /\ \A p, at : TellsGone(p, at) => TellsGone(p, at)'
<1>1. Served' = Served /\ Snapshots' = Snapshots /\ Trees' = Trees
  BY DEF Served, Snapshots, Trees
<1>2. HistoryInv => HistoryInv'
  BY <1>1 DEF HistoryInv, ChangesTell
<1> QED
  BY <1>1, <1>2 DEF TellsHere, TellsGone

LEMMA SoundLasts ==
  ASSUME UNCHANGED <<source, timeline>>, Sound(work'),
         \A f \in fetches' : f \in fetches \/ Fresh(work', f)
  PROVE  Sound(work)'
<1>1. WorkTypes(work)'
  BY DEF Sound, WorkTypes, WorkShape
<1>2. FetchTypes(work)'
  BY DEF Sound, FetchTypes, Fresh
<1>3. ASSUME NEW p \in Paths PROVE SoundAt(work, p)'
  <2>1. SoundAt(work', p)
    BY DEF Sound
  <2>2. \A at : NotOlder(work', p, at) <=> NotOlder(work, p, at)'
    BY DEF NotOlder
  <2>3. ASSUME NEW f \in fetches', f.answered, p \in DOMAIN f.wants
        PROVE  AnswerIsSound(work, f, p)'
    <3>1. f \in fetches
      BY <2>3 DEF Fresh
    <3>2. AnswerIsSound(work', f, p)
      BY <2>1, <2>3, <3>1 DEF SoundAt
    <3>3. Wants(work', p, f.wants[p]) <=> Wants(work, p, f.wants[p])'
      BY DEF Wants
    <3> QED
      BY <2>2, <3>2, <3>3, TreeStands DEF AnswerIsSound
  <2> QED
    BY <2>1, <2>2, <2>3, TreeStands DEF SoundAt
<1> QED
  BY <1>1, <1>2, <1>3 DEF Sound

LEMMA StandingStep ==
  ASSUME PluginInv, UNCHANGED <<source, timeline>>, Sound(work'),
         \A f \in fetches' : f \in fetches \/ Fresh(work', f),
         LinkInv', FollowerInv', TravelInv',
         Believing' => \A p \in Paths : FollowsAt(work', p, follower'.last)
  PROVE  PluginInv'
<1>1. HistoryInv' /\ Snapshots' = Snapshots
  BY TreeStands DEF PluginInv
<1>2. Sound(work)'
  BY SoundLasts
<1>3. Believing' => \A p \in Paths : FollowsAt(work, p, follower.last)'
  BY <1>1 DEF FollowsAt, ShowsIn, OutOfStepIn
<1> QED
  BY <1>1, <1>2, <1>3 DEF PluginInv

LEMMA KeepingStep ==
  ASSUME PluginInv, UNCHANGED <<source, timeline>>, Keeps(work, work'),
         \A f \in fetches' : f \in fetches \/ Fresh(work', f),
         LinkInv', FollowerInv', TravelInv',
         follower'.last = follower.last, follower'.mixed = follower.mixed
  PROVE  PluginInv'
<1>1. ASSUME Believing', NEW p \in Paths PROVE FollowsAt(work', p, follower'.last)
  <2>1. Believing /\ ~ work'.resync
    BY <1>1 DEF Believing, Keeps
  <2>2. FollowsAt(work, p, follower.last) /\ follower.last \in Snapshots
    BY <2>1 DEF PluginInv, FollowerInv, Believing
  <2> QED
    BY <2>1, <2>2 DEF Keeps
<1> QED
  BY <1>1, StandingStep DEF Keeps

LEMMA TimelineFacts ==
  ASSUME HistoryInv
  PROVE  /\ Len(timeline) \in Nat \ {0}
         /\ \A i \in 1 .. Len(timeline) : timeline[i] \in Snapshots
<1>1. timeline \in [1 .. Len(timeline) -> TreeTypes] /\ Len(timeline) \in Nat \ {0}
  BY LenProperties, EmptySeq DEF HistoryInv
<1> QED
  BY <1>1 DEF Snapshots, Range

LEMMA WorkSteps ==
  ASSUME PluginInv,
         StartFetch \/ TakeFetch \/ FetchFails \/ BatchTooLarge \/ Apply \/ ApplyFails
  PROVE  PluginInv'
<1>1. /\ UNCHANGED <<source, timeline, link, follower, travel>>
      /\ Apply \/ ApplyFails => UNCHANGED fetches
  BY DEF StartFetch, TakeFetch, FetchFails, BatchTooLarge, Apply, ApplyFails
<1>2. LinkInv' /\ FollowerInv' /\ TravelInv'
  <2>1. Snapshots' = Snapshots
    BY <1>1, TreeStands
  <2> QED
    BY <1>1, <2>1 DEF PluginInv, LinkInv, FollowerInv, TravelInv
<1>3. Keeps(work, work') /\ \A f \in fetches' : f \in fetches \/ Fresh(work', f)
  BY <1>1, StartFetchKeeps, TakeFetchKeeps, FetchFailsKeeps, BatchTooLargeKeeps, ApplyKeeps,
     FailingKeeps DEF PluginInv
<1> QED
  BY <1>1, <1>2, <1>3, KeepingStep

-----------------------------------------------------------------------------
(* Steps of the client: what it asks for, and what it is told.             *)
LEMMA UnchangedKeeps == ASSUME Sound(work), UNCHANGED work PROVE Keeps(work, work')
  BY DEF Keeps

LEMMA AskForStep ==
  ASSUME PluginInv, NEW what \in {"snapshot", "diff"}, AskFor(what)
  PROVE  PluginInv'
<1>1. /\ UNCHANGED <<source, timeline, link, work, fetches, travel>>
      /\ follower' = [follower EXCEPT !.asks = what, !.base = follower.last, !.since = Len(timeline)]
      /\ what = "diff" => follower.last # Never
  BY DEF AskFor, Unsettled
<1>2. /\ follower' = [enabled |-> follower.enabled, last |-> follower.last, asks |-> what,
                      base |-> follower.last, since |-> Len(timeline), mixed |-> follower.mixed]
      /\ follower.last \in Snapshots \cup {Never}
  BY <1>1 DEF PluginInv, FollowerInv
<1>3. Len(timeline) \in 1 .. Len(timeline) /\ Snapshots' = Snapshots
  BY <1>1, TimelineFacts, TreeStands DEF PluginInv
<1>4. LinkInv' /\ FollowerInv' /\ TravelInv'
  <2>1. FollowerInv'
    BY <1>1, <1>2, <1>3 DEF FollowerInv
  <2> QED
    BY <1>1, <2>1 DEF PluginInv, LinkInv, TravelInv
<1>5. Keeps(work, work')
  BY <1>1, UnchangedKeeps DEF PluginInv
<1>6. follower'.last = follower.last /\ follower'.mixed = follower.mixed
  BY <1>2
<1> QED
  BY <1>1, <1>4, <1>5, <1>6, KeepingStep

(* The answer is over, whatever was asked.                                 *)
LEMMA AnsweredIs ==
  ASSUME FollowerInv, NEW last, NEW mixed
  PROVE  /\ [Answered EXCEPT !.last = last, !.mixed = mixed] =
              [enabled |-> follower.enabled, last |-> last, asks |-> "none",
               base |-> Never, since |-> 0, mixed |-> mixed]
         /\ Answered = [enabled |-> follower.enabled, last |-> follower.last, asks |-> "none",
                        base |-> Never, since |-> 0, mixed |-> follower.mixed]
<1> DEFINE f == Answered
           g == [f EXCEPT !.last = last, !.mixed = mixed]
<1>1. f = [follower EXCEPT !.asks = "none", !.base = Never, !.since = 0]
  BY DEF Answered
<1> HIDE DEF f
<1>2. f = [enabled |-> follower.enabled, last |-> follower.last, asks |-> "none",
           base |-> Never, since |-> 0, mixed |-> follower.mixed]
  BY <1>1 DEF FollowerInv
<1>3. g = [f EXCEPT !.last = last, !.mixed = mixed]
  OBVIOUS
<1> HIDE DEF g
<1>4. g = [enabled |-> follower.enabled, last |-> last, asks |-> "none",
           base |-> Never, since |-> 0, mixed |-> mixed]
  BY <1>2, <1>3
<1> QED
  BY <1>2, <1>4 DEF f, g

LEMMA AnsweredIsTyped ==
  ASSUME FollowerInv, UNCHANGED timeline, NEW last \in Snapshots \cup {Never}, NEW mixed,
         follower' = [enabled |-> follower.enabled, last |-> last, asks |-> "none",
                      base |-> Never, since |-> 0, mixed |-> mixed]
  PROVE  FollowerInv' /\ follower'.last = last /\ follower'.mixed = mixed
<1>1. Snapshots' = Snapshots
  BY DEF Snapshots
<1> QED
  BY <1>1 DEF FollowerInv

LEMMA SnapshotAnswerStep ==
  ASSUME PluginInv, TakeSnapshotAnswer
  PROVE  PluginInv'
<1>1. PICK i \in follower.since .. Len(timeline) :
        /\ work' = [ReconcileSnapshot(work, timeline[i]) EXCEPT !.resync = FALSE]
        /\ follower' = [Answered EXCEPT !.last = timeline[i], !.mixed = FALSE]
  BY DEF TakeSnapshotAnswer
<1>2. UNCHANGED <<source, timeline, link, fetches, travel>> /\ follower.asks = "snapshot"
  BY DEF TakeSnapshotAnswer
<1>3. HistoryInv /\ Sound(work) /\ FollowerInv
  BY DEF PluginInv
<1>4. timeline[i] \in Snapshots
  <2>1. follower.since \in 1 .. Len(timeline)
    BY <1>2, <1>3 DEF FollowerInv
  <2>2. i \in 1 .. Len(timeline)
    BY <1>3, <2>1, TimelineFacts
  <2> QED
    BY <1>3, <2>2, TimelineFacts
<1> DEFINE tree == timeline[i]
           r == ReconcileSnapshot(work, tree)
           s == [r EXCEPT !.resync = FALSE]
<1>5. Sound(r) /\ \A p \in Paths : FollowsAt(r, p, tree)
  BY <1>3, <1>4, ResyncFollows
<1>6. work' = s /\ follower' = [Answered EXCEPT !.last = tree, !.mixed = FALSE]
      /\ tree \in Snapshots
  BY <1>1, <1>4
<1> HIDE DEF r, tree
<1>7. Sound(s) /\ \A p \in Paths : SameAt(r, s, p)
  BY <1>5, AskingForResyncIsSame
<1> HIDE DEF s
<1>8. \A p \in Paths : FollowsAt(s, p, tree)
  BY <1>5, <1>7, SameFollows
<1>9. FollowerInv' /\ follower'.last = tree
  <2>1. follower' = [enabled |-> follower.enabled, last |-> tree, asks |-> "none",
                     base |-> Never, since |-> 0, mixed |-> FALSE]
    BY <1>3, <1>6, AnsweredIs
  <2>2. tree \in Snapshots \cup {Never}
    BY <1>6
  <2> QED
    BY <1>2, <1>3, <2>1, <2>2, AnsweredIsTyped
<1>10. LinkInv' /\ TravelInv'
  BY <1>2 DEF PluginInv, LinkInv, TravelInv
<1> QED
  BY <1>2, <1>6, <1>7, <1>8, <1>9, <1>10, StandingStep

(* A diff is followed if its base is what the plugin had when it came.     *)
LEMMA BelievingBefore ==
  ASSUME PluginInv, UNCHANGED work \/ work'.resync = work.resync,
         NEW base \in Snapshots,
         follower'.mixed = (follower.mixed \/ base # follower.last), Believing', NEW p \in Paths
  PROVE  FollowsAt(work, p, base)
<1>1. ~ follower.mixed /\ base = follower.last
  BY DEF Believing
<1>2. base # Never
  <2>1. base.at[p] \in Nat
    BY TreeFacts DEF PluginInv, Trees
  <2>2. Never.at[p] = -1
    BY DEF Never
  <2> QED
    BY <2>1, <2>2
<1>3. Believing
  BY <1>1, <1>2 DEF Believing
<1> QED
  BY <1>1, <1>3 DEF PluginInv

LEMMA DiffAnswerStep ==
  ASSUME PluginInv, TakeDiffAnswer
  PROVE  PluginInv'
<1>1. PICK i \in follower.since .. Len(timeline) :
        IF timeline[i].files = follower.base.files
          THEN follower' = Answered /\ UNCHANGED work
          ELSE /\ work' = StageDiff(work, follower.base, timeline[i])
               /\ follower' = [Answered EXCEPT !.last = timeline[i],
                                 !.mixed = @ \/ follower.base # follower.last]
  BY DEF TakeDiffAnswer
<1>2. UNCHANGED <<source, timeline, link, fetches, travel>> /\ follower.asks = "diff"
  BY DEF TakeDiffAnswer
<1>3. HistoryInv /\ Sound(work) /\ FollowerInv /\ LinkInv' /\ TravelInv'
  BY <1>2 DEF PluginInv, LinkInv, TravelInv
<1>4. timeline[i] \in Snapshots /\ follower.base \in Snapshots
      /\ follower.last \in Snapshots \cup {Never}
  <2>1. follower.since \in 1 .. Len(timeline) /\ follower.base \in Snapshots
        /\ follower.last \in Snapshots \cup {Never}
    BY <1>2, <1>3 DEF FollowerInv
  <2>2. i \in 1 .. Len(timeline)
    BY <1>3, <2>1, TimelineFacts
  <2> QED
    BY <1>3, <2>1, <2>2, TimelineFacts
<1> DEFINE tree == timeline[i]
           base == follower.base
<1>5. Answered = [enabled |-> follower.enabled, last |-> follower.last, asks |-> "none",
                  base |-> Never, since |-> 0, mixed |-> follower.mixed]
  BY <1>3, AnsweredIs
<1>6. CASE tree.files = base.files
  <2>1. follower' = Answered /\ UNCHANGED work
    BY <1>1, <1>6
  <2>2. FollowerInv' /\ follower'.last = follower.last /\ follower'.mixed = follower.mixed
    BY <1>2, <1>3, <1>4, <1>5, <2>1, AnsweredIsTyped
  <2>3. Keeps(work, work')
    BY <1>3, <2>1, UnchangedKeeps
  <2> QED
    BY <1>2, <1>3, <2>2, <2>3, KeepingStep
<1>7. CASE tree.files # base.files
  <2> DEFINE mixed == follower.mixed \/ base # follower.last
             r == StageDiff(work, base, tree)
  <2>1. work' = r /\ follower' = [Answered EXCEPT !.last = tree, !.mixed = mixed]
    <3>1. Answered.mixed = follower.mixed
      BY <1>5
    <3> QED
      BY <1>1, <1>7, <3>1
  <2>2. FollowerInv' /\ follower'.last = tree /\ follower'.mixed = mixed
    <3> HIDE DEF mixed, tree
    <3>1. follower' = [enabled |-> follower.enabled, last |-> tree, asks |-> "none",
                       base |-> Never, since |-> 0, mixed |-> mixed]
      BY <1>3, <2>1, AnsweredIs
    <3>2. tree \in Snapshots \cup {Never}
      BY <1>4 DEF tree
    <3> QED
      BY <1>2, <1>3, <3>1, <3>2, AnsweredIsTyped
  <2>3. Staged(work, r, Touched(DiffSnapshots(base.files, tree.files)), tree)
    BY <1>3, <1>4, DiffStages
  <2> HIDE DEF r
  <2>4. Sound(work') /\ work'.resync = work.resync
    BY <2>1, <2>3 DEF Staged
  <2>5. ASSUME Believing', NEW p \in Paths PROVE FollowsAt(work', p, follower'.last)
    <3>1. FollowsAt(work, p, base)
      BY <1>4, <2>2, <2>4, <2>5, BelievingBefore
    <3> QED
      BY <1>3, <1>4, <2>1, <2>2, <2>3, <3>1, DiffIsFollowed
  <2> QED
    BY <1>2, <1>3, <2>2, <2>4, <2>5, StandingStep
<1> QED
  BY <1>6, <1>7

LEMMA HearEventStep ==
  ASSUME PluginInv, HearEvent
  PROVE  PluginInv'
<1> DEFINE i == Head(link.events)
           base == timeline[i - 1]
           tree == timeline[i]
           mixed == follower.mixed \/ base # follower.last
           r == StageEvent(work, base, tree)
<1>1. /\ link.events # << >> /\ work' = r /\ link' = [link EXCEPT !.events = Tail(@)]
      /\ UNCHANGED <<source, timeline, fetches, travel>>
      /\ follower' = [follower EXCEPT !.last = tree, !.mixed = @ \/ follower.last # base]
  BY DEF HearEvent
<1>2. HistoryInv /\ Sound(work) /\ FollowerInv /\ LinkInv /\ TravelInv'
  BY <1>1 DEF PluginInv, TravelInv
<1>3. i \in 2 .. Len(timeline) /\ Tail(link.events) \in Seq(2 .. Len(timeline))
  BY <1>1, <1>2, HeadTailProperties DEF LinkInv
<1>4. base \in Snapshots /\ tree \in Snapshots
  BY <1>2, <1>3, TimelineFacts
<1>5. LinkInv'
  <2>1. link' = [open |-> link.open, events |-> Tail(link.events)]
    BY <1>1, <1>2 DEF LinkInv
  <2> QED
    BY <1>1, <1>3, <2>1 DEF LinkInv
<1>6. FollowerInv' /\ follower'.last = tree /\ follower'.mixed = mixed
  <2>1. follower' = [follower EXCEPT !.last = tree, !.mixed = mixed]
    BY <1>1
  <2>2. Snapshots' = Snapshots
    BY <1>1, TreeStands
  <2> HIDE DEF mixed, tree
  <2>3. follower' = [enabled |-> follower.enabled, last |-> tree, asks |-> follower.asks,
                     base |-> follower.base, since |-> follower.since, mixed |-> mixed]
    BY <1>2, <2>1 DEF FollowerInv
  <2>4. tree \in Snapshots
    BY <1>4 DEF tree
  <2>5. /\ follower' = [enabled |-> follower'.enabled, last |-> follower'.last,
                      asks |-> follower'.asks, base |-> follower'.base,
                      since |-> follower'.since, mixed |-> follower'.mixed]
        /\ follower'.last = tree /\ follower'.asks = follower.asks
        /\ follower'.base = follower.base /\ follower'.since = follower.since
        /\ follower'.mixed = mixed
    BY <2>3
  <2>6. /\ follower.asks = "diff" => follower.base \in Snapshots
        /\ follower.asks # "none" => follower.since \in 1 .. Len(timeline)
    BY <1>2 DEF FollowerInv
  <2> QED
    BY <1>1, <2>2, <2>4, <2>5, <2>6 DEF FollowerInv
<1>7. Staged(work, r, Touched(DiffSnapshots(base.files, tree.files)), tree)
  BY <1>2, <1>4, DiffStages
<1> HIDE DEF r
<1>8. Sound(work') /\ work'.resync = work.resync
  BY <1>1, <1>7 DEF Staged
<1>9. ASSUME Believing', NEW p \in Paths PROVE FollowsAt(work', p, follower'.last)
  <2>1. FollowsAt(work, p, base)
    BY <1>4, <1>6, <1>8, <1>9, BelievingBefore
  <2> QED
    BY <1>1, <1>2, <1>4, <1>6, <1>7, <2>1, DiffIsFollowed
<1> QED
  BY <1>1, <1>2, <1>5, <1>6, <1>8, <1>9, StandingStep

LEMMA ResyncKeeps ==
  ASSUME Sound(work), NEW b, work' = [work EXCEPT !.resync = b], ~ b => ~ work.resync
  PROVE  Keeps(work, work')
<1> DEFINE r == [work EXCEPT !.resync = b]
<1>1. Sound(r) /\ r.resync = b /\ \A p \in Paths : SameAt(work, r, p)
  BY AskingForResyncIsSame
<1>2. work' = r
  OBVIOUS
<1> HIDE DEF r
<1> QED
  BY <1>1, <1>2, SameKeeps

LEMMA RequestFailsStep ==
  ASSUME PluginInv, RequestFails
  PROVE  PluginInv'
<1>1. /\ UNCHANGED <<source, timeline, link, fetches, travel>> /\ follower' = Answered
      /\ work' = work \/ work' = [work EXCEPT !.resync = TRUE]
  BY DEF RequestFails
<1>2. Sound(work) /\ FollowerInv /\ LinkInv' /\ TravelInv'
  BY <1>1 DEF PluginInv, LinkInv, TravelInv
<1>3. FollowerInv' /\ follower'.last = follower.last /\ follower'.mixed = follower.mixed
  <2>1. follower.last \in Snapshots \cup {Never}
    BY <1>2 DEF FollowerInv
  <2>2. follower' = [enabled |-> follower.enabled, last |-> follower.last, asks |-> "none",
                     base |-> Never, since |-> 0, mixed |-> follower.mixed]
    BY <1>1, <1>2, AnsweredIs
  <2> QED
    BY <1>1, <1>2, <2>1, <2>2, AnsweredIsTyped
<1>4. Keeps(work, work')
  BY <1>1, <1>2, UnchangedKeeps, ResyncKeeps
<1> QED
  BY <1>1, <1>2, <1>3, <1>4, KeepingStep

LEMMA SocketSteps ==
  ASSUME PluginInv, OpenSocket \/ FallBehind \/ CloseSocket
  PROVE  PluginInv'
<1>1. /\ UNCHANGED <<source, timeline, fetches, travel, follower>>
      /\ \E open : link' = [open |-> open, events |-> << >>]
  <2>1. FallBehind => link' = [open |-> link.open, events |-> << >>]
    BY DEF FallBehind, PluginInv, LinkInv
  <2> QED
    BY <2>1 DEF OpenSocket, FallBehind, CloseSocket
<1>2. LinkInv' /\ FollowerInv' /\ TravelInv'
  <2>1. Snapshots' = Snapshots
    BY <1>1, TreeStands
  <2>2. LinkInv'
    BY <1>1 DEF LinkInv
  <2> QED
    BY <1>1, <2>1, <2>2 DEF PluginInv, FollowerInv, TravelInv
<1>3. Keeps(work, work')
  <2>1. Sound(work)
    BY DEF PluginInv
  <2>2. CASE OpenSocket
    <3> DEFINE b == work.resync \/ follower.last.files # Served.files
    <3>1. work' = [work EXCEPT !.resync = b]
      BY <2>2 DEF OpenSocket
    <3>2. ~ b => ~ work.resync
      OBVIOUS
    <3> HIDE DEF b
    <3> QED
      BY <2>1, <3>1, <3>2, ResyncKeeps
  <2>3. CASE FallBehind
    BY <2>1, <2>3, ResyncKeeps DEF FallBehind
  <2>4. CASE CloseSocket
    BY <2>1, <2>4, UnchangedKeeps DEF CloseSocket
  <2> QED
    BY <2>2, <2>3, <2>4
<1> QED
  BY <1>1, <1>2, <1>3, KeepingStep

-----------------------------------------------------------------------------
(* Time travel.                                                            *)
Travels(t) ==
  /\ t = [active |-> t.active, at |-> t.at, index |-> t.index,
          target |-> t.target, next |-> t.next, back |-> t.back]
  /\ t.at = "asked" => t.target \in 1 .. Len(timeline)
  /\ t.next \in 0 .. Len(timeline)

LEMMA SwitchingIsTyped ==
  ASSUME FollowerInv, UNCHANGED timeline, NEW b, follower' = [follower EXCEPT !.enabled = b]
  PROVE  FollowerInv' /\ follower'.last = follower.last /\ follower'.mixed = follower.mixed
<1>1. follower' = [enabled |-> b, last |-> follower.last, asks |-> follower.asks,
                   base |-> follower.base, since |-> follower.since, mixed |-> follower.mixed]
  BY DEF FollowerInv
<1>2. /\ follower' = [enabled |-> follower'.enabled, last |-> follower'.last,
                      asks |-> follower'.asks, base |-> follower'.base,
                      since |-> follower'.since, mixed |-> follower'.mixed]
      /\ follower'.last = follower.last /\ follower'.asks = follower.asks
      /\ follower'.base = follower.base /\ follower'.since = follower.since
      /\ follower'.mixed = follower.mixed
  BY <1>1
<1>3. Snapshots' = Snapshots
  BY DEF Snapshots
<1> QED
  BY <1>2, <1>3 DEF FollowerInv

LEMMA GoingStep ==
  ASSUME PluginInv, UNCHANGED <<source, timeline, link, fetches>>, NEW t, Travels(t),
         (\E i \in 1 .. Len(timeline) : GoTo(t, i)) \/ GoLive(t)
  PROVE  PluginInv'
<1>1. \/ \E i \in 1 .. Len(timeline) : travel' = RewindToIndex(t, i)
      \/ travel' = ResumeLiveSync(t)
  BY DEF GoTo, GoLive
<1>2. \/ UNCHANGED follower
      \/ \E b : follower' = [follower EXCEPT !.enabled = b]
  BY DEF GoTo, GoLive
<1>3. work' = work \/ work' = [work EXCEPT !.resync = TRUE]
  BY DEF GoTo, GoLive
<1>4. Sound(work) /\ FollowerInv /\ LinkInv' /\ Snapshots' = Snapshots
  BY TreeStands DEF PluginInv, LinkInv
<1>5. Keeps(work, work')
  BY <1>3, <1>4, UnchangedKeeps, ResyncKeeps
<1>6. FollowerInv' /\ follower'.last = follower.last /\ follower'.mixed = follower.mixed
  <2>1. CASE UNCHANGED follower
    BY <1>4, <2>1 DEF FollowerInv
  <2> QED
    BY <1>2, <1>4, <2>1, SwitchingIsTyped
<1>7. Len(timeline) \in Nat
  BY TimelineFacts DEF PluginInv
<1>8. TravelInv'
  <2>1. CASE \E i \in 1 .. Len(timeline) : travel' = RewindToIndex(t, i)
    <3>1. PICK i \in 1 .. Len(timeline) : travel' = RewindToIndex(t, i)
      BY <2>1
    <3>2. CASE t.at # "idle"
      <4>1. travel' = [active |-> t.active, at |-> t.at, index |-> t.index,
                       target |-> t.target, next |-> i, back |-> FALSE]
        BY <3>1, <3>2 DEF RewindToIndex, Travels
      <4> QED
        BY <1>7, <4>1 DEF Travels, TravelInv
    <3>3. CASE t.at = "idle" /\ t.active /\ t.index = i
      BY <1>7, <3>1, <3>3 DEF RewindToIndex, Travels, TravelInv
    <3>4. CASE t.at = "idle" /\ ~ (t.active /\ t.index = i)
      BY <1>7, <3>1, <3>4 DEF RewindToIndex, Travels, TravelInv
    <3> QED
      BY <3>2, <3>3, <3>4
  <2>2. CASE travel' = ResumeLiveSync(t)
    <3>1. CASE t.at # "idle"
      <4>1. travel' = [active |-> t.active, at |-> t.at, index |-> t.index,
                       target |-> t.target, next |-> 0, back |-> TRUE]
        BY <2>2, <3>1 DEF ResumeLiveSync, Travels
      <4> QED
        BY <1>7, <4>1 DEF Travels, TravelInv
    <3>2. CASE t.at = "idle"
      <4>1. travel' = [active |-> FALSE, at |-> t.at, index |-> 0,
                       target |-> t.target, next |-> 0, back |-> FALSE]
        BY <2>2, <3>2 DEF ResumeLiveSync, Travels
      <4> QED
        BY <1>7, <3>2, <4>1 DEF Travels, TravelInv
    <3> QED
      BY <3>1, <3>2
  <2> QED
    BY <1>1, <2>1, <2>2
<1> QED
  BY <1>4, <1>5, <1>6, <1>8, KeepingStep

LEMMA ClickSteps ==
  ASSUME PluginInv, ClickHistory \/ ClickLive \/ ToggleSync
  PROVE  PluginInv'
<1>1. UNCHANGED <<source, timeline, link, fetches>>
  BY DEF ClickHistory, ClickLive, ToggleSync, Click
<1>2. CASE ClickHistory \/ ClickLive
  <2>1. Travels(travel)
    BY DEF PluginInv, TravelInv, Travels
  <2> QED
    BY <1>1, <1>2, <2>1, GoingStep DEF ClickHistory, ClickLive
<1>3. CASE ToggleSync
  <2> DEFINE b == work.resync \/ ~ follower.enabled
  <2>1. /\ follower' = [follower EXCEPT !.enabled = ~ follower.enabled] /\ UNCHANGED travel
        /\ work' = [work EXCEPT !.resync = b]
    BY <1>3 DEF ToggleSync
  <2>2. FollowerInv' /\ follower'.last = follower.last /\ follower'.mixed = follower.mixed
    BY <1>1, <2>1, SwitchingIsTyped DEF PluginInv
  <2>3. ~ b => ~ work.resync
    OBVIOUS
  <2> HIDE DEF b
  <2>4. Keeps(work, work')
    BY <2>1, <2>3, ResyncKeeps DEF PluginInv
  <2>5. LinkInv' /\ TravelInv'
    BY <1>1, <2>1 DEF PluginInv, LinkInv, TravelInv
  <2> QED
    BY <1>1, <2>2, <2>4, <2>5, KeepingStep
<1> QED
  BY <1>2, <1>3

LEMMA RewindAnsweredStep ==
  ASSUME PluginInv, RewindAnswered
  PROVE  PluginInv'
<1> DEFINE tree == timeline[travel.target]
           r == ReconcileSnapshot(work, tree)
<1>1. /\ UNCHANGED <<source, timeline, link, fetches>> /\ travel.at = "asked" /\ work' = r
      /\ follower' = [follower EXCEPT !.last = tree, !.mixed = FALSE]
      /\ travel' = [travel EXCEPT !.at = "draining", !.index = travel.target]
  BY DEF RewindAnswered, Aside
<1>2. HistoryInv /\ Sound(work) /\ FollowerInv /\ TravelInv /\ LinkInv' /\ Snapshots' = Snapshots
  BY <1>1, TreeStands DEF PluginInv, LinkInv
<1>3. tree \in Snapshots
  BY <1>1, <1>2, TimelineFacts DEF TravelInv
<1>4. Sound(r) /\ r.resync = work.resync /\ \A p \in Paths : FollowsAt(r, p, tree)
  BY <1>2, <1>3, ResyncFollows
<1> HIDE DEF r, tree
<1>5. TravelInv'
  BY <1>1, <1>2 DEF TravelInv
<1>6. FollowerInv' /\ follower'.last = tree
  <2>1. follower' = [enabled |-> follower.enabled, last |-> tree, asks |-> follower.asks,
                     base |-> follower.base, since |-> follower.since, mixed |-> FALSE]
    BY <1>1, <1>2 DEF FollowerInv
  <2>2. /\ follower' = [enabled |-> follower'.enabled, last |-> follower'.last,
                      asks |-> follower'.asks, base |-> follower'.base,
                      since |-> follower'.since, mixed |-> follower'.mixed]
        /\ follower'.last = tree /\ follower'.asks = follower.asks
        /\ follower'.base = follower.base /\ follower'.since = follower.since
    BY <2>1
  <2>3. /\ follower.asks = "diff" => follower.base \in Snapshots
        /\ follower.asks # "none" => follower.since \in 1 .. Len(timeline)
    BY <1>2 DEF FollowerInv
  <2> QED
    BY <1>1, <1>2, <1>3, <2>2, <2>3 DEF FollowerInv
<1> QED
  BY <1>1, <1>2, <1>4, <1>5, <1>6, StandingStep

LEMMA RewindSteps ==
  ASSUME PluginInv, RewindEnds \/ RewindFails
  PROVE  PluginInv'
<1>1. UNCHANGED <<source, timeline, link, fetches>>
  BY DEF RewindEnds, RewindFails, Aside
<1>2. /\ HistoryInv /\ Sound(work) /\ FollowerInv /\ TravelInv /\ LinkInv'
      /\ Snapshots' = Snapshots /\ Len(timeline) \in Nat
  BY <1>1, TreeStands, TimelineFacts DEF PluginInv, LinkInv
<1>3. CASE RewindFails
  <2>1. /\ travel' = [travel EXCEPT !.at = "idle", !.active = FALSE] /\ UNCHANGED work
        /\ follower' = [follower EXCEPT !.enabled = TRUE]
    BY <1>3 DEF RewindFails
  <2>2. TravelInv'
    BY <1>1, <1>2, <2>1 DEF TravelInv
  <2>3. FollowerInv' /\ follower'.last = follower.last /\ follower'.mixed = follower.mixed
    BY <1>1, <1>2, <2>1, SwitchingIsTyped
  <2>4. Keeps(work, work')
    BY <1>2, <2>1, UnchangedKeeps
  <2> QED
    BY <1>1, <1>2, <2>2, <2>3, <2>4, KeepingStep
<1>4. CASE RewindEnds
  <2> DEFINE t == [travel EXCEPT !.at = "idle", !.back = FALSE, !.next = 0]
  <2>1. IF travel.back THEN GoLive(t)
        ELSE IF travel.next # 0 THEN GoTo(t, travel.next)
        ELSE travel' = t /\ UNCHANGED <<follower, work>>
    BY <1>4 DEF RewindEnds
  <2>2. Travels(t)
    <3>1. t = [travel EXCEPT !.at = "idle", !.back = FALSE, !.next = 0]
      OBVIOUS
    <3> HIDE DEF t
    <3>2. t = [active |-> travel.active, at |-> "idle", index |-> travel.index,
               target |-> travel.target, next |-> 0, back |-> FALSE]
      BY <1>2, <3>1 DEF TravelInv
    <3> QED
      BY <1>2, <3>2 DEF Travels
  <2>3. travel.next # 0 => travel.next \in 1 .. Len(timeline)
    BY <1>2 DEF TravelInv
  <2> HIDE DEF t
  <2>4. CASE travel.back \/ travel.next # 0
    BY <1>1, <2>1, <2>2, <2>3, <2>4, GoingStep
  <2>5. CASE ~ travel.back /\ travel.next = 0
    <3>1. travel' = t /\ UNCHANGED <<follower, work>>
      BY <2>1, <2>5
    <3>2. TravelInv'
      BY <1>1, <2>2, <3>1 DEF Travels, TravelInv
    <3>3. FollowerInv'
      BY <1>1, <1>2, <3>1 DEF FollowerInv
    <3> QED
      BY <1>1, <1>2, <3>1, <3>2, <3>3, UnchangedKeeps, KeepingStep
  <2> QED
    BY <2>4, <2>5
<1> QED
  BY <1>3, <1>4

-----------------------------------------------------------------------------
(* The tree changes, is served, and is read.                               *)
LEMMA SoundGrows ==
  ASSUME Sound(work), UNCHANGED <<work, fetches>>,
         \A p \in Paths : /\ Served.at[p] \in Nat /\ Served'.at[p] \in Nat
                          /\ Served.at[p] <= Served'.at[p],
         \A p \in Paths : \A at, sha : TellsHere(p, at, sha) => TellsHere(p, at, sha)',
         \A p \in Paths : \A at : TellsGone(p, at) => TellsGone(p, at)'
  PROVE  Sound(work)'
<1>1. WorkTypes(work)' /\ FetchTypes(work)'
  BY DEF Sound, WorkTypes, WorkShape, FetchTypes
<1>2. ASSUME NEW p \in Paths PROVE SoundAt(work, p)'
  <2>1. SoundAt(work, p)
    BY DEF Sound
  <2>2. \A at : NotOlder(work, p, at) <=> NotOlder(work, p, at)'
    BY DEF NotOlder
  <2>3. ASSUME NEW f \in fetches, f.answered, p \in DOMAIN f.wants
        PROVE  AnswerIsSound(work, f, p)'
    <3>1. AnswerIsSound(work, f, p)
      BY <2>1, <2>3 DEF SoundAt
    <3>2. Wants(work, p, f.wants[p]) <=> Wants(work, p, f.wants[p])'
      BY DEF Wants
    <3> QED
      BY <2>2, <3>1, <3>2 DEF AnswerIsSound
  <2>4. work.wanted[p] <= Served'.at[p]
    <3>1. work.wanted[p] \in Int /\ work.wanted[p] <= Served.at[p]
      BY <2>1 DEF Sound, WorkTypes, SoundAt
    <3> QED
      BY <3>1
  <2> QED
    BY <2>1, <2>2, <2>3, <2>4 DEF SoundAt
<1> QED
  BY <1>1, <1>2 DEF Sound

LEMMA FollowingGrows ==
  ASSUME PluginInv, UNCHANGED <<work, follower>>, Snapshots \subseteq Snapshots'
  PROVE  Believing' => \A p \in Paths : FollowsAt(work, p, follower.last)'
<1>1. Believing' => Believing
  BY DEF Believing
<1> QED
  BY <1>1 DEF PluginInv, FollowsAt, ShowsIn, OutOfStepIn

LEMMA ChangeTreeStep ==
  ASSUME PluginInv, NEW S \in SUBSET Paths, NEW files \in [S -> Sources], ChangeTree(files)
  PROVE  PluginInv'
<1>1. PICK n \in 1 .. MaxWrites :
        /\ \A p \in Paths : source.at[p] < n
        /\ source' = [files |-> files,
                      at |-> [p \in Paths |->
                                IF Alike(files, source.files, p) THEN source.at[p] ELSE n]]
        /\ UNCHANGED <<timeline, link, follower, work, fetches, travel, losses, clicks, wish>>
  BY DEF ChangeTree
<1>2. /\ HistoryInv /\ Sound(work) /\ n \in Nat
      /\ Served' = Served /\ Snapshots' = Snapshots
  BY <1>1, ApplyAssumption DEF PluginInv, Served, Snapshots
<1>3. /\ Served \in Snapshots
      /\ \A T \in Trees : /\ T.at \in [Paths -> Nat]
                          /\ \A p \in Paths : T.at[p] <= source.at[p]
  BY <1>2, TreeFacts
<1>4. source'.files = files /\ source' \in TreeTypes
  <2> DEFINE at == [p \in Paths |-> IF Alike(files, source.files, p) THEN source.at[p] ELSE n]
  <2>1. at \in [Paths -> Nat]
    BY <1>2, <1>3 DEF Trees
  <2> HIDE DEF at
  <2>2. source' = [files |-> files, at |-> at]
    BY <1>1 DEF at
  <2> QED
    BY <2>1, <2>2 DEF TreeTypes
<1>5. ASSUME NEW p \in Paths
      PROVE  /\ source.at[p] \in Nat /\ source'.at[p] \in Nat /\ source.at[p] <= source'.at[p]
             /\ \/ source'.at[p] = source.at[p] /\ Alike(source'.files, source.files, p)
                \/ source'.at[p] > source.at[p]
  <2>1. source'.at[p] = IF Alike(files, source.files, p) THEN source.at[p] ELSE n
    BY <1>1
  <2>2. source.at[p] \in Nat /\ source.at[p] < n
    BY <1>1, <1>3 DEF Trees
  <2> QED
    BY <1>2, <1>4, <2>1, <2>2
(* A snapshot that has what the new tree says has what the old one said.   *)
<1>6. ASSUME NEW p \in Paths, NEW at \in Nat, at <= source.at[p], source'.at[p] = at
      PROVE  source.at[p] = at /\ Alike(source'.files, source.files, p)
  BY <1>5, <1>6
<1>7. HistoryInv'
  <2>1. ASSUME NEW T \in Snapshots, NEW p \in Paths
        PROVE  T.at[p] <= Served.at[p] /\ Served.at[p] <= source'.at[p]
    <3>1. T.at[p] <= Served.at[p] /\ Served.at[p] <= source.at[p] /\ Served.at[p] \in Nat
      BY <1>2, <1>3 DEF HistoryInv, Trees
    <3> QED
      BY <1>5, <3>1
  <2>2. ASSUME NEW T \in Snapshots, NEW p \in Paths, T.at[p] = source'.at[p]
        PROVE  Alike(T.files, source'.files, p)
    <3>1. source.at[p] = T.at[p] /\ Alike(source'.files, source.files, p)
      BY <1>3, <1>6, <2>2 DEF Trees
    <3>2. Alike(T.files, source.files, p)
      BY <1>2, <3>1 DEF HistoryInv, ChangesTell, Trees
    <3> QED
      BY <3>1, <3>2 DEF Alike
  <2>3. ChangesTell'
    <3>1. \A T, U \in Snapshots : \A p \in Paths : T.at[p] = U.at[p] => Alike(T.files, U.files, p)
      BY <1>2 DEF HistoryInv, ChangesTell, Trees
    <3>2. \A T \in Snapshots : \A p \in Paths :
            source'.at[p] = T.at[p] => Alike(source'.files, T.files, p)
      BY <2>2 DEF Alike
    <3>3. \A p \in Paths : Alike(source'.files, source'.files, p)
      BY DEF Alike
    <3>4. Trees' = Snapshots \cup {source'}
      BY <1>2 DEF Trees
    <3> QED
      BY <2>2, <3>1, <3>2, <3>3, <3>4 DEF ChangesTell
  <2> QED
    BY <1>1, <1>2, <1>4, <2>1, <2>3 DEF HistoryInv
<1>8. Sound(work)'
  <2>1. ASSUME NEW p \in Paths, NEW at, NEW sha, TellsHere(p, at, sha)
        PROVE  TellsHere(p, at, sha)'
    <3>1. at \in Nat /\ at <= source'.at[p]
      BY <1>5, <2>1 DEF TellsHere
    <3>2. ASSUME NEW T \in Trees', T.at[p] = at PROVE p \in DOMAIN T.files /\ T.files[p] = sha
      <4>1. CASE T \in Snapshots
        BY <2>1, <3>2, <4>1 DEF TellsHere, Trees
      <4>2. CASE T = source'
        <5>1. source.at[p] = at /\ Alike(source'.files, source.files, p)
          BY <1>6, <2>1, <3>2, <4>2 DEF TellsHere
        <5> QED
          BY <2>1, <4>2, <5>1 DEF TellsHere, Trees, Alike
      <4> QED
        BY <1>2, <4>1, <4>2 DEF Trees
    <3> QED
      BY <3>1, <3>2 DEF TellsHere
  <2>2. ASSUME NEW p \in Paths, NEW at, TellsGone(p, at)
        PROVE  TellsGone(p, at)'
    <3>1. at \in Nat /\ at <= source'.at[p]
      BY <1>5, <2>2 DEF TellsGone
    <3>2. ASSUME NEW T \in Trees', T.at[p] = at PROVE p \notin DOMAIN T.files
      <4>1. CASE T \in Snapshots
        BY <2>2, <3>2, <4>1 DEF TellsGone, Trees
      <4>2. CASE T = source'
        <5>1. source.at[p] = at /\ Alike(source'.files, source.files, p)
          BY <1>6, <2>2, <3>2, <4>2 DEF TellsGone
        <5> QED
          BY <2>2, <4>2, <5>1 DEF TellsGone, Trees, Alike
      <4> QED
        BY <1>2, <4>1, <4>2 DEF Trees
    <3> QED
      BY <3>1, <3>2 DEF TellsGone
  <2>3. \A p \in Paths : Served.at[p] \in Nat /\ Served'.at[p] \in Nat
                         /\ Served.at[p] <= Served'.at[p]
    BY <1>2, <1>3 DEF Trees
  <2> QED
    BY <1>1, <1>2, <2>1, <2>2, <2>3, SoundGrows
<1>9. LinkInv' /\ FollowerInv' /\ TravelInv'
  BY <1>1, <1>2 DEF PluginInv, LinkInv, FollowerInv, TravelInv
<1> QED
  BY <1>1, <1>2, <1>7, <1>8, <1>9, FollowingGrows DEF PluginInv

LEMMA ChangeSourceStep ==
  ASSUME PluginInv, ChangeSource
  PROVE  PluginInv'
<1>1. PICK D \in SUBSET Paths : D = DOMAIN source.files /\ source.files \in [D -> Sources]
  BY TreeFacts DEF PluginInv, Trees
<1>2. ASSUME NEW E \in SUBSET Paths, NEW f \in [E -> Sources], NEW p \in Paths, NEW s \in Sources
      PROVE  Containing(f, p, s) \in [E \cup {p} -> Sources] /\ E \cup {p} \in SUBSET Paths
  BY DEF Containing
<1>3. ASSUME NEW p PROVE Restrict(source.files, D \ {p}) \in [D \ {p} -> Sources]
  BY <1>1 DEF Restrict
<1>4. CASE \E p \in Paths : WriteFile(p)
  <2>1. PICK p \in Paths, s \in Sources : ChangeTree(Containing(source.files, p, s))
    BY <1>4 DEF WriteFile
  <2>2. Containing(source.files, p, s) \in [D \cup {p} -> Sources] /\ D \cup {p} \in SUBSET Paths
    BY <1>1, <1>2
  <2> QED
    BY <2>1, <2>2, ChangeTreeStep
<1>5. CASE \E p \in Paths : RemoveFile(p)
  <2>1. PICK p \in Paths : ChangeTree(Restrict(source.files, D \ {p}))
    BY <1>1, <1>5 DEF RemoveFile
  <2> QED
    BY <1>3, <2>1, ChangeTreeStep
<1>6. CASE \E p, q \in Paths : RenameFile(p, q)
  <2>1. PICK p \in Paths, q \in Paths :
          /\ p \in D
          /\ ChangeTree(Containing(Restrict(source.files, D \ {p}), q, source.files[p]))
    BY <1>1, <1>6 DEF RenameFile
  <2> DEFINE E == D \ {p}
             f == Restrict(source.files, E)
  <2>2. E \in SUBSET Paths /\ f \in [E -> Sources] /\ source.files[p] \in Sources
    BY <1>1, <1>3, <2>1
  <2> HIDE DEF f
  <2>3. Containing(f, q, source.files[p]) \in [E \cup {q} -> Sources] /\ E \cup {q} \in SUBSET Paths
    BY <1>2, <2>2
  <2> QED
    BY <2>1, <2>3, ChangeTreeStep DEF f
<1> QED
  BY <1>4, <1>5, <1>6 DEF ChangeSource

LEMMA ServeStep ==
  ASSUME PluginInv, Serve
  PROVE  PluginInv'
<1>1. /\ timeline' = Append(timeline, source)
      /\ link' = [link EXCEPT !.events = IF link.open THEN Append(@, Len(timeline) + 1) ELSE @]
      /\ UNCHANGED <<source, follower, work, fetches, travel>>
  BY DEF Serve
<1>2. /\ HistoryInv /\ Sound(work) /\ FollowerInv /\ TravelInv /\ LinkInv
      /\ timeline \in Seq(TreeTypes) /\ source \in TreeTypes /\ Len(timeline) \in Nat \ {0}
  BY TimelineFacts DEF PluginInv, HistoryInv
<1>3. /\ timeline' \in Seq(TreeTypes) /\ Len(timeline') = Len(timeline) + 1
      /\ timeline'[Len(timeline) + 1] = source
      /\ \A i \in 1 .. Len(timeline) : timeline'[i] = timeline[i]
  BY <1>1, <1>2, AppendProperties
<1>4. Served' = source
  BY <1>3 DEF Served, Last
<1>5. Snapshots' = Snapshots \cup {source} /\ Trees' = Trees
  <2>1. DOMAIN timeline = 1 .. Len(timeline) /\ DOMAIN timeline' = 1 .. Len(timeline) + 1
    BY <1>2, <1>3, LenProperties
  <2>2. 1 .. Len(timeline) + 1 = 1 .. Len(timeline) \cup {Len(timeline) + 1}
    BY <1>2
  <2>3. Snapshots' = Snapshots \cup {source}
    BY <1>3, <2>1, <2>2 DEF Snapshots, Range
  <2> QED
    BY <1>1, <2>3 DEF Trees
<1>6. /\ Served \in Snapshots
      /\ \A T \in Trees : T.at \in [Paths -> Nat] /\ \A p \in Paths : T.at[p] <= source.at[p]
  BY <1>2, TreeFacts
<1>7. HistoryInv'
  <2>1. timeline' # << >>
    BY <1>2, <1>3
  <2>2. \A T \in Snapshots' : \A p \in Paths : T.at[p] <= source.at[p] /\ source.at[p] <= source.at[p]
    <3>1. \A p \in Paths : source.at[p] \in Nat
      BY <1>6 DEF Trees
    <3> QED
      BY <1>5, <1>6, <3>1 DEF Trees
  <2>3. ChangesTell'
    BY <1>2, <1>5 DEF HistoryInv, ChangesTell
  <2> QED
    BY <1>1, <1>2, <1>3, <1>4, <2>1, <2>2, <2>3 DEF HistoryInv
<1>8. Sound(work)'
  <2>1. \A p \in Paths : \A at, sha : TellsHere(p, at, sha) => TellsHere(p, at, sha)'
    BY <1>1, <1>5 DEF TellsHere
  <2>2. \A p \in Paths : \A at : TellsGone(p, at) => TellsGone(p, at)'
    BY <1>1, <1>5 DEF TellsGone
  <2>3. \A p \in Paths : Served.at[p] \in Nat /\ Served'.at[p] \in Nat
                         /\ Served.at[p] <= Served'.at[p]
    BY <1>4, <1>6 DEF Trees
  <2> QED
    BY <1>1, <1>2, <2>1, <2>2, <2>3, SoundGrows
<1>9. LinkInv'
  <2> DEFINE events == IF link.open THEN Append(link.events, Len(timeline) + 1) ELSE link.events
  <2>1. link' = [open |-> link.open, events |-> events]
    BY <1>1, <1>2 DEF LinkInv
  <2>2. link.events \in Seq(2 .. Len(timeline) + 1)
    <3>1. link.events \in Seq(2 .. Len(timeline)) /\ 2 .. Len(timeline) \subseteq 2 .. Len(timeline) + 1
      BY <1>2 DEF LinkInv
    <3> QED
      BY <3>1
  <2>3. Len(timeline) + 1 \in 2 .. Len(timeline) + 1
    BY <1>2
  <2>4. events \in Seq(2 .. Len(timeline) + 1)
    BY <2>2, <2>3, AppendProperties
  <2> HIDE DEF events
  <2> QED
    BY <1>3, <2>1, <2>4 DEF LinkInv
<1>10. FollowerInv' /\ TravelInv'
  BY <1>1, <1>2, <1>3, <1>5 DEF FollowerInv, TravelInv
<1> QED
  BY <1>1, <1>5, <1>7, <1>8, <1>9, <1>10, FollowingGrows DEF PluginInv

LEMMA AnswerFetchStep ==
  ASSUME PluginInv, AnswerFetch
  PROVE  PluginInv'
<1>1. PICK f \in fetches :
        fetches' = (fetches \ {f}) \cup {[f EXCEPT !.answered = TRUE,
                                            !.answer = [p \in DOMAIN f.wants |-> Answer(p)]]}
  BY DEF AnswerFetch
<1> DEFINE answer == [p \in DOMAIN f.wants |-> Answer(p)]
           g == [f EXCEPT !.answered = TRUE, !.answer = answer]
<1>2. UNCHANGED <<source, timeline, link, follower, work, travel>>
  BY DEF AnswerFetch
<1>3. HistoryInv /\ Sound(work) /\ FetchTypes(work) /\ WorkTypes(work)
  BY DEF PluginInv, Sound
<1>4. fetches' \subseteq fetches \cup {g}
  BY <1>1
<1>5. g = [wants |-> f.wants, answered |-> TRUE, answer |-> answer]
  <2>1. g = [f EXCEPT !.answered = TRUE, !.answer = answer]
    OBVIOUS
  <2>2. f = [wants |-> f.wants, answered |-> f.answered, answer |-> f.answer]
    BY <1>3 DEF FetchTypes
  <2> HIDE DEF g, answer
  <2> QED
    BY <2>1, <2>2
<1>6. ASSUME NEW p \in Paths, p \in DOMAIN g.wants PROVE AnswerIsSound(work, g, p)
  <2>1. g.answer[p] = Answer(p)
    BY <1>5, <1>6
  <2>2. /\ Served \in Trees /\ source \in Trees
        /\ \A T \in Trees : T.at \in [Paths -> Nat] /\ T.files \in [DOMAIN T.files -> Sources]
    BY <1>3, TreeFacts DEF Trees
  <2>3. /\ work.wanted[p] \in Int /\ work.wanted[p] <= Served.at[p]
        /\ Served.at[p] \in Nat /\ source.at[p] \in Nat /\ Served.at[p] <= source.at[p]
    BY <1>3, <2>2, TreeFacts DEF Sound, SoundAt, WorkTypes
  <2>4. NotOlder(work, p, Served.at[p]) /\ NotOlder(work, p, source.at[p])
    BY <2>3 DEF NotOlder
  <2> HIDE DEF g
  <2>5. CASE p \notin DOMAIN Served.files
    <3>1. Answer(p) = [found |-> FALSE, at |-> Served.at[p]]
      BY <2>5 DEF Answer
    <3>2. TellsGone(p, Served.at[p])
      BY <1>3, <2>2, <2>5, SnapshotTells
    <3> QED
      BY <2>1, <2>4, <3>1, <3>2 DEF AnswerIsSound
  <2>6. CASE p \in DOMAIN Served.files /\ p \notin DOMAIN source.files
    <3>1. Answer(p) = [found |-> FALSE, at |-> source.at[p]]
      BY <2>6 DEF Answer
    <3>2. TellsGone(p, source.at[p])
      BY <1>3, <2>2, <2>6, SnapshotTells
    <3> QED
      BY <2>1, <2>4, <3>1, <3>2 DEF AnswerIsSound
  <2>7. CASE p \in DOMAIN Served.files /\ p \in DOMAIN source.files
    <3>1. Answer(p) = [found |-> TRUE, at |-> source.at[p], sha |-> source.files[p]]
      BY <2>7 DEF Answer
    <3>2. TellsHere(p, source.at[p], source.files[p]) /\ source.files[p] \in Sources
      BY <1>3, <2>2, <2>7, SnapshotTells
    <3> QED
      BY <2>1, <2>4, <3>1, <3>2 DEF AnswerIsSound
  <2> QED
    BY <2>5, <2>6, <2>7
<1> HIDE DEF answer, g
<1>7. Sound(work)'
  <2>1. WorkTypes(work)'
    BY <1>2, <1>3 DEF WorkTypes, WorkShape
  <2>2. FetchTypes(work)'
    <3>1. ASSUME NEW h \in fetches'
          PROVE  /\ h = [wants |-> h.wants, answered |-> h.answered, answer |-> h.answer]
                 /\ DOMAIN h.wants \subseteq Paths
                 /\ \A p \in DOMAIN h.wants : h.wants[p] \in Nat /\ h.wants[p] <= work.epoch
      <4>1. CASE h \in fetches
        BY <1>3, <4>1 DEF FetchTypes
      <4>2. CASE h = g
        BY <1>3, <1>5, <4>2 DEF FetchTypes
      <4> QED
        BY <1>4, <4>1, <4>2
    <3> QED
      BY <1>2, <3>1 DEF FetchTypes
  <2>3. ASSUME NEW p \in Paths PROVE SoundAt(work, p)'
    <3>1. SoundAt(work, p)
      BY <1>3 DEF Sound
    <3>2. ASSUME NEW h \in fetches', h.answered, p \in DOMAIN h.wants
          PROVE  AnswerIsSound(work, h, p)'
      <4>1. AnswerIsSound(work, h, p)
        BY <1>4, <1>6, <3>1, <3>2 DEF SoundAt
      <4>2. /\ Wants(work, p, h.wants[p]) <=> Wants(work, p, h.wants[p])'
            /\ NotOlder(work, p, h.answer[p].at) <=> NotOlder(work, p, h.answer[p].at)'
        BY <1>2 DEF Wants, NotOlder
      <4> QED
        BY <1>2, <4>1, <4>2, TreeStands DEF AnswerIsSound
    <3>3. \A at : NotOlder(work, p, at) <=> NotOlder(work, p, at)'
      BY <1>2 DEF NotOlder
    <3> QED
      BY <1>2, <3>1, <3>2, <3>3, TreeStands DEF SoundAt
  <2> QED
    BY <2>1, <2>2, <2>3 DEF Sound
<1>8. HistoryInv' /\ Snapshots' = Snapshots
  BY <1>2, <1>3, TreeStands
<1>9. LinkInv' /\ FollowerInv' /\ TravelInv'
  BY <1>2, <1>8 DEF PluginInv, LinkInv, FollowerInv, TravelInv
<1> QED
  BY <1>2, <1>7, <1>8, <1>9, FollowingGrows DEF PluginInv

-----------------------------------------------------------------------------
LEMMA PluginInvInit == ApplyInit => PluginInv
<1> SUFFICES ASSUME ApplyInit PROVE PluginInv
  OBVIOUS
<1>1. /\ source = [files |-> FirstTree, at |-> [p \in Paths |-> 0]] /\ timeline = <<source>>
      /\ link = [open |-> FALSE, events |-> << >>] /\ fetches = {}
      /\ follower = [enabled |-> TRUE, last |-> Never, asks |-> "none",
                     base |-> Never, since |-> 0, mixed |-> FALSE]
      /\ travel = [active |-> FALSE, at |-> "idle", index |-> 0, target |-> 0,
                   next |-> 0, back |-> FALSE]
  BY DEF ApplyInit
<1>2. Snapshots = {source} /\ Trees = {source} /\ Served = source /\ Len(timeline) = 1
  BY <1>1 DEF Snapshots, Trees, Served, Last, Range
<1>3. HistoryInv
  <2>1. source \in TreeTypes
    BY <1>1, ApplyAssumption DEF TreeTypes
  <2>2. \A p \in Paths : source.at[p] <= source.at[p]
    BY <1>1
  <2>3. ChangesTell
    BY <1>2 DEF ChangesTell, Alike
  <2> QED
    BY <1>1, <1>2, <2>1, <2>2, <2>3 DEF HistoryInv
<1>4. LinkInv /\ FollowerInv /\ TravelInv
  BY <1>1, <1>2 DEF LinkInv, FollowerInv, TravelInv
<1>5. /\ WorkShape(work) /\ work.epoch = 0 /\ work.queue = << >> /\ work.fetchQueue = << >>
      /\ work.ops = [p \in Paths |-> NoOp] /\ work.ready = [p \in Paths |-> Nothing]
      /\ work.shown = [p \in Paths |-> Bare] /\ work.wanted = [p \in Paths |-> -1]
      /\ work.ahead = {} /\ work.tangled = {} /\ work.twinned = {} /\ work.resync = TRUE
  BY DEF ApplyInit, WorkShape
<1>6. Sound(work)
  <2>1. WorkTypes(work)
    BY <1>5 DEF WorkTypes, Nothing
  <2>2. ASSUME NEW p \in Paths PROVE SoundAt(work, p)
    <3>1. Served.at[p] = 0 /\ work.wanted[p] = -1
      BY <1>1, <1>2, <1>5
    <3> QED
      BY <1>1, <1>5, <3>1 DEF SoundAt
  <2> QED
    BY <1>1, <2>1, <2>2 DEF Sound, FetchTypes
<1> QED
  BY <1>3, <1>4, <1>5, <1>6 DEF PluginInv, Believing

LEMMA PluginInvStep == PluginInv /\ [ApplyNext]_applyVars => PluginInv'
<1> SUFFICES ASSUME PluginInv, [ApplyNext]_applyVars PROVE PluginInv'
  OBVIOUS
<1>1. CASE UNCHANGED applyVars
  <2>1. UNCHANGED <<source, timeline, link, follower, work, fetches, travel>>
    BY <1>1 DEF applyVars
  <2>2. LinkInv' /\ FollowerInv' /\ TravelInv'
    BY <2>1, TreeStands DEF PluginInv, LinkInv, FollowerInv, TravelInv
  <2> QED
    BY <2>1, <2>2, UnchangedKeeps, KeepingStep DEF PluginInv
<1>2. CASE ChangeSource \/ Serve \/ AnswerFetch
  BY <1>2, ChangeSourceStep, ServeStep, AnswerFetchStep
<1>3. CASE Poll \/ TakeAnswer \/ RequestFails \/ HearEvent
  BY <1>3, AskForStep, SnapshotAnswerStep, DiffAnswerStep, RequestFailsStep, HearEventStep
     DEF Poll, TakeAnswer
<1>4. CASE OpenSocket \/ FallBehind \/ CloseSocket
  BY <1>4, SocketSteps
<1>5. CASE StartFetch \/ TakeFetch \/ FetchFails \/ BatchTooLarge \/ Apply \/ ApplyFails
  BY <1>5, WorkSteps
<1>6. CASE ClickHistory \/ ClickLive \/ ToggleSync \/ Rewinding \/ RewindFails
  BY <1>6, ClickSteps, RewindAnsweredStep, RewindSteps DEF Rewinding
<1> QED
  BY <1>1, <1>2, <1>3, <1>4, <1>5, <1>6 DEF ApplyNext

LEMMA PluginInvImplies == PluginInv => InstancesFollow
<1> SUFFICES ASSUME PluginInv, Believing, NEW p \in Paths, work.ops[p] = NoOp
             PROVE  Follows(p, follower.last)
  BY DEF InstancesFollow, Believing
<1>1. FollowsAt(work, p, follower.last)
  BY DEF PluginInv
<1> QED
  BY <1>1 DEF FollowsAt, ShowsIn, OutOfStepIn, Follows, Shows, OutOfStep, Mislabelled, LeftBehind

(* Whichever fetches, diffs, events, resyncs, rewinds and failures cross,  *)
(* and whatever changes meanwhile: a file with no operation pending is in  *)
(* Studio as it is in the snapshot the plugin believes to have, or is not  *)
(* in that snapshot and its instance could not be removed, or one of the   *)
(* things the code does not look at has happened to it, or a resync is due *)
(* (stageOperation, processFetchQueue, processApplyQueue,                  *)
(* reconcileSnapshot).                                                     *)
THEOREM InstancesAreFollowed == ApplySpec => []InstancesFollow
<1>1. ApplySpec => []PluginInv
  BY PluginInvInit, PluginInvStep, PTL DEF ApplySpec
<1> QED
  BY <1>1, PluginInvImplies, PTL
=============================================================================

---------------------------- MODULE BuilderProofs ----------------------------
(***************************************************************************)
(* Proofs about TreeDiff and SnapshotBuilder, for any files, contents,     *)
(* edits and clock.                                                        *)
(*                                                                         *)
(* For any two snapshots the difference takes a receiver from the one to   *)
(* the other and back.  That rests on what Moves pairs up: a deleted with  *)
(* an added file of one hash, each of them once.                           *)
(*                                                                         *)
(* Snapshots are fresh because a hash is only ever kept with a time the    *)
(* file had before the hash was read (Dated): when the file still has that *)
(* time, it held the content at that time.                                 *)
(***************************************************************************)
EXTENDS SnapshotBuilder, WellFoundedInduction, TLAPS

(* A snapshot has numbered paths, and is nothing but what it maps them to. *)
Snapshot(s) == DOMAIN s \subseteq Nat /\ s = [f \in DOMAIN s |-> s[f]]

(* The less-than relation is well-founded, written as a set of pairs.      *)
LEMMA NaturalsWellFounded == IsWellFoundedOn({q \in Nat \X Nat : q[1] < q[2]}, Nat)
  BY NatLessThanWellFounded DEF OpToRel

(* The first of some files is one of them.                                 *)
LEMMA LeastIsThere ==
  ASSUME NEW S, S \subseteq Nat, S # {}
  PROVE  Least(S) \in S
<1> DEFINE R == {q \in Nat \X Nat : q[1] < q[2]}
<1>1. PICK n \in S : \A m \in S : ~ (<<m, n>> \in R)
  <2>1. IsWellFoundedOn(R, Nat)
    BY NaturalsWellFounded
  <2> QED
    BY <2>1, WFMin
<1>2. ASSUME NEW m \in S PROVE n <= m
  <2>1. ~ (<<m, n>> \in {q \in Nat \X Nat : q[1] < q[2]})
    BY <1>1
  <2>2. m \in Nat /\ n \in Nat
    OBVIOUS
  <2> QED
    BY <2>1, <2>2
<1> QED
  BY <1>2 DEF Least

-----------------------------------------------------------------------------
(* A move pairs a deleted file with an added one of the same hash, and is  *)
(* determined by that hash.                                                *)
LEMMA MovesPairUp ==
  ASSUME NEW prev, NEW cur, Snapshot(prev), Snapshot(cur), NEW m \in Moves(prev, cur)
  PROVE  /\ m.old \in Deleted(prev, cur) /\ prev[m.old] = m.sha
         /\ m.new \in Added(prev, cur) /\ cur[m.new] = m.sha
         /\ m = [old |-> Least(Holding(Deleted(prev, cur), prev, m.sha)),
                 new |-> Least(Holding(Added(prev, cur), cur, m.sha)), sha |-> m.sha]
<1> DEFINE gone(h) == Holding(Deleted(prev, cur), prev, h)
           come(h) == Holding(Added(prev, cur), cur, h)
<1>1. PICK h : /\ gone(h) # {} /\ come(h) # {}
               /\ m = [old |-> Least(gone(h)), new |-> Least(come(h)), sha |-> h]
  BY DEF Moves
<1>2. gone(h) \subseteq Nat /\ come(h) \subseteq Nat
  BY DEF Holding, Deleted, Added, Snapshot
<1>3. Least(gone(h)) \in gone(h) /\ Least(come(h)) \in come(h)
  BY <1>1, <1>2, LeastIsThere
<1>4. m.sha = h /\ m.old \in gone(h) /\ m.new \in come(h)
  BY <1>1, <1>3
<1> QED
  BY <1>1, <1>4 DEF Holding

(* No file is in two moves, on either side.                                *)
LEMMA MovesAreDisjoint ==
  ASSUME NEW prev, NEW cur, Snapshot(prev), Snapshot(cur),
         NEW m \in Moves(prev, cur), NEW n \in Moves(prev, cur),
         m.new = n.new \/ m.old = n.old
  PROVE  m = n
<1>1. m.sha = n.sha
  BY MovesPairUp
<1> QED
  BY <1>1, MovesPairUp

(* What is deleted one way is added the other way, and the moves turn      *)
(* round.                                                                  *)
LEMMA PartsTurnRound ==
  ASSUME NEW prev, NEW cur
  PROVE  /\ Added(cur, prev) = Deleted(prev, cur) /\ Deleted(cur, prev) = Added(prev, cur)
         /\ Modified(cur, prev) = Modified(prev, cur)
         /\ Moves(cur, prev) = {[old |-> m.new, new |-> m.old, sha |-> m.sha] : m \in Moves(prev, cur)}
<1>1. /\ Added(cur, prev) = Deleted(prev, cur) /\ Deleted(cur, prev) = Added(prev, cur)
      /\ Modified(cur, prev) = Modified(prev, cur)
  BY DEF Added, Deleted, Modified
<1> DEFINE gone(h) == Holding(Deleted(prev, cur), prev, h)
           come(h) == Holding(Added(prev, cur), cur, h)
           shared == {h \in Range(prev) \cap Range(cur) : gone(h) # {} /\ come(h) # {}}
           there(h) == [old |-> Least(gone(h)), new |-> Least(come(h)), sha |-> h]
           back(h) == [old |-> Least(come(h)), new |-> Least(gone(h)), sha |-> h]
           turned(m) == [old |-> m.new, new |-> m.old, sha |-> m.sha]
<1>2. Moves(prev, cur) = {there(h) : h \in shared}
  BY DEF Moves
<1>3. Moves(cur, prev) = {back(h) : h \in shared}
  BY <1>1 DEF Moves
<1>4. \A h : turned(there(h)) = back(h)
  OBVIOUS
<1> HIDE DEF there, back, shared, turned
<1>5. {turned(m) : m \in Moves(prev, cur)} = {back(h) : h \in shared}
  BY <1>2, <1>4
<1> QED
  BY <1>1, <1>3, <1>5 DEF turned

-----------------------------------------------------------------------------
(* The difference, applied to the first snapshot, gives the second, with   *)
(* renames of files that share a hash as well (diff_snapshots).            *)
THEOREM DiffLeadsToTarget ==
  ASSUME NEW prev, NEW cur, Snapshot(prev), Snapshot(cur)
  PROVE  ApplyDiff(DiffSnapshots(prev, cur), prev) = cur
<1> DEFINE d == DiffSnapshots(prev, cur)
           moves == Moves(prev, cur)
<1>1. /\ d.renamed = moves
      /\ DOMAIN d.added = Added(prev, cur) \ NewPaths(d)
      /\ \A f \in DOMAIN d.added : d.added[f] = cur[f]
      /\ DOMAIN d.deleted = Deleted(prev, cur) \ OldPaths(d)
      /\ DOMAIN d.modified = Modified(prev, cur)
      /\ \A f \in DOMAIN d.modified : d.modified[f].current = cur[f]
  BY DEF DiffSnapshots, NewPaths, OldPaths, Restrict
<1>2. NewPaths(d) \subseteq Added(prev, cur) /\ OldPaths(d) \subseteq Deleted(prev, cur)
  BY <1>1, MovesPairUp DEF NewPaths, OldPaths
<1>3. Surviving(d, prev) = DOMAIN prev \cap DOMAIN cur
  BY <1>1, <1>2 DEF Surviving, Deleted
<1>4. Surviving(d, prev) \cup DOMAIN d.added \cup NewPaths(d) = DOMAIN cur
  BY <1>1, <1>2, <1>3 DEF Added
<1>5. ASSUME NEW f \in NewPaths(d)
      PROVE  prev[(CHOOSE m \in d.renamed : m.new = f).old] = cur[f]
  <2>1. PICK m \in d.renamed : m.new = f
    BY DEF NewPaths
  <2> DEFINE c == CHOOSE n \in d.renamed : n.new = f
  <2>2. c \in moves /\ c.new = f
    BY <1>1, <2>1
  <2> QED
    BY <2>2, MovesPairUp
<1> HIDE DEF d
<1> DEFINE value(f) ==
             CASE f \in DOMAIN d.added    -> d.added[f]
               [] f \in NewPaths(d)       -> prev[(CHOOSE m \in d.renamed : m.new = f).old]
               [] f \in DOMAIN d.modified -> d.modified[f].current
               [] OTHER                      -> prev[f]
<1>6. ASSUME NEW f \in DOMAIN cur PROVE value(f) = cur[f]
  <2>1. CASE f \in DOMAIN d.added
    BY <1>1, <2>1
  <2>2. CASE f \in NewPaths(d)
    BY <1>1, <1>5, <2>2
  <2>3. CASE f \notin DOMAIN d.added /\ f \notin NewPaths(d)
    <3>1. f \in DOMAIN prev
      BY <1>1, <2>3 DEF Added
    <3> QED
      BY <1>1, <2>3, <3>1 DEF Modified
  <2> QED
    BY <2>1, <2>2, <2>3
<1>7. ApplyDiff(d, prev) = [f \in DOMAIN cur |-> value(f)]
  BY <1>4 DEF ApplyDiff
<1> HIDE DEF value
<1>8. cur = [f \in DOMAIN cur |-> cur[f]]
  BY DEF Snapshot
<1> QED
  BY <1>6, <1>7, <1>8 DEF d

(* A reversed difference is the difference the other way round             *)
(* (reverse_diff).                                                         *)
THEOREM ReversedIsDiffBack ==
  ASSUME NEW prev, NEW cur
  PROVE  ReverseDiff(DiffSnapshots(prev, cur)) = DiffSnapshots(cur, prev)
<1> DEFINE d == DiffSnapshots(prev, cur)
           e == DiffSnapshots(cur, prev)
           turned == {[old |-> m.new, new |-> m.old, sha |-> m.sha] : m \in Moves(prev, cur)}
<1>1. Moves(cur, prev) = turned
  BY PartsTurnRound
<1>2. /\ {m.new : m \in turned} = {m.old : m \in Moves(prev, cur)}
      /\ {m.old : m \in turned} = {m.new : m \in Moves(prev, cur)}
  <2> DEFINE turn(m) == [old |-> m.new, new |-> m.old, sha |-> m.sha]
  <2>1. turned = {turn(m) : m \in Moves(prev, cur)}
    OBVIOUS
  <2> HIDE DEF turned, turn
  <2>2. /\ {m.new : m \in turned} = {turn(m).new : m \in Moves(prev, cur)}
        /\ {m.old : m \in turned} = {turn(m).old : m \in Moves(prev, cur)}
    BY <2>1
  <2>3. /\ {turn(m).new : m \in Moves(prev, cur)} = {m.old : m \in Moves(prev, cur)}
        /\ {turn(m).old : m \in Moves(prev, cur)} = {m.new : m \in Moves(prev, cur)}
    BY DEF turn
  <2> QED
    BY <2>2, <2>3
<1>3. e.added = d.deleted /\ e.deleted = d.added
  <2>1. /\ d.added = Restrict(cur, Added(prev, cur) \ {m.new : m \in Moves(prev, cur)})
        /\ d.deleted = Restrict(prev, Deleted(prev, cur) \ {m.old : m \in Moves(prev, cur)})
    BY DEF DiffSnapshots
  <2>2. /\ e.added = Restrict(prev, Added(cur, prev) \ {m.new : m \in Moves(cur, prev)})
        /\ e.deleted = Restrict(cur, Deleted(cur, prev) \ {m.old : m \in Moves(cur, prev)})
    BY DEF DiffSnapshots
  <2> HIDE DEF d, e
  <2>3. Added(cur, prev) = Deleted(prev, cur) /\ Deleted(cur, prev) = Added(prev, cur)
    BY PartsTurnRound
  <2>4. /\ {m.new : m \in Moves(cur, prev)} = {m.old : m \in Moves(prev, cur)}
        /\ {m.old : m \in Moves(cur, prev)} = {m.new : m \in Moves(prev, cur)}
    BY <1>1, <1>2
  <2> QED
    BY <2>1, <2>2, <2>3, <2>4
<1>4. e.modified = [f \in DOMAIN d.modified |->
                      [previous |-> d.modified[f].current, current |-> d.modified[f].previous]]
  BY PartsTurnRound DEF DiffSnapshots
<1>5. e.renamed = {[old |-> m.new, new |-> m.old, sha |-> m.sha] : m \in d.renamed}
  BY <1>1 DEF DiffSnapshots
<1>6. e = [added |-> e.added, deleted |-> e.deleted, modified |-> e.modified, renamed |-> e.renamed]
  BY DEF DiffSnapshots
<1> QED
  BY <1>3, <1>4, <1>5, <1>6 DEF ReverseDiff

(* Differences lead there and back, and no path is in two of their parts.  *)
LEMMA SnapshotsConnect ==
  ASSUME NEW prev, NEW cur, Snapshot(prev), Snapshot(cur)
  PROVE  Connects(prev, cur)
<1> DEFINE d == DiffSnapshots(prev, cur)
<1>1. ApplyDiff(d, prev) = cur
  BY DiffLeadsToTarget
<1>2. ApplyDiff(ReverseDiff(d), cur) = prev
  BY DiffLeadsToTarget, ReversedIsDiffBack
<1>3. ReverseDiff(d).renamed = DiffSnapshots(cur, prev).renamed
  BY ReversedIsDiffBack
<1>4. NewPaths(d) \cap DOMAIN d.added = {} /\ OldPaths(d) \cap DOMAIN d.deleted = {}
  BY DEF DiffSnapshots, NewPaths, OldPaths, Restrict
<1> QED
  BY <1>1, <1>2, <1>3, <1>4 DEF Connects

-----------------------------------------------------------------------------
(* What the poller has installed, and is about to install, are snapshots   *)
(* of files among Paths.                                                   *)
OfPaths(s) == DOMAIN s \subseteq Paths /\ s = [f \in DOMAIN s |-> s[f]]
DiffInv == OfPaths(current) /\ OfPaths(build.hashes) /\ build.listed \subseteq Paths
             /\ build = [at |-> build.at, listed |-> build.listed, stamps |-> build.stamps,
                         hashes |-> build.hashes]

LEMMA ExtendOfPaths ==
  ASSUME NEW s, OfPaths(s), NEW f \in Paths, NEW x
  PROVE  OfPaths(Extend(s, f, x))
  BY DEF OfPaths, Extend

LEMMA DiffInvInit == BuilderInit => DiffInv
<1> SUFFICES ASSUME BuilderInit PROVE DiffInv
  OBVIOUS
<1>1. OfPaths(current)
  BY DEF BuilderInit, OfPaths, Present
<1>2. OfPaths(Empty)
  BY DEF Empty, OfPaths
<1> QED
  BY <1>1, <1>2 DEF BuilderInit, DiffInv, NoBuild

LEMMA NoBuildKeeps == ASSUME build' = NoBuild, OfPaths(current)' PROVE DiffInv'
<1>1. OfPaths(Empty)
  BY DEF Empty, OfPaths
<1> QED
  BY <1>1 DEF DiffInv, NoBuild, OfPaths

LEMMA DiffInvStep == DiffInv /\ [BuilderNext]_builderVars => DiffInv'
<1> SUFFICES ASSUME DiffInv, [BuilderNext]_builderVars PROVE DiffInv'
  OBVIOUS
<1>1. CASE UNCHANGED <<build, current>>
  BY <1>1 DEF DiffInv, OfPaths
<1>2. CASE StartBuild
  <2>1. OfPaths(Empty)
    BY DEF Empty, OfPaths
  <2> QED
    BY <1>2, <2>1 DEF StartBuild, DiffInv, NoBuild, Present, OfPaths
<1>3. ASSUME NEW f \in Paths, StatFile(f) PROVE DiffInv'
  <2>1. CASE build' = NoBuild
    BY <1>3, <2>1, NoBuildKeeps DEF StatFile, DiffInv, OfPaths
  <2>2. CASE build' = Stated(f)
    <3>1. OfPaths(Extend(build.hashes, f, cache[f].sha))
      BY ExtendOfPaths DEF DiffInv
    <3> QED
      BY <1>3, <2>2, <3>1 DEF StatFile, Stated, DiffInv, OfPaths
  <2> QED
    BY <1>3, <2>1, <2>2 DEF StatFile
<1>4. ASSUME NEW f \in Paths, HashFile(f) PROVE DiffInv'
  <2>1. CASE build' = NoBuild
    BY <1>4, <2>1, NoBuildKeeps DEF HashFile, DiffInv, OfPaths
  <2>2. CASE build' = [build EXCEPT !.hashes = Extend(@, f, Content(f))]
    <3>1. OfPaths(Extend(build.hashes, f, Content(f)))
      BY ExtendOfPaths DEF DiffInv
    <3> QED
      BY <1>4, <2>2, <3>1 DEF HashFile, DiffInv, OfPaths
  <2> QED
    BY <1>4, <2>1, <2>2 DEF HashFile
<1>5. CASE FinishBuild
  BY <1>5, NoBuildKeeps DEF FinishBuild, DiffInv, OfPaths
<1>6. CASE Serving
  BY <1>1, <1>6 DEF Serving, LookUp, AnswerSource, AnswerModel, buildVars
<1>7. CASE \E f \in Paths, c \in Contents \cup {Missing} : ChangeFile(f, c)
  BY <1>1, <1>7 DEF ChangeFile
<1>8. CASE Tick
  BY <1>1, <1>8 DEF Tick, buildVars
<1>9. CASE UNCHANGED builderVars
  BY <1>1, <1>9 DEF builderVars, buildVars
<1> QED
  BY <1>2, <1>3, <1>4, <1>5, <1>6, <1>7, <1>8, <1>9 DEF BuilderNext, Building

(* Whatever files there are, and however they change while snapshots are   *)
(* built, what is broadcast when one is installed takes a receiver from    *)
(* the tree it had to the new one, and reversed back again                 *)
(* (poll_and_broadcast, diff_snapshots, reverse_diff).                     *)
THEOREM BroadcastsConnect == BuilderSpec => DiffsConnectSnapshots
<1>1. ASSUME DiffInv, DiffInv' PROVE Connects(current, current')
  <2>1. Snapshot(current) /\ Snapshot(current')
    BY <1>1, BuilderAssumption DEF DiffInv, OfPaths, Snapshot
  <2> QED
    BY <2>1, SnapshotsConnect
<1> QED
  BY DiffInvInit, DiffInvStep, <1>1, PTL DEF BuilderSpec, DiffsConnectSnapshots

-----------------------------------------------------------------------------
(* A content and the time that is noted with it: when the file still has   *)
(* that time, it is one of those it held at the time.                      *)
Dated(file, holding, mtime, sha) ==
  /\ mtime \in Nat /\ mtime <= file.mtime
  /\ sha \in Contents
  /\ mtime = file.mtime => sha \in holding

TreeSound ==
  /\ tick \in Nat
  /\ files \in [Paths -> [content : Contents \cup {Missing}, mtime : Nat]]
  /\ held \in [Paths -> SUBSET (Contents \cup {Missing})]
  /\ \A f \in Paths : Content(f) \in held[f] /\ files[f].mtime <= tick

CacheSound ==
  \A f \in DOMAIN cache :
    /\ f \in Paths /\ cache[f].bytes = Size[cache[f].sha]
    /\ Dated(files[f], held[f], cache[f].mtime, cache[f].sha)

BuildSound ==
  /\ DOMAIN build.stamps \subseteq build.listed /\ DOMAIN build.hashes \subseteq DOMAIN build.stamps
  /\ \A f \in DOMAIN build.stamps :
       build.stamps[f].mtime \in Nat /\ build.stamps[f].mtime <= files[f].mtime
  /\ \A f \in DOMAIN build.hashes : Dated(files[f], held[f], build.stamps[f].mtime, build.hashes[f])

(* What is known of the files that nobody touched.                         *)
Right(f, sha) == sha = Content(f) \/ Blurred(f)

UntouchedSound ==
  build.at = "stating" =>
    \A f \in Paths \ touched :
      /\ f \in build.listed <=> f \in Present
      /\ f \in DOMAIN build.hashes => Right(f, build.hashes[f])

ServedSound == \A f \in Paths \ dirty : f \in DOMAIN current => Right(f, current[f])

ReaderSound ==
  /\ reader = [at |-> reader.at, path |-> reader.path, sha |-> reader.sha, moved |-> reader.moved]
  /\ reader.at \in {"source", "model"} =>
       reader.path \in Paths /\ (~reader.moved => Right(reader.path, reader.sha))

FreshInv ==
  /\ DiffInv
  /\ TreeSound /\ CacheSound /\ BuildSound /\ UntouchedSound /\ ServedSound /\ ReaderSound

(* An edit dates a file with the clock, or adds to what it held at the     *)
(* time.                                                                   *)
LEMMA DatedKept ==
  ASSUME TreeSound, NEW f \in Paths, NEW mtime, NEW sha, Dated(files[f], held[f], mtime, sha),
         NEW g \in Paths, NEW c \in Contents \cup {Missing}, ChangeFile(g, c)
  PROVE  Dated(files'[f], held'[f], mtime, sha)
<1>1. CASE f # g
  <2>1. files'[f] = files[f] /\ held'[f] = held[f]
    BY <1>1 DEF ChangeFile, TreeSound
  <2> QED
    BY <2>1 DEF Dated
<1>2. CASE f = g
  <2>1. files'[f].mtime = tick /\ files[f].mtime <= tick /\ files[f].mtime \in Nat /\ tick \in Nat
    BY <1>2 DEF ChangeFile, TreeSound
  <2>2. files[f].mtime = tick => held[f] \subseteq held'[f]
    BY <1>2 DEF ChangeFile, TreeSound
  <2> QED
    BY <2>1, <2>2 DEF Dated
<1> QED
  BY <1>1, <1>2

LEMMA TreeSoundKept ==
  ASSUME TreeSound, NEW g \in Paths, NEW c \in Contents \cup {Missing}, ChangeFile(g, c)
  PROVE  TreeSound'
<1>1. files' = [files EXCEPT ![g] = [content |-> c, mtime |-> tick]]
  BY DEF ChangeFile
<1>2. held' = [held EXCEPT ![g] = IF files[g].mtime = tick THEN @ \cup {c} ELSE {c}]
  BY DEF ChangeFile
<1>3. tick' = tick
  BY DEF ChangeFile
<1>4. held' \in [Paths -> SUBSET (Contents \cup {Missing})]
  BY <1>2 DEF TreeSound
<1>5. files' \in [Paths -> [content : Contents \cup {Missing}, mtime : Nat]]
  BY <1>1 DEF TreeSound
<1>6. ASSUME NEW f \in Paths PROVE Content(f)' \in held'[f] /\ files'[f].mtime <= tick
  BY <1>1, <1>2, <1>3, <1>6 DEF TreeSound, Content
<1> QED
  BY <1>3, <1>4, <1>5, <1>6 DEF TreeSound, Content

LEMMA RightKept ==
  ASSUME TreeSound, NEW f \in Paths, NEW sha, Right(f, sha),
         NEW g \in Paths, g # f, NEW c, ChangeFile(g, c)
  PROVE  sha = Content(f)' \/ Blurred(f)'
<1>1. files'[f] = files[f] /\ held'[f] = held[f]
  BY DEF ChangeFile, TreeSound
<1> QED
  BY <1>1 DEF Right, Blurred, Content

LEMMA FreshInvInit == BuilderInit => FreshInv
<1> SUFFICES ASSUME BuilderInit PROVE FreshInv
  OBVIOUS
<1>1. TreeSound
  <2>1. files \in [Paths -> {[content |-> c, mtime |-> 0] : c \in Start}] /\ tick = 0
        /\ held = [f \in Paths |-> {files[f].content}]
    BY DEF BuilderInit
  <2>2. ASSUME NEW f \in Paths
        PROVE  files[f] \in [content : Contents \cup {Missing}, mtime : Nat] /\ files[f].mtime = 0
    BY <2>1, BuilderAssumption
  <2> QED
    BY <2>1, <2>2 DEF TreeSound, Content
<1>2. CacheSound /\ BuildSound /\ UntouchedSound
  BY DEF BuilderInit, CacheSound, BuildSound, UntouchedSound, NoBuild, Empty
<1>3. ServedSound /\ ReaderSound
  BY DEF BuilderInit, ServedSound, ReaderSound, Right, NoReader
<1> QED
  BY <1>1, <1>2, <1>3, DiffInvInit DEF FreshInv

LEMMA ChangeFileKeeps ==
  ASSUME FreshInv, NEW g \in Paths, NEW c \in Contents \cup {Missing}, ChangeFile(g, c)
  PROVE  CacheSound' /\ BuildSound' /\ UntouchedSound' /\ ServedSound' /\ ReaderSound'
<1>0. UNCHANGED <<cache, build, current>>
      /\ touched' = touched \cup {g} /\ dirty' = dirty \cup {g}
      /\ reader' = [reader EXCEPT !.moved = @ \/ g = reader.path]
  BY DEF ChangeFile
<1>1. CacheSound'
  <2>1. ASSUME NEW f \in DOMAIN cache PROVE f \in Paths /\ Dated(files'[f], held'[f], cache[f].mtime, cache[f].sha)
    BY <2>1, DatedKept DEF FreshInv, CacheSound
  <2> QED
    BY <1>0, <2>1 DEF FreshInv, CacheSound, Dated
<1>2. BuildSound'
  <2>1. ASSUME NEW f \in DOMAIN build.hashes PROVE Dated(files'[f], held'[f], build.stamps[f].mtime, build.hashes[f])
    BY <2>1, DatedKept DEF FreshInv, BuildSound, DiffInv
  <2>2. ASSUME NEW f \in DOMAIN build.stamps
        PROVE  build.stamps[f].mtime \in Nat /\ build.stamps[f].mtime <= files'[f].mtime
    <3>1. f \in Paths /\ build.stamps[f].mtime \in Nat /\ build.stamps[f].mtime <= files[f].mtime
      BY <2>2 DEF FreshInv, BuildSound, DiffInv
    <3>2. files[f].mtime \in Nat /\ tick \in Nat /\ files[f].mtime <= tick
      BY <3>1 DEF FreshInv, TreeSound
    <3>3. files'[f].mtime = tick \/ files'[f] = files[f]
      BY <3>1 DEF ChangeFile, FreshInv, TreeSound
    <3> QED
      BY <3>1, <3>2, <3>3
  <2> QED
    BY <1>0, <2>1, <2>2 DEF FreshInv, BuildSound, Dated
<1>3. ASSUME NEW f \in Paths, f # g, NEW sha, Right(f, sha)
      PROVE  sha = Content(f)' \/ Blurred(f)'
  BY <1>3, RightKept DEF FreshInv
<1>4. ASSUME NEW f \in Paths, f # g PROVE f \in Present' <=> f \in Present
  BY <1>4 DEF ChangeFile, FreshInv, TreeSound, Present
<1>5. UntouchedSound'
  <2> SUFFICES ASSUME build.at = "stating", NEW f \in Paths \ touched'
               PROVE  /\ f \in build.listed <=> f \in Present'
                      /\ f \in DOMAIN build.hashes =>
                           build.hashes[f] = Content(f)' \/ Blurred(f)'
    BY <1>0 DEF UntouchedSound, Right
  <2>1. f # g /\ f \in Paths \ touched
    BY <1>0
  <2> QED
    BY <1>3, <1>4, <2>1 DEF FreshInv, UntouchedSound
<1>6. ServedSound'
  <2> SUFFICES ASSUME NEW f \in Paths \ dirty', f \in DOMAIN current
               PROVE  current[f] = Content(f)' \/ Blurred(f)'
    BY <1>0 DEF ServedSound, Right
  <2> QED
    BY <1>0, <1>3 DEF FreshInv, ServedSound
<1>7. ReaderSound'
  <2>1. reader.at \in {"source", "model"} /\ ~reader'.moved =>
          reader.sha = Content(reader.path)' \/ Blurred(reader.path)'
    BY <1>0, <1>3 DEF FreshInv, ReaderSound
  <2> QED
    BY <1>0, <2>1 DEF FreshInv, ReaderSound, Right
<1> QED
  BY <1>1, <1>2, <1>5, <1>6, <1>7

(* The other steps leave the tree as it is; each keeps what is known of    *)
(* the part it changes.                                                    *)
LEMMA TreeStays ==
  ASSUME UNCHANGED <<files, held>>
  PROVE  \A f : (Content(f)' = Content(f)) /\ (Blurred(f)' <=> Blurred(f))
  BY DEF Content, Blurred

LEMMA StatFileKeeps ==
  ASSUME FreshInv, NEW f \in Paths, StatFile(f)
  PROVE  BuildSound' /\ UntouchedSound'
<1>1. UNCHANGED <<files, held, touched>> /\ build.at = "stating"
  BY DEF StatFile, treeVars
<1>2. CASE build' = NoBuild
  BY <1>2 DEF BuildSound, UntouchedSound, NoBuild, Empty
<1>3. CASE f \in Present /\ build' = Stated(f)
  <2>1. f \in build.listed \ DOMAIN build.stamps
    <3>1. Unseen \subseteq Nat /\ Unseen # {} /\ f = Least(Unseen)
      BY BuilderAssumption DEF StatFile, Unseen, FreshInv, DiffInv
    <3> QED
      BY <3>1, LeastIsThere DEF Unseen
  <2>2. files[f].mtime \in Nat /\ Stamp(f).mtime = files[f].mtime /\ Stamp(f).bytes = Size[Content(f)]
    BY DEF FreshInv, TreeSound, Stamp
  <2>3. /\ build'.at = "stating" /\ build'.listed = build.listed
        /\ build'.stamps = Extend(build.stamps, f, Stamp(f))
        /\ build'.hashes = IF Knows(f, Stamp(f)) THEN Extend(build.hashes, f, cache[f].sha)
                           ELSE build.hashes
    BY <1>1, <1>3 DEF Stated, FreshInv, DiffInv
  <2>4. Knows(f, Stamp(f)) =>
          Dated(files[f], held[f], files[f].mtime, cache[f].sha) /\ Right(f, cache[f].sha)
    <3> SUFFICES ASSUME Knows(f, Stamp(f))
                 PROVE  Dated(files[f], held[f], files[f].mtime, cache[f].sha) /\ Right(f, cache[f].sha)
      OBVIOUS
    <3>1. /\ cache[f].mtime = files[f].mtime /\ cache[f].bytes = Size[Content(f)]
          /\ Dated(files[f], held[f], cache[f].mtime, cache[f].sha)
          /\ cache[f].bytes = Size[cache[f].sha]
      BY <2>2 DEF Knows, FreshInv, CacheSound
    <3>2. cache[f].sha \in held[f] /\ cache[f].sha # Missing
      BY <3>1, BuilderAssumption DEF Dated
    <3> QED
      BY <3>1, <3>2 DEF Right, Blurred
  <2>5. BuildSound'
    <3>1. DOMAIN build'.stamps = DOMAIN build.stamps \cup {f}
      BY <2>3 DEF Extend
    <3>2. DOMAIN build'.hashes \subseteq DOMAIN build'.stamps
      BY <2>3, <3>1 DEF Extend, FreshInv, BuildSound
    <3>3. ASSUME NEW g \in DOMAIN build'.stamps
          PROVE  build'.stamps[g].mtime \in Nat /\ build'.stamps[g].mtime <= files[g].mtime
      BY <2>2, <2>3, <3>3 DEF Extend, FreshInv, BuildSound
    <3>4. ASSUME NEW g \in DOMAIN build'.hashes
          PROVE  Dated(files[g], held[g], build'.stamps[g].mtime, build'.hashes[g])
      <4>1. CASE g = f
        <5>1. Knows(f, Stamp(f)) /\ build'.stamps[g] = Stamp(f) /\ build'.hashes[g] = cache[f].sha
          BY <2>1, <2>3, <3>4, <4>1 DEF Extend, FreshInv, BuildSound
        <5> QED
          BY <2>2, <2>4, <4>1, <5>1
      <4>2. CASE g # f
        <5>1. /\ g \in DOMAIN build.hashes /\ build'.hashes[g] = build.hashes[g]
              /\ build'.stamps[g] = build.stamps[g]
          BY <2>3, <3>4, <4>2 DEF Extend, FreshInv, BuildSound
        <5> QED
          BY <5>1 DEF FreshInv, BuildSound
      <4> QED
        BY <4>1, <4>2
    <3> QED
      BY <1>1, <2>1, <2>3, <3>1, <3>2, <3>3, <3>4 DEF FreshInv, BuildSound
  <2>6. UntouchedSound'
    <3> SUFFICES ASSUME NEW g \in Paths \ touched
                 PROVE  /\ g \in build'.listed <=> g \in Present
                        /\ g \in DOMAIN build'.hashes => Right(g, build'.hashes[g])
      BY <1>1, TreeStays DEF UntouchedSound, Right, Present
    <3>1. g \in build.listed <=> g \in Present
      BY <1>1 DEF FreshInv, UntouchedSound
    <3>2. g \in DOMAIN build.hashes => Right(g, build.hashes[g])
      BY <1>1 DEF FreshInv, UntouchedSound
    <3> QED
      BY <2>1, <2>3, <2>4, <3>1, <3>2 DEF Extend, FreshInv, BuildSound
  <2> QED
    BY <2>5, <2>6
<1> QED
  BY <1>2, <1>3 DEF StatFile

LEMMA HashFileKeeps ==
  ASSUME FreshInv, NEW f \in Paths, HashFile(f)
  PROVE  BuildSound' /\ UntouchedSound'
<1>1. UNCHANGED <<files, held, touched>> /\ build.at = "stating"
  BY DEF HashFile, treeVars
<1>2. CASE build' = NoBuild
  BY <1>2 DEF BuildSound, UntouchedSound, NoBuild, Empty
<1>3. CASE f \in Present /\ build' = [build EXCEPT !.hashes = Extend(@, f, Content(f))]
  <2>1. f \in DOMAIN build.stamps
    BY DEF HashFile
  <2>2. /\ build'.at = "stating" /\ build'.listed = build.listed /\ build'.stamps = build.stamps
        /\ build'.hashes = Extend(build.hashes, f, Content(f))
    BY <1>1, <1>3 DEF FreshInv, DiffInv
  <2>3. Content(f) \in Contents /\ Content(f) \in held[f]
    BY <1>3 DEF Present, Content, FreshInv, TreeSound
  <2>4. Dated(files[f], held[f], build.stamps[f].mtime, Content(f))
    BY <2>1, <2>3 DEF Dated, FreshInv, BuildSound
  <2>5. BuildSound'
    <3>1. DOMAIN build'.hashes \subseteq DOMAIN build.stamps
      BY <2>1, <2>2 DEF Extend, FreshInv, BuildSound
    <3>2. ASSUME NEW g \in DOMAIN build'.hashes
          PROVE  Dated(files[g], held[g], build.stamps[g].mtime, build'.hashes[g])
      BY <2>2, <2>4, <3>2 DEF Extend, FreshInv, BuildSound
    <3> QED
      BY <1>1, <2>2, <3>1, <3>2 DEF FreshInv, BuildSound
  <2>6. UntouchedSound'
    <3> SUFFICES ASSUME NEW g \in Paths \ touched
                 PROVE  /\ g \in build'.listed <=> g \in Present
                        /\ g \in DOMAIN build'.hashes => Right(g, build'.hashes[g])
      BY <1>1, TreeStays DEF UntouchedSound, Right, Present
    <3>1. /\ g \in build.listed <=> g \in Present
          /\ g \in DOMAIN build.hashes => Right(g, build.hashes[g])
      BY <1>1 DEF FreshInv, UntouchedSound
    <3> QED
      BY <2>2, <3>1 DEF Extend, Right
  <2> QED
    BY <2>5, <2>6
<1> QED
  BY <1>2, <1>3 DEF HashFile

LEMMA FinishBuildKeeps ==
  ASSUME FreshInv, FinishBuild
  PROVE  CacheSound' /\ BuildSound' /\ UntouchedSound' /\ ServedSound'
<1>1. /\ UNCHANGED <<files, held>> /\ build.at = "stating" /\ DOMAIN build.hashes = build.listed
      /\ cache' = [f \in build.listed |-> Cached(f)] /\ current' = build.hashes
      /\ build' = NoBuild /\ dirty' = touched
  BY DEF FinishBuild, treeVars
<1>2. CacheSound'
  <2>1. ASSUME NEW f \in build.listed
        PROVE  /\ f \in Paths /\ Cached(f).bytes = Size[Cached(f).sha]
               /\ Dated(files[f], held[f], Cached(f).mtime, Cached(f).sha)
    <3>1. f \in Paths /\ f \in DOMAIN build.hashes
      BY <1>1, <2>1 DEF FreshInv, DiffInv
    <3>2. CASE f \in DOMAIN cache /\ Knows(f, build.stamps[f])
      BY <3>1, <3>2 DEF Cached, FreshInv, CacheSound
    <3>3. CASE ~(f \in DOMAIN cache /\ Knows(f, build.stamps[f]))
      BY <3>1, <3>3 DEF Cached, FreshInv, BuildSound
    <3> QED
      BY <3>2, <3>3
  <2> HIDE DEF Cached
  <2> QED
    BY <1>1, <2>1 DEF CacheSound
<1>3. BuildSound' /\ UntouchedSound'
  BY <1>1 DEF BuildSound, UntouchedSound, NoBuild, Empty
<1>4. ServedSound'
  BY <1>1, TreeStays DEF FreshInv, UntouchedSound, ServedSound, Right
<1> QED
  BY <1>2, <1>3, <1>4

LEMMA FreshInvStep == FreshInv /\ [BuilderNext]_builderVars => FreshInv'
<1> SUFFICES ASSUME FreshInv, [BuilderNext]_builderVars PROVE FreshInv'
  OBVIOUS
<1>0. DiffInv'
  BY DiffInvStep DEF FreshInv
<1>1. ASSUME NEW g \in Paths, NEW c \in Contents \cup {Missing}, ChangeFile(g, c) PROVE FreshInv'
  BY <1>0, <1>1, TreeSoundKept, ChangeFileKeeps DEF FreshInv
<1>2. ASSUME UNCHANGED <<files, held>>, tick' \in Nat, tick <= tick' PROVE TreeSound'
  <2>1. ASSUME NEW f \in Paths PROVE files[f].mtime <= tick'
    BY <1>2, <2>1 DEF FreshInv, TreeSound
  <2> QED
    BY <1>2, <2>1 DEF FreshInv, TreeSound, Content
<1>3. UNCHANGED treeVars => TreeSound'
  BY <1>2 DEF treeVars, FreshInv, TreeSound
<1>4. UNCHANGED <<files, held, cache>> => CacheSound'
  BY DEF FreshInv, CacheSound
<1>5. UNCHANGED <<files, held, build, touched>> => BuildSound' /\ UntouchedSound'
  BY TreeStays DEF FreshInv, BuildSound, UntouchedSound, Right, Present
<1>6. UNCHANGED <<files, held, current, dirty>> => ServedSound'
  BY TreeStays DEF FreshInv, ServedSound, Right
<1>7. UNCHANGED <<files, held, reader>> => ReaderSound'
  BY TreeStays DEF FreshInv, ReaderSound, Right
<1>8. CASE Tick
  <2>1. tick' \in Nat /\ tick <= tick' /\ UNCHANGED <<files, held, cache, build, current, touched, dirty, reader>>
    BY <1>8 DEF Tick, buildVars, FreshInv, TreeSound
  <2> QED
    BY <1>0, <1>2, <1>4, <1>5, <1>6, <1>7, <2>1 DEF FreshInv
<1>9. CASE StartBuild
  <2>1. BuildSound'
    BY <1>9 DEF StartBuild, NoBuild, Empty, BuildSound
  <2>2. UntouchedSound'
    BY <1>9 DEF StartBuild, NoBuild, Empty, UntouchedSound, Present, treeVars
  <2> QED
    BY <1>0, <1>3, <1>4, <1>6, <1>7, <1>9, <2>1, <2>2 DEF FreshInv, StartBuild, treeVars
<1>10. ASSUME NEW f \in Paths, StatFile(f) PROVE FreshInv'
  BY <1>0, <1>3, <1>4, <1>6, <1>7, <1>10, StatFileKeeps DEF FreshInv, StatFile, treeVars
<1>11. ASSUME NEW f \in Paths, HashFile(f) PROVE FreshInv'
  BY <1>0, <1>3, <1>4, <1>6, <1>7, <1>11, HashFileKeeps DEF FreshInv, HashFile, treeVars
<1>12. CASE FinishBuild
  BY <1>0, <1>3, <1>7, <1>12, FinishBuildKeeps DEF FreshInv, FinishBuild, treeVars
<1>13. UNCHANGED <<treeVars, buildVars>> =>
         TreeSound' /\ CacheSound' /\ BuildSound' /\ UntouchedSound' /\ ServedSound'
  BY <1>3, <1>4, <1>5, <1>6 DEF treeVars, buildVars
<1>14. ASSUME NEW f \in Asked, NEW kind \in {"source", "model"}, LookUp(kind, f) PROVE FreshInv'
  <2>1. f \in Paths /\ f \in DOMAIN current
    BY <1>14, BuilderAssumption DEF LookUp
  <2>2. UNCHANGED <<treeVars, buildVars>>
        /\ reader' = [at |-> kind, path |-> f, sha |-> current[f], moved |-> f \in dirty]
    BY <1>14 DEF LookUp
  <2>3. f \notin dirty => Right(f, current[f])
    BY <2>1 DEF FreshInv, ServedSound
  <2>4. ReaderSound'
    BY <2>1, <2>2, <2>3, TreeStays DEF ReaderSound, Right, treeVars
  <2> QED
    BY <1>0, <1>13, <2>2, <2>4 DEF FreshInv
<1>15. CASE AnswerSource
  <2>1. ReaderSound'
    BY <1>15 DEF AnswerSource, NoReader, ReaderSound
  <2> QED
    BY <1>0, <1>13, <1>15, <2>1 DEF FreshInv, AnswerSource
<1>16. CASE AnswerModel
  <2>1. ReaderSound'
    BY <1>16 DEF AnswerModel, NoReader, ReaderSound
  <2> QED
    BY <1>0, <1>13, <1>16, <2>1 DEF FreshInv, AnswerModel
<1>17. CASE UNCHANGED builderVars
  BY <1>0, <1>7, <1>13, <1>17 DEF builderVars, treeVars, FreshInv
<1> QED
  BY <1>1, <1>8, <1>9, <1>10, <1>11, <1>12, <1>14, <1>15, <1>16, <1>17
     DEF BuilderNext, Building, Serving

(* Whatever is edited, before, during and after builds, cut off or not,    *)
(* a snapshot that is installed agrees with the tree in all files that did *)
(* not change while it was built, but for one rewritten at its size within *)
(* the clock's grain (build_snapshot_cached_inner, SnapshotCache).         *)
THEOREM InstalledSnapshotsAreFresh == BuilderSpec => SnapshotsAreFresh
<1>1. ASSUME FreshInv, FinishBuild, NEW f \in Paths \ touched
      PROVE  IF f \in Present THEN f \in DOMAIN current' /\ (current'[f] = Content(f) \/ Blurred(f))
             ELSE f \notin DOMAIN current'
  BY <1>1 DEF FreshInv, UntouchedSound, FinishBuild, Right
<1>2. FreshInv /\ [BuilderNext]_builderVars =>
        [FinishBuild =>
           \A f \in Paths \ touched :
             IF f \in Present THEN f \in DOMAIN current' /\ (current'[f] = Content(f) \/ Blurred(f))
             ELSE f \notin DOMAIN current']_builderVars
  BY <1>1
<1> QED
  BY FreshInvInit, FreshInvStep, <1>2, PTL DEF BuilderSpec, SnapshotsAreFresh

(* A source is answered, and a model kept, with the hash of what the file  *)
(* holds, as long as it did not change since the snapshot that was looked  *)
(* up was begun, however many builds end in between (handle_source,        *)
(* get_or_load).                                                           *)
THEOREM AnsweredHashesMatch == BuilderSpec => SourcesMatchTheirHash
<1> DEFINE Good ==
      /\ AnswerSource /\ reader.path \in Present
           /\ (reader.moved => Size[reader.sha] # Size[Content(reader.path)])
           => reader'.sha = Content(reader.path) \/ Blurred(reader.path)
      /\ AnswerModel /\ models' # models /\ ~reader.moved => AnsweredRight(reader.path)
<1>1. ASSUME FreshInv, AnswerSource, reader.path \in Present,
             reader.moved => Size[reader.sha] # Size[Content(reader.path)]
      PROVE  reader'.sha = Content(reader.path) \/ Blurred(reader.path)
  <2>1. reader'.sha = AnsweredHash(reader.path)
    BY <1>1 DEF AnswerSource, NoReader
  <2>2. ~reader.moved => Right(reader.path, reader.sha)
    BY <1>1 DEF AnswerSource, FreshInv, ReaderSound
  <2> QED
    BY <1>1, <2>1, <2>2 DEF AnsweredHash, Right
<1>2. ASSUME FreshInv, AnswerModel, ~reader.moved PROVE AnsweredRight(reader.path)
  BY <1>2 DEF AnswerModel, FreshInv, ReaderSound, Right, AnsweredRight
<1>3. FreshInv /\ [BuilderNext]_builderVars => [Good]_builderVars
  BY <1>1, <1>2
<1> QED
  BY FreshInvInit, FreshInvStep, <1>3, PTL DEF BuilderSpec, SourcesMatchTheirHash
=============================================================================

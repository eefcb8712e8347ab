--------------------------- MODULE SnapshotBuilder --------------------------
(***************************************************************************)
(* How the serve process turns the source tree into snapshots, and serves  *)
(* files by them, while the files change.  The poller lists the files,     *)
(* looks at each one's time and size, hashes those the cache does not      *)
(* know, and installs the result.  A request for a source or a model looks *)
(* into the current snapshot first and reads the file later.               *)
(*                                                                         *)
(* A hash is the content it is of.  A file's time is a tick of a coarse    *)
(* clock.  What is broadcast is the matter of SnapshotStore; here it is    *)
(* the difference to the snapshot before.                                  *)
(***************************************************************************)
EXTENDS Naturals, TLC, TreeDiff

CONSTANTS
  Paths,      (* files of the include roots, numbers in path order          *)
  Contents,   (* what a file may hold                                       *)
  Size,       (* the size of each content                                   *)
  Asked,      (* files whose source or model is requested                   *)
  Start,      (* what files hold at first                                   *)
  Missing,    (* what a file that does not exist holds                      *)
  MaxEdits,   (* bound on the changes of files                              *)
  MaxTicks    (* bound on the clock                                         *)

ASSUME BuilderAssumption ==
  /\ Paths \subseteq Nat /\ Missing \notin Contents
  /\ Size \in [Contents -> Nat] /\ Asked \subseteq Paths
  /\ Start \subseteq Contents \cup {Missing}
  /\ MaxEdits \in Nat /\ MaxTicks \in Nat

VARIABLES
  files,      (* the source tree                                            *)
  tick,       (* the clock that dates files                                 *)
  edits,      (* how often a file changed                                   *)
  held,       (* for the properties: what each file held at its time        *)
  touched,    (* for the properties: files changed since the build began    *)
  dirty,      (* for the properties: files changed since the build that made
                 the current snapshot began                                 *)
  cache,      (* SnapshotCache: by path, a stamp and a hash                 *)
  build,      (* the build under way                                        *)
  current,    (* the current snapshot: path to hash                         *)
  reader,     (* the request for a source or a model under way              *)
  models      (* ModelManifestCache: by hash, what was parsed               *)

treeVars == <<files, tick, edits, held>>
buildVars == <<cache, build, current, touched, dirty>>
builderVars == <<treeVars, buildVars, reader, models>>

Empty == [f \in {} |-> Missing]
Present == {f \in Paths : files[f].content # Missing}
Content(f) == files[f].content
Stamp(f) == [mtime |-> files[f].mtime, bytes |-> Size[Content(f)]]

NoBuild == [at |-> "idle", listed |-> {}, stamps |-> Empty, hashes |-> Empty]
NoReader == [at |-> "idle", path |-> 0, sha |-> Missing, moved |-> FALSE]

BuilderInit ==
  /\ files \in [Paths -> {[content |-> c, mtime |-> 0] : c \in Start}]
  /\ tick = 0 /\ edits = 0 /\ touched = {} /\ dirty = {}
  /\ held = [f \in Paths |-> {files[f].content}]
  /\ cache = Empty
  /\ build = NoBuild
  /\ current = [f \in Present |-> Content(f)]
  /\ reader = NoReader
  /\ models = Empty

-----------------------------------------------------------------------------
(* A developer, Studio or a tool writes or deletes a file.                 *)
ChangeFile(f, c) ==
  /\ edits < MaxEdits /\ c # Content(f)
  /\ edits' = edits + 1
  /\ files' = [files EXCEPT ![f] = [content |-> c, mtime |-> tick]]
  /\ held' = [held EXCEPT ![f] = IF files[f].mtime = tick THEN @ \cup {c} ELSE {c}]
  /\ touched' = touched \cup {f} /\ dirty' = dirty \cup {f}
  /\ reader' = [reader EXCEPT !.moved = @ \/ f = reader.path]
  /\ UNCHANGED <<tick, cache, build, current, models>>

Tick ==
  /\ tick < MaxTicks
  /\ tick' = tick + 1
  /\ UNCHANGED <<files, edits, held, buildVars, reader, models>>

-----------------------------------------------------------------------------
(* build_snapshot_cached_inner.  collect_files lists what is there; what   *)
(* is skipped or ignored is not among Paths.                               *)
StartBuild ==
  /\ build.at = "idle"
  /\ build' = [NoBuild EXCEPT !.at = "stating", !.listed = Present]
  /\ touched' = {}
  /\ UNCHANGED <<treeVars, cache, current, dirty, reader, models>>

Extend(map, f, x) == [g \in DOMAIN map \cup {f} |-> IF g = f THEN x ELSE map[g]]

(* A slip in Knows: the time alone is compared.                            *)
KnowsByTime(f, stamp) == f \in DOMAIN cache /\ cache[f].mtime = stamp.mtime

(* SnapshotCache::get, with the stamp just read.                           *)
Knows(f, stamp) ==
  f \in DOMAIN cache /\ cache[f].mtime = stamp.mtime /\ cache[f].bytes = stamp.bytes

Stated(f) ==
  [build EXCEPT !.stamps = Extend(@, f, Stamp(f)),
                !.hashes = IF Knows(f, Stamp(f)) THEN Extend(@, f, cache[f].sha) ELSE @]

Unseen == build.listed \ DOMAIN build.stamps

StatFile(f) ==
  /\ build.at = "stating" /\ Unseen # {} /\ f = Least(Unseen)
  /\ build' = IF f \in Present THEN Stated(f) ELSE NoBuild
  /\ UNCHANGED <<treeVars, cache, current, touched, dirty, reader, models>>

(* hash_file reads the file as it is now, on any thread.                   *)
HashFile(f) ==
  /\ build.at = "stating" /\ DOMAIN build.stamps = build.listed
  /\ f \in build.listed \ DOMAIN build.hashes
  /\ build' = IF f \in Present
                THEN [build EXCEPT !.hashes = Extend(@, f, Content(f))]
                ELSE NoBuild
  /\ UNCHANGED <<treeVars, cache, current, touched, dirty, reader, models>>

(* A slip in Cached: the time is read when the build ends.                 *)
CachedLate(f) ==
  [mtime |-> files[f].mtime, bytes |-> Size[build.hashes[f]], sha |-> build.hashes[f]]

(* A new hash is cached with the time the file had before and the size it  *)
(* was read with; what the cache knew stays; the rest is pruned.           *)
Cached(f) ==
  IF f \in DOMAIN cache /\ Knows(f, build.stamps[f]) THEN cache[f]
  ELSE [mtime |-> build.stamps[f].mtime, bytes |-> Size[build.hashes[f]], sha |-> build.hashes[f]]

(* A slip in FinishBuild: the cache is not pruned.                         *)
FinishUnpruned ==
  /\ build.at = "stating" /\ DOMAIN build.hashes = build.listed
  /\ cache' = [f \in build.listed |-> Cached(f)] @@ cache
  /\ current' = build.hashes
  /\ build' = NoBuild
  /\ dirty' = touched /\ touched' = {}
  /\ UNCHANGED <<treeVars, reader, models>>

(* poll_and_broadcast installs what was built.                             *)
FinishBuild ==
  /\ build.at = "stating" /\ DOMAIN build.hashes = build.listed
  /\ cache' = [f \in build.listed |-> Cached(f)]
  /\ current' = build.hashes
  /\ build' = NoBuild
  /\ dirty' = touched /\ touched' = {}
  /\ UNCHANGED <<treeVars, reader, models>>

-----------------------------------------------------------------------------
(* handle_source, handle_sources_content, serve_source_for_ws: the hash of *)
(* the snapshot is answered when the size is the expected one.             *)
LookUp(kind, f) ==
  /\ reader.at \in {"idle", "answered"} /\ f \in DOMAIN current
  /\ reader' = [at |-> kind, path |-> f, sha |-> current[f], moved |-> f \in dirty]
  /\ UNCHANGED <<treeVars, buildVars, models>>

(* A slip in AnsweredHash: the snapshot is believed whatever the size.     *)
BelievedHash(f) == reader.sha

AnsweredHash(f) ==
  IF Size[reader.sha] = Size[Content(f)] THEN reader.sha ELSE Content(f)

AnswerSource ==
  /\ reader.at = "source"
  /\ reader' = IF reader.path \in Present
                 THEN [NoReader EXCEPT !.at = "answered", !.sha = AnsweredHash(reader.path)]
                 ELSE NoReader
  /\ UNCHANGED <<treeVars, buildVars, models>>

(* handle_model, get_or_load: what is parsed now is kept under the hash    *)
(* that was looked up.                                                     *)
AnswerModel ==
  /\ reader.at = "model"
  /\ reader' = NoReader
  /\ \/ reader.sha \in DOMAIN models /\ UNCHANGED models
     \/ /\ reader.sha \notin DOMAIN models /\ reader.path \in Present
        /\ models' = Extend(models, reader.sha, Content(reader.path))
     \/ reader.sha \notin DOMAIN models /\ reader.path \notin Present /\ UNCHANGED models
  /\ UNCHANGED <<treeVars, buildVars>>

Building == StartBuild \/ (\E f \in Paths : StatFile(f) \/ HashFile(f)) \/ FinishBuild
Serving ==
  \/ \E f \in Asked, kind \in {"source", "model"} : LookUp(kind, f)
  \/ AnswerSource \/ AnswerModel

BuilderNext ==
  \/ \E f \in Paths, c \in Contents \cup {Missing} : ChangeFile(f, c)
  \/ Tick
  \/ Building \/ Serving

BuilderSpec == BuilderInit /\ [][BuilderNext]_builderVars /\ WF_builderVars(Building)

-----------------------------------------------------------------------------
(* Every variable keeps its type, and the cache holds on to no file that   *)
(* left the tree.                                                          *)
BuilderTypeOK ==
  /\ files \in [Paths -> [content : Contents \cup {Missing}, mtime : 0..MaxTicks]]
  /\ DOMAIN current \subseteq Paths /\ Range(current) \subseteq Contents
  /\ DOMAIN cache \subseteq DOMAIN current
  /\ DOMAIN build.hashes \subseteq DOMAIN build.stamps \cup build.listed
  /\ Range(models) \subseteq Contents /\ DOMAIN models \subseteq Contents
  /\ reader.at \in {"idle", "source", "model", "answered"}

(* A file is rewritten within one tick of the clock at the same size: its  *)
(* stamp does not tell.                                                    *)
Blurred(f) ==
  \E c \in held[f] \ {Content(f), Missing} : Size[c] = Size[Content(f)]

(* A snapshot that is installed agrees with the tree, file by file, in all *)
(* that did not change while it was built - whatever happened during       *)
(* builds before, cut off or not, and however the cache came about.  Only  *)
(* a file rewritten at the same size within the clock's grain is missed    *)
(* (SnapshotCache, build_snapshot_cached_inner).                           *)
SnapshotsAreFresh ==
  [][FinishBuild =>
       \A f \in Paths \ touched :
         IF f \in Present THEN f \in DOMAIN current' /\ (current'[f] = Content(f) \/ Blurred(f))
         ELSE f \notin DOMAIN current']_builderVars

(* What is broadcast takes a receiver from the one tree to the other and,  *)
(* reversed, back again; no path is in two of its parts                    *)
(* (diff_snapshots with its renames, reverse_diff).                        *)
Connects(prev, cur) ==
  LET d == DiffSnapshots(prev, cur) IN
  /\ ApplyDiff(d, prev) = cur
  /\ ApplyDiff(ReverseDiff(d), cur) = prev
  /\ ReverseDiff(d).renamed = DiffSnapshots(cur, prev).renamed
  /\ NewPaths(d) \cap DOMAIN d.added = {} /\ OldPaths(d) \cap DOMAIN d.deleted = {}
DiffsConnectSnapshots == [][Connects(current, current')]_current

(* A source or model whose file did not change since the snapshot that was *)
(* looked up was begun is answered, or kept, with the hash of what the     *)
(* file holds, whatever builds end in between (handle_source,              *)
(* get_or_load).                                                           *)
AnsweredRight(f) == reader.sha = Content(f) \/ Blurred(f)
SourcesMatchTheirHash ==
  [][/\ AnswerSource /\ reader.path \in Present /\ (reader.moved => Size[reader.sha] # Size[Content(reader.path)])
        => reader'.sha = Content(reader.path) \/ Blurred(reader.path)
     /\ AnswerModel /\ models' # models /\ ~reader.moved => AnsweredRight(reader.path)]_builderVars

(* When the files stay as they are and none is blurred, the snapshot ends  *)
(* up with them: no cut-off build and nothing in the cache keeps the       *)
(* poller from it.                                                         *)
Serves == current = [f \in Present |-> Content(f)]
SnapshotsCatchUp == <>[](Serves \/ \E f \in Present : Blurred(f))

(* "Content-addressed cache ... keyed by SHA-256 hash of the model file    *)
(* content": what is kept under a hash was parsed from that content.  The  *)
(* code does not keep this.                                                *)
ModelsMatchTheirHash == \A h \in DOMAIN models : models[h] = h
=============================================================================

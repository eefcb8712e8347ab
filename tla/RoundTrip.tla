------------------------------ MODULE RoundTrip ------------------------------
(***************************************************************************)
(* A working tree, the place files built from it, and the ways between     *)
(* them: people edit files and, in Studio, places; vsync build makes a     *)
(* place of the tree, vsync syncback writes the scripts of a place back,   *)
(* one file after the other.  docs/cli.md:92 calls it the inverse of       *)
(* build.                                                                  *)
(***************************************************************************)
EXTENDS PlaceFiles

CONSTANTS Projects,      \* the project files: [name, tree, ignored]
          Homes,         \* sets of directories that may hold the project file
          SkippedDirs,   \* names the search for a project file passes over
          Trees,         \* the trees there may be at first
          Editable,      \* the paths that are edited
          Contents,      \* what a script may contain, as text
          Additions,     \* scripts added in Studio: [name, class, source]
          MaxEdits       \* bound: edits

(* A name of one piece has no kind; a path is a file or a directory, not   *)
(* both; a node of a project has a path of its own, below another node's.  *)
IsFile(f) ==
  /\ f \in Seq(Names) /\ f # <<>>
  /\ Kind(Last(f)) \in LuauKinds \cup OtherKinds => Len(Last(f)) > 1

IsTree(tree) ==
  /\ IsFiniteSet(DOMAIN tree)
  /\ \A f \in DOMAIN tree : IsFile(f)
  /\ \A f, g \in DOMAIN tree : ~IsStrictPrefix(f, g)

IsProject(p) ==
  /\ p.name \in Pieces /\ IsFiniteSet(p.tree)
  /\ \A n \in p.tree : n.path \in Seq(Pieces) /\ (n.fs # None => n.fs \in Seq(Names))
  /\ \A n, m \in p.tree : n.path = m.path => n = m
  /\ \A n \in p.tree : \A q \in Prefixes(n.path) \ {<<>>} : \E m \in p.tree : m.path = q

ASSUME RoundTripAssumption ==
  /\ Spelling \in Seq(STRING) /\ {"@", "~"} \subseteq Range(Spelling)
  /\ {"init", "luau", "server.luau", "client.luau", "model"} \subseteq Pieces
  /\ \A p \in Projects : IsProject(p)
  /\ \A tree \in Trees : IsTree(tree)
  /\ None \notin Contents /\ Blank # None
  /\ \A f \in Editable : IsFile(f)
  /\ ModelScript.name \in Seq(Pieces)
  /\ \A a \in Additions : a.name \in Seq(Pieces)

VARIABLES
  project,  \* the project file
  home,     \* its directory
  files,    \* the tree below it
  places,   \* the place file in the directory commands run in and in home
  job,      \* the files syncback has still to write
  taken,    \* history: the place syncback works on, and the tree it found
  outcome,  \* how the last syncback ended
  round,    \* history: builds and syncbacks in turn since the last edit
  edits     \* bound: the edits so far

vars == <<project, home, files, places, job, taken, outcome, round, edits>>

Init ==
  /\ project \in Projects
  /\ home \in {ResolveProjectPath(found, SkippedDirs) : found \in Homes} \ {None}
  /\ files \in Trees
  /\ places = [dir \in {<<>>, home} |-> None]
  /\ job = <<>> /\ outcome = "none"
  /\ taken = [place |-> {}, files |-> files, clean |-> FALSE]
  /\ round = 0 /\ edits = 0

Edited == edits < MaxEdits /\ edits' = edits + 1
Disturbed == taken' = [taken EXCEPT !.clean = FALSE]

(* A path is a file or a directory, not both.                              *)
Blocked(path) == \E f \in DOMAIN files : IsStrictPrefix(f, path) \/ IsStrictPrefix(path, f)

Put(f, s) == files' = [g \in DOMAIN files \cup {f} |-> IF g = f THEN s ELSE files[g]]

(* An editor writes or removes a file.                                     *)
EditFile ==
  /\ Edited /\ Disturbed /\ round' = 0
  /\ \E f \in Editable, s \in Contents : ~Blocked(f) /\ Put(f, s)
  /\ files' # files
  /\ UNCHANGED <<project, home, places, job, outcome>>

RemoveFile ==
  /\ Edited /\ Disturbed /\ round' = 0
  /\ \E f \in Editable \cap DOMAIN files : files' = Restrict(files, DOMAIN files \ {f})
  /\ UNCHANGED <<project, home, places, job, outcome>>

(* build puts the place beside the project file, syncback looks for it     *)
(* where the command runs.                                                 *)
Build ==
  /\ places' = [places EXCEPT ![home] = BuildPlace(project, files)]
  /\ round' = IF job = <<>> /\ round \in {0, 2} THEN round + 1 ELSE IF job = <<>> THEN round ELSE 0
  /\ UNCHANGED <<project, home, files, job, taken, outcome, edits>>

(* Studio changes a script or adds one below it, after the children there  *)
(* are ("~" is spelled last), and saves the place.                         *)
StudioEdit ==
  /\ Edited
  /\ places[<<>>] # None
  /\ \E i \in {j \in places[<<>>] : IsScript(j)}, s \in Contents :
        /\ s # i.source
        /\ places' = [places EXCEPT ![<<>>] =
                        {SavedByStudio(IF j = i THEN [j EXCEPT !.source = s] ELSE j) : j \in @}]
  /\ round' = IF round = 1 /\ job = <<>> THEN 1 ELSE 0
  /\ UNCHANGED <<project, home, files, job, taken, outcome>>

StudioAdd ==
  /\ Edited
  /\ places[<<>>] # None
  /\ \E i \in {j \in places[<<>>] : j.rank > 0}, a \in Additions :
        LET new == [id |-> Append(i.id, <<"~">> \o a.name), parent |-> i.id, rank |-> i.rank,
                    path |-> i.path \o a.name, class |-> a.class, source |-> a.source]
        IN  /\ \A j \in places[<<>>] : j.path # new.path
            /\ places' = [places EXCEPT ![<<>>] = {SavedByStudio(j) : j \in @} \cup {new}]
  /\ round' = IF round = 1 /\ job = <<>> THEN 1 ELSE 0
  /\ UNCHANGED <<project, home, files, job, taken, outcome>>

(* syncback reads the whole place first, then writes.                      *)
StartSyncback ==
  /\ job = <<>> /\ places[<<>>] # None
  /\ job' = SyncbackWrites(project, places[<<>>])
  /\ taken' = [place |-> places[<<>>], files |-> files, clean |-> TRUE]
  /\ outcome' = IF job' = <<>> THEN "done" ELSE "running"
  /\ round' = IF job' # <<>> /\ round \in {1, 3} THEN round ELSE 0
  /\ UNCHANGED <<project, home, files, places, edits>>

WriteScript ==
  /\ job # <<>>
  /\ ~Blocked(Head(job).path)
  /\ Put(Head(job).path, Head(job).source)
  /\ job' = Tail(job)
  /\ outcome' = IF Len(job) = 1 THEN "done" ELSE "running"
  /\ round' = IF Len(job) = 1 /\ round \in {1, 3} THEN round + 1 ELSE round
  /\ UNCHANGED <<project, home, places, taken, edits>>

(* The first file that cannot be written ends the command; a disk may      *)
(* refuse any.                                                             *)
WriteFails ==
  /\ job # <<>>
  /\ job' = <<>> /\ outcome' = "failed" /\ round' = 0
  /\ UNCHANGED <<project, home, files, places, taken, edits>>

Next ==
  \/ EditFile \/ RemoveFile \/ StudioEdit \/ StudioAdd
  \/ Build \/ StartSyncback \/ WriteScript \/ WriteFails

Spec == Init /\ [][Next]_vars

---------------------------------------------------------------------------
Hidden(path) == \E prefix \in Prefixes(path) : prefix \in project.ignored
WrittenTo(i) == SyncbackPath(project, taken.place, i)
IsMapped(i) == \E m \in Range(Mappings(project)) : m.path = i.path

SameScript(a, b) == a.path = b.path /\ a.class = b.class
Uncontested(place, inst) == \A j \in place \ {inst} : IsScript(j) => j.path # inst.path

(* Every script build makes of a file or a directory is a node of the      *)
(* source map, with that file, instance path and class: editors resolve    *)
(* what Studio will have (walk_dir against populate_from_dir).  Below a    *)
(* node that is mapped itself and has a mapping below it, of two siblings  *)
(* with one name the source map keeps one, though build may ignore it.     *)
SharesName(nodes, inst) ==
  \E a, b \in nodes : a # b /\ a.path = b.path /\ a.parent = b.parent /\ IsPrefix(a.id, inst.id)
NestedMappings == \E m, n \in Range(Mappings(project)) : IsStrictPrefix(m.path, n.path)

SourceMapShowsTheBuild ==
  LET map == GenerateSourcemap(project, files, FALSE)
      fromTree == {i \in BuildPlace(project, files) :
                     IsScript(i) /\ i.rank > 0 /\ (i.id \in DOMAIN files => IsLuau(Last(i.id)))}
  IN  \A i \in fromTree :
        \/ \E n \in map : n.id = i.id /\ n.path = i.path /\ n.class = i.class
        \/ NestedMappings /\ SharesName(Walked(project, files, FALSE), i)
        \/ \E m \in Range(Mappings(project)) : m.fs = i.id

(* What Studio has is what the next build has: once syncback is through,   *)
(* and nobody edited the tree meanwhile, building again gives each script  *)
(* of the place with the content it had there.  Of scripts written to one  *)
(* file the last one is, a script that is a mapped node itself is not read *)
(* by build, one that is named init is taken for its parent's, of the init *)
(* files of a directory the first one counts, and ignored files are not    *)
(* built.                                                                  *)
CountsFirst(f) == f = InitFile(Front(f), FirstInit(InitsOf(DOMAIN files, Front(f))))

ScriptsSurvive ==
  (outcome = "done" /\ taken.clean) =>
     \A i \in Written(project, taken.place) :
        (/\ ~IsMapped(i) /\ Last(i.path) # "init"
         /\ \A j \in Written(project, taken.place) : WrittenTo(j) = WrittenTo(i) => ~DomBefore(i, j)
         /\ IsInit(Last(WrittenTo(i))) => CountsFirst(WrittenTo(i))
         /\ ~Hidden(WrittenTo(i))) =>
        \E j \in BuildPlace(project, files) : SameScript(i, j) /\ j.source = SavedSource(i)

(* A script has its file's content when it comes from it, from the         *)
(* directory that makes the same script, or from a file of one name that   *)
(* is read before it.  What comes from elsewhere is a script that a model  *)
(* file holds, whose name has a dot or is init, or that a node is mapped   *)
(* to, and one of a kind spelled after the file's (A.toml after A.luau).   *)
DirectoryOf(f) == IF IsInit(Last(f)) THEN Front(f) ELSE Append(Front(f), Stem(Last(f)))

FromElsewhere(i, f) ==
  /\ i.id # f
  /\ i.id = DirectoryOf(f) => i.id \in DOMAIN taken.files
  /\ i.id \in DOMAIN taken.files =>
       \/ Front(i.id) # Front(f) \/ Content(i.id, taken.files).name # Stem(Last(f))
       \/ PathBefore(f, i.id) \/ IsInit(Last(f))
       \/ \E m \in Range(Mappings(project)) : m.fs = i.id

(* A place nobody touched gives nothing but what the tree has: written     *)
(* back, it leaves every file as it was, but for ignored files, for those  *)
(* that are not text, which it empties (main.rs:2999, 3026), and for those *)
(* that a script from elsewhere is written over, which has the instance    *)
(* path of another script, or whose file build does not read.              *)
Unchanged(f) == files[f] = taken.files[f]
Unreadable(f) == taken.files[f] = None

UneditedPlaceChangesNothing ==
  (outcome = "done" /\ taken.clean /\ taken.place = BuildPlace(project, taken.files)) =>
     \A f \in DOMAIN taken.files :
        \/ Unchanged(f) \/ Hidden(f) \/ Unreadable(f)
        \/ \E i \in Written(project, taken.place) :
              /\ WrittenTo(i) = f /\ FromElsewhere(i, f)
              /\ Uncontested(taken.place, i) => IsMapped(i) \/ Last(i.path) = "init"

(* What a first syncback wrote, a second build and syncback keep: no file  *)
(* is changed again but those named above, although syncback left the file *)
(* a script came from beside the one it wrote (A.luau beside A.lua or      *)
(* A/init.luau), so that build makes two scripts of it, the older content  *)
(* in one of them, and both are written to one file.                       *)
RoundTripSettles ==
  (round = 4 /\ job = <<>>) =>
     \A f \in DOMAIN taken.files :
        \/ Unchanged(f) \/ Hidden(f) \/ Unreadable(f)
        \/ \E i \in Written(project, taken.place) : WrittenTo(i) = f /\ FromElsewhere(i, f)

(* The inverse of build (docs/cli.md:92) gives the place again.            *)
SyncbackInvertsBuild ==
  (outcome = "done" /\ taken.clean /\ taken.place = BuildPlace(project, taken.files)) =>
     BuildPlace(project, files) = taken.place

(* A place that was built is there for syncback under the name it was      *)
(* built by (docs/cli.md:95).                                              *)
BuiltPlaceIsFound == places[home] # None => places[<<>>] # None

(* A syncback that meets no failing disk writes every script.              *)
NothingBlocks == job # <<>> => ~Blocked(Head(job).path)

(* Every Luau file below a mapping that is not ignored is the source of an *)
(* instance, of the first init file of a directory.                        *)
MappedScriptsAreBuilt ==
  \A i \in DOMAIN Mappings(project) :
    LET m == Mappings(project)[i]
        shown == {f \in Below(DOMAIN files, m.fs) : Shown(project, m, f) /\ IsLuau(Last(f))}
    IN  \A f \in shown : \E j \in BuildPlace(project, files) :
          j.source = files[f] /\ j.id \in {f, Front(f), DeclaredId(m.path)}
=============================================================================

----------------------------- MODULE PlaceFiles -----------------------------
(***************************************************************************)
(* What vsync build, vsync sourcemap and vsync syncback make of one        *)
(* project: the instances build puts into a place file, the nodes of the   *)
(* source map, and the file each script of a place is written back to.     *)
(* All three walk the same directories by rules of their own.              *)
(*                                                                         *)
(* files is a function from paths below the project root to texts, None    *)
(* for a file that is not UTF-8, which read_to_string refuses.  An         *)
(* instance is [id, parent, rank, path, class, source]: id is the path it  *)
(* comes from, or <<"@">> and its instance path when the project declares  *)
(* it; rank is the mapping it belongs to, 0 when it is declared; rank and  *)
(* id order the instances of a place as build inserts them; source is None *)
(* when build sets no Source.  project.ignored is what the globs of the    *)
(* project match among the paths at hand.  A directory that a mapping      *)
(* fills has no entry of the name of a node declared below it.             *)
(***************************************************************************)
EXTENDS ProjectFile, Functions

CONSTANTS ModelScript,  \* the one script a model file (.rbxm) holds: [name, class, source]
          Blank         \* the empty text

Below(files, root) == {f \in files : IsStrictPrefix(root, f)}
DirsOf(paths, root) == UNION {{SubSeq(f, 1, k) : k \in Len(root) + 1 .. Len(f) - 1} : f \in paths}

DeclaredId(path) == <<<<"@">>>> \o [i \in DOMAIN path |-> <<path[i]>>]
ParentId(mapping, path) == IF Front(path) = mapping.fs THEN DeclaredId(mapping.path) ELSE Front(path)
InstancePath(mapping, dir, name) ==
  mapping.path \o FlattenSeq(SubSeq(dir, Len(mapping.fs) + 1, Len(dir))) \o name

---------------------------------------------------------------------------
(* build.  A directory is built when some file below it is: the two walks  *)
(* of dir_has_buildable_content and populate_from_dir skip the same files. *)
Shown(project, mapping, f) ==
  \A k \in Len(mapping.fs) + 1 .. Len(f) : SubSeq(f, 1, k) \notin project.ignored

Buildable(project, mapping, files) ==
  {f \in Below(DOMAIN files, mapping.fs) : Shown(project, mapping, f) /\ Kind(Last(f)) # "meta.json"}

(* A slip in InitSource: every init file overwrites the one before it.     *)
InitSourceLast(project, files, dir) ==
  LET shown == {i \in InitsOf(DOMAIN files, dir) : InitFile(dir, i) \notin project.ignored}
  IN  IF shown = {} THEN None
      ELSE files[InitFile(dir, CHOOSE i \in shown : \A j \in shown : j <= i)]

(* The first init file that is there and shown counts, readable or not.    *)
InitSource(project, files, dir) ==
  LET shown == {i \in InitsOf(DOMAIN files, dir) : InitFile(dir, i) \notin project.ignored}
  IN  IF shown = {} THEN None ELSE files[InitFile(dir, FirstInit(shown))]

DirInstance(project, mapping, rank, files, dir) ==
  [id |-> dir, parent |-> ParentId(mapping, dir), rank |-> rank,
   path |-> InstancePath(mapping, dir, <<>>),
   class |-> ResolveContainerClass(DOMAIN files, dir), source |-> InitSource(project, files, dir)]

(* The name, class and source of a file's instance, which has no source    *)
(* when the file cannot be read; a model file stands for what it holds.    *)
(* That .jsonc files lose their comments is left out.                      *)
Content(f, files) ==
  LET name == Last(f)
  IN  CASE Kind(name) \in {"rbxm", "rbxmx"} -> ModelScript
        [] Kind(name) \in {"txt", "csv"} ->
             [name |-> Stem(name), class |-> ResolveInstanceClass(name), source |-> None]
        [] Kind(name) = "model.json" ->
             [name |-> Append(Stem(name), "model"), class |-> "ModuleScript", source |-> files[f]]
        [] OTHER -> [name |-> Stem(name), class |-> ResolveInstanceClass(name), source |-> files[f]]

FileInstance(mapping, rank, files, f) ==
  LET content == Content(f, files)
  IN  [id |-> f, parent |-> ParentId(mapping, f), rank |-> rank,
       path |-> InstancePath(mapping, Front(f), content.name),
       class |-> content.class, source |-> content.source]

PopulateFromDir(project, mapping, rank, files) ==
  LET shown == Buildable(project, mapping, files)
  IN  {DirInstance(project, mapping, rank, files, d) : d \in DirsOf(shown, mapping.fs)}
        \cup {FileInstance(mapping, rank, files, f) :
                f \in {g \in shown : ~IsInit(Last(g)) /\ Kind(Last(g)) \in (LuauKinds \cup OtherKinds) \ {"md"}}}

(* A mapping to one file puts an instance named after the file below the   *)
(* node that is mapped to it.                                              *)
PopulateFile(mapping, rank, files) ==
  {[id |-> mapping.fs, parent |-> DeclaredId(mapping.path), rank |-> rank,
    path |-> mapping.path \o ResolveInstanceName(Last(mapping.fs)),
    class |-> ResolveInstanceClass(Last(mapping.fs)), source |-> files[mapping.fs]]}

DeclaredInstances(project, mapping, rank) ==
  LET classes == NodeClasses(project)
  IN  {[id |-> DeclaredId(p), parent |-> DeclaredId(Front(p)), rank |-> 0, path |-> p, source |-> None,
        class |-> IF p \in DOMAIN classes THEN classes[p] ELSE mapping.class] :
         p \in Prefixes(mapping.path) \ {<<>>}}

BuildPlace(project, files) ==
  LET mappings == Mappings(project)
      filled(i) == LET m == mappings[i]
                   IN  CASE m.fs \notin DOMAIN files   -> PopulateFromDir(project, m, i, files)
                         [] m.fs \in DOMAIN files \cap project.ignored -> {}
                         [] OTHER                      -> PopulateFile(m, i, files)
  IN  UNION {DeclaredInstances(project, mappings[i], i) \cup filled(i) : i \in DOMAIN mappings}

---------------------------------------------------------------------------
(* sourcemap.  It looks at no globs and, but for include_non_scripts, at   *)
(* Luau files alone; directories are kept whatever they hold.              *)
(* A slip in MapDir: the init file of a directory is not looked for.       *)
MapDirFolder(mapping, rank, files, dir) ==
  [id |-> dir, parent |-> ParentId(mapping, dir), rank |-> rank, path |-> InstancePath(mapping, dir, <<>>),
   class |-> "Folder"]

MapDir(mapping, rank, files, dir) ==
  [id |-> dir, parent |-> ParentId(mapping, dir), rank |-> rank, path |-> InstancePath(mapping, dir, <<>>),
   class |-> ResolveContainerClass(DOMAIN files, dir)]

MapFile(mapping, rank, f) ==
  [id |-> f, parent |-> ParentId(mapping, f), rank |-> rank, class |-> FileClass(Last(f)),
   path |-> InstancePath(mapping, Front(f), InstanceNameFromFile(Last(f)))]

WalkDir(mapping, rank, files, nonScripts) ==
  LET all == Below(DOMAIN files, mapping.fs)
      kept == {f \in all : /\ IsLuau(Last(f)) \/ (nonScripts /\ Kind(Last(f)) # "meta.json")
                           /\ ~IsInit(Last(f))}
  IN  {MapDir(mapping, rank, files, d) : d \in DirsOf(all, mapping.fs)}
        \cup {MapFile(mapping, rank, f) : f \in kept}

(* A mapping below a mapped node sorts that node's children by name, and   *)
(* of two with one name keeps the last (insert_into_tree).                 *)
Displaced(project, nodes) ==
  LET sorted == {m.path : m \in {k \in Range(Mappings(project)) :
                                   \E n \in Range(Mappings(project)) : IsStrictPrefix(k.path, n.path)}}
  IN  {a \in nodes : \E b \in nodes \ {a} : /\ a.parent = b.parent /\ a.parent \in {DeclaredId(p) : p \in sorted}
                                            /\ a.path = b.path /\ PathBefore(a.id, b.id)}

Walked(project, files, nonScripts) ==
  LET mappings == Mappings(project)
  IN  UNION {WalkDir(mappings[i], i, files, nonScripts) :
               i \in {k \in DOMAIN mappings : mappings[k].fs \notin DOMAIN files}}

GenerateSourcemap(project, files, nonScripts) ==
  LET nodes == Walked(project, files, nonScripts)
  IN  {n \in nodes : \A d \in Displaced(project, nodes) : ~IsPrefix(d.id, n.id)}

---------------------------------------------------------------------------
(* A place file (.rbxl) has a property for all instances of a class or for *)
(* none: where one script of a class has a Source, the others read blank.  *)
IsScript(inst) == inst.class \in ScriptClasses
HasSource(place, inst) == \E j \in place : j.class = inst.class /\ j.source # None
SavedSource(inst) == IF inst.source = None THEN Blank ELSE inst.source

(* A place that Studio saved has a Source in every script.                 *)
SavedByStudio(inst) == IF IsScript(inst) THEN [inst EXCEPT !.source = SavedSource(inst)] ELSE inst

---------------------------------------------------------------------------
(* syncback.  The nearest mapped ancestor gives the directory; a script    *)
(* with children is written as an init file only right below it.           *)
ScriptKind(class) ==
  CASE class = "Script" -> "server.luau" [] class = "LocalScript" -> "client.luau" [] OTHER -> "luau"

HasChildren(place, inst) == \E j \in place : j.parent = inst.id

Containing(project, path) == {m \in Range(Mappings(project)) : IsPrefix(m.path, path)}
Longest(mappings) == CHOOSE m \in mappings : \A n \in mappings : IsPrefix(n.path, m.path)

InitOf(dir, inst) == dir \o <<<<"init", ScriptKind(inst.class)>>>>

(* A slip in SyncbackPath: a script with children is not looked for.       *)
SyncbackPathLeaf(project, place, inst) ==
  IF Containing(project, inst.path) = {} THEN None
  ELSE LET mapping == Longest(Containing(project, inst.path))
           suffix == SubSeq(inst.path, Len(mapping.path) + 1, Len(inst.path))
           names == [i \in DOMAIN suffix |-> <<suffix[i]>>]
       IN  IF suffix = <<>> THEN InitOf(mapping.fs, inst)
           ELSE mapping.fs \o Front(names) \o <<<<Last(suffix), "luau">>>>

SyncbackPath(project, place, inst) ==
  IF Containing(project, inst.path) = {} THEN None
  ELSE LET mapping == Longest(Containing(project, inst.path))
           suffix == SubSeq(inst.path, Len(mapping.path) + 1, Len(inst.path))
           names == [i \in DOMAIN suffix |-> <<suffix[i]>>]
       IN  CASE suffix = <<>> -> InitOf(mapping.fs, inst)
             [] Len(suffix) = 1 /\ HasChildren(place, inst) -> InitOf(mapping.fs \o names, inst)
             [] OTHER -> mapping.fs \o Front(names) \o <<<<Last(suffix), ScriptKind(inst.class)>>>>

Written(project, place) ==
  {i \in place : IsScript(i) /\ HasSource(place, i) /\ SyncbackPath(project, place, i) # None}

DomBefore(a, b) == a.rank < b.rank \/ (a.rank = b.rank /\ PathBefore(a.id, b.id))

(* A slip in InDomOrder: children are visited last to first.               *)
InDomOrderReversed(insts) ==
  InOrder(insts, LAMBDA a, b : a.rank < b.rank \/ (a.rank = b.rank /\ PathBefore(b.id, a.id)))

InDomOrder(insts) == InOrder(insts, DomBefore)

SyncbackWrites(project, place) ==
  LET order == InDomOrder(Written(project, place))
  IN  [k \in DOMAIN order |-> [path |-> SyncbackPath(project, place, order[k]), source |-> SavedSource(order[k])]]
=============================================================================

---------------------------- MODULE ProjectFile ----------------------------
(***************************************************************************)
(* default.project.json and the rules it is read with: where it is found,  *)
(* the mappings and classes its tree declares, and the class and name of   *)
(* the instance a file stands for (project.rs, and their twins in          *)
(* main.rs).                                                               *)
(*                                                                         *)
(* A file or directory name is the sequence of the pieces between its      *)
(* dots, a file's last piece being its kind: <<"A", "server.luau">>, <<"A">>*)
(* for a directory.  A path is a sequence of names.  An instance path is   *)
(* the sequence of the pieces between its dots, which is all the code      *)
(* keeps of it.                                                            *)
(***************************************************************************)
EXTENDS Naturals, FiniteSets, SequencesExt

CONSTANTS Spelling,  \* every piece, in the order of their spelling
          None       \* an optional value that is absent

(* "@" and "~" mark the instances that come from no file.                  *)
Pieces == Range(Spelling) \ {"@", "~"}
Names == Seq(Pieces) \ {<<>>}

LuauKinds == {"server.luau", "server.lua", "client.luau", "client.lua", "luau", "lua"}
OtherKinds == {"meta.json", "model.json", "json", "jsonc", "yaml", "yml", "toml", "txt", "csv", "rbxm", "rbxmx", "md"}
ScriptClasses == {"Script", "LocalScript", "ModuleScript"}

Kind(name) == Last(name)
Stem(name) == Front(name)
IsInit(name) == Head(name) = "init"
IsLuau(name) == Kind(name) \in LuauKinds

---------------------------------------------------------------------------
(* Orders: of names, piece by piece, and of paths, name by name.           *)
Place(piece) == CHOOSE i \in DOMAIN Spelling : Spelling[i] = piece

Precedes(s, t, Before(_, _)) ==
  \/ IsStrictPrefix(s, t)
  \/ \E i \in DOMAIN s \cap DOMAIN t : /\ \A j \in 1 .. i - 1 : s[j] = t[j]
                                       /\ Before(s[i], t[i])

(* SetToSortSeq of SequencesExt goes through every sequence of the set.    *)
InOrder(S, Before(_, _)) ==
  [k \in 1 .. Cardinality(S) |-> CHOOSE x \in S : Cardinality({y \in S : Before(y, x)}) = k - 1]

NameBefore(a, b) == Precedes(a, b, LAMBDA p, q : Place(p) < Place(q))
PathBefore(a, b) == Precedes(a, b, NameBefore)

---------------------------------------------------------------------------
(* The class and the name a file gives its instance (resolve_instance_class*)
(* and resolve_instance_name), and those the source map gives it           *)
(* (file_class and instance_name_from_file, whose tables differ).          *)
ResolveInstanceClass(name) ==
  CASE Kind(name) \in {"server.luau", "server.lua"} -> "Script"
    [] Kind(name) \in {"client.luau", "client.lua"} -> "LocalScript"
    [] Kind(name) = "meta.json"                     -> "Skip"
    [] Kind(name) = "txt"                           -> "StringValue"
    [] Kind(name) = "csv"                           -> "LocalizationTable"
    [] Kind(name) \in {"rbxm", "rbxmx"}             -> "Model"
    [] OTHER                                        -> "ModuleScript"

ResolveInstanceName(name) == IF IsLuau(name) THEN Stem(name) ELSE name

FileClass(name) ==
  CASE Kind(name) \in {"server.luau", "server.lua"} -> "Script"
    [] Kind(name) \in {"client.luau", "client.lua"} -> "LocalScript"
    [] Kind(name) = "model.json"                    -> "Folder"
    [] Kind(name) = "txt"                           -> "StringValue"
    [] Kind(name) = "csv"                           -> "LocalizationTable"
    [] OTHER                                        -> "ModuleScript"

InstanceNameFromFile(name) ==
  IF Kind(name) \in LuauKinds \cup {"model.json", "json", "txt", "csv"} THEN Stem(name) ELSE name

(* Init files make a script of their directory, the first of these to be   *)
(* there.  build takes class and source from lists of their own, in the    *)
(* same order.                                                             *)
InitKinds == <<"server.luau", "server.lua", "client.luau", "client.lua", "luau", "lua">>
InitFile(dir, i) == dir \o <<<<"init", InitKinds[i]>>>>
InitsOf(files, dir) == {i \in DOMAIN InitKinds : InitFile(dir, i) \in files}
FirstInit(inits) == CHOOSE i \in inits : \A j \in inits : i <= j

ResolveContainerClass(files, dir) ==
  IF InitsOf(files, dir) = {} THEN "Folder"
  ELSE ResolveInstanceClass(Last(InitFile(dir, FirstInit(InitsOf(files, dir)))))

---------------------------------------------------------------------------
(* A project is [name, tree]; its tree is a set of nodes                   *)
(* [path, class, fs, ignore], each optional but the path; the root's path  *)
(* is empty.  A node without a class is of the class it is named for, and  *)
(* one that does not say ignore does as its nearest ancestor that does.    *)
Orphan(node) == node.path = <<>>

Says(project, path) == {n \in project.tree : IsPrefix(n.path, path) /\ n.ignore # None}
Nearest(nodes) == CHOOSE n \in nodes : \A m \in nodes : IsPrefix(m.path, n.path)
IgnoreUnknown(project, path) ==
  Says(project, path) # {} /\ Nearest(Says(project, path)).ignore

NodeClass(node) ==
  CASE node.class # None                 -> node.class
    [] node.class = None /\ Orphan(node) -> "DataModel"
    [] OTHER                             -> Last(node.path)

Mapping(project, node) ==
  [fs |-> node.fs, class |-> NodeClass(node), ignoreUnknown |-> IgnoreUnknown(project, node.path),
   path |-> IF Orphan(node) THEN <<project.name>> ELSE node.path]

Mappings(project) ==
  LET nodes == InOrder({n \in project.tree : n.fs # None},
                       LAMBDA a, b : Precedes(a.path, b.path, LAMBDA p, q : Place(p) < Place(q)))
  IN  [i \in DOMAIN nodes |-> Mapping(project, nodes[i])]

NodeClasses(project) ==
  [path \in {n.path : n \in project.tree \ {m \in project.tree : Orphan(m)}} |->
     NodeClass(CHOOSE n \in project.tree : n.path = path)]

(* The roots the snapshot and the watchers look at: the first name of each *)
(* mapped path, or src when nothing is mapped.                             *)
Includes(project) ==
  LET mapped == {Head(n.fs) : n \in {m \in project.tree : m.fs # None}}
  IN  IF mapped = {} THEN {<<"src">>} ELSE mapped

(* The project file a command works with, None when it gives up.  found is *)
(* a set of directories holding a default.project.json.                    *)
MaxDepth == 4
Searched(dir, skipped) ==
  Len(dir) <= MaxDepth /\ \A i \in DOMAIN dir : dir[i] \notin skipped

ResolveProjectPath(found, skipped) ==
  LET nested == {d \in found : d # <<>> /\ Searched(d, skipped)}
  IN  CASE <<>> \in found          -> <<>>
        [] Cardinality(nested) = 1 /\ <<>> \notin found -> CHOOSE d \in nested : TRUE
        [] OTHER                   -> None
=============================================================================

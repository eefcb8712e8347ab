-------------------------- MODULE MCProjectCommands ------------------------
(***************************************************************************)
(* The commands that run over a project again and again: install, and the  *)
(* round of build, syncback and sourcemap.  None of these reads what the   *)
(* other writes: a behaviour is about one of them.                         *)
(*                                                                         *)
(* Packages: three, of which the first needs the second and, from its      *)
(* version 2 on, the third; the second needs the first.                    *)
(*                                                                         *)
(* Projects: a plain mapping, a mapping below another, ignored files, a    *)
(* mapped script and a mapping to one file.  Trees: scripts two and three  *)
(* levels deep, init files, .lua, .json and model files, two files of one  *)
(* name and files that are not text.                                       *)
(***************************************************************************)
EXTENDS PackageInstall, RoundTrip, TLC

VARIABLE subject   \* what the behaviour is about

CONSTANTS a, b, c

Req(p, versions) == [pkg |-> p, accepts |-> versions]
Wally(p, versions) == [kind |-> "simple", pkg |-> p, accepts |-> versions]
Other(p) == [kind |-> "registry", pkg |-> p, accepts |-> {1, 2}]
Branch == [kind |-> "branch"]
Rev(n) == [kind |-> "rev", rev |-> n]

MCDeclared == {
  << Wally(a, {1, 2}) >>,
  << Wally(b, {1}), Wally(a, {1, 2}) >>,
  << Other(c), Wally(b, {2}) >>,
  << Branch, [kind |-> "path"] >>,
  << Rev(2) >> }

MCNeeds == (<<a, 1>> :> {Req(b, {1, 2})}) @@ (<<a, 2>> :> {Req(b, {1, 2}), Req(c, {1})})
           @@ [x \in {b} \X {1, 2} |-> {Req(a, {1, 2})}] @@ [x \in {c} \X {1, 2} |-> {}]

MCSpelling == <<"@", "A", "B", "Game", "Lib", "M", "Packages", "Server", "Z", "client.luau", "config",
                "init", "json", "lib", "lua", "luau", "md", "meta.json", "model", "rbxm", "server.luau", "src", "toml", "~">>

src == <<"src">>
A == <<"A">>
B == <<"B">>
P(dirs, name) == <<src>> \o dirs \o <<name>>

Node(path, fs) == [path |-> path, class |-> None, fs |-> fs, ignore |-> None]

PlainProject ==
  [name |-> "Game", ignored |-> {},
   tree |-> {[path |-> <<"Server">>, class |-> "Folder", fs |-> <<src>>, ignore |-> TRUE]}]
NestedProject ==
  [name |-> "Game", ignored |-> {},
   tree |-> {[path |-> <<"Server">>, class |-> "Folder", fs |-> <<src>>, ignore |-> None],
             Node(<<"Server", "Lib">>, <<<<"lib">>>>)}]
IgnoringProject ==
  [name |-> "Game", ignored |-> {P(<<>>, <<"A", "luau">>), P(<<A>>, B)},
   tree |-> {Node(<<>>, None), Node(<<"Server">>, <<src>>)}]
LibraryProject ==
  [name |-> "Game", ignored |-> {},
   tree |-> {[path |-> <<>>, class |-> "ModuleScript", fs |-> <<src>>, ignore |-> None]}]
FileProject ==
  [name |-> "Game", ignored |-> {},
   tree |-> {[path |-> <<"Server">>, class |-> "Folder", fs |-> <<src>>, ignore |-> TRUE],
             Node(<<"M">>, <<<<"config", "luau">>>>)}]

MixedProject == [NestedProject EXCEPT !.ignored = {P(<<>>, <<"A", "lua">>)}]

MCProjects == {MixedProject, PlainProject, NestedProject, IgnoringProject, LibraryProject, FileProject}

A_luau == P(<<>>, <<"A", "luau">>)
A_lua == P(<<>>, <<"A", "lua">>)
A_server == P(<<>>, <<"A", "server.luau">>)
A_toml == P(<<>>, <<"A", "toml">>)
A_json == P(<<>>, <<"A", "json">>)
A_init == P(<<A>>, <<"init", "luau">>)
A_client == P(<<A>>, <<"init", "client.luau">>)
AB_luau == P(<<A>>, <<"B", "luau">>)
AB_init == P(<<A, B>>, <<"init", "luau">>)
ABM_luau == P(<<A, B>>, <<"M", "luau">>)
AdotB == P(<<>>, <<"A", "B", "luau">>)
AdotB_init == P(<<<<"A", "B">>>>, <<"init", "luau">>)
InitDir == P(<<<<"init">>>>, <<"init", "luau">>)
TopInit == P(<<>>, <<"init", "luau">>)
Z_model == P(<<>>, <<"Z", "rbxm">>)
Notes == P(<<B>>, <<"M", "md">>)
Config == <<<<"config", "luau">>>>
LibM == <<<<"lib">>, <<"M", "luau">>>>

(* Init files of two kinds, and two files of one stem, differ in content.  *)
Tree(paths) == [f \in paths |-> IF Kind(Last(f)) = "luau" THEN "one" ELSE "two"]
TreeUnreadable(paths, broken) == [f \in paths |-> IF f \in broken THEN None ELSE Tree(paths)[f]]

MCTrees ==
  {TreeUnreadable({A_luau, AB_luau, A_toml}, {A_luau}), TreeUnreadable({A_init, A_client, AB_luau}, {A_client}),
   TreeUnreadable({A_init, A_luau, ABM_luau}, {A_init, ABM_luau})} \cup
  {Tree(paths) : paths \in {
     {A_luau, A_server, LibM}, {A_lua, AB_luau}, {A_init, AB_luau, A_json}, {A_init, A_client, A_luau},
     {AB_init, ABM_luau}, {A_luau, A_lua, A_toml}, {AdotB_init, AB_luau}, {InitDir, TopInit}, {A_init, AB_init, ABM_luau}, {Z_model, A_luau, Notes}, {AdotB, AB_luau, Config}}}

MCEditable == {A_luau, AB_luau, AB_init}
MCContents == {"one", "two"}
MCAdditions == {[name |-> <<"M">>, class |-> "Script", source |-> "one"]}
MCModelScript == [name |-> <<"M">>, class |-> "ModuleScript", source |-> "model"]

MCHomes == {{<<>>}, {<<>>, <<<<"Game">>>>}, {<<<<"Game">>>>, <<<<"Packages">>, A>>},
            {<<<<"Game">>>>, <<A>>}, {<<A, A, A, A, A>>}}
MCSkippedDirs == {<<"Packages">>}

(* No file, and no way to go on.                                           *)
NoRound ==
  /\ project = LibraryProject /\ home = <<>> /\ files = [f \in {} |-> None]
  /\ places = [dir \in {<<>>} |-> None]
  /\ job = <<>> /\ outcome = "none"
  /\ taken = [place |-> {}, files |-> files, clean |-> FALSE]
  /\ round = 0 /\ edits = MaxEdits

MCInit ==
  /\ subject \in {"packages", "place"}
  /\ InstallInit /\ (subject # "packages" => deps = << Branch, [kind |-> "path"] >>)
  /\ IF subject = "place" THEN Init ELSE NoRound

MCNext ==
  /\ UNCHANGED subject
  /\ \/ subject = "packages" /\ InstallNext /\ UNCHANGED vars
     \/ subject = "place" /\ Next /\ UNCHANGED installVars

MCVars == <<subject, installVars, vars>>
MCSpec == MCInit /\ [][MCNext]_MCVars
=============================================================================

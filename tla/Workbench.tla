----------------------------- MODULE Workbench -----------------------------
(***************************************************************************)
(* The commands that write into a developer's files: vsync init with its   *)
(* templates, migrate, fmt, validate --fix, login, publish, plugin-install *)
(* and plugin set-icon.  They run side by side and beside an editor, may   *)
(* be killed at any point, and none of them locks anything.                *)
(*                                                                         *)
(* A command is the list of what it has yet to do to the files.  A file is *)
(* who wrote its text and which of the qualities below the text has; one   *)
(* script stands for the files under the includes, which the checks read,  *)
(* and tests for those elsewhere in the project, which are packed unread.  *)
(***************************************************************************)
EXTENDS Naturals, Sequences

CONSTANTS Workers,     \* the processes commands run in
          Registries,  \* the registries there are tokens for
          MaxStarted,  \* bound: commands started
          MaxSaves,    \* bound: files saved by the developer
          MaxAborts    \* bound: commands killed

(* An icon is told from a registry where both are noted.                   *)
ASSUME RegistriesAssumption == Registries # {} /\ "icon" \notin Registries

VARIABLES
  disk,      \* what each file holds
  todo,      \* the steps each command has left
  held,      \* the file each command read last
  context,   \* the configuration each command goes by
  package,   \* the configuration each publish began with
  judged,    \* the scripts, with the configuration, each command found good
  writing,   \* the file each command has emptied and is to fill, and with what
  published, \* what was sent to a registry
  saved,     \* history: the developer's last version of each file
  granted,   \* history: registries someone logged in to, and "icon" if the
             \* installed plugin was given one
  overtaken, \* history: files two of them were at, or whose writer was killed
  started, aborts, ran  \* bounds and the commands started

benchVars == <<disk, todo, held, context, package, judged, writing, published, saved, granted, overtaken, started, aborts, ran>>

Files == {"project", "config", "script", "tests", "tokens", "plugin"}

(* project and config: parses.  config: stub, the scaffold's commented     *)
(* realm; described, has its metadata; complete, can be published; lenient,*)
(* turns the rule strict-mode off.  script, tests: parses; tidy, is        *)
(* formatted; strict, has no error validate knows.  tokens: its registries.*)
(* plugin, in Studio's folder: line, it has the line of the toolbar icon;  *)
(* icon, which is one the user chose.                                      *)
Text(by, version, form) == [by |-> by, version |-> version, form |-> form]
Absent == Text("nobody", 0, {})

(* An empty project file is not JSON; an empty configuration is the        *)
(* default one, an empty store of tokens the empty one, and an empty       *)
(* script is formatted.                                                    *)
Emptied(f) ==
  Text("nobody", 0, CASE f = "config" -> {"parses"} [] f \in {"script", "tests"} -> {"parses", "tidy"} [] OTHER -> {})

Scaffold ==
  [project |-> Text("init", 0, {"parses"}),
   config  |-> Text("init", 0, {"parses", "stub"}),
   script  |-> Text("init", 0, {"parses", "tidy", "strict"}),
   tests   |-> Text("init", 0, {"parses", "tidy", "strict"})]
Migrated == Text("migrate", 0, {"parses", "described", "complete"})
Installed == Text("install", 0, {"line"})

(* What the developer may save.                                            *)
Saves ==
  [project |-> {{"parses"}},
   config  |-> {{"parses", "complete"}, {"parses", "complete", "lenient"}, {"stub"}},
   script  |-> {{"parses", "tidy", "strict"}, {"parses", "strict"}, {"parses", "tidy"}, {"strict"}},
   tests   |-> {{"parses"}}]

(* What each command does to the files, in order.                          *)
RunInit == <<<<"create", "project">>, <<"create", "config">>, <<"create", "script">>, <<"create", "tests">>>>
Library == RunInit \o <<<<"load", "config">>, <<"realm", "config">>, <<"load", "config">>, <<"fields", "config">>>>
Plugin == RunInit \o <<<<"replace", "project">>, <<"load", "config">>, <<"realm", "config">>>>
Fmt == <<<<"context", "config">>, <<"load", "script">>, <<"format", "script">>>>
FmtCheck == <<<<"context", "config">>, <<"load", "script">>, <<"check", "script">>>>
ValidateFix == <<<<"context", "config">>, <<"load", "script">>, <<"fix", "script">>, <<"load", "script">>, <<"validate", "script">>>>
ValidateOnly == <<<<"context", "config">>, <<"load", "script">>, <<"validate", "script">>>>

(* A slip in Publish: what is sent is packed before it is validated.       *)
PublishPackedEarly ==
  <<<<"context", "config">>, <<"metadata", "config">>>> \o FmtCheck \o <<<<"pack", "script">>>> \o ValidateOnly

(* Each command publish calls reads the configuration anew.                *)
Publish ==
  <<<<"context", "config">>, <<"metadata", "config">>>> \o FmtCheck \o ValidateOnly \o <<<<"pack", "script">>>>

(* An unknown template is refused when the default one is there.           *)
Program ==
  [init |-> RunInit, library |-> Library, plugin |-> Plugin, unknown |-> RunInit,
   migrate |-> <<<<"migrate", "config">>>>, fmt |-> Fmt, fix |-> ValidateFix, publish |-> Publish,
   login |-> <<<<"load", "tokens">>, <<"login", "tokens">>>>,
   install |-> <<<<"install", "plugin">>>>, icon |-> <<<<"load", "plugin">>, <<"icon", "plugin">>>>]

BenchInit ==
  /\ \E form \in Saves["script"] :
       disk \in {[f \in Files |-> Absent],
                 [f \in Files |-> CASE f \in {"project", "tests"} -> Scaffold[f]
                                    [] f = "config" -> Text("init", 0, {"parses", "complete"})
                                    [] f = "script" -> Text("init", 0, form)
                                    [] f = "plugin" -> Installed
                                    [] OTHER -> Text("login", 0, {CHOOSE r \in Registries : TRUE})]}
  /\ todo = [w \in Workers |-> <<>>] /\ writing = todo
  /\ held = [w \in Workers |-> Absent] /\ context = held /\ package = held
  /\ judged = [w \in Workers |-> {}] /\ published = {}
  /\ saved = [f \in Files |-> 0] /\ overtaken = {}
  /\ granted = disk["tokens"].form
  /\ started = 0 /\ aborts = 0 /\ ran = {}

Begin(w) ==
  /\ todo[w] = <<>> /\ writing[w] = <<>>
  /\ started < MaxStarted /\ started' = started + 1
  /\ \E command \in DOMAIN Program :
        todo' = [todo EXCEPT ![w] = Program[command]] /\ ran' = ran \cup {command}
  /\ held' = [held EXCEPT ![w] = Absent]
  /\ judged' = [judged EXCEPT ![w] = {}]
  /\ UNCHANGED <<disk, context, package, writing, published, saved, granted, overtaken, aborts>>

(* The command's next step is op, and nothing is half written.             *)
At(w, op) == todo[w] # <<>> /\ writing[w] = <<>> /\ todo[w][1][1] = op
Its(w) == todo[w][1][2]
Advance(w) == todo' = [todo EXCEPT ![w] = Tail(@)]
GiveUp(w) == todo' = [todo EXCEPT ![w] = <<>>]

(* fs::write empties the file before it writes.                            *)
Empty(w, f, text) ==
  /\ disk' = [disk EXCEPT ![f] = Emptied(f)]
  /\ writing' = [writing EXCEPT ![w] = <<f, text>>]

(* A file that was read is written back from what was read: whoever wrote  *)
(* it meanwhile, or is writing it, is overtaken.                           *)
WriteBack(w, f, text) ==
  /\ Empty(w, f, text)
  /\ overtaken' = IF disk[f] # held[w] \/ \E v \in Workers : writing[v] # <<>> /\ writing[v][1] = f
                    THEN overtaken \cup {f} ELSE overtaken

Fill(w) ==
  /\ writing[w] # <<>>
  /\ disk' = [disk EXCEPT ![writing[w][1]] = writing[w][2]]
  /\ writing' = [writing EXCEPT ![w] = <<>>]
  /\ UNCHANGED <<todo, held, context, package, judged, published, saved, granted, overtaken, started, aborts, ran>>

(* A slip in Create: the file is written without a look.                   *)
CreateAnyway(w) ==
  /\ At(w, "create") /\ Advance(w)
  /\ Empty(w, Its(w), Scaffold[Its(w)])
  /\ UNCHANGED <<held, context, package, judged, published, saved, granted, overtaken, started, aborts, ran>>

(* write_if_missing: create_new looks and creates in one.                  *)
Create(w) ==
  /\ At(w, "create") /\ Advance(w)
  /\ IF disk[Its(w)] = Absent THEN Empty(w, Its(w), Scaffold[Its(w)]) ELSE UNCHANGED <<disk, writing>>
  /\ UNCHANGED <<held, context, package, judged, published, saved, granted, overtaken, started, aborts, ran>>

(* The files of the other tools may be unreadable; a configuration that is *)
(* there stays.                                                            *)
Migrate(w) ==
  /\ At(w, "migrate") /\ Advance(w)
  /\ \/ disk["config"] = Absent /\ Empty(w, "config", Migrated)
     \/ UNCHANGED <<disk, writing>>
  /\ UNCHANGED <<held, context, package, judged, published, saved, granted, overtaken, started, aborts, ran>>

(* A template passes over a configuration that is not there.               *)
Load(w) ==
  /\ At(w, "load")
  /\ held' = [held EXCEPT ![w] = disk[Its(w)]]
  /\ IF Its(w) = "config" /\ disk["config"] = Absent THEN GiveUp(w) ELSE Advance(w)
  /\ UNCHANGED <<disk, context, package, judged, writing, published, saved, granted, overtaken, started, aborts, ran>>

(* The templates give the realm, when the scaffold's line is there.  What  *)
(* a library is to add is settled on the text before.                      *)
Realm(w) ==
  /\ At(w, "realm")
  /\ IF "described" \in held[w].form THEN GiveUp(w) ELSE Advance(w)
  /\ IF "stub" \in held[w].form
       THEN WriteBack(w, "config", [held[w] EXCEPT !.form = (@ \ {"stub"}) \cup {"complete"}])
       ELSE UNCHANGED <<disk, writing, overtaken>>
  /\ UNCHANGED <<held, context, package, judged, published, saved, granted, started, aborts, ran>>

(* The additions are put after the scaffold's line, or appended.           *)
Fields(w) ==
  /\ At(w, "fields") /\ Advance(w)
  /\ IF "stub" \in held[w].form
       THEN WriteBack(w, "config", [held[w] EXCEPT !.form = @ \cup {"described"}])
       ELSE /\ disk' = [disk EXCEPT !["config"].form = @ \cup {"described"}]
            /\ UNCHANGED <<writing, overtaken>>
  /\ UNCHANGED <<held, context, package, judged, published, saved, granted, started, aborts, ran>>

(* The plugin template's project file replaces what is there.              *)
Replace(w) ==
  /\ At(w, "replace") /\ Advance(w)
  /\ Empty(w, "project", Text("plugin", 0, {"parses"}))
  /\ UNCHANGED <<held, context, package, judged, published, saved, granted, overtaken, started, aborts, ran>>

(* resolve_project_context: a project file must be there and parse, the    *)
(* configuration parse if it is there.                                     *)
Context(w) ==
  /\ At(w, "context")
  /\ IF "parses" \in disk["project"].form /\ (disk["config"] = Absent \/ "parses" \in disk["config"].form)
       THEN Advance(w) /\ context' = [context EXCEPT ![w] = disk["config"]]
       ELSE GiveUp(w) /\ UNCHANGED context
  /\ UNCHANGED <<disk, held, package, judged, writing, published, saved, granted, overtaken, started, aborts, ran>>

Metadata(w) ==
  /\ At(w, "metadata")
  /\ IF "complete" \in context[w].form THEN Advance(w) ELSE GiveUp(w)
  /\ package' = [package EXCEPT ![w] = context[w]]
  /\ UNCHANGED <<disk, held, context, judged, writing, published, saved, granted, overtaken, started, aborts, ran>>

(* A script that does not parse is reported, and no more.                  *)
Unformatted(script) == "parses" \in script.form /\ "tidy" \notin script.form

Format(w) ==
  /\ At(w, "format") /\ Advance(w)
  /\ IF Unformatted(held[w])
       THEN WriteBack(w, "script", [held[w] EXCEPT !.form = @ \cup {"tidy"}])
       ELSE UNCHANGED <<disk, writing, overtaken>>
  /\ UNCHANGED <<held, context, package, judged, published, saved, granted, started, aborts, ran>>

Fix(w) ==
  /\ At(w, "fix") /\ Advance(w)
  /\ IF held[w] # Absent /\ "strict" \notin held[w].form
       THEN WriteBack(w, "script", [held[w] EXCEPT !.form = @ \cup {"strict"}])
       ELSE UNCHANGED <<disk, writing, overtaken>>
  /\ UNCHANGED <<held, context, package, judged, published, saved, granted, started, aborts, ran>>

Judge(w, good) ==
  /\ IF good THEN Advance(w) ELSE GiveUp(w)
  /\ judged' = [judged EXCEPT ![w] = @ \cup {<<held[w], context[w]>>}]
  /\ UNCHANGED <<disk, held, context, package, writing, published, saved, granted, overtaken, started, aborts, ran>>

Check(w) == At(w, "check") /\ Judge(w, ~Unformatted(held[w]))

(* A rule the configuration turns off finds nothing.                       *)
Valid(script, config) ==
  script = Absent \/ "strict" \in script.form \/ "lenient" \in config.form
Validate(w) == At(w, "validate") /\ Judge(w, Valid(held[w], context[w]))

(* Every source file under the project's root goes into the archive, as    *)
(* the disk has it by then, whether or not a check read it.                *)
Packed(w) ==
  [script |-> disk["script"], tests |-> disk["tests"], config |-> disk["config"],
   package |-> package[w], judged |-> judged[w]]

(* Without a token nothing is sent; the registry may refuse.               *)
Pack(w) ==
  /\ At(w, "pack") /\ Advance(w)
  /\ \/ /\ disk["tokens"].form # {}
        /\ published' = published \cup {Packed(w)}
     \/ UNCHANGED published
  /\ UNCHANGED <<disk, held, context, package, judged, writing, saved, granted, overtaken, started, aborts, ran>>

(* A slip in Login: the store is begun anew.                               *)
LoginAlone(w) ==
  /\ At(w, "login") /\ Advance(w)
  /\ \E r \in Registries :
        WriteBack(w, "tokens", Text("login", 0, {r})) /\ granted' = granted \cup {r}
  /\ UNCHANGED <<held, context, package, judged, published, saved, started, aborts, ran>>

(* set_token adds to the store it loaded.                                  *)
Login(w) ==
  /\ At(w, "login") /\ Advance(w)
  /\ \E r \in Registries :
        WriteBack(w, "tokens", Text("login", 0, held[w].form \cup {r})) /\ granted' = granted \cup {r}
  /\ UNCHANGED <<held, context, package, judged, published, saved, started, aborts, ran>>

(* The plugin's text comes with the program, and replaces what is there.   *)
Install(w) ==
  /\ At(w, "install") /\ Advance(w)
  /\ Empty(w, "plugin", Installed)
  /\ granted' = granted \ {"icon"}
  /\ UNCHANGED <<held, context, package, judged, published, saved, overtaken, started, aborts, ran>>

(* Without a plugin, or its line, there is nothing to change.              *)
SetIcon(w) ==
  /\ At(w, "icon") /\ Advance(w)
  /\ IF "line" \in held[w].form
       THEN /\ WriteBack(w, "plugin", [held[w] EXCEPT !.form = @ \cup {"icon"}])
            /\ granted' = granted \cup {"icon"}
       ELSE UNCHANGED <<disk, writing, overtaken, granted>>
  /\ UNCHANGED <<held, context, package, judged, published, saved, started, aborts, ran>>

(* The developer saves a file, and what a command is writing to it then    *)
(* ends up over it.                                                        *)
Save(f) ==
  /\ saved["project"] + saved["config"] + saved["script"] + saved["tests"] < MaxSaves
  /\ saved' = [saved EXCEPT ![f] = @ + 1]
  /\ \E form \in Saves[f] : disk' = [disk EXCEPT ![f] = Text("developer", saved'[f], form)]
  /\ overtaken' = IF \E w \in Workers : writing[w] # <<>> /\ writing[w][1] = f
                    THEN overtaken \cup {f} ELSE overtaken \ {f}
  /\ UNCHANGED <<todo, held, context, package, judged, writing, published, granted, started, aborts, ran>>

(* A command is killed, or cannot write.                                   *)
Abort(w) ==
  /\ todo[w] # <<>> \/ writing[w] # <<>>
  /\ aborts < MaxAborts /\ aborts' = aborts + 1
  /\ GiveUp(w)
  /\ overtaken' = IF writing[w] # <<>> THEN overtaken \cup {writing[w][1]} ELSE overtaken
  /\ writing' = [writing EXCEPT ![w] = <<>>]
  /\ UNCHANGED <<disk, held, context, package, judged, published, saved, granted, started, ran>>

BenchStep(w) ==
  \/ Begin(w) \/ Create(w) \/ Migrate(w) \/ Load(w) \/ Realm(w) \/ Fields(w) \/ Replace(w)
  \/ Context(w) \/ Metadata(w) \/ Format(w) \/ Fix(w) \/ Check(w) \/ Validate(w)
  \/ Pack(w) \/ Login(w) \/ Install(w) \/ SetIcon(w) \/ Fill(w)

BenchNext == (\E w \in Workers : BenchStep(w) \/ Abort(w)) \/ \E f \in DOMAIN Saves : Save(f)

BenchSpec == BenchInit /\ [][BenchNext]_benchVars

---------------------------------------------------------------------------
AtRest(f) == f \notin overtaken /\ \A w \in Workers : writing[w] # <<>> => writing[w][1] # f

SavesSurvive ==
  \A f \in DOMAIN Saves :
     AtRest(f) /\ saved[f] > 0 /\ (f = "project" => "plugin" \notin ran)
       => disk[f].by = "developer" /\ disk[f].version = saved[f]
TokensSurvive == AtRest("tokens") => granted \ {"icon"} \subseteq disk["tokens"].form
IconSurvives == AtRest("plugin") /\ "icon" \in granted => "icon" \in disk["plugin"].form

(* What the developer saved last is what a file holds, formatted, fixed or *)
(* filled in at most, however many commands ran meanwhile and whenever     *)
(* init and migrate looked for the file; a login keeps the tokens of the   *)
(* other registries, and the plugin its icon until it is installed anew.   *)
(* Left out are files that two were at, or whose writer was killed, since  *)
(* each is read, emptied and written, and the project file once the plugin *)
(* template has been there.                                                *)
NothingSavedIsLost == SavesSurvive /\ TokensSurvive /\ IconSurvives

(* Of what is sent to a registry, the configuration and the scripts under  *)
(* the includes were checked: when those that were packed are those every  *)
(* check saw, the metadata are complete, the script is formatted or does   *)
(* not parse, and validation finds no error.  Nothing ties the package to  *)
(* what was checked but that no one saved in between; and of the files     *)
(* elsewhere (tests), which are sent unread, nothing is said here.         *)
PublishedWasChecked ==
  \A p \in published :
     p.package = p.config /\ p.judged \subseteq {<<p.script, p.config>>}
       => /\ "complete" \in p.config.form
          /\ ~Unformatted(p.script)
          /\ Valid(p.script, p.config)

(* What build_package_zip's comment says it includes: the files at the     *)
(* root of the project and under src, and so none of those elsewhere.      *)
OnlySourcesAreSent == \A p \in published : p.tests = Absent
=============================================================================

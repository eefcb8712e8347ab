--------------------------- MODULE MCCommandLine ---------------------------
(* The commands share no state in the program but the files, which each of *)
(* these modules has its own view of: a behaviour is about one of them.    *)
EXTENDS Watch, Workbench, BlockStructure

VARIABLE subject   \* what the behaviour is about

MCRoots == <<"Server", "Client">>

NoWatch ==
  /\ mode = "poll" /\ phase = "ended"
  /\ tree = [r \in Range(IncludeRoots) |-> 0] /\ output = tree
  /\ watched = {} /\ posted = 0 /\ channel = 0 /\ scan = <<>>
  /\ unheard = {} /\ dropped = FALSE
  /\ changes = MaxChanges /\ failures = MaxFailures

NoFiles == disk = [f \in Files |-> Absent]

MCInit ==
  /\ subject \in {"tree", "files", "lines"}
  /\ IF subject = "tree" THEN WatchInit ELSE NoWatch
  /\ BenchInit /\ (subject # "files" => NoFiles)
  /\ BlockInit

MCNext ==
  /\ UNCHANGED subject
  /\ \/ subject = "tree" /\ WatchNext /\ UNCHANGED <<benchVars, file>>
     \/ subject = "files" /\ BenchNext /\ UNCHANGED <<watchVars, file>>
     \/ subject = "lines" /\ TypeLine /\ UNCHANGED <<watchVars, benchVars>>

MCVars == <<subject, watchVars, benchVars, file>>
MCSpec == MCInit /\ [][MCNext]_MCVars /\ WatchFairness
=============================================================================

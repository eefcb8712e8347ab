---------------------------- MODULE PackageInstall --------------------------
(***************************************************************************)
(* `vsync install`: it collects the dependencies a project declares,       *)
(* resolves those it does not know with all that they need in turn,        *)
(* downloads the packages, unpacks them one by one, and saves the lockfile *)
(* after each.  Between two steps the process may be killed; what is on    *)
(* disk stays.  Between two runs others may delete packages or the cache,  *)
(* and the registry and a git repository move on.                          *)
(*                                                                         *)
(* A package's checksum is the package and its version.  A requirement is  *)
(* the set of versions it accepts.  Fewer than eight packages are looked   *)
(* for at a time, so that the code's chunks are whole batches.             *)
(***************************************************************************)
EXTENDS Naturals, Sequences, SequencesExt, FiniteSets, Functions

CONSTANTS
  Pkgs,       (* names of packages in the registry                          *)
  Declared,   (* lists of dependencies a project may declare, in map order  *)
  Needs,      (* per package and version: the requirements it declares      *)
  Latest,     (* highest version a package may reach                        *)
  MaxRetries, (* of retry_async, 3 in the code                              *)
  MaxRuns,    (* bound on the runs                                          *)
  MaxChanges  (* bound on what others do between runs                       *)

Versions == 1..Latest
Nothing == 0                (* not locked, or no such directory              *)
Partial == Latest + 1       (* a directory that is not filled                *)

(* DependencySpec: from the default registry, from another one, from git   *)
(* (at a branch, or at a revision), or a path.                             *)
Requirements == [pkg : Pkgs, accepts : SUBSET Versions]
Dependencies ==
  [kind : {"simple", "registry"}, pkg : Pkgs, accepts : SUBSET Versions]
    \cup [kind : {"branch"}] \cup [kind : {"rev"}, rev : Versions] \cup [kind : {"path"}]

ASSUME InstallAssumption ==
  /\ Latest \in Nat \ {0} /\ MaxRetries \in Nat
  /\ MaxRuns \in Nat /\ MaxChanges \in Nat
  /\ Declared \subseteq Seq(Dependencies)
  /\ Needs \in [Pkgs \X Versions -> SUBSET Requirements]
  /\ \A x \in Pkgs \X Versions : IsFiniteSet(Needs[x])

VARIABLES
  deps,       (* the project's dependencies                                 *)
  published,  (* per package, its highest version; so for the git branch    *)
  lock,       (* vsync.lock: per package the version                        *)
  cache,      (* ~/.vsync/cache: the archives                               *)
  packages,   (* Packages/: per package the version, or Partial             *)
  clone,      (* ~/.vsync/git: commits fetched, and the one the branch is at *)
  copied,     (* Packages/<alias> of the git dependency                     *)
  run,        (* the process                                                *)
  runs,       (* how many were started                                      *)
  changes,    (* how often others changed something                         *)
  intact      (* for the properties: all runs ended well, and nobody        *)
              (* deleted packages                                           *)

disk == <<lock, cache, packages, clone, copied>>
world == <<deps, published>>
counts == <<runs, changes, intact>>
installVars == <<world, disk, run, counts>>

Repo == "repo"
NoClone == [commits |-> {}, tip |-> Nothing]

(* todo: dependencies to collect.  work: a batch of packages under way,    *)
(* with what each still has to try; finished: their order of arrival.      *)
(* known: resolved_names.  found: pending_download.  left: downloaded.     *)
Rest == [at |-> "idle", todo |-> << >>, pending |-> << >>, work |-> << >>,
         finished |-> << >>, known |-> {}, found |-> << >>, left |-> << >>, tries |-> 0]

InstallInit ==
  /\ deps \in Declared
  /\ published = [p \in Pkgs \cup {Repo} |-> 1]
  /\ lock = [p \in Pkgs |-> Nothing] /\ packages = [p \in Pkgs |-> Nothing]
  /\ cache = {} /\ clone = NoClone /\ copied = Nothing
  /\ run = Rest
  /\ runs = 0 /\ changes = 0 /\ intact = TRUE

-----------------------------------------------------------------------------
At(phase) == run.at = phase
Idle == run.at \in {"idle", "done", "failed"}

StartInstall ==
  /\ Idle /\ runs < MaxRuns
  /\ run' = [Rest EXCEPT !.at = "collecting", !.todo = deps]
  /\ runs' = runs + 1
  /\ UNCHANGED <<world, disk, changes, intact>>

(* bail!, or an error handed up: nothing is undone.                        *)
Abandon ==
  /\ run' = [Rest EXCEPT !.at = "failed"]
  /\ intact' = FALSE
  /\ UNCHANGED <<world, disk, runs, changes>>

Continue(record) ==
  /\ run' = record
  /\ UNCHANGED <<world, disk, counts>>

(* is_cached of the checksum in the lockfile.  Neither the version that is *)
(* asked for nor the directory is looked at.                               *)
Cached(p) == lock[p] # Nothing /\ <<p, lock[p]>> \in cache

NextIs(kind) == At("collecting") /\ run.todo # << >> /\ Head(run.todo).kind = kind
Collected == [run EXCEPT !.todo = Tail(@)]

CollectSimple ==
  LET d == Head(run.todo) IN
  /\ NextIs("simple")
  /\ IF Cached(d.pkg)
       THEN Continue(Collected)
       ELSE Continue([Collected EXCEPT !.pending = Append(@, [pkg |-> d.pkg, accepts |-> d.accepts])])

(* Path dependencies are only checked to exist.                            *)
CollectPath == NextIs("path") /\ (Continue(Collected) \/ Abandon)

-----------------------------------------------------------------------------
(* Git dependencies: clone or fetch, check out, copy.  A first clone is    *)
(* shallow; --unshallow fails on a clone that is not, which is ignored.    *)
IsRev == Head(run.todo).kind = "rev"
NextGit == At("collecting") /\ run.todo # << >> /\ Head(run.todo).kind \in {"branch", "rev"}

Fetched ==
  IF ~IsRev THEN clone.commits \cup (clone.tip + 1)..published[Repo]
  ELSE IF 1 \in clone.commits THEN clone.commits ELSE 1..published[Repo]

CloneOrFetch ==
  /\ NextGit
  /\ clone' = IF clone = NoClone
                THEN [commits |-> {published[Repo]}, tip |-> published[Repo]]
                ELSE [clone EXCEPT !.commits = Fetched]
  /\ run' = [run EXCEPT !.at = "cloned"]
  /\ UNCHANGED <<world, lock, cache, packages, copied, counts>>
CloneFails == NextGit /\ Abandon

(* A checkout of the branch is the local one, where it was when cloned.    *)
Wanted == IF IsRev THEN Head(run.todo).rev ELSE clone.tip

CheckOut ==
  /\ At("cloned")
  /\ IF Wanted \in clone.commits THEN Continue([run EXCEPT !.at = "checked_out"]) ELSE Abandon

(* copy_dir_recursive into a directory that was removed before.            *)
ClearCopy ==
  /\ At("checked_out")
  /\ copied' = Partial
  /\ run' = [run EXCEPT !.at = "copying"]
  /\ UNCHANGED <<world, lock, cache, packages, clone, counts>>
FillCopy ==
  /\ At("copying")
  /\ copied' = Wanted
  /\ run' = [Collected EXCEPT !.at = "collecting"]
  /\ UNCHANGED <<world, lock, cache, packages, clone, counts>>

-----------------------------------------------------------------------------
(* A slip in Offered: what is required is taken to exist.                  *)
OfferedUnseen(w) == w.accepts

(* retry_async: an attempt fails, and MaxRetries more are made.            *)
Offered(w) == w.accepts \cap 1..published[w.pkg]
Job(w) == [pkg |-> w.pkg, accepts |-> w.accepts, ver |-> Nothing, tries |-> 0, busy |-> TRUE]

Highest(S) == CHOOSE v \in S : \A u \in S : u <= v

(* select_version; without a version that is accepted the run ends.        *)
Selected(job) == [job EXCEPT !.ver = Highest(Offered(job)), !.busy = FALSE]

(* A dependency from another registry is resolved, downloaded, unpacked    *)
(* and locked on the spot; what it needs in turn is not looked at.         *)
CollectRegistry ==
  LET d == Head(run.todo)
      r == [pkg |-> d.pkg, accepts |-> d.accepts]
  IN
  /\ NextIs("registry")
  /\ IF Cached(d.pkg) THEN Continue(Collected)
     ELSE \/ Abandon
          \/ /\ Offered(r) # {}
             /\ Continue([run EXCEPT !.at = "unpacking",
                            !.left = <<[pkg |-> d.pkg, ver |-> Highest(Offered(r))]>>])

(* Everything is cached: the fast path.  The lockfile is saved once more   *)
(* at the end, as it is by then.                                           *)
FastPath ==
  /\ At("collecting") /\ run.todo = << >> /\ run.pending = << >>
  /\ Continue([Rest EXCEPT !.at = "done"])
Finish ==
  /\ At("unpacking") /\ run.todo = << >> /\ run.left = << >>
  /\ Continue([Rest EXCEPT !.at = "done"])

StartResolving ==
  /\ At("collecting") /\ run.todo = << >> /\ run.pending # << >>
  /\ Continue([run EXCEPT !.at = "resolving", !.known = {p \in Pkgs : Cached(p)},
                 !.work = [i \in DOMAIN run.pending |-> Job(run.pending[i])]])

Busy(i) == run.work[i].busy
Arrived(i, job) == [run EXCEPT !.work = [@ EXCEPT ![i] = job], !.finished = Append(@, i)]
Retried(i) == [run.work[i] EXCEPT !.tries = @ + 1]

(* A query or a download that comes back, and one that fails.              *)
QueryArrives(i) ==
  /\ At("resolving") /\ Busy(i)
  /\ IF Offered(run.work[i]) = {} THEN Abandon ELSE Continue(Arrived(i, Selected(run.work[i])))

DownloadArrives(i) ==
  /\ At("downloading") /\ Busy(i)
  /\ Continue(Arrived(i, [run.work[i] EXCEPT !.busy = FALSE]))

AttemptFails(i) ==
  /\ run.at \in {"resolving", "downloading"} /\ Busy(i)
  /\ IF run.work[i].tries = MaxRetries
       THEN Abandon
       ELSE Continue([run EXCEPT !.work = [@ EXCEPT ![i] = Retried(i)]])

(* The batch is resolved: what its packages need and nobody has asked for  *)
(* becomes the next one.  A package's own name is noted when its turn      *)
(* comes, so that a neighbour in the batch may ask for it once more.       *)
AsFinished == [n \in DOMAIN run.finished |-> run.work[run.finished[n]]]
Demands(n) == Needs[<<AsFinished[n].pkg, AsFinished[n].ver>>]
PkgsOf(list) == {list[n].pkg : n \in DOMAIN list}

(* resolved_names when the first n packages have been looked at.           *)
Noted(n) ==
  run.known \cup {AsFinished[m].pkg : m \in 1..n} \cup UNION {{r.pkg : r \in Demands(m)} : m \in 1..n}

(* A slip in Asked: names are noted before they are looked up.             *)
AskedTooLate(n) == {r \in Demands(n) : r.pkg \notin Noted(n)}

(* What the n-th asks for; of two requirements of one package, the first.  *)
Asked(n) == {r \in Demands(n) : r.pkg \notin Noted(n - 1) \cup {AsFinished[n].pkg}}
Once(S) == {r \in S : r = CHOOSE q \in S : q.pkg = r.pkg}

NextBatch == SetToSeq(UNION {Once(Asked(n)) : n \in DOMAIN run.finished})
AllArrived == Range(run.finished) = DOMAIN run.work
Again(job) == [job EXCEPT !.tries = 0, !.busy = TRUE]

ExpandBatch ==
  LET found == run.found \o AsFinished
      known == Noted(Len(run.finished))
  IN
  /\ At("resolving") /\ AllArrived
  /\ IF NextBatch # << >>
       THEN Continue([run EXCEPT !.known = known, !.found = found,
                        !.work = [n \in DOMAIN NextBatch |-> Job(NextBatch[n])], !.finished = << >>])
       ELSE Continue([run EXCEPT !.at = "downloading", !.known = known, !.found = << >>,
                        !.work = [n \in DOMAIN found |-> Again(found[n])], !.finished = << >>])

StartUnpacking ==
  /\ At("downloading") /\ AllArrived
  /\ Continue([run EXCEPT !.at = "unpacking", !.work = << >>, !.finished = << >>,
                 !.left = [i \in DOMAIN AsFinished |-> [pkg |-> AsFinished[i].pkg, ver |-> AsFinished[i].ver]]])

-----------------------------------------------------------------------------
(* The archive goes to the cache; the directory is removed and filled from *)
(* it; the lockfile is replaced (Lockfile::save renames a temporary file   *)
(* into place).  An archive that cannot be unpacked ends the run.          *)
Item == Head(run.left)

(* A slip in CacheArchive: the lockfile is saved when the archive is.      *)
CacheAndLock ==
  /\ At("unpacking") /\ run.left # << >>
  /\ cache' = cache \cup {<<Item.pkg, Item.ver>>}
  /\ lock' = [lock EXCEPT ![Item.pkg] = Item.ver]
  /\ run' = [run EXCEPT !.at = "archived"]
  /\ UNCHANGED <<world, packages, clone, copied, counts>>

CacheArchive ==
  /\ At("unpacking") /\ run.left # << >>
  /\ cache' = cache \cup {<<Item.pkg, Item.ver>>}
  /\ run' = [run EXCEPT !.at = "archived"]
  /\ UNCHANGED <<world, lock, packages, clone, copied, counts>>

ClearPackage ==
  /\ At("archived")
  /\ packages' = [packages EXCEPT ![Item.pkg] = Partial]
  /\ run' = [run EXCEPT !.at = "extracting"]
  /\ UNCHANGED <<world, lock, cache, clone, copied, counts>>

FillPackage ==
  /\ At("extracting")
  /\ packages' = [packages EXCEPT ![Item.pkg] = Item.ver]
  /\ run' = [run EXCEPT !.at = "extracted"]
  /\ UNCHANGED <<world, lock, cache, clone, copied, counts>>

UnpackFails == run.at \in {"unpacking", "archived", "extracting"} /\ run.left # << >> /\ Abandon

(* The package's entry, if there is one, is replaced.                      *)
Saved(item) == [lock EXCEPT ![item.pkg] = item.ver]

SaveLock ==
  /\ At("extracted")
  /\ lock' = Saved(Item)
  /\ run' = IF run.todo # << >>
              THEN [Collected EXCEPT !.at = "collecting", !.left = << >>]
              ELSE [run EXCEPT !.at = "unpacking", !.left = Tail(@)]
  /\ UNCHANGED <<world, cache, packages, clone, copied, counts>>

-----------------------------------------------------------------------------
Kill ==
  /\ ~Idle
  /\ run' = Rest
  /\ intact' = FALSE
  /\ UNCHANGED <<world, disk, runs, changes>>

(* An archive is deleted; the project is checked out afresh; the registry  *)
(* and the repository get new versions.                                    *)
Change == Idle /\ changes < MaxChanges /\ changes' = changes + 1 /\ UNCHANGED <<deps, run, runs>>

DeleteArchive(x) ==
  /\ Change /\ cache' = cache \ {x}
  /\ UNCHANGED <<published, lock, packages, clone, copied, intact>>
FreshCheckout ==
  /\ Change
  /\ packages' = [p \in Pkgs |-> Nothing] /\ copied' = Nothing /\ intact' = FALSE
  /\ UNCHANGED <<published, lock, cache, clone>>
Publish(p) ==
  /\ Change /\ published[p] < Latest
  /\ published' = [published EXCEPT ![p] = @ + 1]
  /\ UNCHANGED <<disk, intact>>

InstallStep ==
  \/ CollectSimple \/ CollectPath \/ CollectRegistry
  \/ CloneOrFetch \/ CloneFails \/ CheckOut \/ ClearCopy \/ FillCopy
  \/ StartResolving \/ ExpandBatch \/ StartUnpacking \/ FastPath \/ Finish
  \/ \E i \in DOMAIN run.work : QueryArrives(i) \/ DownloadArrives(i) \/ AttemptFails(i)
  \/ CacheArchive \/ ClearPackage \/ FillPackage \/ UnpackFails \/ SaveLock

InstallNext ==
  \/ StartInstall \/ InstallStep \/ Kill
  \/ \E x \in cache : DeleteArchive(x)
  \/ FreshCheckout \/ \E p \in Pkgs \cup {Repo} : Publish(p)

InstallSpec == InstallInit /\ [][InstallNext]_installVars

-----------------------------------------------------------------------------
(* Every variable keeps its type; the clone holds the commit its branch is *)
(* at, and what is unpacked was published.                                 *)
InstallTypeOK ==
  /\ deps \in Declared /\ published \in [Pkgs \cup {Repo} -> Versions]
  /\ lock \in [Pkgs -> Versions \cup {Nothing}]
  /\ packages \in [Pkgs -> Versions \cup {Nothing, Partial}]
  /\ copied \in Versions \cup {Nothing, Partial}
  /\ \A p \in Pkgs : packages[p] # Partial => packages[p] <= published[p]
  /\ cache \subseteq {<<p, v>> : p \in Pkgs, v \in Versions}
  /\ clone # NoClone => clone.tip \in clone.commits
  /\ runs \in 0..MaxRuns /\ changes \in 0..MaxChanges

(* The lockfile only ever comes to name a version whose archive is in the  *)
(* cache and which is unpacked whole, whenever the process is killed and   *)
(* whatever fails (the order of phase 4, Lockfile::save after each         *)
(* package).                                                               *)
LockFollowsPackages ==
  [][\A p \in Pkgs : lock'[p] # lock[p] =>
       packages[p] = lock'[p] /\ <<p, lock'[p]>> \in cache]_installVars

Simple == {d \in Range(deps) : d.kind = "simple"}
Registry == {d \in Range(deps) : d.kind = "registry"}
Installed(p) == lock[p] # Nothing /\ packages[p] = lock[p]

Complete ==
  /\ \A d \in Simple \cup Registry : Installed(d.pkg)
  /\ \A p \in Pkgs \ {d.pkg : d \in Registry} :
       lock[p] # Nothing => \A r \in Needs[<<p, lock[p]>>] : Installed(r.pkg)

(* As long as every run ends well and nobody deletes packages, a run that  *)
(* succeeds leaves the project with all it needs: every dependency and     *)
(* every dependency of a locked package is locked, and unpacked in the     *)
(* version that is locked, through lost archives, new versions and        *)
(* circular dependencies.  Only what packages of another registry need is  *)
(* not looked for (phases 1 to 4 of install).                              *)
GoodRunsAreComplete == At("done") /\ intact => Complete

(* The same of any run that succeeds: what it says is cached it has        *)
(* extracted from the cache, and what an earlier run did not get to is     *)
(* installed now.  The code does not keep this.                            *)
SuccessMeansInstalled == At("done") => \A d \in Simple : packages[d.pkg] \in Versions
=============================================================================

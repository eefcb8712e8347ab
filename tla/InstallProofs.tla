---------------------------- MODULE InstallProofs ----------------------------
(***************************************************************************)
(* Proofs about PackageInstall, for any packages, dependencies, numbers of *)
(* runs and of kills.                                                      *)
(*                                                                         *)
(* What the lockfile comes to name is on disk: while one package is worked *)
(* on, the phase the process is in says how far its archive and its        *)
(* directory are; nobody else touches them before the process has ended.   *)
(*                                                                         *)
(* A run that succeeds is complete: a package is met when it is locked, or *)
(* when the run has asked for it and not locked it yet.  What was met      *)
(* stays met, what a run notes or locks has its needs met, and at the end  *)
(* nothing is left to lock.                                                *)
(***************************************************************************)
EXTENDS PackageInstall, SequenceTheorems, FiniteSetTheorems, WellFoundedInduction, TLAPS

Shaped ==
  /\ lock = [p \in Pkgs |-> lock[p]]
  /\ packages = [p \in Pkgs |-> packages[p]]
  /\ run = [at |-> run.at, todo |-> run.todo, pending |-> run.pending, work |-> run.work,
            finished |-> run.finished, known |-> run.known, found |-> run.found,
            left |-> run.left, tries |-> run.tries]

ArchiveKept ==
  run.at \in {"archived", "extracting", "extracted"} => <<Item.pkg, Item.ver>> \in cache
Unpacked ==
  run.at = "extracted" /\ Item.pkg \in Pkgs => packages[Item.pkg] = Item.ver

InstallInv == Shaped /\ ArchiveKept /\ Unpacked

InHand == {"archived", "extracting", "extracted"}

-----------------------------------------------------------------------------
LEMMA InstallInvInit == InstallInit => InstallInv
  BY DEF InstallInit, InstallInv, Shaped, ArchiveKept, Unpacked, Rest

(* A step that neither touches lockfile and directories nor has a package  *)
(* in hand.                                                                *)
LEMMA OutOfHand ==
  ASSUME InstallInv, UNCHANGED <<lock, packages>>, run'.at \notin InHand,
         run' = [at |-> run'.at, todo |-> run'.todo, pending |-> run'.pending, work |-> run'.work,
                 finished |-> run'.finished, known |-> run'.known, found |-> run'.found,
                 left |-> run'.left, tries |-> run'.tries]
  PROVE  InstallInv'
  BY DEF InstallInv, Shaped, ArchiveKept, Unpacked, InHand

LEMMA AbandonKeeps == InstallInv /\ Abandon => InstallInv'
  BY OutOfHand DEF Abandon, Rest, InHand, disk

(* Collecting, resolving and downloading only change the process's notes.  *)
LEMMA NotesKeep ==
  ASSUME InstallInv, NEW record, Continue(record), record.at \notin InHand,
         record = [at |-> record.at, todo |-> record.todo, pending |-> record.pending,
                   work |-> record.work, finished |-> record.finished, known |-> record.known,
                   found |-> record.found, left |-> record.left, tries |-> record.tries]
  PROVE  InstallInv'
  BY OutOfHand DEF Continue, disk

LEMMA CollectingKeeps ==
  ASSUME InstallInv, CollectSimple \/ CollectPath \/ CollectRegistry
  PROVE  InstallInv'
<1>1. run.at = "collecting" /\ Collected.at = "collecting"
  BY DEF CollectSimple, CollectPath, CollectRegistry, NextIs, At, Collected, InstallInv, Shaped
<1>2. CASE CollectSimple
  <2>1. CASE Continue(Collected)
    BY <1>1, <2>1, NotesKeep DEF Collected, InstallInv, Shaped, InHand
  <2>2. CASE ~Continue(Collected)
    <3>1. PICK a : Continue([Collected EXCEPT !.pending = a])
      BY <1>2, <2>2 DEF CollectSimple
    <3> QED
      BY <1>1, <3>1, OutOfHand DEF Continue, disk, Collected, InstallInv, Shaped, InHand
  <2> QED
    BY <2>1, <2>2
<1>3. CASE CollectPath
  BY <1>1, <1>3, NotesKeep, AbandonKeeps DEF CollectPath, Collected, InstallInv, Shaped, InHand
<1>4. CASE CollectRegistry
  <2>1. CASE Continue(Collected) \/ Abandon
    BY <1>1, <2>1, NotesKeep, AbandonKeeps DEF Collected, InstallInv, Shaped, InHand
  <2>2. CASE ~(Continue(Collected) \/ Abandon)
    <3>1. PICK l : Continue([run EXCEPT !.at = "unpacking", !.left = l])
      BY <1>4, <2>2 DEF CollectRegistry
    <3> QED
      BY <3>1, OutOfHand DEF Continue, disk, InstallInv, Shaped, InHand
  <2> QED
    BY <2>1, <2>2
<1> QED
  BY <1>2, <1>3, <1>4

LEMMA GitKeeps ==
  ASSUME InstallInv, CloneOrFetch \/ CloneFails \/ CheckOut \/ ClearCopy \/ FillCopy
  PROVE  InstallInv'
<1>1. CASE CloneOrFetch
  BY <1>1, OutOfHand DEF CloneOrFetch, InstallInv, Shaped, InHand
<1>2. CASE CloneFails
  BY <1>2, AbandonKeeps DEF CloneFails
<1>3. CASE CheckOut
  <2>1. [run EXCEPT !.at = "checked_out"].at \notin InHand
    BY DEF InstallInv, Shaped, InHand
  <2> QED
    BY <1>3, <2>1, NotesKeep, AbandonKeeps DEF CheckOut, InstallInv, Shaped
<1>4. CASE ClearCopy
  BY <1>4, OutOfHand DEF ClearCopy, InstallInv, Shaped, InHand
<1>5. CASE FillCopy
  BY <1>5, OutOfHand DEF FillCopy, Collected, InstallInv, Shaped, InHand
<1> QED
  BY <1>1, <1>2, <1>3, <1>4, <1>5

LEMMA ResolvingKeeps ==
  ASSUME InstallInv,
         \/ StartResolving \/ ExpandBatch \/ StartUnpacking \/ FastPath \/ Finish
         \/ \E i \in DOMAIN run.work : QueryArrives(i) \/ DownloadArrives(i) \/ AttemptFails(i)
  PROVE  InstallInv'
<1>1. CASE StartResolving
  <2>1. PICK k, w : Continue([run EXCEPT !.at = "resolving", !.known = k, !.work = w])
    BY <1>1 DEF StartResolving
  <2> QED
    BY <2>1, OutOfHand DEF Continue, disk, InstallInv, Shaped, InHand
<1>2. CASE ExpandBatch
  <2>1. PICK k, f, w, n :
          \/ Continue([run EXCEPT !.known = k, !.found = f, !.work = w, !.finished = n])
          \/ Continue([run EXCEPT !.at = "downloading", !.known = k, !.found = f, !.work = w,
                                  !.finished = n])
    BY <1>2 DEF ExpandBatch
  <2>2. run.at = "resolving"
    BY <1>2 DEF ExpandBatch, At
  <2> QED
    BY <2>1, <2>2, OutOfHand DEF Continue, disk, InstallInv, Shaped, InHand
<1>3. CASE StartUnpacking
  <2>1. PICK l : Continue([run EXCEPT !.at = "unpacking", !.work = << >>, !.finished = << >>, !.left = l])
    BY <1>3 DEF StartUnpacking
  <2> QED
    BY <2>1, OutOfHand DEF Continue, disk, InstallInv, Shaped, InHand
<1>4. CASE FastPath \/ Finish
  BY <1>4, OutOfHand DEF FastPath, Finish, Continue, disk, Rest, InHand
<1>5. ASSUME NEW i \in DOMAIN run.work, QueryArrives(i) \/ DownloadArrives(i) PROVE InstallInv'
  <2>1. run.at \in {"resolving", "downloading"}
    BY <1>5 DEF QueryArrives, DownloadArrives, At
  <2>2. Abandon \/ \E job : Continue(Arrived(i, job))
    BY <1>5 DEF QueryArrives, DownloadArrives
  <2>3. ASSUME NEW job, Continue(Arrived(i, job)) PROVE InstallInv'
    BY <2>1, <2>3, OutOfHand DEF Arrived, Continue, disk, InstallInv, Shaped, InHand
  <2> QED
    BY <2>2, <2>3, AbandonKeeps
<1>6. ASSUME NEW i \in DOMAIN run.work, AttemptFails(i) PROVE InstallInv'
  <2>1. run.at \in {"resolving", "downloading"}
    BY <1>6 DEF AttemptFails
  <2>2. Abandon \/ \E w : Continue([run EXCEPT !.work = w])
    BY <1>6 DEF AttemptFails
  <2>3. ASSUME NEW w, Continue([run EXCEPT !.work = w]) PROVE InstallInv'
    BY <2>1, <2>3, OutOfHand DEF Continue, disk, InstallInv, Shaped, InHand
  <2> QED
    BY <2>2, <2>3, AbandonKeeps
<1> QED
  BY <1>1, <1>2, <1>3, <1>4, <1>5, <1>6

(* The four steps of one package, in the order the code takes them.        *)
LEMMA UnpackingKeeps ==
  ASSUME InstallInv, CacheArchive \/ ClearPackage \/ FillPackage \/ UnpackFails \/ SaveLock
  PROVE  InstallInv'
<1>1. CASE CacheArchive
  <2>1. run'.at = "archived" /\ Item' = Item /\ <<Item.pkg, Item.ver>> \in cache'
    BY <1>1 DEF CacheArchive, Item, InstallInv, Shaped
  <2> QED
    BY <1>1, <2>1 DEF CacheArchive, InstallInv, Shaped, ArchiveKept, Unpacked
<1>2. CASE ClearPackage
  <2>1. run'.at = "extracting" /\ Item' = Item /\ cache' = cache
    BY <1>2 DEF ClearPackage, Item, InstallInv, Shaped
  <2> QED
    BY <1>2, <2>1 DEF ClearPackage, At, InstallInv, Shaped, ArchiveKept, Unpacked
<1>3. CASE FillPackage
  <2>1. run'.at = "extracted" /\ Item' = Item /\ cache' = cache
    BY <1>3 DEF FillPackage, Item, InstallInv, Shaped
  <2>2. Item.pkg \in Pkgs => packages'[Item.pkg] = Item.ver
    BY <1>3 DEF FillPackage, InstallInv, Shaped
  <2> QED
    BY <1>3, <2>1, <2>2 DEF FillPackage, At, InstallInv, Shaped, ArchiveKept, Unpacked
<1>4. CASE UnpackFails
  BY <1>4, AbandonKeeps DEF UnpackFails
<1>5. CASE SaveLock
  <2>1. run'.at \in {"collecting", "unpacking"}
    BY <1>5 DEF SaveLock, Collected, InstallInv, Shaped
  <2>2. Shaped'
    BY <1>5 DEF SaveLock, Saved, Collected, InstallInv, Shaped
  <2> QED
    BY <2>1, <2>2 DEF InstallInv, ArchiveKept, Unpacked
<1> QED
  BY <1>1, <1>2, <1>3, <1>4, <1>5

(* Others only change the disk while no process runs.                      *)
LEMMA OthersKeep ==
  ASSUME InstallInv, (\E x \in cache : DeleteArchive(x)) \/ FreshCheckout
                       \/ \E p \in Pkgs \cup {Repo} : Publish(p)
  PROVE  InstallInv'
<1>1. run' = run /\ run.at \notin InHand
  BY DEF DeleteArchive, FreshCheckout, Publish, Change, Idle, InHand
<1>2. lock' = lock /\ (packages' = packages \/ packages' = [p \in Pkgs |-> Nothing])
  BY DEF DeleteArchive, FreshCheckout, Publish, disk
<1> QED
  BY <1>1, <1>2 DEF InstallInv, Shaped, ArchiveKept, Unpacked, InHand

LEMMA InstallInvStep == InstallInv /\ [InstallNext]_installVars => InstallInv'
<1> SUFFICES ASSUME InstallInv, [InstallNext]_installVars PROVE InstallInv'
  OBVIOUS
<1>1. CASE StartInstall
  BY <1>1, OutOfHand DEF StartInstall, Rest, disk, InHand
<1>2. CASE InstallStep
  BY <1>2, CollectingKeeps, GitKeeps, ResolvingKeeps, UnpackingKeeps DEF InstallStep
<1>3. CASE Kill
  BY <1>3, OutOfHand DEF Kill, Rest, disk, InHand
<1>4. CASE UNCHANGED installVars
  BY <1>4 DEF installVars, disk, InstallInv, Shaped, ArchiveKept, Unpacked, Item
<1> QED
  BY <1>1, <1>2, <1>3, <1>4, OthersKeep DEF InstallNext

(* The lockfile only ever comes to name a version that is unpacked whole   *)
(* and whose archive is cached, wherever processes are killed and whatever *)
(* fails (phase 4 of install, Lockfile::save).                             *)
THEOREM LockNamesWhatIsThere == InstallSpec => LockFollowsPackages
<1>1. ASSUME InstallInv, InstallNext, NEW p \in Pkgs, lock'[p] # lock[p]
      PROVE  packages[p] = lock'[p] /\ <<p, lock'[p]>> \in cache
  <2>1. SaveLock
    BY <1>1 DEF InstallNext, InstallStep, StartInstall, Kill, DeleteArchive, FreshCheckout, Publish,
         CollectSimple, CollectPath, CollectRegistry, CloneOrFetch, CloneFails, CheckOut, ClearCopy,
         FillCopy, StartResolving, ExpandBatch, StartUnpacking, FastPath, Finish, QueryArrives,
         DownloadArrives, AttemptFails, CacheArchive, ClearPackage, FillPackage, UnpackFails,
         Continue, Abandon, disk
  <2>2. lock' = [lock EXCEPT ![Item.pkg] = Item.ver] /\ run.at = "extracted"
    BY <2>1 DEF SaveLock, Saved, At
  <2>3. p = Item.pkg /\ lock'[p] = Item.ver
    BY <1>1, <2>2 DEF InstallInv, Shaped
  <2> QED
    BY <1>1, <2>2, <2>3 DEF InstallInv, ArchiveKept, Unpacked
<1>2. InstallInv /\ [InstallNext]_installVars =>
        [\A p \in Pkgs : lock'[p] # lock[p] =>
           packages[p] = lock'[p] /\ <<p, lock'[p]>> \in cache]_installVars
  BY <1>1
<1> QED
  BY InstallInvInit, InstallInvStep, <1>2, PTL DEF InstallSpec, LockFollowsPackages

-----------------------------------------------------------------------------
(* A set of natural numbers has a least element, and a set of versions a   *)
(* highest one.                                                            *)
LEMMA LeastIsThere ==
  ASSUME NEW S, S \subseteq Nat, S # {}
  PROVE  \E n \in S : \A m \in S : n <= m
<1> DEFINE R == {q \in Nat \X Nat : q[1] < q[2]}
<1>1. IsWellFoundedOn(R, Nat)
  BY NatLessThanWellFounded DEF OpToRel
<1>2. PICK n \in S : \A m \in S : ~ (<<m, n>> \in R)
  <2> HIDE DEF R
  <2> QED
    BY <1>1, WFMin
<1>3. ASSUME NEW m \in S PROVE n <= m
  <2>1. ~ (<<m, n>> \in {q \in Nat \X Nat : q[1] < q[2]})
    BY <1>2
  <2>2. m \in Nat /\ n \in Nat
    OBVIOUS
  <2> QED
    BY <2>1, <2>2
<1> QED
  BY <1>3

LEMMA HighestIsThere ==
  ASSUME NEW S, S \subseteq Versions, S # {}
  PROVE  Highest(S) \in S
<1> DEFINE below == {Latest - v : v \in S}
<1>1. Latest \in Nat /\ \A v \in S : v \in Nat /\ v <= Latest
  BY InstallAssumption DEF Versions
<1>2. PICK n \in below : \A m \in below : n <= m
  <2>1. below \subseteq Nat /\ below # {}
    BY <1>1
  <2> HIDE DEF below
  <2> QED
    BY <2>1, LeastIsThere
<1>3. PICK v \in S : n = Latest - v
  BY <1>2
<1>4. ASSUME NEW u \in S PROVE u <= v
  <2>1. n <= Latest - u
    BY <1>2
  <2> QED
    BY <1>1, <1>3, <2>1
<1> QED
  BY <1>4 DEF Highest

(* SetToSeq lists a finite set.                                            *)
LEMMA SetIsListed ==
  ASSUME NEW S, IsFiniteSet(S)
  PROVE  /\ SetToSeq(S) \in Seq(S)
         /\ \A x \in S : \E n \in DOMAIN SetToSeq(S) : SetToSeq(S)[n] = x
         /\ SetToSeq(S) = << >> <=> S = {}
<1> DEFINE n == Cardinality(S)
           f == SetToSeq(S)
<1>1. n \in Nat /\ ExistsBijection(1..n, S)
  BY FS_CardinalityType
<1>2. PICK g : g \in [1..n -> S] /\ IsInjective(g)
  BY <1>1 DEF ExistsBijection, Bijection, Injection
<1>3. f \in [1..n -> S] /\ IsInjective(f)
  BY <1>2 DEF SetToSeq
<1>4. f \in Surjection(1..n, S)
  <2>1. f \in Injection(1..n, S)
    BY <1>3 DEF Injection
  <2>2. Cardinality(1..n) = Cardinality(S)
    BY <1>1, FS_Interval
  <2> HIDE DEF f, n
  <2> QED
    BY <2>1, <2>2, FS_Injection
<1> HIDE DEF f
<1>5. \A x \in S : \E m \in 1..n : f[m] = x
  BY <1>4 DEF Surjection
<1>6. f \in Seq(S) /\ DOMAIN f = 1..n
  BY <1>1, <1>3
<1>7. f = << >> <=> S = {}
  <2>1. n = 0 <=> S = {}
    BY FS_EmptySet
  <2>2. Len(f) = n
    BY <1>1, <1>6
  <2> QED
    BY <1>1, <1>6, <2>1, <2>2
<1> QED
  BY <1>5, <1>6, <1>7 DEF f

-----------------------------------------------------------------------------
(* The types of what a run notes, and what its phase says of its lists.    *)
Phases == {"idle", "done", "failed", "collecting", "cloned", "checked_out", "copying", "resolving",
           "downloading", "unpacking", "archived", "extracting", "extracted"}
Unpacking == run.at \in {"unpacking", "archived", "extracting", "extracted"}

Jobs == [pkg : Pkgs, accepts : SUBSET Versions, ver : Versions \cup {Nothing}, tries : Nat,
         busy : BOOLEAN]
Items == [pkg : Pkgs, ver : Versions]

Listed ==
  /\ run.todo \in Seq(Dependencies) /\ run.pending \in Seq(Requirements)
  /\ run.work \in Seq(Jobs) /\ run.finished \in Seq(DOMAIN run.work)
  /\ run.found \in Seq(Jobs) /\ run.left \in Seq(Items) /\ run.known \in SUBSET Pkgs

OnDisk ==
  /\ deps \in Seq(Dependencies)
  /\ lock \in [Pkgs -> Versions \cup {Nothing}]

Staged ==
  /\ run.at \in Phases
  /\ Idle => run.todo = << >>
  /\ run.at \in {"cloned", "checked_out", "copying"} =>
       run.todo # << >> /\ Head(run.todo).kind \in {"branch", "rev"}
  /\ Unpacking /\ run.todo # << >> =>
       /\ Head(run.todo).kind = "registry"
       /\ Len(run.left) = 1 /\ run.left[1].pkg = Head(run.todo).pkg
  /\ At("collecting") \/ run.todo # << >> => run.found = << >> /\ run.finished = << >>
  /\ run.at \in {"resolving", "downloading"} => run.todo = << >>
  /\ run.at \in InHand => run.left # << >>

Notes == Listed /\ OnDisk /\ Staged

LEMMA NeedsAreRequirements ==
  ASSUME NEW p \in Pkgs, NEW v \in Versions, NEW r \in Needs[<<p, v>>]
  PROVE  r \in Requirements /\ r.pkg \in Pkgs /\ r.accepts \in SUBSET Versions
<1>1. <<p, v>> \in Pkgs \X Versions
  OBVIOUS
<1>2. Needs[<<p, v>>] \subseteq Requirements
  BY <1>1, InstallAssumption
<1> QED
  BY <1>2 DEF Requirements

LEMMA KindsOfDependencies ==
  ASSUME NEW d \in Dependencies, d.kind \in {"simple", "registry"}
  PROVE  d.pkg \in Pkgs /\ d.accepts \in SUBSET Versions
  BY DEF Dependencies

LEMMA JobsAreJobs ==
  ASSUME NEW r \in Requirements
  PROVE  Job(r) \in Jobs /\ Job(r).pkg = r.pkg
  BY DEF Job, Jobs, Requirements

LEMMA SelectedIsAJob ==
  ASSUME NEW job \in Jobs, Offered(job) # {}
  PROVE  /\ Selected(job) \in Jobs /\ Selected(job).pkg = job.pkg
         /\ Selected(job).ver \in Versions
<1>1. Highest(Offered(job)) \in Versions
  <2>1. Offered(job) \subseteq Versions
    BY DEF Offered, Jobs
  <2> QED
    BY <2>1, HighestIsThere
<1> QED
  BY <1>1 DEF Selected, Jobs

(* A run that has ended, however it did.                                   *)
LEMMA RestIsTyped ==
  ASSUME NEW x \in {"idle", "done", "failed"}, run' = [Rest EXCEPT !.at = x]
  PROVE  /\ Listed' /\ Staged' /\ run'.at = x
<1>1. run' = [at |-> x, todo |-> << >>, pending |-> << >>, work |-> << >>, finished |-> << >>,
              known |-> {}, found |-> << >>, left |-> << >>, tries |-> 0]
  BY DEF Rest
<1>2. Listed'
  <2>1. /\ run'.todo = << >> /\ run'.pending = << >> /\ run'.work = << >> /\ run'.finished = << >>
        /\ run'.found = << >> /\ run'.left = << >> /\ run'.known = {}
    BY <1>1
  <2>2. \A S : << >> \in Seq(S)
    OBVIOUS
  <2>3. {} \in SUBSET Pkgs
    OBVIOUS
  <2> QED
    BY <2>1, <2>2, <2>3, Zenon DEF Listed
<1>3. Staged'
  BY <1>1 DEF Staged, Phases, Idle, Unpacking, InHand
<1> QED
  BY <1>1, <1>2, <1>3

LEMMA NotesInit == InstallInit => Notes
<1> SUFFICES ASSUME InstallInit PROVE Notes
  OBVIOUS
<1>2. OnDisk
  <2>1. deps \in Seq(Dependencies)
    BY InstallAssumption DEF InstallInit
  <2>2. lock \in [Pkgs -> Versions \cup {Nothing}]
    BY DEF InstallInit
  <2> QED
    BY <2>1, <2>2 DEF OnDisk
<1>3. run = [at |-> "idle", todo |-> << >>, pending |-> << >>, work |-> << >>, finished |-> << >>,
             known |-> {}, found |-> << >>, left |-> << >>, tries |-> 0]
  BY DEF InstallInit, Rest
<1>4. Listed
  BY <1>3 DEF Listed
<1>5. Staged
  BY <1>3 DEF Staged, Phases, Idle, Unpacking, InHand
<1> QED
  BY <1>2, <1>4, <1>5 DEF Notes

-----------------------------------------------------------------------------
(* What a run has still to lock: the packages it has asked for.            *)
Coming ==
  IF Idle THEN {}
  ELSE IF At("resolving") THEN PkgsOf(run.work) \cup PkgsOf(run.found)
  ELSE IF At("downloading") THEN PkgsOf(run.work)
  ELSE IF Unpacking /\ run.todo = << >> THEN PkgsOf(run.left)
  ELSE PkgsOf(run.pending)

Met(p) == lock[p] # Nothing \/ p \in Coming
Needy(x) == \A r \in Needs[<<x.pkg, x.ver>>] : Met(r.pkg)
FromElsewhere == {d.pkg : d \in Registry}

LockedIsUnpacked ==
  intact => \A p \in Pkgs : \/ lock[p] = Nothing \/ packages[p] = lock[p]
                            \/ run.at \in {"extracting", "extracted"} /\ p = Item.pkg
LockIsClosed ==
  intact => \A p \in Pkgs \ FromElsewhere :
              lock[p] # Nothing => \A r \in Needs[<<p, lock[p]>>] : Met(r.pkg)
DeclaredAreMet ==
  intact /\ run.at \notin {"idle", "failed"} =>
    \A d \in Simple \cup Registry : d \in Range(run.todo) \/ Met(d.pkg)

(* While packages are resolved, all that was noted is met, and all that    *)
(* resolved packages need is noted.                                        *)
Resolved(job) == job.ver \in Versions
NeedsNoted(job) == \A r \in Needs[<<job.pkg, job.ver>>] : r.pkg \in run.known
BatchIsClosed ==
  At("resolving") =>
    /\ intact => \A p \in run.known : Met(p)
    /\ \A n \in DOMAIN run.found : Resolved(run.found[n]) /\ NeedsNoted(run.found[n])
    /\ \A n \in DOMAIN run.finished : Resolved(run.work[run.finished[n]])
DownloadsAreClosed ==
  At("downloading") =>
    \A n \in DOMAIN run.work : Resolved(run.work[n]) /\ (intact => Needy(run.work[n]))
LeftIsClosed ==
  Unpacking /\ run.todo = << >> /\ intact => \A n \in DOMAIN run.left : Needy(run.left[n])

Closed ==
  /\ LockedIsUnpacked /\ LockIsClosed /\ DeclaredAreMet
  /\ BatchIsClosed /\ DownloadsAreClosed /\ LeftIsClosed

(* Only what the project declares is collected.                            *)
TodoIsDeclared == Range(run.todo) \subseteq Range(deps)

CompleteInv == InstallInv /\ Notes /\ Closed /\ TodoIsDeclared

LEMMA ClosedInit == InstallInit => Closed
  BY DEF InstallInit, Rest, Closed, LockedIsUnpacked, LockIsClosed, DeclaredAreMet, BatchIsClosed,
       DownloadsAreClosed, LeftIsClosed, At, Unpacking

(* A run that failed or was killed, and a project checked out afresh, are  *)
(* not intact any more.                                                    *)
LEMMA BrokenIsClosed ==
  ASSUME intact' = FALSE, run'.at \in {"idle", "done", "failed"}
  PROVE  Closed'
  BY DEF Closed, LockedIsUnpacked, LockIsClosed, DeclaredAreMet, BatchIsClosed,
       DownloadsAreClosed, LeftIsClosed, At, Unpacking

LEMMA NothingUnderWay ==
  ASSUME CompleteInv, At("collecting") \/ run.todo # << >>
  PROVE  run.found = << >> /\ run.finished = << >>
  BY DEF CompleteInv, Notes, Staged

LEMMA AbandonedIsClosed == CompleteInv /\ Abandon => Notes' /\ Closed'
<1> SUFFICES ASSUME CompleteInv, Abandon PROVE Notes' /\ Closed'
  OBVIOUS
<1>1. run' = [Rest EXCEPT !.at = "failed"] /\ intact' = FALSE /\ deps' = deps /\ lock' = lock
  BY DEF Abandon, disk, world
<1> QED
  BY <1>1, RestIsTyped, BrokenIsClosed DEF CompleteInv, Notes, OnDisk

(* Outside of phase 4 the disk stays as it is: what was met stays met.     *)
LEMMA DiskStaysClosed ==
  ASSUME CompleteInv, UNCHANGED <<deps, lock, packages, intact>>,
         run.at \notin {"extracting", "extracted"}, run'.at \notin {"extracting", "extracted"},
         \A p \in Pkgs : Met(p) => Met(p)'
  PROVE  LockedIsUnpacked' /\ LockIsClosed'
<1>1. LockedIsUnpacked'
  BY DEF CompleteInv, Closed, LockedIsUnpacked
<1>2. LockIsClosed'
  <2> SUFFICES ASSUME intact, NEW p \in Pkgs \ FromElsewhere, lock[p] # Nothing,
                      NEW r \in Needs[<<p, lock[p]>>]
               PROVE  Met(r.pkg)'
    BY DEF LockIsClosed, FromElsewhere, Registry
  <2>1. Met(r.pkg)
    BY DEF CompleteInv, Closed, LockIsClosed
  <2>2. r.pkg \in Pkgs
    BY NeedsAreRequirements DEF CompleteInv, Notes, OnDisk
  <2> QED
    BY <2>1, <2>2
<1> QED
  BY <1>1, <1>2

-----------------------------------------------------------------------------
(* What is on a list and not taken off it is left.                         *)
LEMMA OthersAreLeft ==
  ASSUME NEW S, NEW list \in Seq(S), list # << >>, NEW d \in Range(list), d # Head(list)
  PROVE  d \in Range(Tail(list))
<1>1. /\ Tail(list) \in Seq(S) /\ Head(list) = list[1] /\ Len(Tail(list)) = Len(list) - 1
      /\ \A i \in 1..Len(Tail(list)) : Tail(list)[i] = list[i + 1]
  BY HeadTailProperties
<1>2. PICK i \in 1..Len(list) : d = list[i]
  BY LenProperties DEF Range
<1>3. Len(list) \in Nat /\ i # 1
  BY <1>1, <1>2, LenProperties
<1>4. i - 1 \in 1..Len(Tail(list)) /\ Tail(list)[i - 1] = d
  BY <1>1, <1>2, <1>3
<1>5. DOMAIN Tail(list) = 1..Len(Tail(list))
  BY <1>1, LenProperties
<1> QED
  BY <1>4, <1>5 DEF Range

(* A step that collects takes the next dependency, which is met then, or   *)
(* asks for more.                                                          *)
LEMMA CollectedIsTyped ==
  ASSUME CompleteInv, At("collecting"), run.todo # << >>,
         run' = [Collected EXCEPT !.pending = run'.pending],
         run'.pending \in Seq(Requirements), UNCHANGED <<deps, lock>>
  PROVE  /\ Notes' /\ run'.todo = Tail(run.todo) /\ run'.at = "collecting"
         /\ Head(run.todo) \in Dependencies
         /\ \A d \in Range(run.todo) : d = Head(run.todo) \/ d \in Range(run'.todo)
<1>1. /\ run'.at = "collecting" /\ run'.todo = Tail(run.todo) /\ run'.work = run.work
      /\ run'.finished = run.finished /\ run'.known = run.known /\ run'.found = run.found
      /\ run'.left = run.left
  BY DEF Collected, At, CompleteInv, InstallInv, Shaped
<1>2. run.todo \in Seq(Dependencies)
  BY DEF CompleteInv, Notes, Listed
<1>3. /\ Tail(run.todo) \in Seq(Dependencies) /\ Head(run.todo) \in Dependencies
      /\ Head(run.todo) = run.todo[1] /\ Len(Tail(run.todo)) = Len(run.todo) - 1
      /\ \A i \in 1..Len(Tail(run.todo)) : Tail(run.todo)[i] = run.todo[i + 1]
  BY <1>2, HeadTailProperties
<1>4. Listed'
  BY <1>1, <1>3 DEF CompleteInv, Notes, Listed
<1>5. OnDisk'
  BY DEF CompleteInv, Notes, OnDisk
<1>6. Staged'
  BY <1>1, NothingUnderWay DEF Staged, Phases, Idle, Unpacking, InHand, At
<1>7. \A d \in Range(run.todo) : d # Head(run.todo) => d \in Range(Tail(run.todo))
  BY <1>2, OthersAreLeft
<1> QED
  BY <1>1, <1>3, <1>4, <1>5, <1>6, <1>7 DEF Notes

LEMMA CollectedIsClosed ==
  ASSUME NEW first, first = Head(run.todo), CompleteInv, At("collecting"), run.todo # << >>,
         run' = [Collected EXCEPT !.pending = run'.pending],
         run'.pending \in Seq(Requirements), PkgsOf(run.pending) \subseteq PkgsOf(run'.pending),
         UNCHANGED <<deps, lock, packages, intact>>,
         first.kind \in {"simple", "registry"} => Met(first.pkg)'
  PROVE  Notes' /\ Closed'
<1>1. /\ Notes' /\ run'.todo = Tail(run.todo) /\ run'.at = "collecting"
      /\ Head(run.todo) \in Dependencies
      /\ \A d \in Range(run.todo) : d = Head(run.todo) \/ d \in Range(run'.todo)
  BY CollectedIsTyped
<1>2. Coming \subseteq Coming'
  BY <1>1 DEF Coming, At, Idle, Unpacking
<1>3. \A p \in Pkgs : Met(p) => Met(p)'
  BY <1>2 DEF Met
<1>4. LockedIsUnpacked' /\ LockIsClosed'
  BY <1>1, <1>3, DiskStaysClosed DEF At
<1>5. DeclaredAreMet'
  <2> SUFFICES ASSUME intact, NEW d \in Simple \cup Registry
               PROVE  d \in Range(run'.todo) \/ Met(d.pkg)'
    BY DEF DeclaredAreMet, Simple, Registry
  <2>1. d \in Range(run.todo) \/ Met(d.pkg)
    BY DEF CompleteInv, Closed, DeclaredAreMet, At
  <2>2. d \in Dependencies /\ d.kind \in {"simple", "registry"}
    <3>1. d \in Range(deps) /\ d.kind \in {"simple", "registry"}
      BY DEF Simple, Registry
    <3>2. deps \in Seq(Dependencies)
      BY DEF CompleteInv, Notes, OnDisk
    <3>3. \A i \in DOMAIN deps : deps[i] \in Dependencies
      BY <3>2, ElementOfSeq, LenProperties
    <3> QED
      BY <3>1, <3>3 DEF Range
  <2>3. d.pkg \in Pkgs
    BY <2>2, KindsOfDependencies
  <2> QED
    BY <1>1, <1>3, <2>1, <2>2, <2>3
<1>6. BatchIsClosed' /\ DownloadsAreClosed' /\ LeftIsClosed'
  BY <1>1 DEF BatchIsClosed, DownloadsAreClosed, LeftIsClosed, At, Unpacking
<1> QED
  BY <1>1, <1>4, <1>5, <1>6 DEF Closed

LEMMA CollectingIsClosed ==
  ASSUME CompleteInv, CollectSimple \/ CollectPath
  PROVE  Notes' /\ Closed'
<1> DEFINE d == Head(run.todo)
<1>1. At("collecting") /\ run.todo # << >> /\ d.kind \in {"simple", "path"}
  BY DEF CollectSimple, CollectPath, NextIs
<1>2. /\ Collected = [Collected EXCEPT !.pending = run.pending] /\ Collected.pending = run.pending
      /\ run.pending \in Seq(Requirements) /\ d \in Dependencies
      /\ Collected.at = "collecting"
  <2>1. d \in Dependencies
    BY <1>1, HeadTailProperties DEF CompleteInv, Notes, Listed
  <2> QED
    BY <1>1, <2>1 DEF Collected, At, CompleteInv, InstallInv, Shaped, Notes, Listed
<1>3. CASE Continue(Collected) /\ (d.kind = "simple" => Cached(d.pkg))
  <2>1. /\ run' = [Collected EXCEPT !.pending = run'.pending] /\ run'.pending = run.pending
        /\ UNCHANGED <<deps, lock, packages, intact>>
    BY <1>2, <1>3 DEF Continue, disk, world, counts
  <2>2. d.kind = "simple" => lock'[d.pkg] # Nothing
    BY <1>3, <2>1 DEF Cached
  <2>3. ASSUME NEW first, first = d, first.kind \in {"simple", "registry"} PROVE Met(first.pkg)'
    BY <1>1, <2>2, <2>3 DEF Met
  <2> QED
    BY <1>1, <1>2, <2>1, <2>3, CollectedIsClosed
<1>4. CASE Abandon
  BY AbandonedIsClosed, <1>4
<1>5. CASE CollectSimple /\ ~Cached(d.pkg)
  <2> DEFINE r == [pkg |-> d.pkg, accepts |-> d.accepts]
             grown == Append(run.pending, r)
  <2>1. r \in Requirements
    BY <1>2, <1>5, KindsOfDependencies DEF Requirements, CollectSimple, NextIs
  <2>2. /\ grown \in Seq(Requirements) /\ Len(grown) = Len(run.pending) + 1
        /\ \A i \in 1..Len(run.pending) : grown[i] = run.pending[i]
        /\ grown[Len(run.pending) + 1] = r
    BY <1>2, <2>1, AppendProperties
  <2>3. Len(run.pending) \in Nat /\ DOMAIN run.pending = 1..Len(run.pending)
        /\ DOMAIN grown = 1..(Len(run.pending) + 1)
    BY <1>2, <2>2, LenProperties
  <2>4. PkgsOf(run.pending) \subseteq PkgsOf(grown) /\ r.pkg \in PkgsOf(grown)
    BY <2>2, <2>3 DEF PkgsOf
  <2>5. /\ run' = [Collected EXCEPT !.pending = grown]
        /\ UNCHANGED <<deps, lock, packages, intact>>
    BY <1>2, <1>5 DEF CollectSimple, Continue, disk, world, counts
  <2>6. run'.pending = grown
    BY <1>2, <2>5 DEF Collected, CompleteInv, InstallInv, Shaped
  <2>7. ASSUME NEW first, first = d PROVE Met(first.pkg)'
    <3>1. run'.at = "collecting"
      BY <1>1, <2>5 DEF Collected, At, CompleteInv, InstallInv, Shaped
    <3>2. Coming' = PkgsOf(run'.pending)
      BY <3>1 DEF Coming, Idle, At, Unpacking
    <3> QED
      BY <2>4, <2>6, <2>7, <3>2 DEF Met
  <2> HIDE DEF grown
  <2> QED
    BY <1>1, <2>2, <2>4, <2>5, <2>6, <2>7, CollectedIsClosed
<1>6. \/ Continue(Collected) /\ (d.kind = "simple" => Cached(d.pkg))
      \/ Abandon
      \/ CollectSimple /\ ~Cached(d.pkg)
  BY DEF CollectSimple, CollectPath, NextIs
<1> QED
  BY <1>3, <1>4, <1>5, <1>6

(* A step that takes no dependency off the list and leaves the disk alone. *)
LEMMA QuietStep ==
  ASSUME CompleteInv, UNCHANGED <<deps, lock, packages, intact>>, run'.todo = run.todo,
         run.at \notin {"idle", "failed", "extracting", "extracted"},
         run'.at \notin {"idle", "failed", "extracting", "extracted"},
         \A p \in Pkgs : Met(p) => Met(p)'
  PROVE  LockedIsUnpacked' /\ LockIsClosed' /\ DeclaredAreMet' /\ OnDisk'
<1>1. LockedIsUnpacked' /\ LockIsClosed'
  BY DiskStaysClosed
<1>2. DeclaredAreMet'
  <2> SUFFICES ASSUME intact, NEW d \in Simple \cup Registry
               PROVE  d \in Range(run'.todo) \/ Met(d.pkg)'
    BY DEF DeclaredAreMet, Simple, Registry
  <2>1. d \in Range(run.todo) \/ Met(d.pkg)
    BY DEF CompleteInv, Closed, DeclaredAreMet
  <2>2. d \in Dependencies /\ d.kind \in {"simple", "registry"}
    <3>1. d \in Range(deps) /\ d.kind \in {"simple", "registry"}
      BY DEF Simple, Registry
    <3>2. deps \in Seq(Dependencies)
      BY DEF CompleteInv, Notes, OnDisk
    <3>3. \A i \in DOMAIN deps : deps[i] \in Dependencies
      BY <3>2, ElementOfSeq, LenProperties
    <3> QED
      BY <3>1, <3>3 DEF Range
  <2>3. d.pkg \in Pkgs
    BY <2>2, KindsOfDependencies
  <2> QED
    BY <2>1, <2>3
<1>3. OnDisk'
  BY DEF CompleteInv, Notes, OnDisk
<1> QED
  BY <1>1, <1>2, <1>3

LEMMA RegistryIsClosed ==
  ASSUME CompleteInv, CollectRegistry
  PROVE  Notes' /\ Closed'
<1> DEFINE d == Head(run.todo)
           r == [pkg |-> d.pkg, accepts |-> d.accepts]
           item == [pkg |-> d.pkg, ver |-> Highest(Offered(r))]
<1>1. At("collecting") /\ run.todo # << >> /\ d.kind = "registry"
  BY DEF CollectRegistry, NextIs
<1>2. d \in Dependencies /\ d.pkg \in Pkgs /\ d.accepts \in SUBSET Versions
  <2>1. d \in Dependencies
    BY <1>1, HeadTailProperties DEF CompleteInv, Notes, Listed
  <2> QED
    BY <1>1, <2>1, KindsOfDependencies
<1>3. CASE Continue(Collected) /\ Cached(d.pkg)
  <2>1. /\ Collected = [Collected EXCEPT !.pending = run.pending] /\ Collected.pending = run.pending
        /\ run.pending \in Seq(Requirements)
    BY DEF Collected, CompleteInv, InstallInv, Shaped, Notes, Listed
  <2>2. /\ run' = [Collected EXCEPT !.pending = run'.pending] /\ run'.pending = run.pending
        /\ UNCHANGED <<deps, lock, packages, intact>>
    BY <2>1, <1>3 DEF Continue, disk, world, counts
  <2>3. lock'[d.pkg] # Nothing
    BY <1>3, <2>2 DEF Cached
  <2>4. ASSUME NEW first, first = d PROVE Met(first.pkg)'
    BY <2>3, <2>4 DEF Met
  <2> QED
    BY <1>1, <2>1, <2>2, <2>4, CollectedIsClosed
<1>4. CASE Abandon
  BY AbandonedIsClosed, <1>4
<1>5. CASE Offered(r) # {} /\ Continue([run EXCEPT !.at = "unpacking", !.left = <<item>>])
  <2>1. item \in Items
    <3>1. Offered(r) \subseteq Versions
      BY <1>2 DEF Offered
    <3>2. Highest(Offered(r)) \in Versions
      BY <1>5, <3>1, HighestIsThere
    <3> QED
      BY <1>2, <3>2 DEF Items
  <2> HIDE DEF r
  <2>2. /\ run'.at = "unpacking" /\ run'.left = <<item>> /\ run'.todo = run.todo
        /\ run'.pending = run.pending /\ run'.work = run.work /\ run'.finished = run.finished
        /\ run'.known = run.known /\ run'.found = run.found
        /\ UNCHANGED <<deps, lock, packages, intact>>
    BY <1>5 DEF Continue, disk, world, counts, CompleteInv, InstallInv, Shaped
  <2>3. Listed'
    BY <2>1, <2>2 DEF CompleteInv, Notes, Listed
  <2>4. Staged'
    BY <1>1, <2>2, NothingUnderWay DEF Staged, Phases, Idle, Unpacking, InHand, At
  <2>5. Coming' = Coming
    BY <1>1, <2>2 DEF Coming, At, Idle, Unpacking
  <2>6. LockedIsUnpacked' /\ LockIsClosed' /\ DeclaredAreMet' /\ OnDisk'
    BY <1>1, <2>2, <2>5, QuietStep DEF Met, At
  <2>7. BatchIsClosed' /\ DownloadsAreClosed' /\ LeftIsClosed'
    BY <1>1, <2>2 DEF BatchIsClosed, DownloadsAreClosed, LeftIsClosed, At, Unpacking
  <2> QED
    BY <2>3, <2>4, <2>6, <2>7 DEF Notes, Closed
<1> QED
  BY <1>3, <1>4, <1>5 DEF CollectRegistry

(* A git dependency concerns no package of the lockfile.                   *)
LEMMA GitIsClosed ==
  ASSUME CompleteInv, CloneOrFetch \/ CloneFails \/ CheckOut \/ ClearCopy \/ FillCopy
  PROVE  Notes' /\ Closed'
<1> DEFINE AtWork == {"collecting", "cloned", "checked_out", "copying"}
<1>1. CASE Abandon
  BY AbandonedIsClosed, <1>1
<1>2. ASSUME ~Abandon
      PROVE  /\ run.at \in AtWork /\ run.todo # << >>
             /\ Head(run.todo).kind \in {"branch", "rev"}
             /\ UNCHANGED <<deps, lock, packages, intact>>
  BY <1>2 DEF CloneOrFetch, CloneFails, CheckOut, ClearCopy, FillCopy, NextGit, At, Continue,
       disk, world, counts, CompleteInv, Notes, Staged
<1>3. CASE FillCopy /\ ~Abandon
  <2>1. run' = [Collected EXCEPT !.at = "collecting"]
    BY <1>3 DEF FillCopy
  <2>2. /\ run'.at = "collecting" /\ run'.todo = Tail(run.todo) /\ run'.work = run.work
        /\ run'.finished = run.finished /\ run'.known = run.known /\ run'.found = run.found
        /\ run'.left = run.left /\ run'.pending = run.pending
    BY <2>1 DEF Collected, CompleteInv, InstallInv, Shaped
  <2>3. run.todo \in Seq(Dependencies)
    BY DEF CompleteInv, Notes, Listed
  <2>4. Listed'
    BY <1>2, <1>3, <2>2, <2>3, HeadTailProperties DEF CompleteInv, Notes, Listed
  <2>5. OnDisk'
    BY <1>2, <1>3 DEF CompleteInv, Notes, OnDisk
  <2>6. Staged'
    BY <1>2, <1>3, <2>2, NothingUnderWay DEF Staged, Phases, Idle, Unpacking, InHand, At
  <2>7. Coming' = Coming
    BY <1>2, <1>3, <2>2 DEF Coming, At, Idle, Unpacking
  <2>8. LockedIsUnpacked' /\ LockIsClosed'
    BY <1>2, <1>3, <2>2, <2>7, DiskStaysClosed DEF Met
  <2>9. DeclaredAreMet'
    <3> SUFFICES ASSUME intact, NEW d \in Simple \cup Registry
                 PROVE  d \in Range(run'.todo) \/ Met(d.pkg)'
      BY <1>2, <1>3 DEF DeclaredAreMet, Simple, Registry
    <3>1. d \in Range(run.todo) \/ Met(d.pkg)
      BY <1>2, <1>3 DEF CompleteInv, Closed, DeclaredAreMet
    <3>2. d # Head(run.todo)
      BY <1>2, <1>3 DEF Simple, Registry
    <3>3. d \in Range(run.todo) => d \in Range(Tail(run.todo))
      BY <1>2, <1>3, <2>3, <3>2, OthersAreLeft
    <3> QED
      BY <1>2, <1>3, <2>2, <2>7, <3>1, <3>3 DEF Met
  <2>10. BatchIsClosed' /\ DownloadsAreClosed' /\ LeftIsClosed'
    BY <2>2 DEF BatchIsClosed, DownloadsAreClosed, LeftIsClosed, At, Unpacking
  <2> QED
    BY <2>4, <2>5, <2>6, <2>8, <2>9, <2>10 DEF Notes, Closed
<1>4. CASE (CloneOrFetch \/ CheckOut \/ ClearCopy) /\ ~Abandon
  <2>1. PICK x \in AtWork : run' = [run EXCEPT !.at = x]
    BY <1>4 DEF CloneOrFetch, CheckOut, ClearCopy, Continue
  <2>2. /\ run'.at = x /\ run'.todo = run.todo /\ run'.work = run.work
        /\ run'.finished = run.finished /\ run'.known = run.known /\ run'.found = run.found
        /\ run'.left = run.left /\ run'.pending = run.pending
    BY <2>1 DEF CompleteInv, InstallInv, Shaped
  <2>3. Listed'
    BY <2>2 DEF CompleteInv, Notes, Listed
  <2>4. Staged'
    BY <1>2, <1>4, <2>2, NothingUnderWay DEF Staged, Phases, Idle, Unpacking, InHand, At
  <2>5. Coming' = Coming
    BY <1>2, <1>4, <2>2 DEF Coming, At, Idle, Unpacking
  <2>6. LockedIsUnpacked' /\ LockIsClosed' /\ DeclaredAreMet' /\ OnDisk'
    BY <1>2, <1>4, <2>2, <2>5, QuietStep DEF Met
  <2>7. BatchIsClosed' /\ DownloadsAreClosed' /\ LeftIsClosed'
    BY <2>2 DEF BatchIsClosed, DownloadsAreClosed, LeftIsClosed, At, Unpacking
  <2> QED
    BY <2>3, <2>4, <2>6, <2>7 DEF Notes, Closed
<1> QED
  BY <1>1, <1>3, <1>4 DEF CloneFails

-----------------------------------------------------------------------------
(* Resolving and downloading: a batch keeps its packages while its queries *)
(* and downloads come back.                                                *)
LEMMA StartIsClosed ==
  ASSUME CompleteInv, StartResolving
  PROVE  Notes' /\ Closed'
<1> DEFINE jobs == [i \in DOMAIN run.pending |-> Job(run.pending[i])]
           cached == {p \in Pkgs : Cached(p)}
<1>1. At("collecting") /\ run.todo = << >>
  BY DEF StartResolving
<1>2. /\ run'.at = "resolving" /\ run'.known = cached /\ run'.work = jobs
      /\ run'.todo = run.todo /\ run'.pending = run.pending /\ run'.finished = run.finished
      /\ run'.found = run.found /\ run'.left = run.left
      /\ UNCHANGED <<deps, lock, packages, intact>>
  BY DEF StartResolving, Continue, disk, world, counts, CompleteInv, InstallInv, Shaped
<1>3. run.pending \in Seq(Requirements) /\ run.finished = << >> /\ run.found = << >>
  BY <1>1, NothingUnderWay DEF CompleteInv, Notes, Listed
<1>4. jobs \in Seq(Jobs) /\ DOMAIN jobs = DOMAIN run.pending
      /\ \A i \in DOMAIN run.pending : jobs[i].pkg = run.pending[i].pkg
  <2>1. /\ Len(run.pending) \in Nat /\ DOMAIN run.pending = 1..Len(run.pending)
        /\ \A i \in 1..Len(run.pending) : run.pending[i] \in Requirements
    BY <1>3, LenProperties, ElementOfSeq
  <2>2. \A i \in 1..Len(run.pending) : jobs[i] \in Jobs /\ jobs[i].pkg = run.pending[i].pkg
    BY <2>1, JobsAreJobs
  <2>3. jobs \in [1..Len(run.pending) -> Jobs]
    BY <2>1, <2>2
  <2>4. DOMAIN jobs = DOMAIN run.pending
    OBVIOUS
  <2> HIDE DEF jobs
  <2>5. jobs \in Seq(Jobs)
    BY <2>1, <2>3
  <2> QED
    BY <2>1, <2>2, <2>4, <2>5
<1> HIDE DEF jobs
<1>5. Listed'
  <2>1. cached \in SUBSET Pkgs
    OBVIOUS
  <2> HIDE DEF cached
  <2>2. << >> \in Seq(DOMAIN jobs)
    OBVIOUS
  <2> QED
    BY <1>2, <1>3, <1>4, <2>1, <2>2 DEF CompleteInv, Notes, Listed
<1>6. Staged'
  BY <1>1, <1>2 DEF Staged, Phases, Idle, Unpacking, InHand, At
<1>7. Coming' = Coming
  <2>1. PkgsOf(jobs) = PkgsOf(run.pending)
    BY <1>4 DEF PkgsOf
  <2>2. PkgsOf(<< >>) = {}
    BY DEF PkgsOf
  <2>3. Coming = PkgsOf(run.pending)
    BY <1>1 DEF Coming, At, Idle, Unpacking
  <2>4. Coming' = PkgsOf(jobs) \cup PkgsOf(<< >>)
    BY <1>2, <1>3 DEF Coming, At, Idle
  <2> QED
    BY <2>1, <2>2, <2>3, <2>4
<1>8. LockedIsUnpacked' /\ LockIsClosed' /\ DeclaredAreMet' /\ OnDisk'
  BY <1>1, <1>2, <1>7, QuietStep DEF Met, At
<1>9. BatchIsClosed'
  <2>1. \A p \in cached : Met(p)'
    BY <1>2 DEF Cached, Met
  <2> HIDE DEF cached
  <2> QED
    BY <1>2, <1>3, <2>1 DEF BatchIsClosed
<1>10. DownloadsAreClosed' /\ LeftIsClosed'
  BY <1>2 DEF DownloadsAreClosed, LeftIsClosed, At, Unpacking
<1> QED
  BY <1>5, <1>6, <1>8, <1>9, <1>10 DEF Notes, Closed

(* One query or download of a batch.                                       *)
LEMMA JobIsReplaced ==
  ASSUME CompleteInv, run.at \in {"resolving", "downloading"}, NEW i \in DOMAIN run.work,
         NEW job \in Jobs, job.pkg = run.work[i].pkg,
         At("downloading") => job.ver = run.work[i].ver,
         NEW done \in Seq(DOMAIN run.work),
         run' = [run EXCEPT !.work = [@ EXCEPT ![i] = job], !.finished = done],
         At("resolving") => \A n \in DOMAIN done : Resolved(run'.work[done[n]]),
         UNCHANGED <<deps, lock, packages, intact>>
  PROVE  Notes' /\ Closed'
<1> DEFINE jobs == [run.work EXCEPT ![i] = job]
<1>1. /\ run'.at = run.at /\ run'.todo = run.todo /\ run'.pending = run.pending
      /\ run'.work = jobs /\ run'.finished = done /\ run'.known = run.known
      /\ run'.found = run.found /\ run'.left = run.left
  BY DEF CompleteInv, InstallInv, Shaped
<1>2. run.work \in Seq(Jobs)
  BY DEF CompleteInv, Notes, Listed
<1>3. jobs \in Seq(Jobs) /\ DOMAIN jobs = DOMAIN run.work
  BY <1>2, ExceptSeq, LenProperties
<1>4. /\ jobs[i] = job
      /\ \A n \in DOMAIN run.work : n # i => jobs[n] = run.work[n]
  OBVIOUS
<1>5. /\ run.todo = << >> /\ OnDisk /\ Staged /\ Listed
  BY DEF CompleteInv, Notes, Staged
<1> HIDE DEF jobs
<1>6. Listed'
  BY <1>1, <1>3, <1>5 DEF Listed
<1>7. Staged'
  BY <1>1, <1>5 DEF Staged, Phases, Idle, Unpacking, InHand, At
<1>8. Coming' = Coming
  <2>1. PkgsOf(jobs) = PkgsOf(run.work)
    BY <1>3, <1>4 DEF PkgsOf
  <2> QED
    BY <1>1, <2>1 DEF Coming, At, Idle
<1>9. LockedIsUnpacked' /\ LockIsClosed' /\ DeclaredAreMet' /\ OnDisk'
  BY <1>1, <1>8, QuietStep DEF Met, At
<1>10. BatchIsClosed'
  BY <1>1, <1>8 DEF CompleteInv, Closed, BatchIsClosed, At, Met, Resolved, NeedsNoted
<1>11. DownloadsAreClosed'
  <2> SUFFICES ASSUME At("downloading"), NEW n \in DOMAIN jobs
               PROVE  /\ jobs[n].ver \in Versions
                      /\ intact => \A r \in Needs[<<jobs[n].pkg, jobs[n].ver>>] : Met(r.pkg)'
    BY <1>1 DEF DownloadsAreClosed, At, Resolved, Needy
  <2>1. jobs[n].ver = run.work[n].ver /\ jobs[n].pkg = run.work[n].pkg
    BY <1>3, <1>4
  <2>2. Resolved(run.work[n]) /\ (intact => Needy(run.work[n]))
    BY <1>3 DEF CompleteInv, Closed, DownloadsAreClosed
  <2>3. ASSUME NEW r, Met(r.pkg) PROVE Met(r.pkg)'
    BY <1>1, <1>8, <2>3 DEF Met
  <2> QED
    BY <2>1, <2>2, <2>3 DEF Resolved, Needy
<1>12. LeftIsClosed'
  BY <1>1 DEF LeftIsClosed, Unpacking
<1> QED
  BY <1>6, <1>7, <1>9, <1>10, <1>11, <1>12 DEF Notes, Closed

LEMMA BatchIsTyped ==
  ASSUME CompleteInv
  PROVE  /\ run.work \in Seq(Jobs) /\ run.finished \in Seq(DOMAIN run.work)
         /\ \A i \in DOMAIN run.work : run.work[i] \in Jobs
         /\ \A n \in DOMAIN run.finished : run.finished[n] \in DOMAIN run.work
  BY ElementOfSeq, LenProperties DEF CompleteInv, Notes, Listed

LEMMA JobsKeepClosed ==
  ASSUME CompleteInv, NEW i \in DOMAIN run.work,
         QueryArrives(i) \/ DownloadArrives(i) \/ AttemptFails(i)
  PROVE  Notes' /\ Closed'
<1> DEFINE done == Append(run.finished, i)
<1>1. /\ run.work[i] \in Jobs /\ run.finished \in Seq(DOMAIN run.work)
      /\ \A n \in DOMAIN run.finished : run.finished[n] \in DOMAIN run.work
  BY BatchIsTyped
<1>2. /\ done \in Seq(DOMAIN run.work) /\ DOMAIN done = 1..(Len(run.finished) + 1)
      /\ DOMAIN run.finished = 1..Len(run.finished) /\ Len(run.finished) \in Nat
      /\ \A n \in 1..Len(run.finished) : done[n] = run.finished[n]
      /\ done[Len(run.finished) + 1] = i
  <2>1. /\ done \in Seq(DOMAIN run.work) /\ Len(done) = Len(run.finished) + 1
        /\ \A n \in 1..Len(run.finished) : done[n] = run.finished[n]
        /\ done[Len(run.finished) + 1] = i
    <3> DEFINE S == DOMAIN run.work
    <3>1. i \in S /\ run.finished \in Seq(S)
      BY <1>1
    <3> HIDE DEF S
    <3>2. Append(run.finished, i) \in Seq(S)
      BY <3>1, AppendProperties
    <3>3. /\ Len(Append(run.finished, i)) = Len(run.finished) + 1
          /\ \A n \in 1..Len(run.finished) : Append(run.finished, i)[n] = run.finished[n]
          /\ Append(run.finished, i)[Len(run.finished) + 1] = i
      BY <3>1, AppendProperties
    <3> QED
      BY <3>2, <3>3 DEF S
  <2> HIDE DEF done
  <2> QED
    BY <1>1, <2>1, LenProperties
<1>3. CASE Abandon
  BY <1>3, AbandonedIsClosed
<1>4. ASSUME NEW job \in Jobs, job.pkg = run.work[i].pkg, Continue(Arrived(i, job)),
             run.at \in {"resolving", "downloading"},
             At("downloading") => job.ver = run.work[i].ver,
             At("resolving") => Resolved(job)
      PROVE  Notes' /\ Closed'
  <2>1. /\ run' = [run EXCEPT !.work = [@ EXCEPT ![i] = job], !.finished = done]
        /\ UNCHANGED <<deps, lock, packages, intact>>
    BY <1>4 DEF Continue, Arrived, disk, world, counts
  <2>2. run'.work = [run.work EXCEPT ![i] = job]
    BY <2>1 DEF CompleteInv, InstallInv, Shaped
  <2> HIDE DEF done
  <2>3. At("resolving") => \A n \in DOMAIN done : Resolved(run'.work[done[n]])
    <3> SUFFICES ASSUME At("resolving"), NEW n \in DOMAIN done
                 PROVE  Resolved(run'.work[done[n]])
      OBVIOUS
    <3>1. CASE done[n] = i
      BY <1>4, <2>2, <3>1
    <3>2. CASE done[n] # i
      <4>1. n \in DOMAIN run.finished /\ done[n] = run.finished[n]
        BY <1>2, <3>2
      <4>2. Resolved(run.work[run.finished[n]])
        BY <4>1 DEF CompleteInv, Closed, BatchIsClosed
      <4> QED
        BY <1>1, <2>2, <3>2, <4>1, <4>2
    <3> QED
      BY <3>1, <3>2
  <2> QED
    BY <1>2, <1>4, <2>1, <2>3, JobIsReplaced
<1>5. CASE QueryArrives(i) /\ ~Abandon
  BY <1>1, <1>4, <1>5, SelectedIsAJob DEF QueryArrives, At, Resolved
<1>6. CASE DownloadArrives(i)
  <2> DEFINE job == [run.work[i] EXCEPT !.busy = FALSE]
  <2>1. job \in Jobs /\ job.pkg = run.work[i].pkg /\ job.ver = run.work[i].ver
    BY <1>1 DEF Jobs
  <2>2. At("downloading") /\ Continue(Arrived(i, job))
    BY <1>6 DEF DownloadArrives
  <2> HIDE DEF job
  <2> QED
    BY <1>4, <2>1, <2>2 DEF At
<1>7. CASE AttemptFails(i) /\ ~Abandon
  <2> DEFINE job == Retried(i)
  <2>1. job \in Jobs /\ job.pkg = run.work[i].pkg /\ job.ver = run.work[i].ver
    BY <1>1 DEF Jobs, Retried
  <2>2. /\ run.at \in {"resolving", "downloading"}
        /\ Continue([run EXCEPT !.work = [@ EXCEPT ![i] = job]])
    BY <1>7 DEF AttemptFails
  <2> HIDE DEF job
  <2>3. /\ run' = [run EXCEPT !.work = [@ EXCEPT ![i] = job], !.finished = run.finished]
        /\ UNCHANGED <<deps, lock, packages, intact>>
    BY <2>2 DEF Continue, disk, world, counts, CompleteInv, InstallInv, Shaped
  <2>4. run'.work = [run.work EXCEPT ![i] = job]
    BY <2>3 DEF CompleteInv, InstallInv, Shaped
  <2>5. At("resolving") => \A n \in DOMAIN run.finished : Resolved(run'.work[run.finished[n]])
    <3> SUFFICES ASSUME At("resolving"), NEW n \in DOMAIN run.finished
                 PROVE  Resolved(run'.work[run.finished[n]])
      OBVIOUS
    <3>1. Resolved(run.work[run.finished[n]])
      BY DEF CompleteInv, Closed, BatchIsClosed
    <3> QED
      BY <1>1, <2>1, <2>4, <3>1 DEF Resolved
  <2> QED
    BY <1>1, <2>1, <2>2, <2>3, <2>5, JobIsReplaced
<1>8. QueryArrives(i) \/ DownloadArrives(i) \/ AttemptFails(i)
  OBVIOUS
<1> QED
  BY <1>3, <1>5, <1>6, <1>7, <1>8

(* A batch that has arrived, in the order of arrival.                      *)
LEMMA ArrivedBatch ==
  ASSUME CompleteInv
  PROVE  /\ AsFinished \in Seq(Jobs) /\ DOMAIN AsFinished = DOMAIN run.finished
         /\ AllArrived => PkgsOf(AsFinished) = PkgsOf(run.work)
         /\ AllArrived => \A i \in DOMAIN run.work :
                            \E n \in DOMAIN run.finished : run.finished[n] = i
         /\ At("resolving") => \A n \in DOMAIN AsFinished : Resolved(AsFinished[n])
<1>1. /\ run.finished \in Seq(DOMAIN run.work)
      /\ \A i \in DOMAIN run.work : run.work[i] \in Jobs
      /\ \A n \in DOMAIN run.finished : run.finished[n] \in DOMAIN run.work
  BY BatchIsTyped
<1>2. DOMAIN run.finished = 1..Len(run.finished) /\ Len(run.finished) \in Nat
  BY <1>1, LenProperties
<1>3. DOMAIN AsFinished = DOMAIN run.finished
  BY DEF AsFinished
<1>4. \A n \in DOMAIN run.finished : AsFinished[n] = run.work[run.finished[n]]
  BY DEF AsFinished
<1>5. AsFinished \in Seq(Jobs)
  <2>1. AsFinished = [n \in 1..Len(run.finished) |-> AsFinished[n]]
    BY <1>2 DEF AsFinished
  <2>2. AsFinished \in [1..Len(run.finished) -> Jobs]
    BY <1>1, <1>2, <1>4, <2>1
  <2> QED
    BY <1>2, <2>2
<1>6. AllArrived => \A i \in DOMAIN run.work : \E n \in DOMAIN run.finished : run.finished[n] = i
  BY DEF AllArrived, Range
<1>7. AllArrived => PkgsOf(AsFinished) = PkgsOf(run.work)
  BY <1>1, <1>3, <1>4, <1>6 DEF PkgsOf
<1>8. At("resolving") => \A n \in DOMAIN AsFinished : Resolved(AsFinished[n])
  BY <1>3, <1>4 DEF CompleteInv, Closed, BatchIsClosed
<1> QED
  BY <1>3, <1>5, <1>6, <1>7, <1>8

LEMMA UnpackingStarts ==
  ASSUME CompleteInv, StartUnpacking
  PROVE  Notes' /\ Closed'
<1> DEFINE items == [i \in DOMAIN AsFinished |-> [pkg |-> AsFinished[i].pkg, ver |-> AsFinished[i].ver]]
<1>1. At("downloading") /\ AllArrived /\ run.todo = << >> /\ Listed
  BY DEF StartUnpacking, CompleteInv, Notes, Staged, At
<1>2. /\ run'.at = "unpacking" /\ run'.left = items /\ run'.work = << >> /\ run'.finished = << >>
      /\ run'.todo = run.todo /\ run'.pending = run.pending /\ run'.known = run.known
      /\ run'.found = run.found /\ UNCHANGED <<deps, lock, packages, intact>>
  BY DEF StartUnpacking, Continue, disk, world, counts, CompleteInv, InstallInv, Shaped
<1>3. /\ AsFinished \in Seq(Jobs) /\ DOMAIN AsFinished = DOMAIN run.finished
      /\ PkgsOf(AsFinished) = PkgsOf(run.work)
  BY <1>1, ArrivedBatch
<1>4. \A n \in DOMAIN AsFinished :
         /\ AsFinished[n].ver \in Versions /\ AsFinished[n].pkg \in Pkgs
         /\ intact => Needy(AsFinished[n])
  <2> SUFFICES ASSUME NEW n \in DOMAIN AsFinished
               PROVE  /\ AsFinished[n].ver \in Versions /\ AsFinished[n].pkg \in Pkgs
                      /\ intact => Needy(AsFinished[n])
    OBVIOUS
  <2>1. run.finished[n] \in DOMAIN run.work /\ AsFinished[n] = run.work[run.finished[n]]
        /\ run.work[run.finished[n]] \in Jobs
    BY <1>3, BatchIsTyped DEF AsFinished
  <2> QED
    BY <1>1, <2>1 DEF CompleteInv, Closed, DownloadsAreClosed, Resolved, Jobs
<1>5. /\ items \in Seq(Items) /\ DOMAIN items = DOMAIN AsFinished
      /\ \A n \in DOMAIN items : items[n].pkg = AsFinished[n].pkg /\ items[n].ver = AsFinished[n].ver
  <2>1. Len(AsFinished) \in Nat /\ DOMAIN AsFinished = 1..Len(AsFinished)
    BY <1>3, LenProperties
  <2>2. \A n \in DOMAIN items : /\ items[n] \in Items /\ items[n].pkg = AsFinished[n].pkg
                                /\ items[n].ver = AsFinished[n].ver
    BY <1>4 DEF Items
  <2>3. items \in [1..Len(AsFinished) -> Items] /\ DOMAIN items = DOMAIN AsFinished
    BY <2>1, <2>2
  <2> HIDE DEF items
  <2>4. items \in Seq(Items)
    BY <2>1, <2>3
  <2> QED
    BY <2>2, <2>3, <2>4
<1> HIDE DEF items
<1>6. Listed'
  <2>1. << >> \in Seq(Jobs) /\ << >> \in Seq(DOMAIN << >>)
    OBVIOUS
  <2> QED
    BY <1>1, <1>2, <1>5, <2>1 DEF Listed
<1>7. Staged'
  BY <1>1, <1>2 DEF Staged, Phases, Idle, Unpacking, InHand, At
<1>8. Coming' = Coming
  <2>1. PkgsOf(items) = PkgsOf(AsFinished)
    BY <1>5 DEF PkgsOf
  <2>2. Coming' = PkgsOf(items)
    BY <1>1, <1>2 DEF Coming, At, Idle, Unpacking
  <2>3. Coming = PkgsOf(run.work)
    BY <1>1 DEF Coming, At, Idle
  <2> QED
    BY <1>3, <2>1, <2>2, <2>3
<1>9. LockedIsUnpacked' /\ LockIsClosed' /\ DeclaredAreMet' /\ OnDisk'
  BY <1>1, <1>2, <1>8, QuietStep DEF Met, At
<1>10. LeftIsClosed'
  <2> SUFFICES ASSUME intact, NEW n \in DOMAIN items, NEW r \in Needs[<<items[n].pkg, items[n].ver>>]
               PROVE  Met(r.pkg)'
    BY <1>2 DEF LeftIsClosed, Needy
  <2>1. Met(r.pkg)
    BY <1>4, <1>5 DEF Needy
  <2> QED
    BY <1>2, <1>8, <2>1 DEF Met
<1>11. BatchIsClosed' /\ DownloadsAreClosed'
  BY <1>2 DEF BatchIsClosed, DownloadsAreClosed, At
<1> QED
  BY <1>6, <1>7, <1>9, <1>10, <1>11 DEF Notes, Closed

(* A run that has nothing left to do has met what it asked for.            *)
LEMMA EndsClosed ==
  ASSUME CompleteInv, FastPath \/ Finish
  PROVE  Notes' /\ Closed'
<1>1. /\ run.todo = << >> /\ run.at \in {"collecting", "unpacking"} /\ Coming = {}
  <2>1. PkgsOf(<< >>) = {}
    BY DEF PkgsOf
  <2> QED
    BY <2>1 DEF FastPath, Finish, Coming, At, Idle, Unpacking
<1>2. run' = [Rest EXCEPT !.at = "done"] /\ UNCHANGED <<deps, lock, packages, intact>>
  BY DEF FastPath, Finish, Continue, disk, world, counts
<1>3. Listed' /\ Staged' /\ run'.at = "done" /\ run'.todo = << >>
  BY <1>2, RestIsTyped DEF Rest
<1>4. \A p \in Pkgs : Met(p) => Met(p)'
  BY <1>1, <1>2 DEF Met
<1>5. LockedIsUnpacked' /\ LockIsClosed' /\ DeclaredAreMet' /\ OnDisk'
  BY <1>1, <1>2, <1>3, <1>4, QuietStep
<1>6. BatchIsClosed' /\ DownloadsAreClosed' /\ LeftIsClosed'
  BY <1>3 DEF BatchIsClosed, DownloadsAreClosed, LeftIsClosed, At, Unpacking
<1> QED
  BY <1>3, <1>5, <1>6 DEF Notes, Closed

-----------------------------------------------------------------------------
(* What the packages of a batch need is noted, or asked for now.           *)
LEMMA DemandsAreRequirements ==
  ASSUME CompleteInv, At("resolving"), NEW n \in DOMAIN run.finished
  PROVE  /\ Demands(n) \subseteq Requirements /\ IsFiniteSet(Demands(n))
         /\ AsFinished[n].pkg \in Pkgs
<1>1. AsFinished \in Seq(Jobs) /\ DOMAIN AsFinished = DOMAIN run.finished /\ Resolved(AsFinished[n])
  BY ArrivedBatch
<1>2. AsFinished[n] \in Jobs
  BY <1>1, ElementOfSeq, LenProperties
<1>3. <<AsFinished[n].pkg, AsFinished[n].ver>> \in Pkgs \X Versions
  BY <1>1, <1>2 DEF Resolved, Jobs
<1> QED
  BY <1>2, <1>3, InstallAssumption DEF Demands, Jobs

LEMMA NextBatchIsAsked ==
  ASSUME CompleteInv, At("resolving")
  PROVE  /\ NextBatch \in Seq(Requirements)
         /\ \A n \in DOMAIN run.finished : \A r \in Asked(n) : r.pkg \in PkgsOf(NextBatch)
<1> DEFINE chosen == [n \in DOMAIN run.finished |-> Once(Asked(n))]
           parts == {Once(Asked(n)) : n \in DOMAIN run.finished}
           asks == UNION parts
<1>1. \A n \in DOMAIN run.finished :
        Once(Asked(n)) \subseteq Requirements /\ IsFiniteSet(Once(Asked(n)))
  <2> SUFFICES ASSUME NEW n \in DOMAIN run.finished
               PROVE  Once(Asked(n)) \subseteq Requirements /\ IsFiniteSet(Once(Asked(n)))
    OBVIOUS
  <2>1. Once(Asked(n)) \subseteq Demands(n)
    BY DEF Once, Asked
  <2> QED
    BY <2>1, DemandsAreRequirements, FS_Subset
<1>2. IsFiniteSet(parts)
  <2>1. IsFiniteSet(DOMAIN run.finished)
    <3>1. DOMAIN run.finished = 1..Len(run.finished) /\ Len(run.finished) \in Nat
      BY BatchIsTyped, LenProperties
    <3> QED
      BY <3>1, FS_Interval
  <2>2. chosen \in Surjection(DOMAIN run.finished, parts)
    BY DEF Surjection
  <2> HIDE DEF chosen, parts
  <2> QED
    BY <2>1, <2>2, FS_Surjection
<1>3. IsFiniteSet(asks) /\ asks \subseteq Requirements
  <2>1. \A T \in parts : IsFiniteSet(T) /\ T \subseteq Requirements
    BY <1>1
  <2> HIDE DEF parts
  <2> QED
    BY <1>2, <2>1, FS_UNION
<1>4. /\ NextBatch \in Seq(asks)
      /\ \A x \in asks : \E m \in DOMAIN NextBatch : NextBatch[m] = x
  <2>1. NextBatch = SetToSeq(asks)
    BY DEF NextBatch
  <2> HIDE DEF asks
  <2> QED
    BY <1>3, <2>1, SetIsListed
<1>5. ASSUME NEW n \in DOMAIN run.finished, NEW r \in Asked(n)
      PROVE  r.pkg \in PkgsOf(NextBatch)
  <2> DEFINE q == CHOOSE x \in Asked(n) : x.pkg = r.pkg
  <2>1. q \in Asked(n) /\ q.pkg = r.pkg
    OBVIOUS
  <2>2. q = CHOOSE x \in Asked(n) : x.pkg = q.pkg
    BY <2>1
  <2> HIDE DEF q
  <2>3. q \in Once(Asked(n))
    BY <2>1, <2>2 DEF Once
  <2>4. q \in asks
    BY <2>3
  <2> HIDE DEF asks
  <2>5. PICK m \in DOMAIN NextBatch : NextBatch[m] = q
    BY <1>4, <2>4
  <2> QED
    BY <2>1, <2>5 DEF PkgsOf
<1> HIDE DEF asks
<1>6. NextBatch \in Seq(Requirements)
  BY <1>3, <1>4, SeqMonotonic
<1> QED
  BY <1>5, <1>6

LEMMA NotedIsMet ==
  ASSUME CompleteInv, At("resolving"), NEW p \in Noted(Len(run.finished))
  PROVE  /\ p \in Pkgs
         /\ p \in run.known \/ p \in PkgsOf(AsFinished) \/ p \in PkgsOf(NextBatch)
<1>1. /\ DOMAIN run.finished = 1..Len(run.finished) /\ Len(run.finished) \in Nat
      /\ DOMAIN AsFinished = DOMAIN run.finished
  BY BatchIsTyped, ArrivedBatch, LenProperties
<1>2. p \in Pkgs
  <2>1. run.known \subseteq Pkgs
    BY DEF CompleteInv, Notes, Listed
  <2> QED
    BY <1>1, <2>1, DemandsAreRequirements DEF Noted, Requirements
<1> SUFFICES p \in run.known \/ p \in PkgsOf(AsFinished) \/ p \in PkgsOf(NextBatch)
  BY <1>2
<1> DEFINE N == Len(run.finished)
           wants(m) == \E r \in Demands(m) : r.pkg = p
           wanting == {n \in 1..N : wants(n)}
<1>3. \A k \in Nat : p \in Noted(k) => \/ p \in run.known
                                       \/ \E m \in 1..k : p = AsFinished[m].pkg
                                       \/ \E m \in 1..k : wants(m)
  BY DEF Noted
<1>4. \A m \in 1..N : AsFinished[m].pkg \in PkgsOf(AsFinished)
  BY <1>1 DEF PkgsOf
<1>5. CASE wanting = {}
  BY <1>1, <1>3, <1>4, <1>5
<1>6. CASE wanting # {}
  <2>1. wanting \subseteq Nat
    BY <1>1
  <2>2. PICK n \in wanting : \A m \in wanting : n <= m
    <3> HIDE DEF wanting
    <3> QED
      BY <1>6, <2>1, LeastIsThere
  <2>3. n \in 1..N /\ wants(n)
    BY <2>2
  <2>4. PICK r \in Demands(n) : r.pkg = p
    BY <2>3
  <2>5. CASE r \in Asked(n)
    BY <1>1, <2>3, <2>4, <2>5, NextBatchIsAsked
  <2>6. CASE r \notin Asked(n)
    <3>1. p \in Noted(n - 1) \cup {AsFinished[n].pkg}
      BY <2>4, <2>6 DEF Asked
    <3>2. CASE p = AsFinished[n].pkg
      BY <1>4, <2>3, <3>2
    <3>3. CASE p \in Noted(n - 1)
      <4>1. ASSUME NEW m \in 1..(n - 1) PROVE m \in 1..N /\ ~ wants(m)
        <5>1. m \in 1..N /\ ~ (n <= m)
          BY <1>1, <2>3
        <5> QED
          BY <2>2, <5>1
      <4>2. n - 1 \in Nat
        BY <1>1, <2>3
      <4> HIDE DEF wants
      <4> QED
        BY <1>3, <1>4, <3>3, <4>1, <4>2
    <3> QED
      BY <3>1, <3>2, <3>3
  <2> QED
    BY <2>5, <2>6
<1> QED
  BY <1>5, <1>6

(* What was found before and what has arrived, taken together.             *)
LEMMA FoundGrows ==
  ASSUME CompleteInv, At("resolving"), NEW found, found = run.found \o AsFinished
  PROVE  /\ found \in Seq(Jobs) /\ PkgsOf(found) = PkgsOf(run.found) \cup PkgsOf(AsFinished)
         /\ \A n \in DOMAIN found :
              /\ Resolved(found[n]) /\ found[n] \in Jobs
              /\ \A r \in Needs[<<found[n].pkg, found[n].ver>>] : r.pkg \in Noted(Len(run.finished))
<1>1. /\ run.found \in Seq(Jobs) /\ AsFinished \in Seq(Jobs)
      /\ DOMAIN AsFinished = DOMAIN run.finished /\ run.finished \in Seq(DOMAIN run.work)
      /\ \A n \in DOMAIN AsFinished : Resolved(AsFinished[n])
  BY ArrivedBatch, BatchIsTyped DEF CompleteInv, Notes, Listed
<1> DEFINE k == Len(run.found)
           m == Len(AsFinished)
<1>2. /\ k \in Nat /\ m \in Nat /\ DOMAIN run.found = 1..k /\ DOMAIN AsFinished = 1..m
      /\ DOMAIN run.finished = 1..Len(run.finished) /\ Len(run.finished) \in Nat
  BY <1>1, LenProperties
<1>3. /\ found \in Seq(Jobs) /\ Len(found) = k + m
      /\ \A i \in 1..(k + m) : found[i] = IF i <= k THEN run.found[i] ELSE AsFinished[i - k]
  BY <1>1, ConcatProperties
<1>4. DOMAIN found = 1..(k + m)
  BY <1>3, LenProperties
<1> HIDE DEF k, m
<1>5. \A i \in DOMAIN found : \/ i \in DOMAIN run.found /\ found[i] = run.found[i]
                              \/ i - k \in DOMAIN AsFinished /\ found[i] = AsFinished[i - k]
  BY <1>2, <1>3, <1>4
<1>6. \A i \in DOMAIN run.found : i \in DOMAIN found /\ found[i] = run.found[i]
  BY <1>2, <1>3, <1>4
<1>7. \A i \in DOMAIN AsFinished : i + k \in DOMAIN found /\ found[i + k] = AsFinished[i]
  BY <1>2, <1>3, <1>4
<1>8. PkgsOf(found) = PkgsOf(run.found) \cup PkgsOf(AsFinished)
  <2>1. PkgsOf(found) \subseteq PkgsOf(run.found) \cup PkgsOf(AsFinished)
    BY <1>5 DEF PkgsOf
  <2>2. PkgsOf(run.found) \subseteq PkgsOf(found)
    BY <1>6 DEF PkgsOf
  <2>3. PkgsOf(AsFinished) \subseteq PkgsOf(found)
    BY <1>7 DEF PkgsOf
  <2> QED
    BY <2>1, <2>2, <2>3
<1>9. \A i \in DOMAIN run.found :
        /\ Resolved(run.found[i])
        /\ \A r \in Needs[<<run.found[i].pkg, run.found[i].ver>>] : r.pkg \in Noted(Len(run.finished))
  <2>1. run.known \subseteq Noted(Len(run.finished))
    BY DEF Noted
  <2> QED
    BY <2>1 DEF CompleteInv, Closed, BatchIsClosed, NeedsNoted
<1>10. \A i \in DOMAIN AsFinished :
         \A r \in Needs[<<AsFinished[i].pkg, AsFinished[i].ver>>] : r.pkg \in Noted(Len(run.finished))
  <2>1. \A i \in 1..Len(run.finished) : \A r \in Demands(i) : r.pkg \in Noted(Len(run.finished))
    BY DEF Noted
  <2> QED
    BY <1>1, <1>2, <2>1 DEF Demands
<1>11. ASSUME NEW n \in DOMAIN found
       PROVE  /\ Resolved(found[n]) /\ found[n] \in Jobs
              /\ \A r \in Needs[<<found[n].pkg, found[n].ver>>] : r.pkg \in Noted(Len(run.finished))
  <2>1. found[n] \in Jobs
    BY <1>3, ElementOfSeq, LenProperties
  <2>2. CASE n \in DOMAIN run.found /\ found[n] = run.found[n]
    BY <1>9, <2>1, <2>2
  <2>3. CASE n - k \in DOMAIN AsFinished /\ found[n] = AsFinished[n - k]
    BY <1>1, <1>10, <2>1, <2>3
  <2> QED
    BY <1>5, <2>2, <2>3
<1> QED
  BY <1>3, <1>8, <1>11

LEMMA MoreIsAsked ==
  ASSUME CompleteInv, ExpandBatch, NextBatch # << >>
  PROVE  Notes' /\ Closed'
<1> DEFINE batch == NextBatch
           jobs == [n \in DOMAIN batch |-> Job(batch[n])]
           found == run.found \o AsFinished
           known == Noted(Len(run.finished))
<1>1. At("resolving") /\ AllArrived /\ run.todo = << >> /\ Listed
  BY DEF ExpandBatch, CompleteInv, Notes, Staged, At
<1>2. /\ run'.at = "resolving" /\ run'.known = known /\ run'.found = found /\ run'.work = jobs
      /\ run'.finished = << >> /\ run'.todo = run.todo /\ run'.pending = run.pending
      /\ run'.left = run.left /\ UNCHANGED <<deps, lock, packages, intact>>
  BY <1>1 DEF ExpandBatch, Continue, disk, world, counts, At, CompleteInv, InstallInv, Shaped
<1>3. batch \in Seq(Requirements)
  BY <1>1, NextBatchIsAsked
<1>4. \A p \in known : p \in Pkgs /\ (p \in run.known \/ p \in PkgsOf(AsFinished) \/ p \in PkgsOf(batch))
  BY <1>1, NotedIsMet
<1>5. /\ found \in Seq(Jobs) /\ PkgsOf(found) = PkgsOf(run.found) \cup PkgsOf(AsFinished)
      /\ \A n \in DOMAIN found :
           /\ Resolved(found[n])
           /\ \A r \in Needs[<<found[n].pkg, found[n].ver>>] : r.pkg \in known
  BY <1>1, FoundGrows
<1>6. PkgsOf(AsFinished) = PkgsOf(run.work)
  BY <1>1, ArrivedBatch
<1> HIDE DEF batch, found, known
<1>7. jobs \in Seq(Jobs) /\ PkgsOf(jobs) = PkgsOf(batch)
  <2>1. /\ Len(batch) \in Nat /\ DOMAIN batch = 1..Len(batch)
        /\ \A i \in DOMAIN batch : batch[i] \in Requirements
    BY <1>3, LenProperties, ElementOfSeq
  <2>2. DOMAIN jobs = DOMAIN batch
        /\ \A i \in DOMAIN batch : jobs[i] \in Jobs /\ jobs[i].pkg = batch[i].pkg
    BY <2>1, JobsAreJobs
  <2>3. jobs \in [1..Len(batch) -> Jobs]
    BY <2>1, <2>2
  <2> HIDE DEF jobs
  <2>4. jobs \in Seq(Jobs)
    BY <2>1, <2>3
  <2> QED
    BY <2>2, <2>4 DEF PkgsOf
<1> HIDE DEF jobs
<1>8. Listed'
  <2>1. << >> \in Seq(DOMAIN jobs) /\ known \in SUBSET Pkgs
    BY <1>4
  <2> QED
    BY <1>1, <1>2, <1>5, <1>7, <2>1 DEF Listed
<1>9. Staged'
  BY <1>1, <1>2 DEF Staged, Phases, Idle, Unpacking, InHand, At
<1>10. /\ Coming = PkgsOf(run.work) \cup PkgsOf(run.found)
       /\ Coming' = PkgsOf(jobs) \cup PkgsOf(found)
  BY <1>1, <1>2 DEF Coming, At, Idle
<1>11. \A p \in Pkgs : Met(p) => Met(p)'
  BY <1>2, <1>5, <1>6, <1>10 DEF Met
<1>12. LockedIsUnpacked' /\ LockIsClosed' /\ DeclaredAreMet' /\ OnDisk'
  BY <1>1, <1>2, <1>11, QuietStep DEF At
<1>13. BatchIsClosed'
  <2>1. ASSUME intact, NEW p \in known PROVE Met(p)'
    <3>1. CASE p \in run.known
      BY <1>1, <1>4, <1>11, <2>1, <3>1 DEF CompleteInv, Closed, BatchIsClosed
    <3>2. CASE p \in PkgsOf(AsFinished) \/ p \in PkgsOf(batch)
      BY <1>5, <1>7, <1>10, <3>2 DEF Met
    <3> QED
      BY <1>4, <3>1, <3>2
  <2> QED
    BY <1>2, <1>5, <2>1 DEF BatchIsClosed, Resolved, NeedsNoted
<1>14. DownloadsAreClosed' /\ LeftIsClosed'
  BY <1>2 DEF DownloadsAreClosed, LeftIsClosed, At, Unpacking
<1> QED
  BY <1>8, <1>9, <1>12, <1>13, <1>14 DEF Notes, Closed

LEMMA DownloadsStart ==
  ASSUME CompleteInv, ExpandBatch, NextBatch = << >>
  PROVE  Notes' /\ Closed'
<1> DEFINE found == run.found \o AsFinished
           jobs == [n \in DOMAIN found |-> Again(found[n])]
           known == Noted(Len(run.finished))
<1>1. At("resolving") /\ AllArrived /\ run.todo = << >> /\ Listed
  BY DEF ExpandBatch, CompleteInv, Notes, Staged, At
<1>2. /\ run'.at = "downloading" /\ run'.known = known /\ run'.found = << >> /\ run'.work = jobs
      /\ run'.finished = << >> /\ run'.todo = run.todo /\ run'.pending = run.pending
      /\ run'.left = run.left /\ UNCHANGED <<deps, lock, packages, intact>>
  BY <1>1 DEF ExpandBatch, Continue, disk, world, counts, At, CompleteInv, InstallInv, Shaped
<1>3. \A p \in known : p \in Pkgs /\ (p \in run.known \/ p \in PkgsOf(AsFinished))
  <2>1. PkgsOf(<< >>) = {}
    BY DEF PkgsOf
  <2> QED
    BY <1>1, <2>1, NotedIsMet
<1>4. /\ found \in Seq(Jobs) /\ PkgsOf(found) = PkgsOf(run.found) \cup PkgsOf(AsFinished)
      /\ \A n \in DOMAIN found :
           /\ Resolved(found[n]) /\ found[n] \in Jobs
           /\ \A r \in Needs[<<found[n].pkg, found[n].ver>>] : r.pkg \in known
  BY <1>1, FoundGrows
<1>5. PkgsOf(AsFinished) = PkgsOf(run.work)
  BY <1>1, ArrivedBatch
<1> HIDE DEF found, known
<1>6. /\ jobs \in Seq(Jobs) /\ PkgsOf(jobs) = PkgsOf(found) /\ DOMAIN jobs = DOMAIN found
      /\ \A i \in DOMAIN found : jobs[i].pkg = found[i].pkg /\ jobs[i].ver = found[i].ver
  <2>1. Len(found) \in Nat /\ DOMAIN found = 1..Len(found)
    BY <1>4, LenProperties
  <2>2. DOMAIN jobs = DOMAIN found
        /\ \A i \in DOMAIN found : /\ jobs[i] \in Jobs /\ jobs[i].pkg = found[i].pkg
                                   /\ jobs[i].ver = found[i].ver
    BY <1>4 DEF Again, Jobs
  <2>3. jobs \in [1..Len(found) -> Jobs]
    BY <2>1, <2>2
  <2> HIDE DEF jobs
  <2>4. jobs \in Seq(Jobs)
    BY <2>1, <2>3
  <2> QED
    BY <2>2, <2>4 DEF PkgsOf
<1> HIDE DEF jobs
<1>7. Listed'
  <2>1. /\ << >> \in Seq(DOMAIN jobs) /\ << >> \in Seq(Jobs) /\ known \in SUBSET Pkgs
    BY <1>3
  <2> QED
    BY <1>1, <1>2, <1>6, <2>1 DEF Listed
<1>8. Staged'
  BY <1>1, <1>2 DEF Staged, Phases, Idle, Unpacking, InHand, At
<1>9. Coming = PkgsOf(run.work) \cup PkgsOf(run.found) /\ Coming' = PkgsOf(jobs)
  BY <1>1, <1>2 DEF Coming, At, Idle
<1>10. \A p \in Pkgs : Met(p) => Met(p)'
  BY <1>2, <1>4, <1>5, <1>6, <1>9 DEF Met
<1>11. LockedIsUnpacked' /\ LockIsClosed' /\ DeclaredAreMet' /\ OnDisk'
  BY <1>1, <1>2, <1>10, QuietStep DEF At
<1>12. DownloadsAreClosed'
  <2> SUFFICES ASSUME NEW n \in DOMAIN jobs
               PROVE  /\ jobs[n].ver \in Versions
                      /\ intact => \A r \in Needs[<<jobs[n].pkg, jobs[n].ver>>] : Met(r.pkg)'
    BY <1>2 DEF DownloadsAreClosed, At, Resolved, Needy
  <2>1. jobs[n].ver = found[n].ver /\ jobs[n].pkg = found[n].pkg /\ Resolved(found[n])
    BY <1>4, <1>6
  <2>2. ASSUME intact, NEW p \in known PROVE Met(p)'
    <3>1. CASE p \in run.known
      BY <1>1, <1>3, <1>10, <2>2, <3>1 DEF CompleteInv, Closed, BatchIsClosed
    <3>2. CASE p \in PkgsOf(AsFinished)
      BY <1>4, <1>6, <1>9, <3>2 DEF Met
    <3> QED
      BY <1>3, <3>1, <3>2
  <2> QED
    BY <1>4, <1>6, <2>1, <2>2 DEF Resolved
<1>13. BatchIsClosed' /\ LeftIsClosed'
  BY <1>2 DEF BatchIsClosed, LeftIsClosed, At, Unpacking
<1> QED
  BY <1>7, <1>8, <1>11, <1>12, <1>13 DEF Notes, Closed

-----------------------------------------------------------------------------
(* Phase 4, one package: it leaves the list when it is locked.             *)
LEMMA UnderWay ==
  ASSUME CompleteInv, Unpacking, run.left # << >>
  PROVE  /\ Item \in Items /\ Item = run.left[1] /\ Item.pkg \in Pkgs /\ Item.ver # Nothing
         /\ run.todo # << >> => /\ Head(run.todo).kind = "registry"
                                /\ Head(run.todo) \in Registry
                                /\ Item.pkg = Head(run.todo).pkg
         /\ run.found \in Seq(Jobs)
<1>1. run.left \in Seq(Items) /\ run.todo \in Seq(Dependencies) /\ run.found \in Seq(Jobs)
  BY DEF CompleteInv, Notes, Listed
<1>2. Item \in Items /\ Item = run.left[1]
  BY <1>1, HeadTailProperties DEF Item
<1>3. Item.pkg \in Pkgs /\ Item.ver # Nothing
  BY <1>2, InstallAssumption DEF Items, Versions, Nothing
<1>4. ASSUME run.todo # << >>
      PROVE  /\ Head(run.todo).kind = "registry" /\ Head(run.todo) \in Registry
             /\ Item.pkg = Head(run.todo).pkg
  <2>1. Head(run.todo).kind = "registry" /\ Item.pkg = Head(run.todo).pkg
    BY <1>2, <1>4 DEF CompleteInv, Notes, Staged
  <2>2. Head(run.todo) \in Range(run.todo)
    <3>1. Head(run.todo) = run.todo[1] /\ Len(run.todo) \in Nat \ {0}
      BY <1>1, <1>4, HeadTailProperties, LenProperties
    <3> QED
      BY <1>1, <3>1, LenProperties DEF Range
  <2> QED
    BY <2>1, <2>2 DEF CompleteInv, TodoIsDeclared, Registry
<1> QED
  BY <1>1, <1>2, <1>3, <1>4

LEMMA ItemGoesOn ==
  ASSUME CompleteInv, CacheArchive \/ ClearPackage \/ FillPackage
  PROVE  Notes' /\ Closed'
<1>1. PICK x \in InHand : run' = [run EXCEPT !.at = x]
  BY DEF CacheArchive, ClearPackage, FillPackage, InHand
<1>2. /\ run'.at = x /\ run'.todo = run.todo /\ run'.pending = run.pending /\ run'.work = run.work
      /\ run'.finished = run.finished /\ run'.known = run.known /\ run'.found = run.found
      /\ run'.left = run.left
  BY <1>1 DEF CompleteInv, InstallInv, Shaped
<1>3. /\ Unpacking /\ run.left # << >> /\ UNCHANGED <<deps, lock, intact>>
  BY DEF CacheArchive, ClearPackage, FillPackage, At, Unpacking, world, counts, CompleteInv, Notes,
         Staged, InHand
<1>4. Listed' /\ OnDisk'
  BY <1>2, <1>3 DEF CompleteInv, Notes, Listed, OnDisk
<1>5. Staged'
  BY <1>2, <1>3 DEF CompleteInv, Notes, Staged, Phases, Idle, Unpacking, InHand, At
<1>6. Coming' = Coming
  BY <1>2, <1>3 DEF Coming, At, Idle, Unpacking, InHand
<1>7. Item' = Item
  BY <1>2 DEF Item
<1>8. LockedIsUnpacked'
  <2>1. CASE CacheArchive
    BY <1>2, <1>3, <2>1 DEF CacheArchive, At, CompleteInv, Closed, LockedIsUnpacked
  <2>2. CASE ClearPackage \/ FillPackage
    <3>1. \A p \in Pkgs : p # Item.pkg => packages'[p] = packages[p]
      BY <2>2 DEF ClearPackage, FillPackage, CompleteInv, InstallInv, Shaped
    <3>2. run'.at \in {"extracting", "extracted"}
      BY <2>2, <1>1, <1>2 DEF ClearPackage, FillPackage, CompleteInv, InstallInv, Shaped
    <3> QED
      BY <1>3, <1>7, <3>1, <3>2 DEF CompleteInv, Closed, LockedIsUnpacked
  <2> QED
    BY <2>1, <2>2
<1>9. LockIsClosed' /\ LeftIsClosed'
  BY <1>2, <1>3, <1>6 DEF CompleteInv, Closed, LockIsClosed, LeftIsClosed, Met, Needy, Unpacking,
     FromElsewhere, Registry
<1>10. DeclaredAreMet'
  BY <1>2, <1>3, <1>6 DEF CompleteInv, Closed, DeclaredAreMet, Met, Simple, Registry, Unpacking
<1>11. BatchIsClosed' /\ DownloadsAreClosed'
  BY <1>2 DEF BatchIsClosed, DownloadsAreClosed, At, InHand
<1> QED
  BY <1>4, <1>5, <1>8, <1>9, <1>10, <1>11 DEF Notes, Closed

LEMMA ItemIsLocked ==
  ASSUME CompleteInv, SaveLock
  PROVE  Notes' /\ Closed'
<1>1. At("extracted") /\ Unpacking /\ run.left # << >>
  BY DEF SaveLock, At, Unpacking, CompleteInv, Notes, Staged, InHand
<1>2. /\ Item \in Items /\ Item = run.left[1] /\ Item.pkg \in Pkgs /\ Item.ver # Nothing
      /\ run.todo # << >> => /\ Head(run.todo) \in Registry /\ Item.pkg = Head(run.todo).pkg
      /\ run.found \in Seq(Jobs)
  BY <1>1, UnderWay
<1>3. /\ UNCHANGED <<deps, packages, intact>>
      /\ lock' = [lock EXCEPT ![Item.pkg] = Item.ver]
  BY DEF SaveLock, Saved, world, counts
<1>4. lock \in [Pkgs -> Versions \cup {Nothing}] /\ run.left \in Seq(Items)
      /\ run.todo \in Seq(Dependencies)
  BY DEF CompleteInv, Notes, OnDisk, Listed
<1>5. lock'[Item.pkg] = Item.ver /\ \A p \in Pkgs : p # Item.pkg => lock'[p] = lock[p]
  BY <1>2, <1>3, <1>4
<1>6. /\ run'.work = run.work /\ run'.finished = run.finished /\ run'.known = run.known
      /\ run'.found = run.found /\ run'.pending = run.pending
      /\ run.todo = << >> => /\ run'.at = "unpacking" /\ run'.todo = run.todo
                             /\ run'.left = Tail(run.left)
      /\ run.todo # << >> => /\ run'.at = "collecting" /\ run'.todo = Tail(run.todo)
                             /\ run'.left = << >>
  BY DEF SaveLock, Collected, CompleteInv, InstallInv, Shaped
<1>7. /\ Tail(run.left) \in Seq(Items) /\ Len(Tail(run.left)) = Len(run.left) - 1
      /\ \A i \in 1..Len(Tail(run.left)) : Tail(run.left)[i] = run.left[i + 1]
      /\ Len(run.left) \in Nat /\ DOMAIN run.left = 1..Len(run.left)
      /\ DOMAIN Tail(run.left) = 1..Len(Tail(run.left))
  BY <1>1, <1>4, HeadTailProperties, LenProperties
<1>8. Listed'
  <2>1. run.todo # << >> => Tail(run.todo) \in Seq(Dependencies)
    BY <1>4, HeadTailProperties
  <2>2. << >> \in Seq(Items)
    OBVIOUS
  <2> QED
    BY <1>6, <1>7, <2>1, <2>2 DEF CompleteInv, Notes, Listed
<1>9. OnDisk'
  BY <1>2, <1>3, <1>4 DEF CompleteInv, Notes, OnDisk, Items
<1>10. Staged'
  BY <1>6, NothingUnderWay DEF Staged, Phases, Idle, Unpacking, InHand, At
<1>11. \A p \in Coming : p \in Coming' \/ p = Item.pkg
  <2>1. CASE run.todo = << >>
    <3>1. Coming = PkgsOf(run.left) /\ Coming' = PkgsOf(Tail(run.left))
      BY <1>1, <1>6, <2>1 DEF Coming, At, Idle, Unpacking
    <3>2. \A i \in DOMAIN run.left : i = 1 \/ (i - 1 \in DOMAIN Tail(run.left)
                                               /\ Tail(run.left)[i - 1] = run.left[i])
      BY <1>7
    <3> QED
      BY <1>2, <3>1, <3>2 DEF PkgsOf
  <2>2. CASE run.todo # << >>
    BY <1>1, <1>6, <2>2 DEF Coming, At, Idle, Unpacking
  <2> QED
    BY <2>1, <2>2
<1>12. ASSUME NEW p \in Pkgs, Met(p) PROVE Met(p)'
  <2>1. CASE p = Item.pkg
    BY <1>2, <1>5, <2>1 DEF Met
  <2>2. CASE p # Item.pkg
    BY <1>5, <1>11, <1>12, <2>2 DEF Met
  <2> QED
    BY <2>1, <2>2
<1>13. LockedIsUnpacked'
  <2>1. packages[Item.pkg] = Item.ver
    BY <1>1, <1>2 DEF CompleteInv, InstallInv, Unpacked, At
  <2> QED
    BY <1>3, <1>5, <2>1 DEF CompleteInv, Closed, LockedIsUnpacked
<1>14. LockIsClosed'
  <2> SUFFICES ASSUME intact, NEW p \in Pkgs \ FromElsewhere, lock'[p] # Nothing,
                      NEW r \in Needs[<<p, lock'[p]>>]
               PROVE  Met(r.pkg)'
    BY <1>3 DEF LockIsClosed, FromElsewhere, Registry
  <2>1. r.pkg \in Pkgs
    <3>1. lock'[p] \in Versions
      BY <1>2, <1>4, <1>5 DEF Items
    <3> QED
      BY <3>1, NeedsAreRequirements
  <2>2. CASE p # Item.pkg
    BY <1>5, <1>12, <2>1, <2>2 DEF CompleteInv, Closed, LockIsClosed
  <2>3. CASE p = Item.pkg
    <3>1. run.todo = << >>
      BY <1>2, <2>3 DEF FromElsewhere
    <3>2. 1 \in DOMAIN run.left
      BY <1>1, <1>4, <1>7
    <3>3. Needy(run.left[1])
      BY <1>1, <3>1, <3>2 DEF CompleteInv, Closed, LeftIsClosed
    <3>4. Met(r.pkg)
      BY <1>2, <1>5, <2>3, <3>3 DEF Needy
    <3> QED
      BY <1>12, <2>1, <3>4
  <2> QED
    BY <2>2, <2>3
<1>15. DeclaredAreMet'
  <2> SUFFICES ASSUME intact, NEW d \in Simple \cup Registry
               PROVE  d \in Range(run'.todo) \/ Met(d.pkg)'
    BY <1>3 DEF DeclaredAreMet, Simple, Registry
  <2>1. d \in Range(run.todo) \/ Met(d.pkg)
    BY <1>1 DEF CompleteInv, Closed, DeclaredAreMet, At
  <2>2. d.pkg \in Pkgs
    <3>1. d \in Range(deps) /\ d.kind \in {"simple", "registry"}
      BY DEF Simple, Registry
    <3>2. \A i \in DOMAIN deps : deps[i] \in Dependencies
      BY ElementOfSeq, LenProperties DEF CompleteInv, Notes, OnDisk
    <3> QED
      BY <3>1, <3>2, KindsOfDependencies DEF Range
  <2>3. CASE run.todo # << >> /\ d \in Range(run.todo)
    <3>1. CASE d = Head(run.todo)
      BY <1>2, <1>5, <2>3, <3>1 DEF Met
    <3>2. CASE d # Head(run.todo)
      BY <1>4, <1>6, <2>3, <3>2, OthersAreLeft
    <3> QED
      BY <3>1, <3>2
  <2> QED
    BY <1>6, <1>12, <2>1, <2>2, <2>3
<1>16. LeftIsClosed'
  <2> SUFFICES ASSUME run.todo = << >>, intact, NEW n \in DOMAIN Tail(run.left),
                      NEW r \in Needs[<<Tail(run.left)[n].pkg, Tail(run.left)[n].ver>>]
               PROVE  Met(r.pkg)'
    BY <1>3, <1>6 DEF LeftIsClosed, Unpacking, Needy
  <2>1. n + 1 \in DOMAIN run.left /\ Tail(run.left)[n] = run.left[n + 1]
    BY <1>7
  <2>2. run.left[n + 1] \in Items
    BY <1>4, <2>1, ElementOfSeq, LenProperties
  <2>3. Met(r.pkg)
    BY <1>1, <2>1 DEF CompleteInv, Closed, LeftIsClosed, Needy
  <2>4. r.pkg \in Pkgs
    BY <2>1, <2>2, NeedsAreRequirements DEF Items
  <2> QED
    BY <1>12, <2>3, <2>4
<1>17. BatchIsClosed' /\ DownloadsAreClosed'
  BY <1>6 DEF BatchIsClosed, DownloadsAreClosed, At
<1> QED
  BY <1>8, <1>9, <1>10, <1>13, <1>14, <1>15, <1>16, <1>17 DEF Notes, Closed

-----------------------------------------------------------------------------
LEMMA TodoStaysDeclared ==
  ASSUME CompleteInv, [InstallNext]_installVars
  PROVE  TodoIsDeclared'
<1>1. run.todo # << >> => Range(Tail(run.todo)) \subseteq Range(run.todo)
  <2> SUFFICES ASSUME run.todo # << >> PROVE Range(Tail(run.todo)) \subseteq Range(run.todo)
    OBVIOUS
  <2>1. run.todo \in Seq(Dependencies)
    BY DEF CompleteInv, Notes, Listed
  <2>2. /\ Tail(run.todo) \in Seq(Dependencies) /\ Len(Tail(run.todo)) = Len(run.todo) - 1
        /\ \A i \in 1..Len(Tail(run.todo)) : Tail(run.todo)[i] = run.todo[i + 1]
        /\ Len(run.todo) \in Nat /\ DOMAIN run.todo = 1..Len(run.todo)
        /\ DOMAIN Tail(run.todo) = 1..Len(Tail(run.todo))
    BY <2>1, HeadTailProperties, LenProperties
  <2>3. \A i \in DOMAIN Tail(run.todo) : i + 1 \in DOMAIN run.todo
                                         /\ Tail(run.todo)[i] = run.todo[i + 1]
    BY <2>2
  <2> QED
    BY <2>3 DEF Range
<1>2. Shaped
  BY DEF CompleteInv, InstallInv
<1>3. deps' = deps
  BY DEF InstallNext, InstallStep, StartInstall, Kill, DeleteArchive, FreshCheckout, Publish, Change,
     CollectSimple, CollectPath, CollectRegistry, CloneOrFetch, CloneFails, CheckOut, ClearCopy,
     FillCopy, StartResolving, ExpandBatch, StartUnpacking, FastPath, Finish, QueryArrives,
     DownloadArrives, AttemptFails, CacheArchive, ClearPackage, FillPackage, UnpackFails, SaveLock,
     Continue, Abandon, world, installVars
<1>4. \/ run'.todo \in {<< >>, run.todo, deps}
      \/ run.todo # << >> /\ run'.todo = Tail(run.todo)
  <2>1. CASE StartInstall \/ Kill \/ Abandon \/ FastPath \/ Finish
    <3>1. \/ run' = Rest
          \/ \E x : run' = [Rest EXCEPT !.at = x]
          \/ \E x : run' = [Rest EXCEPT !.at = x, !.todo = deps]
      BY <2>1 DEF StartInstall, Kill, Abandon, FastPath, Finish, Continue
    <3>2. /\ Rest.todo = << >> /\ \A x : [Rest EXCEPT !.at = x].todo = << >>
          /\ \A x : [Rest EXCEPT !.at = x, !.todo = deps].todo = deps
      BY DEF Rest
    <3> QED
      BY <3>1, <3>2
  <2>2. CASE CollectSimple \/ CollectPath \/ CollectRegistry
    <3>1. /\ run.todo # << >>
          /\ \/ Abandon
             \/ Continue(Collected)
             \/ \E l : Continue([Collected EXCEPT !.pending = l])
             \/ \E l : Continue([run EXCEPT !.at = "unpacking", !.left = l])
      BY <2>2 DEF CollectSimple, CollectPath, CollectRegistry, NextIs
    <3> QED
      BY <1>2, <2>1, <3>1 DEF Continue, Collected, Shaped
  <2>3. CASE CloneOrFetch \/ CloneFails \/ CheckOut \/ ClearCopy \/ FillCopy
    <3>1. \/ Abandon
          \/ \E x : run' = [run EXCEPT !.at = x]
          \/ FillCopy
      BY <2>3 DEF CloneOrFetch, CloneFails, CheckOut, ClearCopy, Continue
    <3>2. CASE FillCopy
      <4>1. run.todo # << >>
        BY <3>2 DEF FillCopy, At, CompleteInv, Notes, Staged
      <4> QED
        BY <1>2, <3>2, <4>1 DEF FillCopy, Collected, Shaped
    <3> QED
      BY <1>2, <2>1, <3>1, <3>2 DEF Shaped
  <2>4. CASE StartResolving \/ StartUnpacking \/ ExpandBatch
    <3>1. CASE StartResolving
      <4>1. PICK k, w : run' = [run EXCEPT !.at = "resolving", !.known = k, !.work = w]
        BY <3>1 DEF StartResolving, Continue
      <4> QED
        BY <1>2, <4>1 DEF Shaped
    <3>2. CASE StartUnpacking
      <4>1. PICK l : run' = [run EXCEPT !.at = "unpacking", !.work = << >>, !.finished = << >>,
                                        !.left = l]
        BY <3>2 DEF StartUnpacking, Continue
      <4> QED
        BY <1>2, <4>1 DEF Shaped
    <3>3. CASE ExpandBatch
      <4>1. PICK k, f, w, n :
              \/ Continue([run EXCEPT !.known = k, !.found = f, !.work = w, !.finished = n])
              \/ Continue([run EXCEPT !.at = "downloading", !.known = k, !.found = f, !.work = w,
                                      !.finished = n])
        BY <3>3 DEF ExpandBatch
      <4>2. \/ run' = [run EXCEPT !.known = k, !.found = f, !.work = w, !.finished = n]
            \/ run' = [run EXCEPT !.at = "downloading", !.known = k, !.found = f, !.work = w,
                                  !.finished = n]
        BY <4>1 DEF Continue
      <4> QED
        BY <1>2, <4>2 DEF Shaped
    <3> QED
      BY <2>4, <3>1, <3>2, <3>3
  <2>5. ASSUME NEW i \in DOMAIN run.work, QueryArrives(i) \/ DownloadArrives(i) \/ AttemptFails(i)
        PROVE  run'.todo \in {<< >>, run.todo}
    <3>1. \/ Abandon
          \/ \E job : Continue(Arrived(i, job))
          \/ \E w : Continue([run EXCEPT !.work = w])
      BY <2>5 DEF QueryArrives, DownloadArrives, AttemptFails
    <3>2. CASE Abandon
      BY <3>2 DEF Abandon, Rest
    <3> QED
      BY <1>2, <3>1, <3>2 DEF Continue, Arrived, Shaped
  <2>6. CASE CacheArchive \/ ClearPackage \/ FillPackage \/ UnpackFails \/ SaveLock
    BY <1>2, <2>1, <2>6 DEF CacheArchive, ClearPackage, FillPackage, UnpackFails, SaveLock,
       Collected, Shaped
  <2>7. CASE UNCHANGED run
    BY <2>7
  <2> QED
    BY <2>1, <2>2, <2>3, <2>4, <2>5, <2>6, <2>7 DEF InstallNext, InstallStep, DeleteArchive,
       FreshCheckout, Publish, Change, installVars
<1>5. Range(<< >>) = {} /\ Range(run.todo) \subseteq Range(deps)
  BY DEF Range, CompleteInv, TodoIsDeclared
<1> QED
  BY <1>1, <1>3, <1>4, <1>5 DEF TodoIsDeclared

(* A process that starts or is killed, and what others do between runs.    *)
LEMMA OutsideIsClosed ==
  ASSUME CompleteInv,
         \/ StartInstall \/ Kill \/ (\E x \in cache : DeleteArchive(x)) \/ FreshCheckout
         \/ \E p \in Pkgs \cup {Repo} : Publish(p)
  PROVE  Notes' /\ Closed'
<1>1. CASE StartInstall
  <2>1. /\ run' = [at |-> "collecting", todo |-> deps, pending |-> << >>, work |-> << >>,
                   finished |-> << >>, known |-> {}, found |-> << >>, left |-> << >>, tries |-> 0]
        /\ UNCHANGED <<deps, lock, packages, intact>> /\ Idle
    BY <1>1 DEF StartInstall, Rest, world, disk
  <2>2. /\ run'.at = "collecting" /\ run'.todo = deps /\ run'.pending = << >> /\ run'.work = << >>
        /\ run'.finished = << >> /\ run'.found = << >> /\ run'.left = << >> /\ run'.known = {}
    BY <2>1
  <2>3. \A S : << >> \in Seq(S)
    OBVIOUS
  <2>4. deps \in Seq(Dependencies) /\ OnDisk'
    BY <2>1 DEF CompleteInv, Notes, OnDisk
  <2>5. {} \in SUBSET Pkgs
    OBVIOUS
  <2>6. Listed'
    BY <2>2, <2>3, <2>4, <2>5, Zenon DEF Listed
  <2>7. Staged'
    BY <2>2 DEF Staged, Phases, Idle, Unpacking, InHand, At
  <2>8. \A p \in Pkgs : Met(p) => Met(p)'
    BY <2>1 DEF Met, Coming
  <2>9. LockedIsUnpacked' /\ LockIsClosed'
    BY <2>1, <2>2, <2>8, DiskStaysClosed DEF Idle
  <2>10. DeclaredAreMet'
    BY <2>1, <2>2 DEF DeclaredAreMet, Simple, Registry
  <2>11. BatchIsClosed' /\ DownloadsAreClosed' /\ LeftIsClosed'
    BY <2>2 DEF BatchIsClosed, DownloadsAreClosed, LeftIsClosed, At, Unpacking
  <2> QED
    BY <2>4, <2>6, <2>7, <2>9, <2>10, <2>11 DEF Notes, Closed
<1>2. CASE Kill
  <2>1. run' = [Rest EXCEPT !.at = "idle"] /\ intact' = FALSE /\ deps' = deps /\ lock' = lock
    BY <1>2 DEF Kill, Rest, disk, world
  <2> QED
    BY <2>1, RestIsTyped, BrokenIsClosed DEF CompleteInv, Notes, OnDisk
<1>3. CASE (\E x \in cache : DeleteArchive(x)) \/ FreshCheckout \/ \E p \in Pkgs \cup {Repo} : Publish(p)
  <2>1. /\ UNCHANGED <<run, deps, lock>> /\ Idle
        /\ intact' = FALSE \/ UNCHANGED <<packages, intact>>
    BY <1>3 DEF DeleteArchive, FreshCheckout, Publish, Change, disk
  <2>2. Listed' /\ OnDisk' /\ Staged'
    BY <2>1 DEF CompleteInv, Notes, Listed, OnDisk, Staged, Idle, Unpacking, At
  <2>3. CASE intact' = FALSE
    BY <2>1, <2>2, <2>3, BrokenIsClosed DEF Idle, Notes
  <2>4. CASE UNCHANGED <<packages, intact>>
    BY <2>1, <2>2, <2>4 DEF Notes, CompleteInv, Closed, LockedIsUnpacked, LockIsClosed, DeclaredAreMet,
       BatchIsClosed, DownloadsAreClosed, LeftIsClosed, Met, Needy, Coming, At, Idle, Unpacking,
       FromElsewhere, Registry, Simple, Item, Resolved, NeedsNoted
  <2> QED
    BY <2>1, <2>3, <2>4
<1> QED
  BY <1>1, <1>2, <1>3

LEMMA CompleteInvInit == InstallInit => CompleteInv
<1>1. InstallInit => TodoIsDeclared
  BY DEF InstallInit, Rest, TodoIsDeclared, Range
<1> QED
  BY <1>1, InstallInvInit, NotesInit, ClosedInit DEF CompleteInv

LEMMA CompleteInvStep == CompleteInv /\ [InstallNext]_installVars => CompleteInv'
<1> SUFFICES ASSUME CompleteInv, [InstallNext]_installVars PROVE CompleteInv'
  OBVIOUS
<1> SUFFICES Notes' /\ Closed'
  BY InstallInvStep, TodoStaysDeclared DEF CompleteInv
<1>2. CASE InstallStep
  <2>1. CASE CollectSimple \/ CollectPath \/ CollectRegistry
    BY <2>1, CollectingIsClosed, RegistryIsClosed
  <2>2. CASE CloneOrFetch \/ CloneFails \/ CheckOut \/ ClearCopy \/ FillCopy
    BY <2>2, GitIsClosed
  <2>3. CASE StartResolving \/ ExpandBatch \/ StartUnpacking \/ FastPath \/ Finish
    BY <2>3, StartIsClosed, MoreIsAsked, DownloadsStart, UnpackingStarts, EndsClosed
  <2>4. CASE \E i \in DOMAIN run.work : QueryArrives(i) \/ DownloadArrives(i) \/ AttemptFails(i)
    BY <2>4, JobsKeepClosed
  <2>5. CASE CacheArchive \/ ClearPackage \/ FillPackage \/ UnpackFails \/ SaveLock
    BY <2>5, ItemGoesOn, ItemIsLocked, AbandonedIsClosed DEF UnpackFails
  <2> QED
    BY <1>2, <2>1, <2>2, <2>3, <2>4, <2>5 DEF InstallStep
<1>3. CASE UNCHANGED installVars
  BY <1>3 DEF installVars, disk, world, counts, Notes, CompleteInv, Listed, OnDisk, Staged,
     Closed, LockedIsUnpacked, LockIsClosed, DeclaredAreMet, BatchIsClosed, DownloadsAreClosed,
     LeftIsClosed, Met, Needy, Coming, At, Idle, Unpacking, FromElsewhere, Registry, Simple, Item,
     Resolved, NeedsNoted
<1>4. CASE ~InstallStep /\ InstallNext
  BY <1>4, OutsideIsClosed DEF InstallNext
<1> QED
  BY <1>2, <1>3, <1>4

(* As long as every run ends well and nobody deletes packages, a run that  *)
(* succeeds leaves every declared dependency, and every dependency of a    *)
(* locked package, locked and unpacked (phases 1 to 4 of install).         *)
THEOREM SuccessfulRunsAreComplete == InstallSpec => []GoodRunsAreComplete
<1>1. CompleteInv => GoodRunsAreComplete
  <2> SUFFICES ASSUME CompleteInv, At("done"), intact PROVE Complete
    BY DEF GoodRunsAreComplete
  <2>1. run.todo = << >> /\ Coming = {} /\ run.at = "done"
    BY DEF CompleteInv, Notes, Staged, Idle, At, Coming
  <2>2. \A p \in Pkgs : Met(p) => Installed(p)
    BY <2>1 DEF Met, Installed, CompleteInv, Closed, LockedIsUnpacked
  <2>3. ASSUME NEW d \in Simple \cup Registry PROVE Installed(d.pkg)
    <3>1. d \in Range(deps) /\ d.kind \in {"simple", "registry"}
      BY DEF Simple, Registry
    <3>2. \A i \in DOMAIN deps : deps[i] \in Dependencies
      BY ElementOfSeq, LenProperties DEF CompleteInv, Notes, OnDisk
    <3>3. d.pkg \in Pkgs
      BY <3>1, <3>2, KindsOfDependencies DEF Range
    <3>4. d \notin Range(run.todo)
      BY <2>1 DEF Range
    <3> QED
      BY <2>1, <2>2, <3>3, <3>4 DEF CompleteInv, Closed, DeclaredAreMet
  <2>4. ASSUME NEW p \in Pkgs \ FromElsewhere, lock[p] # Nothing, NEW r \in Needs[<<p, lock[p]>>]
        PROVE  Installed(r.pkg)
    <3>1. Met(r.pkg)
      BY <2>4 DEF CompleteInv, Closed, LockIsClosed
    <3>2. lock[p] \in Versions
      BY <2>4 DEF CompleteInv, Notes, OnDisk
    <3>3. r.pkg \in Pkgs
      BY <3>2, NeedsAreRequirements
    <3> QED
      BY <2>2, <3>1, <3>3
  <2> QED
    BY <2>3, <2>4 DEF Complete, FromElsewhere
<1> QED
  BY <1>1, CompleteInvInit, CompleteInvStep, PTL DEF InstallSpec
=============================================================================

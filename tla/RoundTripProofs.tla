---------------------------- MODULE RoundTripProofs ---------------------------
(***************************************************************************)
(* Proofs about RoundTrip: what the source map shows, what a syncback      *)
(* leaves in the tree, and that building and writing back settles.         *)
(*                                                                         *)
(* The first part needs no invariant.  For the others: sequences, and the  *)
(* flattening of one (by least counterexample: a set of numbers has a      *)
(* least one); the order of pieces, names and paths is total, so that      *)
(* InOrder lists a finite set, once each; what the mappings of a project   *)
(* and the instances of a place are; where syncback writes a script and    *)
(* what build makes of the file; then the inductive invariant IInv.        *)
(***************************************************************************)
EXTENDS RoundTrip, FiniteSetTheorems, SequenceTheorems, WellFoundedInduction, TLAPS

---------------------------------------------------------------------------
(* The source map and the build: one directory is walked twice.            *)

(* What has files to build below it is a directory of the source map too.  *)
LEMMA DirsOfMore ==
  ASSUME NEW S, NEW T, S \subseteq T, NEW root
  PROVE  DirsOf(S, root) \subseteq DirsOf(T, root)
  BY DEF DirsOf

(* A script file has one name and one class in both tables.                *)
LEMMA ScriptFilesAgree ==
  ASSUME NEW m, NEW rank, NEW tree, NEW f, IsLuau(Last(f))
  PROVE  /\ FileInstance(m, rank, tree, f).id = MapFile(m, rank, f).id
         /\ FileInstance(m, rank, tree, f).path = MapFile(m, rank, f).path
         /\ FileInstance(m, rank, tree, f).class = MapFile(m, rank, f).class
<1>1. /\ Kind(Last(f)) \in {"server.luau", "server.lua", "client.luau", "client.lua", "luau", "lua"}
      /\ Kind(Last(f)) \in LuauKinds
  BY DEF IsLuau, LuauKinds
<1>2. Content(f, tree) = [name |-> Stem(Last(f)), class |-> ResolveInstanceClass(Last(f)), source |-> tree[f]]
  BY <1>1 DEF Content
<1>3. ResolveInstanceClass(Last(f)) = FileClass(Last(f))
  BY <1>1 DEF ResolveInstanceClass, FileClass
<1>4. InstanceNameFromFile(Last(f)) = Stem(Last(f))
  BY <1>1 DEF InstanceNameFromFile
<1> QED
  BY <1>2, <1>3, <1>4 DEF FileInstance, MapFile

LEMMA MappingIsNode ==
  ASSUME NEW p, NEW i \in DOMAIN Mappings(p)
  PROVE  Mappings(p)[i] \in Range(Mappings(p))
  BY DEF Range

(* A script build makes of a file or a directory was walked.               *)
LEMMA ScriptsAreWalked ==
  ASSUME NEW p, NEW tree, NEW k \in DOMAIN Mappings(p), Mappings(p)[k].fs \notin DOMAIN tree,
         NEW i \in PopulateFromDir(p, Mappings(p)[k], k, tree), IsScript(i),
         i.id \in DOMAIN tree => IsLuau(Last(i.id))
  PROVE  \E n \in Walked(p, tree, FALSE) : n.id = i.id /\ n.path = i.path /\ n.class = i.class
<1> DEFINE m == Mappings(p)[k]
<1> DEFINE shown == Buildable(p, m, tree)
<1> DEFINE below == Below(DOMAIN tree, m.fs)
<1>1. shown \subseteq below
  BY DEF Buildable
<1>2. WalkDir(m, k, tree, FALSE) \subseteq Walked(p, tree, FALSE)
  BY DEF Walked
<1>3. CASE \E d \in DirsOf(shown, m.fs) : i = DirInstance(p, m, k, tree, d)
  <2>1. PICK d \in DirsOf(shown, m.fs) : i = DirInstance(p, m, k, tree, d)
    BY <1>3
  <2>2. d \in DirsOf(below, m.fs)
    BY <1>1, <2>1, DirsOfMore
  <2>3. MapDir(m, k, tree, d) \in Walked(p, tree, FALSE)
    BY <1>2, <2>2 DEF WalkDir
  <2> QED
    BY <2>1, <2>3 DEF DirInstance, MapDir
<1>4. CASE \E f \in shown : ~IsInit(Last(f)) /\ i = FileInstance(m, k, tree, f)
  <2>1. PICK f \in shown : ~IsInit(Last(f)) /\ i = FileInstance(m, k, tree, f)
    BY <1>4
  <2>2. f \in below /\ f \in DOMAIN tree /\ i.id = f
    BY <1>1, <2>1 DEF Below, FileInstance
  <2>3. IsLuau(Last(f))
    BY <2>2
  <2>5. /\ i.id = MapFile(m, k, f).id /\ i.path = MapFile(m, k, f).path
        /\ i.class = MapFile(m, k, f).class
    BY <2>1, <2>3, ScriptFilesAgree
  <2>4. MapFile(m, k, f) \in Walked(p, tree, FALSE)
    BY <1>2, <2>1, <2>2, <2>3 DEF WalkDir
  <2> QED
    BY <2>4, <2>5
<1> QED
  BY <1>3, <1>4 DEF PopulateFromDir

(* What is walked is in the source map, unless another node with its name  *)
(* takes the place of it or of a directory above it.                       *)
LEMMA WalkedIsMapped ==
  ASSUME NEW n \in Walked(project, files, FALSE), n \notin GenerateSourcemap(project, files, FALSE),
         NEW i, i.id = n.id
  PROVE  NestedMappings /\ SharesName(Walked(project, files, FALSE), i)
<1> DEFINE nodes == Walked(project, files, FALSE)
<1>1. PICK a \in Displaced(project, nodes) : IsPrefix(a.id, n.id)
  BY DEF GenerateSourcemap
<1>2. PICK b \in nodes \ {a} :
        /\ a \in nodes /\ a.parent = b.parent
        /\ a.parent \in {DeclaredId(q) : q \in
             {m.path : m \in {k \in Range(Mappings(project)) :
                              \E n1 \in Range(Mappings(project)) : IsStrictPrefix(k.path, n1.path)}}}
        /\ a.path = b.path
  BY <1>1 DEF Displaced
<1>3. NestedMappings
  BY <1>2 DEF NestedMappings
<1> QED
  BY <1>1, <1>2, <1>3 DEF SharesName

LEMMA SourceMapFollowsTheBuild == SourceMapShowsTheBuild
<1> SUFFICES ASSUME NEW i \in BuildPlace(project, files), IsScript(i), i.rank > 0,
                    i.id \in DOMAIN files => IsLuau(Last(i.id))
             PROVE  \/ \E n \in GenerateSourcemap(project, files, FALSE) :
                          n.id = i.id /\ n.path = i.path /\ n.class = i.class
                    \/ NestedMappings /\ SharesName(Walked(project, files, FALSE), i)
                    \/ \E m \in Range(Mappings(project)) : m.fs = i.id
  BY DEF SourceMapShowsTheBuild
<1>1. PICK k \in DOMAIN Mappings(project) :
        \/ i \in DeclaredInstances(project, Mappings(project)[k], k)
        \/ Mappings(project)[k].fs \notin DOMAIN files /\ i \in PopulateFromDir(project, Mappings(project)[k], k, files)
        \/ i \in PopulateFile(Mappings(project)[k], k, files)
  BY DEF BuildPlace
<1>2. i \notin DeclaredInstances(project, Mappings(project)[k], k)
  BY DEF DeclaredInstances
<1>3. CASE i \in PopulateFile(Mappings(project)[k], k, files)
  <2>1. i.id = Mappings(project)[k].fs
    BY <1>3 DEF PopulateFile
  <2> QED
    BY <2>1, MappingIsNode
<1>4. CASE Mappings(project)[k].fs \notin DOMAIN files /\ i \in PopulateFromDir(project, Mappings(project)[k], k, files)
  <2>1. PICK n \in Walked(project, files, FALSE) : n.id = i.id /\ n.path = i.path /\ n.class = i.class
    <3>1. i \in PopulateFromDir(project, Mappings(project)[k], k, files)
      BY <1>4
    <3>2. Mappings(project)[k].fs \notin DOMAIN files
      BY <1>4
    <3> QED
      BY <3>1, <3>2, ScriptsAreWalked
  <2>2. CASE n \in GenerateSourcemap(project, files, FALSE)
    BY <2>1, <2>2
  <2>3. CASE n \notin GenerateSourcemap(project, files, FALSE)
    BY <2>1, <2>3, WalkedIsMapped
  <2> QED
    BY <2>2, <2>3
<1> QED
  BY <1>1, <1>2, <1>3, <1>4

(* What Studio has of the tree, the source map shows: the table and the    *)
(* walk of sourcemap.rs leave out no script that those of build make, for  *)
(* any project and any tree (SourceMapShowsTheBuild).                      *)
THEOREM SourceMapShowsBuiltScripts == Spec => []SourceMapShowsTheBuild
  BY SourceMapFollowsTheBuild, PTL

---------------------------------------------------------------------------
(* Sequences.                                                              *)

(* A set of numbers has a least one: the form of induction used below.     *)
LEMMA LeastNumber ==
  ASSUME NEW T, T \subseteq Nat, T # {}
  PROVE  \E n \in T : \A k \in T : n <= k
<1> DEFINE R == {q \in Nat \X Nat : q[1] < q[2]}
<1>1. IsWellFoundedOn(R, Nat)
  BY NatLessThanWellFounded DEF OpToRel
<1>2. PICK n \in T : \A k \in T : ~(<<k, n>> \in R)
  <2> HIDE DEF R
  <2> QED
    BY <1>1, WFMin
<1>3. ASSUME NEW k \in T PROVE n <= k
  <2>1. ~(<<k, n>> \in {q \in Nat \X Nat : q[1] < q[2]})
    BY <1>2
  <2>2. k \in Nat /\ n \in Nat
    OBVIOUS
  <2> QED
    BY <2>1, <2>2
<1> QED
  BY <1>3

(* A number that is bounded from above has a greatest companion.           *)
LEMMA GreatestNumber ==
  ASSUME NEW T, NEW b \in Nat, T \subseteq 0..b, T # {}
  PROVE  \E n \in T : \A k \in T : k <= n
<1> DEFINE below == {b - k : k \in T}
<1>1. below \subseteq Nat /\ below # {}
  OBVIOUS
<1>2. PICK n \in below : \A k \in below : n <= k
  <2> HIDE DEF below
  <2> QED
    BY <1>1, LeastNumber
<1>3. PICK t \in T : n = b - t
  BY <1>2
<1>4. ASSUME NEW k \in T PROVE k <= t
  <2>1. n <= b - k
    BY <1>2
  <2>2. k \in 0..b /\ t \in 0..b
    OBVIOUS
  <2> QED
    BY <1>3, <2>1, <2>2
<1> QED
  BY <1>4

LEMMA PrefixIs ==
  ASSUME NEW S, NEW s \in Seq(S), NEW t \in Seq(S)
  PROVE  IsPrefix(s, t) <=> Len(s) <= Len(t) /\ \A i \in 1..Len(s) : s[i] = t[i]
<1>1. Len(s) \in Nat /\ Len(t) \in Nat /\ SubSeq(s, 1, Len(s)) = s
  OBVIOUS
<1>2. ASSUME Len(s) <= Len(t)
      PROVE  /\ SubSeq(t, 1, Len(s)) \in Seq(S) /\ Len(SubSeq(t, 1, Len(s))) = Len(s)
             /\ \A i \in 1..Len(s) : SubSeq(t, 1, Len(s))[i] = t[i]
  BY <1>1, <1>2
<1>3. ASSUME IsPrefix(s, t) PROVE Len(s) <= Len(t) /\ \A i \in 1..Len(s) : s[i] = t[i]
  BY <1>1, <1>2, <1>3 DEF IsPrefix
<1>4. ASSUME Len(s) <= Len(t), \A i \in 1..Len(s) : s[i] = t[i] PROVE IsPrefix(s, t)
  <2>1. SubSeq(t, 1, Len(s)) = s
    BY <1>2, <1>4, SeqEqual
  <2> QED
    BY <1>1, <1>4, <2>1 DEF IsPrefix
<1> QED
  BY <1>3, <1>4

(* What a prefix leaves.                                                   *)
LEMMA PrefixAndRest ==
  ASSUME NEW S, NEW s \in Seq(S), NEW t \in Seq(S), IsPrefix(s, t)
  PROVE  /\ SubSeq(t, Len(s) + 1, Len(t)) \in Seq(S)
         /\ Len(SubSeq(t, Len(s) + 1, Len(t))) = Len(t) - Len(s)
         /\ t = s \o SubSeq(t, Len(s) + 1, Len(t))
<1>1. Len(s) \in Nat /\ Len(t) \in Nat /\ Len(s) <= Len(t) /\ \A i \in 1..Len(s) : s[i] = t[i]
  BY PrefixIs
<1> DEFINE r == SubSeq(t, Len(s) + 1, Len(t))
<1>2. r \in Seq(S) /\ Len(r) = Len(t) - Len(s) /\ \A i \in 1..Len(r) : r[i] = t[Len(s) + i]
  BY <1>1
<1> HIDE DEF r
<1>3. s \o r \in Seq(S) /\ Len(s \o r) = Len(t)
  BY <1>1, <1>2
<1>4. ASSUME NEW i \in 1..Len(t) PROVE (s \o r)[i] = t[i]
  <2>1. CASE i <= Len(s)
    <3>1. (s \o r)[i] = s[i]
      BY <1>1, <1>2, <2>1
    <3> QED
      BY <1>1, <2>1, <3>1
  <2>2. CASE ~(i <= Len(s))
    <3>1. i - Len(s) \in 1..Len(r) /\ (s \o r)[i] = r[i - Len(s)]
      BY <1>1, <1>2, <2>2
    <3>2. r[i - Len(s)] = t[Len(s) + (i - Len(s))] /\ Len(s) + (i - Len(s)) = i
      BY <1>1, <1>2, <3>1
    <3> QED
      BY <3>1, <3>2
  <2>3. i \in Nat /\ Len(s) \in Nat
    BY <1>1
  <2> QED
    BY <2>1, <2>2
<1>5. s \o r = t
  BY <1>3, <1>4, SeqEqual
<1> QED
  BY <1>2, <1>5 DEF r

(* Joining and taking apart.                                               *)
LEMMA RestOfJoin ==
  ASSUME NEW S, NEW s \in Seq(S), NEW r \in Seq(S)
  PROVE  /\ s \o r \in Seq(S) /\ Len(s \o r) = Len(s) + Len(r)
         /\ SubSeq(s \o r, Len(s) + 1, Len(s \o r)) = r
         /\ IsPrefix(s, s \o r)
<1>1. /\ s \o r \in Seq(S) /\ Len(s \o r) = Len(s) + Len(r) /\ Len(s) \in Nat /\ Len(r) \in Nat
      /\ \A i \in 1..Len(s) : (s \o r)[i] = s[i]
      /\ \A i \in 1..Len(r) : (s \o r)[Len(s) + i] = r[i]
  OBVIOUS
<1> DEFINE t == s \o r
<1>2. IsPrefix(s, t)
  <2>1. t \in Seq(S) /\ Len(s) <= Len(t) /\ \A i \in 1..Len(s) : s[i] = t[i]
    BY <1>1
  <2> HIDE DEF t
  <2> QED
    BY <2>1, PrefixIs
<1>3. \A i \in 1..Len(r) : SubSeq(t, Len(s) + 1, Len(t))[i] = t[Len(s) + i]
  <2> HIDE DEF t
  <2>1. t \in Seq(S) /\ Len(t) = Len(s) + Len(r)
    BY <1>1 DEF t
  <2> QED
    BY <1>1, <2>1
<1>4. SubSeq(t, Len(s) + 1, Len(t)) = r
  BY <1>1, <1>2, <1>3, PrefixAndRest, SeqEqual
<1> QED
  BY <1>1, <1>2, <1>4

LEMMA FrontAndLast ==
  ASSUME NEW S, NEW s \in Seq(S), s # <<>>
  PROVE  /\ Front(s) \in Seq(S) /\ Last(s) \in S /\ Len(Front(s)) = Len(s) - 1
         /\ \A i \in 1..Len(s) - 1 : Front(s)[i] = s[i]
         /\ s = Append(Front(s), Last(s)) /\ s = Front(s) \o <<Last(s)>>
         /\ IsStrictPrefix(Front(s), s)
<1>1. Len(s) \in Nat /\ Len(s) >= 1
  OBVIOUS
<1>2. /\ Front(s) \in Seq(S) /\ Last(s) \in S /\ Len(Front(s)) = Len(s) - 1
      /\ \A i \in 1..Len(s) - 1 : Front(s)[i] = s[i]
  <2>1. \A i \in 1..Len(s) - 1 : s[i] \in S
    BY <1>1
  <2>2. /\ SubSeq(s, 1, Len(s) - 1) \in Seq(S) /\ Len(SubSeq(s, 1, Len(s) - 1)) = Len(s) - 1
        /\ \A i \in 1..Len(s) - 1 : SubSeq(s, 1, Len(s) - 1)[i] = s[i]
    <3>1. 1 \in Int /\ Len(s) - 1 \in Int
      BY <1>1
    <3>2. /\ SubSeq(s, 1, Len(s) - 1) \in Seq(S)
          /\ Len(SubSeq(s, 1, Len(s) - 1)) = IF 1 <= Len(s) - 1 THEN Len(s) - 1 - 1 + 1 ELSE 0
          /\ \A i \in 1 .. Len(s) - 1 - 1 + 1 : SubSeq(s, 1, Len(s) - 1)[i] = s[1 + i - 1]
      BY <2>1, <3>1, SubSeqProperties
    <3>3. Len(s) - 1 - 1 + 1 = Len(s) - 1 /\ \A i \in 1 .. Len(s) - 1 : 1 + i - 1 = i
      BY <1>1
    <3> QED
      BY <1>1, <3>2, <3>3
  <2>3. s[Len(s)] \in S
    BY <1>1
  <2> QED
    BY <2>2, <2>3 DEF Front, Last
<1> DEFINE f == Front(s)
<1> DEFINE l == Last(s)
<1>3. f \in Seq(S) /\ l \in S /\ Len(f) = Len(s) - 1 /\ (\A i \in 1..Len(s) - 1 : f[i] = s[i]) /\ s[Len(s)] = l
  BY <1>2 DEF Last
<1> HIDE DEF f, l
<1>4. Append(f, l) = f \o <<l>>
  BY <1>3
<1>5. s = Append(f, l)
  <2>1. Append(f, l) \in Seq(S) /\ Len(Append(f, l)) = Len(s)
    BY <1>1, <1>3
  <2>2. \A i \in 1..Len(s) : Append(f, l)[i] = s[i]
    BY <1>1, <1>3
  <2> QED
    BY <2>1, <2>2, SeqEqual
<1>6. IsPrefix(f, s) /\ f # s
  BY <1>1, <1>3, PrefixIs
<1> QED
  BY <1>2, <1>4, <1>5, <1>6 DEF f, l, IsStrictPrefix

LEMMA FrontOfJoin ==
  ASSUME NEW S, NEW s \in Seq(S), NEW x \in S
  PROVE  /\ s \o <<x>> \in Seq(S) /\ s \o <<x>> # <<>>
         /\ Front(s \o <<x>>) = s /\ Last(s \o <<x>>) = x /\ Len(s \o <<x>>) = Len(s) + 1
<1> DEFINE t == s \o <<x>>
<1>1. /\ t \in Seq(S) /\ Len(t) = Len(s) + 1 /\ t # <<>> /\ t[Len(s) + 1] = x
      /\ \A i \in 1..Len(s) : t[i] = s[i]
  OBVIOUS
<1> HIDE DEF t
<1>2. /\ Front(t) \in Seq(S) /\ Len(Front(t)) = Len(s) /\ \A i \in 1..Len(s) : Front(t)[i] = t[i]
  <2>1. Len(t) - 1 = Len(s)
    BY <1>1
  <2> QED
    BY <1>1, <2>1, FrontAndLast
<1>3. Front(t) = s
  BY <1>1, <1>2, SeqEqual
<1>4. Last(t) = x
  BY <1>1 DEF Last
<1> QED
  BY <1>1, <1>3, <1>4 DEF t

---------------------------------------------------------------------------
(* FlattenSeq adds one sequence after the other.                           *)
Flattening(F, s, n) == F = [i \in 1..n |-> IF i = 1 THEN s[i] ELSE F[i - 1] \o s[i]]

LEMMA FlatteningExists ==
  ASSUME NEW s, NEW n \in Nat
  PROVE  \E F : Flattening(F, s, n)
<1> DEFINE Bad == {k \in Nat : ~\E F : Flattening(F, s, k)}
<1>1. SUFFICES ASSUME Bad # {} PROVE FALSE
  OBVIOUS
<1>2. PICK k \in Bad : \A j \in Bad : k <= j
  <2> HIDE DEF Bad
  <2>1. Bad \subseteq Nat
    BY DEF Bad
  <2> QED
    BY <1>1, <2>1, LeastNumber
<1>3. CASE k = 0
  <2> DEFINE F == [i \in 1..0 |-> IF i = 1 THEN s[i] ELSE <<>>]
  <2>1. F = [i \in 1..0 |-> IF i = 1 THEN s[i] ELSE F[i - 1] \o s[i]]
    OBVIOUS
  <2> QED
    BY <1>2, <1>3, <2>1 DEF Flattening
<1>4. CASE k # 0
  <2>1. k \in Nat /\ k - 1 \in Nat /\ k - 1 \notin Bad
    BY <1>2, <1>4
  <2>2. PICK G : Flattening(G, s, k - 1)
    BY <2>1
  <2> DEFINE F == [i \in 1..k |-> IF i = 1 THEN s[i] ELSE G[i - 1] \o s[i]]
  <2>3. ASSUME NEW i \in 1..k - 1 PROVE F[i] = G[i]
    <3>1. i \in 1..k
      BY <2>1
    <3>2. F[i] = IF i = 1 THEN s[i] ELSE G[i - 1] \o s[i]
      BY <3>1
    <3>3. G[i] = IF i = 1 THEN s[i] ELSE G[i - 1] \o s[i]
      BY <2>2 DEF Flattening
    <3> QED
      BY <3>2, <3>3
  <2>4. F = [i \in 1..k |-> IF i = 1 THEN s[i] ELSE F[i - 1] \o s[i]]
    <3>1. \A i \in 1..k : i # 1 => i - 1 \in 1..k - 1
      BY <2>1
    <3>2. \A i \in 1..k : i # 1 => F[i - 1] = G[i - 1]
      BY <2>3, <3>1
    <3> QED
      BY <3>2
  <2> QED
    BY <1>2, <2>4 DEF Flattening
<1> QED
  BY <1>3, <1>4

LEMMA FlattenIsLast ==
  ASSUME NEW s, Len(s) \in Nat, Len(s) # 0
  PROVE  \E F : Flattening(F, s, Len(s)) /\ FlattenSeq(s) = F[Len(s)]
<1>1. \E F : Flattening(F, s, Len(s))
  BY FlatteningExists
<1>2. \E F : F = [i \in 1..Len(s) |-> IF i = 1 THEN s[i] ELSE F[i - 1] \o s[i]]
  BY <1>1 DEF Flattening
<1> DEFINE G == CHOOSE F : F = [i \in 1..Len(s) |-> IF i = 1 THEN s[i] ELSE F[i - 1] \o s[i]]
<1>3. G = [i \in 1..Len(s) |-> IF i = 1 THEN s[i] ELSE G[i - 1] \o s[i]]
  BY <1>2
<1>4. FlattenSeq(s) = G[Len(s)]
  BY DEF FlattenSeq
<1> HIDE DEF G
<1> QED
  BY <1>3, <1>4 DEF Flattening

LEMMA FlatteningTypes ==
  ASSUME NEW S, NEW s \in Seq(Seq(S)), NEW F, Flattening(F, s, Len(s))
  PROVE  \A i \in 1..Len(s) : F[i] \in Seq(S)
<1> DEFINE Bad == {i \in 1..Len(s) : F[i] \notin Seq(S)}
<1>1. SUFFICES ASSUME Bad # {} PROVE FALSE
  OBVIOUS
<1>2. PICK k \in Bad : \A j \in Bad : k <= j
  <2> HIDE DEF Bad
  <2>1. Bad \subseteq Nat
    BY DEF Bad
  <2> QED
    BY <1>1, <2>1, LeastNumber
<1>a. k \in 1..Len(s) /\ F[k] \notin Seq(S) /\ Len(s) \in Nat
  BY <1>2
<1>3. F[k] = IF k = 1 THEN s[k] ELSE F[k - 1] \o s[k]
  BY <1>a DEF Flattening
<1>4. s[k] \in Seq(S)
  BY <1>a
<1>5. ASSUME k # 1 PROVE F[k - 1] \in Seq(S)
  <2>1. k - 1 \in 1..Len(s) /\ ~(k <= k - 1)
    BY <1>a, <1>5
  <2>2. k - 1 \notin Bad
    BY <1>2, <2>1
  <2> QED
    BY <2>1, <2>2
<1>6. CASE k = 1
  BY <1>a, <1>3, <1>4, <1>6
<1>7. CASE k # 1
  <2>1. F[k - 1] \o s[k] \in Seq(S)
    BY <1>4, <1>5, <1>7
  <2> QED
    BY <1>a, <1>3, <1>7, <2>1
<1> QED
  BY <1>6, <1>7

LEMMA FlattenEmpty == FlattenSeq(<<>>) = <<>>
  BY DEF FlattenSeq

LEMMA FlattenType ==
  ASSUME NEW S, NEW s \in Seq(Seq(S))
  PROVE  FlattenSeq(s) \in Seq(S)
<1>1. CASE Len(s) = 0
  <2>1. s = <<>>
    BY <1>1
  <2>2. FlattenSeq(s) = <<>>
    BY <2>1, FlattenEmpty
  <2>3. <<>> \in Seq(S)
    OBVIOUS
  <2> QED
    BY <2>2, <2>3
<1>2. CASE Len(s) # 0
  <2>1. Len(s) \in Nat
    OBVIOUS
  <2>2. Len(s) \in 1..Len(s)
    BY <1>2, <2>1
  <2>3. PICK F : Flattening(F, s, Len(s)) /\ FlattenSeq(s) = F[Len(s)]
    BY <1>2, <2>1, FlattenIsLast
  <2>4. \A i \in 1..Len(s) : F[i] \in Seq(S)
    BY <2>3, FlatteningTypes
  <2> QED
    BY <2>2, <2>3, <2>4
<1> QED
  BY <1>1, <1>2

LEMMA FlattenAppend ==
  ASSUME NEW S, NEW s \in Seq(Seq(S)), NEW x \in Seq(S)
  PROVE  FlattenSeq(s \o <<x>>) = FlattenSeq(s) \o x
<1> DEFINE t == s \o <<x>>
<1>1. /\ t \in Seq(Seq(S)) /\ Len(t) = Len(s) + 1 /\ t[Len(s) + 1] = x
      /\ \A i \in 1..Len(s) : t[i] = s[i]
  OBVIOUS
<1>a. Len(t) \in Nat /\ Len(t) # 0 /\ Len(s) \in Nat
  BY <1>1
<1>2. PICK G : Flattening(G, t, Len(t)) /\ FlattenSeq(t) = G[Len(t)]
  <2> HIDE DEF t
  <2> QED
    BY <1>a, FlattenIsLast
<1> HIDE DEF t
<1>3. CASE Len(s) = 0
  <2>1. s = <<>> /\ FlattenSeq(s) = <<>>
    BY <1>3, FlattenEmpty
  <2>2. G[1] = x
    BY <1>1, <1>2, <1>3 DEF Flattening
  <2>3. FlattenSeq(t) = x
    BY <1>1, <1>2, <1>3, <2>2
  <2> QED
    BY <2>1, <2>3 DEF t
<1>4. CASE Len(s) # 0
  <2>1. PICK F : Flattening(F, s, Len(s)) /\ FlattenSeq(s) = F[Len(s)]
    BY <1>4, <1>a, FlattenIsLast
  <2> DEFINE Bad == {i \in 1..Len(s) : F[i] # G[i]}
  <2>2. Bad = {}
    <3>1. SUFFICES ASSUME Bad # {} PROVE FALSE
      OBVIOUS
    <3>2. PICK k \in Bad : \A j \in Bad : k <= j
      <4> HIDE DEF Bad
      <4>1. Bad \subseteq Nat
        BY DEF Bad
      <4> QED
        BY <3>1, <4>1, LeastNumber
    <3>a. k \in 1..Len(s) /\ F[k] # G[k]
      BY <3>2
    <3>3. F[k] = IF k = 1 THEN s[k] ELSE F[k - 1] \o s[k]
      BY <2>1, <3>a DEF Flattening
    <3>4. G[k] = IF k = 1 THEN s[k] ELSE G[k - 1] \o s[k]
      <4>1. k \in 1..Len(t) /\ t[k] = s[k]
        BY <1>1, <1>a, <3>a
      <4> QED
        BY <1>2, <4>1 DEF Flattening
    <3>5. ASSUME k # 1 PROVE F[k - 1] = G[k - 1]
      <4>1. k - 1 \in 1..Len(s) /\ ~(k <= k - 1)
        BY <1>a, <3>a, <3>5
      <4>2. k - 1 \notin Bad
        BY <3>2, <4>1
      <4> QED
        BY <4>1, <4>2
    <3> QED
      BY <3>a, <3>3, <3>4, <3>5
  <2>3. F[Len(s)] = G[Len(s)]
    <3>1. Len(s) \in 1..Len(s)
      BY <1>4, <1>a
    <3> QED
      BY <2>2, <3>1
  <2>4. G[Len(t)] = G[Len(s)] \o x
    <3>1. Len(t) \in 1..Len(t) /\ Len(t) # 1 /\ Len(t) - 1 = Len(s) /\ t[Len(t)] = x
      BY <1>1, <1>a, <1>4
    <3>2. G[Len(t)] = G[Len(t) - 1] \o t[Len(t)]
      BY <1>2, <3>1 DEF Flattening
    <3> QED
      BY <3>1, <3>2
  <2> QED
    BY <1>2, <2>1, <2>3, <2>4 DEF t
<1> QED
  BY <1>3, <1>4

(* An instance path, name by name, is the sequence of its pieces.          *)
LEMMA FlattenSingles ==
  ASSUME NEW S, NEW p \in Seq(S)
  PROVE  FlattenSeq([i \in 1..Len(p) |-> <<p[i]>>]) = p
<1> DEFINE Singles(n) == [i \in 1..n |-> <<p[i]>>]
<1> DEFINE Bad == {n \in 0..Len(p) : FlattenSeq(Singles(n)) # SubSeq(p, 1, n)}
<1>0. Len(p) \in 0..Len(p) /\ SubSeq(p, 1, Len(p)) = p
  OBVIOUS
<1>1. SUFFICES ASSUME Bad # {} PROVE FALSE
  <2>1. Len(p) \notin Bad
    BY <1>1
  <2> QED
    BY <1>0, <2>1
<1>2. PICK k \in Bad : \A j \in Bad : k <= j
  <2> HIDE DEF Bad
  <2>1. Bad \subseteq Nat
    BY DEF Bad
  <2> QED
    BY <1>1, <2>1, LeastNumber
<1>a. k \in 0..Len(p) /\ FlattenSeq(Singles(k)) # SubSeq(p, 1, k)
  BY <1>2
<1>3. CASE k = 0
  <2>1. Singles(0) = <<>> /\ SubSeq(p, 1, 0) = <<>>
    OBVIOUS
  <2> QED
    BY <1>a, <1>3, <2>1, FlattenEmpty
<1>4. CASE k # 0
  <2>1. k - 1 \in 0..Len(p) /\ ~(k <= k - 1) /\ k \in 1..Len(p)
    BY <1>a, <1>4
  <2>2. FlattenSeq(Singles(k - 1)) = SubSeq(p, 1, k - 1)
    BY <1>2, <2>1
  <2>3. ASSUME NEW n \in 0..Len(p)
        PROVE  Singles(n) \in Seq(Seq(S)) /\ Len(Singles(n)) = n
    <3>1. \A i \in 1..n : <<p[i]>> \in Seq(S)
      OBVIOUS
    <3>2. Singles(n) \in [1..n -> Seq(S)] /\ n \in Nat
      BY <3>1
    <3> QED
      BY <3>2
  <2>4. Singles(k) = Singles(k - 1) \o <<<<p[k]>>>>
    <3> DEFINE a == Singles(k - 1)
    <3> DEFINE b == a \o <<<<p[k]>>>>
    <3>1. a \in Seq(Seq(S)) /\ Len(a) = k - 1 /\ \A i \in 1..k - 1 : a[i] = <<p[i]>>
      BY <2>1, <2>3
    <3>2. <<p[k]>> \in Seq(S)
      BY <2>1
    <3>3. b \in Seq(Seq(S)) /\ Len(b) = k /\ \A i \in 1..k : b[i] = <<p[i]>>
      <4> HIDE DEF a
      <4> QED
        BY <2>1, <3>1, <3>2
    <3>4. Singles(k) \in Seq(Seq(S)) /\ Len(Singles(k)) = k /\ \A i \in 1..k : Singles(k)[i] = <<p[i]>>
      BY <2>1, <2>3
    <3> HIDE DEF b, a, Singles
    <3>5. Singles(k) = b
      BY <3>3, <3>4, SeqEqual
    <3> QED
      BY <3>5 DEF a, b
  <2>5. FlattenSeq(Singles(k)) = SubSeq(p, 1, k - 1) \o <<p[k]>>
    <3>1. <<p[k]>> \in Seq(S) /\ Singles(k - 1) \in Seq(Seq(S))
      BY <2>1, <2>3
    <3> HIDE DEF Singles
    <3> QED
      BY <2>2, <2>4, <3>1, FlattenAppend
  <2>6. SubSeq(p, 1, k - 1) \o <<p[k]>> = SubSeq(p, 1, k)
    <3>1. 1 \in 1..Len(p) /\ k \in 1..Len(p)
      BY <2>1
    <3> QED
      BY <3>1, SubSeqRecursiveSecond
  <2> QED
    BY <1>a, <2>5, <2>6
<1> QED
  BY <1>3, <1>4

---------------------------------------------------------------------------
(* The order of pieces, names and paths is total, and InOrder lists a set. *)
StrictOrder(R, A) ==
  /\ \A a \in A : <<a, a>> \notin R
  /\ \A a, b, c \in A : <<a, b>> \in R /\ <<b, c>> \in R => <<a, c>> \in R
  /\ \A a, b \in A : a # b => <<a, b>> \in R \/ <<b, a>> \in R

LexBefore(R, s, t) ==
  \/ IsStrictPrefix(s, t)
  \/ \E i \in DOMAIN s \cap DOMAIN t : (\A j \in 1 .. i - 1 : s[j] = t[j]) /\ <<s[i], t[i]>> \in R

LEMMA LexIsIrreflexive ==
  ASSUME NEW A, NEW R, StrictOrder(R, A), NEW s \in Seq(A)
  PROVE  ~LexBefore(R, s, s)
<1>1. ~IsStrictPrefix(s, s)
  BY DEF IsStrictPrefix
<1>2. \A i \in DOMAIN s : s[i] \in A
  OBVIOUS
<1> QED
  BY <1>1, <1>2 DEF LexBefore, StrictOrder

LEMMA LexIsTotal ==
  ASSUME NEW A, NEW R, StrictOrder(R, A), NEW s \in Seq(A), NEW t \in Seq(A), s # t
  PROVE  LexBefore(R, s, t) \/ LexBefore(R, t, s)
<1> DEFINE Differ == {i \in DOMAIN s \cap DOMAIN t : s[i] # t[i]}
<1>1. Len(s) \in Nat /\ Len(t) \in Nat /\ DOMAIN s = 1..Len(s) /\ DOMAIN t = 1..Len(t)
  OBVIOUS
<1>2. CASE Differ = {}
  <2>1. \A i \in 1..Len(s) : i <= Len(t) => s[i] = t[i]
    BY <1>1, <1>2
  <2>2. CASE Len(s) <= Len(t)
    <3>1. IsPrefix(s, t)
      BY <1>1, <2>1, <2>2, PrefixIs
    <3> QED
      BY <3>1 DEF LexBefore, IsStrictPrefix
  <2>3. CASE ~(Len(s) <= Len(t))
    <3>1. IsPrefix(t, s)
      BY <1>1, <2>1, <2>3, PrefixIs
    <3> QED
      BY <3>1 DEF LexBefore, IsStrictPrefix
  <2> QED
    BY <2>2, <2>3
<1>3. CASE Differ # {}
  <2>1. PICK i \in Differ : \A j \in Differ : i <= j
    <3>1. Differ \subseteq Nat
      BY <1>1
    <3> HIDE DEF Differ
    <3> QED
      BY <1>3, <3>1, LeastNumber
  <2>2. i \in 1..Len(s) /\ i \in 1..Len(t) /\ s[i] # t[i] /\ s[i] \in A /\ t[i] \in A
    BY <1>1, <2>1
  <2>3. ASSUME NEW j \in 1 .. i - 1 PROVE s[j] = t[j]
    <3>1. j \in DOMAIN s \cap DOMAIN t /\ ~(i <= j)
      BY <1>1, <2>2
    <3>2. j \notin Differ
      BY <2>1, <3>1
    <3> QED
      BY <3>1, <3>2
  <2>4. <<s[i], t[i]>> \in R \/ <<t[i], s[i]>> \in R
    BY <2>2 DEF StrictOrder
  <2> QED
    BY <1>1, <2>2, <2>3, <2>4 DEF LexBefore
<1> QED
  BY <1>2, <1>3

LEMMA LexIsTransitive ==
  ASSUME NEW A, NEW R, StrictOrder(R, A), NEW s \in Seq(A), NEW t \in Seq(A), NEW u \in Seq(A),
         LexBefore(R, s, t), LexBefore(R, t, u)
  PROVE  LexBefore(R, s, u)
<1>1. /\ Len(s) \in Nat /\ DOMAIN s = 1..Len(s) /\ Len(t) \in Nat /\ DOMAIN t = 1..Len(t)
      /\ Len(u) \in Nat /\ DOMAIN u = 1..Len(u)
  OBVIOUS
<1>2. CASE IsStrictPrefix(s, t) /\ IsStrictPrefix(t, u)
  <2>1. Len(s) <= Len(t) /\ Len(t) <= Len(u)
    BY <1>2, PrefixIs DEF IsStrictPrefix
  <2>2. \A i \in 1..Len(s) : s[i] = t[i]
    BY <1>2, PrefixIs DEF IsStrictPrefix
  <2>3. \A i \in 1..Len(t) : t[i] = u[i]
    BY <1>2, PrefixIs DEF IsStrictPrefix
  <2>4. IsPrefix(s, u)
    <3>1. \A i \in 1..Len(s) : s[i] = u[i]
      BY <1>1, <2>1, <2>2, <2>3
    <3>2. Len(s) <= Len(u)
      BY <1>1, <2>1
    <3> QED
      BY <3>1, <3>2, PrefixIs
  <2>5. s # u
    <3>1. ASSUME s = u PROVE FALSE
      <4>1. Len(s) = Len(t)
        <5>1. Len(u) = Len(s)
          BY <3>1
        <5>2. Len(s) \in Nat /\ Len(t) \in Nat /\ Len(s) <= Len(t) /\ Len(t) <= Len(s)
          BY <1>1, <2>1, <5>1
        <5> QED
          BY <5>2
      <4>2. s = t
        BY <2>2, <4>1, SeqEqual
      <4> QED
        BY <1>2, <4>2 DEF IsStrictPrefix
    <3> QED
      BY <3>1
  <2> QED
    BY <2>4, <2>5 DEF LexBefore, IsStrictPrefix
<1>3. CASE IsStrictPrefix(s, t) /\ ~IsStrictPrefix(t, u)
  <2>1. PICK j \in 1..Len(t) \cap 1..Len(u) : (\A k \in 1 .. j - 1 : t[k] = u[k]) /\ <<t[j], u[j]>> \in R
    BY <1>1, <1>3 DEF LexBefore
  <2>2. Len(s) <= Len(t) /\ \A i \in 1..Len(s) : s[i] = t[i]
    BY <1>3, PrefixIs DEF IsStrictPrefix
  <2>3. CASE j <= Len(s)
    <3>1. j \in 1..Len(s) /\ s[j] = t[j]
      BY <1>1, <2>1, <2>2, <2>3
    <3>2. \A k \in 1 .. j - 1 : s[k] = u[k]
      BY <1>1, <2>1, <2>2, <2>3
    <3>3. <<s[j], u[j]>> \in R
      BY <2>1, <3>1
    <3> QED
      BY <1>1, <2>1, <3>1, <3>2, <3>3 DEF LexBefore
  <2>4. CASE ~(j <= Len(s))
    <3>1. \A k \in 1..Len(s) : s[k] = u[k]
      BY <1>1, <2>1, <2>2, <2>4
    <3>2. Len(s) <= Len(u) /\ Len(s) # Len(u)
      <4>1. j \in Nat /\ j <= Len(u)
        BY <1>1, <2>1
      <4>2. Len(s) \in Nat /\ Len(u) \in Nat /\ Len(s) < j
        BY <1>1, <2>4, <4>1
      <4> QED
        BY <4>1, <4>2
    <3>3. IsPrefix(s, u)
      BY <3>1, <3>2, PrefixIs
    <3> QED
      BY <3>2, <3>3 DEF LexBefore, IsStrictPrefix
  <2> QED
    BY <2>3, <2>4
<1>4. CASE ~IsStrictPrefix(s, t)
  <2>1. PICK i \in 1..Len(s) \cap 1..Len(t) : (\A k \in 1 .. i - 1 : s[k] = t[k]) /\ <<s[i], t[i]>> \in R
    BY <1>1, <1>4 DEF LexBefore
  <2>2. CASE IsStrictPrefix(t, u)
    <3>1. Len(t) <= Len(u) /\ \A k \in 1..Len(t) : t[k] = u[k]
      BY <2>2, PrefixIs DEF IsStrictPrefix
    <3>2. i \in 1..Len(s) /\ i \in 1..Len(u) /\ u[i] = t[i] /\ \A k \in 1 .. i - 1 : s[k] = u[k]
      BY <1>1, <2>1, <3>1
    <3> QED
      BY <1>1, <2>1, <3>2 DEF LexBefore
  <2>3. CASE ~IsStrictPrefix(t, u)
    <3>1. PICK j \in 1..Len(t) \cap 1..Len(u) : (\A k \in 1 .. j - 1 : t[k] = u[k]) /\ <<t[j], u[j]>> \in R
      BY <1>1, <2>3 DEF LexBefore
    <3>2. /\ i \in 1..Len(s) /\ i \in 1..Len(t) /\ j \in 1..Len(t) /\ j \in 1..Len(u) /\ i \in Nat /\ j \in Nat
          /\ s[i] \in A /\ t[i] \in A /\ t[j] \in A /\ u[j] \in A
      BY <1>1, <2>1, <3>1
    <3>3. CASE i < j
      <4>1. i \in 1..Len(u) /\ t[i] = u[i] /\ \A k \in 1 .. i - 1 : s[k] = u[k]
        BY <1>1, <2>1, <3>1, <3>2, <3>3
      <4>2. <<s[i], u[i]>> \in R
        BY <2>1, <4>1
      <4> QED
        BY <1>1, <3>2, <4>1, <4>2 DEF LexBefore
    <3>4. CASE j < i
      <4>1. j \in 1..Len(s) /\ s[j] = t[j] /\ \A k \in 1 .. j - 1 : s[k] = u[k]
        BY <1>1, <2>1, <3>1, <3>2, <3>4
      <4>2. <<s[j], u[j]>> \in R
        BY <3>1, <4>1
      <4> QED
        BY <1>1, <3>2, <4>1, <4>2 DEF LexBefore
    <3>5. CASE i = j
      <4>1. i \in 1..Len(u) /\ \A k \in 1 .. i - 1 : s[k] = u[k]
        BY <2>1, <3>1, <3>2, <3>5
      <4>2. u[i] \in A /\ <<t[i], u[i]>> \in R
        BY <3>1, <3>2, <3>5
      <4>3. <<s[i], u[i]>> \in R
        BY <2>1, <3>2, <4>2 DEF StrictOrder
      <4> QED
        BY <1>1, <3>2, <4>1, <4>3 DEF LexBefore
    <3> QED
      BY <3>2, <3>3, <3>4, <3>5
  <2> QED
    BY <2>2, <2>3
<1> QED
  BY <1>2, <1>3, <1>4

(* From pieces to names to paths.                                          *)
PieceOrder == {q \in Range(Spelling) \X Range(Spelling) : Place(q[1]) < Place(q[2])}
NameOrder == {q \in Seq(Range(Spelling)) \X Seq(Range(Spelling)) : NameBefore(q[1], q[2])}

LEMMA PiecesAreOrdered == StrictOrder(PieceOrder, Range(Spelling))
<1>1. ASSUME NEW p \in Range(Spelling) PROVE Place(p) \in Nat /\ Spelling[Place(p)] = p
  <2>1. \E i \in DOMAIN Spelling : Spelling[i] = p
    BY DEF Range
  <2>2. DOMAIN Spelling \subseteq Nat
    BY RoundTripAssumption
  <2> QED
    BY <2>1, <2>2 DEF Place
<1>2. \A a, b \in Range(Spelling) : <<a, b>> \in PieceOrder <=> Place(a) < Place(b)
  BY DEF PieceOrder
<1>3. \A a, b \in Range(Spelling) : a # b => Place(a) # Place(b)
  BY <1>1
<1>4. \A a \in Range(Spelling) : Place(a) \in Nat
  BY <1>1
<1> QED
  BY <1>2, <1>3, <1>4 DEF StrictOrder

LEMMA NameBeforeIsLex ==
  \A s, t : NameBefore(s, t) <=>
     \/ IsStrictPrefix(s, t)
     \/ \E i \in DOMAIN s \cap DOMAIN t : (\A j \in 1 .. i - 1 : s[j] = t[j]) /\ Place(s[i]) < Place(t[i])
  BY DEF NameBefore, Precedes

LEMMA PathBeforeIsLex ==
  \A s, t : PathBefore(s, t) <=>
     \/ IsStrictPrefix(s, t)
     \/ \E i \in DOMAIN s \cap DOMAIN t : (\A j \in 1 .. i - 1 : s[j] = t[j]) /\ NameBefore(s[i], t[i])
  BY DEF PathBefore, Precedes

LEMMA NamesByLex ==
  ASSUME NEW s \in Seq(Range(Spelling)), NEW t \in Seq(Range(Spelling))
  PROVE  NameBefore(s, t) <=> LexBefore(PieceOrder, s, t)
<1>1. \A i \in DOMAIN s \cap DOMAIN t : <<s[i], t[i]>> \in PieceOrder <=> Place(s[i]) < Place(t[i])
  BY DEF PieceOrder
<1> QED
  BY <1>1, NameBeforeIsLex DEF LexBefore

LEMMA NamesAreOrdered == StrictOrder(NameOrder, Seq(Range(Spelling)))
<1> DEFINE N == Seq(Range(Spelling))
<1>1. ASSUME NEW a \in N, NEW b \in N PROVE <<a, b>> \in NameOrder <=> LexBefore(PieceOrder, a, b)
  BY NamesByLex DEF NameOrder
<1>2. \A a \in N : <<a, a>> \notin NameOrder
  BY <1>1, LexIsIrreflexive, PiecesAreOrdered
<1>3. ASSUME NEW a \in N, NEW b \in N, NEW c \in N, <<a, b>> \in NameOrder, <<b, c>> \in NameOrder
      PROVE  <<a, c>> \in NameOrder
  BY <1>1, <1>3, LexIsTransitive, PiecesAreOrdered
<1>4. ASSUME NEW a \in N, NEW b \in N, a # b PROVE <<a, b>> \in NameOrder \/ <<b, a>> \in NameOrder
  BY <1>1, <1>4, LexIsTotal, PiecesAreOrdered
<1> QED
  BY <1>2, <1>3, <1>4 DEF StrictOrder

Paths == Seq(Seq(Range(Spelling)))
PathOrder == {q \in Paths \X Paths : PathBefore(q[1], q[2])}

LEMMA PathsByLex ==
  ASSUME NEW s \in Paths, NEW t \in Paths
  PROVE  PathBefore(s, t) <=> LexBefore(NameOrder, s, t)
<1>1. \A i \in DOMAIN s \cap DOMAIN t : <<s[i], t[i]>> \in NameOrder <=> NameBefore(s[i], t[i])
  BY DEF NameOrder, Paths
<1> QED
  BY <1>1, PathBeforeIsLex DEF LexBefore

LEMMA PathsAreOrdered == StrictOrder(PathOrder, Paths)
<1>1. ASSUME NEW a \in Paths, NEW b \in Paths PROVE <<a, b>> \in PathOrder <=> LexBefore(NameOrder, a, b)
  BY PathsByLex DEF PathOrder
<1>2. \A a \in Paths : <<a, a>> \notin PathOrder
  BY <1>1, LexIsIrreflexive, NamesAreOrdered DEF Paths
<1>3. ASSUME NEW a \in Paths, NEW b \in Paths, NEW c \in Paths, <<a, b>> \in PathOrder, <<b, c>> \in PathOrder
      PROVE  <<a, c>> \in PathOrder
  BY <1>1, <1>3, LexIsTransitive, NamesAreOrdered DEF Paths
<1>4. ASSUME NEW a \in Paths, NEW b \in Paths, a # b PROVE <<a, b>> \in PathOrder \/ <<b, a>> \in PathOrder
  BY <1>1, <1>4, LexIsTotal, NamesAreOrdered DEF Paths
<1> QED
  BY <1>2, <1>3, <1>4 DEF StrictOrder

(* How many come before x is its place in the order.                       *)
Lower(R, S, x) == {y \in S : <<y, x>> \in R}

LEMMA LowerGrows ==
  ASSUME NEW S, IsFiniteSet(S), NEW R, StrictOrder(R, S), NEW x \in S, NEW y \in S, <<x, y>> \in R
  PROVE  Cardinality(Lower(R, S, x)) < Cardinality(Lower(R, S, y))
<1> DEFINE L == Lower(R, S, x)
<1> DEFINE H == Lower(R, S, y)
<1>1. L \subseteq S /\ H \subseteq S /\ x \in H /\ x \notin L
  BY DEF Lower, StrictOrder
<1>2. L \subseteq H
  BY DEF Lower, StrictOrder
<1> HIDE DEF L, H
<1>3. IsFiniteSet(H) /\ IsFiniteSet(L)
  BY <1>1, FS_Subset
<1>4. Cardinality(L) <= Cardinality(H) /\ (Cardinality(H) = Cardinality(L) => H = L)
  BY <1>2, <1>3, FS_Subset
<1>5. Cardinality(L) \in Nat /\ Cardinality(H) \in Nat
  BY <1>3, FS_CardinalityType
<1>6. Cardinality(L) # Cardinality(H)
  BY <1>1, <1>4
<1> QED
  BY <1>4, <1>5, <1>6 DEF L, H

LEMMA LowerIsPlace ==
  ASSUME NEW S, IsFiniteSet(S), NEW R, StrictOrder(R, S)
  PROVE  /\ Cardinality(S) \in Nat
         /\ \A x \in S : Cardinality(Lower(R, S, x)) + 1 \in 1..Cardinality(S)
         /\ \A k \in 1..Cardinality(S) : \E x \in S : Cardinality(Lower(R, S, x)) = k - 1
<1> DEFINE n == Cardinality(S)
<1> DEFINE c(x) == Cardinality(Lower(R, S, x))
<1>1. n \in Nat
  BY FS_CardinalityType
<1>2. ASSUME NEW x \in S PROVE c(x) \in Nat /\ c(x) + 1 \in 1..n
  <2> DEFINE L == Lower(R, S, x)
  <2>1. L \subseteq S /\ x \notin L
    BY DEF Lower, StrictOrder
  <2> HIDE DEF L
  <2>2. IsFiniteSet(L) /\ Cardinality(L) <= n /\ (n = Cardinality(L) => S = L)
    BY <2>1, FS_Subset
  <2>3. Cardinality(L) \in Nat /\ Cardinality(L) # n
    BY <2>1, <2>2, FS_CardinalityType
  <2> HIDE DEF n
  <2>4. Cardinality(L) \in Nat /\ Cardinality(L) + 1 \in 1..n
    BY <1>1, <2>2, <2>3
  <2> QED
    BY <2>4 DEF L
<1> DEFINE T == 1..n
<1> DEFINE f == [x \in S |-> c(x) + 1]
<1> HIDE DEF c, n
<1>3. f \in [S -> T]
  BY <1>2
<1>4. ASSUME NEW x \in S, NEW y \in S, f[x] = f[y] PROVE x = y
  <2>1. c(x) = c(y) /\ c(x) \in Nat
    BY <1>2, <1>4
  <2>2. <<x, y>> \notin R
    <3>1. ASSUME <<x, y>> \in R PROVE FALSE
      <4>1. c(x) < c(y)
        BY <3>1, LowerGrows DEF c
      <4> QED
        BY <2>1, <4>1
    <3> QED
      BY <3>1
  <2>3. <<y, x>> \notin R
    <3>1. ASSUME <<y, x>> \in R PROVE FALSE
      <4>1. c(y) < c(x)
        BY <3>1, LowerGrows DEF c
      <4> QED
        BY <2>1, <4>1
    <3> QED
      BY <3>1
  <2> QED
    BY <2>2, <2>3 DEF StrictOrder
<1>5. f \in Injection(S, T)
  BY <1>3, <1>4 DEF Injection, IsInjective
<1>6. IsFiniteSet(T) /\ Cardinality(T) = n
  <2>1. /\ IsFiniteSet(1..n)
        /\ Cardinality(1..n) = IF 1 > n THEN 0 ELSE n - 1 + 1
    BY <1>1, FS_Interval
  <2> QED
    BY <1>1, <2>1
<1>7. f \in Surjection(S, T)
  <2> HIDE DEF T, f
  <2>1. Cardinality(S) = Cardinality(T)
    BY <1>6 DEF n
  <2> QED
    BY <1>5, <1>6, <2>1, FS_Injection
<1>8. ASSUME NEW k \in T PROVE \E x \in S : c(x) = k - 1
  <2>1. PICK x \in S : f[x] = k
    BY <1>7 DEF Surjection
  <2>2. c(x) \in Nat /\ c(x) + 1 = k
    BY <1>2, <2>1
  <2> QED
    BY <2>2
<1> QED
  BY <1>1, <1>2, <1>8 DEF c, n

(* What InOrder makes: every element, each once, in the order.             *)
Listing(L, S, R) ==
  /\ L \in [1..Cardinality(S) -> S] /\ Cardinality(S) \in Nat
  /\ \A x \in S : \E k \in 1..Cardinality(S) : L[k] = x
  /\ \A a, b \in 1..Cardinality(S) : a < b => <<L[a], L[b]>> \in R

LEMMA OrderIsListing ==
  ASSUME NEW S, IsFiniteSet(S), NEW R, StrictOrder(R, S), NEW L,
         L = [k \in 1..Cardinality(S) |-> L[k]],
         \A k \in 1..Cardinality(S) : \A x \in S : Cardinality(Lower(R, S, x)) = k - 1 =>
            L[k] \in S /\ Cardinality(Lower(R, S, L[k])) = k - 1
  PROVE  Listing(L, S, R)
<1> DEFINE n == Cardinality(S)
<1> DEFINE c(x) == Cardinality(Lower(R, S, x))
<1>1. /\ n \in Nat /\ \A x \in S : c(x) + 1 \in 1..n
      /\ \A k \in 1..n : \E x \in S : c(x) = k - 1
  BY LowerIsPlace
<1>2. /\ L = [k \in 1..n |-> L[k]]
      /\ \A k \in 1..n : \A x \in S : c(x) = k - 1 => L[k] \in S /\ c(L[k]) = k - 1
  OBVIOUS
<1>3. \A x, y \in S : <<x, y>> \in R => c(x) < c(y)
  BY LowerGrows
<1>a. ASSUME NEW x \in S PROVE c(x) \in Nat
  <2>1. Lower(R, S, x) \subseteq S
    BY DEF Lower
  <2> QED
    BY <2>1, FS_Subset, FS_CardinalityType
<1> HIDE DEF c, n
<1>4. ASSUME NEW k \in 1..n PROVE L[k] \in S /\ c(L[k]) = k - 1
  BY <1>1, <1>2
<1>5. L \in [1..n -> S]
  BY <1>2, <1>4
<1>6. ASSUME NEW x \in S, NEW y \in S, c(x) < c(y) PROVE <<x, y>> \in R
  <2>1. x # y /\ ~(c(y) < c(x))
    BY <1>a, <1>6
  <2> QED
    BY <1>3, <2>1 DEF StrictOrder
<1>7. ASSUME NEW x \in S PROVE \E k \in 1..n : L[k] = x
  <2> DEFINE k == c(x) + 1
  <2>1. k \in 1..n /\ c(x) \in Nat
    BY <1>1, <1>a
  <2>2. L[k] \in S /\ c(L[k]) = c(x)
    <3>1. L[k] \in S /\ c(L[k]) = k - 1
      BY <1>4, <2>1
    <3>2. k - 1 = c(x)
      BY <2>1
    <3> QED
      BY <3>1, <3>2
  <2>3. ~(c(L[k]) < c(x)) /\ ~(c(x) < c(L[k]))
    BY <2>1, <2>2
  <2>4. L[k] = x
    BY <1>3, <2>2, <2>3 DEF StrictOrder
  <2> QED
    BY <2>1, <2>4
<1>8. ASSUME NEW a \in 1..n, NEW b \in 1..n, a < b PROVE <<L[a], L[b]>> \in R
  <2>1. c(L[a]) < c(L[b]) /\ L[a] \in S /\ L[b] \in S
    <3>1. /\ L[a] \in S /\ c(L[a]) = a - 1
          /\ L[b] \in S /\ c(L[b]) = b - 1
      BY <1>4
    <3>2. a \in Nat /\ b \in Nat /\ a - 1 < b - 1
      BY <1>1, <1>8
    <3> QED
      BY <3>1, <3>2
  <2> QED
    BY <1>6, <2>1
<1> QED
  BY <1>1, <1>5, <1>7, <1>8 DEF Listing, n

---------------------------------------------------------------------------
(* The project.                                                            *)
Mapped(p) == {n \in p.tree : n.fs # None}

LEMMA PiecesAreSpelled == Pieces \subseteq Range(Spelling)
  BY DEF Pieces

LEMMA NamesAreSpelled ==
  /\ \A s \in Seq(Pieces) : s \in Seq(Range(Spelling))
  /\ \A s \in Names : s \in Seq(Range(Spelling)) /\ s \in Seq(Pieces) /\ s # <<>>
  /\ \A s \in Seq(Names) : s \in Paths
<1>1. ASSUME NEW s \in Seq(Pieces) PROVE s \in Seq(Range(Spelling))
  BY PiecesAreSpelled, SeqMonotonic
<1>2. ASSUME NEW s \in Names PROVE s \in Seq(Range(Spelling)) /\ s \in Seq(Pieces) /\ s # <<>>
  BY <1>1 DEF Names
<1>3. Names \subseteq Seq(Range(Spelling))
  BY <1>2
<1>4. ASSUME NEW s \in Seq(Names) PROVE s \in Paths
  BY <1>3, SeqMonotonic DEF Paths
<1> QED
  BY <1>1, <1>2, <1>4

LEMMA NodesAreListed ==
  ASSUME NEW p, IsProject(p)
  PROVE  \E L : /\ L \in [1..Cardinality(Mapped(p)) -> Mapped(p)] /\ Cardinality(Mapped(p)) \in Nat
                /\ Mappings(p) = [i \in 1..Cardinality(Mapped(p)) |-> Mapping(p, L[i])]
<1> DEFINE S == Mapped(p)
<1> DEFINE at(k) == CHOOSE x \in S : Cardinality({y \in S : NameBefore(y.path, x.path)}) = k - 1
<1> DEFINE L == [k \in 1 .. Cardinality(S) |-> at(k)]
<1> DEFINE R == {q \in S \X S : NameBefore(q[1].path, q[2].path)}
<1>1. Mappings(p) = [i \in DOMAIN L |-> Mapping(p, L[i])]
  BY DEF Mappings, InOrder, NameBefore, Mapped
<1>2. IsFiniteSet(S)
  BY FS_Subset DEF IsProject, Mapped
<1>3. ASSUME NEW x \in S PROVE x.path \in Seq(Range(Spelling))
  BY NamesAreSpelled DEF IsProject, Mapped
<1>4. \A x, y \in S : x # y => x.path # y.path
  BY DEF IsProject, Mapped
<1> HIDE DEF S
<1>5. StrictOrder(R, S)
  <2>1. \A x, y \in S : <<x, y>> \in R <=> <<x.path, y.path>> \in NameOrder
    BY <1>3 DEF NameOrder
  <2> HIDE DEF R
  <2>2. StrictOrder(NameOrder, Seq(Range(Spelling)))
    BY NamesAreOrdered
  <2>3. \A a \in S : <<a, a>> \notin R
    BY <1>3, <2>1, <2>2 DEF StrictOrder
  <2>4. ASSUME NEW a \in S, NEW b \in S, NEW c \in S, <<a, b>> \in R, <<b, c>> \in R
        PROVE  <<a, c>> \in R
    BY <1>3, <2>1, <2>2, <2>4 DEF StrictOrder
  <2>5. ASSUME NEW a \in S, NEW b \in S, a # b PROVE <<a, b>> \in R \/ <<b, a>> \in R
    BY <1>3, <1>4, <2>1, <2>2, <2>5 DEF StrictOrder
  <2> QED
    BY <2>3, <2>4, <2>5 DEF StrictOrder
<1>6. ASSUME NEW x \in S PROVE {y \in S : NameBefore(y.path, x.path)} = Lower(R, S, x)
  BY DEF Lower
<1>7. Listing(L, S, R)
  <2>1. ASSUME NEW k \in 1..Cardinality(S), NEW x \in S, Cardinality(Lower(R, S, x)) = k - 1
        PROVE  L[k] \in S /\ Cardinality(Lower(R, S, L[k])) = k - 1
    <3> HIDE DEF R
    <3>1. Cardinality({y \in S : NameBefore(y.path, x.path)}) = k - 1
      BY <1>6, <2>1
    <3>2. L[k] \in S /\ Cardinality({y \in S : NameBefore(y.path, L[k].path)}) = k - 1
      BY <3>1
    <3> QED
      BY <1>6, <3>2
  <2>2. L = [k \in 1..Cardinality(S) |-> L[k]]
    <3> HIDE DEF at
    <3> QED
      OBVIOUS
  <2> HIDE DEF L, R, at
  <2> QED
    BY <1>2, <1>5, <2>1, <2>2, OrderIsListing
<1> HIDE DEF L, at
<1>8. L \in [1..Cardinality(S) -> S] /\ Cardinality(S) \in Nat
  BY <1>7 DEF Listing
<1>9. Mappings(p) = [i \in 1..Cardinality(S) |-> Mapping(p, L[i])]
  BY <1>1, <1>8
<1> QED
  BY <1>8, <1>9 DEF S

(* Mappings are numbered, and go from instance paths to directories.       *)
LEMMA MappingFacts ==
  ASSUME NEW p, IsProject(p)
  PROVE  /\ IsFiniteSet(DOMAIN Mappings(p)) /\ DOMAIN Mappings(p) \subseteq Nat \ {0}
         /\ \A k \in DOMAIN Mappings(p) : /\ Mappings(p)[k].fs \in Seq(Names)
                                          /\ Mappings(p)[k].path \in Seq(Pieces)
<1> DEFINE n == Cardinality(Mapped(p))
<1>1. PICK L : /\ L \in [1..n -> Mapped(p)] /\ n \in Nat
               /\ Mappings(p) = [i \in 1..n |-> Mapping(p, L[i])]
  BY NodesAreListed
<1>2. DOMAIN Mappings(p) = 1..n /\ IsFiniteSet(1..n)
  BY <1>1, FS_Interval
<1>3. ASSUME NEW k \in 1..n PROVE Mappings(p)[k].fs \in Seq(Names) /\ Mappings(p)[k].path \in Seq(Pieces)
  <2>1. L[k] \in p.tree /\ L[k].fs # None
    BY <1>1 DEF Mapped
  <2>2. L[k].path \in Seq(Pieces) /\ L[k].fs \in Seq(Names) /\ <<p.name>> \in Seq(Pieces)
    BY <2>1 DEF IsProject
  <2>3. Mappings(p)[k] = Mapping(p, L[k])
    BY <1>1
  <2> QED
    BY <2>2, <2>3 DEF Mapping
<1> QED
  BY <1>1, <1>2, <1>3

---------------------------------------------------------------------------
(* What build makes.                                                       *)
IsInstance(i) ==
  i = [id |-> i.id, parent |-> i.parent, rank |-> i.rank, path |-> i.path, class |-> i.class, source |-> i.source]

(* A directory is a part of the path of a file.                            *)
LEMMA DirFacts ==
  ASSUME NEW paths, paths \subseteq Seq(Names), NEW root \in Seq(Names),
         \A f \in paths : IsStrictPrefix(root, f), NEW d \in DirsOf(paths, root)
  PROVE  /\ d \in Seq(Names) /\ d # <<>> /\ Len(root) < Len(d) /\ IsPrefix(root, d)
         /\ \E f \in paths : IsStrictPrefix(d, f)
<1>0. PICK f \in paths : d \in {SubSeq(f, 1, k) : k \in Len(root) + 1 .. Len(f) - 1}
  BY DEF DirsOf
<1>1. PICK k \in Len(root) + 1 .. Len(f) - 1 : d = SubSeq(f, 1, k)
  BY <1>0
<1>2. f \in Seq(Names) /\ Len(f) \in Nat /\ Len(root) \in Nat /\ \A i \in 1..Len(root) : root[i] = f[i]
  BY PrefixIs DEF IsStrictPrefix
<1>3. k \in Nat /\ k < Len(f) /\ Len(root) < k /\ k >= 1
  BY <1>1, <1>2
<1>4. d \in Seq(Names) /\ Len(d) = k /\ \A i \in 1..k : d[i] = f[i]
  <2>1. \A i \in 1..k : f[i] \in Names
    BY <1>2, <1>3
  <2>2. /\ SubSeq(f, 1, k) \in Seq(Names) /\ Len(SubSeq(f, 1, k)) = IF 1 <= k THEN k - 1 + 1 ELSE 0
        /\ \A i \in 1 .. k - 1 + 1 : SubSeq(f, 1, k)[i] = f[1 + i - 1]
    BY <1>3, <2>1, SubSeqProperties
  <2>3. k - 1 + 1 = k /\ \A i \in 1..k : 1 + i - 1 = i
    BY <1>3
  <2> QED
    BY <1>1, <1>3, <2>2, <2>3
<1>5. IsPrefix(d, f) /\ d # f
  BY <1>2, <1>3, <1>4, PrefixIs
<1>6. IsPrefix(root, d)
  <2>1. Len(root) <= Len(d) /\ \A i \in 1..Len(root) : root[i] = d[i]
    BY <1>2, <1>3, <1>4
  <2> QED
    BY <1>4, <2>1, PrefixIs
<1> QED
  BY <1>3, <1>4, <1>5, <1>6 DEF IsStrictPrefix

LEMMA BuildableFacts ==
  ASSUME NEW p, NEW m, m.fs \in Seq(Names), NEW tree, IsTree(tree)
  PROVE  /\ Buildable(p, m, tree) \subseteq DOMAIN tree /\ Buildable(p, m, tree) \subseteq Seq(Names)
         /\ \A f \in Buildable(p, m, tree) : IsStrictPrefix(m.fs, f)
         /\ \A d \in DirsOf(Buildable(p, m, tree), m.fs) :
              /\ d \in Seq(Names) /\ d # <<>> /\ Len(m.fs) < Len(d) /\ IsPrefix(m.fs, d)
              /\ d \notin DOMAIN tree
<1> DEFINE S == Buildable(p, m, tree)
<1>1. S \subseteq DOMAIN tree /\ S \subseteq Seq(Names) /\ \A f \in S : IsStrictPrefix(m.fs, f)
  BY DEF Buildable, Below, IsTree, IsFile
<1> HIDE DEF S
<1>2. ASSUME NEW d \in DirsOf(S, m.fs)
      PROVE  /\ d \in Seq(Names) /\ d # <<>> /\ Len(m.fs) < Len(d) /\ IsPrefix(m.fs, d)
             /\ d \notin DOMAIN tree
  <2>1. /\ d \in Seq(Names) /\ d # <<>> /\ Len(m.fs) < Len(d) /\ IsPrefix(m.fs, d)
        /\ \E f \in S : IsStrictPrefix(d, f)
    BY <1>1, <1>2, DirFacts
  <2> QED
    BY <1>1, <2>1 DEF IsTree
<1> QED
  BY <1>1, <1>2 DEF S

LEMMA InstancePathType ==
  ASSUME NEW m, m.path \in Seq(Pieces), m.fs \in Seq(Names), NEW dir \in Seq(Names), NEW name \in Seq(Pieces)
  PROVE  InstancePath(m, dir, name) \in Seq(Pieces)
<1> DEFINE s == SubSeq(dir, Len(m.fs) + 1, Len(dir))
<1>1. s \in Seq(Seq(Pieces))
  <2>1. Len(m.fs) \in Nat /\ Len(dir) \in Nat /\ Names \subseteq Seq(Pieces)
    BY DEF Names
  <2>2. \A i \in Len(m.fs) + 1 .. Len(dir) : dir[i] \in Seq(Pieces)
    BY <2>1
  <2> QED
    BY <2>1, <2>2, SubSeqProperties
<1> HIDE DEF s
<1>2. FlattenSeq(s) \in Seq(Pieces)
  BY <1>1, FlattenType
<1>3. m.path \o FlattenSeq(s) \in Seq(Pieces)
  BY <1>2
<1>4. (m.path \o FlattenSeq(s)) \o name \in Seq(Pieces)
  BY <1>3
<1> QED
  BY <1>4 DEF InstancePath, s

LEMMA ContentFacts ==
  ASSUME NEW tree, IsTree(tree), NEW f \in DOMAIN tree
  PROVE  /\ f \in Seq(Names) /\ f # <<>> /\ Last(f) \in Seq(Pieces) /\ Last(f) # <<>>
         /\ Stem(Last(f)) \in Seq(Pieces) /\ Content(f, tree).name \in Seq(Pieces)
<1>1. f \in Seq(Names) /\ f # <<>>
  BY DEF IsTree, IsFile
<1>2. Last(f) \in Names
  BY <1>1, FrontAndLast
<1>3. Last(f) \in Seq(Pieces) /\ Last(f) # <<>>
  BY <1>2 DEF Names
<1>4. Stem(Last(f)) \in Seq(Pieces)
  BY <1>3, FrontAndLast DEF Stem
<1>5. Append(Stem(Last(f)), "model") \in Seq(Pieces)
  BY <1>4, RoundTripAssumption
<1>6. ModelScript.name \in Seq(Pieces)
  BY RoundTripAssumption
<1>7. Content(f, tree).name \in {Stem(Last(f)), Append(Stem(Last(f)), "model"), ModelScript.name}
  BY DEF Content
<1> QED
  BY <1>1, <1>3, <1>4, <1>5, <1>6, <1>7

FilesBuilt(p, m, tree) ==
  {g \in Buildable(p, m, tree) : ~IsInit(Last(g)) /\ Kind(Last(g)) \in (LuauKinds \cup OtherKinds) \ {"md"}}

(* The instances of rank k come from the k-th mapping.                     *)
FromDir(p, tree, k, i) ==
  /\ Mappings(p)[k].fs \notin DOMAIN tree
  /\ \E d \in DirsOf(Buildable(p, Mappings(p)[k], tree), Mappings(p)[k].fs) :
        i = DirInstance(p, Mappings(p)[k], k, tree, d)
FromFile(p, tree, k, i) ==
  /\ Mappings(p)[k].fs \notin DOMAIN tree
  /\ \E f \in FilesBuilt(p, Mappings(p)[k], tree) : i = FileInstance(Mappings(p)[k], k, tree, f)
FromMapping(p, tree, k, i) ==
  /\ Mappings(p)[k].fs \in DOMAIN tree
  /\ i \in PopulateFile(Mappings(p)[k], k, tree)

LEMMA BuildPlaceIs ==
  ASSUME NEW p, NEW tree, NEW i
  PROVE  i \in BuildPlace(p, tree) <=>
           \E k \in DOMAIN Mappings(p) :
              \/ i \in DeclaredInstances(p, Mappings(p)[k], k)
              \/ FromDir(p, tree, k, i) \/ FromFile(p, tree, k, i)
              \/ FromMapping(p, tree, k, i) /\ Mappings(p)[k].fs \notin p.ignored
<1> DEFINE M == Mappings(p)
<1> DEFINE Filled(k) == CASE M[k].fs \notin DOMAIN tree   -> PopulateFromDir(p, M[k], k, tree)
                          [] M[k].fs \in DOMAIN tree \cap p.ignored -> {}
                          [] OTHER                      -> PopulateFile(M[k], k, tree)
<1>1. i \in BuildPlace(p, tree) <=> \E k \in DOMAIN M : i \in DeclaredInstances(p, M[k], k) \/ i \in Filled(k)
  BY DEF BuildPlace
<1>2. ASSUME NEW k \in DOMAIN M
      PROVE  i \in PopulateFromDir(p, M[k], k, tree) <=>
               \/ \E d \in DirsOf(Buildable(p, M[k], tree), M[k].fs) : i = DirInstance(p, M[k], k, tree, d)
               \/ \E f \in FilesBuilt(p, M[k], tree) : i = FileInstance(M[k], k, tree, f)
  BY DEF PopulateFromDir, FilesBuilt
<1> DEFINE Dir(k) == i \in PopulateFromDir(p, M[k], k, tree)
<1> DEFINE One(k) == i \in PopulateFile(M[k], k, tree)
<1>3. ASSUME NEW k \in DOMAIN M
      PROVE  i \in Filled(k) <=>
               \/ M[k].fs \notin DOMAIN tree /\ Dir(k)
               \/ M[k].fs \in DOMAIN tree /\ M[k].fs \notin p.ignored /\ One(k)
  <2>1. CASE M[k].fs \notin DOMAIN tree
    BY <2>1
  <2>2. CASE M[k].fs \in DOMAIN tree /\ M[k].fs \in p.ignored
    BY <2>2
  <2>3. CASE M[k].fs \in DOMAIN tree /\ M[k].fs \notin p.ignored
    BY <2>3
  <2> QED
    BY <2>1, <2>2, <2>3
<1> HIDE DEF Filled
<1>4. ASSUME NEW k \in DOMAIN M
      PROVE  i \in Filled(k) <=>
               \/ FromDir(p, tree, k, i) \/ FromFile(p, tree, k, i)
               \/ FromMapping(p, tree, k, i) /\ M[k].fs \notin p.ignored
  BY <1>2, <1>3 DEF FromDir, FromFile, FromMapping
<1> QED
  BY <1>1, <1>4

---------------------------------------------------------------------------
(* Places.  Rank and id tell instances apart, and what was added in Studio *)
(* is named for its parent.                                                *)
AddedId(id, name) == Append(id, <<"~">> \o name)
Added(place, i) ==
  \E j \in place, name \in Seq(Pieces) :
    j.rank = i.rank /\ i.id = AddedId(j.id, name) /\ i.path = j.path \o name

PlaceOK(place) ==
  /\ IsFiniteSet(place)
  /\ \A i \in place : IsInstance(i) /\ i.rank \in Nat /\ i.path \in Seq(Pieces) /\ i.id \in Paths
  /\ \A i \in place : i.rank > 0 => i.id \in Seq(Names) \/ Added(place, i)
  /\ \A i, j \in place : i.rank = j.rank /\ i.id = j.id => i = j

LEMMA ImageIsFinite ==
  ASSUME NEW S, IsFiniteSet(S), NEW f, DOMAIN f = S, f = [x \in S |-> f[x]]
  PROVE  IsFiniteSet({f[x] : x \in S})
<1> DEFINE T == {f[x] : x \in S}
<1>1. f \in Surjection(S, T)
  BY DEF Surjection
<1> HIDE DEF T
<1>2. IsFiniteSet(T)
  BY <1>1, FS_Surjection
<1> QED
  BY <1>2 DEF T

LEMMA PrefixesAreFinite ==
  ASSUME NEW S, NEW s \in Seq(S)
  PROVE  IsFiniteSet(Prefixes(s)) /\ \A q \in Prefixes(s) : q \in Seq(S)
<1>1. Len(s) \in Nat
  OBVIOUS
<1> DEFINE f == [l \in 0..Len(s) |-> SubSeq(s, 1, l)]
<1>2. IsFiniteSet(0..Len(s))
  BY <1>1, FS_Interval
<1>3. IsFiniteSet({f[l] : l \in 0..Len(s)})
  <2>1. DOMAIN f = 0..Len(s) /\ f = [x \in 0..Len(s) |-> f[x]]
    OBVIOUS
  <2> HIDE DEF f
  <2> QED
    BY <1>2, <2>1, ImageIsFinite
<1>4. Prefixes(s) = {f[l] : l \in 0..Len(s)}
  BY DEF Prefixes
<1>5. \A l \in 0..Len(s) : SubSeq(s, 1, l) \in Seq(S)
  <2>1. ASSUME NEW l \in 0..Len(s) PROVE SubSeq(s, 1, l) \in Seq(S)
    <3>1. \A i \in 1..l : s[i] \in S
      BY <1>1
    <3> QED
      BY <1>1, <3>1, SubSeqProperties
  <2> QED
    BY <2>1
<1> QED
  BY <1>3, <1>4, <1>5 DEF Prefixes

LEMMA DirsAreFinite ==
  ASSUME NEW paths, IsFiniteSet(paths), paths \subseteq Seq(Names), NEW root \in Seq(Names)
  PROVE  IsFiniteSet(DirsOf(paths, root))
<1> DEFINE f == [q \in paths |-> Prefixes(q)]
<1>1. IsFiniteSet({f[q] : q \in paths})
  <2>1. DOMAIN f = paths /\ f = [x \in paths |-> f[x]]
    OBVIOUS
  <2> HIDE DEF f
  <2> QED
    BY <2>1, ImageIsFinite
<1>2. \A T \in {f[q] : q \in paths} : IsFiniteSet(T)
  BY PrefixesAreFinite
<1> DEFINE all == UNION {f[q] : q \in paths}
<1>3. IsFiniteSet(all)
  BY <1>1, <1>2, FS_UNION
<1>4. ASSUME NEW d \in DirsOf(paths, root) PROVE d \in all
  <2>1. PICK q \in paths : d \in {SubSeq(q, 1, k) : k \in Len(root) + 1 .. Len(q) - 1}
    BY DEF DirsOf
  <2>2. PICK k \in Len(root) + 1 .. Len(q) - 1 : d = SubSeq(q, 1, k)
    BY <2>1
  <2>3. k \in 0..Len(q)
    <3>1. Len(root) \in Nat /\ Len(q) \in Nat
      OBVIOUS
    <3> QED
      BY <3>1
  <2>4. d \in Prefixes(q)
    BY <2>2, <2>3 DEF Prefixes
  <2> QED
    BY <2>4
<1> HIDE DEF all
<1> QED
  BY <1>3, <1>4, FS_Subset

LEMMA BuildPlaceIsFinite ==
  ASSUME NEW p, IsProject(p), NEW tree, IsTree(tree)
  PROVE  IsFiniteSet(BuildPlace(p, tree))
<1> DEFINE M == Mappings(p)
<1>1. /\ IsFiniteSet(DOMAIN M)
      /\ \A k \in DOMAIN M : M[k].fs \in Seq(Names) /\ M[k].path \in Seq(Pieces)
  BY MappingFacts
<1> HIDE DEF M
<1> DEFINE Dirs(k) == {DirInstance(p, M[k], k, tree, d) : d \in DirsOf(Buildable(p, M[k], tree), M[k].fs)}
<1> DEFINE Ones(k) == {FileInstance(M[k], k, tree, f) : f \in FilesBuilt(p, M[k], tree)}
<1> DEFINE All(k) == (DeclaredInstances(p, M[k], k) \cup Dirs(k)) \cup (Ones(k) \cup PopulateFile(M[k], k, tree))
<1>2. ASSUME NEW k \in DOMAIN M PROVE IsFiniteSet(All(k))
  <2>1. IsFiniteSet(DeclaredInstances(p, M[k], k))
    <3> DEFINE S == Prefixes(M[k].path) \ {<<>>}
    <3> DEFINE classes == NodeClasses(p)
    <3> DEFINE f == [q \in S |-> [id |-> DeclaredId(q), parent |-> DeclaredId(Front(q)), rank |-> 0, path |-> q,
                                  source |-> None, class |-> IF q \in DOMAIN classes THEN classes[q] ELSE M[k].class]]
    <3>1. IsFiniteSet(S)
      BY <1>1, PrefixesAreFinite, FS_Subset
    <3>2. DOMAIN f = S /\ f = [q \in S |-> f[q]]
      OBVIOUS
    <3>3. DeclaredInstances(p, M[k], k) = {f[q] : q \in S}
      BY DEF DeclaredInstances
    <3> HIDE DEF f, S
    <3> QED
      BY <3>1, <3>2, <3>3, ImageIsFinite
  <2>2. IsFiniteSet(Buildable(p, M[k], tree))
    BY <1>1, BuildableFacts, FS_Subset DEF IsTree
  <2>3. IsFiniteSet(Dirs(k))
    <3> DEFINE S == DirsOf(Buildable(p, M[k], tree), M[k].fs)
    <3> DEFINE f == [d \in S |-> DirInstance(p, M[k], k, tree, d)]
    <3>1. IsFiniteSet(S)
      BY <1>1, <2>2, BuildableFacts, DirsAreFinite
    <3>2. DOMAIN f = S /\ f = [q \in S |-> f[q]]
      OBVIOUS
    <3>3. Dirs(k) = {f[q] : q \in S}
      OBVIOUS
    <3> HIDE DEF f, S, Dirs
    <3> QED
      BY <3>1, <3>2, <3>3, ImageIsFinite
  <2>4. IsFiniteSet(Ones(k))
    <3> DEFINE S == FilesBuilt(p, M[k], tree)
    <3> DEFINE f == [d \in S |-> FileInstance(M[k], k, tree, d)]
    <3>1. IsFiniteSet(S)
      BY <2>2, FS_Subset DEF FilesBuilt
    <3>2. DOMAIN f = S /\ f = [q \in S |-> f[q]]
      OBVIOUS
    <3>3. Ones(k) = {f[q] : q \in S}
      OBVIOUS
    <3> HIDE DEF f, S, Ones
    <3> QED
      BY <3>1, <3>2, <3>3, ImageIsFinite
  <2>5. IsFiniteSet(PopulateFile(M[k], k, tree))
    BY FS_Singleton DEF PopulateFile
  <2> HIDE DEF Dirs, Ones
  <2> QED
    BY <2>1, <2>3, <2>4, <2>5, FS_Union
<1> DEFINE g == [k \in DOMAIN M |-> All(k)]
<1>3. IsFiniteSet({g[k] : k \in DOMAIN M})
  <2>1. DOMAIN g = DOMAIN M /\ g = [k \in DOMAIN M |-> g[k]]
    OBVIOUS
  <2> HIDE DEF g
  <2> QED
    BY <1>1, <2>1, ImageIsFinite
<1>4. IsFiniteSet(UNION {g[k] : k \in DOMAIN M})
  <2>1. \A T \in {g[k] : k \in DOMAIN M} : IsFiniteSet(T)
    BY <1>2
  <2> HIDE DEF g
  <2> QED
    BY <1>3, <2>1, FS_UNION
<1>5. ASSUME NEW i \in BuildPlace(p, tree) PROVE i \in UNION {g[k] : k \in DOMAIN M}
  <2>1. PICK k \in DOMAIN M :
          \/ i \in DeclaredInstances(p, M[k], k)
          \/ FromDir(p, tree, k, i) \/ FromFile(p, tree, k, i)
          \/ FromMapping(p, tree, k, i)
    BY BuildPlaceIs DEF M
  <2>2. i \in All(k)
    BY <2>1 DEF FromDir, FromFile, FromMapping, M
  <2>3. g[k] = All(k)
    BY <2>1
  <2> HIDE DEF g, All
  <2> QED
    BY <2>1, <2>2, <2>3
<1> HIDE DEF g
<1> QED
  BY <1>4, <1>5, FS_Subset

LEMMA DirInstanceFacts ==
  ASSUME NEW p, IsProject(p), NEW tree, IsTree(tree), NEW k \in DOMAIN Mappings(p), NEW i,
         FromDir(p, tree, k, i)
  PROVE  /\ i.rank = k /\ i.path \in Seq(Pieces) /\ i.id \in Seq(Names) /\ i.id \notin DOMAIN tree /\ IsInstance(i)
         /\ i.id \in DirsOf(Buildable(p, Mappings(p)[k], tree), Mappings(p)[k].fs)
         /\ i = DirInstance(p, Mappings(p)[k], k, tree, i.id)
<1> DEFINE m == Mappings(p)[k]
<1>1. m.fs \in Seq(Names) /\ m.path \in Seq(Pieces)
  BY MappingFacts
<1>2. PICK d \in DirsOf(Buildable(p, m, tree), m.fs) : i = DirInstance(p, m, k, tree, d)
  BY DEF FromDir
<1>3. d \in Seq(Names) /\ d \notin DOMAIN tree
  BY <1>1, <1>2, BuildableFacts
<1>4. InstancePath(m, d, <<>>) \in Seq(Pieces)
  <2>1. <<>> \in Seq(Pieces)
    OBVIOUS
  <2> HIDE DEF m
  <2> QED
    BY <1>1, <1>3, <2>1, InstancePathType
<1>5. i.id = d /\ i.rank = k /\ i.path = InstancePath(m, d, <<>>) /\ IsInstance(i)
  BY <1>2 DEF DirInstance, IsInstance
<1> QED
  BY <1>2, <1>3, <1>4, <1>5

LEMMA FileInstanceFacts ==
  ASSUME NEW p, IsProject(p), NEW tree, IsTree(tree), NEW k \in DOMAIN Mappings(p), NEW i,
         FromFile(p, tree, k, i)
  PROVE  /\ i.rank = k /\ i.path \in Seq(Pieces) /\ i.id \in Seq(Names) /\ i.id \in DOMAIN tree /\ IsInstance(i)
         /\ i.id \in FilesBuilt(p, Mappings(p)[k], tree)
         /\ i = FileInstance(Mappings(p)[k], k, tree, i.id)
<1> DEFINE m == Mappings(p)[k]
<1>1. m.fs \in Seq(Names) /\ m.path \in Seq(Pieces)
  BY MappingFacts
<1>2. PICK f \in FilesBuilt(p, m, tree) : i = FileInstance(m, k, tree, f)
  BY DEF FromFile
<1>3. f \in DOMAIN tree
  BY <1>1, <1>2, BuildableFacts DEF FilesBuilt
<1>4. /\ f \in Seq(Names) /\ Front(f) \in Seq(Names) /\ Content(f, tree).name \in Seq(Pieces)
  BY <1>3, ContentFacts, FrontAndLast
<1>5. InstancePath(m, Front(f), Content(f, tree).name) \in Seq(Pieces)
  <2> HIDE DEF m
  <2> QED
    BY <1>1, <1>4, InstancePathType
<1>6. /\ i.id = f /\ i.rank = k /\ IsInstance(i)
      /\ i.path = InstancePath(m, Front(f), Content(f, tree).name)
  BY <1>2 DEF FileInstance, IsInstance
<1> QED
  BY <1>2, <1>3, <1>4, <1>5, <1>6

LEMMA MappedFileFacts ==
  ASSUME NEW p, IsProject(p), NEW tree, IsTree(tree), NEW k \in DOMAIN Mappings(p), NEW i,
         FromMapping(p, tree, k, i)
  PROVE  /\ i.rank = k /\ i.path \in Seq(Pieces) /\ i.id \in Seq(Names) /\ i.id \in DOMAIN tree /\ IsInstance(i)
         /\ i.id = Mappings(p)[k].fs /\ i.source = tree[i.id]
<1> DEFINE m == Mappings(p)[k]
<1>1. m.fs \in Seq(Names) /\ m.path \in Seq(Pieces) /\ m.fs \in DOMAIN tree
  BY MappingFacts DEF FromMapping
<1>2. i = [id |-> m.fs, parent |-> DeclaredId(m.path), rank |-> k,
           path |-> m.path \o ResolveInstanceName(Last(m.fs)),
           class |-> ResolveInstanceClass(Last(m.fs)), source |-> tree[m.fs]]
  BY DEF FromMapping, PopulateFile
<1>3. ResolveInstanceName(Last(m.fs)) \in Seq(Pieces)
  BY <1>1, ContentFacts DEF ResolveInstanceName
<1>4. m.path \o ResolveInstanceName(Last(m.fs)) \in Seq(Pieces)
  <2> HIDE DEF m
  <2> QED
    BY <1>1, <1>3
<1>5. /\ i.id = m.fs /\ i.rank = k /\ i.source = tree[m.fs] /\ IsInstance(i)
      /\ i.path = m.path \o ResolveInstanceName(Last(m.fs))
  BY <1>2 DEF IsInstance
<1> QED
  BY <1>1, <1>4, <1>5

LEMMA DeclaredFacts ==
  ASSUME NEW p, IsProject(p), NEW k \in DOMAIN Mappings(p), NEW i \in DeclaredInstances(p, Mappings(p)[k], k)
  PROVE  i.rank = 0 /\ i.id = DeclaredId(i.path) /\ i.path \in Seq(Pieces) /\ IsInstance(i)
<1> DEFINE m == Mappings(p)[k]
<1> DEFINE classes == NodeClasses(p)
<1>1. PICK q \in Prefixes(m.path) \ {<<>>} :
        i = [id |-> DeclaredId(q), parent |-> DeclaredId(Front(q)), rank |-> 0, path |-> q, source |-> None,
             class |-> IF q \in DOMAIN classes THEN classes[q] ELSE m.class]
  BY DEF DeclaredInstances
<1>2. q \in Seq(Pieces)
  BY MappingFacts, PrefixesAreFinite
<1> HIDE DEF classes
<1>3. i.rank = 0 /\ i.id = DeclaredId(q) /\ i.path = q /\ IsInstance(i)
  BY <1>1 DEF IsInstance
<1> QED
  BY <1>2, <1>3

(* Instance paths have identifiers of their own.                           *)
LEMMA DeclaredIdFacts ==
  ASSUME NEW path \in Seq(Pieces)
  PROVE  /\ DeclaredId(path) \in Paths
         /\ \A other \in Seq(Pieces) : DeclaredId(path) = DeclaredId(other) => path = other
<1> DEFINE a == <<"@">>
<1> DEFINE names(s) == [x \in DOMAIN s |-> <<s[x]>>]
<1>1. a \in Seq(Range(Spelling))
  <2>1. "@" \in Range(Spelling)
    BY RoundTripAssumption
  <2> QED
    BY <2>1
<1>2. ASSUME NEW s \in Seq(Pieces)
      PROVE  /\ names(s) \in Paths /\ Len(names(s)) = Len(s) /\ Len(s) \in Nat
             /\ \A x \in 1..Len(s) : names(s)[x] = <<s[x]>>
  <2>1. \A x \in 1..Len(s) : <<s[x]>> \in Seq(Range(Spelling))
    <3>1. ASSUME NEW x \in 1..Len(s) PROVE <<s[x]>> \in Seq(Range(Spelling))
      <4>1. s[x] \in Range(Spelling)
        BY PiecesAreSpelled
      <4> QED
        BY <4>1
    <3> QED
      BY <3>1
  <2>2. names(s) = [x \in 1..Len(s) |-> <<s[x]>>] /\ Len(s) \in Nat
    OBVIOUS
  <2>3. names(s) \in [1..Len(s) -> Seq(Range(Spelling))]
    BY <2>1, <2>2
  <2>4. names(s) \in Paths
    BY <2>2, <2>3 DEF Paths
  <2>5. Len(names(s)) = Len(s)
    BY <2>2
  <2> QED
    BY <2>2, <2>4, <2>5
<1>3. \A s : DeclaredId(s) = <<a>> \o names(s)
  BY DEF DeclaredId
<1> HIDE DEF a, names
<1>4. DeclaredId(path) \in Paths
  <2>1. names(path) \in Paths
    BY <1>2
  <2>2. <<a>> \in Paths
    BY <1>1 DEF Paths
  <2>3. \A u, v \in Paths : u \o v \in Paths
    BY DEF Paths
  <2> QED
    BY <1>3, <2>1, <2>2, <2>3
<1>5. ASSUME NEW other \in Seq(Pieces), DeclaredId(path) = DeclaredId(other) PROVE path = other
  <2>1. <<a>> \o names(path) = <<a>> \o names(other)
    BY <1>3, <1>5
  <2>2. /\ names(path) \in Paths /\ Len(names(path)) = Len(path)
        /\ names(other) \in Paths /\ Len(names(other)) = Len(other)
    BY <1>2
  <2> DEFINE u == names(path)
  <2> DEFINE v == names(other)
  <2> HIDE DEF u, v
  <2>3. /\ u \in Seq(Seq(Range(Spelling))) /\ v \in Seq(Seq(Range(Spelling)))
        /\ <<a>> \o u = <<a>> \o v
    BY <2>1, <2>2 DEF u, v, Paths
  <2>4. /\ Len(<<a>> \o u) = Len(u) + 1 /\ \A x \in 1..Len(u) : (<<a>> \o u)[x + 1] = u[x]
        /\ Len(<<a>> \o v) = Len(v) + 1 /\ \A x \in 1..Len(v) : (<<a>> \o v)[x + 1] = v[x]
        /\ Len(u) \in Nat /\ Len(v) \in Nat
    BY <1>1, <2>3
  <2>5. Len(u) = Len(v) /\ \A x \in 1..Len(u) : u[x] = v[x]
    BY <2>3, <2>4
  <2>6. Len(path) = Len(other) /\ \A x \in 1..Len(path) : <<path[x]>> = <<other[x]>>
    BY <1>2, <2>2, <2>5 DEF u, v
  <2>7. \A x \in 1..Len(path) : path[x] = other[x]
    BY <2>6
  <2> QED
    BY <2>6, <2>7, SeqEqual
<1> QED
  BY <1>4, <1>5

(* A part of a mapped path that is no node's is the root's.                *)
LEMMA UnnamedIsRoot ==
  ASSUME NEW p, IsProject(p), NEW k \in DOMAIN Mappings(p), NEW q \in Prefixes(Mappings(p)[k].path) \ {<<>>},
         q \notin DOMAIN NodeClasses(p)
  PROVE  \E n \in p.tree : n.path = <<>> /\ Mappings(p)[k] = Mapping(p, n)
<1> DEFINE c == Cardinality(Mapped(p))
<1>1. PICK L : /\ L \in [1..c -> Mapped(p)]
               /\ Mappings(p) = [i \in 1..c |-> Mapping(p, L[i])]
  BY NodesAreListed
<1>2. k \in 1..c /\ Mappings(p)[k] = Mapping(p, L[k]) /\ L[k] \in p.tree
  BY <1>1 DEF Mapped
<1> HIDE DEF c
<1>3. CASE L[k].path # <<>>
  <2>1. Mappings(p)[k].path = L[k].path
    BY <1>2, <1>3 DEF Mapping, Orphan
  <2>2. PICK m \in p.tree : m.path = q
    BY <1>2, <2>1 DEF IsProject
  <2>3. ~Orphan(m)
    BY <2>2 DEF Orphan
  <2> QED
    BY <2>2, <2>3 DEF NodeClasses
<1> QED
  BY <1>2, <1>3

(* What the project declares is declared once.                             *)
LEMMA DeclaredOnce ==
  ASSUME NEW p, IsProject(p), NEW k \in DOMAIN Mappings(p), NEW l \in DOMAIN Mappings(p),
         NEW i \in DeclaredInstances(p, Mappings(p)[k], k), NEW j \in DeclaredInstances(p, Mappings(p)[l], l),
         i.path = j.path
  PROVE  i = j
<1> DEFINE classes == NodeClasses(p)
<1> DEFINE Made(q, m) ==
      [id |-> DeclaredId(q), parent |-> DeclaredId(Front(q)), rank |-> 0, path |-> q, source |-> None,
       class |-> IF q \in DOMAIN classes THEN classes[q] ELSE m.class]
<1>1. PICK q \in Prefixes(Mappings(p)[k].path) \ {<<>>} : i = Made(q, Mappings(p)[k])
  BY DEF DeclaredInstances
<1>2. PICK r \in Prefixes(Mappings(p)[l].path) \ {<<>>} : j = Made(r, Mappings(p)[l])
  BY DEF DeclaredInstances
<1>3. q = r
  BY <1>1, <1>2
<1>4. CASE q \in DOMAIN classes
  BY <1>1, <1>2, <1>3, <1>4
<1>5. CASE q \notin DOMAIN classes
  <2>1. PICK n \in p.tree : n.path = <<>> /\ Mappings(p)[k] = Mapping(p, n)
    BY <1>5, UnnamedIsRoot
  <2>2. PICK o \in p.tree : o.path = <<>> /\ Mappings(p)[l] = Mapping(p, o)
    BY <1>3, <1>5, UnnamedIsRoot
  <2>3. n = o
    BY <2>1, <2>2 DEF IsProject
  <2> QED
    BY <1>1, <1>2, <1>3, <2>1, <2>2, <2>3
<1> QED
  BY <1>4, <1>5

(* Every instance of a place that was built is of one of four kinds.       *)
LEMMA BuiltInstances ==
  ASSUME NEW p, IsProject(p), NEW tree, IsTree(tree), NEW i \in BuildPlace(p, tree)
  PROVE  /\ IsInstance(i) /\ i.rank \in Nat /\ i.path \in Seq(Pieces)
         /\ i.rank = 0 => /\ i.id = DeclaredId(i.path)
                          /\ \E k \in DOMAIN Mappings(p) : i \in DeclaredInstances(p, Mappings(p)[k], k)
         /\ i.rank > 0 => /\ i.id \in Seq(Names) /\ i.rank \in DOMAIN Mappings(p)
                          /\ \/ FromDir(p, tree, i.rank, i) \/ FromFile(p, tree, i.rank, i)
                             \/ FromMapping(p, tree, i.rank, i)
<1>1. PICK k \in DOMAIN Mappings(p) :
        \/ i \in DeclaredInstances(p, Mappings(p)[k], k)
        \/ FromDir(p, tree, k, i) \/ FromFile(p, tree, k, i)
        \/ FromMapping(p, tree, k, i)
  BY BuildPlaceIs
<1>2. k \in Nat /\ k # 0
  BY MappingFacts
<1>3. CASE i \in DeclaredInstances(p, Mappings(p)[k], k)
  BY <1>3, DeclaredFacts
<1>4. CASE FromDir(p, tree, k, i)
  BY <1>2, <1>4, DirInstanceFacts
<1>5. CASE FromFile(p, tree, k, i)
  BY <1>2, <1>5, FileInstanceFacts
<1>6. CASE FromMapping(p, tree, k, i)
  BY <1>2, <1>6, MappedFileFacts
<1> QED
  BY <1>1, <1>3, <1>4, <1>5, <1>6

(* One mapping makes one instance of a path.                               *)
LEMMA BuiltIdsDiffer ==
  ASSUME NEW p, IsProject(p), NEW tree, IsTree(tree), NEW i \in BuildPlace(p, tree), NEW j \in BuildPlace(p, tree),
         i.rank = j.rank, i.id = j.id
  PROVE  i = j
<1> DEFINE k == i.rank
<1>0. CASE i.rank = 0
  <2>1. PICK l \in DOMAIN Mappings(p) : i \in DeclaredInstances(p, Mappings(p)[l], l)
    BY <1>0, BuiltInstances
  <2>2. PICK n \in DOMAIN Mappings(p) : j \in DeclaredInstances(p, Mappings(p)[n], n)
    BY <1>0, BuiltInstances
  <2>3. DeclaredId(i.path) = DeclaredId(j.path) /\ i.path \in Seq(Pieces) /\ j.path \in Seq(Pieces)
    BY <1>0, BuiltInstances
  <2>4. i.path = j.path
    BY <2>3, DeclaredIdFacts
  <2> QED
    BY <2>1, <2>2, <2>4, DeclaredOnce
<1> SUFFICES ASSUME i.rank > 0 PROVE i = j
  BY <1>0, BuiltInstances
<1>1. /\ k \in DOMAIN Mappings(p)
      /\ FromDir(p, tree, k, i) \/ FromFile(p, tree, k, i) \/ FromMapping(p, tree, k, i)
      /\ FromDir(p, tree, k, j) \/ FromFile(p, tree, k, j) \/ FromMapping(p, tree, k, j)
  BY BuiltInstances
<1>2. CASE FromDir(p, tree, k, i)
  <2>1. i.id \notin DOMAIN tree /\ i = DirInstance(p, Mappings(p)[k], k, tree, i.id)
    BY <1>1, <1>2, DirInstanceFacts
  <2>2. FromDir(p, tree, k, j)
    BY <1>1, <2>1, FileInstanceFacts, MappedFileFacts
  <2>3. j = DirInstance(p, Mappings(p)[k], k, tree, j.id)
    BY <1>1, <2>2, DirInstanceFacts
  <2> QED
    BY <2>1, <2>3
<1>3. CASE FromFile(p, tree, k, i)
  <2>1. i.id \in DOMAIN tree /\ i = FileInstance(Mappings(p)[k], k, tree, i.id)
    BY <1>1, <1>3, FileInstanceFacts
  <2>2. FromFile(p, tree, k, j)
    <3>1. ~FromDir(p, tree, k, j)
      BY <1>1, <2>1, DirInstanceFacts
    <3>2. ~FromMapping(p, tree, k, j)
      BY <1>3 DEF FromFile, FromMapping
    <3> QED
      BY <1>1, <3>1, <3>2
  <2>3. j = FileInstance(Mappings(p)[k], k, tree, j.id)
    BY <1>1, <2>2, FileInstanceFacts
  <2> QED
    BY <2>1, <2>3
<1>4. CASE FromMapping(p, tree, k, i)
  <2>1. FromMapping(p, tree, k, j)
    BY <1>1, <1>4 DEF FromMapping, FromDir, FromFile
  <2> QED
    BY <1>4, <2>1 DEF FromMapping, PopulateFile
<1> QED
  BY <1>1, <1>2, <1>3, <1>4

LEMMA BuiltPlacesAreOK ==
  ASSUME NEW p, IsProject(p), NEW tree, IsTree(tree)
  PROVE  PlaceOK(BuildPlace(p, tree))
<1> DEFINE place == BuildPlace(p, tree)
<1>1. IsFiniteSet(place)
  BY BuildPlaceIsFinite
<1>2. ASSUME NEW i \in place
      PROVE  /\ IsInstance(i) /\ i.rank \in Nat /\ i.path \in Seq(Pieces) /\ i.id \in Paths
             /\ i.rank > 0 => i.id \in Seq(Names)
  BY BuiltInstances, NamesAreSpelled, DeclaredIdFacts
<1>3. ASSUME NEW i \in place, NEW j \in place, i.rank = j.rank, i.id = j.id
      PROVE  i = j
  BY <1>3, BuiltIdsDiffer
<1> HIDE DEF place
<1>4. PlaceOK(place)
  BY <1>1, <1>2, <1>3 DEF PlaceOK
<1> QED
  BY <1>4 DEF place

---------------------------------------------------------------------------
(* What syncback writes, in order.                                         *)
Lists(p, place, L, n) ==
  /\ n \in Nat /\ L \in [1..n -> Written(p, place)]
  /\ SyncbackWrites(p, place) =
       [k \in 1..n |-> [path |-> SyncbackPath(p, place, L[k]), source |-> SavedSource(L[k])]]
  /\ \A i \in Written(p, place) : \E k \in 1..n : L[k] = i
  /\ \A a, b \in 1..n : a < b => DomBefore(L[a], L[b])

LEMMA WrittenFacts ==
  ASSUME NEW p, NEW place, PlaceOK(place), NEW i \in Written(p, place)
  PROVE  /\ i \in place /\ IsScript(i) /\ HasSource(place, i) /\ SavedSource(i) # None
         /\ i.rank \in Nat /\ i.id \in Paths
         /\ i.path \in Seq(Pieces) /\ SyncbackPath(p, place, i) # None
<1>1. i \in place /\ IsScript(i) /\ HasSource(place, i) /\ SyncbackPath(p, place, i) # None
  BY DEF Written
<1>2. SavedSource(i) # None
  BY RoundTripAssumption DEF SavedSource
<1> QED
  BY <1>1, <1>2 DEF PlaceOK

LEMMA WrittenAreOrdered ==
  ASSUME NEW p, NEW place, PlaceOK(place)
  PROVE  StrictOrder({q \in Written(p, place) \X Written(p, place) : DomBefore(q[1], q[2])}, Written(p, place))
<1> DEFINE W == Written(p, place)
<1> DEFINE R == {q \in W \X W : DomBefore(q[1], q[2])}
<1>1. \A i \in W : i.rank \in Nat /\ i.id \in Paths
  BY WrittenFacts
<1>2. \A i, j \in W : i.rank = j.rank /\ i.id = j.id => i = j
  BY WrittenFacts DEF PlaceOK
<1> HIDE DEF W
<1>3. \A i, j \in W : <<i, j>> \in R <=> i.rank < j.rank \/ (i.rank = j.rank /\ <<i.id, j.id>> \in PathOrder)
  BY <1>1 DEF DomBefore, PathOrder
<1>4. StrictOrder(PathOrder, Paths)
  BY PathsAreOrdered
<1> HIDE DEF R
<1>5. ASSUME NEW i \in W PROVE <<i, i>> \notin R
  <2>1. i.rank \in Nat /\ <<i.id, i.id>> \notin PathOrder
    BY <1>1, <1>4 DEF StrictOrder
  <2>2. ~(i.rank < i.rank)
    BY <2>1
  <2> QED
    BY <1>3, <2>1, <2>2
<1>6. ASSUME NEW a \in W, NEW b \in W, NEW c \in W, <<a, b>> \in R, <<b, c>> \in R PROVE <<a, c>> \in R
  <2>1. CASE a.rank = b.rank /\ b.rank = c.rank
    <3>1. <<a.id, b.id>> \in PathOrder /\ <<b.id, c.id>> \in PathOrder
      BY <1>1, <1>3, <1>6, <2>1
    <3>2. <<a.id, c.id>> \in PathOrder
      BY <1>1, <1>4, <3>1 DEF StrictOrder
    <3> QED
      BY <1>3, <2>1, <3>2
  <2>2. CASE ~(a.rank = b.rank /\ b.rank = c.rank)
    <3>1. a.rank \in Nat /\ b.rank \in Nat /\ c.rank \in Nat
      BY <1>1
    <3>2. (a.rank < b.rank \/ a.rank = b.rank) /\ (b.rank < c.rank \/ b.rank = c.rank)
      BY <1>3, <1>6
    <3>3. a.rank < c.rank
      BY <2>2, <3>1, <3>2
    <3> QED
      BY <1>3, <3>3
  <2> QED
    BY <2>1, <2>2
<1>7. ASSUME NEW a \in W, NEW b \in W, a # b PROVE <<a, b>> \in R \/ <<b, a>> \in R
  <2>1. CASE a.rank = b.rank
    <3>1. a.id # b.id
      BY <1>2, <1>7, <2>1
    <3>2. <<a.id, b.id>> \in PathOrder \/ <<b.id, a.id>> \in PathOrder
      BY <1>1, <1>4, <3>1 DEF StrictOrder
    <3> QED
      BY <1>3, <2>1, <3>2
  <2>2. CASE a.rank # b.rank
    <3>1. a.rank \in Nat /\ b.rank \in Nat
      BY <1>1
    <3>2. a.rank < b.rank \/ b.rank < a.rank
      BY <2>2, <3>1
    <3> QED
      BY <1>3, <3>2
  <2> QED
    BY <2>1, <2>2
<1>8. StrictOrder(R, W)
  BY <1>5, <1>6, <1>7 DEF StrictOrder
<1> QED
  BY <1>8 DEF R, W

LEMMA WritesAreListed ==
  ASSUME NEW p, NEW place, PlaceOK(place)
  PROVE  \E L : Lists(p, place, L, Cardinality(Written(p, place)))
<1> DEFINE S == Written(p, place)
<1> DEFINE at(k) == CHOOSE x \in S : Cardinality({y \in S : DomBefore(y, x)}) = k - 1
<1> DEFINE L == [k \in 1 .. Cardinality(S) |-> at(k)]
<1> DEFINE R == {q \in S \X S : DomBefore(q[1], q[2])}
<1>1. SyncbackWrites(p, place) = [k \in DOMAIN L |-> [path |-> SyncbackPath(p, place, L[k]), source |-> SavedSource(L[k])]]
  BY DEF SyncbackWrites, InDomOrder, InOrder
<1>2. IsFiniteSet(S)
  BY FS_Subset DEF PlaceOK, Written
<1>3. StrictOrder(R, S)
  BY WrittenAreOrdered
<1> HIDE DEF S
<1>6. ASSUME NEW x \in S PROVE {y \in S : DomBefore(y, x)} = Lower(R, S, x)
  BY DEF Lower
<1>7. Listing(L, S, R)
  <2>1. ASSUME NEW k \in 1..Cardinality(S), NEW x \in S, Cardinality(Lower(R, S, x)) = k - 1
        PROVE  L[k] \in S /\ Cardinality(Lower(R, S, L[k])) = k - 1
    <3> HIDE DEF R
    <3>1. Cardinality({y \in S : DomBefore(y, x)}) = k - 1
      BY <1>6, <2>1
    <3>2. L[k] \in S /\ Cardinality({y \in S : DomBefore(y, L[k])}) = k - 1
      BY <3>1
    <3> QED
      BY <1>6, <3>2
  <2>2. L = [k \in 1..Cardinality(S) |-> L[k]]
    <3> HIDE DEF at
    <3> QED
      OBVIOUS
  <2> HIDE DEF L, R, at
  <2> QED
    BY <1>2, <1>3, <2>1, <2>2, OrderIsListing
<1> HIDE DEF L, at
<1>8. /\ L \in [1..Cardinality(S) -> S] /\ Cardinality(S) \in Nat
      /\ \A x \in S : \E k \in 1..Cardinality(S) : L[k] = x
      /\ \A a, b \in 1..Cardinality(S) : a < b => DomBefore(L[a], L[b])
  <2>1. /\ L \in [1..Cardinality(S) -> S] /\ Cardinality(S) \in Nat
        /\ \A x \in S : \E k \in 1..Cardinality(S) : L[k] = x
        /\ \A a, b \in 1..Cardinality(S) : a < b => <<L[a], L[b]>> \in R
    BY <1>7 DEF Listing
  <2>2. \A q \in R : DomBefore(q[1], q[2])
    OBVIOUS
  <2> HIDE DEF R
  <2> QED
    BY <2>1, <2>2
<1>9. SyncbackWrites(p, place) =
        [k \in 1..Cardinality(S) |-> [path |-> SyncbackPath(p, place, L[k]), source |-> SavedSource(L[k])]]
  BY <1>1, <1>8
<1> QED
  BY <1>8, <1>9 DEF S, Lists

---------------------------------------------------------------------------
(* Studio keeps a place a place.                                           *)
LEMMA AddedName ==
  ASSUME NEW a \in Paths, NEW name \in Seq(Pieces)
  PROVE  AddedId(a, name) \in Paths /\ AddedId(a, name) \notin Seq(Names)
<1> DEFINE x == <<"~">> \o name
<1>1. name \in Seq(Range(Spelling)) /\ "~" \in Range(Spelling)
  BY NamesAreSpelled, RoundTripAssumption
<1>2. x \in Seq(Range(Spelling)) /\ x[1] = "~" /\ Len(x) \in Nat /\ 1 <= Len(x)
  BY <1>1
<1> HIDE DEF x
<1>3. x \notin Names
  <2>1. ASSUME x \in Names PROVE FALSE
    <3>1. x \in Seq(Pieces)
      BY <2>1 DEF Names
    <3>2. x[1] \in Pieces
      BY <1>2, <3>1
    <3> QED
      BY <1>2, <3>2 DEF Pieces
  <2> QED
    BY <2>1
<1>4. Append(a, x) \in Paths
  BY <1>2 DEF Paths
<1>5. ASSUME Append(a, x) \in Seq(Names) PROVE FALSE
  <2>1. Len(Append(a, x)) = Len(a) + 1 /\ Append(a, x)[Len(a) + 1] = x /\ Len(a) \in Nat
    BY <1>2 DEF Paths
  <2>2. Append(a, x)[Len(a) + 1] \in Names
    <3> DEFINE t == Append(a, x)
    <3>1. t \in Seq(Names) /\ Len(t) = Len(a) + 1 /\ Len(a) \in Nat
      BY <1>5, <2>1
    <3> HIDE DEF t
    <3>2. t[Len(a) + 1] \in Names
      BY <3>1
    <3> QED
      BY <3>2 DEF t
  <2> QED
    BY <1>3, <2>1, <2>2
<1> QED
  BY <1>4, <1>5 DEF x, AddedId

LEMMA AddedNamesDiffer ==
  ASSUME NEW a \in Paths, NEW b \in Paths, NEW s \in Seq(Pieces), NEW t \in Seq(Pieces),
         AddedId(a, s) = AddedId(b, t)
  PROVE  a = b /\ s = t
<1> DEFINE x == <<"~">> \o s
<1> DEFINE y == <<"~">> \o t
<1>1. s \in Seq(Range(Spelling)) /\ t \in Seq(Range(Spelling)) /\ "~" \in Range(Spelling)
  BY NamesAreSpelled, RoundTripAssumption
<1>2. /\ x \in Seq(Range(Spelling)) /\ Len(x) = Len(s) + 1 /\ \A i \in 1..Len(s) : x[i + 1] = s[i]
      /\ y \in Seq(Range(Spelling)) /\ Len(y) = Len(t) + 1 /\ \A i \in 1..Len(t) : y[i + 1] = t[i]
  BY <1>1
<1>3. Append(a, x) = Append(b, y)
  BY DEF AddedId
<1> HIDE DEF x, y
<1>4. a = b /\ x = y
  BY <1>2, <1>3, AppendInjective DEF Paths
<1>5. Len(s) = Len(t) /\ \A i \in 1..Len(s) : s[i] = t[i]
  BY <1>2, <1>4
<1> QED
  BY <1>4, <1>5, SeqEqual

---------------------------------------------------------------------------
(* Where syncback writes a script.                                         *)
Singles(s) == [x \in 1..Len(s) |-> <<s[x]>>]
Rest(m, path) == SubSeq(path, Len(m.path) + 1, Len(path))

LEMMA SinglesFacts ==
  ASSUME NEW s \in Seq(Pieces)
  PROVE  /\ Singles(s) \in Seq(Names) /\ Len(Singles(s)) = Len(s) /\ FlattenSeq(Singles(s)) = s
         /\ s # <<>> => Front(Singles(s)) = Singles(Front(s))
<1>1. Singles(s) \in Seq(Names) /\ Len(Singles(s)) = Len(s) /\ Len(s) \in Nat
  BY DEF Singles, Names
<1>2. FlattenSeq(Singles(s)) = s
  BY FlattenSingles DEF Singles
<1>3. ASSUME s # <<>> PROVE Front(Singles(s)) = Singles(Front(s))
  <2>1. /\ Front(s) \in Seq(Pieces) /\ Len(Front(s)) = Len(s) - 1
        /\ \A x \in 1..Len(s) - 1 : Front(s)[x] = s[x]
    BY <1>3, FrontAndLast
  <2>2. Len(s) # 0
    BY <1>3
  <2>3. Singles(s) # <<>>
    BY <1>1, <2>2
  <2>4. /\ Front(Singles(s)) \in Seq(Names) /\ Len(Front(Singles(s))) = Len(s) - 1
        /\ \A x \in 1..Len(s) - 1 : Front(Singles(s))[x] = Singles(s)[x]
    BY <1>1, <2>3, FrontAndLast
  <2>5. Singles(Front(s)) \in Seq(Names) /\ Len(Singles(Front(s))) = Len(s) - 1
    BY <2>1 DEF Singles, Names
  <2>6. \A x \in 1..Len(s) - 1 : Singles(s)[x] = Singles(Front(s))[x]
    BY <1>1, <2>1 DEF Singles
  <2> QED
    BY <2>4, <2>5, <2>6, SeqEqual
<1> QED
  BY <1>1, <1>2, <1>3

LEMMA ScriptKinds ==
  ASSUME NEW class
  PROVE  /\ ScriptKind(class) \in {"server.luau", "client.luau", "luau"}
         /\ ScriptKind(class) \in Pieces /\ ScriptKind(class) \in LuauKinds /\ ScriptKind(class) # "meta.json"
         /\ ScriptKind(class) \notin {"rbxm", "rbxmx", "txt", "csv", "model.json", "md"}
         /\ class \in ScriptClasses => \A x : ResolveInstanceClass(<<x, ScriptKind(class)>>) = class
<1>1. ScriptKind(class) \in {"server.luau", "client.luau", "luau"}
  BY DEF ScriptKind
<1>2. \A x, y : Kind(<<x, y>>) = y
  BY DEF Kind, Last
<1>3. class \in ScriptClasses => \A x : ResolveInstanceClass(<<x, ScriptKind(class)>>) = class
  BY <1>2 DEF ScriptKind, ResolveInstanceClass, ScriptClasses
<1> QED
  BY <1>1, <1>3, RoundTripAssumption DEF LuauKinds

LEMMA ContainingFacts ==
  ASSUME NEW p, IsProject(p), NEW path \in Seq(Pieces), Containing(p, path) # {}
  PROVE  \E k \in DOMAIN Mappings(p) :
            /\ Longest(Containing(p, path)) = Mappings(p)[k] /\ IsPrefix(Mappings(p)[k].path, path)
<1> DEFINE S == Containing(p, path)
<1>1. \A m \in S : /\ \E k \in DOMAIN Mappings(p) : m = Mappings(p)[k]
                   /\ IsPrefix(m.path, path)
  BY DEF Containing, Range
<1>2. \A m \in S : m.path \in Seq(Pieces) /\ Len(m.path) \in Nat
  BY <1>1, MappingFacts
<1> DEFINE T == {Len(m.path) : m \in S}
<1>3. T \subseteq 0..Len(path) /\ T # {} /\ Len(path) \in Nat
  <2>1. S # {} /\ Len(path) \in Nat
    OBVIOUS
  <2> HIDE DEF S
  <2>2. ASSUME NEW m \in S PROVE Len(m.path) \in 0..Len(path)
    <3>1. Len(m.path) <= Len(path) /\ Len(m.path) \in Nat
      BY <1>1, <1>2, PrefixIs
    <3> QED
      BY <2>1, <3>1
  <2> QED
    BY <2>1, <2>2
<1> HIDE DEF S
<1>4. PICK n \in T : \A k \in T : k <= n
  <2> HIDE DEF T
  <2> QED
    BY <1>3, GreatestNumber
<1>5. PICK m \in S : n = Len(m.path)
  BY <1>4
<1>6. ASSUME NEW o \in S PROVE IsPrefix(o.path, m.path)
  <2>1. Len(o.path) <= Len(m.path)
    BY <1>4, <1>5, <1>6
  <2>2. /\ m.path \in Seq(Pieces) /\ Len(m.path) <= Len(path) /\ \A x \in 1..Len(m.path) : m.path[x] = path[x]
        /\ o.path \in Seq(Pieces) /\ Len(o.path) <= Len(path) /\ \A x \in 1..Len(o.path) : o.path[x] = path[x]
    BY <1>1, <1>2, <1>5, <1>6, PrefixIs
  <2>3. Len(o.path) \in Nat /\ Len(m.path) \in Nat
    BY <1>2
  <2>4. \A x \in 1..Len(o.path) : o.path[x] = m.path[x]
    BY <2>1, <2>2, <2>3
  <2> QED
    BY <2>1, <2>2, <2>4, PrefixIs
<1>7. Longest(S) \in S
  <2>1. \E m1 \in S : \A n1 \in S : IsPrefix(n1.path, m1.path)
    BY <1>5, <1>6
  <2> QED
    BY <2>1 DEF Longest
<1> QED
  BY <1>1, <1>7 DEF S

(* The three forms a file syncback writes may have.                        *)
WritesTo(m, i, f) ==
  \/ i.path = m.path /\ f = InitOf(m.fs, i)
  \/ Rest(m, i.path) # <<>> /\ f = InitOf(m.fs \o Singles(Rest(m, i.path)), i)
  \/ /\ Rest(m, i.path) # <<>>
     /\ f = (m.fs \o Singles(Front(Rest(m, i.path)))) \o <<<<Last(Rest(m, i.path)), ScriptKind(i.class)>>>>

LEMMA SyncbackPathIs ==
  ASSUME NEW p, IsProject(p), NEW place, PlaceOK(place), NEW i \in Written(p, place)
  PROVE  \E k \in DOMAIN Mappings(p) :
            /\ IsPrefix(Mappings(p)[k].path, i.path)
            /\ Mappings(p)[k].fs \in Seq(Names) /\ Mappings(p)[k].path \in Seq(Pieces)
            /\ Rest(Mappings(p)[k], i.path) \in Seq(Pieces)
            /\ i.path = Mappings(p)[k].path \o Rest(Mappings(p)[k], i.path)
            /\ WritesTo(Mappings(p)[k], i, SyncbackPath(p, place, i))
<1>1. i.path \in Seq(Pieces) /\ SyncbackPath(p, place, i) # None
  BY WrittenFacts
<1>2. Containing(p, i.path) # {}
  BY <1>1 DEF SyncbackPath
<1>3. PICK k \in DOMAIN Mappings(p) :
        Longest(Containing(p, i.path)) = Mappings(p)[k] /\ IsPrefix(Mappings(p)[k].path, i.path)
  BY <1>1, <1>2, ContainingFacts
<1> DEFINE m == Mappings(p)[k]
<1>4. m.fs \in Seq(Names) /\ m.path \in Seq(Pieces)
  BY MappingFacts
<1> DEFINE s == Rest(m, i.path)
<1> DEFINE names == [x \in DOMAIN s |-> <<s[x]>>]
<1>5. SyncbackPath(p, place, i) =
        CASE s = <<>> -> InitOf(m.fs, i)
          [] Len(s) = 1 /\ HasChildren(place, i) -> InitOf(m.fs \o names, i)
          [] OTHER -> (m.fs \o Front(names)) \o <<<<Last(s), ScriptKind(i.class)>>>>
  BY <1>2, <1>3 DEF SyncbackPath, Rest
<1> HIDE DEF m
<1>6. s \in Seq(Pieces) /\ i.path = m.path \o s /\ IsPrefix(m.path, i.path)
  BY <1>1, <1>3, <1>4, PrefixAndRest DEF Rest, m
<1> HIDE DEF s
<1>7. names = Singles(s) /\ (s # <<>> => Front(names) = Singles(Front(s)))
  <2>1. names = Singles(s)
    BY <1>6 DEF Singles
  <2> QED
    BY <1>6, <2>1, SinglesFacts
<1>8. s = <<>> => i.path = m.path
  BY <1>4, <1>6
<1> HIDE DEF names
<1>9. \/ s = <<>> /\ SyncbackPath(p, place, i) = InitOf(m.fs, i)
      \/ s # <<>> /\ SyncbackPath(p, place, i) = InitOf(m.fs \o names, i)
      \/ s # <<>> /\ SyncbackPath(p, place, i) = (m.fs \o Front(names)) \o <<<<Last(s), ScriptKind(i.class)>>>>
  <2>1. CASE s = <<>>
    BY <1>5, <2>1
  <2>2. CASE s # <<>> /\ Len(s) = 1 /\ HasChildren(place, i)
    BY <1>5, <2>2
  <2>3. CASE s # <<>> /\ ~(Len(s) = 1 /\ HasChildren(place, i))
    BY <1>5, <2>3
  <2> QED
    BY <2>1, <2>2, <2>3
<1>10. WritesTo(m, i, SyncbackPath(p, place, i))
  <2> DEFINE f == SyncbackPath(p, place, i)
  <2>1. \/ i.path = m.path /\ f = InitOf(m.fs, i)
        \/ s # <<>> /\ f = InitOf(m.fs \o Singles(s), i)
        \/ s # <<>> /\ f = (m.fs \o Singles(Front(s))) \o <<<<Last(s), ScriptKind(i.class)>>>>
    BY <1>7, <1>8, <1>9
  <2> HIDE DEF f
  <2>2. WritesTo(m, i, f)
    BY <2>1 DEF WritesTo, s
  <2> QED
    BY <2>2 DEF f
<1> QED
  BY <1>4, <1>6, <1>10 DEF m, s

(* It is a file, of the kind of the script's class.                        *)
LEMMA WritesToFile ==
  ASSUME NEW m, m.fs \in Seq(Names), m.path \in Seq(Pieces), NEW i, i.path \in Seq(Pieces),
         Rest(m, i.path) \in Seq(Pieces), NEW f, WritesTo(m, i, f)
  PROVE  /\ f \in Seq(Names) /\ f # <<>> /\ IsFile(f) /\ IsStrictPrefix(m.fs, f)
         /\ \E x \in Pieces : Last(f) = <<x, ScriptKind(i.class)>>
<1> DEFINE s == Rest(m, i.path)
<1>1. PICK d \in Seq(Names), x \in Pieces : IsPrefix(m.fs, d) /\ f = d \o <<<<x, ScriptKind(i.class)>>>>
  <2>0. "init" \in Pieces
    BY RoundTripAssumption
  <2>1. CASE f = InitOf(m.fs, i)
    <3>1. IsPrefix(m.fs, m.fs)
      BY PrefixIs
    <3> QED
      BY <2>0, <2>1, <3>1 DEF InitOf
  <2>2. CASE s # <<>> /\ f = InitOf(m.fs \o Singles(s), i)
    <3>1. m.fs \o Singles(s) \in Seq(Names) /\ IsPrefix(m.fs, m.fs \o Singles(s))
      BY SinglesFacts, RestOfJoin
    <3> QED
      BY <2>0, <2>2, <3>1 DEF InitOf
  <2>3. CASE s # <<>> /\ f = (m.fs \o Singles(Front(s))) \o <<<<Last(s), ScriptKind(i.class)>>>>
    <3>1. Front(s) \in Seq(Pieces) /\ Last(s) \in Pieces
      BY <2>3, FrontAndLast
    <3>2. m.fs \o Singles(Front(s)) \in Seq(Names) /\ IsPrefix(m.fs, m.fs \o Singles(Front(s)))
      BY <3>1, SinglesFacts, RestOfJoin
    <3> QED
      BY <2>3, <3>1, <3>2
  <2> QED
    BY <2>1, <2>2, <2>3 DEF WritesTo
<1> DEFINE n == <<x, ScriptKind(i.class)>>
<1>2. n \in Names /\ Len(n) = 2
  BY ScriptKinds DEF Names
<1> HIDE DEF n
<1>3. f = d \o <<n>> /\ Len(d) \in Nat
  BY <1>1 DEF n
<1>4. f \in Seq(Names) /\ f # <<>> /\ Last(f) = n /\ Len(f) = Len(d) + 1 /\ Front(f) = d
  BY <1>2, <1>3, FrontOfJoin
<1>5. IsStrictPrefix(m.fs, f)
  <2>1. Len(m.fs) \in Nat /\ Len(m.fs) <= Len(d) /\ \A y \in 1..Len(m.fs) : m.fs[y] = d[y]
    BY <1>1, PrefixIs
  <2>2. \A y \in 1..Len(d) : f[y] = d[y]
    BY <1>2, <1>3
  <2>3. Len(m.fs) <= Len(f) /\ Len(m.fs) # Len(f) /\ \A y \in 1..Len(m.fs) : m.fs[y] = f[y]
    BY <1>3, <1>4, <2>1, <2>2
  <2>4. m.fs # f
    BY <2>3
  <2> QED
    BY <1>4, <2>3, <2>4, PrefixIs DEF IsStrictPrefix
<1>6. IsFile(f)
  <2>0. Len(n) > 1
    BY <1>2
  <2>1. Len(Last(f)) > 1
    <3>1. Last(f) = n
      BY <1>4
    <3> QED
      BY ONLY <2>0, <3>1
  <2> QED
    BY <1>4, <2>1 DEF IsFile
<1> QED
  BY <1>4, <1>5, <1>6 DEF n

---------------------------------------------------------------------------
(* What build makes of one script file.                                    *)
NotIgnored(p, f) == \A prefix \in Prefixes(f) : prefix \notin p.ignored

LEMMA FileIsBuildable ==
  ASSUME NEW p, NEW m, m.fs \in Seq(Names), NEW tree, IsTree(tree), NEW f \in DOMAIN tree,
         IsStrictPrefix(m.fs, f), NotIgnored(p, f), Kind(Last(f)) # "meta.json"
  PROVE  f \in Buildable(p, m, tree) /\ m.fs \notin DOMAIN tree
<1>1. f \in Seq(Names) /\ Len(f) \in Nat /\ Len(m.fs) \in Nat
  BY DEF IsTree, IsFile
<1>2. \A k \in Len(m.fs) + 1 .. Len(f) : SubSeq(f, 1, k) \in Prefixes(f)
  BY <1>1 DEF Prefixes
<1>3. Shown(p, m, f)
  BY <1>2 DEF Shown, NotIgnored
<1> QED
  BY <1>3 DEF Buildable, Below, IsTree

LEMMA FirstInitIsFirst ==
  ASSUME NEW S, S \subseteq 1..6, S # {}
  PROVE  FirstInit(S) \in S /\ \A j \in S : FirstInit(S) <= j
<1>1. S \subseteq Nat
  OBVIOUS
<1>2. \E n \in S : \A k \in S : n <= k
  BY <1>1, LeastNumber
<1> QED
  BY <1>2 DEF FirstInit

LEMMA InitKindFacts ==
  /\ DOMAIN InitKinds = 1..6
  /\ InitKinds[1] = "server.luau" /\ InitKinds[2] = "server.lua" /\ InitKinds[3] = "client.luau"
  /\ InitKinds[4] = "client.lua" /\ InitKinds[5] = "luau" /\ InitKinds[6] = "lua"
  BY DEF InitKinds

LEMMA InitsAreIndices ==
  ASSUME NEW S, NEW d
  PROVE  InitsOf(S, d) \subseteq 1..6
  BY InitKindFacts DEF InitsOf

(* The class and source a directory has of its init files.                 *)
LEMMA DirectoryIsScript ==
  ASSUME NEW p, NEW tree, IsTree(tree), NEW d \in Seq(Names), NEW class, NEW m, NEW k,
         InitOf(d, [class |-> class]) \in DOMAIN tree, NotIgnored(p, InitOf(d, [class |-> class]))
  PROVE  LET f == InitOf(d, [class |-> class])
             i == DirInstance(p, m, k, tree, d)
         IN  /\ i.class \in ScriptClasses
             /\ f = InitFile(d, FirstInit(InitsOf(DOMAIN tree, d))) => i.source = tree[f]
             /\ f = InitFile(d, FirstInit(InitsOf(DOMAIN tree, d))) /\ class \in ScriptClasses => i.class = class
             /\ class = i.class => f = InitFile(d, FirstInit(InitsOf(DOMAIN tree, d)))
<1> DEFINE f == InitOf(d, [class |-> class])
<1> DEFINE i == DirInstance(p, m, k, tree, d)
<1> DEFINE inits == InitsOf(DOMAIN tree, d)
<1> DEFINE shown == {x \in inits : InitFile(d, x) \notin p.ignored}
<1> DEFINE first == FirstInit(inits)
<1>1. i.class = ResolveContainerClass(DOMAIN tree, d) /\ i.source = InitSource(p, tree, d)
  BY DEF DirInstance
<1>2. f = d \o <<<<"init", ScriptKind(class)>>>>
  BY DEF InitOf
<1>3. PICK c \in {1, 3, 5} : InitKinds[c] = ScriptKind(class)
  BY ScriptKinds, InitKindFacts
<1>4. f = InitFile(d, c)
  BY <1>2, <1>3 DEF InitFile
<1>5. c \in inits /\ inits \subseteq 1..6
  BY <1>3, <1>4, InitKindFacts, InitsAreIndices DEF InitsOf
<1>a. \A x \in inits : InitFile(d, x) \in DOMAIN tree
  BY DEF InitsOf
<1>b. ResolveContainerClass(DOMAIN tree, d) = ResolveInstanceClass(Last(InitFile(d, first)))
  BY <1>5 DEF ResolveContainerClass
<1>c. InitSource(p, tree, d) = IF shown = {} THEN None ELSE tree[InitFile(d, FirstInit(shown))]
  BY DEF InitSource
<1> HIDE DEF inits
<1>6. f \in Prefixes(f)
  <2>1. f \in Seq(Names)
    BY DEF IsTree, IsFile
  <2> HIDE DEF f
  <2>2. SubSeq(f, 1, Len(f)) = f /\ Len(f) \in 0..Len(f)
    BY <2>1
  <2> QED
    BY <2>2 DEF Prefixes
<1>7. c \in shown /\ shown \subseteq inits
  BY <1>4, <1>5, <1>6 DEF NotIgnored
<1>8. first \in inits /\ \A j \in inits : first <= j
  BY <1>5, FirstInitIsFirst
<1>9. FirstInit(shown) \in shown /\ \A j \in shown : FirstInit(shown) <= j
  <2>1. shown \subseteq 1..6 /\ shown # {}
    BY <1>5, <1>7
  <2> HIDE DEF shown
  <2> QED
    BY <2>1, FirstInitIsFirst
<1>10. Last(InitFile(d, first)) = <<"init", InitKinds[first]>>
  <2> DEFINE n == <<"init", InitKinds[first]>>
  <2>1. InitFile(d, first) = d \o <<n>>
    BY DEF InitFile
  <2>2. d \o <<n>> \in Seq(Names)
    BY <1>8, <1>a, <2>1 DEF IsTree, IsFile
  <2> HIDE DEF n
  <2>3. Last(d \o <<n>>) = n
    <3>1. Len(d \o <<n>>) = Len(d) + 1 /\ (d \o <<n>>)[Len(d) + 1] = n
      OBVIOUS
    <3> QED
      BY <3>1 DEF Last
  <2> QED
    BY <2>1, <2>3 DEF n
<1>d. \A x, y : Kind(<<x, y>>) = y
  BY DEF Kind, Last
<1> HIDE DEF shown, first, f, i
<1>11. i.class = ResolveInstanceClass(<<"init", InitKinds[first]>>) /\ first \in 1..6
  BY <1>1, <1>5, <1>8, <1>10, <1>b
<1>12. i.class \in ScriptClasses
  <2>1. first = 1 \/ first = 2 \/ first = 3 \/ first = 4 \/ first = 5 \/ first = 6
    BY <1>11
  <2>2. ResolveInstanceClass(<<"init", InitKinds[first]>>) \in ScriptClasses
    BY <2>1, <1>d, InitKindFacts DEF ResolveInstanceClass, ScriptClasses
  <2> QED
    BY <1>11, <2>2
<1>14. ASSUME f = InitFile(d, first) PROVE i.source = tree[f]
  <2>1. InitFile(d, first) \notin p.ignored
    BY <1>6, <1>14 DEF NotIgnored, f
  <2>2. first \in shown
    BY <1>8, <2>1 DEF shown
  <2>3. FirstInit(shown) <= first /\ first <= FirstInit(shown) /\ first \in 1..6 /\ FirstInit(shown) \in 1..6
    BY <1>5, <1>7, <1>8, <1>9, <2>2
  <2>4. FirstInit(shown) = first
    BY <2>3
  <2> QED
    BY <1>1, <1>7, <1>14, <1>c, <2>4
<1>15. ASSUME f = InitFile(d, first), class \in ScriptClasses PROVE i.class = class
  <2>1. Last(f) = <<"init", InitKinds[first]>>
    BY <1>10, <1>15
  <2>2. Last(InitFile(d, c)) = <<"init", InitKinds[first]>>
    BY <1>4, <2>1
  <2>3. Last(f) = <<"init", ScriptKind(class)>>
    <3> DEFINE n == <<"init", ScriptKind(class)>>
    <3>1. f = d \o <<n>>
      BY <1>2
    <3> HIDE DEF n
    <3>2. Len(d \o <<n>>) = Len(d) + 1 /\ (d \o <<n>>)[Len(d) + 1] = n
      OBVIOUS
    <3> QED
      BY <3>1, <3>2 DEF Last, n
  <2>4. ResolveInstanceClass(<<"init", ScriptKind(class)>>) = class
    BY <1>15, ScriptKinds
  <2> QED
    BY <1>11, <2>1, <2>3, <2>4
<1>16. ASSUME class = i.class PROVE f = InitFile(d, first)
  <2>1. class = ResolveInstanceClass(<<"init", InitKinds[first]>>)
    BY <1>11, <1>16
  <2>2. first <= c /\ c \in {1, 3, 5} /\ InitKinds[c] = ScriptKind(class)
    BY <1>3, <1>5, <1>8
  <2>3. CASE first \in {1, 2}
    <3>1. class = "Script"
      BY <1>d, <2>1, <2>3, InitKindFacts DEF ResolveInstanceClass
    <3>2. ScriptKind(class) = "server.luau"
      BY <3>1 DEF ScriptKind
    <3>3. c = 1
      BY <2>2, <3>2, InitKindFacts
    <3>4. first = c
      BY <2>2, <2>3, <3>3
    <3> QED
      BY <1>4, <3>4
  <2>4. CASE first \in {3, 4}
    <3>1. class = "LocalScript"
      BY <1>d, <2>1, <2>4, InitKindFacts DEF ResolveInstanceClass
    <3>2. ScriptKind(class) = "client.luau"
      BY <3>1 DEF ScriptKind
    <3>3. c = 3
      BY <2>2, <3>2, InitKindFacts
    <3>4. first = c
      BY <2>2, <2>4, <3>3
    <3> QED
      BY <1>4, <3>4
  <2>5. CASE first \in {5, 6}
    <3>1. c = 5
      BY <2>2, <2>5
    <3>2. first = c
      BY <2>2, <2>5, <3>1
    <3> QED
      BY <1>4, <3>2
  <2> QED
    BY <1>11, <2>3, <2>4, <2>5
<1> QED
  BY <1>12, <1>14, <1>15, <1>16 DEF f, i, first, inits

LEMMA InstancePathOfJoin ==
  ASSUME NEW m, m.fs \in Seq(Names), NEW r \in Seq(Names), NEW name
  PROVE  InstancePath(m, m.fs \o r, name) = (m.path \o FlattenSeq(r)) \o name
<1>1. SubSeq(m.fs \o r, Len(m.fs) + 1, Len(m.fs \o r)) = r
  BY RestOfJoin
<1> QED
  BY <1>1 DEF InstancePath

LEMMA PairFacts ==
  ASSUME NEW S, NEW a \in S, NEW b \in S
  PROVE  <<a>> \o <<b>> = <<a, b>> /\ Front(<<a, b>>) = <<a>>
<1>1. <<a>> \o <<b>> = <<a, b>>
  <2>1. <<a>> \in Seq(S) /\ <<b>> \in Seq(S) /\ Len(<<a>>) = 1 /\ Len(<<b>>) = 1
    OBVIOUS
  <2>2. Len(<<a>> \o <<b>>) = 2 /\ (<<a>> \o <<b>>)[1] = a /\ (<<a>> \o <<b>>)[2] = b
    BY <2>1
  <2>3. <<a>> \o <<b>> \in Seq(S) /\ <<a, b>> \in Seq(S)
    BY <2>1
  <2> DEFINE t == <<a>> \o <<b>>
  <2> DEFINE u == <<a, b>>
  <2>4. Len(t) = Len(u) /\ \A y \in 1..Len(t) : t[y] = u[y]
    BY <2>2
  <2> HIDE DEF t, u
  <2>5. t = u
    BY <2>3, <2>4, SeqEqual DEF t, u
  <2> QED
    BY <2>5 DEF t, u
<1>2. Front(<<a>> \o <<b>>) = <<a>>
  <2>1. <<a>> \in Seq(S)
    OBVIOUS
  <2> QED
    BY <2>1, FrontOfJoin
<1> QED
  BY <1>1, <1>2

LEMMA InitPiece == \A y : IsInit(<<"init", y>>) /\ \A x : x # "init" => ~IsInit(<<x, y>>)
  BY DEF IsInit

(* A script file below a mapping that build looks into has an instance.    *)
LEMMA ScriptFileIsBuilt ==
  ASSUME NEW p, IsProject(p), NEW tree, IsTree(tree), NEW k \in DOMAIN Mappings(p), NEW f \in DOMAIN tree,
         IsStrictPrefix(Mappings(p)[k].fs, f), NotIgnored(p, f),
         NEW x \in Pieces, x # "init", NEW class \in ScriptClasses, Last(f) = <<x, ScriptKind(class)>>
  PROVE  /\ FileInstance(Mappings(p)[k], k, tree, f) \in BuildPlace(p, tree)
         /\ FileInstance(Mappings(p)[k], k, tree, f) =
              [id |-> f, parent |-> ParentId(Mappings(p)[k], f), rank |-> k,
               path |-> InstancePath(Mappings(p)[k], Front(f), <<x>>), class |-> class, source |-> tree[f]]
<1> DEFINE m == Mappings(p)[k]
<1>1. m.fs \in Seq(Names) /\ m.path \in Seq(Pieces)
  BY MappingFacts
<1>2. Kind(Last(f)) = ScriptKind(class) /\ Stem(Last(f)) = <<x>> /\ ~IsInit(Last(f))
  <2>1. Kind(Last(f)) = ScriptKind(class)
    BY DEF Kind, Last
  <2> DEFINE kind == ScriptKind(class)
  <2>2. kind \in Pieces
    BY ScriptKinds
  <2> HIDE DEF kind
  <2>3. Front(<<x, kind>>) = <<x>>
    BY <2>2, PairFacts
  <2>5. Stem(Last(f)) = <<x>>
    BY <2>3 DEF Stem, kind
  <2> QED
    BY <2>1, <2>5, InitPiece
<1>3. f \in Buildable(p, m, tree) /\ m.fs \notin DOMAIN tree
  BY <1>1, <1>2, ScriptKinds, FileIsBuildable
<1>4. f \in FilesBuilt(p, m, tree)
  BY <1>2, <1>3, ScriptKinds DEF FilesBuilt
<1>5. FileInstance(m, k, tree, f) \in BuildPlace(p, tree)
  BY <1>3, <1>4, BuildPlaceIs DEF FromFile
<1>6. Content(f, tree) = [name |-> <<x>>, class |-> class, source |-> tree[f]]
  <2>1. Kind(Last(f)) \notin {"rbxm", "rbxmx", "txt", "csv", "model.json"}
    BY <1>2, ScriptKinds
  <2>2. ResolveInstanceClass(Last(f)) = class
    BY ScriptKinds
  <2> QED
    BY <1>2, <2>1, <2>2 DEF Content
<1>7. FileInstance(m, k, tree, f) =
        [id |-> f, parent |-> ParentId(m, f), rank |-> k,
         path |-> InstancePath(m, Front(f), <<x>>), class |-> class, source |-> tree[f]]
  BY <1>6 DEF FileInstance
<1> QED
  BY <1>5, <1>7

LEMMA DirectoryOfFile ==
  ASSUME NEW S, NEW f \in S, f \in Seq(Names), NEW root \in Seq(Names), IsStrictPrefix(root, Front(f)), f # <<>>
  PROVE  Front(f) \in DirsOf(S, root)
<1>0. Front(f) = SubSeq(f, 1, Len(f) - 1)
  BY DEF Front
<1>a. Len(f) \in Nat /\ Len(root) \in Nat
  OBVIOUS
<1>b. Front(f) \in Seq(Names) /\ Len(Front(f)) = Len(f) - 1
  BY FrontAndLast
<1>1. Front(f) \in Seq(Names) /\ Len(Front(f)) = Len(f) - 1 /\ Len(f) \in Nat /\ Len(root) \in Nat
  BY <1>a, <1>b
<1>2. Len(root) <= Len(Front(f)) /\ (\A y \in 1..Len(root) : root[y] = Front(f)[y]) /\ root # Front(f)
  BY <1>1, PrefixIs DEF IsStrictPrefix
<1>3. Len(root) # Len(Front(f))
  BY <1>1, <1>2, SeqEqual
<1>4. Len(f) - 1 \in Len(root) + 1 .. Len(f) - 1
  <2>1. Len(root) < Len(f) - 1
    BY <1>1, <1>2, <1>3
  <2> QED
    BY <1>1, <2>1
<1> QED
  BY <1>0, <1>4 DEF DirsOf

(* What syncback writes, build makes a script of with the path of the one  *)
(* it was written for.                                                     *)
LEMMA WrittenFileIsBuilt ==
  ASSUME NEW p, IsProject(p), NEW place, PlaceOK(place), NEW i \in Written(p, place), NEW tree, IsTree(tree),
         NEW f, f = SyncbackPath(p, place, i), f \in DOMAIN tree, NotIgnored(p, f),
         \A m \in Range(Mappings(p)) : m.path # i.path, Last(i.path) # "init"
  PROVE  \E j \in BuildPlace(p, tree) :
           /\ j.path = i.path /\ IsScript(j)
           /\ \/ j.class = i.class /\ j.source = tree[f] /\ ~IsInit(Last(f))
              \/ /\ IsInit(Last(f)) /\ j.id = Front(f) /\ j.id \notin DOMAIN tree
                 /\ f = InitFile(Front(f), FirstInit(InitsOf(DOMAIN tree, Front(f)))) =>
                      j.class = i.class /\ j.source = tree[f]
<1>1. i.path \in Seq(Pieces) /\ i.class \in ScriptClasses
  BY WrittenFacts DEF IsScript
<1>2. PICK k \in DOMAIN Mappings(p) :
        /\ IsPrefix(Mappings(p)[k].path, i.path)
        /\ Mappings(p)[k].fs \in Seq(Names) /\ Mappings(p)[k].path \in Seq(Pieces)
        /\ Rest(Mappings(p)[k], i.path) \in Seq(Pieces)
        /\ i.path = Mappings(p)[k].path \o Rest(Mappings(p)[k], i.path)
        /\ WritesTo(Mappings(p)[k], i, f)
  BY SyncbackPathIs
<1> DEFINE m == Mappings(p)[k]
<1> DEFINE s == Rest(m, i.path)
<1>3. i.path # m.path
  BY <1>2 DEF Range
<1>4. /\ m.fs \in Seq(Names) /\ m.path \in Seq(Pieces) /\ s \in Seq(Pieces) /\ i.path = m.path \o s
      /\ WritesTo(m, i, f) /\ s # <<>>
  BY <1>2, <1>3 DEF WritesTo
<1>5. f \in Seq(Names) /\ f # <<>> /\ IsStrictPrefix(m.fs, f)
  BY <1>1, <1>4, WritesToFile
<1> DEFINE kind == ScriptKind(i.class)
<1>6. kind \in Pieces /\ kind \in LuauKinds /\ kind # "meta.json"
  BY ScriptKinds
<1>7. CASE f = (m.fs \o Singles(Front(s))) \o <<<<Last(s), kind>>>>
  <2>0. PICK x, r, d : x = Last(s) /\ r = Front(s) /\ d = m.fs \o Singles(r)
    OBVIOUS
  <2>1. r \in Seq(Pieces) /\ x \in Pieces /\ s = r \o <<x>>
    BY <1>4, <2>0, FrontAndLast
  <2>2. d \in Seq(Names) /\ Singles(r) \in Seq(Names) /\ FlattenSeq(Singles(r)) = r
    BY <1>4, <2>0, <2>1, SinglesFacts
  <2>3. Front(f) = d /\ Last(f) = <<x, kind>>
    <3> DEFINE n == <<x, kind>>
    <3>1. n \in Names
      BY <1>6, <2>1 DEF Names
    <3>2. f = d \o <<n>>
      BY <1>7, <2>0
    <3> HIDE DEF n
    <3>3. Front(d \o <<n>>) = d /\ Last(d \o <<n>>) = n
      BY <2>2, <3>1, FrontOfJoin
    <3> QED
      BY <3>2, <3>3 DEF n
  <2>4. x # "init"
    <3> HIDE DEF s, m
    <3>1. Len(m.path \o s) = Len(m.path) + Len(s) /\ Len(s) \in Nat /\ Len(s) >= 1 /\ Len(m.path) \in Nat
          /\ (m.path \o s)[Len(m.path) + Len(s)] = s[Len(s)]
      BY <1>4
    <3>2. Last(m.path \o s) = Last(s)
      BY <3>1 DEF Last
    <3> QED
      BY <1>4, <2>0, <3>2
  <2>5. PICK j : /\ j \in BuildPlace(p, tree)
                 /\ j = [id |-> f, parent |-> ParentId(m, f), rank |-> k, path |-> InstancePath(m, Front(f), <<x>>),
                          class |-> i.class, source |-> tree[f]]
    BY <1>1, <1>5, <2>1, <2>3, <2>4, ScriptFileIsBuilt
  <2> HIDE DEF m, s
  <2>6. InstancePath(m, d, <<x>>) = (m.path \o r) \o <<x>>
    <3>1. InstancePath(m, m.fs \o Singles(r), <<x>>) = (m.path \o FlattenSeq(Singles(r))) \o <<x>>
      BY <1>4, <2>2, InstancePathOfJoin
    <3> QED
      BY <2>0, <2>2, <3>1
  <2>7. (m.path \o r) \o <<x>> = m.path \o (r \o <<x>>)
    <3>1. m.path \in Seq(Pieces) /\ r \in Seq(Pieces) /\ <<x>> \in Seq(Pieces)
      BY <1>4, <2>1
    <3>2. \A a, b, c \in Seq(Pieces) : (a \o b) \o c = a \o (b \o c)
      BY ConcatAssociative
    <3> DEFINE y == <<x>>
    <3> HIDE DEF y
    <3>3. y \in Seq(Pieces)
      BY <3>1 DEF y
    <3>4. (m.path \o r) \o y = m.path \o (r \o y)
      BY <3>1, <3>2, <3>3
    <3> QED
      BY <3>4 DEF y
  <2>8. j.path = i.path /\ j.class = i.class /\ j.source = tree[f]
    <3>1. j.path = InstancePath(m, Front(f), <<x>>) /\ j.class = i.class /\ j.source = tree[f]
      BY <2>5
    <3> QED
      BY <1>4, <2>1, <2>3, <2>6, <2>7, <3>1
  <2>9. ~IsInit(Last(f))
    BY <2>3, <2>4, InitPiece
  <2>10. IsScript(j)
    BY <1>1, <2>8 DEF IsScript
  <2> QED
    BY <2>5, <2>8, <2>9, <2>10
<1>8. CASE f = InitOf(m.fs \o Singles(s), i)
  <2> DEFINE d == m.fs \o Singles(s)
  <2>1. Singles(s) \in Seq(Names) /\ FlattenSeq(Singles(s)) = s /\ Len(Singles(s)) = Len(s) /\ d \in Seq(Names)
    BY <1>4, SinglesFacts
  <2>2. f = InitOf(d, [class |-> i.class]) /\ f = d \o <<<<"init", kind>>>>
    BY <1>8 DEF InitOf
  <2>3. IsStrictPrefix(m.fs, d)
    <3> HIDE DEF m, s
    <3>1. IsPrefix(m.fs, m.fs \o Singles(s)) /\ Len(m.fs \o Singles(s)) = Len(m.fs) + Len(s)
      BY <1>4, <2>1, RestOfJoin
    <3>2. Len(m.fs) + Len(s) # Len(m.fs)
      <4>1. Len(s) \in Nat /\ Len(s) # 0 /\ Len(m.fs) \in Nat
        BY <1>4
      <4> QED
        BY <4>1
    <3> QED
      BY <3>1, <3>2 DEF IsStrictPrefix
  <2>4. Front(f) = d /\ Last(f) = <<"init", kind>>
    <3> DEFINE n == <<"init", kind>>
    <3>1. n \in Names
      BY <1>6, RoundTripAssumption DEF Names
    <3>2. f = d \o <<n>>
      BY <2>2
    <3> HIDE DEF n, d
    <3> QED
      BY <2>1, <3>1, <3>2, FrontOfJoin DEF n
  <2>5. f \in Buildable(p, m, tree) /\ m.fs \notin DOMAIN tree
    <3>1. Kind(Last(f)) # "meta.json"
      BY <1>6, <2>4 DEF Kind, Last
    <3> QED
      BY <1>4, <1>5, <3>1, FileIsBuildable
  <2>6. d \in DirsOf(Buildable(p, m, tree), m.fs)
    BY <1>4, <1>5, <2>3, <2>4, <2>5, DirectoryOfFile
  <2> DEFINE j == DirInstance(p, m, k, tree, d)
  <2>7. j \in BuildPlace(p, tree)
    BY <2>5, <2>6, BuildPlaceIs DEF FromDir
  <2>8. /\ j.class \in ScriptClasses
        /\ f = InitFile(d, FirstInit(InitsOf(DOMAIN tree, d))) => j.source = tree[f] /\ j.class = i.class
    <3> HIDE DEF m, s, d
    <3> QED
      BY <1>1, <2>1, <2>2, DirectoryIsScript
  <2>9. j.path = i.path /\ j.id = d
    <3>1. j.path = InstancePath(m, d, <<>>) /\ j.id = d
      BY DEF DirInstance
    <3> HIDE DEF m, s, j
    <3>2. InstancePath(m, d, <<>>) = (m.path \o s) \o <<>>
      BY <1>4, <2>1, InstancePathOfJoin
    <3>3. (m.path \o s) \o <<>> = m.path \o s
      BY <1>4
    <3> QED
      BY <1>4, <3>1, <3>2, <3>3
  <2>10. d \notin DOMAIN tree
    BY <1>4, <2>6, BuildableFacts
  <2> HIDE DEF j
  <2> QED
    BY <2>4, <2>7, <2>8, <2>9, <2>10, InitPiece DEF IsScript
<1> QED
  BY <1>3, <1>4, <1>7, <1>8 DEF WritesTo

---------------------------------------------------------------------------
(* A place that build made, written back over the tree it was made of.     *)
LEMMA DeclaredIsNoPath ==
  ASSUME NEW path \in Seq(Pieces)
  PROVE  DeclaredId(path) \notin Seq(Names)
<1> DEFINE a == <<"@">>
<1> DEFINE r == [x \in DOMAIN path |-> <<path[x]>>]
<1>1. r \in Seq(Names) /\ Names \subseteq Names \cup {a}
  <2>1. r = Singles(path)
    BY DEF Singles
  <2> QED
    BY <2>1, SinglesFacts
<1>2. a \notin Names
  <2>1. ASSUME a \in Names PROVE FALSE
    <3>1. a \in Seq(Pieces) /\ Len(a) = 1 /\ a[1] = "@"
      BY <2>1 DEF Names
    <3> HIDE DEF a
    <3>2. a[1] \in Pieces
      BY <3>1
    <3> QED
      BY <3>1, <3>2 DEF Pieces
  <2> QED
    BY <2>1
<1>3. DeclaredId(path) = <<a>> \o r
  BY DEF DeclaredId
<1> HIDE DEF a, r
<1>4. r \in Seq(Names \cup {a}) /\ <<a>> \in Seq(Names \cup {a})
  BY <1>1, SeqMonotonic
<1>5. (<<a>> \o r)[1] = a /\ Len(<<a>> \o r) = Len(r) + 1 /\ Len(r) \in Nat
  BY <1>4
<1>6. ASSUME <<a>> \o r \in Seq(Names) PROVE FALSE
  <2> DEFINE t == <<a>> \o r
  <2>1. t \in Seq(Names) /\ t[1] = a /\ 1 \in 1..Len(t)
    BY <1>5, <1>6
  <2> HIDE DEF t
  <2>2. t[1] \in Names
    BY <2>1
  <2> QED
    BY <1>2, <2>1, <2>2
<1> QED
  BY <1>3, <1>6

LEMMA StrictPrefixes ==
  ASSUME NEW S, NEW a \in Seq(S), NEW b \in Seq(S), NEW c \in Seq(S), IsPrefix(a, b), IsStrictPrefix(b, c)
  PROVE  IsStrictPrefix(a, c)
<1>1. /\ Len(a) \in Nat /\ Len(b) \in Nat /\ Len(c) \in Nat /\ Len(a) <= Len(b) /\ Len(b) <= Len(c)
      /\ \A x \in 1..Len(a) : a[x] = b[x]
      /\ \A x \in 1..Len(b) : b[x] = c[x]
  BY PrefixIs DEF IsStrictPrefix
<1>2. Len(a) <= Len(c) /\ \A x \in 1..Len(a) : a[x] = c[x]
  BY <1>1
<1>3. IsPrefix(a, c)
  BY <1>2, PrefixIs
<1>4. a # c
  <2>1. ASSUME a = c PROVE FALSE
    <3>1. Len(b) = Len(c)
      BY <1>1, <2>1
    <3>2. b = c
      BY <1>1, <3>1, SeqEqual
    <3> QED
      BY <3>2 DEF IsStrictPrefix
  <2> QED
    BY <2>1
<1> QED
  BY <1>3, <1>4 DEF IsStrictPrefix

(* No instance is below one that is made of a file.                        *)
LEMMA FilesHaveNoChildren ==
  ASSUME NEW p, IsProject(p), NEW tree, IsTree(tree), NEW f \in DOMAIN tree, NEW j \in BuildPlace(p, tree)
  PROVE  j.parent # f
<1>1. f \in Seq(Names) /\ f # <<>>
  BY DEF IsTree, IsFile
<1>2. PICK k \in DOMAIN Mappings(p) :
        \/ j \in DeclaredInstances(p, Mappings(p)[k], k)
        \/ FromDir(p, tree, k, j) \/ FromFile(p, tree, k, j)
        \/ FromMapping(p, tree, k, j)
  BY BuildPlaceIs
<1> DEFINE m == Mappings(p)[k]
<1>3. m.fs \in Seq(Names) /\ m.path \in Seq(Pieces)
  BY MappingFacts
<1>4. CASE j \in DeclaredInstances(p, m, k)
  <2>1. PICK q \in Prefixes(m.path) \ {<<>>} : j.parent = DeclaredId(Front(q))
    BY <1>4 DEF DeclaredInstances
  <2>2. q \in Seq(Pieces) /\ q # <<>>
    BY <1>3, <2>1, PrefixesAreFinite
  <2>3. Front(q) \in Seq(Pieces)
    BY <2>2, FrontAndLast
  <2> QED
    BY <1>1, <2>1, <2>3, DeclaredIsNoPath
<1>5. ASSUME NEW d, d \in Seq(Names), d # <<>>, j.parent = ParentId(m, d),
             \E g \in DOMAIN tree : IsPrefix(d, g)
      PROVE  j.parent # f
  <2>1. CASE j.parent = DeclaredId(m.path)
    BY <1>1, <1>3, <2>1, DeclaredIsNoPath
  <2>2. CASE j.parent = Front(d)
    <3>1. PICK g \in DOMAIN tree : IsPrefix(d, g)
      BY <1>5
    <3>2. IsStrictPrefix(Front(d), d) /\ Front(d) \in Seq(Names) /\ g \in Seq(Names)
      BY <1>5, FrontAndLast DEF IsTree, IsFile
    <3>3. IsStrictPrefix(Front(d), g)
      <4>1. CASE d = g
        BY <3>2, <4>1
      <4>2. CASE d # g
        <5>1. IsStrictPrefix(d, g) /\ IsPrefix(Front(d), d)
          BY <3>1, <3>2, <4>2 DEF IsStrictPrefix
        <5> QED
          BY <1>5, <3>2, <5>1, StrictPrefixes
      <4> QED
        BY <4>1, <4>2
    <3> QED
      BY <2>2, <3>3 DEF IsTree
  <2> QED
    BY <1>5, <2>1, <2>2 DEF ParentId
<1>6. CASE FromDir(p, tree, k, j)
  <2>1. j.id \in DirsOf(Buildable(p, m, tree), m.fs) /\ j = DirInstance(p, m, k, tree, j.id)
    BY <1>6, DirInstanceFacts
  <2>2. /\ Buildable(p, m, tree) \subseteq DOMAIN tree /\ Buildable(p, m, tree) \subseteq Seq(Names)
        /\ \A g \in Buildable(p, m, tree) : IsStrictPrefix(m.fs, g)
    BY <1>3, BuildableFacts
  <2>3. j.id \in Seq(Names) /\ j.id # <<>> /\ \E g \in Buildable(p, m, tree) : IsStrictPrefix(j.id, g)
    BY <1>3, <2>1, <2>2, DirFacts
  <2>4. j.parent = ParentId(m, j.id)
    BY <2>1 DEF DirInstance
  <2>5. \E g \in DOMAIN tree : IsPrefix(j.id, g)
    BY <2>2, <2>3 DEF IsStrictPrefix
  <2> QED
    BY <1>5, <2>3, <2>4, <2>5
<1>7. CASE FromFile(p, tree, k, j)
  <2>1. j.id \in DOMAIN tree /\ j.id \in Seq(Names) /\ j = FileInstance(m, k, tree, j.id)
    BY <1>7, FileInstanceFacts
  <2>2. j.parent = ParentId(m, j.id) /\ j.id # <<>>
    BY <2>1 DEF FileInstance, IsTree, IsFile
  <2>3. IsPrefix(j.id, j.id)
    BY <2>1, PrefixIs
  <2> QED
    BY <1>5, <2>1, <2>2, <2>3
<1>8. CASE FromMapping(p, tree, k, j)
  <2>1. j.parent = DeclaredId(m.path)
    BY <1>8 DEF FromMapping, PopulateFile
  <2> QED
    BY <1>1, <1>3, <2>1, DeclaredIsNoPath
<1> QED
  BY <1>2, <1>4, <1>6, <1>7, <1>8

(* A script goes where another of its path and class goes that goes to a   *)
(* file that is no init file.                                              *)
LEMMA WrittenToOneFile ==
  ASSUME NEW p, IsProject(p), NEW place, PlaceOK(place), NEW i \in Written(p, place), NEW j,
         j.path = i.path, j.class = i.class, ~HasChildren(place, j), ~IsInit(Last(SyncbackPath(p, place, i)))
  PROVE  SyncbackPath(p, place, j) = SyncbackPath(p, place, i)
<1>1. i.path \in Seq(Pieces) /\ SyncbackPath(p, place, i) # None
  BY WrittenFacts
<1>2. Containing(p, i.path) # {}
  BY <1>1 DEF SyncbackPath
<1>3. PICK k \in DOMAIN Mappings(p) :
        Longest(Containing(p, i.path)) = Mappings(p)[k] /\ IsPrefix(Mappings(p)[k].path, i.path)
  BY <1>1, <1>2, ContainingFacts
<1> DEFINE m == Mappings(p)[k]
<1>4. m.fs \in Seq(Names) /\ m.path \in Seq(Pieces)
  BY MappingFacts
<1> DEFINE s == Rest(m, i.path)
<1> DEFINE names == [x \in DOMAIN s |-> <<s[x]>>]
<1>5. \A o : o.path = i.path =>
        SyncbackPath(p, place, o) =
          CASE s = <<>> -> InitOf(m.fs, o)
            [] Len(s) = 1 /\ HasChildren(place, o) -> InitOf(m.fs \o names, o)
            [] OTHER -> (m.fs \o Front(names)) \o <<<<Last(s), ScriptKind(o.class)>>>>
  BY <1>2, <1>3 DEF SyncbackPath, Rest
<1> HIDE DEF m
<1>6. s \in Seq(Pieces)
  BY <1>1, <1>3, <1>4, PrefixAndRest DEF Rest, m
<1>7. names = Singles(s)
  BY <1>6 DEF Singles
<1> HIDE DEF s
<1>8. m.fs \o names \in Seq(Names)
  BY <1>4, <1>6, <1>7, SinglesFacts
<1> HIDE DEF names
<1>9. CASE s = <<>>
  <2>1. SyncbackPath(p, place, i) = InitOf(m.fs, i) /\ SyncbackPath(p, place, j) = InitOf(m.fs, j)
    BY <1>5, <1>9
  <2> QED
    BY <2>1 DEF InitOf
<1>10. CASE s # <<>> /\ Len(s) = 1 /\ HasChildren(place, i)
  <2> DEFINE n == <<"init", ScriptKind(i.class)>>
  <2>1. SyncbackPath(p, place, i) = (m.fs \o names) \o <<n>>
    BY <1>5, <1>10 DEF InitOf
  <2>2. n \in Names
    BY ScriptKinds, RoundTripAssumption DEF Names
  <2>3. IsInit(n)
    BY InitPiece
  <2> HIDE DEF n
  <2>4. Last((m.fs \o names) \o <<n>>) = n
    BY <1>8, <2>2, FrontOfJoin
  <2> QED
    BY <2>1, <2>3, <2>4
<1>11. CASE s # <<>> /\ ~(Len(s) = 1 /\ HasChildren(place, i))
  <2>1. SyncbackPath(p, place, i) = (m.fs \o Front(names)) \o <<<<Last(s), ScriptKind(i.class)>>>>
    BY <1>5, <1>11
  <2>2. SyncbackPath(p, place, j) = (m.fs \o Front(names)) \o <<<<Last(s), ScriptKind(j.class)>>>>
    BY <1>5, <1>11
  <2> QED
    BY <2>1, <2>2
<1> QED
  BY <1>9, <1>10, <1>11

LEMMA ScriptFileName ==
  ASSUME NEW x \in Pieces, NEW class
  PROVE  /\ Kind(<<x, ScriptKind(class)>>) = ScriptKind(class)
         /\ Stem(<<x, ScriptKind(class)>>) = <<x>>
<1> DEFINE kind == ScriptKind(class)
<1>1. kind \in Pieces
  BY ScriptKinds
<1> HIDE DEF kind
<1>2. Kind(<<x, kind>>) = kind
  BY DEF Kind, Last
<1>3. Front(<<x, kind>>) = <<x>>
  BY <1>1, PairFacts
<1> QED
  BY <1>2, <1>3 DEF kind, Stem

LEMMA LengthOfFront ==
  ASSUME NEW f \in Seq(Names), f # <<>>
  PROVE  /\ Len(f) \in Nat /\ Len(f) # 0 /\ Front(f) \in Seq(Names) /\ Len(Front(f)) = Len(f) - 1
         /\ \A z \in 1..Len(f) - 1 : Front(f)[z] = f[z]
         /\ f = Front(f) \o <<Last(f)>> /\ IsStrictPrefix(Front(f), f)
<1>1. Len(f) \in Nat /\ Len(f) # 0
  OBVIOUS
<1>2. /\ Front(f) \in Seq(Names) /\ Len(Front(f)) = Len(f) - 1
      /\ \A z \in 1..Len(f) - 1 : Front(f)[z] = f[z]
      /\ f = Front(f) \o <<Last(f)>> /\ IsStrictPrefix(Front(f), f)
  BY FrontAndLast
<1> QED
  BY <1>1, <1>2

LEMMA FileAfterItsName ==
  ASSUME NEW f \in Seq(Names), f # <<>>, NEW x \in Pieces, NEW y \in Pieces, Last(f) = <<x, y>>
  PROVE  PathBefore(Append(Front(f), <<x>>), f)
<1> DEFINE a == <<x>>
<1> DEFINE b == <<x, y>>
<1>1. NameBefore(a, b)
  <2>1. a \in Seq(Pieces) /\ b \in Seq(Pieces) /\ Len(a) = 1 /\ Len(b) = 2 /\ a[1] = x /\ b[1] = x
    OBVIOUS
  <2> HIDE DEF a, b
  <2>2. IsPrefix(a, b)
    <3>1. Len(a) <= Len(b) /\ \A z \in 1..Len(a) : a[z] = b[z]
      BY <2>1
    <3> QED
      BY <2>1, <3>1, PrefixIs
  <2>3. a # b
    BY <2>1
  <2> QED
    BY <2>2, <2>3, NameBeforeIsLex DEF IsStrictPrefix
<1>2. a \in Names /\ b \in Names
  BY DEF Names
<1> HIDE DEF a, b
<1> DEFINE d == Append(Front(f), a)
<1>3. /\ Front(f) \in Seq(Names) /\ Len(Front(f)) = Len(f) - 1 /\ Len(f) \in Nat /\ Len(f) # 0
      /\ \A z \in 1..Len(f) - 1 : Front(f)[z] = f[z]
  BY LengthOfFront
<1>4. f[Len(f)] = b
  BY DEF Last, b
<1>5. /\ d \in Seq(Names) /\ Len(d) = Len(f) /\ d[Len(f)] = a
      /\ \A z \in 1..Len(f) - 1 : d[z] = f[z]
  BY <1>2, <1>3
<1>6. Len(f) \in DOMAIN d \cap DOMAIN f
  BY <1>3, <1>5
<1> HIDE DEF d
<1>7. NameBefore(d[Len(f)], f[Len(f)]) /\ \A z \in 1 .. Len(f) - 1 : d[z] = f[z]
  BY <1>1, <1>4, <1>5
<1>8. PathBefore(d, f)
  BY <1>6, <1>7, PathBeforeIsLex
<1> QED
  BY <1>8 DEF d, a

LEMMA OnePathBeforeTheOther ==
  ASSUME NEW f \in Seq(Names), NEW g \in Seq(Names), f # g
  PROVE  PathBefore(f, g) \/ PathBefore(g, f)
<1>1. f \in Paths /\ g \in Paths
  BY NamesAreSpelled
<1>2. <<f, g>> \in PathOrder \/ <<g, f>> \in PathOrder
  BY <1>1, PathsAreOrdered DEF StrictOrder
<1> QED
  BY <1>2 DEF PathOrder

(* A directory of a file's name makes an instance of the file's path.      *)
LEMMA DirectoryOfOnePath ==
  ASSUME NEW m, m.fs \in Seq(Names), m.path \in Seq(Pieces), NEW d \in Seq(Names), IsPrefix(m.fs, d),
         NEW n \in Names
  PROVE  InstancePath(m, Append(d, n), <<>>) = InstancePath(m, d, n)
<1> DEFINE r == SubSeq(d, Len(m.fs) + 1, Len(d))
<1>1. r \in Seq(Names) /\ d = m.fs \o r
  BY PrefixAndRest
<1> HIDE DEF r
<1>2. r \in Seq(Seq(Pieces)) /\ n \in Seq(Pieces)
  <2>1. Names \subseteq Seq(Pieces)
    BY DEF Names
  <2> QED
    BY <1>1, <2>1, SeqMonotonic
<1>3. r \o <<n>> \in Seq(Names) /\ Append(d, n) = m.fs \o (r \o <<n>>)
  <2>1. r \o <<n>> \in Seq(Names) /\ <<n>> \in Seq(Names)
    BY <1>1
  <2>2. Append(d, n) = d \o <<n>>
    BY AppendIsConcat
  <2>3. \A a, b, c \in Seq(Names) : (a \o b) \o c = a \o (b \o c)
    BY ConcatAssociative
  <2> DEFINE y == <<n>>
  <2> HIDE DEF y
  <2>4. (m.fs \o r) \o y = m.fs \o (r \o y)
    BY <1>1, <2>1, <2>3 DEF y
  <2> QED
    BY <1>1, <2>1, <2>2, <2>4 DEF y
<1>4. InstancePath(m, m.fs \o (r \o <<n>>), <<>>) = (m.path \o FlattenSeq(r \o <<n>>)) \o <<>>
  BY <1>3, InstancePathOfJoin
<1>5. FlattenSeq(r \o <<n>>) = FlattenSeq(r) \o n /\ FlattenSeq(r) \in Seq(Pieces)
  BY <1>2, FlattenAppend, FlattenType
<1>6. InstancePath(m, m.fs \o r, n) = (m.path \o FlattenSeq(r)) \o n
  BY <1>1, InstancePathOfJoin
<1> DEFINE w == FlattenSeq(r)
<1> HIDE DEF w
<1>7. w \in Seq(Pieces) /\ FlattenSeq(r \o <<n>>) = w \o n
  BY <1>5 DEF w
<1>8. (m.path \o (w \o n)) \o <<>> = (m.path \o w) \o n
  <2>1. w \o n \in Seq(Pieces) /\ m.path \o (w \o n) \in Seq(Pieces)
    BY <1>2, <1>7
  <2>2. (m.path \o (w \o n)) \o <<>> = m.path \o (w \o n)
    BY <2>1
  <2>3. \A a, b, c \in Seq(Pieces) : (a \o b) \o c = a \o (b \o c)
    BY ConcatAssociative
  <2> QED
    BY <1>2, <1>7, <2>2, <2>3
<1>9. InstancePath(m, Append(d, n), <<>>) = (m.path \o (w \o n)) \o <<>>
  BY <1>3, <1>4, <1>7
<1>10. InstancePath(m, d, n) = (m.path \o w) \o n
  BY <1>1, <1>6 DEF w
<1> QED
  BY <1>8, <1>9, <1>10

(* The script of a file is written over it after what is read before it.   *)
LEMMA OwnScriptIsLater ==
  ASSUME NEW p, IsProject(p), NEW tree, IsTree(tree), NEW i \in Written(p, BuildPlace(p, tree)),
         NEW f \in DOMAIN tree, f = SyncbackPath(p, BuildPlace(p, tree), i), NotIgnored(p, f), ~IsInit(Last(f)), tree[f] # None,
         i.rank \in DOMAIN Mappings(p), IsStrictPrefix(Mappings(p)[i.rank].fs, f),
         i.path = InstancePath(Mappings(p)[i.rank], Front(f), Stem(Last(f))), PathBefore(i.id, f)
  PROVE  \E j \in Written(p, BuildPlace(p, tree)) : SyncbackPath(p, BuildPlace(p, tree), j) = f /\ DomBefore(i, j)
<1> DEFINE place == BuildPlace(p, tree)
<1> DEFINE k == i.rank
<1> DEFINE m == Mappings(p)[k]
<1>1. PlaceOK(place)
  BY BuiltPlacesAreOK
<1>2. i.path \in Seq(Pieces) /\ i.class \in ScriptClasses
  BY <1>1, WrittenFacts DEF IsScript
<1>3. PICK n \in DOMAIN Mappings(p) :
        /\ Mappings(p)[n].fs \in Seq(Names) /\ Mappings(p)[n].path \in Seq(Pieces)
        /\ Rest(Mappings(p)[n], i.path) \in Seq(Pieces)
        /\ WritesTo(Mappings(p)[n], i, f)
  BY <1>1, SyncbackPathIs
<1>4. PICK x \in Pieces : Last(f) = <<x, ScriptKind(i.class)>>
  BY <1>2, <1>3, WritesToFile
<1>5. x # "init"
  BY <1>4, InitPiece
<1>6. Stem(Last(f)) = <<x>>
  BY <1>4, ScriptFileName
<1>7. PICK o : /\ o \in place
               /\ o = [id |-> f, parent |-> ParentId(m, f), rank |-> k,
                       path |-> InstancePath(m, Front(f), <<x>>), class |-> i.class, source |-> tree[f]]
  BY <1>2, <1>4, <1>5, ScriptFileIsBuilt
<1>8. o.id = f /\ o.rank = k /\ o.path = i.path /\ o.class = i.class /\ o.source = tree[f]
  BY <1>6, <1>7
<1>9. ~HasChildren(place, o)
  BY <1>8, FilesHaveNoChildren DEF HasChildren
<1> HIDE DEF place
<1>10. SyncbackPath(p, place, o) = f
  <2>1. i \in Written(p, place) /\ f = SyncbackPath(p, place, i)
    BY DEF place
  <2> QED
    BY <1>1, <1>8, <1>9, <2>1, WrittenToOneFile
<1>11. IsScript(o) /\ HasSource(place, o)
  BY <1>2, <1>7, <1>8 DEF IsScript, HasSource
<1>12. f # None
  BY <1>1, WrittenFacts DEF place
<1>13. o \in Written(p, place)
  BY <1>7, <1>10, <1>11, <1>12 DEF Written
<1>14. DomBefore(i, o)
  BY <1>8 DEF DomBefore
<1> QED
  BY <1>10, <1>13, <1>14 DEF place

(* So that what is written over a text last and changes it is from         *)
(* elsewhere.                                                              *)
Elsewhere(p, i, f, tree) ==
  /\ i.id # f
  /\ i.id = DirectoryOf(f) => i.id \in DOMAIN tree
  /\ i.id \in DOMAIN tree =>
       \/ Front(i.id) # Front(f) \/ Content(i.id, tree).name # Stem(Last(f))
       \/ PathBefore(f, i.id) \/ IsInit(Last(f))
       \/ \E m \in Range(Mappings(p)) : m.fs = i.id

LEMMA LastChangeIsFromElsewhere ==
  ASSUME NEW p, IsProject(p), NEW tree, IsTree(tree), NEW i \in Written(p, BuildPlace(p, tree)),
         NEW f \in DOMAIN tree, f = SyncbackPath(p, BuildPlace(p, tree), i), NotIgnored(p, f),
         SavedSource(i) # tree[f], tree[f] # None,
         \A j \in Written(p, BuildPlace(p, tree)) : SyncbackPath(p, BuildPlace(p, tree), j) = f => ~DomBefore(i, j)
  PROVE  Elsewhere(p, i, f, tree)
<1> DEFINE place == BuildPlace(p, tree)
<1> DEFINE k == i.rank
<1> DEFINE m == Mappings(p)[k]
<1>1. PlaceOK(place)
  BY BuiltPlacesAreOK
<1>2. i.path \in Seq(Pieces) /\ i.class \in ScriptClasses /\ i \in place /\ i.rank \in Nat
  BY <1>1, WrittenFacts DEF IsScript
<1>a. i.source # tree[f]
  BY DEF SavedSource
<1>3. PICK n \in DOMAIN Mappings(p) :
        /\ Mappings(p)[n].fs \in Seq(Names) /\ Mappings(p)[n].path \in Seq(Pieces)
        /\ Rest(Mappings(p)[n], i.path) \in Seq(Pieces)
        /\ WritesTo(Mappings(p)[n], i, f)
  BY <1>1, SyncbackPathIs
<1>4. PICK x \in Pieces : Last(f) = <<x, ScriptKind(i.class)>>
  BY <1>2, <1>3, WritesToFile
<1>5. f \in Seq(Names) /\ f # <<>> /\ Kind(Last(f)) = ScriptKind(i.class) /\ Stem(Last(f)) = <<x>>
  BY <1>4, ScriptFileName DEF IsTree, IsFile
<1>6. Front(f) \in Seq(Names) /\ f = Front(f) \o <<Last(f)>> /\ IsStrictPrefix(Front(f), f) /\ <<x>> \in Names
  BY <1>5, LengthOfFront DEF Names
<1>b. CASE i.rank = 0
  <2>1. i.id = DeclaredId(i.path)
    BY <1>2, <1>b, BuiltInstances
  <2>2. i.id \notin Seq(Names)
    BY <1>2, <2>1, DeclaredIsNoPath
  <2>3. DirectoryOf(f) \in Seq(Names) /\ DOMAIN tree \subseteq Seq(Names)
    BY <1>5, <1>6 DEF DirectoryOf, IsTree, IsFile
  <2> QED
    BY <1>5, <2>2, <2>3 DEF Elsewhere
<1> SUFFICES ASSUME i.rank > 0 PROVE Elsewhere(p, i, f, tree)
  BY <1>2, <1>b
<1>7. /\ k \in DOMAIN Mappings(p) /\ i.id \in Seq(Names)
      /\ FromDir(p, tree, k, i) \/ FromFile(p, tree, k, i) \/ FromMapping(p, tree, k, i)
  BY <1>2, BuiltInstances
<1>8. m.fs \in Seq(Names) /\ m.path \in Seq(Pieces)
  BY <1>7, MappingFacts
<1>9. i.id # f
  <2>1. SUFFICES ASSUME i.id = f PROVE FALSE
    OBVIOUS
  <2>2. ~FromDir(p, tree, k, i)
    BY <1>7, <2>1, DirInstanceFacts
  <2>3. ~FromMapping(p, tree, k, i)
    BY <1>7, <1>a, <2>1, MappedFileFacts
  <2>4. i = FileInstance(m, k, tree, f)
    BY <1>7, <2>1, <2>2, <2>3, FileInstanceFacts
  <2>5. Content(f, tree).source = tree[f]
    BY <1>5, ScriptKinds DEF Content
  <2>6. i.source = tree[f]
    BY <2>4, <2>5 DEF FileInstance
  <2> QED
    BY <1>a, <2>6
<1>10. ASSUME i.id = DirectoryOf(f), i.id \notin DOMAIN tree PROVE FALSE
  <2>1. FromDir(p, tree, k, i)
    BY <1>7, <1>10, FileInstanceFacts, MappedFileFacts
  <2>2. i.id \in DirsOf(Buildable(p, m, tree), m.fs) /\ i = DirInstance(p, m, k, tree, i.id)
    BY <1>7, <2>1, DirInstanceFacts
  <2>3. IsPrefix(m.fs, i.id) /\ Len(m.fs) < Len(i.id)
    BY <1>8, <2>2, BuildableFacts
  <2>4. CASE IsInit(Last(f))
    <3>1. i.id = Front(f)
      BY <1>10, <2>4 DEF DirectoryOf
    <3>2. x = "init"
      BY <1>4, <2>4, InitPiece
    <3>3. f = InitOf(Front(f), [class |-> i.class])
      BY <1>4, <1>6, <3>2 DEF InitOf
    <3> DEFINE d == Front(f)
    <3>4. f = InitOf(d, [class |-> i.class]) /\ d \in Seq(Names)
      BY <1>6, <3>3
    <3>5. i = DirInstance(p, m, k, tree, d)
      BY <2>2, <3>1
    <3> HIDE DEF d, m
    <3>6. InitOf(d, [class |-> i.class]) \in DOMAIN tree /\ NotIgnored(p, InitOf(d, [class |-> i.class]))
      BY <3>4
    <3>7. LET g == InitOf(d, [class |-> i.class])
              j == DirInstance(p, m, k, tree, d)
          IN  /\ g = InitFile(d, FirstInit(InitsOf(DOMAIN tree, d))) => j.source = tree[g]
              /\ i.class = j.class => g = InitFile(d, FirstInit(InitsOf(DOMAIN tree, d)))
      BY <3>4, <3>6, DirectoryIsScript
    <3> QED
      BY <1>a, <3>4, <3>5, <3>7
  <2>5. CASE ~IsInit(Last(f))
    <3>1. i.id = Append(Front(f), <<x>>)
      BY <1>5, <1>10, <2>5 DEF DirectoryOf
    <3>2. PathBefore(i.id, f)
      BY <1>4, <1>5, <3>1, ScriptKinds, FileAfterItsName
    <3>3. IsPrefix(m.fs, Front(f))
      <4> HIDE DEF m
      <4>1. /\ Len(i.id) = Len(Front(f)) + 1 /\ Len(Front(f)) \in Nat /\ Len(m.fs) \in Nat
            /\ \A z \in 1..Len(Front(f)) : i.id[z] = Front(f)[z]
        BY <1>6, <1>8, <3>1
      <4>2. \A z \in 1..Len(m.fs) : m.fs[z] = i.id[z]
        BY <1>7, <1>8, <2>3, PrefixIs
      <4>3. Len(m.fs) <= Len(Front(f)) /\ \A z \in 1..Len(m.fs) : m.fs[z] = Front(f)[z]
        BY <2>3, <4>1, <4>2
      <4> QED
        BY <1>6, <1>8, <4>3, PrefixIs
    <3>4. IsStrictPrefix(m.fs, f)
      BY <1>5, <1>6, <1>8, <3>3, StrictPrefixes
    <3>5. i.path = InstancePath(m, i.id, <<>>)
      BY <2>2 DEF DirInstance
    <3>6. i.path = InstancePath(m, Front(f), <<x>>)
      <4> HIDE DEF m
      <4>1. InstancePath(m, Append(Front(f), <<x>>), <<>>) = InstancePath(m, Front(f), <<x>>)
        BY <1>6, <1>8, <3>3, DirectoryOfOnePath
      <4> QED
        BY <3>1, <3>5, <4>1
    <3> QED
      BY <1>5, <1>7, <2>5, <3>2, <3>4, <3>6, OwnScriptIsLater
  <2> QED
    BY <2>4, <2>5
<1>11. ASSUME i.id \in DOMAIN tree, Front(i.id) = Front(f), Content(i.id, tree).name = Stem(Last(f)),
              ~PathBefore(f, i.id), ~IsInit(Last(f)), \A o \in Range(Mappings(p)) : o.fs # i.id
       PROVE FALSE
  <2>1. ~FromMapping(p, tree, k, i)
    BY <1>7, <1>11, MappedFileFacts DEF Range
  <2>2. ~FromDir(p, tree, k, i)
    BY <1>7, <1>11, DirInstanceFacts
  <2>3. i = FileInstance(m, k, tree, i.id) /\ i.id \in FilesBuilt(p, m, tree)
    BY <1>7, <2>1, <2>2, FileInstanceFacts
  <2>4. IsStrictPrefix(m.fs, i.id) /\ i.id # <<>>
    BY <1>8, <2>3, BuildableFacts DEF FilesBuilt, IsTree, IsFile
  <2>5. i.path = InstancePath(m, Front(f), Stem(Last(f)))
    BY <1>11, <2>3 DEF FileInstance
  <2>6. PathBefore(i.id, f)
    BY <1>5, <1>7, <1>9, <1>11, OnePathBeforeTheOther
  <2>7. IsPrefix(m.fs, Front(f))
    <3> HIDE DEF m
    <3>a. PICK g : g = i.id /\ g \in Seq(Names) /\ g # <<>>
      BY <1>7, <2>4
    <3>b. /\ Len(Front(g)) = Len(g) - 1 /\ Len(g) \in Nat
          /\ \A z \in 1..Len(g) - 1 : Front(g)[z] = g[z]
      BY <3>a, LengthOfFront
    <3>1. /\ Len(Front(i.id)) = Len(i.id) - 1 /\ Len(i.id) \in Nat /\ Len(m.fs) \in Nat
          /\ \A z \in 1..Len(i.id) - 1 : Front(i.id)[z] = i.id[z]
      BY <1>8, <3>a, <3>b
    <3>2. Len(m.fs) <= Len(i.id) /\ m.fs # i.id /\ \A z \in 1..Len(m.fs) : m.fs[z] = i.id[z]
      BY <1>7, <1>8, <2>4, PrefixIs DEF IsStrictPrefix
    <3>3. Len(m.fs) # Len(i.id)
      BY <1>7, <1>8, <3>2, SeqEqual
    <3>4. Len(m.fs) <= Len(Front(f)) /\ \A z \in 1..Len(m.fs) : m.fs[z] = Front(f)[z]
      BY <1>11, <3>1, <3>2, <3>3
    <3> QED
      BY <1>6, <1>8, <3>4, PrefixIs
  <2>8. IsStrictPrefix(m.fs, f)
    BY <1>5, <1>6, <1>8, <2>7, StrictPrefixes
  <2> QED
    BY <1>7, <1>11, <2>5, <2>6, <2>8, OwnScriptIsLater
<1> QED
  BY <1>9, <1>10, <1>11 DEF Elsewhere

---------------------------------------------------------------------------
(* Trees and places as the steps change them.                              *)
TreeWith(tree, f, s) == [g \in DOMAIN tree \cup {f} |-> IF g = f THEN s ELSE tree[g]]

LEMMA OneFile ==
  ASSUME NEW f, NEW s, NEW tree
  PROVE  /\ DOMAIN TreeWith(tree, f, s) = DOMAIN tree \cup {f} /\ TreeWith(tree, f, s)[f] = s
         /\ \A g \in DOMAIN tree : g # f => TreeWith(tree, f, s)[g] = tree[g]
  BY DEF TreeWith

LEMMA TreeWithFile ==
  ASSUME NEW tree, IsTree(tree), NEW f, IsFile(f), NEW s,
         \A g \in DOMAIN tree : ~IsStrictPrefix(g, f) /\ ~IsStrictPrefix(f, g)
  PROVE  IsTree(TreeWith(tree, f, s))
<1> DEFINE new == TreeWith(tree, f, s)
<1>1. /\ DOMAIN new = DOMAIN tree \cup {f} /\ new[f] = s
      /\ \A g \in DOMAIN tree : g # f => new[g] = tree[g]
  BY DEF TreeWith
<1> HIDE DEF new
<1>2. IsFiniteSet(DOMAIN new)
  <2>1. IsFiniteSet({f}) /\ IsFiniteSet(DOMAIN tree)
    BY FS_Singleton DEF IsTree
  <2>2. IsFiniteSet(DOMAIN tree \cup {f})
    BY <2>1, FS_Union
  <2> QED
    BY <1>1, <2>2
<1>3. \A g \in DOMAIN new : IsFile(g)
  BY <1>1 DEF IsTree
<1>4. \A g, h \in DOMAIN new : ~IsStrictPrefix(g, h)
  BY <1>1 DEF IsTree, IsStrictPrefix
<1>5. IsTree(new)
  BY <1>2, <1>3, <1>4 DEF IsTree
<1> QED
  BY <1>5 DEF new

LEMMA TreeWithoutFile ==
  ASSUME NEW tree, IsTree(tree), NEW f
  PROVE  IsTree(Restrict(tree, DOMAIN tree \ {f}))
<1> DEFINE new == Restrict(tree, DOMAIN tree \ {f})
<1>1. DOMAIN new = DOMAIN tree \ {f} /\ \A g \in DOMAIN new : new[g] = tree[g]
  BY DEF Restrict
<1> HIDE DEF new
<1>2. IsFiniteSet(DOMAIN new)
  BY <1>1, FS_Subset DEF IsTree
<1>3. IsTree(new)
  BY <1>1, <1>2 DEF IsTree
<1> QED
  BY <1>3 DEF new

(* Studio gives instances other sources and changes nothing else of them.  *)
Resourced(h, j) == IsInstance(h) /\ h.id = j.id /\ h.rank = j.rank /\ h.path = j.path

LEMMA PlaceWithSources ==
  ASSUME NEW place, PlaceOK(place), NEW F, F = [j \in place |-> F[j]],
         \A j \in place : Resourced(F[j], j)
  PROVE  PlaceOK({F[j] : j \in place})
<1> DEFINE new == {F[j] : j \in place}
<1>1. \A j \in place : F[j] \in new
  OBVIOUS
<1>2. ASSUME NEW h \in new
      PROVE  \E j \in place : h = F[j] /\ IsInstance(h) /\ h.id = j.id /\ h.rank = j.rank /\ h.path = j.path
  BY DEF Resourced
<1>3. IsFiniteSet(new)
  BY ImageIsFinite DEF PlaceOK
<1> HIDE DEF new
<1>4. \A j : Added(place, j) => Added(new, j)
  <2> SUFFICES ASSUME NEW j, Added(place, j) PROVE Added(new, j)
    OBVIOUS
  <2>1. PICK h \in place, name \in Seq(Pieces) :
          h.rank = j.rank /\ j.id = AddedId(h.id, name) /\ j.path = h.path \o name
    BY DEF Added
  <2>2. F[h] \in new /\ F[h].rank = h.rank /\ F[h].id = h.id /\ F[h].path = h.path
    BY <1>1 DEF Resourced
  <2> QED
    BY <2>1, <2>2 DEF Added
<1>5. ASSUME NEW h \in new
      PROVE  /\ IsInstance(h) /\ h.rank \in Nat /\ h.path \in Seq(Pieces) /\ h.id \in Paths
             /\ h.rank > 0 => h.id \in Seq(Names) \/ Added(new, h)
  <2>1. PICK j \in place : h = F[j] /\ IsInstance(h) /\ h.id = j.id /\ h.rank = j.rank /\ h.path = j.path
    BY <1>2
  <2>2. /\ j.rank \in Nat /\ j.path \in Seq(Pieces) /\ j.id \in Paths
        /\ j.rank > 0 => j.id \in Seq(Names) \/ Added(new, j)
    BY <1>4 DEF PlaceOK
  <2>3. Added(new, j) => Added(new, h)
    BY <2>1 DEF Added
  <2> QED
    BY <2>1, <2>2, <2>3
<1>6. ASSUME NEW g \in new, NEW h \in new, g.rank = h.rank, g.id = h.id PROVE g = h
  <2>1. PICK i \in place : g = F[i] /\ g.id = i.id /\ g.rank = i.rank
    BY <1>2
  <2>2. PICK j \in place : h = F[j] /\ h.id = j.id /\ h.rank = j.rank
    BY <1>2
  <2>3. i = j
    BY <1>6, <2>1, <2>2 DEF PlaceOK
  <2> QED
    BY <2>1, <2>2, <2>3
<1>7. PlaceOK(new)
  BY <1>3, <1>5, <1>6 DEF PlaceOK
<1> QED
  BY <1>7 DEF new

LEMMA StudioSources ==
  ASSUME NEW j, IsInstance(j), NEW s
  PROVE  Resourced(SavedByStudio(j), j) /\ Resourced(SavedByStudio([j EXCEPT !.source = s]), j)
<1>1. \A i, t : IsInstance(i) => Resourced([i EXCEPT !.source = t], i)
  BY DEF IsInstance, Resourced
<1>2. ASSUME NEW i, IsInstance(i) PROVE Resourced(SavedByStudio(i), i)
  <2>1. CASE IsScript(i)
    BY <1>1, <1>2, <2>1 DEF SavedByStudio
  <2>2. CASE ~IsScript(i)
    BY <1>2, <2>2 DEF SavedByStudio, Resourced
  <2> QED
    BY <2>1, <2>2
<1> DEFINE e == [j EXCEPT !.source = s]
<1>3. Resourced(e, j)
  BY <1>1
<1> HIDE DEF e
<1>4. Resourced(SavedByStudio(e), e)
  BY <1>2, <1>3 DEF Resourced
<1>5. Resourced(SavedByStudio(e), j)
  BY <1>3, <1>4 DEF Resourced
<1> QED
  BY <1>2, <1>5 DEF e

LEMMA PlaceWithAddition ==
  ASSUME NEW place, PlaceOK(place), NEW i \in place, i.rank > 0, NEW name \in Seq(Pieces), NEW n,
         n.id = AddedId(i.id, name), n.rank = i.rank, n.path = i.path \o name, IsInstance(n),
         \A j \in place : j.path # n.path
  PROVE  PlaceOK(place \cup {n})
<1> DEFINE new == place \cup {n}
<1>1. /\ i.rank \in Nat /\ i.rank # 0 /\ i.path \in Seq(Pieces) /\ i.id \in Paths
  BY DEF PlaceOK
<1>2. n.id \in Paths /\ n.id \notin Seq(Names) /\ n.path \in Seq(Pieces) /\ Added(place, n)
  <2>1. n.id \in Paths /\ n.id \notin Seq(Names)
    BY <1>1, AddedName
  <2>2. n.path \in Seq(Pieces)
    BY <1>1
  <2> QED
    BY <2>1, <2>2 DEF Added
<1>3. IsFiniteSet(new)
  BY FS_Singleton, FS_Union DEF PlaceOK
<1>5. \A j : Added(place, j) => Added(new, j)
  BY DEF Added
<1>7. \A j \in new : IsInstance(j) /\ j.rank \in Nat /\ j.path \in Seq(Pieces)
  BY <1>1, <1>2 DEF PlaceOK
<1>9. ASSUME NEW j \in new PROVE j.id \in Paths /\ (j.rank > 0 => j.id \in Seq(Names) \/ Added(new, j))
  <2>1. j.id \in Paths /\ (j.rank > 0 => j.id \in Seq(Names) \/ Added(place, j))
    BY <1>2 DEF PlaceOK
  <2> HIDE DEF new
  <2> QED
    BY <1>5, <2>1
<1>10. ASSUME NEW j \in place, n.rank = j.rank, n.id = j.id PROVE FALSE
  <2>1. j.rank > 0 /\ j.id \notin Seq(Names)
    BY <1>1, <1>2, <1>10
  <2>2. Added(place, j)
    BY <2>1 DEF PlaceOK
  <2>3. PICK h \in place, other \in Seq(Pieces) :
          h.rank = j.rank /\ j.id = AddedId(h.id, other) /\ j.path = h.path \o other
    BY <2>2 DEF Added
  <2>4. h.id \in Paths
    BY <2>1, <2>3 DEF PlaceOK
  <2>5. AddedId(h.id, other) = AddedId(i.id, name)
    BY <1>10, <2>3
  <2>6. h.id = i.id /\ other = name
    <3>1. \A a, b \in Paths : \A s, t \in Seq(Pieces) :
            AddedId(a, s) = AddedId(b, t) => a = b /\ s = t
      BY AddedNamesDiffer
    <3>2. h.id \in Paths /\ i.id \in Paths /\ other \in Seq(Pieces) /\ name \in Seq(Pieces)
      BY <1>1, <2>3, <2>4
    <3> QED
      BY <2>5, <3>1, <3>2
  <2>7. h = i
    BY <1>10, <2>1, <2>3, <2>6 DEF PlaceOK
  <2> QED
    BY <2>3, <2>6, <2>7
<1>11. ASSUME NEW j \in new, NEW h \in new, j.rank = h.rank, j.id = h.id PROVE j = h
  <2>1. \A a, b \in place : a.rank = b.rank /\ a.id = b.id => a = b
    BY DEF PlaceOK
  <2> QED
    BY <1>10, <1>11, <2>1
<1> HIDE DEF new
<1>12. PlaceOK(new)
  BY <1>3, <1>7, <1>9, <1>11 DEF PlaceOK
<1> QED
  BY <1>12 DEF new

---------------------------------------------------------------------------
(* The inductive invariant.  Shape: files and places stay what they are.   *)
(* Progress: the job is what is left of the writes of the place at hand,   *)
(* and the tree is the one found with the others written over it.  Rounds: *)
(* what a build and a syncback in turn leave.                              *)
Carries(W, k, before, tree) ==
  /\ DOMAIN before \subseteq DOMAIN tree
  /\ \A a \in 1..k : W[a].path \in DOMAIN tree
  /\ \A f \in DOMAIN tree :
       \/ \E a \in 1..k : /\ W[a].path = f /\ tree[f] = W[a].source
                          /\ \A b \in 1..k : a < b => W[b].path # f
       \/ f \in DOMAIN before /\ tree[f] = before[f] /\ \A a \in 1..k : W[a].path # f

Shape ==
  /\ project \in Projects
  /\ IsTree(files) /\ IsTree(taken.files) /\ PlaceOK(taken.place)
  /\ taken.clean \in BOOLEAN
  /\ taken = [place |-> taken.place, files |-> taken.files, clean |-> taken.clean]
  /\ places = [dir \in {<<>>, home} |-> places[dir]]
  /\ \A dir \in {<<>>, home} : places[dir] = None \/ PlaceOK(places[dir])

Writes == SyncbackWrites(project, taken.place)

Progress ==
  /\ job # <<>> =>
       /\ outcome = "running"
       /\ \E k \in Nat : /\ k < Len(Writes) /\ job = SubSeq(Writes, k + 1, Len(Writes))
                         /\ taken.clean = TRUE => Carries(Writes, k, taken.files, files)
  /\ outcome = "done" /\ taken.clean = TRUE => Carries(Writes, Len(Writes), taken.files, files)

Rounds ==
  /\ home # <<>> => places[<<>>] = None /\ job = <<>> /\ round \in {0, 1}
  /\ round \in {0, 1, 2, 3, 4}
  /\ round = 2 => job = <<>>
  /\ round = 3 /\ job = <<>> => places[<<>>] = BuildPlace(project, files)
  /\ round = 3 /\ job # <<>> => taken.clean = TRUE /\ taken.place = BuildPlace(project, taken.files)
  /\ round = 4 => /\ job = <<>> /\ outcome = "done"
                  /\ taken.clean = TRUE /\ taken.place = BuildPlace(project, taken.files)

IInv == Shape /\ Progress /\ Rounds

LEMMA ProjectsAreProjects == \A p \in Projects : IsProject(p)
  BY RoundTripAssumption

LEMMA WritesAreFiles ==
  ASSUME NEW p, IsProject(p), NEW place, PlaceOK(place)
  PROVE  /\ SyncbackWrites(p, place) \in Seq(Range(SyncbackWrites(p, place))) /\ Len(SyncbackWrites(p, place)) \in Nat
         /\ \A k \in 1..Len(SyncbackWrites(p, place)) :
              IsFile(SyncbackWrites(p, place)[k].path) /\ SyncbackWrites(p, place)[k].source # None
<1> DEFINE n == Cardinality(Written(p, place))
<1> DEFINE W == SyncbackWrites(p, place)
<1>1. PICK L : Lists(p, place, L, n)
  BY WritesAreListed
<1>2. /\ n \in Nat /\ L \in [1..n -> Written(p, place)]
      /\ W = [k \in 1..n |-> [path |-> SyncbackPath(p, place, L[k]), source |-> SavedSource(L[k])]]
  BY <1>1 DEF Lists
<1> HIDE DEF W, n
<1>3. ASSUME NEW k \in 1..n PROVE IsFile(W[k].path) /\ W[k].source # None
  <2>1. PICK i : i = L[k] /\ i \in Written(p, place)
    BY <1>2
  <2>2. i.path \in Seq(Pieces) /\ SavedSource(i) # None
    BY <2>1, WrittenFacts
  <2>3. PICK x \in DOMAIN Mappings(p) :
          /\ Mappings(p)[x].fs \in Seq(Names) /\ Mappings(p)[x].path \in Seq(Pieces)
          /\ Rest(Mappings(p)[x], i.path) \in Seq(Pieces)
          /\ WritesTo(Mappings(p)[x], i, SyncbackPath(p, place, i))
    BY <2>1, SyncbackPathIs
  <2>4. IsFile(SyncbackPath(p, place, i))
    BY <2>2, <2>3, WritesToFile
  <2> QED
    BY <1>2, <2>1, <2>2, <2>4
<1>4. W \in Seq(Range(W)) /\ Len(W) = n
  <2>1. DOMAIN W = 1..n
    BY <1>2
  <2>2. W \in [1..n -> Range(W)]
    BY <1>2, <2>1 DEF Range
  <2> QED
    BY <1>2, <2>1, <2>2
<1> QED
  BY <1>2, <1>3, <1>4 DEF W

LEMMA CarriesOneMore ==
  ASSUME NEW W, NEW k \in Nat, NEW before, NEW tree, Carries(W, k, before, tree)
  PROVE  Carries(W, k + 1, before, TreeWith(tree, W[k + 1].path, W[k + 1].source))
<1> DEFINE f == W[k + 1].path
<1> DEFINE s == W[k + 1].source
<1> DEFINE new == TreeWith(tree, f, s)
<1>1. /\ DOMAIN new = DOMAIN tree \cup {f} /\ new[f] = s
      /\ \A g \in DOMAIN tree : g # f => new[g] = tree[g]
  BY DEF TreeWith
<1>2. \A a \in 1 .. k + 1 : a \in 1..k \/ a = k + 1
  OBVIOUS
<1>3. \A a \in 1..k : a \in 1 .. k + 1 /\ a < k + 1
  OBVIOUS
<1>4. k + 1 \in 1 .. k + 1 /\ ~(k + 1 < k + 1)
  OBVIOUS
<1>a. DOMAIN before \subseteq DOMAIN tree /\ \A a \in 1..k : W[a].path \in DOMAIN tree
  BY DEF Carries
<1>b. \A g \in DOMAIN tree :
       \/ \E a \in 1..k : /\ W[a].path = g /\ tree[g] = W[a].source
                          /\ \A b \in 1..k : a < b => W[b].path # g
       \/ g \in DOMAIN before /\ tree[g] = before[g] /\ \A a \in 1..k : W[a].path # g
  BY DEF Carries
<1> HIDE DEF new
<1>5. DOMAIN before \subseteq DOMAIN new
  BY <1>1, <1>a
<1>6. \A a \in 1 .. k + 1 : W[a].path \in DOMAIN new
  BY <1>1, <1>2, <1>a
<1>7. ASSUME NEW g \in DOMAIN new
      PROVE  \/ \E a \in 1 .. k + 1 : /\ W[a].path = g /\ new[g] = W[a].source
                                      /\ \A b \in 1 .. k + 1 : a < b => W[b].path # g
             \/ g \in DOMAIN before /\ new[g] = before[g] /\ \A a \in 1 .. k + 1 : W[a].path # g
  <2>1. CASE g = f
    <3>1. \A b \in 1 .. k + 1 : k + 1 < b => W[b].path # g
      OBVIOUS
    <3> QED
      BY <1>1, <1>4, <2>1, <3>1
  <2>2. CASE g # f
    <3>1. g \in DOMAIN tree /\ new[g] = tree[g]
      BY <1>1, <2>2
    <3>2. CASE \E a \in 1..k : /\ W[a].path = g /\ tree[g] = W[a].source
                               /\ \A b \in 1..k : a < b => W[b].path # g
      <4>1. PICK a \in 1..k : /\ W[a].path = g /\ tree[g] = W[a].source
                              /\ \A b \in 1..k : a < b => W[b].path # g
        BY <3>2
      <4>2. \A b \in 1 .. k + 1 : a < b => W[b].path # g
        BY <1>2, <2>2, <4>1
      <4> QED
        BY <1>3, <3>1, <4>1, <4>2
    <3>3. CASE g \in DOMAIN before /\ tree[g] = before[g] /\ \A a \in 1..k : W[a].path # g
      BY <1>2, <2>2, <3>1, <3>3
    <3> QED
      BY <1>b, <3>1, <3>2, <3>3
  <2> QED
    BY <2>1, <2>2
<1>8. Carries(W, k + 1, before, new)
  BY <1>5, <1>6, <1>7 DEF Carries
<1> QED
  BY <1>8 DEF new

LEMMA CarriesNothing ==
  ASSUME NEW W, NEW tree
  PROVE  Carries(W, 0, tree, tree)
  BY DEF Carries

LEMMA EmptyPlaceIsOK == PlaceOK({})
  BY FS_EmptySet DEF PlaceOK

(* What is left of a list when its first element is done.                  *)
LEMMA RestOfList ==
  ASSUME NEW S, NEW W \in Seq(S), NEW k \in Nat, k < Len(W), NEW j, j = SubSeq(W, k + 1, Len(W))
  PROVE  /\ j # <<>> /\ Head(j) = W[k + 1] /\ Len(j) = Len(W) - k
         /\ Tail(j) = SubSeq(W, k + 2, Len(W))
         /\ Len(j) = 1 <=> k + 1 = Len(W)
         /\ Tail(j) = <<>> <=> k + 1 = Len(W)
<1>1. Len(W) \in Nat
  OBVIOUS
<1>2. j \in Seq(S) /\ Len(j) = Len(W) - k /\ \A x \in 1 .. Len(W) - k : j[x] = W[k + x]
  BY <1>1
<1>3. j # <<>> /\ Head(j) = W[k + 1]
  <2>1. 1 \in 1 .. Len(W) - k /\ Len(j) # 0
    BY <1>1, <1>2
  <2>2. j # <<>>
    BY <1>2, <2>1
  <2>3. Head(j) = j[1]
    OBVIOUS
  <2>4. j[1] = W[k + 1]
    BY <1>2, <2>1
  <2> QED
    BY <2>2, <2>3, <2>4
<1>4. Tail(j) \in Seq(S) /\ Len(Tail(j)) = Len(W) - (k + 1) /\ \A x \in 1 .. Len(W) - (k + 1) : Tail(j)[x] = W[k + 1 + x]
  BY <1>1, <1>2, <1>3
<1> DEFINE u == SubSeq(W, k + 2, Len(W))
<1>5. u \in Seq(S) /\ Len(u) = Len(W) - (k + 1) /\ \A x \in 1 .. Len(W) - (k + 1) : u[x] = W[k + 1 + x]
  BY <1>1
<1> HIDE DEF u
<1>6. Tail(j) = u
  BY <1>4, <1>5, SeqEqual
<1>7. Tail(j) = <<>> <=> Len(Tail(j)) = 0
  <2> DEFINE t == Tail(j)
  <2>1. t \in Seq(S)
    BY <1>4
  <2> HIDE DEF t
  <2>2. t = <<>> <=> Len(t) = 0
    BY <2>1
  <2> QED
    BY <2>2 DEF t
<1>8. /\ Len(j) = 1 <=> k + 1 = Len(W)
      /\ Tail(j) = <<>> <=> k + 1 = Len(W)
  BY <1>1, <1>2, <1>4, <1>7
<1> QED
  BY <1>2, <1>3, <1>6, <1>8 DEF u

LEMMA InitIsFine == Init => IInv
<1> SUFFICES ASSUME Init PROVE IInv
  OBVIOUS
<1>1. /\ project \in Projects /\ files \in Trees /\ places = [dir \in {<<>>, home} |-> None]
      /\ job = <<>> /\ outcome = "none" /\ round = 0
      /\ taken = [place |-> {}, files |-> files, clean |-> FALSE]
  BY DEF Init
<1>2. IsTree(files) /\ taken.place = {} /\ taken.files = files
  BY <1>1, RoundTripAssumption
<1>3. Shape
  BY <1>1, <1>2, EmptyPlaceIsOK DEF Shape
<1>4. Progress
  BY <1>1 DEF Progress
<1>5. Rounds
  BY <1>1 DEF Rounds
<1> QED
  BY <1>3, <1>4, <1>5 DEF IInv

(* An edit of the tree: what was found in it no longer counts.             *)
LEMMA DisturbedKeeps ==
  ASSUME IInv, Disturbed, round' = 0, UNCHANGED <<project, home, places, job, outcome>>, IsTree(files')
  PROVE  IInv'
<1>1. /\ taken'.place = taken.place /\ taken'.files = taken.files /\ taken'.clean = FALSE
      /\ taken' = [place |-> taken'.place, files |-> taken'.files, clean |-> taken'.clean]
  BY DEF Disturbed, IInv, Shape
<1>2. Shape'
  BY <1>1 DEF IInv, Shape
<1>3. Writes' = Writes
  BY <1>1 DEF Writes
<1>4. Progress'
  BY <1>1, <1>3 DEF IInv, Progress
<1>5. Rounds'
  BY DEF IInv, Rounds
<1> QED
  BY <1>2, <1>4, <1>5 DEF IInv

LEMMA EditFileKeeps == IInv /\ EditFile => IInv'
<1> SUFFICES ASSUME IInv, EditFile PROVE IInv'
  OBVIOUS
<1>1. PICK f \in Editable, s \in Contents : ~Blocked(f) /\ files' = TreeWith(files, f, s)
  BY DEF EditFile, Put, TreeWith
<1>2. IsFile(f) /\ s # None
  BY RoundTripAssumption
<1>3. IsTree(files')
  BY <1>1, <1>2, TreeWithFile DEF IInv, Shape, Blocked
<1> QED
  BY <1>3, DisturbedKeeps DEF EditFile

LEMMA RemoveFileKeeps == IInv /\ RemoveFile => IInv'
<1> SUFFICES ASSUME IInv, RemoveFile PROVE IInv'
  OBVIOUS
<1>1. PICK f \in Editable : files' = Restrict(files, DOMAIN files \ {f})
  BY DEF RemoveFile
<1>2. IsTree(files')
  BY <1>1, TreeWithoutFile DEF IInv, Shape
<1> QED
  BY <1>2, DisturbedKeeps DEF RemoveFile

LEMMA BuildKeeps == IInv /\ Build => IInv'
<1> SUFFICES ASSUME IInv, Build PROVE IInv'
  OBVIOUS
<1> DEFINE made == BuildPlace(project, files)
<1>1. /\ places' = [places EXCEPT ![home] = made]
      /\ round' = IF job = <<>> /\ round \in {0, 2} THEN round + 1 ELSE IF job = <<>> THEN round ELSE 0
      /\ UNCHANGED <<project, home, files, job, taken, outcome, edits>>
  BY DEF Build
<1>2. PlaceOK(made)
  BY BuiltPlacesAreOK, ProjectsAreProjects DEF IInv, Shape
<1>3. made' = made
  BY <1>1
<1>4. /\ places' = [dir \in {<<>>, home} |-> places'[dir]] /\ places'[home] = made
      /\ home # <<>> => places'[<<>>] = places[<<>>]
  BY <1>1 DEF IInv, Shape
<1> HIDE DEF made
<1>5. Shape'
  BY <1>1, <1>2, <1>4 DEF IInv, Shape
<1>6. Writes' = Writes
  BY <1>1 DEF Writes
<1>7. Progress'
  BY <1>1, <1>6 DEF IInv, Progress
<1>8. Rounds'
  <2>1. /\ home # <<>> => places[<<>>] = None /\ job = <<>> /\ round \in {0, 1}
        /\ round \in {0, 1, 2, 3, 4}
        /\ round = 4 => /\ job = <<>> /\ outcome = "done"
                        /\ taken.clean = TRUE /\ taken.place = BuildPlace(project, taken.files)
    BY DEF IInv, Rounds
  <2>2. CASE job # <<>>
    <3>1. round' = 0 /\ home = <<>> /\ home' = home
      BY <1>1, <2>1, <2>2
    <3> QED
      BY <3>1 DEF Rounds
  <2>3. CASE job = <<>> /\ round \in {0, 2}
    <3>1. round' \in {1, 3} /\ (round = 0 => round' = 1) /\ job' = <<>> /\ home' = home
      BY <1>1, <2>3
    <3>2. home # <<>> => round' = 1 /\ places'[<<>>] = None
      BY <1>4, <2>1, <2>3, <3>1
    <3>3. home = <<>> => places'[<<>>] = BuildPlace(project, files)'
      BY <1>3, <1>4 DEF made
    <3> QED
      BY <3>1, <3>2, <3>3 DEF Rounds
  <2>4. CASE job = <<>> /\ round \notin {0, 2}
    <3>1. round' = round /\ job' = <<>> /\ home' = home /\ round \in {1, 3, 4}
      BY <1>1, <2>1, <2>4
    <3>2. home # <<>> => round' = 1 /\ places'[<<>>] = None
      BY <1>4, <2>1, <3>1
    <3>3. home = <<>> => places'[<<>>] = BuildPlace(project, files)'
      BY <1>3, <1>4 DEF made
    <3>4. round = 4 => (outcome = "done" /\ taken.clean = TRUE /\ taken.place = BuildPlace(project, taken.files))'
      BY <1>1, <2>1
    <3> QED
      BY <3>1, <3>2, <3>3, <3>4 DEF Rounds
  <2> QED
    BY <2>2, <2>3, <2>4
<1> QED
  BY <1>5, <1>7, <1>8 DEF IInv

(* Studio works on a place that was built.                                 *)
LEMMA StudioKeeps ==
  ASSUME IInv, NEW place, PlaceOK(place), places[<<>>] # None, places' = [places EXCEPT ![<<>>] = place],
         round' = (IF round = 1 /\ job = <<>> THEN 1 ELSE 0),
         UNCHANGED <<project, home, files, job, taken, outcome>>
  PROVE  IInv'
<1>1. places' = [dir \in {<<>>, home} |-> places'[dir]] /\ \A dir \in {<<>>, home} : places'[dir] \in {place, places[dir]}
  BY DEF IInv, Shape
<1>2. Shape'
  BY <1>1 DEF IInv, Shape
<1>3. Writes' = Writes
  BY DEF Writes
<1>4. Progress'
  BY <1>3 DEF IInv, Progress
<1>5. home = <<>> /\ round' \in {0, 1}
  BY DEF IInv, Rounds
<1>6. Rounds'
  BY <1>5 DEF Rounds
<1> QED
  BY <1>2, <1>4, <1>6 DEF IInv

LEMMA StudioEditKeeps == IInv /\ StudioEdit => IInv'
<1> SUFFICES ASSUME IInv, StudioEdit PROVE IInv'
  OBVIOUS
<1> DEFINE place == places[<<>>]
<1>1. PICK i \in place, s \in Contents :
        places' = [places EXCEPT ![<<>>] = {SavedByStudio(IF j = i THEN [j EXCEPT !.source = s] ELSE j) : j \in @}]
  BY DEF StudioEdit
<1>2. place # None
  BY DEF StudioEdit
<1>3. PlaceOK(place)
  BY <1>2 DEF IInv, Shape
<1> DEFINE F == [j \in place |-> SavedByStudio(IF j = i THEN [j EXCEPT !.source = s] ELSE j)]
<1> DEFINE new == {F[j] : j \in place}
<1>4. \A j \in place : Resourced(F[j], j)
  <2>1. \A j \in place : F[j] = SavedByStudio(j) \/ F[j] = SavedByStudio([j EXCEPT !.source = s])
    OBVIOUS
  <2> HIDE DEF F, place
  <2>2. \A j \in place : IsInstance(j)
    BY <1>3 DEF PlaceOK
  <2> QED
    BY <2>1, <2>2, StudioSources
<1>5. PlaceOK(new)
  <2>1. F = [j \in place |-> F[j]]
    OBVIOUS
  <2> HIDE DEF F, place
  <2> QED
    BY <1>3, <1>4, <2>1, PlaceWithSources
<1>6. places' = [places EXCEPT ![<<>>] = new]
  BY <1>1 DEF IInv, Shape
<1> HIDE DEF new
<1> QED
  BY <1>2, <1>5, <1>6, StudioKeeps DEF StudioEdit

LEMMA StudioAddKeeps == IInv /\ StudioAdd => IInv'
<1> SUFFICES ASSUME IInv, StudioAdd PROVE IInv'
  OBVIOUS
<1> DEFINE place == places[<<>>]
<1> DEFINE New(i, a) == [id |-> Append(i.id, <<"~">> \o a.name), parent |-> i.id, rank |-> i.rank,
                         path |-> i.path \o a.name, class |-> a.class, source |-> a.source]
<1>1. PICK i \in place, a \in Additions :
        /\ i.rank > 0 /\ \A j \in place : j.path # New(i, a).path
        /\ places' = [places EXCEPT ![<<>>] = {SavedByStudio(j) : j \in @} \cup {New(i, a)}]
  BY DEF StudioAdd
<1>2. place # None
  BY DEF StudioAdd
<1>3. PlaceOK(place)
  BY <1>2 DEF IInv, Shape
<1> DEFINE F == [j \in place |-> SavedByStudio(j)]
<1> DEFINE saved == {F[j] : j \in place}
<1>4. \A j \in place : Resourced(F[j], j)
  <2>1. \A j \in place : F[j] = SavedByStudio(j)
    OBVIOUS
  <2> HIDE DEF F, place
  <2>2. \A j \in place : IsInstance(j)
    BY <1>3 DEF PlaceOK
  <2> QED
    BY <2>1, <2>2, StudioSources
<1>5. PlaceOK(saved)
  <2>1. F = [j \in place |-> F[j]]
    OBVIOUS
  <2> HIDE DEF F, place
  <2> QED
    BY <1>3, <1>4, <2>1, PlaceWithSources
<1>6. PICK n : n = New(i, a)
  OBVIOUS
<1>7. PICK h : h \in saved /\ h.id = i.id /\ h.rank = i.rank /\ h.path = i.path
  <2>1. F[i] \in saved
    OBVIOUS
  <2> HIDE DEF F, place
  <2> QED
    BY <1>4, <2>1 DEF Resourced
<1>8. /\ n.id = AddedId(h.id, a.name) /\ n.rank = h.rank /\ n.path = h.path \o a.name /\ IsInstance(n)
      /\ a.name \in Seq(Pieces)
  BY <1>6, <1>7, RoundTripAssumption DEF AddedId, IsInstance
<1>9. \A j \in saved : j.path # n.path
  <2>1. \A j \in place : j.path # n.path
    BY <1>1, <1>6
  <2> HIDE DEF F, place
  <2> QED
    BY <1>4, <2>1 DEF Resourced
<1> DEFINE new == saved \cup {n}
<1>10. places' = [places EXCEPT ![<<>>] = new]
  BY <1>1, <1>6 DEF IInv, Shape
<1>11. h.rank > 0
  BY <1>1, <1>7
<1> HIDE DEF saved, New, place
<1>12. PlaceOK(new)
  BY <1>5, <1>7, <1>8, <1>9, <1>11, PlaceWithAddition
<1> HIDE DEF new
<1> QED
  BY <1>2, <1>10, <1>12, StudioKeeps DEF StudioAdd, place

LEMMA StartSyncbackKeeps == IInv /\ StartSyncback => IInv'
<1> SUFFICES ASSUME IInv, StartSyncback PROVE IInv'
  OBVIOUS
<1>1. /\ job = <<>> /\ places[<<>>] # None
      /\ job' = SyncbackWrites(project, places[<<>>])
      /\ taken' = [place |-> places[<<>>], files |-> files, clean |-> TRUE]
      /\ outcome' = IF job' = <<>> THEN "done" ELSE "running"
      /\ round' = IF job' # <<>> /\ round \in {1, 3} THEN round ELSE 0
      /\ UNCHANGED <<project, home, files, places, edits>>
  BY DEF StartSyncback
<1>2. taken'.place = places[<<>>] /\ taken'.files = files /\ taken'.clean = TRUE
  BY <1>1
<1>3. PlaceOK(places[<<>>]) /\ IsProject(project)
  BY <1>1, ProjectsAreProjects DEF IInv, Shape
<1>4. Shape'
  BY <1>1, <1>2, <1>3 DEF IInv, Shape
<1>5. Writes' = job'
  BY <1>1, <1>2 DEF Writes
<1>6. job' \in Seq(Range(job')) /\ Len(job') \in Nat
  BY <1>1, <1>3, WritesAreFiles
<1>7. Carries(job', 0, files, files)
  BY CarriesNothing
<1>8. Progress'
  <2>1. CASE job' = <<>>
    <3>1. Len(Writes') = 0 /\ outcome' = "done"
      BY <1>1, <1>5, <2>1
    <3> QED
      BY <1>1, <1>2, <1>5, <1>7, <2>1, <3>1 DEF Progress
  <2>2. CASE job' # <<>>
    <3>1. 0 < Len(job') /\ job' = SubSeq(job', 0 + 1, Len(job'))
      BY <1>6, <2>2
    <3>2. outcome' = "running" /\ 0 \in Nat
      BY <1>1, <2>2
    <3> QED
      BY <1>1, <1>2, <1>5, <1>7, <2>2, <3>1, <3>2 DEF Progress
  <2> QED
    BY <2>1, <2>2
<1>9. Rounds'
  <2>1. home = <<>> /\ round \in {0, 1, 2, 3, 4} /\ (round = 3 => places[<<>>] = BuildPlace(project, files))
    BY <1>1 DEF IInv, Rounds
  <2>2. round' \in {0, 1, 3} /\ (round' = 3 => round = 3 /\ job' # <<>>) /\ home' = <<>>
    BY <1>1, <2>1
  <2>3. round' = 3 => (taken.clean = TRUE /\ taken.place = BuildPlace(project, taken.files))'
    BY <1>1, <1>2, <2>1, <2>2
  <2> QED
    BY <2>2, <2>3 DEF Rounds
<1> QED
  BY <1>4, <1>8, <1>9 DEF IInv

LEMMA WriteScriptKeeps == IInv /\ WriteScript => IInv'
<1> SUFFICES ASSUME IInv, WriteScript PROVE IInv'
  OBVIOUS
<1>1. /\ job # <<>> /\ ~Blocked(Head(job).path)
      /\ files' = TreeWith(files, Head(job).path, Head(job).source)
      /\ job' = Tail(job)
      /\ outcome' = IF Len(job) = 1 THEN "done" ELSE "running"
      /\ round' = IF Len(job) = 1 /\ round \in {1, 3} THEN round + 1 ELSE round
      /\ UNCHANGED <<project, home, places, taken, edits>>
  BY DEF WriteScript, Put, TreeWith
<1>2. PlaceOK(taken.place) /\ IsProject(project) /\ IsTree(files)
  BY ProjectsAreProjects DEF IInv, Shape
<1>3. /\ Writes \in Seq(Range(Writes)) /\ Len(Writes) \in Nat
      /\ \A x \in 1..Len(Writes) : IsFile(Writes[x].path) /\ Writes[x].source # None
  BY <1>2, WritesAreFiles DEF Writes
<1>4. PICK k \in Nat : /\ k < Len(Writes) /\ job = SubSeq(Writes, k + 1, Len(Writes))
                       /\ taken.clean = TRUE => Carries(Writes, k, taken.files, files)
  BY <1>1 DEF IInv, Progress
<1>5. /\ Head(job) = Writes[k + 1] /\ Tail(job) = SubSeq(Writes, k + 2, Len(Writes))
      /\ Len(job) = 1 <=> k + 1 = Len(Writes)
      /\ Tail(job) = <<>> <=> k + 1 = Len(Writes)
  BY <1>3, <1>4, RestOfList
<1>6. Writes' = Writes
  BY <1>1 DEF Writes
<1>7. IsTree(files')
  <2>1. IsFile(Head(job).path) /\ Head(job).source # None
    <3>1. k + 1 \in 1..Len(Writes)
      BY <1>3, <1>4
    <3> QED
      BY <1>3, <1>5, <3>1
  <2> QED
    BY <1>1, <1>2, <2>1, TreeWithFile DEF Blocked
<1>8. Shape'
  BY <1>1, <1>7 DEF IInv, Shape
<1>9. taken.clean = TRUE => Carries(Writes, k + 1, taken.files, files')
  BY <1>1, <1>4, <1>5, CarriesOneMore
<1>10. Progress'
  <2>1. CASE k + 1 = Len(Writes)
    <3>1. job' = <<>> /\ outcome' = "done"
      BY <1>1, <1>5, <2>1
    <3> QED
      BY <1>1, <1>6, <1>9, <2>1, <3>1 DEF Progress
  <2>2. CASE k + 1 # Len(Writes)
    <3>1. outcome' = "running" /\ job' = SubSeq(Writes, k + 2, Len(Writes))
      BY <1>1, <1>5, <2>2
    <3>2. k + 1 \in Nat /\ k + 1 < Len(Writes) /\ (k + 1) + 1 = k + 2
      BY <1>3, <1>4, <2>2
    <3> QED
      BY <1>1, <1>6, <1>9, <3>1, <3>2 DEF Progress
  <2> QED
    BY <2>1, <2>2
<1>11. Rounds'
  <2>1. /\ home = <<>> /\ round \in {0, 1, 3}
        /\ round = 3 => taken.clean = TRUE /\ taken.place = BuildPlace(project, taken.files)
    BY <1>1 DEF IInv, Rounds
  <2>2. CASE Len(job) = 1
    <3>1. job' = <<>> /\ outcome' = "done" /\ round' \in {0, 2, 4} /\ (round' = 4 => round = 3) /\ home' = <<>>
      BY <1>1, <1>5, <2>1, <2>2
    <3>2. round' = 4 => (taken.clean = TRUE /\ taken.place = BuildPlace(project, taken.files))'
      BY <1>1, <2>1, <3>1
    <3> QED
      BY <3>1, <3>2 DEF Rounds
  <2>3. CASE Len(job) # 1
    <3>1. job' # <<>> /\ round' = round /\ home' = <<>>
      BY <1>1, <1>5, <2>1, <2>3
    <3>2. round' = 3 => (taken.clean = TRUE /\ taken.place = BuildPlace(project, taken.files))'
      BY <1>1, <2>1, <3>1
    <3> QED
      BY <2>1, <3>1, <3>2 DEF Rounds
  <2> QED
    BY <2>2, <2>3
<1> QED
  BY <1>8, <1>10, <1>11 DEF IInv

LEMMA WriteFailsKeeps == IInv /\ WriteFails => IInv'
<1> SUFFICES ASSUME IInv, WriteFails PROVE IInv'
  OBVIOUS
<1>1. /\ job # <<>> /\ job' = <<>> /\ outcome' = "failed" /\ round' = 0
      /\ UNCHANGED <<project, home, files, places, taken, edits>>
  BY DEF WriteFails
<1>2. Shape'
  BY <1>1 DEF IInv, Shape
<1>3. Progress'
  BY <1>1 DEF Progress
<1>4. Rounds'
  BY <1>1 DEF IInv, Rounds
<1> QED
  BY <1>2, <1>3, <1>4 DEF IInv

LEMMA IInvHolds == Spec => []IInv
<1>1. Init => IInv
  BY InitIsFine
<1>2. IInv /\ [Next]_vars => IInv'
  <2> SUFFICES ASSUME IInv, [Next]_vars PROVE IInv'
    OBVIOUS
  <2>1. CASE UNCHANGED vars
    <3>1. UNCHANGED <<project, home, files, places, job, taken, outcome, round>>
      BY <2>1 DEF vars
    <3>2. Shape' /\ Writes' = Writes
      BY <3>1 DEF IInv, Shape, Writes
    <3>3. Progress' /\ Rounds'
      BY <3>1, <3>2 DEF IInv, Progress, Rounds
    <3> QED
      BY <3>2, <3>3 DEF IInv
  <2> QED
    BY <2>1, EditFileKeeps, RemoveFileKeeps, BuildKeeps, StudioEditKeeps, StudioAddKeeps,
       StartSyncbackKeeps, WriteScriptKeeps, WriteFailsKeeps DEF Next
<1> QED
  BY <1>1, <1>2, PTL DEF Spec

---------------------------------------------------------------------------
(* What the tree has when a syncback is through.                           *)
Through == outcome = "done" /\ taken.clean = TRUE

LEMMA ThroughIs == IInv => (Through <=> outcome = "done" /\ taken.clean)
  BY DEF IInv, Shape, Through

LastOf(i, f) ==
  \A j \in Written(project, taken.place) : WrittenTo(j) = f => ~DomBefore(i, j)

LEMMA AtTheEnd ==
  ASSUME IInv, Through
  PROVE  /\ IsProject(project) /\ PlaceOK(taken.place) /\ IsTree(files) /\ IsTree(taken.files)
         /\ Carries(Writes, Len(Writes), taken.files, files)
  BY ProjectsAreProjects DEF IInv, Shape, Progress, Through

LEMMA ListOfWrites ==
  ASSUME IInv, Through
  PROVE  \E L : /\ L \in [1..Len(Writes) -> Written(project, taken.place)] /\ Len(Writes) \in Nat
                /\ \A k \in 1..Len(Writes) : Writes[k].path = WrittenTo(L[k]) /\ Writes[k].source = SavedSource(L[k])
                /\ \A i \in Written(project, taken.place) : \E k \in 1..Len(Writes) : L[k] = i
                /\ \A a, b \in 1..Len(Writes) : a < b => DomBefore(L[a], L[b])
<1> DEFINE S == Written(project, taken.place)
<1>1. IsProject(project) /\ PlaceOK(taken.place)
  BY AtTheEnd
<1>2. PICK n, L : Lists(project, taken.place, L, n)
  BY <1>1, WritesAreListed
<1>3. /\ n \in Nat /\ L \in [1..n -> S]
      /\ Writes = [k \in 1..n |-> [path |-> WrittenTo(L[k]), source |-> SavedSource(L[k])]]
      /\ \A i \in S : \E k \in 1..n : L[k] = i
      /\ \A a, b \in 1..n : a < b => DomBefore(L[a], L[b])
  BY <1>2 DEF Lists, Writes, WrittenTo
<1> HIDE DEF S
<1>4. Len(Writes) = n
  <2>1. DOMAIN Writes = 1..n
    BY <1>3
  <2>2. Writes \in Seq(Range(Writes)) /\ Len(Writes) \in Nat
    BY <1>1, WritesAreFiles DEF Writes
  <2>3. 1..n = 1..Len(Writes)
    BY <2>1, <2>2
  <2> QED
    BY <1>3, <2>2, <2>3
<1>5. \A k \in 1..n : Writes[k].path = WrittenTo(L[k]) /\ Writes[k].source = SavedSource(L[k])
  BY <1>3
<1> QED
  BY <1>3, <1>4, <1>5 DEF S

LEMMA DomOrderIsStrict ==
  ASSUME NEW p, NEW place, PlaceOK(place), NEW i \in Written(p, place), NEW j \in Written(p, place)
  PROVE  ~DomBefore(i, i) /\ (DomBefore(i, j) => ~DomBefore(j, i))
<1> DEFINE S == Written(p, place)
<1> DEFINE R == {q \in S \X S : DomBefore(q[1], q[2])}
<1>1. StrictOrder(R, S)
  BY WrittenAreOrdered
<1> HIDE DEF S
<1>2. \A a, b \in S : <<a, b>> \in R <=> DomBefore(a, b)
  OBVIOUS
<1> HIDE DEF R
<1>3. i \in S /\ j \in S
  BY DEF S
<1> QED
  BY <1>1, <1>2, <1>3 DEF StrictOrder

LEMMA LastIsKept ==
  ASSUME IInv, Through, NEW i \in Written(project, taken.place), LastOf(i, WrittenTo(i))
  PROVE  WrittenTo(i) \in DOMAIN files /\ files[WrittenTo(i)] = SavedSource(i)
<1> DEFINE f == WrittenTo(i)
<1> DEFINE n == Len(Writes)
<1>1. PICK L : /\ L \in [1..n -> Written(project, taken.place)] /\ n \in Nat
               /\ \A k \in 1..n : Writes[k].path = WrittenTo(L[k]) /\ Writes[k].source = SavedSource(L[k])
               /\ \A j \in Written(project, taken.place) : \E k \in 1..n : L[k] = j
               /\ \A a, b \in 1..n : a < b => DomBefore(L[a], L[b])
  BY ListOfWrites
<1>2. PICK a \in 1..n : L[a] = i
  BY <1>1
<1>3. f \in DOMAIN files
  BY <1>1, <1>2, AtTheEnd DEF Carries
<1>4. PICK b \in 1..n : /\ Writes[b].path = f /\ files[f] = Writes[b].source
                        /\ \A c \in 1..n : b < c => Writes[c].path # f
  BY <1>1, <1>2, <1>3, AtTheEnd DEF Carries
<1>5. ~(b < a)
  BY <1>1, <1>2, <1>4
<1>6. ~(a < b)
  <2>1. a < b => DomBefore(i, L[b])
    BY <1>1, <1>2
  <2>2. WrittenTo(L[b]) = f /\ L[b] \in Written(project, taken.place)
    BY <1>1, <1>4
  <2> QED
    BY <2>1, <2>2 DEF LastOf
<1>7. a = b
  <2>1. a \in Nat /\ b \in Nat
    BY <1>1
  <2> QED
    BY <1>5, <1>6, <2>1
<1> QED
  BY <1>1, <1>2, <1>3, <1>4, <1>7

LEMMA ChangedByTheLast ==
  ASSUME IInv, Through, NEW f \in DOMAIN taken.files
  PROVE  \/ files[f] = taken.files[f]
         \/ \E i \in Written(project, taken.place) : WrittenTo(i) = f /\ files[f] = SavedSource(i) /\ LastOf(i, f)
<1> DEFINE n == Len(Writes)
<1> DEFINE S == Written(project, taken.place)
<1>1. PICK L : /\ L \in [1..n -> S] /\ n \in Nat
               /\ \A k \in 1..n : Writes[k].path = WrittenTo(L[k]) /\ Writes[k].source = SavedSource(L[k])
               /\ \A j \in S : \E k \in 1..n : L[k] = j
               /\ \A a, b \in 1..n : a < b => DomBefore(L[a], L[b])
  BY ListOfWrites
<1>2. f \in DOMAIN files
  BY AtTheEnd DEF Carries
<1>3. SUFFICES ASSUME files[f] # taken.files[f]
               PROVE  \E i \in S : WrittenTo(i) = f /\ files[f] = SavedSource(i) /\ LastOf(i, f)
  OBVIOUS
<1>4. PICK a \in 1..n : /\ Writes[a].path = f /\ files[f] = Writes[a].source
                        /\ \A b \in 1..n : a < b => Writes[b].path # f
  BY <1>2, <1>3, AtTheEnd DEF Carries
<1>5. L[a] \in S /\ WrittenTo(L[a]) = f /\ files[f] = SavedSource(L[a])
  BY <1>1, <1>4
<1>6. ASSUME NEW j \in S, WrittenTo(j) = f PROVE ~DomBefore(L[a], j)
  <2>1. PICK b \in 1..n : L[b] = j
    BY <1>1
  <2>2. Writes[b].path = f
    BY <1>1, <1>6, <2>1
  <2>3. ~(a < b)
    BY <1>4, <2>2
  <2>4. a = b \/ b < a
    <3>1. a \in Nat /\ b \in Nat
      BY <1>1
    <3> QED
      BY <2>3, <3>1
  <2>5. PlaceOK(taken.place)
    BY AtTheEnd
  <2>6. CASE a = b
    BY <1>5, <2>1, <2>5, <2>6, DomOrderIsStrict
  <2>7. CASE b < a
    <3>1. DomBefore(j, L[a])
      BY <1>1, <2>1, <2>7
    <3> QED
      BY <1>5, <2>5, <3>1, DomOrderIsStrict
  <2> QED
    BY <2>4, <2>6, <2>7
<1> QED
  BY <1>5, <1>6 DEF LastOf

LEMMA HiddenIs == \A f : NotIgnored(project, f) <=> ~Hidden(f)
  BY DEF NotIgnored, Hidden

---------------------------------------------------------------------------
LEMMA SurviveFromInvariant == IInv => ScriptsSurvive
<1> SUFFICES ASSUME IInv, Through, NEW i \in Written(project, taken.place),
                    ~IsMapped(i), Last(i.path) # "init", LastOf(i, WrittenTo(i)),
                    IsInit(Last(WrittenTo(i))) => CountsFirst(WrittenTo(i)), ~Hidden(WrittenTo(i))
             PROVE  \E j \in BuildPlace(project, files) : SameScript(i, j) /\ j.source = SavedSource(i)
  BY ThroughIs DEF ScriptsSurvive, LastOf
<1> DEFINE f == WrittenTo(i)
<1>1. IsProject(project) /\ PlaceOK(taken.place) /\ IsTree(files)
  BY AtTheEnd
<1>2. f \in DOMAIN files /\ files[f] = SavedSource(i)
  BY LastIsKept
<1>3. f = SyncbackPath(project, taken.place, i) /\ NotIgnored(project, f)
  BY HiddenIs DEF WrittenTo
<1>4. \A m \in Range(Mappings(project)) : m.path # i.path
  BY DEF IsMapped
<1> HIDE DEF f
<1>5. PICK j \in BuildPlace(project, files) :
        /\ j.path = i.path
        /\ \/ j.class = i.class /\ j.source = files[f] /\ ~IsInit(Last(f))
           \/ /\ IsInit(Last(f))
              /\ f = InitFile(Front(f), FirstInit(InitsOf(DOMAIN files, Front(f)))) =>
                   j.class = i.class /\ j.source = files[f]
  BY <1>1, <1>2, <1>3, <1>4, WrittenFileIsBuilt
<1>6. IsInit(Last(f)) => f = InitFile(Front(f), FirstInit(InitsOf(DOMAIN files, Front(f))))
  BY DEF CountsFirst, f
<1>7. j.class = i.class /\ j.source = files[f]
  BY <1>5, <1>6
<1> QED
  BY <1>2, <1>5, <1>7 DEF SameScript

(* Of the instances of a script's path, one is another.                    *)
LEMMA ContestedBy ==
  ASSUME NEW p, IsProject(p), NEW tree, IsTree(tree), NEW i \in Written(p, BuildPlace(p, tree)),
         NEW f \in DOMAIN tree, f = SyncbackPath(p, BuildPlace(p, tree), i), NotIgnored(p, f),
         SavedSource(i) # tree[f], tree[f] # None,
         Elsewhere(p, i, f, tree), \A m \in Range(Mappings(p)) : m.path # i.path, Last(i.path) # "init"
  PROVE  ~Uncontested(BuildPlace(p, tree), i)
<1>1. PlaceOK(BuildPlace(p, tree))
  BY BuiltPlacesAreOK
<1>2. PICK j \in BuildPlace(p, tree) :
        /\ j.path = i.path /\ IsScript(j)
        /\ \/ j.source = tree[f]
           \/ IsInit(Last(f)) /\ j.id = Front(f) /\ j.id \notin DOMAIN tree
  BY <1>1, WrittenFileIsBuilt
<1>3. i.source # tree[f]
  BY DEF SavedSource
<1>4. j # i
  BY <1>2, <1>3 DEF Elsewhere, DirectoryOf
<1> QED
  BY <1>2, <1>4 DEF Uncontested

LEMMA UnchangedFromInvariant == IInv => UneditedPlaceChangesNothing
<1> SUFFICES ASSUME IInv, Through, taken.place = BuildPlace(project, taken.files), NEW f \in DOMAIN taken.files,
                    ~Unchanged(f), ~Hidden(f), ~Unreadable(f)
             PROVE  \E i \in Written(project, taken.place) :
                      /\ WrittenTo(i) = f /\ FromElsewhere(i, f)
                      /\ Uncontested(taken.place, i) => IsMapped(i) \/ Last(i.path) = "init"
  BY ThroughIs DEF UneditedPlaceChangesNothing
<1>1. IsProject(project) /\ IsTree(taken.files)
  BY AtTheEnd
<1>2. PICK i \in Written(project, taken.place) : WrittenTo(i) = f /\ files[f] = SavedSource(i) /\ LastOf(i, f)
  BY ChangedByTheLast DEF Unchanged
<1> DEFINE tree == taken.files
<1>3. /\ i \in Written(project, BuildPlace(project, tree)) /\ f = SyncbackPath(project, BuildPlace(project, tree), i)
      /\ SavedSource(i) # tree[f] /\ tree[f] # None /\ NotIgnored(project, f)
      /\ \A j \in Written(project, BuildPlace(project, tree)) :
           SyncbackPath(project, BuildPlace(project, tree), j) = f => ~DomBefore(i, j)
  BY <1>2, HiddenIs DEF Unchanged, Unreadable, LastOf, WrittenTo
<1>4. f \in DOMAIN tree /\ IsTree(tree)
  BY <1>1
<1> HIDE DEF tree
<1>5. Elsewhere(project, i, f, tree)
  BY <1>1, <1>3, <1>4, LastChangeIsFromElsewhere
<1>6. FromElsewhere(i, f)
  BY <1>5 DEF Elsewhere, FromElsewhere, tree
<1>7. ASSUME ~IsMapped(i), Last(i.path) # "init" PROVE ~Uncontested(taken.place, i)
  <2>1. \A m \in Range(Mappings(project)) : m.path # i.path
    BY <1>7 DEF IsMapped
  <2>2. ~Uncontested(BuildPlace(project, tree), i)
    BY <1>1, <1>3, <1>4, <1>5, <1>7, <2>1, ContestedBy
  <2> QED
    BY <2>2 DEF tree
<1> QED
  BY <1>2, <1>6, <1>7

LEMMA SettlesFromInvariant == IInv => RoundTripSettles
<1> SUFFICES ASSUME IInv, round = 4, job = <<>>, NEW f \in DOMAIN taken.files
             PROVE  \/ Unchanged(f) \/ Hidden(f) \/ Unreadable(f)
                    \/ \E i \in Written(project, taken.place) : WrittenTo(i) = f /\ FromElsewhere(i, f)
  BY DEF RoundTripSettles
<1>1. outcome = "done" /\ taken.clean = TRUE /\ taken.place = BuildPlace(project, taken.files)
  BY DEF IInv, Rounds
<1>2. UneditedPlaceChangesNothing
  BY UnchangedFromInvariant
<1> QED
  BY <1>1, <1>2 DEF UneditedPlaceChangesNothing

(* A script that syncback wrote last to its file has its content in the    *)
(* next build, under its instance path and class (ScriptsSurvive), for any *)
(* project, any tree and any place that build made and Studio edited.      *)
THEOREM SyncbackKeepsScripts == Spec => []ScriptsSurvive
  BY IInvHolds, SurviveFromInvariant, PTL

(* Written back, a place nobody touched changes no file but those that     *)
(* are not text and those that scripts from elsewhere are written over     *)
(* (UneditedPlaceChangesNothing): the last script written to a file is the *)
(* file's own, or one of its directory with its content.                   *)
THEOREM SyncbackOfBuildIsQuiet == Spec => []UneditedPlaceChangesNothing
  BY IInvHolds, UnchangedFromInvariant, PTL

(* A second build and syncback leave the files as they are                 *)
(* (RoundTripSettles).                                                     *)
THEOREM SecondRoundIsQuiet == Spec => []RoundTripSettles
  BY IInvHolds, SettlesFromInvariant, PTL
=============================================================================

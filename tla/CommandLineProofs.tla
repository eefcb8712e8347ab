-------------------------- MODULE CommandLineProofs --------------------------
(***************************************************************************)
(* Proofs about the commands that write files, for any number of them and  *)
(* any bounds.                                                             *)
(*                                                                         *)
(* The event log: a snapshot file only ever holds a tree whose event was   *)
(* appended before, or that was kept without one, since an event command   *)
(* that comes to write it is past its append.  While no two take their     *)
(* numbers for one line, the log is n whole events and the pieces of the   *)
(* next, and what is in a file or in a command is the tree of one of them. *)
(* Workbench: a file that is being written is owed the same as one at      *)
(* rest, and what a publish has checked is what its program does no longer *)
(* hold.                                                                   *)
(* BlockStructure: what is added up line by line is the depth; a line is   *)
(* deeper than another of its block exactly while the block is open.  The  *)
(* lines are gone through by least counterexample: a set of numbers has a  *)
(* least one.                                                              *)
(***************************************************************************)
EXTENDS EventLog, Workbench, BlockStructure, SequenceTheorems, FiniteSetTheorems, WellFoundedInduction, TLAPS

-----------------------------------------------------------------------------
(* The event log.                                                          *)

Appended == {"newline", "truncating", "filling"}

LogShape ==
  /\ pc = [c \in Commands |-> pc[c]]
  /\ base = [c \in Commands |-> base[c]]
  /\ made = [c \in Commands |-> made[c]]
  /\ number = [c \in Commands |-> number[c]]
  /\ kept = [f \in SnapshotFiles |-> kept[f]]

AppendedFirst == \A c \in Commands : pc[c] \in Appended => made[c] \in logged \cup shot

LogInv == LogShape /\ AppendedFirst /\ NothingGoesUnlogged

LEMMA LogInvInit == LogInit => LogInv
  BY DEF LogInit, LogInv, LogShape, AppendedFirst, Appended, NothingGoesUnlogged

LEMMA CommandKeepsLog ==
  ASSUME LogInv, NEW c \in Commands, Command(c)
  PROVE  LogInv'
<1> USE DEF LogInv, LogShape, AppendedFirst, Appended, NothingGoesUnlogged
<1>1. CASE ReadPrevious(c)  BY <1>1 DEF ReadPrevious
<1>2. CASE BuildCurrent(c)  BY <1>2 DEF BuildCurrent
<1>3. CASE TakeNumber(c)    BY <1>3 DEF TakeNumber, Leave
<1>4. CASE AppendHead(c)  BY <1>4 DEF AppendHead
<1>5. CASE AppendTail(c)  BY <1>5 DEF AppendTail
<1>6. CASE AppendNewline(c)  BY <1>6 DEF AppendNewline
<1>7. CASE Shoot(c)  BY <1>7 DEF Shoot
<1>8. CASE TruncateSnapshot(c)  BY <1>8 DEF TruncateSnapshot
<1>9. CASE FillSnapshot(c)
  <2>1. made[c] \in logged \cup shot
    BY <1>9 DEF FillSnapshot
  <2>2. PICK content \in {made[c], Torn} : kept' = [kept EXCEPT ![target[c]] = content]
    BY <1>9 DEF FillSnapshot
  <2>3. Leave(c) /\ UNCHANGED <<logged, shot>>
    BY <1>9 DEF FillSnapshot
  <2>4. QED
    BY <2>1, <2>2, <2>3 DEF Leave
<1>10. QED
  BY <1>1, <1>2, <1>3, <1>4, <1>5, <1>6, <1>7, <1>8, <1>9 DEF Command

LEMMA LogStep == LogInv /\ [LogNext]_logVars => LogInv'
<1> SUFFICES ASSUME LogInv, [LogNext]_logVars
             PROVE  LogInv'
  OBVIOUS
<1>1. CASE UNCHANGED logVars
  BY <1>1 DEF logVars, ours, LogInv, LogShape, AppendedFirst, Appended, NothingGoesUnlogged
<1>2. CASE ChangeTree
  BY <1>2 DEF ChangeTree, ours, LogInv, LogShape, AppendedFirst, Appended, NothingGoesUnlogged
<1>3. CASE \E c \in Commands : Kill(c)
  BY <1>3 DEF Kill, Leave, LogInv, LogShape, AppendedFirst, Appended, NothingGoesUnlogged
<1>4. CASE \E c \in Commands : Command(c)
  BY <1>4, CommandKeepsLog
<1>5. QED
  BY <1>1, <1>2, <1>3, <1>4 DEF LogNext

(* For any number of commands, killed at any point and side by side: the   *)
(* tree a snapshot file holds has its event in the log, or the file was    *)
(* written by a command that logs none (command_event appends the event    *)
(* before it writes the snapshot; command_snapshot, command_diff).         *)
THEOREM SnapshotsHaveTheirEvent == LogSpec => []NothingGoesUnlogged
<1>1. LogInv => NothingGoesUnlogged
  BY DEF LogInv
<1>2. QED
  BY LogInvInit, LogStep, <1>1, PTL DEF LogSpec

-----------------------------------------------------------------------------
(* The chain of the events, while no two commands append at once.          *)

Pieces == {Newline} \cup [piece : {"head", "tail"}, seq : Nat, base : Nat, tree : Nat]

LogTypes ==
  /\ current \in Nat /\ shot \subseteq Nat /\ kept \in [SnapshotFiles -> Nat \cup {Torn}]
  /\ pc = [c \in Commands |-> pc[c]] /\ number = [c \in Commands |-> number[c]]
  /\ base \in [Commands -> Nat] /\ made \in [Commands -> Nat]

(* The first n events are whole and numbered from one, and each starts     *)
(* from the tree of an earlier one or from one that was kept without.      *)
BaseOf(pieces, m) == pieces[3 * m - 2].base
TreeOf(pieces, m) == pieces[3 * m - 2].tree
TreesOf(pieces, n) == {TreeOf(pieces, m) : m \in 1 .. n}
Chained(pieces, n) ==
  \A m \in 1 .. n :
     /\ pieces[3 * m - 2] = Half("head", m, BaseOf(pieces, m), TreeOf(pieces, m))
     /\ pieces[3 * m - 1] = Half("tail", m, BaseOf(pieces, m), TreeOf(pieces, m))
     /\ pieces[3 * m] = Newline
Grounded(pieces, n) == \A m \in 1 .. n : BaseOf(pieces, m) \in shot \cup TreesOf(pieces, m - 1)

Known(n) == shot \cup TreesOf(log, n)

(* How far the one command that appends is with the next event.            *)
Doing(c, n) ==
  /\ Len(log) = 3 * n + (CASE pc[c] = "tail" -> 1 [] pc[c] = "newline" -> 2 [] OTHER -> 0)
  /\ number[c] = n + 1
  /\ pc[c] \in {"tail", "newline"} => log[3 * n + 1] = Half("head", n + 1, base[c], made[c])
  /\ pc[c] = "newline" => log[3 * n + 2] = Half("tail", n + 1, base[c], made[c])

Written(n) == log \in Seq(Pieces) /\ 3 * n <= Len(log) /\ Chained(log, n) /\ Grounded(log, n)
Informed(c, n) ==
  /\ pc[c] \in {"building", "numbering", "head", "tail", "newline"} => base[c] \in Known(n)
  /\ pc[c] \in {"truncating", "filling"} => made[c] \in Known(n)
InTurn(n) ==
  /\ \A c \in Commands : pc[c] \in Writing => Doing(c, n) /\ \A d \in Commands \ {c} : pc[d] \notin Writing
  /\ (\A c \in Commands : pc[c] \notin Writing) => Len(log) = 3 * n

Ordered(n) ==
  /\ Written(n) /\ InTurn(n)
  /\ \A f \in SnapshotFiles : kept[f] = Torn \/ kept[f] \in Known(n)
  /\ \A c \in Commands : Informed(c, n)

ChainInv == LogTypes /\ (~disturbed => \E n \in Nat : Ordered(n))

LEMMA HalfIsPiece ==
  ASSUME NEW part \in {"head", "tail"}, NEW n \in Nat, NEW from \in Nat, NEW to \in Nat
  PROVE  /\ Half(part, n, from, to) \in Pieces /\ Half(part, n, from, to) # Newline
         /\ Half(part, n, from, to).piece = part /\ Half(part, n, from, to).seq = n
         /\ Half(part, n, from, to).base = from /\ Half(part, n, from, to).tree = to
  BY DEF Half, Pieces, Newline

LEMMA HalvesAreNoNewlines ==
  \A n, from, to : Half("head", n, from, to) # Newline /\ Half("tail", n, from, to) # Newline
<1>1. Newline.piece = "newline"
  BY DEF Newline
<1>2. \A n, from, to : Half("head", n, from, to).piece = "head" /\ Half("tail", n, from, to).piece = "tail"
  BY DEF Half
<1>3. QED
  BY <1>1, <1>2

LEMMA TreesAreNumbers ==
  ASSUME NEW pieces \in Seq(Pieces), NEW n \in Nat, 3 * n <= Len(pieces), Chained(pieces, n)
  PROVE  TreesOf(pieces, n) \subseteq Nat
<1> SUFFICES ASSUME NEW m \in 1 .. n
             PROVE  pieces[3 * m - 2].tree \in Nat
  BY DEF TreesOf, TreeOf
<1>1. 3 * m - 2 \in 1 .. Len(pieces)
  OBVIOUS
<1>2. pieces[3 * m - 2] \in Pieces
  BY <1>1
<1>3. pieces[3 * m - 2] # Newline
  BY <1>1, HalvesAreNoNewlines DEF Chained
<1>4. QED
  BY <1>2, <1>3 DEF Pieces

(* What is appended leaves the events that are there.                      *)
LEMMA AppendKeepsChain ==
  ASSUME NEW pieces \in Seq(Pieces), NEW n \in Nat, 3 * n <= Len(pieces), Chained(pieces, n),
         Grounded(pieces, n), NEW piece \in Pieces
  PROVE  /\ Append(pieces, piece) \in Seq(Pieces) /\ Len(Append(pieces, piece)) = Len(pieces) + 1
         /\ \A i \in 1 .. Len(pieces) : Append(pieces, piece)[i] = pieces[i]
         /\ Append(pieces, piece)[Len(pieces) + 1] = piece
         /\ Chained(Append(pieces, piece), n) /\ Grounded(Append(pieces, piece), n)
         /\ TreesOf(Append(pieces, piece), n) = TreesOf(pieces, n)
<1> DEFINE longer == Append(pieces, piece)
<1>1. /\ longer \in Seq(Pieces) /\ Len(longer) = Len(pieces) + 1
      /\ \A i \in 1 .. Len(pieces) : longer[i] = pieces[i]
      /\ longer[Len(pieces) + 1] = piece
  OBVIOUS
<1> HIDE DEF longer
<1>2. \A m \in 1 .. n : /\ longer[3 * m - 2] = pieces[3 * m - 2]
                        /\ longer[3 * m - 1] = pieces[3 * m - 1]
                        /\ longer[3 * m] = pieces[3 * m]
  <2>1. \A m \in 1 .. n : {3 * m - 2, 3 * m - 1, 3 * m} \subseteq 1 .. Len(pieces)
    OBVIOUS
  <2>2. QED
    BY <1>1, <2>1
<1>3. \A m \in 1 .. n : TreeOf(longer, m) = TreeOf(pieces, m) /\ BaseOf(longer, m) = BaseOf(pieces, m)
  BY <1>2 DEF TreeOf, BaseOf
<1>4. \A m \in 0 .. n : TreesOf(longer, m) = TreesOf(pieces, m)
  <2> SUFFICES ASSUME NEW m \in 0 .. n
               PROVE  TreesOf(longer, m) = TreesOf(pieces, m)
    OBVIOUS
  <2>1. \A k \in 1 .. m : k \in 1 .. n
    OBVIOUS
  <2>2. QED
    BY <1>3, <2>1 DEF TreesOf
<1>5. Chained(longer, n)
  BY <1>2, <1>3 DEF Chained
<1>6. Grounded(longer, n)
  <2>1. \A m \in 1 .. n : m - 1 \in 0 .. n
    OBVIOUS
  <2>2. QED
    BY <1>3, <1>4, <2>1 DEF Grounded
<1>7. n \in 0 .. n
  OBVIOUS
<1>8. QED
  BY <1>1, <1>4, <1>5, <1>6, <1>7 DEF longer

(* Three pieces more are one event more.                                   *)
LEMMA OneEventMore ==
  ASSUME NEW pieces \in Seq(Pieces), NEW n \in Nat, Len(pieces) = 3 * n + 3, Chained(pieces, n),
         Grounded(pieces, n), NEW from \in shot \cup TreesOf(pieces, n), NEW to,
         pieces[3 * n + 1] = Half("head", n + 1, from, to),
         pieces[3 * n + 2] = Half("tail", n + 1, from, to),
         pieces[3 * n + 3] = Newline
  PROVE  /\ Chained(pieces, n + 1) /\ Grounded(pieces, n + 1)
         /\ TreesOf(pieces, n + 1) = TreesOf(pieces, n) \cup {to}
<1>1. 3 * (n + 1) - 2 = 3 * n + 1 /\ 3 * (n + 1) - 1 = 3 * n + 2 /\ 3 * (n + 1) = 3 * n + 3 /\ (n + 1) - 1 = n
  OBVIOUS
<1>2. TreeOf(pieces, n + 1) = to /\ BaseOf(pieces, n + 1) = from
  BY <1>1 DEF TreeOf, BaseOf, Half
<1>3. 1 .. n + 1 = (1 .. n) \cup {n + 1}
  OBVIOUS
<1>4. Chained(pieces, n + 1)
  BY <1>1, <1>2, <1>3 DEF Chained
<1>5. Grounded(pieces, n + 1)
  BY <1>1, <1>2, <1>3 DEF Grounded
<1>6. TreesOf(pieces, n + 1) = TreesOf(pieces, n) \cup {to}
  BY <1>2, <1>3 DEF TreesOf
<1>7. QED
  BY <1>4, <1>5, <1>6

(* A line ends before the newline that follows its second half.            *)
LEMMA LineEndsThere ==
  ASSUME log \in Seq(Pieces), NEW i \in Nat, i \in 1 .. Len(log), i + 2 \in 1 .. Len(log),
         log[i] # Newline, log[i + 1] # Newline, log[i + 2] = Newline
  PROVE  LineEnd(i) = i + 1
<1> DEFINE Ends(j) == /\ \A k \in i .. j : log[k] # Newline
                      /\ j = Len(log) \/ log[j + 1] = Newline
<1>1. Len(log) \in Nat
  OBVIOUS
<1>2. i + 1 \in i .. Len(log) /\ Ends(i + 1)
  <2>1. (i + 1) + 1 = i + 2 /\ \A k \in i .. i + 1 : k = i \/ k = i + 1
    OBVIOUS
  <2>2. QED
    BY <1>1, <2>1
<1>3. ASSUME NEW j \in i .. Len(log), Ends(j), j # i + 1
      PROVE  FALSE
  <2>1. CASE j = i
    <3>1. j # Len(log)
      BY <1>1, <2>1
    <3>2. QED
      BY <1>3, <2>1, <3>1
  <2>2. CASE j # i
    <3>1. i + 2 \in i .. j
      BY <1>1, <1>3, <2>2
    <3>2. QED
      BY <1>3, <3>1
  <2>3. QED
    BY <2>1, <2>2
<1> HIDE DEF Ends
<1>4. LineEnd(i) = CHOOSE j \in i .. Len(log) : Ends(j)
  BY DEF LineEnd, Ends
<1>5. QED
  BY <1>2, <1>3, <1>4

(* The lines of the log: every event is one, and a line that starts among  *)
(* the events starts with one.                                             *)
LEMMA EventIsLine ==
  ASSUME NEW n \in Nat, log \in Seq(Pieces), 3 * n <= Len(log), Chained(log, n), NEW m \in 1 .. n
  PROVE  /\ LineStart(3 * m - 2) /\ LineEnd(3 * m - 2) = 3 * m - 1
         /\ 3 * m - 2 \in DOMAIN log
         /\ SubSeq(log, 3 * m - 2, 3 * m - 1) \in Lines
         /\ Len(SubSeq(log, 3 * m - 2, 3 * m - 1)) = 2
         /\ SubSeq(log, 3 * m - 2, 3 * m - 1)[1] = Half("head", m, BaseOf(log, m), TreeOf(log, m))
         /\ SubSeq(log, 3 * m - 2, 3 * m - 1)[2] = Half("tail", m, BaseOf(log, m), TreeOf(log, m))
<1> DEFINE i == 3 * m - 2
<1>1. /\ i \in 1 .. Len(log) /\ i + 1 \in 1 .. Len(log) /\ i + 2 \in 1 .. Len(log)
      /\ i + 1 = 3 * m - 1 /\ i + 2 = 3 * m /\ i \in Nat
  OBVIOUS
<1>2. /\ log[i] = Half("head", m, BaseOf(log, m), TreeOf(log, m))
      /\ log[i + 1] = Half("tail", m, BaseOf(log, m), TreeOf(log, m))
      /\ log[i + 2] = Newline
  BY <1>1 DEF Chained
<1>3. log[i] # Newline /\ log[i + 1] # Newline
  BY <1>2, HalvesAreNoNewlines
<1>4. DOMAIN log = 1 .. Len(log) /\ Len(log) \in Nat
  OBVIOUS
<1>5. LineStart(i)
  <2>1. CASE m = 1
    BY <1>1, <1>3, <1>4, <2>1 DEF LineStart
  <2>2. CASE m # 1
    <3>1. m - 1 \in 1 .. n /\ 3 * (m - 1) = i - 1
      BY <2>2
    <3>2. log[i - 1] = Newline
      BY <3>1 DEF Chained
    <3>3. QED
      BY <1>1, <1>3, <1>4, <3>2 DEF LineStart
  <2>3. QED
    BY <2>1, <2>2
<1> HIDE DEF i
<1>6. LineEnd(i) = i + 1
  BY <1>1, <1>2, <1>3, LineEndsThere
<1>7. SubSeq(log, i, i + 1) \in Lines
  BY <1>1, <1>4, <1>5, <1>6 DEF Lines
<1>8. /\ Len(SubSeq(log, i, i + 1)) = 2
      /\ SubSeq(log, i, i + 1)[1] = log[i] /\ SubSeq(log, i, i + 1)[2] = log[i + 1]
  <2>1. i \in 1 .. Len(log) + 1 /\ i + 1 \in i - 1 .. Len(log) /\ (i + 1) - i + 1 = 2
        /\ i + 1 - 1 = i /\ i + 2 - 1 = i + 1
    BY <1>1, <1>4
  <2>2. /\ Len(SubSeq(log, i, i + 1)) = (i + 1) - i + 1
        /\ \A k \in 1 .. (i + 1) - i + 1 : SubSeq(log, i, i + 1)[k] = log[i + k - 1]
    BY <2>1, SubSeqProperties
  <2>3. 1 \in 1 .. (i + 1) - i + 1 /\ 2 \in 1 .. (i + 1) - i + 1
    BY <2>1
  <2>4. SubSeq(log, i, i + 1)[1] = log[i + 1 - 1] /\ SubSeq(log, i, i + 1)[2] = log[i + 2 - 1]
    BY <2>2, <2>3
  <2>5. QED
    BY <2>1, <2>2, <2>4
<1>9. QED
  BY <1>1, <1>2, <1>4, <1>5, <1>6, <1>7, <1>8 DEF i

LEMMA LinesStartWithEvents ==
  ASSUME NEW n \in Nat, log \in Seq(Pieces), 3 * n <= Len(log), Chained(log, n),
         NEW i, LineStart(i), i <= 3 * n
  PROVE  \E m \in 1 .. n : i = 3 * m - 2
<1>1. i \in 1 .. Len(log) /\ log[i] # Newline /\ (i = 1 \/ log[i - 1] = Newline)
  BY DEF LineStart
<1> DEFINE m == (i + 2) \div 3
<1>2. m \in 1 .. n /\ (i = 3 * m - 2 \/ i = 3 * m - 1 \/ i = 3 * m)
  BY <1>1
<1> HIDE DEF m
<1>3. CASE i = 3 * m - 1
  <2>1. i # 1 /\ i - 1 = 3 * m - 2
    BY <1>2, <1>3
  <2>2. log[3 * m - 2] # Newline
    BY <1>2, HalvesAreNoNewlines DEF Chained
  <2>3. QED
    BY <1>1, <2>1, <2>2
<1>4. CASE i = 3 * m
  BY <1>1, <1>2, <1>4 DEF Chained
<1>5. QED
  BY <1>2, <1>3, <1>4

(* The number after the last.                                              *)
LEMMA NumbersGoOn ==
  ASSUME NEW n \in Nat, log \in Seq(Pieces), Len(log) = 3 * n, Chained(log, n)
  PROVE  NextEventSeq = n + 1
<1> DEFINE numbers == {line[1].seq : line \in Lines}
<1>1. \A m \in 1 .. n : m \in numbers
  <2> SUFFICES ASSUME NEW m \in 1 .. n
               PROVE  m \in numbers
    OBVIOUS
  <2> DEFINE line == SubSeq(log, 3 * m - 2, 3 * m - 1)
  <2>1. line \in Lines /\ line[1] = Half("head", m, BaseOf(log, m), TreeOf(log, m))
    <3>1. 3 * n <= Len(log)
      OBVIOUS
    <3>2. QED
      BY <3>1, EventIsLine
  <2>2. line[1].seq = m
    BY <2>1 DEF Half
  <2> HIDE DEF line
  <2>3. QED
    BY <2>1, <2>2
<1>2. \A k \in numbers : k \in 1 .. n
  <2> SUFFICES ASSUME NEW line \in Lines
               PROVE  line[1].seq \in 1 .. n
    OBVIOUS
  <2>1. PICK i \in DOMAIN log : LineStart(i) /\ line = SubSeq(log, i, LineEnd(i))
    BY DEF Lines
  <2>2. i <= 3 * n
    OBVIOUS
  <2>3. PICK m \in 1 .. n : i = 3 * m - 2
    BY <2>1, <2>2, LinesStartWithEvents
  <2>4. line[1] = Half("head", m, BaseOf(log, m), TreeOf(log, m))
    BY <2>1, <2>3, EventIsLine
  <2>5. QED
    BY <2>4 DEF Half
<1>3. n \in numbers \cup {0}
  BY <1>1
<1> HIDE DEF numbers
<1>4. Highest(numbers) = n
  <2>1. \A m \in numbers : m <= n
    BY <1>2
  <2>2. \A k \in numbers \cup {0} : (\A m \in numbers : m <= k) => k = n
    <3> SUFFICES ASSUME NEW k \in numbers \cup {0}, \A m \in numbers : m <= k
                 PROVE  k = n
      OBVIOUS
    <3>1. k \in 0 .. n
      BY <1>2
    <3>2. CASE n = 0
      BY <3>1, <3>2
    <3>3. CASE n # 0
      <4>1. n <= k
        BY <1>3, <3>3
      <4>2. QED
        BY <3>1, <4>1
    <3>4. QED
      BY <3>2, <3>3
  <2>3. QED
    BY <1>3, <2>1, <2>2 DEF Highest
<1>5. QED
  BY <1>4 DEF NextEventSeq, numbers

LEMMA ChainInvInit == LogInit => ChainInv
<1> SUFFICES ASSUME LogInit
             PROVE  ChainInv
  OBVIOUS
<1>1. /\ log = <<>> /\ shot = {} /\ current = 1 /\ kept = [f \in SnapshotFiles |-> Torn]
      /\ pc = [c \in Commands |-> "idle"] /\ number = [c \in Commands |-> 0]
      /\ base = [c \in Commands |-> 0] /\ made = [c \in Commands |-> 0]
  BY DEF LogInit
<1>2. LogTypes
  BY <1>1 DEF LogTypes
<1>3. Written(0)
  BY <1>1 DEF Written, Chained, Grounded
<1>4. InTurn(0) /\ \A c \in Commands : Informed(c, 0)
  BY <1>1 DEF InTurn, Informed, Writing
<1>5. Ordered(0) /\ 0 \in Nat
  BY <1>1, <1>3, <1>4 DEF Ordered
<1>6. QED
  BY <1>2, <1>5 DEF ChainInv

LEMMA CommandKeepsTypes ==
  ASSUME LogTypes, NEW c \in Commands, Command(c)
  PROVE  LogTypes'
<1> USE DEF LogTypes
<1>1. CASE ReadPrevious(c)  BY <1>1 DEF ReadPrevious
<1>2. CASE BuildCurrent(c)  BY <1>2 DEF BuildCurrent
<1>3. CASE TakeNumber(c)
  <2>1. CASE pc' = [pc EXCEPT ![c] = "head"] /\ number' = [number EXCEPT ![c] = NextEventSeq] /\ UNCHANGED <<base, made>>
    BY <1>3, <2>1 DEF TakeNumber
  <2>2. CASE Leave(c)
    BY <1>3, <2>2 DEF TakeNumber, Leave
  <2>3. QED
    BY <1>3, <2>1, <2>2 DEF TakeNumber
<1>4. CASE AppendHead(c)  BY <1>4 DEF AppendHead
<1>5. CASE AppendTail(c)  BY <1>5 DEF AppendTail
<1>6. CASE AppendNewline(c)  BY <1>6 DEF AppendNewline
<1>7. CASE Shoot(c)  BY <1>7 DEF Shoot
<1>8. CASE TruncateSnapshot(c)  BY <1>8 DEF TruncateSnapshot
<1>9. CASE FillSnapshot(c)
  <2>1. PICK content \in {made[c], Torn} : kept' = [kept EXCEPT ![target[c]] = content]
    BY <1>9 DEF FillSnapshot
  <2>2. QED
    BY <1>9, <2>1 DEF FillSnapshot, Leave
<1>10. QED
  BY <1>1, <1>2, <1>3, <1>4, <1>5, <1>6, <1>7, <1>8, <1>9 DEF Command

(* A step that leaves the log alone and forgets no kept tree.              *)
LEMMA LogStands ==
  ASSUME NEW n \in Nat, Written(n), log' = log, shot \subseteq shot'
  PROVE  Written(n)' /\ Known(n) \subseteq Known(n)'
<1>1. Grounded(log, n)'
  BY DEF Written, Grounded
<1>2. QED
  BY <1>1 DEF Written, Known

LEMMA OthersStand ==
  ASSUME NEW n \in Nat, \A c \in Commands : Informed(c, n), Known(n) \subseteq Known(n)',
         NEW c \in Commands,
         \A d \in Commands \ {c} : pc'[d] = pc[d] /\ base'[d] = base[d] /\ made'[d] = made[d],
         Informed(c, n)'
  PROVE  \A d \in Commands : Informed(d, n)'
<1> SUFFICES ASSUME NEW d \in Commands \ {c}
             PROVE  Informed(d, n)'
  OBVIOUS
<1>1. Informed(d, n)
  OBVIOUS
<1>2. QED
  BY <1>1 DEF Informed

(* A command that neither appends nor comes to leaves the turns alone.     *)
LEMMA TurnsStand ==
  ASSUME NEW n \in Nat, InTurn(n), log' = log, NEW c \in Commands,
         pc[c] \notin {"tail", "newline"}, pc'[c] \notin Writing,
         \A d \in Commands \ {c} : pc'[d] = pc[d] /\ base'[d] = base[d] /\ made'[d] = made[d] /\ number'[d] = number[d]
  PROVE  InTurn(n)'
<1>1. \A d \in Commands : pc'[d] \in Writing => d # c /\ pc[d] \in Writing
  OBVIOUS
<1>2. ASSUME NEW d \in Commands, pc'[d] \in Writing
      PROVE  Doing(d, n)' /\ \A e \in Commands \ {d} : pc'[e] \notin Writing
  <2>1. d # c /\ pc[d] \in Writing
    BY <1>1, <1>2
  <2>2. Doing(d, n) /\ \A e \in Commands \ {d} : pc[e] \notin Writing
    BY <2>1 DEF InTurn
  <2>3. Doing(d, n)'
    BY <2>1, <2>2 DEF Doing
  <2>4. QED
    BY <1>1, <2>2, <2>3
<1>3. ASSUME \A d \in Commands : pc'[d] \notin Writing
      PROVE  Len(log') = 3 * n
  <2>1. CASE \E d \in Commands : pc[d] \in Writing
    <3>1. PICK d \in Commands : pc[d] \in Writing
      BY <2>1
    <3>2. d = c
      BY <1>3, <3>1
    <3>3. pc[c] = "head" /\ Doing(c, n)
      BY <3>1, <3>2 DEF Writing, InTurn
    <3>4. Len(log) = 3 * n + 0
      BY <3>3 DEF Doing
    <3>5. QED
      BY <3>4
  <2>2. CASE ~ \E d \in Commands : pc[d] \in Writing
    BY <2>2 DEF InTurn
  <2>3. QED
    BY <2>1, <2>2
<1>4. QED
  BY <1>2, <1>3 DEF InTurn

(* What no event tells stands as it was.                                   *)
LEMMA QuietKeepsOrder ==
  ASSUME LogTypes, NEW n \in Nat, Ordered(n), NEW c \in Commands, log' = log, shot \subseteq shot',
         pc[c] \notin {"tail", "newline"}, pc'[c] \notin Writing,
         \A d \in Commands \ {c} : pc'[d] = pc[d] /\ base'[d] = base[d] /\ made'[d] = made[d] /\ number'[d] = number[d],
         Informed(c, n)',
         \A f \in SnapshotFiles : kept'[f] \in {Torn, kept[f]} \/ kept'[f] \in Known(n)
  PROVE  Ordered(n)'
<1>1. Written(n)' /\ Known(n) \subseteq Known(n)'
  BY LogStands DEF Ordered
<1>2. \A d \in Commands : Informed(d, n)'
  BY <1>1, OthersStand DEF Ordered
<1>3. InTurn(n)'
  BY TurnsStand DEF Ordered
<1>4. QED
  BY <1>1, <1>2, <1>3 DEF Ordered

(* One command goes on with one step.                                      *)
LEMMA CommandKeepsOrder ==
  ASSUME LogTypes, NEW n \in Nat, Ordered(n), NEW c \in Commands, Command(c), ~disturbed'
  PROVE  Ordered(n)' \/ Ordered(n + 1)'
<1>1. /\ log \in Seq(Pieces) /\ 3 * n <= Len(log) /\ Chained(log, n) /\ Grounded(log, n) /\ Len(log) \in Nat
      /\ Informed(c, n) /\ \A f \in SnapshotFiles : kept[f] = Torn \/ kept[f] \in Known(n)
  BY DEF Ordered, Written
<1>2. pc = [d \in Commands |-> pc[d]] /\ number = [d \in Commands |-> number[d]]
      /\ base \in [Commands -> Nat] /\ made \in [Commands -> Nat]
  BY DEF LogTypes
<1>3. pc[c] \in Writing => Doing(c, n) /\ \A d \in Commands \ {c} : pc[d] \notin Writing
  BY DEF Ordered, InTurn
<1>4. CASE ReadPrevious(c)
  <2>1. /\ pc[c] = "idle" /\ pc' = [pc EXCEPT ![c] = "building"]
        /\ \E f \in SnapshotFiles : kept[f] # Torn /\ base' = [base EXCEPT ![c] = kept[f]]
        /\ UNCHANGED <<log, kept, made, number, shot>>
    BY <1>4 DEF ReadPrevious
  <2>2. base'[c] \in Known(n) /\ pc'[c] = "building"
    BY <1>1, <1>2, <2>1
  <2>3. Known(n) = Known(n)'
    BY <2>1 DEF Known
  <2>4. Informed(c, n)'
    BY <2>2, <2>3 DEF Informed
  <2>5. \A d \in Commands \ {c} : pc'[d] = pc[d] /\ base'[d] = base[d] /\ made'[d] = made[d] /\ number'[d] = number[d]
    BY <1>2, <2>1
  <2>6. pc'[c] \notin Writing /\ pc[c] \notin {"tail", "newline"}
    BY <2>1, <2>2 DEF Writing
  <2>7. QED
    BY <2>1, <2>4, <2>5, <2>6, QuietKeepsOrder
<1>5. CASE BuildCurrent(c)
  <2>1. /\ pc[c] = "building" /\ pc' = [pc EXCEPT ![c] = "numbering"] /\ made' = [made EXCEPT ![c] = current]
        /\ UNCHANGED <<log, kept, base, number, shot>>
    BY <1>5 DEF BuildCurrent
  <2>2. base'[c] \in Known(n) /\ pc'[c] = "numbering"
    BY <1>1, <1>2, <2>1 DEF Informed
  <2>3. Known(n) = Known(n)'
    BY <2>1 DEF Known
  <2>4. Informed(c, n)'
    BY <2>2, <2>3 DEF Informed
  <2>5. \A d \in Commands \ {c} : pc'[d] = pc[d] /\ base'[d] = base[d] /\ made'[d] = made[d] /\ number'[d] = number[d]
    BY <1>2, <2>1
  <2>6. pc'[c] \notin Writing /\ pc[c] \notin {"tail", "newline"}
    BY <2>1, <2>2 DEF Writing
  <2>7. QED
    BY <2>1, <2>4, <2>5, <2>6, QuietKeepsOrder
<1>6. CASE TakeNumber(c)
  <2>1. pc[c] = "numbering" /\ UNCHANGED <<log, kept, shot>>
    BY <1>6 DEF TakeNumber
  <2>2. CASE Leave(c)
    <3>1. pc'[c] = "idle"
      BY <1>2, <2>2 DEF Leave
    <3>2. \A d \in Commands \ {c} : pc'[d] = pc[d] /\ base'[d] = base[d] /\ made'[d] = made[d] /\ number'[d] = number[d]
      BY <1>2, <2>2 DEF Leave
    <3>3. Informed(c, n)' /\ pc'[c] \notin Writing /\ pc[c] \notin {"tail", "newline"}
      BY <2>1, <3>1 DEF Informed, Writing
    <3>4. QED
      BY <2>1, <3>2, <3>3, QuietKeepsOrder
  <2>3. CASE /\ number' = [number EXCEPT ![c] = NextEventSeq] /\ pc' = [pc EXCEPT ![c] = "head"]
             /\ UNCHANGED <<base, made>>
             /\ disturbed' = (disturbed \/ \E d \in Commands : pc[d] \in Writing)
    <3>1. \A d \in Commands : pc[d] \notin Writing
      BY <2>3
    <3>2. Len(log) = 3 * n
      BY <3>1 DEF Ordered, InTurn
    <3>3. NextEventSeq = n + 1
      BY <1>1, <3>2, NumbersGoOn
    <3>4. pc'[c] = "head" /\ number'[c] = n + 1 /\ \A d \in Commands \ {c} : pc'[d] = pc[d]
      BY <1>2, <2>3, <3>3
    <3>5. Doing(c, n)'
      <4>1. Len(log') = 3 * n + 0
        BY <2>1, <3>2
      <4>2. QED
        BY <3>4, <4>1 DEF Doing
    <3>6. InTurn(n)'
      BY <3>1, <3>4, <3>5 DEF InTurn, Writing
    <3>7. Written(n)' /\ Known(n) \subseteq Known(n)'
      BY <2>1, LogStands DEF Ordered
    <3>8. Informed(c, n)'
      BY <1>1, <2>1, <2>3, <3>4, <3>7 DEF Informed
    <3>9. \A d \in Commands : Informed(d, n)'
      BY <2>3, <3>4, <3>7, <3>8, OthersStand DEF Ordered
    <3>10. QED
      BY <1>1, <2>1, <3>6, <3>7, <3>9 DEF Ordered
  <2>4. QED
    BY <1>6, <2>2, <2>3 DEF TakeNumber
<1>7. CASE AppendHead(c)
  <2> DEFINE piece == Half("head", number[c], base[c], made[c])
  <2>1. /\ pc[c] = "head" /\ log' = Append(log, piece) /\ pc' = [pc EXCEPT ![c] = "tail"]
        /\ UNCHANGED <<kept, base, made, number, shot>>
    BY <1>7 DEF AppendHead
  <2>2. /\ Len(log) = 3 * n + 0 /\ number[c] = n + 1 /\ base[c] \in Known(n)
        /\ \A d \in Commands \ {c} : pc[d] \notin Writing
    BY <1>1, <1>3, <2>1 DEF Doing, Informed, Writing
  <2>3. piece \in Pieces
    <3>1. number[c] \in Nat /\ base[c] \in Nat /\ made[c] \in Nat
      BY <1>2, <2>2
    <3>2. QED
      BY <3>1, HalfIsPiece
  <2>4. pc'[c] = "tail" /\ \A d \in Commands \ {c} : pc'[d] = pc[d]
    BY <1>2, <2>1
  <2>5. piece = Half("head", n + 1, base[c], made[c])
    BY <2>2
  <2> HIDE DEF piece
  <2>6. /\ log' \in Seq(Pieces) /\ Len(log') = 3 * n + 1 /\ log'[3 * n + 1] = piece
        /\ Chained(log', n) /\ Grounded(log', n) /\ TreesOf(log', n) = TreesOf(log, n)
    <3>1. Len(log) + 1 = 3 * n + 1
      BY <2>2
    <3>2. QED
      BY <1>1, <2>1, <2>3, <3>1, AppendKeepsChain
  <2>7. Written(n)' /\ Known(n)' = Known(n)
    <3>1. Grounded(log, n)'
      BY <2>1, <2>6 DEF Grounded
    <3>2. QED
      BY <2>1, <2>6, <3>1 DEF Written, Known
  <2>8. Doing(c, n)'
    BY <2>1, <2>2, <2>4, <2>5, <2>6 DEF Doing
  <2>9. InTurn(n)'
    BY <2>2, <2>4, <2>8 DEF InTurn, Writing
  <2>10. \A d \in Commands : Informed(d, n)'
    <3>1. Informed(c, n)'
      BY <2>1, <2>2, <2>4, <2>7 DEF Informed
    <3>2. QED
      BY <2>1, <2>4, <2>7, <3>1, OthersStand DEF Ordered
  <2>11. QED
    BY <1>1, <2>1, <2>7, <2>9, <2>10 DEF Ordered
<1>8. CASE AppendTail(c)
  <2> DEFINE piece == Half("tail", number[c], base[c], made[c])
  <2>1. /\ pc[c] = "tail" /\ log' = Append(log, piece) /\ pc' = [pc EXCEPT ![c] = "newline"]
        /\ UNCHANGED <<kept, base, made, number, shot>>
    BY <1>8 DEF AppendTail
  <2>2. /\ Len(log) = 3 * n + 1 /\ number[c] = n + 1 /\ base[c] \in Known(n)
        /\ log[3 * n + 1] = Half("head", n + 1, base[c], made[c])
        /\ \A d \in Commands \ {c} : pc[d] \notin Writing
    BY <1>1, <1>3, <2>1 DEF Doing, Informed, Writing
  <2>3. piece \in Pieces
    <3>1. number[c] \in Nat /\ base[c] \in Nat /\ made[c] \in Nat
      BY <1>2, <2>2
    <3>2. QED
      BY <3>1, HalfIsPiece
  <2>4. pc'[c] = "newline" /\ \A d \in Commands \ {c} : pc'[d] = pc[d]
    BY <1>2, <2>1
  <2>5. piece = Half("tail", n + 1, base[c], made[c])
    BY <2>2
  <2> HIDE DEF piece
  <2>6. /\ log' \in Seq(Pieces) /\ Len(log') = 3 * n + 2 /\ log'[3 * n + 2] = piece
        /\ log'[3 * n + 1] = log[3 * n + 1]
        /\ Chained(log', n) /\ Grounded(log', n) /\ TreesOf(log', n) = TreesOf(log, n)
    <3>1. 3 * n + 1 \in 1 .. Len(log) /\ Len(log) + 1 = 3 * n + 2
      BY <2>2
    <3>2. QED
      BY <1>1, <2>1, <2>3, <3>1, AppendKeepsChain
  <2>7. Written(n)' /\ Known(n)' = Known(n)
    <3>1. Grounded(log, n)'
      BY <2>1, <2>6 DEF Grounded
    <3>2. QED
      BY <2>1, <2>6, <3>1 DEF Written, Known
  <2>8. Doing(c, n)'
    BY <2>1, <2>2, <2>4, <2>5, <2>6 DEF Doing
  <2>9. InTurn(n)'
    BY <2>2, <2>4, <2>8 DEF InTurn, Writing
  <2>10. \A d \in Commands : Informed(d, n)'
    <3>1. Informed(c, n)'
      BY <2>1, <2>2, <2>4, <2>7 DEF Informed
    <3>2. QED
      BY <2>1, <2>4, <2>7, <3>1, OthersStand DEF Ordered
  <2>11. QED
    BY <1>1, <2>1, <2>7, <2>9, <2>10 DEF Ordered
<1>9. CASE AppendNewline(c)
  <2>1. /\ pc[c] = "newline" /\ log' = Append(log, Newline) /\ pc' = [pc EXCEPT ![c] = "truncating"]
        /\ UNCHANGED <<kept, base, made, number, shot>>
    BY <1>9 DEF AppendNewline
  <2>2. /\ Len(log) = 3 * n + 2 /\ base[c] \in Known(n)
        /\ log[3 * n + 1] = Half("head", n + 1, base[c], made[c])
        /\ log[3 * n + 2] = Half("tail", n + 1, base[c], made[c])
        /\ \A d \in Commands \ {c} : pc[d] \notin Writing
    BY <1>1, <1>3, <2>1 DEF Doing, Informed, Writing
  <2>3. pc'[c] = "truncating" /\ \A d \in Commands \ {c} : pc'[d] = pc[d]
    BY <1>2, <2>1
  <2>4. /\ log' \in Seq(Pieces) /\ Len(log') = 3 * n + 3 /\ log'[3 * n + 3] = Newline
        /\ log'[3 * n + 1] = log[3 * n + 1] /\ log'[3 * n + 2] = log[3 * n + 2]
        /\ Chained(log', n) /\ Grounded(log', n) /\ TreesOf(log', n) = TreesOf(log, n)
    <3>1. 3 * n + 1 \in 1 .. Len(log) /\ 3 * n + 2 \in 1 .. Len(log) /\ Len(log) + 1 = 3 * n + 3
      BY <2>2
    <3>2. Newline \in Pieces
      BY DEF Pieces
    <3>3. QED
      BY <1>1, <2>1, <3>1, <3>2, AppendKeepsChain
  <2>5. /\ Chained(log', n + 1) /\ Grounded(log', n + 1)
        /\ TreesOf(log', n + 1) = TreesOf(log, n) \cup {made[c]}
    <3>1. base[c] \in shot \cup TreesOf(log', n)
      BY <2>2, <2>4 DEF Known
    <3>2. /\ log'[3 * n + 1] = Half("head", n + 1, base[c], made[c])
          /\ log'[3 * n + 2] = Half("tail", n + 1, base[c], made[c])
      BY <2>2, <2>4
    <3> DEFINE from == base[c]
               to == made[c]
    <3>3. from \in shot \cup TreesOf(log', n)
      BY <3>1
    <3>4. /\ log'[3 * n + 1] = Half("head", n + 1, from, to)
          /\ log'[3 * n + 2] = Half("tail", n + 1, from, to)
      BY <3>2
    <3> HIDE DEF from, to
    <3>5. /\ Chained(log', n + 1) /\ Grounded(log', n + 1)
          /\ TreesOf(log', n + 1) = TreesOf(log', n) \cup {to}
      BY <2>4, <3>3, <3>4, OneEventMore
    <3>6. QED
      BY <2>4, <3>5 DEF to
  <2>6. Len(log') = 3 * (n + 1) /\ n + 1 \in Nat
    BY <2>4
  <2>7. Written(n + 1)' /\ Known(n + 1)' = Known(n) \cup {made[c]}
    <3>1. Grounded(log, n + 1)'
      BY <2>1, <2>5 DEF Grounded
    <3>2. QED
      BY <2>1, <2>4, <2>5, <2>6, <3>1 DEF Written, Known
  <2>8. InTurn(n + 1)'
    BY <2>2, <2>3, <2>6 DEF InTurn, Writing
  <2>9. ASSUME NEW d \in Commands
        PROVE  Informed(d, n + 1)'
    <3>1. CASE d = c
      BY <2>1, <2>3, <2>7, <3>1 DEF Informed
    <3>2. CASE d # c
      <4>1. Informed(d, n) /\ pc'[d] = pc[d] /\ base'[d] = base[d] /\ made'[d] = made[d]
        BY <2>1, <2>3, <3>2 DEF Ordered
      <4>2. QED
        BY <2>7, <4>1 DEF Informed
    <3>3. QED
      BY <3>1, <3>2
  <2>10. QED
    BY <1>1, <2>1, <2>7, <2>8, <2>9 DEF Ordered
<1>10. CASE Shoot(c)
  <2>1. /\ pc[c] = "idle" /\ pc' = [pc EXCEPT ![c] = "truncating"] /\ made' = [made EXCEPT ![c] = current]
        /\ shot' = shot \cup {current} /\ UNCHANGED <<log, kept, base, number>>
    BY <1>10 DEF Shoot
  <2>2. made'[c] \in Known(n)' /\ pc'[c] = "truncating"
    BY <1>2, <2>1 DEF Known
  <2>3. Informed(c, n)'
    BY <2>2 DEF Informed
  <2>4. \A d \in Commands \ {c} : pc'[d] = pc[d] /\ base'[d] = base[d] /\ made'[d] = made[d] /\ number'[d] = number[d]
    BY <1>2, <2>1
  <2>5. pc'[c] \notin Writing /\ pc[c] \notin {"tail", "newline"}
    BY <2>1, <2>2 DEF Writing
  <2>6. QED
    BY <2>1, <2>3, <2>4, <2>5, QuietKeepsOrder
<1>11. CASE TruncateSnapshot(c)
  <2>1. /\ pc[c] = "truncating" /\ pc' = [pc EXCEPT ![c] = "filling"]
        /\ \E f \in SnapshotFiles : kept' = [kept EXCEPT ![f] = Torn]
        /\ UNCHANGED <<log, base, made, number, shot>>
    BY <1>11 DEF TruncateSnapshot
  <2>2. pc'[c] = "filling" /\ Known(n)' = Known(n) /\ made[c] \in Known(n)
    BY <1>1, <1>2, <2>1 DEF Known, Informed
  <2>3. Informed(c, n)'
    BY <2>1, <2>2 DEF Informed
  <2>4. \A d \in Commands \ {c} : pc'[d] = pc[d] /\ base'[d] = base[d] /\ made'[d] = made[d] /\ number'[d] = number[d]
    BY <1>2, <2>1
  <2>5. \A f \in SnapshotFiles : kept'[f] \in {Torn, kept[f]}
    BY <2>1 DEF LogTypes
  <2>6. pc'[c] \notin Writing /\ pc[c] \notin {"tail", "newline"}
    BY <2>1, <2>2 DEF Writing
  <2>7. QED
    BY <2>1, <2>3, <2>4, <2>5, <2>6, QuietKeepsOrder
<1>12. CASE FillSnapshot(c)
  <2>1. pc[c] = "filling" /\ Leave(c) /\ UNCHANGED <<log, shot>>
    BY <1>12 DEF FillSnapshot
  <2>2. PICK content \in {made[c], Torn} : kept' = [kept EXCEPT ![target[c]] = content]
    BY <1>12 DEF FillSnapshot
  <2>3. pc'[c] = "idle" /\ made[c] \in Known(n)
    BY <1>1, <1>2, <2>1 DEF Leave, Informed
  <2>4. \A d \in Commands \ {c} : pc'[d] = pc[d] /\ base'[d] = base[d] /\ made'[d] = made[d] /\ number'[d] = number[d]
    BY <1>2, <2>1 DEF Leave
  <2>5. \A f \in SnapshotFiles : kept'[f] \in {Torn, kept[f]} \/ kept'[f] \in Known(n)
    BY <2>2, <2>3 DEF LogTypes
  <2>6. Informed(c, n)' /\ pc'[c] \notin Writing /\ pc[c] \notin {"tail", "newline"}
    BY <2>1, <2>3 DEF Writing, Informed
  <2>7. QED
    BY <2>1, <2>4, <2>5, <2>6, QuietKeepsOrder
<1>13. QED
  BY <1>4, <1>5, <1>6, <1>7, <1>8, <1>9, <1>10, <1>11, <1>12 DEF Command

LEMMA KillKeepsOrder ==
  ASSUME LogTypes, NEW n \in Nat, Ordered(n), NEW c \in Commands, Kill(c), ~disturbed'
  PROVE  Ordered(n)'
<1>1. Leave(c) /\ pc[c] \notin {"tail", "newline"} /\ UNCHANGED <<log, kept, shot>>
  BY DEF Kill
<1>2. pc'[c] = "idle"
  BY <1>1 DEF Leave, LogTypes
<1>3. \A d \in Commands \ {c} : pc'[d] = pc[d] /\ base'[d] = base[d] /\ made'[d] = made[d] /\ number'[d] = number[d]
  BY <1>1 DEF Leave, LogTypes
<1>4. Informed(c, n)' /\ pc'[c] \notin Writing
  BY <1>2 DEF Informed, Writing
<1>5. QED
  BY <1>1, <1>3, <1>4, QuietKeepsOrder

LEMMA ChainStep == ChainInv /\ [LogNext]_logVars => ChainInv'
<1> SUFFICES ASSUME ChainInv, [LogNext]_logVars
             PROVE  ChainInv'
  OBVIOUS
<1>1. ASSUME UNCHANGED <<log, kept, ours, shot, disturbed>>, current' \in Nat
      PROVE  ChainInv'
  <2>1. UNCHANGED <<pc, base, made, number>>
    BY <1>1 DEF ours
  <2>2. LogTypes'
    BY <1>1, <2>1 DEF ChainInv, LogTypes
  <2>3. ASSUME NEW n \in Nat, Ordered(n)
        PROVE  Ordered(n)'
    <3>1. Written(n)' /\ Known(n)' = Known(n)
      BY <1>1, <2>3 DEF Ordered, Written, Grounded, Known
    <3>2. InTurn(n)'
      BY <1>1, <2>1, <2>3 DEF Ordered, InTurn, Doing
    <3>3. \A c \in Commands : Informed(c, n)'
      BY <2>1, <2>3, <3>1 DEF Ordered, Informed
    <3>4. QED
      BY <1>1, <2>3, <3>1, <3>2, <3>3 DEF Ordered
  <2>4. QED
    BY <1>1, <2>2, <2>3 DEF ChainInv
<1>2. CASE UNCHANGED logVars
  BY <1>1, <1>2 DEF logVars, ChainInv, LogTypes
<1>3. CASE ChangeTree
  BY <1>1, <1>3 DEF ChangeTree, ChainInv, LogTypes
<1>4. ASSUME NEW c \in Commands, Kill(c)
      PROVE  ChainInv'
  <2>1. LogTypes'
    BY <1>4 DEF Kill, Leave, ChainInv, LogTypes
  <2>2. disturbed => disturbed'
    BY <1>4 DEF Kill
  <2>3. QED
    BY <1>4, <2>1, <2>2, KillKeepsOrder DEF ChainInv
<1>5. ASSUME NEW c \in Commands, Command(c)
      PROVE  ChainInv'
  <2>1. LogTypes'
    BY <1>5, CommandKeepsTypes DEF ChainInv
  <2>2. disturbed => disturbed'
    BY <1>5 DEF Command, ReadPrevious, BuildCurrent, TakeNumber, AppendHead, AppendTail,
                AppendNewline, Shoot, TruncateSnapshot, FillSnapshot
  <2>3. \A n \in Nat : n + 1 \in Nat
    OBVIOUS
  <2>4. QED
    BY <1>5, <2>1, <2>2, <2>3, CommandKeepsOrder DEF ChainInv
<1>6. QED
  BY <1>2, <1>3, <1>4, <1>5 DEF LogNext

(* Every line is an event, be it the last one, without its newline yet.    *)
LEMMA EventsAreNumbered ==
  ASSUME NEW n \in Nat, Ordered(n), NEW i \in DOMAIN log, LineStart(i)
  PROVE  \E m \in 1 .. n + 1 : /\ i = 3 * m - 2 /\ log[i].seq = m
                               /\ log[i].base \in shot \cup TreesOf(log, m - 1)
<1>1. log \in Seq(Pieces) /\ 3 * n <= Len(log) /\ Chained(log, n) /\ Grounded(log, n) /\ Len(log) \in Nat
      /\ i \in 1 .. Len(log)
  BY DEF Ordered, Written
<1>2. CASE i <= 3 * n
  <2>1. PICK m \in 1 .. n : i = 3 * m - 2
    BY <1>1, <1>2, LinesStartWithEvents
  <2>2. log[i] = Half("head", m, BaseOf(log, m), TreeOf(log, m)) /\ BaseOf(log, m) \in shot \cup TreesOf(log, m - 1)
    BY <1>1, <2>1 DEF Chained, Grounded
  <2>3. log[i].seq = m /\ log[i].base = BaseOf(log, m) /\ m \in 1 .. n + 1
    BY <2>2 DEF Half
  <2>4. QED
    BY <2>1, <2>2, <2>3
<1>3. CASE i > 3 * n
  <2>1. PICK c \in Commands : pc[c] \in Writing /\ Doing(c, n)
    BY <1>1, <1>3 DEF Ordered, InTurn
  <2>2. pc[c] \in {"tail", "newline"} /\ Len(log) \in {3 * n + 1, 3 * n + 2}
    BY <1>1, <1>3, <2>1 DEF Doing, Writing
  <2>3. log[3 * n + 1] = Half("head", n + 1, base[c], made[c]) /\ base[c] \in Known(n)
    BY <2>1, <2>2 DEF Doing, Ordered, Informed
  <2>4. i = 3 * n + 1
    <3>1. log[3 * n + 1] # Newline
      BY <2>3, HalvesAreNoNewlines
    <3>2. CASE i = 3 * n + 2
      <4>1. i # 1 /\ i - 1 = 3 * n + 1
        BY <3>2
      <4>2. QED
        BY <3>1, <4>1 DEF LineStart
    <3>3. QED
      BY <1>1, <1>3, <2>2, <3>2
  <2>5. log[i].seq = n + 1 /\ log[i].base \in shot \cup TreesOf(log, n)
    BY <2>3, <2>4 DEF Half, Known
  <2>6. n + 1 \in 1 .. n + 1 /\ (n + 1) - 1 = n /\ i = 3 * (n + 1) - 2
    BY <2>4
  <2>7. QED
    BY <2>5, <2>6
<1>4. QED
  BY <1>1, <1>2, <1>3

LEMMA WholeEvents ==
  ASSUME NEW n \in Nat, Ordered(n), NEW m \in 1 .. n
  PROVE  3 * m - 2 \in Events /\ log[3 * m - 2].seq = m /\ log[3 * m - 2].tree = TreeOf(log, m)
<1> DEFINE i == 3 * m - 2
           line == SubSeq(log, 3 * m - 2, 3 * m - 1)
<1>1. log \in Seq(Pieces) /\ 3 * n <= Len(log) /\ Chained(log, n)
  BY DEF Ordered, Written
<1>2. /\ LineStart(i) /\ LineEnd(i) = 3 * m - 1 /\ i \in DOMAIN log /\ Len(line) = 2
      /\ line[1] = Half("head", m, BaseOf(log, m), TreeOf(log, m))
      /\ line[2] = Half("tail", m, BaseOf(log, m), TreeOf(log, m))
  BY <1>1, EventIsLine
<1>3. log[i] = Half("head", m, BaseOf(log, m), TreeOf(log, m))
  BY <1>1 DEF Chained
<1> HIDE DEF line
<1>4. Parses(line)
  BY <1>2 DEF Parses, Half
<1>5. line = SubSeq(log, i, LineEnd(i))
  BY <1>2 DEF line
<1> HIDE DEF i
<1>6. i \in Events
  BY <1>2, <1>4, <1>5 DEF Events
<1>7. log[i].seq = m
  BY <1>3 DEF Half
<1>8. QED
  BY <1>6, <1>7 DEF i, TreeOf

(* For any number of commands, side by side as long as none takes its      *)
(* number while another appends and none is killed within a line: the      *)
(* events in the log are numbered from one without a gap, in order, and    *)
(* each starts from the tree of an earlier one or from one that was kept   *)
(* without an event (next_event_seq, append_event, command_event).         *)
THEOREM EventsFormAChain == LogSpec => []EventsChain
<1>1. ChainInv => EventsChain
  <2> SUFFICES ASSUME ChainInv, ~disturbed, NEW i \in Events
               PROVE  /\ log[i].seq = 1 \/ \E k \in Events : k < i /\ log[k].seq + 1 = log[i].seq
                      /\ \A k \in Events : k < i => log[k].seq < log[i].seq
                      /\ log[i].base \in shot \/ \E k \in Events : k < i /\ log[k].tree = log[i].base
    BY DEF EventsChain
  <2>1. PICK n \in Nat : Ordered(n)
    BY DEF ChainInv
  <2>2. PICK m \in 1 .. n + 1 : /\ i = 3 * m - 2 /\ log[i].seq = m
                                /\ log[i].base \in shot \cup TreesOf(log, m - 1)
    BY <2>1, EventsAreNumbered DEF Events
  <2>3. \A j \in 1 .. m - 1 : j \in 1 .. n /\ 3 * j - 2 < i
    BY <2>2
  <2>4. \A j \in 1 .. m - 1 : 3 * j - 2 \in Events /\ log[3 * j - 2].seq = j /\ log[3 * j - 2].tree = TreeOf(log, j)
    BY <2>1, <2>3, WholeEvents
  <2>5. log[i].seq = 1 \/ \E k \in Events : k < i /\ log[k].seq + 1 = log[i].seq
    <3>1. CASE m # 1
      <4>1. m - 1 \in 1 .. m - 1 /\ (m - 1) + 1 = m
        BY <3>1
      <4>2. QED
        BY <2>2, <2>3, <2>4, <4>1
    <3>2. QED
      BY <2>2, <3>1
  <2>6. ASSUME NEW k \in Events, k < i
        PROVE  log[k].seq < log[i].seq
    <3>1. PICK j \in 1 .. n + 1 : k = 3 * j - 2 /\ log[k].seq = j
      BY <2>1, EventsAreNumbered DEF Events
    <3>2. j < m
      BY <2>2, <2>6, <3>1
    <3>3. QED
      BY <2>2, <3>1, <3>2
  <2>7. log[i].base \in shot \/ \E k \in Events : k < i /\ log[k].tree = log[i].base
    <3>1. CASE log[i].base \in TreesOf(log, m - 1)
      <4>1. PICK j \in 1 .. m - 1 : log[i].base = TreeOf(log, j)
        BY <3>1 DEF TreesOf
      <4>2. QED
        BY <2>3, <2>4, <4>1
    <3>2. QED
      BY <2>2, <3>1
  <2>8. QED
    BY <2>5, <2>6, <2>7
<1>2. QED
  BY ChainInvInit, ChainStep, <1>1, PTL DEF LogSpec

-----------------------------------------------------------------------------
(* The workbench: types.                                                   *)

Marks == {"parses", "stub", "described", "complete", "lenient", "tidy", "strict", "line", "icon"} \cup Registries
Authors == {"nobody", "init", "migrate", "install", "plugin", "login", "developer"}
Texts == [by : Authors, version : Nat, form : SUBSET Marks]
Ops == {"create", "load", "realm", "fields", "replace", "context", "metadata", "format", "fix",
        "check", "validate", "pack", "migrate", "login", "install", "icon"}
Steps == Ops \X Files

BenchTypes ==
  /\ disk \in [Files -> Texts]
  /\ todo \in [Workers -> Seq(Steps)]
  /\ writing \in [Workers -> {<<>>} \cup (Files \X Texts)]
  /\ held \in [Workers -> Texts]
  /\ context \in [Workers -> Texts]
  /\ package \in [Workers -> Texts]
  /\ judged \in [Workers -> SUBSET (Texts \X Texts)]
  /\ saved \in [Files -> Nat]
  /\ granted \subseteq Registries \cup {"icon"}

(* What each program may hold: init creates only files of the scaffold,    *)
(* and what is packed is packed last.                                      *)
Proper(program) ==
  /\ program \in Seq(Steps)
  /\ \A i \in 1 .. Len(program) :
        /\ program[i][1] = "create" => program[i][2] \in DOMAIN Saves
        /\ program[i][1] = "pack" => i = Len(program)
Holds(program, op) == \E i \in 1 .. Len(program) : program[i][1] = op

LEMMA TextIsOne ==
  ASSUME NEW by \in Authors, NEW version \in Nat, NEW form \in SUBSET Marks
  PROVE  Text(by, version, form) \in Texts
  BY DEF Text, Texts

LEMMA ScaffoldTypes ==
  /\ DOMAIN Saves = {"project", "config", "script", "tests"}
  /\ DOMAIN Saves \subseteq Files
  /\ \A f \in DOMAIN Saves : Scaffold[f] \in Texts /\ Scaffold[f].by = "init" /\ Scaffold[f].form # {}
  /\ \A f \in DOMAIN Saves : \A form \in Saves[f] : form \in SUBSET Marks /\ form # {}
  /\ Absent \in Texts /\ Absent.by = "nobody" /\ Absent.form = {}
  /\ Migrated \in Texts /\ Migrated.by = "migrate" /\ Migrated.form # {}
  /\ Installed \in Texts
<1>1. DOMAIN Saves = {"project", "config", "script", "tests"} /\ DOMAIN Saves \subseteq Files
  BY DEF Saves, Files
<1>2. ASSUME NEW f \in DOMAIN Saves
      PROVE  Scaffold[f] \in Texts /\ Scaffold[f].by = "init" /\ Scaffold[f].form # {}
  <2>1. Scaffold["project"] = Text("init", 0, {"parses"})
    BY DEF Scaffold
  <2>2. Scaffold["config"] = Text("init", 0, {"parses", "stub"})
    BY DEF Scaffold
  <2>3. Scaffold["script"] = Text("init", 0, {"parses", "tidy", "strict"})
    BY DEF Scaffold
  <2>4. Scaffold["tests"] = Text("init", 0, {"parses", "tidy", "strict"})
    BY DEF Scaffold
  <2>5. QED
    BY <1>1, <2>1, <2>2, <2>3, <2>4 DEF Text, Texts, Marks, Authors
<1>3. ASSUME NEW f \in DOMAIN Saves, NEW form \in Saves[f]
      PROVE  form \in SUBSET Marks /\ form # {}
  <2>1. CASE f = "project"
    BY <2>1 DEF Saves, Marks
  <2>2. CASE f = "config"
    BY <2>2 DEF Saves, Marks
  <2>3. CASE f = "script"
    BY <2>3 DEF Saves, Marks
  <2>4. CASE f = "tests"
    BY <2>4 DEF Saves, Marks
  <2>5. QED
    BY <1>1, <2>1, <2>2, <2>3, <2>4
<1>4. /\ Absent \in Texts /\ Absent.by = "nobody" /\ Absent.form = {}
      /\ Migrated \in Texts /\ Migrated.by = "migrate" /\ Migrated.form # {}
      /\ Installed \in Texts
  BY DEF Text, Texts, Marks, Authors, Absent, Migrated, Installed
<1>5. QED
  BY <1>1, <1>2, <1>3, <1>4

LEMMA EmptiedTypes ==
  \A f \in Files : Emptied(f) \in Texts /\ (f \in {"config", "script", "tests"} => Emptied(f).form # {})
  BY DEF Emptied, Text, Texts, Files, Marks, Authors

(* A program one after the other holds what the two hold.                  *)
LEMMA JoinedIsProper ==
  ASSUME NEW first, NEW second, Proper(first), Proper(second), ~Holds(first, "pack")
  PROVE  /\ Proper(first \o second)
         /\ \A op : Holds(first \o second, op) <=> Holds(first, op) \/ Holds(second, op)
<1> DEFINE both == first \o second
<1>1. first \in Seq(Steps) /\ second \in Seq(Steps) /\ Len(first) \in Nat /\ Len(second) \in Nat
  BY DEF Proper
<1>2. /\ both \in Seq(Steps) /\ Len(both) = Len(first) + Len(second)
      /\ \A i \in 1 .. Len(both) : both[i] = IF i <= Len(first) THEN first[i] ELSE second[i - Len(first)]
  BY <1>1, ConcatProperties
<1> HIDE DEF both
<1>3. Proper(both)
  <2> SUFFICES ASSUME NEW i \in 1 .. Len(both)
               PROVE  /\ both[i][1] = "create" => both[i][2] \in DOMAIN Saves
                      /\ both[i][1] = "pack" => i = Len(both)
    BY <1>2 DEF Proper
  <2>1. CASE i <= Len(first)
    <3>1. i \in 1 .. Len(first) /\ both[i] = first[i]
      BY <1>1, <1>2, <2>1
    <3>2. QED
      BY <3>1 DEF Proper, Holds
  <2>2. CASE i > Len(first)
    <3>1. i - Len(first) \in 1 .. Len(second) /\ both[i] = second[i - Len(first)]
      BY <1>1, <1>2, <2>2
    <3>2. /\ second[i - Len(first)][1] = "create" => second[i - Len(first)][2] \in DOMAIN Saves
          /\ second[i - Len(first)][1] = "pack" => i - Len(first) = Len(second)
      BY <3>1 DEF Proper
    <3>3. QED
      BY <1>1, <1>2, <3>1, <3>2
  <2>3. QED
    BY <1>1, <1>2, <2>1, <2>2
<1>4. ASSUME NEW op
      PROVE  Holds(both, op) <=> Holds(first, op) \/ Holds(second, op)
  <2>1. ASSUME Holds(first, op)
        PROVE  Holds(both, op)
    <3>1. PICK i \in 1 .. Len(first) : first[i][1] = op
      BY <2>1 DEF Holds
    <3>2. i \in 1 .. Len(both) /\ both[i] = first[i]
      BY <1>1, <1>2
    <3>3. QED
      BY <3>1, <3>2 DEF Holds
  <2>2. ASSUME Holds(second, op)
        PROVE  Holds(both, op)
    <3>1. PICK i \in 1 .. Len(second) : second[i][1] = op
      BY <2>2 DEF Holds
    <3>2. i + Len(first) \in 1 .. Len(both) /\ ~(i + Len(first) <= Len(first)) /\ (i + Len(first)) - Len(first) = i
      BY <1>1, <1>2
    <3>3. both[i + Len(first)] = second[i]
      BY <3>2, <1>2
    <3>4. QED
      BY <3>1, <3>2, <3>3 DEF Holds
  <2>3. ASSUME Holds(both, op)
        PROVE  Holds(first, op) \/ Holds(second, op)
    <3>1. PICK i \in 1 .. Len(both) : both[i][1] = op
      BY <2>3 DEF Holds
    <3>2. \/ i \in 1 .. Len(first) /\ both[i] = first[i]
          \/ i - Len(first) \in 1 .. Len(second) /\ both[i] = second[i - Len(first)]
      BY <1>1, <1>2
    <3>3. QED
      BY <3>1, <3>2 DEF Holds
  <2>4. QED
    BY <2>1, <2>2, <2>3
<1>5. QED
  BY <1>3, <1>4 DEF both

LEMMA ShortPrograms ==
  /\ Proper(RunInit) /\ ~Holds(RunInit, "pack") /\ ~Holds(RunInit, "replace")
  /\ Proper(Fmt) /\ ~Holds(Fmt, "pack") /\ ~Holds(Fmt, "replace")
  /\ Proper(FmtCheck) /\ ~Holds(FmtCheck, "pack") /\ ~Holds(FmtCheck, "replace") /\ Holds(FmtCheck, "check")
  /\ Proper(ValidateOnly) /\ ~Holds(ValidateOnly, "pack") /\ ~Holds(ValidateOnly, "replace") /\ Holds(ValidateOnly, "validate")
  /\ Proper(ValidateFix) /\ ~Holds(ValidateFix, "pack") /\ ~Holds(ValidateFix, "replace")
<1> USE DEF Proper, Holds, Steps, Ops, Files
<1>1. Proper(RunInit) /\ ~Holds(RunInit, "pack") /\ ~Holds(RunInit, "replace")
  BY ScaffoldTypes DEF RunInit
<1>2. Proper(Fmt) /\ ~Holds(Fmt, "pack") /\ ~Holds(Fmt, "replace")
  BY DEF Fmt
<1>3. Proper(FmtCheck) /\ ~Holds(FmtCheck, "pack") /\ ~Holds(FmtCheck, "replace")
  BY DEF FmtCheck
<1>4. Proper(ValidateOnly) /\ ~Holds(ValidateOnly, "pack") /\ ~Holds(ValidateOnly, "replace")
  BY DEF ValidateOnly
<1>5. Proper(ValidateFix) /\ ~Holds(ValidateFix, "pack") /\ ~Holds(ValidateFix, "replace")
  BY DEF ValidateFix
<1>6. Holds(FmtCheck, "check") /\ Holds(ValidateOnly, "validate")
  <2>1. 3 \in 1 .. Len(FmtCheck) /\ FmtCheck[3][1] = "check"
    BY DEF FmtCheck
  <2>2. 3 \in 1 .. Len(ValidateOnly) /\ ValidateOnly[3][1] = "validate"
    BY DEF ValidateOnly
  <2>3. QED
    BY <2>1, <2>2
<1>7. QED
  BY <1>1, <1>2, <1>3, <1>4, <1>5, <1>6

LEMMA PublishChecksFirst ==
  /\ Proper(Publish) /\ ~Holds(Publish, "replace")
  /\ \A op \in {"metadata", "check", "validate"} : Holds(Publish, op)
<1> DEFINE start == <<<<"context", "config">>, <<"metadata", "config">>>>
           last == <<<<"pack", "script">>>>
<1>1. Proper(start) /\ ~Holds(start, "pack") /\ ~Holds(start, "replace") /\ Holds(start, "metadata")
  <2>1. Proper(start) /\ ~Holds(start, "pack") /\ ~Holds(start, "replace")
    BY DEF Proper, Holds, Steps, Ops, Files
  <2>2. 2 \in 1 .. Len(start) /\ start[2][1] = "metadata"
    OBVIOUS
  <2>3. QED
    BY <2>1, <2>2 DEF Holds
<1>2. Proper(last) /\ ~Holds(last, "replace")
  BY DEF Proper, Holds, Steps, Ops, Files
<1>3. Publish = ((start \o FmtCheck) \o ValidateOnly) \o last
  BY DEF Publish
<1> HIDE DEF start, last
<1>4. /\ Proper(start \o FmtCheck) /\ ~Holds(start \o FmtCheck, "pack") /\ ~Holds(start \o FmtCheck, "replace")
      /\ Holds(start \o FmtCheck, "metadata") /\ Holds(start \o FmtCheck, "check")
  BY <1>1, ShortPrograms, JoinedIsProper
<1> DEFINE checked == start \o FmtCheck
<1> HIDE DEF checked
<1>5. /\ Proper(checked \o ValidateOnly) /\ ~Holds(checked \o ValidateOnly, "pack")
      /\ ~Holds(checked \o ValidateOnly, "replace")
      /\ \A op \in {"metadata", "check", "validate"} : Holds(checked \o ValidateOnly, op)
  BY <1>4, ShortPrograms, JoinedIsProper DEF checked
<1> DEFINE valid == checked \o ValidateOnly
<1> HIDE DEF valid
<1>6. /\ Proper(valid \o last) /\ ~Holds(valid \o last, "replace")
      /\ \A op \in {"metadata", "check", "validate"} : Holds(valid \o last, op)
  BY <1>2, <1>5, JoinedIsProper DEF valid
<1>7. QED
  BY <1>3, <1>6 DEF valid, checked

LEMMA ProgramsAreProper ==
  ASSUME NEW command \in DOMAIN Program
  PROVE  /\ Proper(Program[command])
         /\ Holds(Program[command], "replace") => command = "plugin"
         /\ Holds(Program[command], "pack") =>
              \A op \in {"metadata", "check", "validate"} : Holds(Program[command], op)
<1> USE DEF Proper, Holds, Steps, Ops, Files
<1>1. CASE command \in {"init", "unknown"}
  BY <1>1, ShortPrograms DEF Program
<1>2. CASE command = "library"
  <2> DEFINE more == <<<<"load", "config">>, <<"realm", "config">>, <<"load", "config">>, <<"fields", "config">>>>
  <2>1. Proper(more) /\ ~Holds(more, "pack") /\ ~Holds(more, "replace")
    OBVIOUS
  <2>2. Program[command] = RunInit \o more
    BY <1>2 DEF Program, Library
  <2> HIDE DEF more, Proper, Holds
  <2>3. QED
    BY <2>1, <2>2, ShortPrograms, JoinedIsProper
<1>3. CASE command = "plugin"
  <2> DEFINE more == <<<<"replace", "project">>, <<"load", "config">>, <<"realm", "config">>>>
  <2>1. Proper(more) /\ ~Holds(more, "pack")
    OBVIOUS
  <2>2. Program[command] = RunInit \o more
    BY <1>3 DEF Program, Plugin
  <2> HIDE DEF more, Proper, Holds
  <2>3. QED
    BY <1>3, <2>1, <2>2, ShortPrograms, JoinedIsProper
<1>4. CASE command = "migrate"
  BY <1>4 DEF Program
<1>5. CASE command \in {"fmt", "fix"}
  <2> HIDE DEF Proper, Holds
  <2>1. QED
    BY <1>5, ShortPrograms DEF Program
<1>6. CASE command = "publish"
  <2> HIDE DEF Proper, Holds
  <2>1. QED
    BY <1>6, PublishChecksFirst DEF Program
<1>7. CASE command = "login"
  BY <1>7 DEF Program
<1>8. CASE command = "install"
  BY <1>8 DEF Program
<1>9. CASE command = "icon"
  BY <1>9 DEF Program
<1>10. QED
  <2>1. DOMAIN Program = {"init", "library", "plugin", "unknown", "migrate", "fmt", "fix", "publish", "login", "install", "icon"}
    BY DEF Program
  <2>2. QED
    BY <1>1, <1>2, <1>3, <1>4, <1>5, <1>6, <1>7, <1>8, <1>9, <2>1

-----------------------------------------------------------------------------
(* Where a program stands.  A step of the plugin template is only left to  *)
(* run if that template was started.                                       *)
ProgramsGoOn ==
  \A w \in Workers :
     /\ Proper(todo[w])
     /\ Holds(todo[w], "replace") => "plugin" \in ran

(* What a publish no longer holds it has done: each check it is past found *)
(* something good, and the archive is packed after all of them.            *)
CheckedSoFar ==
  \A w \in Workers : Holds(todo[w], "pack") =>
     /\ Holds(todo[w], "metadata") \/ "complete" \in package[w].form
     /\ Holds(todo[w], "check") \/ \E seen \in judged[w] : ~Unformatted(seen[1])
     /\ Holds(todo[w], "validate") \/ \E seen \in judged[w] : Valid(seen[1], seen[2])

(* What a file is to hold, by what was saved and granted.                  *)
Due(saves, grants, templates, f, text) ==
  /\ f \in DOMAIN Saves /\ saves[f] > 0 /\ (f = "project" => "plugin" \notin templates)
       => text.by = "developer" /\ text.version = saves[f]
  /\ f = "tokens" => grants \ {"icon"} \subseteq text.form
  /\ f = "plugin" /\ "icon" \in grants => "icon" \in text.form
Owed(f, text) == Due(saved, granted, ran, f, text)

RestingIsOwed == \A f \in Files : AtRest(f) => Owed(f, disk[f])
WrittenIsOwed ==
  \A w \in Workers :
     writing[w] # <<>> /\ writing[w][1] \notin overtaken => Owed(writing[w][1], writing[w][2])

(* A saved file is never taken for one that is not there, not even while   *)
(* it is being written.                                                    *)
SavedAreThere ==
  /\ \A f \in {"config", "script", "tests"} : saved[f] > 0 => disk[f].form # {}
  /\ \A w \in Workers : writing[w] # <<>> =>
        /\ writing[w][1] \in {"config", "script", "tests"} => writing[w][2].form # {}
        /\ writing[w][1] = "project" => writing[w][2].by \in {"init", "plugin"}

LEMMA TailGoesOn ==
  ASSUME NEW program, Proper(program), program # <<>>
  PROVE  /\ Proper(Tail(program))
         /\ \A op : Holds(Tail(program), op) => Holds(program, op)
         /\ \A op : Holds(program, op) => Holds(Tail(program), op) \/ op = program[1][1]
         /\ program[1] \in Steps
         /\ program[1][1] = "create" => program[1][2] \in DOMAIN Saves
         /\ program[1][1] = "pack" => \A op : Holds(program, op) => op = "pack"
<1> DEFINE rest == Tail(program)
<1>1. program \in Seq(Steps) /\ Len(program) \in Nat /\ Len(program) >= 1
  BY DEF Proper
<1>2. rest \in Seq(Steps) /\ Len(rest) = Len(program) - 1 /\ \A i \in 1 .. Len(rest) : rest[i] = program[i + 1]
  BY <1>1
<1> HIDE DEF rest
<1>3. Proper(rest)
  <2>1. ASSUME NEW i \in 1 .. Len(rest)
        PROVE  /\ rest[i][1] = "create" => rest[i][2] \in DOMAIN Saves
               /\ rest[i][1] = "pack" => i = Len(rest)
    <3>1. i + 1 \in 1 .. Len(program) /\ rest[i] = program[i + 1]
      BY <1>1, <1>2
    <3>2. /\ program[i + 1][1] = "create" => program[i + 1][2] \in DOMAIN Saves
          /\ program[i + 1][1] = "pack" => i + 1 = Len(program)
      BY <3>1 DEF Proper
    <3>3. QED
      BY <1>1, <1>2, <3>1, <3>2
  <2>2. QED
    BY <1>2, <2>1 DEF Proper
<1>4. ASSUME NEW op, Holds(rest, op)
      PROVE  Holds(program, op)
  <2>1. PICK i \in 1 .. Len(rest) : rest[i][1] = op
    BY <1>4 DEF Holds
  <2>2. i + 1 \in 1 .. Len(program) /\ rest[i] = program[i + 1]
    BY <1>1, <1>2
  <2>3. QED
    BY <2>1, <2>2 DEF Holds
<1>5. ASSUME NEW op, Holds(program, op), op # program[1][1]
      PROVE  Holds(rest, op)
  <2>1. PICK i \in 1 .. Len(program) : program[i][1] = op
    BY <1>5 DEF Holds
  <2>2. i - 1 \in 1 .. Len(rest) /\ (i - 1) + 1 = i
    <3>1. i # 1
      BY <1>5, <2>1
    <3>2. QED
      BY <1>1, <1>2, <3>1
  <2>3. rest[i - 1] = program[i]
    BY <1>2, <2>2
  <2>4. QED
    BY <2>1, <2>2, <2>3 DEF Holds
<1>6. 1 \in 1 .. Len(program) /\ program[1] \in Steps
  BY <1>1
<1>7. ASSUME program[1][1] = "pack", NEW op, Holds(program, op)
      PROVE  op = "pack"
  <2>1. Len(program) = 1
    BY <1>6, <1>7 DEF Proper
  <2>2. QED
    BY <1>1, <1>7, <2>1 DEF Holds
<1>8. QED
  BY <1>3, <1>4, <1>5, <1>6, <1>7 DEF rest, Proper

(* A command that goes on, or gives up, has no more to do than before.     *)
LEMMA GoesOn ==
  ASSUME BenchTypes, ProgramsGoOn, NEW w \in Workers, (Advance(w) /\ todo[w] # <<>>) \/ GiveUp(w), ran' = ran
  PROVE  /\ todo' \in [Workers -> Seq(Steps)]
         /\ ProgramsGoOn'
         /\ \A v \in Workers : \A op : Holds(todo'[v], op) => Holds(todo[v], op)
         /\ \A v \in Workers : v # w => todo'[v] = todo[v]
<1>1. todo \in [Workers -> Seq(Steps)]
  BY DEF BenchTypes
<1>2. Proper(<<>>) /\ \A op : ~Holds(<<>>, op)
  BY DEF Proper, Holds
<1>3. PICK left : /\ todo' = [todo EXCEPT ![w] = left]
                  /\ Proper(left) /\ \A op : Holds(left, op) => Holds(todo[w], op)
  BY <1>2, TailGoesOn DEF Advance, GiveUp, ProgramsGoOn
<1>4. left \in Seq(Steps)
  BY <1>3 DEF Proper
<1>5. /\ todo'[w] = left
      /\ \A v \in Workers : v # w => todo'[v] = todo[v]
  BY <1>1, <1>3
<1>6. QED
  BY <1>1, <1>3, <1>4, <1>5 DEF ProgramsGoOn

LEMMA FormChanged ==
  ASSUME NEW text \in Texts, NEW form \in SUBSET Marks
  PROVE  /\ [text EXCEPT !.form = form] \in Texts
         /\ [text EXCEPT !.form = form].by = text.by
         /\ [text EXCEPT !.form = form].version = text.version
         /\ [text EXCEPT !.form = form].form = form
  BY DEF Texts

(* A file that is emptied to be filled keeps the types.                    *)
LEMMA EmptyTypes ==
  ASSUME BenchTypes, NEW w \in Workers, NEW f \in Files, NEW text \in Texts, Empty(w, f, text)
  PROVE  /\ disk' \in [Files -> Texts]
         /\ writing' \in [Workers -> {<<>>} \cup (Files \X Texts)]
  BY EmptiedTypes DEF Empty, BenchTypes

-----------------------------------------------------------------------------
(* What the files are owed, whoever writes them.                           *)

FilesInv == RestingIsOwed /\ WrittenIsOwed /\ SavedAreThere

LEMMA LookingKeepsFiles ==
  ASSUME FilesInv, UNCHANGED <<disk, writing, saved, granted, overtaken>>, ran \subseteq ran'
  PROVE  FilesInv'
<1>1. \A f, text : Due(saved, granted, ran, f, text) => Due(saved', granted', ran', f, text)
  BY DEF Due
<1>2. RestingIsOwed'
  BY <1>1 DEF FilesInv, RestingIsOwed, Owed, AtRest
<1>3. WrittenIsOwed'
  BY <1>1 DEF FilesInv, WrittenIsOwed, Owed
<1>4. SavedAreThere'
  BY DEF FilesInv, SavedAreThere
<1>5. QED
  BY <1>2, <1>3, <1>4 DEF FilesInv

(* A file that is emptied to be filled with what it is owed.               *)
LEMMA EmptyingKeepsFiles ==
  ASSUME BenchTypes, FilesInv, UNCHANGED <<saved, ran>>, overtaken \subseteq overtaken',
         NEW w \in Workers, NEW f \in Files, NEW text \in Texts, Empty(w, f, text), writing[w] = <<>>,
         f \notin overtaken' => Due(saved', granted', ran', f, text),
         \A g \in Files \ {f} : \A t : Due(saved, granted, ran, g, t) => Due(saved', granted', ran', g, t),
         \A v \in Workers : writing[v] # <<>> /\ writing[v][1] = f /\ f \notin overtaken'
            => Due(saved', granted', ran', f, writing[v][2]),
         f \in {"config", "script", "tests"} => text.form # {},
         f = "project" => text.by \in {"init", "plugin"}
  PROVE  FilesInv'
<1>1. /\ \A g \in Files : disk'[g] = IF g = f THEN Emptied(f) ELSE disk[g]
      /\ \A v \in Workers : writing'[v] = IF v = w THEN <<f, text>> ELSE writing[v]
      /\ <<f, text>> # <<>> /\ <<f, text>>[1] = f /\ <<f, text>>[2] = text
  BY DEF Empty, BenchTypes
<1>2. RestingIsOwed'
  <2> SUFFICES ASSUME NEW g \in Files, AtRest(g)'
               PROVE  Due(saved', granted', ran', g, disk'[g])
    BY DEF RestingIsOwed, Owed
  <2>1. g # f
    BY <1>1 DEF AtRest
  <2>2. AtRest(g)
    BY <1>1, <2>1 DEF AtRest
  <2>3. Due(saved, granted, ran, g, disk[g])
    BY <2>2 DEF FilesInv, RestingIsOwed, Owed
  <2>4. QED
    BY <1>1, <2>1, <2>3
<1>3. WrittenIsOwed'
  <2> SUFFICES ASSUME NEW v \in Workers, writing'[v] # <<>>, writing'[v][1] \notin overtaken'
               PROVE  Due(saved', granted', ran', writing'[v][1], writing'[v][2])
    BY DEF WrittenIsOwed, Owed
  <2>1. CASE v = w
    BY <1>1, <2>1
  <2>2. CASE v # w
    <3>1. writing'[v] = writing[v] /\ writing[v][1] \in Files
      BY <1>1, <2>2 DEF BenchTypes
    <3>2. Due(saved, granted, ran, writing[v][1], writing[v][2])
      BY <3>1 DEF FilesInv, WrittenIsOwed, Owed
    <3>3. QED
      BY <3>1, <3>2
  <2>3. QED
    BY <2>1, <2>2
<1>4. SavedAreThere'
  <2>1. \A g \in {"config", "script", "tests"} : saved'[g] > 0 => disk'[g].form # {}
    BY <1>1, EmptiedTypes DEF FilesInv, SavedAreThere, Files
  <2>2. \A v \in Workers : writing'[v] # <<>> =>
          /\ writing'[v][1] \in {"config", "script", "tests"} => writing'[v][2].form # {}
          /\ writing'[v][1] = "project" => writing'[v][2].by \in {"init", "plugin"}
    BY <1>1 DEF FilesInv, SavedAreThere
  <2>3. QED
    BY <2>1, <2>2 DEF SavedAreThere
<1>5. QED
  BY <1>2, <1>3, <1>4 DEF FilesInv

(* Where nobody was overtaken, what is written back is a form of what the  *)
(* file was owed, and nobody else is at it.                                *)
LEMMA WriteBackKnows ==
  ASSUME BenchTypes, FilesInv, NEW w \in Workers, NEW f \in Files, NEW text, WriteBack(w, f, text)
  PROVE  /\ Empty(w, f, text) /\ overtaken \subseteq overtaken'
         /\ f \notin overtaken' =>
              /\ Due(saved, granted, ran, f, held[w])
              /\ \A v \in Workers : ~(writing[v] # <<>> /\ writing[v][1] = f)
<1>1. Empty(w, f, text) /\ overtaken \subseteq overtaken'
  BY DEF WriteBack
<1>2. ASSUME f \notin overtaken'
      PROVE  /\ Due(saved, granted, ran, f, held[w])
             /\ \A v \in Workers : ~(writing[v] # <<>> /\ writing[v][1] = f)
  <2>1. disk[f] = held[w] /\ (\A v \in Workers : ~(writing[v] # <<>> /\ writing[v][1] = f)) /\ f \notin overtaken
    BY <1>2 DEF WriteBack
  <2>2. AtRest(f)
    BY <2>1 DEF AtRest
  <2>3. QED
    BY <2>1, <2>2 DEF FilesInv, RestingIsOwed, Owed
<1>3. QED
  BY <1>1, <1>2

(* A text that is written back with another form, with nothing granted.    *)
LEMMA ReformingKeeps ==
  ASSUME BenchTypes, FilesInv, UNCHANGED <<saved, ran, granted>>,
         NEW w \in Workers, NEW f \in {"config", "script", "tests"}, NEW form \in SUBSET Marks, form # {},
         writing[w] = <<>>, WriteBack(w, f, [held[w] EXCEPT !.form = form])
  PROVE  /\ FilesInv'
         /\ disk' \in [Files -> Texts]
         /\ writing' \in [Workers -> {<<>>} \cup (Files \X Texts)]
<1> DEFINE text == [held[w] EXCEPT !.form = form]
<1>1. held[w] \in Texts /\ f \in Files
  BY DEF BenchTypes, Files
<1>2. text \in Texts /\ text.by = held[w].by /\ text.version = held[w].version /\ text.form = form
  BY <1>1, FormChanged
<1>3. WriteBack(w, f, text)
  OBVIOUS
<1> HIDE DEF text
<1>4. /\ Empty(w, f, text) /\ overtaken \subseteq overtaken'
      /\ f \notin overtaken' =>
           /\ Due(saved, granted, ran, f, held[w])
           /\ \A v \in Workers : ~(writing[v] # <<>> /\ writing[v][1] = f)
  BY <1>1, <1>3, WriteBackKnows
<1>5. f \notin overtaken' => Due(saved', granted', ran', f, text)
  BY <1>2, <1>4 DEF Due
<1>6. \A g \in Files \ {f} : \A t : Due(saved, granted, ran, g, t) => Due(saved', granted', ran', g, t)
  BY DEF Due
<1>7. FilesInv'
  BY <1>1, <1>2, <1>4, <1>5, <1>6, EmptyingKeepsFiles
<1>8. QED
  BY <1>1, <1>2, <1>4, <1>7, EmptyTypes

FilesCore == BenchTypes /\ ProgramsGoOn /\ FilesInv

LEMMA StepIsTyped ==
  ASSUME FilesCore, NEW w \in Workers, NEW op, At(w, op)
  PROVE  /\ todo[w] # <<>> /\ writing[w] = <<>> /\ Its(w) \in Files
         /\ Holds(todo[w], op)
         /\ op = "create" => Its(w) \in DOMAIN Saves
<1>1. Proper(todo[w]) /\ todo[w] # <<>> /\ todo[w][1][1] = op
  BY DEF At, FilesCore, ProgramsGoOn
<1>2. todo[w][1] \in Steps /\ (todo[w][1][1] = "create" => todo[w][1][2] \in DOMAIN Saves)
  BY <1>1, TailGoesOn
<1>3. Holds(todo[w], op)
  <2>1. todo[w] \in Seq(Steps) /\ 1 \in 1 .. Len(todo[w])
    BY <1>1 DEF Proper
  <2>2. QED
    BY <1>1, <2>1 DEF Holds
<1>4. QED
  BY <1>1, <1>2, <1>3 DEF At, Its, Steps

(* A file a template or an installer writes afresh.                        *)
LEMMA AfreshKeepsFiles ==
  ASSUME FilesCore, NEW w \in Workers, Advance(w), todo[w] # <<>>, writing[w] = <<>>,
         UNCHANGED <<saved, ran, overtaken, held, context, package, judged>>,
         NEW f \in Files, NEW text \in Texts, Empty(w, f, text),
         f \notin overtaken => Due(saved', granted', ran', f, text),
         granted' \in {granted, granted \ {"icon"}}, f # "plugin" => granted' = granted,
         f \in {"config", "script", "tests"} => text.form # {},
         f = "project" => text.by \in {"init", "plugin"}
  PROVE  FilesCore'
<1>1. \A g, t : Due(saved, granted, ran, g, t) => Due(saved', granted', ran', g, t)
  BY DEF Due
<1>2. \A v \in Workers : writing[v] # <<>> /\ writing[v][1] = f /\ f \notin overtaken'
            => Due(saved', granted', ran', f, writing[v][2])
  BY <1>1 DEF FilesCore, FilesInv, WrittenIsOwed, Owed
<1>3. FilesInv'
  BY <1>1, <1>2, EmptyingKeepsFiles DEF FilesCore
<1>4. todo' \in [Workers -> Seq(Steps)] /\ ProgramsGoOn'
  BY GoesOn DEF FilesCore
<1>5. BenchTypes'
  BY <1>4, EmptyTypes DEF FilesCore, BenchTypes
<1>6. QED
  BY <1>3, <1>4, <1>5 DEF FilesCore

(* A file that is looked at, or only gone past.                            *)
LEMMA PassingKeepsFiles ==
  ASSUME FilesCore, NEW w \in Workers, (Advance(w) /\ todo[w] # <<>>) \/ GiveUp(w),
         UNCHANGED <<disk, writing, saved, granted, overtaken, ran>>,
         held' \in [Workers -> Texts], context' \in [Workers -> Texts], package' \in [Workers -> Texts],
         judged' \in [Workers -> SUBSET (Texts \X Texts)]
  PROVE  FilesCore'
<1>1. FilesInv'
  BY LookingKeepsFiles DEF FilesCore
<1>2. todo' \in [Workers -> Seq(Steps)] /\ ProgramsGoOn'
  BY GoesOn DEF FilesCore
<1>3. BenchTypes'
  BY <1>2 DEF FilesCore, BenchTypes
<1>4. QED
  BY <1>1, <1>2, <1>3 DEF FilesCore

(* init and migrate write where nothing is, and nothing was saved there:   *)
(* what is saved is not absent while it is written, and the project file   *)
(* is written by templates only.                                           *)
LEMMA AbsentIsNotDue ==
  ASSUME FilesCore, NEW f \in DOMAIN Saves, disk[f] = Absent, f \notin overtaken, NEW text
  PROVE  Due(saved, granted, ran, f, text)
<1> SUFFICES ASSUME saved[f] > 0, f = "project" => "plugin" \notin ran
             PROVE  FALSE
  BY ScaffoldTypes DEF Due
<1>1. f = "project"
  BY ScaffoldTypes DEF FilesCore, FilesInv, SavedAreThere
<1>2. CASE \E v \in Workers : writing[v] # <<>> /\ writing[v][1] = f
  BY <1>1, <1>2, ScaffoldTypes DEF FilesCore, FilesInv, SavedAreThere, WrittenIsOwed, Owed, Due
<1>3. CASE ~\E v \in Workers : writing[v] # <<>> /\ writing[v][1] = f
  <2>1. AtRest(f) /\ f \in Files
    BY <1>3, ScaffoldTypes DEF AtRest
  <2>2. disk[f].by = "developer"
    BY <2>1 DEF FilesCore, FilesInv, RestingIsOwed, Owed, Due
  <2>3. QED
    BY <2>2, ScaffoldTypes
<1>4. QED
  BY <1>2, <1>3

LEMMA CreateKeepsFiles ==
  ASSUME FilesCore, NEW w \in Workers, Create(w)
  PROVE  FilesCore'
<1>1. At(w, "create") /\ Advance(w) /\ UNCHANGED <<held, context, package, judged, saved, granted, overtaken, ran>>
  BY DEF Create
<1> DEFINE f == Its(w)
           text == Scaffold[f]
<1>2. todo[w] # <<>> /\ writing[w] = <<>> /\ f \in DOMAIN Saves /\ f \in Files
  BY <1>1, StepIsTyped
<1>3. \/ disk[f] = Absent /\ Empty(w, f, text)
      \/ UNCHANGED <<disk, writing>>
  BY DEF Create
<1>4. text \in Texts /\ text.form # {} /\ text.by = "init"
  BY <1>2, ScaffoldTypes
<1> HIDE DEF f, text
<1>5. CASE disk[f] = Absent /\ Empty(w, f, text)
  <2>1. f \notin overtaken => Due(saved', granted', ran', f, text)
    BY <1>1, <1>2, <1>5, AbsentIsNotDue
  <2>2. QED
    BY <1>1, <1>2, <1>4, <1>5, <2>1, AfreshKeepsFiles
<1>6. CASE UNCHANGED <<disk, writing>>
  BY <1>1, <1>2, <1>6, PassingKeepsFiles DEF FilesCore, BenchTypes
<1>7. QED
  BY <1>3, <1>5, <1>6

LEMMA MigrateKeepsFiles ==
  ASSUME FilesCore, NEW w \in Workers, Migrate(w)
  PROVE  FilesCore'
<1>1. At(w, "migrate") /\ Advance(w) /\ UNCHANGED <<held, context, package, judged, saved, granted, overtaken, ran>>
  BY DEF Migrate
<1>2. todo[w] # <<>> /\ writing[w] = <<>> /\ "config" \in DOMAIN Saves /\ "config" \in Files
  BY <1>1, StepIsTyped, ScaffoldTypes
<1>3. CASE disk["config"] = Absent /\ Empty(w, "config", Migrated)
  <2> DEFINE text == Migrated
  <2>1. "config" \notin overtaken => Due(saved', granted', ran', "config", text)
    BY <1>1, <1>2, <1>3, AbsentIsNotDue
  <2>2. text \in Texts /\ text.form # {} /\ Empty(w, "config", text)
    BY <1>3, ScaffoldTypes
  <2> HIDE DEF text
  <2>3. QED
    BY <1>1, <1>2, <2>1, <2>2, AfreshKeepsFiles
<1>4. CASE UNCHANGED <<disk, writing>>
  BY <1>1, <1>2, <1>4, PassingKeepsFiles DEF FilesCore, BenchTypes
<1>5. QED
  BY <1>3, <1>4 DEF Migrate

LEMMA ReplaceKeepsFiles ==
  ASSUME FilesCore, NEW w \in Workers, Replace(w)
  PROVE  FilesCore'
<1>1. At(w, "replace") /\ Advance(w) /\ UNCHANGED <<held, context, package, judged, saved, granted, overtaken, ran>>
  BY DEF Replace
<1>2. todo[w] # <<>> /\ writing[w] = <<>> /\ Holds(todo[w], "replace")
  BY <1>1, StepIsTyped
<1>3. "plugin" \in ran
  BY <1>2 DEF FilesCore, ProgramsGoOn
<1> DEFINE text == Text("plugin", 0, {"parses"})
<1>4. text \in Texts /\ text.by = "plugin"
  BY TextIsOne DEF Authors, Marks, Text
<1>5. Empty(w, "project", text)
  BY DEF Replace
<1> HIDE DEF text
<1>6. Due(saved', granted', ran', "project", text)
  BY <1>1, <1>3 DEF Due
<1>7. QED
  <2>1. "project" \in Files
    BY DEF Files
  <2>2. QED
    BY <1>1, <1>2, <1>4, <1>5, <1>6, <2>1, AfreshKeepsFiles

LEMMA InstallKeepsFiles ==
  ASSUME FilesCore, NEW w \in Workers, Install(w)
  PROVE  FilesCore'
<1>1. /\ At(w, "install") /\ Advance(w) /\ UNCHANGED <<held, context, package, judged, saved, overtaken, ran>>
      /\ Empty(w, "plugin", Installed) /\ granted' = granted \ {"icon"}
  BY DEF Install
<1>2. todo[w] # <<>> /\ writing[w] = <<>>
  BY <1>1, StepIsTyped
<1>3. Due(saved', granted', ran', "plugin", Installed)
  BY <1>1, ScaffoldTypes DEF Due
<1>4. Installed \in Texts /\ "plugin" \in Files
  BY ScaffoldTypes DEF Files
<1> DEFINE text == Installed
<1>5. Empty(w, "plugin", text) /\ text \in Texts /\ Due(saved', granted', ran', "plugin", text)
  BY <1>1, <1>3, <1>4
<1> HIDE DEF text
<1>6. QED
  BY <1>1, <1>2, <1>4, <1>5, AfreshKeepsFiles

(* A configuration or a script that is read, and written back improved.    *)
LEMMA ImprovingKeepsFiles ==
  ASSUME FilesCore, NEW w \in Workers, (Advance(w) /\ todo[w] # <<>>) \/ GiveUp(w), writing[w] = <<>>,
         UNCHANGED <<saved, ran, granted, held, context, package, judged>>,
         NEW f \in {"config", "script", "tests"}, NEW form \in SUBSET Marks, form # {},
         WriteBack(w, f, [held[w] EXCEPT !.form = form])
  PROVE  FilesCore'
<1>1. /\ FilesInv' /\ disk' \in [Files -> Texts]
      /\ writing' \in [Workers -> {<<>>} \cup (Files \X Texts)]
  BY ReformingKeeps DEF FilesCore
<1>2. todo' \in [Workers -> Seq(Steps)] /\ ProgramsGoOn'
  BY GoesOn DEF FilesCore
<1>3. BenchTypes'
  BY <1>1, <1>2 DEF FilesCore, BenchTypes
<1>4. QED
  BY <1>1, <1>2, <1>3 DEF FilesCore

LEMMA HeldForm ==
  ASSUME FilesCore, NEW w \in Workers
  PROVE  held[w] \in Texts /\ held[w].form \in SUBSET Marks
  BY DEF FilesCore, BenchTypes, Texts

LEMMA RealmKeepsFiles ==
  ASSUME FilesCore, NEW w \in Workers, Realm(w)
  PROVE  FilesCore'
<1>1. At(w, "realm") /\ UNCHANGED <<held, context, package, judged, saved, granted, ran>>
  BY DEF Realm
<1>2. todo[w] # <<>> /\ writing[w] = <<>>
  BY <1>1, StepIsTyped
<1>3. (Advance(w) /\ todo[w] # <<>>) \/ GiveUp(w)
  BY <1>2 DEF Realm
<1> DEFINE form == (held[w].form \ {"stub"}) \cup {"complete"}
<1>4. \/ WriteBack(w, "config", [held[w] EXCEPT !.form = form])
      \/ UNCHANGED <<disk, writing, overtaken>>
  BY DEF Realm
<1>5. form \in SUBSET Marks /\ form # {}
  BY HeldForm DEF Marks
<1> HIDE DEF form
<1>6. CASE WriteBack(w, "config", [held[w] EXCEPT !.form = form])
  BY <1>1, <1>2, <1>3, <1>5, <1>6, ImprovingKeepsFiles
<1>7. CASE UNCHANGED <<disk, writing, overtaken>>
  BY <1>1, <1>3, <1>7, PassingKeepsFiles DEF FilesCore, BenchTypes
<1>8. QED
  BY <1>4, <1>6, <1>7

LEMMA FormatKeepsFiles ==
  ASSUME FilesCore, NEW w \in Workers, Format(w)
  PROVE  FilesCore'
<1>1. At(w, "format") /\ Advance(w) /\ UNCHANGED <<held, context, package, judged, saved, granted, ran>>
  BY DEF Format
<1>2. todo[w] # <<>> /\ writing[w] = <<>>
  BY <1>1, StepIsTyped
<1> DEFINE form == held[w].form \cup {"tidy"}
<1>3. \/ WriteBack(w, "script", [held[w] EXCEPT !.form = form])
      \/ UNCHANGED <<disk, writing, overtaken>>
  BY DEF Format
<1>4. form \in SUBSET Marks /\ form # {}
  BY HeldForm DEF Marks
<1> HIDE DEF form
<1>5. CASE WriteBack(w, "script", [held[w] EXCEPT !.form = form])
  BY <1>1, <1>2, <1>4, <1>5, ImprovingKeepsFiles
<1>6. CASE UNCHANGED <<disk, writing, overtaken>>
  BY <1>1, <1>2, <1>6, PassingKeepsFiles DEF FilesCore, BenchTypes
<1>7. QED
  BY <1>3, <1>5, <1>6

LEMMA FixKeepsFiles ==
  ASSUME FilesCore, NEW w \in Workers, Fix(w)
  PROVE  FilesCore'
<1>1. At(w, "fix") /\ Advance(w) /\ UNCHANGED <<held, context, package, judged, saved, granted, ran>>
  BY DEF Fix
<1>2. todo[w] # <<>> /\ writing[w] = <<>>
  BY <1>1, StepIsTyped
<1> DEFINE form == held[w].form \cup {"strict"}
<1>3. \/ WriteBack(w, "script", [held[w] EXCEPT !.form = form])
      \/ UNCHANGED <<disk, writing, overtaken>>
  BY DEF Fix
<1>4. form \in SUBSET Marks /\ form # {}
  BY HeldForm DEF Marks
<1> HIDE DEF form
<1>5. CASE WriteBack(w, "script", [held[w] EXCEPT !.form = form])
  BY <1>1, <1>2, <1>4, <1>5, ImprovingKeepsFiles
<1>6. CASE UNCHANGED <<disk, writing, overtaken>>
  BY <1>1, <1>2, <1>6, PassingKeepsFiles DEF FilesCore, BenchTypes
<1>7. QED
  BY <1>3, <1>5, <1>6

(* What a library adds to a configuration without the scaffold's line is   *)
(* appended where it is.                                                   *)
LEMMA AppendingKeepsFiles ==
  ASSUME FilesCore, UNCHANGED <<writing, overtaken, saved, granted, ran>>,
         disk' = [disk EXCEPT !["config"].form = @ \cup {"described"}]
  PROVE  FilesInv' /\ disk' \in [Files -> Texts]
<1>1. disk["config"] \in Texts /\ disk["config"].form \cup {"described"} \in SUBSET Marks
  BY DEF FilesCore, BenchTypes, Texts, Marks, Files
<1> DEFINE text == [disk["config"] EXCEPT !.form = disk["config"].form \cup {"described"}]
<1>2. /\ text \in Texts /\ text.by = disk["config"].by /\ text.version = disk["config"].version
      /\ text.form # {}
  BY <1>1, FormChanged
<1>3. disk' = [disk EXCEPT !["config"] = text]
  BY DEF FilesCore, BenchTypes
<1> HIDE DEF text
<1>4. disk' \in [Files -> Texts] /\ \A f \in Files : disk'[f] = IF f = "config" THEN text ELSE disk[f]
  BY <1>2, <1>3 DEF FilesCore, BenchTypes
<1>5. RestingIsOwed'
  <2> SUFFICES ASSUME NEW f \in Files, AtRest(f)'
               PROVE  Due(saved', granted', ran', f, disk'[f])
    BY DEF RestingIsOwed, Owed
  <2>1. Due(saved, granted, ran, f, disk[f])
    BY DEF FilesCore, FilesInv, RestingIsOwed, Owed, AtRest
  <2>2. QED
    BY <1>2, <1>4, <2>1 DEF Due
<1>6. WrittenIsOwed'
  BY DEF FilesCore, FilesInv, WrittenIsOwed, Owed
<1>7. SavedAreThere'
  BY <1>2, <1>4 DEF FilesCore, FilesInv, SavedAreThere, Files
<1>8. QED
  BY <1>4, <1>5, <1>6, <1>7 DEF FilesInv

LEMMA FieldsKeepsFiles ==
  ASSUME FilesCore, NEW w \in Workers, Fields(w)
  PROVE  FilesCore'
<1>1. At(w, "fields") /\ Advance(w) /\ UNCHANGED <<held, context, package, judged, saved, granted, ran>>
  BY DEF Fields
<1>2. todo[w] # <<>> /\ writing[w] = <<>>
  BY <1>1, StepIsTyped
<1> DEFINE form == held[w].form \cup {"described"}
<1>3. \/ WriteBack(w, "config", [held[w] EXCEPT !.form = form])
      \/ disk' = [disk EXCEPT !["config"].form = @ \cup {"described"}] /\ UNCHANGED <<writing, overtaken>>
  BY DEF Fields
<1>4. form \in SUBSET Marks /\ form # {}
  BY HeldForm DEF Marks
<1> HIDE DEF form
<1>5. CASE WriteBack(w, "config", [held[w] EXCEPT !.form = form])
  BY <1>1, <1>2, <1>4, <1>5, ImprovingKeepsFiles
<1>6. CASE disk' = [disk EXCEPT !["config"].form = @ \cup {"described"}] /\ UNCHANGED <<writing, overtaken>>
  <2>1. FilesInv' /\ disk' \in [Files -> Texts]
    BY <1>1, <1>6, AppendingKeepsFiles
  <2>2. todo' \in [Workers -> Seq(Steps)] /\ ProgramsGoOn'
    BY <1>1, <1>2, GoesOn DEF FilesCore
  <2>3. BenchTypes'
    BY <1>1, <1>6, <2>1, <2>2 DEF FilesCore, BenchTypes
  <2>4. QED
    BY <2>1, <2>2, <2>3 DEF FilesCore
<1>7. QED
  BY <1>3, <1>5, <1>6

LEMMA LoginKeepsFiles ==
  ASSUME FilesCore, NEW w \in Workers, Login(w)
  PROVE  FilesCore'
<1>1. At(w, "login") /\ Advance(w) /\ UNCHANGED <<held, context, package, judged, saved, ran>>
  BY DEF Login
<1>2. todo[w] # <<>> /\ writing[w] = <<>>
  BY <1>1, StepIsTyped
<1>3. PICK r \in Registries :
        WriteBack(w, "tokens", Text("login", 0, held[w].form \cup {r})) /\ granted' = granted \cup {r}
  BY DEF Login
<1> DEFINE text == Text("login", 0, held[w].form \cup {r})
<1>4. text \in Texts /\ text.form = held[w].form \cup {r}
  <2>1. held[w].form \cup {r} \in SUBSET Marks
    BY HeldForm DEF Marks
  <2>2. text \in Texts
    BY <2>1, TextIsOne DEF Authors
  <2>3. QED
    BY <2>2 DEF Text
<1>5. WriteBack(w, "tokens", text)
  BY <1>3
<1> HIDE DEF text
<1>6. "tokens" \in Files /\ "tokens" \notin DOMAIN Saves
  BY ScaffoldTypes DEF Files
<1>7. /\ Empty(w, "tokens", text) /\ overtaken \subseteq overtaken'
      /\ "tokens" \notin overtaken' =>
           /\ Due(saved, granted, ran, "tokens", held[w])
           /\ \A v \in Workers : ~(writing[v] # <<>> /\ writing[v][1] = "tokens")
  BY <1>5, <1>6, WriteBackKnows DEF FilesCore
<1>8. "tokens" \notin overtaken' => Due(saved', granted', ran', "tokens", text)
  BY <1>1, <1>3, <1>4, <1>6, <1>7 DEF Due
<1>9. \A g \in Files \ {"tokens"} : \A t : Due(saved, granted, ran, g, t) => Due(saved', granted', ran', g, t)
  BY <1>1, <1>3, RegistriesAssumption DEF Due
<1>10. FilesInv'
  <2>1. UNCHANGED <<saved, ran>>
    BY <1>1
  <2>2. QED
    BY <1>2, <1>4, <1>6, <1>7, <1>8, <1>9, <2>1, EmptyingKeepsFiles DEF FilesCore
<1>11. todo' \in [Workers -> Seq(Steps)] /\ ProgramsGoOn'
  BY <1>1, <1>2, GoesOn DEF FilesCore
<1>12. BenchTypes'
  <2>1. /\ disk' \in [Files -> Texts]
        /\ writing' \in [Workers -> {<<>>} \cup (Files \X Texts)]
    BY <1>4, <1>6, <1>7, EmptyTypes DEF FilesCore
  <2>2. QED
    BY <1>1, <1>3, <1>11, <2>1 DEF FilesCore, BenchTypes
<1>13. QED
  BY <1>10, <1>11, <1>12 DEF FilesCore

LEMMA SetIconKeepsFiles ==
  ASSUME FilesCore, NEW w \in Workers, SetIcon(w)
  PROVE  FilesCore'
<1>1. At(w, "icon") /\ Advance(w) /\ UNCHANGED <<held, context, package, judged, saved, ran>>
  BY DEF SetIcon
<1>2. todo[w] # <<>> /\ writing[w] = <<>>
  BY <1>1, StepIsTyped
<1> DEFINE form == held[w].form \cup {"icon"}
           text == [held[w] EXCEPT !.form = form]
<1>3. \/ WriteBack(w, "plugin", text) /\ granted' = granted \cup {"icon"}
      \/ UNCHANGED <<disk, writing, overtaken, granted>>
  BY DEF SetIcon
<1>4. form \in SUBSET Marks /\ held[w] \in Texts
  BY HeldForm DEF Marks
<1>5. text \in Texts /\ text.form = held[w].form \cup {"icon"}
  BY <1>4, FormChanged
<1> HIDE DEF form, text
<1>6. CASE WriteBack(w, "plugin", text) /\ granted' = granted \cup {"icon"}
  <2>1. "plugin" \in Files /\ "plugin" \notin DOMAIN Saves
    BY ScaffoldTypes DEF Files
  <2>2. /\ Empty(w, "plugin", text) /\ overtaken \subseteq overtaken'
        /\ "plugin" \notin overtaken' =>
             \A v \in Workers : ~(writing[v] # <<>> /\ writing[v][1] = "plugin")
    BY <1>6, <2>1, WriteBackKnows DEF FilesCore
  <2>3. Due(saved', granted', ran', "plugin", text)
    BY <1>1, <1>5, <2>1 DEF Due
  <2>4. \A g \in Files \ {"plugin"} : \A t : Due(saved, granted, ran, g, t) => Due(saved', granted', ran', g, t)
    BY <1>1, <1>6 DEF Due
  <2>5. FilesInv'
    <3>1. UNCHANGED <<saved, ran>>
      BY <1>1
    <3>2. QED
      BY <1>2, <1>5, <2>1, <2>2, <2>3, <2>4, <3>1, EmptyingKeepsFiles DEF FilesCore
  <2>6. todo' \in [Workers -> Seq(Steps)] /\ ProgramsGoOn'
    BY <1>1, <1>2, GoesOn DEF FilesCore
  <2>7. BenchTypes'
    <3>1. /\ disk' \in [Files -> Texts]
          /\ writing' \in [Workers -> {<<>>} \cup (Files \X Texts)]
      BY <1>5, <2>1, <2>2, EmptyTypes DEF FilesCore
    <3>2. QED
      BY <1>1, <1>6, <2>6, <3>1 DEF FilesCore, BenchTypes
  <2>8. QED
    BY <2>5, <2>6, <2>7 DEF FilesCore
<1>7. CASE UNCHANGED <<disk, writing, overtaken, granted>>
  BY <1>1, <1>2, <1>7, PassingKeepsFiles DEF FilesCore, BenchTypes
<1>8. QED
  BY <1>3, <1>6, <1>7

LEMMA LookingActionsKeepFiles ==
  ASSUME FilesCore, NEW w \in Workers,
         Load(w) \/ Context(w) \/ Metadata(w) \/ Check(w) \/ Validate(w) \/ Pack(w)
  PROVE  FilesCore'
<1>1. CASE Load(w)
  <2>1. At(w, "load") /\ held' = [held EXCEPT ![w] = disk[Its(w)]]
        /\ UNCHANGED <<disk, context, package, judged, writing, saved, granted, overtaken, ran>>
    BY <1>1 DEF Load
  <2>2. todo[w] # <<>> /\ Its(w) \in Files
    BY <2>1, StepIsTyped
  <2>3. (Advance(w) /\ todo[w] # <<>>) \/ GiveUp(w)
    BY <1>1, <2>2 DEF Load
  <2>4. held' \in [Workers -> Texts]
    BY <2>1, <2>2 DEF FilesCore, BenchTypes
  <2>5. QED
    BY <2>1, <2>3, <2>4, PassingKeepsFiles DEF FilesCore, BenchTypes
<1>2. CASE Context(w)
  <2>1. At(w, "context") /\ UNCHANGED <<disk, held, package, judged, writing, saved, granted, overtaken, ran>>
    BY <1>2 DEF Context
  <2>2. todo[w] # <<>>
    BY <2>1, StepIsTyped
  <2>3. (Advance(w) /\ todo[w] # <<>>) \/ GiveUp(w)
    BY <1>2, <2>2 DEF Context
  <2>4. context' \in [Workers -> Texts]
    BY <1>2 DEF Context, FilesCore, BenchTypes, Files
  <2>5. QED
    BY <2>1, <2>3, <2>4, PassingKeepsFiles DEF FilesCore, BenchTypes
<1>3. CASE Metadata(w)
  <2>1. At(w, "metadata") /\ UNCHANGED <<disk, held, context, judged, writing, saved, granted, overtaken, ran>>
    BY <1>3 DEF Metadata
  <2>2. todo[w] # <<>>
    BY <2>1, StepIsTyped
  <2>3. (Advance(w) /\ todo[w] # <<>>) \/ GiveUp(w)
    BY <1>3, <2>2 DEF Metadata
  <2>4. package' \in [Workers -> Texts]
    BY <1>3 DEF Metadata, FilesCore, BenchTypes
  <2>5. QED
    BY <2>1, <2>3, <2>4, PassingKeepsFiles DEF FilesCore, BenchTypes
<1>4. ASSUME NEW good, NEW op, At(w, op), Judge(w, good)
      PROVE  FilesCore'
  <2>1. UNCHANGED <<disk, held, context, package, writing, saved, granted, overtaken, ran>>
        /\ judged' = [judged EXCEPT ![w] = judged[w] \cup {<<held[w], context[w]>>}]
    BY <1>4 DEF Judge, FilesCore, BenchTypes
  <2>2. todo[w] # <<>>
    BY <1>4, StepIsTyped
  <2>3. (Advance(w) /\ todo[w] # <<>>) \/ GiveUp(w)
    BY <1>4, <2>2 DEF Judge
  <2>4. judged' \in [Workers -> SUBSET (Texts \X Texts)]
    BY <2>1 DEF FilesCore, BenchTypes
  <2>5. QED
    BY <2>1, <2>3, <2>4, PassingKeepsFiles DEF FilesCore, BenchTypes
<1>5. CASE Check(w)
  BY <1>4, <1>5 DEF Check
<1>6. CASE Validate(w)
  BY <1>4, <1>6 DEF Validate
<1>7. CASE Pack(w)
  <2>1. At(w, "pack") /\ Advance(w)
        /\ UNCHANGED <<disk, held, context, package, judged, writing, saved, granted, overtaken, ran>>
    BY <1>7 DEF Pack
  <2>2. todo[w] # <<>>
    BY <2>1, StepIsTyped
  <2>3. QED
    BY <2>1, <2>2, PassingKeepsFiles DEF FilesCore, BenchTypes
<1>8. QED
  BY <1>1, <1>2, <1>3, <1>5, <1>6, <1>7

LEMMA BeginKeepsFiles ==
  ASSUME FilesCore, NEW w \in Workers, Begin(w)
  PROVE  FilesCore'
<1>1. PICK command \in DOMAIN Program :
        todo' = [todo EXCEPT ![w] = Program[command]] /\ ran' = ran \cup {command}
  BY DEF Begin
<1>2. UNCHANGED <<disk, context, package, writing, saved, granted, overtaken>>
  BY DEF Begin
<1>3. FilesInv'
  BY <1>1, <1>2, LookingKeepsFiles DEF FilesCore
<1>4. Proper(Program[command]) /\ (Holds(Program[command], "replace") => command = "plugin")
  BY ProgramsAreProper
<1>5. Program[command] \in Seq(Steps)
  BY <1>4 DEF Proper
<1>6. todo \in [Workers -> Seq(Steps)]
  BY DEF FilesCore, BenchTypes
<1>7. todo' \in [Workers -> Seq(Steps)] /\ \A v \in Workers : todo'[v] = IF v = w THEN Program[command] ELSE todo[v]
  BY <1>1, <1>5, <1>6
<1>8. ProgramsGoOn'
  BY <1>1, <1>4, <1>7 DEF FilesCore, ProgramsGoOn
<1>9. held' \in [Workers -> Texts] /\ judged' \in [Workers -> SUBSET (Texts \X Texts)]
  <2>1. held' = [held EXCEPT ![w] = Absent] /\ judged' = [judged EXCEPT ![w] = {}]
    BY DEF Begin
  <2>2. Absent \in Texts
    BY ScaffoldTypes
  <2>3. QED
    BY <2>1, <2>2 DEF FilesCore, BenchTypes
<1>10. BenchTypes'
  BY <1>2, <1>7, <1>9 DEF FilesCore, BenchTypes
<1>11. QED
  BY <1>3, <1>8, <1>10 DEF FilesCore

LEMMA FillKeepsFiles ==
  ASSUME FilesCore, NEW w \in Workers, Fill(w)
  PROVE  FilesCore'
<1> DEFINE f == writing[w][1]
           text == writing[w][2]
<1>1. f \in Files /\ text \in Texts /\ writing[w] # <<>>
  BY DEF Fill, FilesCore, BenchTypes
<1>2. disk' = [disk EXCEPT ![f] = text] /\ writing' = [writing EXCEPT ![w] = <<>>]
      /\ UNCHANGED <<todo, held, context, package, judged, saved, granted, overtaken, ran>>
  BY DEF Fill
<1>3. f \notin overtaken => Due(saved, granted, ran, f, text)
  BY <1>1 DEF FilesCore, FilesInv, WrittenIsOwed, Owed
<1>4. f \in {"config", "script", "tests"} => text.form # {}
  BY <1>1 DEF FilesCore, FilesInv, SavedAreThere
<1> HIDE DEF f, text
<1>5. /\ \A g \in Files : disk'[g] = IF g = f THEN text ELSE disk[g]
      /\ \A v \in Workers : writing'[v] = IF v = w THEN <<>> ELSE writing[v]
  BY <1>1, <1>2 DEF FilesCore, BenchTypes
<1>6. RestingIsOwed'
  <2> SUFFICES ASSUME NEW g \in Files, AtRest(g)'
               PROVE  Due(saved', granted', ran', g, disk'[g])
    BY DEF RestingIsOwed, Owed
  <2>1. CASE g = f
    BY <1>2, <1>3, <1>5, <2>1 DEF AtRest
  <2>2. CASE g # f
    <3>1. writing[w][1] = f
      BY DEF f
    <3>2. AtRest(g)
      BY <1>2, <1>5, <2>2, <3>1 DEF AtRest
    <3>3. QED
      BY <1>2, <1>5, <2>2, <3>2 DEF FilesCore, FilesInv, RestingIsOwed, Owed
  <2>3. QED
    BY <2>1, <2>2
<1>7. WrittenIsOwed'
  BY <1>2, <1>5 DEF FilesCore, FilesInv, WrittenIsOwed, Owed
<1>8. SavedAreThere'
  BY <1>2, <1>4, <1>5 DEF FilesCore, FilesInv, SavedAreThere, Files
<1>9. BenchTypes' /\ ProgramsGoOn'
  BY <1>1, <1>2 DEF FilesCore, BenchTypes, ProgramsGoOn
<1>10. QED
  BY <1>6, <1>7, <1>8, <1>9 DEF FilesCore, FilesInv

LEMMA SaveKeepsFiles ==
  ASSUME FilesCore, NEW f \in DOMAIN Saves, Save(f)
  PROVE  FilesCore'
<1> DEFINE count == saved[f] + 1
<1>1. saved' = [saved EXCEPT ![f] = count] /\ f \in Files /\ count \in Nat
      /\ UNCHANGED <<todo, held, context, package, judged, writing, granted, ran>>
  BY ScaffoldTypes DEF Save, FilesCore, BenchTypes
<1>2. saved' \in [Files -> Nat] /\ saved'[f] = count /\ \A g \in Files \ {f} : saved'[g] = saved[g]
  BY <1>1 DEF FilesCore, BenchTypes
<1>3. PICK form \in Saves[f] : disk' = [disk EXCEPT ![f] = Text("developer", saved'[f], form)]
  BY DEF Save
<1> DEFINE text == Text("developer", count, form)
<1>4. text \in Texts /\ text.by = "developer" /\ text.version = count /\ text.form # {}
  <2>1. form \in SUBSET Marks /\ form # {}
    BY ScaffoldTypes
  <2>2. text \in Texts
    BY <1>1, <2>1, TextIsOne DEF Authors
  <2>3. QED
    BY <2>1, <2>2 DEF Text
<1>5. disk' = [disk EXCEPT ![f] = text]
  BY <1>2, <1>3
<1> HIDE DEF count, text
<1>6. disk' \in [Files -> Texts] /\ \A g \in Files : disk'[g] = IF g = f THEN text ELSE disk[g]
  BY <1>1, <1>4, <1>5 DEF FilesCore, BenchTypes
<1>7. /\ \A g \in Files \ {f} : g \in overtaken' <=> g \in overtaken
      /\ f \notin overtaken' => \A w \in Workers : ~(writing[w] # <<>> /\ writing[w][1] = f)
  BY DEF Save
<1>8. \A g \in Files \ {f} : \A t : Due(saved, granted, ran, g, t) => Due(saved', granted', ran', g, t)
  BY <1>1, <1>2 DEF Due
<1>9. RestingIsOwed'
  <2> SUFFICES ASSUME NEW g \in Files, AtRest(g)'
               PROVE  Due(saved', granted', ran', g, disk'[g])
    BY DEF RestingIsOwed, Owed
  <2>1. CASE g = f
    <3>1. f \notin {"tokens", "plugin"}
      BY ScaffoldTypes
    <3>2. QED
      BY <1>2, <1>4, <1>6, <2>1, <3>1 DEF Due
  <2>2. CASE g # f
    <3>1. AtRest(g)
      BY <1>1, <1>7, <2>2 DEF AtRest
    <3>2. QED
      BY <1>6, <1>8, <2>2, <3>1 DEF FilesCore, FilesInv, RestingIsOwed, Owed
  <2>3. QED
    BY <2>1, <2>2
<1>10. WrittenIsOwed'
  <2> SUFFICES ASSUME NEW w \in Workers, writing[w] # <<>>, writing[w][1] \notin overtaken'
               PROVE  Due(saved', granted', ran', writing[w][1], writing[w][2])
    BY <1>1 DEF WrittenIsOwed, Owed
  <2>1. writing[w][1] \in Files \ {f}
    BY <1>7 DEF FilesCore, BenchTypes
  <2>2. QED
    BY <1>7, <1>8, <2>1 DEF FilesCore, FilesInv, WrittenIsOwed, Owed
<1>11. SavedAreThere'
  BY <1>1, <1>2, <1>4, <1>6 DEF FilesCore, FilesInv, SavedAreThere, Files
<1>12. BenchTypes' /\ ProgramsGoOn'
  BY <1>1, <1>2, <1>6 DEF FilesCore, BenchTypes, ProgramsGoOn
<1>13. QED
  BY <1>9, <1>10, <1>11, <1>12 DEF FilesCore, FilesInv

LEMMA AbortKeepsFiles ==
  ASSUME FilesCore, NEW w \in Workers, Abort(w)
  PROVE  FilesCore'
<1>1. /\ GiveUp(w) /\ writing' = [writing EXCEPT ![w] = <<>>]
      /\ overtaken \subseteq overtaken' /\ (writing[w] # <<>> => writing[w][1] \in overtaken')
      /\ UNCHANGED <<disk, held, context, package, judged, saved, granted, ran>>
  BY DEF Abort
<1>2. \A v \in Workers : writing'[v] = IF v = w THEN <<>> ELSE writing[v]
  BY <1>1 DEF FilesCore, BenchTypes
<1>3. RestingIsOwed'
  <2>1. \A f : AtRest(f)' => AtRest(f)
    BY <1>1, <1>2 DEF AtRest
  <2>2. QED
    BY <1>1, <2>1 DEF FilesCore, FilesInv, RestingIsOwed, Owed
<1>4. WrittenIsOwed'
  BY <1>1, <1>2 DEF FilesCore, FilesInv, WrittenIsOwed, Owed
<1>5. SavedAreThere'
  BY <1>1, <1>2 DEF FilesCore, FilesInv, SavedAreThere
<1>6. todo' \in [Workers -> Seq(Steps)] /\ ProgramsGoOn'
  BY <1>1, GoesOn DEF FilesCore
<1>7. BenchTypes'
  BY <1>1, <1>6 DEF FilesCore, BenchTypes
<1>8. QED
  BY <1>3, <1>4, <1>5, <1>6, <1>7 DEF FilesCore, FilesInv

LEMMA FilesCoreInit == BenchInit => FilesCore
<1> SUFFICES ASSUME BenchInit
             PROVE  FilesCore
  OBVIOUS
<1>1. /\ todo = [w \in Workers |-> <<>>] /\ writing = [w \in Workers |-> <<>>]
      /\ held = [w \in Workers |-> Absent] /\ context = held /\ package = held
      /\ judged = [w \in Workers |-> {}] /\ saved = [f \in Files |-> 0] /\ granted = disk["tokens"].form
  BY DEF BenchInit
<1> DEFINE first == CHOOSE r \in Registries : TRUE
<1>2. first \in Registries
  BY RegistriesAssumption
<1>3. disk \in [Files -> Texts] /\ disk["tokens"].form \subseteq Registries
  <2>1. PICK form \in Saves["script"] :
          disk \in {[f \in Files |-> Absent],
                    [f \in Files |-> CASE f \in {"project", "tests"} -> Scaffold[f]
                                       [] f = "config" -> Text("init", 0, {"parses", "complete"})
                                       [] f = "script" -> Text("init", 0, form)
                                       [] f = "plugin" -> Installed
                                       [] OTHER -> Text("login", 0, {first})]}
    BY DEF BenchInit
  <2> HIDE DEF first
  <2>2. /\ Scaffold["project"] \in Texts /\ Scaffold["tests"] \in Texts /\ Installed \in Texts /\ Absent \in Texts /\ Absent.form = {}
        /\ form \in SUBSET Marks
    BY ScaffoldTypes
  <2>3. /\ Text("init", 0, {"parses", "complete"}) \in Texts
        /\ Text("init", 0, form) \in Texts
        /\ Text("login", 0, {first}) \in Texts /\ Text("login", 0, {first}).form = {first}
    BY <1>2, <2>2, TextIsOne DEF Authors, Marks, Text
  <2>4. CASE disk = [f \in Files |-> Absent]
    BY <2>2, <2>4 DEF Files
  <2>5. CASE disk = [f \in Files |-> CASE f \in {"project", "tests"} -> Scaffold[f]
                                       [] f = "config" -> Text("init", 0, {"parses", "complete"})
                                       [] f = "script" -> Text("init", 0, form)
                                       [] f = "plugin" -> Installed
                                       [] OTHER -> Text("login", 0, {first})]
    <3>1. /\ disk["tokens"] = Text("login", 0, {first}) /\ disk["project"] = Scaffold["project"] /\ disk["tests"] = Scaffold["tests"]
          /\ disk["config"] = Text("init", 0, {"parses", "complete"})
          /\ disk["script"] = Text("init", 0, form) /\ disk["plugin"] = Installed
      BY <2>5 DEF Files
    <3>2. disk = [f \in Files |-> disk[f]]
      BY <2>5
    <3> HIDE <2>5
    <3>3. \A f \in Files : disk[f] \in Texts
      BY <2>2, <2>3, <3>1 DEF Files
    <3>4. disk \in [Files -> Texts]
      BY <3>2, <3>3
    <3>5. QED
      BY <1>2, <2>3, <3>1, <3>4
  <2>6. QED
    BY <2>1, <2>4, <2>5
<1>4. BenchTypes
  <2>1. Absent \in Texts
    BY ScaffoldTypes
  <2>2. QED
    BY <1>1, <1>3, <2>1 DEF BenchTypes
<1>5. ProgramsGoOn
  BY <1>1 DEF ProgramsGoOn, Proper, Holds
<1>6. RestingIsOwed
  <2>1. \A f \in Files : saved[f] = 0
    BY <1>1
  <2>2. "icon" \notin granted
    BY <1>1, <1>3, RegistriesAssumption
  <2>3. QED
    BY <1>1, <2>1, <2>2 DEF RestingIsOwed, Owed, Due
<1>7. WrittenIsOwed
  BY <1>1 DEF WrittenIsOwed
<1>8. SavedAreThere
  BY <1>1 DEF SavedAreThere, Files
<1>9. QED
  BY <1>4, <1>5, <1>6, <1>7, <1>8 DEF FilesCore, FilesInv

LEMMA FilesCoreStep == FilesCore /\ [BenchNext]_benchVars => FilesCore'
<1> SUFFICES ASSUME FilesCore, [BenchNext]_benchVars
             PROVE  FilesCore'
  OBVIOUS
<1>1. CASE UNCHANGED benchVars
  BY <1>1 DEF benchVars, FilesCore, BenchTypes, ProgramsGoOn, FilesInv, RestingIsOwed, WrittenIsOwed,
              SavedAreThere, Owed, AtRest
<1>2. ASSUME NEW w \in Workers, BenchStep(w)
      PROVE  FilesCore'
  BY <1>2, BeginKeepsFiles, CreateKeepsFiles, MigrateKeepsFiles, RealmKeepsFiles, FieldsKeepsFiles,
     ReplaceKeepsFiles, FormatKeepsFiles, FixKeepsFiles, LoginKeepsFiles, InstallKeepsFiles,
     SetIconKeepsFiles, FillKeepsFiles, LookingActionsKeepFiles DEF BenchStep
<1>3. CASE \E w \in Workers : Abort(w)
  BY <1>3, AbortKeepsFiles
<1>4. CASE \E f \in DOMAIN Saves : Save(f)
  BY <1>4, SaveKeepsFiles
<1>5. QED
  BY <1>1, <1>2, <1>3, <1>4 DEF BenchNext

(* However many commands run, and whenever each looks: a file two of them  *)
(* were not at holds what the developer saved last, formatted, fixed or    *)
(* filled in at most; a login keeps the tokens of the other registries and *)
(* the plugin its icon (write_if_missing, migrate, fmt, validate --fix,    *)
(* login and plugin set-icon).                                             *)
THEOREM SavedTextsSurvive == BenchSpec => []NothingSavedIsLost
<1>1. FilesCore => NothingSavedIsLost
  <2> SUFFICES ASSUME FilesCore
               PROVE  NothingSavedIsLost
    OBVIOUS
  <2>1. \A f \in Files : AtRest(f) => Due(saved, granted, ran, f, disk[f])
    BY DEF FilesCore, FilesInv, RestingIsOwed, Owed
  <2>2. SavesSurvive
    BY <2>1, ScaffoldTypes DEF SavesSurvive, Due
  <2>3. TokensSurvive /\ IconSurvives
    BY <2>1 DEF TokensSurvive, IconSurvives, Due, Files
  <2>4. QED
    BY <2>2, <2>3 DEF NothingSavedIsLost
<1>2. QED
  BY FilesCoreInit, FilesCoreStep, <1>1, PTL DEF BenchSpec

-----------------------------------------------------------------------------
(* What publish sends.                                                     *)

PublishInv == FilesCore /\ CheckedSoFar /\ PublishedWasChecked

(* A step that is no check leaves the checks as they are.                  *)
LEMMA OtherStepsKeepChecks ==
  ASSUME FilesCore, CheckedSoFar, NEW w \in Workers, NEW op, op \notin {"metadata", "check", "validate"},
         At(w, op), Advance(w) \/ GiveUp(w), UNCHANGED <<package, judged, ran>>
  PROVE  CheckedSoFar'
<1>1. todo[w] # <<>> /\ todo[w][1][1] = op /\ Proper(todo[w]) /\ todo \in [Workers -> Seq(Steps)]
  BY DEF At, FilesCore, ProgramsGoOn, BenchTypes
<1>2. /\ \A v \in Workers : \A o : Holds(todo'[v], o) => Holds(todo[v], o)
      /\ \A v \in Workers : v # w => todo'[v] = todo[v]
  BY <1>1, GoesOn DEF FilesCore
<1>3. CASE Advance(w)
  <2>1. todo'[w] = Tail(todo[w])
    BY <1>1, <1>3 DEF Advance
  <2>2. \A o : Holds(todo[w], o) => Holds(todo'[w], o) \/ o = op
    BY <1>1, <2>1, TailGoesOn
  <2>3. \A v \in Workers : \A o \in {"metadata", "check", "validate"} : Holds(todo[v], o) => Holds(todo'[v], o)
    BY <1>2, <2>2
  <2>4. QED
    BY <1>2, <2>3 DEF CheckedSoFar
<1>4. CASE GiveUp(w)
  <2>1. ~Holds(todo'[w], "pack")
    BY <1>1, <1>4 DEF GiveUp, Holds
  <2>2. QED
    BY <1>2, <2>1 DEF CheckedSoFar
<1>5. QED
  BY <1>3, <1>4

(* A check that is gone past has found something good.                     *)
LEMMA CheckingKeepsChecks ==
  ASSUME FilesCore, CheckedSoFar, NEW w \in Workers, Metadata(w) \/ Check(w) \/ Validate(w)
  PROVE  CheckedSoFar'
<1> DEFINE op == todo[w][1][1]
<1>1. todo[w] # <<>> /\ Proper(todo[w]) /\ todo \in [Workers -> Seq(Steps)]
  BY DEF Metadata, Check, Validate, At, FilesCore, ProgramsGoOn, BenchTypes
<1>2. Advance(w) \/ GiveUp(w)
  BY DEF Metadata, Check, Validate, Judge
<1>3. /\ \A v \in Workers : \A o : Holds(todo'[v], o) => Holds(todo[v], o)
      /\ \A v \in Workers : v # w => todo'[v] = todo[v]
  <2>1. ran' = ran
    BY DEF Metadata, Check, Validate, Judge
  <2>2. QED
    BY <1>1, <1>2, <2>1, GoesOn DEF FilesCore
<1>4. /\ \A v \in Workers : v # w => package'[v] = package[v] /\ judged'[v] = judged[v]
      /\ judged[w] \subseteq judged'[w]
      /\ op # "metadata" => package' = package
  BY DEF Metadata, Check, Validate, Judge, At, FilesCore, BenchTypes
<1>5. CASE GiveUp(w)
  <2>1. ~Holds(todo'[w], "pack")
    BY <1>1, <1>5 DEF GiveUp, Holds
  <2>2. QED
    BY <1>3, <1>4, <2>1 DEF CheckedSoFar
<1>6. CASE Advance(w) /\ ~GiveUp(w)
  <2>1. \A o : Holds(todo[w], o) => Holds(todo'[w], o) \/ o = op
    <3>1. todo'[w] = Tail(todo[w])
      BY <1>1, <1>6 DEF Advance
    <3>2. QED
      BY <1>1, <3>1, TailGoesOn
  <2>3. /\ op = "metadata" => "complete" \in package'[w].form
        /\ op = "check" => \E seen \in judged'[w] : ~Unformatted(seen[1])
        /\ op = "validate" => \E seen \in judged'[w] : Valid(seen[1], seen[2])
    <3>1. CASE Metadata(w)
      <4>1. op = "metadata" /\ package'[w] = context[w]
        BY <3>1 DEF Metadata, At, FilesCore, BenchTypes
      <4>2. "complete" \in context[w].form
        BY <1>6, <3>1 DEF Metadata
      <4>3. QED
        BY <4>1, <4>2
    <3>2. CASE Check(w)
      <4>1. op = "check" /\ judged'[w] = judged[w] \cup {<<held[w], context[w]>>}
        BY <3>2 DEF Check, Judge, At, FilesCore, BenchTypes
      <4>2. ~Unformatted(held[w])
        BY <1>6, <3>2 DEF Check, Judge
      <4>3. /\ <<held[w], context[w]>> \in judged'[w]
            /\ <<held[w], context[w]>>[1] = held[w] /\ <<held[w], context[w]>>[2] = context[w]
        BY <4>1
      <4>4. \E seen \in judged'[w] : ~Unformatted(seen[1])
        BY <4>2, <4>3
      <4>5. QED
        BY <4>1, <4>4
    <3>3. CASE Validate(w)
      <4>1. op = "validate" /\ judged'[w] = judged[w] \cup {<<held[w], context[w]>>}
        BY <3>3 DEF Validate, Judge, At, FilesCore, BenchTypes
      <4>2. Valid(held[w], context[w])
        BY <1>6, <3>3 DEF Validate, Judge
      <4>3. /\ <<held[w], context[w]>> \in judged'[w]
            /\ <<held[w], context[w]>>[1] = held[w] /\ <<held[w], context[w]>>[2] = context[w]
        BY <4>1
      <4>4. \E seen \in judged'[w] : Valid(seen[1], seen[2])
        BY <4>2, <4>3
      <4>5. QED
        BY <4>1, <4>4
    <3>4. QED
      BY <3>1, <3>2, <3>3
  <2>4. QED
    BY <1>3, <1>4, <2>1, <2>3 DEF CheckedSoFar
<1>7. QED
  BY <1>2, <1>5, <1>6

LEMMA BeginningKeepsChecks ==
  ASSUME FilesCore, CheckedSoFar, NEW w \in Workers, Begin(w)
  PROVE  CheckedSoFar'
<1>1. PICK command \in DOMAIN Program : todo' = [todo EXCEPT ![w] = Program[command]]
  BY DEF Begin
<1>2. /\ todo'[w] = Program[command]
      /\ \A v \in Workers : v # w => todo'[v] = todo[v] /\ package'[v] = package[v] /\ judged'[v] = judged[v]
  BY <1>1 DEF Begin, FilesCore, BenchTypes
<1>3. Holds(todo'[w], "pack") => \A op \in {"metadata", "check", "validate"} : Holds(todo'[w], op)
  BY <1>2, ProgramsAreProper
<1>4. QED
  BY <1>2, <1>3 DEF CheckedSoFar

(* The archive is packed when nothing is left to check.                    *)
LEMMA PackingSendsChecked ==
  ASSUME FilesCore, CheckedSoFar, PublishedWasChecked, NEW w \in Workers, Pack(w)
  PROVE  PublishedWasChecked'
<1>1. CASE published' = published
  BY <1>1 DEF PublishedWasChecked
<1>2. CASE published' = published \cup {Packed(w)}
  <2> SUFFICES ASSUME Packed(w).package = Packed(w).config,
                      Packed(w).judged \subseteq {<<Packed(w).script, Packed(w).config>>}
               PROVE  /\ "complete" \in Packed(w).config.form
                      /\ ~Unformatted(Packed(w).script)
                      /\ Valid(Packed(w).script, Packed(w).config)
    BY <1>2 DEF PublishedWasChecked
  <2>1. todo[w] # <<>> /\ Proper(todo[w]) /\ todo[w][1][1] = "pack" /\ Holds(todo[w], "pack")
    BY StepIsTyped DEF Pack, At, FilesCore, ProgramsGoOn
  <2>2. \A op \in {"metadata", "check", "validate"} : ~Holds(todo[w], op)
    BY <2>1, TailGoesOn
  <2>3. /\ "complete" \in package[w].form
        /\ \E seen \in judged[w] : ~Unformatted(seen[1])
        /\ \E seen \in judged[w] : Valid(seen[1], seen[2])
    BY <2>1, <2>2 DEF CheckedSoFar
  <2>4. Packed(w).package = package[w] /\ Packed(w).judged = judged[w]
    BY DEF Packed
  <2> DEFINE script == Packed(w).script
             config == Packed(w).config
  <2>5. \A seen \in judged[w] : seen[1] = script /\ seen[2] = config
    BY <2>4
  <2>6. QED
    BY <2>3, <2>4, <2>5
<1>3. QED
  BY <1>1, <1>2 DEF Pack

LEMMA PublishInvInit == BenchInit => PublishInv
<1> SUFFICES ASSUME BenchInit
             PROVE  PublishInv
  OBVIOUS
<1>1. todo = [w \in Workers |-> <<>>] /\ published = {}
  BY DEF BenchInit
<1>2. CheckedSoFar /\ PublishedWasChecked
  BY <1>1 DEF CheckedSoFar, PublishedWasChecked, Holds
<1>3. QED
  BY <1>2, FilesCoreInit DEF PublishInv

LEMMA ChecksStep ==
  ASSUME FilesCore, CheckedSoFar, NEW w \in Workers, BenchStep(w) \/ Abort(w)
  PROVE  CheckedSoFar'
<1>1. ASSUME NEW op \in Ops \ {"metadata", "check", "validate"}, At(w, op), Advance(w) \/ GiveUp(w),
             UNCHANGED <<package, judged, ran>>
      PROVE  CheckedSoFar'
  BY <1>1, OtherStepsKeepChecks
<1>2. CASE Metadata(w) \/ Check(w) \/ Validate(w)
  BY <1>2, CheckingKeepsChecks
<1>3. CASE Begin(w)
  BY <1>3, BeginningKeepsChecks
<1>4. CASE Fill(w)
  BY <1>4 DEF Fill, CheckedSoFar
<1>5. CASE Abort(w)
  <2>1. \A v \in Workers : v # w => todo'[v] = todo[v]
    BY <1>5 DEF Abort, GiveUp, FilesCore, BenchTypes
  <2>2. ~Holds(todo'[w], "pack")
    BY <1>5 DEF Abort, GiveUp, Holds, FilesCore, BenchTypes
  <2>3. QED
    BY <1>5, <2>1, <2>2 DEF Abort, CheckedSoFar
<1>6. CASE Create(w)  BY <1>1, <1>6 DEF Create, Ops
<1>7. CASE Migrate(w)  BY <1>1, <1>7 DEF Migrate, Ops
<1>8. CASE Load(w)  BY <1>1, <1>8 DEF Load, Ops
<1>9. CASE Realm(w)  BY <1>1, <1>9 DEF Realm, Ops
<1>10. CASE Fields(w)  BY <1>1, <1>10 DEF Fields, Ops
<1>11. CASE Replace(w)  BY <1>1, <1>11 DEF Replace, Ops
<1>12. CASE Context(w)  BY <1>1, <1>12 DEF Context, Ops
<1>13. CASE Format(w)  BY <1>1, <1>13 DEF Format, Ops
<1>14. CASE Fix(w)  BY <1>1, <1>14 DEF Fix, Ops
<1>15. CASE Pack(w)  BY <1>1, <1>15 DEF Pack, Ops
<1>16. CASE Login(w)  BY <1>1, <1>16 DEF Login, Ops
<1>17. CASE Install(w)  BY <1>1, <1>17 DEF Install, Ops
<1>18. CASE SetIcon(w)  BY <1>1, <1>18 DEF SetIcon, Ops
<1>19. QED
  BY <1>2, <1>3, <1>4, <1>5, <1>6, <1>7, <1>8, <1>9, <1>10, <1>11, <1>12, <1>13, <1>14, <1>15, <1>16,
     <1>17, <1>18 DEF BenchStep

LEMMA PublishInvStep == PublishInv /\ [BenchNext]_benchVars => PublishInv'
<1> SUFFICES ASSUME PublishInv, [BenchNext]_benchVars
             PROVE  PublishInv'
  OBVIOUS
<1>1. FilesCore'
  BY FilesCoreStep DEF PublishInv
<1>2. CASE UNCHANGED benchVars
  BY <1>1, <1>2 DEF benchVars, PublishInv, CheckedSoFar, PublishedWasChecked
<1>3. CASE \E f \in DOMAIN Saves : Save(f)
  BY <1>1, <1>3 DEF Save, PublishInv, CheckedSoFar, PublishedWasChecked
<1>4. ASSUME NEW w \in Workers, BenchStep(w) \/ Abort(w)
      PROVE  PublishInv'
  <2>1. CheckedSoFar'
    BY <1>4, ChecksStep DEF PublishInv
  <2>2. PublishedWasChecked'
    <3>1. CASE Pack(w)
      BY <3>1, PackingSendsChecked DEF PublishInv
    <3>2. CASE ~Pack(w)
      <4>1. published' = published
        BY <1>4, <3>2 DEF BenchStep, Abort, Begin, Create, Migrate, Load, Realm, Fields, Replace, Context,
                          Metadata, Format, Fix, Check, Validate, Judge, Login, Install, SetIcon, Fill
      <4>2. QED
        BY <4>1 DEF PublishInv, PublishedWasChecked
    <3>3. QED
      BY <3>1, <3>2
  <2>3. QED
    BY <1>1, <2>1, <2>2 DEF PublishInv
<1>5. QED
  BY <1>2, <1>3, <1>4 DEF BenchNext

(* Whatever is done to the files beside it: the configuration and the      *)
(* scripts under the includes that command_publish sends have passed the   *)
(* metadata, formatting and validation checks whenever those that were     *)
(* packed are those the checks saw; the files elsewhere, sent unread, are  *)
(* not spoken of.                                                          *)
THEOREM PublishSendsWhatItChecked == BenchSpec => []PublishedWasChecked
<1>1. PublishInv => PublishedWasChecked
  BY DEF PublishInv
<1>2. QED
  BY PublishInvInit, PublishInvStep, <1>1, PTL DEF BenchSpec

-----------------------------------------------------------------------------
(* Numbers.                                                                *)

(* A set of numbers has a least one, and one with a bound a greatest: the  *)
(* form of induction used below.                                           *)
LEMMA LeastNumber ==
  ASSUME NEW T, T \subseteq Nat, T # {}
  PROVE  \E n \in T : \A k \in T : n <= k
<1> DEFINE R == {q \in Nat \X Nat : q[1] < q[2]}
<1>1. IsWellFoundedOn(R, Nat)
  BY NatLessThanWellFounded DEF OpToRel
<1>2. PICK n \in T : \A k \in T : ~(<<k, n>> \in R)
  <2> HIDE DEF R
  <2> QED
    BY <1>1, WFMin
<1>3. ASSUME NEW k \in T PROVE n <= k
  <2>1. ~(<<k, n>> \in {q \in Nat \X Nat : q[1] < q[2]})
    BY <1>2
  <2>2. k \in Nat /\ n \in Nat
    OBVIOUS
  <2> QED
    BY <2>1, <2>2
<1> QED
  BY <1>3

LEMMA GreatestNumber ==
  ASSUME NEW b \in Nat, NEW T, T \subseteq 0 .. b, T # {}
  PROVE  \E n \in T : \A k \in T : k <= n
<1> DEFINE below == {b - t : t \in T}
<1>1. below \subseteq Nat /\ below # {}
  OBVIOUS
<1>2. PICK n \in below : \A k \in below : n <= k
  <2> HIDE DEF below
  <2> QED
    BY <1>1, LeastNumber
<1>3. PICK t \in T : n = b - t
  BY <1>2
<1>4. ASSUME NEW k \in T PROVE k <= t
  <2>1. n <= b - k
    BY <1>2
  <2>2. k \in 0..b /\ t \in 0..b
    OBVIOUS
  <2> QED
    BY <1>3, <2>1, <2>2
<1> QED
  BY <1>4

LEMMA MinIs ==
  ASSUME NEW S, S \subseteq Int, NEW x \in S, \A y \in S : x <= y
  PROVE  Min(S) = x
<1>1. \E m \in S : \A y \in S : m <= y
  OBVIOUS
<1>2. Min(S) \in S /\ \A y \in S : Min(S) <= y
  BY <1>1, Zenon DEF Min
<1>3. Min(S) \in Int /\ x \in Int
  BY <1>2
<1>4. Min(S) <= x /\ x <= Min(S)
  BY <1>2
<1> QED
  BY <1>3, <1>4

LEMMA MaxIs ==
  ASSUME NEW S, S \subseteq Int, NEW x \in S, \A y \in S : y <= x
  PROVE  Max(S) = x
<1>1. \E m \in S : \A y \in S : m >= y
  OBVIOUS
<1>2. Max(S) \in S /\ \A y \in S : Max(S) >= y
  BY <1>1, Zenon DEF Max
<1>3. Max(S) \in Int /\ x \in Int
  BY <1>2
<1>4. Max(S) >= x /\ x >= Max(S)
  BY <1>2
<1> QED
  BY <1>3, <1>4

-----------------------------------------------------------------------------
(* Totals.  A fold is a function of the sets of positions; on the first k  *)
(* positions it is the sum of what is there.                               *)

Folding(G, q, n) ==
  G = [s \in SUBSET (1 .. n) |-> IF s = {} THEN 0 ELSE G[s \ {Max(s)}] + q[Max(s)]]

(* D[k] is the sum of the first k of q. *)
Sums(D, q, n) ==
  D \in [0 .. n -> Int] /\ D[0] = 0 /\ \A k \in 1 .. n : D[k] = D[k - 1] + q[k]

LEMMA MaxOfPositions ==
  ASSUME NEW n \in Nat, NEW s \in SUBSET (1 .. n), s # {}
  PROVE  Max(s) \in s /\ \A y \in s : y <= Max(s)
<1>1. s \subseteq 0 .. n /\ s \subseteq Int
  OBVIOUS
<1>2. PICK x \in s : \A y \in s : y <= x
  BY <1>1, GreatestNumber
<1>3. Max(s) = x
  BY <1>1, <1>2, MaxIs
<1> QED
  BY <1>2, <1>3

LEMMA FoldingExists ==
  ASSUME NEW q, NEW n \in Nat
  PROVE  \E G : Folding(G, q, n)
<1> DEFINE Bad == {m \in Nat : ~\E G : Folding(G, q, m)}
<1>1. SUFFICES ASSUME Bad # {} PROVE FALSE
  OBVIOUS
<1>2. PICK m \in Bad : \A j \in Bad : m <= j
  <2>1. Bad \subseteq Nat
    OBVIOUS
  <2> HIDE DEF Bad
  <2> QED
    BY <1>1, <2>1, LeastNumber
<1>3. CASE m = 0
  <2> DEFINE F == [s \in SUBSET (1 .. 0) |-> 0]
  <2>1. \A s \in SUBSET (1 .. 0) : s = {}
    OBVIOUS
  <2>2. F = [s \in SUBSET (1 .. 0) |-> IF s = {} THEN 0 ELSE F[s \ {Max(s)}] + q[Max(s)]]
    BY <2>1
  <2> HIDE DEF F
  <2> QED
    BY <1>2, <1>3, <2>2 DEF Folding
<1>4. CASE m # 0
  <2>1. m \in Nat /\ m - 1 \in Nat /\ ~(m <= m - 1)
    BY <1>2, <1>4
  <2>2. PICK G : Folding(G, q, m - 1)
    BY <1>2, <2>1
  <2> DEFINE F == [s \in SUBSET (1 .. m) |->
                     IF s = {} THEN 0 ELSE G[s \ {Max(s)}] + q[Max(s)]]
  <2>3. ASSUME NEW s \in SUBSET (1 .. m - 1) PROVE F[s] = G[s]
    <3>1. s \in SUBSET (1 .. m)
      BY <2>1
    <3>2. F[s] = IF s = {} THEN 0 ELSE G[s \ {Max(s)}] + q[Max(s)]
      BY <3>1
    <3>3. G[s] = IF s = {} THEN 0 ELSE G[s \ {Max(s)}] + q[Max(s)]
      BY <2>2 DEF Folding
    <3> QED
      BY <3>2, <3>3
  <2>4. ASSUME NEW s \in SUBSET (1 .. m), s # {}
        PROVE  F[s \ {Max(s)}] = G[s \ {Max(s)}]
    <3>1. Max(s) \in s /\ \A y \in s : y <= Max(s)
      BY <2>1, <2>4, MaxOfPositions
    <3>2. ASSUME NEW y \in s \ {Max(s)} PROVE y \in 1 .. m - 1
      <4>1. y \in 1 .. m /\ Max(s) \in 1 .. m /\ y <= Max(s) /\ y # Max(s)
        BY <3>1
      <4> QED
        BY <2>1, <4>1
    <3>3. s \ {Max(s)} \in SUBSET (1 .. m - 1)
      BY <3>2
    <3> HIDE DEF F
    <3> QED
      BY <2>3, <3>3
  <2>5. ASSUME NEW s \in SUBSET (1 .. m)
        PROVE  F[s] = IF s = {} THEN 0 ELSE F[s \ {Max(s)}] + q[Max(s)]
    <3>1. F[s] = IF s = {} THEN 0 ELSE G[s \ {Max(s)}] + q[Max(s)]
      OBVIOUS
    <3> HIDE DEF F
    <3> QED
      BY <2>4, <3>1
  <2>6. F = [s \in SUBSET (1 .. m) |-> F[s]]
    OBVIOUS
  <2> HIDE DEF F
  <2>7. F = [s \in SUBSET (1 .. m) |-> IF s = {} THEN 0 ELSE F[s \ {Max(s)}] + q[Max(s)]]
    BY <2>5, <2>6
  <2> QED
    BY <1>2, <2>7 DEF Folding
<1> QED
  BY <1>3, <1>4

LEMMA TotalIsSum ==
  ASSUME NEW n \in Nat, NEW q \in [1 .. n -> Int]
  PROVE  \E D : Sums(D, q, n) /\ Total(q) = D[n]
<1> DEFINE G == CHOOSE F : F = [s \in SUBSET (1 .. n) |-> IF s = {} THEN 0 ELSE F[s \ {Max(s)}] + q[Max(s)]]
<1>1. \E F : F = [s \in SUBSET (1 .. n) |-> IF s = {} THEN 0 ELSE F[s \ {Max(s)}] + q[Max(s)]]
  BY FoldingExists DEF Folding
<1>2. G = [s \in SUBSET (1 .. n) |-> IF s = {} THEN 0 ELSE G[s \ {Max(s)}] + q[Max(s)]]
  BY <1>1
<1>3. DOMAIN q = 1 .. n
  OBVIOUS
<1>4. Total(q) = G[1 .. n]
  BY <1>3 DEF Total, FoldLeft, MapThenFoldSet
<1> HIDE DEF G
<1>5. G[1 .. 0] = 0
  <2>1. 1 .. 0 = {} /\ {} \in SUBSET (1 .. n)
    OBVIOUS
  <2> QED
    BY <1>2, <2>1
<1>6. ASSUME NEW k \in 1 .. n
      PROVE  G[1 .. k] = G[1 .. k - 1] + q[k]
  <2>1. 1 .. k \in SUBSET (1 .. n) /\ 1 .. k # {} /\ 1 .. k \subseteq Int /\ k \in 1 .. k
    OBVIOUS
  <2>2. \A y \in 1 .. k : y <= k
    OBVIOUS
  <2>3. Max(1 .. k) = k
    BY <2>1, <2>2, MaxIs
  <2>4. (1 .. k) \ {k} = 1 .. k - 1
    OBVIOUS
  <2> QED
    BY <1>2, <2>1, <2>3, <2>4
<1> DEFINE D == [k \in 0 .. n |-> G[1 .. k]]
<1>7. D[0] = 0
  BY <1>5
<1>8. ASSUME NEW k \in 1 .. n PROVE D[k] = D[k - 1] + q[k]
  <2>1. k \in 0 .. n /\ k - 1 \in 0 .. n
    OBVIOUS
  <2> QED
    BY <1>6, <2>1
<1>9. ASSUME NEW k \in 0 .. n PROVE D[k] \in Int
  <2> DEFINE Bad == {j \in 0 .. n : D[j] \notin Int}
  <2>1. SUFFICES ASSUME Bad # {} PROVE FALSE
    OBVIOUS
  <2>2. PICK j \in Bad : \A i \in Bad : j <= i
    <3>1. Bad \subseteq Nat
      OBVIOUS
    <3> HIDE DEF Bad
    <3> QED
      BY <2>1, <3>1, LeastNumber
  <2> HIDE DEF D
  <2>3. j # 0
    BY <1>7, <2>2
  <2>4. j \in 1 .. n /\ j - 1 \in 0 .. n /\ ~(j <= j - 1)
    BY <2>2, <2>3
  <2>5. D[j - 1] \in Int /\ q[j] \in Int
    BY <2>2, <2>4
  <2> QED
    BY <1>8, <2>2, <2>4, <2>5
<1>10. D \in [0 .. n -> Int] /\ D[n] = G[1 .. n]
  BY <1>9
<1> HIDE DEF D
<1> QED
  BY <1>4, <1>7, <1>8, <1>10 DEF Sums

(* Two sums of one sequence agree, also of a part of it.                   *)
IsPart(r, m, q, n, a) ==
  /\ n \in Nat /\ m \in Nat /\ a \in Nat /\ a + m <= n
  /\ q \in [1 .. n -> Int] /\ r \in [1 .. m -> Int]
  /\ \A k \in 1 .. m : r[k] = q[a + k]

LEMMA SumsAgree ==
  ASSUME NEW n, NEW m, NEW a, NEW q, NEW r, IsPart(r, m, q, n, a),
         NEW D, Sums(D, q, n), NEW F, Sums(F, r, m)
  PROVE  \A k \in 0 .. m : F[k] = D[a + k] - D[a]
<1>p. /\ n \in Nat /\ m \in Nat /\ a \in Nat /\ a + m <= n
      /\ q \in [1 .. n -> Int] /\ r \in [1 .. m -> Int]
      /\ \A k \in 1 .. m : r[k] = q[a + k]
  BY DEF IsPart
<1> DEFINE Bad == {k \in 0 .. m : F[k] # D[a + k] - D[a]}
<1>1. SUFFICES ASSUME Bad # {} PROVE FALSE
  OBVIOUS
<1>2. PICK k \in Bad : \A j \in Bad : k <= j
  <2>1. Bad \subseteq Nat
    BY <1>p
  <2> HIDE DEF Bad
  <2> QED
    BY <1>1, <2>1, LeastNumber
<1>3. a \in 0 .. n /\ D[a] \in Int
  BY <1>p DEF Sums
<1>4. k # 0
  BY <1>2, <1>3, <1>p DEF Sums
<1>5. k \in 1 .. m /\ k - 1 \in 0 .. m /\ ~(k <= k - 1)
  BY <1>2, <1>4, <1>p
<1>6. F[k - 1] = D[a + (k - 1)] - D[a]
  BY <1>2, <1>5
<1>7. F[k] = F[k - 1] + r[k]
  BY <1>5 DEF Sums
<1>8. a + k \in 1 .. n /\ a + (k - 1) = (a + k) - 1 /\ (a + k) - 1 \in 0 .. n
  BY <1>5, <1>p
<1>9. D[a + k] = D[(a + k) - 1] + q[a + k]
  BY <1>8 DEF Sums
<1>10. D[(a + k) - 1] \in Int /\ q[a + k] \in Int
  BY <1>8, <1>p DEF Sums
<1>11. r[k] = q[a + k]
  BY <1>5, <1>p
<1>12. F[k] = D[a + k] - D[a]
  BY <1>3, <1>6, <1>7, <1>8, <1>9, <1>10, <1>11
<1> QED
  BY <1>2, <1>12

LEMMA TotalOfPart ==
  ASSUME NEW q, NEW p, NEW r, NEW n, NEW a, NEW m, IsPart(p, a, q, n, 0), IsPart(r, m, q, n, a), a + m = n
  PROVE  Total(r) = Total(q) - Total(p)
<1>1. \E D : Sums(D, q, n) /\ Total(q) = D[n]
  BY TotalIsSum DEF IsPart
<1>2. PICK D : Sums(D, q, n) /\ Total(q) = D[n]
  BY <1>1
<1>3. \E E : Sums(E, p, a) /\ Total(p) = E[a]
  BY TotalIsSum DEF IsPart
<1>4. PICK E : Sums(E, p, a) /\ Total(p) = E[a]
  BY <1>3
<1>5. \E F : Sums(F, r, m) /\ Total(r) = F[m]
  BY TotalIsSum DEF IsPart
<1>6. PICK F : Sums(F, r, m) /\ Total(r) = F[m]
  BY <1>5
<1>7. \A k \in 0 .. a : E[k] = D[0 + k] - D[0]
  BY <1>2, <1>4, SumsAgree
<1>8. \A k \in 0 .. m : F[k] = D[a + k] - D[a]
  BY <1>2, <1>6, SumsAgree
<1>9. a \in 0 .. a /\ m \in 0 .. m /\ 0 + a = a /\ a \in 0 .. n /\ n \in Nat /\ a \in Nat
  BY DEF IsPart
<1>10. D[0] = 0 /\ D[a] \in Int
  BY <1>2, <1>9 DEF Sums
<1>11. E[a] = D[a] /\ F[m] = D[n] - D[a]
  BY <1>7, <1>8, <1>9, <1>10
<1> QED
  BY <1>2, <1>4, <1>6, <1>11

-----------------------------------------------------------------------------
(* The depth of a line.                                                    *)

LEMMA OpensIsStep ==
  ASSUME NEW kind
  PROVE  /\ Opens(kind) \in {-1, 0, 1}
         /\ Opens(kind) = 1 <=> kind \in Openers
         /\ Opens(kind) = -1 <=> kind \in Closers
  BY DEF Opens, Openers, Closers

(* Depths are the sums of what the lines open and close.                   *)
LEMMA DepthIsSum ==
  ASSUME NEW n \in Nat, n <= Len(file), Len(file) \in Nat
  PROVE  /\ DepthAt(0) = 0
         /\ DepthAt(n) \in Int
         /\ n # 0 => DepthAt(n) = DepthAt(n - 1) + Opens(file[n])
<1> DEFINE q(m) == [k \in 1 .. m |-> Opens(file[k])]
<1>1. ASSUME NEW m \in Nat PROVE q(m) \in [1 .. m -> Int]
  BY OpensIsStep
<1>2. ASSUME NEW m \in Nat PROVE DepthAt(m) = Total(q(m))
  BY DEF DepthAt
<1>3. PICK D : Sums(D, q(n), n) /\ Total(q(n)) = D[n]
  <2> HIDE DEF q
  <2> QED
    BY <1>1, TotalIsSum
<1>4. ASSUME NEW m \in Nat, m <= n PROVE DepthAt(m) = D[m] 
  <2>1. PICK F : Sums(F, q(m), m) /\ Total(q(m)) = F[m]
    <3> HIDE DEF q
    <3> QED
      BY <1>1, TotalIsSum
  <2>2. \A k \in 1 .. m : q(m)[k] = q(n)[0 + k]
    BY <1>4
  <2>3. q(m) \in [1 .. m -> Int] /\ q(n) \in [1 .. n -> Int] /\ 0 + m <= n /\ 0 \in Nat
    BY <1>1, <1>4
  <2> HIDE DEF q
  <2>4. \A k \in 0 .. m : F[k] = D[0 + k] - D[0]
    <3>1. IsPart(q(m), m, q(n), n, 0)
      BY <2>2, <2>3 DEF IsPart
    <3> QED
      BY <1>3, <2>1, <3>1, SumsAgree
  <2>5. F[m] = D[0 + m] - D[0] /\ D[0] = 0 /\ 0 + m = m /\ m \in 0 .. n /\ D[m] \in Int
    BY <1>3, <1>4, <2>4 DEF Sums
  <2> QED
    BY <1>2, <2>1, <2>5
<1>5. DepthAt(0) = D[0] /\ DepthAt(n) = D[n]
  BY <1>4
<1>6. D[0] = 0 /\ D[n] \in Int
  BY <1>3 DEF Sums
<1>7. ASSUME n # 0 PROVE DepthAt(n) = DepthAt(n - 1) + Opens(file[n])
  <2>1. n - 1 \in Nat /\ n - 1 <= n /\ n \in 1 .. n
    BY <1>7
  <2>2. DepthAt(n - 1) = D[n - 1]
    BY <1>4, <2>1
  <2>3. D[n] = D[n - 1] + q(n)[n]
    BY <1>3, <2>1 DEF Sums
  <2> QED
    BY <1>5, <2>1, <2>2, <2>3
<1> QED
  BY <1>5, <1>6, <1>7

(* What the author of a file keeps: what closes a block closes one.        *)
Blocks ==
  /\ file \in Seq(Kinds)
  /\ \A i \in 1 .. Len(file) : file[i] \in Closers => OpenedBy(i - 1) # {}

LEMMA Depths ==
  ASSUME Blocks
  PROVE  /\ Len(file) \in Nat /\ DepthAt(0) = 0
         /\ \A n \in 0 .. Len(file) : DepthAt(n) \in Int
         /\ \A n \in 1 .. Len(file) : /\ DepthAt(n) = DepthAt(n - 1) + Opens(file[n])
                                      /\ DepthAt(n - 1) \in Int /\ DepthAt(n) \in Int
                                      /\ file[n] \in Kinds /\ n \in Nat /\ n - 1 \in 0 .. Len(file)
<1>1. Len(file) \in Nat
  BY DEF Blocks
<1>2. ASSUME NEW n \in 0 .. Len(file) PROVE DepthAt(n) \in Int
  BY <1>1, DepthIsSum
<1>3. ASSUME NEW n \in 1 .. Len(file)
      PROVE  /\ DepthAt(n) = DepthAt(n - 1) + Opens(file[n])
             /\ DepthAt(n - 1) \in Int /\ DepthAt(n) \in Int
             /\ file[n] \in Kinds /\ n \in Nat /\ n - 1 \in 0 .. Len(file)
  <2>1. n \in Nat /\ n <= Len(file) /\ n # 0 /\ n - 1 \in 0 .. Len(file) /\ n \in 0 .. Len(file)
    BY <1>1
  <2>2. file[n] \in Kinds
    BY DEF Blocks
  <2>3. DepthAt(n) = DepthAt(n - 1) + Opens(file[n])
    BY <1>1, <2>1, DepthIsSum
  <2>4. DepthAt(n - 1) \in Int /\ DepthAt(n) \in Int
    BY <1>2, <2>1
  <2> QED
    BY <2>1, <2>2, <2>3, <2>4
<1>4. DepthAt(0) = 0
  BY <1>1, DepthIsSum
<1> QED
  BY <1>1, <1>2, <1>3, <1>4

(* No line closes more than what is open.                                  *)
LEMMA DepthIsNatural ==
  ASSUME Blocks, NEW n \in 0 .. Len(file)
  PROVE  DepthAt(n) \in Nat
<1> DEFINE Bad == {m \in 0 .. Len(file) : DepthAt(m) \notin Nat}
<1>1. SUFFICES ASSUME Bad # {} PROVE FALSE
  OBVIOUS
<1>2. PICK m \in Bad : \A j \in Bad : m <= j
  <2>1. Bad \subseteq Nat
    OBVIOUS
  <2> HIDE DEF Bad
  <2> QED
    BY <1>1, <2>1, LeastNumber
<1>a. m \in 0 .. Len(file) /\ DepthAt(m) \notin Nat /\ Len(file) \in Nat
  BY <1>2, Depths
<1>3. m # 0
  BY <1>a, Depths
<1>4. m \in 1 .. Len(file) /\ m - 1 \in 0 .. Len(file) /\ ~(m <= m - 1)
  BY <1>a, <1>3
<1>5. DepthAt(m - 1) \in Nat
  BY <1>2, <1>4
<1>6. DepthAt(m) = DepthAt(m - 1) + Opens(file[m])
  BY <1>4, Depths
<1>7. Opens(file[m]) = -1 /\ file[m] \in Closers
  BY <1>a, <1>5, <1>6, OpensIsStep
<1>8. PICK k : k \in OpenedBy(m - 1)
  BY <1>4, <1>7 DEF Blocks
<1>9. k \in 1 .. m - 1 /\ file[k] \in Openers /\ \A j \in k .. m - 1 : DepthAt(j) >= DepthAt(k)
  BY <1>8 DEF OpenedBy
<1>10. m - 1 \in k .. m - 1 /\ k \in 1 .. Len(file) /\ k - 1 \in 0 .. Len(file) /\ ~(m <= k - 1)
  BY <1>a, <1>4, <1>9
<1>11. DepthAt(k - 1) \in Nat
  BY <1>2, <1>10
<1>12. DepthAt(k) = DepthAt(k - 1) + 1 /\ DepthAt(m - 1) >= DepthAt(k)
  BY <1>9, <1>10, Depths, OpensIsStep
<1> QED
  BY <1>a, <1>5, <1>6, <1>7, <1>11, <1>12

LEMMA OpenedFacts ==
  ASSUME Blocks, NEW n \in 0 .. Len(file), NEW k \in OpenedBy(n)
  PROVE  /\ k \in 1 .. n /\ k \in 1 .. Len(file) /\ file[k] \in Openers
         /\ DepthAt(k) = DepthAt(k - 1) + 1 /\ DepthAt(k) >= 1 /\ DepthAt(n) >= DepthAt(k)
         /\ \A j \in k .. n : DepthAt(j) >= DepthAt(k) /\ k \in OpenedBy(j)
<1>1. k \in 1 .. n /\ file[k] \in Openers /\ \A j \in k .. n : DepthAt(j) >= DepthAt(k)
  BY DEF OpenedBy
<1>2. Len(file) \in Nat /\ k \in 1 .. Len(file) /\ k - 1 \in 0 .. Len(file) /\ n \in k .. n
  BY <1>1, Depths
<1>3. DepthAt(k) = DepthAt(k - 1) + 1
  BY <1>1, <1>2, Depths, OpensIsStep
<1>4. DepthAt(k - 1) \in Nat
  BY <1>2, DepthIsNatural
<1>5. ASSUME NEW j \in k .. n PROVE k \in OpenedBy(j)
  <2>1. k \in 1 .. j /\ \A m \in k .. j : m \in k .. n
    BY <1>1
  <2> QED
    BY <1>1, <2>1 DEF OpenedBy
<1> QED
  BY <1>1, <1>2, <1>3, <1>4, <1>5

(* A line adds itself to what is open, and takes away what is deeper.      *)
LEMMA OpenedByStep ==
  ASSUME Blocks, NEW n \in 1 .. Len(file)
  PROVE  \A k : k \in OpenedBy(n) <=> \/ k = n /\ file[n] \in Openers
                                      \/ k \in OpenedBy(n - 1) /\ DepthAt(n) >= DepthAt(k)
<1>1. Len(file) \in Nat /\ n \in Nat /\ DepthAt(n) \in Int
  BY Depths
<1> TAKE k
<1>2. ASSUME k = n, file[n] \in Openers PROVE k \in OpenedBy(n)
  <2>1. \A j \in n .. n : j = n
    BY <1>1
  <2> QED
    BY <1>1, <1>2, <2>1 DEF OpenedBy
<1>3. ASSUME k \in OpenedBy(n - 1), DepthAt(n) >= DepthAt(k) PROVE k \in OpenedBy(n)
  <2>1. k \in 1 .. n - 1 /\ file[k] \in Openers /\ \A j \in k .. n - 1 : DepthAt(j) >= DepthAt(k)
    BY <1>3 DEF OpenedBy
  <2>2. \A j \in k .. n : j = n \/ j \in k .. n - 1
    BY <1>1, <2>1
  <2>3. k \in 1 .. n
    BY <1>1, <2>1
  <2> QED
    BY <1>3, <2>1, <2>2, <2>3 DEF OpenedBy
<1>4. ASSUME k \in OpenedBy(n), k # n PROVE k \in OpenedBy(n - 1) /\ DepthAt(n) >= DepthAt(k)
  <2>1. k \in 1 .. n /\ file[k] \in Openers /\ \A j \in k .. n : DepthAt(j) >= DepthAt(k)
    BY <1>4 DEF OpenedBy
  <2>2. k \in 1 .. n - 1 /\ n \in k .. n /\ \A j \in k .. n - 1 : j \in k .. n
    BY <1>1, <1>4, <2>1
  <2> QED
    BY <2>1, <2>2 DEF OpenedBy
<1>5. ASSUME k \in OpenedBy(n), k = n PROVE file[n] \in Openers
  BY <1>5 DEF OpenedBy
<1> QED
  BY <1>2, <1>3, <1>4, <1>5

(* Below the surface, a block of that depth is open.                       *)
LEMMA SomethingIsOpen ==
  ASSUME Blocks, NEW n \in 0 .. Len(file), DepthAt(n) # 0
  PROVE  \E k \in OpenedBy(n) : DepthAt(k) = DepthAt(n)
<1>1. Len(file) \in Nat /\ n \in Nat /\ DepthAt(n) \in Nat
  BY Depths, DepthIsNatural
<1> DEFINE Above == {j \in 0 .. n : DepthAt(j) < DepthAt(n)}
<1>2. 0 \in Above /\ Above \subseteq 0 .. n
  BY <1>1, Depths
<1>3. PICK a \in Above : \A j \in Above : j <= a
  <2> HIDE DEF Above
  <2>1. Above # {}
    BY <1>2
  <2> QED
    BY <1>1, <1>2, <2>1, GreatestNumber
<1>4. a \in 0 .. n /\ DepthAt(a) < DepthAt(n) /\ a # n
  BY <1>1, <1>3
<1>5. a + 1 \in 1 .. n /\ a + 1 \in 1 .. Len(file) /\ (a + 1) - 1 = a /\ a + 1 \in 0 .. n /\ ~(a + 1 <= a)
  BY <1>1, <1>4
<1>6. ASSUME NEW j \in a + 1 .. n PROVE DepthAt(j) >= DepthAt(n)
  <2>1. j \in 0 .. n /\ ~(j <= a) /\ j \in 0 .. Len(file)
    BY <1>1, <1>4, <1>6
  <2>2. j \notin Above
    BY <1>3, <2>1
  <2>3. DepthAt(j) \in Int
    BY <2>1, Depths
  <2> QED
    BY <1>1, <2>1, <2>2, <2>3
<1>7. DepthAt(a + 1) >= DepthAt(n)
  BY <1>5, <1>6
<1>8. DepthAt(a + 1) = DepthAt(a) + Opens(file[a + 1]) /\ DepthAt(a) \in Int
  BY <1>5, Depths
<1>9. Opens(file[a + 1]) = 1 /\ DepthAt(a + 1) = DepthAt(n)
  BY <1>1, <1>4, <1>7, <1>8, OpensIsStep
<1>10. file[a + 1] \in Openers
  BY <1>9, OpensIsStep
<1>11. a + 1 \in OpenedBy(n)
  BY <1>5, <1>6, <1>9, <1>10 DEF OpenedBy
<1> QED
  BY <1>9, <1>11

(* What is open after a line is not changed by what is typed below it.     *)
LEMMA EarlierLinesStand ==
  ASSUME file \in Seq(Kinds), NEW kind \in Kinds, file' = Append(file, kind), NEW n \in 0 .. Len(file)
  PROVE  DepthAt(n)' = DepthAt(n) /\ OpenedBy(n)' = OpenedBy(n)
<1>1. Len(file) \in Nat /\ \A k \in 1 .. Len(file) : file'[k] = file[k]
  OBVIOUS
<1>2. ASSUME NEW m \in 0 .. Len(file) PROVE DepthAt(m)' = DepthAt(m)
  <2>1. [k \in 1 .. m |-> Opens(file'[k])] = [k \in 1 .. m |-> Opens(file[k])]
    <3>1. \A k \in 1 .. m : file'[k] = file[k]
      BY <1>1
    <3> QED
      BY <3>1
  <2> QED
    BY <2>1 DEF DepthAt
<1>3. ASSUME NEW k \in 1 .. n
      PROVE  /\ file'[k] = file[k] /\ DepthAt(k)' = DepthAt(k)
             /\ \A j \in k .. n : DepthAt(j)' = DepthAt(j)
  <2>1. k \in 0 .. Len(file) /\ k \in 1 .. Len(file) /\ \A j \in k .. n : j \in 0 .. Len(file)
    BY <1>1
  <2> QED
    BY <1>1, <1>2, <2>1
<1>4. OpenedBy(n)' = {k \in 1 .. n : file'[k] \in Openers /\ \A j \in k .. n : DepthAt(j)' >= DepthAt(k)'}
  BY DEF OpenedBy, Openers
<1>5. OpenedBy(n)' = OpenedBy(n)
  BY <1>3, <1>4 DEF OpenedBy
<1> QED
  BY <1>2, <1>5

LEMMA BlocksInit == BlockInit => Blocks
  BY DEF BlockInit, Blocks

LEMMA BlocksStep == Blocks /\ [TypeLine]_file => Blocks'
<1> SUFFICES ASSUME Blocks, [TypeLine]_file PROVE Blocks'
  OBVIOUS
<1>1. CASE UNCHANGED file
  BY <1>1 DEF Blocks, OpenedBy, DepthAt
<1>2. CASE TypeLine
  <2>1. PICK kind \in Kinds : Fits(kind) /\ file' = Append(file, kind)
    BY <1>2 DEF TypeLine
  <2>2. file \in Seq(Kinds) /\ Len(file) \in Nat
    BY DEF Blocks
  <2>3. /\ file' \in Seq(Kinds) /\ Len(file') = Len(file) + 1
        /\ \A i \in 1 .. Len(file) : file'[i] = file[i]
        /\ file'[Len(file) + 1] = kind
    BY <2>1, <2>2
  <2>4. ASSUME NEW i \in 1 .. Len(file'), file'[i] \in Closers
        PROVE  OpenedBy(i - 1)' # {}
    <3>1. i - 1 \in 0 .. Len(file)
      BY <2>2, <2>3
    <3>2. OpenedBy(i - 1)' = OpenedBy(i - 1)
      BY <2>1, <2>2, <3>1, EarlierLinesStand
    <3>3. CASE i \in 1 .. Len(file)
      BY <2>3, <2>4, <3>2, <3>3 DEF Blocks
    <3>4. CASE i = Len(file) + 1
      <4>1. kind \in {"end", "until"} /\ i - 1 = Len(file)
        BY <2>2, <2>3, <2>4, <3>4 DEF Closers
      <4>2. OpenedBy(Len(file)) # {}
        BY <2>1, <4>1 DEF Fits
      <4> QED
        BY <3>2, <4>1, <4>2
    <3> QED
      BY <2>2, <2>3, <3>3, <3>4
  <2>5. Closers' = Closers /\ Kinds' = Kinds
    BY DEF Closers, Kinds, Functions, Openers
  <2> QED
    BY <2>3, <2>4, <2>5 DEF Blocks
<1> QED
  BY <1>1, <1>2

LEMMA BlocksHold == BlockSpec => []Blocks
  BY BlocksInit, BlocksStep, PTL DEF BlockSpec

-----------------------------------------------------------------------------
(* In a complete file, every block ends.                                   *)

LEMMA EndIs ==
  ASSUME Blocks, NEW i \in 1 .. Len(file), file[i] \in Openers,
         NEW e \in i + 1 .. Len(file), DepthAt(e) < DepthAt(i), i \in OpenedBy(e - 1)
  PROVE  BlockEnd(i) = e
<1> DEFINE S == {j \in i + 1 .. Len(file) : DepthAt(j) < DepthAt(i)}
<1>1. Len(file) \in Nat /\ i \in Nat
  BY Depths
<1>2. S \subseteq Int /\ e \in S
  BY <1>1
<1>3. ASSUME NEW y \in S PROVE e <= y
  <2>1. y \in i + 1 .. Len(file) /\ DepthAt(y) < DepthAt(i)
    OBVIOUS
  <2>2. \A j \in i .. e - 1 : DepthAt(j) >= DepthAt(i)
    BY DEF OpenedBy
  <2>3. DepthAt(y) \in Int /\ DepthAt(i) \in Int
    BY <1>1, <2>1, Depths
  <2>4. y \notin i .. e - 1
    BY <2>1, <2>2, <2>3
  <2> QED
    BY <1>1, <2>1, <2>4
<1>4. Min(S) = e
  <2> HIDE DEF S
  <2> QED
    BY <1>2, <1>3, MinIs
<1> QED
  BY <1>4 DEF BlockEnd

LEMMA EveryBlockEnds ==
  ASSUME Blocks, Complete, NEW i \in 1 .. Len(file), file[i] \in Openers
  PROVE  /\ BlockEnd(i) \in i + 1 .. Len(file)
         /\ DepthAt(BlockEnd(i)) = DepthAt(i) - 1
         /\ file[BlockEnd(i)] \in Closers
         /\ \A m \in i .. Len(file) : i \in OpenedBy(m) <=> m < BlockEnd(i)
<1> DEFINE S == {j \in i + 1 .. Len(file) : DepthAt(j) < DepthAt(i)}
<1>1. Len(file) \in Nat /\ i \in Nat /\ DepthAt(i) = DepthAt(i - 1) + 1
  BY Depths, OpensIsStep
<1>2. i - 1 \in 0 .. Len(file) /\ Len(file) \in 0 .. Len(file)
  BY <1>1
<1>3. DepthAt(i - 1) \in Nat /\ DepthAt(Len(file)) = 0
  BY <1>2, DepthIsNatural DEF Complete
<1>4. Len(file) \in S
  <2>1. Len(file) # i
    BY <1>1, <1>3
  <2> QED
    BY <1>1, <1>3, <2>1
<1>5. PICK e \in S : \A j \in S : e <= j
  <2>1. S \subseteq Nat /\ S # {}
    BY <1>1, <1>4
  <2> HIDE DEF S
  <2> QED
    BY <2>1, LeastNumber
<1>6. e \in i + 1 .. Len(file) /\ DepthAt(e) < DepthAt(i)
  BY <1>5
<1>7. e \in 1 .. Len(file) /\ e \in Nat /\ e - 1 \in 0 .. Len(file)
  BY <1>1, <1>6
<1>8. ASSUME NEW j \in i .. e - 1 PROVE DepthAt(j) >= DepthAt(i)
  <2>1. j \in 0 .. Len(file) /\ ~(e <= j)
    BY <1>1, <1>7
  <2>2. j \notin S /\ DepthAt(j) \in Int
    BY <1>5, <2>1, Depths
  <2> QED
    BY <1>1, <1>3, <1>7, <2>2
<1>9. ASSUME NEW m \in i .. e - 1 PROVE i \in OpenedBy(m)
  <2>1. i \in 1 .. m /\ \A j \in i .. m : j \in i .. e - 1
    BY <1>1, <1>7
  <2> QED
    BY <1>8, <2>1 DEF OpenedBy
<1>10. ASSUME NEW m \in e .. Len(file) PROVE i \notin OpenedBy(m)
  <2>1. e \in i .. m
    BY <1>1, <1>6
  <2> QED
    BY <1>3, <1>1, <1>6, <1>7, <2>1, Depths DEF OpenedBy
<1>11. BlockEnd(i) = e
  <2>1. e - 1 \in i .. e - 1
    BY <1>6
  <2> QED
    BY <1>6, <1>9, <2>1, EndIs
<1>12. DepthAt(e - 1) >= DepthAt(i)
  BY <1>6, <1>8
<1>13. DepthAt(e) = DepthAt(e - 1) + Opens(file[e]) /\ DepthAt(e - 1) \in Int
  BY <1>7, Depths
<1>14. Opens(file[e]) = -1 /\ DepthAt(e) = DepthAt(i) - 1
  BY <1>1, <1>3, <1>6, <1>12, <1>13, OpensIsStep
<1>15. file[e] \in Closers
  BY <1>14, OpensIsStep
<1> QED
  BY <1>1, <1>6, <1>9, <1>10, <1>11, <1>14, <1>15

(* Blocks are nested: one that begins in another ends in it.               *)
LEMMA InsideIs ==
  ASSUME Blocks, Complete,
         NEW f \in 1 .. Len(file), file[f] \in Openers, NEW g \in 1 .. Len(file), file[g] \in Openers
  PROVE  Inside(<<g, BlockEnd(g)>>, <<f, BlockEnd(f)>>) <=> f < g /\ f \in OpenedBy(g)
<1>1. Len(file) \in Nat /\ f \in Nat /\ g \in Nat
  BY Depths
<1>2. /\ BlockEnd(f) \in f + 1 .. Len(file) /\ DepthAt(BlockEnd(f)) = DepthAt(f) - 1
      /\ \A m \in f .. Len(file) : f \in OpenedBy(m) <=> m < BlockEnd(f)
      /\ BlockEnd(g) \in g + 1 .. Len(file)
      /\ \A m \in g .. Len(file) : g \in OpenedBy(m) <=> m < BlockEnd(g)
  BY EveryBlockEnds
<1>3. ASSUME f < g, f \in OpenedBy(g) PROVE BlockEnd(g) <= BlockEnd(f)
  <2>1. SUFFICES ASSUME BlockEnd(f) < BlockEnd(g) PROVE FALSE
    BY <1>1, <1>2
  <2>2. g \in f .. Len(file) /\ g < BlockEnd(f)
    BY <1>1, <1>2, <1>3
  <2>3. BlockEnd(f) \in g .. Len(file) /\ BlockEnd(f) \in 0 .. Len(file)
    BY <1>1, <1>2, <2>2
  <2>4. g \in OpenedBy(BlockEnd(f))
    BY <1>2, <2>1, <2>3
  <2>5. DepthAt(BlockEnd(f)) >= DepthAt(g)
    BY <2>3, <2>4, OpenedFacts
  <2>6. g \in 0 .. Len(file) /\ f \in 0 .. Len(file)
    BY <1>1
  <2>7. DepthAt(g) >= DepthAt(f) /\ DepthAt(g) \in Int /\ DepthAt(f) \in Int
    BY <1>3, <2>6, OpenedFacts, Depths
  <2> QED
    BY <1>2, <2>5, <2>7
<1>4. ASSUME f < g, BlockEnd(g) <= BlockEnd(f) PROVE f \in OpenedBy(g)
  BY <1>1, <1>2, <1>4
<1>5. Inside(<<g, BlockEnd(g)>>, <<f, BlockEnd(f)>>) <=> f < g /\ BlockEnd(g) <= BlockEnd(f)
  BY DEF Inside
<1> QED
  BY <1>3, <1>4, <1>5

-----------------------------------------------------------------------------
(* validate.rs                                                             *)

Plain == Complete /\ ~Has({"oneLine", "shortIf"})

LEMMA PlainLines ==
  ASSUME Blocks, Plain, NEW i \in 1 .. Len(file)
  PROVE  /\ BlockDepthDelta(file[i]) = Opens(file[i])
         /\ file[i] \in Functions => file[i] \in Openers
         /\ file[i] \in Functions \cup {"local"} => file[i] \notin Closers
<1>1. file[i] \in Kinds /\ i \in DOMAIN file
  BY DEF Blocks
<1>2. file[i] \notin {"oneLine", "shortIf"}
  BY <1>1 DEF Plain, Has
<1> QED
  BY <1>2 DEF BlockDepthDelta, Opens, Functions, Openers, Closers

(* What begins at depth 0 begins outside every block.                      *)
LEMMA SurfaceIs ==
  ASSUME Blocks, NEW i \in 1 .. Len(file), file[i] \notin Closers
  PROVE  DepthAt(i - 1) = 0 <=> OpenedBy(i) \subseteq {i}
<1>1. /\ Len(file) \in Nat /\ i \in Nat /\ i - 1 \in 0 .. Len(file)
      /\ DepthAt(i) = DepthAt(i - 1) + Opens(file[i]) /\ DepthAt(i - 1) \in Nat
  BY Depths, DepthIsNatural
<1>2. DepthAt(i) >= DepthAt(i - 1) /\ DepthAt(i) \in Int
  BY <1>1, OpensIsStep
<1>3. ASSUME DepthAt(i - 1) = 0, NEW k \in OpenedBy(i), k # i PROVE FALSE
  <2>1. k \in OpenedBy(i - 1)
    BY <1>3, OpenedByStep
  <2>2. DepthAt(k) >= 1 /\ DepthAt(i - 1) >= DepthAt(k) /\ k \in 0 .. Len(file)
    BY <1>1, <2>1, OpenedFacts
  <2>3. DepthAt(k) \in Int
    BY <2>2, Depths
  <2> QED
    BY <1>3, <2>2, <2>3
<1>4. ASSUME DepthAt(i - 1) # 0 PROVE \E k \in OpenedBy(i) : k # i
  <2>1. PICK k \in OpenedBy(i - 1) : DepthAt(k) = DepthAt(i - 1)
    BY <1>1, <1>4, SomethingIsOpen
  <2>2. k \in 1 .. i - 1
    BY DEF OpenedBy
  <2>3. DepthAt(i) >= DepthAt(k)
    BY <1>2, <2>1
  <2>4. k \in OpenedBy(i) /\ k # i
    BY <1>1, <2>2, <2>3, OpenedByStep
  <2> QED
    BY <2>4
<1> QED
  BY <1>3, <1>4

(* The depth the validator counts is the depth, as it never falls below 0. *)
LEMMA CountedDepth ==
  ASSUME Blocks, Plain
  PROVE  TopLevelSymbols = {i \in DOMAIN file : DepthAt(i - 1) = 0 /\ file[i] \in Functions \cup {"local"}}
<1> DEFINE Counts(d) == d = [i \in 0 .. Len(file) |-> IF i = 0 THEN 0 ELSE Max({0, d[i - 1] + BlockDepthDelta(file[i])})]
<1> DEFINE depth == CHOOSE d : Counts(d)
<1>1. Len(file) \in Nat /\ DOMAIN file = 1 .. Len(file)
  BY DEF Blocks
<1>2. ASSUME NEW i \in 1 .. Len(file)
      PROVE  Max({0, DepthAt(i - 1) + BlockDepthDelta(file[i])}) = DepthAt(i)
  <2>1. /\ DepthAt(i) = DepthAt(i - 1) + Opens(file[i]) /\ i \in 0 .. Len(file)
        /\ BlockDepthDelta(file[i]) = Opens(file[i])
    BY Depths, PlainLines
  <2>2. DepthAt(i) \in Nat
    BY <2>1, DepthIsNatural
  <2>3. {0, DepthAt(i)} \subseteq Int /\ \A y \in {0, DepthAt(i)} : y <= DepthAt(i)
    BY <2>2
  <2>4. Max({0, DepthAt(i)}) = DepthAt(i)
    BY <2>3, MaxIs
  <2> QED
    BY <2>1, <2>4
<1>3. Counts([i \in 0 .. Len(file) |-> DepthAt(i)])
  <2> DEFINE d == [i \in 0 .. Len(file) |-> DepthAt(i)]
  <2>1. ASSUME NEW i \in 0 .. Len(file)
        PROVE  d[i] = IF i = 0 THEN 0 ELSE Max({0, d[i - 1] + BlockDepthDelta(file[i])})
    <3>1. CASE i = 0
      BY <3>1, Depths
    <3>2. CASE i # 0
      <4>1. i \in 1 .. Len(file) /\ i - 1 \in 0 .. Len(file)
        BY <1>1, <3>2
      <4>2. d[i - 1] = DepthAt(i - 1) /\ d[i] = DepthAt(i)
        BY <4>1
      <4> QED
        BY <1>2, <3>2, <4>1, <4>2
    <3> QED
      BY <3>1, <3>2
  <2>2. d = [i \in 0 .. Len(file) |-> d[i]]
    OBVIOUS
  <2> HIDE DEF d
  <2>3. Counts(d)
    BY <2>1, <2>2
  <2> QED
    BY <2>3 DEF d
<1>4. Counts(depth)
  <2> HIDE DEF Counts
  <2> QED
    BY <1>3
<1>5. TopLevelSymbols = {i \in DOMAIN file : depth[i - 1] = 0 /\ file[i] \in Functions \cup {"local"}}
  BY DEF TopLevelSymbols
<1> HIDE DEF depth
<1>6. ASSUME NEW n \in 0 .. Len(file) PROVE depth[n] = DepthAt(n)
  <2> DEFINE Bad == {m \in 0 .. Len(file) : depth[m] # DepthAt(m)}
  <2>1. SUFFICES ASSUME Bad # {} PROVE FALSE
    OBVIOUS
  <2>2. PICK m \in Bad : \A j \in Bad : m <= j
    <3>1. Bad \subseteq Nat
      OBVIOUS
    <3> HIDE DEF Bad
    <3> QED
      BY <2>1, <3>1, LeastNumber
  <2>3. m # 0
    BY <1>1, <1>4, <2>2, Depths
  <2>4. m \in 1 .. Len(file) /\ m - 1 \in 0 .. Len(file) /\ ~(m <= m - 1) /\ m \in 0 .. Len(file)
    BY <1>1, <2>2, <2>3
  <2>5. depth[m - 1] = DepthAt(m - 1)
    BY <2>2, <2>4
  <2>6. depth[m] = Max({0, depth[m - 1] + BlockDepthDelta(file[m])})
    BY <1>4, <2>3, <2>4
  <2>7. depth[m] = DepthAt(m)
    BY <1>2, <2>4, <2>5, <2>6
  <2> QED
    BY <2>2, <2>7
<1>7. \A i \in DOMAIN file : i - 1 \in 0 .. Len(file)
  BY <1>1
<1> HIDE DEF Counts
<1> QED
  BY <1>5, <1>6, <1>7

LEMMA SymbolsAreCounted ==
  ASSUME Blocks, Plain
  PROVE  TopLevelSymbols = {i \in DOMAIN file :
            file[i] \in Functions \cup {"local"} /\ OpenedBy(i) \subseteq {i}}
<1>1. ASSUME NEW i \in DOMAIN file, file[i] \in Functions \cup {"local"}
      PROVE  DepthAt(i - 1) = 0 <=> OpenedBy(i) \subseteq {i}
  <2>1. i \in 1 .. Len(file)
    BY DEF Blocks
  <2> QED
    BY <1>1, <2>1, PlainLines, SurfaceIs
<1> QED
  BY <1>1, CountedDepth

FunctionLines(n) == {k \in 1 .. n : file[k] \in Functions}
OpenFunctions(n) == {k \in OpenedBy(n) : file[k] \in Functions}

(* Functions of the first n lines that are directly in f.                  *)
Direct(f, n) ==
  {g \in FunctionLines(n) : /\ f < g /\ f \in OpenedBy(g)
                            /\ ~\E h \in OpenFunctions(g) : f < h /\ h < g}

Frames == [start : Nat, depth : Int, nested : Nat]

(* The stack has the functions that are open, each with its depth, counted *)
(* to the next one, and the number of functions met directly in it.        *)
Stacked(s, n) ==
  /\ \A a \in 1 .. Len(s) : s[a].start \in OpenFunctions(n)
  /\ \A k \in OpenFunctions(n) : \E a \in 1 .. Len(s) : s[a].start = k
  /\ \A a, b \in 1 .. Len(s) : a < b => s[a].start < s[b].start
Balanced(s, n) ==
  \A a \in 1 .. Len(s) :
    s[a].depth = (IF a = Len(s) THEN DepthAt(n) ELSE DepthAt(s[a + 1].start - 1)) - DepthAt(s[a].start) + 1
Told(s, n) == \A a \in 1 .. Len(s) : s[a].nested = Cardinality(Direct(s[a].start, n))

(* What is found is the functions that ended.                              *)
Ended(n) == FunctionLines(n) \ OpenFunctions(n)
Reported(found, n) == found = {<<f, BlockEnd(f), Cardinality(Direct(f, n))>> : f \in Ended(n)}

Weighed(w, n) ==
  /\ w = [stack |-> w.stack, found |-> w.found]
  /\ w.stack \in Seq(Frames)
  /\ Stacked(w.stack, n) /\ Balanced(w.stack, n) /\ Told(w.stack, n) /\ Reported(w.found, n)

LEMMA DirectIsFinite ==
  ASSUME NEW n \in Nat, NEW f
  PROVE  IsFiniteSet(Direct(f, n)) /\ Cardinality(Direct(f, n)) \in Nat
<1>1. IsFiniteSet(1 .. n)
  BY FS_Interval
<1>2. Direct(f, n) \subseteq 1 .. n
  BY DEF Direct, FunctionLines
<1>3. IsFiniteSet(Direct(f, n))
  BY <1>1, <1>2, FS_Subset
<1> QED
  BY <1>3, FS_CardinalityType

(* A line adds a function to the innermost open one only.                  *)
LEMMA DirectStep ==
  ASSUME NEW n \in Nat \ {0}, NEW f
  PROVE  Direct(f, n) = Direct(f, n - 1) \cup
           {g \in {n} : /\ file[g] \in Functions /\ f < g /\ f \in OpenedBy(g)
                        /\ ~\E h \in OpenFunctions(g) : f < h /\ h < g}
<1>1. 1 .. n = 1 .. (n - 1) \cup {n}
  OBVIOUS
<1>2. FunctionLines(n) = FunctionLines(n - 1) \cup {k \in {n} : file[k] \in Functions}
  BY <1>1 DEF FunctionLines
<1> QED
  BY <1>2 DEF Direct

LEMMA OtherLinesAddNothing ==
  ASSUME NEW n \in Nat \ {0}, file[n] \notin Functions
  PROVE  /\ \A f : Direct(f, n) = Direct(f, n - 1)
         /\ FunctionLines(n) = FunctionLines(n - 1)
<1>1. 1 .. n = 1 .. (n - 1) \cup {n}
  OBVIOUS
<1>2. FunctionLines(n) = FunctionLines(n - 1)
  BY <1>1 DEF FunctionLines
<1> QED
  BY <1>2, DirectStep

LEMMA OpenFunctionsStep ==
  ASSUME Blocks, Plain, NEW n \in 1 .. Len(file)
  PROVE  /\ file[n] \in Functions => OpenFunctions(n) = OpenFunctions(n - 1) \cup {n}
         /\ file[n] \notin Functions =>
              OpenFunctions(n) = {k \in OpenFunctions(n - 1) : DepthAt(n) >= DepthAt(k)}
         /\ n \notin OpenFunctions(n - 1)
<1>1. /\ Len(file) \in Nat /\ n \in Nat /\ n - 1 \in 0 .. Len(file) /\ DepthAt(n - 1) \in Int
      /\ DepthAt(n) = DepthAt(n - 1) + Opens(file[n])
  BY Depths
<1>2. ASSUME file[n] \in Functions, NEW k \in OpenedBy(n - 1) PROVE DepthAt(n) >= DepthAt(k)
  <2>1. DepthAt(n) = DepthAt(n - 1) + 1
    BY <1>1, <1>2, PlainLines, OpensIsStep
  <2>2. DepthAt(n - 1) >= DepthAt(k) /\ k \in 1 .. Len(file)
    BY <1>1, OpenedFacts
  <2>3. DepthAt(k) \in Int
    BY <2>2, Depths
  <2> QED
    BY <1>1, <2>1, <2>2, <2>3
<1>3. file[n] \in Functions => file[n] \in Openers
  BY PlainLines
<1>4. n \notin OpenedBy(n - 1)
  BY <1>1 DEF OpenedBy
<1>5. \A k : k \in OpenedBy(n) <=> \/ k = n /\ file[n] \in Openers
                                   \/ k \in OpenedBy(n - 1) /\ DepthAt(n) >= DepthAt(k)
  BY OpenedByStep
<1>6. ASSUME file[n] \in Functions
      PROVE  OpenFunctions(n) = OpenFunctions(n - 1) \cup {n}
  BY <1>2, <1>3, <1>5, <1>6 DEF OpenFunctions
<1>7. ASSUME file[n] \notin Functions
      PROVE  OpenFunctions(n) = {k \in OpenFunctions(n - 1) : DepthAt(n) >= DepthAt(k)}
  BY <1>5, <1>7 DEF OpenFunctions
<1> QED
  BY <1>4, <1>6, <1>7 DEF OpenFunctions

LEMMA OpenFunctionFacts ==
  ASSUME Blocks, NEW n \in 0 .. Len(file), NEW k \in OpenFunctions(n)
  PROVE  /\ k \in 1 .. n /\ k \in 1 .. Len(file) /\ k \in Nat /\ file[k] \in Openers /\ k \in OpenedBy(n)
         /\ DepthAt(k) = DepthAt(k - 1) + 1 /\ DepthAt(k) \in Int /\ DepthAt(k - 1) \in Int
         /\ DepthAt(n) >= DepthAt(k)
         /\ \A j \in k .. n : DepthAt(j) >= DepthAt(k)
<1>1. k \in OpenedBy(n)
  BY DEF OpenFunctions
<1>2. /\ k \in 1 .. n /\ k \in 1 .. Len(file) /\ file[k] \in Openers
      /\ DepthAt(k) = DepthAt(k - 1) + 1 /\ DepthAt(n) >= DepthAt(k)
      /\ \A j \in k .. n : DepthAt(j) >= DepthAt(k)
  BY <1>1, OpenedFacts
<1>3. DepthAt(k) \in Int /\ DepthAt(k - 1) \in Int /\ k \in Nat
  BY <1>2, Depths
<1> QED
  BY <1>1, <1>2, <1>3

LEMMA FrontFacts ==
  ASSUME NEW S, NEW s \in Seq(S), s # <<>>
  PROVE  /\ Front(s) \in Seq(S) /\ Len(Front(s)) = Len(s) - 1 /\ Len(s) \in Nat \ {0}
         /\ \A a \in 1 .. Len(s) - 1 : Front(s)[a] = s[a]
         /\ Last(s) = s[Len(s)] /\ s[Len(s)] \in S
<1>1. Len(s) \in Nat \ {0}
  BY EmptySeq
<1>2. Front(s) = SubSeq(s, 1, Len(s) - 1)
  BY DEF Front
<1>3. Len(s) - 1 \in 0 .. Len(s) /\ Len(s) \in 1 .. Len(s)
  BY <1>1
<1>4. /\ SubSeq(s, 1, Len(s) - 1) \in Seq(S) /\ Len(SubSeq(s, 1, Len(s) - 1)) = Len(s) - 1
      /\ \A a \in 1 .. Len(s) - 1 : SubSeq(s, 1, Len(s) - 1)[a] = s[a]
  <2>1. 1 \in 1 .. Len(s) + 1 /\ Len(s) - 1 \in 1 - 1 .. Len(s) /\ (Len(s) - 1) - 1 + 1 = Len(s) - 1
    BY <1>1
  <2>2. \A a \in 1 .. Len(s) - 1 : 1 + a - 1 = a
    BY <1>1
  <2> QED
    BY <2>1, <2>2, SubSeqProperties
<1>5. Last(s) = s[Len(s)] /\ s[Len(s)] \in S
  BY <1>3 DEF Last
<1> QED
  BY <1>1, <1>2, <1>4, <1>5

LEMMA ReplaceLast ==
  ASSUME NEW S, NEW s \in Seq(S), s # <<>>, NEW x \in S
  PROVE  /\ Front(s) \o <<x>> \in Seq(S) /\ Len(Front(s) \o <<x>>) = Len(s)
         /\ \A a \in 1 .. Len(s) : (Front(s) \o <<x>>)[a] = IF a = Len(s) THEN x ELSE s[a]
<1>1. /\ Front(s) \in Seq(S) /\ Len(Front(s)) = Len(s) - 1 /\ Len(s) \in Nat \ {0}
      /\ \A a \in 1 .. Len(s) - 1 : Front(s)[a] = s[a]
  BY FrontFacts
<1> QED
  BY <1>1

(* A function is pushed, and told to the function it is in.                *)
LEMMA WeighFunction ==
  ASSUME Blocks, Plain, NEW n \in 1 .. Len(file), file[n] \in Functions, NEW w, Weighed(w, n - 1)
  PROVE  Weighed(Weigh(w, n), n)
<1> DEFINE s == w.stack
<1> DEFINE L == Len(s)
<1> DEFINE told == [k \in DOMAIN s |-> [s[k] EXCEPT !.nested = @ + (IF k = Len(s) THEN 1 ELSE 0)]]
<1> DEFINE new == [start |-> n, depth |-> 1, nested |-> 0]
<1> DEFINE t == Append(told, new)
<1>1. /\ Len(file) \in Nat /\ n \in Nat \ {0} /\ n - 1 \in 0 .. Len(file) /\ n \in 0 .. Len(file) /\ n - 1 \in Nat
      /\ DepthAt(n) \in Int /\ DepthAt(n - 1) \in Int /\ n - 1 < n
      /\ BlockDepthDelta(file[n]) = 1 /\ DepthAt(n) = DepthAt(n - 1) + 1 /\ file[n] \in Openers
  BY Depths, PlainLines, OpensIsStep
<1>2. /\ w = [stack |-> s, found |-> w.found] /\ s \in Seq(Frames)
      /\ Stacked(s, n - 1) /\ Balanced(s, n - 1) /\ Told(s, n - 1) /\ Reported(w.found, n - 1)
  BY DEF Weighed
<1>3. Max({1, BlockDepthDelta(file[n])}) = 1
  <2>1. {1, 1} \subseteq Int /\ \A y \in {1, 1} : y <= 1
    OBVIOUS
  <2> QED
    BY <1>1, <2>1, MaxIs
<1>4. Weigh(w, n) = [stack |-> t, found |-> w.found]
  <2>1. Weigh(w, n) = [w EXCEPT !.stack = Append(told, [start |-> n, depth |-> Max({1, BlockDepthDelta(file[n])}), nested |-> 0])]
    BY DEF Weigh
  <2> HIDE DEF told
  <2> QED
    BY <1>2, <1>3, <2>1
<1>5. L \in Nat /\ DOMAIN s = 1 .. L /\ \A a \in 1 .. L : s[a] \in Frames
  BY <1>2
<1>6. ASSUME NEW a \in 1 .. L
      PROVE  /\ told[a] \in Frames /\ told[a].start = s[a].start /\ told[a].depth = s[a].depth
             /\ told[a].nested = s[a].nested + (IF a = L THEN 1 ELSE 0)
  <2> DEFINE one == IF a = L THEN 1 ELSE 0
  <2>1. told[a] = [s[a] EXCEPT !.nested = s[a].nested + one]
    BY <1>5
  <2>2. s[a] \in [start : Nat, depth : Int, nested : Nat] /\ one \in Nat
    BY <1>5 DEF Frames
  <2>3. s[a].nested + one \in Nat
    BY <2>2
  <2> HIDE DEF told, one
  <2>4. told[a] \in [start : Nat, depth : Int, nested : Nat]
    BY <2>1, <2>2, <2>3
  <2>5. told[a].start = s[a].start /\ told[a].depth = s[a].depth /\ told[a].nested = s[a].nested + one
    BY <2>1, <2>2
  <2> QED
    BY <2>4, <2>5 DEF Frames, one
<1>7. told \in Seq(Frames) /\ Len(told) = L
  <2>1. told \in [1 .. L -> Frames]
    BY <1>5, <1>6
  <2> HIDE DEF told
  <2> QED
    BY <1>5, <2>1
<1>8. new \in Frames
  BY <1>1 DEF Frames
<1>9. /\ t \in Seq(Frames) /\ Len(t) = L + 1
      /\ \A a \in 1 .. L : t[a] = told[a]
      /\ t[L + 1] = new
  <2> HIDE DEF told, new
  <2> QED
    BY <1>5, <1>7, <1>8
<1>10. /\ \A a \in 1 .. L : /\ t[a].start = s[a].start /\ t[a].depth = s[a].depth
                            /\ t[a].nested = s[a].nested + (IF a = L THEN 1 ELSE 0)
       /\ t[L + 1].start = n /\ t[L + 1].depth = 1 /\ t[L + 1].nested = 0
  <2>1. new.start = n /\ new.depth = 1 /\ new.nested = 0
    OBVIOUS
  <2> HIDE DEF told, new, t
  <2> QED
    BY <1>6, <1>9, <2>1
<1> HIDE DEF told, new, t
<1>11. OpenFunctions(n) = OpenFunctions(n - 1) \cup {n} /\ n \notin OpenFunctions(n - 1)
  BY OpenFunctionsStep
<1>12. ASSUME NEW a \in 1 .. L
       PROVE  s[a].start \in OpenFunctions(n - 1) /\ s[a].start \in 1 .. n - 1 /\ s[a].start < n
  <2>1. s[a].start \in OpenFunctions(n - 1)
    BY <1>2 DEF Stacked
  <2>2. s[a].start \in 1 .. n - 1
    BY <1>1, <2>1, OpenFunctionFacts
  <2> QED
    BY <1>1, <2>1, <2>2
<1>13. \A a \in 1 .. L + 1 : a \in 1 .. L \/ a = L + 1
  BY <1>5
<1>14. Stacked(t, n)
  <2>1. ASSUME NEW a \in 1 .. L + 1 PROVE t[a].start \in OpenFunctions(n)
    BY <1>10, <1>11, <1>12, <1>13
  <2>2. ASSUME NEW k \in OpenFunctions(n) PROVE \E a \in 1 .. L + 1 : t[a].start = k
    <3>1. CASE k = n
      BY <1>5, <1>10, <3>1
    <3>2. CASE k \in OpenFunctions(n - 1)
      <4>1. PICK a \in 1 .. L : s[a].start = k
        BY <1>2, <3>2 DEF Stacked
      <4>2. a \in 1 .. L + 1
        BY <1>5
      <4> QED
        BY <1>10, <4>1, <4>2
    <3> QED
      BY <1>11, <3>1, <3>2
  <2>3. ASSUME NEW a \in 1 .. L + 1, NEW b \in 1 .. L + 1, a < b PROVE t[a].start < t[b].start
    <3>1. a \in 1 .. L
      BY <1>5, <2>3
    <3>2. CASE b = L + 1
      BY <1>10, <1>12, <3>1, <3>2
    <3>3. CASE b \in 1 .. L
      BY <1>2, <1>10, <2>3, <3>1, <3>3 DEF Stacked
    <3> QED
      BY <1>13, <3>2, <3>3
  <2> QED
    BY <1>9, <2>1, <2>2, <2>3 DEF Stacked
<1>15. Balanced(t, n)
  <2>1. ASSUME NEW a \in 1 .. L + 1
        PROVE  t[a].depth = (IF a = L + 1 THEN DepthAt(n) ELSE DepthAt(t[a + 1].start - 1)) - DepthAt(t[a].start) + 1
    <3>1. CASE a = L + 1
      BY <1>1, <1>10, <3>1
    <3>2. CASE a \in 1 .. L /\ a = L
      <4>1. a # L + 1 /\ t[a + 1].start = n
        BY <1>5, <1>10, <3>2
      <4>2. s[a].depth = DepthAt(n - 1) - DepthAt(s[a].start) + 1
        BY <1>2, <3>2 DEF Balanced
      <4> QED
        BY <1>10, <3>2, <4>1, <4>2
    <3>3. CASE a \in 1 .. L /\ a # L
      <4>1. a # L + 1 /\ a + 1 \in 1 .. L
        BY <1>5, <3>3
      <4>2. s[a].depth = DepthAt(s[a + 1].start - 1) - DepthAt(s[a].start) + 1
        BY <1>2, <3>3 DEF Balanced
      <4> QED
        BY <1>10, <3>3, <4>1, <4>2
    <3> QED
      BY <1>13, <3>1, <3>2, <3>3
  <2> QED
    BY <1>9, <2>1 DEF Balanced
<1>16. ASSUME NEW f
       PROVE  Direct(f, n) = Direct(f, n - 1) \cup
                {g \in {n} : /\ file[g] \in Functions /\ f < g /\ f \in OpenedBy(g)
                             /\ ~\E h \in OpenFunctions(g) : f < h /\ h < g}
  BY <1>1, DirectStep
<1>17. Told(t, n)
  <2>1. ASSUME NEW a \in 1 .. L, a # L PROVE Direct(s[a].start, n) = Direct(s[a].start, n - 1)
    <3>1. L \in 1 .. L /\ a < L
      BY <1>5, <2>1
    <3>2. s[a].start < s[L].start
      BY <1>2, <3>1 DEF Stacked
    <3>3. s[L].start \in OpenFunctions(n) /\ s[L].start < n
      BY <1>11, <1>12, <3>1
    <3>4. \E h \in OpenFunctions(n) : s[a].start < h /\ h < n
      BY <3>2, <3>3
    <3>5. {g \in {n} : /\ file[g] \in Functions /\ s[a].start < g /\ s[a].start \in OpenedBy(g)
                      /\ ~\E h \in OpenFunctions(g) : s[a].start < h /\ h < g} = {}
      BY <3>4
    <3> QED
      BY <1>16, <3>5
  <2>2. ASSUME NEW a \in 1 .. L, a = L PROVE Direct(s[a].start, n) = Direct(s[a].start, n - 1) \cup {n}
    <3>1. ASSUME NEW h \in OpenFunctions(n), s[a].start < h, h < n PROVE FALSE
      <4>1. h \in OpenFunctions(n - 1)
        BY <1>1, <1>11, <3>1
      <4>2. PICK b \in 1 .. L : s[b].start = h
        BY <1>2, <4>1 DEF Stacked
      <4>3. b = a \/ b < a
        BY <1>5, <2>2
      <4>4. s[b].start \in Nat /\ s[a].start \in Nat
        BY <1>1, <1>12
      <4>5. b < a => s[b].start < s[a].start
        BY <1>2 DEF Stacked
      <4> QED
        BY <3>1, <4>2, <4>3, <4>4, <4>5
    <3>2. s[a].start < n /\ s[a].start \in OpenedBy(n)
      <4>1. s[a].start \in OpenFunctions(n)
        BY <1>11, <1>12
      <4> QED
        BY <1>12, <4>1 DEF OpenFunctions
    <3> QED
      BY <1>16, <3>1, <3>2
  <2>3. ASSUME NEW a \in 1 .. L + 1 PROVE t[a].nested = Cardinality(Direct(t[a].start, n))
    <3>1. CASE a = L + 1
      <4>1. Direct(n, n) = {}
        <5>1. \A g \in FunctionLines(n) : ~(n < g)
          BY <1>1 DEF FunctionLines
        <5> QED
          BY <5>1 DEF Direct
      <4> QED
        BY <1>10, <3>1, <4>1, FS_EmptySet
    <3>2. CASE a \in 1 .. L /\ a # L
      <4>1. s[a].nested = Cardinality(Direct(s[a].start, n - 1)) /\ s[a].nested \in Nat
        BY <1>2, <1>5, <3>2 DEF Told, Frames
      <4> QED
        BY <1>10, <2>1, <3>2, <4>1
    <3>3. CASE a \in 1 .. L /\ a = L
      <4>1. s[a].nested = Cardinality(Direct(s[a].start, n - 1)) /\ s[a].nested \in Nat
        BY <1>2, <1>5, <3>3 DEF Told, Frames
      <4>2. n \notin Direct(s[a].start, n - 1)
        BY <1>1 DEF Direct, FunctionLines
      <4>3. IsFiniteSet(Direct(s[a].start, n - 1))
        BY <1>1, DirectIsFinite
      <4>4. Cardinality(Direct(s[a].start, n - 1) \cup {n}) = Cardinality(Direct(s[a].start, n - 1)) + 1
        BY <4>2, <4>3, FS_AddElement
      <4> QED
        BY <1>10, <2>2, <3>3, <4>1, <4>4
    <3> QED
      BY <1>13, <3>1, <3>2, <3>3
  <2> QED
    BY <1>9, <2>3 DEF Told
<1>18. Reported(w.found, n)
  <2>1. Ended(n) = Ended(n - 1)
    <3>1. 1 .. n = 1 .. (n - 1) \cup {n}
      BY <1>1
    <3>2. FunctionLines(n) = FunctionLines(n - 1) \cup {n} /\ n \notin FunctionLines(n - 1)
      BY <1>1, <3>1 DEF FunctionLines
    <3> QED
      BY <1>11, <3>2 DEF Ended
  <2>2. ASSUME NEW f \in Ended(n) PROVE Direct(f, n) = Direct(f, n - 1)
    <3>1. f \notin OpenedBy(n)
      BY <2>2 DEF Ended, FunctionLines, OpenFunctions
    <3> QED
      BY <1>16, <3>1
  <2> QED
    BY <1>2, <2>1, <2>2 DEF Reported
<1> QED
  BY <1>4, <1>9, <1>14, <1>15, <1>17, <1>18 DEF Weighed

(* A line outside every function is not looked at.                         *)
LEMMA WeighOutside ==
  ASSUME Blocks, Plain, NEW n \in 1 .. Len(file), file[n] \notin Functions, NEW w, Weighed(w, n - 1), w.stack = <<>>
  PROVE  Weighed(Weigh(w, n), n)
<1>1. n \in Nat \ {0}
  BY Depths
<1>2. /\ w = [stack |-> w.stack, found |-> w.found] /\ w.stack \in Seq(Frames)
      /\ Stacked(w.stack, n - 1) /\ Reported(w.found, n - 1)
  BY DEF Weighed
<1>3. Weigh(w, n) = w
  BY DEF Weigh
<1>4. Len(w.stack) = 0 /\ 1 .. Len(w.stack) = {}
  OBVIOUS
<1>5. OpenFunctions(n - 1) = {}
  BY <1>2, <1>4 DEF Stacked
<1>6. OpenFunctions(n) = {}
  BY <1>5, OpenFunctionsStep
<1>7. Reported(w.found, n)
  <2>1. Ended(n) = Ended(n - 1)
    BY <1>1, <1>5, <1>6, OtherLinesAddNothing DEF Ended
  <2> QED
    BY <1>1, <1>2, <2>1, OtherLinesAddNothing DEF Reported
<1>8. Stacked(w.stack, n) /\ Balanced(w.stack, n) /\ Told(w.stack, n)
  BY <1>4, <1>6 DEF Stacked, Balanced, Told
<1> QED
  BY <1>2, <1>3, <1>7, <1>8 DEF Weighed

(* The innermost function is the one that counts the line.                 *)
LEMMA TopOfStack ==
  ASSUME Blocks, Plain, NEW n \in 1 .. Len(file), NEW w, Weighed(w, n - 1), w.stack # <<>>
  PROVE  /\ Len(w.stack) \in Nat \ {0} /\ Last(w.stack) = w.stack[Len(w.stack)] /\ Last(w.stack) \in Frames
         /\ Last(w.stack).start \in OpenFunctions(n - 1)
         /\ Last(w.stack).depth + BlockDepthDelta(file[n]) = DepthAt(n) - DepthAt(Last(w.stack).start) + 1
         /\ \A a \in 1 .. Len(w.stack) :
              /\ w.stack[a] \in Frames /\ w.stack[a].start \in OpenFunctions(n - 1)
              /\ a # Len(w.stack) =>
                   /\ w.stack[a].start < Last(w.stack).start
                   /\ DepthAt(w.stack[a].start) <= DepthAt(Last(w.stack).start - 1)
<1> DEFINE s == w.stack
<1> DEFINE L == Len(s)
<1>1. s \in Seq(Frames) /\ Stacked(s, n - 1) /\ Balanced(s, n - 1)
  BY DEF Weighed
<1>2. L \in Nat \ {0} /\ L \in 1 .. L /\ Last(s) = s[L] /\ Last(s) \in Frames
  <2> HIDE DEF s
  <2>1. s # <<>>
    BY DEF s
  <2>2. Len(s) \in Nat \ {0} /\ Last(s) = s[Len(s)] /\ s[Len(s)] \in Frames
    BY <1>1, <2>1, FrontFacts
  <2> QED
    BY <2>2
<1>3. /\ n - 1 \in 0 .. Len(file) /\ DepthAt(n) = DepthAt(n - 1) + Opens(file[n]) /\ Opens(file[n]) \in Int
      /\ DepthAt(n) \in Int /\ DepthAt(n - 1) \in Int /\ BlockDepthDelta(file[n]) = Opens(file[n]) /\ n \in Nat
  BY Depths, PlainLines, OpensIsStep
<1>4. ASSUME NEW a \in 1 .. L PROVE s[a] \in Frames /\ s[a].start \in OpenFunctions(n - 1)
  BY <1>1, <1>2 DEF Stacked
<1>5. s[L].depth = DepthAt(n - 1) - DepthAt(s[L].start) + 1
  BY <1>1, <1>2 DEF Balanced
<1>6. s[L].start \in OpenFunctions(n - 1) /\ DepthAt(s[L].start) \in Int /\ s[L].start \in 1 .. n - 1
  BY <1>2, <1>3, <1>4, OpenFunctionFacts
<1>7. s[L].depth + BlockDepthDelta(file[n]) = DepthAt(n) - DepthAt(s[L].start) + 1
  BY <1>3, <1>5, <1>6
<1>8. ASSUME NEW a \in 1 .. L, a # L
      PROVE  s[a].start < s[L].start /\ DepthAt(s[a].start) <= DepthAt(s[L].start - 1)
  <2>1. a < L
    BY <1>2, <1>8
  <2>2. s[a].start < s[L].start
    BY <1>1, <1>2, <2>1 DEF Stacked
  <2>3. s[a].start \in OpenFunctions(n - 1) /\ s[a].start \in 1 .. n - 1
    BY <1>3, <1>4, OpenFunctionFacts
  <2>4. s[L].start - 1 \in s[a].start .. n - 1
    <3>1. \A x, y \in 1 .. n - 1 : x < y => y - 1 \in x .. n - 1
      BY <1>3
    <3> HIDE DEF s, L
    <3> QED
      BY <1>6, <2>2, <2>3, <3>1
  <2>5. DepthAt(s[L].start - 1) >= DepthAt(s[a].start)
    BY <1>3, <2>3, <2>4, OpenFunctionFacts
  <2> QED
    BY <1>3, <1>6, <2>2, <2>3, <2>5, OpenFunctionFacts
<1> QED
  BY <1>2, <1>4, <1>6, <1>7, <1>8

(* A line that leaves it open is added to its depth.                       *)
LEMMA WeighInside ==
  ASSUME Blocks, Plain, NEW n \in 1 .. Len(file), file[n] \notin Functions, NEW w, Weighed(w, n - 1), w.stack # <<>>,
         Last(w.stack).depth + BlockDepthDelta(file[n]) > 0
  PROVE  Weighed(Weigh(w, n), n)
<1> DEFINE s == w.stack
<1> DEFINE L == Len(s)
<1> DEFINE top == [Last(s) EXCEPT !.depth = @ + BlockDepthDelta(file[n])]
<1> DEFINE t == Front(s) \o <<top>>
<1>1. /\ w = [stack |-> s, found |-> w.found] /\ s \in Seq(Frames) /\ s # <<>>
      /\ Stacked(s, n - 1) /\ Balanced(s, n - 1) /\ Told(s, n - 1) /\ Reported(w.found, n - 1)
  BY DEF Weighed
<1>2. /\ L \in Nat \ {0} /\ Last(s) = s[L] /\ Last(s) \in Frames
      /\ Last(s).start \in OpenFunctions(n - 1)
      /\ Last(s).depth + BlockDepthDelta(file[n]) = DepthAt(n) - DepthAt(Last(s).start) + 1
      /\ \A a \in 1 .. L :
              /\ s[a] \in Frames /\ s[a].start \in OpenFunctions(n - 1)
              /\ a # L => /\ s[a].start < Last(s).start
                          /\ DepthAt(s[a].start) <= DepthAt(Last(s).start - 1)
  BY TopOfStack
<1>3. /\ n - 1 \in 0 .. Len(file) /\ DepthAt(n) \in Int /\ n \in Nat \ {0}
      /\ DepthAt(s[L].start) \in Int
  BY <1>2, Depths, OpenFunctionFacts
<1>4. DepthAt(n) >= DepthAt(s[L].start)
  BY <1>2, <1>3
<1>5. top \in Frames /\ top.start = s[L].start /\ top.nested = s[L].nested
      /\ top.depth = DepthAt(n) - DepthAt(s[L].start) + 1
  <2> DEFINE d == Last(s).depth + BlockDepthDelta(file[n])
  <2>1. d \in Int
    BY <1>2, <1>3
  <2>2. top = [Last(s) EXCEPT !.depth = d]
    OBVIOUS
  <2>3. Last(s) \in [start : Nat, depth : Int, nested : Nat]
    BY <1>2 DEF Frames
  <2>4. d = DepthAt(n) - DepthAt(s[L].start) + 1
    BY <1>2
  <2> HIDE DEF top, d
  <2> QED
    BY <1>2, <2>1, <2>2, <2>3, <2>4 DEF Frames
<1>6. Weigh(w, n) = [stack |-> t, found |-> w.found]
  <2>1. top.depth > 0
    BY <1>2, <1>5
  <2>2. Weigh(w, n) = [w EXCEPT !.stack = t]
    BY <1>1, <2>1 DEF Weigh
  <2> HIDE DEF t
  <2> QED
    BY <1>1, <2>2
<1> HIDE DEF top
<1>7. /\ t \in Seq(Frames) /\ Len(t) = L
      /\ \A a \in 1 .. L : t[a] = IF a = L THEN top ELSE s[a]
  BY <1>1, <1>5, ReplaceLast
<1>8. ASSUME NEW a \in 1 .. L
      PROVE  t[a].start = s[a].start /\ t[a].nested = s[a].nested /\ (a # L => t[a].depth = s[a].depth)
  BY <1>5, <1>7
<1>9. OpenFunctions(n) = OpenFunctions(n - 1)
  <2>1. ASSUME NEW k \in OpenFunctions(n - 1) PROVE DepthAt(n) >= DepthAt(k)
    <3>1. PICK a \in 1 .. L : s[a].start = k
      BY <1>1 DEF Stacked
    <3>2. CASE a = L
      BY <1>4, <3>1, <3>2
    <3>3. CASE a # L
      <4>1. DepthAt(k) <= DepthAt(s[L].start - 1)
        BY <1>2, <3>1, <3>3
      <4>2. DepthAt(s[L].start) = DepthAt(s[L].start - 1) + 1 /\ DepthAt(s[L].start - 1) \in Int /\ DepthAt(k) \in Int
        BY <1>2, <1>3, OpenFunctionFacts
      <4> QED
        BY <1>3, <1>4, <4>1, <4>2
    <3> QED
      BY <3>2, <3>3
  <2> QED
    BY <2>1, OpenFunctionsStep
<1> HIDE DEF t
<1>10. Stacked(t, n)
  BY <1>1, <1>7, <1>8, <1>9 DEF Stacked
<1>11. Balanced(t, n)
  <2>1. ASSUME NEW a \in 1 .. L
        PROVE  t[a].depth = (IF a = L THEN DepthAt(n) ELSE DepthAt(t[a + 1].start - 1)) - DepthAt(t[a].start) + 1
    <3>1. CASE a = L
      BY <1>5, <1>7, <3>1
    <3>2. CASE a # L
      <4>1. a + 1 \in 1 .. L
        BY <1>2, <3>2
      <4>2. s[a].depth = DepthAt(s[a + 1].start - 1) - DepthAt(s[a].start) + 1
        BY <1>1, <3>2 DEF Balanced
      <4> QED
        BY <1>8, <3>2, <4>1, <4>2
    <3> QED
      BY <3>1, <3>2
  <2> QED
    BY <1>7, <2>1 DEF Balanced
<1>12. \A f : Direct(f, n) = Direct(f, n - 1)
  BY <1>3, OtherLinesAddNothing
<1>13. Told(t, n)
  BY <1>1, <1>7, <1>8, <1>12 DEF Told
<1>14. Reported(w.found, n)
  <2>1. Ended(n) = Ended(n - 1)
    BY <1>3, <1>9, OtherLinesAddNothing DEF Ended
  <2> QED
    BY <1>1, <1>12, <2>1 DEF Reported
<1> QED
  BY <1>6, <1>7, <1>10, <1>11, <1>13, <1>14 DEF Weighed

(* The line that closes it takes it from the stack.                        *)
LEMMA WeighEnd ==
  ASSUME Blocks, Plain, NEW n \in 1 .. Len(file), file[n] \notin Functions, NEW w, Weighed(w, n - 1), w.stack # <<>>,
         ~(Last(w.stack).depth + BlockDepthDelta(file[n]) > 0)
  PROVE  Weighed(Weigh(w, n), n)
<1> DEFINE s == w.stack
<1> DEFINE L == Len(s)
<1> DEFINE top == [Last(s) EXCEPT !.depth = @ + BlockDepthDelta(file[n])]
<1> DEFINE t == Front(s)
<1> DEFINE u == s[L].start
<1>1. /\ w = [stack |-> s, found |-> w.found] /\ s \in Seq(Frames) /\ s # <<>>
      /\ Stacked(s, n - 1) /\ Balanced(s, n - 1) /\ Told(s, n - 1) /\ Reported(w.found, n - 1)
  BY DEF Weighed
<1>2. /\ L \in Nat \ {0} /\ Last(s) = s[L] /\ Last(s) \in Frames
      /\ Last(s).start \in OpenFunctions(n - 1)
      /\ Last(s).depth + BlockDepthDelta(file[n]) = DepthAt(n) - DepthAt(Last(s).start) + 1
      /\ \A a \in 1 .. L :
              /\ s[a] \in Frames /\ s[a].start \in OpenFunctions(n - 1)
              /\ a # L => /\ s[a].start < Last(s).start
                          /\ DepthAt(s[a].start) <= DepthAt(Last(s).start - 1)
  BY TopOfStack
<1>3. /\ n - 1 \in 0 .. Len(file) /\ DepthAt(n) \in Int /\ DepthAt(n - 1) \in Int /\ n \in Nat \ {0} /\ Len(file) \in Nat
      /\ DepthAt(n) = DepthAt(n - 1) + Opens(file[n])
  BY Depths
<1>4. /\ u \in OpenFunctions(n - 1) /\ u \in 1 .. n - 1 /\ u \in 1 .. Len(file) /\ file[u] \in Openers
      /\ DepthAt(u) \in Int /\ DepthAt(u - 1) \in Int /\ DepthAt(u) = DepthAt(u - 1) + 1
      /\ DepthAt(n - 1) >= DepthAt(u) /\ u \in OpenedBy(n - 1)
  BY <1>2, <1>3, OpenFunctionFacts
<1>5. DepthAt(n) < DepthAt(u) /\ DepthAt(n) = DepthAt(u - 1)
  <2>1. Opens(file[n]) \in {-1, 0, 1}
    BY OpensIsStep
  <2>2. ~(DepthAt(n) - DepthAt(u) + 1 > 0)
    BY <1>2
  <2> QED
    BY <1>3, <1>4, <2>1, <2>2
<1>6. top.start = u /\ top.nested = s[L].nested /\ ~(top.depth > 0)
  <2>1. Last(s) \in [start : Nat, depth : Int, nested : Nat]
    BY <1>2 DEF Frames
  <2> QED
    BY <1>2, <2>1
<1>7. Weigh(w, n) = [stack |-> t, found |-> w.found \cup {<<u, n, s[L].nested>>}]
  <2>1. Weigh(w, n) = [stack |-> t, found |-> w.found \cup {<<top.start, n, top.nested>>}]
    BY <1>1, <1>6 DEF Weigh
  <2> HIDE DEF top
  <2> QED
    BY <1>6, <2>1
<1> HIDE DEF top
<1>8. t \in Seq(Frames) /\ Len(t) = L - 1 /\ \A a \in 1 .. L - 1 : t[a] = s[a]
  BY <1>1, FrontFacts
<1>9. \A a \in 1 .. L - 1 : a \in 1 .. L /\ a # L
  BY <1>2
<1>10. OpenFunctions(n) = OpenFunctions(n - 1) \ {u}
  <2>1. ASSUME NEW k \in OpenFunctions(n - 1), k # u PROVE DepthAt(n) >= DepthAt(k)
    <3>1. PICK a \in 1 .. L : s[a].start = k
      BY <1>1 DEF Stacked
    <3>2. DepthAt(k) <= DepthAt(u - 1)
      BY <1>2, <2>1, <3>1
    <3>3. DepthAt(k) \in Int
      BY <1>3, OpenFunctionFacts
    <3> QED
      BY <1>3, <1>4, <1>5, <3>2, <3>3
  <2>2. ~(DepthAt(n) >= DepthAt(u))
    BY <1>3, <1>4, <1>5
  <2> HIDE DEF u
  <2> QED
    BY <2>1, <2>2, OpenFunctionsStep
<1>11. BlockEnd(u) = n
  <2>1. n \in u + 1 .. Len(file)
    BY <1>3, <1>4
  <2> QED
    BY <1>4, <1>5, <2>1, EndIs
<1> HIDE DEF t
<1>12. Stacked(t, n)
  <2>1. ASSUME NEW a \in 1 .. L - 1 PROVE t[a].start \in OpenFunctions(n)
    <3>1. s[a].start \in OpenFunctions(n - 1) /\ s[a].start < u /\ s[a].start \in Nat
      BY <1>2, <1>3, <1>9, OpenFunctionFacts
    <3>2. s[a].start # u
      BY <1>4, <3>1
    <3> QED
      BY <1>8, <1>10, <3>1, <3>2
  <2>2. ASSUME NEW k \in OpenFunctions(n) PROVE \E a \in 1 .. L - 1 : t[a].start = k
    <3>1. k \in OpenFunctions(n - 1) /\ k # u
      BY <1>10
    <3>2. PICK a \in 1 .. L : s[a].start = k
      BY <1>1, <3>1 DEF Stacked
    <3>3. a \in 1 .. L - 1
      BY <1>2, <3>1, <3>2
    <3> QED
      BY <1>8, <3>2, <3>3
  <2>3. ASSUME NEW a \in 1 .. L - 1, NEW b \in 1 .. L - 1, a < b PROVE t[a].start < t[b].start
    BY <1>1, <1>8, <1>9, <2>3 DEF Stacked
  <2> QED
    BY <1>8, <2>1, <2>2, <2>3 DEF Stacked
<1>13. Balanced(t, n)
  <2>1. ASSUME NEW a \in 1 .. L - 1
        PROVE  t[a].depth = (IF a = L - 1 THEN DepthAt(n) ELSE DepthAt(t[a + 1].start - 1)) - DepthAt(t[a].start) + 1
    <3>1. s[a].depth = DepthAt(s[a + 1].start - 1) - DepthAt(s[a].start) + 1
      BY <1>1, <1>9 DEF Balanced
    <3>2. CASE a = L - 1
      <4>1. a + 1 = L
        BY <1>2, <3>2
      <4> QED
        BY <1>5, <1>8, <3>1, <3>2, <4>1
    <3>3. CASE a # L - 1
      <4>1. a + 1 \in 1 .. L - 1
        BY <1>2, <3>3
      <4> QED
        BY <1>8, <3>1, <3>3, <4>1
    <3> QED
      BY <3>2, <3>3
  <2> QED
    BY <1>8, <2>1 DEF Balanced
<1>14. \A f : Direct(f, n) = Direct(f, n - 1)
  BY <1>3, OtherLinesAddNothing
<1>15. Told(t, n)
  BY <1>1, <1>8, <1>9, <1>14 DEF Told
<1>16. Reported(w.found \cup {<<u, n, s[L].nested>>}, n)
  <2>1. Ended(n) = Ended(n - 1) \cup {u}
    <3>1. FunctionLines(n) = FunctionLines(n - 1)
      BY <1>3, OtherLinesAddNothing
    <3>2. u \in FunctionLines(n - 1)
      BY <1>4 DEF FunctionLines, OpenFunctions
    <3> QED
      BY <1>4, <1>10, <3>1, <3>2 DEF Ended
  <2>2. s[L].nested = Cardinality(Direct(u, n - 1))
    <3>1. L \in 1 .. L
      BY <1>2
    <3> QED
      BY <1>1, <3>1 DEF Told
  <2> HIDE DEF u
  <2>3. {<<f, BlockEnd(f), Cardinality(Direct(f, n))>> : f \in Ended(n - 1) \cup {u}}
          = {<<f, BlockEnd(f), Cardinality(Direct(f, n))>> : f \in Ended(n - 1)}
              \cup {<<u, BlockEnd(u), Cardinality(Direct(u, n))>>}
    OBVIOUS
  <2>4. w.found = {<<f, BlockEnd(f), Cardinality(Direct(f, n - 1))>> : f \in Ended(n - 1)}
    BY <1>1 DEF Reported
  <2>5. w.found = {<<f, BlockEnd(f), Cardinality(Direct(f, n))>> : f \in Ended(n - 1)}
    BY <1>14, <2>4
  <2>6. <<u, n, s[L].nested>> = <<u, BlockEnd(u), Cardinality(Direct(u, n))>>
    BY <1>11, <1>14, <2>2
  <2> QED
    BY <2>1, <2>3, <2>5, <2>6 DEF Reported
<1> QED
  BY <1>7, <1>8, <1>12, <1>13, <1>15, <1>16 DEF Weighed

NoFrames == [stack |-> <<>>, found |-> {}]

LEMMA WeighStart ==
  ASSUME Blocks
  PROVE  Weighed(NoFrames, 0)
<1>1. OpenFunctions(0) = {} /\ FunctionLines(0) = {}
  BY DEF OpenFunctions, OpenedBy, FunctionLines
<1>2. NoFrames.stack = <<>> /\ NoFrames.found = {} /\ <<>> \in Seq(Frames) /\ Len(<<>>) = 0 /\ 1 .. 0 = {}
  BY DEF NoFrames
<1>3. NoFrames = [stack |-> NoFrames.stack, found |-> NoFrames.found]
  BY DEF NoFrames
<1>4. Reported({}, 0)
  BY <1>1 DEF Reported, Ended
<1>5. Stacked(<<>>, 0) /\ Balanced(<<>>, 0) /\ Told(<<>>, 0)
  BY <1>1, <1>2 DEF Stacked, Balanced, Told
<1> QED
  BY <1>2, <1>3, <1>4, <1>5 DEF Weighed

LEMMA WeighStep ==
  ASSUME Blocks, Plain, NEW n \in 1 .. Len(file), NEW w, Weighed(w, n - 1)
  PROVE  Weighed(Weigh(w, n), n)
  BY WeighFunction, WeighOutside, WeighInside, WeighEnd

(* What is weighed is a recursive function of the line: such a function    *)
(* exists on the first n lines for every n.                                *)
Weighing(A, n) == A = [i \in 0 .. n |-> IF i = 0 THEN NoFrames ELSE Weigh(A[i - 1], i)]

LEMMA WeighingExists ==
  ASSUME NEW n \in Nat
  PROVE  \E A : Weighing(A, n)
<1> DEFINE Bad == {m \in Nat : ~\E A : Weighing(A, m)}
<1>1. SUFFICES ASSUME Bad # {} PROVE FALSE
  OBVIOUS
<1>2. PICK m \in Bad : \A j \in Bad : m <= j
  <2>1. Bad \subseteq Nat
    OBVIOUS
  <2> HIDE DEF Bad
  <2> QED
    BY <1>1, <2>1, LeastNumber
<1>3. CASE m = 0
  <2> DEFINE A == [i \in 0 .. 0 |-> NoFrames]
  <2>1. A = [i \in 0 .. 0 |-> IF i = 0 THEN NoFrames ELSE Weigh(A[i - 1], i)]
    OBVIOUS
  <2> QED
    BY <1>2, <1>3, <2>1 DEF Weighing
<1>4. CASE m # 0
  <2>1. m \in Nat /\ m - 1 \in Nat /\ m - 1 \notin Bad
    BY <1>2, <1>4
  <2>2. PICK B : Weighing(B, m - 1)
    BY <2>1
  <2> DEFINE A == [i \in 0 .. m |-> IF i = 0 THEN NoFrames ELSE Weigh(B[i - 1], i)]
  <2>3. ASSUME NEW i \in 0 .. m - 1 PROVE A[i] = B[i]
    <3>1. i \in 0 .. m
      BY <2>1
    <3>2. A[i] = IF i = 0 THEN NoFrames ELSE Weigh(B[i - 1], i)
      BY <3>1
    <3>3. B[i] = IF i = 0 THEN NoFrames ELSE Weigh(B[i - 1], i)
      BY <2>2 DEF Weighing
    <3> QED
      BY <3>2, <3>3
  <2>4. ASSUME NEW i \in 0 .. m
        PROVE  A[i] = IF i = 0 THEN NoFrames ELSE Weigh(A[i - 1], i)
    <3>1. A[i] = IF i = 0 THEN NoFrames ELSE Weigh(B[i - 1], i)
      OBVIOUS
    <3>2. i # 0 => i - 1 \in 0 .. m - 1
      BY <2>1
    <3> HIDE DEF A
    <3> QED
      BY <2>3, <3>1, <3>2
  <2>5. A = [i \in 0 .. m |-> A[i]]
    OBVIOUS
  <2> HIDE DEF A
  <2>6. A = [i \in 0 .. m |-> IF i = 0 THEN NoFrames ELSE Weigh(A[i - 1], i)]
    BY <2>4, <2>5
  <2> QED
    BY <1>2, <2>6 DEF Weighing
<1> QED
  BY <1>3, <1>4

LEMMA RisksAreReported ==
  ASSUME Blocks, Plain
  PROVE  Reported(FunctionRisks, Len(file))
<1> DEFINE A == CHOOSE f : f = [i \in 0 .. Len(file) |-> IF i = 0 THEN [stack |-> <<>>, found |-> {}] ELSE Weigh(f[i - 1], i)]
<1>1. Len(file) \in Nat
  BY Depths
<1>2. \E f : f = [i \in 0 .. Len(file) |-> IF i = 0 THEN [stack |-> <<>>, found |-> {}] ELSE Weigh(f[i - 1], i)]
  BY <1>1, WeighingExists DEF Weighing, NoFrames
<1>3. A = [i \in 0 .. Len(file) |-> IF i = 0 THEN [stack |-> <<>>, found |-> {}] ELSE Weigh(A[i - 1], i)]
  BY <1>2
<1>4. FunctionRisks = A[Len(file)].found
  BY DEF FunctionRisks
<1> HIDE DEF A
<1>5. ASSUME NEW n \in 0 .. Len(file) PROVE Weighed(A[n], n)
  <2> DEFINE Bad == {m \in 0 .. Len(file) : ~Weighed(A[m], m)}
  <2>1. SUFFICES ASSUME Bad # {} PROVE FALSE
    OBVIOUS
  <2>2. PICK m \in Bad : \A j \in Bad : m <= j
    <3>1. Bad \subseteq Nat
      OBVIOUS
    <3> HIDE DEF Bad
    <3> QED
      BY <2>1, <3>1, LeastNumber
  <2>3. A[0] = NoFrames
    BY <1>1, <1>3 DEF NoFrames
  <2>4. m # 0
    BY <2>2, <2>3, WeighStart
  <2>5. m \in 1 .. Len(file) /\ m - 1 \in 0 .. Len(file) /\ m - 1 \notin Bad /\ m \in 0 .. Len(file)
    BY <1>1, <2>2, <2>4
  <2>6. A[m] = Weigh(A[m - 1], m)
    BY <1>3, <2>4, <2>5
  <2>7. Weighed(A[m - 1], m - 1)
    BY <2>5
  <2>8. Weighed(A[m], m)
    BY <2>5, <2>6, <2>7, WeighStep
  <2> QED
    BY <2>2, <2>8
<1>6. Weighed(A[Len(file)], Len(file))
  BY <1>1, <1>5
<1> QED
  BY <1>4, <1>6 DEF Weighed

(* The functions directly in a function, as the blocks they are.           *)
DirectBlocks(f) ==
  {g \in FunctionBlocks : Inside(g, f) /\ ~\E h \in FunctionBlocks : Inside(g, h) /\ Inside(h, f)}

LEMMA DirectIs ==
  ASSUME Blocks, Plain, NEW f \in 1 .. Len(file), file[f] \in Functions
  PROVE  Cardinality(DirectBlocks(<<f, BlockEnd(f)>>)) = Cardinality(Direct(f, Len(file)))
<1> DEFINE D == Direct(f, Len(file))
<1> DEFINE E == DirectBlocks(<<f, BlockEnd(f)>>)
<1>1. Len(file) \in Nat /\ DOMAIN file = 1 .. Len(file) /\ Complete
  BY DEF Blocks, Plain
<1>2. ASSUME NEW g \in 1 .. Len(file), file[g] \in Functions PROVE file[g] \in Openers
  BY <1>2, PlainLines
<1>3. ASSUME NEW x \in 1 .. Len(file), file[x] \in Functions, NEW y \in 1 .. Len(file), file[y] \in Functions
      PROVE  Inside(<<y, BlockEnd(y)>>, <<x, BlockEnd(x)>>) <=> x < y /\ x \in OpenedBy(y)
  BY <1>1, <1>2, <1>3, InsideIs
<1>4. ASSUME NEW g \in 1 .. Len(file), file[g] \in Functions
      PROVE  <<g, BlockEnd(g)>> \in E <=> g \in D
  <2>1. <<g, BlockEnd(g)>> \in FunctionBlocks
    BY <1>1, <1>4 DEF FunctionBlocks
  <2>2. ASSUME <<g, BlockEnd(g)>> \in E PROVE g \in D
    <3>1. Inside(<<g, BlockEnd(g)>>, <<f, BlockEnd(f)>>)
      BY <2>2 DEF DirectBlocks
    <3>2. f < g /\ f \in OpenedBy(g)
      BY <1>3, <1>4, <3>1
    <3>3. ASSUME NEW h \in OpenFunctions(g), f < h, h < g PROVE FALSE
      <4>1. h \in OpenedBy(g) /\ file[h] \in Functions /\ h \in 1 .. g
        BY DEF OpenFunctions, OpenedBy
      <4>2. h \in 1 .. Len(file) /\ g \in 0 .. Len(file) /\ h \in f .. g
        BY <1>1, <3>3, <4>1
      <4>3. f \in OpenedBy(h)
        BY <3>2, <4>2, OpenedFacts
      <4>4. Inside(<<g, BlockEnd(g)>>, <<h, BlockEnd(h)>>) /\ Inside(<<h, BlockEnd(h)>>, <<f, BlockEnd(f)>>)
        BY <1>3, <1>4, <3>3, <4>1, <4>2, <4>3
      <4>5. <<h, BlockEnd(h)>> \in FunctionBlocks
        BY <1>1, <4>1, <4>2 DEF FunctionBlocks
      <4> QED
        BY <2>2, <4>4, <4>5 DEF DirectBlocks
    <3> QED
      BY <1>4, <3>2, <3>3 DEF Direct, FunctionLines
  <2>3. ASSUME g \in D PROVE <<g, BlockEnd(g)>> \in E
    <3>1. f < g /\ f \in OpenedBy(g) /\ ~\E h \in OpenFunctions(g) : f < h /\ h < g
      BY <2>3 DEF Direct
    <3>2. Inside(<<g, BlockEnd(g)>>, <<f, BlockEnd(f)>>)
      BY <1>3, <1>4, <3>1
    <3>3. ASSUME NEW b \in FunctionBlocks, Inside(<<g, BlockEnd(g)>>, b), Inside(b, <<f, BlockEnd(f)>>) PROVE FALSE
      <4>1. PICK h \in 1 .. Len(file) : file[h] \in Functions /\ b = <<h, BlockEnd(h)>>
        BY <1>1 DEF FunctionBlocks
      <4>2. h < g /\ h \in OpenedBy(g) /\ f < h
        BY <1>3, <1>4, <3>3, <4>1
      <4> QED
        BY <3>1, <4>1, <4>2 DEF OpenFunctions
    <3> QED
      BY <2>1, <3>2, <3>3 DEF DirectBlocks
  <2> QED
    BY <2>2, <2>3
<1>5. ASSUME NEW g \in D PROVE g \in 1 .. Len(file) /\ file[g] \in Functions
  BY DEF Direct, FunctionLines
<1>6. ASSUME NEW b \in E PROVE \E g \in D : b = <<g, BlockEnd(g)>>
  <2>1. PICK g \in 1 .. Len(file) : file[g] \in Functions /\ b = <<g, BlockEnd(g)>>
    BY <1>1 DEF DirectBlocks, FunctionBlocks
  <2> QED
    BY <1>4, <2>1
<1> HIDE DEF D, E
<1> DEFINE F == [g \in D |-> <<g, BlockEnd(g)>>]
<1>7. F \in Bijection(D, E)
  <2>1. F \in [D -> E]
    BY <1>4, <1>5
  <2>2. \A a, b \in D : F[a] = F[b] => a = b
    OBVIOUS
  <2>3. \A e \in E : \E a \in D : F[a] = e
    BY <1>6
  <2> HIDE DEF F
  <2> QED
    BY <2>1, <2>2, <2>3 DEF Bijection, Injection, Surjection, IsInjective
<1>8. IsFiniteSet(D)
  BY <1>1, DirectIsFinite DEF D
<1>9. Cardinality(D) = Cardinality(E)
  BY <1>7, <1>8, FS_Bijection DEF ExistsBijection
<1> QED
  BY <1>9 DEF D, E

(* In a complete file no block is open at the end.                         *)
LEMMA NothingStaysOpen ==
  ASSUME Blocks, Complete
  PROVE  OpenedBy(Len(file)) = {}
<1>1. Len(file) \in 0 .. Len(file) /\ DepthAt(Len(file)) = 0
  BY Depths DEF Complete
<1> SUFFICES ASSUME NEW k \in OpenedBy(Len(file)) PROVE FALSE
  OBVIOUS
<1>2. DepthAt(k) >= 1 /\ DepthAt(Len(file)) >= DepthAt(k) /\ k \in 1 .. Len(file)
  BY <1>1, OpenedFacts
<1>3. DepthAt(k) \in Int
  BY <1>2, Depths
<1> QED
  BY <1>1, <1>2, <1>3

LEMMA FunctionsAreWeighed ==
  ASSUME Blocks, Plain
  PROVE  FunctionRisks = {<<f[1], f[2], Cardinality(DirectBlocks(f))>> : f \in FunctionBlocks}
<1>1. Len(file) \in Nat /\ DOMAIN file = 1 .. Len(file)
  BY DEF Blocks
<1>2. Ended(Len(file)) = {k \in 1 .. Len(file) : file[k] \in Functions}
  BY NothingStaysOpen DEF Ended, FunctionLines, OpenFunctions, Plain
<1>3. FunctionRisks = {<<f, BlockEnd(f), Cardinality(Direct(f, Len(file)))>> : f \in Ended(Len(file))}
  BY RisksAreReported DEF Reported
<1>4. FunctionRisks = {<<f, BlockEnd(f), Cardinality(DirectBlocks(<<f, BlockEnd(f)>>))>> : f \in Ended(Len(file))}
  BY <1>2, <1>3, DirectIs
<1>5. FunctionBlocks = {<<f, BlockEnd(f)>> : f \in Ended(Len(file))}
  BY <1>1, <1>2 DEF FunctionBlocks
<1> DEFINE Row(f) == <<f[1], f[2], Cardinality(DirectBlocks(f))>>
<1>6. ASSUME NEW f \in Ended(Len(file))
      PROVE  Row(<<f, BlockEnd(f)>>) = <<f, BlockEnd(f), Cardinality(DirectBlocks(<<f, BlockEnd(f)>>))>>
  OBVIOUS
<1>7. FunctionRisks = {Row(<<f, BlockEnd(f)>>) : f \in Ended(Len(file))}
  <2> HIDE DEF Row
  <2> QED
    BY <1>4, <1>6
<1>8. {Row(<<f, BlockEnd(f)>>) : f \in Ended(Len(file))} = {Row(f) : f \in FunctionBlocks}
  <2> HIDE DEF Row
  <2> QED
    BY <1>5
<1> QED
  BY <1>7, <1>8

LEMMA WeighedFromBlocks == Blocks => PluginIsWeighed
<1> SUFFICES ASSUME Blocks, Plain
             PROVE  /\ TopLevelSymbols = {i \in DOMAIN file :
                         file[i] \in Functions \cup {"local"} /\ OpenedBy(i) \subseteq {i}}
                    /\ FunctionRisks = {<<f[1], f[2], Cardinality({g \in FunctionBlocks :
                         Inside(g, f) /\ ~\E h \in FunctionBlocks : Inside(g, h) /\ Inside(h, f)})>> : f \in FunctionBlocks}
  BY DEF PluginIsWeighed, Plain
<1>1. FunctionRisks = {<<f[1], f[2], Cardinality({g \in FunctionBlocks :
                         Inside(g, f) /\ ~\E h \in FunctionBlocks : Inside(g, h) /\ Inside(h, f)})>> : f \in FunctionBlocks}
  BY FunctionsAreWeighed DEF DirectBlocks
<1> QED
  BY <1>1, SymbolsAreCounted

(* The validator counts the symbols that are outside every block and       *)
(* weighs every function from its first line to its last (PluginIsWeighed),*)
(* for a file of any length: its stack is the functions that are open.     *)
THEOREM PluginsAreWeighed == BlockSpec => []PluginIsWeighed
  BY BlocksHold, WeighedFromBlocks, PTL

-----------------------------------------------------------------------------
(* lint/rules.rs                                                           *)

Regular == Complete /\ ~Has({"oneLine", "callback", "elseif", "wordedIf", "ended"})

LEMMA RegularLines ==
  ASSUME Blocks, Regular, NEW i \in 1 .. Len(file)
  PROVE  /\ LineDepthDelta(file[i]) = Opens(file[i])
         /\ file[i] \in Functions => file[i] \in Openers
         /\ file[i] \notin {"elseif", "ended"}
<1>1. file[i] \in Kinds /\ i \in DOMAIN file
  BY DEF Blocks
<1>2. file[i] \notin {"oneLine", "callback", "elseif", "wordedIf", "ended"}
  BY <1>1 DEF Regular, Has
<1>3. file[i] \in Functions => file[i] \in Openers
  BY <1>2 DEF Functions, Openers
<1>4. CASE file[i] \in Closers
  <2>1. file[i] \notin Openers /\ file[i] \notin Functions \cup {"if", "elseif", "loop", "repeat"}
    BY <1>4 DEF Closers, Openers, Functions
  <2> QED
    BY <1>2, <1>3, <1>4, <2>1 DEF LineDepthDelta, Opens
<1>5. CASE file[i] \notin Closers
  <2>1. file[i] \in Openers <=> file[i] \in Functions \cup {"if", "elseif", "loop", "repeat"}
    BY <1>2 DEF Openers, Functions
  <2> QED
    BY <1>2, <1>3, <1>5, <2>1 DEF LineDepthDelta, Opens
<1> QED
  BY <1>2, <1>3, <1>4, <1>5

(* What the rules add up between two lines is what the depth grew by.      *)
LEMMA DeltasBetween ==
  ASSUME Blocks, Regular, NEW a \in 0 .. Len(file), NEW m \in Nat, a + m <= Len(file)
  PROVE  Total([k \in 1 .. m |-> LineDepthDelta(file[a + k])]) = DepthAt(a + m) - DepthAt(a)
<1> DEFINE n == a + m
<1> DEFINE q == [k \in 1 .. n |-> Opens(file[k])]
<1> DEFINE p == [k \in 1 .. a |-> Opens(file[k])]
<1> DEFINE r == [k \in 1 .. m |-> LineDepthDelta(file[a + k])]
<1>1. Len(file) \in Nat /\ a \in Nat /\ n \in Nat
  BY Depths
<1>2. \A k \in 1 .. m : a + k \in 1 .. Len(file) /\ a + k \in 1 .. n
  BY <1>1
<1>3. \A k \in 1 .. m : r[k] = q[a + k]
  BY <1>2, RegularLines
<1>4. \A k \in 1 .. a : p[k] = q[0 + k]
  BY <1>1
<1>5. q \in [1 .. n -> Int] /\ p \in [1 .. a -> Int]
  BY OpensIsStep
<1>6. r \in [1 .. m -> Int]
  <2>1. \A k \in 1 .. m : r[k] \in Int
    BY <1>2, <1>3, <1>5
  <2> QED
    BY <2>1
<1>7. DepthAt(n) = Total(q) /\ DepthAt(a) = Total(p)
  BY DEF DepthAt
<1>8. IsPart(p, a, q, n, 0) /\ IsPart(r, m, q, n, a) /\ a + m = n
  <2>1. 0 + a <= n /\ a + m <= n /\ 0 \in Nat /\ a + m = n
    BY <1>1
  <2> HIDE DEF p, q, r, n
  <2> QED
    BY <1>1, <1>3, <1>4, <1>5, <1>6, <2>1 DEF IsPart
<1> HIDE DEF p, q, r, n
<1>9. Total(r) = Total(q) - Total(p)
  BY <1>8, TotalOfPart
<1> QED
  BY <1>7, <1>8, <1>9 DEF r

(* A function's span ends where its block ends.                            *)
LEMMA SpanEndIs ==
  ASSUME Blocks, Regular, NEW i \in 1 .. Len(file), file[i] \in Functions
  PROVE  SpanEnd(i) = BlockEnd(i)
<1> DEFINE e == BlockEnd(i)
<1> DEFINE S == {j \in i + 1 .. Len(file) : 1 + Total([k \in 1 .. j - i |-> LineDepthDelta(file[i + k])]) <= 0}
                  \cup {Len(file)}
<1>1. Len(file) \in Nat /\ i \in Nat /\ i \in 0 .. Len(file) /\ DepthAt(i) \in Int /\ Complete
  BY Depths DEF Regular
<1>2. /\ e \in i + 1 .. Len(file) /\ DepthAt(e) = DepthAt(i) - 1
      /\ \A m \in i .. Len(file) : i \in OpenedBy(m) <=> m < e
  BY <1>1, RegularLines, EveryBlockEnds
<1>3. ASSUME NEW j \in i + 1 .. Len(file)
      PROVE  /\ Total([k \in 1 .. j - i |-> LineDepthDelta(file[i + k])]) = DepthAt(j) - DepthAt(i)
             /\ DepthAt(j) \in Int
  <2>1. j - i \in Nat /\ i + (j - i) = j /\ j <= Len(file) /\ j \in 0 .. Len(file)
    BY <1>1
  <2>2. Total([k \in 1 .. j - i |-> LineDepthDelta(file[i + k])]) = DepthAt(i + (j - i)) - DepthAt(i)
    BY <1>1, <2>1, DeltasBetween
  <2> QED
    BY <2>1, <2>2, Depths
<1>4. e \in S
  <2>1. 1 + (DepthAt(e) - DepthAt(i)) <= 0
    BY <1>1, <1>2
  <2> QED
    BY <1>2, <1>3, <2>1
<1>5. ASSUME NEW y \in S PROVE e <= y
  <2>1. CASE y = Len(file)
    BY <1>1, <1>2, <2>1
  <2>2. CASE y # Len(file)
    <3>1. y \in i + 1 .. Len(file) /\ 1 + (DepthAt(y) - DepthAt(i)) <= 0 /\ DepthAt(y) \in Int
      BY <1>3, <2>2
    <3>2. y \in i .. y /\ y \in i .. Len(file) /\ ~(DepthAt(y) >= DepthAt(i))
      BY <1>1, <3>1
    <3>3. i \notin OpenedBy(y)
      BY <3>2 DEF OpenedBy
    <3> QED
      BY <1>1, <1>2, <3>1, <3>2, <3>3
  <2> QED
    BY <2>1, <2>2
<1>6. S \subseteq Int
  BY <1>1
<1>7. Min(S) = e
  <2> HIDE DEF S, e
  <2> QED
    BY <1>4, <1>5, <1>6, MinIs
<1> QED
  BY <1>7 DEF SpanEnd

(* The outermost functions from line i on.                                 *)
OuterFrom(i) ==
  {<<k, BlockEnd(k)>> : k \in {k \in i .. Len(file) :
      /\ file[k] \in Functions
      /\ \A h \in i .. Len(file) : file[h] \in Functions => ~Inside(<<k, BlockEnd(k)>>, <<h, BlockEnd(h)>>)}}

LEMMA OuterFromStep ==
  ASSUME Blocks, Regular, NEW i \in 1 .. Len(file)
  PROVE  /\ file[i] \notin Functions => OuterFrom(i) = OuterFrom(i + 1)
         /\ file[i] \in Functions => OuterFrom(i) = {<<i, BlockEnd(i)>>} \cup OuterFrom(BlockEnd(i) + 1)
<1>1. Len(file) \in Nat /\ i \in Nat /\ Complete
  BY Depths DEF Regular
<1> DEFINE Outer(k, a) == \A h \in a .. Len(file) : file[h] \in Functions => ~Inside(<<k, BlockEnd(k)>>, <<h, BlockEnd(h)>>)
<1>2. \A k : k \in i .. Len(file) <=> k = i \/ k \in i + 1 .. Len(file)
  BY <1>1
<1>3. ASSUME file[i] \notin Functions PROVE OuterFrom(i) = OuterFrom(i + 1)
  <2>1. \A k : Outer(k, i) <=> Outer(k, i + 1)
    BY <1>2, <1>3
  <2> HIDE DEF Outer
  <2>2. \A k : k \in i .. Len(file) /\ file[k] \in Functions /\ Outer(k, i)
           <=> k \in i + 1 .. Len(file) /\ file[k] \in Functions /\ Outer(k, i + 1)
    BY <1>2, <1>3, <2>1
  <2>3. {k \in i .. Len(file) : file[k] \in Functions /\ Outer(k, i)}
          = {k \in i + 1 .. Len(file) : file[k] \in Functions /\ Outer(k, i + 1)}
    BY <2>2
  <2> QED
    BY <2>3 DEF OuterFrom, Outer
<1>4. ASSUME file[i] \in Functions
      PROVE  OuterFrom(i) = {<<i, BlockEnd(i)>>} \cup OuterFrom(BlockEnd(i) + 1)
  <2> DEFINE e == BlockEnd(i)
  <2>1. /\ e \in i + 1 .. Len(file)
        /\ \A m \in i .. Len(file) : i \in OpenedBy(m) <=> m < e
        /\ file[e] \in Closers
    BY <1>1, <1>4, RegularLines, EveryBlockEnds
  <2>2. file[e] \notin Functions
    BY <2>1 DEF Closers, Functions
  <2>3. ASSUME NEW k \in 1 .. Len(file), file[k] \in Functions, NEW h \in 1 .. Len(file), file[h] \in Functions
        PROVE  Inside(<<k, BlockEnd(k)>>, <<h, BlockEnd(h)>>) <=> h < k /\ h \in OpenedBy(k)
    BY <1>1, <2>3, RegularLines, InsideIs
  <2>4. Outer(i, i)
    <3>1. ASSUME NEW h \in i .. Len(file), file[h] \in Functions PROVE ~Inside(<<i, BlockEnd(i)>>, <<h, BlockEnd(h)>>)
      <4>1. h \in 1 .. Len(file) /\ ~(h < i)
        BY <1>1
      <4> QED
        BY <1>4, <2>3, <3>1, <4>1
    <3> QED
      BY <3>1
  <2>5. ASSUME NEW k \in i + 1 .. e, file[k] \in Functions PROVE ~Outer(k, i)
    <3>1. k \in 1 .. Len(file) /\ k \in i .. Len(file) /\ i < k /\ i \in i .. Len(file) /\ k # e /\ k < e
      BY <1>1, <2>1, <2>2, <2>5
    <3>2. i \in OpenedBy(k)
      BY <2>1, <3>1
    <3>3. Inside(<<k, BlockEnd(k)>>, <<i, BlockEnd(i)>>)
      BY <1>4, <2>3, <2>5, <3>1, <3>2
    <3> QED
      BY <1>4, <3>1, <3>3
  <2>6. ASSUME NEW k \in e + 1 .. Len(file), file[k] \in Functions PROVE Outer(k, i) <=> Outer(k, e + 1)
    <3>1. k \in 1 .. Len(file) /\ k \in 0 .. Len(file)
      BY <1>1, <2>1
    <3>2. ASSUME NEW h \in i .. e, file[h] \in Functions PROVE ~Inside(<<k, BlockEnd(k)>>, <<h, BlockEnd(h)>>)
      <4>1. h \in 1 .. Len(file) /\ h # e /\ h < e /\ i <= h /\ e \in h .. k /\ e \in h .. Len(file) /\ h \in i .. Len(file)
        BY <1>1, <2>1, <2>2, <3>2
      <4>2. ASSUME h \in OpenedBy(k) PROVE FALSE
        <5>1. DepthAt(e) >= DepthAt(h)
          BY <3>1, <4>1, <4>2, OpenedFacts
        <5>2. DepthAt(e) = DepthAt(i) - 1
          BY <1>1, <1>4, RegularLines, EveryBlockEnds
        <5>3. i \in OpenedBy(h) /\ h \in 0 .. Len(file) /\ i \in 0 .. Len(file)
          BY <1>1, <2>1, <4>1
        <5>4. DepthAt(h) >= DepthAt(i) /\ DepthAt(h) \in Int /\ DepthAt(i) \in Int
          BY <5>3, OpenedFacts, Depths
        <5> QED
          BY <5>1, <5>2, <5>4
      <4> QED
        BY <2>3, <2>6, <3>1, <3>2, <4>1, <4>2
    <3>3. \A h : h \in i .. Len(file) <=> h \in i .. e \/ h \in e + 1 .. Len(file)
      BY <1>1, <2>1
    <3> QED
      BY <3>2, <3>3
  <2>7. \A k : k \in i .. Len(file) <=> k = i \/ k \in i + 1 .. e \/ k \in e + 1 .. Len(file)
    BY <1>1, <2>1
  <2> HIDE DEF Outer, e
  <2>8. \A k : k \in i .. Len(file) /\ file[k] \in Functions /\ Outer(k, i)
           <=> k = i \/ (k \in e + 1 .. Len(file) /\ file[k] \in Functions /\ Outer(k, e + 1))
    BY <1>4, <2>4, <2>5, <2>6, <2>7
  <2>9. {k \in i .. Len(file) : file[k] \in Functions /\ Outer(k, i)}
          = {i} \cup {k \in e + 1 .. Len(file) : file[k] \in Functions /\ Outer(k, e + 1)}
    BY <2>8
  <2>10. OuterFrom(i) = {<<k, BlockEnd(k)>> : k \in {k \in i .. Len(file) : file[k] \in Functions /\ Outer(k, i)}}
    BY DEF OuterFrom, Outer
  <2>11. OuterFrom(e + 1) = {<<k, BlockEnd(k)>> : k \in {k \in e + 1 .. Len(file) : file[k] \in Functions /\ Outer(k, e + 1)}}
    BY DEF OuterFrom, Outer
  <2>12. OuterFrom(i) = {<<i, BlockEnd(i)>>} \cup OuterFrom(e + 1)
    BY <2>9, <2>10, <2>11
  <2> QED
    BY <2>12 DEF e
<1> QED
  BY <1>3, <1>4

LEMMA SpansAreOuter ==
  ASSUME Blocks, Regular
  PROVE  ExtractFunctionSpans = OuterFunctions
<1> DEFINE Searches(f) == f = [i \in 1 .. Len(file) + 1 |->
             IF i > Len(file) THEN {}
             ELSE IF file[i] \in Functions THEN {<<i, SpanEnd(i)>>} \cup f[SpanEnd(i) + 1]
             ELSE f[i + 1]]
<1> DEFINE from == CHOOSE f : Searches(f)
<1>1. Len(file) \in Nat /\ DOMAIN file = 1 .. Len(file) /\ Complete
  BY DEF Blocks, Regular
<1>2. ASSUME NEW i \in 1 .. Len(file), file[i] \in Functions
      PROVE  SpanEnd(i) = BlockEnd(i) /\ BlockEnd(i) + 1 \in i + 1 .. Len(file) + 1
  <2>1. BlockEnd(i) \in i + 1 .. Len(file)
    BY <1>1, <1>2, RegularLines, EveryBlockEnds
  <2> QED
    BY <1>1, <1>2, <2>1, SpanEndIs
<1>3. OuterFrom(Len(file) + 1) = {}
  <2>1. (Len(file) + 1) .. Len(file) = {}
    BY <1>1
  <2> QED
    BY <2>1 DEF OuterFrom
<1>4. Searches([i \in 1 .. Len(file) + 1 |-> OuterFrom(i)])
  <2> DEFINE f == [i \in 1 .. Len(file) + 1 |-> OuterFrom(i)]
  <2>1. ASSUME NEW i \in 1 .. Len(file) + 1
        PROVE  f[i] = IF i > Len(file) THEN {}
                      ELSE IF file[i] \in Functions THEN {<<i, SpanEnd(i)>>} \cup f[SpanEnd(i) + 1]
                      ELSE f[i + 1]
    <3>1. CASE i > Len(file)
      <4>1. i = Len(file) + 1
        BY <1>1, <3>1
      <4> QED
        BY <1>3, <3>1, <4>1
    <3>2. CASE ~(i > Len(file))
      <4>1. i \in 1 .. Len(file) /\ i + 1 \in 1 .. Len(file) + 1
        BY <1>1, <3>2
      <4>2. CASE file[i] \in Functions
        <5>1. SpanEnd(i) = BlockEnd(i) /\ SpanEnd(i) + 1 \in 1 .. Len(file) + 1
          BY <1>1, <1>2, <4>1, <4>2
        <5>2. f[SpanEnd(i) + 1] = OuterFrom(BlockEnd(i) + 1) /\ f[i] = OuterFrom(i)
          BY <5>1
        <5> HIDE DEF f
        <5> QED
          BY <3>2, <4>1, <4>2, <5>1, <5>2, OuterFromStep
      <4>3. CASE file[i] \notin Functions
        <5>1. f[i + 1] = OuterFrom(i + 1) /\ f[i] = OuterFrom(i)
          BY <4>1
        <5> HIDE DEF f
        <5> QED
          BY <3>2, <4>1, <4>3, <5>1, OuterFromStep
      <4> QED
        BY <4>2, <4>3
    <3> QED
      BY <3>1, <3>2
  <2>2. f = [i \in 1 .. Len(file) + 1 |-> f[i]]
    OBVIOUS
  <2> HIDE DEF f
  <2>3. Searches(f)
    BY <2>1, <2>2
  <2> QED
    BY <2>3 DEF f
<1>5. Searches(from)
  <2> HIDE DEF Searches
  <2> QED
    BY <1>4
<1>6. ExtractFunctionSpans = from[1]
  BY DEF ExtractFunctionSpans
<1> HIDE DEF from
<1>7. ASSUME NEW n \in 1 .. Len(file) + 1 PROVE from[n] = OuterFrom(n)
  <2> DEFINE Bad == {m \in 1 .. Len(file) + 1 : from[m] # OuterFrom(m)}
  <2>1. SUFFICES ASSUME Bad # {} PROVE FALSE
    OBVIOUS
  <2>2. PICK m \in Bad : \A j \in Bad : j <= m
    <3>1. Bad \subseteq 0 .. Len(file) + 1 /\ Len(file) + 1 \in Nat
      BY <1>1
    <3> HIDE DEF Bad
    <3> QED
      BY <2>1, <3>1, GreatestNumber
  <2>3. m \in 1 .. Len(file) + 1 /\ from[m] # OuterFrom(m) /\ \A j \in m + 1 .. Len(file) + 1 : from[j] = OuterFrom(j)
    <3>1. \A j \in m + 1 .. Len(file) + 1 : j \in 1 .. Len(file) + 1 /\ ~(j <= m)
      BY <1>1
    <3> QED
      BY <2>2, <3>1
  <2> HIDE DEF Bad
  <2>4. CASE m > Len(file)
    <3>1. m = Len(file) + 1
      BY <1>1, <2>3, <2>4
    <3>2. from[m] = {}
      BY <1>5, <2>3, <2>4
    <3> QED
      BY <1>3, <2>3, <3>1, <3>2
  <2>5. CASE ~(m > Len(file))
    <3>1. m \in 1 .. Len(file) /\ m + 1 \in m + 1 .. Len(file) + 1
      BY <1>1, <2>3, <2>5
    <3>2. CASE file[m] \in Functions
      <4>1. from[m] = {<<m, SpanEnd(m)>>} \cup from[SpanEnd(m) + 1]
        BY <1>5, <2>3, <2>5, <3>2
      <4>2. SpanEnd(m) = BlockEnd(m) /\ from[BlockEnd(m) + 1] = OuterFrom(BlockEnd(m) + 1)
        BY <1>2, <2>3, <3>1, <3>2
      <4> QED
        BY <2>3, <3>1, <3>2, <4>1, <4>2, OuterFromStep
    <3>3. CASE file[m] \notin Functions
      <4>1. from[m] = from[m + 1]
        BY <1>5, <2>3, <2>5, <3>3
      <4>2. from[m + 1] = OuterFrom(m + 1)
        BY <2>3, <3>1
      <4> QED
        BY <2>3, <3>1, <3>3, <4>1, <4>2, OuterFromStep
    <3> QED
      BY <3>2, <3>3
  <2> QED
    BY <2>4, <2>5
<1> HIDE DEF Searches
<1>8. 1 \in 1 .. Len(file) + 1
  BY <1>1
<1>9. OuterFrom(1) = OuterFunctions
  <2>1. FunctionBlocks = {<<k, BlockEnd(k)>> : k \in {k \in 1 .. Len(file) : file[k] \in Functions}}
    BY <1>1 DEF FunctionBlocks
  <2>2. ASSUME NEW b \in OuterFrom(1) PROVE b \in OuterFunctions
    <3>1. PICK k \in 1 .. Len(file) :
            /\ b = <<k, BlockEnd(k)>> /\ file[k] \in Functions
            /\ \A h \in 1 .. Len(file) : file[h] \in Functions => ~Inside(<<k, BlockEnd(k)>>, <<h, BlockEnd(h)>>)
      BY <2>2 DEF OuterFrom
    <3> QED
      BY <2>1, <3>1 DEF OuterFunctions
  <2>3. ASSUME NEW b \in OuterFunctions PROVE b \in OuterFrom(1)
    <3>1. b \in FunctionBlocks /\ \A g \in FunctionBlocks : ~Inside(b, g)
      BY <2>3 DEF OuterFunctions
    <3>2. PICK k \in 1 .. Len(file) : file[k] \in Functions /\ b = <<k, BlockEnd(k)>>
      BY <2>1, <3>1
    <3>3. ASSUME NEW h \in 1 .. Len(file), file[h] \in Functions PROVE ~Inside(<<k, BlockEnd(k)>>, <<h, BlockEnd(h)>>)
      <4>1. <<h, BlockEnd(h)>> \in FunctionBlocks
        BY <2>1, <3>3
      <4> QED
        BY <3>1, <3>2, <4>1
    <3> QED
      BY <3>2, <3>3 DEF OuterFrom
  <2> QED
    BY <2>2, <2>3
<1> QED
  BY <1>6, <1>7, <1>8, <1>9

(* The deepest nesting in a function is that of its blocks.                *)
LEMMA NestingIs ==
  ASSUME Blocks, Regular, NEW i \in 1 .. Len(file), file[i] \in Functions
  PROVE  NestingDepth(<<i, BlockEnd(i)>>) = Nesting(<<i, BlockEnd(i)>>)
<1> DEFINE e == BlockEnd(i)
<1> DEFINE A == {Total([k \in 1 .. j - i + 1 |-> LineDepthDelta(file[i + k - 1])]) : j \in i .. e}
<1> DEFINE B == {DepthAt(j) - DepthAt(i) + 1 : j \in i .. e}
<1>1. /\ Len(file) \in Nat /\ i \in Nat /\ i - 1 \in 0 .. Len(file) /\ Complete /\ file[i] \in Openers
      /\ DepthAt(i) = DepthAt(i - 1) + Opens(file[i]) /\ DepthAt(i - 1) \in Int /\ DepthAt(i) \in Int
  BY Depths, RegularLines DEF Regular
<1>2. e \in i + 1 .. Len(file) /\ DepthAt(e) = DepthAt(i) - 1 /\ Opens(file[i]) = 1
  BY <1>1, EveryBlockEnds, OpensIsStep
<1>3. ASSUME NEW j \in i .. e
      PROVE  Total([k \in 1 .. j - i + 1 |-> LineDepthDelta(file[i + k - 1])]) = DepthAt(j) - DepthAt(i) + 1
  <2> DEFINE a == i - 1
  <2> DEFINE m == j - i + 1
  <2>1. a \in 0 .. Len(file) /\ m \in Nat /\ a + m <= Len(file) /\ a + m = j /\ j \in 0 .. Len(file)
    BY <1>1, <1>2
  <2>2. \A k \in 1 .. m : i + k - 1 = a + k
    BY <1>1
  <2>3. [k \in 1 .. m |-> LineDepthDelta(file[i + k - 1])] = [k \in 1 .. m |-> LineDepthDelta(file[a + k])]
    BY <2>2
  <2>4. DepthAt(j) \in Int
    BY <2>1, Depths
  <2>5. DepthAt(a) = DepthAt(i) - 1
    BY <1>1, <1>2
  <2> HIDE DEF a
  <2>6. Total([k \in 1 .. m |-> LineDepthDelta(file[a + k])]) = DepthAt(a + m) - DepthAt(a)
    <3> HIDE DEF m
    <3> QED
      BY <2>1, DeltasBetween
  <2>7. Total([k \in 1 .. m |-> LineDepthDelta(file[a + k])]) = DepthAt(j) - DepthAt(i) + 1
    <3> HIDE DEF m
    <3>1. DepthAt(a + m) = DepthAt(j)
      BY <2>1
    <3> QED
      BY <1>1, <2>4, <2>5, <2>6, <3>1
  <2> QED
    BY <2>3, <2>7
<1>4. A = B
  BY <1>3
<1>5. 0 \in B
  <2>1. e \in i .. e /\ DepthAt(e) - DepthAt(i) + 1 = 0
    BY <1>1, <1>2
  <2> QED
    BY <2>1
<1>6. NestingDepth(<<i, e>>) = Max({0} \cup A) /\ Nesting(<<i, e>>) = Max(B)
  BY DEF NestingDepth, Nesting
<1> HIDE DEF A, B
<1>7. {0} \cup A = B
  BY <1>4, <1>5
<1> QED
  BY <1>6, <1>7

(* Comments do not change the depth.                                       *)
LEMMA NextLineIsAsDeep ==
  ASSUME Blocks, NEW i \in 1 .. Len(file), NEW j \in NextLine(i)
  PROVE  j \in 1 .. Len(file) /\ i < j /\ DepthAt(j - 1) = DepthAt(i)
<1>1. Len(file) \in Nat /\ i \in Nat /\ DepthAt(i) \in Int
  BY Depths
<1>2. j \in i + 1 .. Len(file) /\ \A k \in i + 1 .. j - 1 : file[k] = "comment"
  BY DEF NextLine
<1> DEFINE Bad == {n \in i .. j - 1 : DepthAt(n) # DepthAt(i)}
<1>3. ASSUME Bad # {} PROVE FALSE
  <2>1. PICK n \in Bad : \A k \in Bad : n <= k
    <3>1. Bad \subseteq Nat
      BY <1>1, <1>2
    <3> HIDE DEF Bad
    <3> QED
      BY <1>3, <3>1, LeastNumber
  <2>2. n \in i + 1 .. j - 1 /\ n - 1 \in i .. j - 1 /\ ~(n <= n - 1) /\ n \in 1 .. Len(file)
    BY <1>1, <1>2, <2>1
  <2>3. DepthAt(n - 1) = DepthAt(i)
    BY <2>1, <2>2
  <2>4. Opens(file[n]) = 0
    BY <1>2, <2>2 DEF Opens, Openers, Closers
  <2>5. DepthAt(n) = DepthAt(n - 1) + Opens(file[n])
    BY <2>2, Depths
  <2> QED
    BY <1>1, <2>1, <2>3, <2>4, <2>5
<1>4. j - 1 \in i .. j - 1 /\ j \in 1 .. Len(file) /\ i < j
  BY <1>1, <1>2
<1> QED
  BY <1>3, <1>4

LEMMA UnreachableIs ==
  ASSUME Blocks, Regular, NEW i \in DOMAIN file, file[i] = "stop", NEW j \in NextLine(i)
  PROVE  ~Structural(file[j]) /\ IndentLevel(j) >= IndentLevel(i) <=> file[j] \notin Closers \cup {"else"}
<1>1. i \in 1 .. Len(file)
  BY DEF Blocks
<1>2. j \in 1 .. Len(file) /\ DepthAt(j - 1) = DepthAt(i)
  BY <1>1, NextLineIsAsDeep
<1>3. file[j] \notin {"elseif", "ended"}
  BY <1>2, RegularLines
<1>4. ~Structural(file[j]) <=> file[j] \notin Closers \cup {"else"}
  BY <1>3 DEF Structural
<1>5. ASSUME file[j] \notin Closers \cup {"else"} PROVE IndentLevel(j) >= IndentLevel(i)
  <2>1. DepthAt(i) \in Int /\ DepthAt(j) = DepthAt(j - 1) + Opens(file[j]) /\ DepthAt(j) \in Int
    BY <1>1, <1>2, Depths
  <2>2. IndentLevel(i) = DepthAt(i)
    BY <2>1 DEF IndentLevel, Openers
  <2>3. CASE file[j] \in Openers
    BY <1>2, <2>1, <2>2, <2>3, OpensIsStep DEF IndentLevel
  <2>4. CASE file[j] \notin Openers
    <3>1. Opens(file[j]) = 0
      BY <1>5, <2>4 DEF Opens
    <3>2. IndentLevel(j) = DepthAt(j)
      BY <1>3, <1>5, <2>1, <2>4 DEF IndentLevel
    <3> QED
      BY <1>2, <2>1, <2>2, <3>1, <3>2
  <2> QED
    BY <2>3, <2>4
<1> QED
  BY <1>4, <1>5

LEMMA SpansFromBlocks == Blocks => SpansMatchTheBlocks
<1> SUFFICES ASSUME Blocks, Regular
             PROVE  /\ ExtractFunctionSpans = OuterFunctions
                    /\ \A f \in OuterFunctions : NestingDepth(f) = Nesting(f)
                    /\ UnreachableCode = {j \in DOMAIN file : \E i \in DOMAIN file :
                         file[i] = "stop" /\ j \in NextLine(i) /\ file[j] \notin Closers \cup {"else"}}
  BY DEF SpansMatchTheBlocks, Regular
<1>1. ASSUME NEW f \in OuterFunctions PROVE NestingDepth(f) = Nesting(f)
  <2>1. PICK i \in DOMAIN file : file[i] \in Functions /\ f = <<i, BlockEnd(i)>>
    BY DEF OuterFunctions, FunctionBlocks
  <2>2. i \in 1 .. Len(file)
    BY DEF Blocks
  <2> QED
    BY <2>1, <2>2, NestingIs
<1>2. UnreachableCode = {j \in DOMAIN file : \E i \in DOMAIN file :
                           file[i] = "stop" /\ j \in NextLine(i) /\ file[j] \notin Closers \cup {"else"}}
  BY UnreachableIs DEF UnreachableCode
<1> QED
  BY <1>1, <1>2, SpansAreOuter

(* The lint rules find the outermost functions, how deep blocks are nested *)
(* in each, and the lines after a stop in the same block                   *)
(* (SpansMatchTheBlocks), for a file of any length.                        *)
THEOREM BlocksAreFound == BlockSpec => []SpansMatchTheBlocks
  BY BlocksHold, SpansFromBlocks, PTL
==============================================================================

--------------------------- MODULE BlockStructure ---------------------------
(***************************************************************************)
(* How vsync finds the blocks of a Luau file without parsing it: the lint  *)
(* rules for the length, nesting and unreachable code of functions, and    *)
(* the validator that counts a plugin's symbols and weighs its functions.  *)
(* Each adds up, line by line, what a line seems to open and to close; the *)
(* reference below is what the line does open and close.                   *)
(*                                                                         *)
(* A line is one of the kinds below, and a file is typed line by line.     *)
(***************************************************************************)
EXTENDS Integers, FiniteSets, SequencesExt, FiniteSetsExt

CONSTANT MaxLines   \* bound: lines of a file

VARIABLE file

(* function   local function f(a)          closure   local f = function(a) *)
(* callback   event:Connect(function(a)    oneLine   local function f() end *)
(* if         if a then                    shortIf   if a then return end  *)
(* wordedIf   if pending then, or another word with "end" in it            *)
(* elseif, else, repeat, until, end; loop  for, while and do               *)
(* local      local a = 1                  stop      break, error("...")   *)
(* ended      endRound(), a statement that begins with "end"; comment      *)
Functions == {"function", "closure", "oneLine"}
Openers == {"function", "closure", "callback", "if", "wordedIf", "loop", "repeat"}
Closers == {"end", "until"}
Kinds == Functions \cup Openers \cup Closers
           \cup {"shortIf", "elseif", "else", "local", "stop", "ended", "comment"}

---------------------------------------------------------------------------
(* The reference.                                                          *)
Opens(kind) == IF kind \in Openers THEN 1 ELSE IF kind \in Closers THEN -1 ELSE 0

Total(effects) == FoldLeft(LAMBDA sum, effect : sum + effect, 0, effects)
DepthAt(i) == Total([k \in 1 .. i |-> Opens(file[k])])

(* The line that opened the innermost block that is open after line i.     *)
OpenedBy(i) ==
  {k \in 1 .. i : file[k] \in Openers /\ \A j \in k .. i : DepthAt(j) >= DepthAt(k)}
Innermost(i) == Max(OpenedBy(i))

BlockEnd(i) ==
  IF file[i] \notin Openers THEN i
  ELSE Min({j \in i + 1 .. Len(file) : DepthAt(j) < DepthAt(i)})
FunctionBlocks == {<<i, BlockEnd(i)>> : i \in {k \in DOMAIN file : file[k] \in Functions}}
Inside(inner, outer) == outer[1] < inner[1] /\ inner[2] <= outer[2]
OuterFunctions == {f \in FunctionBlocks : \A g \in FunctionBlocks : ~Inside(f, g)}
Nesting(f) == Max({DepthAt(i) - DepthAt(f[1]) + 1 : i \in f[1] .. f[2]})

---------------------------------------------------------------------------
(* lint/rules.rs                                                           *)

(* A slip in LineDepthDelta: until closes nothing.                         *)
LineDepthDeltaNoUntil(kind) ==
  CASE kind \in Functions \cup {"if", "elseif", "loop", "repeat"} -> 1
    [] kind = "end" -> -1
    [] OTHER -> 0

(* An if whose line has "end" anywhere opens nothing, an elseif opens, and *)
(* so does a function that ends on its line; a callback does not.          *)
LineDepthDelta(kind) ==
  CASE kind \in Functions \cup {"if", "elseif", "loop", "repeat"} -> 1
    [] kind \in Closers -> -1
    [] OTHER -> 0

(* A function ends with the line that closes what was opened since, or     *)
(* with the file; the search goes on after that line.                      *)
SpanEnd(i) ==
  Min({j \in i + 1 .. Len(file) : 1 + Total([k \in 1 .. j - i |-> LineDepthDelta(file[i + k])]) <= 0}
        \cup {Len(file)})

ExtractFunctionSpans ==
  LET from[i \in 1 .. Len(file) + 1] ==
        IF i > Len(file) THEN {}
        ELSE IF file[i] \in Functions THEN {<<i, SpanEnd(i)>>} \cup from[SpanEnd(i) + 1]
        ELSE from[i + 1]
  IN  from[1]

NestingDepth(f) ==
  Max({0} \cup {Total([k \in 1 .. i - f[1] + 1 |-> LineDepthDelta(file[f[1] + k - 1])]) : i \in f[1] .. f[2]})

(* Formatted, a line is indented by the blocks around it.                  *)
IndentLevel(i) == DepthAt(i) - (IF file[i] \in Openers THEN 1 ELSE IF file[i] \in {"else", "elseif"} THEN 1 ELSE 0)

NextLine(i) == {j \in i + 1 .. Len(file) : file[j] # "comment" /\ \A k \in i + 1 .. j - 1 : file[k] = "comment"}
Structural(kind) == kind \in Closers \cup {"else", "elseif", "ended"}
UnreachableCode ==
  {j \in DOMAIN file : \E i \in DOMAIN file :
      /\ file[i] = "stop" /\ j \in NextLine(i)
      /\ ~Structural(file[j]) /\ IndentLevel(j) >= IndentLevel(i)}

---------------------------------------------------------------------------
(* validate.rs                                                             *)

(* Every word function, end and until counts; an if opens when then ends   *)
(* its line, so that a short one only closes.                              *)
BlockDepthDelta(kind) ==
  CASE kind \in Openers -> 1
    [] kind \in Closers \cup {"shortIf"} -> -1
    [] OTHER -> 0

(* The depth never goes below zero.                                        *)
TopLevelSymbols ==
  LET depth[i \in 0 .. Len(file)] ==
        IF i = 0 THEN 0 ELSE Max({0, depth[i - 1] + BlockDepthDelta(file[i])})
  IN  {i \in DOMAIN file : depth[i - 1] = 0 /\ file[i] \in Functions \cup {"local"}}

(* A slip in Weigh: the function a frame is nested in is not told.         *)
WeighAlone(frames, i) ==
  IF file[i] \in Functions
    THEN [frames EXCEPT !.stack = Append(@, [start |-> i, depth |-> Max({1, BlockDepthDelta(file[i])}), nested |-> 0])]
  ELSE IF frames.stack = <<>> THEN frames
  ELSE LET top == [Last(frames.stack) EXCEPT !.depth = @ + BlockDepthDelta(file[i])]
       IN  IF top.depth > 0 THEN [frames EXCEPT !.stack = Front(@) \o <<top>>]
           ELSE [stack |-> Front(frames.stack), found |-> frames.found \cup {<<top.start, i, top.nested>>}]

(* A function's line pushes a frame and is told to the frame below; other  *)
(* lines count for the innermost frame, which is popped when it closes.    *)
Weigh(frames, i) ==
  IF file[i] \in Functions
    THEN LET told == [k \in DOMAIN frames.stack |->
                        [frames.stack[k] EXCEPT !.nested = @ + (IF k = Len(frames.stack) THEN 1 ELSE 0)]]
         IN  [frames EXCEPT !.stack =
                Append(told, [start |-> i, depth |-> Max({1, BlockDepthDelta(file[i])}), nested |-> 0])]
  ELSE IF frames.stack = <<>> THEN frames
  ELSE LET top == [Last(frames.stack) EXCEPT !.depth = @ + BlockDepthDelta(file[i])]
       IN  IF top.depth > 0 THEN [frames EXCEPT !.stack = Front(@) \o <<top>>]
           ELSE [stack |-> Front(frames.stack), found |-> frames.found \cup {<<top.start, i, top.nested>>}]

FunctionRisks ==
  LET after[i \in 0 .. Len(file)] ==
        IF i = 0 THEN [stack |-> <<>>, found |-> {}] ELSE Weigh(after[i - 1], i)
  IN  after[Len(file)].found

---------------------------------------------------------------------------
BlockInit == file = <<>>

(* The lines Luau allows next: what closes a block fits what opened it.    *)
Fits(kind) ==
  LET open == OpenedBy(Len(file))
      top == IF open = {} THEN "none" ELSE file[Max(open)]
  IN  /\ kind = "until" => top = "repeat"
      /\ kind = "end" => top \notin {"none", "repeat"}
      /\ kind \in {"else", "elseif"} => top \in {"if", "wordedIf"}

TypeLine ==
  /\ Len(file) < MaxLines
  /\ \E kind \in Kinds : Fits(kind) /\ file' = Append(file, kind)

BlockSpec == BlockInit /\ [][TypeLine]_file

---------------------------------------------------------------------------
Complete == DepthAt(Len(file)) = 0
Has(kinds) == \E i \in DOMAIN file : file[i] \in kinds

(* The lint rules see every outermost function from its first line to its  *)
(* last, with the deepest nesting in it, and of the lines after a break or *)
(* an error exactly those of the same block, in every file without the     *)
(* lines they take for something else: functions on one line, callbacks,   *)
(* elseif, and words with "end" in them.                                   *)
SpansMatchTheBlocks ==
  Complete /\ ~Has({"oneLine", "callback", "elseif", "wordedIf", "ended"})
    => /\ ExtractFunctionSpans = OuterFunctions
       /\ \A f \in OuterFunctions : NestingDepth(f) = Nesting(f)
       /\ UnreachableCode = {j \in DOMAIN file : \E i \in DOMAIN file :
             file[i] = "stop" /\ j \in NextLine(i) /\ file[j] \notin Closers \cup {"else"}}

(* The validator counts the symbols that are declared outside every block, *)
(* and weighs every function from its first line to its last with the      *)
(* functions directly in it, in every file without short ifs and functions *)
(* on one line.                                                            *)
PluginIsWeighed ==
  Complete /\ ~Has({"oneLine", "shortIf"})
    => /\ TopLevelSymbols = {i \in DOMAIN file :
             file[i] \in Functions \cup {"local"} /\ OpenedBy(i) \subseteq {i}}
       /\ FunctionRisks = {<<f[1], f[2], Cardinality({g \in FunctionBlocks :
             Inside(g, f) /\ ~\E h \in FunctionBlocks : Inside(g, h) /\ Inside(h, f)})>> : f \in FunctionBlocks}
=============================================================================

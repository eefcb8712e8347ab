------------------------------ MODULE TreeDiff ------------------------------
(***************************************************************************)
(* The difference of two snapshots (diff_snapshots), its reversal          *)
(* (reverse_diff), and what a receiver makes of one.  A snapshot is a      *)
(* function from the paths it has to hashes; an entry's size goes with its *)
(* hash.  Paths are numbers, in their order.                               *)
(***************************************************************************)
EXTENDS Integers, FiniteSets, Functions

Least(S) == CHOOSE n \in S : \A m \in S : n <= m

Added(prev, cur) == DOMAIN cur \ DOMAIN prev
Deleted(prev, cur) == DOMAIN prev \ DOMAIN cur
Modified(prev, cur) == {f \in DOMAIN prev \cap DOMAIN cur : prev[f] # cur[f]}

(* Of the deleted entries with one hash the first is remembered, and the   *)
(* first added entry with that hash takes it away.                         *)
Holding(S, tree, h) == {f \in S : tree[f] = h}

(* A slip in Moves: an entry that is still there may have moved as well.   *)
MovesFromAny(prev, cur) ==
  LET gone(h) == Holding(DOMAIN prev, prev, h)
      come(h) == Holding(Added(prev, cur), cur, h)
      shared == {h \in Range(prev) \cap Range(cur) : come(h) # {}}
  IN  {[old |-> Least(gone(h)), new |-> Least(come(h)), sha |-> h] : h \in shared}

Moves(prev, cur) ==
  LET gone(h) == Holding(Deleted(prev, cur), prev, h)
      come(h) == Holding(Added(prev, cur), cur, h)
      shared == {h \in Range(prev) \cap Range(cur) : gone(h) # {} /\ come(h) # {}}
  IN  {[old |-> Least(gone(h)), new |-> Least(come(h)), sha |-> h] : h \in shared}

DiffSnapshots(prev, cur) ==
  LET moves == Moves(prev, cur)
      added == Added(prev, cur) \ {m.new : m \in moves}
      deleted == Deleted(prev, cur) \ {m.old : m \in moves}
  IN  [added    |-> Restrict(cur, added),
       deleted  |-> Restrict(prev, deleted),
       modified |-> [f \in Modified(prev, cur) |-> [previous |-> prev[f], current |-> cur[f]]],
       renamed  |-> moves]

ReverseDiff(diff) ==
  [added    |-> diff.deleted,
   deleted  |-> diff.added,
   modified |-> [f \in DOMAIN diff.modified |->
                   [previous |-> diff.modified[f].current, current |-> diff.modified[f].previous]],
   renamed  |-> {[old |-> m.new, new |-> m.old, sha |-> m.sha] : m \in diff.renamed}]

(* A receiver moves, deletes, creates and replaces.                        *)
NewPaths(diff) == {m.new : m \in diff.renamed}
OldPaths(diff) == {m.old : m \in diff.renamed}
Surviving(diff, tree) == DOMAIN tree \ (DOMAIN diff.deleted \cup OldPaths(diff))

ApplyDiff(diff, tree) ==
  [f \in Surviving(diff, tree) \cup DOMAIN diff.added \cup NewPaths(diff) |->
     CASE f \in DOMAIN diff.added    -> diff.added[f]
       [] f \in NewPaths(diff)       -> tree[(CHOOSE m \in diff.renamed : m.new = f).old]
       [] f \in DOMAIN diff.modified -> diff.modified[f].current
       [] OTHER                      -> tree[f]]
=============================================================================

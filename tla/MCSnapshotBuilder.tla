-------------------------- MODULE MCSnapshotBuilder -------------------------
(* Two files; two contents of one size and one of another.                 *)
EXTENDS SnapshotBuilder

CONSTANTS c1, c2, c3

MCSize == [c \in {c1, c2, c3} |-> IF c = c3 THEN 2 ELSE 1]
=============================================================================

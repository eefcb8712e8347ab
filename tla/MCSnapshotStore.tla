-------------------------- MODULE MCSnapshotStore --------------------------
(* SnapshotStore with three states of the tree and a history of two.       *)
EXTENDS SnapshotStore
=============================================================================

-------------------------- MODULE MCSnapshotClient --------------------------
(* SnapshotClient with two or three states of the tree, a short history:   *)
(* one cfg next to the poller alone, one next to patches as well.          *)
EXTENDS SnapshotClient
=============================================================================

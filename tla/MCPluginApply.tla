---------------------------- MODULE MCPluginApply ---------------------------
(* Two files, the first there from the start, and two contents.            *)
EXTENDS PluginApply

CONSTANTS x, y

MCFirst == 1 :> x
=============================================================================

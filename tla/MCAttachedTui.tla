---------------------------- MODULE MCAttachedTui ----------------------------
(***************************************************************************)
(* AttachedTui for TLC: terminals, and the cells of their screens.         *)
(***************************************************************************)
EXTENDS AttachedTui

CONSTANTS c1, c2

\* Two pictures that share a cell, so that what changes is never the whole.
Pictures == {[x \in Cell |-> 0], [x \in Cell |-> x - 1]}

=============================================================================

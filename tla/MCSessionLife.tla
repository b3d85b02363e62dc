---------------------------- MODULE MCSessionLife ----------------------------
(* SessionLife for TLC: two workspaces in the file, and one not in it. *)
EXTENDS SessionLife, TLC

CONSTANTS w1, w2, w3

OneFile == {<<w1>>}
TwoOrders == {<<w1, w2>>, <<w2, w1>>}

Symmetry == Permutations(Launch)

=============================================================================

-------------------------------- MODULE Lists --------------------------------
(***************************************************************************)
(* What the components that hold lists share: Vec::retain, filter and      *)
(* Iterator::position.                                                     *)
(***************************************************************************)
EXTENDS FiniteSetsExt, SequencesExt

\* The members of a list that are in a set, in their order.
Keeping(list, set) ==
  FlattenSeq([i \in DOMAIN list |-> IF list[i] \in set THEN <<list[i]>> ELSE <<>>])

Dropping(list, set) == Keeping(list, Range(list) \ set)

\* The position of the first member of a list that is in a set, or 0.
FirstIn(list, set) ==
  LET positions == {i \in DOMAIN list : list[i] \in set}
  IN  IF positions = {} THEN 0 ELSE Min(positions)

=============================================================================

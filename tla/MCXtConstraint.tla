--------------------------- MODULE MCXtConstraint ---------------------------
(* Small instances of XtConstraint for TLC. *)
EXTENDS XtConstraint, TLC

Symmetry == Permutations(View)

MCNumber == {-2, 0, 1}
=============================================================================

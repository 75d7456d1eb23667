--------------------------- MODULE MCLinearLayout ---------------------------
(* Small instances of LinearLayout for TLC. *)
EXTENDS LinearLayout, TLC

Symmetry == Permutations(View)
=============================================================================

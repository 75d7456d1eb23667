----------------------- MODULE MCLKJLockViewController -----------------------
(* Small instances of LKJLockViewController for TLC. *)
EXTENDS LKJLockViewController, TLC

Symmetry == Permutations(Peripheral)
=============================================================================

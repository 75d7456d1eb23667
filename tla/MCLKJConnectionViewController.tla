-------------------- MODULE MCLKJConnectionViewController --------------------
(* Small instances of LKJConnectionViewController for TLC. *)
EXTENDS LKJConnectionViewController
=============================================================================

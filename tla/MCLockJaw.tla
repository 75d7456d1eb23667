----------------------------- MODULE MCLockJaw -----------------------------
(* Small instances of LockJaw for TLC. *)
EXTENDS LockJaw, TLC
=============================================================================

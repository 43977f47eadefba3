----------------------------- MODULE MCLockFile -----------------------------
(* Model-checking instances of LockFile. *)
EXTENDS LockFile
=============================================================================

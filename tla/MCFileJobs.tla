----------------------------- MODULE MCFileJobs -----------------------------
(* Model-checking instance of FileJobs: no symmetry, because one of the       *)
(* properties is a liveness property.                                         *)
EXTENDS FileJobs
=============================================================================

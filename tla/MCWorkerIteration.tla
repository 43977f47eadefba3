-------------------------- MODULE MCWorkerIteration --------------------------
(* Model-checking instance of WorkerIteration: no symmetry, because one of    *)
(* the properties is a liveness property.                                     *)
EXTENDS WorkerIteration
=============================================================================

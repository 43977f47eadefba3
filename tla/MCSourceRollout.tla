--------------------------- MODULE MCSourceRollout ---------------------------
(* Model-checking instances of SourceRollout. *)
EXTENDS SourceRollout, TLC

CONSTANTS ca, tx

\* A collector that was widened from one state to two.
Widened == {{ca}, {ca, tx}}

\* Rows and processes have no order.
Interchangeable == Permutations(Run) \cup Permutations(Proc)
=============================================================================

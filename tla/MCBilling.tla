------------------------------ MODULE MCBilling ------------------------------
(* Model-checking instance of Billing. *)
EXTENDS Billing, TLC

\* Subscriptions are alike, and so are deliveries.
Symmetry == Permutations(Sub) \cup Permutations(Handler)
=============================================================================

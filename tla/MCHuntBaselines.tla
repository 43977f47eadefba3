-------------------------- MODULE MCHuntBaselines --------------------------
(* Model-checking instances of HuntBaselines. *)
EXTENDS HuntBaselines

\* The first version matches x and y, the second y only; u lacks evidence.
Criteria == <<[x |-> "match", y |-> "match", u |-> "unknown"],
              [x |-> "no_match", y |-> "match", u |-> "unknown"]>>
Values == {"x", "y", "u"}
Observations == <<2, 1>>
=============================================================================

-------------------------- MODULE MCCollectionCycle --------------------------
(* Model-checking instances of CollectionCycle. *)
EXTENDS CollectionCycle, TLC

CONSTANTS j1, j2, a1, a2, a3, p1, p2, s1, s2, s3

\* Jobs that overlap in one paged source.
Overlapping == [j \in Job |-> {s1}]
\* A job over a paged and a one-pass source, and one the catalog does not serve.
ThreeSources == [j \in Job |-> {s1, s2, s3}]

\* Two attempts of one process, and one of another.
Processes == [a \in Attempt |-> IF a = a3 THEN p2 ELSE p1]

\* The two attempts of a process have no order.
SameProcess == Permutations({a1, a2})
=============================================================================

---------------------------- MODULE AtomicStore ----------------------------
(* What a locked file store promises its callers: a write takes effect at    *)
(* once, on top of all writes before it, and a caller that is told so finds  *)
(* it there.                                                                 *)
CONSTANT Writer

VARIABLES content, told

Init == content = {} /\ told = {}

Commit(w) == /\ w \notin content
             /\ content' = content \cup {w}
             /\ UNCHANGED told

Tell(w) == /\ w \in content
           /\ told' = told \cup {w}
           /\ UNCHANGED content

Next == \E w \in Writer : Commit(w) \/ Tell(w)

Spec == Init /\ [][Next]_<<content, told>>
=============================================================================

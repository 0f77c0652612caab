----------------------------- MODULE Placement ------------------------------
(***************************************************************************)
(* What the roadmaps promise of posts: a post is in one column at most, of *)
(* whatever roadmap, and leaves it only by being taken out.  Roadmap.tla   *)
(* is shown to implement this specification.                               *)
(***************************************************************************)
CONSTANTS Posts, Columns

VARIABLE placed    \* the pairs <<post, column>>

Init == placed = {}

Place(p, c) ==
  /\ \A d \in Columns : <<p, d>> \notin placed
  /\ placed' = placed \cup {<<p, c>>}

Take(p, c) ==
  /\ <<p, c>> \in placed
  /\ placed' = placed \ {<<p, c>>}

Next == \E p \in Posts, c \in Columns : Place(p, c) \/ Take(p, c)

Spec == Init /\ [][Next]_placed
=============================================================================

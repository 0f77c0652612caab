----------------------------- MODULE MCRoadmap ------------------------------
(* Roadmap for TLC, by itself.                                             *)
EXTENDS Roadmap, TLC

CONSTANTS m1, c1, c2, p1, p2, r1, r2

const_Roadmaps == {m1}
const_Columns == {c1, c2}
const_Posts == {p1, p2}
const_Requests == {r1, r2}
const_Positions == {0, 1}

Symm == Permutations(const_Columns) \cup Permutations(const_Posts)
          \cup Permutations(const_Requests)
=============================================================================

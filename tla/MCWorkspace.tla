---------------------------- MODULE MCWorkspace -----------------------------
(* Workspace for TLC: two of everything that can be confused with another   *)
(* of its kind.                                                             *)
EXTENDS Workspace, TLC

CONSTANTS u1, u2, e1, e2, s1, s2, m1, c1, c2, p1, p2, a1, a2, t1, t2, r1, r2

const_Users == {u1, u2}
const_Events == {e1, e2}
const_Streams == {s1, s2}
const_Roadmaps == {m1}
const_Columns == {c1, c2}
const_Posts == {p1, p2}
const_Positions == {0, 1}
const_Statuses == {a1, a2}
const_Tags == {t1, t2}
const_Requests == {r1, r2}

Symm == Permutations(const_Columns) \cup Permutations(const_Posts)
          \cup Permutations(const_Statuses)
          \cup Permutations(const_Tags) \cup Permutations(const_Requests)
=============================================================================

----------------------------- MODULE MCThreads ------------------------------
(* Threads for TLC: one user, whose toggles race each other, two posts, and *)
(* comments enough for a reply and a reply to it.                           *)
EXTENDS Threads, TLC

CONSTANTS u1, p1, p2, c1, c2, c3, r1, r2

const_Users == {u1}
const_Posts == {p1, p2}
const_CommentIds == {c1, c2, c3}
const_Requests == {r1, r2}

Symm == Permutations(const_Posts) \cup Permutations(const_CommentIds)
          \cup Permutations(const_Requests)
=============================================================================

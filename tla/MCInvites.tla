----------------------------- MODULE MCInvites ------------------------------
(* Invites for TLC: a founder, another user, and as many invites, tokens and  *)
(* concurrent requests as each question needs.                             *)
EXTENDS Invites, TLC

CONSTANTS a, f, i1, i2, t1, t2, t3, r1, r2

const_Users == {f, a}
const_InviteIds == {i1, i2}
const_Tokens == {t1, t2, t3}
const_Requests == {r1, r2}

\* The questions about one invite.
const_OneInvite == {i1}
const_OneRequest == {r1}

Symm == Permutations(const_InviteIds) \cup Permutations(const_Tokens)
          \cup Permutations(const_Requests)
=============================================================================

----------------------------- MODULE MCSessions -----------------------------
(* Sessions for TLC: two devices, a second of two ticks, an access token   *)
(* of one second and a refresh token of two.                               *)
EXTENDS Sessions, TLC

CONSTANTS d1, d2, s1, s2, r1, r2, orgs

const_Devices == {d1, d2}
const_SessionIds == {s1, s2}
const_Payloads == {orgs}
const_Requests == {r1, r2}

Symm == Permutations(const_Devices) \cup Permutations(const_SessionIds)
          \cup Permutations(const_Requests)
=============================================================================

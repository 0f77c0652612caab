--------------------------- MODULE MCProvisioning ---------------------------
(* Provisioning for TLC: two of the five initial names and the default    *)
(* one, a name of the owner's own, and one post.                     *)
EXTENDS Provisioning, TLC

CONSTANTS s1, s2, s3, s4, p1, review, planned, open, extra

const_StatusIds == {s1, s2, s3, s4}
const_Names == {review, planned, open, extra}
const_InitialNames == {review, planned}
const_PostIds == {p1}
=============================================================================

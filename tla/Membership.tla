----------------------------- MODULE Membership -----------------------------
(***************************************************************************)
(* What the members table of one organization promises, whatever requests  *)
(* run and in whatever order they commit.  The founder owns the            *)
(* organization from the first state to the last; everybody else needs an  *)
(* invitation to get in, gets in once, and once removed stays out.         *)
(* Invites.tla is shown to implement this specification.                   *)
(***************************************************************************)
CONSTANTS
  Users,        \* the registered accounts, one per e-mail address
  Founder       \* the account that created the organization

VARIABLES
  members,      \* members[u]: the row of u in user_organization
  invited       \* the users an invite row was ever addressed to

mVars == <<members, invited>>

\* The roles of the Role enum, and "NONE" where the table has no row.
Roles == {"OWNER", "ADMIN", "MEMBER"}
Row == [role : Roles \cup {"NONE"}, removed : BOOLEAN]
NoRow == [role |-> "NONE", removed |-> FALSE]

HasRow(u) == members[u].role # "NONE"

Init ==
  /\ members = [u \in Users |->
                  IF u = Founder THEN [role |-> "OWNER", removed |-> FALSE]
                                 ELSE NoRow]
  /\ invited = {}

Invite(u) ==
  /\ invited' = invited \cup {u}
  /\ UNCHANGED members

\* The unique key (userId, organizationId) admits one row for ever: a removal
\* only stamps it.
Join(u) ==
  /\ u \in invited
  /\ ~HasRow(u)
  /\ members' = [members EXCEPT ![u] = [role |-> "MEMBER", removed |-> FALSE]]
  /\ UNCHANGED invited

SetRole(u, role) ==
  /\ HasRow(u)
  /\ u # Founder
  /\ members' = [members EXCEPT ![u].role = role]
  /\ UNCHANGED invited

Remove(u) ==
  /\ HasRow(u)
  /\ u # Founder
  /\ members' = [members EXCEPT ![u].removed = TRUE]
  /\ UNCHANGED invited

Next ==
  \E u \in Users :
    \/ Invite(u)
    \/ Join(u)
    \/ \E role \in {"ADMIN", "MEMBER"} : SetRole(u, role)
    \/ Remove(u)

Spec == Init /\ [][Next]_mVars
=============================================================================

--------------------------- MODULE InvitesProofs ----------------------------
(***************************************************************************)
(* Theorems about Invites, for every set of users, invites, tokens and     *)
(* requests and every life of a link.                                      *)
(*                                                                         *)
(* None of the invariants is inductive by itself: a write commits what its *)
(* request saw some steps before.  IInv adds what stays true of a request  *)
(* from its read to its write: the rows it will write exist, an acceptance *)
(* is by the user the invite is addressed to, nobody is about to change or *)
(* remove the founder, and a token in hand was generated and is nowhere    *)
(* else.                                                                   *)
(***************************************************************************)
EXTENDS Invites, FiniteSetTheorems, TLAPS

OwnersInv ==
  /\ \A u \in Users : members[u].role = "OWNER" <=> u = Founder
  /\ ~members[Founder].removed

\* What a request in flight may rely on until it commits.
CallOK(c) ==
  /\ c.step = "join" => Exists(c.invite) /\ invites[c.invite].email = c.user
  /\ c.step = "expire" => \A i \in c.ids : Exists(i)
  /\ c.step \in {"revoke", "reissue"} => Exists(c.invite)
  /\ c.step \in {"setRole", "remove"} => HasRow(c.user) /\ c.user # Founder
  /\ c.step \in {"insert", "reissue"} => c.token \in issued

CallsInv == \A r \in Requests : CallOK(call[r])

TokensInv ==
  /\ \A i \in InviteIds : Exists(i) => invites[i].token \in issued
  /\ outbox \cup mailed \subseteq issued
  /\ LinksUnique

IInv ==
  /\ TypeOK
  /\ OwnersInv
  /\ CallsInv
  /\ TokensInv
  /\ JoinedByOneInvite

-----------------------------------------------------------------------------
LEMMA CallFields ==
  ASSUME TypeOK, NEW r \in Requests
  PROVE  /\ call[r].step = "insert" =>
              /\ call[r].email \in Users
              /\ call[r].token \in Tokens
              /\ call[r].expiresAt \in Nat
         /\ call[r].step = "join" =>
              /\ call[r].invite \in InviteIds
              /\ call[r].user \in Users
         /\ call[r].step = "expire" => call[r].ids \subseteq InviteIds
         /\ call[r].step = "revoke" => call[r].invite \in InviteIds
         /\ call[r].step = "reissue" =>
              /\ call[r].invite \in InviteIds
              /\ call[r].token \in Tokens
              /\ call[r].expiresAt \in Nat
              /\ call[r].retryAt \in Nat
         /\ call[r].step = "setRole" =>
              /\ call[r].user \in Users
              /\ call[r].role \in {"ADMIN", "MEMBER"}
         /\ call[r].step \in {"countOwners", "remove"} => call[r].user \in Users
BY DEF TypeOK, Call, Idle

LEMMA FinishTyped ==
  ASSUME TypeOK, NEW r \in Requests, Finish(r)
  PROVE  call' \in [Requests -> Call]
BY DEF TypeOK, Finish, Call

\* A read step that takes no token leaves only its own claim to be checked.
LEMMA BeginInv ==
  ASSUME IInv, NEW r \in Requests, NEW c \in Call, Begin(r, c),
         UNCHANGED issued, CallOK(c), c.step \notin {"insert", "reissue"}
  PROVE  IInv'
<1> USE DEF IInv
<1>1. TypeOK'
  BY DEF TypeOK, Begin
<1>2. OwnersInv'
  BY DEF OwnersInv, Begin
<1>3. CallsInv'
  BY DEF CallsInv, CallOK, Exists, HasRow, Begin, TypeOK
<1>4. TokensInv'
  BY DEF TokensInv, LinksUnique, TokenHolders, Exists, Begin, TypeOK
<1>5. JoinedByOneInvite'
  BY DEF JoinedByOneInvite, HasRow, AcceptedBy, Exists, Begin
<1> QED BY <1>1, <1>2, <1>3, <1>4, <1>5

\* A read step that generates the token t.
LEMMA BeginTokenInv ==
  ASSUME IInv, NEW r \in Requests, NEW t \in Tokens, t \notin issued,
         issued' = issued \cup {t}, NEW c \in Call, Begin(r, c),
         c.step \in {"insert", "reissue"}, c.token = t,
         c.step = "reissue" => Exists(c.invite)
  PROVE  IInv'
<1> USE DEF IInv
<1>1. TypeOK'
  BY DEF TypeOK, Begin
<1>2. OwnersInv'
  BY DEF OwnersInv, Begin
<1>3. CallsInv'
  BY DEF CallsInv, CallOK, Exists, HasRow, Begin, TypeOK
<1>4. TokensInv'
  <2>1. \A s \in TokenHolders : s # r => call[s].token # t
    BY DEF TokenHolders, CallsInv, CallOK
  <2>2. TokenHolders' = TokenHolders \cup {r}
    BY DEF TokenHolders, Begin, TypeOK, Idle
  <2>3. \A s \in Requests \ {r} : call'[s] = call[s]
    BY DEF Begin, TypeOK
  <2>4. call'[r] = c
    BY DEF Begin, TypeOK
  <2>5. TokenHolders \subseteq Requests
    BY DEF TokenHolders
  <2> QED BY <2>1, <2>2, <2>3, <2>4, <2>5 DEF TokensInv, LinksUnique, Exists, Begin
<1>5. JoinedByOneInvite'
  BY DEF JoinedByOneInvite, HasRow, AcceptedBy, Exists, Begin
<1> QED BY <1>1, <1>2, <1>3, <1>4, <1>5

\* A write ends its request: the others keep their claims when no row
\* disappears, no e-mail address changes, nobody loses a row and no token is
\* forgotten.
LEMMA FinishCalls ==
  ASSUME IInv, NEW r \in Requests, Finish(r),
         \A i \in InviteIds : Exists(i) =>
            Exists(i)' /\ invites'[i].email = invites[i].email,
         \A u \in Users : HasRow(u) => HasRow(u)',
         issued \subseteq issued'
  PROVE  CallsInv'
<1>1. SUFFICES ASSUME NEW s \in Requests PROVE CallOK(call[s])'
  BY DEF CallsInv
<1>2. CASE s = r
  BY <1>2 DEF IInv, TypeOK, Finish, CallOK, Idle
<1>3. CASE s # r
  <2>1. call'[s] = call[s]
    BY <1>3 DEF IInv, TypeOK, Finish
  <2>2. TypeOK /\ CallOK(call[s])
    BY DEF IInv, CallsInv
  <2> QED BY <2>1, <2>2, CallFields DEF CallOK
<1> QED BY <1>2, <1>3

LEMMA FinishHolders ==
  ASSUME TypeOK, NEW r \in Requests, Finish(r)
  PROVE  /\ TokenHolders' = TokenHolders \ {r}
         /\ \A s \in TokenHolders' : call'[s] = call[s]
BY DEF TypeOK, Finish, TokenHolders, Idle

-----------------------------------------------------------------------------
LEMMA InitInv == Init => IInv
<1> SUFFICES ASSUME Init PROVE IInv
  OBVIOUS
<1>1. TypeOK
  BY FounderIsUser DEF Init, TypeOK, Member, NoMember, Roles, Call
<1>2. OwnersInv
  BY FounderIsUser DEF Init, OwnersInv, NoMember
<1>3. CallsInv
  BY DEF Init, CallsInv, CallOK, Idle
<1>4. TokensInv
  BY DEF Init, TokensInv, LinksUnique, TokenHolders, Exists, NoInvite, Idle
<1>5. JoinedByOneInvite
  BY DEF Init, JoinedByOneInvite, HasRow, NoMember, AcceptedBy, Exists, NoInvite
<1> QED BY <1>1, <1>2, <1>3, <1>4, <1>5 DEF IInv

LEMMA CreateInviteInv ==
  ASSUME IInv, NEW r \in Requests, NEW u \in Users, NEW t \in Tokens,
         CreateInvite(r, u, t)
  PROVE  IInv'
<1> DEFINE c == [step |-> "insert", email |-> u, token |-> t,
                 expiresAt |-> now + InviteTTL]
<1>1. c \in Call
  BY TimesAreNat DEF Call, IInv, TypeOK
<1>2. Begin(r, c) /\ t \notin issued /\ issued' = issued \cup {t}
  BY DEF CreateInvite
<1>3. c.step = "insert" /\ c.token = t
  OBVIOUS
<1> QED BY <1>1, <1>2, <1>3, BeginTokenInv

LEMMA RetryInviteInv ==
  ASSUME IInv, NEW r \in Requests, NEW i \in InviteIds, NEW t \in Tokens,
         RetryInvite(r, i, t)
  PROVE  IInv'
<1> DEFINE c == [step |-> "reissue", invite |-> i, token |-> t,
                 expiresAt |-> now + InviteTTL, retryAt |-> now]
<1>1. c \in Call
  BY TimesAreNat DEF Call, IInv, TypeOK
<1>2. Begin(r, c) /\ t \notin issued /\ issued' = issued \cup {t} /\ Exists(i)
  BY DEF RetryInvite
<1>3. c.step = "reissue" /\ c.token = t /\ c.invite = i
  OBVIOUS
<1> QED BY <1>1, <1>2, <1>3, BeginTokenInv

\* Marking invites EXPIRED is decided on by three requests.
LEMMA BeginExpireInv ==
  ASSUME IInv, NEW r \in Requests, NEW ids \in SUBSET InviteIds,
         \A i \in ids : Exists(i), UNCHANGED issued,
         Begin(r, [step |-> "expire", ids |-> ids])
  PROVE  IInv'
<1> DEFINE c == [step |-> "expire", ids |-> ids]
<1>1. c \in Call
  BY DEF Call
<1>2. CallOK(c) /\ c.step = "expire"
  BY DEF CallOK
<1> QED BY <1>1, <1>2, BeginInv

LEMMA FindByTokenInv ==
  ASSUME IInv, NEW r \in Requests, NEW i \in InviteIds, FindByToken(r, i)
  PROVE  IInv'
BY BeginExpireInv, {i} \in SUBSET InviteIds DEF FindByToken

LEMMA AcceptInv ==
  ASSUME IInv, NEW r \in Requests, NEW u \in Users, NEW i \in InviteIds,
         Accept(r, u, i)
  PROVE  IInv'
<1> DEFINE c == [step |-> "join", invite |-> i, user |-> u]
<1>1. CASE Begin(r, [step |-> "expire", ids |-> {i}])
  BY <1>1, BeginExpireInv, {i} \in SUBSET InviteIds DEF Accept
<1>2. CASE Begin(r, c) /\ invites[i].email = u
  <2>1. c \in Call
    BY DEF Call
  <2>2. CallOK(c) /\ c.step = "join"
    BY <1>2 DEF CallOK, Accept
  <2> QED BY <1>2, <2>1, <2>2, BeginInv DEF Accept
<1> QED BY <1>1, <1>2 DEF Accept

LEMMA ListInvitesInv ==
  ASSUME IInv, NEW r \in Requests, ListInvites(r)
  PROVE  IInv'
<1> DEFINE late == {i \in InviteIds : /\ Exists(i)
                                      /\ invites[i].status = "PENDING"
                                      /\ Overdue(i)}
<1>1. late \in SUBSET InviteIds /\ \A i \in late : Exists(i)
  OBVIOUS
<1>2. Begin(r, [step |-> "expire", ids |-> late]) /\ UNCHANGED issued
  BY DEF ListInvites
<1> HIDE DEF late
<1> QED BY <1>1, <1>2, BeginExpireInv

LEMMA RevokeInv ==
  ASSUME IInv, NEW r \in Requests, NEW i \in InviteIds, Revoke(r, i)
  PROVE  IInv'
<1> DEFINE c == [step |-> "revoke", invite |-> i]
<1>1. c \in Call
  BY DEF Call
<1>2. CallOK(c) /\ c.step = "revoke"
  BY DEF CallOK, Revoke
<1> QED BY <1>1, <1>2, BeginInv DEF Revoke

LEMMA UpdateMemberRoleInv ==
  ASSUME IInv, NEW r \in Requests, NEW u \in Users, NEW role \in {"ADMIN", "MEMBER"},
         UpdateMemberRole(r, u, role)
  PROVE  IInv'
<1> DEFINE c == [step |-> "setRole", user |-> u, role |-> role]
<1>1. c \in Call
  BY DEF Call
<1>2. CallOK(c) /\ c.step = "setRole"
  BY DEF CallOK, UpdateMemberRole, IsMember, IInv, OwnersInv
<1> QED BY <1>1, <1>2, BeginInv DEF UpdateMemberRole

LEMMA RemoveMemberInv ==
  ASSUME IInv, NEW r \in Requests, NEW u \in Users, RemoveMember(r, u)
  PROVE  IInv'
<1> DEFINE c == [step |-> IF members[u].role = "OWNER" THEN "countOwners"
                                                     ELSE "remove",
                 user |-> u]
<1>1. c \in Call
  BY DEF Call
<1>2. CallOK(c) /\ c.step \in {"countOwners", "remove"}
  BY DEF CallOK, RemoveMember, IsMember, IInv, OwnersInv
<1> QED BY <1>1, <1>2, BeginInv DEF RemoveMember

-----------------------------------------------------------------------------
LEMMA InsertInviteInv ==
  ASSUME IInv, NEW r \in Requests, NEW i \in InviteIds, InsertInvite(r, i)
  PROVE  IInv'
<1> USE DEF IInv, InsertInvite
<1>1. /\ call[r].email \in Users
      /\ call[r].token \in Tokens
      /\ call[r].expiresAt \in Nat
  BY CallFields
<1>2. invites'[i] = [email |-> call[r].email, token |-> call[r].token,
                     status |-> "PENDING", expiresAt |-> call[r].expiresAt,
                     lastRetryAt |-> Never, accepted |-> FALSE]
  BY DEF TypeOK
<1>3. \A j \in InviteIds \ {i} : invites'[j] = invites[j]
  BY DEF TypeOK
<1>4. TypeOK'
  BY <1>1, FinishTyped DEF TypeOK, Invite, Statuses, Never
<1>5. OwnersInv'
  BY DEF OwnersInv
<1>6. CallsInv'
  BY <1>2, <1>3, FinishCalls DEF Exists, HasRow
<1>7. TokensInv'
  <2>1. call[r].token \in issued /\ r \in TokenHolders
    BY DEF CallsInv, CallOK, TokenHolders
  <2>2. TokenHolders' = TokenHolders \ {r} /\ \A s \in TokenHolders' : call'[s] = call[s]
    BY FinishHolders
  <2>3. invites'[i].token = call[r].token
    BY <1>2
  <2> QED BY <1>3, <2>1, <2>2, <2>3 DEF TokensInv, LinksUnique, Exists
<1>8. JoinedByOneInvite'
  <2>1. \A u \in Users : AcceptedBy(u)' = AcceptedBy(u)
    BY <1>2, <1>3 DEF AcceptedBy, Exists
  <2> QED BY <2>1, FounderIsUser DEF JoinedByOneInvite, HasRow
<1> QED BY <1>4, <1>5, <1>6, <1>7, <1>8

LEMMA AcceptInviteInv ==
  ASSUME IInv, NEW r \in Requests, AcceptInvite(r)
  PROVE  IInv'
<1>1. PICK i \in InviteIds, u \in Users :
         /\ i = call[r].invite /\ u = call[r].user
         /\ Exists(i) /\ invites[i].email = u
  BY CallFields DEF IInv, AcceptInvite, CallsInv, CallOK
<1>2. CASE HasRow(u)
  <2>1. UNCHANGED <<invites, members>>
    BY <1>1, <1>2 DEF AcceptInvite
  <2>2. TypeOK'
    BY <2>1, FinishTyped DEF IInv, TypeOK, AcceptInvite
  <2>3. CallsInv'
    BY <2>1, FinishCalls DEF AcceptInvite, Exists, HasRow
  <2>4. TokensInv'
    BY <2>1, FinishHolders DEF IInv, AcceptInvite, TokensInv, LinksUnique, Exists
  <2> QED BY <2>1, <2>2, <2>3, <2>4
          DEF IInv, OwnersInv, JoinedByOneInvite, HasRow, AcceptedBy, Exists
<1>3. CASE ~HasRow(u)
  <2>1. /\ invites' = [invites EXCEPT ![i].status = "ACCEPTED", ![i].accepted = TRUE]
        /\ members' = [members EXCEPT ![u] = [role |-> "MEMBER", removed |-> FALSE]]
    BY <1>1, <1>3 DEF AcceptInvite
  <2>2. invites[i] \in Invite
    BY <1>1 DEF IInv, TypeOK, Exists, NoInvite
  <2>3. /\ invites'[i] = [invites[i] EXCEPT !.status = "ACCEPTED", !.accepted = TRUE]
        /\ \A j \in InviteIds \ {i} : invites'[j] = invites[j]
        /\ members'[u] = [role |-> "MEMBER", removed |-> FALSE]
        /\ \A v \in Users \ {u} : members'[v] = members[v]
    BY <1>1, <2>1 DEF IInv, TypeOK
  <2>4. /\ invites'[i] \in Invite
        /\ invites'[i].status = "ACCEPTED"
        /\ invites'[i].accepted
        /\ invites'[i].email = invites[i].email
        /\ invites'[i].token = invites[i].token
    BY <2>2, <2>3 DEF Invite, Statuses
  <2>5. TypeOK'
    <3>1. invites' \in [InviteIds -> Invite \cup {NoInvite}]
      BY <1>1, <2>1, <2>3, <2>4 DEF IInv, TypeOK
    <3>2. members' \in [Users -> Member]
      BY <1>1, <2>1 DEF IInv, TypeOK, Member, Roles
    <3> QED BY <3>1, <3>2, FinishTyped DEF IInv, TypeOK, AcceptInvite
  <2>6. u # Founder
    BY <1>1, <1>3 DEF IInv, OwnersInv, HasRow
  <2>7. OwnersInv'
    BY <2>3, <2>6, FounderIsUser DEF IInv, OwnersInv
  <2>8. \A j \in InviteIds : /\ Exists(j)' = Exists(j)
                             /\ Exists(j) => /\ invites'[j].email = invites[j].email
                                             /\ invites'[j].token = invites[j].token
    BY <1>1, <2>3, <2>4 DEF Exists
  <2>9. CallsInv'
    BY <2>3, <2>8, FinishCalls DEF AcceptInvite, HasRow
  <2>10. TokensInv'
    BY <2>8, FinishHolders DEF IInv, AcceptInvite, TokensInv, LinksUnique
  <2>11. JoinedByOneInvite'
    <3>1. AcceptedBy(u) = {}
      BY <1>1, <1>3, <2>6 DEF IInv, JoinedByOneInvite
    <3>2. \A v \in Users, j \in InviteIds \ {i} :
             j \in AcceptedBy(v)' <=> j \in AcceptedBy(v)
      BY <2>3 DEF AcceptedBy, Exists
    <3>3. \A v \in Users : i \in AcceptedBy(v)' <=> v = u
      BY <1>1, <2>4 DEF AcceptedBy, Exists
    <3>4. \A v \in Users : i \in AcceptedBy(v) => v = u
      BY <1>1 DEF AcceptedBy
    <3>5. \A v \in Users : AcceptedBy(v) \subseteq InviteIds /\ AcceptedBy(v)' \subseteq InviteIds
      BY DEF AcceptedBy
    <3>6. AcceptedBy(u)' = {i} /\ \A v \in Users \ {u} : AcceptedBy(v)' = AcceptedBy(v)
      BY <1>1, <3>1, <3>2, <3>3, <3>4, <3>5
    <3>7. HasRow(u)' /\ \A v \in Users \ {u} : HasRow(v)' = HasRow(v)
      BY <2>3 DEF HasRow
    <3> QED BY <1>1, <2>6, <3>6, <3>7, FounderIsUser DEF IInv, JoinedByOneInvite
  <2> QED BY <2>5, <2>7, <2>9, <2>10, <2>11 DEF IInv
<1> QED BY <1>2, <1>3

\* Who joined by what is untouched by a write that keeps the rows, their
\* addressees and their acceptances, and by one that keeps who has a row.
LEMMA KeepsJoined ==
  ASSUME IInv,
         \A i \in InviteIds :
            /\ Exists(i)' = Exists(i)
            /\ Exists(i) => /\ invites'[i].email = invites[i].email
                            /\ invites'[i].accepted = invites[i].accepted,
         \A u \in Users : HasRow(u)' = HasRow(u)
  PROVE  JoinedByOneInvite'
<1>1. \A u \in Users : AcceptedBy(u)' = AcceptedBy(u)
  BY DEF AcceptedBy
<1> QED BY <1>1, FounderIsUser DEF IInv, JoinedByOneInvite

LEMMA ExpireInvitesInv ==
  ASSUME IInv, NEW r \in Requests, ExpireInvites(r)
  PROVE  IInv'
<1>1. PICK ids \in SUBSET InviteIds : ids = call[r].ids /\ \A i \in ids : Exists(i)
  BY CallFields DEF IInv, ExpireInvites, CallsInv, CallOK
<1>2. \A i \in InviteIds :
        invites'[i] = IF i \in ids THEN [invites[i] EXCEPT !.status = "EXPIRED"]
                                   ELSE invites[i]
  BY <1>1 DEF ExpireInvites
<1>3. \A i \in ids : /\ invites[i] \in Invite
                     /\ invites'[i] \in Invite
                     /\ Exists(i)'
                     /\ invites'[i].email = invites[i].email
                     /\ invites'[i].token = invites[i].token
                     /\ invites'[i].accepted = invites[i].accepted
  <2>1. \A i \in ids : invites[i] \in Invite
    BY <1>1 DEF IInv, TypeOK, Exists, NoInvite
  <2> QED BY <1>2, <2>1 DEF Exists, Invite, Statuses
<1>4. \A i \in InviteIds :
        /\ Exists(i)' = Exists(i)
        /\ Exists(i) => /\ invites'[i].email = invites[i].email
                        /\ invites'[i].token = invites[i].token
                        /\ invites'[i].accepted = invites[i].accepted
  BY <1>1, <1>2, <1>3 DEF Exists
<1>5. TypeOK'
  <2>1. \A i \in InviteIds : invites'[i] \in Invite \cup {NoInvite}
    BY <1>2, <1>3 DEF IInv, TypeOK
  <2>2. invites' \in [InviteIds -> Invite \cup {NoInvite}]
    BY <2>1 DEF ExpireInvites
  <2> QED BY <2>2, FinishTyped DEF IInv, TypeOK, ExpireInvites
<1>6. OwnersInv'
  BY DEF IInv, OwnersInv, ExpireInvites
<1>7. CallsInv'
  BY <1>4, FinishCalls DEF ExpireInvites, HasRow
<1>8. TokensInv'
  BY <1>4, FinishHolders DEF IInv, ExpireInvites, TokensInv, LinksUnique
<1>9. JoinedByOneInvite'
  BY <1>4, KeepsJoined DEF ExpireInvites, HasRow
<1> QED BY <1>5, <1>6, <1>7, <1>8, <1>9 DEF IInv

LEMMA RevokeInviteInv ==
  ASSUME IInv, NEW r \in Requests, RevokeInvite(r)
  PROVE  IInv'
<1>1. PICK k \in InviteIds : k = call[r].invite /\ Exists(k)
  BY CallFields DEF IInv, RevokeInvite, CallsInv, CallOK
<1>2. /\ invites'[k] = [invites[k] EXCEPT !.status = "REVOKED"]
      /\ \A i \in InviteIds \ {k} : invites'[i] = invites[i]
  BY <1>1 DEF IInv, TypeOK, RevokeInvite
<1>3. /\ invites[k] \in Invite
      /\ invites'[k] \in Invite
      /\ Exists(k)'
  <2>1. invites[k] \in Invite
    BY <1>1 DEF IInv, TypeOK, Exists, NoInvite
  <2> QED BY <1>2, <2>1 DEF Exists, Invite, Statuses
<1>4. \A i \in InviteIds :
        /\ Exists(i)' = Exists(i)
        /\ Exists(i) => /\ invites'[i].email = invites[i].email
                        /\ invites'[i].token = invites[i].token
                        /\ invites'[i].accepted = invites[i].accepted
  BY <1>1, <1>2, <1>3 DEF Exists, Invite
<1>5. TypeOK'
  <2>1. invites' \in [InviteIds -> Invite \cup {NoInvite}]
    BY <1>1, <1>2, <1>3 DEF IInv, TypeOK, RevokeInvite
  <2> QED BY <2>1, FinishTyped DEF IInv, TypeOK, RevokeInvite
<1>6. OwnersInv'
  BY DEF IInv, OwnersInv, RevokeInvite
<1>7. CallsInv'
  BY <1>4, FinishCalls DEF RevokeInvite, HasRow
<1>8. TokensInv'
  BY <1>4, FinishHolders DEF IInv, RevokeInvite, TokensInv, LinksUnique
<1>9. JoinedByOneInvite'
  BY <1>4, KeepsJoined DEF RevokeInvite, HasRow
<1> QED BY <1>5, <1>6, <1>7, <1>8, <1>9 DEF IInv

LEMMA ReissueInviteInv ==
  ASSUME IInv, NEW r \in Requests, ReissueInvite(r)
  PROVE  IInv'
<1>1. PICK k \in InviteIds, t \in Tokens, e \in Nat, n \in Nat :
        /\ k = call[r].invite /\ t = call[r].token
        /\ e = call[r].expiresAt /\ n = call[r].retryAt
        /\ Exists(k) /\ t \in issued
  BY CallFields DEF IInv, ReissueInvite, CallsInv, CallOK
<1>2. /\ invites'[k] = [invites[k] EXCEPT !.token = t, !.expiresAt = e,
                                          !.status = "PENDING", !.lastRetryAt = n]
      /\ \A i \in InviteIds \ {k} : invites'[i] = invites[i]
  BY <1>1 DEF IInv, TypeOK, ReissueInvite
<1>3. /\ invites[k] \in Invite
      /\ invites'[k] \in Invite
      /\ Exists(k)'
      /\ invites'[k].email = invites[k].email
      /\ invites'[k].token = t
      /\ invites'[k].accepted = invites[k].accepted
  <2>1. invites[k] \in Invite
    BY <1>1 DEF IInv, TypeOK, Exists, NoInvite
  <2> QED BY <1>2, <2>1 DEF Exists, Invite, Statuses
<1>4. \A i \in InviteIds :
        /\ Exists(i)' = Exists(i)
        /\ Exists(i) => /\ invites'[i].email = invites[i].email
                        /\ invites'[i].accepted = invites[i].accepted
  BY <1>1, <1>2, <1>3 DEF Exists
<1>5. TypeOK'
  <2>1. invites' \in [InviteIds -> Invite \cup {NoInvite}]
    BY <1>1, <1>2, <1>3 DEF IInv, TypeOK, ReissueInvite
  <2>2. outbox' \subseteq Tokens
    BY <1>1 DEF IInv, TypeOK, ReissueInvite
  <2> QED BY <2>1, <2>2, FinishTyped DEF IInv, TypeOK, ReissueInvite
<1>6. OwnersInv'
  BY DEF IInv, OwnersInv, ReissueInvite
<1>7. CallsInv'
  BY <1>4, FinishCalls DEF ReissueInvite, HasRow
<1>8. TokensInv'
  <2>1. r \in TokenHolders
    BY DEF TokenHolders, ReissueInvite
  <2>2. outbox' = outbox \cup {t} /\ UNCHANGED <<issued, mailed>>
    BY <1>1 DEF ReissueInvite
  <2>3. TokenHolders' = TokenHolders \ {r} /\ \A s \in TokenHolders' : call'[s] = call[s]
    BY FinishHolders DEF IInv, ReissueInvite
  <2>4. TokensInv
    BY DEF IInv
  <2>5. /\ t \notin outbox \cup mailed
        /\ \A i \in InviteIds : Exists(i) => invites[i].token # t
        /\ \A s \in TokenHolders' : call[s].token # t
    BY <1>1, <2>1, <2>3, <2>4 DEF TokensInv, LinksUnique
  <2>6. \A i \in InviteIds : Exists(i)' => invites'[i].token = IF i = k THEN t ELSE invites[i].token
    BY <1>2, <1>3
  <2>7. \A i \in InviteIds : Exists(i)' => invites'[i].token \in issued'
    BY <1>1, <1>4, <2>2, <2>4, <2>6 DEF TokensInv
  <2>8. (outbox \cup mailed \subseteq issued)'
    BY <1>1, <2>2, <2>4 DEF TokensInv
  <2>9. \A i, j \in InviteIds :
           Exists(i)' /\ Exists(j)' /\ invites'[i].token = invites'[j].token => i = j
    BY <1>4, <2>4, <2>5, <2>6 DEF TokensInv, LinksUnique
  <2>10. \A s \in TokenHolders' :
           /\ call'[s].token \notin outbox' \cup mailed'
           /\ \A i \in InviteIds : Exists(i)' => invites'[i].token # call'[s].token
           /\ \A q \in TokenHolders' : call'[q].token = call'[s].token => q = s
    BY <1>4, <2>2, <2>3, <2>4, <2>5, <2>6 DEF TokensInv, LinksUnique
  <2> QED BY <2>7, <2>8, <2>9, <2>10 DEF TokensInv, LinksUnique
<1>9. JoinedByOneInvite'
  BY <1>4, KeepsJoined DEF ReissueInvite, HasRow
<1> QED BY <1>5, <1>6, <1>7, <1>8, <1>9 DEF IInv

\* The members table alone is written by SetRole and StampRemoval.
LEMMA SetRoleInv ==
  ASSUME IInv, NEW r \in Requests, SetRole(r)
  PROVE  IInv'
<1>1. PICK u \in Users, role \in {"ADMIN", "MEMBER"} :
         u = call[r].user /\ role = call[r].role /\ HasRow(u) /\ u # Founder
  BY CallFields DEF IInv, SetRole, CallsInv, CallOK
<1>2. /\ members' = [members EXCEPT ![u].role = role]
      /\ members'[u] = [members[u] EXCEPT !.role = role]
      /\ \A v \in Users \ {u} : members'[v] = members[v]
  BY <1>1 DEF IInv, TypeOK, SetRole
<1>3. members[u] \in Member /\ members'[u] \in Member /\ members'[u].role = role
  BY <1>1, <1>2 DEF IInv, TypeOK, Member, Roles
<1>4. \A v \in Users : HasRow(v)' = HasRow(v)
  BY <1>1, <1>2, <1>3 DEF HasRow
<1>5. TypeOK'
  BY <1>1, <1>2, <1>3, FinishTyped DEF IInv, TypeOK, SetRole
<1>6. OwnersInv'
  BY <1>1, <1>2, <1>3, FounderIsUser DEF IInv, OwnersInv
<1>7. CallsInv'
  BY <1>4, FinishCalls DEF SetRole, Exists
<1>8. TokensInv'
  BY FinishHolders DEF IInv, SetRole, TokensInv, LinksUnique, Exists
<1>9. JoinedByOneInvite'
  BY <1>4, KeepsJoined DEF SetRole, Exists
<1> QED BY <1>5, <1>6, <1>7, <1>8, <1>9 DEF IInv

LEMMA StampRemovalInv ==
  ASSUME IInv, NEW r \in Requests, StampRemoval(r)
  PROVE  IInv'
<1>1. PICK u \in Users : u = call[r].user /\ HasRow(u) /\ u # Founder
  BY CallFields DEF IInv, StampRemoval, CallsInv, CallOK
<1>2. /\ members' = [members EXCEPT ![u].removed = TRUE]
      /\ members'[u] = [members[u] EXCEPT !.removed = TRUE]
      /\ \A v \in Users \ {u} : members'[v] = members[v]
  BY <1>1 DEF IInv, TypeOK, StampRemoval
<1>3. members[u] \in Member /\ members'[u] \in Member /\ members'[u].role = members[u].role
  <2>1. members[u] \in Member
    BY <1>1 DEF IInv, TypeOK
  <2> QED BY <1>2, <2>1 DEF Member
<1>4. \A v \in Users : HasRow(v)' = HasRow(v)
  BY <1>1, <1>2, <1>3 DEF HasRow
<1>5. TypeOK'
  BY <1>1, <1>2, <1>3, FinishTyped DEF IInv, TypeOK, StampRemoval
<1>6. OwnersInv'
  BY <1>1, <1>2, <1>3, FounderIsUser DEF IInv, OwnersInv
<1>7. CallsInv'
  BY <1>4, FinishCalls DEF StampRemoval, Exists
<1>8. TokensInv'
  BY FinishHolders DEF IInv, StampRemoval, TokensInv, LinksUnique, Exists
<1>9. JoinedByOneInvite'
  BY <1>4, KeepsJoined DEF StampRemoval, Exists
<1> QED BY <1>5, <1>6, <1>7, <1>8, <1>9 DEF IInv

LEMMA OwnersFounder == IInv => SoleOwner
BY FounderIsUser DEF IInv, OwnersInv, SoleOwner, Owners, IsMember, HasRow

\* With one owner the count never lets the removal of an owner through.
LEMMA CountOwnersInv ==
  ASSUME IInv, NEW r \in Requests, CountOwners(r)
  PROVE  IInv'
<1>1. Cardinality(Owners) = 1
  BY OwnersFounder, FS_Singleton DEF SoleOwner
<1>2. Finish(r)
  BY <1>1 DEF CountOwners, Finish
<1>3. UNCHANGED <<now, invites, members, issued, outbox, mailed>>
  BY DEF CountOwners
<1>4. TypeOK'
  BY <1>2, <1>3, FinishTyped DEF IInv, TypeOK
<1>5. OwnersInv'
  BY <1>3 DEF IInv, OwnersInv
<1>6. CallsInv'
  BY <1>2, <1>3, FinishCalls DEF Exists, HasRow
<1>7. TokensInv'
  BY <1>2, <1>3, FinishHolders DEF IInv, TokensInv, LinksUnique, Exists
<1>8. JoinedByOneInvite'
  BY <1>3, KeepsJoined DEF Exists, HasRow
<1> QED BY <1>4, <1>5, <1>6, <1>7, <1>8 DEF IInv

LEMMA SendMailInv ==
  ASSUME IInv, NEW t \in Tokens, SendMail(t)
  PROVE  IInv'
<1> USE DEF IInv, SendMail
<1>1. TypeOK'
  BY DEF TypeOK
<1>2. OwnersInv'
  BY DEF OwnersInv
<1>3. CallsInv'
  BY DEF CallsInv, CallOK, Exists, HasRow
<1>4. TokensInv'
  BY DEF TokensInv, LinksUnique, TokenHolders, Exists
<1>5. JoinedByOneInvite'
  BY KeepsJoined DEF Exists, HasRow
<1> QED BY <1>1, <1>2, <1>3, <1>4, <1>5

LEMMA RestartInv == IInv /\ Restart => IInv'
<1> SUFFICES ASSUME IInv, Restart PROVE IInv'
  OBVIOUS
<1> USE DEF IInv, Restart
<1>1. TypeOK'
  BY DEF TypeOK, Call
<1>2. OwnersInv'
  BY DEF OwnersInv
<1>3. CallsInv'
  BY DEF CallsInv, CallOK, Idle
<1>4. TokensInv'
  BY DEF TokensInv, LinksUnique, TokenHolders, Exists, Idle
<1>5. JoinedByOneInvite'
  BY KeepsJoined DEF Exists, HasRow
<1> QED BY <1>1, <1>2, <1>3, <1>4, <1>5

LEMMA TickInv == IInv /\ (Tick \/ UNCHANGED vars) => IInv'
<1> SUFFICES ASSUME IInv, Tick \/ UNCHANGED vars PROVE IInv'
  OBVIOUS
<1> USE DEF IInv, Tick, vars
<1>1. TypeOK'
  BY DEF TypeOK
<1>2. OwnersInv'
  BY DEF OwnersInv
<1>3. CallsInv'
  BY DEF CallsInv, CallOK, Exists, HasRow
<1>4. TokensInv'
  BY DEF TokensInv, LinksUnique, TokenHolders, Exists
<1>5. JoinedByOneInvite'
  BY KeepsJoined DEF Exists, HasRow
<1> QED BY <1>1, <1>2, <1>3, <1>4, <1>5

LEMMA NextInv == IInv /\ [Next]_vars => IInv'
<1> SUFFICES ASSUME IInv, [Next]_vars PROVE IInv'
  OBVIOUS
<1>1. ASSUME NEW r \in Requests, InviteRequest(r)
      PROVE  IInv'
  BY <1>1, CreateInviteInv, InsertInviteInv, FindByTokenInv, AcceptInv, AcceptInviteInv,
     ListInvitesInv, ExpireInvitesInv, RevokeInv, RevokeInviteInv, RetryInviteInv,
     ReissueInviteInv
  DEF InviteRequest
<1>2. ASSUME NEW r \in Requests, MemberRequest(r)
      PROVE  IInv'
  BY <1>2, UpdateMemberRoleInv, SetRoleInv, RemoveMemberInv, CountOwnersInv,
     StampRemovalInv
  DEF MemberRequest
<1> QED BY <1>1, <1>2, SendMailInv, RestartInv, TickInv DEF Next

-----------------------------------------------------------------------------
(* IInv holds in every reachable state. *)
THEOREM Invariance == Spec => []IInv
BY InitInv, NextInv, PTL DEF Spec

(* Every row, request and token is well formed in every reachable state;   *)
(* a write keeps the row's type because the row it names exists.           *)
THEOREM TypeCorrect == Spec => []TypeOK
<1>1. IInv => TypeOK
  BY DEF IInv
<1> QED BY <1>1, Invariance, PTL

(* The founder is the one active owner, whatever role changes and removals *)
(* are in flight at once.                                                  *)
THEOREM OneOwner == Spec => []SoleOwner
BY OwnersFounder, Invariance, PTL

(* A user other than the founder is in the members table exactly if one    *)
(* invite addressed to him was accepted, and never two.                    *)
THEOREM MembershipByOneInvite == Spec => []JoinedByOneInvite
<1>1. IInv => JoinedByOneInvite
  BY DEF IInv
<1> QED BY <1>1, Invariance, PTL

(* A link opens at most one invite and is mailed only once its row is      *)
(* committed.                                                              *)
THEOREM LinksAreUnique == Spec => []LinksUnique
<1>1. IInv => LinksUnique
  BY DEF IInv, TokensInv
<1> QED BY <1>1, Invariance, PTL

-----------------------------------------------------------------------------
\* A step that keeps the rows and their addressees invites nobody.
LEMMA KeepsInvited ==
  ASSUME \A i \in InviteIds :
            /\ Exists(i)' = Exists(i)
            /\ Exists(i) => invites'[i].email = invites[i].email
  PROVE  Invited' = Invited
BY DEF Invited

\* Every step is a step of Membership, or changes nothing it can see.
LEMMA StepRefines == IInv /\ [Next]_vars => [Promise!Next]_(Promise!mVars)
<1> SUFFICES ASSUME IInv, [Next]_vars PROVE [Promise!Next]_(Promise!mVars)
  OBVIOUS
<1> DEFINE Hidden == UNCHANGED <<members, Invited>>
<1> USE DEF Promise!mVars
<1>1. CASE UNCHANGED <<invites, members>>
  BY <1>1, KeepsInvited DEF Exists
<1>2. ASSUME NEW r \in Requests, NEW i \in InviteIds, InsertInvite(r, i)
      PROVE  Promise!Next
  <2>1. PICK u \in Users : u = call[r].email
    BY <1>2, CallFields DEF InsertInvite, IInv
  <2>2. /\ ~Exists(i) /\ Exists(i)' /\ invites'[i].email = u
        /\ \A j \in InviteIds \ {i} : invites'[j] = invites[j]
    BY <1>2, <2>1 DEF InsertInvite, IInv, TypeOK, Exists
  <2>3. Invited' = Invited \cup {u}
    BY <2>2 DEF Invited, Exists
  <2> QED BY <1>2, <2>1, <2>3 DEF InsertInvite, Promise!Next, Promise!Invite
<1>3. ASSUME NEW r \in Requests, AcceptInvite(r)
      PROVE  Promise!Next \/ Hidden
  <2>1. PICK k \in InviteIds, u \in Users :
           /\ k = call[r].invite /\ u = call[r].user
           /\ Exists(k) /\ invites[k].email = u
    BY <1>3, CallFields DEF IInv, AcceptInvite, CallsInv, CallOK
  <2>2. CASE ~HasRow(u)
    <3>1. /\ invites'[k] = [invites[k] EXCEPT !.status = "ACCEPTED", !.accepted = TRUE]
          /\ \A j \in InviteIds \ {k} : invites'[j] = invites[j]
          /\ members' = [members EXCEPT ![u] = [role |-> "MEMBER", removed |-> FALSE]]
      BY <1>3, <2>1, <2>2 DEF AcceptInvite, IInv, TypeOK
    <3>2. invites[k] \in Invite
      BY <2>1 DEF IInv, TypeOK, Exists, NoInvite
    <3>3. Exists(k)' /\ invites'[k].email = invites[k].email
      BY <3>1, <3>2 DEF Exists, Invite
    <3>4. Invited' = Invited
      BY <2>1, <3>1, <3>3, KeepsInvited DEF Exists
    <3>5. u \in Invited
      BY <2>1 DEF Invited
    <3> QED BY <2>2, <3>1, <3>4, <3>5
            DEF Promise!Next, Promise!Join, Promise!HasRow, HasRow
  <2>3. CASE HasRow(u)
    BY <1>3, <2>1, <2>3, KeepsInvited DEF AcceptInvite, Exists
  <2> QED BY <2>2, <2>3
<1>4. ASSUME NEW r \in Requests, ExpireInvites(r)
      PROVE  Hidden
  <2>1. PICK ids \in SUBSET InviteIds : ids = call[r].ids /\ \A i \in ids : Exists(i)
    BY <1>4, CallFields DEF IInv, ExpireInvites, CallsInv, CallOK
  <2>2. \A i \in ids : invites[i] \in Invite
    BY <2>1 DEF IInv, TypeOK, Exists, NoInvite
  <2>3. \A i \in InviteIds :
           invites'[i] = IF i \in ids THEN [invites[i] EXCEPT !.status = "EXPIRED"]
                                      ELSE invites[i]
    BY <1>4, <2>1 DEF ExpireInvites
  <2>4. \A i \in InviteIds : /\ Exists(i)' = Exists(i)
                             /\ Exists(i) => invites'[i].email = invites[i].email
    <3>1. \A i \in ids : Exists(i)' /\ invites'[i].email = invites[i].email
      BY <2>2, <2>3 DEF Exists, Invite
    <3> QED BY <2>1, <2>3, <3>1 DEF Exists
  <2> QED BY <1>4, <2>4, KeepsInvited DEF ExpireInvites
<1>5. ASSUME NEW r \in Requests, RevokeInvite(r) \/ ReissueInvite(r)
      PROVE  Hidden
  <2>1. PICK k \in InviteIds : k = call[r].invite /\ Exists(k)
    BY <1>5, CallFields DEF IInv, RevokeInvite, ReissueInvite, CallsInv, CallOK
  <2>2. invites[k] \in Invite
    BY <2>1 DEF IInv, TypeOK, Exists, NoInvite
  <2>3. /\ \A j \in InviteIds \ {k} : invites'[j] = invites[j]
        /\ Exists(k)' /\ invites'[k].email = invites[k].email
    <3>1. CASE RevokeInvite(r)
      BY <2>1, <2>2, <3>1 DEF RevokeInvite, IInv, TypeOK, Invite, Exists
    <3>2. CASE ReissueInvite(r)
      BY <2>1, <2>2, <3>2 DEF ReissueInvite, IInv, TypeOK, Invite, Exists
    <3> QED BY <1>5, <3>1, <3>2
  <2> QED BY <1>5, <2>1, <2>3, KeepsInvited DEF RevokeInvite, ReissueInvite, Exists
<1>6. ASSUME NEW r \in Requests, SetRole(r)
      PROVE  Promise!Next
  <2>1. PICK u \in Users, role \in {"ADMIN", "MEMBER"} :
           u = call[r].user /\ role = call[r].role /\ HasRow(u) /\ u # Founder
    BY <1>6, CallFields DEF IInv, SetRole, CallsInv, CallOK
  <2>2. members' = [members EXCEPT ![u].role = role] /\ Invited' = Invited
    BY <1>6, <2>1, KeepsInvited DEF SetRole, Exists
  <2> QED BY <2>1, <2>2 DEF Promise!Next, Promise!SetRole, Promise!HasRow, HasRow
<1>7. ASSUME NEW r \in Requests, StampRemoval(r)
      PROVE  Promise!Next
  <2>1. PICK u \in Users : u = call[r].user /\ HasRow(u) /\ u # Founder
    BY <1>7, CallFields DEF IInv, StampRemoval, CallsInv, CallOK
  <2>2. members' = [members EXCEPT ![u].removed = TRUE] /\ Invited' = Invited
    BY <1>7, <2>1, KeepsInvited DEF StampRemoval, Exists
  <2> QED BY <2>1, <2>2 DEF Promise!Next, Promise!Remove, Promise!HasRow, HasRow
<1>8. ASSUME NEW r \in Requests, InviteRequest(r)
      PROVE  Promise!Next \/ Hidden
  BY <1>1, <1>2, <1>3, <1>4, <1>5, <1>8
  DEF InviteRequest, CreateInvite, FindByToken, Accept, ListInvites, Revoke, RetryInvite, Begin
<1>9. ASSUME NEW r \in Requests, MemberRequest(r)
      PROVE  Promise!Next \/ UNCHANGED <<invites, members>>
  BY <1>6, <1>7, <1>9
  DEF MemberRequest, UpdateMemberRole, RemoveMember, CountOwners, Begin
<1> QED BY <1>1, <1>8, <1>9 DEF Next, SendMail, Restart, Tick, vars

(* The system implements Membership: the members table, with the set of    *)
(* addressees, goes only through the steps the abstract specification      *)
(* allows.                                                                 *)
THEOREM Refinement == Spec => ImplementsMembership
<1>1. Init => Promise!Init
  BY DEF Init, Promise!Init, NoMember, Promise!NoRow, Invited, Exists, NoInvite
<1>2. QED
  BY <1>1, StepRefines, Invariance, PTL DEF Spec, ImplementsMembership, Promise!Spec

(* A removed member never becomes active again and no row disappears: no   *)
(* step of Membership does it, and every step here is one of those.        *)
THEOREM RemovedForGood == Spec => RemovalIsFinal
<1>1. IInv /\ [Promise!Next]_(Promise!mVars) => RowsKept
  <2> SUFFICES ASSUME IInv, [Promise!Next]_(Promise!mVars) PROVE RowsKept
    OBVIOUS
  <2>1. members \in [Users -> Member]
    BY DEF IInv, TypeOK
  <2>2. CASE UNCHANGED members
    BY <2>2 DEF RowsKept, HasRow
  <2>3. ASSUME NEW u \in Users, Promise!Join(u)
        PROVE  RowsKept
    BY <2>1, <2>3 DEF Promise!Join, Promise!HasRow, RowsKept, HasRow
  <2>4. ASSUME NEW u \in Users, NEW role \in {"ADMIN", "MEMBER"}, Promise!SetRole(u, role)
        PROVE  RowsKept
    BY <2>1, <2>4 DEF Promise!SetRole, RowsKept, HasRow, Member
  <2>5. ASSUME NEW u \in Users, Promise!Remove(u)
        PROVE  RowsKept
    BY <2>1, <2>5 DEF Promise!Remove, RowsKept, HasRow, Member
  <2> QED BY <2>2, <2>3, <2>4, <2>5 DEF Promise!Next, Promise!Invite, Promise!mVars
<1>2. IInv /\ [Next]_vars => [RowsKept]_vars
  BY <1>1, StepRefines
<1> QED BY <1>2, Invariance, PTL DEF Spec, RemovalIsFinal

-----------------------------------------------------------------------------
\* Whoever holds a token that is not new has held it before: requests take
\* theirs fresh from the generator.
LEMMA HoldersFlow ==
  ASSUME IInv, [Next]_vars, NEW t \in issued, NEW r \in Requests,
         call'[r].step \in {"insert", "reissue"}, call'[r].token = t
  PROVE  call'[r] = call[r]
<1> SUFFICES ASSUME call'[r] # call[r] PROVE FALSE
  OBVIOUS
<1> USE DEF IInv, TypeOK
<1>1. Idle.step \notin {"insert", "reissue"}
  BY DEF Idle
<1>2. ASSUME NEW q \in Requests, NEW c, call' = [call EXCEPT ![q] = c]
      PROVE  call'[r] = c
  BY <1>2
<1>3. ASSUME NEW q \in Requests, NEW c, Begin(q, c) PROVE call'[r] = c
  BY <1>2, <1>3 DEF Begin
<1>4. ASSUME NEW q \in Requests, Finish(q) PROVE FALSE
  BY <1>1, <1>2, <1>4 DEF Finish
<1>5. ASSUME NEW q \in Requests, NEW u \in Users, NEW s \in Tokens, CreateInvite(q, u, s)
      PROVE  FALSE
  <2>1. call'[r].token = s
    BY <1>3, <1>5 DEF CreateInvite
  <2> QED
    BY <1>5, <2>1 DEF CreateInvite
<1>6. ASSUME NEW q \in Requests, NEW i \in InviteIds, NEW s \in Tokens,
             RetryInvite(q, i, s)
      PROVE  FALSE
  <2>1. call'[r].token = s
    BY <1>3, <1>6 DEF RetryInvite
  <2> QED
    BY <1>6, <2>1 DEF RetryInvite
<1>7. ASSUME NEW q \in Requests, NEW c, Begin(q, c), c.step \notin {"insert", "reissue"}
      PROVE  FALSE
  BY <1>3, <1>7
<1>8. ASSUME NEW q \in Requests, InviteRequest(q) PROVE FALSE
  <2>1. ASSUME NEW i \in InviteIds, FindByToken(q, i) PROVE FALSE
    BY <1>7, <2>1 DEF FindByToken
  <2>2. ASSUME NEW u \in Users, NEW i \in InviteIds, Accept(q, u, i) PROVE FALSE
    BY <1>7, <2>2 DEF Accept
  <2>3. ASSUME ListInvites(q) PROVE FALSE
    BY <1>7, <2>3 DEF ListInvites
  <2>4. ASSUME NEW i \in InviteIds, Revoke(q, i) PROVE FALSE
    BY <1>7, <2>4 DEF Revoke
  <2> QED
    BY <1>4, <1>5, <1>6, <1>8, <2>1, <2>2, <2>3, <2>4 DEF InviteRequest, InsertInvite,
       AcceptInvite, ExpireInvites, RevokeInvite, ReissueInvite
<1>9. ASSUME NEW q \in Requests, MemberRequest(q) PROVE FALSE
  <2>1. ASSUME NEW u \in Users, NEW role \in {"ADMIN", "MEMBER"},
               UpdateMemberRole(q, u, role)
        PROVE  FALSE
    BY <1>7, <2>1 DEF UpdateMemberRole
  <2>2. ASSUME NEW u \in Users, RemoveMember(q, u) PROVE FALSE
    BY <1>7, <2>2 DEF RemoveMember
  <2>3. ASSUME CountOwners(q) PROVE FALSE
    <3>1. call[q].step = "countOwners"
      BY <2>3 DEF CountOwners
    <3>2. call'[r] = Idle \/ call'[r] = [call[q] EXCEPT !.step = "remove"]
      BY <1>2, <2>3 DEF CountOwners
    <3>3. [call[q] EXCEPT !.step = "remove"].step = "remove"
      BY <3>1 DEF Call, Idle
    <3> QED
      BY <1>1, <3>2, <3>3
  <2> QED
    BY <1>4, <1>9, <2>1, <2>2, <2>3 DEF MemberRequest, SetRole, StampRemoval
<1> QED
  BY <1>1, <1>8, <1>9 DEF Next, vars, SendMail, Restart, Tick

\* A row's token was there before or comes from a request that held it.
LEMMA RowsFlow ==
  ASSUME IInv, [Next]_vars, NEW i \in InviteIds, Exists(i)', invites'[i] # invites[i]
  PROVE  \/ Exists(i) /\ invites'[i].token = invites[i].token
         \/ \E r \in TokenHolders : call[r].token = invites'[i].token
<1> USE DEF IInv, TypeOK
<1>1. Exists(i) => invites[i] \in Invite
  BY DEF Exists, NoInvite
<1>2. ASSUME NEW j \in InviteIds, NEW status \in Statuses, Exists(j),
             \/ invites' = [invites EXCEPT ![j].status = status]
             \/ invites' = [invites EXCEPT ![j].status = status, ![j].accepted = TRUE]
      PROVE  Exists(i) /\ invites'[i].token = invites[i].token
  BY <1>1, <1>2 DEF Invite
<1>3. ASSUME NEW r \in Requests, NEW j \in InviteIds, InsertInvite(r, j)
      PROVE  r \in TokenHolders /\ call[r].token = invites'[i].token
  BY <1>3 DEF InsertInvite, TokenHolders
<1>4. ASSUME NEW r \in Requests, ReissueInvite(r)
      PROVE  r \in TokenHolders /\ call[r].token = invites'[i].token
  <2>1. call[r].invite \in InviteIds /\ Exists(call[r].invite)
    BY <1>4, CallFields DEF ReissueInvite, CallsInv, CallOK
  <2>2. i = call[r].invite
    BY <1>4, <2>1 DEF ReissueInvite
  <2>3. invites[i] \in Invite
    BY <1>1, <2>1, <2>2
  <2> QED
    BY <1>4, <2>2, <2>3 DEF ReissueInvite, TokenHolders, Invite
<1>5. ASSUME NEW r \in Requests, AcceptInvite(r) \/ RevokeInvite(r)
      PROVE  Exists(i) /\ invites'[i].token = invites[i].token
  <2>1. call[r].invite \in InviteIds /\ Exists(call[r].invite)
    BY <1>5, CallFields DEF AcceptInvite, RevokeInvite, CallsInv, CallOK
  <2> QED
    BY <1>2, <1>5, <2>1 DEF AcceptInvite, RevokeInvite, Statuses
<1>6. ASSUME NEW r \in Requests, ExpireInvites(r)
      PROVE  Exists(i) /\ invites'[i].token = invites[i].token
  <2>1. i \in call[r].ids /\ invites'[i] = [invites[i] EXCEPT !.status = "EXPIRED"]
    BY <1>6 DEF ExpireInvites
  <2>2. Exists(i)
    BY <1>6, <2>1 DEF ExpireInvites, CallsInv, CallOK
  <2> QED
    BY <1>1, <2>1, <2>2 DEF Invite
<1>7. \E r \in Requests : InviteRequest(r)
  BY DEF Next, vars, MemberRequest, UpdateMemberRole, SetRole, RemoveMember, CountOwners,
     StampRemoval, SendMail, Restart, Tick, Begin
<1> QED
  BY <1>3, <1>4, <1>5, <1>6, <1>7 DEF InviteRequest, CreateInvite, FindByToken, Accept,
     ListInvites, Revoke, RetryInvite, Begin

\* A token that was generated is carried on only by what carried it before.
LEMMA CarriedBefore ==
  ASSUME IInv, [Next]_vars, NEW t \in issued, Carried(t)'
  PROVE  \/ \E i \in InviteIds : /\ Exists(i) /\ invites[i].token = t
                                 /\ invites'[i].token = t
         \/ \E r \in TokenHolders : call[r].token = t
<1>1. CASE \E r \in TokenHolders' : call'[r].token = t
  BY <1>1, HoldersFlow DEF TokenHolders
<1>2. ASSUME NEW i \in InviteIds, Exists(i)', invites'[i].token = t
      PROVE  \/ Exists(i) /\ invites[i].token = t /\ invites'[i].token = t
             \/ \E r \in TokenHolders : call[r].token = t
  BY <1>2, RowsFlow DEF Exists
<1> QED
  BY <1>1, <1>2 DEF Carried

(* What no row and no request holds never comes back, and a link is no     *)
(* longer held by anybody once a retry has put another in its row: the     *)
(* e-mails that still have it lead nowhere.                                *)
THEOREM DeadLinksStayDead == Spec => ReplacedLinksStayDead
<1>1. ASSUME IInv, [Next]_vars, NEW t \in issued, ~Carried(t)
      PROVE  ~Carried(t)'
  BY <1>1, CarriedBefore DEF Carried
<1>2. ASSUME IInv, [Next]_vars, NEW t \in issued, NEW i \in InviteIds,
             Exists(i), invites[i].token = t, invites'[i].token # t
      PROVE  ~Carried(t)'
  BY <1>2, CarriedBefore DEF IInv, TokensInv, LinksUnique
<1>3. IInv /\ [Next]_vars =>
        [\A t \in issued :
           /\ ~Carried(t) => ~Carried(t)'
           /\ \A i \in InviteIds :
                Exists(i) /\ invites[i].token = t /\ invites'[i].token # t
                  => ~Carried(t)']_vars
  BY <1>1, <1>2
<1> QED
  BY <1>3, Invariance, PTL DEF Spec, ReplacedLinksStayDead

-----------------------------------------------------------------------------
\* A request that goes on over unchanged tables has what it found, unless it is
\* an acceptance and time has run out.
LEMMA FoundStays ==
  ASSUME IInv, NEW r \in Requests, Found(r), call'[r] = call[r],
         UNCHANGED <<invites, members>>, now' \in Nat, now' >= now,
         call[r].step = "join" => ~Overdue(call[r].invite)'
  PROVE  Found(r)'
<1>1. ASSUME call[r].step = "expire", NEW i \in call[r].ids
      PROVE  Overdue(i)'
  <2>1. i \in InviteIds /\ Exists(i)
    BY <1>1, CallFields DEF IInv, CallsInv, CallOK
  <2>2. invites[i].expiresAt \in Nat
    BY <2>1 DEF IInv, TypeOK, Exists, Invite, NoInvite
  <2>3. now > invites[i].expiresAt
    BY <1>1 DEF Found, Overdue
  <2> QED
    BY <2>2, <2>3 DEF Overdue, IInv, TypeOK
<1> QED
  BY <1>1 DEF Found, IsMember, HasRow

LEMMA IdleFound ==
  ASSUME NEW r \in Requests, call'[r] = Idle
  PROVE  Found(r)'
BY DEF Found, Idle

\* A request begins with what it has just found.
LEMMA BeginFound ==
  ASSUME IInv, NEW p \in Requests, NEW c, Begin(p, c), NEW r \in Requests, Found(r),
         /\ c.step = "insert" => ~IsMember(c.email)
         /\ c.step \in {"setRole", "countOwners", "remove"} => IsMember(c.user)
         /\ c.step = "setRole" => members[c.user].role # "OWNER"
         /\ c.step \in {"join", "revoke"} => invites[c.invite].status = "PENDING"
         /\ c.step = "join" => invites[c.invite].email = c.user /\ ~Overdue(c.invite)
         /\ c.step = "expire" => \A i \in c.ids : Overdue(i)
         /\ c.step = "reissue" =>
              /\ invites[c.invite].status \notin {"REVOKED", "ACCEPTED"}
              /\ \/ invites[c.invite].lastRetryAt = Never
                 \/ c.retryAt - invites[c.invite].lastRetryAt >= RetryWait
  PROVE  Found(r)'
<1>1. /\ call'[p] = c
      /\ \A s \in Requests \ {p} : call'[s] = call[s]
      /\ UNCHANGED <<now, invites, members>>
      /\ now \in Nat
  BY DEF Begin, IInv, TypeOK
<1>2. CASE r = p
  BY <1>1, <1>2 DEF Found, IsMember, HasRow, Overdue
<1>3. CASE r # p
  <2>1. call'[r] = call[r]
    BY <1>1, <1>3
  <2>2. call[r].step = "join" => ~Overdue(call[r].invite)'
    BY <1>1, <2>1 DEF Found, Overdue
  <2> QED
    BY <1>1, <2>1, <2>2, FoundStays
<1> QED
  BY <1>2, <1>3

LEMMA ReadsFound ==
  ASSUME IInv, NEW p \in Requests, NEW r \in Requests, Found(r),
         \/ \E u \in Users, t \in Tokens : CreateInvite(p, u, t)
         \/ \E i \in InviteIds : FindByToken(p, i)
         \/ \E u \in Users, i \in InviteIds : Accept(p, u, i)
         \/ ListInvites(p)
         \/ \E i \in InviteIds : Revoke(p, i)
         \/ \E i \in InviteIds, t \in Tokens : RetryInvite(p, i, t)
         \/ \E u \in Users, role \in {"ADMIN", "MEMBER"} : UpdateMemberRole(p, u, role)
         \/ \E u \in Users : RemoveMember(p, u)
  PROVE  Found(r)'
<1>1. ASSUME NEW u \in Users, NEW t \in Tokens, CreateInvite(p, u, t)
      PROVE  Found(r)'
  BY <1>1, BeginFound DEF CreateInvite
<1>2. ASSUME NEW i \in InviteIds, FindByToken(p, i)
      PROVE  Found(r)'
  BY <1>2, BeginFound DEF FindByToken
<1>3. ASSUME NEW u \in Users, NEW i \in InviteIds, Accept(p, u, i)
      PROVE  Found(r)'
  BY <1>3, BeginFound DEF Accept
<1>4. ASSUME ListInvites(p)
      PROVE  Found(r)'
  BY <1>4, BeginFound DEF ListInvites
<1>5. ASSUME NEW i \in InviteIds, Revoke(p, i)
      PROVE  Found(r)'
  BY <1>5, BeginFound DEF Revoke
<1>6. ASSUME NEW i \in InviteIds, NEW t \in Tokens, RetryInvite(p, i, t)
      PROVE  Found(r)'
  BY <1>6, BeginFound DEF RetryInvite, RetryAllowed
<1>7. ASSUME NEW u \in Users, NEW role \in {"ADMIN", "MEMBER"}, UpdateMemberRole(p, u, role)
      PROVE  Found(r)'
  BY <1>7, BeginFound DEF UpdateMemberRole
<1>8. ASSUME NEW u \in Users, RemoveMember(p, u)
      PROVE  Found(r)'
  BY <1>8, BeginFound DEF RemoveMember
<1> QED
  BY <1>1, <1>2, <1>3, <1>4, <1>5, <1>6, <1>7, <1>8

\* The rows a request names, and its fields.
LEMMA NamedRows ==
  ASSUME IInv, NEW r \in Requests
  PROVE  /\ call[r].step \in {"join", "revoke", "reissue"} =>
              /\ call[r].invite \in InviteIds
              /\ Exists(call[r].invite)
              /\ invites[call[r].invite] \in Invite
         /\ call[r].step = "expire" => \A i \in call[r].ids :
              i \in InviteIds /\ Exists(i) /\ invites[i] \in Invite
         /\ call[r].step = "insert" => call[r].email \in Users
         /\ call[r].step \in {"setRole", "countOwners", "remove", "join"} =>
              call[r].user \in Users
<1>1. \A i \in InviteIds : Exists(i) => invites[i] \in Invite
  BY DEF IInv, TypeOK, Exists, NoInvite
<1>2. call[r] \in Call
  BY DEF IInv, TypeOK
<1>3. CallOK(call[r])
  BY DEF IInv, CallsInv
<1> QED
  BY <1>1, <1>2, <1>3 DEF Call, CallOK, Idle

\* What each write leaves of what another request has found: all of it, but for
\* its rivals.
LEMMA InsertLeaves ==
  ASSUME IInv, NEW p \in Requests, NEW r \in Requests, r # p, Found(r),
         NEW j \in InviteIds, InsertInvite(p, j)
  PROVE  Found(r)'
<1>1. /\ call'[r] = call[r]
      /\ UNCHANGED <<now, members>>
      /\ \A i \in InviteIds : Exists(i) => invites'[i] = invites[i]
  BY DEF InsertInvite, Finish, IInv, TypeOK
<1> QED
  BY <1>1, NamedRows DEF Found, IsMember, HasRow, Overdue

LEMMA AcceptLeaves ==
  ASSUME IInv, NEW p \in Requests, NEW r \in Requests, r # p, Found(r),
         AcceptInvite(p), ~Undoes(call[p], call[r])
  PROVE  Found(r)'
<1> DEFINE c == call[p]
<1>1. /\ c.step = "join"
      /\ call'[r] = call[r]
      /\ UNCHANGED now
      /\ now \in Nat
  BY DEF AcceptInvite, Finish, IInv, TypeOK
<1>2. CASE UNCHANGED <<invites, members>>
  <2>1. call[r].step = "join" => ~Overdue(call[r].invite)'
    BY <1>1, <1>2 DEF Found, Overdue
  <2> QED
    BY <1>1, <1>2, <2>1, FoundStays
<1>3. CASE /\ ~HasRow(c.user)
           /\ invites' = [invites EXCEPT ![c.invite].status = "ACCEPTED",
                                         ![c.invite].accepted = TRUE]
           /\ members' = [members EXCEPT ![c.user] =
                            [role |-> "MEMBER", removed |-> FALSE]]
  <2>1. \A i \in InviteIds : Exists(i) =>
          /\ i # c.invite => invites'[i] = invites[i]
          /\ invites'[i].expiresAt = invites[i].expiresAt
    BY <1>1, <1>3, NamedRows DEF Invite, IInv, TypeOK
  <2>2. \A u \in Users : u # c.user => members'[u] = members[u]
    BY <1>3 DEF IInv, TypeOK
  <2>3. \A u \in Users : IsMember(u) => u # c.user
    BY <1>3 DEF IsMember
  <2> QED
    BY <1>1, <2>1, <2>2, <2>3, NamedRows DEF Found, Undoes, IsMember, HasRow, Overdue
<1> QED
  BY <1>2, <1>3 DEF AcceptInvite

LEMMA ExpireLeaves ==
  ASSUME IInv, NEW p \in Requests, NEW r \in Requests, r # p, Found(r),
         ExpireInvites(p), ~Undoes(call[p], call[r])
  PROVE  Found(r)'
<1>1. /\ call[p].step = "expire"
      /\ call'[r] = call[r]
      /\ UNCHANGED <<now, members>>
  BY DEF ExpireInvites, Finish, IInv, TypeOK
<1>2. \A i \in InviteIds : Exists(i) =>
        /\ i \notin call[p].ids => invites'[i] = invites[i]
        /\ invites'[i].status \in {invites[i].status, "EXPIRED"}
        /\ invites'[i].email = invites[i].email
        /\ invites'[i].expiresAt = invites[i].expiresAt
        /\ invites'[i].lastRetryAt = invites[i].lastRetryAt
  BY NamedRows DEF ExpireInvites, Invite, IInv, TypeOK
<1> QED
  BY <1>1, <1>2, NamedRows DEF Found, Undoes, IsMember, HasRow, Overdue

LEMMA RevokeLeaves ==
  ASSUME IInv, NEW p \in Requests, NEW r \in Requests, r # p, Found(r),
         RevokeInvite(p), ~Undoes(call[p], call[r])
  PROVE  Found(r)'
<1>1. /\ call[p].step = "revoke"
      /\ call'[r] = call[r]
      /\ UNCHANGED <<now, members>>
  BY DEF RevokeInvite, Finish, IInv, TypeOK
<1>2. \A i \in InviteIds : Exists(i) =>
        /\ i # call[p].invite => invites'[i] = invites[i]
        /\ invites'[i].expiresAt = invites[i].expiresAt
  BY <1>1, NamedRows DEF RevokeInvite, Invite, IInv, TypeOK
<1> QED
  BY <1>1, <1>2, NamedRows DEF Found, Undoes, IsMember, HasRow, Overdue

LEMMA ReissueLeaves ==
  ASSUME IInv, NEW p \in Requests, NEW r \in Requests, r # p, Found(r),
         ReissueInvite(p), ~Undoes(call[p], call[r])
  PROVE  Found(r)'
<1>1. /\ call[p].step = "reissue"
      /\ call'[r] = call[r]
      /\ UNCHANGED <<now, members>>
  BY DEF ReissueInvite, Finish, IInv, TypeOK
<1>2. /\ \A i \in InviteIds : Exists(i) /\ i # call[p].invite => invites'[i] = invites[i]
      /\ invites'[call[p].invite].status = "PENDING"
  BY <1>1, NamedRows DEF ReissueInvite, Invite, IInv, TypeOK
<1> QED
  BY <1>1, <1>2, NamedRows DEF Found, Undoes, IsMember, HasRow, Overdue

LEMMA SetRoleLeaves ==
  ASSUME IInv, NEW p \in Requests, NEW r \in Requests, r # p, Found(r), SetRole(p)
  PROVE  Found(r)'
<1>1. /\ call'[r] = call[r]
      /\ UNCHANGED <<now, invites>>
      /\ call[p].step = "setRole"
  BY DEF SetRole, Finish, IInv, TypeOK
<1>2. call[p].user \in Users /\ HasRow(call[p].user) /\ call[p].role \in {"ADMIN", "MEMBER"}
  BY <1>1, CallFields DEF IInv, CallsInv, CallOK
<1>3. \A u \in Users :
        /\ members'[u].removed = members[u].removed
        /\ u # call[p].user => members'[u].role = members[u].role
        /\ u = call[p].user => members'[u].role = call[p].role
  BY <1>2 DEF SetRole, IInv, TypeOK, Member
<1>4. \A u \in Users : /\ IsMember(u) <=> HasRow(u)' /\ ~members'[u].removed
                       /\ members[u].role # "OWNER" => members'[u].role # "OWNER"
  BY <1>2, <1>3 DEF IsMember, HasRow
<1> QED
  BY <1>1, <1>4, NamedRows DEF Found, IsMember, HasRow, Overdue

LEMMA RemovalLeaves ==
  ASSUME IInv, NEW p \in Requests, NEW r \in Requests, r # p, Found(r),
         StampRemoval(p), ~Undoes(call[p], call[r])
  PROVE  Found(r)'
<1>1. /\ call'[r] = call[r]
      /\ UNCHANGED <<now, invites>>
      /\ call[p].step = "remove"
      /\ call[p].user \in Users
  BY NamedRows DEF StampRemoval, Finish, IInv, TypeOK
<1>2. \A u \in Users :
        /\ u # call[p].user => members'[u] = members[u]
        /\ members'[u].role = members[u].role
        /\ members[u].removed => members'[u].removed
  BY <1>1 DEF StampRemoval, IInv, TypeOK, Member
<1> QED
  BY <1>1, <1>2, NamedRows DEF Found, Undoes, IsMember, HasRow, Overdue

\* The only steps that make it untrue are a rival's write and, for an
\* acceptance, a tick past the life of the link.
LEMMA StepStale ==
  ASSUME IInv, [Next]_vars, NEW r \in Requests, Found(r), ~Found(r)'
  PROVE  \/ \E q \in Requests \ {r} : Undoes(call[q], call[r]) /\ call'[q] = Idle
         \/ call[r].step = "join" /\ now' > invites[call[r].invite].expiresAt
<1>1. ASSUME NEW p \in Requests, CountOwners(p)
      PROVE  FALSE
  <2>1. /\ \A s \in Requests \ {p} : call'[s] = call[s]
        /\ call'[p] = Idle \/ call'[p] = [call[p] EXCEPT !.step = "remove"]
        /\ UNCHANGED <<now, invites, members>>
        /\ now \in Nat /\ call[p] \in Call /\ call[p].step = "countOwners"
    BY <1>1 DEF CountOwners, IInv, TypeOK
  <2>2. r = p /\ call'[p] = [call[p] EXCEPT !.step = "remove"]
    <3>1. call'[r] = call[r] /\ call[r].step = "join" => ~Overdue(call[r].invite)'
      BY <2>1 DEF Found, Overdue
    <3> QED
      BY <2>1, <3>1, IdleFound, FoundStays
  <2>3. call'[r].step = "remove" /\ call'[r].user = call[r].user
    BY <2>1, <2>2 DEF Call, Idle
  <2> QED
    BY <2>1, <2>2, <2>3 DEF Found, IsMember, HasRow
<1>2. CASE UNCHANGED vars \/ Tick \/ \E t \in Tokens : SendMail(t)
  <2>1. /\ call' = call
        /\ UNCHANGED <<invites, members>>
        /\ now \in Nat /\ now' \in Nat /\ now' >= now
    BY <1>2 DEF vars, Tick, SendMail, IInv, TypeOK
  <2>2. call[r].step = "join" /\ Overdue(call[r].invite)'
    BY <2>1, FoundStays
  <2> QED
    BY <2>1, <2>2 DEF Overdue
<1>3. ~Restart
  BY IdleFound DEF Restart
<1>4. ASSUME NEW p \in Requests, InviteRequest(p) \/ MemberRequest(p)
      PROVE  /\ p \in Requests \ {r}
             /\ Undoes(call[p], call[r])
             /\ call'[p] = Idle
  <2>1. \/ \E i \in InviteIds : InsertInvite(p, i)
        \/ AcceptInvite(p) \/ ExpireInvites(p) \/ RevokeInvite(p) \/ ReissueInvite(p)
        \/ SetRole(p) \/ StampRemoval(p)
    BY <1>1, <1>4, ReadsFound DEF InviteRequest, MemberRequest
  <2>2. call'[p] = Idle
    BY <2>1 DEF InsertInvite, AcceptInvite, ExpireInvites, RevokeInvite, ReissueInvite,
       SetRole, StampRemoval, Finish, IInv, TypeOK
  <2>3. p # r
    BY <2>2, IdleFound
  <2> QED
    BY <2>1, <2>2, <2>3, InsertLeaves, AcceptLeaves, ExpireLeaves, RevokeLeaves,
       ReissueLeaves, SetRoleLeaves, RemovalLeaves
<1> QED
  BY <1>2, <1>3, <1>4 DEF Next

(* What a request has checked is made untrue, before it writes, only by    *)
(* the write of a rival on the same invite or member or, for an            *)
(* acceptance, by the end of the link's life.                              *)
THEOREM OnlyRivalsMakeStale == Spec => StaleByRivalsOnly
<1>1. IInv /\ [Next]_vars =>
        [\A r \in Requests : Found(r) /\ ~Found(r)' =>
           \/ \E q \in Requests \ {r} : Undoes(call[q], call[r]) /\ call'[q] = Idle
           \/ call[r].step = "join" /\ now' > invites[call[r].invite].expiresAt]_vars
  BY StepStale
<1> QED
  BY <1>1, Invariance, PTL DEF Spec, StaleByRivalsOnly

\* One request at a time finds the tables as it left them, but for an acceptance
\* that time may overtake.
AloneOK == \A r \in Requests : call[r].step # "join" => Found(r)

LEMMA AloneFound ==
  ASSUME \A r, s \in Requests : r = s
  PROVE  Spec => []AloneOK
<1>1. Init => AloneOK
  BY DEF Init, AloneOK, Found, Idle
<1>2. ASSUME IInv, AloneOK, [Next]_vars, NEW r \in Requests, call'[r].step # "join"
      PROVE  Found(r)'
  <2>1. CASE call[r].step # "join"
    BY <1>2, <2>1, StepStale DEF AloneOK
  <2>2. CASE call[r].step = "join"
    <3>1. ~UNCHANGED vars /\ ~Tick /\ ~\E t \in Tokens : SendMail(t)
      BY <1>2, <2>2 DEF vars, Tick, SendMail
    <3>2. CASE Restart
      BY <3>2, IdleFound DEF Restart
    <3>3. CASE InviteRequest(r) \/ MemberRequest(r)
      <4>1. AcceptInvite(r)
        BY <2>2, <3>3 DEF InviteRequest, MemberRequest, CreateInvite, InsertInvite,
           FindByToken, Accept, ListInvites, ExpireInvites, Revoke, RevokeInvite,
           RetryInvite, ReissueInvite, UpdateMemberRole, SetRole, RemoveMember,
           CountOwners, StampRemoval, Begin, Idle
      <4>2. call'[r] = Idle
        BY <1>2, <4>1 DEF AcceptInvite, Finish, IInv, TypeOK
      <4> QED
        BY <4>2, IdleFound
    <3> QED
      BY <1>2, <3>1, <3>2, <3>3 DEF Next
  <2> QED
    BY <2>1, <2>2
<1>3. IInv /\ AloneOK /\ [Next]_vars => AloneOK'
  BY <1>2 DEF AloneOK
<1> QED
  BY <1>1, <1>3, Invariance, PTL DEF Spec

LEMMA StepAlone ==
  ASSUME IInv, AloneOK, [Next]_vars, NEW i \in InviteIds,
         invites'[i] # invites[i]
  PROVE  /\ Exists(i) /\ invites[i].lastRetryAt # Never /\ invites'[i].token # invites[i].token
              => invites'[i].lastRetryAt - invites[i].lastRetryAt >= RetryWait
         /\ invites[i].status # "EXPIRED" /\ invites'[i].status = "EXPIRED" => Overdue(i)
<1> USE DEF IInv, TypeOK
<1>0. Exists(i) => invites[i] \in Invite
  BY DEF Exists, NoInvite
<1>1. ASSUME NEW r \in Requests, NEW j \in InviteIds, InsertInvite(r, j)
      PROVE  ~Exists(i) /\ invites'[i].status = "PENDING"
  BY <1>1 DEF InsertInvite
<1>2. ASSUME NEW r \in Requests, ReissueInvite(r)
      PROVE  /\ invites[i].lastRetryAt # Never =>
                  invites'[i].lastRetryAt - invites[i].lastRetryAt >= RetryWait
             /\ invites'[i].status = "PENDING"
  <2>1. call[r].invite \in InviteIds /\ Exists(call[r].invite) /\ i = call[r].invite
    BY <1>2, CallFields DEF ReissueInvite, CallsInv, CallOK
  <2>2. /\ invites'[i].lastRetryAt = call[r].retryAt
        /\ invites'[i].status = "PENDING"
    BY <1>0, <1>2, <2>1 DEF ReissueInvite, Invite
  <2> QED
    BY <1>2, <2>1, <2>2 DEF AloneOK, Found, ReissueInvite
<1>3. ASSUME NEW r \in Requests, AcceptInvite(r) \/ RevokeInvite(r)
      PROVE  invites'[i].token = invites[i].token /\ invites'[i].status # "EXPIRED"
  <2>1. call[r].invite \in InviteIds /\ Exists(call[r].invite) /\ i = call[r].invite
    BY <1>3, CallFields DEF AcceptInvite, RevokeInvite, CallsInv, CallOK
  <2> QED
    BY <1>0, <1>3, <2>1 DEF AcceptInvite, RevokeInvite, Invite
<1>4. ASSUME NEW r \in Requests, ExpireInvites(r)
      PROVE  invites'[i].token = invites[i].token /\ Overdue(i)
  <2>1. i \in call[r].ids /\ invites'[i] = [invites[i] EXCEPT !.status = "EXPIRED"]
    BY <1>4 DEF ExpireInvites
  <2>2. Exists(i)
    BY <1>4, <2>1 DEF ExpireInvites, CallsInv, CallOK
  <2>3. Overdue(i)
    BY <1>4, <2>1 DEF ExpireInvites, AloneOK, Found
  <2> QED
    BY <1>0, <2>1, <2>2, <2>3 DEF Invite
<1>5. \E r \in Requests : InviteRequest(r)
  BY DEF Next, vars, MemberRequest, UpdateMemberRole, SetRole, RemoveMember, CountOwners,
     StampRemoval, SendMail, Restart, Tick, Begin
<1> QED
  BY <1>1, <1>2, <1>3, <1>4, <1>5 DEF InviteRequest, CreateInvite, FindByToken, Accept,
     ListInvites, Revoke, RetryInvite, Begin

(* Two retries closer than the wait, which the code does not exclude, take *)
(* two requests at once: with one at a time the wait is kept.              *)
THEOREM AloneRetriesApart ==
  ASSUME \A r, s \in Requests : r = s
  PROVE  Spec => RetriesApart
<1>1. IInv /\ AloneOK /\ [Next]_vars =>
        [\A i \in InviteIds :
           /\ Exists(i)
           /\ invites[i].lastRetryAt # Never
           /\ invites'[i].token # invites[i].token
           => invites'[i].lastRetryAt - invites[i].lastRetryAt >= RetryWait]_vars
  BY StepAlone
<1> QED
  BY <1>1, AloneFound, Invariance, PTL DEF Spec, RetriesApart

(* An invite that is marked EXPIRED though its link is not overdue takes   *)
(* two requests at once as well.                                           *)
THEOREM AloneOverdueExpire ==
  ASSUME \A r, s \in Requests : r = s
  PROVE  Spec => OnlyOverdueExpire
<1>1. IInv /\ AloneOK /\ [Next]_vars =>
        [\A i \in InviteIds :
           invites[i].status # "EXPIRED" /\ invites'[i].status = "EXPIRED" => Overdue(i)]_vars
  BY StepAlone
<1> QED
  BY <1>1, AloneFound, Invariance, PTL DEF Spec, OnlyOverdueExpire
=============================================================================

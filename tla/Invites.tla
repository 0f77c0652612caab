------------------------------ MODULE Invites -------------------------------
(***************************************************************************)
(* The invitations and the members of one organization: invites.service,   *)
(* the member operations of organizations.service, the two repositories    *)
(* they write through and the listener that mails the links.               *)
(*                                                                         *)
(* One Node process serves the requests.  A handler runs without           *)
(* interruption between two awaits and every repository call is one        *)
(* statement or one transaction, so a request is two steps: the read, with *)
(* the checks and the values computed from it, and the write it decided    *)
(* on, which commits later and whatever happened in between.  A refused    *)
(* request changes nothing and is a stuttering step.                       *)
(*                                                                         *)
(* An account is identified with its e-mail address (users.email is        *)
(* unique).  No handler touches two organizations: one is modelled, its    *)
(* founder already a member.                                               *)
(***************************************************************************)
EXTENDS Integers, FiniteSets

CONSTANTS
  Users,        \* accounts
  Founder,      \* the account that created the organization
  InviteIds,    \* primary keys of organization_invite
  Tokens,       \* what randomBytes(32) can return: never twice the same
  Requests,     \* requests (or listeners) that can be in flight at once
  InviteTTL,    \* life of a link, 7 days in the code
  RetryWait,    \* least time between two retries, 1 hour in the code
  MaxTime       \* bound of the clock

ASSUME FounderIsUser == Founder \in Users
ASSUME TimesAreNat ==
  InviteTTL \in Nat /\ RetryWait \in Nat \ {0} /\ MaxTime \in Nat

VARIABLES
  now,          \* the server's clock
  invites,      \* the table organization_invite
  members,      \* the rows of user_organization for this organization
  call,         \* call[r]: the write request r has decided on
  issued,       \* the tokens generated so far
  outbox,       \* the tokens of e-mails handed to the listener
  mailed        \* the tokens of e-mails that were sent

vars == <<now, invites, members, call, issued, outbox, mailed>>

-----------------------------------------------------------------------------
\* The rows.  A row is never deleted; an unused key holds NoInvite.
Statuses == {"PENDING", "ACCEPTED", "EXPIRED", "REVOKED"}
Never == -1
Invite == [email : Users, token : Tokens, status : Statuses, expiresAt : Nat,
           lastRetryAt : Nat \cup {Never}, accepted : BOOLEAN]
NoInvite == [status |-> "NONE"]

Roles == {"OWNER", "ADMIN", "MEMBER"}
Member == [role : Roles \cup {"NONE"}, removed : BOOLEAN]
NoMember == [role |-> "NONE", removed |-> FALSE]

Exists(i) == invites[i].status # "NONE"
HasRow(u) == members[u].role # "NONE"

\* dayjs().isAfter(invite.expiresAt): the last instant still counts.
Overdue(i) == now > invites[i].expiresAt

\* emailIsMember and findMember skip the rows a removal has stamped.
IsMember(u) == HasRow(u) /\ ~members[u].removed

Owners == {u \in Users : IsMember(u) /\ members[u].role = "OWNER"}

-----------------------------------------------------------------------------
\* What a request still has to write.
Idle == [step |-> "idle"]
Call ==
       {Idle}
  \cup [step : {"insert"}, email : Users, token : Tokens, expiresAt : Nat]
  \cup [step : {"join"}, invite : InviteIds, user : Users]
  \cup [step : {"expire"}, ids : SUBSET InviteIds]
  \cup [step : {"revoke"}, invite : InviteIds]
  \cup [step : {"reissue"}, invite : InviteIds, token : Tokens,
        expiresAt : Nat, retryAt : Nat]
  \cup [step : {"setRole"}, user : Users, role : {"ADMIN", "MEMBER"}]
  \cup [step : {"countOwners", "remove"}, user : Users]

TypeOK ==
  /\ now \in Nat
  /\ invites \in [InviteIds -> Invite \cup {NoInvite}]
  /\ members \in [Users -> Member]
  /\ call \in [Requests -> Call]
  /\ issued \subseteq Tokens
  /\ outbox \subseteq Tokens
  /\ mailed \subseteq Tokens

Init ==
  /\ now = 0
  /\ invites = [i \in InviteIds |-> NoInvite]
  /\ members = [u \in Users |->
                  IF u = Founder THEN [role |-> "OWNER", removed |-> FALSE]
                                 ELSE NoMember]
  /\ call = [r \in Requests |-> Idle]
  /\ issued = {}
  /\ outbox = {}
  /\ mailed = {}

\* The read step of a request: it changes no table.
Begin(r, c) ==
  /\ call[r] = Idle
  /\ call' = [call EXCEPT ![r] = c]
  /\ UNCHANGED <<now, invites, members, outbox, mailed>>

\* The write step ends the request.
Finish(r) == call' = [call EXCEPT ![r] = Idle]

-----------------------------------------------------------------------------
\* Mutant: who has been invited before gets the same link again.
MutantReuseToken(r, u, t) ==
  /\ ~IsMember(u)
  /\ \/ t \notin issued
     \/ \E i \in InviteIds : Exists(i) /\ invites[i].email = u /\ invites[i].token = t
  /\ issued' = issued \cup {t}
  /\ Begin(r, [step |-> "insert", email |-> u, token |-> t,
               expiresAt |-> now + InviteTTL])

(* POST /invites.  Role and expiry are fixed at the check; the row is      *)
(* inserted later.                                                         *)
CreateInvite(r, u, t) ==
  /\ ~IsMember(u)
  /\ t \notin issued
  /\ issued' = issued \cup {t}
  /\ Begin(r, [step |-> "insert", email |-> u, token |-> t,
               expiresAt |-> now + InviteTTL])

InsertInvite(r, i) ==
  /\ call[r].step = "insert"
  /\ ~Exists(i)
  /\ invites' = [invites EXCEPT ![i] =
       [email |-> call[r].email, token |-> call[r].token, status |-> "PENDING",
        expiresAt |-> call[r].expiresAt, lastRetryAt |-> Never,
        accepted |-> FALSE]]
  /\ outbox' = outbox \cup {call[r].token}
  /\ Finish(r)
  /\ UNCHANGED <<now, members, issued, mailed>>

(* GET /invites/:token, public.  Whoever opens an overdue link has the     *)
(* invite marked EXPIRED, before its status is looked at.  The token may   *)
(* come from the e-mail or from the answer to POST /invites.               *)
FindByToken(r, i) ==
  /\ Exists(i)
  /\ Overdue(i)
  /\ Begin(r, [step |-> "expire", ids |-> {i}])
  /\ UNCHANGED issued

(* POST /invites/:token/accept by user u. *)
Accept(r, u, i) ==
  /\ Exists(i)
  /\ \/ /\ Overdue(i)
        /\ Begin(r, [step |-> "expire", ids |-> {i}])
     \/ /\ ~Overdue(i)
        /\ invites[i].email = u
        /\ invites[i].status = "PENDING"
        /\ Begin(r, [step |-> "join", invite |-> i, user |-> u])
  /\ UNCHANGED issued

\* Mutant: the two writes of the acceptance are not one transaction.
MutantNoRollback(r) ==
  LET c == call[r] IN
  /\ c.step = "join"
  /\ invites' = [invites EXCEPT ![c.invite].status = "ACCEPTED",
                                ![c.invite].accepted = TRUE]
  /\ members' = IF HasRow(c.user)
                  THEN members
                  ELSE [members EXCEPT ![c.user] =
                          [role |-> "MEMBER", removed |-> FALSE]]
  /\ Finish(r)
  /\ UNCHANGED <<now, issued, outbox, mailed>>

\* Mutant: the row is upserted, so that a removed member is let in again.
MutantUpsert(r) ==
  LET c == call[r] IN
  /\ c.step = "join"
  /\ ~IsMember(c.user)
  /\ invites' = [invites EXCEPT ![c.invite].status = "ACCEPTED",
                                ![c.invite].accepted = TRUE]
  /\ members' = [members EXCEPT ![c.user] = [role |-> "MEMBER", removed |-> FALSE]]
  /\ Finish(r)
  /\ UNCHANGED <<now, issued, outbox, mailed>>

(* acceptInvite's transaction.  The unique key (userId, organizationId)    *)
(* makes it roll back when the user ever had a row.                        *)
AcceptInvite(r) ==
  LET c == call[r] IN
  /\ c.step = "join"
  /\ \/ /\ ~HasRow(c.user)
        /\ invites' = [invites EXCEPT ![c.invite].status = "ACCEPTED",
                                      ![c.invite].accepted = TRUE]
        /\ members' = [members EXCEPT ![c.user] =
                         [role |-> "MEMBER", removed |-> FALSE]]
     \/ /\ HasRow(c.user)
        /\ UNCHANGED <<invites, members>>
  /\ Finish(r)
  /\ UNCHANGED <<now, issued, outbox, mailed>>

(* GET /organizations/:id/invites.  The overdue pending rows it read are   *)
(* sent to the listener of invite.expired, which has them updated by key.  *)
ListInvites(r) ==
  LET late == {i \in InviteIds : /\ Exists(i)
                                 /\ invites[i].status = "PENDING"
                                 /\ Overdue(i)}
  IN /\ late # {}
     /\ Begin(r, [step |-> "expire", ids |-> late])
     /\ UNCHANGED issued

\* Mutant: the condition of the update is the organization alone.
MutantExpireAll(r) ==
  /\ call[r].step = "expire"
  /\ invites' = [i \in InviteIds |->
                   IF Exists(i) THEN [invites[i] EXCEPT !.status = "EXPIRED"]
                                ELSE invites[i]]
  /\ Finish(r)
  /\ UNCHANGED <<now, members, issued, outbox, mailed>>

\* update and bulkExpire: by key, whatever the status is by now.
ExpireInvites(r) ==
  /\ call[r].step = "expire"
  /\ invites' = [i \in InviteIds |->
                   IF i \in call[r].ids
                     THEN [invites[i] EXCEPT !.status = "EXPIRED"]
                     ELSE invites[i]]
  /\ Finish(r)
  /\ UNCHANGED <<now, members, issued, outbox, mailed>>

(* DELETE /invites/:id *)
Revoke(r, i) ==
  /\ Exists(i)
  /\ invites[i].status = "PENDING"
  /\ Begin(r, [step |-> "revoke", invite |-> i])
  /\ UNCHANGED issued

\* Mutant: a status the InviteStatus enum does not have.
MutantStatus(r) ==
  /\ call[r].step = "revoke"
  /\ invites' = [invites EXCEPT ![call[r].invite].status = "CANCELED"]
  /\ Finish(r)
  /\ UNCHANGED <<now, members, issued, outbox, mailed>>

RevokeInvite(r) ==
  /\ call[r].step = "revoke"
  /\ invites' = [invites EXCEPT ![call[r].invite].status = "REVOKED"]
  /\ Finish(r)
  /\ UNCHANGED <<now, members, issued, outbox, mailed>>

\* diff(lastRetryAt, 'hour') < 1 refuses the request.
RetryAllowed(i) ==
  \/ invites[i].lastRetryAt = Never
  \/ now - invites[i].lastRetryAt >= RetryWait

\* Mutant: the retry mails the token the row already has.
MutantSameToken(r, i, t) ==
  /\ Exists(i)
  /\ invites[i].status \notin {"REVOKED", "ACCEPTED"}
  /\ RetryAllowed(i)
  /\ t = invites[i].token
  /\ UNCHANGED issued
  /\ Begin(r, [step |-> "reissue", invite |-> i, token |-> t,
               expiresAt |-> now + InviteTTL, retryAt |-> now])

(* POST /invites/:id/retry *)
RetryInvite(r, i, t) ==
  /\ Exists(i)
  /\ invites[i].status \notin {"REVOKED", "ACCEPTED"}
  /\ RetryAllowed(i)
  /\ t \notin issued
  /\ issued' = issued \cup {t}
  /\ Begin(r, [step |-> "reissue", invite |-> i, token |-> t,
               expiresAt |-> now + InviteTTL, retryAt |-> now])

ReissueInvite(r) ==
  LET c == call[r] IN
  /\ c.step = "reissue"
  /\ invites' = [invites EXCEPT ![c.invite] =
       [@ EXCEPT !.token = c.token, !.expiresAt = c.expiresAt,
                 !.status = "PENDING", !.lastRetryAt = c.retryAt]]
  /\ outbox' = outbox \cup {c.token}
  /\ Finish(r)
  /\ UNCHANGED <<now, members, issued, mailed>>

-----------------------------------------------------------------------------
\* Mutant: the owner's role can be changed like any other.
MutantAnyRole(r, u, role) ==
  /\ IsMember(u)
  /\ Begin(r, [step |-> "setRole", user |-> u, role |-> role])
  /\ UNCHANGED issued

(* PATCH /organizations/:id/members/:userId/role; the DTO admits ADMIN and *)
(* MEMBER.                                                                 *)
UpdateMemberRole(r, u, role) ==
  /\ IsMember(u)
  /\ members[u].role # "OWNER"
  /\ Begin(r, [step |-> "setRole", user |-> u, role |-> role])
  /\ UNCHANGED issued

SetRole(r) ==
  /\ call[r].step = "setRole"
  /\ members' = [members EXCEPT ![call[r].user].role = call[r].role]
  /\ Finish(r)
  /\ UNCHANGED <<now, invites, issued, outbox, mailed>>

(* DELETE /organizations/:id/members/:userId.  An owner's removal counts   *)
(* the owners first, in a query of its own.                                *)
RemoveMember(r, u) ==
  /\ IsMember(u)
  /\ Begin(r, [step |-> IF members[u].role = "OWNER" THEN "countOwners"
                                                     ELSE "remove",
               user |-> u])
  /\ UNCHANGED issued

\* Mutant: the last owner counts as one too many.
MutantCountOff(r) ==
  /\ call[r].step = "countOwners"
  /\ call' = [call EXCEPT ![r] = IF Cardinality(Owners) < 1
                                   THEN Idle
                                   ELSE [@ EXCEPT !.step = "remove"]]
  /\ UNCHANGED <<now, invites, members, issued, outbox, mailed>>

CountOwners(r) ==
  /\ call[r].step = "countOwners"
  /\ call' = [call EXCEPT ![r] = IF Cardinality(Owners) <= 1
                                   THEN Idle
                                   ELSE [@ EXCEPT !.step = "remove"]]
  /\ UNCHANGED <<now, invites, members, issued, outbox, mailed>>

StampRemoval(r) ==
  /\ call[r].step = "remove"
  /\ members' = [members EXCEPT ![call[r].user].removed = TRUE]
  /\ Finish(r)
  /\ UNCHANGED <<now, invites, issued, outbox, mailed>>

-----------------------------------------------------------------------------
\* The listener's sendText; the provider may refuse, and nobody tries again.
SendMail(t) ==
  /\ t \in outbox
  /\ outbox' = outbox \ {t}
  /\ \/ mailed' = mailed \cup {t}
     \/ UNCHANGED mailed
  /\ UNCHANGED <<now, invites, members, call, issued>>

\* A restart of the process loses the requests in flight and the e-mails not
\* yet sent; the tables stay.
Restart ==
  /\ call' = [r \in Requests |-> Idle]
  /\ outbox' = {}
  /\ UNCHANGED <<now, invites, members, issued, mailed>>

Tick ==
  /\ now < MaxTime
  /\ now' = now + 1
  /\ UNCHANGED <<invites, members, call, issued, outbox, mailed>>

InviteRequest(r) ==
  \/ \E u \in Users, t \in Tokens : CreateInvite(r, u, t)
  \/ \E i \in InviteIds : InsertInvite(r, i)
  \/ \E i \in InviteIds : FindByToken(r, i)
  \/ \E u \in Users, i \in InviteIds : Accept(r, u, i)
  \/ AcceptInvite(r)
  \/ ListInvites(r)
  \/ ExpireInvites(r)
  \/ \E i \in InviteIds : Revoke(r, i)
  \/ RevokeInvite(r)
  \/ \E i \in InviteIds, t \in Tokens : RetryInvite(r, i, t)
  \/ ReissueInvite(r)

MemberRequest(r) ==
  \/ \E u \in Users, role \in {"ADMIN", "MEMBER"} : UpdateMemberRole(r, u, role)
  \/ SetRole(r)
  \/ \E u \in Users : RemoveMember(r, u)
  \/ CountOwners(r)
  \/ StampRemoval(r)

Next ==
  \/ \E r \in Requests : InviteRequest(r) \/ MemberRequest(r)
  \/ \E t \in Tokens : SendMail(t)
  \/ Restart
  \/ Tick

Spec == Init /\ [][Next]_vars

\* What the process owes a request it has begun: the query it awaits returns.
Commit(r) ==
  \/ \E i \in InviteIds : InsertInvite(r, i)
  \/ AcceptInvite(r) \/ ExpireInvites(r) \/ RevokeInvite(r) \/ ReissueInvite(r)
  \/ SetRole(r) \/ CountOwners(r) \/ StampRemoval(r)

FairSpec == Spec /\ \A r \in Requests : WF_vars(Commit(r))

-----------------------------------------------------------------------------
(* SoleOwner: at any time the founder is the one active owner.  The role   *)
(* change and the removal check the role in one step and write in a later  *)
(* one; no two requests in flight may add up to an organization without    *)
(* an owner, or with two.  A role that is asked for is ADMIN or MEMBER.    *)
SoleOwner == Owners = {Founder}

\* The invites whose acceptance by u was committed (accepted_at is set).
AcceptedBy(u) ==
  {i \in InviteIds : Exists(i) /\ invites[i].email = u /\ invites[i].accepted}

(* JoinedByOneInvite: everybody but the founder has a row in the members   *)
(* table exactly if one invite addressed to him was accepted, and never    *)
(* two; the founder needs none.  An acceptance and its row stand or fall   *)
(* together, whatever is accepted twice, retried, revoked or expired       *)
(* meanwhile, and a restart leaves no half of it.                          *)
JoinedByOneInvite ==
  /\ \A u \in Users \ {Founder} : HasRow(u) <=> AcceptedBy(u) # {}
  /\ \A u \in Users : \A i, j \in AcceptedBy(u) : i = j
  /\ AcceptedBy(Founder) = {}

\* The tokens that requests in flight have generated and not yet written.
TokenHolders == {r \in Requests : call[r].step \in {"insert", "reissue"}}

(* LinksUnique: a link opens at most one invite, and no e-mail carries a   *)
(* token before the row that answers to it is committed: a token still in  *)
(* the hands of a request is in no row and in no e-mail, and no other      *)
(* request holds it.                                                       *)
LinksUnique ==
  /\ \A i, j \in InviteIds :
       Exists(i) /\ Exists(j) /\ invites[i].token = invites[j].token => i = j
  /\ \A r \in TokenHolders :
       /\ call[r].token \notin outbox \cup mailed
       /\ \A i \in InviteIds : Exists(i) => invites[i].token # call[r].token
       /\ \A s \in TokenHolders : call[s].token = call[r].token => s = r

(* ReplacedLinksStayDead: a link that a retry has replaced opens nothing   *)
(* from then on, nor does one whose request was cut short: what is in no   *)
(* row and in no request's hands never comes back, whoever still has it in *)
(* a mailbox.                                                              *)
Carried(t) ==
  \/ \E i \in InviteIds : Exists(i) /\ invites[i].token = t
  \/ \E r \in TokenHolders : call[r].token = t
ReplacedLinksStayDead ==
  [][\A t \in issued :
       /\ ~Carried(t) => ~Carried(t)'
       /\ \A i \in InviteIds :
            Exists(i) /\ invites[i].token = t /\ invites'[i].token # t
              => ~Carried(t)']_vars

(* RemovalIsFinal: a removed member is never active again, not even        *)
(* through an invite sent and opened after the removal, and a row never    *)
(* leaves the table.                                                       *)
RowsKept ==
  \A u \in Users : HasRow(u) =>
    /\ HasRow(u)'
    /\ members[u].removed => members'[u].removed
RemovalIsFinal == [][RowsKept]_vars

\* What the read step of request r has checked, asked of the tables of now.
Found(r) ==
  LET c == call[r] IN
  /\ c.step = "insert" => ~IsMember(c.email)
  /\ c.step \in {"setRole", "countOwners", "remove"} => IsMember(c.user)
  /\ c.step = "setRole" => members[c.user].role # "OWNER"
  /\ c.step \in {"join", "revoke"} => invites[c.invite].status = "PENDING"
  /\ c.step = "join" => invites[c.invite].email = c.user /\ ~Overdue(c.invite)
  /\ c.step = "expire" => \A i \in c.ids : Overdue(i)
  /\ c.step = "reissue" =>
       /\ invites[c.invite].status \notin {"REVOKED", "ACCEPTED"}
       /\ \/ invites[c.invite].lastRetryAt = Never
          \/ c.retryAt - invites[c.invite].lastRetryAt >= RetryWait

\* The rivals of a request c: the writes d that decide against what it found.
Undoes(d, c) ==
  \/ c.step = "insert" /\ d.step = "join" /\ d.user = c.email
  \/ /\ c.step \in {"setRole", "countOwners", "remove"}
     /\ d.step = "remove" /\ d.user = c.user
  \/ /\ c.step \in {"join", "revoke", "reissue"}
     /\ d.step \in {"join", "revoke"} /\ d.invite = c.invite
  \/ c.step \in {"join", "revoke"} /\ d.step = "expire" /\ c.invite \in d.ids
  \/ c.step \in {"join", "reissue"} /\ d.step = "reissue" /\ d.invite = c.invite
  \/ c.step = "expire" /\ d.step = "reissue" /\ d.invite \in c.ids

(* StaleByRivalsOnly: what a request checked is made untrue, before it     *)
(* writes, only by the write of a rival, on the same invite or member (for *)
(* an acceptance also by the clock, past the life of the link): a role     *)
(* change by a removal of that member alone, the expiry of a list by a     *)
(* retry of one that is on it, a retry by an acceptance, a revocation or   *)
(* another retry.  Nothing done to other invites and members, no refusal,  *)
(* no mail and no reading gets in its way.                                 *)
StaleByRivalsOnly ==
  [][\A r \in Requests : Found(r) /\ ~Found(r)' =>
       \/ \E q \in Requests \ {r} : Undoes(call[q], call[r]) /\ call'[q] = Idle
       \/ call[r].step = "join" /\ now' > invites[call[r].invite].expiresAt]_vars

(* RetriesApart, which the code does not keep: two retries of an invite    *)
(* that both went through are RetryWait apart.                             *)
RetriesApart ==
  [][\A i \in InviteIds :
       /\ Exists(i)
       /\ invites[i].lastRetryAt # Never
       /\ invites'[i].token # invites[i].token
       => invites'[i].lastRetryAt - invites[i].lastRetryAt >= RetryWait]_vars

(* OnlyOverdueExpire, which the code does not keep: an invite is marked    *)
(* EXPIRED only when its link is overdue.                                  *)
OnlyOverdueExpire ==
  [][\A i \in InviteIds :
       invites[i].status # "EXPIRED" /\ invites'[i].status = "EXPIRED" => Overdue(i)]_vars

(* RevokedStaysClosed, which the code does not keep: once revoked, an      *)
(* invite is never open or accepted again.                                 *)
RevokedStaysClosed ==
  \A i \in InviteIds :
    [](invites[i].status = "REVOKED"
         => [](invites[i].status \notin {"PENDING", "ACCEPTED"}))

\* The users some invite was addressed to.
Invited == {invites[i].email : i \in {j \in InviteIds : Exists(j)}}

(* ImplementsMembership: seen through its members table alone, the system  *)
(* does what Membership promises: in only by invitation, once, and the     *)
(* founder's ownership untouched.                                          *)
Promise == INSTANCE Membership WITH invited <- Invited
ImplementsMembership == Promise!Spec
=============================================================================

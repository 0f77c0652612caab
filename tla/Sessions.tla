------------------------------ MODULE Sessions ------------------------------
(***************************************************************************)
(* The sessions of one account: sign-in, refresh, sign-out and the check   *)
(* every other request starts with (auth.service, auth.controller and      *)
(* jwt-auth.guard).                                                        *)
(*                                                                         *)
(* A device keeps two JWTs in cookies.  A session row holds the refresh    *)
(* token it was last given.  Between two queries of a request the clock    *)
(* moves and other requests run, those of the same device included; and a  *)
(* request may end without an answer at any of them.                       *)
(*                                                                         *)
(* RS256 is deterministic: a refresh token is what its payload is, the     *)
(* second it was signed in (iat) and the organizations of the account as   *)
(* the request read them.  Two requests of one second may get one token.   *)
(***************************************************************************)
EXTENDS Integers, FiniteSets

CONSTANTS
  Devices,     \* browsers the account is used from
  SessionIds,  \* primary keys of session
  Payloads,    \* what the organizations in a payload can be
  Requests,    \* requests that can be in flight at once
  Second,      \* ticks of the clock in a second, the grain of iat
  AccessTTL,   \* ACCESS_TOKEN_EXPIRES_IN, in ticks
  RefreshTTL,  \* REFRESH_TOKEN_EXPIRES_IN, in ticks
  MaxLatency,  \* what a request takes at most, far less than a token's life
  MaxTime      \* bound of the clock

ASSUME TimesAreNat ==
  /\ Second \in Nat \ {0} /\ MaxTime \in Nat
  /\ AccessTTL \in Nat /\ RefreshTTL \in Nat /\ MaxLatency \in Nat
ASSUME TablesAreFinite == IsFiniteSet(SessionIds)
ASSUME RequestsAreShort == MaxLatency + Second <= RefreshTTL

VARIABLES
  now,       \* the server's clock
  sessions,  \* the table session
  jars,      \* jars[d]: the cookies of device d
  call       \* call[r]: what request r does next

vars == <<now, sessions, jars, call>>

-----------------------------------------------------------------------------
(* Tokens.  Both of a pair are signed together, so one iat is kept.        *)
iat == now - (now % Second)
Token == [iat : Nat, organizations : Payloads]
NoToken == [iat |-> -1]

\* verifyAsync: the token is good up to, not at, its exp.
Verifies(token, ttl) == token.iat >= 0 /\ now < token.iat + ttl

\* A row is not removed from the model, so that its key is not used again.
\* "created" numbers the rows in the order of createdAt.
Row == [token : Token, expiresAt : Nat, created : Nat \ {0}, ended : BOOLEAN]
NoRow == [created |-> 0]

Used == {s \in SessionIds : sessions[s].created # 0}
Live == {s \in Used : ~sessions[s].ended}
Expired(s) == sessions[s].expiresAt < now

\* session.refresh_token is unique.
HolderOf(token) == {s \in Live : sessions[s].token = token}

\* Requests, with the time they came in at.
Idle == [step |-> "idle"]
Call ==
       {Idle}
  \cup [step : {"store", "answer", "verified"}, at : Nat, device : Devices, token : Token]
  \cup [step : {"cleanup", "update"}, at : Nat, device : Devices, token : Token,
        id : SessionIds]
  \cup [step : {"signOut", "signedOut"}, at : Nat, device : Devices]

TypeOK ==
  /\ now \in Nat
  /\ sessions \in [SessionIds -> Row \cup {NoRow}]
  /\ jars \in [Devices -> Token \cup {NoToken}]
  /\ call \in [Requests -> Call]

Init ==
  /\ now = 0
  /\ sessions = [s \in SessionIds |-> NoRow]
  /\ jars = [d \in Devices |-> NoToken]
  /\ call = [r \in Requests |-> Idle]

Proceed(r, c) == call' = [call EXCEPT ![r] = c]

\* The tokens are on their way to the device.
Answer(r) ==
  Proceed(r, [step |-> "answer", at |-> call[r].at, device |-> call[r].device,
              token |-> call[r].token])

-----------------------------------------------------------------------------
(* POST /auth/sign-in: the password is right and the tokens are signed;    *)
(* the row is stored later, unless its token is another row's.             *)
SignIn(r, d) ==
  /\ call[r] = Idle
  /\ \E o \in Payloads :
       Proceed(r, [step |-> "store", at |-> now, device |-> d,
                   token |-> [iat |-> iat, organizations |-> o]])
  /\ UNCHANGED <<now, sessions, jars>>

\* Mutant: the row is written without its token.
MutantNoToken(r, s) ==
  /\ call[r].step = "store"
  /\ s \notin Used
  /\ sessions' = [sessions EXCEPT ![s] =
       [token |-> NoToken, expiresAt |-> now + RefreshTTL,
        created |-> Cardinality(Used) + 1, ended |-> FALSE]]
  /\ Answer(r)
  /\ UNCHANGED <<now, jars>>

CreateSession(r, s) ==
  /\ call[r].step = "store"
  /\ s \notin Used
  /\ HolderOf(call[r].token) = {}
  /\ sessions' = [sessions EXCEPT ![s] =
       [token |-> call[r].token, expiresAt |-> now + RefreshTTL,
        created |-> Cardinality(Used) + 1, ended |-> FALSE]]
  /\ Answer(r)
  /\ UNCHANGED <<now, jars>>

\* The cookies reach the device, whatever it has stored since.
SetCookies(r) ==
  /\ call[r].step = "answer"
  /\ jars' = [jars EXCEPT ![call[r].device] = call[r].token]
  /\ Proceed(r, Idle)
  /\ UNCHANGED <<now, sessions>>

-----------------------------------------------------------------------------
(* POST /auth/refresh: the token is verified, its row looked up, and then  *)
(* the row is updated by its key, or cleaned up by its token.              *)
RefreshToken(r, d) ==
  /\ call[r] = Idle
  /\ Verifies(jars[d], RefreshTTL)
  /\ Proceed(r, [step |-> "verified", at |-> now, device |-> d, token |-> jars[d]])
  /\ UNCHANGED <<now, sessions, jars>>

With(r, step, s, token) ==
  [step |-> step, at |-> call[r].at, device |-> call[r].device,
   token |-> token, id |-> s]

GetSession(r) ==
  /\ call[r].step = "verified"
  /\ \E s \in HolderOf(call[r].token) :
       \/ /\ Expired(s)
          /\ Proceed(r, With(r, "cleanup", s, call[r].token))
       \/ /\ ~Expired(s)
          /\ \E o \in Payloads :
               Proceed(r, With(r, "update", s, [iat |-> iat, organizations |-> o]))
  /\ UNCHANGED <<now, sessions, jars>>

\* Mutant: the clean-up deletes the row by its key.
MutantByKey(r) ==
  /\ call[r].step = "cleanup"
  /\ call[r].id \in Live
  /\ sessions' = [sessions EXCEPT ![call[r].id].ended = TRUE]
  /\ Proceed(r, Idle)
  /\ UNCHANGED <<now, jars>>

DeleteExpired(r) ==
  /\ call[r].step = "cleanup"
  /\ \E s \in HolderOf(call[r].token) :
       sessions' = [sessions EXCEPT ![s].ended = TRUE]
  /\ Proceed(r, Idle)
  /\ UNCHANGED <<now, jars>>

\* Mutant: the new token does not renew the session.
MutantSameExpiry(r) ==
  /\ call[r].step = "update"
  /\ call[r].id \in Live
  /\ HolderOf(call[r].token) \subseteq {call[r].id}
  /\ sessions' = [sessions EXCEPT ![call[r].id].token = call[r].token]
  /\ Answer(r)
  /\ UNCHANGED <<now, jars>>

\* Mutant: the row is upserted.
MutantUpsert(r) ==
  /\ call[r].step = "update"
  /\ HolderOf(call[r].token) \subseteq {call[r].id}
  /\ sessions' = [sessions EXCEPT ![call[r].id] =
       [@ EXCEPT !.token = call[r].token, !.expiresAt = now + RefreshTTL, !.ended = FALSE]]
  /\ Answer(r)
  /\ UNCHANGED <<now, jars>>

UpdateSession(r) ==
  /\ call[r].step = "update"
  /\ call[r].id \in Live
  /\ HolderOf(call[r].token) \subseteq {call[r].id}
  /\ sessions' = [sessions EXCEPT ![call[r].id] =
       [@ EXCEPT !.token = call[r].token, !.expiresAt = now + RefreshTTL]]
  /\ Answer(r)
  /\ UNCHANGED <<now, jars>>

-----------------------------------------------------------------------------
(* extractUserFromAccessToken: the session that is asked for is the newest *)
(* of the account, not the one of the device.                              *)
Newest == {s \in Live : \A t \in Live : sessions[t].created <= sessions[s].created}

Admitted(d) ==
  /\ Verifies(jars[d], AccessTTL)
  /\ \E s \in Newest : ~Expired(s)

(* DELETE /auth/sign-out: all the account's rows go. *)
SignOut(r, d) ==
  /\ call[r] = Idle
  /\ Admitted(d)
  /\ Proceed(r, [step |-> "signOut", at |-> now, device |-> d])
  /\ UNCHANGED <<now, sessions, jars>>

Logout(r) ==
  /\ call[r].step = "signOut"
  /\ sessions' = [s \in SessionIds |->
                    IF s \in Live THEN [sessions[s] EXCEPT !.ended = TRUE]
                                  ELSE sessions[s]]
  /\ Proceed(r, [call[r] EXCEPT !.step = "signedOut"])
  /\ UNCHANGED <<now, jars>>

ClearCookies(r) ==
  /\ call[r].step = "signedOut"
  /\ jars' = [jars EXCEPT ![call[r].device] = NoToken]
  /\ Proceed(r, Idle)
  /\ UNCHANGED <<now, sessions>>

-----------------------------------------------------------------------------
\* A request ends where it stands: a refusal, a query that failed, an answer
\* that was lost, a restart of the process.
Drop(r) ==
  /\ call[r] # Idle
  /\ Proceed(r, Idle)
  /\ UNCHANGED <<now, sessions, jars>>

Tick ==
  /\ now < MaxTime
  /\ \A r \in Requests : call[r] # Idle => now < call[r].at + MaxLatency
  /\ now' = now + 1
  /\ UNCHANGED <<sessions, jars, call>>

Next ==
  \/ \E r \in Requests, d \in Devices :
       SignIn(r, d) \/ RefreshToken(r, d) \/ SignOut(r, d)
  \/ \E r \in Requests, s \in SessionIds : CreateSession(r, s)
  \/ \E r \in Requests :
       \/ SetCookies(r)
       \/ GetSession(r)
       \/ DeleteExpired(r)
       \/ UpdateSession(r)
       \/ Logout(r)
       \/ ClearCookies(r)
       \/ Drop(r)
  \/ Tick

Spec == Init /\ [][Next]_vars

-----------------------------------------------------------------------------
(* RowsOutliveTokens: a session does not expire before the refresh token   *)
(* it holds, however late the row was written after the signing.           *)
RowsOutliveTokens ==
  \A s \in Live : sessions[s].token.iat + RefreshTTL <= sessions[s].expiresAt

(* EndsByLogout: a session that has not expired ends only with all the     *)
(* others, by a logout; the clean-up of a refresh that found its row       *)
(* expired never takes one that another refresh has renewed meanwhile.     *)
EndsByLogout ==
  [][\A s \in Live : sessions'[s].ended /\ ~Expired(s) =>
       \A t \in Used : sessions'[t].ended]_vars

(* EndedStaysEnded: a session that was ended does not come back, whatever  *)
(* refresh was under way when it was.                                      *)
EndedStaysEnded ==
  [][\A s \in Used \ Live : sessions'[s] = sessions[s]]_vars

(* RenewalNotCutShort: the clean-up is under way only for a token that is  *)
(* no longer good, though it was when the request came in: a refresh that  *)
(* still could go through is never answered by the end of its session.     *)
RenewalNotCutShort ==
  \A r \in Requests :
    call[r].step = "cleanup" => ~Verifies(call[r].token, RefreshTTL)

(* ImplementsLogins: whatever requests overlap, a session is opened once,  *)
(* lives its time from the last renewal, and ends when that is over or by  *)
(* a logout of all.                                                        *)
L == INSTANCE Logins WITH
       logins <- [s \in SessionIds |->
         [state |-> IF s \in Live THEN "open"
                    ELSE IF s \in Used THEN "closed" ELSE "unopened",
          until |-> IF s \in Used THEN sessions[s].expiresAt ELSE 0]]
ImplementsLogins == L!Spec

(* LiveDeviceAdmitted, which the code does not keep: a device whose access *)
(* token is good and whose session has not expired is let in.              *)
LiveDeviceAdmitted ==
  \A d \in Devices, s \in Live :
    /\ Verifies(jars[d], AccessTTL)
    /\ sessions[s].token = jars[d]
    /\ ~Expired(s)
    => Admitted(d)
=============================================================================

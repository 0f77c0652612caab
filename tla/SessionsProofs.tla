--------------------------- MODULE SessionsProofs ---------------------------
(***************************************************************************)
(* Theorems about Sessions, for every set of devices, sessions, payloads   *)
(* and requests and all lives of the tokens that are longer than a request *)
(* by at least a second.                                                   *)
(*                                                                         *)
(* EndsByLogout needs an argument about time.  A clean-up is by token.  It *)
(* is safe because the token was good when the request came in, so it was  *)
(* signed a whole token's life ago, and a request that could still write   *)
(* that token into another row would have been running since then.         *)
(***************************************************************************)
EXTENDS Sessions, FiniteSetTheorems, TLAPS

TokensUnique ==
  \A s, t \in Live : sessions[s].token = sessions[t].token => s = t

\* What a request in flight may rely on.
Timely(c) == c.step # "idle" => c.at <= now /\ now <= c.at + MaxLatency

Fresh(c) ==
  c.step \in {"store", "update"} =>
    c.token.iat <= now /\ c.at < c.token.iat + Second

Doomed(c) ==
  c.step = "cleanup" =>
    /\ c.token.iat + RefreshTTL < now
    /\ \A s \in Live : sessions[s].token = c.token => Expired(s)

CallOK(c) == Timely(c) /\ Fresh(c) /\ Doomed(c)

CallsInv == \A r \in Requests : CallOK(call[r])

IInv == TypeOK /\ RowsOutliveTokens /\ TokensUnique /\ CallsInv

-----------------------------------------------------------------------------
LEMMA IatBounds ==
  ASSUME now \in Nat
  PROVE  iat \in Nat /\ iat <= now /\ now < iat + Second
<1>1. now % Second \in 0..(Second - 1)
  BY TimesAreNat
<1>2. now % Second <= now
  BY TimesAreNat
<1> QED
  BY <1>1, <1>2, TimesAreNat DEF iat

LEMMA RowFields ==
  ASSUME TypeOK, NEW s \in Used
  PROVE  /\ sessions[s] \in Row
         /\ sessions[s].token \in Token
         /\ sessions[s].token.iat \in Nat
         /\ sessions[s].expiresAt \in Nat
BY DEF TypeOK, Used, Row, NoRow, Token

LEMMA CallFields ==
  ASSUME TypeOK, NEW r \in Requests
  PROVE  /\ call[r].step # "idle" =>
              call[r].at \in Nat /\ call[r].device \in Devices
         /\ call[r].step \in {"store", "answer", "verified", "cleanup", "update"} =>
              call[r].token \in Token /\ call[r].token.iat \in Nat
         /\ call[r].step \in {"cleanup", "update"} => call[r].id \in SessionIds
BY DEF TypeOK, Call, Idle, Token

LEMMA CountTyped == Cardinality(Used) + 1 \in Nat \ {0}
<1>1. IsFiniteSet(Used)
  BY TablesAreFinite, FS_Subset DEF Used
<1> QED
  BY <1>1, FS_CardinalityType

\* A step that leaves clock and rows alone only has to justify its own call.
LEMMA ProceedInv ==
  ASSUME IInv, NEW r \in Requests, NEW c \in Call, Proceed(r, c),
         CallOK(c), UNCHANGED <<now, sessions>>,
         jars' \in [Devices -> Token \cup {NoToken}]
  PROVE  IInv'
<1> USE DEF IInv
<1>1. TypeOK'
  BY DEF TypeOK, Proceed
<1>2. Live' = Live /\ Used' = Used
  BY DEF Live, Used
<1>3. RowsOutliveTokens' /\ TokensUnique'
  BY <1>2 DEF RowsOutliveTokens, TokensUnique
<1>4. CallsInv'
  <2> SUFFICES ASSUME NEW q \in Requests PROVE CallOK(call[q])'
    BY DEF CallsInv
  <2>1. call'[q] = c \/ call'[q] = call[q]
    BY DEF Proceed, TypeOK
  <2> QED
    BY <1>2, <2>1 DEF CallsInv, CallOK, Timely, Fresh, Doomed, Expired
<1> QED
  BY <1>1, <1>3, <1>4

\* The idle call is in order.
LEMMA IdleOK == Idle \in Call /\ CallOK(Idle)
BY DEF Idle, Call, CallOK, Timely, Fresh, Doomed

LEMMA InitInv == Init => IInv
<1> SUFFICES ASSUME Init PROVE IInv
  OBVIOUS
<1>1. TypeOK
  BY DEF Init, TypeOK, Call
<1>2. Live = {}
  BY DEF Init, Live, Used, NoRow
<1> QED
  BY <1>1, <1>2, IdleOK DEF Init, IInv, RowsOutliveTokens, TokensUnique, CallsInv

-----------------------------------------------------------------------------
LEMMA SignInInv ==
  ASSUME IInv, NEW r \in Requests, NEW d \in Devices, SignIn(r, d)
  PROVE  IInv'
<1> USE DEF IInv, TypeOK
<1>1. PICK o \in Payloads :
        Proceed(r, [step |-> "store", at |-> now, device |-> d,
                    token |-> [iat |-> iat, organizations |-> o]])
  BY DEF SignIn
<1> DEFINE c == [step |-> "store", at |-> now, device |-> d,
                 token |-> [iat |-> iat, organizations |-> o]]
<1>2. c \in Call
  BY IatBounds DEF Call, Token
<1>3. CallOK(c)
  BY IatBounds, TimesAreNat DEF CallOK, Timely, Fresh, Doomed
<1> QED
  BY <1>1, <1>2, <1>3, ProceedInv DEF SignIn

LEMMA RefreshTokenInv ==
  ASSUME IInv, NEW r \in Requests, NEW d \in Devices, RefreshToken(r, d)
  PROVE  IInv'
<1> USE DEF IInv, TypeOK
<1> DEFINE c == [step |-> "verified", at |-> now, device |-> d, token |-> jars[d]]
<1>1. jars[d] \in Token
  BY DEF RefreshToken, Verifies, NoToken
<1>2. c \in Call
  BY <1>1 DEF Call
<1>3. CallOK(c)
  BY TimesAreNat DEF CallOK, Timely, Fresh, Doomed
<1> QED
  BY <1>2, <1>3, ProceedInv DEF RefreshToken

LEMMA SignOutInv ==
  ASSUME IInv, NEW r \in Requests, NEW d \in Devices, SignOut(r, d)
  PROVE  IInv'
<1> USE DEF IInv, TypeOK
<1> DEFINE c == [step |-> "signOut", at |-> now, device |-> d]
<1>1. c \in Call
  BY DEF Call
<1>2. CallOK(c)
  BY TimesAreNat DEF CallOK, Timely, Fresh, Doomed
<1> QED
  BY <1>1, <1>2, ProceedInv DEF SignOut

LEMMA GetSessionInv ==
  ASSUME IInv, NEW r \in Requests, GetSession(r)
  PROVE  IInv'
<1> USE DEF IInv
<1>1. PICK s \in HolderOf(call[r].token) :
        \/ Expired(s) /\ Proceed(r, With(r, "cleanup", s, call[r].token))
        \/ \E o \in Payloads :
             Proceed(r, With(r, "update", s, [iat |-> iat, organizations |-> o]))
  BY DEF GetSession
<1>2. /\ s \in Live /\ s \in SessionIds /\ s \in Used
      /\ sessions[s].token = call[r].token
  BY <1>1 DEF HolderOf, Live, Used
<1>3. call[r].step = "verified" /\ Timely(call[r])
  BY DEF GetSession, CallsInv, CallOK
<1>4. /\ call[r].at \in Nat /\ call[r].device \in Devices
      /\ call[r].token \in Token /\ call[r].token.iat \in Nat
  BY <1>3, CallFields
<1>5. CASE Expired(s) /\ Proceed(r, With(r, "cleanup", s, call[r].token))
  <2> DEFINE c == With(r, "cleanup", s, call[r].token)
  <2>1. c \in Call
    BY <1>2, <1>4 DEF With, Call
  <2>2. /\ c.step = "cleanup" /\ c.at = call[r].at /\ c.token = call[r].token
    BY DEF With
  <2>3. c.token.iat + RefreshTTL < now
    BY <1>2, <1>4, <1>5, <2>2, RowFields, TimesAreNat
       DEF RowsOutliveTokens, Expired, TypeOK
  <2>4. \A t \in Live : sessions[t].token = c.token => Expired(t)
    BY <1>2, <1>5, <2>2 DEF TokensUnique
  <2>5. CallOK(c)
    BY <1>3, <2>2, <2>3, <2>4 DEF CallOK, Timely, Fresh, Doomed
  <2> HIDE DEF c
  <2> QED
    BY <1>5, <2>1, <2>5, ProceedInv DEF GetSession, TypeOK, c
<1>6. ASSUME NEW o \in Payloads,
             Proceed(r, With(r, "update", s, [iat |-> iat, organizations |-> o]))
      PROVE  IInv'
  <2> DEFINE c == With(r, "update", s, [iat |-> iat, organizations |-> o])
  <2>1. c \in Call
    BY <1>2, <1>4, IatBounds DEF With, Call, Token, TypeOK
  <2>2. /\ c.step = "update" /\ c.at = call[r].at
        /\ c.token.iat = iat
    BY DEF With
  <2>3. c.at <= now
    BY <1>3, <2>2 DEF Timely
  <2>4. CallOK(c)
    BY <1>3, <1>4, <2>2, <2>3, IatBounds, TimesAreNat
       DEF CallOK, Timely, Fresh, Doomed, TypeOK
  <2> HIDE DEF c
  <2> QED
    BY <1>6, <2>1, <2>4, ProceedInv DEF GetSession, TypeOK, c
<1> QED
  BY <1>1, <1>5, <1>6

LEMMA SetCookiesInv ==
  ASSUME IInv, NEW r \in Requests, SetCookies(r)
  PROVE  IInv'
<1>1. call[r].device \in Devices /\ call[r].token \in Token
  BY CallFields DEF SetCookies, IInv
<1>2. jars' \in [Devices -> Token \cup {NoToken}]
  BY <1>1 DEF SetCookies, IInv, TypeOK
<1> QED
  BY <1>2, IdleOK, ProceedInv DEF SetCookies

LEMMA ClearCookiesInv ==
  ASSUME IInv, NEW r \in Requests, ClearCookies(r)
  PROVE  IInv'
<1>1. jars' \in [Devices -> Token \cup {NoToken}]
  BY DEF ClearCookies, IInv, TypeOK
<1> QED
  BY <1>1, IdleOK, ProceedInv DEF ClearCookies

LEMMA DropInv ==
  ASSUME IInv, NEW r \in Requests, Drop(r)
  PROVE  IInv'
BY IdleOK, ProceedInv DEF Drop, IInv, TypeOK

\* Time only makes the expired more so, and waits for slow requests.
LEMMA TickInv ==
  ASSUME IInv, Tick
  PROVE  IInv'
<1> USE DEF IInv, Tick
<1>1. TypeOK'
  BY DEF TypeOK
<1>2. Live' = Live /\ Used' = Used
  BY DEF Live, Used
<1>3. RowsOutliveTokens' /\ TokensUnique'
  BY <1>2 DEF RowsOutliveTokens, TokensUnique
<1>4. CallsInv'
  <2> SUFFICES ASSUME NEW q \in Requests PROVE CallOK(call[q])'
    BY DEF CallsInv
  <2>1. CallOK(call[q])
    BY DEF CallsInv
  <2>2. Timely(call[q])'
    BY <2>1, CallFields, TimesAreNat DEF CallOK, Timely, TypeOK, Idle
  <2>3. Fresh(call[q])'
    BY <2>1, CallFields DEF CallOK, Fresh, TypeOK
  <2>4. Doomed(call[q])'
    BY <1>2, <2>1, CallFields, RowFields, TimesAreNat
       DEF CallOK, Doomed, Expired, TypeOK, Live
  <2> QED
    BY <2>2, <2>3, <2>4 DEF CallOK
<1> QED
  BY <1>1, <1>3, <1>4

-----------------------------------------------------------------------------
\* A step that writes rows has to show that no clean-up is misled by it.
LEMMA WriteInv ==
  ASSUME IInv, NEW r \in Requests, NEW c \in Call, Proceed(r, c),
         c.step \notin {"store", "update", "cleanup"}, Timely(c), now' = now,
         sessions' \in [SessionIds -> Row \cup {NoRow}],
         jars' \in [Devices -> Token \cup {NoToken}],
         RowsOutliveTokens', TokensUnique',
         \A q \in Requests, s \in Live' :
           call[q].step = "cleanup" /\ sessions'[s].token = call[q].token =>
             Expired(s)'
  PROVE  IInv'
<1> USE DEF IInv
<1>1. TypeOK'
  BY DEF TypeOK, Proceed
<1>2. CallsInv'
  <2> SUFFICES ASSUME NEW q \in Requests PROVE CallOK(call[q])'
    BY DEF CallsInv
  <2>1. CASE call'[q] = c
    BY <2>1 DEF CallOK, Timely, Fresh, Doomed
  <2>2. CASE call'[q] = call[q]
    BY <2>2 DEF CallsInv, CallOK, Timely, Fresh, Doomed
  <2>3. call'[q] = c \/ call'[q] = call[q]
    BY DEF Proceed, TypeOK
  <2> QED
    BY <2>1, <2>2, <2>3
<1> QED
  BY <1>1, <1>2

\* A token about to be written is younger than any that is being cleaned up.
LEMMA NotDoomed ==
  ASSUME IInv, NEW r \in Requests, NEW q \in Requests,
         call[r].step \in {"store", "update"}, call[q].step = "cleanup"
  PROVE  call[r].token # call[q].token
<1>1. /\ call[r].token.iat \in Nat /\ call[q].token.iat \in Nat
      /\ call[r].at \in Nat /\ now \in Nat
  BY CallFields DEF IInv, TypeOK
<1>2. /\ now <= call[r].at + MaxLatency
      /\ call[r].at < call[r].token.iat + Second
      /\ call[q].token.iat + RefreshTTL < now
  BY DEF IInv, CallsInv, CallOK, Timely, Fresh, Doomed
<1>3. call[q].token.iat < call[r].token.iat
  BY <1>1, <1>2, TimesAreNat, RequestsAreShort
<1> QED
  BY <1>1, <1>3

LEMMA CreateSessionInv ==
  ASSUME IInv, NEW r \in Requests, NEW s \in SessionIds, CreateSession(r, s)
  PROVE  IInv'
<1> USE DEF IInv
<1> DEFINE new == [token |-> call[r].token, expiresAt |-> now + RefreshTTL,
                   created |-> Cardinality(Used) + 1, ended |-> FALSE]
<1>1. /\ call[r].step = "store" /\ s \notin Used
      /\ HolderOf(call[r].token) = {}
      /\ sessions' = [sessions EXCEPT ![s] = new]
      /\ now' = now /\ jars' = jars
      /\ Answer(r)
  BY DEF CreateSession
<1>2. /\ call[r].token \in Token /\ call[r].token.iat \in Nat
      /\ call[r].at \in Nat /\ call[r].device \in Devices
  BY <1>1, CallFields
<1>3. new \in Row
  BY <1>2, CountTyped, TimesAreNat DEF Row, TypeOK
<1>4. sessions' \in [SessionIds -> Row \cup {NoRow}]
  BY <1>1, <1>3 DEF TypeOK
<1> HIDE DEF new
<1>5. Live' = Live \cup {s} /\ s \notin Live
  <2>1. new.created # 0 /\ ~new.ended
    BY CountTyped DEF new
  <2> QED
    BY <1>1, <2>1 DEF Live, Used, TypeOK
<1>6. /\ sessions'[s].token = call[r].token /\ sessions'[s].expiresAt = now + RefreshTTL
      /\ \A t \in Live : t \in SessionIds /\ sessions'[t] = sessions[t]
  BY <1>1, <1>5 DEF new, TypeOK, Live, Used
<1>7. RowsOutliveTokens'
  <2>1. call[r].token.iat <= now
    BY <1>1 DEF CallsInv, CallOK, Fresh
  <2> QED
    BY <1>2, <1>5, <1>6, <2>1, TimesAreNat DEF RowsOutliveTokens, TypeOK
<1>8. TokensUnique'
  BY <1>1, <1>5, <1>6 DEF TokensUnique, HolderOf
<1>9. ASSUME NEW q \in Requests, NEW t \in Live',
             call[q].step = "cleanup", sessions'[t].token = call[q].token
      PROVE  Expired(t)'
  <2>1. t # s
    BY <1>1, <1>6, <1>9, NotDoomed
  <2> QED
    BY <1>1, <1>5, <1>6, <1>9, <2>1 DEF CallsInv, CallOK, Doomed, Expired
<1> DEFINE c == [step |-> "answer", at |-> call[r].at, device |-> call[r].device,
                 token |-> call[r].token]
<1>10. c \in Call
  BY <1>2 DEF Call
<1>11. Timely(c)
  BY <1>1 DEF CallsInv, CallOK, Timely
<1> QED
  BY <1>1, <1>4, <1>7, <1>8, <1>9, <1>10, <1>11, WriteInv DEF TypeOK, Answer

LEMMA UpdateSessionInv ==
  ASSUME IInv, NEW r \in Requests, UpdateSession(r)
  PROVE  IInv'
<1> USE DEF IInv
<1> DEFINE i == call[r].id
           new == [sessions[i] EXCEPT !.token = call[r].token,
                                      !.expiresAt = now + RefreshTTL]
<1>1. /\ call[r].step = "update" /\ i \in Live
      /\ HolderOf(call[r].token) \subseteq {i}
      /\ sessions' = [sessions EXCEPT ![i] = new]
      /\ now' = now /\ jars' = jars
      /\ Answer(r)
  BY DEF UpdateSession
<1>2. /\ call[r].token \in Token /\ call[r].token.iat \in Nat
      /\ call[r].at \in Nat /\ call[r].device \in Devices
      /\ i \in SessionIds /\ i \in Used
  BY <1>1, CallFields DEF Live
<1>3. /\ new \in Row /\ new.token = call[r].token
      /\ new.expiresAt = now + RefreshTTL /\ ~new.ended /\ new.created # 0
  <2>1. sessions[i] \in Row /\ ~sessions[i].ended
    BY <1>1, <1>2, RowFields DEF Live
  <2>2. now + RefreshTTL \in Nat
    BY TimesAreNat DEF TypeOK
  <2> QED
    BY <1>2, <2>1, <2>2 DEF Row
<1> HIDE DEF new
<1>4. sessions' \in [SessionIds -> Row \cup {NoRow}]
  BY <1>1, <1>3 DEF TypeOK
<1>5. Live' = Live
  BY <1>1, <1>2, <1>3, <1>4 DEF Live, Used, TypeOK
<1>6. /\ sessions'[i] = new
      /\ \A t \in Live : t # i => sessions'[t] = sessions[t]
  BY <1>1, <1>2 DEF TypeOK, Live, Used
<1>7. RowsOutliveTokens'
  <2>1. call[r].token.iat <= now
    BY <1>1 DEF CallsInv, CallOK, Fresh
  <2> QED
    BY <1>2, <1>3, <1>5, <1>6, <2>1, TimesAreNat DEF RowsOutliveTokens, TypeOK
<1>8. TokensUnique'
  BY <1>1, <1>3, <1>5, <1>6 DEF TokensUnique, HolderOf
<1>9. ASSUME NEW q \in Requests, NEW t \in Live',
             call[q].step = "cleanup", sessions'[t].token = call[q].token
      PROVE  Expired(t)'
  <2>1. t # i
    BY <1>1, <1>3, <1>6, <1>9, NotDoomed
  <2> QED
    BY <1>1, <1>5, <1>6, <1>9, <2>1 DEF CallsInv, CallOK, Doomed, Expired
<1> DEFINE c == [step |-> "answer", at |-> call[r].at, device |-> call[r].device,
                 token |-> call[r].token]
<1>10. c \in Call
  BY <1>2 DEF Call
<1>11. Timely(c)
  BY <1>1 DEF CallsInv, CallOK, Timely
<1> QED
  BY <1>1, <1>4, <1>7, <1>8, <1>9, <1>10, <1>11, WriteInv DEF TypeOK, Answer

\* Rows that are ended mislead nobody.
LEMMA EndingInv ==
  ASSUME IInv, NEW r \in Requests, NEW c \in Call, Proceed(r, c),
         c.step \notin {"store", "update", "cleanup"}, Timely(c),
         now' = now, jars' = jars, NEW E \in SUBSET Live,
         sessions' = [s \in SessionIds |->
                        IF s \in E THEN [sessions[s] EXCEPT !.ended = TRUE]
                                   ELSE sessions[s]]
  PROVE  IInv'
<1> USE DEF IInv
<1>1. sessions' \in [SessionIds -> Row \cup {NoRow}]
  <2> SUFFICES ASSUME NEW s \in E
               PROVE  [sessions[s] EXCEPT !.ended = TRUE] \in Row
    BY DEF TypeOK
  <2> QED
    BY RowFields DEF Row, Live
<1>2. /\ Live' = Live \ E
      /\ \A s \in Live' : s \in Live /\ sessions'[s] = sessions[s]
  <2>1. \A s \in E : [sessions[s] EXCEPT !.ended = TRUE].ended
    BY RowFields DEF Row, Live
  <2> QED
    BY <2>1 DEF Live, Used
<1>3. RowsOutliveTokens' /\ TokensUnique'
  BY <1>2 DEF RowsOutliveTokens, TokensUnique
<1>4. \A q \in Requests, s \in Live' :
        call[q].step = "cleanup" /\ sessions'[s].token = call[q].token =>
          Expired(s)'
  BY <1>2 DEF CallsInv, CallOK, Doomed, Expired
<1> QED
  BY <1>1, <1>3, <1>4, WriteInv DEF TypeOK

LEMMA DeleteExpiredInv ==
  ASSUME IInv, NEW r \in Requests, DeleteExpired(r)
  PROVE  IInv'
<1>1. PICK s \in HolderOf(call[r].token) :
        sessions' = [sessions EXCEPT ![s].ended = TRUE]
  BY DEF DeleteExpired
<1>2. {s} \in SUBSET Live
  BY <1>1 DEF HolderOf
<1>3. sessions' = [t \in SessionIds |->
                     IF t \in {s} THEN [sessions[t] EXCEPT !.ended = TRUE]
                                  ELSE sessions[t]]
  BY <1>1 DEF IInv, TypeOK
<1> QED
  BY <1>2, <1>3, IdleOK, EndingInv DEF DeleteExpired, CallOK, Idle

LEMMA LogoutInv ==
  ASSUME IInv, NEW r \in Requests, Logout(r)
  PROVE  IInv'
<1> DEFINE c == [call[r] EXCEPT !.step = "signedOut"]
<1>1. /\ call[r] \in [step : {"signOut", "signedOut"}, at : Nat, device : Devices]
      /\ Timely(call[r]) /\ call[r].step = "signOut"
  BY DEF Logout, IInv, TypeOK, Call, Idle, CallsInv, CallOK
<1>2. c \in Call /\ c.step = "signedOut" /\ Timely(c)
  BY <1>1 DEF Call, Timely
<1> HIDE DEF c
<1> QED
  BY <1>2, EndingInv DEF Logout, c

-----------------------------------------------------------------------------
LEMMA NextInv == IInv /\ [Next]_vars => IInv'
<1> SUFFICES ASSUME IInv, [Next]_vars PROVE IInv'
  OBVIOUS
<1>1. ASSUME NEW r \in Requests, NEW d \in Devices,
             SignIn(r, d) \/ RefreshToken(r, d) \/ SignOut(r, d)
      PROVE  IInv'
  BY <1>1, SignInInv, RefreshTokenInv, SignOutInv
<1>2. ASSUME NEW r \in Requests, NEW s \in SessionIds, CreateSession(r, s)
      PROVE  IInv'
  BY <1>2, CreateSessionInv
<1>3. ASSUME NEW r \in Requests,
             \/ SetCookies(r) \/ GetSession(r) \/ DeleteExpired(r)
             \/ UpdateSession(r) \/ Logout(r) \/ ClearCookies(r) \/ Drop(r)
      PROVE  IInv'
  BY <1>3, SetCookiesInv, GetSessionInv, DeleteExpiredInv, UpdateSessionInv,
     LogoutInv, ClearCookiesInv, DropInv
<1>4. CASE Tick
  BY <1>4, TickInv
<1>5. CASE UNCHANGED vars
  <2>1. Live' = Live /\ Used' = Used
    BY <1>5 DEF vars, Live, Used
  <2> QED
    BY <1>5, <2>1 DEF vars, IInv, TypeOK, RowsOutliveTokens, TokensUnique,
       CallsInv, CallOK, Timely, Fresh, Doomed, Expired
<1> QED
  BY <1>1, <1>2, <1>3, <1>4, <1>5 DEF Next

(* Invariance: the inductive invariant holds in every state. *)
THEOREM Invariance == Spec => []IInv
BY InitInv, NextInv, PTL DEF Spec

(* TypeCorrect: every variable stays in its type. *)
THEOREM TypeCorrect == Spec => []TypeOK
<1>1. IInv => TypeOK
  BY DEF IInv
<1> QED
  BY <1>1, Invariance, PTL

(* SessionsOutliveTokens: no session expires before the token it holds, so *)
(* a refresh that verifies its token finds its row alive.                  *)
THEOREM SessionsOutliveTokens == Spec => []RowsOutliveTokens
<1>1. IInv => RowsOutliveTokens
  BY DEF IInv
<1> QED
  BY <1>1, Invariance, PTL

-----------------------------------------------------------------------------
\* A clean-up only takes rows that have expired.
LEMMA CleanupTakesExpired ==
  ASSUME IInv, NEW r \in Requests, DeleteExpired(r),
         NEW s \in Live, sessions'[s].ended
  PROVE  Expired(s)
<1>1. PICK t \in HolderOf(call[r].token) :
        sessions' = [sessions EXCEPT ![t].ended = TRUE]
  BY DEF DeleteExpired
<1>2. s = t
  BY <1>1 DEF Live, Used, IInv, TypeOK
<1> QED
  BY <1>1, <1>2 DEF DeleteExpired, HolderOf, IInv, CallsInv, CallOK, Doomed

EndsStep ==
  \A s \in Live : sessions'[s].ended /\ ~Expired(s) =>
    \A t \in Used : sessions'[t].ended

LEMMA StepEndsByLogout == IInv /\ [Next]_vars => [EndsStep]_vars
<1> SUFFICES ASSUME IInv, [Next]_vars, NEW s \in Live,
                    sessions'[s].ended, ~Expired(s), NEW t \in Used
             PROVE  sessions'[t].ended
  BY DEF EndsStep
<1>1. sessions[s] \in Row /\ ~sessions[s].ended /\ s \in SessionIds /\ s \in Used
  BY RowFields DEF Live, Used, IInv
<1>2. sessions' # sessions
  BY <1>1
<1>3. ASSUME NEW r \in Requests, NEW i \in SessionIds, CreateSession(r, i)
      PROVE  FALSE
  <2>1. i # s
    BY <1>1, <1>3 DEF CreateSession
  <2> QED
    BY <1>1, <1>3, <2>1 DEF CreateSession, IInv, TypeOK
<1>4. ASSUME NEW r \in Requests, UpdateSession(r)
      PROVE  FALSE
  BY <1>1, <1>4 DEF UpdateSession, IInv, TypeOK, Row
<1>5. ASSUME NEW r \in Requests, DeleteExpired(r)
      PROVE  FALSE
  BY <1>5, CleanupTakesExpired
<1>6. ASSUME NEW r \in Requests, Logout(r)
      PROVE  sessions'[t].ended
  <2>1. sessions[t] \in Row /\ t \in SessionIds
    BY RowFields DEF IInv, Used
  <2> QED
    BY <1>6, <2>1 DEF Logout, Live, Row
<1>7. ASSUME NEW r \in Requests, NEW d \in Devices,
             SignIn(r, d) \/ RefreshToken(r, d) \/ SignOut(r, d)
      PROVE  FALSE
  BY <1>2, <1>7 DEF SignIn, RefreshToken, SignOut
<1>8. ASSUME NEW r \in Requests,
             SetCookies(r) \/ GetSession(r) \/ ClearCookies(r) \/ Drop(r)
      PROVE  FALSE
  BY <1>2, <1>8 DEF SetCookies, GetSession, ClearCookies, Drop
<1> QED
  BY <1>2, <1>3, <1>4, <1>5, <1>6, <1>7, <1>8 DEF Next, Tick, vars

(* LiveSessionsEndByLogout: a session that has not expired ends only by a  *)
(* logout; a late clean-up never takes one that was renewed.               *)
THEOREM LiveSessionsEndByLogout == Spec => EndsByLogout
BY Invariance, StepEndsByLogout, PTL DEF Spec, EndsByLogout, EndsStep

\* No step writes a row that is ended.
LEMMA StepKeepsEnded ==
  IInv /\ [Next]_vars =>
    [\A s \in Used \ Live : sessions'[s] = sessions[s]]_vars
<1> SUFFICES ASSUME IInv, [Next]_vars, NEW s \in Used \ Live
             PROVE  sessions'[s] = sessions[s]
  OBVIOUS
<1>1. s \in SessionIds /\ s \in Used /\ s \notin Live
  BY DEF Used
<1>2. ASSUME NEW r \in Requests, NEW i \in SessionIds, CreateSession(r, i)
      PROVE  sessions'[s] = sessions[s]
  BY <1>1, <1>2 DEF CreateSession, IInv, TypeOK
<1>3. ASSUME NEW r \in Requests, UpdateSession(r)
      PROVE  sessions'[s] = sessions[s]
  BY <1>1, <1>3 DEF UpdateSession, IInv, TypeOK
<1>4. ASSUME NEW r \in Requests, DeleteExpired(r)
      PROVE  sessions'[s] = sessions[s]
  BY <1>1, <1>4 DEF DeleteExpired, HolderOf, IInv, TypeOK
<1>5. ASSUME NEW r \in Requests, Logout(r)
      PROVE  sessions'[s] = sessions[s]
  BY <1>1, <1>5 DEF Logout
<1>6. ASSUME NEW r \in Requests, NEW d \in Devices,
             SignIn(r, d) \/ RefreshToken(r, d) \/ SignOut(r, d)
      PROVE  sessions'[s] = sessions[s]
  BY <1>6 DEF SignIn, RefreshToken, SignOut
<1>7. ASSUME NEW r \in Requests,
             SetCookies(r) \/ GetSession(r) \/ ClearCookies(r) \/ Drop(r)
      PROVE  sessions'[s] = sessions[s]
  BY <1>7 DEF SetCookies, GetSession, ClearCookies, Drop
<1> QED
  BY <1>2, <1>3, <1>4, <1>5, <1>6, <1>7 DEF Next, Tick, vars

(* EndedForGood: a session that was ended is never written again, whatever *)
(* refresh was under way.                                                  *)
THEOREM EndedForGood == Spec => EndedStaysEnded
BY Invariance, StepKeepsEnded, PTL DEF Spec, EndedStaysEnded

(* RefreshesGoOn: a clean-up is only under way for a token that is no      *)
(* longer good; no refresh that could still be answered loses its session. *)
THEOREM RefreshesGoOn == Spec => []RenewalNotCutShort
<1>1. IInv => RenewalNotCutShort
  <2> SUFFICES ASSUME IInv, NEW r \in Requests, call[r].step = "cleanup"
               PROVE  ~Verifies(call[r].token, RefreshTTL)
    BY DEF RenewalNotCutShort
  <2>1. call[r].token.iat \in Nat /\ call[r].token.iat + RefreshTTL < now
    BY CallFields DEF IInv, CallsInv, CallOK, Doomed
  <2> QED
    BY <2>1, TimesAreNat DEF Verifies, IInv, TypeOK
<1> QED
  BY <1>1, Invariance, PTL

-----------------------------------------------------------------------------
(* Sessions implements Logins.  Requests, tokens and cookies are mapped to *)
(* nothing: only the steps that write a row, and the clock, are seen.      *)
Login(s) == [state |-> IF s \in Live THEN "open"
                       ELSE IF s \in Used THEN "closed" ELSE "unopened",
             until |-> IF s \in Used THEN sessions[s].expiresAt ELSE 0]

AllLogins == [s \in SessionIds |-> Login(s)]

LEMMA LoginFields ==
  ASSUME NEW s \in SessionIds
  PROVE  /\ s \notin Used => Login(s) = L!Unopened
         /\ s \in Live => Login(s) = [state |-> "open", until |-> sessions[s].expiresAt]
         /\ s \in Used \ Live =>
              Login(s) = [state |-> "closed", until |-> sessions[s].expiresAt]
         /\ Live \subseteq Used
BY DEF Login, L!Unopened, Live

\* A row that is not written is the same login as before.
LEMMA LoginStays ==
  ASSUME NEW s \in SessionIds, sessions'[s] = sessions[s]
  PROVE  Login(s)' = Login(s)
BY DEF Login, Live, Used

LEMMA OneLogin ==
  ASSUME NEW s \in SessionIds,
         \A t \in SessionIds \ {s} : sessions'[t] = sessions[t]
  PROVE  AllLogins' = [AllLogins EXCEPT ![s] = Login(s)']
BY LoginStays DEF AllLogins

LEMMA CreateSessionOpens ==
  ASSUME IInv, NEW r \in Requests, NEW s \in SessionIds, CreateSession(r, s)
  PROVE  L!Open(s)
<1>1. /\ s \notin Used
      /\ sessions'[s].expiresAt = now + RefreshTTL
      /\ sessions'[s].created # 0 /\ ~sessions'[s].ended
      /\ \A t \in SessionIds \ {s} : sessions'[t] = sessions[t]
      /\ now' = now
  BY CountTyped DEF CreateSession, IInv, TypeOK
<1>2. Login(s)' = L!Opened
  BY <1>1 DEF Login, Live, Used, L!Opened
<1>3. AllLogins[s] = L!Unopened
  BY <1>1, LoginFields DEF AllLogins
<1>4. AllLogins' = [AllLogins EXCEPT ![s] = L!Opened]
  BY <1>1, <1>2, OneLogin
<1> QED
  BY <1>1, <1>3, <1>4 DEF L!Open, AllLogins, Login

LEMMA UpdateSessionRenews ==
  ASSUME IInv, NEW r \in Requests, UpdateSession(r)
  PROVE  \E s \in SessionIds : L!Renew(s)
<1>1. PICK s \in SessionIds : s = call[r].id /\ s \in Live
  BY DEF UpdateSession, Live, Used
<1>2. /\ sessions'[s].expiresAt = now + RefreshTTL
      /\ sessions'[s].created # 0 /\ ~sessions'[s].ended
      /\ \A t \in SessionIds \ {s} : sessions'[t] = sessions[t]
      /\ now' = now
  BY <1>1, RowFields DEF UpdateSession, IInv, TypeOK, Row, Live, Used
<1>3. Login(s)' = L!Opened
  BY <1>2 DEF Login, Live, Used, L!Opened
<1>4. AllLogins[s].state = "open"
  BY <1>1, LoginFields DEF AllLogins
<1>5. AllLogins' = [AllLogins EXCEPT ![s] = L!Opened]
  BY <1>2, <1>3, OneLogin
<1> QED
  BY <1>2, <1>4, <1>5 DEF L!Renew, AllLogins, Login

LEMMA DeleteExpiredLapses ==
  ASSUME IInv, NEW r \in Requests, DeleteExpired(r)
  PROVE  \E s \in SessionIds : L!Lapse(s)
<1>1. PICK s \in HolderOf(call[r].token) :
        sessions' = [sessions EXCEPT ![s].ended = TRUE]
  BY DEF DeleteExpired
<1>2. s \in Live /\ s \in SessionIds /\ sessions[s] \in Row
  BY RowFields DEF HolderOf, Live, Used, IInv
<1>3. /\ sessions'[s].ended /\ sessions'[s].created # 0
      /\ sessions'[s].expiresAt = sessions[s].expiresAt
      /\ \A t \in SessionIds \ {s} : sessions'[t] = sessions[t]
      /\ now' = now
  BY <1>1, <1>2 DEF DeleteExpired, IInv, TypeOK, Row
<1>4. sessions[s].expiresAt < now
  BY <1>2, <1>3, CleanupTakesExpired DEF Expired
<1>5. AllLogins[s] = [state |-> "open", until |-> sessions[s].expiresAt]
  BY <1>2, LoginFields DEF AllLogins
<1>6. Login(s)' = [AllLogins[s] EXCEPT !.state = "closed"]
  BY <1>2, <1>3, <1>5 DEF Login, Live, Used
<1>7. AllLogins' = [AllLogins EXCEPT ![s].state = "closed"]
  BY <1>2, <1>3, <1>6, OneLogin DEF AllLogins
<1> QED
  BY <1>2, <1>3, <1>4, <1>5, <1>7 DEF L!Lapse, AllLogins, Login

LEMMA LogoutCloses ==
  ASSUME IInv, NEW r \in Requests, Logout(r)
  PROVE  L!CloseAll
<1>1. ASSUME NEW s \in SessionIds
      PROVE  Login(s)' = IF Login(s).state = "open"
                           THEN [Login(s) EXCEPT !.state = "closed"] ELSE Login(s)
  <2>1. CASE s \in Live
    <3>1. sessions[s] \in Row
      BY <2>1, RowFields DEF Live, IInv
    <3>2. /\ sessions'[s].ended /\ sessions'[s].created # 0
          /\ sessions'[s].expiresAt = sessions[s].expiresAt
      BY <2>1, <3>1 DEF Logout, Row
    <3>3. Login(s)' = [state |-> "closed", until |-> sessions[s].expiresAt]
      BY <3>2 DEF Login, Live, Used
    <3> QED
      BY <2>1, <3>3, LoginFields
  <2>2. CASE s \notin Live
    <3>1. Login(s)' = Login(s)
      BY <2>2, LoginStays DEF Logout
    <3> QED
      BY <2>2, <3>1 DEF Login
  <2> QED
    BY <2>1, <2>2
<1>2. AllLogins' = [s \in SessionIds |->
                      IF AllLogins[s].state = "open"
                        THEN [AllLogins[s] EXCEPT !.state = "closed"] ELSE AllLogins[s]]
  BY <1>1 DEF AllLogins
<1> QED
  BY <1>2 DEF Logout, L!CloseAll, AllLogins, Login

LEMMA StepSimulation == IInv /\ [Next]_vars => L!Next \/ UNCHANGED L!lVars
<1> SUFFICES ASSUME IInv, [Next]_vars PROVE L!Next \/ UNCHANGED L!lVars
  OBVIOUS
<1>1. CASE UNCHANGED <<now, sessions>>
  <2>1. AllLogins' = AllLogins
    BY <1>1, LoginStays DEF AllLogins
  <2> QED
    BY <1>1, <2>1 DEF L!lVars, AllLogins, Login
<1>2. CASE Tick
  <2>1. AllLogins' = AllLogins
    BY <1>2, LoginStays DEF AllLogins, Tick
  <2> QED
    BY <1>2, <2>1 DEF Tick, L!Tick, L!Next, AllLogins, Login
<1>3. ASSUME NEW r \in Requests, NEW s \in SessionIds, CreateSession(r, s)
      PROVE  L!Next
  BY <1>3, CreateSessionOpens DEF L!Next
<1>4. ASSUME NEW r \in Requests, UpdateSession(r) \/ DeleteExpired(r) \/ Logout(r)
      PROVE  L!Next
  BY <1>4, UpdateSessionRenews, DeleteExpiredLapses, LogoutCloses DEF L!Next
<1> QED
  BY <1>1, <1>2, <1>3, <1>4 DEF Next, vars, SignIn, RefreshToken, SignOut, SetCookies,
     GetSession, ClearCookies, Drop

(* Refinement: Sessions implements Logins.  To the account's owner a       *)
(* session lives for its time from the last renewal and ends when that is  *)
(* over or with all the others, whatever requests overlap or are lost.     *)
THEOREM Refinement == Spec => ImplementsLogins
<1>1. Init => L!Init
  BY DEF Init, L!Init, L!Unopened, Live, Used, NoRow
<1>2. IInv /\ [Next]_vars => [L!Next]_L!lVars
  BY StepSimulation
<1> QED
  BY <1>1, <1>2, Invariance, PTL DEF Spec, ImplementsLogins, L!Spec
=============================================================================

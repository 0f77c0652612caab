------------------------- MODULE ProvisioningProofs -------------------------
(***************************************************************************)
(* Theorems about Provisioning, for every set of statuses, names and posts *)
(* and every list of initial names.                                        *)
(*                                                                         *)
(* NamesUnique is inductive with the types.  DefaultIsTheListeners needs   *)
(* to know that from its creation to the end the default status is held    *)
(* and its row there, and that nobody else sets a default.                 *)
(***************************************************************************)
EXTENDS Provisioning, TLAPS

HeldInv == stage \in {"point", "done"} => held \in Rows

IInv == TypeOK /\ NamesUnique /\ HeldInv /\ DefaultIsTheListeners

LEMMA InitInv == Init => IInv
<1> SUFFICES ASSUME Init PROVE IInv
  OBVIOUS
<1>1. TypeOK
  BY DEF Init, TypeOK, Post, Stages
<1>2. NamesUnique
  BY DEF Init, NamesUnique, Rows
<1>3. HeldInv /\ DefaultIsTheListeners
  BY DEF Init, HeldInv, DefaultIsTheListeners
<1> QED
  BY <1>1, <1>2, <1>3 DEF IInv

LEMMA RowFields ==
  ASSUME TypeOK, NEW s \in Rows
  PROVE  s \in StatusIds /\ statusName[s] \in Names
BY DEF TypeOK, Rows

\* What a step that keeps the default and the posts has to show.
LEMMA TableInv ==
  ASSUME IInv, stage' \in Stages, hasBoard' \in BOOLEAN,
         statusName' \in [StatusIds -> Names \cup {None}],
         deleted' \subseteq StatusIds,
         UNCHANGED <<defaultStatus, posts>>,
         NamesUnique', Rows \subseteq Rows',
         held' \in StatusIds \cup {None}, HeldInv',
         stage = "done" => stage' = "done" /\ held' = held,
         stage' = "done" => stage = "done"
  PROVE  IInv'
<1>1. TypeOK'
  BY DEF IInv, TypeOK
<1>2. DefaultIsTheListeners'
  BY DEF IInv, DefaultIsTheListeners
<1> QED
  BY <1>1, <1>2 DEF IInv

\* One name given to one row, unless it is taken.
LEMMA NameOne ==
  ASSUME IInv, NEW s \in StatusIds, NEW n \in Names, ~Taken(n),
         statusName' = [statusName EXCEPT ![s] = n]
  PROVE  /\ statusName' \in [StatusIds -> Names \cup {None}]
         /\ Rows' = Rows \cup {s}
         /\ NamesUnique'
<1>1. statusName' \in [StatusIds -> Names \cup {None}]
  BY DEF IInv, TypeOK
<1>2. Rows' = Rows \cup {s}
  BY NoneIsNoId DEF Rows, IInv, TypeOK
<1>3. NamesUnique'
  BY <1>2 DEF NamesUnique, Taken, IInv, TypeOK, Rows
<1> QED
  BY <1>1, <1>2, <1>3

-----------------------------------------------------------------------------
\* A list of names given to as many free rows, unless one is taken.
LEMMA CreateInitialStatusesInv ==
  ASSUME IInv, CreateInitialStatuses
  PROVE  IInv'
<1>1. CASE stage' = "failed" /\ UNCHANGED statusName
  <2>1. Rows' = Rows
    BY <1>1 DEF Rows
  <2>2. NamesUnique'
    BY <1>1, <2>1 DEF NamesUnique, IInv
  <2> QED
    BY <1>1, <2>1, <2>2, TableInv
       DEF CreateInitialStatuses, IInv, TypeOK, Stages, HeldInv
<1>2. ASSUME \A n \in InitialNames : ~Taken(n), stage' = "default",
             NEW row \in Injection(InitialNames, Free),
             statusName' = [s \in StatusIds |->
               IF \E n \in InitialNames : row[n] = s
                 THEN CHOOSE n \in InitialNames : row[n] = s
                 ELSE statusName[s]]
      PROVE  IInv'
  <2>1. /\ row \in [InitialNames -> Free]
        /\ \A a, b \in InitialNames : row[a] = row[b] => a = b
    BY DEF Injection, IsInjective
  <2> DEFINE New == {s \in StatusIds : \E n \in InitialNames : row[n] = s}
  <2>2. \A s \in New : /\ statusName'[s] \in InitialNames
                       /\ row[statusName'[s]] = s
    BY <1>2
  <2>3. \A s \in StatusIds \ New : statusName'[s] = statusName[s]
    BY <1>2
  <2>4. statusName' \in [StatusIds -> Names \cup {None}]
    BY <1>2, <2>2, <2>3, NamesKnown DEF IInv, TypeOK
  <2>5. New \subseteq Free
    BY <2>1
  <2>6. Rows' = Rows \cup New
    BY <2>2, <2>3, <2>5, NamesKnown, NoneIsNoId DEF Rows, Free
  <2> HIDE DEF New
  <2>7. NamesUnique'
    <3> SUFFICES ASSUME NEW s \in Rows', NEW t \in Rows',
                        statusName'[s] = statusName'[t]
                 PROVE  s = t
      BY DEF NamesUnique
    <3>1. CASE s \in New /\ t \in New
      BY <2>2, <3>1
    <3>2. CASE s \in New /\ t \notin New
      BY <1>2, <2>2, <2>3, <2>6, <3>2, RowFields DEF Taken, IInv
    <3>3. CASE s \notin New /\ t \in New
      BY <1>2, <2>2, <2>3, <2>6, <3>3, RowFields DEF Taken, IInv
    <3>4. CASE s \notin New /\ t \notin New
      BY <2>3, <2>6, <3>4, RowFields DEF NamesUnique, IInv
    <3> QED
      BY <3>1, <3>2, <3>3, <3>4
  <2> QED
    BY <1>2, <2>4, <2>6, <2>7, TableInv
       DEF CreateInitialStatuses, IInv, TypeOK, Stages, HeldInv
<1> QED
  BY <1>1, <1>2 DEF CreateInitialStatuses

LEMMA CreateDefaultStatusInv ==
  ASSUME IInv, CreateDefaultStatus
  PROVE  IInv'
<1>1. CASE stage' = "failed" /\ UNCHANGED <<statusName, held>>
  <2>1. Rows' = Rows
    BY <1>1 DEF Rows
  <2>2. NamesUnique'
    BY <1>1, <2>1 DEF NamesUnique, IInv
  <2> QED
    BY <1>1, <2>1, <2>2, TableInv
       DEF CreateDefaultStatus, IInv, TypeOK, Stages, HeldInv
<1>2. ASSUME ~Taken(DefaultName), stage' = "point", NEW s \in Free,
             statusName' = [statusName EXCEPT ![s] = DefaultName], held' = s
      PROVE  IInv'
  <2>1. s \in StatusIds /\ DefaultName \in Names
    BY NamesKnown DEF Free
  <2>2. /\ statusName' \in [StatusIds -> Names \cup {None}]
        /\ Rows' = Rows \cup {s}
        /\ NamesUnique'
    BY <1>2, <2>1, NameOne
  <2> QED
    BY <1>2, <2>1, <2>2, TableInv
       DEF CreateDefaultStatus, IInv, TypeOK, Stages, HeldInv
<1> QED
  BY <1>1, <1>2 DEF CreateDefaultStatus

\* What a step that leaves every status row alone has to show.
LEMMA OtherInv ==
  ASSUME IInv, UNCHANGED <<statusName, held>>, TypeOK', HeldInv',
         DefaultIsTheListeners'
  PROVE  IInv'
BY DEF IInv, NamesUnique, Rows

\* The default is set from what is held, which is a row by then.
LEMMA SetDefaultStatusInv ==
  ASSUME IInv, SetDefaultStatus
  PROVE  IInv'
<1> USE DEF IInv, SetDefaultStatus
<1>1. held \in Rows /\ Rows' = Rows /\ held \in StatusIds
  BY DEF HeldInv, Rows
<1>2. TypeOK'
  BY <1>1 DEF TypeOK, Stages
<1>3. HeldInv'
  BY <1>1 DEF HeldInv
<1>4. defaultStatus = None
  BY DEF DefaultIsTheListeners
<1>5. DefaultIsTheListeners'
  BY <1>1, <1>4, NoneIsNoId DEF DefaultIsTheListeners
<1> QED
  BY <1>2, <1>3, <1>5, OtherInv

\* The steps of the listener and the requests that touch no status row.
LEMMA StageInv ==
  ASSUME IInv,
         \/ CreateOrganization \/ CreateDefaultBoard \/ CreateDefaultTags
         \/ ListenerFails \/ CreateBoard
  PROVE  IInv'
<1> USE DEF IInv, CreateOrganization, CreateDefaultBoard, CreateDefaultTags,
            ListenerFails, Working, CreateBoard
<1>1. TypeOK'
  BY DEF TypeOK, Stages
<1>2. HeldInv'
  BY DEF HeldInv, Rows
<1>3. DefaultIsTheListeners'
  BY DEF DefaultIsTheListeners, Rows
<1> QED
  BY <1>1, <1>2, <1>3, OtherInv

LEMMA NamingInv ==
  ASSUME IInv, NEW s \in StatusIds, NEW n \in Names,
         CreateStatus(s, n) \/ UpdateStatus(s, n)
  PROVE  IInv'
<1>1. ~Taken(n) /\ statusName' = [statusName EXCEPT ![s] = n]
  BY DEF CreateStatus, UpdateStatus
<1>2. /\ statusName' \in [StatusIds -> Names \cup {None}]
      /\ Rows' = Rows \cup {s}
      /\ NamesUnique'
  BY <1>1, NameOne
<1> QED
  BY <1>2, TableInv DEF CreateStatus, UpdateStatus, IInv, TypeOK, HeldInv

LEMMA RemoveStatusInv ==
  ASSUME IInv, NEW s \in StatusIds, RemoveStatus(s)
  PROVE  IInv'
<1>1. TypeOK' /\ HeldInv' /\ DefaultIsTheListeners'
  BY DEF RemoveStatus, IInv, TypeOK, HeldInv, DefaultIsTheListeners, Rows
<1> QED
  BY <1>1, OtherInv DEF RemoveStatus

LEMMA SendPostInv ==
  ASSUME IInv, NEW p \in PostIds, NEW author \in {"member", "manager"},
         NEW s \in Rows \cup {None}, SendPost(p, author, s)
  PROVE  IInv'
<1> USE DEF IInv, SendPost
<1>1. TypeOK'
  BY DEF TypeOK, Post, Rows
<1>2. HeldInv'
  BY DEF HeldInv, Rows
<1>3. DefaultIsTheListeners'
  BY DEF DefaultIsTheListeners, Rows, TypeOK
<1> QED
  BY <1>1, <1>2, <1>3, OtherInv

LEMMA StorePostInv ==
  ASSUME IInv, NEW p \in PostIds, StorePost(p)
  PROVE  IInv'
<1> USE DEF IInv, StorePost
<1>1. TypeOK'
  BY DEF TypeOK, Post
<1>2. HeldInv'
  BY DEF HeldInv, Rows
<1>3. DefaultIsTheListeners'
  BY DEF DefaultIsTheListeners, Rows, TypeOK, Post
<1> QED
  BY <1>1, <1>2, <1>3, OtherInv

\* A restart ends the listener and the posts in flight, and changes no row.
LEMMA RestartInv ==
  ASSUME IInv, Restart
  PROVE  IInv'
<1> USE DEF IInv, Restart, Working
<1>1. TypeOK'
  BY DEF TypeOK, Post, Stages
<1>2. HeldInv'
  BY DEF HeldInv, Rows
<1>3. \A p \in PostIds : /\ posts'[p].author = posts[p].author
                        /\ posts'[p].status = posts[p].status
  BY DEF TypeOK, Post
<1>4. DefaultIsTheListeners'
  BY <1>3 DEF DefaultIsTheListeners, Rows
<1> QED
  BY <1>1, <1>2, <1>4, OtherInv

-----------------------------------------------------------------------------
LEMMA NextInv == IInv /\ [Next]_vars => IInv'
<1> SUFFICES ASSUME IInv, [Next]_vars PROVE IInv'
  OBVIOUS
<1>1. CASE HandleOrganizationCreated
  BY <1>1, StageInv, CreateInitialStatusesInv, CreateDefaultStatusInv,
     SetDefaultStatusInv DEF HandleOrganizationCreated
<1>2. CASE CreateOrganization \/ ListenerFails \/ CreateBoard
  BY <1>2, StageInv
<1>3. ASSUME NEW s \in StatusIds, NEW n \in Names,
             CreateStatus(s, n) \/ UpdateStatus(s, n)
      PROVE  IInv'
  BY <1>3, NamingInv
<1>4. ASSUME NEW s \in StatusIds, RemoveStatus(s)
      PROVE  IInv'
  BY <1>4, RemoveStatusInv
<1>5. ASSUME NEW p \in PostIds, NEW author \in {"member", "manager"},
             NEW s \in Rows \cup {None}, SendPost(p, author, s)
      PROVE  IInv'
  BY <1>5, SendPostInv
<1>6. ASSUME NEW p \in PostIds, StorePost(p)
      PROVE  IInv'
  BY <1>6, StorePostInv
<1>7. CASE Restart
  BY <1>7, RestartInv
<1>8. CASE UNCHANGED vars
  BY <1>8 DEF vars, IInv, TypeOK, NamesUnique, HeldInv, DefaultIsTheListeners, Rows
<1> QED
  BY <1>1, <1>2, <1>3, <1>4, <1>5, <1>6, <1>7, <1>8 DEF Next

(* Invariance: the inductive invariant holds in every state. *)
THEOREM Invariance == Spec => []IInv
BY InitInv, NextInv, PTL DEF Spec

(* TypeCorrect: every variable stays in its type. *)
THEOREM TypeCorrect == Spec => []TypeOK
<1>1. IInv => TypeOK
  BY DEF IInv
<1> QED
  BY <1>1, Invariance, PTL

(* StatusNamesUnique: no two statuses of an organization ever share a      *)
(* name, however the listener and the owner race for it.                   *)
THEOREM StatusNamesUnique == Spec => []NamesUnique
<1>1. IInv => NamesUnique
  BY DEF IInv
<1> QED
  BY <1>1, Invariance, PTL

(* OneDefault: the default status is the listener's, set by its last step, *)
(* and what members' posts get is that one or none.                        *)
THEOREM OneDefault == Spec => []DefaultIsTheListeners
<1>1. IInv => DefaultIsTheListeners
  BY DEF IInv
<1> QED
  BY <1>1, Invariance, PTL

(* LateMembersHaveStatus: the posts without a status, which the code takes *)
(* for impossible, are of members who posted before the listener was done  *)
(* or where it never was: from then on there is never another.             *)
THEOREM LateMembersHaveStatus == Spec => StatuslessOnlyEarly
<1>1. ASSUME IInv, [Next]_vars, stage = "done", NEW p \in Statusless'
      PROVE  p \in Statusless
  <2>1. /\ p \in PostIds /\ posts'[p].state # "unused"
        /\ posts'[p].author = "member" /\ posts'[p].status = None
    BY <1>1 DEF Statusless
  <2>2. defaultStatus # None
    BY <1>1 DEF IInv, DefaultIsTheListeners
  <2>3. CASE posts' = posts
    BY <2>1, <2>3 DEF Statusless
  <2>4. ASSUME NEW q \in PostIds, NEW author \in {"member", "manager"},
               NEW s \in Rows \cup {None}, SendPost(q, author, s)
        PROVE  p \in Statusless
    <3>1. CASE p = q
      BY <2>1, <2>2, <2>4, <3>1, <1>1 DEF SendPost, IInv, TypeOK
    <3>2. CASE p # q
      BY <2>1, <2>4, <3>2, <1>1 DEF SendPost, IInv, TypeOK, Statusless
    <3> QED
      BY <3>1, <3>2
  <2>5. ASSUME NEW q \in PostIds, StorePost(q)
        PROVE  p \in Statusless
    BY <2>1, <2>5, <1>1 DEF StorePost, IInv, TypeOK, Post, Statusless
  <2>6. CASE Restart
    BY <2>1, <2>6, <1>1 DEF Restart, IInv, TypeOK, Post, Statusless
  <2> QED
    BY <1>1, <2>3, <2>4, <2>5, <2>6
    DEF Next, vars, CreateOrganization, HandleOrganizationCreated, CreateDefaultBoard,
        CreateDefaultTags, CreateInitialStatuses, CreateDefaultStatus, SetDefaultStatus,
        ListenerFails, CreateBoard, CreateStatus, UpdateStatus, RemoveStatus
<1>2. IInv /\ [Next]_vars => [stage = "done" => Statusless' \subseteq Statusless]_vars
  BY <1>1
<1> QED
  BY <1>2, Invariance, PTL DEF Spec, StatuslessOnlyEarly
=============================================================================

------------------------ MODULE NotificationsProofs -------------------------
(***************************************************************************)
(* Theorems about Notifications, for every set of users, events and        *)
(* streams.                                                                *)
(*                                                                         *)
(* What a stream gets depends on the Map being exact: the open subjects of *)
(* a user are those of the tabs that stream for that user, no more and no  *)
(* less (MapExact).  What it gets is its own user's because a handler      *)
(* publishes the row it has stored (HandlersInv).                          *)
(***************************************************************************)
EXTENDS Notifications, TLAPS

MapExact ==
  \A s \in Streams, u \in Users :
    s \in connections[u] <=> Open(s) /\ tabs[s].user = u

HandlersInv ==
  \A e \in Events :
    /\ handlers[e].step = "create" => rows[e] = NoRow
    /\ handlers[e].step = "publish" =>
         rows[e] # NoRow /\ rows[e].user = handlers[e].user

IInv == TypeOK /\ MapExact /\ HandlersInv /\ NothingMissed /\ OwnNewsOnly

-----------------------------------------------------------------------------
LEMMA HandlerFields ==
  ASSUME TypeOK, NEW e \in Events
  PROVE  /\ handlers[e].step # "idle" => handlers[e].user \in Users
         /\ rows[e] # NoRow => rows[e] \in Row
         /\ rows[e].state # "none" <=> rows[e] # NoRow
BY DEF TypeOK, Handler, Idle, Row, NoRow

LEMMA TabFields ==
  ASSUME TypeOK, NEW s \in Streams
  PROVE  Open(s) => /\ tabs[s] \in Tab
                    /\ tabs[s].state \in {"open", "listed"}
                    /\ tabs[s].user \in Users
                    /\ tabs[s].shown \in SUBSET Events
BY DEF TypeOK, Tab, Closed, Open

\* The rows a step leaves alone, or only marks or dismisses.
RowsKept ==
  \A e \in Events :
    /\ rows[e] # NoRow => rows'[e] # NoRow /\ rows'[e].user = rows[e].user
    /\ rows[e] = NoRow => rows'[e] = NoRow
    /\ rows'[e].state \in {"unread", "read"} => rows[e].state \in {"unread", "read"}

LEMMA RowsKeptInv ==
  ASSUME IInv, TypeOK', RowsKept, UNCHANGED <<handlers, connections, tabs>>
  PROVE  IInv'
<1> USE DEF IInv
<1>1. MapExact'
  BY DEF MapExact, Open
<1>2. HandlersInv'
  BY DEF HandlersInv, RowsKept
<1>3. NothingMissed'
  <2> SUFFICES ASSUME NEW s \in Streams, tabs[s].state = "listed",
                      NEW e \in Listed(tabs[s].user)'
               PROVE  e \in tabs[s].shown \/ handlers[e].step = "publish"
    BY DEF NothingMissed
  <2>1. e \in Events /\ rows'[e].state \in {"unread", "read"}
        /\ rows'[e].user = tabs[s].user
    BY DEF Listed
  <2>2. rows[e].state \in {"unread", "read"}
    BY <2>1 DEF RowsKept
  <2>3. rows[e].user = tabs[s].user
    BY <2>1, <2>2, HandlerFields DEF RowsKept
  <2> QED
    BY <2>1, <2>2, <2>3 DEF NothingMissed, Listed
<1>4. OwnNewsOnly'
  BY TabFields DEF OwnNewsOnly, Open, RowsKept
<1> QED
  BY <1>1, <1>2, <1>3, <1>4

-----------------------------------------------------------------------------
LEMMA InitInv == Init => IInv
BY DEF Init, IInv, TypeOK, MapExact, Open, HandlersInv, NothingMissed, OwnNewsOnly,
       Handler, Idle, NoRow, Closed

LEMMA HandleEventInv ==
  ASSUME IInv, NEW e \in Events, NEW author \in Users, NEW actor \in Users,
         HandleEvent(e, author, actor)
  PROVE  IInv'
<1> USE DEF IInv, HandleEvent
<1>1. TypeOK'
  BY DEF TypeOK, Handler
<1>2. HandlersInv'
  BY DEF HandlersInv, TypeOK
<1>3. NothingMissed'
  <2>1. ASSUME NEW d \in Events, handlers[d].step = "publish"
        PROVE  handlers'[d] = handlers[d]
    BY <2>1 DEF TypeOK, Idle
  <2> QED
    BY <2>1 DEF NothingMissed, Listed
<1>4. MapExact' /\ OwnNewsOnly'
  BY DEF MapExact, Open, OwnNewsOnly
<1> QED
  BY <1>1, <1>2, <1>3, <1>4

LEMMA CreateInv ==
  ASSUME IInv, NEW e \in Events, Create(e)
  PROVE  IInv'
<1> USE DEF IInv, Create
<1> DEFINE u == handlers[e].user
<1>1. u \in Users /\ rows[e] = NoRow
  BY HandlerFields DEF HandlersInv
<1>2. TypeOK'
  BY <1>1 DEF TypeOK, Handler, Row
<1>3. /\ rows'[e] = [state |-> "unread", user |-> u]
      /\ handlers'[e] = [step |-> "publish", user |-> u]
      /\ \A d \in Events \ {e} : rows'[d] = rows[d] /\ handlers'[d] = handlers[d]
  BY DEF TypeOK
<1>4. HandlersInv'
  BY <1>3 DEF HandlersInv, NoRow
<1>5. NothingMissed'
  BY <1>3 DEF NothingMissed, Listed
<1>6. OwnNewsOnly'
  BY <1>1, <1>3, TabFields DEF OwnNewsOnly, Open
<1>7. MapExact'
  BY DEF MapExact, Open
<1> QED
  BY <1>2, <1>4, <1>5, <1>6, <1>7

LEMMA FailInv ==
  ASSUME IInv, NEW e \in Events, Fail(e)
  PROVE  IInv'
<1> USE DEF IInv, Fail
<1>1. TypeOK'
  BY DEF TypeOK, Handler
<1>2. /\ handlers'[e] = Idle
      /\ \A d \in Events \ {e} : handlers'[d] = handlers[d]
  BY DEF TypeOK
<1>3. HandlersInv'
  BY <1>2 DEF HandlersInv, Idle
<1>4. NothingMissed'
  BY <1>2 DEF NothingMissed, Listed
<1>5. MapExact' /\ OwnNewsOnly'
  BY DEF MapExact, Open, OwnNewsOnly
<1> QED
  BY <1>1, <1>3, <1>4, <1>5

\* What a publication does to the tabs.
LEMMA PublishTabs ==
  ASSUME IInv, NEW e \in Events, Publish(e), NEW s \in Streams
  PROVE  /\ tabs'[s].state = tabs[s].state
         /\ Open(s) => tabs'[s].user = tabs[s].user
         /\ Open(s) => tabs'[s].shown =
              IF tabs[s].user = handlers[e].user
                THEN tabs[s].shown \cup {e} ELSE tabs[s].shown
         /\ tabs'[s] \in Tab \cup {Closed}
<1> DEFINE u == handlers[e].user
<1>1. u \in Users
  BY HandlerFields DEF IInv, Publish
<1>2. s \in connections[u] <=> Open(s) /\ tabs[s].user = u
  BY <1>1 DEF IInv, MapExact
<1>3. tabs'[s] = IF s \in connections[u] /\ Open(s) THEN Show(s, {e}) ELSE tabs[s]
  BY DEF Publish
<1>4. CASE Open(s) /\ tabs[s].user = u
  <2>1. tabs'[s] = [state |-> tabs[s].state, user |-> tabs[s].user,
                    shown |-> tabs[s].shown \cup {e}]
    BY <1>2, <1>3, <1>4 DEF Show
  <2>2. tabs'[s] \in Tab
    BY <2>1, <1>4, TabFields DEF Tab, IInv
  <2> QED
    BY <2>1, <2>2, <1>4
<1>5. CASE ~(Open(s) /\ tabs[s].user = u)
  <2>1. tabs'[s] = tabs[s]
    BY <1>2, <1>3, <1>5
  <2> QED
    BY <2>1, <1>5 DEF IInv, TypeOK
<1> QED
  BY <1>4, <1>5

LEMMA PublishInv ==
  ASSUME IInv, NEW e \in Events, Publish(e)
  PROVE  IInv'
<1>1. UNCHANGED <<rows, connections>>
  BY DEF Publish
<1>2. rows[e] # NoRow /\ rows[e].user = handlers[e].user
  BY HandlerFields DEF Publish, IInv, HandlersInv
<1>3. /\ handlers'[e] = Idle
      /\ \A d \in Events \ {e} : handlers'[d] = handlers[d]
  BY DEF Publish, IInv, TypeOK
<1>4. \A s \in Streams : Open(s)' <=> Open(s)
  BY PublishTabs DEF Open
<1>5. TypeOK'
  <2>1. tabs' \in [Streams -> Tab \cup {Closed}]
    BY PublishTabs DEF Publish
  <2> QED
    BY <2>1 DEF Publish, IInv, TypeOK, Handler
<1>6. MapExact'
  <2> SUFFICES ASSUME NEW s \in Streams, NEW v \in Users
               PROVE  s \in connections'[v] <=> Open(s)' /\ tabs'[s].user = v
    BY DEF MapExact
  <2>1. Open(s)' <=> Open(s)
    BY <1>4
  <2>2. Open(s) => tabs'[s].user = tabs[s].user
    BY PublishTabs
  <2>3. s \in connections[v] <=> Open(s) /\ tabs[s].user = v
    BY DEF IInv, MapExact
  <2> QED
    BY <1>1, <2>1, <2>2, <2>3
<1>7. HandlersInv'
  BY <1>1, <1>3 DEF IInv, HandlersInv, Idle
<1>8. NothingMissed'
  <2> SUFFICES ASSUME NEW s \in Streams, tabs'[s].state = "listed",
                      NEW d \in Listed(tabs[s].user)'
               PROVE  d \in tabs'[s].shown \/ handlers'[d].step = "publish"
    BY DEF NothingMissed
  <2>1. tabs[s].state = "listed" /\ Open(s) /\ tabs'[s].user = tabs[s].user
    BY PublishTabs DEF Open
  <2>2. d \in Events /\ d \in Listed(tabs[s].user) /\ rows[d].user = tabs[s].user
    BY <1>1, <2>1 DEF Listed
  <2>3. d \in tabs[s].shown \/ handlers[d].step = "publish"
    BY <2>1, <2>2 DEF IInv, NothingMissed
  <2>4. CASE d = e
    BY <2>1, <2>2, <2>4, <1>2, PublishTabs
  <2>5. CASE d # e
    BY <2>1, <2>2, <2>3, <2>5, <1>3, PublishTabs
  <2> QED
    BY <2>4, <2>5
<1>9. OwnNewsOnly'
  <2> SUFFICES ASSUME NEW s \in Streams, Open(s), NEW d \in tabs'[s].shown
               PROVE  rows'[d] # NoRow /\ rows'[d].user = tabs'[s].user
    BY <1>4 DEF OwnNewsOnly
  <2>1. d \in tabs[s].shown \/ (d = e /\ tabs[s].user = handlers[e].user)
    <3>1. tabs'[s].shown = IF tabs[s].user = handlers[e].user
                             THEN tabs[s].shown \cup {e} ELSE tabs[s].shown
      BY PublishTabs
    <3> QED
      BY <3>1
  <2> QED
    BY <1>1, <1>2, <2>1, PublishTabs DEF IInv, OwnNewsOnly
<1> QED
  BY <1>5, <1>6, <1>7, <1>8, <1>9 DEF IInv

-----------------------------------------------------------------------------
LEMMA SubscribeInv ==
  ASSUME IInv, NEW s \in Streams, NEW u \in Users, Subscribe(s, u)
  PROVE  IInv'
<1> USE DEF IInv, Subscribe
<1>1. /\ tabs'[s] = [state |-> "open", user |-> u, shown |-> {}]
      /\ \A q \in Streams \ {s} : tabs'[q] = tabs[q]
      /\ connections'[u] = connections[u] \cup {s}
      /\ \A v \in Users \ {u} : connections'[v] = connections[v]
  BY DEF TypeOK
<1>2. TypeOK'
  BY DEF TypeOK, Tab
<1>3. MapExact'
  <2>1. \A v \in Users : s \notin connections[v]
    BY TabFields DEF MapExact, Open
  <2> QED
    BY <1>1, <2>1 DEF MapExact, Open
<1>4. NothingMissed' /\ OwnNewsOnly'
  BY <1>1 DEF NothingMissed, OwnNewsOnly, Open, Listed
<1>5. HandlersInv'
  BY DEF HandlersInv
<1> QED
  BY <1>2, <1>3, <1>4, <1>5

LEMMA FinalizeInv ==
  ASSUME IInv, NEW s \in Streams, Finalize(s)
  PROVE  IInv'
<1> USE DEF IInv, Finalize
<1> DEFINE u == tabs[s].user
<1>1. u \in Users
  BY TabFields
<1>2. /\ tabs'[s] = Closed
      /\ \A q \in Streams \ {s} : tabs'[q] = tabs[q]
      /\ connections'[u] = connections[u] \ {s}
      /\ \A v \in Users \ {u} : connections'[v] = connections[v]
  BY <1>1 DEF TypeOK
<1>3. TypeOK'
  BY <1>1 DEF TypeOK
<1>4. MapExact'
  BY <1>1, <1>2 DEF MapExact, Open, Closed
<1>5. NothingMissed' /\ OwnNewsOnly'
  BY <1>2 DEF NothingMissed, OwnNewsOnly, Open, Listed, Closed
<1>6. HandlersInv'
  BY DEF HandlersInv
<1> QED
  BY <1>3, <1>4, <1>5, <1>6

LEMMA FindAllInv ==
  ASSUME IInv, NEW s \in Streams, FindAll(s)
  PROVE  IInv'
<1> USE DEF IInv, FindAll
<1> DEFINE u == tabs[s].user
<1>1. Open(s) /\ u \in Users /\ tabs[s].shown \in SUBSET Events
  BY TabFields
<1>2. /\ tabs'[s] = [state |-> "listed", user |-> u,
                     shown |-> tabs[s].shown \cup Listed(u)]
      /\ \A q \in Streams \ {s} : tabs'[q] = tabs[q]
  BY DEF TypeOK
<1>3. TypeOK'
  <2>1. tabs'[s] \in Tab
    BY <1>1, <1>2 DEF Tab, Listed
  <2> QED
    BY <2>1 DEF TypeOK
<1>4. MapExact'
  BY <1>1, <1>2 DEF MapExact, Open
<1>5. NothingMissed'
  BY <1>2 DEF NothingMissed, Listed
<1>6. OwnNewsOnly'
  BY <1>1, <1>2, HandlerFields DEF OwnNewsOnly, Open, Listed
<1>7. HandlersInv'
  BY DEF HandlersInv
<1> QED
  BY <1>3, <1>4, <1>5, <1>6, <1>7

-----------------------------------------------------------------------------
LEMMA MarkAsReadInv ==
  ASSUME IInv, NEW e \in Events, MarkAsRead(e)
  PROVE  IInv'
<1> USE DEF IInv, MarkAsRead
<1>1. rows[e] # NoRow /\ rows[e].user \in Users
  BY HandlerFields DEF Row
<1>2. TypeOK'
  BY <1>1 DEF TypeOK, Row
<1>3. RowsKept
  BY <1>1 DEF RowsKept, TypeOK, NoRow
<1> QED
  BY <1>2, <1>3, RowsKeptInv

LEMMA DismissInv ==
  ASSUME IInv, NEW e \in Events, Dismiss(e)
  PROVE  IInv'
<1> USE DEF IInv, Dismiss
<1>1. rows[e] # NoRow /\ rows[e].user \in Users
  BY HandlerFields DEF Row
<1>2. TypeOK'
  BY <1>1 DEF TypeOK, Row
<1>3. RowsKept
  BY <1>1 DEF RowsKept, TypeOK, NoRow
<1> QED
  BY <1>2, <1>3, RowsKeptInv

LEMMA MarkAllAsReadInv ==
  ASSUME IInv, NEW u \in Users, MarkAllAsRead(u)
  PROVE  IInv'
<1> USE DEF IInv, MarkAllAsRead
<1>1. TypeOK'
  BY DEF TypeOK, Row
<1>2. RowsKept
  <2> SUFFICES ASSUME NEW e \in Events
               PROVE  /\ rows[e] # NoRow => rows'[e] # NoRow /\ rows'[e].user = rows[e].user
                      /\ rows[e] = NoRow => rows'[e] = NoRow
                      /\ rows'[e].state \in {"unread", "read"} =>
                           rows[e].state \in {"unread", "read"}
    BY DEF RowsKept
  <2>1. CASE e \in Listed(u)
    BY <2>1 DEF Listed, NoRow
  <2>2. CASE e \notin Listed(u)
    BY <2>2
  <2> QED
    BY <2>1, <2>2
<1> QED
  BY <1>1, <1>2, RowsKeptInv

LEMMA RestartInv ==
  ASSUME IInv, Restart
  PROVE  IInv'
BY DEF Restart, IInv, TypeOK, MapExact, Open, HandlersInv, NothingMissed, OwnNewsOnly,
       Handler, Idle, Closed

LEMMA NextInv == IInv /\ [Next]_vars => IInv'
<1> SUFFICES ASSUME IInv, [Next]_vars PROVE IInv'
  OBVIOUS
<1>1. CASE UNCHANGED vars
  BY <1>1 DEF vars, IInv, TypeOK, MapExact, Open, HandlersInv, NothingMissed,
              OwnNewsOnly, Listed
<1>2. ASSUME NEW e \in Events,
             \/ \E author, actor \in Users : HandleEvent(e, author, actor)
             \/ Create(e) \/ Fail(e) \/ Publish(e)
             \/ MarkAsRead(e) \/ Dismiss(e)
      PROVE  IInv'
  BY <1>2, HandleEventInv, CreateInv, FailInv, PublishInv, MarkAsReadInv, DismissInv
<1>3. ASSUME NEW s \in Streams,
             (\E u \in Users : Subscribe(s, u)) \/ Finalize(s) \/ FindAll(s)
      PROVE  IInv'
  BY <1>3, SubscribeInv, FinalizeInv, FindAllInv
<1> QED
  BY <1>1, <1>2, <1>3, MarkAllAsReadInv, RestartInv DEF Next

THEOREM Invariance == Spec => []IInv
BY InitInv, NextInv, PTL DEF Spec

-----------------------------------------------------------------------------
\* The variables of Notifications stay in their types: the table, the Map and
\* the tabs.
THEOREM TypeCorrect == Spec => []TypeOK
BY Invariance, PTL DEF IInv

\* Of a user's stored notifications, a tab that listed after it opened its
\* stream lacks none but those being pushed, whatever else opens and closes.
THEOREM NoneMissed == Spec => []NothingMissed
BY Invariance, PTL DEF IInv

\* A tab shows notifications that were stored, for its own user.
THEOREM OnlyOwnNews == Spec => []OwnNewsOnly
BY Invariance, PTL DEF IInv

-----------------------------------------------------------------------------
\* The screen that tab s is, seen from outside.
Screen(s) ==
  IF Open(s) THEN [on |-> TRUE, user |-> tabs[s].user, shown |-> tabs[s].shown]
             ELSE [on |-> FALSE]

LEMMA InitSimulation == Init => I!Init
BY DEF Init, I!Init, I!Unsent, I!Off, NoRow, Open, Closed

LEMMA CreateSends ==
  ASSUME IInv, NEW e \in Events, Create(e)
  PROVE  I!Next
<1>1. PICK u \in Users : u = handlers[e].user
  BY HandlerFields DEF IInv, Create
<1>2. rows[e] = NoRow
  BY DEF IInv, HandlersInv, Create
<1>3. I!Send(e, u)
  BY <1>1, <1>2 DEF Create, I!Send, I!Unsent, NoRow, Open
<1> QED
  BY <1>3 DEF I!Next

LEMMA PublishShows ==
  ASSUME IInv, NEW e \in Events, Publish(e)
  PROVE  I!Next
<1>1. PICK u \in Users : u = handlers[e].user
  BY HandlerFields DEF IInv, Publish
<1>2. PICK ss \in SUBSET Streams : ss = connections[u]
  BY DEF IInv, TypeOK
<1>3. \A s \in ss : Open(s) /\ tabs[s].user = u
  BY <1>2 DEF IInv, MapExact
<1>4. {e} \subseteq I!SentTo(u)
  BY <1>1 DEF IInv, HandlersInv, Publish, I!SentTo, I!Unsent, NoRow
<1>5. ASSUME NEW s \in Streams
      PROVE  Screen(s)' = IF s \in ss
               THEN [on |-> TRUE, user |-> u, shown |-> tabs[s].shown \cup {e}]
               ELSE Screen(s)
  <2>1. Open(s)' <=> Open(s)
    BY PublishTabs DEF Open
  <2>2. s \in ss <=> Open(s) /\ tabs[s].user = u
    BY <1>2 DEF IInv, MapExact
  <2> QED
    BY <1>1, <2>1, <2>2, PublishTabs DEF Screen
<1>6. UNCHANGED rows
  BY DEF Publish
<1>7. \A s \in ss : Screen(s) = [on |-> TRUE, user |-> u, shown |-> tabs[s].shown]
  BY <1>3 DEF Screen
<1>8. I!Show(ss, u, {e})
  BY <1>4, <1>5, <1>6, <1>7 DEF I!Show, Screen
<1> QED
  BY <1>8 DEF I!Next

LEMMA SubscribeTurnsOn ==
  ASSUME IInv, NEW s \in Streams, NEW u \in Users, Subscribe(s, u)
  PROVE  I!Next
<1>1. ASSUME NEW q \in Streams
      PROVE  Screen(q)' = IF q = s THEN [on |-> TRUE, user |-> u, shown |-> {}]
                                   ELSE Screen(q)
  BY DEF Subscribe, Screen, Open, IInv, TypeOK
<1>2. Screen(s) = [on |-> FALSE]
  BY DEF Subscribe, Screen
<1>3. I!TurnOn(s, u)
  BY <1>1, <1>2 DEF I!TurnOn, I!Off, Screen, Subscribe
<1> QED
  BY <1>3 DEF I!Next

LEMMA ClosingTurnsOff ==
  ASSUME IInv, NEW ss \in SUBSET Streams, UNCHANGED rows,
         \A s \in ss : tabs'[s] = Closed,
         \A s \in Streams \ ss : tabs'[s] = tabs[s]
  PROVE  I!Next
<1>1. ASSUME NEW s \in Streams
      PROVE  Screen(s)' = IF s \in ss THEN [on |-> FALSE] ELSE Screen(s)
  <2>1. CASE s \in ss
    <3>1. tabs'[s].state = "closed"
      BY <2>1 DEF Closed
    <3> QED
      BY <2>1, <3>1 DEF Screen, Open
  <2>2. CASE s \notin ss
    <3>1. tabs'[s] = tabs[s]
      BY <2>2
    <3> QED
      BY <2>2, <3>1 DEF Screen, Open
  <2> QED
    BY <2>1, <2>2
<1>2. I!TurnOff(ss)
  BY <1>1 DEF I!TurnOff, I!Off, Screen
<1> QED
  BY <1>2 DEF I!Next

LEMMA FindAllShows ==
  ASSUME IInv, NEW s \in Streams, FindAll(s)
  PROVE  I!Next
<1>1. PICK u \in Users : u = tabs[s].user
  BY TabFields DEF IInv, FindAll
<1>2. PICK es \in SUBSET Events : es = Listed(u)
  BY DEF Listed
<1>3. es \subseteq I!SentTo(u)
  BY <1>2 DEF Listed, I!SentTo, I!Unsent
<1>4. ASSUME NEW q \in Streams
      PROVE  Screen(q)' = IF q \in {s}
               THEN [on |-> TRUE, user |-> u, shown |-> tabs[q].shown \cup es]
               ELSE Screen(q)
  BY <1>1, <1>2 DEF FindAll, Screen, Open, IInv, TypeOK
<1>5. Screen(s) = [on |-> TRUE, user |-> u, shown |-> tabs[s].shown]
  BY <1>1 DEF FindAll, Screen
<1>6. I!Show({s}, u, es)
  BY <1>3, <1>4, <1>5 DEF I!Show, Screen, FindAll
<1> QED
  BY <1>6 DEF I!Next

LEMMA MarksRead ==
  ASSUME IInv, NEW es \in SUBSET Events, UNCHANGED tabs,
         \A e \in es : rows[e].state \in {"unread", "read"},
         rows' = [e \in Events |->
           IF e \in es THEN [state |-> "read", user |-> rows[e].user] ELSE rows[e]]
  PROVE  I!Next
<1>1. I!Read(es)
  BY DEF I!Read, Open
<1> QED
  BY <1>1 DEF I!Next

LEMMA StepSimulation == IInv /\ [Next]_vars => [I!Next]_(I!iVars)
<1> SUFFICES ASSUME IInv, [Next]_vars PROVE [I!Next]_(I!iVars)
  OBVIOUS
<1>1. CASE UNCHANGED <<rows, tabs>>
  BY <1>1 DEF I!iVars, Open
<1>2. ASSUME NEW e \in Events, MarkAsRead(e)
      PROVE  I!Next
  <2>1. rows' = [d \in Events |->
          IF d \in {e} THEN [state |-> "read", user |-> rows[d].user] ELSE rows[d]]
    BY <1>2 DEF MarkAsRead, IInv, TypeOK
  <2> QED
    BY <1>2, <2>1, MarksRead DEF MarkAsRead
<1>3. ASSUME NEW e \in Events, Dismiss(e)
      PROVE  I!Next
  <2>1. I!Dismiss(e)
    BY <1>3 DEF Dismiss, I!Dismiss, Open
  <2> QED
    BY <2>1 DEF I!Next
<1>4. ASSUME NEW u \in Users, MarkAllAsRead(u)
      PROVE  I!Next
  <2>1. rows' = [e \in Events |->
          IF e \in Listed(u) THEN [state |-> "read", user |-> rows[e].user] ELSE rows[e]]
    BY <1>4 DEF MarkAllAsRead, Listed
  <2>2. Listed(u) \in SUBSET Events
    BY DEF Listed
  <2>3. \A e \in Listed(u) : rows[e].state \in {"unread", "read"}
    BY DEF Listed
  <2> QED
    BY <1>4, <2>1, <2>2, <2>3, MarksRead DEF MarkAllAsRead
<1>5. ASSUME NEW s \in Streams, Finalize(s)
      PROVE  I!Next
  <2>1. /\ {s} \in SUBSET Streams
        /\ \A q \in {s} : tabs'[q] = Closed
        /\ \A q \in Streams \ {s} : tabs'[q] = tabs[q]
    BY <1>5 DEF Finalize, IInv, TypeOK
  <2> QED
    BY <1>5, <2>1, ClosingTurnsOff DEF Finalize
<1>6. ASSUME Restart
      PROVE  I!Next
  BY <1>6, ClosingTurnsOff DEF Restart
<1> QED
  BY <1>1, <1>2, <1>3, <1>4, <1>5, <1>6, CreateSends, PublishShows, SubscribeTurnsOn,
     FindAllShows DEF Next, vars, HandleEvent, Fail

(* Whatever handlers, marks, streams and restarts interleave, what a user  *)
(* sees of the notifications is what Inbox lets happen: none is sent       *)
(* twice, none comes back, and no open tab is shown another's.             *)
THEOREM Refinement == Spec => ImplementsInbox
BY InitSimulation, StepSimulation, Invariance, PTL DEF Spec, ImplementsInbox, I!Spec
=============================================================================

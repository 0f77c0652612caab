--------------------------- MODULE Notifications ----------------------------
(***************************************************************************)
(* How the author of a post hears of comments and changes of status: the   *)
(* listener of the two events, the table of notifications, and the streams *)
(* of server-sent events that are kept in memory.                          *)
(*                                                                         *)
(* A notification has one recipient, the author; its row of notification   *)
(* and its row of user_notification are stored by one statement, so that a *)
(* key of Events names both.                                               *)
(***************************************************************************)
CONSTANTS
  Users,     \* accounts
  Events,    \* events emitted, and the keys of their notifications
  Streams    \* tabs of browsers, each with one stream at a time

VARIABLES
  handlers,     \* handlers[e]: what the listener does next with event e
  rows,         \* the table user_notification
  connections,  \* the Map of the users' open subjects
  tabs          \* tabs[s]: whose stream it has, and what it has shown

vars == <<handlers, rows, connections, tabs>>

Idle == [step |-> "idle"]
Handler == {Idle} \cup [step : {"create", "publish"}, user : Users]

\* A dismissed row is deleted; its key is not used again.
Row == [state : {"unread", "read", "dismissed"}, user : Users]
NoRow == [state |-> "none"]

\* A tab opens its stream and may list the notifications after that.
Closed == [state |-> "closed"]
Tab == [state : {"open", "listed"}, user : Users, shown : SUBSET Events]

TypeOK ==
  /\ handlers \in [Events -> Handler]
  /\ rows \in [Events -> Row \cup {NoRow}]
  /\ connections \in [Users -> SUBSET Streams]
  /\ tabs \in [Streams -> Tab \cup {Closed}]

Init ==
  /\ handlers = [e \in Events |-> Idle]
  /\ rows = [e \in Events |-> NoRow]
  /\ connections = [u \in Users |-> {}]
  /\ tabs = [s \in Streams |-> Closed]

Open(s) == tabs[s].state # "closed"

\* What GET /notifications lists, read or not.  The code lists them newest first,
\* a page of 20 unless the query says otherwise; the model is of users whose
\* notifications fit the page that is asked for.
Listed(u) == {e \in Events : rows[e].state \in {"unread", "read"} /\ rows[e].user = u}

-----------------------------------------------------------------------------
(* post.commented and post.statusChanged: the author is told of what       *)
(* somebody else did.                                                      *)
HandleEvent(e, author, actor) ==
  /\ handlers[e] = Idle
  /\ rows[e] = NoRow
  /\ author # actor
  /\ handlers' = [handlers EXCEPT ![e] = [step |-> "create", user |-> author]]
  /\ UNCHANGED <<rows, connections, tabs>>

Create(e) ==
  /\ handlers[e].step = "create"
  /\ rows' = [rows EXCEPT ![e] = [state |-> "unread", user |-> handlers[e].user]]
  /\ handlers' = [handlers EXCEPT ![e] = [step |-> "publish", user |-> handlers[e].user]]
  /\ UNCHANGED <<connections, tabs>>

\* The statement fails: the listener logs it and the event is lost.
Fail(e) ==
  /\ handlers[e].step = "create"
  /\ handlers' = [handlers EXCEPT ![e] = Idle]
  /\ UNCHANGED <<rows, connections, tabs>>

Show(s, es) ==
  [state |-> tabs[s].state, user |-> tabs[s].user, shown |-> tabs[s].shown \cup es]

\* Mutant: every subject of the Map is told.
MutantBroadcast(e) ==
  /\ handlers[e].step = "publish"
  /\ tabs' = [s \in Streams |-> IF Open(s) THEN Show(s, {e}) ELSE tabs[s]]
  /\ handlers' = [handlers EXCEPT ![e] = Idle]
  /\ UNCHANGED <<rows, connections>>

\* All subjects of the user, at one go.
Publish(e) ==
  /\ handlers[e].step = "publish"
  /\ tabs' = [s \in Streams |->
       IF s \in connections[handlers[e].user] /\ Open(s)
         THEN Show(s, {e}) ELSE tabs[s]]
  /\ handlers' = [handlers EXCEPT ![e] = Idle]
  /\ UNCHANGED <<rows, connections>>

-----------------------------------------------------------------------------
(* GET /notifications/stream, and its end.                                 *)

\* Mutant: the user's Set is made anew.
MutantNewSet(s, u) ==
  /\ ~Open(s)
  /\ connections' = [connections EXCEPT ![u] = {s}]
  /\ tabs' = [tabs EXCEPT ![s] = [state |-> "open", user |-> u, shown |-> {}]]
  /\ UNCHANGED <<handlers, rows>>

Subscribe(s, u) ==
  /\ ~Open(s)
  /\ connections' = [connections EXCEPT ![u] = @ \cup {s}]
  /\ tabs' = [tabs EXCEPT ![s] = [state |-> "open", user |-> u, shown |-> {}]]
  /\ UNCHANGED <<handlers, rows>>

Finalize(s) ==
  /\ Open(s)
  /\ connections' = [connections EXCEPT ![tabs[s].user] = @ \ {s}]
  /\ tabs' = [tabs EXCEPT ![s] = Closed]
  /\ UNCHANGED <<handlers, rows>>

-----------------------------------------------------------------------------
(* GET /notifications, by a tab that has its stream open; marks and        *)
(* dismissals, from wherever.                                              *)
FindAll(s) ==
  /\ Open(s)
  /\ tabs' = [tabs EXCEPT ![s] =
       [state |-> "listed", user |-> tabs[s].user,
        shown |-> tabs[s].shown \cup Listed(tabs[s].user)]]
  /\ UNCHANGED <<handlers, rows, connections>>

\* Mutant: the button is a toggle.
MutantToggle(e) ==
  /\ rows[e].state \in {"unread", "read"}
  /\ rows' = [rows EXCEPT ![e] =
       [state |-> IF rows[e].state = "read" THEN "unread" ELSE "read",
        user |-> rows[e].user]]
  /\ UNCHANGED <<handlers, connections, tabs>>

MarkAsRead(e) ==
  /\ rows[e].state \in {"unread", "read"}
  /\ rows' = [rows EXCEPT ![e] = [state |-> "read", user |-> rows[e].user]]
  /\ UNCHANGED <<handlers, connections, tabs>>

MarkAllAsRead(u) ==
  /\ rows' = [e \in Events |->
       IF e \in Listed(u) THEN [state |-> "read", user |-> u] ELSE rows[e]]
  /\ UNCHANGED <<handlers, connections, tabs>>

\* Mutant: a state no row has.
MutantState(e) ==
  /\ rows[e].state \in {"unread", "read"}
  /\ rows' = [rows EXCEPT ![e] = [state |-> "deleted", user |-> rows[e].user]]
  /\ UNCHANGED <<handlers, connections, tabs>>

Dismiss(e) ==
  /\ rows[e].state \in {"unread", "read"}
  /\ rows' = [rows EXCEPT ![e] = [state |-> "dismissed", user |-> rows[e].user]]
  /\ UNCHANGED <<handlers, connections, tabs>>

-----------------------------------------------------------------------------
\* The process restarts: handlers and subjects were in its memory.
Restart ==
  /\ handlers' = [e \in Events |-> Idle]
  /\ connections' = [u \in Users |-> {}]
  /\ tabs' = [s \in Streams |-> Closed]
  /\ UNCHANGED rows

Next ==
  \/ \E e \in Events :
       \/ \E author, actor \in Users : HandleEvent(e, author, actor)
       \/ Create(e) \/ Fail(e) \/ Publish(e)
       \/ MarkAsRead(e) \/ Dismiss(e)
  \/ \E s \in Streams :
       \/ \E u \in Users : Subscribe(s, u)
       \/ Finalize(s) \/ FindAll(s)
  \/ \E u \in Users : MarkAllAsRead(u)
  \/ Restart

Spec == Init /\ [][Next]_vars

-----------------------------------------------------------------------------
(* NothingMissed: a tab that opened its stream and then listed (a page, of *)
(* no fewer than there are) has shown every notification of its user that  *)
(* is stored, or one is about to be pushed to it: none falls between the   *)
(* list and the stream, whatever other streams of the user open and close. *)
NothingMissed ==
  \A s \in Streams : tabs[s].state = "listed" =>
    \A e \in Listed(tabs[s].user) :
      e \in tabs[s].shown \/ handlers[e].step = "publish"

(* OwnNewsOnly: whatever a tab has shown was stored, for its user.         *)
OwnNewsOnly ==
  \A s \in Streams : Open(s) =>
    \A e \in tabs[s].shown : rows[e] # NoRow /\ rows[e].user = tabs[s].user

(* ImplementsInbox: a notification is sent once, goes from unread to read  *)
(* to dismissed and never back, and a tab, as long as it is open, gains    *)
(* its user's and keeps what it has shown, whatever handlers, marks,       *)
(* streams and restarts interleave.                                        *)
I == INSTANCE Inbox WITH
       notes <- rows,
       screens <- [s \in Streams |->
         IF Open(s) THEN [on |-> TRUE, user |-> tabs[s].user, shown |-> tabs[s].shown]
                    ELSE [on |-> FALSE]]
ImplementsInbox == I!Spec
=============================================================================

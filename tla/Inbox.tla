------------------------------- MODULE Inbox --------------------------------
(***************************************************************************)
(* What the notifications promise, however events, tabs and restarts       *)
(* interleave: one is sent once, to one user; it is read or dismissed and  *)
(* never unread or back again; and a screen, while it is on, gains         *)
(* notifications of its own user and loses none.                           *)
(* Notifications.tla is shown to implement this specification.             *)
(***************************************************************************)
CONSTANTS Users, Events, Streams

VARIABLES
  notes,    \* notes[e]: the notification of event e, and whose it is
  screens   \* screens[s]: what tab s has shown since it was opened, to whom

iVars == <<notes, screens>>

Unsent == [state |-> "none"]
Off == [on |-> FALSE]

\* What was ever sent to u.
SentTo(u) == {e \in Events : notes[e] # Unsent /\ notes[e].user = u}

Init ==
  /\ notes = [e \in Events |-> Unsent]
  /\ screens = [s \in Streams |-> Off]

Send(e, u) ==
  /\ notes[e] = Unsent
  /\ notes' = [notes EXCEPT ![e] = [state |-> "unread", user |-> u]]
  /\ UNCHANGED screens

Read(es) ==
  /\ \A e \in es : notes[e].state \in {"unread", "read"}
  /\ notes' = [e \in Events |->
       IF e \in es THEN [state |-> "read", user |-> notes[e].user] ELSE notes[e]]
  /\ UNCHANGED screens

Dismiss(e) ==
  /\ notes[e].state \in {"unread", "read"}
  /\ notes' = [notes EXCEPT ![e] = [state |-> "dismissed", user |-> notes[e].user]]
  /\ UNCHANGED screens

TurnOn(s, u) ==
  /\ screens[s] = Off
  /\ screens' = [screens EXCEPT ![s] = [on |-> TRUE, user |-> u, shown |-> {}]]
  /\ UNCHANGED notes

TurnOff(ss) ==
  /\ screens' = [s \in Streams |-> IF s \in ss THEN Off ELSE screens[s]]
  /\ UNCHANGED notes

Show(ss, u, es) ==
  /\ \A s \in ss : screens[s].on /\ screens[s].user = u
  /\ es \subseteq SentTo(u)
  /\ screens' = [s \in Streams |->
       IF s \in ss
         THEN [on |-> TRUE, user |-> u, shown |-> screens[s].shown \cup es]
         ELSE screens[s]]
  /\ UNCHANGED notes

Next ==
  \/ \E e \in Events : Dismiss(e) \/ \E u \in Users : Send(e, u)
  \/ \E es \in SUBSET Events : Read(es)
  \/ \E s \in Streams, u \in Users : TurnOn(s, u)
  \/ \E ss \in SUBSET Streams :
       \/ TurnOff(ss)
       \/ \E u \in Users, es \in SUBSET Events : Show(ss, u, es)

Spec == Init /\ [][Next]_iVars
=============================================================================

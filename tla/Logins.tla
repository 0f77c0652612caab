------------------------------- MODULE Logins -------------------------------
(***************************************************************************)
(* What the sessions of an account promise, tokens and requests left out:  *)
(* a login is opened once, for a time that starts again when it is         *)
(* renewed; it is closed when that time is over, or with all the others by *)
(* signing out, and a closed login is not heard of again.                  *)
(* Sessions.tla is shown to implement this specification.                  *)
(***************************************************************************)
EXTENDS Naturals

CONSTANTS
  SessionIds,
  RefreshTTL  \* how long a login lasts unless it is renewed

VARIABLES
  now,
  logins      \* logins[s]: its state, and when its time is over

lVars == <<now, logins>>

Unopened == [state |-> "unopened", until |-> 0]
Opened == [state |-> "open", until |-> now + RefreshTTL]

Init ==
  /\ now = 0
  /\ logins = [s \in SessionIds |-> Unopened]

Open(s) ==
  /\ logins[s] = Unopened
  /\ logins' = [logins EXCEPT ![s] = Opened]
  /\ UNCHANGED now

Renew(s) ==
  /\ logins[s].state = "open"
  /\ logins' = [logins EXCEPT ![s] = Opened]
  /\ UNCHANGED now

Lapse(s) ==
  /\ logins[s].state = "open"
  /\ logins[s].until < now
  /\ logins' = [logins EXCEPT ![s].state = "closed"]
  /\ UNCHANGED now

CloseAll ==
  /\ logins' = [s \in SessionIds |->
                  IF logins[s].state = "open"
                    THEN [logins[s] EXCEPT !.state = "closed"] ELSE logins[s]]
  /\ UNCHANGED now

Tick ==
  /\ now' = now + 1
  /\ UNCHANGED logins

Next ==
  \/ \E s \in SessionIds : Open(s) \/ Renew(s) \/ Lapse(s)
  \/ CloseAll
  \/ Tick

Spec == Init /\ [][Next]_lVars
=============================================================================

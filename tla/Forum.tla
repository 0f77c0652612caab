------------------------------- MODULE Forum --------------------------------
(***************************************************************************)
(* What the pages of posts promise, however the requests behind them       *)
(* overlap: a vote is turned on or off at one stroke, with the answer that *)
(* goes with it; a comment stands on a post that was created, keeps its    *)
(* place and is removed for good; a reply hangs under a comment of its     *)
(* post that is no reply.                                                  *)
(* Threads.tla is shown to implement this specification.                   *)
(***************************************************************************)
CONSTANTS Users, Posts, CommentIds, None

VARIABLES
  published,  \* the posts that were created, removed ones included
  voted,      \* the pairs <<user, post>> whose vote counts
  told,       \* told[u, p]: whether the last toggle answered "voted"
  comments    \* comments[c]: its state, post and parent

fVars == <<published, voted, told, comments>>

Unsaid == [state |-> "unused"]
Said(c) == comments[c].state # "unused"

Init ==
  /\ published = {}
  /\ voted = {}
  /\ told = [x \in Users \X Posts |-> FALSE]
  /\ comments = [c \in CommentIds |-> Unsaid]

Publish(p) ==
  /\ published' = published \cup {p}
  /\ UNCHANGED <<voted, told, comments>>

Toggle(x) ==
  /\ x[2] \in published
  /\ voted' = IF x \in voted THEN voted \ {x} ELSE voted \cup {x}
  /\ told' = [told EXCEPT ![x] = x \notin voted]
  /\ UNCHANGED <<published, comments>>

\* What a comment on p may have for a parent.
MayHang(parent, p) ==
  parent # None => /\ Said(parent)
                   /\ comments[parent].parent = None
                   /\ comments[parent].post = p

Say(c, p, parent) ==
  /\ ~Said(c)
  /\ p \in published
  /\ MayHang(parent, p)
  /\ comments' = [comments EXCEPT ![c] =
       [state |-> "active", post |-> p, parent |-> parent]]
  /\ UNCHANGED <<published, voted, told>>

TakeBack(c) ==
  /\ comments[c].state = "active"
  /\ comments' = [comments EXCEPT ![c].state = "removed"]
  /\ UNCHANGED <<published, voted, told>>

Next ==
  \/ \E p \in Posts : Publish(p)
  \/ \E x \in Users \X Posts : Toggle(x)
  \/ \E c \in CommentIds, p \in Posts, parent \in CommentIds \cup {None} :
       Say(c, p, parent)
  \/ \E c \in CommentIds : TakeBack(c)

Spec == Init /\ [][Next]_fVars
=============================================================================

------------------------------ MODULE Threads -------------------------------
(***************************************************************************)
(* What people do with posts: create them on a board, vote for them and    *)
(* comment on them, while managers lock and remove boards, posts and       *)
(* comments (boards, posts, votes and comments, services and               *)
(* repositories).                                                          *)
(*                                                                         *)
(* As in Invites, a request reads, decides, and writes in later steps; a   *)
(* comment reads twice.  Removals stamp deletedAt.  One board is modelled. *)
(***************************************************************************)
EXTENDS Naturals

CONSTANTS
  Users,       \* accounts
  Posts,       \* primary keys of post
  CommentIds,  \* primary keys of comment
  Requests,    \* requests that can be in flight at once
  None,        \* no parent
  MaxVotes     \* bound on the votes ever stored

ASSUME NoneIsNoComment == None \notin CommentIds
ASSUME MaxVotesIsNat == MaxVotes \in Nat

VARIABLES
  board,     \* the board's isLocked, and "removed"
  posts,     \* the table post
  votes,     \* votes[u, p]: the key of the row of user u for post p, 0 for none
  cast,      \* how many rows post_vote has had, which is the last key
  told,      \* told[u, p]: "voted" of the last toggle that went through
  comments,  \* the table comment
  call       \* call[r]: what request r does next

vars == <<board, posts, votes, cast, told, comments, call>>

PostStates == {"unused", "open", "locked", "removed"}
Comment == [state : {"active", "removed"}, post : Posts,
            parent : CommentIds \cup {None}]
NoComment == [state |-> "unused"]

Idle == [step |-> "idle"]
Call ==
       {Idle}
  \cup [step : {"createPost"}]
  \cup [step : {"toggle", "vote"}, user : Users, post : Posts]
  \cup [step : {"unvote"}, user : Users, post : Posts, key : Nat]
  \cup [step : {"parent", "comment"}, post : Posts,
        parent : CommentIds \cup {None}]

TypeOK ==
  /\ board \in {"open", "locked", "removed"}
  /\ posts \in [Posts -> PostStates]
  /\ votes \in [Users \X Posts -> Nat]
  /\ cast \in Nat
  /\ told \in [Users \X Posts -> BOOLEAN]
  /\ comments \in [CommentIds -> Comment \cup {NoComment}]
  /\ call \in [Requests -> Call]

Init ==
  /\ board \in {"open", "locked"}
  /\ posts = [p \in Posts |-> "unused"]
  /\ votes = [x \in Users \X Posts |-> 0]
  /\ cast = 0
  /\ told = [x \in Users \X Posts |-> FALSE]
  /\ comments = [c \in CommentIds |-> NoComment]
  /\ call = [r \in Requests |-> Idle]

Used(c) == comments[c].state # "unused"

\* postsService.findOne: neither unused nor removed.
Found(p) == posts[p] \in {"open", "locked"}

Proceed(r, c) == call' = [call EXCEPT ![r] = c]

Begin(r, c) ==
  /\ call[r] = Idle
  /\ Proceed(r, c)
  /\ UNCHANGED <<board, posts, votes, cast, told, comments>>

-----------------------------------------------------------------------------
(* POST /posts.  The lock of the board is read, the row written later, by  *)
(* a manager's request locked if it says so.                               *)
CreatePost(r) ==
  /\ board = "open"
  /\ Begin(r, [step |-> "createPost"])

StorePost(r, p, state) ==
  /\ call[r].step = "createPost"
  /\ posts[p] = "unused"
  /\ posts' = [posts EXCEPT ![p] = state]
  /\ Proceed(r, Idle)
  /\ UNCHANGED <<board, votes, cast, told, comments>>

(* PATCH settings and DELETE of boards and posts.  Their reads only choose *)
(* between the update by key and a refusal, and a row that was removed     *)
(* meanwhile stays so.                                                     *)
ManageBoard(state) ==
  /\ board # "removed"
  /\ board' = state
  /\ UNCHANGED <<posts, votes, cast, told, comments, call>>

ManagePost(p, state) ==
  /\ Found(p)
  /\ posts' = [posts EXCEPT ![p] = state]
  /\ UNCHANGED <<board, votes, cast, told, comments, call>>

-----------------------------------------------------------------------------
(* POST /posts/:id/vote: the post, then the row of the vote, then a write  *)
(* that was chosen by what the second read found.                          *)
Vote(r, u, p) ==
  /\ posts[p] = "open"
  /\ Begin(r, [step |-> "toggle", user |-> u, post |-> p])

TogglePostVote(r) ==
  LET c == call[r]
      x == <<c.user, c.post>>
  IN /\ c.step = "toggle"
     /\ \/ /\ votes[x] = 0
           /\ Proceed(r, [step |-> "vote", user |-> c.user, post |-> c.post])
        \/ /\ votes[x] # 0
           /\ Proceed(r, [step |-> "unvote", user |-> c.user, post |-> c.post,
                          key |-> votes[x]])
     /\ UNCHANGED <<board, posts, votes, cast, told, comments>>

\* The unique key (userId, postId) refuses a second row.
CreatePostVote(r) ==
  LET x == <<call[r].user, call[r].post>>
  IN /\ call[r].step = "vote"
     /\ votes[x] = 0
     /\ cast < MaxVotes
     /\ cast' = cast + 1
     /\ votes' = [votes EXCEPT ![x] = cast']
     /\ told' = [told EXCEPT ![x] = TRUE]
     /\ Proceed(r, Idle)
     /\ UNCHANGED <<board, posts, comments>>

\* Mutant: a row that is gone counts as deleted (deleteMany).
MutantDeleteMany(r) ==
  LET x == <<call[r].user, call[r].post>>
  IN /\ call[r].step = "unvote"
     /\ votes' = [votes EXCEPT ![x] = IF @ = call[r].key THEN 0 ELSE @]
     /\ told' = [told EXCEPT ![x] = FALSE]
     /\ Proceed(r, Idle)
     /\ UNCHANGED <<board, posts, cast, comments>>

\* The row is deleted by its key: one that is gone makes the request fail.
DeletePostVote(r) ==
  LET x == <<call[r].user, call[r].post>>
  IN /\ call[r].step = "unvote"
     /\ votes[x] = call[r].key
     /\ votes' = [votes EXCEPT ![x] = 0]
     /\ told' = [told EXCEPT ![x] = FALSE]
     /\ Proceed(r, Idle)
     /\ UNCHANGED <<board, posts, cast, comments>>

-----------------------------------------------------------------------------
(* POST /comments: the post, then the parent if there is one, then the     *)
(* insertion.                                                              *)
CreateComment(r, p, parent) ==
  /\ posts[p] = "open"
  /\ parent # None => Used(parent)
  /\ Begin(r, [step |-> IF parent = None THEN "comment" ELSE "parent",
               post |-> p, parent |-> parent])

\* Mutant: a reply that was removed is taken for a comment.
MutantAnyDepth(r) ==
  LET parent == comments[call[r].parent]
  IN /\ call[r].step = "parent"
     /\ parent.state = "removed" \/ parent.parent = None
     /\ parent.post = call[r].post
     /\ Proceed(r, [step |-> "comment", post |-> call[r].post,
                    parent |-> call[r].parent])
     /\ UNCHANGED <<board, posts, votes, cast, told, comments>>

FindParent(r) ==
  LET parent == comments[call[r].parent]
  IN /\ call[r].step = "parent"
     /\ parent.state = "active"
     /\ parent.parent = None
     /\ parent.post = call[r].post
     /\ Proceed(r, [step |-> "comment", post |-> call[r].post,
                    parent |-> call[r].parent])
     /\ UNCHANGED <<board, posts, votes, cast, told, comments>>

\* Mutant: a state no comment has.
MutantState(r, c) ==
  /\ call[r].step = "comment"
  /\ ~Used(c)
  /\ comments' = [comments EXCEPT ![c] =
       [state |-> "pending", post |-> call[r].post, parent |-> call[r].parent]]
  /\ Proceed(r, Idle)
  /\ UNCHANGED <<board, posts, votes, cast, told>>

StoreComment(r, c) ==
  /\ call[r].step = "comment"
  /\ ~Used(c)
  /\ comments' = [comments EXCEPT ![c] =
       [state |-> "active", post |-> call[r].post, parent |-> call[r].parent]]
  /\ Proceed(r, Idle)
  /\ UNCHANGED <<board, posts, votes, cast, told>>

\* DELETE /comments/:id.  Replies stay.
DeleteComment(c) ==
  /\ comments[c].state = "active"
  /\ comments' = [comments EXCEPT ![c].state = "removed"]
  /\ UNCHANGED <<board, posts, votes, cast, told, call>>

-----------------------------------------------------------------------------
\* A request is refused, a query of it fails, or the process restarts.
Drop(r) ==
  /\ call[r] # Idle
  /\ Proceed(r, Idle)
  /\ UNCHANGED <<board, posts, votes, cast, told, comments>>

PostRequest(r) ==
  \/ CreatePost(r)
  \/ \E p \in Posts, state \in {"open", "locked"} : StorePost(r, p, state)
  \/ \E u \in Users, p \in Posts : Vote(r, u, p)
  \/ TogglePostVote(r) \/ CreatePostVote(r) \/ DeletePostVote(r)
  \/ \E p \in Posts, parent \in CommentIds \cup {None} : CreateComment(r, p, parent)
  \/ FindParent(r)
  \/ \E c \in CommentIds : StoreComment(r, c)
  \/ Drop(r)

Next ==
  \/ \E r \in Requests : PostRequest(r)
  \/ \E state \in {"open", "locked", "removed"} : ManageBoard(state)
  \/ \E p \in Posts, state \in {"open", "locked", "removed"} : ManagePost(p, state)
  \/ \E c \in CommentIds : DeleteComment(c)

Spec == Init /\ [][Next]_vars

-----------------------------------------------------------------------------
(* AnswersTrue: what the last toggle that went through answered (voted or  *)
(* not) is what the table says, however many toggles of that user and post *)
(* run at once.                                                            *)
AnswersTrue ==
  \A x \in Users \X Posts : told[x] <=> votes[x] # 0

(* RepliesOneDeep: the parent of a reply is a comment of the same post and *)
(* no reply itself, though the parent is read some steps before the reply  *)
(* is stored.                                                              *)
RepliesOneDeep ==
  \A c \in CommentIds :
    Used(c) /\ comments[c].parent # None =>
      LET parent == comments[comments[c].parent]
      IN /\ parent.state # "unused"
         /\ parent.parent = None
         /\ parent.post = comments[c].post

(* ImplementsForum: a toggle is as good as one step, though it reads twice *)
(* before it writes; comments stand on posts that were created, keep their *)
(* place, and are never undone.                                            *)
F == INSTANCE Forum WITH
       published <- {p \in Posts : posts[p] # "unused"},
       voted <- {x \in Users \X Posts : votes[x] # 0}
ImplementsForum == F!Spec

(* LockedIsQuiet, which the code does not keep: while a post is locked, it *)
(* gets no vote, loses none, and gets no comment.                          *)
LockedIsQuiet ==
  [][\A p \in Posts : posts[p] = "locked" =>
       /\ \A u \in Users : votes'[u, p] = votes[u, p]
       /\ \A c \in CommentIds :
            ~Used(c) /\ comments'[c] # comments[c] => comments'[c].post # p]_vars
=============================================================================

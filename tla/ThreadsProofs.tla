---------------------------- MODULE ThreadsProofs ---------------------------
(***************************************************************************)
(* Theorems about Threads, for every set of users, posts, comments and     *)
(* requests.                                                               *)
(*                                                                         *)
(* RepliesOneDeep needs what a request knows once it has read the parent:  *)
(* that comment may be removed before the reply is stored, but it keeps    *)
(* its post and goes on being no reply.                                    *)
(***************************************************************************)
EXTENDS Threads, TLAPS

\* What may be stored as the parent of a comment on post.
IsParent(parent, post) ==
  parent # None =>
    /\ Used(parent)
    /\ comments[parent].parent = None
    /\ comments[parent].post = post

CallsInv ==
  \A r \in Requests :
    call[r].step = "comment" => IsParent(call[r].parent, call[r].post)

IInv == TypeOK /\ AnswersTrue /\ RepliesOneDeep /\ CallsInv

-----------------------------------------------------------------------------
LEMMA CommentFields ==
  ASSUME TypeOK, NEW c \in CommentIds, Used(c)
  PROVE  /\ comments[c] \in Comment
         /\ comments[c].post \in Posts
         /\ comments[c].parent \in CommentIds \cup {None}
BY DEF TypeOK, Used, Comment, NoComment

LEMMA CallFields ==
  ASSUME TypeOK, NEW r \in Requests
  PROVE  /\ call[r].step \in {"toggle", "vote", "unvote"} =>
              call[r].user \in Users /\ call[r].post \in Posts
         /\ call[r].step \in {"parent", "comment"} =>
              call[r].post \in Posts /\ call[r].parent \in CommentIds \cup {None}
BY DEF TypeOK, Call, Idle

\* A comment that is used stays so, with its post and its parent.
Keeps(c) ==
  Used(c) => /\ Used(c)'
             /\ comments'[c].post = comments[c].post
             /\ comments'[c].parent = comments[c].parent

\* A parent stays one.
LEMMA ParentStays ==
  ASSUME \A c \in CommentIds : Keeps(c),
         NEW parent \in CommentIds \cup {None}, NEW post, IsParent(parent, post)
  PROVE  IsParent(parent, post)'
BY DEF Keeps, IsParent

\* A step of a request that leaves votes and comments alone only has to
\* justify its own call.
LEMMA ProceedInv ==
  ASSUME IInv, NEW r \in Requests, NEW c \in Call, Proceed(r, c),
         c.step = "comment" => IsParent(c.parent, c.post),
         UNCHANGED <<board, votes, cast, told, comments>>,
         posts' \in [Posts -> PostStates]
  PROVE  IInv'
<1> USE DEF IInv
<1>1. TypeOK'
  BY DEF TypeOK, Proceed
<1>2. AnswersTrue'
  BY DEF AnswersTrue
<1>3. RepliesOneDeep'
  BY DEF RepliesOneDeep, Used
<1>4. CallsInv'
  <2> SUFFICES ASSUME NEW q \in Requests, call'[q].step = "comment"
               PROVE  IsParent(call[q].parent, call[q].post)'
    BY DEF CallsInv
  <2>1. call'[q] = c \/ call'[q] = call[q]
    BY DEF Proceed, TypeOK
  <2> QED
    BY <2>1 DEF CallsInv, IsParent, Used
<1> QED
  BY <1>1, <1>2, <1>3, <1>4

LEMMA IdleOK == Idle \in Call /\ Idle.step # "comment"
BY DEF Idle, Call

LEMMA InitInv == Init => IInv
<1> SUFFICES ASSUME Init PROVE IInv
  OBVIOUS
<1>1. TypeOK
  BY IdleOK DEF Init, TypeOK, PostStates
<1>2. AnswersTrue
  BY DEF Init, AnswersTrue
<1>3. RepliesOneDeep
  BY DEF Init, RepliesOneDeep, Used, NoComment
<1>4. CallsInv
  BY IdleOK DEF Init, CallsInv
<1> QED
  BY <1>1, <1>2, <1>3, <1>4 DEF IInv

-----------------------------------------------------------------------------
LEMMA CreatePostInv ==
  ASSUME IInv, NEW r \in Requests, CreatePost(r)
  PROVE  IInv'
<1>1. [step |-> "createPost"] \in Call
  BY DEF Call
<1> QED
  BY <1>1, ProceedInv DEF CreatePost, Begin, IInv, TypeOK

LEMMA StorePostInv ==
  ASSUME IInv, NEW r \in Requests, NEW p \in Posts,
         NEW state \in {"open", "locked"}, StorePost(r, p, state)
  PROVE  IInv'
BY IdleOK, ProceedInv DEF StorePost, IInv, TypeOK, PostStates

LEMMA ManageInv ==
  ASSUME IInv, NEW state \in {"open", "locked", "removed"},
         ManageBoard(state) \/ \E p \in Posts : ManagePost(p, state)
  PROVE  IInv'
<1> USE DEF IInv, ManageBoard, ManagePost
<1>1. TypeOK'
  BY DEF TypeOK, PostStates
<1>2. AnswersTrue' /\ RepliesOneDeep' /\ CallsInv'
  BY DEF AnswersTrue, RepliesOneDeep, CallsInv, IsParent, Used
<1> QED
  BY <1>1, <1>2

LEMMA VoteInv ==
  ASSUME IInv, NEW r \in Requests, NEW u \in Users, NEW p \in Posts, Vote(r, u, p)
  PROVE  IInv'
<1>1. [step |-> "toggle", user |-> u, post |-> p] \in Call
  BY DEF Call
<1> QED
  BY <1>1, ProceedInv DEF Vote, Begin, IInv, TypeOK

LEMMA TogglePostVoteInv ==
  ASSUME IInv, NEW r \in Requests, TogglePostVote(r)
  PROVE  IInv'
<1> DEFINE u == call[r].user
           p == call[r].post
<1>1. u \in Users /\ p \in Posts /\ votes[u, p] \in Nat
  BY CallFields DEF TogglePostVote, IInv, TypeOK
<1>2. CASE Proceed(r, [step |-> "vote", user |-> u, post |-> p])
  <2>1. [step |-> "vote", user |-> u, post |-> p] \in Call
    BY <1>1 DEF Call
  <2> QED
    BY <1>2, <2>1, ProceedInv DEF TogglePostVote, IInv, TypeOK
<1>3. CASE Proceed(r, [step |-> "unvote", user |-> u, post |-> p,
                       key |-> votes[u, p]])
  <2>1. [step |-> "unvote", user |-> u, post |-> p, key |-> votes[u, p]] \in Call
    BY <1>1 DEF Call
  <2> QED
    BY <1>3, <2>1, ProceedInv DEF TogglePostVote, IInv, TypeOK
<1> QED
  BY <1>2, <1>3 DEF TogglePostVote

\* The two writes of a vote leave posts and comments alone.
LEMMA VoteWritten ==
  ASSUME IInv, NEW r \in Requests, CreatePostVote(r) \/ DeletePostVote(r)
  PROVE  IInv'
<1> DEFINE x == <<call[r].user, call[r].post>>
<1> USE DEF IInv, CreatePostVote, DeletePostVote
<1>1. x \in Users \X Posts
  BY CallFields
<1>2. \/ cast' = cast + 1 /\ votes' = [votes EXCEPT ![x] = cast']
         /\ told' = [told EXCEPT ![x] = TRUE]
      \/ cast' = cast /\ votes' = [votes EXCEPT ![x] = 0]
         /\ told' = [told EXCEPT ![x] = FALSE]
  OBVIOUS
<1>3. Proceed(r, Idle) /\ UNCHANGED <<board, posts, comments>>
  OBVIOUS
<1>4. TypeOK'
  <2> HIDE DEF x
  <2>1. cast' \in Nat /\ votes' \in [Users \X Posts -> Nat]
    BY <1>1, <1>2 DEF TypeOK
  <2>2. told' \in [Users \X Posts -> BOOLEAN]
    BY <1>1, <1>2 DEF TypeOK
  <2>3. call' \in [Requests -> Call]
    BY <1>3, IdleOK DEF TypeOK, Proceed
  <2> QED
    BY <1>3, <2>1, <2>2, <2>3 DEF TypeOK
<1>5. AnswersTrue'
  BY <1>1, <1>2 DEF AnswersTrue, TypeOK
<1>6. RepliesOneDeep'
  BY <1>3 DEF RepliesOneDeep, Used
<1>7. CallsInv'
  BY <1>3, IdleOK DEF CallsInv, Proceed, TypeOK, IsParent, Used
<1> QED
  BY <1>4, <1>5, <1>6, <1>7

-----------------------------------------------------------------------------
LEMMA CreateCommentInv ==
  ASSUME IInv, NEW r \in Requests, NEW p \in Posts,
         NEW parent \in CommentIds \cup {None}, CreateComment(r, p, parent)
  PROVE  IInv'
<1> DEFINE c == [step |-> IF parent = None THEN "comment" ELSE "parent",
                 post |-> p, parent |-> parent]
<1>1. c \in Call
  BY DEF Call
<1>2. c.step = "comment" => IsParent(c.parent, c.post)
  BY DEF IsParent
<1> QED
  BY <1>1, <1>2, ProceedInv DEF CreateComment, Begin, IInv, TypeOK

LEMMA FindParentInv ==
  ASSUME IInv, NEW r \in Requests, FindParent(r)
  PROVE  IInv'
<1> DEFINE c == [step |-> "comment", post |-> call[r].post,
                 parent |-> call[r].parent]
<1>1. /\ call[r].post \in Posts
      /\ call[r].parent \in CommentIds \cup {None}
  BY CallFields DEF FindParent, IInv
<1>2. c \in Call
  BY <1>1 DEF Call
<1>3. IsParent(c.parent, c.post)
  BY <1>1 DEF FindParent, IsParent, Used
<1> QED
  BY <1>1, <1>2, <1>3, ProceedInv DEF FindParent, IInv, TypeOK

\* Two rows of comment are written: a new one and a removal.
LEMMA CommentsKept ==
  ASSUME IInv, \A c \in CommentIds : Keeps(c),
         call' = call \/ \E r \in Requests : Proceed(r, Idle)
  PROVE  CallsInv'
<1> SUFFICES ASSUME NEW q \in Requests, call'[q].step = "comment"
             PROVE  IsParent(call[q].parent, call[q].post)'
  BY DEF CallsInv
<1>1. call'[q] = call[q]
  BY IdleOK DEF Proceed, IInv, TypeOK
<1>2. IsParent(call[q].parent, call[q].post)
  BY <1>1 DEF CallsInv, IInv
<1>3. call[q].parent \in CommentIds \cup {None}
  BY <1>1, CallFields DEF IInv
<1>4. \A parent \in CommentIds \cup {None}, post \in Posts :
        IsParent(parent, post) => IsParent(parent, post)'
  BY ParentStays
<1> QED
  BY <1>1, <1>2, <1>3, <1>4, CallFields DEF IInv

LEMMA StoreCommentInv ==
  ASSUME IInv, NEW r \in Requests, NEW c \in CommentIds, StoreComment(r, c)
  PROVE  IInv'
<1> DEFINE row == [state |-> "active", post |-> call[r].post,
                   parent |-> call[r].parent]
<1> USE DEF IInv
<1>1. /\ row \in Comment
      /\ row.parent \in CommentIds \cup {None}
      /\ comments' = [comments EXCEPT ![c] = row]
  BY CallFields DEF StoreComment, Comment
<1>2. IsParent(row.parent, row.post)
  BY DEF StoreComment, CallsInv
<1>3. \A d \in CommentIds : Keeps(d)
  BY <1>1 DEF StoreComment, Keeps, Used, TypeOK
<1>4. TypeOK'
  BY <1>1, IdleOK DEF StoreComment, TypeOK, Proceed
<1>5. AnswersTrue'
  BY DEF StoreComment, AnswersTrue
<1>6. RepliesOneDeep'
  <2> SUFFICES ASSUME NEW d \in CommentIds, Used(d)', comments'[d].parent # None
               PROVE  IsParent(comments[d].parent, comments[d].post)'
    BY DEF RepliesOneDeep, IsParent, Used
  <2>1. CASE d = c
    <3>1. comments'[d].parent = row.parent /\ comments'[d].post = row.post
      BY <1>1, <2>1 DEF TypeOK
    <3> QED
      BY <1>1, <1>2, <1>3, <3>1 DEF IsParent, Keeps
  <2>2. CASE d # c
    <3>1. comments'[d] = comments[d] /\ Used(d)
      BY <1>1, <2>2 DEF TypeOK, Used
    <3>2. comments[d].parent \in CommentIds
      BY <3>1, CommentFields
    <3>3. IsParent(comments[d].parent, comments[d].post)
      BY <3>1 DEF RepliesOneDeep, IsParent, Used
    <3> QED
      BY <1>3, <3>1, <3>2, <3>3 DEF IsParent, Keeps
  <2> QED
    BY <2>1, <2>2
<1>7. CallsInv'
  BY <1>3, CommentsKept DEF StoreComment
<1> QED
  BY <1>4, <1>5, <1>6, <1>7

LEMMA DeleteCommentInv ==
  ASSUME IInv, NEW c \in CommentIds, DeleteComment(c)
  PROVE  IInv'
<1> USE DEF IInv
<1>1. comments[c] \in Comment
  BY CommentFields DEF DeleteComment, Used
<1>2. \A d \in CommentIds : Keeps(d)
  BY <1>1 DEF DeleteComment, Keeps, Used, TypeOK, Comment
<1>3. TypeOK'
  BY <1>1 DEF DeleteComment, TypeOK, Comment
<1>4. AnswersTrue'
  BY DEF DeleteComment, AnswersTrue
<1>5. RepliesOneDeep'
  <2> SUFFICES ASSUME NEW d \in CommentIds, Used(d)', comments'[d].parent # None
               PROVE  IsParent(comments[d].parent, comments[d].post)'
    BY DEF RepliesOneDeep, IsParent, Used
  <2>1. Used(d)
    BY <1>1 DEF DeleteComment, Used, TypeOK
  <2>2. /\ comments'[d].parent = comments[d].parent
        /\ comments'[d].post = comments[d].post
        /\ comments[d].parent \in CommentIds
    BY <1>2, <2>1, CommentFields DEF Keeps
  <2>3. IsParent(comments[d].parent, comments[d].post)
    BY <2>1, <2>2 DEF RepliesOneDeep, IsParent, Used
  <2> QED
    BY <1>2, <2>2, <2>3 DEF IsParent, Keeps
<1>6. CallsInv'
  BY <1>2, CommentsKept DEF DeleteComment
<1> QED
  BY <1>3, <1>4, <1>5, <1>6

LEMMA DropInv ==
  ASSUME IInv, NEW r \in Requests, Drop(r)
  PROVE  IInv'
BY IdleOK, ProceedInv DEF Drop, IInv, TypeOK

LEMMA NextInv == IInv /\ [Next]_vars => IInv'
<1> SUFFICES ASSUME IInv, [Next]_vars PROVE IInv'
  OBVIOUS
<1>1. ASSUME NEW r \in Requests, PostRequest(r) PROVE IInv'
  BY <1>1, CreatePostInv, StorePostInv, VoteInv, TogglePostVoteInv, VoteWritten,
     CreateCommentInv, FindParentInv, StoreCommentInv, DropInv DEF PostRequest
<1>2. ASSUME NEW state \in {"open", "locked", "removed"},
             ManageBoard(state) \/ \E p \in Posts : ManagePost(p, state)
      PROVE  IInv'
  BY <1>2, ManageInv
<1>3. ASSUME NEW c \in CommentIds, DeleteComment(c) PROVE IInv'
  BY <1>3, DeleteCommentInv
<1>4. CASE UNCHANGED vars
  BY <1>4 DEF vars, IInv, TypeOK, AnswersTrue, RepliesOneDeep, CallsInv,
              IsParent, Used
<1> QED
  BY <1>1, <1>2, <1>3, <1>4 DEF Next

THEOREM Invariance == Spec => []IInv
BY InitInv, NextInv, PTL DEF Spec
-----------------------------------------------------------------------------
(* The variables stay in their types. *)
THEOREM TypeCorrect == Spec => []TypeOK
<1>1. IInv => TypeOK
  BY DEF IInv
<1> QED
  BY <1>1, Invariance, PTL

(* Whatever toggles of votes overlap, the last that went through answered  *)
(* what the table says.                                                    *)
THEOREM VoteAnswers == Spec => []AnswersTrue
<1>1. IInv => AnswersTrue
  BY DEF IInv
<1> QED
  BY <1>1, Invariance, PTL

(* However long a reply is under way, and whatever is removed meanwhile,   *)
(* it ends up under a comment of its post that is no reply.                *)
THEOREM RepliesStayFlat == Spec => []RepliesOneDeep
<1>1. IInv => RepliesOneDeep
  BY DEF IInv
<1> QED
  BY <1>1, Invariance, PTL

-----------------------------------------------------------------------------
(* Threads implements Forum.  A vote and a comment are written some steps  *)
(* after their post was found, a vote is withdrawn by the key that was     *)
(* read: what a request knows by then.                                     *)
Addressed == {"toggle", "vote", "unvote", "parent", "comment"}

Informed(c) ==
  /\ c.step \in Addressed => posts[c.post] # "unused"
  /\ c.step = "unvote" => c.key # 0

AllInformed == \A r \in Requests : Informed(call[r])

Published == {p \in Posts : posts[p] # "unused"}
Voted == {x \in Users \X Posts : votes[x] # 0}

\* A post that was created is never unused again.
LEMMA PostsStay ==
  ASSUME TypeOK, [Next]_vars, NEW p \in Posts, posts[p] # "unused"
  PROVE  posts'[p] # "unused"
<1>1. CASE posts' = posts
  BY <1>1
<1>2. ASSUME NEW q \in Posts, NEW state \in {"open", "locked", "removed"},
             posts' = [posts EXCEPT ![q] = state]
      PROVE  posts'[p] # "unused"
  BY <1>2 DEF TypeOK
<1> QED
  BY <1>1, <1>2 DEF Next, vars, PostRequest, CreatePost, Vote, CreateComment, Begin,
     StorePost, TogglePostVote, CreatePostVote, DeletePostVote, FindParent,
     StoreComment, Drop, ManageBoard, ManagePost, DeleteComment

\* The requests that go on: where each of them stands after the step.
LEMMA CallsInformed ==
  ASSUME TypeOK, AllInformed, NEW r \in Requests, PostRequest(r)
  PROVE  \E c : Proceed(r, c) /\ Informed(c)
<1>1. Informed(Idle) /\ Informed([step |-> "createPost"])
  BY DEF Informed, Idle, Addressed
<1>2. ASSUME NEW u \in Users, NEW p \in Posts, Vote(r, u, p) PROVE
        \E c : Proceed(r, c) /\ Informed(c)
  <2>1. Informed([step |-> "toggle", user |-> u, post |-> p])
    BY <1>2 DEF Vote, Informed, Addressed
  <2> QED
    BY <1>2, <2>1 DEF Vote, Begin
<1>3. CASE TogglePostVote(r)
  <2> DEFINE x == <<call[r].user, call[r].post>>
             on == [step |-> "vote", user |-> call[r].user, post |-> call[r].post]
             off == [step |-> "unvote", user |-> call[r].user, post |-> call[r].post,
                     key |-> votes[x]]
  <2>1. posts[call[r].post] # "unused"
    BY <1>3 DEF TogglePostVote, AllInformed, Informed, Addressed
  <2>2. Informed(on) /\ (votes[x] # 0 => Informed(off))
    BY <2>1 DEF Informed, Addressed
  <2>3. Proceed(r, on) \/ (votes[x] # 0 /\ Proceed(r, off))
    BY <1>3 DEF TogglePostVote
  <2> HIDE DEF on, off
  <2> QED
    BY <2>2, <2>3
<1>4. ASSUME NEW p \in Posts, NEW parent \in CommentIds \cup {None},
             CreateComment(r, p, parent)
      PROVE  \E c : Proceed(r, c) /\ Informed(c)
  <2> DEFINE new == [step |-> IF parent = None THEN "comment" ELSE "parent",
                     post |-> p, parent |-> parent]
  <2>1. Informed(new) /\ Proceed(r, new)
    BY <1>4 DEF CreateComment, Begin, Informed, Addressed
  <2> QED
    BY <2>1
<1>5. CASE FindParent(r)
  <2> DEFINE new == [step |-> "comment", post |-> call[r].post,
                     parent |-> call[r].parent]
  <2>1. Informed(new) /\ Proceed(r, new)
    BY <1>5 DEF FindParent, AllInformed, Informed, Addressed
  <2> QED
    BY <2>1
<1> QED
  BY <1>1, <1>2, <1>3, <1>4, <1>5 DEF PostRequest, CreatePost, Begin, StorePost,
     CreatePostVote, DeletePostVote, StoreComment, Drop

LEMMA NextInformed == IInv /\ AllInformed /\ [Next]_vars => AllInformed'
<1> SUFFICES ASSUME IInv, AllInformed, [Next]_vars, NEW q \in Requests
             PROVE  Informed(call[q])'
  BY DEF AllInformed
<1>1. TypeOK /\ TypeOK'
  BY NextInv DEF IInv
<1>2. call'[q].step \in Addressed => call'[q].post \in Posts
  BY <1>1 DEF TypeOK, Call, Idle, Addressed
<1>3. Informed(call'[q]) => Informed(call[q])'
  BY <1>1, <1>2, PostsStay DEF Informed
<1>4. CASE call'[q] = call[q]
  BY <1>3, <1>4 DEF AllInformed
<1>5. CASE call'[q] # call[q]
  <2>1. PICK r \in Requests : PostRequest(r)
    BY <1>5 DEF Next, vars, ManageBoard, ManagePost, DeleteComment
  <2>2. PICK c : Proceed(r, c) /\ Informed(c)
    BY <1>1, <2>1, CallsInformed
  <2>3. call'[q] = c
    BY <1>1, <1>5, <2>2 DEF Proceed, TypeOK
  <2> QED
    BY <1>3, <2>2, <2>3
<1> QED
  BY <1>4, <1>5

\* What a vote writes.
LEMMA VoteToggles ==
  ASSUME IInv, AllInformed, NEW r \in Requests, CreatePostVote(r) \/ DeletePostVote(r)
  PROVE  F!Next
<1>1. /\ call[r].user \in Users /\ call[r].post \in Posts
      /\ posts[call[r].post] # "unused"
      /\ call[r].step = "unvote" => call[r].key # 0
  BY CallFields DEF CreatePostVote, DeletePostVote, IInv, AllInformed, Informed, Addressed
<1>2. PICK x \in Users \X Posts : x = <<call[r].user, call[r].post>>
  BY <1>1
<1>3. /\ UNCHANGED <<posts, comments>>
      /\ \/ /\ votes[x] = 0
            /\ told' = [told EXCEPT ![x] = TRUE]
            /\ \E k \in Nat \ {0} : votes' = [votes EXCEPT ![x] = k]
         \/ /\ votes[x] # 0
            /\ told' = [told EXCEPT ![x] = FALSE]
            /\ votes' = [votes EXCEPT ![x] = 0]
  <2>1. CASE CreatePostVote(r)
    <3>1. cast' \in Nat \ {0}
      BY <2>1 DEF CreatePostVote, IInv, TypeOK
    <3> QED
      BY <1>2, <2>1, <3>1 DEF CreatePostVote
  <2>2. CASE DeletePostVote(r)
    BY <1>1, <1>2, <2>2 DEF DeletePostVote
  <2> QED
    BY <2>1, <2>2
<1>4. x[2] \in Published
  BY <1>1, <1>2 DEF Published
<1>5. \A y \in Users \X Posts :
        IF y = x THEN y \in Voted' <=> y \notin Voted ELSE y \in Voted' <=> y \in Voted
  BY <1>3 DEF Voted, IInv, TypeOK
<1>6. Voted' = IF x \in Voted THEN Voted \ {x} ELSE Voted \cup {x}
  <2>1. Voted \subseteq Users \X Posts /\ Voted' \subseteq Users \X Posts
    BY DEF Voted
  <2> QED
    BY <1>5, <2>1
<1>7. told' = [told EXCEPT ![x] = x \notin Voted]
  <2>1. CASE votes[x] = 0
    BY <1>3, <2>1 DEF Voted
  <2>2. CASE votes[x] # 0
    BY <1>3, <2>2 DEF Voted
  <2> QED
    BY <2>1, <2>2
<1>8. Published' = Published /\ comments' = comments
  BY <1>3 DEF Published
<1>9. F!Toggle(x)
  BY <1>4, <1>6, <1>7, <1>8 DEF F!Toggle, Published, Voted
<1> QED
  BY <1>9 DEF F!Next

LEMMA StoreCommentSays ==
  ASSUME IInv, AllInformed, NEW r \in Requests, NEW c \in CommentIds, StoreComment(r, c)
  PROVE  F!Next
<1> DEFINE p == call[r].post
           parent == call[r].parent
<1>1. p \in Posts /\ parent \in CommentIds \cup {None}
  BY CallFields DEF StoreComment, IInv
<1>2. p \in Published /\ F!MayHang(parent, p)
  BY <1>1 DEF StoreComment, AllInformed, Informed, Addressed, IInv, CallsInv, IsParent,
     Published, F!MayHang, F!Said, Used
<1>3. F!Say(c, p, parent)
  BY <1>1, <1>2 DEF StoreComment, F!Say, F!Said, Used, Published
<1> QED
  BY <1>1, <1>3 DEF F!Next

LEMMA StepSimulation ==
  IInv /\ AllInformed /\ [Next]_vars => F!Next \/ UNCHANGED F!fVars
<1> SUFFICES ASSUME IInv, AllInformed, [Next]_vars PROVE F!Next \/ UNCHANGED F!fVars
  OBVIOUS
<1> USE DEF IInv
<1>1. CASE UNCHANGED <<posts, votes, told, comments>>
  BY <1>1 DEF F!fVars
<1>2. ASSUME NEW r \in Requests, NEW p \in Posts, NEW state \in {"open", "locked"},
             StorePost(r, p, state)
      PROVE  F!Next
  <2>1. Published' = Published \cup {p}
    BY <1>2 DEF StorePost, Published, TypeOK
  <2>2. F!Publish(p)
    BY <1>2, <2>1 DEF StorePost, F!Publish, Published
  <2> QED
    BY <2>2 DEF F!Next
<1>3. ASSUME NEW p \in Posts, NEW state \in {"open", "locked", "removed"},
             ManagePost(p, state)
      PROVE  UNCHANGED F!fVars
  <2>1. Published' = Published
    BY <1>3 DEF ManagePost, Found, Published, TypeOK
  <2> QED
    BY <1>3, <2>1 DEF ManagePost, F!fVars, Published
<1>4. ASSUME NEW c \in CommentIds, DeleteComment(c) PROVE F!Next
  BY <1>4 DEF DeleteComment, F!TakeBack, F!Next
<1> QED
  BY <1>1, <1>2, <1>3, <1>4, VoteToggles, StoreCommentSays DEF Next, vars, PostRequest,
     CreatePost, Vote, CreateComment, Begin, TogglePostVote, FindParent, Drop, ManageBoard

(* Threads implements Forum: to those who look at the pages, every toggle  *)
(* that goes through is one step that turns the vote and answers so, and   *)
(* comments stay where they were put, two levels deep.                     *)
THEOREM Refinement == Spec => ImplementsForum
<1>1. Init => AllInformed
  BY DEF Init, AllInformed, Informed, Idle, Addressed
<1>2. Init => F!Init
  BY DEF Init, F!Init, NoComment, F!Unsaid
<1>3. IInv /\ AllInformed /\ [Next]_vars => [F!Next]_F!fVars
  BY StepSimulation
<1> QED
  BY <1>1, <1>2, <1>3, NextInformed, Invariance, PTL DEF Spec, ImplementsForum, F!Spec
=============================================================================

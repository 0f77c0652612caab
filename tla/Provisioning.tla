---------------------------- MODULE Provisioning ----------------------------
(***************************************************************************)
(* A new organization and its statuses.  POST /organizations answers as    *)
(* soon as the row is in; the listener of organization.created then makes  *)
(* a board, the tags, the initial statuses and the default one, and points *)
(* the organization at it: five queries, one after the other, with no      *)
(* transaction around them and nobody to resume them.  Meanwhile the owner *)
(* edits statuses and people post.                                         *)
(*                                                                         *)
(* One organization is modelled.  A status row is only ever soft-deleted,  *)
(* and the unique key (organizationId, name) counts deleted rows too.      *)
(***************************************************************************)
EXTENDS Naturals, FiniteSets, Functions

CONSTANTS
  StatusIds,      \* primary keys of status
  Names,          \* status names
  InitialNames,   \* the names of createInitialStatusForOrg's list
  DefaultName,    \* 'Aberto'
  PostIds,        \* primary keys of post, one per request that creates one
  None            \* null

ASSUME NamesKnown ==
  /\ InitialNames \subseteq Names
  /\ DefaultName \in Names \ InitialNames
ASSUME NoneIsNoId == None \notin StatusIds \cup Names

VARIABLES
  stage,          \* what the listener does next
  hasBoard,       \* the organization has a board to post on
  statusName,     \* statusName[s]: the name of row s, None if unused
  deleted,        \* the statuses with deletedAt set
  held,           \* the default status' id, between its creation and its use
  defaultStatus,  \* organization.default_status_id
  posts           \* posts[p]: the post of request p

vars == <<stage, hasBoard, statusName, deleted, held, defaultStatus, posts>>

\* "none": no organization yet; "failed": the listener threw or died.
Stages == {"none", "board", "tags", "initial", "default", "point", "done", "failed"}

Post == [state : {"unused", "sent", "stored", "lost"},
         author : {"member", "manager"},
         status : StatusIds \cup {None}]

TypeOK ==
  /\ stage \in Stages
  /\ hasBoard \in BOOLEAN
  /\ statusName \in [StatusIds -> Names \cup {None}]
  /\ deleted \subseteq StatusIds
  /\ held \in StatusIds \cup {None}
  /\ defaultStatus \in StatusIds \cup {None}
  /\ posts \in [PostIds -> Post]

Init ==
  /\ stage = "none"
  /\ hasBoard = FALSE
  /\ statusName = [s \in StatusIds |-> None]
  /\ deleted = {}
  /\ held = None
  /\ defaultStatus = None
  /\ posts = [p \in PostIds |->
                [state |-> "unused", author |-> "member", status |-> None]]

Rows == {s \in StatusIds : statusName[s] # None}
Free == StatusIds \ Rows
Taken(n) == \E s \in Rows : statusName[s] = n

-----------------------------------------------------------------------------
(* POST /organizations: the row, its owner, and the event. *)
CreateOrganization ==
  /\ stage = "none"
  /\ stage' = "board"
  /\ UNCHANGED <<hasBoard, statusName, deleted, held, defaultStatus, posts>>

CreateDefaultBoard ==
  /\ stage = "board"
  /\ hasBoard' = TRUE
  /\ stage' = "tags"
  /\ UNCHANGED <<statusName, deleted, held, defaultStatus, posts>>

\* Tag names are not unique: nothing a user does gets in the way.
CreateDefaultTags ==
  /\ stage = "tags"
  /\ stage' = "initial"
  /\ UNCHANGED <<hasBoard, statusName, deleted, held, defaultStatus, posts>>

(* createMany: one INSERT, so a name that is taken fails all of them. *)
CreateInitialStatuses ==
  /\ stage = "initial"
  /\ \/ /\ \E n \in InitialNames : Taken(n)
        /\ stage' = "failed"
        /\ UNCHANGED statusName
     \/ /\ \A n \in InitialNames : ~Taken(n)
        /\ \E row \in Injection(InitialNames, Free) :
             statusName' = [s \in StatusIds |->
               IF \E n \in InitialNames : row[n] = s
                 THEN CHOOSE n \in InitialNames : row[n] = s
                 ELSE statusName[s]]
        /\ stage' = "default"
  /\ UNCHANGED <<hasBoard, deleted, held, defaultStatus, posts>>

\* Mutant: a name that is taken is tried again until it is free.
MutantInsist ==
  /\ stage = "default"
  /\ \/ Taken(DefaultName) /\ UNCHANGED <<stage, statusName, held>>
     \/ /\ ~Taken(DefaultName)
        /\ \E s \in Free :
             /\ statusName' = [statusName EXCEPT ![s] = DefaultName]
             /\ held' = s
        /\ stage' = "point"
  /\ UNCHANGED <<hasBoard, deleted, defaultStatus, posts>>

CreateDefaultStatus ==
  /\ stage = "default"
  /\ \/ /\ Taken(DefaultName)
        /\ stage' = "failed"
        /\ UNCHANGED <<statusName, held>>
     \/ /\ ~Taken(DefaultName)
        /\ \E s \in Free :
             /\ statusName' = [statusName EXCEPT ![s] = DefaultName]
             /\ held' = s
        /\ stage' = "point"
  /\ UNCHANGED <<hasBoard, deleted, defaultStatus, posts>>

\* Mutant: the default status is looked up by its name.
MutantByName ==
  /\ stage = "point"
  /\ \E s \in Rows : statusName[s] = DefaultName /\ defaultStatus' = s
  /\ stage' = "done"
  /\ UNCHANGED <<hasBoard, statusName, deleted, held, posts>>

SetDefaultStatus ==
  /\ stage = "point"
  /\ defaultStatus' = held
  /\ stage' = "done"
  /\ UNCHANGED <<hasBoard, statusName, deleted, held, posts>>

Working == stage \notin {"none", "done", "failed"}

\* A query of the listener fails: the rest of it never runs.
ListenerFails ==
  /\ Working
  /\ stage' = "failed"
  /\ UNCHANGED <<hasBoard, statusName, deleted, held, defaultStatus, posts>>

HandleOrganizationCreated ==
  \/ CreateDefaultBoard
  \/ CreateDefaultTags
  \/ CreateInitialStatuses
  \/ CreateDefaultStatus
  \/ SetDefaultStatus

-----------------------------------------------------------------------------
\* The requests of owners and admins, each with its guard one step.  Only a
\* guard asks for deletedAt, so a rename that passed it may find its row
\* removed when it is written, and writes it all the same.
CreateBoard ==
  /\ stage # "none"
  /\ hasBoard' = TRUE
  /\ UNCHANGED <<stage, statusName, deleted, held, defaultStatus, posts>>

\* Mutant: only the rows that are not deleted hold their name.
MutantLiveNames(s, n) ==
  /\ stage # "none"
  /\ s \in Free
  /\ ~\E t \in Rows \ deleted : statusName[t] = n
  /\ statusName' = [statusName EXCEPT ![s] = n]
  /\ UNCHANGED <<stage, hasBoard, deleted, held, defaultStatus, posts>>

CreateStatus(s, n) ==
  /\ stage # "none"
  /\ s \in Free
  /\ ~Taken(n)
  /\ statusName' = [statusName EXCEPT ![s] = n]
  /\ UNCHANGED <<stage, hasBoard, deleted, held, defaultStatus, posts>>

UpdateStatus(s, n) ==
  /\ s \in Rows
  /\ ~Taken(n)
  /\ statusName' = [statusName EXCEPT ![s] = n]
  /\ UNCHANGED <<stage, hasBoard, deleted, held, defaultStatus, posts>>

\* Mutant: the organization that points at the status is made to point at none.
MutantSetNull(s) ==
  /\ s \in Rows \ deleted
  /\ deleted' = deleted \cup {s}
  /\ defaultStatus' = IF defaultStatus = s THEN None ELSE defaultStatus
  /\ UNCHANGED <<stage, hasBoard, statusName, held, posts>>

\* Whether the status is the organization's default is not asked.
RemoveStatus(s) ==
  /\ s \in Rows \ deleted
  /\ deleted' = deleted \cup {s}
  /\ UNCHANGED <<stage, hasBoard, statusName, held, defaultStatus, posts>>

(* POST /posts: a member's post takes the default status as it is read; a  *)
(* manager's takes what the request says.  It is stored later.             *)
SendPost(p, author, status) ==
  /\ hasBoard
  /\ posts[p].state = "unused"
  /\ author = "member" => status = defaultStatus
  /\ posts' = [posts EXCEPT ![p] =
                 [state |-> "sent", author |-> author, status |-> status]]
  /\ UNCHANGED <<stage, hasBoard, statusName, deleted, held, defaultStatus>>

\* Mutant: a state that no post has.
MutantState(p) ==
  /\ posts[p].state = "sent"
  /\ posts' = [posts EXCEPT ![p].state = "draft"]
  /\ UNCHANGED <<stage, hasBoard, statusName, deleted, held, defaultStatus>>

StorePost(p) ==
  /\ posts[p].state = "sent"
  /\ posts' = [posts EXCEPT ![p].state = "stored"]
  /\ UNCHANGED <<stage, hasBoard, statusName, deleted, held, defaultStatus>>

\* The process restarts: what was in flight is gone, listener included.
Restart ==
  /\ stage' = IF Working THEN "failed" ELSE stage
  /\ posts' = [p \in PostIds |-> IF posts[p].state = "sent"
                                   THEN [posts[p] EXCEPT !.state = "lost"]
                                   ELSE posts[p]]
  /\ UNCHANGED <<hasBoard, statusName, deleted, held, defaultStatus>>

Next ==
  \/ CreateOrganization
  \/ HandleOrganizationCreated
  \/ ListenerFails
  \/ CreateBoard
  \/ \E s \in StatusIds, n \in Names : CreateStatus(s, n) \/ UpdateStatus(s, n)
  \/ \E s \in StatusIds : RemoveStatus(s)
  \/ \E p \in PostIds, author \in {"member", "manager"}, s \in Rows \cup {None} :
       SendPost(p, author, s)
  \/ \E p \in PostIds : StorePost(p)
  \/ Restart

Spec == Init /\ [][Next]_vars

\* The listener's next query is sent as soon as the last one returned.
FairSpec == Spec /\ WF_vars(HandleOrganizationCreated)

-----------------------------------------------------------------------------
(* NamesUnique: no two statuses of an organization have one name, deleted  *)
(* ones included, whoever of the listener and the owner creates or renames *)
(* them first.                                                             *)
NamesUnique ==
  \A s, t \in Rows : statusName[s] = statusName[t] => s = t

(* DefaultIsTheListeners: the organization points at a status exactly once *)
(* the listener has finished, and then at the row it made for it; a member *)
(* posting meanwhile gets that status or none, never another.              *)
DefaultIsTheListeners ==
  /\ defaultStatus # None <=> stage = "done"
  /\ defaultStatus # None => defaultStatus = held /\ held \in Rows
  /\ \A p \in PostIds : posts[p].author = "member" => posts[p].status \in {None, defaultStatus}

(* StatuslessOnlyEarly: once the listener has finished, no member's post   *)
(* comes to be without a status: those that are were sent before, and      *)
(* neither a removal of the default status nor a restart adds to them.     *)
(* It is about creation only: that a manager later takes a post's status   *)
(* away, by PATCH settings with null, is a step of PostChanges.            *)
Statusless ==
  {p \in PostIds : /\ posts[p].state # "unused"
                   /\ posts[p].author = "member"
                   /\ posts[p].status = None}
StatuslessOnlyEarly == [][stage = "done" => Statusless' \subseteq Statusless]_vars

(* ListenerEnds: a listener that was started comes to an end, with every   *)
(* step done or with an error, whatever statuses people create meanwhile.  *)
ListenerEnds == Working ~> stage \in {"done", "failed"}

(* MemberPostsHaveStatus, which the code does not keep: a post created by  *)
(* a member has a status (the code asserts defaultStatusId!).              *)
MemberPostsHaveStatus ==
  \A p \in PostIds :
    posts[p].state = "stored" /\ posts[p].author = "member" => posts[p].status # None
=============================================================================

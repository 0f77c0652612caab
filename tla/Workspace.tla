----------------------------- MODULE Workspace ------------------------------
(***************************************************************************)
(* The components around the posts: notifications, roadmaps, avatars, and  *)
(* the changes of a post's status and tags.                                *)
(*                                                                         *)
(* No handler of one reads or writes a table, a file or a Map of another:  *)
(* what they have in common is an event with an author and an actor, which *)
(* Notifications lets occur at any time.  A behaviour of all of them is    *)
(* therefore for each one a behaviour of that one and steps that leave its *)
(* variables alone, which no property below can tell from none.  A         *)
(* behaviour of Workspace takes the steps of one component, any of them.   *)
(***************************************************************************)
EXTENDS Naturals

CONSTANTS Users, Events, Streams,
          Roadmaps, Columns, Posts, Positions, MaxItems,
          MaxKeys,
          Null,
          Statuses, Tags, MaxReplacements,
          Requests

VARIABLES
  part,                                             \* who takes the steps
  handlers, rows, connections, tabs,                \* Notifications
  roadmaps, columns, items, created, roadmapCall,   \* Roadmap
  issued, files, avatarUrl, confirmed, doubtful, avatarCall,          \* Avatars
  status, announced, smooth, live, tags, replaced, count, changeCall  \* PostChanges

nVars == <<handlers, rows, connections, tabs>>
rVars == <<roadmaps, columns, items, created, roadmapCall>>
aVars == <<issued, files, avatarUrl, confirmed, doubtful, avatarCall>>
cVars == <<status, announced, smooth, live, tags, replaced, count, changeCall>>
vars == <<part, nVars, rVars, aVars, cVars>>

N == INSTANCE Notifications
R == INSTANCE Roadmap WITH call <- roadmapCall
A == INSTANCE Avatars WITH call <- avatarCall
C == INSTANCE PostChanges WITH call <- changeCall

Init ==
  /\ part \in {"notifications", "roadmap", "avatars", "changes"}
  /\ N!Init /\ R!Init /\ A!Init /\ C!Init

Next ==
  /\ UNCHANGED part
  /\ \/ part = "notifications" /\ N!Next /\ UNCHANGED <<rVars, aVars, cVars>>
     \/ part = "roadmap" /\ R!Next /\ UNCHANGED <<nVars, aVars, cVars>>
     \/ part = "avatars" /\ A!Next /\ UNCHANGED <<nVars, rVars, cVars>>
     \/ part = "changes" /\ C!Next /\ UNCHANGED <<nVars, rVars, aVars>>

Spec == Init /\ [][Next]_vars

-----------------------------------------------------------------------------
\* The properties of the components, each stated and explained in its module.

(* TypeOK: the tables, Maps and requests hold what the schema and the code *)
(* put there.                                                              *)
TypeOK == N!TypeOK /\ R!TypeOK /\ A!TypeOK /\ C!TypeOK

(* NothingMissed: no notification falls between the list and the stream.   *)
NothingMissed == N!NothingMissed

(* OwnNewsOnly: a tab shows stored notifications of its own user.          *)
OwnNewsOnly == N!OwnNewsOnly

(* ImplementsInbox: a notification is sent once and never comes back, and  *)
(* an open tab gains its user's and loses none.                            *)
ImplementsInbox == N!ImplementsInbox

(* ImplementsPlacement: a post is in one column of the roadmaps at most.   *)
ImplementsPlacement == R!ImplementsPlacement

(* ReordersWhole: a reorder happens whole, in one column.                  *)
ReordersWhole == R!ReordersWhole

(* RestsOnFile: an avatar's key is that of a file, but where none was      *)
(* there when it was confirmed, or a confirmation was repeated, is under   *)
(* way or was cut short.                                                   *)
RestsOnFile == A!RestsOnFile

(* ChangesAnnounced: the author was told of the post's status, if it has   *)
(* one, unless changes overlapped or were cut short.                       *)
ChangesAnnounced == C!ChangesAnnounced

(* TagsReplaced: the tags of a replacement go together, unless a later one *)
(* had begun before it was committed.                                      *)
TagsReplaced == C!TagsReplaced

(* LastTagsWin: the post has the tags of the last replacement alone, if it *)
(* did not overlap another.                                                *)
LastTagsWin == C!LastTagsWin
=============================================================================

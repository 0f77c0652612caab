-------------------------- MODULE WorkspaceProofs ---------------------------
(***************************************************************************)
(* Theorems about Workspace: each component keeps its properties in it.    *)
(*                                                                         *)
(* A behaviour of Workspace is one of every component (Parts), so that the *)
(* theorems about Notifications, Roadmap and PostChanges carry over.       *)
(* Those about Avatars are proved here.  A file is deleted as the old key  *)
(* of some confirmation, of whichever account.  The strengthening says why *)
(* that is never the key a first confirmation is about to store: the key   *)
(* has been in a row only if a confirmation of it has ended, and then the  *)
(* one under way is a second (Fresh); nor is it in two rows (RowsApart).   *)
(***************************************************************************)
EXTENDS Workspace, TLAPS

\* The components as their own theorems see them.
NP == INSTANCE NotificationsProofs
RP == INSTANCE RoadmapProofs WITH call <- roadmapCall
CP == INSTANCE PostChangesProofs WITH call <- changeCall

-----------------------------------------------------------------------------
\* A key that only request r has confirmed, when its file was there, has not
\* been in a row, is no other request's, and its file is there still.
Fresh(r) ==
  LET k == avatarCall[r].key
  IN avatarCall[r] # A!Idle /\ k \notin doubtful =>
       /\ \A u \in Users : avatarUrl[u] # k
       /\ k \in files
       /\ \A q \in Requests : avatarCall[q] # A!Idle =>
            avatarCall[q].old # k /\ (q # r => avatarCall[q].key # k)

\* A key confirmed once is in one row at most, and only a confirmation of that
\* row's account has read it there.
RowsApart ==
  \A u \in Users : avatarUrl[u] \notin doubtful \cup {0} =>
    /\ \A v \in Users : avatarUrl[v] = avatarUrl[u] => v = u
    /\ \A r \in Requests :
         avatarCall[r] # A!Idle /\ avatarCall[r].old = avatarUrl[u] => avatarCall[r].user = u

\* Keys that are or were in a row have been confirmed.
KeysConfirmed ==
  /\ \A u \in Users : avatarUrl[u] # 0 => avatarUrl[u] \in confirmed
  /\ \A r \in Requests : avatarCall[r] # A!Idle =>
       /\ avatarCall[r].key \in confirmed
       /\ avatarCall[r].old # 0 => avatarCall[r].old \in confirmed

AvatarsInv ==
  /\ A!TypeOK
  /\ KeysConfirmed
  /\ RowsApart
  /\ \A r \in Requests : Fresh(r)
  /\ A!RestsOnFile

-----------------------------------------------------------------------------
LEMMA AvatarCallFields ==
  ASSUME A!TypeOK, NEW r \in Requests, avatarCall[r] # A!Idle
  PROVE  /\ avatarCall[r].step \in {"delete", "update"}
         /\ avatarCall[r].user \in Users
         /\ avatarCall[r].old \in Nat
         /\ avatarCall[r].key \in Nat \ {0}
BY DEF A!TypeOK, A!Call

LEMMA AvatarsInit == A!Init => AvatarsInv
BY DEF A!Init, AvatarsInv, A!TypeOK, KeysConfirmed, RowsApart, Fresh, A!RestsOnFile, A!Call

LEMMA GeneratePreSignedUrlInv ==
  ASSUME AvatarsInv, A!GeneratePreSignedUrl
  PROVE  AvatarsInv'
<1> USE DEF AvatarsInv, A!GeneratePreSignedUrl
<1>1. A!TypeOK'
  BY DEF A!TypeOK
<1>2. KeysConfirmed' /\ RowsApart' /\ A!RestsOnFile'
  BY DEF KeysConfirmed, RowsApart, A!RestsOnFile
<1>3. \A r \in Requests : Fresh(r)'
  BY DEF Fresh
<1> QED
  BY <1>1, <1>2, <1>3

LEMMA UploadInv ==
  ASSUME AvatarsInv, NEW k \in 1 .. issued, A!Upload(k)
  PROVE  AvatarsInv'
<1> USE DEF AvatarsInv, A!Upload
<1>1. A!TypeOK'
  BY DEF A!TypeOK
<1>2. KeysConfirmed' /\ RowsApart' /\ A!RestsOnFile'
  BY DEF KeysConfirmed, RowsApart, A!RestsOnFile
<1>3. \A r \in Requests : Fresh(r)'
  BY DEF Fresh
<1> QED
  BY <1>1, <1>2, <1>3

LEMMA ConfirmAvatarUploadInv ==
  ASSUME AvatarsInv, NEW r \in Requests, NEW u \in Users, NEW k \in 1 .. issued,
         A!ConfirmAvatarUpload(r, u, k)
  PROVE  AvatarsInv'
<1> DEFINE c == [step |-> IF avatarUrl[u] = 0 THEN "update" ELSE "delete",
                 user |-> u, old |-> avatarUrl[u], key |-> k]
<1>1. /\ avatarCall[r] = A!Idle /\ avatarCall'[r] = c /\ c # A!Idle
      /\ \A q \in Requests \ {r} : avatarCall'[q] = avatarCall[q]
      /\ confirmed' = confirmed \cup {k}
      /\ doubtful' = doubtful \cup (confirmed \cap {k}) \cup ({k} \ files)
      /\ UNCHANGED <<issued, files, avatarUrl>>
  BY DEF A!ConfirmAvatarUpload, A!Proceed, AvatarsInv, A!TypeOK, A!Idle
<1>2. issued \in Nat /\ k \in Nat \ {0} /\ avatarUrl[u] \in Nat
  BY DEF AvatarsInv, A!TypeOK
<1>3. A!TypeOK'
  <2>1. c \in A!Call
    BY <1>2 DEF A!Call
  <2>2. avatarCall' \in [Requests -> A!Call]
    BY <2>1 DEF A!ConfirmAvatarUpload, A!Proceed, AvatarsInv, A!TypeOK
  <2> QED
    BY <1>1, <2>2 DEF AvatarsInv, A!TypeOK
<1>4. KeysConfirmed'
  BY <1>1 DEF AvatarsInv, KeysConfirmed
<1>5. A!RestsOnFile'
  BY <1>1 DEF AvatarsInv, A!RestsOnFile
<1>6. ASSUME NEW q \in Requests
      PROVE  Fresh(q)'
  <2>1. CASE q = r
    <3> SUFFICES ASSUME k \notin confirmed, k \in files
                 PROVE  Fresh(q)'
      BY <1>1, <2>1 DEF Fresh
    <3> QED
      BY <1>1, <1>2, <2>1 DEF Fresh, AvatarsInv, KeysConfirmed
  <2>2. CASE q # r
    <3> SUFFICES ASSUME avatarCall[q] # A!Idle, avatarCall[q].key \notin doubtful,
                        avatarCall[q].key # k
                 PROVE  Fresh(q)'
      BY <1>1, <2>2 DEF Fresh, AvatarsInv, KeysConfirmed
    <3> QED
      BY <1>1, <2>2 DEF Fresh, AvatarsInv
  <2> QED
    BY <2>1, <2>2
<1>7. RowsApart'
  BY <1>1 DEF AvatarsInv, RowsApart
<1> QED
  BY <1>3, <1>4, <1>5, <1>6, <1>7 DEF AvatarsInv

\* The deletion, or its failure: the request goes on to its update.
LEMMA DeleteFileInv ==
  ASSUME AvatarsInv, NEW r \in Requests, A!DeleteFile(r) \/ A!KeepFile(r)
  PROVE  AvatarsInv'
<1> DEFINE c == [avatarCall[r] EXCEPT !.step = "update"]
<1>1. /\ avatarCall[r] # A!Idle /\ avatarCall'[r] = c
      /\ \A q \in Requests \ {r} : avatarCall'[q] = avatarCall[q]
      /\ files' = files \ {avatarCall[r].old} \/ files' = files
      /\ UNCHANGED <<issued, avatarUrl, confirmed, doubtful>>
  BY DEF A!DeleteFile, A!KeepFile, A!Proceed, AvatarsInv, A!TypeOK, A!Idle
<1>2. c \in A!Call /\ c # A!Idle /\ c.user = avatarCall[r].user
        /\ c.old = avatarCall[r].old /\ c.key = avatarCall[r].key
  BY <1>1 DEF AvatarsInv, A!TypeOK, A!Call, A!Idle
<1>3. A!TypeOK'
  <2>1. avatarCall' \in [Requests -> A!Call]
    BY <1>2 DEF A!DeleteFile, A!KeepFile, A!Proceed, AvatarsInv, A!TypeOK
  <2> QED
    BY <1>1, <2>1 DEF AvatarsInv, A!TypeOK
<1> HIDE DEF c
<1>4. \A q \in Requests :
        /\ avatarCall'[q] # A!Idle <=> avatarCall[q] # A!Idle
        /\ avatarCall[q] # A!Idle =>
             /\ avatarCall'[q].user = avatarCall[q].user
             /\ avatarCall'[q].old = avatarCall[q].old
             /\ avatarCall'[q].key = avatarCall[q].key
  BY <1>1, <1>2
<1>5. KeysConfirmed' /\ RowsApart'
  BY <1>1, <1>4 DEF AvatarsInv, KeysConfirmed, RowsApart
<1>6. A!RestsOnFile'
  BY <1>1, <1>4 DEF AvatarsInv, A!RestsOnFile, RowsApart
<1>7. ASSUME NEW q \in Requests
      PROVE  Fresh(q)'
  BY <1>1, <1>4 DEF Fresh, AvatarsInv
<1> QED
  BY <1>3, <1>5, <1>6, <1>7 DEF AvatarsInv

LEMMA UpdateAvatarInv ==
  ASSUME AvatarsInv, NEW r \in Requests, A!UpdateAvatar(r)
  PROVE  AvatarsInv'
<1>1. /\ avatarCall[r] # A!Idle /\ avatarCall'[r] = A!Idle
      /\ \A q \in Requests \ {r} : avatarCall'[q] = avatarCall[q]
      /\ avatarUrl' = [avatarUrl EXCEPT ![avatarCall[r].user] = avatarCall[r].key]
      /\ UNCHANGED <<issued, files, confirmed, doubtful>>
  BY DEF A!UpdateAvatar, A!Proceed, AvatarsInv, A!TypeOK, A!Idle
<1>2. avatarCall[r].user \in Users /\ avatarCall[r].key \in Nat \ {0}
  BY <1>1, AvatarCallFields DEF AvatarsInv
<1>3. A!TypeOK'
  <2>1. avatarCall' \in [Requests -> A!Call]
    BY DEF A!UpdateAvatar, A!Proceed, AvatarsInv, A!TypeOK, A!Call
  <2> QED
    BY <1>1, <1>2, <2>1 DEF AvatarsInv, A!TypeOK
<1>4. /\ avatarUrl'[avatarCall[r].user] = avatarCall[r].key
      /\ \A u \in Users \ {avatarCall[r].user} : avatarUrl'[u] = avatarUrl[u]
  BY <1>1, <1>2 DEF AvatarsInv, A!TypeOK
<1>5. KeysConfirmed'
  BY <1>1, <1>4 DEF AvatarsInv, KeysConfirmed
<1>6. RowsApart'
  BY <1>1, <1>4 DEF AvatarsInv, RowsApart, Fresh
<1>7. A!RestsOnFile'
  BY <1>1, <1>2, <1>4 DEF AvatarsInv, A!RestsOnFile, Fresh
<1>8. ASSUME NEW q \in Requests
      PROVE  Fresh(q)'
  <2>1. CASE q = r
    BY <1>1, <2>1 DEF Fresh
  <2>2. CASE q # r
    BY <1>1, <1>4, <2>2 DEF Fresh, AvatarsInv
  <2> QED
    BY <2>1, <2>2
<1> QED
  BY <1>3, <1>5, <1>6, <1>7, <1>8 DEF AvatarsInv

LEMMA DropInv ==
  ASSUME AvatarsInv, NEW r \in Requests, A!Drop(r)
  PROVE  AvatarsInv'
<1>1. /\ avatarCall[r] # A!Idle /\ avatarCall'[r] = A!Idle
      /\ \A q \in Requests \ {r} : avatarCall'[q] = avatarCall[q]
      /\ doubtful' = doubtful \cup ({avatarCall[r].old} \ {0})
      /\ UNCHANGED <<issued, files, avatarUrl, confirmed>>
  BY DEF A!Drop, A!Proceed, AvatarsInv, A!TypeOK
<1>2. A!TypeOK'
  <2>1. avatarCall' \in [Requests -> A!Call]
    BY DEF A!Drop, A!Proceed, AvatarsInv, A!TypeOK, A!Call
  <2>2. {avatarCall[r].old} \ {0} \subseteq confirmed
    BY <1>1 DEF AvatarsInv, KeysConfirmed
  <2> QED
    BY <1>1, <2>1, <2>2 DEF AvatarsInv, A!TypeOK
<1>3. KeysConfirmed' /\ RowsApart'
  BY <1>1 DEF AvatarsInv, KeysConfirmed, RowsApart
<1>4. A!RestsOnFile'
  BY <1>1 DEF AvatarsInv, A!RestsOnFile, Fresh
<1>5. ASSUME NEW q \in Requests
      PROVE  Fresh(q)'
  <2>1. CASE q = r
    BY <1>1, <2>1 DEF Fresh
  <2>2. CASE q # r
    BY <1>1, <2>2 DEF Fresh, AvatarsInv
  <2> QED
    BY <2>1, <2>2
<1> QED
  BY <1>2, <1>3, <1>4, <1>5 DEF AvatarsInv

LEMMA AvatarsNext == AvatarsInv /\ [A!Next]_(A!vars) => AvatarsInv'
<1> SUFFICES ASSUME AvatarsInv, [A!Next]_(A!vars) PROVE AvatarsInv'
  OBVIOUS
<1>1. CASE UNCHANGED A!vars
  BY <1>1 DEF A!vars, AvatarsInv, A!TypeOK, KeysConfirmed, RowsApart, Fresh, A!RestsOnFile
<1>2. CASE A!Next
  BY <1>2, GeneratePreSignedUrlInv, UploadInv, ConfirmAvatarUploadInv, DeleteFileInv,
     UpdateAvatarInv, DropInv DEF A!Next
<1> QED
  BY <1>1, <1>2

-----------------------------------------------------------------------------
\* Each component's steps are those its theorems are about.
LEMMA SameNotifications ==
  N!Init = NP!Init /\ N!Next = NP!Next /\ N!vars = NP!vars
BY DEF N!Init, NP!Init, N!Next, NP!Next, N!vars, NP!vars,
  N!HandleEvent, NP!HandleEvent, N!Create, NP!Create, N!Fail, NP!Fail,
  N!Publish, NP!Publish, N!MarkAsRead, NP!MarkAsRead, N!Dismiss, NP!Dismiss,
  N!Subscribe, NP!Subscribe, N!Finalize, NP!Finalize, N!FindAll, NP!FindAll,
  N!MarkAllAsRead, NP!MarkAllAsRead, N!Restart, NP!Restart, N!Idle, NP!Idle,
  N!NoRow, NP!NoRow, N!Closed, NP!Closed, N!Listed, NP!Listed,
  N!Open, NP!Open, N!Show, NP!Show

LEMMA SameRoadmap ==
  R!Init = RP!Init /\ R!Next = RP!Next /\ R!vars = RP!vars
BY DEF R!Init, RP!Init, R!Next, RP!Next, R!vars, RP!vars,
  R!CreateRoadmap, RP!CreateRoadmap, R!RemoveRoadmap, RP!RemoveRoadmap,
  R!DeleteColumn, RP!DeleteColumn, R!Request, RP!Request,
  R!AddColumn, RP!AddColumn, R!StoreColumn, RP!StoreColumn,
  R!AddPostToColumn, RP!AddPostToColumn, R!FindItem, RP!FindItem,
  R!StoreItem, RP!StoreItem, R!RemoveItem, RP!RemoveItem,
  R!RemovePost, RP!RemovePost, R!ReorderItems, RP!ReorderItems,
  R!CheckItems, RP!CheckItems, R!UpdateOrders, RP!UpdateOrders,
  R!Drop, RP!Drop, R!Begin, RP!Begin, R!Proceed, RP!Proceed, R!Idle, RP!Idle,
  R!NoColumn, RP!NoColumn, R!Found, RP!Found, R!HasItem, RP!HasItem,
  R!Orders, RP!Orders, R!Reordered, RP!Reordered

LEMMA SameChanges ==
  C!Init = CP!Init /\ C!Next = CP!Next /\ C!vars = CP!vars
BY DEF C!Init, CP!Init, C!Next, CP!Next, C!vars, CP!vars,
  C!RemoveTag, CP!RemoveTag, C!Request, CP!Request, C!Update, CP!Update,
  C!UpdateStatus, CP!UpdateStatus, C!Emit, CP!Emit,
  C!UpdateTags, CP!UpdateTags, C!DeleteTags, CP!DeleteTags,
  C!InsertTags, CP!InsertTags, C!Drop, CP!Drop, C!Proceed, CP!Proceed,
  C!Idle, CP!Idle, C!Changing, CP!Changing, C!StatusIds, CP!StatusIds

\* Whichever component takes the steps, the others stutter.
LEMMA Parts == Spec => NP!Spec /\ RP!Spec /\ A!Spec /\ CP!Spec
<1>1. Init => NP!Init /\ RP!Init /\ A!Init /\ CP!Init
  BY SameNotifications, SameRoadmap, SameChanges DEF Init
<1>2. [Next]_vars => /\ [N!Next]_(N!vars)
                     /\ [R!Next]_(R!vars)
                     /\ [A!Next]_(A!vars)
                     /\ [C!Next]_(C!vars)
  BY DEF Next, vars, nVars, rVars, aVars, cVars, N!vars, R!vars, A!vars, C!vars
<1>3. [Next]_vars => /\ [NP!Next]_(NP!vars)
                     /\ [RP!Next]_(RP!vars)
                     /\ [A!Next]_(A!vars)
                     /\ [CP!Next]_(CP!vars)
  BY <1>2, SameNotifications, SameRoadmap, SameChanges
  DEF N!vars, NP!vars, R!vars, RP!vars, C!vars, CP!vars
<1> QED
  BY <1>1, <1>3, PTL DEF Spec, NP!Spec, RP!Spec, A!Spec, CP!Spec

LEMMA AvatarsInvariance == Spec => []AvatarsInv
BY Parts, AvatarsInit, AvatarsNext, PTL DEF A!Spec

-----------------------------------------------------------------------------
\* The variables of all components stay in their types.
THEOREM TypeCorrect == Spec => []TypeOK
<1>1. NP!TypeOK => N!TypeOK
  BY DEF N!TypeOK, NP!TypeOK, N!Handler, NP!Handler, N!Idle, NP!Idle, N!Row, NP!Row,
     N!NoRow, NP!NoRow, N!Tab, NP!Tab, N!Closed, NP!Closed
<1>2. RP!TypeOK => R!TypeOK
  BY DEF R!TypeOK, RP!TypeOK, R!Column, RP!Column, R!NoColumn, RP!NoColumn, R!Item, RP!Item,
     R!Call, RP!Call, R!Idle, RP!Idle, R!Orders, RP!Orders
<1>3. CP!TypeOK => C!TypeOK
  BY DEF C!TypeOK, CP!TypeOK, C!Call, CP!Call, C!Idle, CP!Idle, C!StatusIds, CP!StatusIds
<1> QED
  BY <1>1, <1>2, <1>3, Parts, NP!TypeCorrect, RP!TypeCorrect, CP!TypeCorrect,
     AvatarsInvariance, PTL DEF TypeOK, AvatarsInv

\* For any number of streams and events, a tab that streams and lists has shown
\* what is stored for its user, or is about to.
THEOREM NoneMissed == Spec => []NothingMissed
<1>1. NP!NothingMissed => NothingMissed
  BY DEF NP!NothingMissed, NothingMissed, N!NothingMissed, N!Listed, NP!Listed
<1> QED
  BY <1>1, Parts, NP!NoneMissed, PTL

\* What a tab has shown was stored, for its user.
THEOREM OnlyOwnNews == Spec => []OwnNewsOnly
<1>1. NP!OwnNewsOnly => OwnNewsOnly
  BY DEF NP!OwnNewsOnly, OwnNewsOnly, N!OwnNewsOnly, N!Open, NP!Open, N!NoRow, NP!NoRow
<1> QED
  BY <1>1, Parts, NP!OnlyOwnNews, PTL

\* Whatever handlers, marks, streams and restarts interleave, a notification is
\* sent once and never comes back, and an open tab gains its own user's only.
THEOREM InboxKept == Spec => ImplementsInbox
BY Parts, NP!Refinement, PTL
DEF ImplementsInbox, N!ImplementsInbox, NP!ImplementsInbox, N!I!Spec, NP!I!Spec,
    N!I!Init, NP!I!Init, N!I!Next, NP!I!Next, N!I!iVars, NP!I!iVars,
    N!I!Send, NP!I!Send, N!I!Read, NP!I!Read, N!I!Dismiss, NP!I!Dismiss,
    N!I!TurnOn, NP!I!TurnOn, N!I!TurnOff, NP!I!TurnOff, N!I!Show, NP!I!Show,
    N!I!SentTo, NP!I!SentTo, N!I!Unsent, NP!I!Unsent, N!I!Off, NP!I!Off,
    N!Open, NP!Open

\* However placements, removals and reorders overlap, a post is in one column of
\* one roadmap at most.
THEOREM Placed == Spec => ImplementsPlacement
BY Parts, RP!Refinement, PTL
DEF ImplementsPlacement, R!ImplementsPlacement, RP!ImplementsPlacement, R!P!Spec, RP!P!Spec,
    R!P!Init, RP!P!Init, R!P!Next, RP!P!Next, R!P!Place, RP!P!Place, R!P!Take, RP!P!Take

\* A reorder happens whole and within one column.
THEOREM ReorderIsWhole == Spec => ReordersWhole
BY Parts, RP!ReorderIsWhole, PTL
DEF ReordersWhole, R!ReordersWhole, RP!ReordersWhole, R!vars, RP!vars

\* Confirmations of any accounts and any keys may overlap in any way: the key in
\* an account's row is that of a file, but for one that had none when it was
\* confirmed, one confirmed twice, and one that a confirmation under way or cut
\* short has come to replace.
THEOREM AvatarRestsOnFile == Spec => []RestsOnFile
BY AvatarsInvariance, PTL DEF AvatarsInv, RestsOnFile

\* As long as changes of status follow each other and none is cut short, the
\* author was told of the status that the post has, if it has one, or is about to
\* be.
THEOREM AuthorIsTold == Spec => []ChangesAnnounced
<1>1. CP!ChangesAnnounced => ChangesAnnounced
  BY DEF CP!ChangesAnnounced, ChangesAnnounced, C!ChangesAnnounced
<1> QED
  BY <1>1, Parts, CP!AuthorIsTold, PTL

\* The tags a replacement stored are there together or not at all, and beside
\* those of a later one only if that one had begun before.
THEOREM TagsGoTogether == Spec => []TagsReplaced
<1>1. CP!TagsReplaced => TagsReplaced
  BY DEF CP!TagsReplaced, TagsReplaced, C!TagsReplaced
<1> QED
  BY <1>1, Parts, CP!TagsGoTogether, PTL

\* A replacement of tags that did not overlap another leaves the post with the
\* tags it asked for and no other.
THEOREM TheLastWins == Spec => []LastTagsWin
<1>1. CP!LastTagsWin => LastTagsWin
  BY DEF CP!LastTagsWin, LastTagsWin, C!LastTagsWin
<1> QED
  BY <1>1, Parts, CP!TheLastWins, PTL
=============================================================================

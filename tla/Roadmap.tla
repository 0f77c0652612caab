------------------------------ MODULE Roadmap -------------------------------
(***************************************************************************)
(* Roadmaps, their columns and the posts placed in them (RoadmapService    *)
(* and its repository).                                                    *)
(*                                                                         *)
(* A request reads, decides, and writes in later steps.  Removing a column *)
(* or a roadmap stamps deletedAt; its items stay.  Names, slugs and the    *)
(* order of the columns are data.                                          *)
(***************************************************************************)
EXTENDS Naturals

CONSTANTS
  Roadmaps,   \* primary keys of roadmap
  Columns,    \* primary keys of roadmap_column
  Posts,      \* posts
  Positions,  \* values of an item's order
  Requests,   \* requests that can be in flight at once
  MaxItems    \* bound on the items ever stored

VARIABLES
  roadmaps,   \* the table roadmap
  columns,    \* the table roadmap_column
  items,      \* the table roadmap_item, a set of rows
  created,    \* how many rows it has had, which is the last key
  call        \* call[r]: what request r does next

vars == <<roadmaps, columns, items, created, call>>

Column == [state : {"live", "removed"}, roadmap : Roadmaps]
NoColumn == [state |-> "unused"]
Item == [id : Nat, post : Posts, column : Columns, order : Positions]

\* What a reorder asks for: positions of some items.
Orders == UNION {[ids -> Positions] : ids \in SUBSET (1..created)}

Idle == [step |-> "idle"]
Call ==
       {Idle}
  \cup [step : {"addColumn"}, roadmap : Roadmaps]
  \cup [step : {"find", "place"}, post : Posts, column : Columns]
  \cup [step : {"take"}, post : Posts]
  \cup [step : {"check", "reorder"}, column : Columns, orders : Orders]

TypeOK ==
  /\ roadmaps \in [Roadmaps -> {"unused", "live", "removed"}]
  /\ columns \in [Columns -> Column \cup {NoColumn}]
  /\ items \subseteq Item
  /\ created \in Nat
  /\ call \in [Requests -> Call]

Init ==
  /\ roadmaps = [m \in Roadmaps |-> "unused"]
  /\ columns = [c \in Columns |-> NoColumn]
  /\ items = {}
  /\ created = 0
  /\ call = [r \in Requests |-> Idle]

\* findColumn: its own deletedAt, not that of its roadmap.
Found(c) == columns[c].state = "live"

\* findItemByPostId: whatever has become of its column.
HasItem(p) == \E i \in items : i.post = p

Proceed(r, c) == call' = [call EXCEPT ![r] = c]

Begin(r, c) ==
  /\ call[r] = Idle
  /\ Proceed(r, c)
  /\ UNCHANGED <<roadmaps, columns, items, created>>

-----------------------------------------------------------------------------
(* Roadmaps and columns.  A removal reads only to answer 404, and stamping *)
(* twice changes nothing more; a column is added some time after its       *)
(* roadmap was found.                                                      *)
CreateRoadmap(m) ==
  /\ roadmaps[m] = "unused"
  /\ roadmaps' = [roadmaps EXCEPT ![m] = "live"]
  /\ UNCHANGED <<columns, items, created, call>>

RemoveRoadmap(m) ==
  /\ roadmaps[m] = "live"
  /\ roadmaps' = [roadmaps EXCEPT ![m] = "removed"]
  /\ UNCHANGED <<columns, items, created, call>>

AddColumn(r, m) ==
  /\ roadmaps[m] = "live"
  /\ Begin(r, [step |-> "addColumn", roadmap |-> m])

StoreColumn(r, c) ==
  /\ call[r].step = "addColumn"
  /\ columns[c] = NoColumn
  /\ columns' = [columns EXCEPT ![c] =
                   [state |-> "live", roadmap |-> call[r].roadmap]]
  /\ Proceed(r, Idle)
  /\ UNCHANGED <<roadmaps, items, created>>

DeleteColumn(c) ==
  /\ Found(c)
  /\ columns' = [columns EXCEPT ![c].state = "removed"]
  /\ UNCHANGED <<roadmaps, items, created, call>>

-----------------------------------------------------------------------------
(* POST /roadmap-columns/:id/items: the column, then the post's item, then *)
(* the insertion.                                                          *)
AddPostToColumn(r, p, c) ==
  /\ Found(c)
  /\ Begin(r, [step |-> "find", post |-> p, column |-> c])

FindItem(r) ==
  /\ call[r].step = "find"
  /\ ~HasItem(call[r].post)
  /\ Proceed(r, [step |-> "place", post |-> call[r].post,
                 column |-> call[r].column])
  /\ UNCHANGED <<roadmaps, columns, items, created>>

\* Mutant: the key is per column, @@unique([columnId, postId]).
MutantKey(r, order) ==
  LET c == call[r]
  IN /\ c.step = "place"
     /\ ~\E i \in items : i.post = c.post /\ i.column = c.column
     /\ created < MaxItems
     /\ created' = created + 1
     /\ items' = items \cup {[id |-> created + 1, post |-> c.post,
                              column |-> c.column, order |-> order]}
     /\ Proceed(r, Idle)
     /\ UNCHANGED <<roadmaps, columns>>

\* The unique key postId refuses a second row.
StoreItem(r, order) ==
  LET c == call[r]
  IN /\ c.step = "place"
     /\ ~HasItem(c.post)
     /\ created < MaxItems
     /\ created' = created + 1
     /\ items' = items \cup {[id |-> created + 1, post |-> c.post,
                              column |-> c.column, order |-> order]}
     /\ Proceed(r, Idle)
     /\ UNCHANGED <<roadmaps, columns>>

-----------------------------------------------------------------------------
(* DELETE /roadmap-items/:id reads the item and deletes by its post, which *)
(* may have another item by then.                                          *)
RemoveItem(r, i) ==
  Begin(r, [step |-> "take", post |-> i.post])

RemovePost(r) ==
  /\ call[r].step = "take"
  /\ HasItem(call[r].post)
  /\ items' = {i \in items : i.post # call[r].post}
  /\ Proceed(r, Idle)
  /\ UNCHANGED <<roadmaps, columns, created>>

-----------------------------------------------------------------------------
(* PUT /roadmap-columns/:id/items/reorder: the column, then its items, then*)
(* the updates by key in one transaction, which a missing row rolls back.  *)
ReorderItems(r, c, orders) ==
  /\ Found(c)
  /\ Begin(r, [step |-> "check", column |-> c, orders |-> orders])

CheckItems(r) ==
  LET c == call[r]
  IN /\ c.step = "check"
     /\ \A id \in DOMAIN c.orders : \E i \in items : i.id = id /\ i.column = c.column
     /\ Proceed(r, [step |-> "reorder", column |-> c.column, orders |-> c.orders])
     /\ UNCHANGED <<roadmaps, columns, items, created>>

Reordered(orders) ==
  {IF i.id \in DOMAIN orders
     THEN [id |-> i.id, post |-> i.post, column |-> i.column, order |-> orders[i.id]]
     ELSE i : i \in items}

\* Mutant: a row that is missing is passed over (updateMany, no transaction).
MutantPartial(r) ==
  /\ call[r].step = "reorder"
  /\ items' = Reordered(call[r].orders)
  /\ Proceed(r, Idle)
  /\ UNCHANGED <<roadmaps, columns, created>>

UpdateOrders(r) ==
  /\ call[r].step = "reorder"
  /\ \A id \in DOMAIN call[r].orders : \E i \in items : i.id = id
  /\ items' = Reordered(call[r].orders)
  /\ Proceed(r, Idle)
  /\ UNCHANGED <<roadmaps, columns, created>>

-----------------------------------------------------------------------------
\* A request is refused, a query of it fails, or the process restarts.
Drop(r) ==
  /\ call[r] # Idle
  /\ Proceed(r, Idle)
  /\ UNCHANGED <<roadmaps, columns, items, created>>

Request(r) ==
  \/ \E m \in Roadmaps : AddColumn(r, m)
  \/ \E c \in Columns : StoreColumn(r, c)
  \/ \E p \in Posts, c \in Columns : AddPostToColumn(r, p, c)
  \/ FindItem(r)
  \/ \E order \in Positions : StoreItem(r, order)
  \/ \E i \in items : RemoveItem(r, i)
  \/ RemovePost(r)
  \/ \E c \in Columns, orders \in Orders : ReorderItems(r, c, orders)
  \/ CheckItems(r) \/ UpdateOrders(r) \/ Drop(r)

Next ==
  \/ \E m \in Roadmaps : CreateRoadmap(m) \/ RemoveRoadmap(m)
  \/ \E c \in Columns : DeleteColumn(c)
  \/ \E r \in Requests : Request(r)

Spec == Init /\ [][Next]_vars

-----------------------------------------------------------------------------
(* ImplementsPlacement: a post is in one column at most and leaves it only *)
(* by a removal, whatever reorders, removals of columns and second         *)
(* placements overlap.                                                     *)
P == INSTANCE Placement WITH placed <- {<<i.post, i.column>> : i \in items}
ImplementsPlacement == P!Spec

(* ReordersWhole: positions change by one reorder at a time, which gives   *)
(* every item it names the position it asks for, all of one column, though *)
(* the items were looked up a query earlier.                               *)
ReordersWhole ==
  [][\A i \in items, j \in items' :
       i.id = j.id /\ i.order # j.order =>
         \E r \in Requests :
           /\ call[r].step = "reorder"
           /\ \A id \in DOMAIN call[r].orders : \E k \in items' :
                /\ k.id = id
                /\ k.order = call[r].orders[id]
                /\ k.column = i.column]_vars

(* ConflictMeansShown, which the code does not keep: a placement that is   *)
(* refused because the post already is in a column of the roadmap is of a  *)
(* post that some column shows.                                            *)
Shown(i) == Found(i.column) /\ roadmaps[columns[i.column].roadmap] = "live"
ConflictMeansShown ==
  \A r \in Requests :
    call[r].step = "find" /\ HasItem(call[r].post) =>
      \E i \in items : i.post = call[r].post /\ Shown(i)
=============================================================================

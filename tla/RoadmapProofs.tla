--------------------------- MODULE RoadmapProofs ----------------------------
(***************************************************************************)
(* Theorems about Roadmap, for every set of roadmaps, columns, posts and   *)
(* requests: Roadmap implements Placement, and reorders happen whole.      *)
(*                                                                         *)
(* The first rests on the key: one item per post and per id (KeysUnique).  *)
(* The second on what a check leaves behind: ids are never used again and  *)
(* an item never changes its column, so of the items a reorder has checked *)
(* those that are left are of its column still (ChecksHold).               *)
(***************************************************************************)
EXTENDS Roadmap, TLAPS

KeysUnique ==
  \A i \in items :
    /\ i.id \in 1 .. created
    /\ \A j \in items : i.post = j.post \/ i.id = j.id => i = j

ChecksHold ==
  \A r \in Requests : call[r].step = "reorder" =>
    \A i \in items : i.id \in DOMAIN call[r].orders => i.column = call[r].column

IInv == TypeOK /\ KeysUnique /\ ChecksHold

-----------------------------------------------------------------------------
LEMMA IdleOK == Idle \in Call /\ Idle.step = "idle"
BY DEF Idle, Call

LEMMA ItemFields ==
  ASSUME TypeOK, NEW i \in items
  PROVE  /\ i.id \in Nat /\ i.post \in Posts /\ i.column \in Columns
         /\ i.order \in Positions
         /\ i = [id |-> i.id, post |-> i.post, column |-> i.column, order |-> i.order]
BY DEF TypeOK, Item

LEMMA OrdersFields ==
  ASSUME NEW f \in Orders
  PROVE  DOMAIN f \in SUBSET (1 .. created) /\ f \in [DOMAIN f -> Positions]
BY DEF Orders

LEMMA CallFields ==
  ASSUME TypeOK, NEW r \in Requests
  PROVE  /\ call[r].step = "addColumn" => call[r].roadmap \in Roadmaps
         /\ call[r].step \in {"find", "place"} =>
              call[r].post \in Posts /\ call[r].column \in Columns
         /\ call[r].step \in {"check", "reorder"} =>
              call[r].column \in Columns /\ call[r].orders \in Orders
BY DEF TypeOK, Call, Idle

\* A step that leaves the items alone, of a request that does not check.
LEMMA CallStepInv ==
  ASSUME IInv, NEW r \in Requests, NEW c \in Call, Proceed(r, c),
         c.step # "reorder",
         UNCHANGED <<items, created>>,
         roadmaps' \in [Roadmaps -> {"unused", "live", "removed"}],
         columns' \in [Columns -> Column \cup {NoColumn}]
  PROVE  IInv'
<1>1. /\ call'[r] = c
      /\ \A q \in Requests \ {r} : call'[q] = call[q]
  BY DEF Proceed, IInv, TypeOK
<1>2. Call' = Call
  BY DEF Call, Orders
<1>3. TypeOK'
  BY <1>2 DEF IInv, TypeOK, Proceed
<1>4. KeysUnique'
  BY DEF IInv, KeysUnique
<1>5. ChecksHold'
  BY <1>1 DEF IInv, ChecksHold
<1> QED
  BY <1>3, <1>4, <1>5 DEF IInv

\* A step of the tables of roadmaps and columns alone.
LEMMA TablesStepInv ==
  ASSUME IInv, UNCHANGED <<items, created, call>>,
         roadmaps' \in [Roadmaps -> {"unused", "live", "removed"}],
         columns' \in [Columns -> Column \cup {NoColumn}]
  PROVE  IInv'
<1>1. Call' = Call
  BY DEF Call, Orders
<1>2. TypeOK'
  BY <1>1 DEF IInv, TypeOK
<1>3. KeysUnique' /\ ChecksHold'
  BY DEF IInv, KeysUnique, ChecksHold
<1> QED
  BY <1>2, <1>3 DEF IInv

-----------------------------------------------------------------------------
LEMMA InitInv == Init => IInv
<1> SUFFICES ASSUME Init PROVE IInv
  OBVIOUS
<1>1. TypeOK
  BY IdleOK DEF Init, TypeOK
<1>2. KeysUnique /\ ChecksHold
  BY IdleOK DEF Init, KeysUnique, ChecksHold
<1> QED
  BY <1>1, <1>2 DEF IInv

LEMMA RoadmapStepsInv ==
  ASSUME IInv, NEW m \in Roadmaps, CreateRoadmap(m) \/ RemoveRoadmap(m)
  PROVE  IInv'
BY TablesStepInv DEF CreateRoadmap, RemoveRoadmap, IInv, TypeOK

LEMMA DeleteColumnInv ==
  ASSUME IInv, NEW c \in Columns, DeleteColumn(c)
  PROVE  IInv'
<1>1. columns[c] \in Column
  BY DEF DeleteColumn, Found, IInv, TypeOK, NoColumn
<1>2. columns' \in [Columns -> Column \cup {NoColumn}]
  BY <1>1 DEF DeleteColumn, IInv, TypeOK, Column
<1> QED
  BY <1>2, TablesStepInv DEF DeleteColumn, IInv, TypeOK

\* The steps that begin a request.
LEMMA BeginInv ==
  ASSUME IInv, NEW r \in Requests, NEW c \in Call, c.step # "reorder", Begin(r, c)
  PROVE  IInv'
BY CallStepInv DEF Begin, IInv, TypeOK

LEMMA AddColumnInv ==
  ASSUME IInv, NEW r \in Requests, NEW m \in Roadmaps, AddColumn(r, m)
  PROVE  IInv'
<1>1. [step |-> "addColumn", roadmap |-> m] \in Call
  BY DEF Call
<1> QED
  BY <1>1, BeginInv DEF AddColumn

LEMMA AddPostToColumnInv ==
  ASSUME IInv, NEW r \in Requests, NEW p \in Posts, NEW c \in Columns,
         AddPostToColumn(r, p, c)
  PROVE  IInv'
<1>1. [step |-> "find", post |-> p, column |-> c] \in Call
  BY DEF Call
<1> QED
  BY <1>1, BeginInv DEF AddPostToColumn

LEMMA RemoveItemInv ==
  ASSUME IInv, NEW r \in Requests, NEW i \in items, RemoveItem(r, i)
  PROVE  IInv'
<1>1. [step |-> "take", post |-> i.post] \in Call
  BY ItemFields DEF Call, IInv
<1> QED
  BY <1>1, BeginInv DEF RemoveItem

LEMMA ReorderItemsInv ==
  ASSUME IInv, NEW r \in Requests, NEW c \in Columns, NEW orders \in Orders,
         ReorderItems(r, c, orders)
  PROVE  IInv'
<1>1. [step |-> "check", column |-> c, orders |-> orders] \in Call
  BY DEF Call
<1> QED
  BY <1>1, BeginInv DEF ReorderItems

LEMMA StoreColumnInv ==
  ASSUME IInv, NEW r \in Requests, NEW c \in Columns, StoreColumn(r, c)
  PROVE  IInv'
<1>1. columns' \in [Columns -> Column \cup {NoColumn}]
  BY CallFields DEF StoreColumn, IInv, TypeOK, Column
<1> QED
  BY <1>1, IdleOK, CallStepInv DEF StoreColumn, IInv, TypeOK

LEMMA FindItemInv ==
  ASSUME IInv, NEW r \in Requests, FindItem(r)
  PROVE  IInv'
<1>1. [step |-> "place", post |-> call[r].post, column |-> call[r].column] \in Call
  BY CallFields DEF FindItem, Call, IInv
<1> QED
  BY <1>1, CallStepInv DEF FindItem, IInv, TypeOK

LEMMA DropInv ==
  ASSUME IInv, NEW r \in Requests, Drop(r)
  PROVE  IInv'
BY IdleOK, CallStepInv DEF Drop, IInv, TypeOK

-----------------------------------------------------------------------------
LEMMA CheckItemsInv ==
  ASSUME IInv, NEW r \in Requests, CheckItems(r)
  PROVE  IInv'
<1> DEFINE c == [step |-> "reorder", column |-> call[r].column, orders |-> call[r].orders]
<1>1. /\ call'[r] = c
      /\ \A q \in Requests \ {r} : call'[q] = call[q]
      /\ call[r].step = "check"
      /\ \A id \in DOMAIN call[r].orders :
           \E i \in items : i.id = id /\ i.column = call[r].column
      /\ UNCHANGED <<roadmaps, columns, items, created>>
  BY DEF CheckItems, Proceed, IInv, TypeOK
<1>2. TypeOK'
  <2>1. c \in Call
    BY <1>1, CallFields DEF Call, IInv
  <2>2. Call' = Call
    BY <1>1 DEF Call, Orders
  <2>3. call' \in [Requests -> Call']
    BY <2>1, <2>2 DEF CheckItems, Proceed, IInv, TypeOK
  <2> QED
    BY <1>1, <2>3 DEF IInv, TypeOK
<1>3. KeysUnique'
  BY <1>1 DEF IInv, KeysUnique
<1>4. ChecksHold'
  <2> SUFFICES ASSUME NEW q \in Requests, call'[q].step = "reorder",
                      NEW i \in items, i.id \in DOMAIN call'[q].orders
               PROVE  i.column = call'[q].column
    BY <1>1 DEF ChecksHold
  <2>1. CASE q = r
    <3>1. PICK j \in items : j.id = i.id /\ j.column = call[r].column
      BY <1>1, <2>1
    <3>2. i = j
      BY <3>1 DEF IInv, KeysUnique
    <3> QED
      BY <1>1, <2>1, <3>1, <3>2
  <2>2. CASE q # r
    BY <1>1, <2>2 DEF IInv, ChecksHold
  <2> QED
    BY <2>1, <2>2
<1> QED
  BY <1>2, <1>3, <1>4 DEF IInv

\* What an insertion stores is new: its id and its post.
LEMMA StoreItemFacts ==
  ASSUME IInv, NEW r \in Requests, NEW order \in Positions, StoreItem(r, order)
  PROVE  /\ call[r].post \in Posts /\ call[r].column \in Columns
         /\ \A i \in items : i.post # call[r].post
         /\ items' = items \cup {[id |-> created + 1, post |-> call[r].post,
                                  column |-> call[r].column, order |-> order]}
         /\ created' = created + 1
         /\ call'[r] = Idle
         /\ \A q \in Requests \ {r} : call'[q] = call[q]
         /\ UNCHANGED <<roadmaps, columns>>
<1>1. call[r].post \in Posts /\ call[r].column \in Columns
  BY CallFields DEF StoreItem, IInv
<1> QED
  BY <1>1 DEF StoreItem, HasItem, Proceed, IInv, TypeOK

LEMMA StoreItemInv ==
  ASSUME IInv, NEW r \in Requests, NEW order \in Positions, StoreItem(r, order)
  PROVE  IInv'
<1> DEFINE new == [id |-> created + 1, post |-> call[r].post,
                   column |-> call[r].column, order |-> order]
<1>1. /\ call[r].post \in Posts /\ call[r].column \in Columns
      /\ \A i \in items : i.post # call[r].post
      /\ items' = items \cup {new}
      /\ created' = created + 1
      /\ call'[r] = Idle
      /\ \A q \in Requests \ {r} : call'[q] = call[q]
      /\ UNCHANGED <<roadmaps, columns>>
  BY StoreItemFacts
<1>2. created \in Nat /\ 1 .. created \subseteq 1 .. created' /\ created' \in Nat
      /\ created' \in 1 .. created' /\ created' \notin 1 .. created
  BY <1>1 DEF IInv, TypeOK
<1>3. new \in Item /\ new.id = created' /\ new.post = call[r].post
  BY <1>1, <1>2 DEF Item
<1> HIDE DEF new
<1>4. TypeOK'
  <2>1. Orders \subseteq Orders'
    <3>1. SUBSET (1 .. created) \subseteq SUBSET (1 .. created')
      BY <1>2
    <3> QED
      BY <3>1 DEF Orders
  <2>2. Call \subseteq Call'
    <3> SUFFICES ASSUME NEW c \in Call PROVE c \in Call'
      OBVIOUS
    <3>1. CASE c \in [step : {"check", "reorder"}, column : Columns, orders : Orders]
      BY <3>1, <2>1 DEF Call
    <3> QED
      BY <3>1 DEF Call
  <2>3. call' \in [Requests -> Call']
    BY <2>2, IdleOK DEF StoreItem, Proceed, IInv, TypeOK
  <2> QED
    BY <1>1, <1>2, <1>3, <2>3 DEF IInv, TypeOK
<1>5. KeysUnique'
  <2> SUFFICES ASSUME NEW i \in items'
               PROVE  /\ i.id \in 1 .. created'
                      /\ \A j \in items' : i.post = j.post \/ i.id = j.id => i = j
    BY DEF KeysUnique
  <2>1. \A k \in items : k.id \in 1 .. created /\ k.id # new.id /\ k.post # new.post
    BY <1>1, <1>2, <1>3 DEF IInv, KeysUnique
  <2>2. CASE i = new
    BY <1>1, <1>2, <1>3, <2>1, <2>2
  <2>3. CASE i \in items
    BY <1>1, <1>2, <2>1, <2>3 DEF IInv, KeysUnique
  <2> QED
    BY <1>1, <2>2, <2>3
<1>6. ChecksHold'
  <2> SUFFICES ASSUME NEW q \in Requests, call'[q].step = "reorder",
                      NEW i \in items', i.id \in DOMAIN call'[q].orders
               PROVE  i.column = call'[q].column
    BY DEF ChecksHold
  <2>1. q # r /\ call'[q] = call[q]
    BY <1>1, IdleOK
  <2>2. DOMAIN call[q].orders \in SUBSET (1 .. created)
    BY <2>1, CallFields, OrdersFields DEF IInv
  <2>3. i \in items
    BY <1>1, <1>2, <1>3, <2>1, <2>2
  <2> QED
    BY <2>1, <2>3 DEF IInv, ChecksHold
<1> QED
  BY <1>4, <1>5, <1>6 DEF IInv

LEMMA RemovePostInv ==
  ASSUME IInv, NEW r \in Requests, RemovePost(r)
  PROVE  IInv'
<1>1. /\ call'[r] = Idle
      /\ \A q \in Requests \ {r} : call'[q] = call[q]
      /\ items' \subseteq items
      /\ UNCHANGED <<roadmaps, columns, created>>
  BY DEF RemovePost, Proceed, IInv, TypeOK
<1>2. TypeOK'
  <2>1. Call' = Call
    BY <1>1 DEF Call, Orders
  <2>2. call' \in [Requests -> Call']
    BY <2>1, IdleOK DEF RemovePost, Proceed, IInv, TypeOK
  <2> QED
    BY <1>1, <2>2 DEF IInv, TypeOK
<1>3. KeysUnique'
  BY <1>1 DEF IInv, KeysUnique
<1>4. ChecksHold'
  BY <1>1, IdleOK DEF IInv, ChecksHold
<1> QED
  BY <1>2, <1>3, <1>4 DEF IInv

-----------------------------------------------------------------------------
\* The row that a reorder makes of an item.
Moved(i, orders) ==
  IF i.id \in DOMAIN orders
    THEN [id |-> i.id, post |-> i.post, column |-> i.column, order |-> orders[i.id]]
    ELSE i

\* It is an item of the same id, post and column.
LEMMA MovedFields ==
  ASSUME IInv, NEW i \in items, NEW f \in Orders
  PROVE  /\ Moved(i, f) \in Item
         /\ Moved(i, f).id = i.id
         /\ Moved(i, f).post = i.post
         /\ Moved(i, f).column = i.column
         /\ Moved(i, f).order = IF i.id \in DOMAIN f THEN f[i.id] ELSE i.order
<1>1. CASE i.id \in DOMAIN f
  <2>1. f[i.id] \in Positions
    BY <1>1, OrdersFields
  <2> QED
    BY <1>1, <2>1, ItemFields DEF Moved, Item, IInv
<1>2. CASE i.id \notin DOMAIN f
  BY <1>2 DEF Moved, IInv, TypeOK
<1> QED
  BY <1>1, <1>2

LEMMA UpdateOrdersFacts ==
  ASSUME IInv, NEW r \in Requests, UpdateOrders(r)
  PROVE  /\ call[r].step = "reorder"
         /\ call[r].orders \in Orders
         /\ \A id \in DOMAIN call[r].orders : \E i \in items : i.id = id
         /\ items' = {Moved(i, call[r].orders) : i \in items}
         /\ call'[r] = Idle
         /\ \A q \in Requests \ {r} : call'[q] = call[q]
         /\ UNCHANGED <<roadmaps, columns, created>>
<1>1. call[r].step = "reorder"
  BY DEF UpdateOrders
<1>2. call[r].orders \in Orders
  BY <1>1, CallFields DEF IInv
<1>3. items' = {Moved(i, call[r].orders) : i \in items}
  BY DEF UpdateOrders, Reordered, Moved
<1> QED
  BY <1>1, <1>2, <1>3 DEF UpdateOrders, Proceed, IInv, TypeOK

LEMMA UpdateOrdersInv ==
  ASSUME IInv, NEW r \in Requests, UpdateOrders(r)
  PROVE  IInv'
<1> DEFINE f == call[r].orders
<1>1. /\ f \in Orders
      /\ items' = {Moved(i, f) : i \in items}
      /\ call'[r] = Idle
      /\ \A q \in Requests \ {r} : call'[q] = call[q]
      /\ UNCHANGED <<roadmaps, columns, created>>
  BY UpdateOrdersFacts
<1> HIDE DEF f
<1>2. \A j \in items' : \E i \in items : j = Moved(i, f) /\ j \in Item
        /\ j.id = i.id /\ j.post = i.post /\ j.column = i.column
  BY <1>1, MovedFields
<1>3. TypeOK'
  <2>1. Call' = Call
    BY <1>1 DEF Call, Orders
  <2>2. call' \in [Requests -> Call']
    BY <2>1, IdleOK DEF UpdateOrders, Proceed, IInv, TypeOK
  <2> QED
    BY <1>1, <1>2, <2>2 DEF IInv, TypeOK
<1>4. KeysUnique'
  BY <1>1, <1>2 DEF IInv, KeysUnique
<1>5. ChecksHold'
  <2> SUFFICES ASSUME NEW q \in Requests, call'[q].step = "reorder",
                      NEW j \in items', j.id \in DOMAIN call'[q].orders
               PROVE  j.column = call'[q].column
    BY DEF ChecksHold
  <2>1. q # r /\ call'[q] = call[q]
    BY <1>1, IdleOK
  <2>2. PICK i \in items : j.id = i.id /\ j.column = i.column
    BY <1>2
  <2> QED
    BY <2>1, <2>2 DEF IInv, ChecksHold
<1> QED
  BY <1>3, <1>4, <1>5 DEF IInv

-----------------------------------------------------------------------------
LEMMA RequestInv ==
  ASSUME IInv, NEW r \in Requests, Request(r)
  PROVE  IInv'
BY AddColumnInv, StoreColumnInv, AddPostToColumnInv, FindItemInv, StoreItemInv,
   RemoveItemInv, RemovePostInv, ReorderItemsInv, CheckItemsInv, UpdateOrdersInv,
   DropInv DEF Request

LEMMA NextInv == IInv /\ [Next]_vars => IInv'
<1> SUFFICES ASSUME IInv, [Next]_vars PROVE IInv'
  OBVIOUS
<1>1. CASE UNCHANGED vars
  BY <1>1, TablesStepInv DEF vars, IInv, TypeOK
<1>2. CASE Next
  BY <1>2, RoadmapStepsInv, DeleteColumnInv, RequestInv DEF Next
<1> QED
  BY <1>1, <1>2

THEOREM Invariance == Spec => []IInv
BY InitInv, NextInv, PTL DEF Spec

-----------------------------------------------------------------------------
\* The pairs <<post, column>>, as Placement sees the items.
Placed == {<<i.post, i.column>> : i \in items}

LEMMA StoreItemPlaces ==
  ASSUME IInv, NEW r \in Requests, NEW order \in Positions, StoreItem(r, order)
  PROVE  P!Next
<1>1. PICK p \in Posts, c \in Columns : p = call[r].post /\ c = call[r].column
  BY StoreItemFacts
<1> DEFINE new == [id |-> created + 1, post |-> p, column |-> c, order |-> order]
<1>2. /\ \A i \in items : i.post # p
      /\ items' = items \cup {new}
      /\ new.post = p /\ new.column = c
  BY <1>1, StoreItemFacts
<1> HIDE DEF new
<1>3. \A d \in Columns : <<p, d>> \notin Placed
  BY <1>2 DEF Placed
<1>4. Placed' = Placed \cup {<<p, c>>}
  <2>1. Placed \cup {<<p, c>>} \subseteq Placed'
    BY <1>2 DEF Placed
  <2>2. Placed' \subseteq Placed \cup {<<p, c>>}
    BY <1>2 DEF Placed
  <2> QED
    BY <2>1, <2>2
<1>5. P!Place(p, c)
  BY <1>3, <1>4 DEF P!Place, Placed
<1> QED
  BY <1>5 DEF P!Next

LEMMA RemovePostTakes ==
  ASSUME IInv, NEW r \in Requests, RemovePost(r)
  PROVE  P!Next
<1>1. PICK i \in items : i.post = call[r].post
  BY DEF RemovePost, HasItem
<1>2. i.post \in Posts /\ i.column \in Columns
  BY ItemFields DEF IInv
<1>3. items' = items \ {i}
  BY <1>1 DEF RemovePost, IInv, KeysUnique
<1>4. <<i.post, i.column>> \in Placed
  BY DEF Placed
<1>5. \A j \in items : <<j.post, j.column>> = <<i.post, i.column>> => j = i
  BY DEF IInv, KeysUnique
<1>6. Placed' = Placed \ {<<i.post, i.column>>}
  <2>1. Placed' \subseteq Placed \ {<<i.post, i.column>>}
    BY <1>3, <1>5 DEF Placed
  <2>2. Placed \ {<<i.post, i.column>>} \subseteq Placed'
    BY <1>3 DEF Placed
  <2> QED
    BY <2>1, <2>2
<1>7. P!Take(i.post, i.column)
  BY <1>4, <1>6 DEF P!Take, Placed
<1> QED
  BY <1>2, <1>7 DEF P!Next

LEMMA UpdateOrdersStutters ==
  ASSUME IInv, NEW r \in Requests, UpdateOrders(r)
  PROVE  Placed' = Placed
<1> DEFINE f == call[r].orders
<1>1. f \in Orders /\ items' = {Moved(i, f) : i \in items}
  BY UpdateOrdersFacts
<1>2. \A i \in items : Moved(i, f).post = i.post /\ Moved(i, f).column = i.column
  BY <1>1, MovedFields
<1> HIDE DEF f
<1> QED
  BY <1>1, <1>2 DEF Placed

LEMMA StepSimulation == IInv /\ [Next]_vars => P!Next \/ Placed' = Placed
<1> SUFFICES ASSUME IInv, [Next]_vars, items' # items
             PROVE  P!Next \/ Placed' = Placed
  BY DEF Placed
<1>1. PICK r \in Requests : Request(r)
  BY DEF Next, vars, CreateRoadmap, RemoveRoadmap, DeleteColumn
<1>2. (\E order \in Positions : StoreItem(r, order)) \/ RemovePost(r) \/ UpdateOrders(r)
  BY <1>1 DEF Request, AddColumn, StoreColumn, AddPostToColumn, FindItem, RemoveItem,
     ReorderItems, CheckItems, Drop, Begin
<1> QED
  BY <1>2, StoreItemPlaces, RemovePostTakes, UpdateOrdersStutters

\* Roadmap implements Placement: however placements, removals and reorders
\* overlap, a post is in one column of one roadmap at most.
THEOREM Refinement == Spec => ImplementsPlacement
<1>1. Init => P!Init
  BY DEF Init, P!Init
<1>2. IInv /\ [Next]_vars => [P!Next]_{<<i.post, i.column>> : i \in items}
  BY StepSimulation DEF Placed
<1> QED
  BY <1>1, <1>2, Invariance, PTL DEF Spec, ImplementsPlacement, P!Spec

\* The variables of Roadmap stay in their types.
THEOREM TypeCorrect == Spec => []TypeOK
BY Invariance, PTL DEF IInv

-----------------------------------------------------------------------------
LEMMA UpdateOrdersWhole ==
  ASSUME IInv, NEW r \in Requests, UpdateOrders(r), NEW i \in items, NEW j \in items',
         i.id = j.id, i.order # j.order
  PROVE  /\ call[r].step = "reorder"
         /\ \A id \in DOMAIN call[r].orders : \E k \in items' :
              /\ k.id = id
              /\ k.order = call[r].orders[id]
              /\ k.column = i.column
<1> DEFINE f == call[r].orders
<1>1. /\ call[r].step = "reorder"
      /\ f \in Orders
      /\ \A id \in DOMAIN f : \E k \in items : k.id = id
      /\ items' = {Moved(k, f) : k \in items}
  BY UpdateOrdersFacts
<1>2. \A k \in items : k.id \in DOMAIN f => k.column = call[r].column
  BY <1>1 DEF IInv, ChecksHold
<1> HIDE DEF f
<1>3. PICK k \in items : j = Moved(k, f)
  BY <1>1
<1>4. k = i
  BY <1>1, <1>3, MovedFields DEF IInv, KeysUnique
<1>5. i.column = call[r].column
  BY <1>1, <1>2, <1>3, <1>4, MovedFields
<1>6. ASSUME NEW id \in DOMAIN f
      PROVE  \E l \in items' : l.id = id /\ l.order = f[id] /\ l.column = i.column
  <2>1. PICK l \in items : l.id = id
    BY <1>1
  <2>2. /\ Moved(l, f) \in items'
        /\ Moved(l, f).id = id
        /\ Moved(l, f).order = f[id]
        /\ Moved(l, f).column = i.column
    BY <1>1, <1>2, <1>5, <2>1, MovedFields
  <2> QED
    BY <2>2
<1> QED
  BY <1>1, <1>6 DEF f

LEMMA StepWhole ==
  ASSUME IInv, [Next]_vars, NEW i \in items, NEW j \in items',
         i.id = j.id, i.order # j.order
  PROVE  \E r \in Requests : UpdateOrders(r)
<1>1. \A k \in items : k.id = i.id => k = i
  BY DEF IInv, KeysUnique
<1>2. j \notin items
  BY <1>1
<1>3. PICK r \in Requests : Request(r)
  BY <1>2 DEF Next, vars, CreateRoadmap, RemoveRoadmap, DeleteColumn
<1>4. \A order \in Positions : ~StoreItem(r, order)
  <2> SUFFICES ASSUME NEW order \in Positions, StoreItem(r, order) PROVE FALSE
    OBVIOUS
  <2>1. j.id = created + 1
    BY <1>2, StoreItemFacts
  <2> QED
    BY <2>1 DEF IInv, TypeOK, KeysUnique
<1>5. ~RemovePost(r)
  BY <1>2 DEF RemovePost
<1> QED
  BY <1>2, <1>3, <1>4, <1>5 DEF Request, AddColumn, StoreColumn, AddPostToColumn,
     FindItem, RemoveItem, ReorderItems, CheckItems, Drop, Begin

\* A reorder happens whole and within one column, though its items were looked
\* up a query before: those that are still there have not changed column.
THEOREM ReorderIsWhole == Spec => ReordersWhole
<1>1. IInv /\ [Next]_vars =>
        [\A i \in items, j \in items' :
           i.id = j.id /\ i.order # j.order =>
             \E r \in Requests :
               /\ call[r].step = "reorder"
               /\ \A id \in DOMAIN call[r].orders : \E k \in items' :
                    /\ k.id = id
                    /\ k.order = call[r].orders[id]
                    /\ k.column = i.column]_vars
  BY StepWhole, UpdateOrdersWhole
<1> QED
  BY <1>1, Invariance, PTL DEF Spec, ReordersWhole
=============================================================================

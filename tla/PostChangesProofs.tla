------------------------- MODULE PostChangesProofs --------------------------
(***************************************************************************)
(* Theorems about PostChanges, for every set of statuses, tags and         *)
(* requests.                                                               *)
(*                                                                         *)
(* Status: as long as changes follow each other, the one under way has     *)
(* read the status that was announced, or none (ChangesInv).  Tags: a      *)
(* replacement that has begun deletes whole sets, all it could see, and    *)
(* leaves those committed since (ReplacementsInv).                         *)
(***************************************************************************)
EXTENDS PostChanges, TLAPS

ChangesInv ==
  smooth =>
    \A r \in Requests :
      /\ \A q \in Requests : Changing(r) /\ Changing(q) => q = r
      /\ call[r].step = "update" => call[r].old = status /\ status \in {announced, Null}
      /\ call[r].step = "emit" => call[r].new = status

ReplacementsInv ==
  \A r \in Requests : call[r].step = "insert" =>
    /\ \A row \in call[r].doomed : row[2] <= call[r].since
    /\ \A row \in tags : row \in call[r].doomed \/ row[2] > call[r].since

IInv == TypeOK /\ ChangesInv /\ ReplacementsInv /\ ChangesAnnounced /\ TagsReplaced

\* A row is of a tag that its replacement asked for, and the last replacement
\* has lost none.
LastInv ==
  /\ \A row \in tags : row[1] \in replaced[row[2]].wanted
  /\ count > 0 => replaced[count].wanted \X {count} \subseteq tags

-----------------------------------------------------------------------------
LEMMA CallFields ==
  ASSUME TypeOK, NEW r \in Requests
  PROVE  /\ call[r].step \in {"update", "emit"} => call[r].new \in StatusIds
         /\ call[r].step \in {"delete", "insert"} => call[r].wanted \in SUBSET Tags
         /\ call[r].step = "insert" =>
              /\ call[r].doomed \in SUBSET (Tags \X (1 .. count))
              /\ call[r].since \in 0 .. count
BY DEF TypeOK, Call, Idle, StatusIds

LEMMA RowFields ==
  ASSUME TypeOK, NEW row \in tags
  PROVE  row[1] \in Tags /\ row[2] \in 1 .. count /\ row[2] \in Nat /\ row = <<row[1], row[2]>>
BY DEF TypeOK

\* A step of a request that leaves the tables of tags alone.
LEMMA StatusStepInv ==
  ASSUME IInv, NEW r \in Requests, NEW c \in Call, Proceed(r, c), c.step # "insert",
         status' \in StatusIds, announced' \in StatusIds, smooth' \in BOOLEAN,
         live' \subseteq Tags, UNCHANGED <<tags, replaced, count>>,
         ChangesInv', ChangesAnnounced'
  PROVE  IInv'
<1> USE DEF IInv
<1>1. TypeOK'
  <2>1. Call' = Call
    BY DEF Call
  <2> QED
    BY <2>1 DEF TypeOK, Proceed
<1>2. ReplacementsInv'
  BY DEF ReplacementsInv, Proceed, TypeOK
<1>3. TagsReplaced'
  BY DEF TagsReplaced
<1> QED
  BY <1>1, <1>2, <1>3

LEMMA IdleOK == Idle \in Call /\ Idle.step = "idle"
BY DEF Idle, Call

LEMMA InitInv == Init => IInv
<1> SUFFICES ASSUME Init PROVE IInv
  OBVIOUS
<1>1. TypeOK
  <2>1. replaced \in [1 .. count -> [wanted : SUBSET Tags, since : 0 .. count]]
    BY DEF Init
  <2> QED
    BY <2>1, IdleOK DEF Init, TypeOK
<1>2. ChangesInv /\ ReplacementsInv /\ ChangesAnnounced /\ TagsReplaced
  BY IdleOK DEF Init, ChangesInv, ReplacementsInv, ChangesAnnounced, TagsReplaced, Changing
<1> QED
  BY <1>1, <1>2 DEF IInv

-----------------------------------------------------------------------------
LEMMA UpdateInv ==
  ASSUME IInv, NEW r \in Requests, NEW new \in StatusIds, Update(r, new)
  PROVE  IInv'
<1> DEFINE c == [step |-> "update", old |-> status, new |-> new]
<1>1. /\ call'[r] = c
      /\ \A q \in Requests \ {r} : call'[q] = call[q]
      /\ call[r] = Idle
      /\ smooth' = (smooth /\ ~\E q \in Requests : Changing(q))
      /\ announced' = IF smooth' THEN announced ELSE Null
      /\ UNCHANGED <<status, live, tags, replaced, count>>
  BY DEF Update, Proceed, IInv, TypeOK
<1>2. c \in Call
  BY DEF Call, IInv, TypeOK
<1>3. ChangesInv'
  <2> SUFFICES ASSUME smooth', NEW p \in Requests
               PROVE  /\ \A q \in Requests : Changing(p)' /\ Changing(q)' => q = p
                      /\ call'[p].step = "update" =>
                           call'[p].old = status' /\ status' \in {announced', Null}
                      /\ call'[p].step = "emit" => call'[p].new = status'
    BY DEF ChangesInv
  <2>1. smooth /\ ~\E q \in Requests : Changing(q)
    BY <1>1
  <2>2. \A q \in Requests \ {r} : call'[q].step \notin {"update", "emit"}
    BY <1>1, <2>1 DEF Changing
  <2>3. announced' = announced /\ status \in {announced, Null}
    BY <1>1, <2>1 DEF Changing, IInv, ChangesAnnounced
  <2> QED
    BY <1>1, <2>2, <2>3 DEF Changing
<1>4. ChangesAnnounced'
  BY <1>1, IdleOK DEF ChangesAnnounced, Changing, IInv
<1> QED
  BY <1>1, <1>2, <1>3, <1>4, StatusStepInv DEF Update, IInv, TypeOK, StatusIds

LEMMA UpdateStatusInv ==
  ASSUME IInv, NEW r \in Requests, UpdateStatus(r)
  PROVE  IInv'
<1> DEFINE c == IF call[r].new \in {Null, call[r].old}
                  THEN Idle ELSE [step |-> "emit", new |-> call[r].new]
<1>1. /\ call'[r] = c
      /\ \A q \in Requests \ {r} : call'[q] = call[q]
      /\ call[r].step = "update"
      /\ status' = call[r].new
      /\ UNCHANGED <<smooth, announced, live, tags, replaced, count>>
  BY DEF UpdateStatus, Proceed, IInv, TypeOK
<1>2. call[r].new \in StatusIds
  BY <1>1, CallFields DEF IInv
<1>3. c \in Call /\ c.step # "insert" /\ c.step # "update"
  BY <1>2, IdleOK DEF Call, StatusIds
<1>4. smooth => \A q \in Requests \ {r} : ~Changing(q)
  BY <1>1 DEF IInv, ChangesInv, Changing
<1>5. ChangesInv'
  BY <1>1, <1>3, <1>4, IdleOK DEF ChangesInv, Changing
<1>6. ChangesAnnounced'
  BY <1>1, IdleOK DEF ChangesAnnounced, ChangesInv, IInv
<1> QED
  BY <1>1, <1>2, <1>3, <1>5, <1>6, StatusStepInv DEF UpdateStatus, IInv, TypeOK

LEMMA EmitInv ==
  ASSUME IInv, NEW r \in Requests, Emit(r)
  PROVE  IInv'
<1>1. /\ call'[r] = Idle
      /\ \A q \in Requests \ {r} : call'[q] = call[q]
      /\ call[r].step = "emit"
      /\ announced' = IF smooth THEN call[r].new ELSE Null
      /\ UNCHANGED <<status, smooth, live, tags, replaced, count>>
  BY DEF Emit, Proceed, IInv, TypeOK
<1>2. call[r].new \in StatusIds
  BY <1>1, CallFields DEF IInv
<1>3. ChangesInv' /\ ChangesAnnounced'
  BY <1>1, IdleOK DEF ChangesInv, ChangesAnnounced, Changing, IInv
<1> QED
  BY <1>1, <1>2, <1>3, IdleOK, StatusStepInv DEF Emit, IInv, TypeOK, StatusIds

LEMMA RemoveTagInv ==
  ASSUME IInv, NEW t \in Tags, RemoveTag(t)
  PROVE  IInv'
<1> USE DEF IInv, RemoveTag
<1>1. TypeOK'
  BY DEF TypeOK, Call
<1>2. ChangesInv' /\ ChangesAnnounced'
  BY DEF ChangesInv, ChangesAnnounced, Changing
<1>3. ReplacementsInv' /\ TagsReplaced'
  BY DEF ReplacementsInv, TagsReplaced
<1> QED
  BY <1>1, <1>2, <1>3

LEMMA UpdateTagsInv ==
  ASSUME IInv, NEW r \in Requests, NEW wanted \in SUBSET Tags, UpdateTags(r, wanted)
  PROVE  IInv'
<1> DEFINE c == [step |-> "delete", wanted |-> wanted]
<1>1. /\ call'[r] = c
      /\ \A q \in Requests \ {r} : call'[q] = call[q]
      /\ call[r] = Idle
      /\ UNCHANGED <<status, announced, smooth, live, tags, replaced, count>>
  BY DEF UpdateTags, Proceed, IInv, TypeOK
<1>2. c \in Call
  BY DEF Call
<1>3. ChangesInv' /\ ChangesAnnounced'
  BY <1>1, IdleOK DEF ChangesInv, ChangesAnnounced, Changing, IInv
<1> QED
  BY <1>1, <1>2, <1>3, StatusStepInv DEF UpdateTags, IInv, TypeOK

LEMMA DropInv ==
  ASSUME IInv, NEW r \in Requests, Drop(r)
  PROVE  IInv'
<1>1. /\ call'[r] = Idle
      /\ \A q \in Requests \ {r} : call'[q] = call[q]
      /\ smooth' = (smooth /\ call[r].step # "emit")
      /\ announced' = IF smooth' THEN announced ELSE Null
      /\ UNCHANGED <<status, live, tags, replaced, count>>
  BY DEF Drop, Proceed, IInv, TypeOK
<1>2. ChangesInv' /\ ChangesAnnounced'
  BY <1>1, IdleOK DEF ChangesInv, ChangesAnnounced, Changing, IInv
<1> QED
  BY <1>1, <1>2, IdleOK, StatusStepInv DEF Drop, IInv, TypeOK, StatusIds

-----------------------------------------------------------------------------
LEMMA DeleteTagsInv ==
  ASSUME IInv, NEW r \in Requests, DeleteTags(r)
  PROVE  IInv'
<1> DEFINE c == [step |-> "insert", wanted |-> call[r].wanted,
                 doomed |-> tags, since |-> count]
<1>1. /\ call'[r] = c
      /\ \A q \in Requests \ {r} : call'[q] = call[q]
      /\ call[r].step = "delete"
      /\ UNCHANGED <<status, announced, smooth, live, tags, replaced, count>>
  BY DEF DeleteTags, Proceed, IInv, TypeOK
<1>2. TypeOK'
  <2>1. c \in Call
    BY <1>1, CallFields DEF Call, IInv, TypeOK
  <2>2. Call' = Call
    BY <1>1 DEF Call
  <2>3. call' \in [Requests -> Call']
    BY <2>1, <2>2 DEF DeleteTags, Proceed, IInv, TypeOK
  <2> QED
    BY <1>1, <2>3 DEF IInv, TypeOK
<1>3. ChangesInv' /\ ChangesAnnounced'
  BY <1>1 DEF ChangesInv, ChangesAnnounced, Changing, IInv
<1>4. ReplacementsInv'
  <2>1. \A row \in tags : row[2] <= count
    BY RowFields DEF IInv, TypeOK
  <2> QED
    BY <1>1, <2>1 DEF ReplacementsInv, IInv
<1>5. TagsReplaced'
  BY <1>1 DEF TagsReplaced, IInv
<1> QED
  BY <1>2, <1>3, <1>4, <1>5 DEF IInv

LEMMA InsertTagsInv ==
  ASSUME IInv, NEW r \in Requests, InsertTags(r)
  PROVE  IInv'
<1> DEFINE c == call[r]
           kept == tags \ c.doomed
           n == count + 1
<1>1. /\ call'[r] = Idle
      /\ \A q \in Requests \ {r} : call'[q] = call[q]
      /\ c.step = "insert"
      /\ count' = n
      /\ tags' = kept \cup (c.wanted \X {n})
      /\ replaced' = [m \in 1 .. n |->
           IF m = n THEN [wanted |-> c.wanted, since |-> c.since] ELSE replaced[m]]
      /\ UNCHANGED <<status, announced, smooth, live>>
  BY DEF InsertTags, Proceed, IInv, TypeOK
<1>2. count \in Nat /\ n \in Nat /\ c.wanted \in SUBSET Tags /\ c.since \in 0 .. count
      /\ 1 .. count \subseteq 1 .. n /\ 0 .. count \subseteq 0 .. n
  BY <1>1, CallFields DEF IInv, TypeOK
<1>3. TypeOK'
  <2>1. tags' \in SUBSET (Tags \X (1 .. n))
    <3>1. ASSUME NEW row \in tags' PROVE row \in Tags \X (1 .. n)
      <4>1. CASE row \in kept
        BY <4>1, <1>2 DEF IInv, TypeOK
      <4>2. CASE row \in c.wanted \X {n}
        BY <4>2, <1>2
      <4> QED
        BY <1>1, <3>1, <4>1, <4>2
    <3> QED
      BY <3>1
  <2>2. replaced' \in [1 .. n -> [wanted : SUBSET Tags, since : 0 .. n]]
    <3>1. ASSUME NEW m \in 1 .. n
          PROVE  replaced'[m] \in [wanted : SUBSET Tags, since : 0 .. n]
      <4>1. CASE m = n
        BY <4>1, <1>1, <1>2
      <4>2. CASE m # n
        <5>1. m \in 1 .. count /\ replaced'[m] = replaced[m]
          BY <4>2, <1>1, <1>2
        <5> QED
          BY <5>1, <1>2 DEF IInv, TypeOK
      <4> QED
        BY <4>1, <4>2
    <3> QED
      BY <1>1, <3>1
  <2>3. Call \subseteq Call'
    BY <1>1, <1>2 DEF Call
  <2>4. call' \in [Requests -> Call']
    BY <2>3, IdleOK DEF InsertTags, Proceed, IInv, TypeOK
  <2> QED
    BY <1>1, <1>2, <2>1, <2>2, <2>4 DEF IInv, TypeOK
<1>4. ChangesInv' /\ ChangesAnnounced'
  BY <1>1, IdleOK DEF ChangesInv, ChangesAnnounced, Changing, IInv
<1>5. ReplacementsInv'
  <2> SUFFICES ASSUME NEW q \in Requests, call'[q].step = "insert"
               PROVE  /\ \A row \in call'[q].doomed : row[2] <= call'[q].since
                      /\ \A row \in tags' :
                           row \in call'[q].doomed \/ row[2] > call'[q].since
    BY DEF ReplacementsInv
  <2>1. q # r /\ call'[q] = call[q] /\ call[q].step = "insert"
    BY <1>1, IdleOK
  <2>2. call[q].since \in 0 .. count
    BY <2>1, CallFields DEF IInv
  <2>3. ASSUME NEW row \in tags'
        PROVE  row \in call[q].doomed \/ row[2] > call[q].since
    <3>1. CASE row \in kept
      BY <3>1, <2>1 DEF IInv, ReplacementsInv
    <3>2. CASE row \in c.wanted \X {n}
      BY <3>2, <2>2, <1>2
    <3> QED
      BY <1>1, <3>1, <3>2
  <2> QED
    BY <2>1, <2>3 DEF IInv, ReplacementsInv
<1>6. TagsReplaced'
  <2> SUFFICES ASSUME NEW row \in tags'
               PROVE  /\ \A t \in replaced'[row[2]].wanted : <<t, row[2]>> \in tags'
                      /\ \A m \in 1 .. n : m > row[2] => replaced'[m].since < row[2]
    BY <1>1 DEF TagsReplaced
  <2>1. CASE row \in kept
    <3>1. row \in tags /\ row[2] \in 1 .. count /\ row[2] \in Nat
          /\ row[2] # n /\ row[2] \in 1 .. n
      BY <2>1, <1>2, RowFields DEF IInv
    <3>2. row[2] > c.since
      BY <2>1, <1>1 DEF IInv, ReplacementsInv
    <3>3. replaced'[row[2]] = replaced[row[2]]
      BY <3>1, <1>1
    <3>4. ASSUME NEW t \in replaced[row[2]].wanted
          PROVE  <<t, row[2]>> \in kept
      <4>1. <<t, row[2]>> \in tags
        BY <3>1 DEF IInv, TagsReplaced
      <4>2. ASSUME <<t, row[2]>> \in c.doomed PROVE FALSE
        <5>1. <<t, row[2]>>[2] <= c.since
          BY <4>2, <1>1 DEF IInv, ReplacementsInv
        <5> QED
          BY <5>1, <3>1, <3>2, <1>2
      <4> QED
        BY <4>1, <4>2
    <3>5. ASSUME NEW m \in 1 .. n, m > row[2]
          PROVE  replaced'[m].since < row[2]
      <4>1. CASE m = n
        BY <4>1, <1>1, <1>2, <3>1, <3>2
      <4>2. CASE m # n
        <5>1. m \in 1 .. count /\ replaced'[m] = replaced[m]
          BY <4>2, <1>1, <1>2
        <5> QED
          BY <5>1, <3>1, <3>5 DEF IInv, TagsReplaced
      <4> QED
        BY <4>1, <4>2
    <3> QED
      BY <1>1, <3>3, <3>4, <3>5
  <2>2. CASE row \in c.wanted \X {n}
    <3>1. row[2] = n
      BY <2>2
    <3>2. replaced'[n].wanted = c.wanted
      BY <1>1, <1>2
    <3> QED
      BY <1>1, <1>2, <3>1, <3>2
  <2> QED
    BY <1>1, <2>1, <2>2
<1> QED
  BY <1>3, <1>4, <1>5, <1>6 DEF IInv

LEMMA NextInv == IInv /\ [Next]_vars => IInv'
<1> SUFFICES ASSUME IInv, [Next]_vars PROVE IInv'
  OBVIOUS
<1>1. CASE UNCHANGED vars
  <2>1. TypeOK'
    BY <1>1 DEF vars, IInv, TypeOK, Call
  <2>2. ChangesInv' /\ ChangesAnnounced'
    BY <1>1 DEF vars, IInv, ChangesInv, ChangesAnnounced, Changing
  <2>3. ReplacementsInv' /\ TagsReplaced'
    BY <1>1 DEF vars, IInv, ReplacementsInv, TagsReplaced
  <2> QED
    BY <2>1, <2>2, <2>3 DEF IInv
<1>2. ASSUME NEW r \in Requests, Request(r)
      PROVE  IInv'
  BY <1>2, UpdateInv, UpdateStatusInv, EmitInv, UpdateTagsInv, DeleteTagsInv,
     InsertTagsInv, DropInv DEF Request
<1> QED
  BY <1>1, <1>2, RemoveTagInv DEF Next

LEMMA NextLast == IInv /\ LastInv /\ [Next]_vars => LastInv'
<1> SUFFICES ASSUME IInv, LastInv, [Next]_vars PROVE LastInv'
  OBVIOUS
<1>1. CASE UNCHANGED <<tags, replaced, count>>
  BY <1>1 DEF LastInv
<1>2. ASSUME NEW r \in Requests, InsertTags(r)
      PROVE  LastInv'
  <2> DEFINE c == call[r]
             n == count + 1
  <2>1. /\ count' = n
        /\ tags' = (tags \ c.doomed) \cup (c.wanted \X {n})
        /\ replaced' = [m \in 1 .. n |->
             IF m = n THEN [wanted |-> c.wanted, since |-> c.since] ELSE replaced[m]]
        /\ count \in Nat /\ n \in 1 .. n /\ n > 0
    BY <1>2 DEF InsertTags, IInv, TypeOK
  <2>2. replaced'[n].wanted = c.wanted
    BY <2>1
  <2>3. ASSUME NEW row \in tags'
        PROVE  row[1] \in replaced'[row[2]].wanted
    <3>1. CASE row \in c.wanted \X {n}
      BY <3>1, <2>2
    <3>2. CASE row \in tags
      <4>1. row[2] \in 1 .. n /\ row[2] # n
        BY <3>2, <2>1, RowFields DEF IInv
      <4> QED
        BY <4>1, <3>2, <2>1 DEF LastInv
    <3> QED
      BY <2>1, <3>1, <3>2
  <2> QED
    BY <2>1, <2>2, <2>3 DEF LastInv
<1> QED
  BY <1>1, <1>2 DEF Next, Request, vars, Update, UpdateStatus, Emit, RemoveTag, UpdateTags,
     DeleteTags, Drop

LEMMA LastInvWins == IInv /\ LastInv => LastTagsWin
<1> SUFFICES ASSUME IInv, LastInv, count > 0, replaced[count].since = count - 1
             PROVE  tags = replaced[count].wanted \X {count}
  BY DEF LastTagsWin
<1>1. count \in Nat /\ count \in 1 .. count
  BY DEF IInv, TypeOK
<1>2. ASSUME NEW row \in tags
      PROVE  row \in replaced[count].wanted \X {count}
  <2>1. row[2] \in 1 .. count /\ row = <<row[1], row[2]>>
    BY RowFields DEF IInv
  <2>2. count > row[2] => replaced[count].since < row[2]
    BY <1>1 DEF IInv, TagsReplaced
  <2>3. row[2] = count
    BY <1>1, <2>1, <2>2
  <2>4. row[1] \in replaced[count].wanted
    BY <2>3 DEF LastInv
  <2> QED
    BY <2>1, <2>3, <2>4
<1> QED
  BY <1>2 DEF LastInv

THEOREM Invariance == Spec => []IInv
BY InitInv, NextInv, PTL DEF Spec

-----------------------------------------------------------------------------
\* The variables of PostChanges stay in their types.
THEOREM TypeCorrect == Spec => []TypeOK
BY Invariance, PTL DEF IInv

\* As long as changes of status follow each other and none is cut short, the
\* author was told of the status that the post has, if it has one, or is about to
\* be, however often it was taken away and given back.
THEOREM AuthorIsTold == Spec => []ChangesAnnounced
BY Invariance, PTL DEF IInv

\* The tags a replacement stored are there together or not at all, and beside
\* those of a later one only if that one had begun before.
THEOREM TagsGoTogether == Spec => []TagsReplaced
BY Invariance, PTL DEF IInv

\* A replacement of tags that did not overlap another leaves the post with the
\* tags it asked for and no other.
THEOREM TheLastWins == Spec => []LastTagsWin
<1>1. Init => LastInv
  BY DEF Init, LastInv
<1> QED
  BY <1>1, NextLast, LastInvWins, Invariance, PTL DEF Spec
=============================================================================

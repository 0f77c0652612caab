---------------------------- MODULE PostChanges -----------------------------
(***************************************************************************)
(* What managers change of a post: its status, which is announced, and its *)
(* tags, which are replaced (PostsService.update and updateTags).  One     *)
(* post is modelled, as no statement touches two, and it is not removed:   *)
(* that is in Threads.                                                     *)
(*                                                                         *)
(* A replacement of tags is a transaction of a DELETE and an INSERT under  *)
(* PostgreSQL's Read Committed.  The DELETE takes the rows that were       *)
(* committed when it began, and not those that another transaction has     *)
(* inserted since, even if it had to wait for it.                          *)
(***************************************************************************)
EXTENDS Naturals

CONSTANTS
  Statuses,        \* primary keys of status
  Null,            \* no status
  Tags,            \* primary keys of the organization's tags
  Requests,        \* requests that can be in flight at once
  MaxReplacements  \* bound on the replacements of tags that went through

VARIABLES
  status,     \* the status of the post, or Null
  smooth,     \* no two changes of status have overlapped, none was cut short
  announced,  \* as long as smooth, the new status of the last event, or the
              \* first of the post
  live,       \* the tags of the organization that are not removed
  tags,       \* the table post_tag: <<tag, number of the replacement>>
  replaced,   \* replaced[n]: the tags replacement n asked for, and since when
  count,      \* how many replacements went through
  call        \* call[r]: what request r does next

vars == <<status, smooth, announced, live, tags, replaced, count, call>>

\* What the column status_id and the field statusId of the request may hold.
StatusIds == Statuses \cup {Null}

Idle == [step |-> "idle"]
Call ==
       {Idle}
  \cup [step : {"update"}, old : StatusIds, new : StatusIds]
  \cup [step : {"emit"}, new : Statuses]
  \cup [step : {"delete"}, wanted : SUBSET Tags]
  \cup [step : {"insert"}, wanted : SUBSET Tags, doomed : SUBSET (Tags \X (1 .. count)),
        since : 0 .. count]

TypeOK ==
  /\ status \in StatusIds
  /\ smooth \in BOOLEAN
  /\ announced \in StatusIds
  /\ live \subseteq Tags
  /\ tags \subseteq Tags \X (1 .. count)
  /\ replaced \in [1 .. count -> [wanted : SUBSET Tags, since : 0 .. count]]
  /\ count \in Nat
  /\ call \in [Requests -> Call]

Init ==
  /\ status \in StatusIds
  /\ smooth = TRUE
  /\ announced = status
  /\ live = Tags
  /\ tags = {}
  /\ replaced = << >>
  /\ count = 0
  /\ call = [r \in Requests |-> Idle]

Proceed(r, c) == call' = [call EXCEPT ![r] = c]

Changing(r) == call[r].step \in {"update", "emit"}

-----------------------------------------------------------------------------
(* PATCH /posts/:id/settings with a status or null: the old one is read,   *)
(* the new one written, and the change announced if there is a new one and *)
(* it differs.                                                             *)
Update(r, new) ==
  /\ call[r] = Idle
  /\ Proceed(r, [step |-> "update", old |-> status, new |-> new])
  /\ smooth' = (smooth /\ ~\E q \in Requests : Changing(q))
  /\ announced' = IF smooth' THEN announced ELSE Null
  /\ UNCHANGED <<status, live, tags, replaced, count>>

\* Mutant: a first status is not taken for a change.
MutantQuiet(r) ==
  /\ call[r].step = "update"
  /\ status' = call[r].new
  /\ Proceed(r, IF Null \in {call[r].old, call[r].new} \/ call[r].new = call[r].old
                  THEN Idle ELSE [step |-> "emit", new |-> call[r].new])
  /\ UNCHANGED <<smooth, announced, live, tags, replaced, count>>

UpdateStatus(r) ==
  /\ call[r].step = "update"
  /\ status' = call[r].new
  /\ Proceed(r, IF call[r].new \in {Null, call[r].old}
                  THEN Idle ELSE [step |-> "emit", new |-> call[r].new])
  /\ UNCHANGED <<smooth, announced, live, tags, replaced, count>>

Emit(r) ==
  /\ call[r].step = "emit"
  /\ announced' = IF smooth THEN call[r].new ELSE Null
  /\ Proceed(r, Idle)
  /\ UNCHANGED <<status, smooth, live, tags, replaced, count>>

-----------------------------------------------------------------------------
(* DELETE /tags/:id stamps the tag; the posts that have it keep it.        *)
RemoveTag(t) ==
  /\ live' = live \ {t}
  /\ UNCHANGED <<status, smooth, announced, tags, replaced, count, call>>

(* PATCH /posts/:id/tags: the tags are found to be the organization's; the *)
(* DELETE begins; the INSERT and the commit.                               *)
UpdateTags(r, wanted) ==
  /\ call[r] = Idle
  /\ wanted \subseteq live
  /\ Proceed(r, [step |-> "delete", wanted |-> wanted])
  /\ UNCHANGED <<status, smooth, announced, live, tags, replaced, count>>

\* Mutant: removed tags, which no reader of the post sees, are not deleted.
MutantLiveOnly(r) ==
  /\ call[r].step = "delete"
  /\ Proceed(r, [step |-> "insert", wanted |-> call[r].wanted,
                 doomed |-> {row \in tags : row[1] \in live}, since |-> count])
  /\ UNCHANGED <<status, smooth, announced, live, tags, replaced, count>>

DeleteTags(r) ==
  /\ call[r].step = "delete"
  /\ Proceed(r, [step |-> "insert", wanted |-> call[r].wanted,
                 doomed |-> tags, since |-> count])
  /\ UNCHANGED <<status, smooth, announced, live, tags, replaced, count>>

\* Mutant: the tags that are there are skipped (skipDuplicates).
MutantSkip(r) ==
  LET c == call[r]
      kept == tags \ c.doomed
  IN /\ c.step = "insert"
     /\ count < MaxReplacements
     /\ count' = count + 1
     /\ tags' = kept \cup {x \in c.wanted \X {count + 1} :
                            \A row \in kept : row[1] # x[1]}
     /\ replaced' = [n \in 1 .. count + 1 |->
          IF n = count + 1 THEN [wanted |-> c.wanted, since |-> c.since]
                           ELSE replaced[n]]
     /\ Proceed(r, Idle)
     /\ UNCHANGED <<status, smooth, announced, live>>

\* The key (postId, tagId) rolls the replacement back if a tag is there.
InsertTags(r) ==
  LET c == call[r]
      kept == tags \ c.doomed
  IN /\ c.step = "insert"
     /\ \A row \in kept : row[1] \notin c.wanted
     /\ count < MaxReplacements
     /\ count' = count + 1
     /\ tags' = kept \cup (c.wanted \X {count + 1})
     /\ replaced' = [n \in 1 .. count + 1 |->
          IF n = count + 1 THEN [wanted |-> c.wanted, since |-> c.since]
                           ELSE replaced[n]]
     /\ Proceed(r, Idle)
     /\ UNCHANGED <<status, smooth, announced, live>>

-----------------------------------------------------------------------------
\* A request is refused, a query of it fails, or the process restarts.
Drop(r) ==
  /\ call[r] # Idle
  /\ Proceed(r, Idle)
  /\ smooth' = (smooth /\ call[r].step # "emit")
  /\ announced' = IF smooth' THEN announced ELSE Null
  /\ UNCHANGED <<status, live, tags, replaced, count>>

Request(r) ==
  \/ \E new \in StatusIds : Update(r, new)
  \/ UpdateStatus(r) \/ Emit(r)
  \/ \E wanted \in SUBSET Tags : UpdateTags(r, wanted)
  \/ DeleteTags(r) \/ InsertTags(r) \/ Drop(r)

Next ==
  \/ \E t \in Tags : RemoveTag(t)
  \/ \E r \in Requests : Request(r)

Spec == Init /\ [][Next]_vars

-----------------------------------------------------------------------------
(* ChangesAnnounced: the status of the post, if it has one, is what the    *)
(* author was told of last, or is about to be announced, as long as no two *)
(* changes have overlapped and none was cut short between its write and    *)
(* its event.  That a status was taken away is announced to nobody; what   *)
(* is put in its place is, be it the one that was there before.            *)
ChangesAnnounced ==
  smooth /\ status # Null =>
    \/ announced = status
    \/ \E r \in Requests : call[r].step = "emit" /\ call[r].new = status

(* TagsReplaced: the tags that a replacement stored go together, and they  *)
(* are there beside those of a later one only if they were committed after *)
(* the later one had begun to delete.                                      *)
TagsReplaced ==
  \A row \in tags :
    /\ \A t \in replaced[row[2]].wanted : <<t, row[2]>> \in tags
    /\ \A n \in 1 .. count : n > row[2] => replaced[n].since < row[2]

(* LastTagsWin: if the last replacement that went through had begun after  *)
(* the one before was committed, the post has the tags it asked for and no *)
(* other, whatever tags were removed and requests cut short meanwhile.     *)
LastTagsWin ==
  count > 0 /\ replaced[count].since = count - 1 =>
    tags = replaced[count].wanted \X {count}
=============================================================================

# TLA+ models of board-api

board-api is a NestJS service (TypeScript, Prisma, PostgreSQL) in which
organizations collect feedback: boards hold posts, people vote and comment,
managers give posts a status and place them on roadmaps. This directory models
the parts of it whose correctness depends on the order in which things happen,
checks them with TLC on small instances and proves the most important results
with TLAPS for every instance. Paths below are relative to the repository.

## 1. The system

One Node process serves HTTP. A request runs a guard (`jwt-auth.guard`, then
`organization.guard` or `resource.guard`), a service method and one or more
repository methods, each of which is one SQL statement or one transaction of
Prisma. Services tell each other of what happened through an in-process
`EventEmitter2`; nobody waits for a listener and nothing is kept of an event if
the process stops. Everything durable is in PostgreSQL, files are in S3, mail
goes through a provider.

| component | code | state | operations that change it |
|---|---|---|---|
| invites | `src/modules/invites`, `events/listeners/invite-listener.ts` | `organization_invite`: token, status, expiresAt, lastRetryAt | create, open a link, accept, list (expires overdue ones through an event), revoke, retry, mail |
| members | `src/modules/organizations` | `user_organization`: role, deletedAt | join (by acceptance), change role, remove |
| organizations, provisioning | `src/modules/organizations`, `events/listeners/organization-listener.ts` | `organization.default_status_id`; a first board, tags, statuses | create, then five queries of a listener |
| status | `src/modules/status` | `status`: name (unique per organization), deletedAt | create, rename, remove |
| auth, sessions | `src/shared/modules/auth` | `session`: refresh token, expiresAt; cookies of the browsers | sign in, refresh, sign out; a check on every request |
| boards | `src/modules/boards` | `board`: isLocked, isPrivate | create, manage, remove (soft) |
| posts | `src/modules/posts` | `post`: status, isLocked, tags | create, update, manage, tags, remove (soft), vote |
| votes | `src/modules/votes` | `post_vote`, unique per user and post | toggle |
| comments | `src/modules/comments` | `comment`: parent, deletedAt | create, edit, remove (soft) |
| tags | `src/modules/tags` | `tag`, `post_tag` | create, rename, remove |
| notifications | `src/modules/notifications`, `events/listeners/notification-listener.ts` | `notification`, `user_notification`: readAt; open SSE streams, in memory | notify, mark as read (one, all), dismiss, subscribe, publish |
| roadmap | `src/modules/roadmap` | `roadmap`, `roadmap_column`, `roadmap_item`: positions | create, rename, remove, add/remove columns, place/take out/reorder posts |
| users, avatars | `src/modules/users`, `src/shared/modules/storage` | `user`: e-mail, avatar key; files in S3 | register, request an upload, confirm it |
| access | `src/common/guards` | none | admit or refuse |
| mail, filter, config, utils, generated client | | none of their own | |

How they interact: `invites` calls `organizations` (is this address a member?),
`organizations` emits `organization.created`, `invite.expired`; its listener
calls `boards`, `tags`, `status` and `organizations` again; `posts` calls
`boards`, `organizations` and `votes` and emits `post.statusChanged`,
`comments` calls `posts` and emits `post.commented`; the notification listener
calls `notifications`, which pushes to the SSE streams.

What is hard about it, and what a test that runs one method with a mocked
repository does not reach:

- a service method reads, awaits, and writes what it decided, while other
  requests, and the listeners, do the same to the same rows;
- several writes without a transaction (provisioning), and a few with one;
- events that are handled later than the state they speak of, or never;
- clocks: links that expire, tokens that expire, an hour between retries;
- soft-deleted rows that keep their unique keys;
- answers that never reach a browser whose session has just been renewed.

What makes each part correct: an organization always has exactly one owner,
its founder; people join by one accepted invite; a removal is final; a closed
invite stays closed; links are unique; status names are unique and the default
status is the listener's; a live session ends only by a logout. Votes: a vote is there exactly
if the last answer said so. Threads: a reply's parent is a top-level comment of
its own post. Notifications: a tab that streams and lists misses none, and
shows only those of its user. Roadmap: a post is in one column only, a reorder
happens whole. Avatars: the key in the row is that of a file that exists.
Changes of a post: the author hears of its status, its tags are those of one
replacement. `PROJECT.json` lists every hazard with its line and the properties
that cover it.

## 2. Conventions of the models

- **Read and write steps.** A request is the steps between its awaits. The read
  step takes the guard, the queries that only read and the values computed from
  them; it records in `call` what the request will write. The write step
  commits it at a later time, with the conditions that the *statement* has (key,
  unique constraints, transaction), not those the service checked before.
- **Guards of access.** Who may call an operation is not a conjunct: the founder
  always is an owner (that is `SoleOwner`, checked), so that every operation
  always has somebody who may call it, and the choice of the caller changes no
  row.
- **Refusals** (4xx) change nothing. They are stuttering steps, or the end of
  the request where it has begun.
- **One organization, one account's sessions.** No handler relates rows of two
  organizations in the modules below, nor sessions of two accounts. Accounts do
  meet in the tables of members, votes and notifications, and in the store of
  avatars; there the modules have as many as they are given.
- **Rows are never re-used.** A key that was used stays used; soft deletion is a
  flag, as in the code; a row of `session` that is deleted keeps its key.
- Clocks are natural numbers, bounded by `MaxTime` in the guard of `Tick`.
- A definition whose name begins with `Mutant` is a wrong variant of the one
  below it. No specification uses it; it is there to show that a property would
  notice.

## 3. Modules

### Membership and Invites

`Membership` is the promise: a row in by invitation, once; roles change and
removals are stamped; never for the founder. `Invites` is the code: the tables
`invites` and `members`, the requests in flight in `call`, the tokens generated
(`issued`), handed to the mail listener (`outbox`) and sent (`mailed`).

| request | read step | write step |
|---|---|---|
| POST /invites | `CreateInvite` | `InsertInvite` |
| GET /invites/:token | `FindByToken` | `ExpireInvites` |
| POST accept | `Accept` | `AcceptInvite` or `ExpireInvites` |
| GET /organizations/:id/invites | `ListInvites` | `ExpireInvites`, by the listener |
| DELETE /invites/:id | `Revoke` | `RevokeInvite` |
| POST retry | `RetryInvite` | `ReissueInvite` |
| PATCH role | `UpdateMemberRole` | `SetRole` |
| DELETE member | `RemoveMember`, `CountOwners` | `StampRemoval` |

`SendMail` delivers or drops one e-mail; `Restart` forgets requests and mail not
yet sent. A link is its token: whoever made the request has it from the answer
of POST /invites as well, so that `FindByToken` and `Accept` ask for no mail;
`mailed` only remembers which links went out. `acceptInvite` is a transaction: when the user already has a row, the
unique key rolls both writes back, which `AcceptInvite` shows as no change.
`Found(r)` is what the read step of request `r` has found, asked of the tables as
they are now, the expiry of the link included; `Undoes(d, c)` names the rivals of
a request, the writes on the same invite or member that decide against it, and
`StaleByRivalsOnly` says that nothing else makes untrue what was found, but the
clock for an acceptance. A role change, say, can be overtaken by a removal of that
member and by nothing else; the expiry of a list only by a retry of an invite on
it.

### Provisioning

`stage` is the point the listener of `organization.created` has reached,
`statusName` and `deleted` are the table `status`, `defaultStatus` is the
column of the organization, `held` the id the listener carries between its last
two queries. The owner creates, renames and removes statuses, people post
(`SendPost` reads the default, `StorePost` writes the row later), the listener may
fail at any query, the process may restart.

### Logins and Sessions

`Logins` is the promise: each session is opened once, may be renewed for a whole
life as long as it is open, and is closed when its time is over or together with
all the others. `Sessions` is the code. `sessions` is the table, `jars` the cookies of each device, `call` the requests
with the time they came in at. A JWT is its `iat`, rounded down to the second,
and its payload: RS256 is deterministic, so equal payloads of one second are
equal tokens. `SignIn`/`CreateSession`/`SetCookies`,
`RefreshToken`/`GetSession`/`UpdateSession` (or `DeleteExpired`)/`SetCookies` and
`SignOut`/`Logout`/`ClearCookies` are the three requests; `Drop` ends one
wherever it stands. A request takes at most `MaxLatency`: `Tick` waits for it.
The two tokens of a pair are signed one after the other with nothing between;
the model gives them one `iat`.

### Forum and Threads

`Forum` is the promise: a vote is turned on or off at one stroke, with the answer
that goes with it; a comment is said on a post that was created, under a comment of
that post that is no reply, or under none; it keeps its place and is taken back
for good. `Threads` is the code: one `board` and the tables `posts`, `votes` and `comments`, with the requests in
flight in `call`. `told` keeps what the last toggle of a vote that went through
answered; a key of `votes` is the number of the row, so that a vote that was
removed and cast again is another row.

| request | read steps | write step |
|---|---|---|
| POST /posts | `CreatePost` | `StorePost` |
| PATCH and DELETE of boards, posts | | `ManageBoard`, `ManagePost` |
| POST /posts/:id/vote | `Vote`, `TogglePostVote` | `CreatePostVote` or `DeletePostVote` |
| POST /comments | `CreateComment`, `FindParent` | `StoreComment` |
| DELETE /comments/:id | | `DeleteComment` |

Management and removal are one step though the code reads first: the read only
chooses between a refusal and a write by key, and a write to a row that was
removed in between leaves it removed, so that no other outcome exists. A
vote or a comment looks at the lock of the post in its first read only, which is
what the violated `LockedIsQuiet` is about.

### Placement and Roadmap

`Placement` is the promise: a post is in one column at most, and leaves it only
by being taken out. `Roadmap` is the code: the tables `roadmaps`, `columns` and
`items` (with `created`, the last key), the requests in flight in `call`.
Removals of columns and roadmaps are stamps; their items stay.

| request | read steps | write step |
|---|---|---|
| POST and DELETE of a roadmap, DELETE of a column | | `CreateRoadmap`, `RemoveRoadmap`, `DeleteColumn` |
| POST of a column | `AddColumn` | `StoreColumn` |
| POST /roadmap-columns/:id/items | `AddPostToColumn`, `FindItem` | `StoreItem` |
| DELETE /roadmap-items/:id | `RemoveItem` | `RemovePost`, by the post |
| PUT /roadmap-columns/:id/items/reorder | `ReorderItems`, `CheckItems` | `UpdateOrders` |

`UpdateOrders` is one step because its statements are one transaction that only
writes rows it locks: whatever it overlaps, it is as if it had run before or
after, and a row that is missing rolls it back.

### Inbox and Notifications

`Inbox` is the promise: a notification is sent once, to one user, goes from unread
to read to dismissed and never back; a screen, while it is on, gains
notifications of its user and loses none. `Notifications` is the code: `handlers` is what the listener of `post.commented` and `post.statusChanged`
does next with each event, `rows` the table `user_notification`, `connections`
the Map of open subjects in memory, `tabs` what each browser tab has shown. An
event is `HandleEvent`, then `Create` or `Fail`, then `Publish`, which runs
through all recipients and subjects without an await. Streams are `Subscribe`
and `Finalize`, the list is `FindAll`, marks and dismissals `MarkAsRead`,
`MarkAllAsRead` and `Dismiss`; `Restart` forgets handlers and streams. A tab
opens its stream before it lists. The code lists a page, newest first and 20 by
default; the model lists all, which is the page of a user who has no more.

### Avatars

`files` is the store, which all accounts share, `avatarUrl` the column of each
account, `call` the confirmations in flight. `GeneratePreSignedUrl` issues a key,
`Upload` is the browser (as often as it likes), `ConfirmAvatarUpload` reads the row
of its account, `DeleteFile` (or `KeepFile`, its failure, which the code swallows)
and `UpdateAvatar` follow; `Drop` cuts a confirmation short. The code looks at
nothing of the key it is given, and neither does the model: any key may be confirmed
by any account, uploaded or not. `confirmed` and `doubtful` only remember which keys
were confirmed, and which of them the code cannot answer for: those that had no file
when they were confirmed, those confirmed twice, by one account or two, and the old
key of a confirmation that ended half-way. `RestsOnFile` is about all others, and
says that nobody who confirms those, at whatever moment, takes the file from them.

### PostChanges

One post: `status`, which may be `Null`, with the last event's in `announced`,
`tags` with the number of the replacement that stored each row.

| request | steps |
|---|---|
| PATCH /posts/:id/settings with a status or null | `Update` (reads), `UpdateStatus` (writes), `Emit` (the event) |
| PATCH /posts/:id/tags | `UpdateTags` (checks), `DeleteTags`, `InsertTags` (commits) |
| DELETE /tags/:id | `RemoveTag` |

A replacement is the model of a transaction under Read Committed: `DeleteTags`
notes the rows its statement can see (`doomed`), `InsertTags` makes both
statements visible at once, or is refused by the key (postId, tagId) when a
replacement since has stored one of the same tags. `smooth` tells whether
changes of status have overlapped or were cut short: then the code promises
nothing about the order of events, and `announced` is no longer kept. An event is
emitted for a new status that differs from the old one, never for `Null`, so that
`ChangesAnnounced` is about a post that has a status. `replaced` remembers what each replacement asked
for and how many had gone through when it began to delete.

### Workspace

The four modules above have no state in common: no handler of one touches a
table, the store or the Map of another; the event that joins posts and
notifications carries an author and an actor, and `Notifications` lets any come
at any time. `Workspace` is their sum: `part` chooses at the start which of them
takes the steps. Interleaving them would only insert steps that leave the other
components' variables alone, and every property of theirs is closed under
those. It is an instance of each by `INSTANCE`, so that what is checked is the
module that is proved.

## 4. Runs

| run | configuration | question | result |
|---|---|---|---|
| `invites` | 2 users, 2 invites, 3 tokens, 2 requests, clock to 2, link life 1, retry wait 1; symmetric tokens, invites, requests | safety of invites and members, what goes stale under a request, refinement of `Membership` | passes, 1 183 169 states |
| `provisioning` | 4 statuses, 4 names (2 of the list, the default, one other), 1 post | names, default, posts without a status, and that the listener ends | passes, 280 345 states |
| `sessions` | 2 devices, 2 sessions, 2 requests, a second of 2 ticks, lives of 2 and 4, clock to 7 | sessions and their tokens, when the clean-up runs, refinement of `Logins` | passes, 1 021 197 states |
| `threads` | 1 user, 2 posts, 3 comments, 2 requests, 2 rows of votes; symmetric posts, comments, requests | answers to votes, replies | passes, 1 883 124 states |
| `workspace` | 2 users, 2 events, 2 streams; 1 roadmap, 2 columns, 2 posts, 2 items, 2 positions; 2 accounts and 3 keys of avatars; 2 statuses, 2 tags, 3 replacements; 2 requests; symmetric columns, posts, statuses, tags, requests | notifications (refinement of `Inbox`), placement (refinement of `Placement`) and reorders, avatars, changes of status and tags | passes, 981 901 states |
| `invites_revoked` | as `invites`, 1 request, fair | a closed invite stays closed | violated |
| `invites_retries` | as `invites` | retries are an hour apart | violated |
| `invites_expiry` | as `invites` | only overdue invites expire | violated |
| `provisioning_posts` | as `provisioning` | members' posts have a status | violated |
| `sessions_newest` | as `sessions` | a device with a live session is let in | violated |
| `threads_locked` | as `threads` | a locked post gets no vote and no comment | violated |
| `roadmap_conflict` | the roadmap of `workspace` | a post that is refused is in a column that is shown | violated |

Why the bounds are enough. Every race of these components is between two
requests on one row, or a request and the listener; two requests in flight and a
second row to confuse it with show them. Three tokens are two invites and a
retry. The clocks run past the life of a link, and of a refresh token, far
enough for what was renewed meanwhile to be live. Two of the five initial status
names show that a clash fails them together. Votes of two users never
touch one row; two rows of one user are a vote cast again while a request still
holds the first. Three comments are a reply and a reply to it, two posts the
wrong one. Two tabs are two of one user, or one of each; two items are two in one
column that a reorder exchanges, one of them being taken out and placed anew
while the request waits. Three keys are the avatar that is there
and two that replace it at once, or two of one account and one of another; a post
goes between two statuses and none; three replacements of tags are the one that is
there and two that overlap. What TLC shows on these sizes the
theorems show on all.

The violated properties are statements of the repository (a message, a
feature of `docs/features.MD`, an assertion) that the code does not keep; the
findings in `PROJECT.json` quote them. In short:

- an overdue link is marked EXPIRED whatever its status was, so that a revoked
  or accepted invite can be retried a week later;
- two retries in flight together both pass the one-hour check;
- a list of overdue invites is applied, by id, to invites renewed since;
- a member who posts before provisioning is done, or after it failed, has no
  status;
- a request is checked against the newest session of the account: once that has
  expired, a device that keeps refreshing its own is refused;
- a vote or a comment is stored on a post that was locked after it was checked;
- a post whose column or roadmap was removed is shown nowhere and can be placed
  nowhere: its item still counts.

One thing the models have is left open. `PATCH /posts/:id/settings` with a null
`statusId` passes the DTO and takes the status away, and
`src/modules/posts/posts.service.ts:73` then emits nothing. It is a step of
PostChanges of which `ChangesAnnounced` asks nothing: `docs/features.MD:107` has the
author told when the status is altered, and does not say whether that covers a post
that is left with none.

Two of these need requests that overlap: with one at a time the hour between
retries is kept and only overdue invites are marked EXPIRED, which is proved
(`AloneRetriesApart`, `AloneOverdueExpire`). A revoked invite is reopened with one
request at a time, and its run has only one. Posts without a status are sent before the
listener is done and never after (`StatuslessOnlyEarly`).

That `Threads` implements `Forum` (`ImplementsForum`) is proved and in no run: TLC
finds no error in the configuration of `threads` either, but takes up to twice as
long as without it, to map each of its two million states.

Deadlock is checked in the runs of Invites, Provisioning and Sessions: there is a
step in every state of theirs (a restart, at least), and a request in flight can
always end. Threads really may stop, when the board and the posts are removed
and every request has ended, and so may a roadmap that was removed with its
columns, once the items are used up; their runs say so.

### Fairness

`Provisioning!FairSpec` has weak fairness of the listener's next query: Node
resumes a handler when the query it awaits returns, and a query returns or
throws. `ListenerEnds` needs no more; it would fail if a clash of names made the
listener wait. `Invites!FairSpec` has weak fairness of the writes a request has
decided on, for the same reason, and is only used to make a temporal
counterexample one in which the process does not just stop. Nothing is assumed
of users, mail, clocks or other requests.

## 5. Proofs

**`InvitesProofs`**: `TypeCorrect`, `OneOwner`, `MembershipByOneInvite`,
`LinksAreUnique`, `RemovedForGood` and `Refinement` (`Invites` implements
`Membership`), for all sets of users, invites, tokens and requests and all
times. None of the invariants is inductive, since a write relies on what was
read some steps before. `IInv` adds what stays true of a request until it
commits: the rows it names exist, an acceptance is by the addressee, a role
change or removal is never of the founder (the count of owners is what shows
it, the founder being the only one), and a token in hand has been generated and
is nowhere else. There is one lemma per action, `NextInv` puts them together,
and the refinement maps each write step to a step of `Membership` or none.
`DeadLinksStayDead` is about histories: a token that is not new is in a row or in a
request's hands only if it was in one of them before (`HoldersFlow`, `RowsFlow`), so
that what is in neither is out for ever, whoever has it in a mailbox.
`OnlyRivalsMakeStale` goes by who ends in a step: a read begins with what it has
found (`BeginFound`), what was found outlives mails and the reads of others, and the
clock but for an acceptance (`FoundStays`; a link that is overdue stays so, and a
retry's wait is counted from its own reading of the clock), and each write has a lemma
that says of which requests it leaves what they found (`AcceptLeaves`, `ExpireLeaves`,
...): all but those it is a rival of (`StepStale`). With one request there is no rival
(`AloneOK`), hence `AloneRetriesApart` and
`AloneOverdueExpire`; their hypothesis, that any two requests are the same one, is
what they are about.

**`ProvisioningProofs`**: `TypeCorrect`, `StatusNamesUnique`, `OneDefault`. The
strengthening is `HeldInv`: from its creation to the end the listener's default
status is a row. The uniqueness of names goes by the two ways of naming, one
row (`NameOne`) and the list, an injection into free rows. `LateMembersHaveStatus`
bounds what the violated `MemberPostsHaveStatus` shows: from the listener's last
step on the default is there to be read, so that the posts without a status are
among those sent before.

**`SessionsProofs`**: `TypeCorrect`, `SessionsOutliveTokens`,
`LiveSessionsEndByLogout`, `EndedForGood`. The third is about time: a clean-up
is by token, and is safe because the token was signed a whole life ago, so that
a request that could still write the same token into another row would have been
running since (`NotDoomed`). This is where `RequestsAreShort` is needed: a request
and a second are together not longer than the life of a refresh token (7 days).
`RefreshesGoOn` follows from the same order of times: a row expires no sooner than its
token, so that a refresh which finds it expired has a token that has died since it was
verified, and the clean-up ends no session that could have gone on. `Refinement`
(`Sessions` implements `Logins`) maps the four statements that write the table;
a step that leaves the table alone maps to none (`LoginStays`), and the renewal is one of `Logins`
because the statement finds the row by its key only while it is there.

**`ThreadsProofs`**: `TypeCorrect`, `VoteAnswers`, `RepliesStayFlat`. The last
needs `CallsInv`, what a request knows after it has read the parent: that
comment keeps its post and goes on being no reply, even if it is removed
(`Keeps`, `ParentStays`). `Refinement` (`Threads` implements `Forum`) needs a second
invariant, `AllInformed`: what a request has read of posts and comments was
created, and stays so. The reads of a toggle map to no step and its write to the
whole toggle: the unique key, or the key of the row, makes sure that the vote is as
the write takes it to be (`VoteToggles`).

**`RoadmapProofs`**: `TypeCorrect`, `Refinement` (`Roadmap` implements
`Placement`), `ReorderIsWhole`. The first two rest on `KeysUnique`, one item per
post and per id: a placement is a step of `Placement` only because the key looks
at all items, and taking a post out is one because there is one item to delete. A
reorder maps to no step. The third needs `ChecksHold`: of the items a reorder
has checked, those that are left are of its column still, since ids are
not used again and no statement changes an item's column.

**`NotificationsProofs`**: `TypeCorrect`, `NoneMissed`, `OnlyOwnNews`, for any
number of tabs and events. They depend on the Map being exact (`MapExact`): the
subjects of a user are those of the tabs that stream for that user, after any
openings and ends; and on a handler publishing the row it has stored
(`HandlersInv`). `Refinement` (`Notifications` implements `Inbox`) maps a publication
to showing one notification on all screens of its user at once, and a restart to
turning all screens off; it is `HandlersInv` that lets a row be stored only once.

**`PostChangesProofs`**: `TypeCorrect`, `AuthorIsTold`, `TagsGoTogether`. As long
as changes follow each other, the one under way has read the status the post has,
which was announced unless it is `Null` (`ChangesInv`); a replacement that has begun deletes whole sets, all it could
see, and leaves those committed since (`ReplacementsInv`). `TheLastWins` adds that a
row is of a tag its replacement asked for and that the last replacement has lost
none (`LastInv`): nothing is deleted but by a replacement that then becomes the last.

**`WorkspaceProofs`**: the ten properties of `Workspace`. A behaviour of it is one
of each component (`Parts`: a step of one leaves the variables of the others
alone), so that what is proved of `Notifications`, `Roadmap` and `PostChanges`
carries over. What is said of `Avatars` is proved here (`AvatarRestsOnFile`): a
confirmation deletes the key it read, which is one that was confirmed before
(`KeysConfirmed`); and a key that is not doubtful was confirmed once, so that it is in
one account's row or in one confirmation's hands and in no other (`Fresh`, `RowsApart`):
what another account deletes is never it.

The assumptions are those of the modules: the founder is a user, times are
natural numbers, names of the initial list are names and not the default's,
`None` is no id (nor a comment), the table of sessions is finite, requests are short. The proofs
take the models for granted and nothing else; SMT, Zenon and LS4 check every
leaf.

Only model-checked: `ListenerEnds` (liveness under fairness is out of reach of
the prover), and the seven violations.

## 6. Not modelled

**The generated client.** `src/generated/prisma` is some 38 000 of the
repository's 43 800 lines of implementation: types and argument records that
Prisma writes from `schema.prisma`, without control of their own. A call of it is
one statement or one transaction of the models. The rest, some 5 600 lines, is
what can be modelled, with the schema; a good part of it is controllers, DTOs
with validators and their Swagger decorators, and queries that only read.

**Access guards.** They read a role or an author and admit or refuse; they
change no state, and in every state of the models somebody exists who may make a
request (the owner, by `SoleOwner`). A role that changes while a request is under
way is the case of `UpdateMemberRole` and `RemoveMember`, which have their own
read steps.

**Registration.** `users.service.ts` asks for the e-mail and inserts; the unique key
on `email` decides, with the same answer, and no other row is involved.

**The order of the columns.** `PUT /roadmap-columns/reorder` is guarded by the
resource of a parameter `:id` that its route does not have, so that the handler is
never reached.

**Removed posts on a roadmap, removed tags on a post.** The lists show them; it is
the condition of a query and no matter of order.

Migrations, start-up, validation of the environment, slugs, hashing, formatting of
mail: no state, or pure wrappers. The object store and the mail provider are
external; lists with filters and pages only read. See the components in
`PROJECT.json`.

## 7. Plan

Done: Membership, Invites, Provisioning, Logins, Sessions, Forum, Threads,
Placement, Roadmap, Inbox, Notifications, Avatars, PostChanges and Workspace, each
with its proofs; five of the modules are shown to implement an abstract one. What
could follow:

1. **Access**: the decision of the two guards as operators over small records,
   against a reference definition, and with it the callers of Invites.
2. **Delivery**: that an event whose handler neither fails nor is cut short is
   stored and pushed in the end, under weak fairness of the handler; an instance
   of its own, since symmetry is not sound for liveness.
3. **Several posts and organizations** in PostChanges and Roadmap, should a
   statement ever touch two.

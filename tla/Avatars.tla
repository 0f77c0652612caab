------------------------------ MODULE Avatars -------------------------------
(***************************************************************************)
(* The avatars of the accounts: a key is issued with a URL to upload to,   *)
(* the browser uploads the file to the store that all accounts share, and  *)
(* a confirmation puts the key it names in the account's row and deletes   *)
(* the file of the key that was there (UsersService, StorageService).      *)
(*                                                                         *)
(* Keys are random; here they are counted.  Nothing looks at the key a     *)
(* confirmation names: it may have no file yet, or be in another account's *)
(* row.  A string that was never issued is as a key nobody uploads to.     *)
(***************************************************************************)
EXTENDS Naturals

CONSTANTS
  Users,      \* accounts
  Requests,   \* confirmations that can be in flight at once
  MaxKeys     \* bound on the keys ever issued

VARIABLES
  issued,     \* how many keys have been issued: 1 .. issued
  files,      \* the keys whose file is in the store
  avatarUrl,  \* avatarUrl[u]: the key in the account's row, 0 for null
  confirmed,  \* the keys a confirmation was asked of
  doubtful,   \* those that were asked again, by whichever account, or had no
              \* file, and the old keys of confirmations that ended half-way
  call        \* call[r]: what request r does next

vars == <<issued, files, avatarUrl, confirmed, doubtful, call>>

Idle == [step |-> "idle"]
Call ==
       {Idle}
  \cup [step : {"delete", "update"}, user : Users, old : Nat, key : Nat \ {0}]

TypeOK ==
  /\ issued \in Nat
  /\ files \subseteq 1 .. issued
  /\ avatarUrl \in [Users -> Nat]
  /\ confirmed \subseteq 1 .. issued
  /\ doubtful \subseteq confirmed
  /\ call \in [Requests -> Call]

Init ==
  /\ issued = 0
  /\ files = {}
  /\ avatarUrl = [u \in Users |-> 0]
  /\ confirmed = {}
  /\ doubtful = {}
  /\ call = [r \in Requests |-> Idle]

Proceed(r, c) == call' = [call EXCEPT ![r] = c]

-----------------------------------------------------------------------------
GeneratePreSignedUrl ==
  /\ issued < MaxKeys
  /\ issued' = issued + 1
  /\ UNCHANGED <<files, avatarUrl, confirmed, doubtful, call>>

\* The browser and the store, as often as the URL is good for.
Upload(k) ==
  /\ files' = files \cup {k}
  /\ UNCHANGED <<issued, avatarUrl, confirmed, doubtful, call>>

\* PATCH /users/me/avatar/confirm by u, of whatever key.
ConfirmAvatarUpload(r, u, k) ==
  /\ call[r] = Idle
  /\ Proceed(r, [step |-> IF avatarUrl[u] = 0 THEN "update" ELSE "delete",
                 user |-> u, old |-> avatarUrl[u], key |-> k])
  /\ confirmed' = confirmed \cup {k}
  /\ doubtful' = doubtful \cup (confirmed \cap {k}) \cup ({k} \ files)
  /\ UNCHANGED <<issued, files, avatarUrl>>

\* Mutant: the key the row holds by now, not the one that was read.
MutantReread(r) ==
  /\ call[r].step = "delete"
  /\ files' = files \ {avatarUrl[call[r].user]}
  /\ Proceed(r, [call[r] EXCEPT !.step = "update"])
  /\ UNCHANGED <<issued, avatarUrl, confirmed, doubtful>>

DeleteFile(r) ==
  /\ call[r].step = "delete"
  /\ files' = files \ {call[r].old}
  /\ Proceed(r, [call[r] EXCEPT !.step = "update"])
  /\ UNCHANGED <<issued, avatarUrl, confirmed, doubtful>>

\* A deletion that fails is passed over.
KeepFile(r) ==
  /\ call[r].step = "delete"
  /\ Proceed(r, [call[r] EXCEPT !.step = "update"])
  /\ UNCHANGED <<issued, files, avatarUrl, confirmed, doubtful>>

UpdateAvatar(r) ==
  /\ call[r].step = "update"
  /\ avatarUrl' = [avatarUrl EXCEPT ![call[r].user] = call[r].key]
  /\ Proceed(r, Idle)
  /\ UNCHANGED <<issued, files, confirmed, doubtful>>

\* The update fails, or the process restarts.
Drop(r) ==
  /\ call[r] # Idle
  /\ doubtful' = doubtful \cup ({call[r].old} \ {0})
  /\ Proceed(r, Idle)
  /\ UNCHANGED <<issued, files, avatarUrl, confirmed>>

Next ==
  \/ GeneratePreSignedUrl
  \/ \E k \in 1 .. issued : Upload(k)
  \/ \E r \in Requests :
       \/ \E u \in Users, k \in 1 .. issued : ConfirmAvatarUpload(r, u, k)
       \/ DeleteFile(r) \/ KeepFile(r) \/ UpdateAvatar(r) \/ Drop(r)

Spec == Init /\ [][Next]_vars

-----------------------------------------------------------------------------
(* RestsOnFile: an account's key is that of a file in the store, however   *)
(* confirmations overlap and whatever keys the others name, but for a key  *)
(* that had no file when it was confirmed, one that was confirmed twice,   *)
(* by the account or another, and one that a confirmation of the account,  *)
(* under way or cut short, has come to replace.                            *)
RestsOnFile ==
  \A u \in Users :
    avatarUrl[u] \notin doubtful \cup {0} =>
      \/ avatarUrl[u] \in files
      \/ \E r \in Requests :
           call[r] # Idle /\ call[r].user = u /\ call[r].old = avatarUrl[u]
=============================================================================

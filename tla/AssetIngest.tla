----------------------------- MODULE AssetIngest -----------------------------
(***************************************************************************)
(* Uploads that become assets (db/assets.py ingest_asset, storage/upload.py*)
(* and promote.py, db/inbox.py, the upload endpoints of                    *)
(* api/routes/system/assets.py and api/routes/knowledge/import_jobs.py).   *)
(*                                                                         *)
(* One request stages a file, looks for its content among the assets,      *)
(* inserts an inbox item and an asset, moves the file to its place, notes  *)
(* that in the asset and links the inbox item.  Each write to the database *)
(* commits by itself under an idempotency key derived from the key of the  *)
(* request, and the file system takes part in none of them.                *)
(*                                                                         *)
(* An idempotency key makes at most one inbox item and one asset, so keys  *)
(* stand for both.  A key is used for one project and one file name, but a *)
(* client may send other content under it.                                 *)
(***************************************************************************)
EXTENDS Integers, FiniteSets

CONSTANTS
  Request,     \* upload requests
  Key,         \* idempotency keys, and the items and assets made under them
  Content,     \* contents of files, as told apart by their hash
  NoContent,   \* no file, no asset
  Project,     \* projects
  NoProject,   \* an upload without a project
  Processes,   \* API processes: the endpoints are coroutines without an await
  MaxFaults    \* bound on crashes and on errors of database and disk

ASSUME IngestAssumption ==
  /\ NoContent \notin Content
  /\ NoProject \notin Project
  /\ IsFiniteSet(Request)
  /\ Processes \in Nat \ {0}
  /\ MaxFaults \in Nat

VARIABLES
  inbox,     \* inbox_items.status of the item of each key
  content,   \* assets.content_hash, NoContent before the row exists
  status,    \* assets.status
  ingest,    \* assets.ingest_state
  file,      \* the file at the permanent place of each asset
  staged,    \* requests whose file is in the staging directory
  at,        \* where each request is
  key,       \* its idempotency key
  sent,      \* the content it sends
  project,   \* the project of the uploads under each key
  answer,    \* the asset in its response, 201 or duplicate
  faults,    \* number of faults
  hurt,      \* history: assets whose request met a fault after the insert
  struck     \* history: requests that met a fault

request == <<key, sent, project>>
rows == <<inbox, content, status, ingest>>
vars == <<inbox, content, status, ingest, file, staged, at, key, sent, project,
          answer, faults, hurt, struck>>

Busy == {"check", "inbox", "asset", "move", "promote", "link", "rollback"}
At == {"new", "created", "duplicate", "error"} \cup Busy

TypeOK ==
  /\ inbox \in [Key -> {"none", "staged", "linked", "processed"}]
  /\ content \in [Key -> Content \cup {NoContent}]
  /\ status \in [Key -> {"none", "active", "archived"}]
  /\ ingest \in [Key -> {"pending", "staged", "importing", "ready"}]
  /\ file \in [Key -> Content \cup {NoContent}]
  /\ staged \subseteq Request
  /\ at \in [Request -> At]
  /\ key \in [Request -> Key]
  /\ sent \in [Request -> Content]
  /\ project \in [Key -> Project \cup {NoProject}]
  /\ answer \in [Request -> Key]
  /\ faults \in 0..MaxFaults
  /\ hurt \subseteq Key
  /\ struck \subseteq Request

\* What each request will send is fixed at the start.
Init ==
  /\ inbox = [k \in Key |-> "none"]
  /\ content = [k \in Key |-> NoContent]
  /\ status = [k \in Key |-> "none"]
  /\ ingest = [k \in Key |-> "pending"]
  /\ file = [k \in Key |-> NoContent]
  /\ staged = {}
  /\ at = [r \in Request |-> "new"]
  /\ key \in [Request -> Key]
  /\ sent \in [Request -> Content]
  /\ project \in [Key -> Project \cup {NoProject}]
  /\ answer = key
  /\ faults = 0
  /\ hurt = {}
  /\ struck = {}

Goto(r, to) == at' = [at EXCEPT ![r] = to]
Is(k, c) == content[k] = c

\* lookup_asset_by_hash: archived assets count, and an upload without a
\* project finds the assets of all projects.
FoundActive(k, c) ==             \* mutant: status = 'active'
  {l \in Key : Is(l, c) /\ status[l] = "active" /\ project[k] \in {NoProject, project[l]}}

Found(k, c) == {l \in Key : Is(l, c) /\ project[k] \in {NoProject, project[l]}}

\* An asset of that content is found, or the request goes on.
LookUp(r, next) ==
  \/ \E l \in Found(key[r], sent[r]) :
       Goto(r, "duplicate") /\ answer' = [answer EXCEPT ![r] = l]
  \/ /\ Found(key[r], sent[r]) = {}
     /\ Goto(r, next)
     /\ UNCHANGED answer

----------------------------------------------------------------------------
(* The request.                                                             *)

\* handle_idempotent_upload_stream.  The callback of the endpoints raises when
\* it finds an asset, so the staged file of a duplicate stays where it is.
UploadAnytime(r) ==              \* mutant: endpoints that run in threads
  /\ at[r] = "new"
  /\ staged' = staged \cup {r}
  /\ LookUp(r, "check")
  /\ UNCHANGED <<rows, file, request, faults, hurt, struck>>

Upload(r) ==
  /\ at[r] = "new"
  /\ Cardinality({q \in Request : at[q] \in Busy}) < Processes
  /\ staged' = staged \cup {r}
  /\ LookUp(r, "check")
  /\ UNCHANGED <<rows, file, request, faults, hurt, struck>>

\* ingest_asset looks again.
Check(r) ==
  /\ at[r] = "check"
  /\ LookUp(r, "inbox")
  /\ UNCHANGED <<rows, file, staged, request, faults, hurt, struck>>

\* create_inbox_from_staging: a used key resolves to its item.  An item needs
\* a project (InboxItemCreateRequest), so an upload without one ends here.
Receive(r) ==
  /\ at[r] = "inbox"
  /\ IF project[key[r]] = NoProject
       THEN Goto(r, "error") /\ UNCHANGED inbox
       ELSE /\ inbox' = [inbox EXCEPT ![key[r]] = IF @ = "none" THEN "staged" ELSE @]
            /\ Goto(r, "asset")
  /\ UNCHANGED <<content, status, ingest, file, staged, request, answer, faults,
                 hurt, struck>>

\* UNIQUE (project_id, content_hash).
Collides(k, c) == \E l \in Key : Is(l, c) /\ project[l] = project[k]

\* create_asset: a used key resolves to its asset, whatever its content.
Insert(r) ==
  /\ at[r] = "asset"
  /\ LET k == key[r] IN
       \/ content[k] # NoContent /\ Goto(r, "move") /\ UNCHANGED <<content, status>>
       \/ /\ content[k] = NoContent /\ ~Collides(k, sent[r])
          /\ content' = [content EXCEPT ![k] = sent[r]]
          /\ status' = [status EXCEPT ![k] = "active"]
          /\ Goto(r, "move")
       \/ /\ content[k] = NoContent /\ Collides(k, sent[r])
          /\ Goto(r, "error")
          /\ UNCHANGED <<content, status>>
  /\ UNCHANGED <<inbox, ingest, file, staged, request, answer, faults, hurt, struck>>

\* promote_file moves the staged file, unless there is one in its place.
MoveOver(r) ==                   \* mutant: the destination is not checked
  /\ at[r] = "move"
  /\ file' = [file EXCEPT ![key[r]] = sent[r]]
  /\ staged' = staged \ {r}
  /\ Goto(r, "promote")
  /\ UNCHANGED <<rows, request, answer, faults, hurt, struck>>

MoveOrRollback(r) ==             \* mutant: storage_ref is set before the move
  /\ at[r] = "move"
  /\ IF file[key[r]] = NoContent
       THEN /\ file' = [file EXCEPT ![key[r]] = sent[r]]
            /\ staged' = staged \ {r}
            /\ Goto(r, "promote")
       ELSE Goto(r, "rollback") /\ UNCHANGED <<file, staged>>
  /\ UNCHANGED <<rows, request, answer, faults, hurt, struck>>

Move(r) ==
  /\ at[r] = "move"
  /\ IF file[key[r]] = NoContent
       THEN /\ file' = [file EXCEPT ![key[r]] = sent[r]]
            /\ staged' = staged \ {r}
            /\ Goto(r, "promote")
       ELSE Goto(r, "error") /\ UNCHANGED <<file, staged>>
  /\ UNCHANGED <<rows, request, answer, faults, hurt, struck>>

\* promote_from_staging: pending -> staged, or ValueError.
Promote(r) ==
  /\ at[r] = "promote"
  /\ IF ingest[key[r]] = "pending"
       THEN ingest' = [ingest EXCEPT ![key[r]] = "staged"] /\ Goto(r, "link")
       ELSE UNCHANGED ingest /\ Goto(r, "rollback")
  /\ UNCHANGED <<inbox, content, status, file, staged, request, answer, faults,
                 hurt, struck>>

\* link_inbox_to_asset: staged -> linked, or ValueError.
Link(r) ==
  /\ at[r] = "link"
  /\ IF inbox[key[r]] = "staged"
       THEN inbox' = [inbox EXCEPT ![key[r]] = "linked"] /\ Goto(r, "created")
       ELSE UNCHANGED inbox /\ Goto(r, "rollback")
  /\ UNCHANGED <<content, status, ingest, file, staged, request, answer, faults,
                 hurt, struck>>

\* rollback_promote deletes the file.
Rollback(r) ==
  /\ at[r] = "rollback"
  /\ file' = [file EXCEPT ![key[r]] = NoContent]
  /\ Goto(r, "error")
  /\ UNCHANGED <<rows, staged, request, answer, faults, hurt, struck>>

----------------------------------------------------------------------------
(* What else happens to items and assets.                                   *)

\* process_inbox_route: linked -> processed.
Process(k) ==
  /\ inbox[k] = "linked"
  /\ inbox' = [inbox EXCEPT ![k] = "processed"]
  /\ UNCHANGED <<content, status, ingest, file, staged, at, request, answer,
                 faults, hurt, struck>>

\* change_asset_status, archive_asset and restore_asset.  The changes to
\* "deleted" and "quarantined" break the CHECK on assets.status, so they fail.
ChangeStatus(k, to) ==
  /\ <<status[k], to>> \in {<<"active", "archived">>, <<"archived", "active">>}
  /\ status' = [status EXCEPT ![k] = to]
  /\ UNCHANGED <<inbox, content, ingest, file, staged, at, request, answer,
                 faults, hurt, struck>>

\* advance_ingest_state, called by the import of the asset (PipelineRun).
Advance(k) ==
  /\ \/ ingest[k] = "staged" /\ ingest' = [ingest EXCEPT ![k] = "importing"]
     \/ ingest[k] = "importing" /\ ingest' = [ingest EXCEPT ![k] = "ready"]
  /\ UNCHANGED <<inbox, content, status, file, staged, at, request, answer,
                 faults, hurt, struck>>

----------------------------------------------------------------------------
(* Failures.                                                                *)

Fault(r, where) ==
  /\ faults < MaxFaults
  /\ faults' = faults + 1
  /\ hurt' = IF at[r] \in where THEN hurt \cup {key[r]} ELSE hurt
  /\ struck' = struck \cup {r}

\* An exception: what follows the move is in a try that deletes the file.
Raise(r) == Goto(r, IF at[r] \in {"promote", "link"} THEN "rollback" ELSE "error")

\* A statement fails and is rolled back.
Error(r) ==
  /\ at[r] \in Busy \ {"rollback"}
  /\ Fault(r, {"move", "promote", "link"})
  /\ Raise(r)
  /\ UNCHANGED <<rows, file, staged, request, answer>>

\* The connection is lost after the commit and before the client hears of it.
LostCommit(r) ==
  /\ Fault(r, {"asset", "promote", "link"})
  /\ Raise(r)
  /\ LET k == key[r] IN
       \/ /\ at[r] = "asset" /\ content[k] = NoContent /\ ~Collides(k, sent[r])
          /\ content' = [content EXCEPT ![k] = sent[r]]
          /\ status' = [status EXCEPT ![k] = "active"]
          /\ UNCHANGED <<inbox, ingest>>
       \/ /\ at[r] = "promote" /\ ingest[k] = "pending"
          /\ ingest' = [ingest EXCEPT ![k] = "staged"]
          /\ UNCHANGED <<inbox, content, status>>
       \/ /\ at[r] = "link" /\ inbox[k] = "staged"
          /\ inbox' = [inbox EXCEPT ![k] = "linked"]
          /\ UNCHANGED <<content, status, ingest>>
  /\ UNCHANGED <<file, staged, request, answer>>

\* The process dies.
Crash(r) ==
  /\ at[r] \in Busy
  /\ Fault(r, {"move", "promote", "link", "rollback"})
  /\ Goto(r, "error")
  /\ UNCHANGED <<rows, file, staged, request, answer>>

----------------------------------------------------------------------------

Statuses == {"active", "archived"}

Next ==
  \/ \E r \in Request :
       \/ Upload(r) \/ Check(r) \/ Receive(r) \/ Insert(r) \/ Move(r)
       \/ Promote(r) \/ Link(r) \/ Rollback(r)
       \/ Error(r) \/ LostCommit(r) \/ Crash(r)
  \/ \E k \in Key :
       Process(k) \/ Advance(k) \/ \E to \in Statuses : ChangeStatus(k, to)

Spec == Init /\ [][Next]_vars

=============================================================================

--------------------------- MODULE AssetIngestProps ---------------------------
(***************************************************************************)
(* What an upload promises to the client that gets its answer.             *)
(***************************************************************************)
EXTENDS AssetIngest

\* A request that was answered with a new asset has its file in place, under a
\* promoted asset and a linked inbox item, and keeps it: no later request with
\* the same key moves another file there or deletes it in its rollback.
CreatedIsKept ==
  \A r \in Request :
    at[r] = "created" => /\ file[key[r]] = sent[r]
                         /\ ingest[key[r]] # "pending"
                         /\ inbox[key[r]] \in {"linked", "processed"}

\* A request that was told its file is there already can rely on that, unless
\* a fault hit the request that made the asset after its insert.  This takes
\* the endpoints to run one at a time.
DuplicateIsKept ==
  \A r \in Request :
    at[r] = "duplicate" => \/ file[answer[r]] = sent[r]
                           \/ answer[r] \in hurt

\* An upload fails only for a reason: it has no project, a fault hit it, or its
\* key has been used for other content.  What the lookup found stays true until
\* the unique constraint decides, the lookup leaves out no asset the constraint
\* knows, and no other request has taken the place of the file or the item.
\* This too takes the endpoints to run one at a time.
Reason(r) ==
  \/ r \in struck
  \/ project[key[r]] = NoProject
  \/ \E q \in Request : key[q] = key[r] /\ sent[q] # sent[r]

FailsForAReason == \A r \in Request : at[r] = "error" => Reason(r)

----------------------------------------------------------------------------
(* The inductive invariant.                                                 *)

Holding == {"promote", "link", "rollback"}

\* The file in its place is the lock of the asset: one request is past the
\* move, and it has put the file there.
OneHolder ==
  \A r \in Request :
    /\ at[r] \in Holding => file[key[r]] = sent[r]
    /\ at[r] = "link" => ingest[key[r]] # "pending"
    /\ \A q \in Request \ {r} :
         at[r] \in Holding \cup {"created"} /\ at[q] \in Holding \cup {"created"}
           => key[r] # key[q]

\* Rows come in order: item, asset, file, promotion, link.
InOrder ==
  /\ \A k \in Key :
       /\ content[k] # NoContent => inbox[k] # "none"
       /\ content[k] = NoContent <=> status[k] = "none"
       /\ content[k] = NoContent => /\ file[k] = NoContent /\ ingest[k] = "pending"
                                    /\ inbox[k] \in {"none", "staged"}
  /\ \A r \in Request :
       /\ at[r] \in {"asset", "move"} \cup Holding => inbox[key[r]] # "none"
       /\ at[r] \in {"move"} \cup Holding => content[key[r]] # NoContent

\* With one process, at most one request is at work.
Alone ==
  \A r, q \in Request : at[r] \in Busy /\ at[q] \in Busy => r = q

\* What a request has found stays true until it inserts.
Looked ==
  \A r \in Request : at[r] \in {"inbox", "asset"} => Found(key[r], sent[r]) = {}

\* A request that has no reason to fail finds at every stage what it needs.
OnCourse ==
  /\ \A k \in Key : content[k] # NoContent =>
       \E q \in Request : key[q] = k /\ sent[q] = content[k]
  /\ \A r \in Request : ~Reason(r) =>
       /\ at[r] = "move" => file[key[r]] = NoContent
       /\ at[r] \in {"move", "promote"} => ingest[key[r]] = "pending"
       /\ at[r] \in {"move", "promote", "link"} => inbox[key[r]] = "staged"
       /\ at[r] # "rollback"

\* An asset that no fault has hit is complete, or somebody is completing it.
Complete(k) == /\ file[k] = content[k]
               /\ ingest[k] # "pending"
               /\ inbox[k] \in {"linked", "processed"}

Completing(k, r) ==
  /\ key[r] = k /\ sent[r] = content[k] /\ inbox[k] = "staged"
  /\ \/ at[r] = "move" /\ file[k] = NoContent /\ ingest[k] = "pending"
     \/ at[r] = "promote" /\ ingest[k] = "pending"
     \/ at[r] = "link"

Whole ==
  \A k \in Key : content[k] # NoContent /\ k \notin hurt =>
    \/ Complete(k) /\ \A r \in Request : key[r] = k => at[r] \notin Holding
    \/ \E r \in Request : Completing(k, r)

IInv ==
  /\ TypeOK /\ OneHolder /\ InOrder /\ CreatedIsKept
  /\ Processes = 1 => Alone /\ Looked /\ Whole /\ DuplicateIsKept
                    /\ OnCourse /\ FailsForAReason

=============================================================================

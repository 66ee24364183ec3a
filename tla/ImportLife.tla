------------------------------ MODULE ImportLife ------------------------------
(***************************************************************************)
(* What a pipeline run promises to those who ask for an import, without    *)
(* events, deliveries, sessions and retries: its job is begun once, the    *)
(* asset is imported by one run at a time, a run writes one document at    *)
(* most, and what is over stays over.                                      *)
(***************************************************************************)
EXTENDS Naturals

CONSTANTS Run, Asset, AssetOf

VARIABLES
  status,    \* pipeline_runs.status
  work,      \* the status of its root job
  asset,     \* assets.ingest_state
  holders,   \* the runs that are importing their asset
  written    \* documents written by each run

vars == <<status, work, asset, holders, written>>

Init ==
  /\ status = [r \in Run |-> "none"]
  /\ work = [r \in Run |-> "none"]
  /\ asset \in [Asset -> {"pending", "staged"}]
  /\ holders = {}
  /\ written = [r \in Run |-> 0]

\* By the worker or by a user; succeeded and cancelled are final.
Moves ==
  {<<"none", "pending">>, <<"pending", "running">>, <<"pending", "cancelled">>,
   <<"running", "succeeded">>, <<"running", "failed">>, <<"running", "cancelled">>,
   <<"failed", "pending">>}

Move(r, to) ==
  /\ <<status[r], to>> \in Moves
  /\ status' = [status EXCEPT ![r] = to]
  /\ UNCHANGED <<work, asset, holders, written>>

\* The work on a run is taken up once, and is never done again.
Claim(r) ==
  /\ status[r] # "none" /\ work[r] = "none"
  /\ work' = [work EXCEPT ![r] = "pending"]
  /\ UNCHANGED <<status, asset, holders, written>>

Begin(r) ==
  /\ work[r] = "pending"
  /\ work' = [work EXCEPT ![r] = "running"]
  /\ UNCHANGED <<status, asset, holders, written>>

\* Work that ends well belongs to a run that has succeeded.
Conclude(r) ==
  /\ work[r] = "running" /\ r \notin holders
  /\ \/ work' = [work EXCEPT ![r] = "failed"]
     \/ status[r] = "succeeded" /\ work' = [work EXCEPT ![r] = "succeeded"]
  /\ UNCHANGED <<status, asset, holders, written>>

Upload(a) ==
  /\ asset[a] = "pending"
  /\ asset' = [asset EXCEPT ![a] = "staged"]
  /\ UNCHANGED <<status, work, holders, written>>

\* A run gets hold of its asset, which nobody has imported.
Take(r) ==
  /\ work[r] = "running" /\ asset[AssetOf[r]] = "staged"
  /\ asset' = [asset EXCEPT ![AssetOf[r]] = "importing"]
  /\ holders' = holders \cup {r}
  /\ UNCHANGED <<status, work, written>>

Write(r) ==
  /\ work[r] = "running" /\ written[r] = 0
  /\ r \in holders \/ asset[AssetOf[r]] = "ready"
  /\ written' = [written EXCEPT ![r] = 1]
  /\ UNCHANGED <<status, work, asset, holders>>

Release(r) ==
  /\ r \in holders /\ asset[AssetOf[r]] = "importing"
  /\ asset' = [asset EXCEPT ![AssetOf[r]] = "ready"]
  /\ holders' = holders \ {r}
  /\ UNCHANGED <<status, work, written>>

\* The import breaks off, and the asset stays as it is for good.
Abandon(r) ==
  /\ r \in holders
  /\ holders' = holders \ {r}
  /\ UNCHANGED <<status, work, asset, written>>

Next ==
  \/ \E r \in Run :
       \/ \E m \in Moves : Move(r, m[2])
       \/ Claim(r) \/ Begin(r) \/ Conclude(r)
       \/ Take(r) \/ Write(r) \/ Release(r) \/ Abandon(r)
  \/ \E a \in Asset : Upload(a)

Spec == Init /\ [][Next]_vars

=============================================================================

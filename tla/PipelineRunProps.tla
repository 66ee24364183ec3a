--------------------------- MODULE PipelineRunProps ---------------------------
(***************************************************************************)
(* What the pipeline consumer guarantees, and what it takes for that.      *)
(***************************************************************************)
EXTENDS PipelineRun

Ended == {"succeeded", "failed", "cancelled"}

\* The orchestrator of r has taken the asset and is at work on it.
Importing(r) == at[r] \in {"document", "finalize"} /\ seen[r] # "ready"

\* The polling loop gets to every open delivery and a consumer that is not
\* interrupted goes on to its end.  Nobody has to ask for anything, and no
\* request of a user has to be answered.
Fairness == \A r \in Run : WF_vars(Consume(r)) /\ WF_vars(Deliver(r))

FairSpec == Spec /\ Fairness

----------------------------------------------------------------------------
(* Who will move a run.                                                     *)

\* A pending run is moved by the worker that has made its job, or by the next
\* delivery as long as there is no job; a running one by its worker only.
Carried(r) ==
  \/ /\ status[r] = "pending"
     /\ \/ at[r] \in {"link", "mark", "start"}
        \/ job[r] = "none" /\ delivery[r] \in {"open", "dead"}
  \/ /\ status[r] = "running"
     /\ at[r] \in Executing \cup {"fail"}

\* No import is left behind, pending or running with nobody to finish it,
\* unless a fault hit it between the insert of its job and its last update,
\* or a user set its status by hand.  A second delivery cannot go on from
\* there: dispatch acknowledges a run that is running (line 121) and create_job
\* refuses a second job (line 154).
NeverAbandoned ==
  \A r \in Run : status[r] \in {"pending", "running"} => r \in hurt \/ Carried(r)

\* A run is executed once, however often its event is delivered and whatever
\* is done to its status: its asset gets at most one document from it.
OneDocument == \A r \in Run : docs[r] <= 1

\* The jobs that users look at tell the truth: a job that succeeded belongs to
\* a run that succeeded, and an import shown as done has a ready asset, unless
\* an error was swallowed when the asset was to become ready.
JobTellsTruth ==
  \A r \in Run :
    /\ job[r] = "succeeded" => status[r] = "succeeded"
    /\ track[r] = "done" => /\ status[r] = "succeeded"
                            /\ ingest[AssetOf[r]] = "ready" \/ r \in hurt

\* A run that succeeded or was cancelled stays so, however the requests of
\* users and the updates of the consumer interleave.
FinalIsFinal ==
  [][\A r \in Run : status[r] \in {"succeeded", "cancelled"} => status'[r] = status[r]]_vars

\* To those who look at runs, jobs, assets and documents, retries, replays and
\* crashes do not show: the tables go through the steps of ImportLife only.
\* The claim of the root job, the update of the asset with its expected state
\* and the order of the commits are what it takes (pipeline_consumer.py:114-368,
\* db/pipelines.py:690-1013).
Life == INSTANCE ImportLife
          WITH work <- job, asset <- ingest, written <- docs,
               holders <- {r \in Run : Importing(r)}

RunHasOneLife == Life!Spec

\* Every pending run comes to an end, is parked with its event, or was hurt.
Settles ==
  \A r \in Run :
    status[r] = "pending" ~>
      status[r] \in Ended \/ delivery[r] = "dead" \/ r \in hurt

----------------------------------------------------------------------------
(* The inductive invariant.                                                 *)

\* A worker has the delivery only while it is open, and a run that was not
\* requested has left no trace but its processing job.
Untouched ==
  \A r \in Run :
    /\ at[r] # "idle" => delivery[r] = "open"
    /\ delivery[r] \in {"none", "open"} => attempts[r] < MaxAttempts
    /\ status[r] = "none" <=> delivery[r] = "none"
    /\ status[r] = "none" => job[r] = "none" /\ track[r] \in {"none", "queued"}
    /\ job[r] = "none" => /\ at[r] \in {"idle", "create", "ack", "nack"}
                          /\ docs[r] = 0

\* The job is the lock of the run: its worker is the only one past create_job.
Once ==
  \A r \in Run :
    at[r] \in {"link", "mark", "start", "track", "read", "import", "document"}
      => docs[r] = 0

\* The asset is importing while one run, and only one, works on it.
OneImporter ==
  \A r \in Run :
    /\ seen[r] = "ready" => ingest[AssetOf[r]] = "ready"
    /\ Importing(r) => ingest[AssetOf[r]] = "importing"
    /\ \A q \in Run \ {r} :
         Importing(r) /\ Importing(q) => AssetOf[r] # AssetOf[q]

\* What the last steps of the consumer may rely on.
Concluding ==
  \A r \in Run :
    /\ at[r] \in {"complete", "done"} => status[r] = "succeeded"
    /\ at[r] = "ack" => status[r] # "pending" \/ r \in hurt
    /\ at[r] \in {"finish", "complete", "done"} => ingest[AssetOf[r]] = "ready" \/ r \in hurt

\* The root job is pending until its worker is about to start the run, and
\* running until that worker concludes it.
Working ==
  \A r \in Run :
    /\ at[r] \in {"link", "mark"} => job[r] = "pending"
    /\ at[r] \in {"start", "complete", "fail", "failjob"} \cup Executing
         => job[r] = "running"

Asked == \A q \in asked : <<q.from, q.to>> \in Transitions

IInv ==
  /\ TypeOK
  /\ Untouched
  /\ Once
  /\ OneImporter
  /\ Concluding
  /\ Working
  /\ Asked
  /\ NeverAbandoned
  /\ OneDocument
  /\ JobTellsTruth

=============================================================================

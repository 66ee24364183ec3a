---------------------------- MODULE EventLifecycle ----------------------------
(***************************************************************************)
(* What the outbox promises to the code that publishes an event: the event *)
(* stays open until its consumer has acknowledged it or it is parked in    *)
(* the dead letter queue for a human.  A delivered event stays delivered;  *)
(* a parked one is reopened only by a replay.                              *)
(***************************************************************************)
CONSTANT Event

VARIABLE stage     \* stage of the life of each event

LifeInit == stage = [e \in Event |-> "absent"]

\* The steps of one event.
Moves ==
  {<<"absent", "open">>, <<"open", "delivered">>, <<"open", "parked">>,
   <<"parked", "open">>}

\* Several events may move in one transaction of the worker.
LifeNext ==
  \A e \in Event : stage'[e] # stage[e] => <<stage[e], stage'[e]>> \in Moves

LifeSpec == LifeInit /\ [][LifeNext]_stage

\* An open event does not stay open.
LifeLive ==
  \A e \in Event : stage[e] = "open" ~> stage[e] \in {"delivered", "parked"}

=============================================================================

------------------------------ MODULE GatewayCall ------------------------------
(***************************************************************************)
(* Gateway.call of Mneme: a call to an external provider, with its row in  *)
(* api_call_logs and its reservation in budget_tracking (gateway/call.py,  *)
(* db/api_call_logs.py, db/budget.py).                                     *)
(*                                                                         *)
(* Every update is a transaction of its own, so the calls of several       *)
(* threads interleave between any two of them.  All calls are of one       *)
(* subject, in one window of one usage limit, on max_requests: the other   *)
(* limits are compared with the same aggregate in the same query.          *)
(***************************************************************************)
EXTENDS Integers, FiniteSets

CONSTANTS
  Call,         \* calls
  Key,          \* idempotency keys
  NoKey,        \* the key of a call that has no row
  Threads,      \* calls that are served at a time
  MaxRequests,  \* usage_limits.max_requests
  MaxRetries,   \* automatic retries of a call (1 in the code)
  MaxFaults     \* bound on database errors and dying processes

ASSUME GatewayAssumption ==
  /\ IsFiniteSet(Call)
  /\ NoKey \notin Key
  /\ Threads \in Nat \ {0}
  /\ MaxRequests \in Nat
  /\ MaxRetries \in Nat
  /\ MaxFaults \in Nat

VARIABLES
  log,       \* api_call_logs.call_state
  key,       \* api_call_logs.idempotency_key, unique
  budget,    \* budget_tracking.reservation_state
  at,        \* where each call is
  answer,    \* what came back from the provider
  sent,      \* requests sent to the provider
  done,      \* history: the provider has carried out a request of the call
  erred,     \* history: the call met an error that is not a GatewayError
  faults     \* faults so far

vars == <<log, key, budget, at, answer, sent, done, erred, faults>>

LogState == {"none", "planned", "budget_reserved", "credential_checked",
             "in_flight", "succeeded", "failed", "timeout", "denied"}
BudgetState == {"none", "reserved", "committed", "released", "denied"}
Answer == {"none", "ok", "redirect", "rejected", "server_error", "network", "timeout",
           "garbage"}
At == {"new", "check", "deny", "reserve", "link", "credential", "refuse", "send",
       "request", "record", "commit", "release", "fail", "over"}

TypeOK ==
  /\ log \in [Call -> LogState]
  /\ key \in [Call -> Key \cup {NoKey}]
  /\ budget \in [Call -> BudgetState]
  /\ at \in [Call -> At]
  /\ answer \in [Call -> Answer]
  /\ sent \in [Call -> 0..MaxRetries + 1]
  /\ done \in [Call -> BOOLEAN]
  /\ erred \in [Call -> BOOLEAN]
  /\ faults \in 0..MaxFaults

Init ==
  /\ log = [c \in Call |-> "none"]
  /\ key = [c \in Call |-> NoKey]
  /\ budget = [c \in Call |-> "none"]
  /\ at = [c \in Call |-> "new"]
  /\ answer = [c \in Call |-> "none"]
  /\ sent = [c \in Call |-> 0]
  /\ done = [c \in Call |-> FALSE]
  /\ erred = [c \in Call |-> FALSE]
  /\ faults = 0

Fault ==
  /\ faults < MaxFaults
  /\ faults' = faults + 1

Goto(c, to) == at' = [at EXCEPT ![c] = to]

\* transition_call_state and transition_budget_state: a compare-and-set whose
\* result is ignored.
MoveLog(c, from, to) == log' = [log EXCEPT ![c] = IF @ = from THEN to ELSE @]
MoveBudget(c, to) == budget' = [budget EXCEPT ![c] = IF @ = "reserved" THEN to ELSE @]

\* update_call_result: whatever the state was.
SetLog(c, to) == log' = [log EXCEPT ![c] = to]

Running == {c \in Call : at[c] \notin {"new", "over"}}
Committed == {c \in Call : budget[c] = "committed"}

----------------------------------------------------------------------------
(* The budget.                                                              *)

\* insert_api_call_log; the key may be taken by an earlier call, which ends
\* this one before it has a row.
Start(c, k) ==
  /\ at[c] = "new"
  /\ Cardinality(Running) < Threads
  /\ IF \A d \in Call : key[d] # k
     THEN /\ key' = [key EXCEPT ![c] = k]
          /\ SetLog(c, "planned")
          /\ Goto(c, "check")
     ELSE /\ Goto(c, "over")
          /\ UNCHANGED <<log, key>>
  /\ UNCHANGED <<budget, answer, sent, done, erred, faults>>

\* check_budget_allow counts the committed rows.
AllowsOneMore == Cardinality(Committed) <= MaxRequests     \* mutant: > for >=
Allows == Cardinality(Committed) < MaxRequests

Check(c) ==
  /\ at[c] = "check"
  /\ Goto(c, IF Allows THEN "reserve" ELSE "deny")
  /\ UNCHANGED <<log, key, budget, answer, sent, done, erred, faults>>

Deny(c) ==
  /\ at[c] = "deny"
  /\ MoveLog(c, "planned", "denied")
  /\ Goto(c, "over")
  /\ UNCHANGED <<key, budget, answer, sent, done, erred, faults>>

Reserve(c) ==
  /\ at[c] = "reserve"
  /\ budget' = [budget EXCEPT ![c] = "reserved"]
  /\ Goto(c, "link")
  /\ UNCHANGED <<log, key, answer, sent, done, erred, faults>>

\* link_budget_tracking, and the row of the call moves on.
Link(c) ==
  /\ at[c] = "link"
  /\ MoveLog(c, "planned", "budget_reserved")
  /\ Goto(c, "credential")
  /\ UNCHANGED <<key, budget, answer, sent, done, erred, faults>>

----------------------------------------------------------------------------
(* The credential and the provider.                                         *)

\* The vault gives the credential, or the binding needs none.
Credential(c) ==
  /\ at[c] = "credential"
  /\ MoveLog(c, "budget_reserved", "credential_checked")
  /\ Goto(c, "send")
  /\ UNCHANGED <<key, budget, answer, sent, done, erred, faults>>

NoCredential(c) ==
  /\ at[c] = "credential"
  /\ MoveLog(c, "budget_reserved", "denied")
  /\ Goto(c, "refuse")
  /\ UNCHANGED <<key, budget, answer, sent, done, erred, faults>>

Refuse(c) ==
  /\ at[c] = "refuse"
  /\ MoveBudget(c, "denied")
  /\ Goto(c, "over")
  /\ UNCHANGED <<log, key, answer, sent, done, erred, faults>>

\* The log says in_flight before the request goes out.
LateInFlight(c) ==                       \* mutant: as if it were the first attempt
  /\ at[c] = "send"
  /\ MoveLog(c, "credential_checked", "in_flight")
  /\ Goto(c, "request")
  /\ UNCHANGED <<key, budget, answer, sent, done, erred, faults>>

Unannounced(c) ==                        \* mutant: not logged at all
  /\ at[c] = "send"
  /\ UNCHANGED log
  /\ Goto(c, "request")
  /\ UNCHANGED <<key, budget, answer, sent, done, erred, faults>>

InFlight(c) ==
  /\ at[c] = "send"
  /\ MoveLog(c, IF sent[c] = 0 THEN "credential_checked" ELSE "failed", "in_flight")
  /\ Goto(c, "request")
  /\ UNCHANGED <<key, budget, answer, sent, done, erred, faults>>

\* The provider answers, or something happens to the request or the answer:
\* then it may have been carried out all the same.
Request(c, a) ==
  /\ at[c] = "request"
  /\ a # "none"
  /\ answer' = [answer EXCEPT ![c] = a]
  /\ sent' = [sent EXCEPT ![c] = @ + 1]
  /\ \E x \in BOOLEAN :
       /\ a = "ok" => x
       /\ a \in {"redirect", "rejected"} => ~x
       /\ done' = [done EXCEPT ![c] = @ \/ x]
  /\ Goto(c, "record")
  /\ UNCHANGED <<log, key, budget, erred, faults>>

\* 5xx answers and network errors are tried again.
RetriesMore(c) ==                        \* mutant: off by one
  answer[c] \in {"server_error", "network"} /\ sent[c] <= MaxRetries + 1
Retries(c) == answer[c] \in {"server_error", "network"} /\ sent[c] <= MaxRetries

\* Only 4xx and 5xx are errors: a redirect, which httpx does not follow, passes.
RecordSuccess(c) ==
  /\ at[c] = "record" /\ answer[c] \in {"ok", "redirect"}
  /\ SetLog(c, "succeeded")
  /\ Goto(c, "commit")
  /\ UNCHANGED <<key, budget, answer, sent, done, erred, faults>>

RecordFailure(c) ==
  /\ at[c] = "record" /\ answer[c] \in {"rejected", "server_error", "network", "timeout"}
  /\ SetLog(c, IF answer[c] = "timeout" THEN "timeout" ELSE "failed")
  /\ Goto(c, IF Retries(c) THEN "send" ELSE "release")
  /\ UNCHANGED <<key, budget, answer, sent, done, erred, faults>>

\* A body that is not JSON, or a protocol error of httpx.
Garbled(c) ==
  /\ at[c] = "record" /\ answer[c] = "garbage"
  /\ erred' = [erred EXCEPT ![c] = TRUE]
  /\ Goto(c, "fail")
  /\ UNCHANGED <<log, key, budget, answer, sent, done, faults>>

KeepsReserved(c) == UNCHANGED budget     \* mutant: the reservation is forgotten
Settled(c) == MoveBudget(c, IF at[c] = "commit" THEN "committed" ELSE "released")

Settle(c) ==
  /\ at[c] \in {"commit", "release"}
  /\ Settled(c)
  /\ Goto(c, "over")
  /\ UNCHANGED <<log, key, answer, sent, done, erred, faults>>

----------------------------------------------------------------------------
(* Errors.                                                                  *)

\* A database error after Start; the last update may have been applied.
Raise(c) ==
  /\ at[c] \notin {"new", "fail", "over"}
  /\ Fault
  /\ \/ UNCHANGED <<log, budget>>
     \/ at[c] = "deny" /\ MoveLog(c, "planned", "denied") /\ UNCHANGED budget
     \/ at[c] = "refuse" /\ MoveBudget(c, "denied") /\ UNCHANGED log
     \/ at[c] \in {"commit", "release"} /\ Settled(c) /\ UNCHANGED log
  /\ erred' = [erred EXCEPT ![c] = TRUE]
  /\ Goto(c, "fail")
  /\ UNCHANGED <<key, answer, sent, done>>

\* The catch-all of Gateway.call marks the row failed, or fails to.
CatchAll(c) ==
  /\ at[c] = "fail"
  /\ \/ SetLog(c, "failed") /\ UNCHANGED faults
     \/ UNCHANGED log /\ Fault
  /\ Goto(c, "over")
  /\ UNCHANGED <<key, budget, answer, sent, done, erred>>

\* The process dies.
Die(c) ==
  /\ at[c] \notin {"new", "over"}
  /\ Fault
  /\ erred' = [erred EXCEPT ![c] = TRUE]
  /\ Goto(c, "over")
  /\ UNCHANGED <<log, key, budget, answer, sent, done>>

----------------------------------------------------------------------------

Serve(c) ==
  \/ \E k \in Key : Start(c, k)
  \/ Check(c) \/ Deny(c) \/ Reserve(c) \/ Link(c)
  \/ Credential(c) \/ NoCredential(c) \/ Refuse(c) \/ InFlight(c)
  \/ \E a \in Answer : Request(c, a)
  \/ RecordSuccess(c) \/ RecordFailure(c) \/ Garbled(c) \/ Settle(c)
  \/ Raise(c) \/ CatchAll(c) \/ Die(c)

Next == \E c \in Call : Serve(c)

Spec == Init /\ [][Next]_vars

=============================================================================

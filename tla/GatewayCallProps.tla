---------------------------- MODULE GatewayCallProps ----------------------------
(***************************************************************************)
(* What the two tables of the gateway say of a call, and what the usage    *)
(* limit is worth when calls run side by side.                             *)
(***************************************************************************)
EXTENDS GatewayCall

Served(c) == done[c] \/ answer[c] = "redirect"

\* Code behaviour: each path of Gateway._execute ends in its own updates of
\* two tables (call.py:350-689).  Unless a call met an unexpected error, both
\* tables tell the same end of it, and what it was charged for was done (or
\* redirected, which passes for a success).
TablesAgree ==
  \A c \in Call : at[c] = "over" /\ ~erred[c] =>
    /\ <<log[c], budget[c]>> \in
         {<<"none", "none">>, <<"denied", "none">>, <<"denied", "denied">>,
          <<"succeeded", "committed">>, <<"failed", "released">>, <<"timeout", "released">>}
    /\ budget[c] = "committed" => Served(c)

\* Code behaviour: the row is in_flight before the request is sent (call.py:
\* 506-517).  After any error the system still knows that it called the
\* provider.
KnowsItCalled ==
  \A c \in Call : sent[c] > 0 => log[c] \in {"in_flight", "succeeded", "failed", "timeout"}

\* Code behaviour: the unique idempotency key and the retry loop (call.py:281-
\* 311, 494-689).  A client that repeats a call with its key never reaches the
\* provider again, and one call sends at most one request more than it retries.
OneCallPerKey ==
  /\ \A c, d \in Call : sent[c] > 0 /\ sent[d] > 0 /\ key[c] = key[d] => c = d
  /\ \A c \in Call : sent[c] <= MaxRetries + 1

\* Code behaviour: the check counts committed rows only and nothing is locked
\* between check and commit (budget.py:190-211, 350-506).  The limit is
\* overrun, but never by more than the other calls that are being served.
OverrunIsBounded == Cardinality(Committed) < MaxRequests + Threads

\* _VALID_TRANSITIONS of api_call_logs.py:27-40.
Valid ==
  {<<"none", "planned">>, <<"planned", "budget_reserved">>, <<"planned", "denied">>,
   <<"budget_reserved", "credential_checked">>, <<"budget_reserved", "denied">>,
   <<"credential_checked", "in_flight">>, <<"credential_checked", "denied">>,
   <<"in_flight", "succeeded">>, <<"in_flight", "failed">>, <<"in_flight", "timeout">>,
   <<"failed", "in_flight">>, <<"timeout", "in_flight">>}

\* Code behaviour: update_call_result sets the state unconditionally
\* (api_call_logs.py:96-116).  Still, as long as a call meets no unexpected
\* error, its row only moves along the table of transitions, retries included.
RowsFollowTheTable ==
  [][\A c \in Call : log'[c] # log[c] /\ ~erred[c] => <<log[c], log'[c]>> \in Valid]_vars

----------------------------------------------------------------------------
(* The inductive invariant (GatewayCallProofs).                             *)

\* What the two tables say at each point of a call that met no error.
Position(c) ==
  /\ at[c] = "new" => log[c] = "none" /\ budget[c] = "none"
  /\ at[c] \in {"check", "deny", "reserve"} => log[c] = "planned" /\ budget[c] = "none"
  /\ at[c] = "link" => log[c] = "planned"
  /\ at[c] = "credential" => log[c] = "budget_reserved"
  /\ at[c] = "refuse" => log[c] = "denied"
  /\ at[c] = "send" =>
       log[c] = IF sent[c] = 0 THEN "credential_checked" ELSE "failed"
  /\ at[c] \in {"request", "record"} => log[c] = "in_flight"
  /\ at[c] = "record" => (answer[c] = "ok" => done[c])
  /\ at[c] = "commit" => log[c] = "succeeded" /\ Served(c)
  /\ at[c] = "release" => log[c] \in {"failed", "timeout"}
  /\ at[c] \in {"link", "credential", "refuse", "send", "request", "record",
                "commit", "release"} => budget[c] = "reserved"
  /\ at[c] # "fail"

\* Only a call that has ended its own way can have met an error.
ErrorsEnd ==
  \A c \in Call : IF erred[c] THEN at[c] \in {"fail", "over"} ELSE Position(c)

\* How many requests a call has sent where.
SentSoFar ==
  \A c \in Call :
    /\ at[c] \in {"new", "check", "deny", "reserve", "link", "credential", "refuse"} =>
         sent[c] = 0
    /\ at[c] \in {"send", "request"} => sent[c] <= MaxRetries
    /\ at[c] \in {"record", "commit", "release"} => sent[c] > 0

\* Keys are unique, and a call without one has done nothing.
KeysAreUnique ==
  /\ \A c, d \in Call : key[c] # NoKey /\ key[c] = key[d] => c = d
  /\ \A c \in Call : key[c] = NoKey => at[c] \in {"new", "over"} /\ sent[c] = 0
  /\ \A c \in Call : at[c] = "new" => key[c] = NoKey

\* Calls that have passed the check and may yet be committed.
Passed == {c \in Call : at[c] \in {"reserve", "link", "credential", "send", "request",
                                   "record", "commit"}}

\* They are being served, and were allowed on top of what was committed.
Headroom ==
  /\ Cardinality(Running) <= Threads
  /\ Cardinality(Committed \cup Passed) < MaxRequests + Threads

\* Code behaviour: as for the properties above.  The invariant they follow from.
IInv ==
  /\ TypeOK
  /\ ErrorsEnd
  /\ SentSoFar
  /\ KeysAreUnique
  /\ KnowsItCalled
  /\ TablesAgree
  /\ Headroom

=============================================================================

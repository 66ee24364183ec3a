---------------------------- MODULE MemoryLifeProps ----------------------------
(***************************************************************************)
(* What the version numbers of the memories are for.                       *)
(***************************************************************************)
EXTENDS MemoryLife

\* The version rows tell the truth: no number is used twice, and, unless the
\* version of the memory has gone down, none is past current_version and the
\* last row that is not about scores holds the status and the text.  So the
\* number of the next version is free, and the memory can be changed.  Edits,
\* merges, changes of status and smart merges, which skip a number, all race
\* for the numbers.
HistoryTellsTruth ==
  \A m \in Memory :
    /\ \A q, r \in rows[m] : q.version = r.version => q = r
    /\ m \notin rewound => \A r \in rows[m] : r.version <= mem[m].version
    /\ m \notin rewound /\ mem[m] # Absent =>
         \E r \in rows[m] :
           /\ r.status = mem[m].status /\ r.text = mem[m].text
           /\ \A q \in rows[m] : q.version > r.version => q.status = "scores"

\* What data model and endpoints promise: an update writes the version
\* current_version + 1, so that number must be free.  A smart merge that
\* overtakes another one breaks it.
CanBeChanged == \A m \in Memory : mem[m] # Absent => IsFree(m, mem[m].version + 1)

\* No memories are merged into each other in a circle: following merged_into
\* leads to a memory that is not merged, although merge_memory asks only for
\* the version of the survivor when it writes.
NoMergeCycle ==
  \A S \in SUBSET {m \in Memory : mem[m].status = "merged"} :
    S # {} => \E m \in S : into[m] \notin S

\* A search finds every live memory by what it says now, and none by what it
\* said before.  The exception are memories in misbuilt: since their last edit,
\* merge, expiry or deletion a rebuild has written a text that was not, or no
\* longer, the text of the memory, or has met another request that wrote to the
\* index.
IndexIsCurrent ==
  \A m \in Memory \ misbuilt :
    /\ \A e \in entries[m] : e.state = "ready" => e.text = mem[m].text
    /\ mem[m].status \in Live => \E e \in entries[m] : e.state = "ready"

\* Asking for the version that was read makes every request atomic: no merge
\* loses what another request has written to either memory in the meantime, and
\* no change of status is based on a status of the past.
Atomic == INSTANCE AtomicMemory WITH
  status <- [m \in Memory |-> mem[m].status],
  text <- [m \in Memory |-> mem[m].text]

RequestsAreAtomic == Atomic!Spec

----------------------------------------------------------------------------
(* The inductive invariant.                                                 *)

\* Every version a memory has or had has its number among the rows.
HasRow(m, number) == \E r \in rows[m] : r.version = number

Numbered ==
  \A m \in Memory :
    /\ mem[m].status = "none" => mem[m] = Absent /\ rows[m] = {}
    /\ mem[m].status # "none" => mem[m].version > 0 /\ HasRow(m, mem[m].version)

\* What a request has read is of the past, and an equal number means the same
\* memory: a number that went out of use does not come back.
OfThePast(m, seen) ==
  /\ seen # Absent /\ HasRow(m, seen.version)
  /\ Current(m, seen) => mem[m] = seen

SeenInThePast ==
  \A t \in Thread : req[t] # Idle =>
    /\ OfThePast(req[t].memory, req[t].seen)
    /\ Serves(req[t].op, req[t].seen.status)
    /\ req[t].op \in {"merge", "smart"} <=> req[t].memory # req[t].other
    /\ req[t].also # Absent => OfThePast(req[t].other, req[t].also)

IInv == TypeOK /\ Numbered /\ SeenInThePast /\ HistoryTellsTruth /\ NoMergeCycle

=============================================================================

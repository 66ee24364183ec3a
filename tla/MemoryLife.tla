------------------------------ MODULE MemoryLife ------------------------------
(***************************************************************************)
(* The life of a memory: db/memories.py, memory/refine/merge.py,           *)
(* memory/decay.py reinforce_memory, memory/index_manager.py and the       *)
(* rebuilds of the index in api/routes/memory/memory_index.py, which ask   *)
(* for no version at all.                                                  *)
(*                                                                         *)
(* The endpoints are plain functions that run in threads.  Each reads the  *)
(* memories it works on, decides, and then writes all it has to write in   *)
(* one transaction whose UPDATEs ask for the version that was read.  The   *)
(* smart merge asks a language model in between and does not ask for the   *)
(* version.  What it writes is only held up by the UNIQUE numbers of the   *)
(* version rows.                                                           *)
(*                                                                         *)
(* A retry with the same idempotency key writes nothing and is no step.    *)
(* approve_memory and reject_memory are left out: their version rows break *)
(* the CHECK on memory_versions.action, so they always fail.               *)
(***************************************************************************)
EXTENDS Integers, FiniteSets

CONSTANTS
  Memory,      \* memories
  NoMemory,    \* no memory
  Fact,        \* what the texts say; a text is a set of facts
  Thread,      \* threads of the API, each with one request at a time
  MaxVersion,  \* bound on the versions of a memory
  MaxRequests  \* bound on the requests that work on existing memories

ASSUME MemoryAssumption ==
  /\ NoMemory \notin Memory
  /\ MaxVersion \in Nat
  /\ MaxRequests \in Nat

VARIABLES
  mem,        \* memories: current_version, status and memory_text
  reviewed,   \* memories.activated_by_review_item_id is set
  rows,       \* memory_versions: version and after_json of each memory
  entries,    \* memory_index_entries of each memory
  into,       \* memory_relations: the latest merged_into of each memory
  asked,      \* number of requests so far
  req,        \* the request of each thread and what it has read
  reworded,   \* history: memories whose text a smart merge has replaced
  rewound,    \* history: memories whose current_version has gone down
  misbuilt    \* history: memories whose index a rebuild has left with another
              \* text, or while another request wrote to it

vars == <<mem, reviewed, rows, entries, into, asked, req, reworded, rewound,
          misbuilt>>
history == <<reworded, rewound, misbuilt>>

Live == {"draft", "active"}
Status == {"none", "draft", "active", "expired", "merged", "deleted"}
Op == {"edit", "merge", "smart", "expire", "restore", "delete", "reinforce", "fts", "vector"}

Version == [version : Nat, status : Status, text : SUBSET Fact]
Row == [version : Nat, status : Status \cup {"scores"}, text : SUBSET Fact]
Entry == [version : Nat, text : SUBSET Fact, state : {"ready", "stale"}]

Absent == [version |-> 0, status |-> "none", text |-> {}]
Idle == [op |-> "idle", memory |-> NoMemory, other |-> NoMemory,
         seen |-> Absent, also |-> Absent, indexed |-> {}]

TypeOK ==
  /\ mem \in [Memory -> Version]
  /\ reviewed \subseteq Memory
  /\ rows \in [Memory -> SUBSET Row]
  /\ entries \in [Memory -> SUBSET Entry]
  /\ into \in [Memory -> Memory \cup {NoMemory}]
  /\ asked \in 0..MaxRequests
  /\ req \in [Thread -> {Idle} \cup
               [op : Op, memory : Memory, other : Memory, seen : Version, also : Version,
                indexed : SUBSET Nat]]
  /\ reworded \subseteq Memory
  /\ rewound \subseteq Memory
  /\ misbuilt \subseteq Memory

Init ==
  /\ mem = [m \in Memory |-> Absent]
  /\ reviewed = {}
  /\ rows = [m \in Memory |-> {}]
  /\ entries = [m \in Memory |-> {}]
  /\ into = [m \in Memory |-> NoMemory]
  /\ asked = 0
  /\ req = [t \in Thread |-> Idle]
  /\ reworded = {}
  /\ rewound = {}
  /\ misbuilt = {}

----------------------------------------------------------------------------
(* Writing.                                                                 *)

\* WHERE current_version = :ver - 1, with :ver one more than the version read.
CurrentAnyway(m, seen) == TRUE   \* mutant: no such condition

Current(m, seen) == mem[m].version = seen.version

NextVersion(m, status, text) ==
  [version |-> mem[m].version + 1, status |-> status, text |-> text]

\* _MARK_STALE, and create_index_entry or _REBUILD of a text.
Stale(m) == {[e EXCEPT !.state = "stale"] : e \in entries[m]}
Ready(number, T) == [version |-> number, text |-> T, state |-> "ready"]

\* on_memory_updated.
ReindexByVersion(m, v) ==        \* mutant: mark_entry_by_version_stale
  /\ entries' = [entries EXCEPT ![m] =
       {IF e.version = mem[m].version THEN [e EXCEPT !.state = "stale"] ELSE e : e \in @}
         \cup {Ready(v.version, v.text)}]
  /\ misbuilt' = misbuilt \ {m}

Reindex(m, v) ==
  /\ entries' = [entries EXCEPT ![m] = Stale(m) \cup {Ready(v.version, v.text)}]
  /\ misbuilt' = misbuilt \ {m}

\* UNIQUE (memory_id, version) of memory_versions.
IsFree(m, number) == \A r \in rows[m] : r.version # number

\* The memory and its row in memory_versions.
Write(m, v) ==
  /\ IsFree(m, v.version)
  /\ mem' = [mem EXCEPT ![m] = v]
  /\ rows' = [rows EXCEPT ![m] = @ \cup {v}]

Ask == asked < MaxRequests /\ asked' = asked + 1
Done(t) == req' = [req EXCEPT ![t] = Idle] /\ UNCHANGED asked

Payload == {{f} : f \in Fact}

\* create_memory and activate_memory.
Create(m, status) ==
  /\ mem[m] = Absent
  /\ 1 <= MaxVersion
  /\ reviewed' = IF status = "active" THEN reviewed \cup {m} ELSE reviewed
  /\ \E T \in Payload :
       LET v == NextVersion(m, status, T) IN Write(m, v) /\ Reindex(m, v)
  /\ UNCHANGED <<into, asked, req, reworded, rewound>>

----------------------------------------------------------------------------
(* Reading, and the checks on what was read.                                *)

Serves(op, status) ==
  CASE op \in {"merge", "smart"} -> status \in Live
    [] op = "expire" -> status = "active"
    [] op = "restore" -> status \in {"expired", "deleted"}
    [] op = "delete" -> status # "deleted"
    [] OTHER -> TRUE

Indexed(m) == {e.version : e \in entries[m]}

\* rebuild-fts also looks which versions have an entry.
Read(t, op, m, c) ==
  /\ Ask
  /\ req[t] = Idle
  /\ mem[m] # Absent
  /\ Serves(op, mem[m].status)
  /\ op \in {"merge", "smart"} <=> c # m
  /\ req' = [req EXCEPT ![t] = [op |-> op, memory |-> m, other |-> c,
                                seen |-> mem[m], also |-> Absent,
                                indexed |-> IF op = "fts" THEN Indexed(m) ELSE {}]]
  /\ UNCHANGED <<mem, reviewed, rows, entries, into, history>>

\* The memory to be consumed is read after the survivor.
ReadOther(t) ==
  /\ req[t].op \in {"merge", "smart"} /\ req[t].also = Absent
  /\ mem[req[t].other].status \in Live
  /\ req' = [req EXCEPT ![t].also = mem[req[t].other]]
  /\ UNCHANGED <<mem, reviewed, rows, entries, into, asked, history>>

----------------------------------------------------------------------------
(* The transactions.                                                        *)

Fits(t) == /\ Current(req[t].memory, req[t].seen)
           /\ mem[req[t].memory].version < MaxVersion

\* update_memory: a payload without a text leaves the text.
EditUnversioned(t) ==            \* mutant: current_version is not raised
  LET m == req[t].memory IN
  /\ req[t].op = "edit" /\ Fits(t)
  /\ \E T \in Payload \cup {mem[m].text} :
       LET v == [mem[m] EXCEPT !.text = T] IN
         /\ mem' = [mem EXCEPT ![m] = v]
         /\ rows' = [rows EXCEPT ![m] = @ \cup {NextVersion(m, v.status, T)}]
         /\ Reindex(m, v)
  /\ Done(t)
  /\ UNCHANGED <<reviewed, into, reworded, rewound>>

Edit(t) ==
  LET m == req[t].memory IN
  /\ req[t].op = "edit" /\ Fits(t)
  /\ \E T \in Payload \cup {mem[m].text} :
       LET v == NextVersion(m, mem[m].status, T) IN Write(m, v) /\ Reindex(m, v)
  /\ Done(t)
  /\ UNCHANGED <<reviewed, into, reworded, rewound>>

\* The survivor takes version v and the consumed memory becomes "merged"; its
\* index entry stays ready.
Consume(m, v, c) ==
  LET gone == NextVersion(c, "merged", mem[c].text) IN
  /\ mem[c].status \in Live /\ mem[c].version < MaxVersion
  /\ IsFree(m, v.version) /\ IsFree(c, gone.version)
  /\ mem' = [mem EXCEPT ![m] = v, ![c] = gone]
  /\ rows' = [rows EXCEPT ![m] = @ \cup {v}, ![c] = @ \cup {gone}]
  /\ into' = [into EXCEPT ![c] = m]
  /\ Reindex(m, v)

\* merge_memory: the status of the survivor is not asked for again.
Merge(t) ==
  LET m == req[t].memory
      c == req[t].other
      seen == req[t].seen
      also == req[t].also IN
  /\ req[t].op = "merge" /\ also # Absent /\ Fits(t) /\ Current(c, also)
  /\ Consume(m, NextVersion(m, mem[m].status, seen.text \cup also.text), c)
  /\ Done(t)
  /\ UNCHANGED <<reviewed, reworded, rewound>>

\* smart_merge: the text of the model, whatever it says, goes to the survivor
\* as the version after the one read, and merge_memory, which reads again,
\* makes the next one out of it and fails if there is such a row.  Of several
\* consumed memories only the first that succeeds is merged: the others have
\* the same idempotency key.
SmartMergeUnlogged(t) ==         \* mutant: merge_memory gives the survivor no row
  LET m == req[t].memory
      c == req[t].other
      next == req[t].seen.version + 2
      gone == NextVersion(c, "merged", mem[c].text) IN
  /\ req[t].op = "smart" /\ req[t].also # Absent
  /\ mem[m].status \in Live /\ mem[c].status \in Live
  /\ next <= MaxVersion /\ mem[c].version < MaxVersion
  /\ \E T \in SUBSET Fact :
       LET v == [version |-> next, status |-> mem[m].status, text |-> T \cup mem[c].text] IN
         mem' = [mem EXCEPT ![m] = v, ![c] = gone] /\ Reindex(m, v)
  /\ rows' = [rows EXCEPT ![c] = @ \cup {gone}]
  /\ into' = [into EXCEPT ![c] = m]
  /\ reworded' = reworded \cup {m}
  /\ rewound' = IF next < mem[m].version THEN rewound \cup {m} ELSE rewound
  /\ Done(t)
  /\ UNCHANGED reviewed

SmartMerge(t) ==
  LET m == req[t].memory
      c == req[t].other
      next == req[t].seen.version + 2 IN
  /\ req[t].op = "smart" /\ req[t].also # Absent
  /\ mem[m].status \in Live
  /\ next <= MaxVersion
  /\ \E T \in SUBSET Fact :
       Consume(m, [version |-> next, status |-> mem[m].status,
                   text |-> T \cup mem[c].text], c)
  /\ reworded' = reworded \cup {m}
  /\ rewound' = IF next < mem[m].version THEN rewound \cup {m} ELSE rewound
  /\ Done(t)
  /\ UNCHANGED reviewed

\* _transition_status.  An active memory needs a review (CHECK on memories).
Expire(t) ==
  LET m == req[t].memory IN
  /\ req[t].op \in {"expire", "delete"} /\ Fits(t)
  /\ mem[m].status = req[t].seen.status
  /\ Write(m, NextVersion(m, IF req[t].op = "expire" THEN "expired" ELSE "deleted",
                          mem[m].text))
  /\ entries' = [entries EXCEPT ![m] = Stale(m)]
  /\ misbuilt' = misbuilt \ {m}
  /\ Done(t)
  /\ UNCHANGED <<reviewed, into, reworded, rewound>>

Restore(t) ==
  LET m == req[t].memory
      v == NextVersion(m, "active", mem[m].text) IN
  /\ req[t].op = "restore" /\ Fits(t)
  /\ mem[m].status = req[t].seen.status
  /\ m \in reviewed
  /\ Write(m, v)
  /\ entries' = [entries EXCEPT ![m] = @ \cup {Ready(v.version, v.text)}]
  /\ Done(t)
  /\ UNCHANGED <<reviewed, into, history>>

\* reinforce_memory: its row holds scores only.
Reinforce(t) ==
  LET m == req[t].memory
      next == mem[m].version + 1 IN
  /\ req[t].op = "reinforce" /\ Fits(t) /\ IsFree(m, next)
  /\ mem' = [mem EXCEPT ![m].version = next]
  /\ rows' = [rows EXCEPT ![m] = @ \cup {[version |-> next, status |-> "scores", text |-> {}]}]
  /\ Done(t)
  /\ UNCHANGED <<reviewed, entries, into, history>>

----------------------------------------------------------------------------
(* The index.  Both rebuilds write the text of the memory as they have read *)
(* it, or any other text the client gives them.                             *)

\* rebuild-fts of a memory marks the ready entries stale and then rebuilds the
\* entry of the version it has read, or creates one if it has found none.  An
\* entry that others have committed since it read may have come after the
\* marking; if it has the number to be created, nothing is created, and it may
\* be stale like all others.
Rebuild(t) ==
  LET m == req[t].memory
      number == req[t].seen.version
      new == {e \in entries[m] : e.version \notin req[t].indexed} IN
  /\ req[t].op = "fts"
  /\ \E late \in SUBSET new, T \in SUBSET Fact :
       LET marked == late \cup {[e EXCEPT !.state = "stale"] : e \in entries[m] \ late}
           lost == \E e \in new : e.version = number IN
         /\ entries' = [entries EXCEPT ![m] =
              IF lost THEN marked
              ELSE {e \in marked : e.version # number} \cup {Ready(number, T)}]
         /\ misbuilt' = IF late = {} /\ ~lost /\ T = mem[m].text
                          THEN misbuilt \ {m} ELSE misbuilt \cup {m}
  /\ Done(t)
  /\ UNCHANGED <<mem, reviewed, rows, into, reworded, rewound>>

Misbuild(m, T) == misbuilt' = IF T = mem[m].text THEN misbuilt ELSE misbuilt \cup {m}

\* rebuild-fts of an entry.
RebuildEntry(m, e) ==
  /\ Ask
  /\ e \in entries[m]
  /\ \E T \in SUBSET Fact :
       /\ entries' = [entries EXCEPT ![m] = (@ \ {e}) \cup {Ready(e.version, T)}]
       /\ Misbuild(m, T)
  /\ UNCHANGED <<mem, reviewed, rows, into, req, reworded, rewound>>

\* rebuild-vector of a memory creates an entry of the version it has read, if
\* there is none, asks the embedding model, and commits whether or not that
\* answers.  It marks nothing stale.
RebuildVector(t) ==
  LET m == req[t].memory
      number == req[t].seen.version IN
  /\ req[t].op = "vector"
  /\ number \notin Indexed(m)
  /\ \E T \in SUBSET Fact :
       /\ entries' = [entries EXCEPT ![m] = @ \cup {Ready(number, T)}]
       /\ Misbuild(m, T)
  /\ Done(t)
  /\ UNCHANGED <<mem, reviewed, rows, into, reworded, rewound>>

\* A condition does not hold, a constraint fails, a lock is refused, or the
\* client gives up: the transaction is rolled back.
Fail(t) ==
  /\ req[t] # Idle
  /\ Done(t)
  /\ UNCHANGED <<mem, reviewed, rows, entries, into, history>>

----------------------------------------------------------------------------

Next ==
  \/ \E m \in Memory :
       \/ \E s \in Live : Create(m, s)
       \/ \E e \in entries[m] : RebuildEntry(m, e)
  \/ \E t \in Thread :
       \/ \E op \in Op, m, c \in Memory : Read(t, op, m, c)
       \/ ReadOther(t) \/ Edit(t) \/ Merge(t) \/ SmartMerge(t) \/ Expire(t)
       \/ Restore(t) \/ Reinforce(t) \/ Rebuild(t)
       \/ RebuildVector(t) \/ Fail(t)

Spec == Init /\ [][Next]_vars

=============================================================================

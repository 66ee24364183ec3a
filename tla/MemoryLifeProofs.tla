--------------------------- MODULE MemoryLifeProofs ---------------------------
(***************************************************************************)
(* Proofs about memories, for any memories, facts and threads and any      *)
(* number of requests and versions.                                        *)
(***************************************************************************)
EXTENDS MemoryLifeProps, TLAPS

Request == [op : Op, memory : Memory, other : Memory, seen : Version, also : Version,
            indexed : SUBSET Nat]

\* A request that is on its way has all its fields.
LEMMA ReqType ==
  ASSUME TypeOK, NEW t \in Thread, req[t] # Idle
  PROVE  /\ req[t] \in Request
         /\ req[t].op \in Op /\ req[t].memory \in Memory /\ req[t].other \in Memory
         /\ req[t].seen \in Version /\ req[t].also \in Version
<1>1. req[t] \in Request
  BY DEF TypeOK, Request
<1>2. QED
  BY <1>1 DEF Request

LEMMA OpType ==
  ASSUME TypeOK, NEW t \in Thread, req[t].op \in Op
  PROVE  req[t] # Idle
BY DEF Op, Idle

LEMMA NextVersionType ==
  ASSUME TypeOK, NEW m \in Memory, NEW s \in Status, NEW T \in SUBSET Fact
  PROVE  /\ NextVersion(m, s, T) \in Version
         /\ NextVersion(m, s, T).version = mem[m].version + 1
         /\ NextVersion(m, s, T).status = s /\ NextVersion(m, s, T).text = T
<1>1. mem[m] \in Version
  BY DEF TypeOK
<1>2. QED
  BY <1>1 DEF NextVersion, Version

LEMMA MemType ==
  ASSUME TypeOK, NEW m \in Memory
  PROVE  /\ mem[m] \in Version /\ mem[m].version \in Nat /\ mem[m].status \in Status
         /\ mem[m].text \in SUBSET Fact
<1>1. mem[m] \in Version
  BY DEF TypeOK
<1>2. QED
  BY <1>1 DEF Version

\* What marking stale, and adding an entry, leaves in the index.
LEMMA StaleType ==
  ASSUME TypeOK, NEW m \in Memory
  PROVE  /\ Stale(m) \in SUBSET Entry
         /\ \A e \in Stale(m) : e.state = "stale"
<1>1. \A e \in entries[m] : /\ [e EXCEPT !.state = "stale"] \in Entry
                            /\ [e EXCEPT !.state = "stale"].state = "stale"
  BY DEF TypeOK, Entry
<1>2. ASSUME NEW x \in Stale(m) PROVE x \in Entry /\ x.state = "stale"
  <2>1. PICK e \in entries[m] : x = [e EXCEPT !.state = "stale"]
    BY DEF Stale
  <2>2. QED
    BY <1>1, <2>1
<1>3. QED
  BY <1>2

LEMMA ReadyType ==
  ASSUME NEW number \in Nat, NEW T \in SUBSET Fact
  PROVE  /\ Ready(number, T) \in Entry
         /\ Ready(number, T).text = T /\ Ready(number, T).state = "ready"
BY DEF Ready, Entry

LEMMA VersionReady ==
  ASSUME NEW v \in Version
  PROVE  /\ Ready(v.version, v.text) \in Entry
         /\ Ready(v.version, v.text).text = v.text
         /\ Ready(v.version, v.text).state = "ready"
BY ReadyType DEF Version

LEMMA ReindexType ==
  ASSUME TypeOK, NEW m \in Memory, NEW v \in Version, Reindex(m, v)
  PROVE  /\ entries' \in [Memory -> SUBSET Entry]
         /\ misbuilt' \subseteq Memory
<1>1. Stale(m) \cup {Ready(v.version, v.text)} \in SUBSET Entry
  BY StaleType, VersionReady
<1>2. QED
  BY <1>1 DEF Reindex, TypeOK

LEMMA WriteType ==
  ASSUME TypeOK, NEW m \in Memory, NEW v \in Version, Write(m, v)
  PROVE  /\ mem' \in [Memory -> Version]
         /\ rows' \in [Memory -> SUBSET Row]
<1>1. v \in Row
  BY DEF Version, Row
<1>2. QED
  BY <1>1 DEF Write, TypeOK

LEMMA ConsumeType ==
  ASSUME TypeOK, NEW m \in Memory, NEW c \in Memory, NEW v \in Version, Consume(m, v, c)
  PROVE  /\ mem' \in [Memory -> Version]
         /\ rows' \in [Memory -> SUBSET Row]
         /\ into' \in [Memory -> Memory \cup {NoMemory}]
         /\ entries' \in [Memory -> SUBSET Entry]
         /\ misbuilt' \subseteq Memory
<1> DEFINE gone == NextVersion(c, "merged", mem[c].text)
<1>1. gone \in Version /\ gone \in Row /\ v \in Row
  <2>1. gone \in Version
    BY NextVersionType, MemType DEF Status
  <2>2. QED
    BY <2>1 DEF Version, Row
<1>2. /\ mem' = [mem EXCEPT ![m] = v, ![c] = gone]
      /\ rows' = [rows EXCEPT ![m] = @ \cup {v}, ![c] = @ \cup {gone}]
      /\ into' = [into EXCEPT ![c] = m]
      /\ Reindex(m, v)
  BY DEF Consume
<1> HIDE DEF gone
<1>3. mem' \in [Memory -> Version]
  BY <1>1, <1>2 DEF TypeOK
<1>4. rows' \in [Memory -> SUBSET Row]
  BY <1>1, <1>2 DEF TypeOK
<1>5. into' \in [Memory -> Memory \cup {NoMemory}]
  BY <1>2 DEF TypeOK
<1>6. QED
  BY <1>2, <1>3, <1>4, <1>5, ReindexType

LEMMA DoneType ==
  ASSUME TypeOK, NEW t \in Thread, Done(t)
  PROVE  /\ req' \in [Thread -> {Idle} \cup Request]
         /\ asked' \in 0..MaxRequests
BY DEF TypeOK, Done, Request

----------------------------------------------------------------------------
(* What each transaction writes.                                            *)

\* The texts that the transactions write are sets of facts.
LEMMA CreateWrites ==
  ASSUME TypeOK, NEW m \in Memory, NEW s \in Live, Create(m, s)
  PROVE  \E v \in Version :
           /\ v.version = mem[m].version + 1 /\ v.status = s
           /\ Write(m, v) /\ Reindex(m, v)
<1>1. PICK T \in Payload : Write(m, NextVersion(m, s, T)) /\ Reindex(m, NextVersion(m, s, T))
  BY DEF Create
<1>2. T \in SUBSET Fact /\ s \in Status
  BY DEF Payload, Live, Status
<1>3. QED
  BY <1>1, <1>2, NextVersionType

LEMMA EditWrites ==
  ASSUME TypeOK, NEW t \in Thread, Edit(t)
  PROVE  /\ req[t].memory \in Memory
         /\ \E v \in Version :
              /\ v.version = mem[req[t].memory].version + 1
              /\ v.status = mem[req[t].memory].status
              /\ Write(req[t].memory, v) /\ Reindex(req[t].memory, v)
<1> DEFINE m == req[t].memory
<1>1. m \in Memory
  BY ReqType, OpType DEF Edit, Op
<1>2. PICK T \in Payload \cup {mem[m].text} :
        /\ Write(m, NextVersion(m, mem[m].status, T))
        /\ Reindex(m, NextVersion(m, mem[m].status, T))
  BY DEF Edit
<1>3. T \in SUBSET Fact /\ mem[m].status \in Status
  BY <1>1, MemType DEF Payload
<1>4. QED
  BY <1>1, <1>2, <1>3, NextVersionType

LEMMA MergeWrites ==
  ASSUME TypeOK, NEW t \in Thread, Merge(t)
  PROVE  /\ req[t].memory \in Memory /\ req[t].other \in Memory
         /\ \E v \in Version :
              /\ v.version = mem[req[t].memory].version + 1
              /\ v.status = mem[req[t].memory].status
              /\ v.text = req[t].seen.text \cup req[t].also.text
              /\ Consume(req[t].memory, v, req[t].other)
<1> DEFINE m == req[t].memory
           T == req[t].seen.text \cup req[t].also.text
<1>1. m \in Memory /\ req[t].other \in Memory /\ T \in SUBSET Fact
  <2>1. req[t].seen \in Version /\ req[t].also \in Version
    BY ReqType, OpType DEF Merge, Op
  <2>2. QED
    BY <2>1, ReqType, OpType DEF Merge, Op, Version
<1>2. Consume(m, NextVersion(m, mem[m].status, T), req[t].other)
  BY DEF Merge
<1>3. mem[m].status \in Status
  BY <1>1, MemType
<1>4. QED
  BY <1>1, <1>2, <1>3, NextVersionType

LEMMA SmartWrites ==
  ASSUME TypeOK, NEW t \in Thread, SmartMerge(t)
  PROVE  /\ req[t].memory \in Memory /\ req[t].other \in Memory
         /\ \E v \in Version, T \in SUBSET Fact :
              /\ v.version = req[t].seen.version + 2
              /\ v.status = mem[req[t].memory].status
              /\ v.text = T \cup mem[req[t].other].text
              /\ Consume(req[t].memory, v, req[t].other)
<1> DEFINE m == req[t].memory
           c == req[t].other
           next == req[t].seen.version + 2
<1>1. m \in Memory /\ c \in Memory /\ next \in Nat
  <2>1. req[t].seen \in Version
    BY ReqType, OpType DEF SmartMerge, Op
  <2>2. QED
    BY <2>1, ReqType, OpType DEF SmartMerge, Op, Version
<1>2. PICK T \in SUBSET Fact :
        Consume(m, [version |-> next, status |-> mem[m].status, text |-> T \cup mem[c].text], c)
  BY DEF SmartMerge
<1> DEFINE v == [version |-> next, status |-> mem[m].status, text |-> T \cup mem[c].text]
<1>3. /\ v \in Version /\ v.version = next /\ v.status = mem[m].status
      /\ v.text = T \cup mem[c].text
  BY <1>1, MemType DEF Version
<1>4. QED
  BY <1>1, <1>2, <1>3

LEMMA ExpireWrites ==
  ASSUME TypeOK, NEW t \in Thread, Expire(t)
  PROVE  /\ req[t].memory \in Memory
         /\ \E v \in Version :
              /\ v.version = mem[req[t].memory].version + 1
              /\ v.status = (IF req[t].op = "expire" THEN "expired" ELSE "deleted")
              /\ v.text = mem[req[t].memory].text
              /\ Write(req[t].memory, v)
<1> DEFINE m == req[t].memory
           s == IF req[t].op = "expire" THEN "expired" ELSE "deleted"
<1>1. m \in Memory
  BY ReqType, OpType DEF Expire, Op
<1>2. Write(m, NextVersion(m, s, mem[m].text))
  BY DEF Expire
<1>3. s \in Status /\ mem[m].text \in SUBSET Fact
  BY <1>1, MemType DEF Status
<1> HIDE DEF s
<1>4. NextVersion(m, s, mem[m].text) \in Version
      /\ NextVersion(m, s, mem[m].text).version = mem[m].version + 1
      /\ NextVersion(m, s, mem[m].text).status = s
      /\ NextVersion(m, s, mem[m].text).text = mem[m].text
  BY <1>1, <1>3, NextVersionType
<1> QED
  BY <1>1, <1>2, <1>4 DEF s

LEMMA RestoreWrites ==
  ASSUME TypeOK, NEW t \in Thread, Restore(t)
  PROVE  /\ req[t].memory \in Memory
         /\ \E v \in Version :
              /\ v.version = mem[req[t].memory].version + 1 /\ v.status = "active"
              /\ v.text = mem[req[t].memory].text
              /\ Write(req[t].memory, v)
              /\ entries' = [entries EXCEPT ![req[t].memory] = @ \cup {Ready(v.version, v.text)}]
<1> DEFINE m == req[t].memory
           v == NextVersion(m, "active", mem[m].text)
<1>1. m \in Memory
  BY ReqType, OpType DEF Restore, Op
<1>2. Write(m, v) /\ entries' = [entries EXCEPT ![m] = @ \cup {Ready(v.version, v.text)}]
  BY DEF Restore
<1>3. "active" \in Status /\ mem[m].text \in SUBSET Fact
  BY <1>1, MemType DEF Status
<1>4. v \in Version /\ v.version = mem[m].version + 1 /\ v.status = "active"
      /\ v.text = mem[m].text
  BY <1>1, <1>3, NextVersionType
<1> HIDE DEF v
<1>5. QED
  BY <1>1, <1>2, <1>4

\* A rebuild of the full-text index writes to one memory, and what it leaves
\* there counts as right only if all is stale but its own entry, which has the
\* text of the memory.
LEMMA RebuildWrites ==
  ASSUME TypeOK, NEW t \in Thread, Rebuild(t)
  PROVE  /\ req[t].memory \in Memory
         /\ \E E \in SUBSET Entry :
              /\ entries' = [entries EXCEPT ![req[t].memory] = E]
              /\ misbuilt' = misbuilt \cup {req[t].memory}
                 \/ /\ misbuilt' = misbuilt \ {req[t].memory}
                    /\ \A e \in E : e.state = "ready" => e.text = mem[req[t].memory].text
                    /\ \E e \in E : e.state = "ready"
<1> DEFINE m == req[t].memory
           number == req[t].seen.version
           new == {e \in entries[m] : e.version \notin req[t].indexed}
           lost == \E e \in new : e.version = number
<1>1. m \in Memory /\ number \in Nat
  BY ReqType, OpType DEF Rebuild, Op, Version
<1>2. PICK late \in SUBSET new, T \in SUBSET Fact :
        LET marked == late \cup {[e EXCEPT !.state = "stale"] : e \in entries[m] \ late} IN
          /\ entries' = [entries EXCEPT ![m] =
               IF lost THEN marked
               ELSE {e \in marked : e.version # number} \cup {Ready(number, T)}]
          /\ misbuilt' = IF late = {} /\ ~lost /\ T = mem[m].text
                           THEN misbuilt \ {m} ELSE misbuilt \cup {m}
  BY DEF Rebuild
<1> DEFINE marked == late \cup {[e EXCEPT !.state = "stale"] : e \in entries[m] \ late}
           E == IF lost THEN marked
                ELSE {e \in marked : e.version # number} \cup {Ready(number, T)}
<1>3. marked \in SUBSET (entries[m] \cup Stale(m))
  BY DEF Stale
<1>4. late = {} => marked \in SUBSET Stale(m)
  BY DEF Stale
<1>5. entries[m] \in SUBSET Entry /\ Stale(m) \in SUBSET Entry
  BY <1>1, StaleType DEF TypeOK
<1>6. /\ Ready(number, T) \in Entry /\ Ready(number, T).text = T
      /\ Ready(number, T).state = "ready"
  BY <1>1, ReadyType
<1>7. entries' = [entries EXCEPT ![m] = E]
  BY <1>2
<1> HIDE DEF marked, lost, number, new
<1>8. E \in SUBSET Entry
  BY <1>3, <1>5, <1>6
<1>9. CASE late = {} /\ ~lost /\ T = mem[m].text
  <2>1. misbuilt' = misbuilt \ {m}
    BY <1>2, <1>9
  <2>2. E = {e \in marked : e.version # number} \cup {Ready(number, T)}
    BY <1>9
  <2>3. \A e \in marked : e.state = "stale"
    BY <1>1, <1>4, <1>9, StaleType
  <2>4. \A e \in E : e.state = "ready" => e.text = mem[m].text
    BY <1>6, <1>9, <2>2, <2>3
  <2>5. \E e \in E : e.state = "ready"
    BY <1>6, <2>2
  <2> HIDE DEF E
  <2>6. QED
    BY <1>1, <1>7, <1>8, <2>1, <2>4, <2>5
<1>10. CASE ~(late = {} /\ ~lost /\ T = mem[m].text)
  <2>1. misbuilt' = misbuilt \cup {m}
    BY <1>2, <1>10
  <2> HIDE DEF E
  <2>2. QED
    BY <1>1, <1>7, <1>8, <2>1
<1>11. QED
  BY <1>9, <1>10

----------------------------------------------------------------------------
(* Type correctness.                                                        *)

LEMMA TypeStep ==
  TypeOK /\ [Next]_vars => TypeOK'
<1> SUFFICES ASSUME TypeOK, [Next]_vars PROVE TypeOK'
  OBVIOUS
<1> USE MemoryAssumption DEF history, Ask
<1>0. /\ req \in [Thread -> {Idle} \cup Request]
      /\ asked \in 0..MaxRequests /\ MaxRequests \in Nat
      /\ reviewed \subseteq Memory /\ reworded \subseteq Memory /\ rewound \subseteq Memory
      /\ misbuilt \subseteq Memory /\ into \in [Memory -> Memory \cup {NoMemory}]
      /\ mem \in [Memory -> Version] /\ rows \in [Memory -> SUBSET Row]
      /\ entries \in [Memory -> SUBSET Entry]
  BY DEF TypeOK, Request
<1> DEFINE Data == /\ mem' \in [Memory -> Version] /\ rows' \in [Memory -> SUBSET Row]
                   /\ entries' \in [Memory -> SUBSET Entry] /\ misbuilt' \subseteq Memory
           Rest == /\ reviewed' \subseteq Memory /\ reworded' \subseteq Memory
                   /\ rewound' \subseteq Memory
                   /\ into' \in [Memory -> Memory \cup {NoMemory}]
           Calls == /\ req' \in [Thread -> {Idle} \cup Request]
                    /\ asked' \in 0..MaxRequests
<1>a. Data /\ Rest /\ Calls => TypeOK'
  BY DEF TypeOK, Request
<1> HIDE DEF Data, Rest, Calls
<1>1. ASSUME NEW m \in Memory, NEW s \in Live, Create(m, s) PROVE TypeOK'
  <2>1. PICK v \in Version : Write(m, v) /\ Reindex(m, v)
    BY <1>1, CreateWrites
  <2>2. Data
    BY <2>1, WriteType, ReindexType DEF Data
  <2>3. Rest /\ Calls
    BY <1>0, <1>1 DEF Create, Rest, Calls
  <2>4. QED
    BY <2>2, <2>3, <1>a
<1>2. ASSUME NEW m \in Memory, NEW e \in entries[m], RebuildEntry(m, e) PROVE TypeOK'
  <2>1. e.version \in Nat
    BY <1>0 DEF Entry
  <2>2. entries' \in [Memory -> SUBSET Entry]
    BY <1>0, <1>2, <2>1, ReadyType DEF RebuildEntry
  <2>3. misbuilt' \subseteq Memory
    BY <1>0, <1>2 DEF RebuildEntry, Misbuild
  <2>4. Data /\ Rest
    BY <1>0, <1>2, <2>2, <2>3 DEF RebuildEntry, Data, Rest
  <2>5. Calls
    BY <1>0, <1>2 DEF RebuildEntry, Calls
  <2>6. QED
    BY <2>4, <2>5, <1>a
<1>3. ASSUME NEW t \in Thread, NEW op \in Op, NEW m \in Memory, NEW c \in Memory,
             Read(t, op, m, c)
      PROVE  TypeOK'
  <2>0. Indexed(m) \in SUBSET Nat
    BY <1>0 DEF Indexed, Entry
  <2>1. [op |-> op, memory |-> m, other |-> c, seen |-> mem[m], also |-> Absent,
         indexed |-> IF op = "fts" THEN Indexed(m) ELSE {}] \in Request
    BY <1>0, <2>0 DEF Request, Absent, Version, Status
  <2>2. Calls
    BY <1>0, <1>3, <2>1 DEF Read, Calls
  <2>3. Data /\ Rest
    BY <1>0, <1>3 DEF Read, Data, Rest
  <2>4. QED
    BY <2>2, <2>3, <1>a
<1>4. ASSUME NEW t \in Thread, ReadOther(t) PROVE TypeOK'
  <2>1. req[t] \in Request /\ req[t].other \in Memory
    BY <1>4, ReqType, OpType DEF ReadOther, Op
  <2>2. [req[t] EXCEPT !.also = mem[req[t].other]] \in Request
    BY <1>0, <2>1 DEF Request
  <2>3. Calls
    BY <1>0, <1>4, <2>2 DEF ReadOther, Calls
  <2>4. Data /\ Rest
    BY <1>0, <1>4 DEF ReadOther, Data, Rest
  <2>5. QED
    BY <2>3, <2>4, <1>a
<1>5. ASSUME NEW t \in Thread, Edit(t) PROVE TypeOK'
  <2>1. PICK v \in Version : Write(req[t].memory, v) /\ Reindex(req[t].memory, v)
    BY <1>5, EditWrites
  <2>2. Data
    BY <1>5, <2>1, EditWrites, WriteType, ReindexType DEF Data
  <2>3. Calls
    BY <1>5, DoneType DEF Edit, Calls
  <2>4. Rest
    BY <1>0, <1>5 DEF Edit, Rest
  <2>5. QED
    BY <2>2, <2>3, <2>4, <1>a
<1>6. ASSUME NEW t \in Thread, Merge(t) PROVE TypeOK'
  <2>1. PICK v \in Version : Consume(req[t].memory, v, req[t].other)
    BY <1>6, MergeWrites
  <2>2. Data /\ into' \in [Memory -> Memory \cup {NoMemory}]
    BY <1>6, <2>1, MergeWrites, ConsumeType DEF Data
  <2>3. Calls
    BY <1>6, DoneType DEF Merge, Calls
  <2>4. Rest
    BY <1>0, <1>6, <2>2 DEF Merge, Rest
  <2>5. QED
    BY <2>2, <2>3, <2>4, <1>a
<1>7. ASSUME NEW t \in Thread, SmartMerge(t) PROVE TypeOK'
  <2>1. PICK v \in Version : Consume(req[t].memory, v, req[t].other)
    BY <1>7, SmartWrites
  <2>2. Data /\ into' \in [Memory -> Memory \cup {NoMemory}]
    BY <1>7, <2>1, SmartWrites, ConsumeType DEF Data
  <2>3. Calls
    BY <1>7, DoneType DEF SmartMerge, Calls
  <2>4. req[t].memory \in Memory
    BY <1>7, SmartWrites
  <2>5. Rest
    BY <1>0, <1>7, <2>2, <2>4 DEF SmartMerge, Rest
  <2>6. QED
    BY <2>2, <2>3, <2>5, <1>a
<1>8. ASSUME NEW t \in Thread, Expire(t) PROVE TypeOK'
  <2>1. PICK v \in Version : Write(req[t].memory, v)
    BY <1>8, ExpireWrites
  <2>2. mem' \in [Memory -> Version] /\ rows' \in [Memory -> SUBSET Row]
    BY <1>8, <2>1, ExpireWrites, WriteType
  <2>3. Stale(req[t].memory) \in SUBSET Entry
    BY <1>8, ExpireWrites, StaleType
  <2>4. entries' \in [Memory -> SUBSET Entry]
    BY <1>0, <1>8, <2>3 DEF Expire
  <2>5. misbuilt' \subseteq Memory
    BY <1>0, <1>8 DEF Expire
  <2>6. Calls
    BY <1>8, DoneType DEF Expire, Calls
  <2>7. Data /\ Rest
    BY <1>0, <1>8, <2>2, <2>4, <2>5 DEF Expire, Data, Rest
  <2>8. QED
    BY <2>6, <2>7, <1>a
<1>9. ASSUME NEW t \in Thread, Restore(t) PROVE TypeOK'
  <2>1. PICK v \in Version :
          /\ Write(req[t].memory, v)
          /\ entries' = [entries EXCEPT ![req[t].memory] = @ \cup {Ready(v.version, v.text)}]
    BY <1>9, RestoreWrites
  <2>2. mem' \in [Memory -> Version] /\ rows' \in [Memory -> SUBSET Row]
    BY <1>9, <2>1, RestoreWrites, WriteType
  <2>3. Ready(v.version, v.text) \in Entry /\ req[t].memory \in Memory
    BY <1>9, RestoreWrites, VersionReady
  <2>4. entries' \in [Memory -> SUBSET Entry]
    BY <1>0, <2>1, <2>3
  <2>5. Calls
    BY <1>9, DoneType DEF Restore, Calls
  <2>6. Data /\ Rest
    BY <1>0, <1>9, <2>2, <2>4 DEF Restore, Data, Rest
  <2>7. QED
    BY <2>5, <2>6, <1>a
<1>10. ASSUME NEW t \in Thread, Reinforce(t) PROVE TypeOK'
  <2> DEFINE m == req[t].memory
             next == mem[m].version + 1
             r == [version |-> next, status |-> "scores", text |-> {}]
  <2>1. m \in Memory
    BY <1>10, ReqType, OpType DEF Reinforce, Op
  <2>2. next \in Nat
    BY <2>1, MemType
  <2>3. r \in Row /\ [mem[m] EXCEPT !.version = next] \in Version
    BY <1>0, <2>1, <2>2 DEF Row, Version
  <2>4. mem' = [mem EXCEPT ![m].version = next] /\ rows' = [rows EXCEPT ![m] = @ \cup {r}]
    BY <1>10 DEF Reinforce
  <2> HIDE DEF r, next
  <2>5. mem' \in [Memory -> Version]
    BY <1>0, <2>1, <2>3, <2>4
  <2>6. rows' \in [Memory -> SUBSET Row]
    BY <1>0, <2>1, <2>3, <2>4
  <2>7. Calls
    BY <1>10, DoneType DEF Reinforce, Calls
  <2>8. Data /\ Rest
    BY <1>0, <1>10, <2>5, <2>6 DEF Reinforce, Data, Rest
  <2>9. QED
    BY <2>7, <2>8, <1>a
<1>11. ASSUME NEW t \in Thread, Rebuild(t) PROVE TypeOK'
  <2> DEFINE m == req[t].memory
  <2>1. m \in Memory
    BY <1>11, RebuildWrites
  <2>2. PICK E \in SUBSET Entry : entries' = [entries EXCEPT ![m] = E]
    BY <1>11, RebuildWrites
  <2>3. entries' \in [Memory -> SUBSET Entry]
    BY <1>0, <2>1, <2>2
  <2>4. misbuilt' \subseteq Memory
    BY <1>0, <1>11, <2>1, RebuildWrites
  <2>5. Calls
    BY <1>11, DoneType DEF Rebuild, Calls
  <2>6. Data /\ Rest
    BY <1>0, <1>11, <2>3, <2>4 DEF Rebuild, Data, Rest
  <2>7. QED
    BY <2>5, <2>6, <1>a
<1>12. ASSUME NEW t \in Thread, RebuildVector(t) PROVE TypeOK'
  <2>1. req[t].memory \in Memory /\ req[t].seen.version \in Nat
    BY <1>12, ReqType, OpType DEF RebuildVector, Op, Version
  <2>2. entries' \in [Memory -> SUBSET Entry]
    BY <1>0, <1>12, <2>1, ReadyType DEF RebuildVector
  <2>3. misbuilt' \subseteq Memory
    BY <1>0, <1>12, <2>1 DEF RebuildVector, Misbuild
  <2>4. Calls
    BY <1>12, DoneType DEF RebuildVector, Calls
  <2>5. Data /\ Rest
    BY <1>0, <1>12, <2>2, <2>3 DEF RebuildVector, Data, Rest
  <2>6. QED
    BY <2>4, <2>5, <1>a
<1>13. ASSUME NEW t \in Thread, Fail(t) PROVE TypeOK'
  <2>1. Calls
    BY <1>13, DoneType DEF Fail, Calls
  <2>2. Data /\ Rest
    BY <1>0, <1>13 DEF Fail, Data, Rest
  <2>3. QED
    BY <2>1, <2>2, <1>a
<1>14. ASSUME UNCHANGED vars PROVE TypeOK'
  BY <1>14 DEF TypeOK, vars
<1>15. QED
  BY <1>1, <1>2, <1>3, <1>4, <1>5, <1>6, <1>7, <1>8, <1>9, <1>10, <1>11, <1>12, <1>13, <1>14 DEF Next

----------------------------------------------------------------------------
(* The numbers.                                                             *)

\* A step leaves a memory alone, or logs its new version under a number that
\* no version had before.
Same(m) == mem'[m] = mem[m] /\ rows'[m] = rows[m] /\ (m \in rewound' <=> m \in rewound)

Scores(m, r) ==
  /\ r.status = "scores" /\ mem[m].status # "none"
  /\ mem'[m].status = mem[m].status /\ mem'[m].text = mem[m].text

Logged(m) ==
  /\ mem'[m].status # "none" /\ mem'[m].version > 0
  /\ m \in rewound => m \in rewound'
  /\ m \notin rewound' => mem[m].version <= mem'[m].version
  /\ \E r \in Row : /\ IsFree(m, r.version) /\ r.version = mem'[m].version
                    /\ rows'[m] = rows[m] \cup {r}
                    /\ r = mem'[m] \/ Scores(m, r)

LEMMA WriteLogs ==
  ASSUME TypeOK, NEW m \in Memory, NEW v \in Version, Write(m, v), v.status # "none",
         v.version > 0,
         \A n \in Memory : n \in rewound => n \in rewound',
         \A n \in Memory \ {m} : n \in rewound' => n \in rewound,
         m \notin rewound' => mem[m].version <= v.version
  PROVE  \A n \in Memory : Same(n) \/ Logged(n)
<1>1. ASSUME NEW n \in Memory, n # m PROVE Same(n)
  BY <1>1 DEF Write, TypeOK, Same
<1>2. mem'[m] = v /\ rows'[m] = rows[m] \cup {v} /\ IsFree(m, v.version) /\ v \in Row
  BY DEF Write, TypeOK, Version, Row
<1>3. Logged(m)
  BY <1>2 DEF Logged
<1>4. QED
  BY <1>1, <1>3

LEMMA ConsumeLogs ==
  ASSUME TypeOK, NEW m \in Memory, NEW c \in Memory, NEW v \in Version, Consume(m, v, c),
         m # c, v.status # "none", v.version > 0,
         \A n \in Memory : n \in rewound => n \in rewound',
         \A n \in Memory \ {m} : n \in rewound' => n \in rewound,
         m \notin rewound' => mem[m].version <= v.version
  PROVE  \A n \in Memory : Same(n) \/ Logged(n)
<1> DEFINE gone == NextVersion(c, "merged", mem[c].text)
<1>1. /\ gone \in Version /\ gone.version = mem[c].version + 1 /\ gone.status = "merged"
      /\ mem[c].version \in Nat
  BY NextVersionType, MemType DEF Status
<1>2. gone \in Row /\ v \in Row
  BY <1>1 DEF Version, Row
<1>3. /\ mem' = [mem EXCEPT ![m] = v, ![c] = gone]
      /\ rows' = [rows EXCEPT ![m] = @ \cup {v}, ![c] = @ \cup {gone}]
      /\ IsFree(m, v.version) /\ IsFree(c, gone.version)
  BY DEF Consume
<1> HIDE DEF gone
<1>4. ASSUME NEW n \in Memory, n # m, n # c PROVE Same(n)
  BY <1>3, <1>4 DEF TypeOK, Same
<1>5. mem'[m] = v /\ rows'[m] = rows[m] \cup {v}
  BY <1>3 DEF TypeOK
<1>6. Logged(m)
  BY <1>2, <1>3, <1>5 DEF Logged
<1>7. mem'[c] = gone /\ rows'[c] = rows[c] \cup {gone}
  BY <1>3 DEF TypeOK
<1>8. Logged(c)
  <2>1. gone.version > 0 /\ mem[c].version <= gone.version
    BY <1>1
  <2>2. \E r \in Row : /\ IsFree(c, r.version) /\ r.version = mem'[c].version
                       /\ rows'[c] = rows[c] \cup {r}
                       /\ r = mem'[c] \/ Scores(c, r)
    BY <1>2, <1>3, <1>7
  <2>3. mem'[c].status # "none" /\ mem'[c].version > 0 /\ mem[c].version <= mem'[c].version
    BY <1>1, <1>7, <2>1
  <2>4. QED
    BY <2>2, <2>3 DEF Logged
<1>9. QED
  BY <1>4, <1>6, <1>8

\* A memory that a request works on exists.
LEMMA ReadExists ==
  ASSUME TypeOK, Numbered, SeenInThePast, NEW t \in Thread, req[t] # Idle
  PROVE  /\ mem[req[t].memory].status # "none"
         /\ req[t].also # Absent => mem[req[t].other].status # "none"
BY ReqType DEF Numbered, SeenInThePast, OfThePast, HasRow

LEMMA StepLogs ==
  ASSUME TypeOK, Numbered, SeenInThePast, [Next]_vars
  PROVE  \A m \in Memory : Same(m) \/ Logged(m)
<1> DEFINE Goal == \A m \in Memory : Same(m) \/ Logged(m)
<1> USE DEF history
<1>1. ASSUME NEW m \in Memory, NEW s \in Live, Create(m, s) PROVE Goal
  <2>1. PICK v \in Version : /\ v.version = mem[m].version + 1 /\ v.status = s
                             /\ Write(m, v)
    BY <1>1, CreateWrites
  <2>2. v.status # "none" /\ v.version > 0 /\ mem[m].version <= v.version
    BY <2>1, MemType DEF Live
  <2>3. QED
    BY <1>1, <2>1, <2>2, WriteLogs DEF Create
<1>2. ASSUME NEW m \in Memory, NEW e \in entries[m], RebuildEntry(m, e) PROVE Goal
  BY <1>2 DEF RebuildEntry, Same
<1>3. ASSUME NEW t \in Thread, NEW op \in Op, NEW m \in Memory, NEW c \in Memory,
             Read(t, op, m, c)
      PROVE  Goal
  BY <1>3 DEF Read, Same
<1>4. ASSUME NEW t \in Thread, ReadOther(t) PROVE Goal
  BY <1>4 DEF ReadOther, Same
<1>5. ASSUME NEW t \in Thread, Edit(t) PROVE Goal
  <2> DEFINE m == req[t].memory
  <2>1. m \in Memory
    BY <1>5, EditWrites
  <2>2. PICK v \in Version : /\ v.version = mem[m].version + 1 /\ v.status = mem[m].status
                             /\ Write(m, v)
    BY <1>5, EditWrites
  <2>3. mem[m].status # "none"
    BY <1>5, ReadExists, OpType DEF Edit, Op
  <2>4. v.version > 0 /\ mem[m].version <= v.version
    BY <2>1, <2>2, MemType
  <2> HIDE DEF m
  <2>5. QED
    BY <1>5, <2>1, <2>2, <2>3, <2>4, WriteLogs DEF Edit
<1>6. ASSUME NEW t \in Thread, Merge(t) PROVE Goal
  <2> DEFINE m == req[t].memory
             c == req[t].other
  <2>1. m \in Memory /\ c \in Memory
    BY <1>6, MergeWrites
  <2>2. PICK v \in Version : /\ v.version = mem[m].version + 1 /\ v.status = mem[m].status
                             /\ Consume(m, v, c)
    BY <1>6, MergeWrites
  <2>3. mem[m].status # "none" /\ m # c
    BY <1>6, ReadExists, OpType DEF Merge, Op, SeenInThePast
  <2>4. v.version > 0 /\ mem[m].version <= v.version
    BY <2>1, <2>2, MemType
  <2>5. UNCHANGED rewound
    BY <1>6 DEF Merge
  <2> HIDE DEF m, c
  <2>6. QED
    BY <2>1, <2>2, <2>3, <2>4, <2>5, ConsumeLogs
<1>7. ASSUME NEW t \in Thread, SmartMerge(t) PROVE Goal
  <2> DEFINE m == req[t].memory
             c == req[t].other
  <2>1. m \in Memory /\ c \in Memory /\ req[t].seen \in Version
    BY <1>7, SmartWrites, ReqType, OpType DEF SmartMerge, Op
  <2>2. PICK v \in Version : /\ v.version = req[t].seen.version + 2
                             /\ v.status = mem[m].status /\ Consume(m, v, c)
    BY <1>7, SmartWrites
  <2>3. mem[m].status # "none" /\ m # c
    BY <1>7, ReadExists, OpType DEF SmartMerge, Op, SeenInThePast
  <2>4. v.version > 0
    BY <2>1, <2>2 DEF Version
  <2>5. rewound' = IF v.version < mem[m].version THEN rewound \cup {m} ELSE rewound
    BY <1>7, <2>2 DEF SmartMerge
  <2>6. mem[m].version \in Nat /\ v.version \in Nat
    BY <2>1, MemType DEF Version
  <2> HIDE DEF m, c
  <2>7. m \notin rewound' => mem[m].version <= v.version
    BY <2>5, <2>6
  <2>8. /\ \A n \in Memory : n \in rewound => n \in rewound'
        /\ \A n \in Memory \ {m} : n \in rewound' => n \in rewound
    BY <2>5
  <2>9. QED
    BY <2>1, <2>2, <2>3, <2>4, <2>7, <2>8, ConsumeLogs
<1>8. ASSUME NEW t \in Thread, Expire(t) PROVE Goal
  <2> DEFINE m == req[t].memory
  <2>1. m \in Memory
    BY <1>8, ExpireWrites
  <2>2. PICK v \in Version : /\ v.version = mem[m].version + 1
                             /\ v.status = (IF req[t].op = "expire" THEN "expired"
                                            ELSE "deleted")
                             /\ Write(m, v)
    BY <1>8, ExpireWrites
  <2>3. v.status # "none" /\ v.version > 0 /\ mem[m].version <= v.version
    BY <2>1, <2>2, MemType
  <2>4. UNCHANGED rewound
    BY <1>8 DEF Expire
  <2> HIDE DEF m
  <2>5. QED
    BY <2>1, <2>2, <2>3, <2>4, WriteLogs
<1>9. ASSUME NEW t \in Thread, Restore(t) PROVE Goal
  <2> DEFINE m == req[t].memory
  <2>1. m \in Memory
    BY <1>9, RestoreWrites
  <2>2. PICK v \in Version : /\ v.version = mem[m].version + 1 /\ v.status = "active"
                             /\ Write(m, v)
    BY <1>9, RestoreWrites
  <2>3. v.version > 0 /\ mem[m].version <= v.version
    BY <2>1, <2>2, MemType
  <2>4. UNCHANGED rewound
    BY <1>9 DEF Restore
  <2> HIDE DEF m
  <2>5. QED
    BY <2>1, <2>2, <2>3, <2>4, WriteLogs
<1>10. ASSUME NEW t \in Thread, Reinforce(t) PROVE Goal
  <2> DEFINE m == req[t].memory
             next == mem[m].version + 1
             r == [version |-> next, status |-> "scores", text |-> {}]
  <2>1. m \in Memory
    BY <1>10, ReqType, OpType DEF Reinforce, Op
  <2>2. mem[m] \in Version /\ mem[m].version \in Nat
    BY <2>1, MemType
  <2>3. mem[m].status # "none"
    BY <1>10, ReadExists, OpType DEF Reinforce, Op
  <2>4. /\ r \in Row /\ r.version = next /\ r.status = "scores" /\ next > 0
        /\ mem[m].version <= next
    BY <2>2 DEF Row
  <2>5. /\ mem' = [mem EXCEPT ![m].version = next] /\ rows' = [rows EXCEPT ![m] = @ \cup {r}]
        /\ IsFree(m, next) /\ rewound' = rewound
    BY <1>10 DEF Reinforce
  <2> HIDE DEF r, next, m
  <2>6. /\ mem'[m].version = next /\ mem'[m].status = mem[m].status
        /\ mem'[m].text = mem[m].text
    BY <2>1, <2>2, <2>5 DEF TypeOK, Version
  <2>7. rows'[m] = rows[m] \cup {r}
    BY <2>1, <2>5 DEF TypeOK
  <2>8. Logged(m)
    BY <2>3, <2>4, <2>5, <2>6, <2>7 DEF Logged, Scores
  <2>9. ASSUME NEW n \in Memory, n # m PROVE Same(n)
    BY <2>5, <2>9 DEF TypeOK, Same
  <2>10. QED
    BY <2>8, <2>9
<1>11. ASSUME NEW t \in Thread, Rebuild(t) PROVE Goal
  BY <1>11 DEF Rebuild, Same
<1>12. ASSUME NEW t \in Thread, RebuildVector(t) \/ Fail(t) PROVE Goal
  BY <1>12 DEF RebuildVector, Fail, Same
<1>13. ASSUME UNCHANGED vars PROVE Goal
  BY <1>13 DEF vars, Same
<1> HIDE DEF Goal
<1>14. Goal
  BY <1>1, <1>2, <1>3, <1>4, <1>5, <1>6, <1>7, <1>8, <1>9, <1>10, <1>11, <1>12, <1>13 DEF Next
<1>15. QED
  BY <1>14 DEF Goal

LEMMA NumberedStep ==
  ASSUME TypeOK, Numbered, SeenInThePast, [Next]_vars
  PROVE  Numbered'
<1> SUFFICES ASSUME NEW m \in Memory
             PROVE  /\ mem'[m].status = "none" => mem'[m] = Absent /\ rows'[m] = {}
                    /\ mem'[m].status # "none" =>
                         mem'[m].version > 0 /\ \E r \in rows'[m] : r.version = mem'[m].version
  BY DEF Numbered, HasRow
<1>1. CASE Same(m)
  BY <1>1 DEF Same, Numbered, HasRow
<1>2. CASE Logged(m)
  BY <1>2 DEF Logged
<1>3. QED
  BY <1>1, <1>2, StepLogs

LEMMA HistoryStep ==
  ASSUME TypeOK, TypeOK', Numbered, SeenInThePast, HistoryTellsTruth, [Next]_vars
  PROVE  HistoryTellsTruth'
<1> SUFFICES ASSUME NEW m \in Memory
             PROVE
    /\ \A q, r \in rows'[m] : q.version = r.version => q = r
    /\ m \notin rewound' => \A r \in rows'[m] : r.version <= mem'[m].version
    /\ m \notin rewound' /\ mem'[m] # Absent =>
         \E r \in rows'[m] :
           /\ r.status = mem'[m].status /\ r.text = mem'[m].text
           /\ \A q \in rows'[m] : q.version > r.version => q.status = "scores"
  BY DEF HistoryTellsTruth
<1>1. CASE Same(m)
  BY <1>1 DEF Same, HistoryTellsTruth
<1>2. CASE Logged(m)
  <2>1. PICK r \in Row : /\ IsFree(m, r.version) /\ r.version = mem'[m].version
                         /\ rows'[m] = rows[m] \cup {r}
                         /\ r = mem'[m] \/ Scores(m, r)
    BY <1>2 DEF Logged
  <2>2. /\ \A q \in rows[m] : q.version \in Nat
        /\ mem[m].version \in Nat /\ mem'[m].version \in Nat
    BY DEF TypeOK, Row, Version
  <2>3. \A p, q \in rows'[m] : p.version = q.version => p = q
    BY <2>1 DEF IsFree, HistoryTellsTruth
  <2>4. m \notin rewound' => \A q \in rows'[m] : q.version <= mem'[m].version
    BY <1>2, <2>1, <2>2 DEF Logged, HistoryTellsTruth
  <2>5. ASSUME m \notin rewound'
        PROVE  \E p \in rows'[m] :
                 /\ p.status = mem'[m].status /\ p.text = mem'[m].text
                 /\ \A q \in rows'[m] : q.version > p.version => q.status = "scores"
    <3>1. CASE r = mem'[m]
      <4>1. \A q \in rows'[m] : ~(q.version > r.version)
        BY <2>1, <2>2, <2>4, <2>5
      <4>2. QED
        BY <2>1, <3>1, <4>1
    <3>2. CASE Scores(m, r)
      <4>1. mem[m] # Absent /\ m \notin rewound
        BY <1>2, <2>5, <3>2 DEF Scores, Absent, Logged
      <4>2. PICK p \in rows[m] :
              /\ p.status = mem[m].status /\ p.text = mem[m].text
              /\ \A q \in rows[m] : q.version > p.version => q.status = "scores"
        BY <4>1 DEF HistoryTellsTruth
      <4>3. p \in rows'[m] /\ p.status = mem'[m].status /\ p.text = mem'[m].text
        BY <2>1, <3>2, <4>2 DEF Scores
      <4>4. \A q \in rows'[m] : q.version > p.version => q.status = "scores"
        BY <2>1, <3>2, <4>2 DEF Scores
      <4>5. QED
        BY <4>3, <4>4
    <3>3. QED
      BY <2>1, <3>1, <3>2
  <2>6. QED
    BY <2>3, <2>4, <2>5
<1>3. QED
  BY <1>1, <1>2, StepLogs

----------------------------------------------------------------------------
(* The reads.                                                               *)

\* What was read stays in the past: a new number is never one that was read.
PastNext(m, seen) ==
  /\ seen # Absent /\ \E r \in rows'[m] : r.version = seen.version
  /\ mem'[m].version = seen.version => mem'[m] = seen

LEMMA PastStays ==
  ASSUME TypeOK, NEW m \in Memory, NEW seen \in Version, OfThePast(m, seen),
         Same(m) \/ Logged(m)
  PROVE  PastNext(m, seen)
<1>1. CASE Same(m)
  BY <1>1 DEF Same, OfThePast, HasRow, Current, PastNext
<1>2. CASE Logged(m)
  BY <1>2 DEF Logged, IsFree, OfThePast, HasRow, Current, PastNext
<1>3. QED
  BY <1>1, <1>2

\* A request that has read what it needs and is still on its way.
Fine(q) == q # Idle =>
  /\ OfThePast(q.memory, q.seen)
  /\ Serves(q.op, q.seen.status)
  /\ q.op \in {"merge", "smart"} <=> q.memory # q.other
  /\ q.also # Absent => OfThePast(q.other, q.also)

FineNext(q) == q # Idle =>
  /\ PastNext(q.memory, q.seen)
  /\ Serves(q.op, q.seen.status)
  /\ q.op \in {"merge", "smart"} <=> q.memory # q.other
  /\ q.also # Absent => PastNext(q.other, q.also)

LEMMA FineStays ==
  ASSUME TypeOK, NEW q \in {Idle} \cup Request, Fine(q),
         \A m \in Memory : Same(m) \/ Logged(m)
  PROVE  FineNext(q)
<1>1. CASE q = Idle
  BY <1>1 DEF FineNext
<1>2. CASE q # Idle
  <2>1. q.memory \in Memory /\ q.other \in Memory /\ q.seen \in Version /\ q.also \in Version
    BY <1>2 DEF Request
  <2>2. PastNext(q.memory, q.seen)
    BY <1>2, <2>1, PastStays DEF Fine
  <2>3. q.also # Absent => PastNext(q.other, q.also)
    BY <1>2, <2>1, PastStays DEF Fine
  <2>4. QED
    BY <1>2, <2>2, <2>3 DEF Fine, FineNext
<1>3. QED
  BY <1>1, <1>2

LEMMA SeenStep ==
  ASSUME TypeOK, Numbered, SeenInThePast, [Next]_vars
  PROVE  SeenInThePast'
<1> USE DEF history
<1> SUFFICES ASSUME NEW t \in Thread PROVE FineNext(req'[t])
  BY DEF SeenInThePast, FineNext, PastNext, OfThePast, HasRow, Current
<1>1. req \in [Thread -> {Idle} \cup Request]
  BY DEF TypeOK, Request
<1>2. Fine(req[t])
  BY DEF SeenInThePast, Fine
<1>3. FineNext(req[t])
  BY <1>1, <1>2, FineStays, StepLogs
<1>4. FineNext(Idle)
  BY DEF FineNext
<1>5. ASSUME NEW u \in Thread, NEW op \in Op, NEW m \in Memory, NEW c \in Memory,
             Read(u, op, m, c)
      PROVE  FineNext(req'[t])
  <2> DEFINE q == [op |-> op, memory |-> m, other |-> c, seen |-> mem[m], also |-> Absent,
                   indexed |-> IF op = "fts" THEN Indexed(m) ELSE {}]
  <2>1. CASE t # u
    BY <1>1, <1>3, <1>5, <2>1 DEF Read
  <2>2. CASE t = u
    <3>1. req'[t] = q
      BY <1>1, <1>5, <2>2 DEF Read
    <3>2. mem'[m] = mem[m] /\ rows'[m] = rows[m] /\ mem[m] # Absent
      BY <1>5 DEF Read
    <3>3. PastNext(m, mem[m])
      BY <3>2 DEF PastNext, Numbered, HasRow
    <3>4. Serves(op, mem[m].status) /\ (op \in {"merge", "smart"} <=> c # m)
      BY <1>5 DEF Read
    <3>5. FineNext(q)
      BY <3>3, <3>4 DEF FineNext
    <3>6. QED
      BY <3>1, <3>5
  <2>3. QED
    BY <2>1, <2>2
<1>6. ASSUME NEW u \in Thread, ReadOther(u) PROVE FineNext(req'[t])
  <2> DEFINE c == req[u].other
  <2>1. CASE t # u
    BY <1>1, <1>3, <1>6, <2>1 DEF ReadOther
  <2>2. CASE t = u
    <3>1. req[t] \in Request /\ c \in Memory /\ req[t] # Idle
      BY <1>6, <2>2, ReqType, OpType DEF ReadOther, Op
    <3>2. req'[t] = [req[t] EXCEPT !.also = mem[c]]
      BY <1>1, <1>6, <2>2 DEF ReadOther
    <3>3. /\ req'[t].memory = req[t].memory /\ req'[t].other = c
          /\ req'[t].seen = req[t].seen /\ req'[t].op = req[t].op /\ req'[t].also = mem[c]
      BY <2>2, <3>1, <3>2 DEF Request
    <3>4. mem'[c] = mem[c] /\ rows'[c] = rows[c] /\ mem[c].status \in Live
      BY <1>6 DEF ReadOther
    <3>5. PastNext(c, mem[c])
      BY <3>1, <3>4 DEF PastNext, Numbered, HasRow, Live, Absent
    <3>6. req[t].other = c
      BY <2>2
    <3> HIDE DEF c
    <3>7. QED
      BY <1>3, <3>1, <3>3, <3>5, <3>6 DEF FineNext
  <2>3. QED
    BY <2>1, <2>2
<1>7. ASSUME NEW u \in Thread, Done(u) PROVE FineNext(req'[t])
  BY <1>1, <1>3, <1>4, <1>7 DEF Done
<1>8. ASSUME UNCHANGED req PROVE FineNext(req'[t])
  BY <1>3, <1>8
<1>9. CASE UNCHANGED vars
  BY <1>8, <1>9 DEF vars
<1>10. ASSUME NEW m \in Memory,
              (\E s \in Live : Create(m, s)) \/ \E e \in entries[m] : RebuildEntry(m, e)
       PROVE  UNCHANGED req
  BY <1>10 DEF Create, RebuildEntry
<1>11. ASSUME NEW u \in Thread,
              \/ Edit(u) \/ Merge(u) \/ SmartMerge(u) \/ Expire(u) \/ Restore(u)
              \/ Reinforce(u) \/ Rebuild(u) \/ RebuildVector(u) \/ Fail(u)
       PROVE  Done(u)
  BY <1>11 DEF Edit, Merge, SmartMerge, Expire, Restore, Reinforce, Rebuild, RebuildVector, Fail
<1>12. CASE Next
  BY <1>5, <1>6, <1>7, <1>8, <1>10, <1>11, <1>12 DEF Next
<1>13. QED
  BY <1>9, <1>12

----------------------------------------------------------------------------
(* Circles of merged memories.                                              *)

\* Only a merge makes a memory "merged", and only it writes into; the survivor
\* is not merged.
Absorbs(m, c) ==
  /\ m # c /\ mem'[m].status # "merged" /\ mem'[c].status = "merged"
  /\ into' = [into EXCEPT ![c] = m]
  /\ \A n \in Memory \ {m, c} : mem'[n] = mem[n]

Quiet ==
  /\ into' = into
  /\ \A n \in Memory : mem'[n].status = "merged" => mem[n].status = "merged"

LEMMA ConsumeAbsorbs ==
  ASSUME TypeOK, NEW m \in Memory, NEW c \in Memory, NEW v \in Version, Consume(m, v, c),
         m # c, v.status \in Live
  PROVE  Absorbs(m, c)
<1> DEFINE gone == NextVersion(c, "merged", mem[c].text)
<1>1. gone.status = "merged"
  BY NextVersionType, MemType DEF Status
<1>2. mem' = [mem EXCEPT ![m] = v, ![c] = gone] /\ into' = [into EXCEPT ![c] = m]
  BY DEF Consume
<1> HIDE DEF gone
<1>3. /\ mem'[m] = v /\ mem'[c] = gone
      /\ \A n \in Memory \ {m, c} : mem'[n] = mem[n]
  BY <1>2 DEF TypeOK
<1>4. QED
  BY <1>1, <1>2, <1>3 DEF Absorbs, Live

LEMMA WriteIsQuiet ==
  ASSUME TypeOK, NEW m \in Memory, NEW v \in Version, Write(m, v), UNCHANGED into,
         v.status = "merged" => mem[m].status = "merged"
  PROVE  Quiet
BY DEF TypeOK, Write, Quiet

\* A merge that goes through has read the survivor as it is, so it is live.
LEMMA SurvivorLive ==
  ASSUME TypeOK, SeenInThePast, NEW t \in Thread, Merge(t)
  PROVE  /\ mem[req[t].memory] = req[t].seen /\ mem[req[t].memory].status \in Live
         /\ mem[req[t].other] = req[t].also /\ req[t].memory # req[t].other
<1>1. req[t] # Idle /\ req[t].op = "merge" /\ req[t].also # Absent
  BY OpType DEF Merge, Op
<1>2. Current(req[t].memory, req[t].seen) /\ Current(req[t].other, req[t].also)
  BY DEF Merge, Fits
<1>3. QED
  BY <1>1, <1>2 DEF SeenInThePast, OfThePast, Serves

LEMMA StepMerges ==
  ASSUME TypeOK, Numbered, SeenInThePast, [Next]_vars
  PROVE  Quiet \/ \E m, c \in Memory : Absorbs(m, c)
<1> DEFINE Goal == Quiet \/ \E m, c \in Memory : Absorbs(m, c)
<1> USE DEF history
<1>1. ASSUME NEW m \in Memory, NEW s \in Live, Create(m, s) PROVE Goal
  <2>1. PICK v \in Version : v.status = s /\ Write(m, v)
    BY <1>1, CreateWrites
  <2>2. QED
    BY <1>1, <2>1, WriteIsQuiet DEF Create, Live
<1>2. ASSUME NEW m \in Memory, NEW e \in entries[m], RebuildEntry(m, e) PROVE Goal
  BY <1>2 DEF RebuildEntry, Quiet
<1>3. ASSUME NEW t \in Thread, NEW op \in Op, NEW m \in Memory, NEW c \in Memory,
             Read(t, op, m, c)
      PROVE  Goal
  BY <1>3 DEF Read, Quiet
<1>4. ASSUME NEW t \in Thread, ReadOther(t) \/ Rebuild(t) \/ RebuildVector(t) \/ Fail(t) PROVE Goal
  BY <1>4 DEF ReadOther, Rebuild, RebuildVector, Fail, Quiet
<1>5. ASSUME NEW t \in Thread, Edit(t) PROVE Goal
  <2>1. PICK v \in Version : v.status = mem[req[t].memory].status /\ Write(req[t].memory, v)
    BY <1>5, EditWrites
  <2>2. QED
    BY <1>5, <2>1, EditWrites, WriteIsQuiet DEF Edit
<1>6. ASSUME NEW t \in Thread, Merge(t) PROVE Goal
  <2>1. PICK v \in Version : /\ v.status = mem[req[t].memory].status
                             /\ Consume(req[t].memory, v, req[t].other)
    BY <1>6, MergeWrites
  <2>2. QED
    BY <1>6, <2>1, MergeWrites, SurvivorLive, ConsumeAbsorbs
<1>7. ASSUME NEW t \in Thread, SmartMerge(t) PROVE Goal
  <2>1. PICK v \in Version : /\ v.status = mem[req[t].memory].status
                             /\ Consume(req[t].memory, v, req[t].other)
    BY <1>7, SmartWrites
  <2>2. req[t].memory # req[t].other /\ mem[req[t].memory].status \in Live
    BY <1>7, OpType DEF SmartMerge, Op, SeenInThePast
  <2>3. QED
    BY <1>7, <2>1, <2>2, SmartWrites, ConsumeAbsorbs
<1>8. ASSUME NEW t \in Thread, Expire(t) PROVE Goal
  <2>1. PICK v \in Version : /\ v.status = (IF req[t].op = "expire" THEN "expired" ELSE "deleted")
                             /\ Write(req[t].memory, v)
    BY <1>8, ExpireWrites
  <2>2. QED
    BY <1>8, <2>1, ExpireWrites, WriteIsQuiet DEF Expire
<1>9. ASSUME NEW t \in Thread, Restore(t) PROVE Goal
  <2>1. PICK v \in Version : v.status = "active" /\ Write(req[t].memory, v)
    BY <1>9, RestoreWrites
  <2>2. QED
    BY <1>9, <2>1, RestoreWrites, WriteIsQuiet DEF Restore
<1>10. ASSUME NEW t \in Thread, Reinforce(t) PROVE Goal
  <2>1. \A n \in Memory : mem'[n].status = mem[n].status
    BY <1>10 DEF Reinforce, TypeOK, Version
  <2>2. QED
    BY <1>10, <2>1 DEF Reinforce, Quiet
<1>11. ASSUME UNCHANGED vars PROVE Goal
  BY <1>11 DEF vars, Quiet
<1> HIDE DEF Goal
<1>12. Goal
  BY <1>1, <1>2, <1>3, <1>4, <1>5, <1>6, <1>7, <1>8, <1>9, <1>10, <1>11 DEF Next
<1>13. QED
  BY <1>12 DEF Goal

LEMMA CycleStep ==
  ASSUME TypeOK, Numbered, SeenInThePast, NoMergeCycle, [Next]_vars
  PROVE  NoMergeCycle'
<1> SUFFICES ASSUME NEW S \in SUBSET {m \in Memory : mem'[m].status = "merged"}, S # {}
             PROVE  \E m \in S : into'[m] \notin S
  BY DEF NoMergeCycle
<1>1. CASE Quiet
  <2>1. S \in SUBSET {m \in Memory : mem[m].status = "merged"}
    BY <1>1 DEF Quiet
  <2>2. QED
    BY <1>1, <2>1 DEF Quiet, NoMergeCycle
<1>2. ASSUME NEW m \in Memory, NEW c \in Memory, Absorbs(m, c)
      PROVE  \E n \in S : into'[n] \notin S
  <2>1. m \notin S /\ into'[c] = m
    BY <1>2 DEF Absorbs, TypeOK
  <2>2. CASE c \in S
    BY <2>1, <2>2
  <2>3. CASE c \notin S
    <3>1. S \in SUBSET {n \in Memory : mem[n].status = "merged"}
      BY <1>2, <2>1, <2>3 DEF Absorbs
    <3>2. \A n \in S : into'[n] = into[n]
      BY <1>2, <2>3 DEF Absorbs, TypeOK
    <3>3. QED
      BY <3>1, <3>2 DEF NoMergeCycle
  <2>4. QED
    BY <2>2, <2>3
<1>3. QED
  BY <1>1, <1>2, StepMerges

----------------------------------------------------------------------------
(* The theorems about the invariant.                                        *)

LEMMA InvInit == Init => IInv
<1> SUFFICES ASSUME Init PROVE IInv
  OBVIOUS
<1> USE MemoryAssumption DEF Init
<1>1. TypeOK
  BY DEF TypeOK, Version, Status, Absent
<1>2. Numbered
  BY DEF Numbered, Absent
<1>3. SeenInThePast /\ HistoryTellsTruth
  BY DEF SeenInThePast, HistoryTellsTruth
<1>4. NoMergeCycle
  BY DEF NoMergeCycle, Absent
<1>5. QED
  BY <1>1, <1>2, <1>3, <1>4 DEF IInv

LEMMA InvStep == IInv /\ [Next]_vars => IInv'
BY TypeStep, NumberedStep, SeenStep, HistoryStep, CycleStep DEF IInv

\* The invariant that all the other theorems rest on: types, numbers that are
\* used once, and what a request has read is of the past.
THEOREM MemoryInvariant == Spec => []IInv
BY InvInit, InvStep, PTL DEF Spec

\* The version rows tell what the memory says.
THEOREM HistoryIsTrue == Spec => []HistoryTellsTruth
<1>1. IInv => HistoryTellsTruth
  BY DEF IInv
<1>2. QED
  BY <1>1, MemoryInvariant, PTL

\* Crossing merges never make a circle.
THEOREM MergesEnd == Spec => []NoMergeCycle
<1>1. IInv => NoMergeCycle
  BY DEF IInv
<1>2. QED
  BY <1>1, MemoryInvariant, PTL

----------------------------------------------------------------------------
(* The index.                                                               *)

\* Whatever is marked stale or written anew agrees with the new version.
IndexOf(m) ==
  m \notin misbuilt =>
    /\ \A e \in entries[m] : e.state = "ready" => e.text = mem[m].text
    /\ mem[m].status \in Live => \E e \in entries[m] : e.state = "ready"

LEMMA ReindexIsCurrent ==
  ASSUME TypeOK, IndexIsCurrent, NEW m \in Memory, NEW v \in Version, Reindex(m, v),
         mem'[m] = v,
         \A n \in Memory \ {m} : /\ mem'[n].text = mem[n].text
                                 /\ mem'[n].status \in Live => mem[n].status \in Live
  PROVE  IndexIsCurrent'
<1>1. entries'[m] = Stale(m) \cup {Ready(v.version, v.text)}
  BY DEF Reindex, TypeOK
<1>2. IndexOf(m)'
  BY <1>1, StaleType, VersionReady DEF IndexOf
<1>3. ASSUME NEW n \in Memory, n # m PROVE IndexOf(n)'
  <2>1. entries'[n] = entries[n] /\ (n \in misbuilt' <=> n \in misbuilt)
    BY <1>3 DEF Reindex, TypeOK
  <2>2. /\ mem'[n].text = mem[n].text
        /\ mem'[n].status \in Live => mem[n].status \in Live
    BY <1>3
  <2>3. IndexOf(n)
    BY DEF IndexIsCurrent, IndexOf
  <2>4. QED
    BY <2>1, <2>2, <2>3 DEF IndexOf
<1>4. QED
  BY <1>2, <1>3 DEF IndexIsCurrent, IndexOf

LEMMA ConsumeIsCurrent ==
  ASSUME TypeOK, IndexIsCurrent, NEW m \in Memory, NEW c \in Memory, NEW v \in Version,
         Consume(m, v, c), m # c
  PROVE  IndexIsCurrent'
<1> DEFINE gone == NextVersion(c, "merged", mem[c].text)
<1>1. gone.status = "merged" /\ gone.text = mem[c].text
  BY NextVersionType, MemType DEF Status
<1>2. mem' = [mem EXCEPT ![m] = v, ![c] = gone] /\ Reindex(m, v)
  BY DEF Consume
<1> HIDE DEF gone
<1>3. /\ mem'[m] = v /\ mem'[c] = gone
      /\ \A n \in Memory \ {m, c} : mem'[n] = mem[n]
  BY <1>2 DEF TypeOK
<1>4. \A n \in Memory \ {m} : /\ mem'[n].text = mem[n].text
                              /\ mem'[n].status \in Live => mem[n].status \in Live
  BY <1>1, <1>3 DEF Live
<1>5. QED
  BY <1>2, <1>3, <1>4, ReindexIsCurrent

LEMMA WriteIsCurrent ==
  ASSUME TypeOK, IndexIsCurrent, NEW m \in Memory, NEW v \in Version,
         Write(m, v), Reindex(m, v)
  PROVE  IndexIsCurrent'
<1>1. mem'[m] = v /\ \A n \in Memory \ {m} : mem'[n] = mem[n]
  BY DEF Write, TypeOK
<1>2. QED
  BY <1>1, ReindexIsCurrent

LEMMA IndexStep ==
  ASSUME TypeOK, SeenInThePast, IndexIsCurrent, [Next]_vars
  PROVE  IndexIsCurrent'
<1> USE DEF history
<1>1. ASSUME NEW m \in Memory, NEW s \in Live, Create(m, s) PROVE IndexIsCurrent'
  BY <1>1, CreateWrites, WriteIsCurrent
<1>2. ASSUME NEW m \in Memory, NEW e \in entries[m], RebuildEntry(m, e)
      PROVE  IndexIsCurrent'
  <2>1. PICK T \in SUBSET Fact :
          /\ entries' = [entries EXCEPT ![m] = (@ \ {e}) \cup {Ready(e.version, T)}]
          /\ misbuilt' = IF T = mem[m].text THEN misbuilt ELSE misbuilt \cup {m}
    BY <1>2 DEF RebuildEntry, Misbuild
  <2>2. mem' = mem /\ e.version \in Nat
    BY <1>2 DEF RebuildEntry, TypeOK, Entry
  <2>3. entries'[m] = (entries[m] \ {e}) \cup {Ready(e.version, T)}
    BY <2>1 DEF TypeOK
  <2>5. IndexOf(m)'
    BY <2>1, <2>2, <2>3, ReadyType DEF IndexIsCurrent, IndexOf
  <2>6. ASSUME NEW n \in Memory, n # m PROVE IndexOf(n)'
    BY <2>1, <2>2, <2>6 DEF TypeOK, IndexIsCurrent, IndexOf
  <2>7. QED
    BY <2>5, <2>6 DEF IndexIsCurrent, IndexOf
<1>3. ASSUME NEW t \in Thread, NEW op \in Op, NEW m \in Memory, NEW c \in Memory,
             Read(t, op, m, c)
      PROVE  IndexIsCurrent'
  BY <1>3 DEF Read, IndexIsCurrent
<1>4. ASSUME NEW t \in Thread, ReadOther(t) \/ Fail(t) PROVE IndexIsCurrent'
  BY <1>4 DEF ReadOther, Fail, IndexIsCurrent
<1>5. ASSUME NEW t \in Thread, Edit(t) PROVE IndexIsCurrent'
  BY <1>5, EditWrites, WriteIsCurrent
<1>6. ASSUME NEW t \in Thread, Merge(t) PROVE IndexIsCurrent'
  BY <1>6, MergeWrites, SurvivorLive, ConsumeIsCurrent
<1>7. ASSUME NEW t \in Thread, SmartMerge(t) PROVE IndexIsCurrent'
  <2>1. req[t].memory # req[t].other
    BY <1>7, OpType DEF SmartMerge, Op, SeenInThePast
  <2>2. QED
    BY <1>7, <2>1, SmartWrites, ConsumeIsCurrent
<1>8. ASSUME NEW t \in Thread, Expire(t) PROVE IndexIsCurrent'
  <2>1. PICK m \in Memory : m = req[t].memory
    BY <1>8, ExpireWrites
  <2>2. PICK v \in Version : /\ v.status = (IF req[t].op = "expire" THEN "expired" ELSE "deleted")
                             /\ Write(m, v)
    BY <1>8, <2>1, ExpireWrites
  <2>3. /\ entries' = [entries EXCEPT ![m] = Stale(m)] /\ misbuilt' = misbuilt \ {m}
    BY <1>8, <2>1 DEF Expire
  <2>4. /\ mem'[m] = v /\ v.status \notin Live
        /\ \A n \in Memory \ {m} : mem'[n] = mem[n]
    BY <2>1, <2>2 DEF Write, TypeOK, Live
  <2>5. IndexOf(m)'
    BY <2>1, <2>3, <2>4, StaleType DEF IndexOf, TypeOK
  <2>6. ASSUME NEW n \in Memory, n # m PROVE IndexOf(n)'
    BY <2>3, <2>4, <2>6 DEF IndexIsCurrent, IndexOf, TypeOK
  <2>7. QED
    BY <2>5, <2>6 DEF IndexIsCurrent, IndexOf
<1>9. ASSUME NEW t \in Thread, Restore(t) PROVE IndexIsCurrent'
  <2>1. PICK m \in Memory : m = req[t].memory
    BY <1>9, RestoreWrites
  <2>2. PICK v \in Version :
          /\ v.text = mem[m].text /\ Write(m, v)
          /\ entries' = [entries EXCEPT ![m] = @ \cup {Ready(v.version, v.text)}]
    BY <1>9, <2>1, RestoreWrites
  <2>3. misbuilt' = misbuilt
    BY <1>9 DEF Restore
  <2>4. mem'[m] = v /\ \A n \in Memory \ {m} : mem'[n] = mem[n]
    BY <2>1, <2>2 DEF Write, TypeOK
  <2>5. entries'[m] = entries[m] \cup {Ready(v.version, v.text)}
    BY <2>1, <2>2 DEF TypeOK
  <2>6. IndexOf(m)'
    BY <2>1, <2>2, <2>3, <2>4, <2>5, VersionReady DEF IndexOf, IndexIsCurrent
  <2>7. ASSUME NEW n \in Memory, n # m PROVE IndexOf(n)'
    BY <2>2, <2>3, <2>4, <2>7 DEF IndexIsCurrent, IndexOf, TypeOK
  <2>8. QED
    BY <2>6, <2>7 DEF IndexIsCurrent, IndexOf
<1>10. ASSUME NEW t \in Thread, Reinforce(t) PROVE IndexIsCurrent'
  <2>1. \A n \in Memory : mem'[n].status = mem[n].status /\ mem'[n].text = mem[n].text
    BY <1>10 DEF Reinforce, TypeOK, Version
  <2>2. entries' = entries /\ misbuilt' = misbuilt
    BY <1>10 DEF Reinforce
  <2>3. QED
    BY <2>1, <2>2 DEF IndexIsCurrent
<1>11. ASSUME NEW t \in Thread, Rebuild(t) PROVE IndexIsCurrent'
  <2>1. PICK m \in Memory, E \in SUBSET Entry :
          /\ entries' = [entries EXCEPT ![m] = E]
          /\ misbuilt' = misbuilt \cup {m}
             \/ /\ misbuilt' = misbuilt \ {m}
                /\ \A e \in E : e.state = "ready" => e.text = mem[m].text
                /\ \E e \in E : e.state = "ready"
    BY <1>11, RebuildWrites
  <2>2. mem' = mem
    BY <1>11 DEF Rebuild
  <2>3. entries'[m] = E
    BY <2>1 DEF TypeOK
  <2>4. IndexOf(m)'
    BY <2>1, <2>2, <2>3 DEF IndexOf
  <2>5. ASSUME NEW n \in Memory, n # m PROVE IndexOf(n)'
    BY <2>1, <2>2, <2>5 DEF IndexIsCurrent, IndexOf, TypeOK
  <2>6. QED
    BY <2>4, <2>5 DEF IndexIsCurrent, IndexOf
<1>12. ASSUME NEW t \in Thread, RebuildVector(t) PROVE IndexIsCurrent'
  <2>1. PICK m \in Memory, number \in Nat :
          m = req[t].memory /\ number = req[t].seen.version
    BY <1>12, ReqType, OpType DEF RebuildVector, Op, Version
  <2>2. PICK T \in SUBSET Fact :
          /\ entries' = [entries EXCEPT ![m] = @ \cup {Ready(number, T)}]
          /\ misbuilt' = IF T = mem[m].text THEN misbuilt ELSE misbuilt \cup {m}
    BY <1>12, <2>1 DEF RebuildVector, Misbuild
  <2>3. mem' = mem
    BY <1>12 DEF RebuildVector
  <2>4. entries'[m] = entries[m] \cup {Ready(number, T)}
    BY <2>1, <2>2 DEF TypeOK
  <2>5. IndexOf(m)'
    BY <2>1, <2>2, <2>3, <2>4, ReadyType DEF IndexOf, IndexIsCurrent
  <2>6. ASSUME NEW n \in Memory, n # m PROVE IndexOf(n)'
    BY <2>2, <2>3, <2>6 DEF IndexIsCurrent, IndexOf, TypeOK
  <2>7. QED
    BY <2>5, <2>6 DEF IndexIsCurrent, IndexOf
<1>13. ASSUME UNCHANGED vars PROVE IndexIsCurrent'
  BY <1>13 DEF vars, IndexIsCurrent
<1>14. QED
  BY <1>1, <1>2, <1>3, <1>4, <1>5, <1>6, <1>7, <1>8, <1>9, <1>10, <1>11, <1>12, <1>13 DEF Next

\* The index of a live memory finds it by what it says now and by nothing else,
\* whatever edits, merges, changes of status and rebuilds race, until a rebuild
\* writes another text or meets another writer; the next edit puts that right.
THEOREM IndexStaysCurrent == Spec => []IndexIsCurrent
<1>1. Init => IndexIsCurrent
  BY DEF Init, IndexIsCurrent, Absent, Live
<1>2. IInv /\ IndexIsCurrent /\ [Next]_vars => IndexIsCurrent'
  BY IndexStep DEF IInv
<1>3. QED
  BY <1>1, <1>2, MemoryInvariant, PTL DEF Spec

----------------------------------------------------------------------------
(* Every request is atomic.                                                 *)

status == [m \in Memory |-> mem[m].status]
text == [m \in Memory |-> mem[m].text]

\* The steps that a user of the memories cannot see.
LEMMA Invisible ==
  ASSUME \A m \in Memory : mem'[m].status = mem[m].status /\ mem'[m].text = mem[m].text,
         UNCHANGED <<into, reworded>>
  PROVE  UNCHANGED Atomic!vars
BY DEF Atomic!vars

\* What writing a version does to statuses and texts.
LEMMA WriteMaps ==
  ASSUME TypeOK, NEW m \in Memory, NEW v \in Version, Write(m, v)
  PROVE  /\ status' = [status EXCEPT ![m] = v.status]
         /\ text' = [text EXCEPT ![m] = v.text]
BY DEF TypeOK, Write, status, text

LEMMA ConsumeMaps ==
  ASSUME TypeOK, NEW m \in Memory, NEW c \in Memory, NEW v \in Version, Consume(m, v, c),
         m # c, v.status = mem[m].status
  PROVE  /\ status' = [status EXCEPT ![c] = "merged"]
         /\ text' = [text EXCEPT ![m] = v.text]
         /\ into' = [into EXCEPT ![c] = m]
         /\ mem[c].status \in Live
<1> DEFINE gone == NextVersion(c, "merged", mem[c].text)
<1>1. gone.status = "merged" /\ gone.text = mem[c].text
  BY NextVersionType, MemType DEF Status
<1>2. /\ mem' = [mem EXCEPT ![m] = v, ![c] = gone] /\ into' = [into EXCEPT ![c] = m]
      /\ mem[c].status \in Live
  BY DEF Consume
<1> HIDE DEF gone
<1>3. /\ mem'[m] = v /\ mem'[c] = gone
      /\ \A n \in Memory \ {m, c} : mem'[n] = mem[n]
  BY <1>2 DEF TypeOK
<1>4. status' = [status EXCEPT ![c] = "merged"]
  BY <1>1, <1>3 DEF status
<1>5. text' = [text EXCEPT ![m] = v.text]
  BY <1>1, <1>3 DEF text
<1>6. QED
  BY <1>2, <1>4, <1>5

LEMMA AtomicInit == Init => Atomic!Init
BY DEF Init, Atomic!Init, Absent

LEMMA AtomicStep ==
  ASSUME IInv, [Next]_vars
  PROVE  [Atomic!Next]_(Atomic!vars)
<1> DEFINE Goal == [Atomic!Next]_(Atomic!vars)
<1>0. TypeOK /\ Numbered /\ SeenInThePast
  BY DEF IInv
<1> USE DEF history
<1>a. ASSUME \A m \in Memory : mem'[m].status = mem[m].status /\ mem'[m].text = mem[m].text,
             UNCHANGED <<into, reworded>>
      PROVE  Goal
  BY <1>a, Invisible
<1>b. \A m \in Memory : status[m] = mem[m].status /\ text[m] = mem[m].text
  BY DEF status, text
<1>1. ASSUME NEW m \in Memory, NEW s \in Live, Create(m, s) PROVE Goal
  <2>1. PICK v \in Version : v.status = s /\ Write(m, v)
    BY <1>0, <1>1, CreateWrites
  <2>2. mem[m] = Absent /\ UNCHANGED <<into, reworded>>
    BY <1>1 DEF Create
  <2>3. v.text \in SUBSET Fact
    BY DEF Version
  <2>4. status' = [status EXCEPT ![m] = s] /\ text' = [text EXCEPT ![m] = v.text]
    BY <1>0, <2>1, WriteMaps
  <2>5. status[m] = "none" /\ s \in Atomic!Live
    BY <2>2 DEF Absent, status, Atomic!Live, Live
  <2>6. Atomic!New(m)
    BY <2>2, <2>3, <2>4, <2>5 DEF Atomic!New, status, text
  <2>7. QED
    BY <2>6 DEF Atomic!Next
<1>2. ASSUME NEW m \in Memory, NEW e \in entries[m], RebuildEntry(m, e) PROVE Goal
  BY <1>2, <1>a DEF RebuildEntry
<1>3. ASSUME NEW t \in Thread, NEW op \in Op, NEW m \in Memory, NEW c \in Memory,
             Read(t, op, m, c)
      PROVE  Goal
  BY <1>3, <1>a DEF Read
<1>4. ASSUME NEW t \in Thread, ReadOther(t) \/ Rebuild(t) \/ RebuildVector(t) \/ Fail(t) PROVE Goal
  BY <1>4, <1>a DEF ReadOther, Rebuild, RebuildVector, Fail
<1>5. ASSUME NEW t \in Thread, Edit(t) PROVE Goal
  <2>1. PICK m \in Memory : m = req[t].memory
    BY <1>0, <1>5, EditWrites
  <2>2. PICK v \in Version : v.status = mem[m].status /\ Write(m, v)
    BY <1>0, <1>5, <2>1, EditWrites
  <2>3. mem[m].status # "none" /\ v.text \in SUBSET Fact
    BY <1>0, <1>5, <2>1, ReadExists, OpType DEF Edit, Op, Version
  <2>4. status' = status /\ text' = [text EXCEPT ![m] = v.text]
    <3>1. /\ status' = [status EXCEPT ![m] = v.status]
          /\ text' = [text EXCEPT ![m] = v.text]
      BY <1>0, <2>2, WriteMaps
    <3>2. [status EXCEPT ![m] = v.status] = status
      BY <2>2 DEF status
    <3>3. QED
      BY <3>1, <3>2
  <2>5. UNCHANGED <<into, reworded>>
    BY <1>5 DEF Edit
  <2>6. Atomic!Edit(m)
    BY <2>3, <2>4, <2>5 DEF Atomic!Edit, status, text
  <2>7. QED
    BY <2>6 DEF Atomic!Next
<1>6. ASSUME NEW t \in Thread, Merge(t) PROVE Goal
  <2>1. PICK m \in Memory, c \in Memory : m = req[t].memory /\ c = req[t].other
    BY <1>0, <1>6, MergeWrites
  <2>2. PICK v \in Version : /\ v.status = mem[m].status
                             /\ v.text = req[t].seen.text \cup req[t].also.text
                             /\ Consume(m, v, c)
    BY <1>0, <1>6, <2>1, MergeWrites
  <2>3. /\ mem[m] = req[t].seen /\ mem[c] = req[t].also
        /\ mem[m].status \in Live /\ m # c
    BY <1>0, <1>6, <2>1, SurvivorLive
  <2>4. /\ status' = [status EXCEPT ![c] = "merged"] /\ text' = [text EXCEPT ![m] = v.text]
        /\ into' = [into EXCEPT ![c] = m] /\ mem[c].status \in Live
    BY <1>0, <2>2, <2>3, ConsumeMaps
  <2>5. v.text = mem[m].text \cup mem[c].text
    BY <2>2, <2>3
  <2>6. text' = [text EXCEPT ![m] = @ \cup text[c]]
    BY <1>b, <2>4, <2>5 DEF text
  <2>7. reworded' = reworded
    BY <1>6 DEF Merge
  <2>8. Atomic!Absorb(m, c)
    BY <2>3, <2>4, <2>6, <2>7 DEF Atomic!Absorb, Atomic!Live, Live, status, text
  <2>9. QED
    BY <2>8 DEF Atomic!Next
<1>7. ASSUME NEW t \in Thread, SmartMerge(t) PROVE Goal
  <2>1. PICK m \in Memory, c \in Memory : m = req[t].memory /\ c = req[t].other
    BY <1>0, <1>7, SmartWrites
  <2>2. PICK v \in Version, T \in SUBSET Fact :
          /\ v.status = mem[m].status /\ v.text = T \cup mem[c].text
          /\ Consume(m, v, c)
    BY <1>0, <1>7, <2>1, SmartWrites
  <2>3. m # c /\ mem[m].status \in Live
    BY <1>0, <1>7, <2>1, OpType DEF SmartMerge, Op, SeenInThePast
  <2>4. /\ status' = [status EXCEPT ![c] = "merged"] /\ text' = [text EXCEPT ![m] = v.text]
        /\ into' = [into EXCEPT ![c] = m] /\ mem[c].status \in Live
    BY <1>0, <2>2, <2>3, ConsumeMaps
  <2>5. text' = [text EXCEPT ![m] = T \cup text[c]]
    BY <1>b, <2>2, <2>4
  <2>6. reworded' = reworded \cup {m}
    BY <1>7, <2>1 DEF SmartMerge
  <2>7. Atomic!Reword(m, c)
    BY <2>3, <2>4, <2>5, <2>6 DEF Atomic!Reword, Atomic!Live, Live, status, text
  <2>8. QED
    BY <2>7 DEF Atomic!Next
<1>8. ASSUME NEW t \in Thread, Expire(t) PROVE Goal
  <2>1. PICK m \in Memory : m = req[t].memory
    BY <1>0, <1>8, ExpireWrites
  <2>2. PICK v \in Version : /\ v.status = (IF req[t].op = "expire" THEN "expired" ELSE "deleted")
                             /\ v.text = mem[m].text /\ Write(m, v)
    BY <1>0, <1>8, <2>1, ExpireWrites
  <2>3. /\ req[t].op \in {"expire", "delete"} /\ req[t] # Idle
        /\ mem[m].status = req[t].seen.status
        /\ UNCHANGED <<into, reworded>>
    BY <1>0, <1>8, <2>1, OpType DEF Expire, Op
  <2>4. Serves(req[t].op, mem[m].status)
    BY <1>0, <2>3 DEF SeenInThePast
  <2>5. mem[m].status # "none"
    BY <1>0, <2>1, <2>3, ReadExists
  <2>6. status' = [status EXCEPT ![m] = v.status] /\ text' = text
    <3>1. /\ status' = [status EXCEPT ![m] = v.status]
          /\ text' = [text EXCEPT ![m] = v.text]
      BY <1>0, <2>2, WriteMaps
    <3>2. [text EXCEPT ![m] = v.text] = text
      BY <2>2 DEF text
    <3>3. QED
      BY <2>2, <3>1, <3>2
  <2>7. Atomic!Move(m)
    <3>1. CASE req[t].op = "expire"
      BY <1>b, <2>2, <2>3, <2>4, <2>6, <3>1 DEF Serves, Atomic!Move, status, text
    <3>2. CASE req[t].op = "delete"
      BY <1>b, <2>2, <2>3, <2>4, <2>5, <2>6, <3>2 DEF Serves, Atomic!Move, status, text
    <3>3. QED
      BY <2>3, <3>1, <3>2
  <2>8. QED
    BY <2>7 DEF Atomic!Next
<1>9. ASSUME NEW t \in Thread, Restore(t) PROVE Goal
  <2>1. PICK m \in Memory : m = req[t].memory
    BY <1>0, <1>9, RestoreWrites
  <2>2. PICK v \in Version : v.status = "active" /\ v.text = mem[m].text /\ Write(m, v)
    BY <1>0, <1>9, <2>1, RestoreWrites
  <2>3. /\ req[t].op = "restore" /\ req[t] # Idle /\ mem[m].status = req[t].seen.status
        /\ UNCHANGED <<into, reworded>>
    BY <1>0, <1>9, <2>1, OpType DEF Restore, Op
  <2>4. mem[m].status \in {"expired", "deleted"}
    BY <1>0, <2>3 DEF SeenInThePast, Serves
  <2>5. status' = [status EXCEPT ![m] = "active"] /\ text' = text
    <3>1. /\ status' = [status EXCEPT ![m] = v.status]
          /\ text' = [text EXCEPT ![m] = v.text]
      BY <1>0, <2>2, WriteMaps
    <3>2. [text EXCEPT ![m] = v.text] = text
      BY <2>2 DEF text
    <3>3. QED
      BY <2>2, <3>1, <3>2
  <2>6. Atomic!Move(m)
    BY <1>b, <2>3, <2>4, <2>5 DEF Atomic!Move, status, text
  <2>7. QED
    BY <2>6 DEF Atomic!Next
<1>10. ASSUME NEW t \in Thread, Reinforce(t) PROVE Goal
  <2>1. \A n \in Memory : mem'[n].status = mem[n].status /\ mem'[n].text = mem[n].text
    BY <1>0, <1>10 DEF Reinforce, TypeOK, Version
  <2>2. QED
    BY <1>10, <2>1, <1>a DEF Reinforce
<1>11. ASSUME UNCHANGED vars PROVE Goal
  BY <1>11, <1>a DEF vars
<1> HIDE DEF Goal
<1>12. Goal
  BY <1>1, <1>2, <1>3, <1>4, <1>5, <1>6, <1>7, <1>8, <1>9, <1>10, <1>11 DEF Next
<1>13. QED
  BY <1>12 DEF Goal

\* What the requests do, seen from outside, is what they would do one at a time
\* on the memories as they are: no merge works with an old text, and no status
\* is left that has been left before.
THEOREM RequestsAreOneStep == Spec => RequestsAreAtomic
<1>1. IInv /\ [Next]_vars => [Atomic!Next]_(Atomic!vars)
  BY AtomicStep
<1>2. QED
  BY <1>1, AtomicInit, MemoryInvariant, PTL DEF Spec, RequestsAreAtomic, Atomic!Spec

=============================================================================

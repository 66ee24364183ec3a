----------------------------- MODULE AtomicMemory -----------------------------
(***************************************************************************)
(* What the memories promise their users: every request that succeeds has  *)
(* done its whole work at one moment, on the memories as they were then.   *)
(* Versions, version rows, the index and the reading before the writing    *)
(* are not visible here.                                                   *)
(***************************************************************************)
EXTENDS Integers

CONSTANTS Memory, NoMemory, Fact

VARIABLES
  status,    \* memories.status
  text,      \* the facts in memories.memory_text
  into,      \* where a merged memory went
  reworded   \* history: memories whose text a smart merge has replaced

vars == <<status, text, into, reworded>>

Live == {"draft", "active"}

Init ==
  /\ status = [m \in Memory |-> "none"]
  /\ text = [m \in Memory |-> {}]
  /\ into = [m \in Memory |-> NoMemory]
  /\ reworded = {}

\* A new memory, drafted by hand or activated from a candidate.
New(m) ==
  /\ status[m] = "none"
  /\ \E s \in Live : status' = [status EXCEPT ![m] = s]
  /\ \E T \in SUBSET Fact : text' = [text EXCEPT ![m] = T]
  /\ UNCHANGED <<into, reworded>>

Edit(m) ==
  /\ status[m] # "none"
  /\ \E T \in SUBSET Fact : text' = [text EXCEPT ![m] = T]
  /\ UNCHANGED <<status, into, reworded>>

\* The consumed memory c ends up in m, and m keeps what it said.
Absorb(m, c) ==
  /\ m # c /\ status[m] \in Live /\ status[c] \in Live
  /\ text' = [text EXCEPT ![m] = @ \cup text[c]]
  /\ status' = [status EXCEPT ![c] = "merged"]
  /\ into' = [into EXCEPT ![c] = m]
  /\ UNCHANGED reworded

\* The same with a new text for m.
Reword(m, c) ==
  /\ m # c /\ status[m] \in Live /\ status[c] \in Live
  /\ \E T \in SUBSET Fact : text' = [text EXCEPT ![m] = T \cup text[c]]
  /\ status' = [status EXCEPT ![c] = "merged"]
  /\ into' = [into EXCEPT ![c] = m]
  /\ reworded' = reworded \cup {m}

Move(m) ==
  /\ \/ status[m] = "active" /\ status' = [status EXCEPT ![m] = "expired"]
     \/ /\ status[m] \in {"expired", "deleted"}
        /\ status' = [status EXCEPT ![m] = "active"]
     \/ /\ status[m] \notin {"none", "deleted"}
        /\ status' = [status EXCEPT ![m] = "deleted"]
  /\ UNCHANGED <<text, into, reworded>>

Next ==
  \E m \in Memory :
    \/ New(m) \/ Edit(m) \/ Move(m)
    \/ \E c \in Memory : Absorb(m, c) \/ Reword(m, c)

Spec == Init /\ [][Next]_vars

=============================================================================

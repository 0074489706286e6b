------------------------------- MODULE Queue --------------------------------
(***************************************************************************)
(* The kernel's queues as sequences: what the procedures of list.s do to   *)
(* the order of the nodes of a list.  The executive is modelled with these *)
(* operators; module Lists shows that the links implement them.            *)
(***************************************************************************)
EXTENDS Naturals, FiniteSets, SequencesExt

\* A queue in order of priority.
Sorted(q, pri) == \A i, j \in DOMAIN q : i < j => pri[q[i]] >= pri[q[j]]

\* Mutant of TailInsertNode: in front of the nodes of its own priority.
TailInsertNode_InFront(q, pri, t) ==
  InsertAt(q, 1 + Cardinality({i \in DOMAIN q : pri[q[i]] > pri[t]}), t)

\* TailInsertNode: behind the last node whose priority is at least t's.
TailInsertNode(q, pri, t) ==
  LET behind == {i \in DOMAIN q : pri[q[i]] >= pri[t]}
      place  == CHOOSE i \in 0..Len(q) :
                   /\ i = 0 \/ i \in behind
                   /\ \A j \in behind : j <= i
  IN  InsertAt(q, place + 1, t)

RemoveNode(q, t) == RemoveAt(q, CHOOSE i \in DOMAIN q : q[i] = t)

\* RemoveNode of the nodes of T, one after the other.
RemoveNodes(q, T) ==
  LET kept[i \in 0..Len(q)] ==
        IF i = 0 THEN <<>>
        ELSE IF q[i] \in T THEN kept[i - 1] ELSE Append(kept[i - 1], q[i])
  IN  kept[Len(q)]
=============================================================================

----------------------------- MODULE QueueSpec ------------------------------
(***************************************************************************)
(* What a list of the kernel promises: a sequence of nodes that every      *)
(* procedure of list.h changes as its documentation says.                  *)
(***************************************************************************)
EXTENDS Queue

CONSTANTS
  Node,       \* the nodes a program links
  Priority    \* the priorities it gives them

VARIABLES
  q,          \* the nodes of the list, from the head
  pri         \* n_Priority of every node

Free == Node \ ToSet(q)

Init == q = <<>> /\ pri \in [Node -> Priority]

AddHead(n) == n \in Free /\ q' = <<n>> \o q /\ UNCHANGED pri

AddTail(n) == n \in Free /\ q' = Append(q, n) /\ UNCHANGED pri

InsertNodeFromTail(n) ==
  n \in Free /\ q' = TailInsertNode(q, pri, n) /\ UNCHANGED pri

\* Immediately after all nodes whose priority is higher.
InsertNodeFromHead(n) ==
  /\ n \in Free
  /\ LET higher == {i \in DOMAIN q : \A j \in 1..i : pri[q[j]] > pri[n]}
     IN  q' = InsertAt(q, Cardinality(higher) + 1, n)
  /\ UNCHANGED pri

RemHead == q # <<>> /\ q' = Tail(q) /\ UNCHANGED pri

RemTail == q # <<>> /\ q' = Front(q) /\ UNCHANGED pri

RemNode(n) == n \in ToSet(q) /\ q' = RemoveNode(q, n) /\ UNCHANGED pri

SetNodePri(n, p) ==
  /\ n \in ToSet(q)
  /\ pri' = [pri EXCEPT ![n] = p]
  /\ q' = TailInsertNode(RemoveNode(q, n), pri', n)

Next ==
  \/ RemHead
  \/ RemTail
  \/ \E n \in Node : \/ AddHead(n) \/ AddTail(n) \/ RemNode(n)
                     \/ InsertNodeFromTail(n) \/ InsertNodeFromHead(n)
                     \/ \E p \in Priority : SetNodePri(n, p)

Spec == Init /\ [][Next]_<<q, pri>>
=============================================================================

------------------------------- MODULE Links --------------------------------
(***************************************************************************)
(* Doubly linked lists, as the words of memory that list.s and             *)
(* listmacros.h read and write.  A list l has two anchor cells that share  *)
(* a word of zero; the links are the n_Next and n_Prev of every cell.      *)
(***************************************************************************)
EXTENDS Naturals, FiniteSets, Sequences

CONSTANT Nil   \* the null pointer

HeadOf(l) == <<"head", l>>
TailOf(l) == <<"tail", l>>

\* The links of a set of empty lists, and of nodes that are on none.
EmptyLinks(lists, nodes) ==
  LET anchors == {HeadOf(l) : l \in lists} \cup {TailOf(l) : l \in lists}
      at(c, side) == IF c \in anchors /\ c[1] = side
                     THEN IF side = "head" THEN TailOf(c[2]) ELSE HeadOf(c[2])
                     ELSE Nil
  IN  [n_Next |-> [c \in anchors \cup nodes |-> at(c, "head")],
       n_Prev |-> [c \in anchors \cup nodes |-> at(c, "tail")]]

FirstNode(L, l) == L.n_Next[HeadOf(l)]

LastNode(L, l) == L.n_Prev[TailOf(l)]

IsEmptyList(L, l) == FirstNode(L, l) = TailOf(l)

\* The cells met on the way from one anchor to the other, at most max of them.
Walk(step, from, to, max) ==
  LET at[i \in 0..max] == IF i = 0 THEN step[from]
                          ELSE IF at[i - 1] = to THEN to ELSE step[at[i - 1]]
  IN  [i \in 1..Cardinality({j \in 0..(max - 1) : at[j] # to}) |-> at[i - 1]]

\* The nodes of the list, from the head and from the tail.
Forward(L, l, max) == Walk(L.n_Next, HeadOf(l), TailOf(l), max)

Backward(L, l, max) == Walk(L.n_Prev, TailOf(l), HeadOf(l), max)

-----------------------------------------------------------------------------
(* The procedures *)

LinkBefore(L, cell, n) ==
  LET before == L.n_Prev[cell]
  IN  [n_Next |-> [L.n_Next EXCEPT ![n] = cell, ![before] = n],
       n_Prev |-> [L.n_Prev EXCEPT ![n] = before, ![cell] = n]]

AddHead(L, l, n) == LinkBefore(L, FirstNode(L, l), n)

AddTail(L, l, n) == LinkBefore(L, TailOf(l), n)

\* RemHead leaves the links of the node it returns alone.
RemHead(L, l) ==
  LET second == L.n_Next[FirstNode(L, l)]
  IN  [n_Next |-> [L.n_Next EXCEPT ![HeadOf(l)] = second],
       n_Prev |-> [L.n_Prev EXCEPT ![second] = HeadOf(l)]]

RemTail(L, l) ==
  LET newlast == L.n_Prev[LastNode(L, l)]
  IN  [n_Next |-> [L.n_Next EXCEPT ![newlast] = TailOf(l)],
       n_Prev |-> [L.n_Prev EXCEPT ![TailOf(l)] = newlast]]

\* The macro: joins the neighbours the node remembers.
REMOVENODE(L, n) ==
  [n_Next |-> [L.n_Next EXCEPT ![L.n_Prev[n]] = L.n_Next[n]],
   n_Prev |-> [L.n_Prev EXCEPT ![L.n_Next[n]] = L.n_Prev[n]]]

\* The procedure: clears n_Next, and does nothing when it is clear.
RemNode(L, n) ==
  IF L.n_Next[n] = Nil THEN L
  ELSE LET J == REMOVENODE(L, n) IN [J EXCEPT !.n_Next[n] = Nil]

\* The first cell of a walk that is good, or else.
FirstGood(walk, good, else) ==
  LET found == {i \in DOMAIN walk : walk[i] \in good} IN
  IF found = {} THEN else
  ELSE walk[CHOOSE i \in found : \A j \in found : i <= j]

\* Mutant of InsertNodeFromTail: stops at a strictly more urgent node.
InsertNodeFromTail_Strict(L, l, pri, n, nodes) ==
  LET after == FirstGood(Backward(L, l, Cardinality(nodes)),
                         {c \in nodes : pri[c] > pri[n]}, HeadOf(l))
  IN  LinkBefore(L, L.n_Next[after], n)

\* TailInsertNode: from the tail, the first node at least as urgent.
InsertNodeFromTail(L, l, pri, n, nodes) ==
  LET after == FirstGood(Backward(L, l, Cardinality(nodes)),
                         {c \in nodes : pri[c] >= pri[n]}, HeadOf(l))
  IN  LinkBefore(L, L.n_Next[after], n)

\* InsertNodeFromHead: from the head, the first node no more urgent; it
\* branches to AddHead when it meets the tail anchor.
InsertNodeFromHead(L, l, pri, n, nodes) ==
  LET at == FirstGood(Forward(L, l, Cardinality(nodes)),
                      {c \in nodes : pri[c] <= pri[n]}, FirstNode(L, l))
  IN  LinkBefore(L, at, n)
=============================================================================

------------------------------- MODULE Lists --------------------------------
(***************************************************************************)
(* A program that uses one list of the kernel: the procedures of list.s,   *)
(* on the links, implement the queues of QueueSpec.                        *)
(***************************************************************************)
EXTENDS Naturals, FiniteSets, Sequences

CONSTANTS
  Node, Priority, Nil,
  FromHeadBelow   \* InsertNodeFromHead is called for a node below all others

ASSUME ListAssumption ==
  /\ IsFiniteSet(Node) /\ Priority \subseteq Nat
  /\ Nil \notin Node /\ FromHeadBelow \in BOOLEAN
  /\ \A side \in {"head", "tail"} : <<side, "list">> \notin Node \cup {Nil}

VARIABLES
  links,          \* n_Next and n_Prev of the nodes and the anchors
  pri             \* n_Priority

listVars == <<links, pri>>

K == INSTANCE Links

l == "list"

Nodes == K!Forward(links, l, Cardinality(Node) + 1)

On == {Nodes[i] : i \in DOMAIN Nodes}

ListInit ==
  /\ links = K!EmptyLinks({l}, Node)
  /\ pri \in [Node -> Priority]

PutOn(n, L) == n \notin On /\ links' = L /\ UNCHANGED pri

TakeOff(L) == links' = L /\ UNCHANGED pri

AddHead(n) == PutOn(n, K!AddHead(links, l, n))

AddTail(n) == PutOn(n, K!AddTail(links, l, n))

InsertNodeFromTail(n) == PutOn(n, K!InsertNodeFromTail(links, l, pri, n, Node))

Lowest(n) == On # {} /\ \A m \in On : pri[m] > pri[n]

InsertNodeFromHead(n) ==
  /\ Lowest(n) => FromHeadBelow
  /\ PutOn(n, K!InsertNodeFromHead(links, l, pri, n, Node))

RemHead == ~K!IsEmptyList(links, l) /\ TakeOff(K!RemHead(links, l))

RemTail == ~K!IsEmptyList(links, l) /\ TakeOff(K!RemTail(links, l))

\* Of a node of the list, or again of one that RemNode removed before.
RemNode(n) ==
  /\ n \in On \/ links.n_Next[n] = Nil
  /\ TakeOff(K!RemNode(links, n))

SetNodePri(n, p) ==
  /\ n \in On
  /\ pri' = [pri EXCEPT ![n] = p]
  /\ links' = K!InsertNodeFromTail(K!REMOVENODE(links, n), l, pri', n, Node)

ListNext ==
  \/ RemHead
  \/ RemTail
  \/ \E n \in Node : \/ AddHead(n) \/ AddTail(n) \/ RemNode(n)
                     \/ InsertNodeFromTail(n) \/ InsertNodeFromHead(n)
                     \/ \E p \in Priority : SetNodePri(n, p)

ListSpec == ListInit /\ [][ListNext]_listVars

-----------------------------------------------------------------------------
(* Properties *)

\* The list is a queue, and every procedure does to it what its own
\* documentation says, not what another one would do; a second RemNode does
\* nothing.
Queue == INSTANCE QueueSpec WITH q <- Nodes

RefinesQueue ==
  /\ Queue!Spec
  /\ [][/\ RemHead => Queue!RemHead
        /\ RemTail => Queue!RemTail
        /\ \A n \in Node :
             /\ AddHead(n) => Queue!AddHead(n)
             /\ AddTail(n) => Queue!AddTail(n)
             /\ n \in On /\ RemNode(n) => Queue!RemNode(n)
             /\ InsertNodeFromTail(n) => Queue!InsertNodeFromTail(n)
             /\ InsertNodeFromHead(n) => Queue!InsertNodeFromHead(n)
             /\ \A p \in Priority : SetNodePri(n, p) => Queue!SetNodePri(n, p)]_listVars
=============================================================================

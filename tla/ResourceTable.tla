--------------------------- MODULE ResourceTable ----------------------------
(***************************************************************************)
(* The resource table of a task (item.c): the slots in which the kernel    *)
(* keeps the items that the task owns or has opened.  A free slot holds the*)
(* index of the next free one; here that chain is a sequence.              *)
(***************************************************************************)
EXTENDS Naturals, FiniteSets, SequencesExt

CONSTANTS
  FirstSlots,  \* the slots of a new table: 6
  MoreSlots    \* by how many it grows: 4

ASSUME TableAssumption ==
  FirstSlots \in Nat /\ MoreSlots \in Nat \ {0}

Entry(kind, item) == [kind |-> kind, item |-> item]

\* What a slot holds while it is free, or taken for an item to come.
NoEntry == Entry("none", 0)

EmptyTable == [slot |-> <<>>, free |-> <<>>]

IncreaseResourceTable(table, increase) ==
  LET n == Len(table.slot)
  IN  [slot |-> table.slot \o [i \in 1..increase |-> NoEntry],
       free |-> [i \in 1..increase |-> n + i] \o table.free]

WithRoom(table) ==
  IF table.free = <<>> THEN IncreaseResourceTable(table, MoreSlots) ELSE table

\* The slot that AllocItemSlot finds, and the table it leaves.
AllocItemSlot(table) == Head(WithRoom(table).free)

Allocated(table) == [WithRoom(table) EXCEPT !.free = Tail(@)]

Filled(table, entry) ==
  [Allocated(table) EXCEPT !.slot[AllocItemSlot(table)] = entry]

FreeItemSlot(table, i) ==
  [table EXCEPT !.slot[i] = NoEntry, !.free = <<i>> \o @]

\* The slots of T are freed, from the last to the first.
FreeItemSlots(table, T) ==
  LET n == Len(table.slot)
      freed[k \in 0..n] ==
        IF k = 0 THEN table
        ELSE LET i == n + 1 - k
             IN  IF i \in T THEN FreeItemSlot(freed[k - 1], i) ELSE freed[k - 1]
  IN  freed[n]

Slots(table, entry) == {i \in DOMAIN table.slot : table.slot[i] = entry}

\* The first slot with the entry.
FindItemSlot(table, entry) ==
  CHOOSE i \in Slots(table, entry) : \A j \in Slots(table, entry) : i <= j

RemoveItem(table, entry) == FreeItemSlot(table, FindItemSlot(table, entry))
=============================================================================

--------------------------- MODULE SemaphoreSpec ----------------------------
(***************************************************************************)
(* What one semaphore promises: a lock that one task at a time owns, that  *)
(* its owner may take again, and that is handed to the tasks that wait in  *)
(* the order they came.  A task that waits leaves only when it gets the    *)
(* semaphore, when it is killed, or when the semaphore is deleted.         *)
(***************************************************************************)
EXTENDS Naturals, Sequences

CONSTANTS Task, NoTask

VARIABLES
  item,       \* the life of the semaphore's item
  owner,      \* the task that owns the semaphore, or NoTask
  nest,       \* how often it has locked it
  queue       \* the tasks that wait, the first first

vars == <<item, owner, nest, queue>>

Without(t) == SelectSeq(queue, LAMBDA u : u # t)

Init == item = "fresh" /\ owner = NoTask /\ nest = 0 /\ queue = <<>>

Create == item = "fresh" /\ item' = "made" /\ UNCHANGED <<owner, nest, queue>>

Lock(t) ==
  /\ item = "made" /\ owner = NoTask
  /\ owner' = t /\ nest' = 1
  /\ UNCHANGED <<item, queue>>

Nest ==
  /\ item = "made" /\ owner # NoTask
  /\ nest' = nest + 1
  /\ UNCHANGED <<item, owner, queue>>

Queue(t) ==
  /\ item = "made" /\ owner \notin {NoTask, t} /\ Without(t) = queue
  /\ queue' = Append(queue, t)
  /\ UNCHANGED <<item, owner, nest>>

Unnest ==
  /\ nest > 1
  /\ nest' = nest - 1
  /\ UNCHANGED <<item, owner, queue>>

\* The owner unlocks it for the last time, or dies: to the first that waits,
\* and free only when none does.
HandOver ==
  /\ owner # NoTask /\ queue # <<>>
  /\ owner' = Head(queue) /\ nest' = 1
  /\ queue' = Tail(queue)
  /\ UNCHANGED item

Release ==
  /\ owner # NoTask /\ queue = <<>>
  /\ owner' = NoTask /\ nest' = 0
  /\ UNCHANGED <<item, queue>>

Leave(t) ==
  /\ Without(t) # queue
  /\ queue' = Without(t)
  /\ UNCHANGED <<item, owner, nest>>

Delete ==
  /\ item = "made"
  /\ item' = "deleted" /\ owner' = NoTask /\ nest' = 0 /\ queue' = <<>>

Next ==
  \/ Create \/ Nest \/ Unnest \/ HandOver \/ Release \/ Delete
  \/ \E t \in Task : Lock(t) \/ Queue(t) \/ Leave(t)

Spec == Init /\ [][Next]_vars
=============================================================================

------------------------------ MODULE MCTasks -------------------------------
(***************************************************************************)
(* Small instances of Tasks for TLC.                                       *)
(***************************************************************************)
EXTENDS Tasks

CONSTANTS a, b, c, idle, s1, s2

\* a has two threads, b and c.
MCOwner == [t \in Task |-> IF t \in {b, c} THEN a ELSE NoTask]

\* a has the thread b, and b the thread c.
MCChain == [t \in Task |-> CASE t = b -> a [] t = c -> b [] OTHER -> NoTask]

MCInitPri == [t \in Task |-> IF t = idle THEN 1 ELSE 10]

\* c is created with a higher priority.
MCUrgent == [MCInitPri EXCEPT ![c] = 11]

MCCreator == [s \in Sem |-> IF s = s1 THEN a ELSE b]

MCKillThreads == {<<a, b>>, <<a, c>>}

\* a deletes b, b deletes c, and c ends by itself.
MCKillDown == {<<a, b>>, <<b, c>>, <<c, c>>}
=============================================================================

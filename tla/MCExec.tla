------------------------------- MODULE MCExec -------------------------------
(***************************************************************************)
(* Small instances of Exec for TLC.                                        *)
(***************************************************************************)
EXTENDS Exec

CONSTANTS a, b, c, idle

\* a is a super task and the owner of the threads b and c.
MCOwner == [t \in Task |-> IF t \in {b, c} THEN a ELSE NoTask]

MCInitPri == [t \in Task |-> IF t = idle THEN 1 ELSE 10]

\* The threads are alike.
MCSymmetry == Permutations({b, c})
=============================================================================

------------------------------- MODULE MCDisk -------------------------------
(***************************************************************************)
(* A small instance of DiskScheduler for TLC.                              *)
(***************************************************************************)
EXTENDS DiskScheduler

CONSTANTS r1, r2, hi, twin, single

\* hi is the urgent request.
MCPri == [r \in Request |-> IF r = hi THEN 2 ELSE 1]

\* twin has two copies, of which the first is damaged; single has one.
MCFileOf == [r \in Request |-> IF r = r1 THEN twin ELSE single]

MCLastAvatar == [x \in File |-> IF x = twin THEN 1 ELSE 0]

MCBad == {<<twin, 0>>}
=============================================================================

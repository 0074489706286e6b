------------------------------ MODULE MCLists -------------------------------
(***************************************************************************)
(* A small list for TLC.                                                   *)
(***************************************************************************)
EXTENDS Lists

CONSTANTS n1, n2, n3
=============================================================================

---------------------------- MODULE MCDemandLoad ----------------------------
(***************************************************************************)
(* A small instance of DemandLoad for TLC.                                 *)
(***************************************************************************)
EXTENDS DemandLoad

CONSTANTS a, b
=============================================================================

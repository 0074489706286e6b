------------------------------ MODULE MCAudio --------------------------------
(***************************************************************************)
(* A cue, and an envelope whose end stops its instrument.                  *)
(***************************************************************************)
EXTENDS AudioTimer

CONSTANTS c1, e1, none

MCCue == {c1}
MCEnv == {e1}
MCAuto == {e1}
MCFat == {e1}
=============================================================================

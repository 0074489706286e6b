------------------------------ MODULE MCEvents ------------------------------
(***************************************************************************)
(* A small instance of EventBroker for TLC.                                *)
(***************************************************************************)
EXTENDS EventBroker

CONSTANTS game, shell

Ask(category, triggers, max) ==
  [category |-> category, triggers |-> triggers, max |-> max]

\* The game listens with the focus, with a short queue; the shell listens without
\* it, or takes it.
MCAsks ==
  [p \in Port |->
     IF p = game THEN {Ask("FocusListener", Trigger \ {"ui", "portchange"}, 0)}
     ELSE {Ask(c, Trigger \ {"system"}, 0) : c \in {"FocusUI", "Observer"}}]

MCFrames == {{}, Event}
=============================================================================

------------------------------ MODULE MCPorts -------------------------------
(***************************************************************************)
(* Small instances of Ports for TLC.                                       *)
(***************************************************************************)
EXTENDS Ports

CONSTANTS client, server, idle, pc, ps, m1, m2, m3

MCOwner == [t \in Task |-> NoTask]

MCInitPri == [t \in Task |-> IF t = idle THEN 1 ELSE 10]

\* The client creates the messages, and pc to have them back.
MCPortOwner == [p \in Port |-> IF p = ps THEN server ELSE client]

MCReplyPort == [m \in Msg |-> pc]

\* m2 and m3 go before m1.
MCMsgPri == [m \in Msg |-> IF m = m1 THEN 1 ELSE 2]
=============================================================================

-------------------------------- MODULE MCIO --------------------------------
(***************************************************************************)
(* Small instances of IOCalls for TLC.                                     *)
(***************************************************************************)
EXTENDS IOCalls

CONSTANTS a, b, idle, i1, i2, i3

\* b is a thread of a.
MCOwner == [t \in Task |-> IF t = b THEN a ELSE NoTask]

MCInitPri == [t \in Task |-> IF t = idle THEN 1 ELSE 10]

\* Programs of a create the requests; i2 has a reply port, with signal 8.
MCIOOwner == [i \in IOReq |-> a]
MCReplySig == [i \in IOReq |-> IF i = i2 THEN {8} ELSE {}]

AllTimer == [i \in IOReq |-> "timer"]
AllCDRom == [i \in IOReq |-> "cdrom"]
TimerAndDrive == [i \in IOReq |-> IF i = i1 THEN "timer" ELSE "cdrom"]

\* i2 goes before i3.
MCIOPri == [i \in IOReq |-> IF i = i2 THEN 1 ELSE 0]

Ask(cmd, unit, time, quick) == [cmd |-> cmd, unit |-> unit, time |-> time, quick |-> quick]

Delay(unit, n) == Ask("DELAY", unit, n, FALSE)
Drive(cmd, quick) == Ask(cmd, "USEC", 0, quick)

\* i1 runs metronomes, the others delays.
Clocks ==
  [i \in IOReq |->
     IF i = i1 THEN {Ask("METRONOME", u, 2, FALSE) : u \in {"USEC", "VBLANK"}}
     ELSE {Delay("USEC", n) : n \in {0, 2}}
          \cup {Ask("DELAY", "VBLANK", n, TRUE) : n \in {0, 2}}
          \cup {Drive("READ", TRUE)}]

\* A delay with i1, and commands for the drive with the others.
DelayAndDrive ==
  [i \in IOReq |->
     CASE i = i1 -> {Delay("USEC", 2)}
       [] i = i2 -> {Drive("READ", FALSE)}
       [] OTHER  -> {Drive("READ", TRUE), Drive("STATUS", TRUE)}]

Reads == [i \in IOReq |-> {Drive("READ", FALSE)}]

\* The request of a metronome is used for a delay.
ClockAndDelay ==
  [i \in IOReq |-> {Ask("METRONOME", "USEC", 1, FALSE), Delay("USEC", 1)}]

DeleteAll  == [t \in Task |-> IOReq]
DeleteI2   == [t \in Task |-> IF t = a THEN {i2} ELSE {}]
DeleteNone == [t \in Task |-> {}]

\* b gives up the memory that i3, or i2, reads into.
GiveI2   == [t \in Task |-> IF t = b THEN {i2} ELSE {}]
GiveI3   == [t \in Task |-> IF t = b THEN {i3} ELSE {}]
GiveNone == [t \in Task |-> {}]
=============================================================================

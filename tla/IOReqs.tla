------------------------------- MODULE IOReqs -------------------------------
(***************************************************************************)
(* I/O requests, and what drivers and the kernel do to them: sendio.c.     *)
(*                                                                         *)
(* A task starts a request, its device's driver completes it now, or keeps *)
(* it and completes it later from an interrupt.  A completion that nobody  *)
(* saw happen is told to the owner: with SIGF_IODONE, or with the          *)
(* request's message if it was created with a reply port.  io_SigItem names*)
(* a task that waits for the request to be finished with after an abort.   *)
(*                                                                         *)
(* The operators map a pair X of the kernel state X.k and the state of the *)
(* requests X.io to the next.                                              *)
(***************************************************************************)
EXTENDS Exec

CONSTANTS
  IOReq,         \* the requests; an item number is not used again
  NoIOReq,       \* no request
  IOOwner,       \* the task that has created each request
  ReplySig,      \* the signal of its reply port, or {} without a reply port
  Device,        \* the device of each request: "timer" or "cdrom"
  IOPri,         \* its priority
  IODONE,        \* the bit of SIGF_IODONE
  ONESHOT,       \* the bit of SIGF_ONESHOT
  Ping,          \* the bits a metronome signals
  MaxTime,       \* the longest delay
  Off            \* the microsecond timer does not count

ASSUME IOAssumption ==
  /\ IsFiniteSet(IOReq) /\ NoIOReq \notin IOReq
  /\ IOOwner \in [IOReq -> Task \ {Idle}]
  /\ ReplySig \in [IOReq -> SUBSET UserSigs]
  /\ Device \in [IOReq -> {"timer", "cdrom"}]
  /\ IOPri \in [IOReq -> Nat]
  /\ {IODONE, ONESHOT} \subseteq SuperSigs
  /\ IODONE # ONESHOT /\ ABORT \notin {IODONE, ONESHOT}
  /\ Ping \subseteq UserSigs /\ \A i \in IOReq : ReplySig[i] \cap Ping = {}
  /\ MaxTime \in Nat \ {0} /\ Off \notin Nat

IOFlag == {"DONE", "QUICK", "WAITING", "METRONOME"}

IOState ==
  [made : SUBSET IOReq,
   Flags : [IOReq -> SUBSET IOFlag],
   SigItem : [IOReq -> Task \cup {NoTask}],
   Posted : SUBSET IOReq,              \* its message is on its reply port
   DelayList : Seq(IOReq),             \* of the timer device, in vertical blanks
   MDelayList : Seq(IOReq),            \* and in microseconds
   left : [IOReq -> 0..MaxTime],       \* how far from its target
   period : [IOReq -> 0..MaxTime],     \* ioi_Offset or timer_Interval
   count : (0..MaxTime) \cup {Off},    \* the hardware timer
   RequestsToDo : Seq(IOReq),          \* of the CD-ROM driver
   RequestRunning : IOReq \cup {NoIOReq}]

\* internalCreateIOReq has made every request; none was ever started.
NewIOReqs ==
  [made |-> IOReq,
   Flags |-> [i \in IOReq |-> {"DONE", "QUICK"}],
   SigItem |-> [i \in IOReq |-> NoTask],
   Posted |-> {},
   DelayList |-> <<>>, MDelayList |-> <<>>,
   left |-> [i \in IOReq |-> 0], period |-> [i \in IOReq |-> 0],
   count |-> Off,
   RequestsToDo |-> <<>>, RequestRunning |-> NoIOReq]

MsgBased(i) == ReplySig[i] # {}

Has(X, i, flag) == flag \in X.io.Flags[i]

Signal(X, t, bits) == [X EXCEPT !.k = internalSignal(@, t, bits)]

Marked(X, i, flags) == [X EXCEPT !.io.Flags[i] = @ \cup flags]

Cleared(X, i, flags) == [X EXCEPT !.io.Flags[i] = @ \ flags]

-----------------------------------------------------------------------------
(* Completion *)

\* internalReplyMsg of the request's message: refused while it is on a port.
Reply(X, i) ==
  IF i \in X.io.Posted THEN X
  ELSE Signal([X EXCEPT !.io.Posted = @ \cup {i}], IOOwner[i], ReplySig[i])

Notify(X, i) ==
  IF MsgBased(i) THEN Reply(X, i) ELSE Signal(X, IOOwner[i], {IODONE})

\* The request has no callback.
internalCompleteIO(X, i) ==
  LET done == Marked(X, i, {"DONE"})
      told == Notify(done, i)
      t    == X.io.SigItem[i]
  IN  IF Has(X, i, "QUICK") THEN done
      ELSE IF t = NoTask THEN told ELSE Signal(told, t, {ONESHOT})
=============================================================================

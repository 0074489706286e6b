------------------------------ MODULE IOCalls -------------------------------
(***************************************************************************)
(* SendIO, DoIO, WaitIO, AbortIO, DeleteIOReq and AbortIOReqs as SWIs of   *)
(* the executive, over the timer and the CD-ROM devices.                   *)
(*                                                                         *)
(* A SWI that may sleep is taken in the steps between which interrupts can *)
(* complete the request: where the task looks at the request, where it     *)
(* goes to sleep, and where it comes back.                                 *)
(***************************************************************************)
EXTENDS TimerDevice, CDRom

CONSTANTS
  Cmds,           \* what programs ask for with each request
  MayWait,        \* the bits their programs wait for themselves
  Deletes,        \* the requests each task deletes
  GivesMemory,    \* the requests that read into memory each task gives up
  TakesMessages   \* they take a request's message before they use it again

Cmd == {"READ", "STATUS", "DELAY", "METRONOME", "UNKNOWN"}

ASSUME CallAssumption ==
  /\ \A i \in IOReq : \A c \in Cmds[i] :
       /\ c.cmd \in Cmd /\ c.time \in 0..MaxTime /\ c.quick \in BOOLEAN
       /\ c.unit \in {"USEC", "VBLANK"}
       /\ c.cmd = "METRONOME" => c.time > 0 /\ Ping # {}
  /\ MayWait \subseteq SUBSET Sig
  /\ Deletes \in [Task -> SUBSET IOReq]
  /\ GivesMemory \in [Task -> SUBSET {i \in IOReq : Device[i] = "cdrom"}]
  /\ TakesMessages \in BOOLEAN

VARIABLES
  io,     \* the requests and the devices
  call    \* where each task is in a SWI that sleeps

ioVars == <<vars, io, call>>

X0 == [k |-> kb, io |-> io]

\* at, in internalWaitIO: look (at the request), sleep (it was not done), woken.
\* In internalWaitAbortedIO, for DeleteIOReq or AbortIOReqs: check, aborted
\* (asleep or woken).  In AbortIOReqs: scan.  by: wait, delete or scan.
NoCall == [at |-> "none", ior |-> NoIOReq, by |-> "none"]

Continues(X, m) == kb' = X.k /\ io' = X.io /\ mode' = m

Done(X) == Continues(X, "swi") /\ call' = [call EXCEPT ![Me] = NoCall]

Goes(X, at, i, by) ==
  /\ Continues(X, "swi")
  /\ call' = [call EXCEPT ![Me] = [at |-> at, ior |-> i, by |-> by]]

\* internalWait, and the task is at at when it returns.
Sleeps(X, bits, at) ==
  /\ Continues([X EXCEPT !.k = internalWait(@, bits)],
               IF WaitSleeps(X.k, bits) THEN "blip" ELSE "swi")
  /\ call' = [call EXCEPT ![Me].at = at]

Refuse == Done(X0)

-----------------------------------------------------------------------------
(* Starting *)

Deferred(i, c) ==
  IF Device[i] = "timer" THEN c.cmd \in {"DELAY", "METRONOME"}
  ELSE c.cmd \in {"READ", "STATUS"}

\* defaultDispatch of drivers.c for the timer.
DispatchIO(X, i, c) ==
  IF Device[i] = "cdrom" THEN CDROMDriverDispatch(X, i, c.cmd)
  ELSE IF ~Deferred(i, c) THEN internalCompleteIO(X, i)
  ELSE IF c.cmd = "DELAY" THEN CmdDelay(X, i, c.unit, c.time)
  ELSE CmdMetronome(X, i, c.unit, c.time)

internalSendIO(X, i, c, quick) ==
  LET fresh == Cleared(X, i, {"DONE", "QUICK"}) IN
  DispatchIO(IF quick THEN Marked(fresh, i, {"QUICK"}) ELSE fresh, i, c)

\* Mutant of StartIO: does not look whether the request is in progress.
StartIO_Busy(i) == IOOwner[i] = Me

StartIO(i) == IOOwner[i] = Me /\ Has(X0, i, "DONE")

Asks(i, c) ==
  /\ Swi /\ i \in io.made /\ c \in Cmds[i]
  /\ TakesMessages => i \notin io.Posted

SendIO(i, c) ==
  /\ Asks(i, c)
  /\ IF StartIO(i) THEN Done(internalSendIO(X0, i, c, c.quick)) ELSE Refuse

\* internalWaitIO starts.
EnterWait(X, i) ==
  IF Has(X, i, "QUICK") THEN Done(X)
  ELSE Goes(IF MsgBased(i) THEN X ELSE Marked(X, i, {"WAITING"}), "look", i, "wait")

DoIO(i, c) ==
  /\ Asks(i, c)
  /\ IF ~StartIO(i) THEN Refuse
     ELSE LET X == internalSendIO(X0, i, c, TRUE) IN
          IF Deferred(i, c) THEN EnterWait(X, i) ELSE Done(X)

-----------------------------------------------------------------------------
(* Waiting *)

WaitIO(i) ==
  /\ Swi /\ i \in io.made
  /\ IF ~Has(X0, i, "QUICK") /\ IOOwner[i] # Me THEN Refuse ELSE EnterWait(X0, i)

Inside(at, by) == mode = "swi" /\ call[Me].at \in at /\ call[Me].by \in by

\* Mutant of WaitOver: a waiter for a message that was woken has it.
WaitOver_Once(i) ==
  IF ~MsgBased(i) THEN Has(X0, i, "DONE")
  ELSE i \in io.Posted \/ Has(X0, i, "DONE") \/ call[Me].at = "woken"

\* A message is waited for until it is on the port; the message of a request
\* that is done and not on the port has been taken before.
WaitOver(i) ==
  IF ~MsgBased(i) THEN Has(X0, i, "DONE")
  ELSE i \in io.Posted \/ (call[Me].at = "look" /\ Has(X0, i, "DONE"))

WaitLooks ==
  LET i    == call[Me].ior
      zap  == call[Me].at = "woken" /\ ABORT \in kb.ret
      took == [X0 EXCEPT !.io.Posted = @ \ {i}, !.io.Flags[i] = @ \ {"WAITING"}]
  IN  /\ Inside({"look", "woken"}, {"wait"})
      /\ IF zap THEN Done(X0)
         ELSE IF WaitOver(i) THEN Done(took)
         ELSE Goes(X0, "sleep", i, "wait")

WaitBitsOf(i) == IF MsgBased(i) THEN ReplySig[i] ELSE {IODONE}

\* Mutant of WaitSleepsNow: clears an old SIGF_IODONE first.
WaitSleepsNow_Clears ==
  /\ Inside({"sleep"}, {"wait"})
  /\ LET bits == WaitBitsOf(call[Me].ior) IN
     Sleeps([X0 EXCEPT !.k = ClearSignals(@, Me, bits)], bits, "woken")

WaitSleepsNow ==
  /\ Inside({"sleep"}, {"wait"})
  /\ Sleeps(X0, WaitBitsOf(call[Me].ior), "woken")

\* The program takes the message from its reply port.
GetMsg(i) ==
  /\ Swi /\ i \in io.Posted /\ IOOwner[i] = Me
  /\ Done([X0 EXCEPT !.io.Posted = @ \ {i}])

ProgramWaits ==
  \E bits \in MayWait : Wait(bits) /\ UNCHANGED <<io, call>>

\* The owner of a metronome frees the signal it asked for, or gets it.
PingSignal ==
  /\ \/ FreeSignal(Ping)
     \/ Ping # {} /\ AllocSignal(Ping)
  /\ UNCHANGED <<io, call>>

-----------------------------------------------------------------------------
(* Aborting and deleting *)

internalAbortIO(X, i) ==
  IF Has(X, i, "DONE") THEN X
  ELSE IF Device[i] = "timer" THEN TimerAbortIO(X, i) ELSE CDROMDriverAbortIo(X, i)

AbortIO(i) ==
  /\ Swi /\ i \in io.made
  /\ IF IOOwner[i] # Me THEN Refuse ELSE Done(internalAbortIO(X0, i))

\* internalAbortIO and internalWaitAbortedIO.  No signal comes between the
\* abort and the clearing of SIGF_ONESHOT: io_SigItem is set after it.
AbortAndWait(i, by) ==
  LET X == internalAbortIO(X0, i) IN
  Goes(IF Has(X, i, "QUICK") THEN X
       ELSE [X EXCEPT !.k = ClearSignals(@, Me, {ONESHOT})], "check", i, by)

\* The owner sleeps in internalWaitIO for the request: msg_Waiters, or
\* IO_WAITING.
Waited(X, i) ==
  IF MsgBased(i) THEN call[IOOwner[i]] = [at |-> "woken", ior |-> i, by |-> "wait"]
  ELSE Has(X, i, "WAITING")

\* The end of internalDeleteIOReq, and the item is freed.
Zapped(X, i) ==
  LET gone == [X EXCEPT !.io.made = @ \ {i}, !.io.Posted = @ \ {i}] IN
  IF Waited(X, i) THEN Signal(gone, IOOwner[i], {ABORT}) ELSE gone

DeleteIOReq(i) ==
  /\ Swi /\ i \in io.made /\ i \in Deletes[Me]
  /\ IF Me \notin SuperTask \cup {IOOwner[i]} THEN Refuse
     ELSE IF Has(X0, i, "DONE") THEN Done(Zapped(X0, i))
     ELSE AbortAndWait(i, "delete")

\* The request is done with: the deletion ends, or AbortIOReqs scans again.
AbortedGoes(X) ==
  LET i == call[Me].ior IN
  IF call[Me].by = "delete" THEN Done(Zapped(X, i)) ELSE Goes(X, "scan", NoIOReq, "scan")

\* Mutant of AbortedChecks: names itself in io_SigItem after it has slept.
AbortedChecks_Anonymous ==
  /\ Inside({"check"}, {"delete", "scan"})
  /\ IF Has(X0, call[Me].ior, "DONE") THEN AbortedGoes(X0)
     ELSE Sleeps(X0, {ONESHOT}, "aborted")

\* Interrupts are disabled from CHECKIO to the sleep.
AbortedChecks ==
  LET i == call[Me].ior IN
  /\ Inside({"check"}, {"delete", "scan"})
  /\ IF io.Flags[i] \cap {"QUICK", "DONE"} # {} THEN AbortedGoes(X0)
     ELSE Sleeps([X0 EXCEPT !.io.SigItem[i] = Me], {ONESHOT}, "aborted")

AbortedWakes ==
  LET i == call[Me].ior IN
  /\ Inside({"aborted"}, {"delete", "scan"})
  /\ IF ONESHOT \in kb.ret
     THEN AbortedGoes([X0 EXCEPT !.io.SigItem[i] = NoTask])
     ELSE Sleeps(X0, {ONESHOT}, "aborted")

\* ControlMem of a family's memory calls AbortIOReqs, under the device
\* semaphore: one task at a time scans.
ControlMem ==
  /\ Swi /\ GivesMemory[Me] # {}
  /\ \A t \in Task : call[t].by # "scan"
  /\ Goes(X0, "scan", NoIOReq, "scan")

IntoMemory == {i \in io.made \cap GivesMemory[Me] : "DONE" \notin io.Flags[i]}

Scans ==
  /\ Inside({"scan"}, {"scan"})
  /\ IF IntoMemory = {} THEN Done(X0)
     ELSE \E i \in IntoMemory : AbortAndWait(i, "scan")

-----------------------------------------------------------------------------
(* Interrupts *)

Interrupt(X) == Continues(X, FirqMode) /\ UNCHANGED call

\* A unit of the microsecond timer passes.
Counts == io.MDelayList # <<>> /\ io.count \notin {0, Off}

Tick ==
  /\ Counts
  /\ io' = [io EXCEPT !.count = @ - 1,
                      !.left = [i \in IOReq |->
                        IF i \in ToSet(io.MDelayList) /\ @[i] > 0 THEN @[i] - 1 ELSE @[i]]]
  /\ UNCHANGED <<kb, mode, call>>

cMtimerInt == io.count = 0 /\ Interrupt(reprocess(X0))

VBlank == io.DelayList # <<>> /\ Interrupt(ctimerInt(X0))

\* The driver's state machine runs in interrupts, or in its daemon.
CDStarts == CanStart(X0) /\ Interrupt(AwaitRequest(X0))

CDFinishes == io.RequestRunning # NoIOReq /\ Interrupt(FinishRequest(X0))

\* The drive does not answer any more.
CDKills == Interrupt(KillPendingIOs(X0))

Devices == Tick \/ cMtimerInt \/ VBlank \/ CDStarts \/ CDFinishes

Quantum == FirqQuantum /\ UNCHANGED <<io, call>>

-----------------------------------------------------------------------------
\* The programs have created their reply ports, which have allocated a signal
\* each, and their requests.
PortSigs(t) == UNION {ReplySig[i] : i \in {j \in IOReq : IOOwner[j] = t}}

IOInit ==
  /\ Started([t \in Task |-> SuperSigs \cup PortSigs(t)])
  /\ io = NewIOReqs /\ call = [t \in Task |-> NoCall]

IOSwi ==
  \/ \E i \in IOReq : \/ \E c \in Cmds[i] : SendIO(i, c) \/ DoIO(i, c)
                      \/ WaitIO(i) \/ GetMsg(i) \/ AbortIO(i) \/ DeleteIOReq(i)
  \/ ControlMem \/ ProgramWaits \/ PingSignal

Kernel ==
  \/ WaitLooks \/ WaitSleepsNow \/ AbortedChecks \/ AbortedWakes \/ Scans
  \/ call[Me].at = "none" /\ SwiRet /\ UNCHANGED <<io, call>>
  \/ StartNext /\ UNCHANGED <<io, call>>
  \/ FirqReturn /\ UNCHANGED <<io, call>>

IONext == IOSwi \/ Kernel \/ Devices \/ Quantum

IOSpec == IOInit /\ [][IONext]_ioVars

\* The processor goes on executing, time passes, and the drive answers: weak
\* fairness, with the conditions under which the actions are enabled.
IOFairSpec ==
  /\ IOSpec
  /\ []<>(mode = "user") \/ []<><<Kernel>>_ioVars
  /\ []<>~Expires \/ []<><<Quantum>>_ioVars
  /\ []<>~Counts \/ []<><<Tick>>_ioVars
  /\ []<>(io.count # 0) \/ []<><<cMtimerInt>>_ioVars
  /\ []<>(io.DelayList = <<>>) \/ []<><<VBlank>>_ioVars
  /\ []<>~CanStart(X0) \/ []<><<CDStarts>>_ioVars
  /\ []<>(io.RequestRunning = NoIOReq) \/ []<><<CDFinishes>>_ioVars

\* The same with a drive that fails.
DriveFailsSpec == IOInit /\ [][IONext \/ CDKills]_ioVars

-----------------------------------------------------------------------------
(* Properties *)

\* Where a driver keeps requests.
Places == <<io.DelayList, io.MDelayList, io.RequestsToDo,
            IF io.RequestRunning = NoIOReq THEN <<>> ELSE <<io.RequestRunning>> >>

Active(i) == \E p \in DOMAIN Places : i \in ToSet(Places[p])

\* A driver has a request exactly while it is not done, in one place, and no
\* driver keeps a request that has been deleted.  The lists are linked through
\* the requests, and abort unlinks a request because IO_DONE is clear.
DriverHasIt ==
  /\ \A i \in io.made : "DONE" \notin io.Flags[i] <=> Active(i)
  /\ \A i \in IOReq : Active(i) => i \in io.made
  /\ \A p \in DOMAIN Places : IsInjective(Places[p])
  /\ \A p, q \in DOMAIN Places : p # q => ToSet(Places[p]) \cap ToSet(Places[q]) = {}

\* The hardware timer is never set past the first request of the microsecond
\* list, whatever was inserted and aborted since, and the list is sorted.
TimerArmed ==
  LET q == io.MDelayList IN
  /\ q # <<>> => io.count # Off /\ io.count <= io.left[Head(q)]
  /\ \A m, n \in DOMAIN q : m < n => io.left[q[m]] <= io.left[q[n]]

SleepsIn(t, by) == t \in kb.TaskWaitQ /\ call[t].by \in by

\* No completion is missed: a task asleep in WaitIO waits for a request that is
\* in progress; its message, if it has one, is not on its port.
WaitsForProgress ==
  \A t \in Task : SleepsIn(t, {"wait"}) =>
    /\ call[t].ior \in io.made \ io.Posted
    /\ "DONE" \notin io.Flags[call[t].ior]

\* sendio.c:381, "We have to wait for the io to comlete": a task asleep in
\* internalWaitAbortedIO waits for a request that is in progress, and is the
\* task that its completion wakes.
AbortWaits ==
  \A t \in Task : SleepsIn(t, {"delete", "scan"}) =>
    LET i == call[t].ior IN
    i \in io.made /\ "DONE" \notin io.Flags[i] /\ io.SigItem[i] = t

Told(k, x, i) ==
  IF MsgBased(i) THEN i \in x.Posted ELSE IODONE \in k.SigBits[IOOwner[i]] \cup k.WaitBits[IOOwner[i]]

\* AbortIO's documentation, sendio.c:307: "When WaitIO() returns, the task
\* knows that the I/O operation is no longer active."  So it is done, and no
\* driver has it; or it was deleted.
NoLongerActive ==
  [][\A t \in Task, i \in IOReq :
       /\ call[t].by = "wait" /\ call[t].ior = i /\ call'[t].by = "none"
       /\ i \in io'.made
       => "DONE" \in io'.Flags[i] /\ ~Active(i)']_ioVars

\* SendIO's documentation, sendio.c:781: "If quick I/O was not successful, the
\* Kernel performs normal asynchronous I/O and notifies the task with a signal
\* or message when the I/O request is complete."  A request that is completed,
\* and is not quick, is told to its owner when it is.
Notified ==
  [][\A i \in IOReq :
       /\ i \in io'.made /\ "DONE" \in io'.Flags[i] /\ "QUICK" \notin io'.Flags[i]
       /\ "DONE" \notin io.Flags[i] \/ \E c \in Cmds[i] : SendIO(i, c) /\ StartIO(i)
       => Told(kb', io', i)]_ioVars

\* A wait for a request ends, and so does its deletion.  WaitTime's documentation,
\* waittime.c:22: "Puts the current context to sleep for a specific amount of time."
CallsEnd ==
  \A t \in Task, by \in {"wait", "delete"} : (call[t].by = by) ~> (call[t].by = "none")
=============================================================================

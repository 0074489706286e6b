# A verification of the Portfolio operating system

Portfolio is the operating system of the 3DO: a preemptive, priority driven
kernel for an ARM60, folios (shared libraries of system calls), devices and
drivers, a file system, an event broker, audio and graphics.  This directory
holds TLA+ models of the parts on which everything else depends, TLC
configurations that check them on small instances, and proofs checked by TLAPS
that hold for every instance.

The code under `src/src/kernel` is the reference.  The build is the single
threaded kernel: `MULTIT` and `FORBID` are undefined.

Contents: 1 the system, 2 the modules, 3 how the models read the code, 4 what
the runs show, 5 disagreements found, 6 fairness, 7 what is proved, 8 what is
not covered, 9 the plan, 10 how to run it.


## 1. The system

### Components

| Component | State it keeps | Operations | Hard behaviour | Correct when |
|---|---|---|---|---|
| Executive (`signal.c`, `task.c`, `startup.s`, `firq.c`, `timer.c`) | current task, ready queue, wait queue, reschedule request, quantum timer; per task flags, priority, allocated, pending and awaited signals, saved mode | WaitSignal, SendSignal, AllocSignal, FreeSignal, Yield, SetItemPri; interrupts; swap on the way out of a SWI or FIRQ | interrupts between the test and the sleep; a one-shot quantum timer; a lazy reschedule request | no wakeup is lost, the best task runs, equals take turns, pending bits are allocated |
| Lists (`list.s`) | doubly linked rings with two anchors | add, insert by priority, remove | anchors read as nodes, macros that do not check | the ring is the documented sequence |
| Tasks and threads (`task.c`) | the tasks, `TASK_EXITING`, `t_Killer`, resource tables | CreateTask, exit, DeleteItem of a task | a killer sleeps for its victim, the victim for its threads; either may be killed meanwhile | threads die first, killers are told, nothing outlives its owner |
| Semaphores (`semaphore.c`) | bit, owner, nest count, waiting list of nodes in stack frames | LockSemaphore, UnlockSemaphore, delete | hand-over to a task that has not run; death of a waiter | mutual exclusion, first come first served, no stranded waiter |
| Ports and messages (`ports.c`) | messages on ports, flags, `msg_MsgPort`, `msg_Waiters` | create, put, reply, get, wait, delete | deletion under a waiter; one signal for many messages | a message is where its flags say; no waiter misses one |
| I/O requests (`sendio.c`) | `io_Flags`, `io_SigItem`, reply message | SendIO, DoIO, WaitIO, AbortIO, delete, completion | completion interrupts between every two steps; two tasks that wait for one request | a driver has a request exactly while it is in progress; completion is told once |
| Timer device (`timerdevice.c`) | two sorted lists, the hardware timer | delay, metronome, abort, two interrupts | completion inside dispatch; re-arming | the timer is never set past the first request |
| CD-ROM driver (`CDROMDriver.c`) | queue, running request, levels of a state machine | queue, run, finish, abort, kill | abort of a running request; the drive goes away | each request completes once |
| Items (`item.c`) | item table with generations, resource tables with open counts | create, open, close, delete, find, set owner | deletion that sleeps; tables that grow while walked | an item number names one item; a task's items are freed once |
| Folios, devices (`folio.c`, `devices.c`) | open counts, the module a folio came from | open, close, load on demand, release what is left | a close that sleeps for the unloading; refusal to open; walking while deleting | opened as often as closed; code in memory while it is open |
| User mode services (`usermodeservices.c`, `usermodeserver.c`) | a port of requests, a thread for each | load, unload | the kernel sleeps for a program; two loads of one module | every call is answered |
| Memory (`allocmem.c`, `mem.c`, `pagemem.c`) | free lists, page ownership, fences | allocate, free, give, take | requests that write into memory given away | free and allocated never overlap; neighbours merge |
| File system (`filesystem/`) | to-do, deferred and running lists of an optimizing disk scheduler, flaws of the copies of a file, the catapult; open files, caches | queue, schedule, complete, retry, abort | callbacks from interrupts; retry against abort; a more urgent request | every request completes once, the best first |
| Event broker (`input/`) | list of listeners, focus, event messages pending, `portChanged`; pods | configure, set focus, make table, dispatch, read of the control port, return of a message | listeners die with messages outstanding, or between the test of their port and the send; full queues; frames that are not clean | queues agree with the messages that are out; what is lost is reported |
| Audio folio (`audio/audiofolio`) | sorted list of events (cues, segments of envelopes), af_Time, af_NextTime, af_TimerPending; instruments, samples, DSP resources | post, abort, start, release, stop, detach; the DSP's interrupt; the folio's own task | interrupt against posting; lost interrupts; counter and time wrap around; events that outlive what they belong to | no event is forgotten, early or dangling; the clock keeps time |
| Graphics, international, compression, libraries, shell, dipir | data and hardware | conversions, drawing, boot | none of their own that a model would reach | |

### How they interact

A program enters the kernel by SWI.  A SWI runs with interrupts enabled and is
not preempted by other tasks; a fast interrupt (FIRQ) may run in the middle of
it, call `internalSignal` or complete I/O, and asks for a reschedule that takes
place on the way out.  Only `internalWait` gives up the processor inside a SWI,
and everything that sleeps in the kernel does it there: locks, ports, I/O and
the deletion of a task.  So `Exec` is the base on which all other components
are built: each of their SWIs is a composition of kernel state changes, split
into steps where it can sleep.

Signals are the only means of waking a task.  `SIGF_ABORT` tells a sleeper that
what it waits for is gone, or that it is being killed; `SIGF_ONESHOT` serves
the hand-over of semaphores, the death of a victim and the completion of an
aborted request; `SIGF_IODONE` says that some request of the task is complete;
a port's own signal, that there may be a message.

Three parts go beyond one kernel call.  The file driver has no task of its own:
what a request starts at task level is continued by the end action of the raw
device, at interrupt level, and by the file daemon when the end action has
nothing left to run.  And the kernel turns to a server in user mode, by message,
to load a folio that is not in memory and to unload it: OpenItem and CloseItem
sleep in the middle for a program's answer.  The audio folio's clock is shared by
three: programs post and remove events in SWIs, the DSP's interrupt moves the time
and signals the folio's own task, and that task, in supervisor mode like the SWIs,
performs what is due and tells the interrupt when to look next.

The event broker is a program: it talks to its listeners by messages alone, and can
be preempted by them between any two of its calls.


## 2. The modules

| Module | What it is | Code |
|---|---|---|
| `Queue` | a priority queue as a sequence | `TailInsertNode`, `RemNode` |
| `Links`, `Lists`, `QueueSpec` | the linked representation; its state machine; what a list promises | `list.s`, `listmacros.h`, `initlist.c` |
| `Exec` | the executive | `signal.c`, `startup.s`, `firq.c`, `task.c` |
| `SequenceLemmas` | facts about sequences that the proofs share | |
| `ExecProof` | proofs about `Exec` | |
| `Semaphores`, `SemaphoreSpec` | operators on semaphores; what one semaphore promises | `semaphore.c` |
| `Tasks` | life and death of tasks, threads and their semaphores, on `Exec` | `task.c`, `semaphore.c`, `item.c` |
| `Ports` | ports and messages, on `Exec` | `ports.c` |
| `PortsProof` | proofs about `Ports`, on those about `Exec` | |
| `IOReqs` | requests and their completion | `sendio.c` |
| `TimerDevice`, `CDRom` | the two devices | `timerdevice.c`, `CDROMDriver.c` |
| `IOCalls` | the I/O SWIs over both devices, on `Exec` | `sendio.c`, `pagemem.c` |
| `IOProof` | proofs about `IOCalls`, on those about `Exec` | |
| `DiskScheduler` | the reads of an optimized disk: tasks, the daemon and the end action | `FileDriver.c`, `FileDaemon.c` |
| `DiskProof` | proofs about `DiskScheduler`, and about `Lists` | |
| `ResourceTable` | operators on a task's table of slots | `item.c` |
| `DemandLoad` | a folio loaded on demand, the tasks that open it, the server | `item.c`, `folio.c`, `task.c`, `usermodeservices.c`, `usermodeserver.c` |
| `LoadProof` | proofs about `DemandLoad` and `ResourceTable` | |
| `AudioTimer` | the audio clock, cues and the envelopes of an instrument | `audio_timer.c`, `audio_envelopes.c`, `audio_attachments.c`, `dspp_instr.c` |
| `AudioProof` | proofs about `AudioTimer` | |
| `EventBroker` | listeners, focus and event messages, with the programs | `EventBroker.c`, `EventUtility.c` |
| `EventProof` | proofs about `EventBroker` | |
| `MCExec`, `MCLists`, `MCTasks`, `MCPorts`, `MCIO`, `MCDisk`, `MCDemandLoad`, `MCAudio`, `MCEvents` | small instances | |

    Queue <- Exec <- Tasks   (with Semaphores, which uses Links)
                  <- Ports <- PortsProof
                  <- IOReqs <- TimerDevice, CDRom <- IOCalls
                  <- ExecProof <- PortsProof, IOProof (with IOCalls)
    Queue <- DiskScheduler <- DiskProof (with Lists)
    Links <- Lists <- DiskProof
    Queue <- AudioTimer <- AudioProof
    Queue <- EventBroker <- EventProof
    ResourceTable <- DemandLoad <- LoadProof
    SequenceLemmas <- the proofs
    Lists refines QueueSpec;  Tasks refines SemaphoreSpec, one per semaphore.

`PROJECT.json` maps every definition to the lines it stands for.


## 3. How the models read the code

**The kernel state** is the record `kb`: the fields of KernelBase and, as
functions of the task, the scheduling fields of the tasks.  Handlers are
operators from a kernel state to the next (`internalSignal(k, t, bits)`), so
that a SWI that calls three of them is their composition, as in the code.

**`mode`** says what the processor is doing: `user`; `swi`, a handler has done
its work and `swi_ret` has not yet disabled interrupts; `blip`, `internalWait`
has put the task to sleep and lets interrupts in before it takes the next;
`firq`, an interrupt that came in user mode.  A SWI that does not sleep is one
step followed by `SwiRet`; interrupts come in `user`, `swi` and `blip`.  Where
the code enables interrupts in the middle of a handler, an interrupt there
commutes with the rest of the handler unless the handler tests something the
interrupt changes; those tests are steps of their own (`call`, `WaitLooks`,
`WaitSleepsNow`, `AbortedChecks`).

**A SWI that sleeps** leaves in `call` or `wait` what is left of it, and the
rest is an action enabled when the task runs again in mode `swi`.

**`DiskScheduler`, `DemandLoad` and `AudioTimer`** stand beside `Exec`: what they need of it is
only that a kernel call is not preempted by other tasks (`caller`, `current`),
that interrupts come all the same, and that a sleeping call goes on when its
answer has come.  The state of a disk is the record `disk`, that of a folio, the
tasks' tables and calls the record `sys`.  In `AudioTimer` the record `step` is what
is left to do in supervisor mode (of a SWI or of the folio's task), and the
interrupt is an action that is possible between any two of these steps.

**`EventBroker`** too stands alone.  Its broker handles one message or frame at a time;
a tour of the listeners (`tour`) is the one thing it does in steps, since the port of
a listener may go between TriggerListener's test and SendMsg (`VisitListener`,
`SendEventToListener`).  An event message is counted by where it is (`em`): on a port or with
the program that got it, which the broker cannot tell apart, or gone with a port that was
deleted; ClosePort chooses which of them were still on it.  `known` is a history
variable: what a program can conclude from the messages it was sent, and what was
left out of them.

**Data.**  Tasks, ports, messages, semaphores and requests are model values;
an item number is not used again.  Memory contents, names, tags and error codes
are left out; which check fails is not distinguished when all refuse alike.

**Lists** are sequences in all modules but two: `Links` keeps `n_Next` and
`n_Prev`, and `Semaphores` uses it for the waiting lists, because their nodes
live in stack frames and a killed waiter unlinks one that may no longer be
linked.  `Lists` shows that the linked form behaves as the sequence elsewhere, and
`DiskProof` proves it for lists of any length (section 7).
`SetNodePri` and the macros `ADDTAIL` and `REMOVENODE` are part of it.

**The disk.**  Positions on the disc are left out: which of the equally good
copies is closest, and in which order a sweep visits the requests taken, are any.
`INTERLEAVED_FILES` is not defined in `FileDriver.c`.  The daemon runs before a
disk is mounted, so the branches for a missing daemon are left out.

**Wild.**  When `DemandLoad` has used code or a table that was freed, `sys.wild` is
set and nothing more is modelled: the code defines no outcome.  Properties that
would be about that outcome except it.

**Audio time** is a number modulo 2 * `Half` (2^32 in the code) and the DSP's
counter one modulo `TickMod` (2^16).  A few instructions that follow each other and
read what the interrupt writes are one step where an interrupt between them does no
more than one just before or after: `NextEnvSegment` reads af_Time and
af_TimerPending at once; an interrupt between the two makes the time older by the
ticks that it serves.  PostAudioEvent's test of af_TimerPending and the use it makes
of it are two steps, and so are ScheduleNextAudioTimerSignal's two assignments.

**Time** in `TimerDevice` is relative to each request's target and bounded by
`MaxTime`; `Tick` is a unit of the hardware counter.

### What the inputs leave out

Inputs are what programs can ask for, less the following, each a named
parameter or assumption:

* `Idle` makes no SWI.  The operator's idle thread is a loop.
* Programs are not given `SIGF_ABORT` or `SIGF_ONESHOT` to send in `Tasks`,
  `Ports` and `IOCalls`.  A super task may send them; what the sleepers of
  those modules do then is not modelled (a lock returns and leaves its wait node,
  `semaphore.c:333`).
* `MayKill` (pairs of tasks), `MayDelete` and `Deletes` (items) choose who
  deletes what.  No run lets a thread delete the task that created it: its
  creator's FreeResources would delete the thread, which sleeps for its
  creator, and both sleep for ever.
* `MaxNest` bounds how deep a program nests its locks; `MaxTime` a delay.
* A metronome has an interval of at least one: with zero `reprocess` would not
  leave its loop.
* `Exec` has no zombies: internalSignal leaves a waiting task without a supervisor stack
  asleep (`signal.c:504`), and a task that is in `Exec` has one.
* Tasks are not created and do not die in `Ports` and `IOCalls`.
* A port's owner alone deletes it, and does not free its signal under it.
* In `IOCalls` the programs have created their reply ports and requests at the
  start.  Each port has allocated its signal, one that metronomes do not use: a task
  that waits for a signal it has not allocated does not sleep at all.
* `AbortIOReqs` visits the requests in any order.
* `TakesMessages` says that a program takes the reply of a request before it
  uses the request again, and `FromHeadBelow` that `InsertNodeFromHead` is also
  called for a node below all others; section 5 says what each is for.
* `GivesMemory` says which requests read into memory that a task gives up.  In the
  passing runs no request is also deleted by its owner, for the reason
  in section 5.
* In `disk`, each file has a good copy (`Bad` names the damaged ones), for the reason
  in section 5, and `Once` names the requests that are sent a single time, so
  that a more urgent one does not come for ever.  The daemon of a file system that
  needs vertical blanks also schedules at each of them (`FileDaemon.c:375`); the CD-ROM's
  does not, and that is left out.
* In `DemandLoad` there is one folio and one path on which it is looked for; one
  server stands for the privileged and the other.  The module's other items, the
  handshake of the unloader with its parent, the kill of a task inside a call and
  an unloading that fails are left out.  The main() of every folio of the
  repository that is loaded on demand lets itself be unloaded, so none refuses
  here.  The unloader's ReplyMsg and its exit are one step.  `internalDeleteItem` is
  wild when the item's folio is gone; that ir_Delete of a folio whose code is freed but
  whose item is still there (the finding `reopen`) is wild as well is not told apart.  `MayRefuse` says which tasks a folio refuses; `MayExit` and `Twice`
  (tasks that may open what they have open) are disjoint in the passing run, for
  the reason in section 5.  `MaxLoads` bounds how often the folio is loaded,
  `MaxEntries` how much a task owns and has open.
* In `AudioTimer` there are one instrument and its envelopes, and cues that signal;
  cues of the music library's hooks, samples that are attached, and the deletion of the
  instrument are left out.  A cue that MonitorAttachment names is signalled at the end of an
  envelope, after the instrument is stopped if that is what the end does
  (`SignalMonitoringCue`); aatt_CueItem is a field of `ins`.  The end of a sample signals
  the cue in the same way (`audio_attachments.c:345`) and is left out with the samples:
  what `OneUse` asks for excludes it as well.  The number of a deleted cue finds
  nothing, so `DeleteCue` clears it where the code leaves it until it is looked up.
* `TakesSignals` says that a program posts a cue only
  after it has taken the cue's last signal, `OneUse` that a cue does not monitor an
  attachment while it is posted, and `Alone` that an envelope is started
  and released on its own while its instrument is stopped; section 5 says what each is
  for.  The first two are promises of programs that the folio does not check.  The
  repository's examples keep the second: `simple_envelope.c:142` makes a cue to
  monitor the envelope and line 147 another to sleep with, and so does `ta_envelope.c`
  (lines 243 and 312).  A program asks for a cue at most `MaxPast` ticks ago and `MaxAhead`
  from now.  `InTime` holds the ticks back: the interrupt is at most `MaxLost` ticks
  late, and the folio's task is not kept from an event that is due for longer than
  `MaxLate` ticks.  The code needs this: audio times are compared by the sign of
  their difference, so an event that is overdue by 2^31 ticks would lie ahead.
* In `EventBroker`, a port that was deleted is not made again (an item number is not
  used twice), and its program is gone: it can still send back the messages it got
  and leave an EB_Configure behind.  `Asks`, `MayAskAgain`, `MayMakeTable`, `MayFocus` and
  `MayClose` choose what each program does.  Pods, their drivers and the table of
  their states, capture masks, and a message that there is no memory for (which
  is handled as a full queue is) are left out.
* The constraint `UnlinksOwnNode` of `tasks` cuts off the states in which a
  killed task is about to unlink a wait node that is no longer linked, which
  is the finding `stalenode`.  Beyond such a state the list is corrupt and nothing
  about semaphores is promised.


## 4. What the runs show

Every run finishes within three minutes on two workers; bounds are
those of the `.cfg` files.  A run answers safety and liveness together where
the instance is small enough for both.

| Run | Instance | States | Shows |
|---|---|---|---|
| `exec` | a super task, two threads it owns, idle; signals 2 and 8; priorities 10 and 11; the threads are symmetric | 626,132 | `NoLostWakeup`, `NoStaleSignal`, `SignalsKept`, `HighestRuns`, `QuantumAlive`, `FirstComeFirstServed` |
| `lists` | 3 nodes, 3 priorities | 14,985 | `RefinesQueue` |
| `tasks` | a task, its thread, the thread's thread with a higher priority, idle; 2 semaphores nested twice | 65,702 | `HoldersAgree`, `WaitersQueued`, `DeathsInOrder`, `RefinesSemaphore`, `DeletionEnds`, `NoStarvation` |
| `ports` | client and server with a port each; 3 messages, two of equal priority | 119,944 | `MsgPlaced`, `NoneMissed`, `Received` |
| `iotimer` | owner and super thread, 2 requests (one with a reply port), metronomes and delays of 0 and 2 units, both timer units | 526,587 | `TimerArmed`, `WaitsForProgress`, `Notified` |
| `iodrive` | a delay, a read with a reply port that its owner deletes, a read or status whose memory another task gives up | 121,685 | `DriverHasIt`, `AbortWaits`, `NoLongerActive`, `CallsEnd` |
| `disk` | 3 requests of 2 priorities for a file with two copies, of which one is damaged, and a file with one; a catapult of two pages; 2 requests sorted at a time; aborts; the disc taken out | 127,947 | `RawAgrees`, `OnOneList`, `NoOvertaking`, `Served` |
| `demandload` | 2 tasks, one that opens twice, one that is refused and exits; 2 loads; tables of 3 slots that grow by 2 | 107,277 | `SlotsAccounted`, `OpensCounted`, `UnloadedWhenClosed`, `CallsReturn` |
| `audiotimer` | a cue, an envelope that starts with its instrument and stops it at its end; times modulo 12, the counter modulo 4; the interrupt 2 ticks late, the folio's task 3 | 720,840 | `Armed`, `ClockKeeps`, `EventsExist`, `SleepsLongEnough`, `CuesHappen` |
| `eventbroker` | 2 programs: one that listens with the focus and may go, one that takes the focus, observes, changes its mind or is the automounter; queues of 1 and 2 messages | 255,991 | `MessagesAccounted`, `NotesKept`, `EventuallyTold` |
| `stalenode`, `reopen` | as small as shows it | | the disagreements of section 5 |

Besides these, `exec` checks the type invariant `TypeOK`, which its proofs use.

Why these bounds are enough to be interesting.  Three tasks of equal priority
beside the idle thread are the least in which a queue has a middle, a task can
be overtaken, and round robin differs from alternation.  `SIGF_ABORT`, which is
allocated to every task, and one signal that programs allocate and free are the
least in which a wait for one is disturbed by the other.  Two threads that
differ in nothing but their name are a symmetry; `exec` checks no liveness
property, for which it would not be sound.  Three messages, of which two are of
equal priority, are the least in which order of arrival and order of priority
differ.  A chain of three tasks is the least in which a killer is itself
killed while it waits, and in which a dying task waits for a thread that is
dying with a thread of its own; with a second semaphore a waiter holds one
while it waits for another.  Two requests of a device are the least in which a list has an
order and one request can be aborted in front of another; delays of 0 and 2
units in `iotimer` make a request complete at once, pass the hardware timer's largest count
(`Second` = 1) and be overtaken.

Three requests are the least in which one runs, one is sorted behind it and a
more urgent one defers the latter; the code sorts one at a time in the build
(`DEVICE_SORT_COUNT` 1), the instance two, so that the running list is ever
longer than one.  With two copies of a file a retry has somewhere to go and the
flaws of the copies can be compared.  Two tasks are the least in which a load
finds the name taken and a close meets an open; real tables begin with six slots
and grow by four, and with three and two the instance makes them grow while an
open or a close holds a slot.

A cue and an envelope are the least in which an event that belongs to a task and
one that posts itself again meet in the list; with two ticks of delay an interrupt
is lost, and with events two ticks ahead something is left in the list after the
folio's task has performed what was due.  The counter wraps around every four ticks
and the time every twelve, so each bound is passed many times in every long behaviour.

Two listeners are the least in which the focus moves, is inherited, and one dies in
the tour on which the other still is; a queue of one message is full with any message
that is late, and the automounter's of two is full, half full and empty.  The programs
subscribe to different classes of events, so a frame can be lost to one and not
concern the other.

Deadlock is checked in every run: some step is always possible, the idle
thread's quantum if nothing else.  What a stuck task looks like is therefore
stated by the properties (`WaitersQueued`, `DeathsInOrder`, `NoneMissed`,
`WaitsForProgress`, `AbortWaits`: a task that sleeps will be woken by somebody
who knows of it) and by the liveness properties.

Each property of a passing run has a mutant: a definition of the model changed
as a plausible bug would change the code, for which TLC finds the property
violated under the same configuration.  The mutants stand in the modules before
the definition they replace, named `Definition_What`.


## 5. Disagreements between the code and its documentation

Two are runs that end with a counterexample to a sentence of the code's own
documentation.

* `stalenode`.  A thread that was handed a semaphore and is killed before it
  runs unlinks its wait node twice.  A task that queued up in between is cut out
  of the list and never gets the semaphore (`semaphore.c:335`).
* `reopen`.  A folio is found and opened while the task that closed it last sleeps
  for its unloading, and its code is freed while it is open (`folio.c:1217`,
  `usermodeserver.c:328`).

The models show more, for which no run is kept.  The first two are properties that
the instances of `ports` and `disk` violate as they stand; each of the others is an input the runs
leave out, and can be had by changing a constant of a configuration:

* Messages on a deleted port are not sent back: `externalReplyMsg` refuses them
  (`ports.c:876`; `SentBack` as a PROPERTY of `MCPorts.cfg`).
* An error in the catapult is one of the file, if the file has but one copy: the read
  fails although the file is good (`FileDriver.c:1287`; the comment nine lines above
  says that "I/O will be requeued using the real avatars"; `FailsIfDamaged` as an
  INVARIANT of `MCDisk.cfg`).
* `InsertNodeFromHead` puts a node of lower priority than all others at the
  head; the documentation at `list.s:171` puts it at the end (`list.s:926`;
  `FromHeadBelow` TRUE breaks `RefinesQueue`).
* The second of two tasks that delete the same task takes over `t_Killer`, and
  the first sleeps for ever (`task.c:242`; a super task outside the family in
  `MayKill` breaks `DeathsInOrder`).
* A delay of zero microseconds with IO_QUICK is complete, not quick, and not
  notified (`timerdevice.c:483`; such a request in `Cmds` breaks `Notified`).
* WaitIO is satisfied by the reply of an earlier use of the request
  (`sendio.c:659`; `TakesMessages` FALSE breaks `NoLongerActive`).
* A request used for a metronome is a metronome for ever (`timerdevice.c:579`; the
  commands `ClockAndDelay` break `CallsEnd`).
* When the drive goes offline the driver completes the running request and keeps
  it (`CDROMDriver.c:1676`; `DriveFailsSpec` breaks `NoLongerActive`).
* An unknown command leaves the request in progress for ever
  (`CDROMDriver.c:884`; "UNKNOWN" in `Cmds` breaks `DriverHasIt`).
* A task that deletes a request sleeps until the drive is done with it; another thread
  gives up the memory that it reads into and aborts it as well.  io_SigItem holds one
  task: the second takes the place of the first, which sleeps for ever (`sendio.c:380`;
  the comment there says "We have to wait for the io to comlete"; `GivesMemory <- GiveI2`
  in `MCIODrive.cfg` breaks `AbortWaits`).
* A request is restarted by its owner between its completion and its deletion
  by a super task (`sendio.c:441`; a request of the drive in `Deletes` of a task
  that does not own it breaks `DriverHasIt`), and of two tasks that delete the same
  request one is woken (the same in `Deletes` of both breaks `AbortWaits`).
* A file all of whose copies are damaged is read again for ever: the flaws stop at
  the soft limit and nothing counts the retries (`FileDriver.c:1294`; all copies
  in `Bad` break `Served`).
* A request for the raw device that is refused leaves the disk busy for ever
  (`FileDriver.c:1135`; not in the model, whose raw device takes every request).
* A folio that refuses one task is unloaded although others have it open
  (`folio.c:1098`; `MayRefuse` together with a task that has it open breaks
  `LoadedWhileOpen`).
* A task that exits with a folio open twice: FreeResources closes by searching
  the table it walks, frees another slot than the one it looks at and finds that
  one empty when it comes to it: one close for two opens (`item.c:1052`, `task.c:186`;
  a task in both `MayExit` and `Twice` breaks `OpensCounted`).
* FreeResources walks the array with a pointer that it took once, and sleeps in a
  close; the port and message made meanwhile may have the array reallocated
  (`task.c:184`; wild).
* An exit that closes a folio before it comes to the items of that folio leaves
  them to a folio that is gone (`task.c:184`; wild).
* If the server cannot be asked to unload, the slot of the close stays taken
  (`item.c:1078`; not an input).
* SleepUntilTime returns before its time if a signal of the cue is still pending, of
  an earlier time or sent as the cue was aborted (`audio_timer.c:698`; the
  documentation 47 lines above says that it "will not return until the specified audio
  time is reached"; `TakesSignals` FALSE breaks `SleepsLongEnough`).
* It also returns before its time if the cue monitors an attachment that ends
  meanwhile: the end of an envelope or of a sample signals the cue whether it is posted
  or not (`audio_envelopes.c:1013`, `audio_attachments.c:275`; the same documentation,
  `audio_timer.c:650`; `OneUse` FALSE breaks `SleepsLongEnough`).
* An envelope that was started while its instrument is stopped and is then detached
  leaves its event in the list, since the stop that should remove it does nothing
  (`audio_attachments.c:940`; `Alone` TRUE breaks `EventsExist`).
* ReleaseAttachment of an envelope that was never started posts an event whose
  aevt_Perform is NULL (`audio_envelopes.c:1086`; not in the model).
* A listener of category LC_FocusListener whose queue is full when it loses the focus
  is never told: DoBoilerplateEvents has set li_ToldFocus, and without the focus
  TriggerListener does not look at li_LostEvents (`EventBroker.c:1388`;
  `EventuallyTold` excepts it by `Attends`).
* The message that tells a listener that it has lost the focus brings the control pad
  events of its frame along, and so does one of a system event to an LC_FocusUI without
  the focus (`EventBroker.c:1380`; `event.h:849` says that one will "not be told of any
  control pad or mouse changes when you do not have focus"; the frames of
  `VisitListener`).
* A listener that observes after it was configured to take the focus keeps the focus,
  and EB_SetFocus then refuses it; the comment at `EventBroker.c:915` asks for a rewrite
  (`Configure`).
* Event messages on a port that is deleted do not come back to the broker's pool
  (`EventBroker.c:820`; the messages that are "gone").
* A frame that does not fit the broker's buffer sets li_LostEvents before the message
  is sent, and the sending clears it: the loss is not reported (`EventBroker.c:1545`; not
  in the model).
* A start that fails after it has started envelopes leaves the instrument stopped with
  their events posted (`dspp_instr.c`, DSPPStartInstrument; not in the model, whose
  start succeeds).


## 6. Fairness

The fair specifications of `Exec` and of what is built on it (`FairSpec`,
`LifeFairSpec`, `MailFairSpec`, `IOFairSpec`) assume:

* weak fairness of the kernel's own steps: the processor goes on executing, and
  a SWI, an interrupt handler or a swap that has begun goes on;
* weak fairness of the quantum timer, which is hardware that has been started;
* in `IOFairSpec`, that time passes, that a timer interrupt that is due comes,
  that vertical blanks come, and that the drive starts and finishes requests;
* in `LifeFairSpec`, strong fairness of `ForceKill`, the code a killed task
  executes in user mode: interrupts may take the processor from it again and
  again, but whenever it runs it executes its SWI.

The formulas write out when each step is possible (`Expires`, `Counts`, the states of
`mode`) where WF and SF would have TLC search for a successor; on the instances
these conditions were checked to agree with ENABLED in every reachable state.

`DiskScheduler!FairSpec` assumes that a kernel call that has begun goes on, that the
drive answers, and strong fairness of the daemon: interrupts and calls of tasks
delay it, but its priority of 210 (`FileFolioMain.c:206`) is above every
program's.  `DemandLoad!FairSpec` assumes weak fairness of the server and its
threads, of a task whose answer has come, and of FreeResources.  Neither makes a
program queue, abort, open or close anything.

`AudioTimer!FairSpec` assumes weak fairness of what runs in supervisor mode and of
the interrupt, and strong fairness of the folio's task, which programs and interrupts
delay but whose priority of 190 (`audio_folio.c:396`) is above theirs.  The DSP
ticks again and again, except where `InTime` holds it back.  Programs post, release and
stop as they like.

`EventBroker!FairSpec` assumes that the broker's task runs (a tour ends), that the control
port, which the hardware reads at every vertical blank, gives a clean frame again and
again, and that a program with a port sends its messages back.  The last is what the
broker's queue limits are about: to one that does not, nothing can be said.

In all other models nothing of what a program does is fair: it may loop for ever, never
unlock, never read its port.  `NoStarvation` holds beside such programs because
of the quantum, `DeletionEnds` because a victim is given priority 200.

In `tasks` the constraint removes behaviours that reach `stalenode`; the
liveness properties are claimed for the behaviours that do not.


## 7. What is proved

`ExecProof` proves, for every finite set of tasks and every set of signals and
priorities that satisfies the assumptions named in `Exec`, that `Spec` implies

| Theorem | Property | In words |
|---|---|---|
| `Invariance` | `[]IInv` | the inductive invariant |
| `TypeCorrect` | `TypeOK` | types |
| `PlacementHolds` | `Placement` | every task is in exactly one place, and its flags say which |
| `LostWakeup` | `NoLostWakeup` | a sleeper has none of the bits it waits for |
| `StaleSignal` | `NoStaleSignal` | pending bits are allocated |
| `QueueSorted` | `ReadyQSorted` | the ready queue is sorted |
| `PriorityScheduling` | `HighestRuns` | a program runs beside no better ready task |
| `QuantumHolds` | `QuantumAlive` | time slicing does not stop |
| `SignalsNeverLost` | `SignalsKept` | no step takes a bit from a task that is not resumed by it or its caller |
| `FirstComeHolds` | `FirstComeFirstServed` | of two ready tasks of one priority the first to become ready is launched first |
| `IdleReady` | `NextTaskExists` | there is always a task to run; no run checks it, since it rests on the idle thread making no SWI |

The assumptions are finiteness of the set of tasks, that `SIGF_ABORT` is one of
the system's signals, and the types of the constants; `Exec` names them
`TaskAssumption`, `SigAssumption` and `PriAssumption`, and TLC evaluates them in
every run.

**The argument.**  None of the properties is inductive alone.  `HighestRuns`
looks only at user mode: a better task may become ready in the middle of a SWI,
and the swap on the way out is made only if it was asked for.  `IInv` has
therefore four parts besides the mode:

* `KInv`, what every handler keeps whatever calls it: types, the agreement of
  queues and flags, order of the ready queue, sleepers that have none of their
  bits, pending bits that are allocated, the idle thread not asleep;
* `Running`, where the current task is in each mode.  During the blip it is
  already asleep or even ready again;
* `Asked`, outside the blip: a better ready task has a standing reschedule
  request (a quantum timer that is dead has one too, which is part of `KInv`);
* `Settled`, in user mode: no better task is ready, and beside an equal there
  is no request left over and the quantum counts.

The lemmas follow the code.  `TailInsertQueue` and `RemoveNodeQueue` are about
the queue as a sequence (insertion keeps it sorted and duplicate free), and rest
on the general `SequenceLemmas`.  There is one lemma for each handler
(`SignalLemma`, `ChangePriLemma`, `WaitLemma`, `LaunchLemma`, ...) that says
what it keeps of `KInv` and what it asks for, and one for each action
(`SwiInv`, `StartNextInv`, `SwiRetInv`, `FirqQuantumInv`, `FirqReturnInv`) that
composes them.  `NextInv` is the case split over `Next`.

`SignalsNeverLost` is an action property and needs of `IInv` the types alone.
`Keeps(k, r)` says it of two kernel states; a handler that adds bits
(`SignalKeeps`), a launch (`LaunchKeeps`) and a SWI (`SwiKeeps`) keep it, and
between the two halves of a switch no bits change (`SwitchKeeps`).

`FirstComeHolds` is about the whole order of the queue, of which `IInv` says that it is
sorted.  `Ordered(t, u)` says that `t` is ready, and that `u`, of the same priority, is not or
comes later; `StaysInOrder(q, r, t, u)` says that the queue `r` keeps what `q` has of this.
Queueing a task keeps it because `TailInsertNode` inserts behind all nodes of the same
priority (`InsertOrder`); so do taking the head (`TailOrder`) and taking another task out to
queue it by a new priority (`RemoveOrder`).  `SwiOrder` and `SwitchOrder` compose these as
the handlers do.

`DiskProof` proves `RawAlwaysAgrees`, `Spec => []RawAgrees`, for every finite set of
requests, all priorities, files, damages, limits and numbers of pages that
satisfy `DiskAssumption`.  `RawAgrees` itself is inductive once the fields have
their types (`Agrees(disk)`).  The argument follows the disk's two conditions: a
disk `Rests` when its raw device has nothing to do, and everything the scheduler
does to a resting disk leaves it at rest until it has the catapult read or gives
the device the first of the running list; the end action first brings a disk to
rest, whatever it does with the request that ended, and then gives it the next.
An abort takes a request off a list, and leaves the first where it is, since that
is the one the device serves.

`AudioProof` proves `ClockHolds`, `Spec => []ClockKeeps`, and `ArmedHolds`, `Spec =>
[]Armed`, for any sets of cues and envelopes and all moduli and delays that
satisfy `AudioAssumption`, and `SleepsHolds`, `Spec => SleepsLongEnough`, for programs
that take the signals of their cues (`TakesSignals`) and keep those that monitor an attachment
apart from those they post (`OneUse`).  `Good(D, T, A, s, I)` says of the
DSP, the clock, the folio's task, the step in hand and the instrument:

* `Listed`: the list is in order and no event is in it twice, and all times in
  it lie between `MaxLate` behind and `MaxAhead` ahead of af_Time.  Only with
  such a window is the comparison of times an order at all; that it fits in half of the
  numbers is what `AudioAssumption` asks for, and `AdvanceLemma` that a tick keeps it.
* `Clock`: the ticks are kept, and nothing becomes overdue by more than the window
  before the interrupt is served.
* `Posting`: what PostAudioEvent saw of af_TimerPending is still so, unless an
  interrupt has come and signalled the task.
* `Arming`: between ScheduleNextAudioTimerSignal's assignments af_NextTime is the
  first event's time.
* `Waits`, which is `Armed`.

A handler is a sequence of operators on the clock, and the lemmas are about these:
`InsertOK` and `RemoveOK` (the list), `KeepsGood` and `ScheduleGood` (a step that leaves the
list, and one that ends with the schedule), then one lemma for each action.  `SleepsHolds`
adds that the folio's task runs with a time that has come (`Woken`), that a cue
that is posted, or about to be, has no signal pending (`Signalled`) and monitors no
attachment (`Apart`), and that a stop that is not a program's is for an envelope
(`Stopped`).  Two kinds of steps signal a cue: the task performs it (`PerformedCue`), or an
attachment ends that it monitors (`OnlyPerforms`).  Both hypotheses are needed, as
section 5 says.

`EventsExistHolds` is `Spec => []EventsExist` under the assumption `~Alone`, that is for programs
that leave the envelopes of a stopped instrument alone; section 5 says what happens
otherwise.  It needs to know which attachments have events (`Attended`): active ones of
a running instrument, and, while a stop goes through the attachments, those
that it has not come to yet.

`DiskProof` goes on with the lists of the scheduler.  `OnOneListHolds`, `Spec =>
[]OnOneList`, rests on `Hold`: the to-do, deferred and running lists have no request in
common, none has one twice, and together they have those in progress; besides, a task
that is about to queue a request holds one that is not in progress, whatever
interrupts it.  `NoOvertakingHolds`, `Spec => []NoOvertaking`, adds `Led`: the
running list has one priority, nothing deferred is above it, and nothing that was
queued since is either unless it has boinked the disk.  That the sweep keeps this is
what `HighestLemma` is for: a pass takes exactly the requests of the highest priority.

The last part of `DiskProof` is about the lists that all of this is written with, and has
nothing of the disk in it.  `RefinesQueueHolds`, `~FromHeadBelow => (ListSpec =>
RefinesQueue)`, says that the links of `list.s` implement `QueueSpec` for every finite
set of nodes and all priorities, and that each procedure is the one of its name there.

* The abstraction `Nodes` walks `n_Next` from the head anchor.  The invariant `LinksInv`
  says that the links are those of the sequence it collects (`Chain`): neighbours point at
  each other, the ends at the anchors.  The walk is recursive and cannot be proved about
  by induction over an operator: `WalkMeets` shows, with `SetInduction`, that a walk that
  finds the links of a sequence returns it, and `ListBounded` that the walk is long enough.
* `LinkedBefore` and `NeighboursLinked` say what writing four and two links does to a
  chain: a node is put in at its place, a node is taken out.  Removal of an end that
  may be the only node, where a neighbour is an anchor, is `EndRemoved`.
* `SearchFromTail` and `SearchFromHead` show that the loops of InsertNodeFromTail and
  InsertNodeFromHead stop where `TailInsertNode` and the documentation put the
  node, in lists that are sorted and in those that are not.

The hypothesis excludes the one call for which the code is not what the documentation
says (section 5), and excludes only that: `Lowest(n)` in a list that is not empty.
`ListAssumption` asks that the two anchors are cells of their own.  `Semaphores` uses the
same operators, one list per semaphore, but its nodes may be unlinked twice, so its
refinement does not follow from this one.

`PortsProof` extends `ExecProof`, whose `IInv` is a part of its invariant `MailInv`, and
proves `MsgPlacedHolds`, `Spec => []MsgPlaced`, and `NoneMissedHolds`, `Spec =>
[]NoneMissed`, for all tasks, ports, messages and priorities that satisfy
`PortAssumption`.  `MailInv` says that

* msg_MsgPort alone places a message (`Placed`), and the flags follow from it
  (`Marked`);
* each port has a signal that its owner has allocated, and no other port of that owner
  has it (`OwnSignals`): this is why a signal that comes for one port is not taken
  by a wait on another;
* a task inside WaitPort waits on its own port (`WaitersKnown`), and one that
  is asleep there waits for what has not come (`Asleeps`);
* the tasks that wait for a deleted message are those with SIGF_ABORT
  (`ToldOfDelete`), and `msg_Waiters` counts the others (`Counted`), so that the
  deletion, which signals only if the count is not zero, misses nobody.

The signals, sleeps and launches of `Exec` enter by its lemmas, one for each handler.

`EventProof` proves `MessagesAccountedHolds` and `NotesKeptHolds` for any set of listeners
that ask for anything, in any order.  `BrokerInv` says of each listener what the broker's
notes have to do with what the program was told (`Noted`, `Told`), and, of the one for
which a message is being made, that the message says what is noted (`Tells`).  A
listener that is not on the list has nothing outstanding, one that has not been configured
has no triggers; both are needed where a new listener takes the place of nothing.

`IOProof` too extends `ExecProof`.  It proves, for any set of tasks, requests, commands
and delays that satisfy the assumptions of `IOReqs` and `IOCalls`,

| Theorem | Property | Hypotheses |
|---|---|---|
| `TimerArmedHolds` | `TimerArmed` | `Known` |
| `WaitsForProgressHolds` | `WaitsForProgress` | `Known` |
| `DriverHasItHolds` | `DriverHasIt` | `Known`, `OwnDeletes` |
| `AbortWaitsHolds` | `AbortWaits` | `Known`, `OwnDeletes`, `Apart` |
| `NotifiedHolds` | `Notified` | `Known`, `Lasting` |
| `NoLongerActiveHolds` | `NoLongerActive` | `Known`, `OwnDeletes`, `TakesMessages` |

The hypotheses say what programs do, the instances of `iotimer` and `iodrive` satisfy all
of them, and none is for want of an argument:

* `Known`, that the drive is given commands that it knows.  Another is never completed, and
  an abort unlinks it from a list on which it is not: what that does to the lists is
  not modelled (section 5).
* `OwnDeletes`, that a request of the drive is deleted by its owner alone.  The drive keeps an
  aborted request that is running, so that the deletion sleeps, and the owner could start it
  again before the deleter runs.  A timer request is done when it is aborted: any privileged
  task may delete it.
* `Apart`, that the memory a request reads into is not given up by one task while another
  deletes the request.  Without it TLC finds the counterexample to `AbortWaits` of section 5.
* `Lasting`, that a delay in microseconds which is asked for with IO_QUICK has a length.  One of
  none is over before SendIO looks at the flag, and breaks `Notified` (section 5).
* `TakesMessages`, a constant of the model: a program takes the message of a request before
  it uses the request again.  Otherwise the message on the port is of a use that is over, and
  WaitIO is satisfied by it (section 5).

The invariant comes in layers, each inductive with those below it.

`IOInv` adds to the executive's `IInv`:

* `Lists`: a request is on one list of its device, once; `InProgress`: it is on one
  exactly while it is not done;
* `Upward` and `Set`: the microsecond list is in order and the hardware timer set for its
  first request, which is `TimerArmed`;
* `Calls`: what a task inside a SWI that sleeps is about (`CallKnown`) and what it knows
  (`Informed`).  A waiter that was not asleep when its request ended looks again; one that
  was has a signal, or has just got it; one whose request was deleted has SIGF_ABORT.  This
  is what makes the test in internalWaitIO and the sleep, two steps with interrupts between
  them, safe.

`DelInv` adds that a deleted request was done (`DeletedDone`) and `Ends`: io_SigItem names only
a task that sleeps for that very request, and a task that deletes a request gets
SIGF_ONESHOT only when the request is done.  In `IOCalls` the completion is the one sender of
that signal; `Lets` says of every step that a task gets it only for a request that names it
and is done.  (Other senders, programs above all, are the restriction of section 3.)  `AbortInv` adds `Waits`, that a task which
sleeps for an aborted request is named by it or has its signal, and `OneScans`, that the
device semaphore lets one task scan.

There is one lemma for each operator of the drivers (insertion, `reprocess`, the
interrupts, completion), which are about `[k, io]` as the operators are, then one for each
action: the task in whose name it runs gets its new call (`Fits`), and the others'
calls still fit because the step only completes requests, posts messages and sends signals.

`NotifiedHolds` is an action property and needs of `IOInv` that a quick request is done, so
that one in progress, whoever completes it, is not quick.  `News` says it of a step; a device
that serves requests makes news (`ServesNews`), as does SendIO of its own request (`Tended`), and
an abort clears SIGF_ONESHOT, not the SIGF_IODONE that it has just sent (`AbortAndWaitNews`).

`NoLongerActiveHolds` is about the step with which WaitIO returns, and needs to know who has
SIGF_ABORT.  `WarnInv` adds to `DelInv` that a message on the reply port is that of a request
that is done (`PostedDone`), and for each task (`Warned`) that it has SIGF_ABORT only while it
sleeps in WaitIO for a request that has been deleted, that internalWait leaves no SIGF_ABORT
behind, and that IO_WAITING is set only on the request that its owner waits for.  So a wait
that SIGF_ABORT ends is for a deleted request, of which the property says nothing, and one
that the message or IO_DONE ends is for one that is done, which no driver has by `InProgress`.
`OwnDeletes` is needed because IO_WAITING stays set when the deletion signals SIGF_ABORT: if two
tasks deleted one request of the drive, the second would send the signal again, to
an owner that may wait for another request by then.  The third conjunct of `Warned` is
preserved because `Spares` holds of all that other tasks and devices do (`ServesSpares`).

Proving `IOInv` found an error in the model: the signals of the reply ports were not
allocated at the start, so that no task ever slept for a message, and three properties had
not seen it.

`LoadProof` proves `SlotsAccountedHolds`, `OpensCountedHolds` and `UnloadedWhenClosedHolds`
for any number of tasks and copies of the folio, and for tables of any size.
Its invariant `LoadInv` has two parts.  `SlotsOK` says of one task that its
resource table is in order (`GoodTable`: each slot is free once, holds an entry, or
is held by the close that sleeps); it holds even after freed memory was used.
Until then `Tame` holds:

* `CallOK`, a task and its call: it has the port and the message it asks the server
  with, its sleeping close has the slot it took, FreeResources is within the table;
* `Phase`, the exchange with the server: where the request is (port, thread, answer)
  and what has happened to the copy are the stages of a load and of an unload
  (`LoadPhase`, `UnloadPhase`);
* `Counted`, what a copy counts as opens: exactly the live slots of all tasks if no task
  both opens twice and exits, at least as many otherwise;
* `Needed`, a copy in memory has an open or a call about it.

A step changes the table and the call of one task and at most one copy: `MoveInv`
is the frame rule that all handlers share, and what remains for each is the change
it makes to one table (`AllocGood`, `FillGood`, `FreeGood`, `FreeManyGood`: lemmas
about the operators of `ResourceTable`) and to one stage of the exchange.
`OpensCountedHolds` assumes `Twice \cap MayExit = {}`.  That is not for want of an argument:
of two opens of an exiting task FreeResources closes one, as section 5 says,
and `Counted` says what is left of the property in that case.

Proving `LoadInv` found an error in the model.  The close of a task that exits sleeps for the
unloading, and the model had it return to the exit by looking at what was left to
walk, of which there is none after the last slot: such a task came back as a running
program.  The code returns to FreeResources, whatever is left; the call now says whether
it is one of an exit (`exits`).  No property had seen it.

`SequenceLemmas` has what these proofs need of sequences: insertion, removal,
concatenation, injectivity and order.  Recursive definitions are reasoned about
with `SetInduction`: a set of numbers that has 0 and the successor of
each of its members is all of them.  It has a set where the library's theorem has an
operator, and the set is that of the numbers for which the claim holds.

**Model-checked only**

* Every liveness property (`Served`, `CallsReturn`, `CuesHappen`, `EventuallyTold`,
  `Received`, `CallsEnd`, `DeletionEnds`, `NoStarvation`): fairness and ENABLED are not
  within the prover's reach.
* The refinement `RefinesSemaphore`: the lists of all semaphores share their nodes, and a
  stale unlinking (section 5) has to be excluded first; not attempted yet.
* `HoldersAgree`, `WaitersQueued` and `DeathsInOrder` of `Tasks`.  The first two hold only in
  the states that the constraint `UnlinksOwnNode` leaves, so they are not theorems of the
  specification as it stands.  `DeathsInOrder` takes the new owner of a semaphore from its list,
  so a proof of it needs the lists to be intact as well: it comes after the first two.


## 8. What is not covered

Not modelled at all: boot and dipir, exceptions, console, graphics, the DSP and
its instruments, international and string folios, decompression, the shell,
libraries and examples: hardware, data conversions and clients of the kernel.

Not modelled yet, though a model would reach it: the item table with its
generations, open counts of devices, the allocator and page ownership, the levels
of the CD-ROM driver, linked memory and Barf file systems, open files and streams,
the pods of the event broker, samples and DSP resources.  `PROJECT.json` lists their hazards
with the line where each bites, those of the parts already modelled first.

Within the modelled parts: argument checks that refuse before any state changes
are a single refusal or are left out; the execution time accounting of tasks;
small and buffered messages, unique ports, and ports deleted by a super task;
`CmdDelayUntil`; requests with callbacks other than the file system's; the
transfer of items; in the file system, writes, and what is read.


## 9. Plan

A run is one question, and there are few of them: a model that is added shares
a run between its safety and liveness properties, and a property of a smaller
model gives way to a deeper one of the model that composes it.

Done, in this order: executive and its proofs; lists; semaphores and tasks;
ports; I/O with two devices; the disk scheduler and its proof; resource tables
and folios on demand; the audio clock and its proof; the event broker.

Next, models, in order of importance:

1. `Items`: the item table with generations and free list; `SetItemOwner`,
   `OpenItemAsTask`, `ReleaseDeviceIOReqs`, on `ResourceTable`.  Abstract
   specification: a bag of opens per task and item, closed as often as opened.
2. `DemandLoad` with several folios that open each other in their main().
3. `CDRomLevels`: the three levels, timeouts and retries, refining `CDRom`.
4. `Pods`: login, logout and renumbering on a bus with noise, below `EventBroker`.
5. `FreeLists` (`allocmem.c`): free and coalesce against a set of free bytes.
6. Compositions: tasks that die in `Ports` and with I/O in progress;
   deletion of ports by super tasks; `DiskScheduler` over `CDRom`.

Abstract specifications worth stating: a scheduler that always runs a best task
and rotates equals (refined by `Exec`); a request that is idle, in progress or
complete (refined by `IOCalls`).

Next, proofs, in order of importance:

1. `WaitersQueued` and `HoldersAgree` of `Tasks` for the specification whose next step is
   restricted as the constraint restricts the runs, then `DeathsInOrder`.
2. `RefinesSemaphore`, with the lemmas about `Links` carried from one list to one list per
   semaphore; the refinement of the abstract scheduler.


## 10. Running it

    tlc -workers 2 -config MCExec.cfg MCExec
    tlapm ExecProof.tla

`IOProof` takes a quarter of an hour to check, `LoadProof` six minutes or more, `DiskProof`
about four, the other proofs one to three.

`PROJECT.json` lists the runs with their modules and configurations, the
mutants, the theorems, the findings and the hazards.

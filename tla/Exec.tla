-------------------------------- MODULE Exec --------------------------------
(***************************************************************************)
(* The executive of the Portfolio kernel: task scheduling and signals.     *)
(*                                                                         *)
(* One processor runs the task kb_CurrentTask.  Every other task is on     *)
(* kb_TaskReadyQ (sorted by priority, first come first served among        *)
(* equals) or on kb_TaskWaitQ (asleep inside internalWait).  A task calls  *)
(* the kernel with a SWI.  A SWI is not preempted by another task: only    *)
(* fast interrupts (FIRQs) run in the middle of it, and a FIRQ that finds  *)
(* the processor in supervisor mode never swaps tasks.  The build is the   *)
(* single threaded kernel: MULTIT and FORBID are undefined.                *)
(*                                                                         *)
(* Handlers are operators that map one kernel state to the next, so that   *)
(* a SWI that makes several calls is their composition.                    *)
(***************************************************************************)
EXTENDS Queue

CONSTANTS
  Task,        \* the tasks and threads of the system
  NoTask,      \* kb_CurrentTask when its task has just died
  Idle,        \* the operator's idle thread, which makes no SWI
  SuperTask,   \* the tasks created with CREATETASK_TAG_SUPER
  Owner,       \* the owner of each task: the task that created it
  SuperSigs,   \* bits of SUPER_SIGS; every task has them allocated
  UserSigs,    \* bits a task gets from AllocSignal
  ABORT,       \* the bit of SIGF_ABORT
  InitPri,     \* priority of each task when it is created
  NewPri       \* priorities the tasks ask SetItemPri for

Sig == SuperSigs \cup UserSigs

\* The priorities a task that is not a super task may be given.
PriMin == 10
PriMax == 199

ASSUME TaskAssumption ==
  /\ IsFiniteSet(Task)
  /\ Idle \in Task
  /\ NoTask \notin Task
  /\ SuperTask \subseteq Task
  /\ Owner \in [Task -> Task \cup {NoTask}]

ASSUME SigAssumption ==
  /\ SuperSigs \subseteq Nat /\ UserSigs \subseteq Nat
  /\ SuperSigs \cap UserSigs = {}
  /\ ABORT \in SuperSigs

ASSUME PriAssumption ==
  /\ InitPri \in [Task -> Nat]
  /\ NewPri \subseteq Nat

VARIABLES
  kb,     \* KernelBase and the scheduling fields of the tasks
  mode    \* what the processor is doing

vars == <<kb, mode>>

(***************************************************************************)
(* What the processor is doing:                                            *)
(*   user   the current task runs its own code, interrupts enabled         *)
(*   swi    a SWI handler has done its work, swi_ret has not disabled      *)
(*          interrupts yet                                                 *)
(*   blip   internalWait has put the current task to sleep and lets        *)
(*          pending interrupts in before it takes the next task            *)
(*   firq   FirqHandler, entered from user mode                            *)
(***************************************************************************)
Mode == {"user", "swi", "blip", "firq"}

\* TASK_READY, TASK_WAITING and TASK_RUNNING of n_Flags.
Flag == {"ready", "waiting", "running"}

\* The mode bits of t_psr: where Launch resumes a task that is not running.
Psr == {"user", "super"}

KernelState ==
  [CurrentTask : Task \cup {NoTask},
   TaskReadyQ : Seq(Task),
   TaskWaitQ : SUBSET Task,
   PleaseReschedule : BOOLEAN,
   quantaclock : BOOLEAN,           \* the one-shot quantum timer is counting
   Flags : [Task -> Flag],
   psr : [Task -> Psr],
   Priority : [Task -> Nat],
   AllocatedSigs : [Task -> SUBSET Sig],
   SigBits : [Task -> SUBSET Sig],
   WaitBits : [Task -> SUBSET Sig],
   ret : SUBSET Sig]                \* what internalWait returns to its caller

-----------------------------------------------------------------------------
(* The ready queue *)

MakeReady(k, t) ==
  [k EXCEPT !.Flags[t] = "ready",
            !.TaskReadyQ = TailInsertNode(@, k.Priority, t)]

-----------------------------------------------------------------------------
(* Leaving and entering a task *)

HeadPri(k) == k.Priority[Head(k.TaskReadyQ)]

CurPri(k) == k.Priority[k.CurrentTask]

CLand(k) == [k EXCEPT !.Flags[k.CurrentTask] = "ready"]

CLaunch(k, t) ==
  [k EXCEPT !.CurrentTask = t,
            !.Flags[t] = "running",
            !.PleaseReschedule = FALSE,
            !.quantaclock = TRUE]

\* internalWait after ULand returns the second time: it takes the bits it
\* waited for.  WaitBits is read only while the task sleeps; the model
\* forgets it here.
Resume(k, t) ==
  LET res == k.WaitBits[t] \cap k.SigBits[t] IN
  [k EXCEPT !.SigBits[t] = @ \ res,
            !.WaitBits[t] = {},
            !.psr[t] = "user",
            !.ret = res]

\* CLaunch and Launch, of a task that has just left the queue.
Launch(k, t) ==
  IF k.psr[t] = "super" THEN Resume(CLaunch(k, t), t) ELSE CLaunch(k, t)

LaunchMode(k, t) == IF k.psr[t] = "super" THEN "swi" ELSE "user"

DequeueHead(k) == [k EXCEPT !.TaskReadyQ = Tail(@)]

-----------------------------------------------------------------------------
(* Signals *)

\* Mutant of internalSignal: tests the bits pending before the signal.
internalSignal_OldBits(k, t, bits) ==
  LET s == [k EXCEPT !.SigBits[t] = @ \cup bits] IN
  IF ~(bits \subseteq k.AllocatedSigs[t]) THEN k
  ELSE IF k.Flags[t] = "waiting" /\ k.SigBits[t] \cap k.WaitBits[t] # {}
       THEN MakeReady([s EXCEPT !.TaskWaitQ = @ \ {t}], t)
       ELSE s

\* Mutant of internalSignal: replaces the pending bits of a task it does not
\* wake.
internalSignal_Replaces(k, t, bits) ==
  IF ~(bits \subseteq k.AllocatedSigs[t]) THEN k
  ELSE IF k.Flags[t] = "waiting" /\ bits \cap k.WaitBits[t] # {}
       THEN MakeReady([k EXCEPT !.TaskWaitQ = @ \ {t}, !.SigBits[t] = @ \cup bits], t)
       ELSE [k EXCEPT !.SigBits[t] = bits]

internalSignal(k, t, bits) ==
  LET sigs  == k.SigBits[t] \cup bits
      s     == [k EXCEPT !.SigBits[t] = sigs]
      awake == MakeReady([s EXCEPT !.TaskWaitQ = @ \ {t}], t)
      me    == k.CurrentTask
  IN  IF ~(bits \subseteq k.AllocatedSigs[t]) THEN k
      ELSE IF k.Flags[t] = "waiting" /\ sigs \cap k.WaitBits[t] # {}
           THEN [awake EXCEPT !.PleaseReschedule =
                   @ \/ (me # NoTask /\ k.Priority[me] < k.Priority[t])]
           ELSE s

ClearSignals(k, t, bits) == [k EXCEPT !.SigBits[t] = @ \ bits]

\* internalWait: every wait can be aborted.
Awaited(bits) == bits \cup {ABORT}

WaitSleeps(k, bits) ==
  /\ bits \subseteq k.AllocatedSigs[k.CurrentTask]
  /\ Awaited(bits) \cap k.SigBits[k.CurrentTask] = {}

FallAsleep(k, bits) ==
  LET t == k.CurrentTask IN
  [CLand(k) EXCEPT !.Flags[t] = "waiting",
                   !.psr[t] = "super",
                   !.WaitBits[t] = Awaited(bits),
                   !.TaskWaitQ = @ \cup {t}]

internalWait(k, bits) ==
  LET t   == k.CurrentTask
      res == Awaited(bits) \cap k.SigBits[t]
  IN  IF ~(bits \subseteq k.AllocatedSigs[t]) THEN k
      ELSE IF res # {} THEN [ClearSignals(k, t, res) EXCEPT !.ret = res]
      ELSE FallAsleep(k, bits)

-----------------------------------------------------------------------------
(* The SWIs of a task *)

Me == kb.CurrentTask

\* A SWI starts: the current task is in user mode.  The idle thread never
\* makes one.
Swi == mode = "user" /\ Me # Idle

Return(k) == kb' = k /\ mode' = "swi"

SuperCaller == Me \in SuperTask

ValidateSignal(bits) == bits \cap SuperSigs # {} => SuperCaller

Wait(bits) ==
  /\ Swi
  /\ kb' = internalWait(kb, bits)
  /\ mode' = IF WaitSleeps(kb, bits) THEN "blip" ELSE "swi"

SendSignal(t, bits) ==
  /\ Swi
  /\ Return(IF ValidateSignal(bits) THEN internalSignal(kb, t, bits) ELSE kb)

\* AllocSignal of particular bits.
AllocSignal(sig) ==
  LET old == kb.AllocatedSigs[Me] IN
  /\ Swi
  /\ Return(IF sig \cap (SuperSigs \cup old) # {} THEN kb
            ELSE ClearSignals([kb EXCEPT !.AllocatedSigs[Me] = old \cup sig],
                              Me, sig))

\* Mutant of AllocAnySignal: goes one bit too far when none is free.
AllocAnySignal_TooFar ==
  LET used == kb.AllocatedSigs[Me]
      next == CHOOSE b \in 0..32 : b \notin used /\ \A c \in UserSigs \cap used : c < b
  IN  Swi /\ Return([kb EXCEPT !.AllocatedSigs[Me] = @ \cup {next}])

\* AllocSignal(0): the lowest bit that is free, if there is one.
AllocAnySignal ==
  LET free   == UserSigs \ kb.AllocatedSigs[Me]
      lowest == {b \in free : \A c \in free : b <= c}
  IN  /\ Swi
      /\ Return(ClearSignals([kb EXCEPT !.AllocatedSigs[Me] = @ \cup lowest],
                             Me, lowest))

\* Mutant of FreeSignal: leaves the freed bits pending.
FreeSignal_Pending(sigs) ==
  LET old == kb.AllocatedSigs[Me] IN
  /\ Swi
  /\ Return(IF sigs \cap SuperSigs # {} \/ ~(sigs \subseteq old) THEN kb
            ELSE [kb EXCEPT !.AllocatedSigs[Me] = old \ sigs])

FreeSignal(sigs) ==
  LET old == kb.AllocatedSigs[Me] IN
  /\ Swi
  /\ Return(IF sigs \cap SuperSigs # {} \/ ~(sigs \subseteq old) THEN kb
            ELSE ClearSignals([kb EXCEPT !.AllocatedSigs[Me] = old \ sigs],
                              Me, sigs))

Yield == Swi /\ Return([kb EXCEPT !.PleaseReschedule = TRUE])

BadPriv(t) == Me \notin SuperTask \cup {Owner[t], t}

\* Mutant of internalChangeTaskPri: asks for no reschedule.
internalChangeTaskPri_Quiet(k, t, newpri) ==
  LET s == [k EXCEPT !.Priority[t] = newpri] IN
  IF t \notin SuperTask /\ (newpri > PriMax \/ newpri < PriMin) THEN k
  ELSE IF k.Flags[t] # "ready" THEN s
  ELSE MakeReady([s EXCEPT !.TaskReadyQ = RemoveNode(@, t)], t)

internalChangeTaskPri(k, t, newpri) ==
  LET me     == k.CurrentTask
      oldpri == k.Priority[me]
      s      == [k EXCEPT !.Priority[t] = newpri]
      moved  == MakeReady([s EXCEPT !.TaskReadyQ = RemoveNode(@, t)], t)
  IN  IF t \notin SuperTask /\ (newpri > PriMax \/ newpri < PriMin) THEN k
      ELSE IF t = me
           THEN [s EXCEPT !.PleaseReschedule = @ \/ newpri < oldpri]
      ELSE IF k.Flags[t] = "waiting" THEN s
      ELSE [moved EXCEPT !.PleaseReschedule = @ \/ newpri > oldpri]

SetItemPri(t, newpri) ==
  /\ Swi
  /\ Return(IF BadPriv(t) THEN kb ELSE internalChangeTaskPri(kb, t, newpri))

-----------------------------------------------------------------------------
(* Switching tasks *)

\* Mutant of ShouldSwap: to a better task only, not to an equal one.
ShouldSwap_Better(k) ==
  /\ k.PleaseReschedule
  /\ k.TaskReadyQ # <<>>
  /\ k.CurrentTask # NoTask
  /\ CurPri(k) < HeadPri(k)

\* The test swi_ret and roundrobin make.
ShouldSwap(k) ==
  /\ k.PleaseReschedule
  /\ k.TaskReadyQ # <<>>
  /\ k.CurrentTask # NoTask
  /\ CurPri(k) <= HeadPri(k)

\* internalWait goes on to the first ready task.
StartNext ==
  /\ mode = "blip"
  /\ kb.TaskReadyQ # <<>>
  /\ LET next == Head(kb.TaskReadyQ) IN
       /\ kb' = Launch(DequeueHead(kb), next)
       /\ mode' = LaunchMode(kb, next)

\* swi_ret lands the current task behind its equals, then takes the head.
SwiSwap(k) == MakeReady(CLand(k), k.CurrentTask)

SwiRet ==
  /\ mode = "swi"
  /\ LET done   == [kb EXCEPT !.ret = {}]
         landed == SwiSwap(done)
         next   == Head(landed.TaskReadyQ)
     IN  IF ShouldSwap(kb)
         THEN /\ kb' = Launch(DequeueHead(landed), next)
              /\ mode' = LaunchMode(landed, next)
         ELSE kb' = done /\ mode' = "user"

-----------------------------------------------------------------------------
(* Interrupts *)

FirqMode == IF mode = "user" THEN "firq" ELSE mode

\* A device's interrupt handler signals a task.
FirqSignal(t, bits) ==
  /\ kb' = internalSignal(kb, t, bits)
  /\ mode' = FirqMode

\* Mutant of cblank: never reloads the one-shot timer.
cblank_OneShot(k) ==
  [k EXCEPT !.PleaseReschedule =
     @ \/ (k.TaskReadyQ # <<>> /\ CurPri(k) <= HeadPri(k)),
            !.quantaclock = FALSE]

\* cblank: the quantum of the current task has expired.
cblank(k) ==
  LET t       == k.CurrentTask
      resched == \/ k.PleaseReschedule
                 \/ k.TaskReadyQ # <<>> /\ CurPri(k) <= HeadPri(k)
  IN  IF t = NoTask THEN [k EXCEPT !.quantaclock = FALSE]
      ELSE [k EXCEPT !.PleaseReschedule = resched, !.quantaclock = ~resched]

FirqQuantum ==
  /\ kb.quantaclock
  /\ kb' = cblank(kb)
  /\ mode' = FirqMode

\* The quantum timer counts, and its interrupt would change something.
Expires == kb.quantaclock /\ (mode = "user" \/ cblank(kb) # kb)

\* FirqHandler takes the head before it puts the current task back.
FirqReturn ==
  /\ mode = "firq"
  /\ LET next == Head(kb.TaskReadyQ)
         swap == MakeReady(DequeueHead(CLand(kb)), kb.CurrentTask)
     IN  IF ShouldSwap(kb)
         THEN kb' = Launch(swap, next) /\ mode' = LaunchMode(kb, next)
         ELSE kb' = kb /\ mode' = "user"

-----------------------------------------------------------------------------
(* The operator has created the tasks, which have allocated the bits alloc: *)
(* the best one runs, none sleeps.                                          *)
Started(alloc) ==
  /\ \E q \in SetToSeqs(Task) :
       /\ ToSet(q) = Task
       /\ Sorted(q, InitPri)
       /\ kb = [CurrentTask |-> Head(q),
                TaskReadyQ |-> Tail(q),
                TaskWaitQ |-> {},
                PleaseReschedule |-> FALSE,
                quantaclock |-> TRUE,
                Flags |-> [t \in Task |-> IF t = Head(q) THEN "running" ELSE "ready"],
                psr |-> [t \in Task |-> "user"],
                Priority |-> InitPri,
                AllocatedSigs |-> alloc,
                SigBits |-> [t \in Task |-> {}],
                WaitBits |-> [t \in Task |-> {}],
                ret |-> {}]
  /\ mode = "user"

Init == Started([t \in Task |-> SuperSigs])

SigSet == (SUBSET Sig) \ {{}}

TaskSwi ==
  \/ Yield
  \/ AllocAnySignal
  \/ \E sigs \in SigSet : Wait(sigs) \/ AllocSignal(sigs) \/ FreeSignal(sigs)
  \/ \E t \in Task : \/ \E sigs \in SigSet : SendSignal(t, sigs)
                     \/ \E p \in NewPri : SetItemPri(t, p)

\* Interrupt handlers signal with bits of their clients, never SIGF_ABORT.
Firq ==
  \/ FirqQuantum
  \/ \E t \in Task, sigs \in SigSet : ABORT \notin sigs /\ FirqSignal(t, sigs)

Next == TaskSwi \/ StartNext \/ SwiRet \/ Firq \/ FirqReturn

Spec == Init /\ [][Next]_vars

\* The processor goes on executing, and a timer that is counting expires.
Fairness ==
  WF_vars(StartNext) /\ WF_vars(SwiRet) /\ WF_vars(FirqReturn) /\ WF_vars(FirqQuantum)

FairSpec == Spec /\ Fairness
-----------------------------------------------------------------------------
(* Properties *)

\* Every field has its type.
TypeOK == kb \in KernelState /\ mode \in Mode

\* The queues agree with n_Flags.
Linked(k) ==
  /\ IsInjective(k.TaskReadyQ)
  /\ \A t \in Task : /\ k.Flags[t] = "ready" <=> t \in ToSet(k.TaskReadyQ)
                     /\ k.Flags[t] = "waiting" <=> t \in k.TaskWaitQ

\* A task is running, on the ready queue once, or on the wait queue, and
\* n_Flags says which: internalSignal and internalChangeTaskPri unlink a node
\* on the strength of the flag alone.  During the blip of internalWait the
\* current task is already asleep, or even woken again.
Placement ==
  /\ Linked(kb)
  /\ \A t \in Task :
       kb.Flags[t] = "running" <=> t = kb.CurrentTask /\ mode # "blip"

\* No lost wakeup: a task asleep in internalWait has none of the bits it waits
\* for, whatever interrupts came between its test and its sleep; and it has
\* not freed a bit it waits for.
NoLostWakeup ==
  \A t \in kb.TaskWaitQ :
    /\ kb.SigBits[t] \cap kb.WaitBits[t] = {}
    /\ ABORT \in kb.WaitBits[t]
    /\ kb.WaitBits[t] \subseteq kb.AllocatedSigs[t]

\* A bit is pending only while it is allocated, so AllocSignal never hands out
\* a bit that is already set, and a late signal to a freed bit is refused.
NoStaleSignal == \A t \in Task : kb.SigBits[t] \subseteq kb.AllocatedSigs[t]

\* The ready queue is sorted, whatever priorities were changed on the way:
\* the switching code compares the current task with the head alone.
ReadyQSorted == Sorted(kb.TaskReadyQ, kb.Priority)

\* No priority inversion: whenever a task runs its own code no ready task has
\* a higher priority (the comment in internalYield relies on it).
HighestRuns ==
  mode = "user" /\ kb.TaskReadyQ # <<>> => CurPri(kb) >= HeadPri(kb)

\* Time slicing never stops.  cblank leaves the one-shot timer dead when a
\* reschedule is requested, and a request that finds no task to switch to
\* stays behind; yet a task that runs its own code beside a ready equal
\* always has a live quantum, and a dead timer always has a standing request.
QuantumAlive ==
  /\ kb.quantaclock \/ kb.PleaseReschedule
  /\ mode = "user" /\ kb.TaskReadyQ # <<>> /\ CurPri(kb) = HeadPri(kb)
     => kb.quantaclock /\ ~kb.PleaseReschedule

\* "Idle Task missing": internalWait always finds a ready task.
NextTaskExists == mode = "blip" => kb.TaskReadyQ # <<>>

\* Only the task a signal was sent to takes it: no step loses a pending bit of
\* a task that is neither the caller nor the task being resumed.
SignalsKept ==
  [][\A t \in Task : ~(kb.SigBits[t] \subseteq kb'.SigBits[t]) =>
        t = kb'.CurrentTask]_vars

Before(k, t, u) ==
  \E i, j \in DOMAIN k.TaskReadyQ :
    i < j /\ k.TaskReadyQ[i] = t /\ k.TaskReadyQ[j] = u

\* t is ready, and u is not, or queued after it.
Ahead(k, t, u) == k.Flags[t] = "ready" /\ (k.Flags[u] = "ready" => Before(k, t, u))

\* First come, first served: among tasks of one priority a task that becomes
\* ready, is woken or loses the processor goes behind those that are ready
\* already, and is not launched before them, unless a SWI gives one of them a
\* priority.
FirstComeFirstServed ==
  [][\A t, u \in Task :
        /\ t # u /\ Ahead(kb, t, u)
        /\ kb.Priority[t] = kb.Priority[u]
        /\ ~(\E p \in NewPri : SetItemPri(t, p) \/ SetItemPri(u, p))
        => /\ kb'.Flags[t] = "ready" => Ahead(kb', t, u)
           /\ kb.Flags[u] = "ready" => kb'.Flags[u] = "ready"]_vars

\* A ready task with no better task ready or running.
Top(t) ==
  /\ kb.Flags[t] = "ready"
  /\ \A u \in Task : kb.Flags[u] \in {"ready", "running"} =>
                       kb.Priority[u] <= kb.Priority[t]

\* Round robin: no task stays ready forever at the highest ready priority.
NoStarvation == \A t \in Task : []<>~Top(t)
=============================================================================

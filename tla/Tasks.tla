------------------------------- MODULE Tasks --------------------------------
(***************************************************************************)
(* The life of tasks and threads, and the semaphores they lock: task.c     *)
(* and semaphore.c as SWIs of the executive.                               *)
(*                                                                         *)
(* Three SWIs sleep in the middle: a lock of a semaphore that another task *)
(* owns, the deletion of another task, and the deletion of the caller,     *)
(* which deletes its threads one by one.  The rest of such a SWI runs when *)
(* the task does again; call says what is left to do.                      *)
(***************************************************************************)
EXTENDS Semaphores

CONSTANTS
  Born,       \* the tasks that exist at the start; the others are created
  Creator,    \* the task whose program creates each semaphore
  MayKill,    \* pairs: the first's program may delete the second
  MaxNest     \* bound: how often a program nests its locks

ASSUME LifeAssumption ==
  /\ Idle \in Born /\ Born \subseteq Task
  /\ Creator \in [Sem -> Task]
  /\ MayKill \subseteq Task \X Task
  /\ MaxNest \in Nat

VARIABLES
  sem,        \* the semaphores
  tasks,      \* kb_Tasks, and TASK_EXITING and t_Killer of every task
  call,       \* the SWI each task is in the middle of
  held        \* how often each program believes to have each semaphore locked

life == <<sem, tasks, call, held>>

TaskState ==
  [Tasks : SUBSET Task, Exiting : SUBSET Task,
   Killer : [Task -> Task \cup {NoTask}]]

(***************************************************************************)
(* What is left of a SWI:                                                  *)
(*   lock   LockItem sleeps on the list of the semaphore                   *)
(*   kill   internalKill sleeps until the task is dead                     *)
(*   free   internalKill of the caller, in FreeResources                   *)
(*   freekill   the same, asleep until the thread is dead                  *)
(***************************************************************************)
Call == [op : {"none", "lock", "kill", "free", "freekill"},
         on : Sem \cup Task \cup {NoTask}]

NoCall == [op |-> "none", on |-> NoTask]

Enter(op, on) == call' = [call EXCEPT ![Me] = [op |-> op, on |-> on]]

\* The current task goes on with a SWI it has slept in.
In(op) == mode = "swi" /\ Me # NoTask /\ call[Me].op = op

\* A program calls the kernel.  The user code of an exiting task is ForceKill.
Caller == Swi /\ Me \notin tasks.Exiting

Refuse == Return(kb) /\ UNCHANGED life

InternalWait(k, bits) ==
  /\ kb' = internalWait(k, bits)
  /\ mode' = IF WaitSleeps(k, bits) THEN "blip" ELSE "swi"

Now == [k |-> kb, s |-> sem]

Becomes(X) == Return(X.k) /\ sem' = X.s

-----------------------------------------------------------------------------
(* Semaphores *)

CreateSemaphore(s) ==
  /\ Caller /\ s \in sem.Fresh /\ Creator[s] = Me
  /\ Becomes([k |-> kb, s |-> internalCreateSemaphore(sem, s)])
  /\ UNCHANGED <<tasks, call, held>>

LockFree(s) ==
  /\ Caller /\ s \in Made(sem) /\ IsFree(sem, s)
  /\ Becomes([k |-> kb, s |-> TakeFree(sem, s, Me)])
  /\ held' = [held EXCEPT ![Me][s] = @ + 1]
  /\ UNCHANGED <<tasks, call>>

LockAgain(s) ==
  /\ Caller /\ s \in Made(sem) /\ sem.Owner[s] = Me
  /\ sem.NestCnt[s] < MaxNest
  /\ Becomes([k |-> kb, s |-> TakeAgain(sem, s)])
  /\ held' = [held EXCEPT ![Me][s] = @ + 1]
  /\ UNCHANGED <<tasks, call>>

OwnedByOther(s) ==
  s \in Made(sem) /\ ~IsFree(sem, s) /\ sem.Owner[s] # Me

LockRefused(s) == Caller /\ (OwnedByOther(s) \/ s \notin Made(sem)) /\ Refuse

LockWaits(s) ==
  /\ Caller /\ OwnedByOther(s)
  /\ InternalWait(ClearSignals(kb, Me, {ONESHOT}), {ONESHOT})
  /\ sem' = QueueUp(sem, s, Me)
  /\ Enter("lock", s)
  /\ UNCHANGED <<tasks, held>>

\* Mutant of LockReturn: a killed waiter leaves its node on the list.
LockReturn_Keeps ==
  LET s == call[Me].on IN
  /\ In("lock")
  /\ Becomes([k |-> kb, s |-> sem])
  /\ held' = [held EXCEPT ![Me][s] = IF ABORT \in kb.ret THEN @ ELSE @ + 1]
  /\ Enter("none", NoTask)
  /\ UNCHANGED tasks

\* The rest of LockWaits: BADITEM after SIGF_ABORT, else the lock is ours.
LockReturn ==
  LET s       == call[Me].on
      aborted == ABORT \in kb.ret
      frame   == IF aborted /\ Me \in tasks.Exiting THEN Unqueue(sem, Me) ELSE sem
  IN  /\ In("lock")
      /\ Becomes([k |-> kb, s |-> ReturnFrame(frame, Me)])
      /\ held' = [held EXCEPT ![Me][s] = IF aborted THEN @ ELSE @ + 1]
      /\ Enter("none", NoTask)
      /\ UNCHANGED tasks

Unlock(s) ==
  /\ Caller
  /\ IF sem.Owner[s] # Me THEN Refuse
     ELSE /\ Becomes(internalUnlockSemaphore(Now, s))
          /\ held' = [held EXCEPT ![Me][s] = @ - 1]
          /\ UNCHANGED <<tasks, call>>

DeleteSemaphore(s) ==
  /\ Caller /\ s \in Made(sem)
  /\ IF Me \notin SuperTask \cup {Creator[s]} THEN Refuse
     ELSE /\ Becomes(internalDeleteSemaphore(Now, s))
          /\ held' = [t \in Task |-> [held[t] EXCEPT ![s] = 0]]
          /\ UNCHANGED <<tasks, call>>

-----------------------------------------------------------------------------
(* Creating and deleting tasks *)

CreateTask(t) ==
  /\ Caller /\ kb.Flags[t] = "unborn" /\ Owner[t] = Me
  /\ Return([MakeReady(kb, t) EXCEPT !.PleaseReschedule =
               @ \/ kb.Priority[Me] < kb.Priority[t]])
  /\ tasks' = [tasks EXCEPT !.Tasks = @ \cup {t}]
  /\ UNCHANGED <<sem, call, held>>

KillPri == 200

\* internalKill's critical section: the victim leaves the queue it is on,
\* whatever it waits for, and goes to the ready queue with SIGF_ABORT.
Aborted(k, t) ==
  LET off == [k EXCEPT !.SigBits[k.CurrentTask] = @ \ {ONESHOT},
                       !.SigBits[t] = @ \cup {ABORT},
                       !.TaskReadyQ = SelectSeq(@, LAMBDA u : u # t),
                       !.TaskWaitQ = @ \ {t},
                       !.Priority[t] = KillPri]
  IN  MakeReady(off, t)

\* internalKill of another task, up to where the caller sleeps.
KillOther(t, op) ==
  /\ InternalWait(Aborted(kb, t), {ONESHOT})
  /\ tasks' = [tasks EXCEPT !.Exiting = @ \cup {t}, !.Killer[t] = Me]
  /\ Enter(op, t)
  /\ UNCHANGED <<sem, held>>

DeleteTask(t) ==
  /\ Caller /\ t \in tasks.Tasks \ {Me} /\ <<Me, t>> \in MayKill
  /\ IF BadPriv(t) THEN Refuse ELSE KillOther(t, "kill")

\* The loop around internalWait in internalKill.
KillReturn ==
  /\ In("kill") \/ In("freekill")
  /\ IF ONESHOT \in kb.ret
     THEN /\ Return(kb)
          /\ Enter(IF call[Me].op = "freekill" THEN "free" ELSE "none", NoTask)
          /\ UNCHANGED <<sem, tasks, held>>
     ELSE InternalWait(kb, {ONESHOT}) /\ UNCHANGED life

\* A task deletes itself, of its own will or because its code is ForceKill.
DeleteSelf ==
  /\ Swi
  /\ Me \in tasks.Exiting \/ <<Me, Me>> \in MayKill
  /\ Return(kb)
  /\ tasks' = [tasks EXCEPT !.Exiting = @ \cup {Me}]
  /\ Enter("free", NoTask)
  /\ UNCHANGED <<sem, held>>

\* FreeResources deletes what is in the resource table.  The table is read
\* from its end, but slots are reused, so any order can occur.
FreeSemaphore(s) ==
  /\ In("free") /\ s \in Made(sem) /\ Creator[s] = Me
  /\ Becomes(internalDeleteSemaphore(Now, s))
  /\ held' = [t \in Task |-> [held[t] EXCEPT ![s] = 0]]
  /\ UNCHANGED <<tasks, call>>

Threads(t) == {c \in tasks.Tasks : Owner[c] = t}

FreeThread(c) == In("free") /\ c \in Threads(Me) /\ KillOther(c, "freekill")

\* Mutant of FreedAll: leaves the threads running.
FreedAll_NotThreads(t) == \A s \in Made(sem) : Creator[s] # t

FreedAll(t) == Threads(t) = {} /\ \A s \in Made(sem) : Creator[s] # t

\* Mutant of LastSignals: tells the killer or the owner.
LastSignals_Either(k, t) ==
  LET told == IF Owner[t] # NoTask THEN Owner[t] ELSE tasks.Killer[t] IN
  IF told = NoTask THEN k
  ELSE internalSignal(k, told, {IF Owner[t] # NoTask THEN DEADTASK ELSE ONESHOT})

\* The killer learns that its victim is dead, and the owner.
LastSignals(k, t) ==
  LET tell(j, u, bit) == IF u = NoTask THEN j ELSE internalSignal(j, u, {bit})
  IN  tell(tell(k, tasks.Killer[t], ONESHOT), Owner[t], DEADTASK)

\* The rest of internalKill of the caller: the task is no more.
Die ==
  LET t == Me
      X == UnlockSemaphores(Now, t)
      k == LastSignals(X.k, t)
  IN  /\ In("free") /\ FreedAll(t)
      /\ Becomes([s |-> X.s,
                  k |-> [k EXCEPT !.PleaseReschedule = TRUE,
                                  !.CurrentTask = NoTask,
                                  !.Flags[t] = "dead",
                                  !.SigBits[t] = {}]])
      /\ tasks' = [Tasks |-> tasks.Tasks \ {t},
                   Exiting |-> tasks.Exiting \ {t},
                   Killer |-> [tasks.Killer EXCEPT ![t] = NoTask]]
      /\ held' = [held EXCEPT ![t] = [s \in Sem |-> 0]]
      /\ Enter("none", NoTask)

\* swi_ret when the current task has died.
StartNextTask ==
  /\ mode = "swi" /\ Me = NoTask
  /\ LET next == Head(kb.TaskReadyQ) IN
       /\ kb' = Launch(DequeueHead([kb EXCEPT !.ret = {}]), next)
       /\ mode' = LaunchMode(kb, next)
  /\ UNCHANGED life

-----------------------------------------------------------------------------
LifeInit ==
  /\ \E q \in SetToSeqs(Born) :
       /\ ToSet(q) = Born
       /\ Sorted(q, InitPri)
       /\ kb = [CurrentTask |-> Head(q),
                TaskReadyQ |-> Tail(q),
                TaskWaitQ |-> {},
                PleaseReschedule |-> FALSE,
                quantaclock |-> TRUE,
                Flags |-> [t \in Task |-> IF t = Head(q) THEN "running"
                                          ELSE IF t \in Born THEN "ready" ELSE "unborn"],
                psr |-> [t \in Task |-> "user"],
                Priority |-> InitPri,
                AllocatedSigs |-> [t \in Task |-> SuperSigs],
                SigBits |-> [t \in Task |-> {}],
                WaitBits |-> [t \in Task |-> {}],
                ret |-> {}]
  /\ mode = "user"
  /\ sem = SemInit
  /\ tasks = [Tasks |-> Born, Exiting |-> {}, Killer |-> [t \in Task |-> NoTask]]
  /\ call = [t \in Task |-> NoCall]
  /\ held = [t \in Task |-> [s \in Sem |-> 0]]

SemaphoreSwi ==
  \E s \in Sem : \/ CreateSemaphore(s) \/ DeleteSemaphore(s) \/ Unlock(s)
                 \/ LockFree(s) \/ LockAgain(s) \/ LockRefused(s) \/ LockWaits(s)

\* WaitSignal(SIGF_DEADTASK): a program waits for its thread.
WaitDead == Caller /\ InternalWait(kb, {DEADTASK}) /\ UNCHANGED life

TaskLifeSwi ==
  \/ DeleteSelf
  \/ \E t \in Task : CreateTask(t) \/ DeleteTask(t)

\* The kernel goes on with what a SWI has left.
Continue ==
  \/ LockReturn
  \/ KillReturn
  \/ \E s \in Sem : FreeSemaphore(s)
  \/ \E c \in Task : FreeThread(c)
  \/ Die
  \/ StartNextTask
  \/ In("none") /\ SwiRet /\ UNCHANGED life
  \/ StartNext /\ UNCHANGED life
  \/ FirqReturn /\ UNCHANGED life

Preempt == FirqQuantum /\ UNCHANGED life

LifeNext == SemaphoreSwi \/ WaitDead \/ TaskLifeSwi \/ Continue \/ Preempt

lifeVars == <<vars, life>>

LifeSpec == LifeInit /\ [][LifeNext]_lifeVars

\* The processor goes on executing: the kernel, and the code of a task that has
\* been killed, however often interrupts come in between.  What programs do of
\* their own will is not fair.  The conditions under which the three are enabled
\* are written out, which TLC evaluates faster than ENABLED.
ForceKill == Me \in tasks.Exiting /\ DeleteSelf

LifeFairSpec ==
  /\ LifeSpec
  /\ []<>(mode = "user") \/ []<><<Continue>>_lifeVars
  /\ []<>~Expires \/ []<><<Preempt>>_lifeVars
  /\ <>[]~(Swi /\ Me \in tasks.Exiting) \/ []<><<ForceKill>>_lifeVars

-----------------------------------------------------------------------------
(* Properties *)

Asleep(t, op) == t \in kb.TaskWaitQ /\ call[t].op = op

\* A semaphore counts exactly the locks the programs believe to have: at most
\* one task is inside, and a waiter is counted from the moment it is handed the
\* semaphore, before it has run.
HoldersAgree ==
  \A s \in Made(sem), t \in tasks.Tasks \ tasks.Exiting :
    held[t][s] = IF sem.Owner[s] = t /\ call[t] # [op |-> "lock", on |-> s]
                 THEN sem.NestCnt[s] ELSE 0

\* The waiting lists and the sleepers agree.  No waiter is stranded: a task
\* asleep in LockItem is on the list of a semaphore that exists, once, and
\* another task owns the semaphore.  No list reaches into a stack that has been
\* left: every node lies in the frame of a task that is still inside LockItem.
WaitersQueued ==
  /\ \A t \in Task : Asleep(t, "lock") =>
       LET s == call[t].on IN
       /\ s \in Made(sem) /\ sem.Owner[s] \notin {NoTask, t}
       /\ Cardinality({i \in DOMAIN WaitingList(sem, s) : WaitingList(sem, s)[i] = t}) = 1
  /\ \A s \in Made(sem) : \A t \in ToSet(WaitingList(sem, s)) :
       call[t] = [op |-> "lock", on |-> s] /\ t \in tasks.Tasks

\* A task that is killed in the middle of LockItem is still on the list it
\* will unlink itself from.
UnlinksOwnNode ==
  \A t \in tasks.Exiting : call[t].op = "lock" =>
    call[t].on \in Made(sem) /\ t \in ToSet(WaitingList(sem, call[t].on))

\* Deaths come in order.  A thread dies before the task that created it, so its
\* last signal finds it; semaphores do not outlive their owners' locks, nor
\* their creators.  "Wait here until victim falls over": a task that sleeps for
\* a victim will be told, for the victim is alive, exiting, and knows its killer.
DeathsInOrder ==
  /\ \A t \in tasks.Tasks : Owner[t] \in tasks.Tasks \cup {NoTask}
  /\ \A s \in Made(sem) : sem.Owner[s] \in tasks.Tasks \cup {NoTask}
                          /\ Creator[s] \in tasks.Tasks
  /\ \A t \in Task : Asleep(t, "kill") \/ Asleep(t, "freekill") =>
       LET victim == call[t].on IN
       victim \in tasks.Tasks \cap tasks.Exiting /\ tasks.Killer[victim] = t

\* Every semaphore is a lock handed over in order of arrival.
Fifo(s) == INSTANCE SemaphoreSpec WITH
  item  <- IF s \in sem.Fresh THEN "fresh" ELSE IF s \in Made(sem) THEN "made" ELSE "deleted",
  owner <- sem.Owner[s],
  nest  <- sem.NestCnt[s],
  queue <- WaitingList(sem, s)
RefinesSemaphore ==
  /\ \A s \in Sem : Fifo(s)!Init
  /\ [][\A s \in Sem : Fifo(s)!Next \/ UNCHANGED Fifo(s)!vars]_lifeVars

\* Whoever deletes a task gets back to its program, or dies as well; and a task
\* that has begun to die is dead eventually, also when it sleeps in a deletion.
DeletionEnds ==
  \A t \in Task \ {Idle} :
    (call[t].op = "kill" \/ t \in tasks.Exiting)
      ~> (call[t].op # "kill" /\ t \notin tasks.Exiting)
=============================================================================

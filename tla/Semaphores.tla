----------------------------- MODULE Semaphores -----------------------------
(***************************************************************************)
(* The semaphores of the kernel, on top of the executive: semaphore.c.     *)
(*                                                                         *)
(* A semaphore hands itself over: the task that unlocks it makes the first *)
(* task that waits its owner before that task has run.  A task that waits  *)
(* is represented on sem_TaskWaitingList by a node in its own stack frame, *)
(* so the list is modelled by its links, where a node can be unlinked      *)
(* twice: the cell of a task t is its stack node, and Nil is NoTask.       *)
(*                                                                         *)
(* A handler maps a pair X of the executive's state X.k and the            *)
(* semaphores' state X.s to the next pair.                                 *)
(***************************************************************************)
EXTENDS Exec

CONSTANTS
  Sem,         \* the semaphores; an item number is not used again
  ONESHOT,     \* the bit of SIGF_ONESHOT
  DEADTASK     \* the bit of SIGF_DEADTASK

ASSUME SemAssumption ==
  /\ IsFiniteSet(Sem)
  /\ {ABORT, ONESHOT, DEADTASK} \subseteq SuperSigs
  /\ ONESHOT # ABORT /\ DEADTASK \notin {ABORT, ONESHOT}

W == INSTANCE Links WITH Nil <- NoTask

SemState ==
  [Fresh : SUBSET Sem,                       \* not created yet
   Semaphores : Seq(Sem),                    \* kb_Semaphores, oldest first
   bit : [Sem -> {0, 1}],
   Owner : [Sem -> Task \cup {NoTask}],      \* NoTask is an owner of -1
   NestCnt : [Sem -> Nat]]

\* The semaphores that exist, in the state S of the semaphores.
Made(S) == ToSet(S.Semaphores)

\* The tasks on the list of s, the first to be served first.
WaitingList(S, s) == W!Forward(S.links, s, Cardinality(Task) + 1)

SemInit ==
  [Fresh |-> Sem,
   Semaphores |-> <<>>,
   bit |-> [s \in Sem |-> 0],
   Owner |-> [s \in Sem |-> NoTask],
   NestCnt |-> [s \in Sem |-> 0],
   links |-> W!EmptyLinks(Sem, Task)]

\* Every semaphore has the same priority, so TailInsertNode appends.
internalCreateSemaphore(S, s) ==
  [S EXCEPT !.Fresh = @ \ {s}, !.Semaphores = Append(@, s)]

-----------------------------------------------------------------------------
(* Locking *)

IsFree(S, s) == S.bit[s] = 0

TakeFree(S, s, t) ==
  [S EXCEPT !.bit[s] = 1, !.NestCnt[s] = 1, !.Owner[s] = t]

TakeAgain(S, s) == [S EXCEPT !.NestCnt[s] = @ + 1]

\* The frame of t links its node into the list ...
QueueUp(S, s, t) == [S EXCEPT !.links = W!AddTail(@, s, t)]

\* ... and unlinks it after an abort when the task is exiting.
Unqueue(S, t) == [S EXCEPT !.links = W!REMOVENODE(@, t)]

\* The frame of t is gone, and what its node pointed to.
ReturnFrame(S, t) ==
  [S EXCEPT !.links.n_Next[t] = NoTask, !.links.n_Prev[t] = NoTask]

-----------------------------------------------------------------------------
(* Unlocking *)

\* Mutant of internalUnlockSemaphore: serves the last that came.
internalUnlockSemaphore_LastFirst(X, s) ==
  LET waiter == W!LastNode(X.s.links, s) IN
  IF X.s.NestCnt[s] # 1 THEN [X EXCEPT !.s.NestCnt[s] = @ - 1]
  ELSE IF W!IsEmptyList(X.s.links, s)
       THEN [X EXCEPT !.s.NestCnt[s] = 0, !.s.bit[s] = 0, !.s.Owner[s] = NoTask]
  ELSE [X EXCEPT !.k = internalSignal(@, waiter, {ONESHOT}),
                 !.s.links = W!RemTail(@, s), !.s.Owner[s] = waiter]

\* Mutant of internalUnlockSemaphore: the new owner starts with no lock.
internalUnlockSemaphore_NoCount(X, s) ==
  LET nest   == X.s.NestCnt[s] - 1
      waiter == W!FirstNode(X.s.links, s)
  IN  IF nest # 0 THEN [X EXCEPT !.s.NestCnt[s] = nest]
      ELSE IF W!IsEmptyList(X.s.links, s)
           THEN [X EXCEPT !.s.NestCnt[s] = nest, !.s.bit[s] = 0, !.s.Owner[s] = NoTask]
      ELSE [X EXCEPT !.k = internalSignal(@, waiter, {ONESHOT}),
                     !.s.links = W!RemHead(@, s),
                     !.s.Owner[s] = waiter, !.s.NestCnt[s] = nest]

internalUnlockSemaphore(X, s) ==
  LET nest   == X.s.NestCnt[s] - 1
      waiter == W!FirstNode(X.s.links, s)
  IN  IF nest # 0 THEN [X EXCEPT !.s.NestCnt[s] = nest]
      ELSE IF W!IsEmptyList(X.s.links, s)
           THEN [X EXCEPT !.s.NestCnt[s] = nest,
                          !.s.bit[s] = 0,
                          !.s.Owner[s] = NoTask]
      ELSE [X EXCEPT !.k = internalSignal(@, waiter, {ONESHOT}),
                     !.s.links = W!RemHead(@, s),
                     !.s.Owner[s] = waiter,
                     !.s.NestCnt[s] = 1]

\* What a dying task holds: while (s->sem_Owner == t), down the list of
\* semaphores.  Only the last of the nested unlocks does more than count.
UnlockSemaphores(X, t) ==
  LET drop(Y, s) == IF Y.s.Owner[s] # t THEN Y
                    ELSE internalUnlockSemaphore([Y EXCEPT !.s.NestCnt[s] = 1], s)
  IN  FoldLeft(drop, X, X.s.Semaphores)

-----------------------------------------------------------------------------
(* Deleting *)

\* internalDeleteSemaphore: every task that waits gets SIGF_ABORT.  What the
\* freed memory holds is not used again; the model clears it.
internalDeleteSemaphore(X, s) ==
  LET take(Y, t) == [Y EXCEPT !.k = internalSignal(@, t, {ABORT}),
                              !.s.links = W!RemHead(@, s)]
      emptied    == FoldLeft(take, X, WaitingList(X.s, s))
  IN  [emptied EXCEPT !.s.Semaphores = SelectSeq(@, LAMBDA r : r # s),
                      !.s.bit[s] = 0,
                      !.s.Owner[s] = NoTask,
                      !.s.NestCnt[s] = 0]
=============================================================================

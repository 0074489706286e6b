--------------------------- MODULE DiskScheduler ----------------------------
(***************************************************************************)
(* The scheduling of reads on an optimized disk: FileDriver.c, with the    *)
(* loop of FileDaemon.c that drives it.                                    *)
(*                                                                         *)
(* A task queues a request on the to-do list and, unless the device is     *)
(* busy, wakes the file daemon.  The daemon moves the requests of the      *)
(* highest priority to the running list and gives the first to the raw     *)
(* device.  When that is done, the end action, called back at interrupt    *)
(* level, gives it the next, defers the running list if a more urgent      *)
(* request has come (DEVICE_BOINK), and wakes the daemon when there is     *)
(* nothing left to run.                                                    *)
(*                                                                         *)
(* Block numbers are left out: which of the equally good copies of a file  *)
(* is closest, and the order of a sweep over the requests taken, are any.  *)
(* The pages of the catapult, an index of copies laid out in the order they*)
(* will be asked for, are counted only.                                    *)
(***************************************************************************)
EXTENDS Queue, Functions

CONSTANTS
  Request,       \* the requests to read
  Catapult,      \* what the raw device reads when it reads a catapult page
  Pri,           \* n_Priority of each request
  File, FileOf,  \* the files, and the file that a request reads
  LastAvatar,    \* fi_LastAvatarIndex of each file
  Bad,           \* the copies, by file and index, that the disc has damaged
  SortLimit,     \* DEVICE_SORT_COUNT
  SoftLimit,     \* DRIVER_FLAW_SOFTLIMIT
  Pages,         \* the pages of the catapult after the first; 0 without one
  MayAbort,      \* the requests whose owner may abort them
  Once,          \* the requests that are sent once
  MayLeave       \* whether the disc may be taken out

Copy(f) == 0..LastAvatar[f]

ASSUME DiskAssumption ==
  /\ IsFiniteSet(Request) /\ Catapult \notin Request
  /\ Pri \in [Request -> Nat]
  /\ FileOf \in [Request -> File]
  /\ LastAvatar \in [File -> Nat]
  /\ SortLimit \in Nat \ {0} /\ SoftLimit \in Nat /\ Pages \in Nat
  /\ MayAbort \subseteq Request /\ Once \subseteq Request
  /\ MayLeave \in BOOLEAN

VARIABLES
  disk,    \* the OptimizedDisk, its requests and the state of the raw device
  caller,  \* the task that is in FileDriverDoit
  inserted \* whether the disc is in the drive

vars == <<disk, caller, inserted>>

CatapultPhase == {"none", "reading", "verify", "available", "shutdown"}

Complete(d, rs) == [d EXCEPT !.Pending = @ \ rs, !.Aborted = @ \ rs]

SignalDaemon(d) == [d EXCEPT !.signal = TRUE]

\* SendIO of the raw request, to read for r or for the catapult.
SendRaw(d, r) == [d EXCEPT !.Busy = TRUE, !.User = r, !.Raw = "reading"]

\* A disk as it is mounted; the read of the first page of its catapult, if it
\* has one, is on its way.
IdleDisk ==
  [ToDo |-> <<>>, Deferred |-> <<>>, Running |-> <<>>,
   Busy |-> FALSE, Boink |-> FALSE,
   RequestPriority |-> 0, RunningPriority |-> 0,
   Raw |-> "done",                      \* the raw device's request
   User |-> Catapult,                   \* its ioi_User
   Phase |-> "none",                    \* of the catapult
   pages |-> Pages,                     \* of it that have not been read yet
   Flaw |-> [f \in File |-> [a \in Copy(f) |-> 0]],
   Avatar |-> [r \in Request |-> 0],    \* the copy to read
   Offline |-> FALSE,
   Fresh |-> Request,                   \* the requests that were never sent,
   Pending |-> {},                      \* those in progress,
   Aborted |-> {},                      \* of these those aborted,
   Failed |-> {},                       \* and those that ended with ER_MediaError
   signal |-> FALSE]                    \* the daemon has a signal to take

NewDisk ==
  IF Pages = 0 THEN IdleDisk
  ELSE SendRaw([IdleDisk EXCEPT !.Phase = "reading"], Catapult)

HighestPriority(list) ==
  LET pris == {Pri[r] : r \in Range(list)} \cup {0}
  IN  CHOOSE p \in pris : \A q \in pris : q <= p

-----------------------------------------------------------------------------
(* Queueing *)

\* Mutant of QueueOptimizedDiskRequest: no request defers those that run.
QueueOptimizedDiskRequest_NoBoink(d, r) ==
  [d EXCEPT !.ToDo = Append(@, r), !.Pending = @ \cup {r}]

QueueOptimizedDiskRequest(d, r) ==
  LET p == HighestPriority(<<r>>)
      top == IF p > d.RequestPriority THEN p ELSE d.RequestPriority
  IN  [d EXCEPT !.ToDo = Append(@, r),
                !.RequestPriority = top,
                !.Boink = @ \/ (d.Busy /\ top > d.RunningPriority),
                !.Pending = @ \cup {r}, !.Failed = @ \ {r}]

-----------------------------------------------------------------------------
(* Scheduling *)

\* What the scheduler finds about the catapult: whether the page that was read
\* is good, and whether the cache still has it.
CheckedCatapult(d) ==
  IF d.Phase \in {"verify", "available"}
    THEN {[d EXCEPT !.Phase = p] : p \in {"none", "available"}}
    ELSE {[d EXCEPT !.Phase = IF @ = "shutdown" THEN "none" ELSE @]}

TakesDeferred(d) ==
  /\ d.Deferred # <<>>
  /\ HighestPriority(d.ToDo) <= HighestPriority(d.Deferred)

ScheduleList(d) == IF TakesDeferred(d) THEN d.Deferred ELSE d.ToDo

\* The requests of the highest priority, the oldest first, as many as there is
\* room to sort; with a catapult, one.
Taken(d) ==
  LET list  == ScheduleList(d)
      top   == {i \in DOMAIN list : Pri[list[i]] = HighestPriority(list)}
      limit == IF d.Phase = "available" THEN 1 ELSE SortLimit
  IN  {r \in Request : \E i \in top :
         list[i] = r /\ Cardinality({j \in top : j < i}) < limit}

\* Mutant of Kept: the requests of the priority that was taken are all taken.
Kept_Others(d, list) ==
  SelectSeq(list, LAMBDA r : Pri[r] # HighestPriority(ScheduleList(d)))

Kept(d, list) == RemoveNodes(list, Taken(d))

Untaken(d) ==
  [d EXCEPT !.ToDo = Kept(d, @), !.Deferred = Kept(d, @)]

\* The copies of r's file with the fewest flaws.
Best(d, r) ==
  LET flaw == d.Flaw[FileOf[r]]
  IN  {a \in Copy(FileOf[r]) : \A b \in Copy(FileOf[r]) : flaw[a] <= flaw[b]}

\* The requests that were taken run in this order, each from its copy.
Swept(d, order, copy) ==
  [Untaken(d) EXCEPT
     !.Running = @ \o order,
     !.Avatar = [r \in Request |-> IF r \in Taken(d) THEN copy[r] ELSE @[r]],
     !.RunningPriority = HighestPriority(ScheduleList(d)),
     !.RequestPriority = HighestPriority(Untaken(d).ToDo)]

\* Each has one of the best copies, or one in the catapult if there is one.
Sweeps(d) ==
  LET CopyOf(r) ==
        Best(d, r) \cup (IF d.Phase = "available" THEN {Catapult} ELSE {})
  IN  {Swept(d, order, copy) :
         order \in SetToSeqs(Taken(d)),
         copy \in {c \in [Taken(d) -> UNION {CopyOf(r) : r \in Taken(d)}] :
                     \A r \in Taken(d) : c[r] \in CopyOf(r)}}

\* The page has been of no use for long: the request waits for the next one.
NextPage(d) ==
  {SendRaw([Untaken(d) EXCEPT !.Deferred = order \o @,
                              !.RequestPriority = HighestPriority(d.ToDo),
                              !.Phase = "reading", !.pages = @ - 1], Catapult) :
     order \in {s \in SetToSeqs(Taken(d)) : d.pages > 0}}

Exhausted(d) ==
  {[e EXCEPT !.Phase = "shutdown"] :
     e \in {e \in Sweeps(d) : \A r \in Taken(d) : e.Avatar[r] # Catapult}}

Scheduled(d) ==
  IF ScheduleList(d) = <<>> THEN {[d EXCEPT !.RequestPriority = 0]}
  ELSE Sweeps(d) \cup
       (IF d.Phase = "available" THEN NextPage(d) \cup Exhausted(d) ELSE {})

ScheduleOptimizedDiskIo(d) ==
  IF d.Busy THEN {d} ELSE UNION {Scheduled(e) : e \in CheckedCatapult(d)}

\* With the disc gone, every request that was to run is failed.
Killed(d) ==
  SignalDaemon([Complete(d, Range(d.Running)) EXCEPT !.Running = <<>>])

StartOptimizedDiskIo(d) ==
  IF d.Busy \/ d.Running = <<>> THEN d
  ELSE IF d.Offline THEN Killed(d) ELSE SendRaw(d, Head(d.Running))

-----------------------------------------------------------------------------
(* The end of a read *)

\* A file with copies is read again, from another one if that is better.
Retry(d, r) ==
  LET f == FileOf[r]
      a == d.Avatar[r]
      queued == [d EXCEPT !.ToDo = Append(@, r)]
  IN  IF a = Catapult THEN [queued EXCEPT !.Phase = "shutdown"]
      ELSE IF d.Flaw[f][a] < SoftLimit THEN [queued EXCEPT !.Flaw[f][a] = @ + 1]
      ELSE queued

Finished(d, r, how) ==
  CASE how = "offline" -> Complete([d EXCEPT !.Offline = TRUE], {r})
    [] how = "media" /\ LastAvatar[FileOf[r]] # 0 -> Retry(d, r)
    [] how = "media" /\ LastAvatar[FileOf[r]] = 0 ->
         Complete([d EXCEPT !.Failed = @ \cup {r}], {r})
    [] OTHER -> Complete(d, {r})

Boinked(d) ==
  IF d.Boink \/ d.Offline
    THEN [d EXCEPT !.Deferred = d.Running \o @, !.Running = <<>>, !.Boink = FALSE]
    ELSE d

\* Mutant of NextIO: the daemon is woken only for what was deferred.
NextIO_Idle(d) ==
  IF d.Running # <<>> THEN SendRaw(d, Head(d.Running))
  ELSE IF d.Deferred # <<>> THEN SignalDaemon(d) ELSE d

NextIO(d) ==
  IF d.Running = <<>> THEN SignalDaemon(d) ELSE SendRaw(d, Head(d.Running))

OptimizedDiskEndAction(d, how) ==
  LET r == d.User
      over == [d EXCEPT !.Busy = FALSE, !.Raw = "done", !.Running = RemoveNode(@, r)]
  IN  NextIO(Boinked(Finished(over, r, how)))

CatapultEndAction(d) ==
  SignalDaemon([d EXCEPT !.Raw = "done", !.Phase = "verify", !.Busy = FALSE])

-----------------------------------------------------------------------------
(* Aborting *)

Unlinked(d, r) ==
  LET without(list) == IF r \in Range(list) THEN RemoveNode(list, r) ELSE list
  IN  [d EXCEPT !.ToDo = without(@), !.Deferred = without(@),
                !.Running = without(@)]

\* Mutant of AbortOptimizedDiskIo: the raw request is aborted whoever it is for.
AbortOptimizedDiskIo_Busy(d, r) ==
  IF d.Busy THEN [d EXCEPT !.Raw = "aborting", !.Aborted = @ \cup {r}]
  ELSE Complete(Unlinked(d, r), {r})

AbortOptimizedDiskIo(d, r) ==
  IF d.Busy /\ d.User = r
    THEN [d EXCEPT !.Raw = "aborting", !.Aborted = @ \cup {r}]
  ELSE Complete(Unlinked(d, r), {r})

-----------------------------------------------------------------------------
(* The steps.  FileDriverDoit is not preempted, but the end action may      *)
(* interrupt it: between its look at the file system's flags and the queue, *)
(* and between the queue and its look at the device.                        *)

Nobody == <<>>

Doit(r) ==
  /\ caller = Nobody
  /\ r \notin disk.Pending
  /\ r \in Once => r \in disk.Fresh
  /\ IF disk.Offline
       THEN disk' = disk /\ caller' = Nobody
       ELSE /\ disk' = [disk EXCEPT !.Fresh = @ \ ({r} \cap Once)]
            /\ caller' = <<"queue", r>>
  /\ UNCHANGED inserted

DoitQueues ==
  \E r \in Request :
    /\ caller = <<"queue", r>>
    /\ disk' = QueueOptimizedDiskRequest(disk, r)
    /\ caller' = <<"look", r>>
    /\ UNCHANGED inserted

DoitLooks ==
  \E r \in Request :
    /\ caller = <<"look", r>>
    /\ disk' = IF disk.Busy THEN disk ELSE SignalDaemon(disk)
    /\ caller' = Nobody
    /\ UNCHANGED inserted

AbortIO(r) ==
  /\ caller = Nobody
  /\ r \in disk.Pending \cap (MayAbort \ disk.Aborted)
  /\ disk' = AbortOptimizedDiskIo(disk, r)
  /\ UNCHANGED <<caller, inserted>>

\* The loop of FileDaemonInternals.
Daemon ==
  /\ caller = Nobody
  /\ disk.signal
  /\ \E d \in ScheduleOptimizedDiskIo([disk EXCEPT !.signal = FALSE]) :
       disk' = StartOptimizedDiskIo(d)
  /\ UNCHANGED <<caller, inserted>>

\* How a read of the raw device ends.  A damaged copy may be told of although
\* the request was aborted.
RawResults ==
  LET copy == disk.Avatar[disk.User]
      damaged == copy = Catapult \/ <<FileOf[disk.User], copy>> \in Bad
  IN  (IF ~inserted THEN {"offline"} ELSE IF damaged THEN {"media"} ELSE {}) \cup
      (IF disk.Raw = "aborting" THEN {"aborted"}
       ELSE IF inserted /\ (copy = Catapult \/ ~damaged) THEN {"ok"} ELSE {})

RawDone ==
  /\ disk.Raw # "done"
  /\ IF disk.User = Catapult
       THEN disk' = CatapultEndAction(disk)
       ELSE \E how \in RawResults : disk' = OptimizedDiskEndAction(disk, how)
  /\ UNCHANGED <<caller, inserted>>

DiscLeaves ==
  /\ MayLeave /\ inserted
  /\ inserted' = FALSE
  /\ UNCHANGED <<disk, caller>>

Init ==
  /\ disk = NewDisk
  /\ caller = Nobody
  /\ inserted = TRUE

Next ==
  \/ \E r \in Request : Doit(r) \/ AbortIO(r)
  \/ DoitQueues \/ DoitLooks
  \/ Daemon \/ RawDone \/ DiscLeaves

Spec == Init /\ [][Next]_vars

\* A call of the kernel returns, and the drive answers: weak fairness.  The
\* daemon has the priority 210, so that it runs before the tasks go on for ever
\* after it has been signalled: strong fairness.  Both are written out, with the
\* conditions under which the actions are enabled, which TLC finds faster.
FairSpec ==
  /\ Spec
  /\ []<>(caller = Nobody) \/ []<><<DoitQueues \/ DoitLooks>>_vars
  /\ []<>(disk.Raw = "done") \/ []<><<RawDone>>_vars
  /\ <>[](caller # Nobody \/ ~disk.signal) \/ []<><<Daemon>>_vars

-----------------------------------------------------------------------------
(* Properties *)

Queued == disk.ToDo \o disk.Deferred \o disk.Running

\* What the disk remembers of the raw device is true of it.  hdi_DeviceBusy
\* tells whether it has a request, which is for the catapult exactly while a page
\* of that is read, and otherwise for the first of the running list: the end
\* action of a read finds its request there.  And the raw request is only ever
\* aborted on behalf of the request that it serves, never of one that it has gone
\* on from.
RawAgrees ==
  /\ disk.Busy <=> disk.Raw # "done"
  /\ disk.Phase = "reading" <=> disk.Busy /\ disk.User = Catapult
  /\ disk.Busy /\ disk.User # Catapult =>
       disk.Running # <<>> /\ Head(disk.Running) = disk.User
  /\ disk.Raw = "aborting" => disk.User \in disk.Aborted

\* A request in progress is on one of the three lists, once, and no other is on
\* any: whatever moves it between the lists, retries or fails it.
OnOneList ==
  /\ IsInjective(Queued)
  /\ Range(Queued) = disk.Pending

Given(r) ==
  /\ disk'.Raw # "done" /\ disk'.User = r
  /\ disk.Raw = "done" \/ disk.User # r

\* The raw device is never given a request while a more urgent one waits, on
\* whatever list, for a device that is already busy or yet to be scheduled.
NoOvertaking ==
  [][\A r \in Request : Given(r) =>
       \A q \in Range(Queued') : Pri[q] <= Pri[r]]_vars

\* "Errors occuring during a catapult-file access cause the entire catapult file
\* to be considered NFG - I/O will be requeued using the real avatars": a read
\* only fails because the file itself is damaged.
FailsIfDamaged ==
  \A r \in disk.Failed : \E a \in Copy(FileOf[r]) : <<FileOf[r], a>> \in Bad

\* A request that is queued ends, although others are queued again and again,
\* more urgent ones come, copies are damaged, pages of the catapult are read,
\* and the disc may leave.
Served == \A r \in Request : r \in disk.Pending ~> r \notin disk.Pending
=============================================================================

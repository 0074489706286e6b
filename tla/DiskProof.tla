----------------------------- MODULE DiskProof ------------------------------
(***************************************************************************)
(* The disk's view of the raw device is right, for every set of requests,  *)
(* priorities, files, damage, limits and pages of the catapult; its three  *)
(* lists hold every request once and are served by priority.  The second   *)
(* half is about the lists of the kernel themselves: the links of list.s   *)
(* implement the queues that the disk, like all models, is written with.   *)
(***************************************************************************)
EXTENDS DiskScheduler, Lists, SequenceLemmas, FiniteSetTheorems

\* The fields of a disk.
Fields ==
  {"ToDo", "Deferred", "Running", "Busy", "Boink", "RequestPriority",
   "RunningPriority", "Raw", "User", "Phase", "pages", "Flaw", "Avatar",
   "Offline", "Fresh", "Pending", "Aborted", "Failed", "signal"}

\* What RawAgrees needs to be inductive, of any disk.
Typed(d) ==
  /\ DOMAIN d = Fields
  /\ d.Running \in Seq(Request)
  /\ d.Busy \in BOOLEAN /\ d.Boink \in BOOLEAN /\ d.signal \in BOOLEAN
  /\ d.Offline \in BOOLEAN
  /\ d.Raw \in {"done", "reading", "aborting"}
  /\ d.User \in Request \cup {Catapult}
  /\ d.Phase \in CatapultPhase

Agrees(d) ==
  /\ Typed(d)
  /\ d.Busy <=> d.Raw # "done"
  /\ d.Phase = "reading" <=> d.Busy /\ d.User = Catapult
  /\ d.Busy /\ d.User # Catapult =>
       d.Running # <<>> /\ Head(d.Running) = d.User
  /\ d.Raw = "aborting" => d.User \in d.Aborted

IInv == Agrees(disk)

\* A disk whose raw device has nothing to do.
Rests(d) ==
  Typed(d) /\ ~d.Busy /\ d.Raw = "done" /\ d.Phase # "reading"

\* A disk at rest agrees with an idle raw device.
LEMMA RestAgrees ==
  ASSUME NEW d, Rests(d)
  PROVE  Agrees(d)
BY DEF Rests, Agrees

\* Taking a request out of a list that has it leaves a list of requests, whose
\* first is the same unless that was taken.
LEMMA RemoveTyped ==
  ASSUME NEW q \in Seq(Request), NEW r \in Range(q)
  PROVE  /\ RemoveNode(q, r) \in Seq(Request)
         /\ Head(q) # r => RemoveNode(q, r) # <<>> /\ Head(RemoveNode(q, r)) = Head(q)
<1> DEFINE n == CHOOSE i \in DOMAIN q : q[i] = r
<1>1. Len(q) \in Nat /\ DOMAIN q = 1..Len(q)
  BY LenProperties
<1>2. \E i \in DOMAIN q : q[i] = r
  BY DEF Range
<1>3. n \in 1..Len(q) /\ q[n] = r
  BY <1>1, <1>2
<1>4. RemoveNode(q, r) = RemoveAt(q, n)
  BY DEF RemoveNode
<1> HIDE DEF n
<1>5. /\ RemoveAt(q, n) \in Seq(Request)
      /\ Len(RemoveAt(q, n)) = Len(q) - 1
      /\ \A j \in 1..(Len(q) - 1) :
           RemoveAt(q, n)[j] = IF j < n THEN q[j] ELSE q[j + 1]
  BY <1>3, RemoveAtLemma
<1>6. ASSUME Head(q) # r
      PROVE  RemoveAt(q, n) # <<>> /\ Head(RemoveAt(q, n)) = Head(q)
  <2>1. q[1] # r
    BY <1>1, <1>3, <1>6
  <2>2. n > 1 /\ Len(q) > 1
    BY <1>1, <1>3, <2>1
  <2>3. RemoveAt(q, n)[1] = q[1]
    BY <1>1, <1>5, <2>2
  <2> QED
    BY <1>1, <1>5, <2>2, <2>3
<1> QED
  BY <1>4, <1>5, <1>6

-----------------------------------------------------------------------------
(* The scheduler keeps a resting disk at rest, or has it read the catapult. *)

\* An order of the requests taken is a list of requests.
LEMMA SweepTyped ==
  ASSUME NEW S \in SUBSET Request, NEW s \in SetToSeqs(S)
  PROVE  s \in Seq(Request)
<1>1. IsFiniteSet(S)
  BY DiskAssumption, FS_Subset
<1>2. Cardinality(S) \in Nat
  BY <1>1, FS_CardinalityType
<1>3. s \in [1..Cardinality(S) -> S]
  BY DEF SetToSeqs
<1> QED
  BY <1>2, <1>3

\* Looking at the catapult starts nothing.
LEMMA CheckedRests ==
  ASSUME NEW d, Rests(d), NEW e \in CheckedCatapult(d)
  PROVE  Rests(e)
BY DEF Rests, Typed, CheckedCatapult, CatapultPhase, Fields

\* Sorting the requests taken starts nothing.
LEMMA SweepsRest ==
  ASSUME NEW d, Rests(d), NEW e \in Sweeps(d)
  PROVE  Rests(e)
<1>1. Taken(d) \in SUBSET Request
  BY DEF Taken
<1>2. PICK order, copy : order \in SetToSeqs(Taken(d)) /\ e = Swept(d, order, copy)
  BY DEF Sweeps
<1>3. order \in Seq(Request)
  BY <1>1, <1>2, SweepTyped
<1>4. Rests(Untaken(d))
  BY DEF Rests, Typed, Untaken, Fields
<1> QED
  BY <1>2, <1>3, <1>4 DEF Rests, Typed, Swept, Fields

\* The next page of the catapult is asked for, and nothing else.
LEMMA NextPageAgrees ==
  ASSUME NEW d, Rests(d), NEW e \in NextPage(d)
  PROVE  Agrees(e) /\ e.Busy
<1>1. PICK order, p :
        e = SendRaw([Untaken(d) EXCEPT !.Deferred = order \o @,
                                       !.RequestPriority = p,
                                       !.Phase = "reading", !.pages = @ - 1], Catapult)
  BY DEF NextPage
<1>2. Rests(Untaken(d))
  BY DEF Rests, Typed, Untaken, Fields
<1> QED
  BY <1>1, <1>2
  DEF Rests, Agrees, Typed, SendRaw, CatapultPhase, Fields

\* The scheduler leaves a disk at rest, or has the catapult read.
LEMMA ScheduledAgrees ==
  ASSUME NEW d, Agrees(d), NEW e \in ScheduleOptimizedDiskIo(d)
  PROVE  Rests(e) \/ (Agrees(e) /\ e.Busy)
<1>1. CASE d.Busy
  BY <1>1 DEF ScheduleOptimizedDiskIo
<1>2. CASE ~d.Busy
  <2>1. Rests(d)
    BY <1>2 DEF Agrees, Rests
  <2>2. PICK c \in CheckedCatapult(d) : e \in Scheduled(c)
    BY <1>2 DEF ScheduleOptimizedDiskIo
  <2>3. Rests(c)
    BY <2>1, <2>2, CheckedRests
  <2>4. CASE e = [c EXCEPT !.RequestPriority = 0]
    BY <2>3, <2>4 DEF Rests, Typed, Fields
  <2>5. CASE e \in Sweeps(c)
    BY <2>3, <2>5, SweepsRest
  <2>6. CASE e \in NextPage(c)
    BY <2>3, <2>6, NextPageAgrees
  <2>7. CASE e \in Exhausted(c)
    <3>1. PICK s \in Sweeps(c) : e = [s EXCEPT !.Phase = "shutdown"]
      BY <2>7 DEF Exhausted
    <3>2. Rests(s)
      BY <2>3, <3>1, SweepsRest
    <3> QED
      BY <3>1, <3>2 DEF Rests, Typed, CatapultPhase, Fields
  <2> QED
    BY <2>2, <2>4, <2>5, <2>6, <2>7 DEF Scheduled
<1> QED
  BY <1>1, <1>2 DEF Agrees, Typed

\* Giving the first request to a raw device that rests.
LEMMA SendAgrees ==
  ASSUME NEW d, Rests(d), d.Running # <<>>
  PROVE  Agrees(SendRaw(d, Head(d.Running)))
<1>1. Head(d.Running) \in Request
  BY DEF Rests, Typed
<1>2. Head(d.Running) # Catapult
  BY <1>1, DiskAssumption
<1> QED
  BY <1>1, <1>2 DEF Rests, Agrees, Typed, SendRaw, Fields

\* StartOptimizedDiskIo gives the raw device at most the first request.
LEMMA StartAgrees ==
  ASSUME NEW d, Rests(d) \/ (Agrees(d) /\ d.Busy)
  PROVE  Agrees(StartOptimizedDiskIo(d))
<1>1. CASE d.Busy \/ d.Running = <<>>
  BY <1>1, RestAgrees DEF StartOptimizedDiskIo
<1>2. CASE ~d.Busy /\ d.Running # <<>> /\ d.Offline
  <2>1. Rests(d)
    BY <1>2
  <2>2. Rests(Killed(d))
    BY <2>1 DEF Rests, Typed, Killed, SignalDaemon, Complete, Fields
  <2> QED
    BY <1>2, <2>2, RestAgrees DEF StartOptimizedDiskIo
<1>3. CASE ~d.Busy /\ d.Running # <<>> /\ ~d.Offline
  BY <1>3, SendAgrees DEF StartOptimizedDiskIo
<1> QED
  BY <1>1, <1>2, <1>3

-----------------------------------------------------------------------------
(* The end actions and aborts *)

\* The request that is finished with was the first of those that run.
LEMMA EndAgrees ==
  ASSUME NEW d, Agrees(d), d.Busy, d.User # Catapult, NEW how
  PROVE  Agrees(OptimizedDiskEndAction(d, how))
<1> DEFINE r == d.User
           over == [d EXCEPT !.Busy = FALSE, !.Raw = "done",
                             !.Running = RemoveNode(@, r)]
<1>1. r \in Range(d.Running)
  <2>1. /\ d.Running \in Seq(Request) /\ d.Running # <<>>
        /\ d.Running[1] = r
    BY DEF Agrees, Typed
  <2>2. 1 \in DOMAIN d.Running
    BY <2>1
  <2> QED
    BY <2>1, <2>2 DEF Range
<1>2. RemoveNode(d.Running, r) \in Seq(Request)
  BY <1>1, RemoveTyped DEF Agrees, Typed
<1>3. Rests(over)
  BY <1>2 DEF Agrees, Rests, Typed, Fields
<1> HIDE DEF over
<1>4. Rests(Finished(over, r, how))
  <2>1. Rests(Complete([over EXCEPT !.Offline = TRUE], {r}))
    BY <1>3 DEF Rests, Typed, Complete, Fields
  <2>2. Rests(Complete([over EXCEPT !.Failed = @ \cup {r}], {r}))
    BY <1>3 DEF Rests, Typed, Complete, Fields
  <2>3. Rests(Complete(over, {r}))
    BY <1>3 DEF Rests, Typed, Complete, Fields
  <2>4. Rests(Retry(over, r))
    <3> DEFINE queued == [over EXCEPT !.ToDo = Append(@, r)]
               f == FileOf[r]
               a == over.Avatar[r]
    <3>1. Rests(queued)
      BY <1>3 DEF Rests, Typed, Fields
    <3>2. Rests([queued EXCEPT !.Phase = "shutdown"])
      BY <3>1 DEF Rests, Typed, CatapultPhase, Fields
    <3>3. ASSUME NEW x PROVE Rests([queued EXCEPT !.Flaw = x])
      BY <3>1 DEF Rests, Typed, Fields
    <3> HIDE DEF queued
    <3>4. Rests([queued EXCEPT !.Flaw[f][a] = @ + 1])
      BY <3>3
    <3> QED
      BY <3>1, <3>2, <3>4 DEF Retry, queued
  <2> QED
    BY <2>1, <2>2, <2>3, <2>4 DEF Finished
<1> DEFINE fin == Finished(over, r, how)
<1> HIDE DEF fin
<1>5. Rests(Boinked(fin))
  <2>1. Rests(fin)
    BY <1>4 DEF fin
  <2>2. Rests([fin EXCEPT !.Deferred = fin.Running \o @, !.Running = <<>>,
                          !.Boink = FALSE])
    BY <2>1 DEF Rests, Typed, Fields
  <2> QED
    BY <2>1, <2>2 DEF Boinked
<1>6. Agrees(NextIO(Boinked(fin)))
  <2>1. Rests(SignalDaemon(Boinked(fin)))
    BY <1>5 DEF Rests, Typed, SignalDaemon, Fields
  <2> QED
    BY <1>5, <2>1, RestAgrees, SendAgrees DEF NextIO
<1> QED
  BY <1>6 DEF OptimizedDiskEndAction, over, fin

\* An abort takes a request off the lists, unless the raw device serves it.
LEMMA AbortAgrees ==
  ASSUME NEW d, Agrees(d), NEW r \in Request
  PROVE  Agrees(AbortOptimizedDiskIo(d, r))
<1>1. CASE d.Busy /\ d.User = r
  BY <1>1 DEF AbortOptimizedDiskIo, Agrees, Typed, Fields
<1>2. CASE ~(d.Busy /\ d.User = r)
  <2> DEFINE running == IF r \in Range(d.Running) THEN RemoveNode(d.Running, r)
                        ELSE d.Running
             gone == Complete(Unlinked(d, r), {r})
  <2>1. /\ running \in Seq(Request)
        /\ d.Running # <<>> /\ Head(d.Running) # r =>
             running # <<>> /\ Head(running) = Head(d.Running)
    BY RemoveTyped DEF Agrees, Typed
  <2>2. /\ DOMAIN gone = Fields
        /\ gone.Running = running
        /\ gone.Busy = d.Busy /\ gone.Boink = d.Boink /\ gone.signal = d.signal
        /\ gone.Offline = d.Offline /\ gone.Raw = d.Raw /\ gone.User = d.User
        /\ gone.Phase = d.Phase /\ gone.Aborted = d.Aborted \ {r}
    BY DEF Complete, Unlinked, Agrees, Typed, Fields
  <2> HIDE DEF running, gone
  <2>3. Agrees(gone)
    BY <1>2, <2>1, <2>2 DEF Agrees, Typed
  <2> QED
    BY <1>2, <2>3 DEF AbortOptimizedDiskIo, gone
<1> QED
  BY <1>1, <1>2

-----------------------------------------------------------------------------
(* The steps *)

\* A disk is mounted with an idle device, or with its catapult being read.
LEMMA InitAgrees == Init => Agrees(disk)
<1> SUFFICES ASSUME Init PROVE Agrees(disk)
  OBVIOUS
<1>1. Rests(IdleDisk)
  BY DEF IdleDisk, Rests, Typed, CatapultPhase, Fields
<1>2. Agrees(IdleDisk)
  BY <1>1, RestAgrees
<1>3. Agrees(SendRaw([IdleDisk EXCEPT !.Phase = "reading"], Catapult))
  BY <1>1 DEF Rests, Agrees, Typed, SendRaw, CatapultPhase, Fields
<1> QED
  BY <1>2, <1>3 DEF Init, NewDisk

\* Every step keeps the disk in agreement with its raw device.
LEMMA NextAgrees == Agrees(disk) /\ [Next]_vars => Agrees(disk')
<1> SUFFICES ASSUME Agrees(disk), [Next]_vars PROVE Agrees(disk')
  OBVIOUS
<1>1. ASSUME NEW r \in Request, Doit(r) PROVE Agrees(disk')
  BY <1>1 DEF Doit, Agrees, Typed, Fields
<1>2. ASSUME NEW r \in Request, AbortIO(r) PROVE Agrees(disk')
  BY <1>2, AbortAgrees DEF AbortIO
<1>3. CASE DoitQueues
  <2>1. PICK r, top, boink :
          /\ r \in Request /\ boink \in BOOLEAN
          /\ disk' = [disk EXCEPT !.ToDo = Append(@, r), !.RequestPriority = top,
                                  !.Boink = @ \/ boink,
                                  !.Pending = @ \cup {r}, !.Failed = @ \ {r}]
    BY <1>3, Zenon DEF DoitQueues, QueueOptimizedDiskRequest
  <2> QED
    BY <2>1 DEF Agrees, Typed, Fields
<1>4. CASE DoitLooks
  <2>1. disk' = disk \/ disk' = [disk EXCEPT !.signal = TRUE]
    BY <1>4, Zenon DEF DoitLooks, SignalDaemon
  <2>2. CASE disk' = disk
    BY <2>2
  <2>3. CASE disk' = [disk EXCEPT !.signal = TRUE]
    BY <2>3 DEF Agrees, Typed, Fields
  <2> QED
    BY <2>1, <2>2, <2>3
<1>5. CASE Daemon
  <2> DEFINE taken == [disk EXCEPT !.signal = FALSE]
  <2>1. Agrees(taken)
    BY DEF Agrees, Typed, Fields
  <2> HIDE DEF taken
  <2>2. PICK d \in ScheduleOptimizedDiskIo(taken) : disk' = StartOptimizedDiskIo(d)
    BY <1>5 DEF Daemon, taken
  <2> QED
    BY <2>1, <2>2, ScheduledAgrees, StartAgrees
<1>6. CASE RawDone
  <2>1. disk.Busy
    BY <1>6 DEF RawDone, Agrees
  <2>2. CASE disk.User = Catapult
    <3>1. disk' = CatapultEndAction(disk)
      BY <1>6, <2>2 DEF RawDone
    <3>2. Rests(CatapultEndAction(disk))
      BY
      DEF CatapultEndAction, SignalDaemon, Agrees, Rests, Typed, CatapultPhase, Fields
    <3>3. Agrees(CatapultEndAction(disk))
      BY <3>2, RestAgrees
    <3> QED
      BY <3>1, <3>3
  <2>3. CASE disk.User # Catapult
    BY <1>6, <2>1, <2>3, EndAgrees DEF RawDone
  <2> QED
    BY <2>2, <2>3
<1>7. CASE DiscLeaves
  BY <1>7 DEF DiscLeaves
<1>8. CASE UNCHANGED vars
  BY <1>8 DEF vars
<1> QED
  BY <1>1, <1>2, <1>3, <1>4, <1>5, <1>6, <1>7, <1>8 DEF Next

\* hdi_DeviceBusy, the phase of the catapult, the head of the running list and
\* the aborts agree with what the raw device does: RawAgrees always holds.
THEOREM RawAlwaysAgrees == Spec => []RawAgrees
<1>1. Init => IInv
  BY InitAgrees DEF IInv
<1>2. IInv /\ [Next]_vars => IInv'
  BY NextAgrees DEF IInv
<1>3. IInv => RawAgrees
  BY DEF IInv, Agrees, RawAgrees
<1> QED
  BY <1>1, <1>2, <1>3, PTL DEF Spec

-----------------------------------------------------------------------------
(* Every request in progress is on one list.                                *)

\* The lists of a disk hold the requests of S, each of them once.
Hold(d, S) ==
  /\ d.ToDo \in Seq(Request) /\ IsInjective(d.ToDo)
  /\ d.Deferred \in Seq(Request) /\ IsInjective(d.Deferred)
  /\ d.Running \in Seq(Request) /\ IsInjective(d.Running)
  /\ ToSet(d.ToDo) \cap ToSet(d.Deferred) = {}
  /\ ToSet(d.ToDo) \cap ToSet(d.Running) = {}
  /\ ToSet(d.Deferred) \cap ToSet(d.Running) = {}
  /\ ToSet(d.ToDo) \cup ToSet(d.Deferred) \cup ToSet(d.Running) = S

\* What OnOneList needs to be inductive.  The end action may interrupt a task
\* that is about to queue its request: that must not be in progress yet.
ListInv ==
  /\ IInv
  /\ Hold(disk, disk.Pending)
  /\ \A r \in Request : caller = <<"queue", r>> => r \notin disk.Pending

\* An order of a set of requests lists each of them once.
LEMMA OrderSet ==
  ASSUME NEW S \in SUBSET Request, NEW s \in SetToSeqs(S)
  PROVE  s \in Seq(Request) /\ ToSet(s) = S /\ IsInjective(s)
<1> DEFINE D == 1..Cardinality(S)
<1>1. IsFiniteSet(S) /\ Cardinality(S) \in Nat
  BY DiskAssumption, FS_Subset, FS_CardinalityType
<1>2. s \in [D -> S] /\ \A i, j \in D : i # j => s[i] # s[j]
  BY DEF SetToSeqs
<1>3. IsInjective(s) /\ s \in Injection(D, S)
  BY <1>2 DEF IsInjective, Injection
<1>4. IsFiniteSet(D) /\ Cardinality(D) = Cardinality(S)
  BY <1>1, FS_Interval
<1> HIDE DEF D
<1>5. s \in Surjection(D, S)
  BY <1>1, <1>3, <1>4, FS_Injection
<1>6. ToSet(s) = S
  BY <1>2, <1>5 DEF Surjection, ToSet
<1> QED
  BY <1>3, <1>6, SweepTyped

\* Lists that hold S, and a request of it unlinked from the one that has it.
LEMMA UnlinkOne ==
  ASSUME NEW q \in Seq(Request), IsInjective(q), NEW r
  PROVE  LET u == IF r \in Range(q) THEN RemoveNode(q, r) ELSE q IN
         u \in Seq(Request) /\ ToSet(u) = ToSet(q) \ {r} /\ IsInjective(u)
<1>1. CASE r \in Range(q)
  <2> DEFINE n == CHOOSE i \in DOMAIN q : q[i] = r
  <2>1. n \in 1..Len(q) /\ q[n] = r
    BY <1>1, LenProperties DEF Range
  <2>2. RemoveNode(q, r) = RemoveAt(q, n)
    BY DEF RemoveNode
  <2> HIDE DEF n
  <2>3. RemoveAt(q, n) \in Seq(Request)
    BY <2>1, RemoveAtLemma
  <2>4. ToSet(RemoveAt(q, n)) = ToSet(q) \ {r} /\ IsInjective(RemoveAt(q, n))
    BY <2>1, RemoveAtSet
  <2> QED
    BY <1>1, <2>2, <2>3, <2>4
<1>2. CASE r \notin Range(q)
  BY <1>2 DEF Range, ToSet
<1> QED
  BY <1>1, <1>2

\* Nothing but the lists matters to what they hold.
LEMMA SameLists ==
  ASSUME NEW d, NEW e, NEW S, Hold(d, S),
         e.ToDo = d.ToDo, e.Deferred = d.Deferred, e.Running = d.Running
  PROVE  Hold(e, S)
BY DEF Hold

\* The requests that are taken are on the list that is scheduled.
LEMMA TakenListed ==
  ASSUME NEW d, NEW S, Hold(d, S)
  PROVE  /\ Taken(d) \in SUBSET Request
         /\ Taken(d) \subseteq ToSet(d.ToDo) \cup ToSet(d.Deferred)
<1>1. ASSUME NEW r \in Taken(d) PROVE r \in ToSet(ScheduleList(d))
  BY <1>1 DEF Taken, ToSet
<1>2. ScheduleList(d) \in {d.ToDo, d.Deferred}
  BY DEF ScheduleList
<1> QED
  BY <1>1, <1>2 DEF Taken

\* Sorting the requests that are taken moves them to the running list.
LEMMA SweptHold ==
  ASSUME NEW d, Typed(d), NEW S, Hold(d, S), NEW e \in Sweeps(d)
  PROVE  Hold(e, S) /\ e.Pending = d.Pending /\ Typed(e)
<1> DEFINE T == Taken(d)
           todo == RemoveNodes(d.ToDo, T)
           deferred == RemoveNodes(d.Deferred, T)
<1>1. PICK order, copy : order \in SetToSeqs(T) /\ e = Swept(d, order, copy)
  BY DEF Sweeps
<1>2. T \in SUBSET Request /\ T \subseteq ToSet(d.ToDo) \cup ToSet(d.Deferred)
  BY TakenListed
<1>3. /\ Untaken(d).ToDo = todo /\ Untaken(d).Deferred = deferred
      /\ Untaken(d).Running = d.Running /\ Untaken(d).Pending = d.Pending
      /\ Typed(Untaken(d))
  BY DEF Untaken, Kept, Typed, Fields
<1>4. /\ e.ToDo = Untaken(d).ToDo /\ e.Deferred = Untaken(d).Deferred
      /\ e.Running = Untaken(d).Running \o order
      /\ e.Pending = Untaken(d).Pending
  BY <1>1, <1>3 DEF Swept, Typed, Fields
<1> HIDE DEF T
<1>5. order \in Seq(Request) /\ ToSet(order) = T /\ IsInjective(order)
  BY <1>1, <1>2, OrderSet
<1>6. todo \in Seq(Request) /\ ToSet(todo) = ToSet(d.ToDo) \ T /\ IsInjective(todo)
  BY RemoveNodesSet DEF Hold
<1>7. /\ deferred \in Seq(Request) /\ ToSet(deferred) = ToSet(d.Deferred) \ T
      /\ IsInjective(deferred)
  BY RemoveNodesSet DEF Hold
<1>8. ToSet(d.Running) \cap ToSet(order) = {}
  BY <1>2, <1>5 DEF Hold
<1>9. /\ d.Running \o order \in Seq(Request)
      /\ ToSet(d.Running \o order) = ToSet(d.Running) \cup T
      /\ IsInjective(d.Running \o order)
  BY <1>5, <1>8, ConcatSet DEF Hold
<1>10. Hold(e, S)
  <2> HIDE DEF todo, deferred
  <2> QED
    BY <1>2, <1>3, <1>4, <1>6, <1>7, <1>9 DEF Hold
<1>11. Typed(e)
  BY <1>1, <1>3, <1>5 DEF Typed, Swept, Fields
<1> QED
  BY <1>3, <1>4, <1>10, <1>11

\* For the next page of the catapult they are deferred instead.
LEMMA NextPageHold ==
  ASSUME NEW d, Typed(d), NEW S, Hold(d, S), NEW e \in NextPage(d)
  PROVE  Hold(e, S) /\ e.Pending = d.Pending
<1> DEFINE T == Taken(d)
           todo == RemoveNodes(d.ToDo, T)
           deferred == RemoveNodes(d.Deferred, T)
<1>1. PICK order, p :
        /\ order \in SetToSeqs(T)
        /\ e = SendRaw([Untaken(d) EXCEPT !.Deferred = order \o @,
                                          !.RequestPriority = p,
                                          !.Phase = "reading", !.pages = @ - 1], Catapult)
  BY DEF NextPage
<1>2. T \in SUBSET Request /\ T \subseteq ToSet(d.ToDo) \cup ToSet(d.Deferred)
  BY TakenListed
<1>3. /\ Untaken(d).ToDo = todo /\ Untaken(d).Deferred = deferred
      /\ Untaken(d).Running = d.Running /\ Untaken(d).Pending = d.Pending
      /\ Typed(Untaken(d))
  BY DEF Untaken, Kept, Typed, Fields
<1>4. /\ e.ToDo = Untaken(d).ToDo /\ e.Deferred = order \o Untaken(d).Deferred
      /\ e.Running = Untaken(d).Running
      /\ e.Pending = Untaken(d).Pending
  BY <1>1, <1>3 DEF SendRaw, Typed, Fields
<1> HIDE DEF T
<1>5. order \in Seq(Request) /\ ToSet(order) = T /\ IsInjective(order)
  BY <1>1, <1>2, OrderSet
<1>6. todo \in Seq(Request) /\ ToSet(todo) = ToSet(d.ToDo) \ T /\ IsInjective(todo)
  BY RemoveNodesSet DEF Hold
<1>7. /\ deferred \in Seq(Request) /\ ToSet(deferred) = ToSet(d.Deferred) \ T
      /\ IsInjective(deferred)
  BY RemoveNodesSet DEF Hold
<1> HIDE DEF todo, deferred
<1>8. ToSet(order) \cap ToSet(deferred) = {}
  BY <1>5, <1>7
<1>9. /\ order \o deferred \in Seq(Request)
      /\ ToSet(order \o deferred) = T \cup ToSet(deferred)
      /\ IsInjective(order \o deferred)
  BY <1>5, <1>7, <1>8, ConcatSet
<1> QED
  BY <1>2, <1>3, <1>4, <1>6, <1>7, <1>9 DEF Hold

\* The scheduler moves requests from one list to another.
LEMMA ScheduledHold ==
  ASSUME NEW d, Agrees(d), Hold(d, d.Pending), NEW e \in ScheduleOptimizedDiskIo(d)
  PROVE  Hold(e, e.Pending)
<1>1. CASE d.Busy
  BY <1>1 DEF ScheduleOptimizedDiskIo
<1>2. CASE ~d.Busy
  <2>1. PICK c \in CheckedCatapult(d) : e \in Scheduled(c)
    BY <1>2 DEF ScheduleOptimizedDiskIo
  <2>2. Typed(c) /\ Hold(c, c.Pending)
    BY <2>1, SMTT(60) DEF Agrees, Typed, CheckedCatapult, CatapultPhase, Fields, Hold
  <2>3. CASE e = [c EXCEPT !.RequestPriority = 0]
    BY <2>2, <2>3 DEF Typed, Hold, Fields
  <2>4. CASE e \in Sweeps(c)
    BY <2>2, <2>4, SweptHold
  <2>5. CASE e \in NextPage(c)
    BY <2>2, <2>5, NextPageHold
  <2>6. CASE e \in Exhausted(c)
    <3>1. PICK s \in Sweeps(c) : e = [s EXCEPT !.Phase = "shutdown"]
      BY <2>6 DEF Exhausted
    <3>2. Hold(s, s.Pending) /\ Typed(s)
      BY <2>2, <3>1, SweptHold
    <3> QED
      BY <3>1, <3>2 DEF Typed, Hold, Fields
  <2> QED
    BY <2>1, <2>3, <2>4, <2>5, <2>6 DEF Scheduled
<1> QED
  BY <1>1, <1>2 DEF Agrees, Typed

\* The running list is started, or given up with the disc.
LEMMA StartHold ==
  ASSUME NEW d, Typed(d), Hold(d, d.Pending)
  PROVE  LET e == StartOptimizedDiskIo(d) IN Hold(e, e.Pending)
<1>1. CASE d.Busy \/ d.Running = <<>>
  BY <1>1 DEF StartOptimizedDiskIo
<1>2. CASE ~d.Busy /\ d.Running # <<>> /\ d.Offline
  <2> DEFINE e == Killed(d)
  <2>1. /\ e.ToDo = d.ToDo /\ e.Deferred = d.Deferred /\ e.Running = <<>>
        /\ e.Pending = d.Pending \ Range(d.Running)
    BY DEF Killed, SignalDaemon, Complete, Typed, Fields
  <2>2. Range(d.Running) = ToSet(d.Running)
    BY DEF Range, ToSet
  <2>3. <<>> \in Seq(Request) /\ ToSet(<<>>) = {} /\ IsInjective(<<>>)
    BY DEF ToSet, IsInjective
  <2> HIDE DEF e
  <2>4. Hold(e, e.Pending)
    BY <2>1, <2>2, <2>3 DEF Hold
  <2> QED
    BY <1>2, <2>4 DEF StartOptimizedDiskIo, e
<1>3. CASE ~d.Busy /\ d.Running # <<>> /\ ~d.Offline
  BY <1>3 DEF StartOptimizedDiskIo, SendRaw, Typed, Hold, Fields
<1> QED
  BY <1>1, <1>2, <1>3

\* The request that was read is off the running list, and either done with or
\* on the to-do list again; the others may be deferred.
LEMMA EndHold ==
  ASSUME NEW d, Agrees(d), Hold(d, d.Pending), d.Busy, d.User # Catapult, NEW how
  PROVE  LET e == OptimizedDiskEndAction(d, how) IN
         Hold(e, e.Pending) /\ e.Pending \subseteq d.Pending
<1> DEFINE r == d.User
           over == [d EXCEPT !.Busy = FALSE, !.Raw = "done",
                             !.Running = RemoveNode(@, r)]
           fin == Finished(over, r, how)
           def == Boinked(fin)
<1>1. r \in Range(d.Running) /\ r \in ToSet(d.Running) /\ r \in Request
  <2>1. /\ d.Running \in Seq(Request) /\ d.Running # <<>>
        /\ d.Running[1] = r
    BY DEF Agrees, Typed
  <2>2. 1 \in DOMAIN d.Running
    BY <2>1
  <2> QED
    BY <2>1, <2>2 DEF Range, ToSet
<1>2. /\ over.ToDo = d.ToDo /\ over.Deferred = d.Deferred
      /\ over.Running = RemoveNode(d.Running, r) /\ over.Pending = d.Pending
      /\ DOMAIN over = Fields
  BY DEF Agrees, Typed, Fields
<1>3. /\ RemoveNode(d.Running, r) \in Seq(Request)
      /\ ToSet(RemoveNode(d.Running, r)) = ToSet(d.Running) \ {r}
      /\ IsInjective(RemoveNode(d.Running, r))
  BY <1>1, UnlinkOne DEF Hold
<1> HIDE DEF over
<1>4. Hold(over, d.Pending \ {r}) /\ r \in d.Pending
  BY <1>1, <1>2, <1>3 DEF Hold
<1>5. /\ Hold(fin, fin.Pending) /\ fin.Pending \subseteq d.Pending
      /\ DOMAIN fin = Fields
  <2>1. ASSUME NEW e, DOMAIN e = Fields, e.ToDo = over.ToDo,
               e.Deferred = over.Deferred, e.Running = over.Running,
               e.Pending = over.Pending \ {r}
        PROVE  Hold(e, e.Pending) /\ e.Pending \subseteq d.Pending
    BY <1>2, <1>4, <2>1, SameLists
  <2>2. ASSUME NEW e, e \in {[over EXCEPT !.Offline = TRUE],
                             [over EXCEPT !.Failed = @ \cup {r}], over}
        PROVE  /\ Hold(Complete(e, {r}), Complete(e, {r}).Pending)
               /\ Complete(e, {r}).Pending \subseteq d.Pending
               /\ DOMAIN Complete(e, {r}) = Fields
    <3> DEFINE c == Complete(e, {r})
    <3>1. /\ DOMAIN c = Fields /\ c.ToDo = over.ToDo
          /\ c.Deferred = over.Deferred /\ c.Running = over.Running
          /\ c.Pending = over.Pending \ {r}
      BY <1>2, <2>2 DEF Complete, Fields
    <3> HIDE DEF c
    <3>2. Hold(c, c.Pending) /\ c.Pending \subseteq d.Pending
      BY <2>1, <3>1
    <3> QED
      BY <3>1, <3>2 DEF c
  <2>3. /\ Hold(Retry(over, r), Retry(over, r).Pending)
        /\ Retry(over, r).Pending \subseteq d.Pending
        /\ DOMAIN Retry(over, r) = Fields
    <3> DEFINE queued == [over EXCEPT !.ToDo = Append(@, r)]
               f == FileOf[r]
               a == over.Avatar[r]
               e == Retry(over, r)
    <3>1. /\ queued.ToDo = Append(d.ToDo, r) /\ queued.Deferred = over.Deferred
          /\ queued.Running = over.Running /\ queued.Pending = d.Pending
          /\ DOMAIN queued = Fields
      BY <1>2 DEF Fields
    <3>2. r \notin ToSet(d.ToDo)
      BY <1>1 DEF Hold
    <3>3. /\ Append(d.ToDo, r) \in Seq(Request)
          /\ ToSet(Append(d.ToDo, r)) = ToSet(d.ToDo) \cup {r}
          /\ IsInjective(Append(d.ToDo, r))
      BY <1>1, <3>2, AppendSet DEF Hold
    <3> HIDE DEF queued, f, a
    <3>4. Hold(queued, d.Pending)
      BY <1>1, <1>2, <1>4, <3>1, <3>3 DEF Hold
    <3>5. ASSUME NEW x, NEW y,
                 y \in {[queued EXCEPT !.Phase = "shutdown"],
                       [queued EXCEPT !.Flaw = x], queued}
          PROVE  /\ y.ToDo = queued.ToDo /\ y.Deferred = queued.Deferred
                 /\ y.Running = queued.Running /\ y.Pending = queued.Pending
                 /\ DOMAIN y = Fields
      BY <3>1, <3>5 DEF Fields
    <3>6. e \in {[queued EXCEPT !.Phase = "shutdown"],
                 [queued EXCEPT !.Flaw[f][a] = @ + 1], queued}
      BY DEF Retry, queued, f, a
    <3>7. /\ e.ToDo = queued.ToDo /\ e.Deferred = queued.Deferred
          /\ e.Running = queued.Running /\ e.Pending = queued.Pending
          /\ DOMAIN e = Fields
      BY <3>5, <3>6
    <3> HIDE DEF e
    <3>8. Hold(e, e.Pending) /\ e.Pending \subseteq d.Pending
      BY <3>1, <3>4, <3>7, SameLists
    <3> QED
      BY <3>7, <3>8 DEF e
  <2> QED
    BY <2>2, <2>3 DEF Finished
<1> HIDE DEF fin
<1>6. /\ Hold(def, def.Pending) /\ def.Pending \subseteq d.Pending
      /\ DOMAIN def = Fields
  <2> DEFINE b == [fin EXCEPT !.Deferred = fin.Running \o @, !.Running = <<>>,
                              !.Boink = FALSE]
  <2>1. /\ b.ToDo = fin.ToDo /\ b.Deferred = fin.Running \o fin.Deferred
        /\ b.Running = <<>> /\ b.Pending = fin.Pending /\ DOMAIN b = Fields
    BY <1>5 DEF Fields
  <2>2. ToSet(fin.Running) \cap ToSet(fin.Deferred) = {}
    BY <1>5 DEF Hold
  <2>3. LET q == fin.Running \o fin.Deferred IN
        /\ q \in Seq(Request) /\ IsInjective(q)
        /\ ToSet(q) = ToSet(fin.Running) \cup ToSet(fin.Deferred)
    BY <1>5, <2>2, ConcatSet DEF Hold
  <2>4. <<>> \in Seq(Request) /\ ToSet(<<>>) = {} /\ IsInjective(<<>>)
    BY DEF ToSet, IsInjective
  <2> HIDE DEF b
  <2>5. Hold(b, fin.Pending)
    BY <1>5, <2>1, <2>3, <2>4 DEF Hold
  <2>6. def = b \/ def = fin
    BY DEF Boinked, b
  <2> QED
    BY <1>5, <2>1, <2>5, <2>6
<1> HIDE DEF def
<1>7. LET e == NextIO(def) IN
      /\ e.ToDo = def.ToDo /\ e.Deferred = def.Deferred
      /\ e.Running = def.Running /\ e.Pending = def.Pending
  BY <1>6 DEF NextIO, SignalDaemon, SendRaw, Fields
<1>8. OptimizedDiskEndAction(d, how) = NextIO(def)
  BY DEF OptimizedDiskEndAction, def, fin, over
<1> QED
  BY <1>6, <1>7, <1>8, SameLists

\* An aborted request is taken off the list that has it and completed, unless
\* the raw device serves it: then it stays at the head of those that run.
LEMMA AbortHold ==
  ASSUME NEW d, Agrees(d), Hold(d, d.Pending), NEW r \in Request
  PROVE  LET e == AbortOptimizedDiskIo(d, r) IN Hold(e, e.Pending)
<1>1. CASE d.Busy /\ d.User = r
  <2> DEFINE e == [d EXCEPT !.Raw = "aborting", !.Aborted = @ \cup {r}]
  <2>1. /\ e.ToDo = d.ToDo /\ e.Deferred = d.Deferred /\ e.Running = d.Running
        /\ e.Pending = d.Pending
    BY DEF Agrees, Typed, Fields
  <2> HIDE DEF e
  <2>2. Hold(e, e.Pending)
    BY <2>1, SameLists
  <2> QED
    BY <1>1, <2>2 DEF AbortOptimizedDiskIo, e
<1>2. CASE ~(d.Busy /\ d.User = r)
  <2> DEFINE without(q) == IF r \in Range(q) THEN RemoveNode(q, r) ELSE q
             gone == Complete(Unlinked(d, r), {r})
  <2>1. /\ gone.ToDo = without(d.ToDo) /\ gone.Deferred = without(d.Deferred)
        /\ gone.Running = without(d.Running) /\ gone.Pending = d.Pending \ {r}
    BY DEF Complete, Unlinked, Agrees, Typed, Fields
  <2>2. /\ without(d.ToDo) \in Seq(Request) /\ IsInjective(without(d.ToDo))
        /\ ToSet(without(d.ToDo)) = ToSet(d.ToDo) \ {r}
    BY UnlinkOne DEF Hold
  <2>3. /\ without(d.Deferred) \in Seq(Request) /\ IsInjective(without(d.Deferred))
        /\ ToSet(without(d.Deferred)) = ToSet(d.Deferred) \ {r}
    BY UnlinkOne DEF Hold
  <2>4. /\ without(d.Running) \in Seq(Request) /\ IsInjective(without(d.Running))
        /\ ToSet(without(d.Running)) = ToSet(d.Running) \ {r}
    BY UnlinkOne DEF Hold
  <2> HIDE DEF without, gone
  <2>5. Hold(gone, gone.Pending)
    BY <2>1, <2>2, <2>3, <2>4 DEF Hold
  <2> QED
    BY <1>2, <2>5 DEF AbortOptimizedDiskIo, gone
<1> QED
  BY <1>1, <1>2

\* A disk is mounted with empty lists.
LEMMA InitHolds == Init => ListInv
<1> SUFFICES ASSUME Init PROVE ListInv
  OBVIOUS
<1>1. IInv
  BY InitAgrees DEF IInv
<1>2. /\ disk.ToDo = <<>> /\ disk.Deferred = <<>> /\ disk.Running = <<>>
      /\ disk.Pending = {}
  BY DEF Init, NewDisk, IdleDisk, SendRaw
<1>3. <<>> \in Seq(Request) /\ ToSet(<<>>) = {} /\ IsInjective(<<>>)
  BY DEF ToSet, IsInjective
<1>4. Hold(disk, disk.Pending)
  BY <1>2, <1>3 DEF Hold
<1> QED
  BY <1>1, <1>2, <1>4 DEF ListInv

\* Every step moves requests between the lists, completes them, or queues one
\* that was on none.
LEMMA NextHolds == ListInv /\ [Next]_vars => ListInv'
<1> SUFFICES ASSUME ListInv, [Next]_vars PROVE ListInv'
  OBVIOUS
<1>a. Agrees(disk) /\ Typed(disk) /\ Hold(disk, disk.Pending)
  BY DEF ListInv, IInv, Agrees
<1>i. IInv'
  BY NextAgrees DEF ListInv, IInv
<1> SUFFICES /\ Hold(disk', disk'.Pending)
             /\ \A r \in Request : caller' = <<"queue", r>> => r \notin disk'.Pending
  BY <1>i DEF ListInv
<1>n. \A r \in Request : Nobody # <<"queue", r>>
  BY DEF Nobody
<1>1. ASSUME NEW r \in Request, Doit(r)
      PROVE  /\ Hold(disk', disk'.Pending)
             /\ \A q \in Request : caller' = <<"queue", q>> => q \notin disk'.Pending
  <2>1. /\ disk'.ToDo = disk.ToDo /\ disk'.Deferred = disk.Deferred
        /\ disk'.Running = disk.Running /\ disk'.Pending = disk.Pending
    BY <1>1, <1>a DEF Doit, Typed, Fields
  <2>2. r \notin disk.Pending /\ (caller' = Nobody \/ caller' = <<"queue", r>>)
    BY <1>1 DEF Doit
  <2> QED
    BY <1>a, <1>n, <2>1, <2>2, SameLists
<1>2. ASSUME NEW r \in Request, AbortIO(r)
      PROVE  /\ Hold(disk', disk'.Pending)
             /\ \A q \in Request : caller' = <<"queue", q>> => q \notin disk'.Pending
  BY <1>2, <1>a, <1>n, AbortHold DEF AbortIO
<1>3. CASE DoitQueues
  <2>1. PICK r \in Request : /\ caller = <<"queue", r>>
                             /\ disk' = QueueOptimizedDiskRequest(disk, r)
                             /\ caller' = <<"look", r>>
    BY <1>3 DEF DoitQueues
  <2>2. /\ disk'.ToDo = Append(disk.ToDo, r) /\ disk'.Deferred = disk.Deferred
        /\ disk'.Running = disk.Running /\ disk'.Pending = disk.Pending \cup {r}
    BY <1>a, <2>1 DEF QueueOptimizedDiskRequest, Typed, Fields
  <2>3. r \notin disk.Pending
    BY <2>1 DEF ListInv
  <2>4. r \notin ToSet(disk.ToDo)
    BY <1>a, <2>3 DEF Hold
  <2>5. /\ Append(disk.ToDo, r) \in Seq(Request)
        /\ ToSet(Append(disk.ToDo, r)) = ToSet(disk.ToDo) \cup {r}
        /\ IsInjective(Append(disk.ToDo, r))
    BY <1>a, <2>4, AppendSet DEF Hold
  <2>6. Hold(disk', disk'.Pending)
    BY <1>a, <2>2, <2>3, <2>5 DEF Hold
  <2>7. \A q \in Request : caller' # <<"queue", q>>
    BY <2>1
  <2> QED
    BY <2>6, <2>7
<1>4. CASE DoitLooks
  <2>1. /\ disk'.ToDo = disk.ToDo /\ disk'.Deferred = disk.Deferred
        /\ disk'.Running = disk.Running /\ disk'.Pending = disk.Pending
        /\ caller' = Nobody
    BY <1>4, <1>a DEF DoitLooks, SignalDaemon, Typed, Fields
  <2> QED
    BY <1>a, <1>n, <2>1, SameLists
<1>5. CASE Daemon
  <2> DEFINE taken == [disk EXCEPT !.signal = FALSE]
  <2>1. Agrees(taken)
    BY <1>a DEF Agrees, Typed, Fields
  <2>2. Hold(taken, taken.Pending)
    BY <1>a DEF Hold, Typed, Fields
  <2> HIDE DEF taken
  <2>3. PICK d \in ScheduleOptimizedDiskIo(taken) : disk' = StartOptimizedDiskIo(d)
    BY <1>5 DEF Daemon, taken
  <2>4. Typed(d)
    BY <2>1, ScheduledAgrees DEF Rests, Agrees
  <2>5. Hold(d, d.Pending)
    BY <2>1, <2>2, ScheduledHold
  <2>6. Hold(disk', disk'.Pending)
    BY <2>3, <2>4, <2>5, StartHold
  <2>7. caller' = Nobody
    BY <1>5 DEF Daemon
  <2> QED
    BY <1>n, <2>6, <2>7
<1>6. CASE RawDone
  <2>1. disk.Busy /\ caller' = caller
    BY <1>6, <1>a DEF RawDone, Agrees
  <2>2. CASE disk.User = Catapult
    <3>1. disk' = CatapultEndAction(disk)
      BY <1>6, <2>2 DEF RawDone
    <3>2. /\ disk'.ToDo = disk.ToDo /\ disk'.Deferred = disk.Deferred
          /\ disk'.Running = disk.Running /\ disk'.Pending = disk.Pending
      BY <1>a, <3>1 DEF CatapultEndAction, SignalDaemon, Typed, Fields
    <3> QED
      BY <1>a, <2>1, <3>2, SameLists DEF ListInv
  <2>3. CASE disk.User # Catapult
    <3>1. PICK how \in RawResults : disk' = OptimizedDiskEndAction(disk, how)
      BY <1>6, <2>3 DEF RawDone
    <3>2. Hold(disk', disk'.Pending) /\ disk'.Pending \subseteq disk.Pending
      BY <1>a, <2>1, <2>3, <3>1, EndHold
    <3> QED
      BY <2>1, <3>2 DEF ListInv
  <2> QED
    BY <2>2, <2>3
<1>7. CASE DiscLeaves
  BY <1>7, <1>a DEF DiscLeaves, ListInv
<1>8. CASE UNCHANGED vars
  BY <1>8, <1>a DEF vars, ListInv
<1> QED
  BY <1>1, <1>2, <1>3, <1>4, <1>5, <1>6, <1>7, <1>8 DEF Next

\* Whatever the file daemon, the end actions and the aborts do, a request in
\* progress is on the to-do, the deferred or the running list of its disk, once,
\* and no other request is on any.
THEOREM OnOneListHolds == Spec => []OnOneList
<1>1. ListInv => OnOneList
  <2> SUFFICES ASSUME ListInv PROVE OnOneList
    OBVIOUS
  <2> DEFINE first == disk.ToDo \o disk.Deferred
  <2>1. Hold(disk, disk.Pending)
    BY DEF ListInv
  <2>2. /\ first \in Seq(Request) /\ IsInjective(first)
        /\ ToSet(first) = ToSet(disk.ToDo) \cup ToSet(disk.Deferred)
    BY <2>1, ConcatSet DEF Hold
  <2> HIDE DEF first
  <2>3. ToSet(first) \cap ToSet(disk.Running) = {}
    BY <2>1, <2>2 DEF Hold
  <2>4. /\ IsInjective(first \o disk.Running)
        /\ ToSet(first \o disk.Running) = ToSet(first) \cup ToSet(disk.Running)
    BY <2>1, <2>2, <2>3, ConcatSet DEF Hold
  <2>5. Queued = first \o disk.Running
    BY DEF Queued, first
  <2>6. Range(Queued) = ToSet(Queued)
    BY DEF Range, ToSet
  <2> QED
    BY <2>1, <2>2, <2>4, <2>5, <2>6 DEF OnOneList, Hold
<1> QED
  BY <1>1, InitHolds, NextHolds, PTL DEF Spec

-----------------------------------------------------------------------------
(* The raw device is given the most urgent request there is.                *)

\* The running list has one priority, and nothing that was deferred is more
\* urgent; nothing that was queued since is either, unless it has boinked.
Led(d) ==
  /\ d.RunningPriority \in Nat /\ d.RequestPriority \in Nat
  /\ d.Running # <<>> =>
       /\ \A q \in ToSet(d.Running) : Pri[q] = d.RunningPriority
       /\ \A q \in ToSet(d.Deferred) : Pri[q] <= d.RunningPriority
       /\ ~d.Boink => \A q \in ToSet(d.ToDo) : Pri[q] <= d.RunningPriority

\* What NoOvertaking needs to be inductive: besides, requests only run while the
\* raw device serves one of them.
OrderInv ==
  /\ ListInv
  /\ Led(disk)
  /\ disk.Running # <<>> => disk.Busy /\ disk.User # Catapult

\* Nothing on the lists is more urgent than what runs.
Leads(d) ==
  d.Running # <<>> =>
    /\ \A q \in ToSet(d.Running) : Pri[q] = d.RunningPriority
    /\ \A q \in ToSet(d.ToDo) \cup ToSet(d.Deferred) : Pri[q] <= d.RunningPriority

\* HighestPriority is the highest priority of a list; that of an empty one is 0.
LEMMA HighestLemma ==
  ASSUME NEW q \in Seq(Request)
  PROVE  /\ HighestPriority(q) \in Nat
         /\ \A r \in ToSet(q) : r \in Request /\ Pri[r] <= HighestPriority(q)
<1> DEFINE upto(n) == {Pri[q[i]] : i \in 1..n} \cup {0}
           Has(n) == \E p \in upto(n) : \A x \in upto(n) : x <= p
           N == {n \in Nat : n <= Len(q) => Has(n)}
<1>1. /\ Len(q) \in Nat /\ DOMAIN q = 1..Len(q)
      /\ \A i \in 1..Len(q) : q[i] \in Request /\ Pri[q[i]] \in Nat
  BY LenProperties, ElementOfSeq, DiskAssumption
<1>2. 0 \in N
  <2>1. upto(0) = {0}
    OBVIOUS
  <2>2. Has(0)
    <3> HIDE DEF upto
    <3>1. 0 \in upto(0) /\ \A x \in upto(0) : x <= 0
      BY <2>1
    <3> QED
      BY <3>1
  <2> HIDE DEF Has
  <2> QED
    BY <2>2
<1>3. ASSUME NEW n \in N PROVE n + 1 \in N
  <2>1. SUFFICES ASSUME n + 1 <= Len(q) PROVE Has(n + 1)
    OBVIOUS
  <2> DEFINE e == Pri[q[n + 1]]
  <2>2. n \in Nat /\ n + 1 \in 1..Len(q) /\ Has(n)
    BY <1>1, <2>1
  <2>3. upto(n + 1) = upto(n) \cup {e}
    <3>1. \A i \in 1..(n + 1) : i \in 1..n \/ i = n + 1
      OBVIOUS
    <3>2. \A i \in 1..n : i \in 1..(n + 1)
      OBVIOUS
    <3>3. n + 1 \in 1..(n + 1)
      BY <2>2
    <3> QED
      BY <3>1, <3>2, <3>3
  <2>4. \A x \in upto(n) : x \in Nat
    BY <1>1, <2>2
  <2>5. e \in Nat
    BY <1>1, <2>2
  <2> HIDE DEF upto, e
  <2>6. PICK p \in upto(n) : \A x \in upto(n) : x <= p
    BY <2>2
  <2>7. CASE e <= p
    <3>1. \A x \in upto(n + 1) : x <= p
      BY <2>3, <2>6, <2>7
    <3> QED
      BY <2>3, <2>6, <3>1
  <2>8. CASE ~(e <= p)
    <3>1. \A x \in upto(n + 1) : x <= e
      BY <2>3, <2>4, <2>5, <2>6, <2>8
    <3> QED
      BY <2>3, <3>1
  <2> QED
    BY <2>7, <2>8
<1>4. Has(Len(q))
  <2> HIDE DEF N, Has
  <2>1. N = Nat
    <3>1. N \in SUBSET Nat
      BY DEF N
    <3> QED
      BY <1>2, <1>3, <3>1, SetInduction
  <2> QED
    BY <1>1, <2>1 DEF N
<1> DEFINE pris == {Pri[r] : r \in Range(q)} \cup {0}
<1>5. pris = upto(Len(q))
  BY <1>1 DEF Range
<1>6. HighestPriority(q) = CHOOSE p \in pris : \A x \in pris : x <= p
  BY DEF HighestPriority
<1>7. \A x \in pris : x \in Nat
  <2>1. \A x \in upto(Len(q)) : x \in Nat
    BY <1>1
  <2> HIDE DEF pris, upto
  <2> QED
    BY <1>5, <2>1
<1>8. \A r \in ToSet(q) : r \in Request /\ Pri[r] \in pris
  BY <1>1 DEF ToSet, Range
<1> HIDE DEF pris, upto
<1>9. HighestPriority(q) \in pris /\ \A x \in pris : x <= HighestPriority(q)
  BY <1>4, <1>5, <1>6
<1> QED
  BY <1>7, <1>8, <1>9

\* The list that is scheduled has the most urgent requests of both.
LEMMA ScheduleHighest ==
  ASSUME NEW d, d.ToDo \in Seq(Request), d.Deferred \in Seq(Request)
  PROVE  LET h == HighestPriority(ScheduleList(d)) IN
         /\ h \in Nat
         /\ \A q \in ToSet(d.ToDo) \cup ToSet(d.Deferred) : Pri[q] <= h
         /\ \A q \in Taken(d) : Pri[q] = h
<1>1. \A q \in Taken(d) : Pri[q] = HighestPriority(ScheduleList(d))
  BY DEF Taken
<1>2. /\ HighestPriority(d.ToDo) \in Nat /\ HighestPriority(d.Deferred) \in Nat
      /\ \A q \in ToSet(d.ToDo) : q \in Request /\ Pri[q] <= HighestPriority(d.ToDo)
      /\ \A q \in ToSet(d.Deferred) :
           q \in Request /\ Pri[q] <= HighestPriority(d.Deferred)
  BY HighestLemma
<1>3. \A q \in Request : Pri[q] \in Nat
  BY DiskAssumption
<1>4. CASE TakesDeferred(d)
  BY <1>1, <1>2, <1>3, <1>4 DEF TakesDeferred, ScheduleList
<1>5. CASE ~TakesDeferred(d) /\ d.Deferred = <<>>
  <2>1. ToSet(d.Deferred) = {}
    BY <1>5 DEF ToSet
  <2> QED
    BY <1>1, <1>2, <1>3, <1>5, <2>1 DEF ScheduleList
<1>6. CASE ~TakesDeferred(d) /\ d.Deferred # <<>>
  BY <1>1, <1>2, <1>3, <1>6 DEF TakesDeferred, ScheduleList
<1> QED
  BY <1>4, <1>5, <1>6

\* A sweep over a disk with nothing to run runs the most urgent.
LEMMA SweptLeads ==
  ASSUME NEW d, Typed(d), NEW S, Hold(d, S), d.Running = <<>>, NEW e \in Sweeps(d)
  PROVE  Leads(e) /\ e.RunningPriority \in Nat /\ e.RequestPriority \in Nat
<1> DEFINE T == Taken(d)
           h == HighestPriority(ScheduleList(d))
<1>1. PICK order, copy : order \in SetToSeqs(T) /\ e = Swept(d, order, copy)
  BY DEF Sweeps
<1>2. T \in SUBSET Request
  BY TakenListed
<1>3. order \in Seq(Request) /\ ToSet(order) = T
  BY <1>1, <1>2, OrderSet
<1>4. /\ Untaken(d).ToDo = RemoveNodes(d.ToDo, T)
      /\ Untaken(d).Deferred = RemoveNodes(d.Deferred, T)
      /\ Untaken(d).Running = <<>> /\ Typed(Untaken(d))
  BY DEF Untaken, Kept, Typed, Fields
<1>5. /\ e.ToDo = Untaken(d).ToDo /\ e.Deferred = Untaken(d).Deferred
      /\ e.Running = <<>> \o order
      /\ e.RunningPriority = h
      /\ e.RequestPriority = HighestPriority(Untaken(d).ToDo)
  BY <1>1, <1>4 DEF Swept, Typed, Fields
<1>6. /\ e.ToDo \in Seq(Request) /\ ToSet(e.ToDo) \subseteq ToSet(d.ToDo)
      /\ ToSet(e.Deferred) \subseteq ToSet(d.Deferred)
  BY <1>4, <1>5, RemoveNodesSet DEF Hold
<1>7. e.Running = order
  BY <1>3, <1>5, ConcatEmptySeq
<1>8. /\ h \in Nat
      /\ \A q \in ToSet(d.ToDo) \cup ToSet(d.Deferred) : Pri[q] <= h
      /\ \A q \in T : Pri[q] = h
  BY ScheduleHighest DEF Hold
<1>9. e.RequestPriority \in Nat
  BY <1>5, <1>6, HighestLemma
<1> HIDE DEF T, h
<1> QED
  BY <1>3, <1>5, <1>6, <1>7, <1>8, <1>9 DEF Leads

\* Priorities are numbers, and what runs is for the raw device.
Serves(d) ==
  /\ d.RunningPriority \in Nat /\ d.RequestPriority \in Nat
  /\ d.Running # <<>> => d.Busy /\ d.User # Catapult

\* A disk with an idle raw device has nothing to run; scheduling and starting
\* it gives the raw device the most urgent request.
LEMMA StartLeads ==
  ASSUME NEW d, Agrees(d), Hold(d, d.Pending), Led(d), ~d.Busy, d.Running = <<>>,
         NEW e \in ScheduleOptimizedDiskIo(d)
  PROVE  LET f == StartOptimizedDiskIo(e) IN Leads(f) /\ Serves(f)
<1>1. /\ Leads(e) /\ e.RunningPriority \in Nat /\ e.RequestPriority \in Nat
      /\ e.Running # <<>> => ~e.Busy
  <2>1. PICK c \in CheckedCatapult(d) : e \in Scheduled(c)
    BY DEF ScheduleOptimizedDiskIo
  <2>2. /\ Typed(c) /\ Hold(c, c.Pending) /\ c.Running = <<>> /\ ~c.Busy
        /\ c.RunningPriority \in Nat /\ c.RequestPriority \in Nat
    <3>1. Rests(c)
      BY <2>1, CheckedRests DEF Agrees, Rests
    <3>2. /\ c.Running = d.Running /\ c.Busy = d.Busy
          /\ c.RunningPriority = d.RunningPriority
          /\ c.RequestPriority = d.RequestPriority
          /\ c.ToDo = d.ToDo /\ c.Deferred = d.Deferred /\ c.Pending = d.Pending
      BY <2>1 DEF Agrees, Typed, CheckedCatapult, Fields
    <3> QED
      BY <3>1, <3>2, SameLists DEF Rests, Led
  <2>3. CASE e = [c EXCEPT !.RequestPriority = 0]
    BY <2>2, <2>3 DEF Typed, Leads, Fields
  <2>4. ASSUME NEW s \in Sweeps(c)
        PROVE  /\ Leads(s) /\ s.RunningPriority \in Nat /\ s.RequestPriority \in Nat
               /\ ~s.Busy /\ Typed(s)
    <3>1. Leads(s) /\ s.RunningPriority \in Nat /\ s.RequestPriority \in Nat
      BY <2>2, SweptLeads
    <3>2. Typed(s)
      BY <2>2, SweptHold
    <3>3. PICK order, copy : s = Swept(c, order, copy)
      BY DEF Sweeps
    <3>4. ~s.Busy
      BY <2>2, <3>3 DEF Swept, Untaken, Typed, Fields
    <3> QED
      BY <3>1, <3>2, <3>4
  <2>5. CASE e \in NextPage(c)
    <3>1. PICK order :
            e = SendRaw([Untaken(c) EXCEPT !.Deferred = order \o @,
                                       !.RequestPriority = HighestPriority(c.ToDo),
                                       !.Phase = "reading", !.pages = @ - 1], Catapult)
      BY <2>5 DEF NextPage
    <3>2. HighestPriority(c.ToDo) \in Nat
      BY <2>2, HighestLemma DEF Hold
    <3>3. /\ e.Running = <<>> /\ e.RunningPriority \in Nat /\ e.RequestPriority \in Nat
      BY <2>2, <3>1, <3>2 DEF SendRaw, Untaken, Typed, Fields
    <3> QED
      BY <3>3 DEF Leads
  <2>6. CASE e \in Exhausted(c)
    <3>1. PICK s \in Sweeps(c) : e = [s EXCEPT !.Phase = "shutdown"]
      BY <2>6 DEF Exhausted
    <3>2. /\ Leads(s) /\ s.RunningPriority \in Nat /\ s.RequestPriority \in Nat
          /\ ~s.Busy /\ Typed(s)
      BY <2>4, <3>1
    <3> QED
      BY <3>1, <3>2 DEF Typed, Leads, Fields
  <2> QED
    BY <2>1, <2>3, <2>4, <2>5, <2>6 DEF Scheduled
<1>2. Typed(e) /\ Hold(e, e.Pending)
  BY ScheduledAgrees, ScheduledHold DEF Rests, Agrees
<1> DEFINE f == StartOptimizedDiskIo(e)
<1>3. CASE e.Busy \/ e.Running = <<>>
  BY <1>1, <1>3 DEF StartOptimizedDiskIo, Serves
<1>4. CASE ~e.Busy /\ e.Running # <<>> /\ e.Offline
  <2>1. /\ Killed(e).Running = <<>> /\ Killed(e).RunningPriority = e.RunningPriority
        /\ Killed(e).RequestPriority = e.RequestPriority
    BY <1>2 DEF Killed, SignalDaemon, Complete, Typed, Fields
  <2> QED
    BY <1>1, <1>4, <2>1 DEF StartOptimizedDiskIo, Leads, Serves
<1>5. CASE ~e.Busy /\ e.Running # <<>> /\ ~e.Offline
  <2> DEFINE h == Head(e.Running)
             sent == SendRaw(e, h)
  <2>1. h \in Request /\ h # Catapult
    BY <1>2, <1>5, DiskAssumption DEF Typed
  <2>2. /\ sent.ToDo = e.ToDo /\ sent.Deferred = e.Deferred
        /\ sent.Running = e.Running /\ sent.RunningPriority = e.RunningPriority
        /\ sent.RequestPriority = e.RequestPriority
        /\ sent.Busy = TRUE /\ sent.User = h
    BY <1>2 DEF SendRaw, Typed, Fields
  <2> HIDE DEF h, sent
  <2>3. Leads(sent) /\ Serves(sent)
    BY <1>1, <2>1, <2>2 DEF Leads, Serves
  <2> QED
    BY <1>5, <2>3 DEF StartOptimizedDiskIo, sent, h
<1> QED
  BY <1>3, <1>4, <1>5

\* Finishing with a request touches the to-do list only, to queue it again.
LEMMA FinishedFields ==
  ASSUME NEW d, DOMAIN d = Fields, NEW r, NEW how
  PROVE  LET e == Finished(d, r, how) IN
         /\ DOMAIN e = Fields
         /\ e.Running = d.Running /\ e.Deferred = d.Deferred
         /\ e.ToDo = d.ToDo \/ e.ToDo = Append(d.ToDo, r)
         /\ e.Boink = d.Boink /\ e.RunningPriority = d.RunningPriority
         /\ e.RequestPriority = d.RequestPriority
<1> DEFINE Like(e) ==
             /\ DOMAIN e = Fields
             /\ e.Running = d.Running /\ e.Deferred = d.Deferred
             /\ e.ToDo = d.ToDo \/ e.ToDo = Append(d.ToDo, r)
             /\ e.Boink = d.Boink /\ e.RunningPriority = d.RunningPriority
             /\ e.RequestPriority = d.RequestPriority
           queued == [d EXCEPT !.ToDo = Append(@, r)]
           f == FileOf[r]
           a == d.Avatar[r]
<1>1. Like(Complete([d EXCEPT !.Offline = TRUE], {r}))
  BY DEF Complete, Fields
<1>2. Like(Complete([d EXCEPT !.Failed = @ \cup {r}], {r}))
  BY DEF Complete, Fields
<1>3. Like(Complete(d, {r}))
  BY DEF Complete, Fields
<1>4. Like(queued)
  BY DEF Fields
<1>5. Like([queued EXCEPT !.Phase = "shutdown"])
  BY DEF Fields
<1>6. ASSUME NEW x PROVE Like([queued EXCEPT !.Flaw = x])
  BY DEF Fields
<1> HIDE DEF Like, queued
<1>7. Like([queued EXCEPT !.Flaw[f][a] = @ + 1])
  BY <1>6
<1>8. Like(Retry(d, r))
  BY <1>4, <1>5, <1>7 DEF Retry, queued
<1>9. Like(Finished(d, r, how))
  BY <1>1, <1>2, <1>3, <1>8 DEF Finished
<1> QED
  BY <1>9 DEF Like

\* The end action gives the raw device another request of the running list, if
\* nothing more urgent has come.
LEMMA EndLeads ==
  ASSUME NEW d, Agrees(d), Hold(d, d.Pending), d.Busy, d.User # Catapult,
         Led(d), NEW how
  PROVE  LET e == OptimizedDiskEndAction(d, how) IN Leads(e) /\ Serves(e)
<1> DEFINE r == d.User
           over == [d EXCEPT !.Busy = FALSE, !.Raw = "done",
                             !.Running = RemoveNode(@, r)]
           fin == Finished(over, r, how)
           def == Boinked(fin)
<1>1. d.Running # <<>> /\ r \in Range(d.Running) /\ r \in ToSet(d.Running)
  <2>1. /\ d.Running \in Seq(Request) /\ d.Running # <<>>
        /\ d.Running[1] = r
    BY DEF Agrees, Typed
  <2>2. 1 \in DOMAIN d.Running
    BY <2>1
  <2> QED
    BY <2>1, <2>2 DEF Range, ToSet
<1>2. /\ over.ToDo = d.ToDo /\ over.Deferred = d.Deferred
      /\ over.Running = RemoveNode(d.Running, r) /\ over.Boink = d.Boink
      /\ over.RunningPriority = d.RunningPriority
      /\ over.RequestPriority = d.RequestPriority
      /\ DOMAIN over = Fields
  BY DEF Agrees, Typed, Fields
<1>3. /\ RemoveNode(d.Running, r) \in Seq(Request)
      /\ ToSet(RemoveNode(d.Running, r)) = ToSet(d.Running) \ {r}
  BY <1>1, UnlinkOne DEF Hold
<1>4. r \in Request /\ r \notin ToSet(d.ToDo)
  BY <1>1 DEF Hold, Agrees, Typed
<1>5. /\ Append(d.ToDo, r) \in Seq(Request)
      /\ ToSet(Append(d.ToDo, r)) = ToSet(d.ToDo) \cup {r}
  BY <1>4, AppendSet DEF Hold
<1> HIDE DEF over
<1>6. /\ DOMAIN fin = Fields
      /\ fin.Running = over.Running /\ fin.Deferred = over.Deferred
      /\ fin.ToDo = over.ToDo \/ fin.ToDo = Append(over.ToDo, r)
      /\ fin.Boink = over.Boink /\ fin.RunningPriority = over.RunningPriority
      /\ fin.RequestPriority = over.RequestPriority
  BY <1>2, FinishedFields
<1> HIDE DEF fin
<1>7. /\ ToSet(fin.ToDo) \subseteq ToSet(d.ToDo) \cup {r}
      /\ ToSet(fin.Running) \subseteq ToSet(d.Running)
      /\ fin.Running \in Seq(Request)
  BY <1>2, <1>3, <1>5, <1>6
<1>8. /\ Leads(def) /\ def.RunningPriority \in Nat /\ def.RequestPriority \in Nat
      /\ def.Running \in Seq(Request) /\ DOMAIN def = Fields
  <2>1. CASE fin.Boink \/ fin.Offline
    <3> DEFINE b == [fin EXCEPT !.Deferred = fin.Running \o @, !.Running = <<>>,
                                !.Boink = FALSE]
    <3>1. /\ DOMAIN b = Fields /\ b.Running = <<>>
          /\ b.RunningPriority = fin.RunningPriority
          /\ b.RequestPriority = fin.RequestPriority
      BY <1>6 DEF Fields
    <3>2. def = b
      BY <2>1 DEF Boinked
    <3> HIDE DEF b, def
    <3>3. <<>> \in Seq(Request)
      OBVIOUS
    <3> QED
      BY <1>2, <1>6, <3>1, <3>2, <3>3 DEF Leads, Led
  <2>2. CASE ~(fin.Boink \/ fin.Offline)
    <3>1. def = fin
      BY <2>2 DEF Boinked
    <3> HIDE DEF def
    <3>2. ~d.Boink
      BY <1>2, <1>6, <2>2
    <3>3. /\ \A q \in ToSet(d.Running) : Pri[q] = d.RunningPriority
          /\ \A q \in ToSet(d.Deferred) : Pri[q] <= d.RunningPriority
          /\ \A q \in ToSet(d.ToDo) : Pri[q] <= d.RunningPriority
          /\ d.RunningPriority \in Nat /\ d.RequestPriority \in Nat
      BY <1>1, <3>2 DEF Led
    <3>4. Pri[r] <= d.RunningPriority
      BY <1>1, <3>3
    <3> HIDE DEF r
    <3> QED
      BY <1>2, <1>6, <1>7, <3>1, <3>3, <3>4 DEF Leads
  <2> QED
    BY <2>1, <2>2
<1> HIDE DEF def
<1> DEFINE e == NextIO(def)
<1>9. /\ e.ToDo = def.ToDo /\ e.Deferred = def.Deferred
      /\ e.Running = def.Running
      /\ e.RunningPriority = def.RunningPriority
      /\ e.RequestPriority = def.RequestPriority
      /\ def.Running # <<>> => e.Busy = TRUE /\ e.User = Head(def.Running)
  BY <1>8 DEF NextIO, SignalDaemon, SendRaw, Fields
<1>10. OptimizedDiskEndAction(d, how) = e
  BY DEF OptimizedDiskEndAction, def, fin, over
<1> HIDE DEF e
<1>11. def.Running # <<>> => Head(def.Running) # Catapult
  BY <1>8, DiskAssumption
<1>12. Leads(e) /\ Serves(e)
  BY <1>8, <1>9, <1>11 DEF Leads, Serves
<1> QED
  BY <1>10, <1>12

\* An abort only takes a request off a list.
LEMMA AbortLed ==
  ASSUME NEW d, Agrees(d), Hold(d, d.Pending), Led(d), Serves(d), NEW r \in Request
  PROVE  LET e == AbortOptimizedDiskIo(d, r) IN
         /\ Led(e) /\ Serves(e)
         /\ e.User = d.User /\ (e.Raw = "done" <=> d.Raw = "done")
<1>1. CASE d.Busy /\ d.User = r
  BY <1>1 DEF AbortOptimizedDiskIo, Agrees, Typed, Fields, Led, Serves
<1>2. CASE ~(d.Busy /\ d.User = r)
  <2> DEFINE without(q) == IF r \in Range(q) THEN RemoveNode(q, r) ELSE q
             e == Complete(Unlinked(d, r), {r})
  <2>1. /\ e.ToDo = without(d.ToDo) /\ e.Deferred = without(d.Deferred)
        /\ e.Running = without(d.Running) /\ e.Boink = d.Boink
        /\ e.RunningPriority = d.RunningPriority
        /\ e.RequestPriority = d.RequestPriority
        /\ e.Busy = d.Busy /\ e.User = d.User /\ e.Raw = d.Raw
    BY DEF Complete, Unlinked, Agrees, Typed, Fields
  <2>2. /\ ToSet(without(d.ToDo)) = ToSet(d.ToDo) \ {r}
        /\ ToSet(without(d.Deferred)) = ToSet(d.Deferred) \ {r}
        /\ ToSet(without(d.Running)) = ToSet(d.Running) \ {r}
    BY UnlinkOne DEF Hold
  <2>3. d.Running = <<>> => without(d.Running) = <<>>
    BY DEF Range
  <2> HIDE DEF without, e
  <2>4. Led(e) /\ Serves(e)
    BY <2>1, <2>2, <2>3 DEF Led, Serves
  <2> QED
    BY <1>2, <2>1, <2>4 DEF AbortOptimizedDiskIo, e
<1> QED
  BY <1>1, <1>2

\* A request that boinks what runs says so.
LEMMA QueueLed ==
  ASSUME NEW d, Typed(d), Hold(d, d.Pending), Led(d), Serves(d),
         NEW r \in Request, r \notin d.Pending
  PROVE  LET e == QueueOptimizedDiskRequest(d, r) IN
         Led(e) /\ Serves(e) /\ e.User = d.User /\ e.Raw = d.Raw
<1> DEFINE p == HighestPriority(<<r>>)
           top == IF p > d.RequestPriority THEN p ELSE d.RequestPriority
           e == QueueOptimizedDiskRequest(d, r)
<1>1. /\ e.ToDo = Append(d.ToDo, r) /\ e.Deferred = d.Deferred
      /\ e.Running = d.Running /\ e.RunningPriority = d.RunningPriority
      /\ e.RequestPriority = top
      /\ ~e.Boink => ~d.Boink /\ (d.Busy => ~(top > d.RunningPriority))
      /\ e.Busy = d.Busy /\ e.User = d.User /\ e.Raw = d.Raw
  BY DEF QueueOptimizedDiskRequest, Typed, Fields
<1>2. p \in Nat /\ Pri[r] \in Nat /\ Pri[r] <= p
  <2>1. <<r>> \in Seq(Request) /\ r \in ToSet(<<r>>)
    BY DEF ToSet
  <2> QED
    BY <2>1, HighestLemma, DiskAssumption
<1>3. r \notin ToSet(d.ToDo)
  BY DEF Hold
<1>4. ToSet(Append(d.ToDo, r)) = ToSet(d.ToDo) \cup {r}
  BY <1>3, AppendSet DEF Hold
<1> HIDE DEF p, e
<1>5. top \in Nat /\ Pri[r] <= top
  BY <1>2 DEF Led
<1> HIDE DEF top
<1>6. Led(e)
  <2>1. SUFFICES ASSUME d.Running # <<>>, ~e.Boink
                 PROVE  \A q \in ToSet(e.ToDo) : Pri[q] <= e.RunningPriority
    BY <1>1, <1>5 DEF Led
  <2>2. d.Busy /\ ~d.Boink
    BY <1>1, <2>1 DEF Serves
  <2>3. Pri[r] <= d.RunningPriority
    BY <1>1, <1>2, <1>5, <2>1, <2>2 DEF Led
  <2> QED
    BY <1>1, <1>4, <2>1, <2>2, <2>3 DEF Led
<1>7. Serves(e)
  BY <1>1, <1>5 DEF Serves
<1> QED
  BY <1>1, <1>6, <1>7 DEF e

\* No step has requests run but for the raw device, nor lets those that run be
\* less urgent than others without a boink; and a request that the raw device is
\* given is at the head of a list that leads the others.
LEMMA StepOrder ==
  OrderInv /\ [Next]_vars =>
    /\ Led(disk') /\ Serves(disk')
    /\ \A r \in Request : Given(r) => Leads(disk')
<1> SUFFICES ASSUME OrderInv, [Next]_vars
             PROVE  /\ Led(disk') /\ Serves(disk')
                    /\ \A r \in Request : Given(r) => Leads(disk')
  OBVIOUS
<1>a. /\ Agrees(disk) /\ Typed(disk) /\ Hold(disk, disk.Pending) /\ Led(disk)
      /\ Serves(disk)
  BY DEF OrderInv, ListInv, IInv, Agrees, Led, Serves
<1>l. ASSUME NEW d, Leads(d), Serves(d) PROVE Led(d)
  BY <1>l DEF Leads, Serves, Led
<1>u. ASSUME disk'.User = disk.User, disk'.Raw = "done" <=> disk.Raw = "done"
      PROVE  \A r \in Request : ~Given(r)
  BY <1>u DEF Given
<1>1. ASSUME NEW r \in Request, Doit(r)
      PROVE  Led(disk') /\ Serves(disk') /\ \A q \in Request : ~Given(q)
  <2>1. /\ disk'.ToDo = disk.ToDo /\ disk'.Deferred = disk.Deferred
        /\ disk'.Running = disk.Running /\ disk'.Boink = disk.Boink
        /\ disk'.RunningPriority = disk.RunningPriority
        /\ disk'.RequestPriority = disk.RequestPriority
        /\ disk'.Busy = disk.Busy /\ disk'.User = disk.User /\ disk'.Raw = disk.Raw
    BY <1>1, <1>a DEF Doit, Typed, Fields
  <2> QED
    BY <1>a, <1>u, <2>1 DEF Led, Serves
<1>2. ASSUME NEW r \in Request, AbortIO(r)
      PROVE  Led(disk') /\ Serves(disk') /\ \A q \in Request : ~Given(q)
  BY <1>2, <1>a, <1>u, AbortLed DEF AbortIO
<1>3. CASE DoitQueues
  <2>1. PICK r \in Request : /\ caller = <<"queue", r>>
                             /\ disk' = QueueOptimizedDiskRequest(disk, r)
    BY <1>3 DEF DoitQueues
  <2>2. r \notin disk.Pending
    BY <2>1 DEF OrderInv, ListInv
  <2> QED
    BY <1>a, <1>u, <2>1, <2>2, QueueLed
<1>4. CASE DoitLooks
  <2>1. /\ disk'.ToDo = disk.ToDo /\ disk'.Deferred = disk.Deferred
        /\ disk'.Running = disk.Running /\ disk'.Boink = disk.Boink
        /\ disk'.RunningPriority = disk.RunningPriority
        /\ disk'.RequestPriority = disk.RequestPriority
        /\ disk'.Busy = disk.Busy /\ disk'.User = disk.User /\ disk'.Raw = disk.Raw
    BY <1>4, <1>a DEF DoitLooks, SignalDaemon, Typed, Fields
  <2> QED
    BY <1>a, <1>u, <2>1 DEF Led, Serves
<1>5. CASE Daemon
  <2> DEFINE taken == [disk EXCEPT !.signal = FALSE]
  <2>1. Agrees(taken) /\ Typed(taken)
    BY <1>a DEF Agrees, Typed, Fields
  <2>2. /\ taken.ToDo = disk.ToDo /\ taken.Deferred = disk.Deferred
        /\ taken.Running = disk.Running /\ taken.Boink = disk.Boink
        /\ taken.RunningPriority = disk.RunningPriority
        /\ taken.RequestPriority = disk.RequestPriority
        /\ taken.Busy = disk.Busy /\ taken.User = disk.User /\ taken.Raw = disk.Raw
        /\ taken.Pending = disk.Pending
    BY <1>a DEF Typed, Fields
  <2> HIDE DEF taken
  <2>3. Hold(taken, taken.Pending) /\ Led(taken) /\ Serves(taken)
    BY <1>a, <2>2 DEF Hold, Led, Serves
  <2>4. PICK d \in ScheduleOptimizedDiskIo(taken) : disk' = StartOptimizedDiskIo(d)
    BY <1>5 DEF Daemon, taken
  <2>5. CASE taken.Busy
    <3>1. disk' = taken
      BY <2>4, <2>5 DEF ScheduleOptimizedDiskIo, StartOptimizedDiskIo
    <3> QED
      BY <1>u, <2>2, <2>3, <3>1
  <2>6. CASE ~taken.Busy
    <3>1. taken.Running = <<>>
      BY <2>3, <2>6 DEF Serves
    <3>2. Leads(disk') /\ Serves(disk')
      BY <2>1, <2>3, <2>4, <2>6, <3>1, StartLeads
    <3> QED
      BY <1>l, <3>2
  <2> QED
    BY <2>5, <2>6
<1>6. CASE RawDone
  <2>1. disk.Busy
    BY <1>6, <1>a DEF RawDone, Agrees
  <2>2. CASE disk.User = Catapult
    <3>1. disk' = CatapultEndAction(disk)
      BY <1>6, <2>2 DEF RawDone
    <3>2. disk.Running = <<>>
      BY <1>a, <2>2 DEF Serves
    <3>3. /\ disk'.Running = <<>> /\ disk'.Raw = "done"
          /\ disk'.RunningPriority = disk.RunningPriority
          /\ disk'.RequestPriority = disk.RequestPriority
      BY <1>a, <3>1, <3>2 DEF CatapultEndAction, SignalDaemon, Typed, Fields
    <3> QED
      BY <1>a, <3>3 DEF Led, Serves, Leads
  <2>3. CASE disk.User # Catapult
    <3>1. PICK how \in RawResults : disk' = OptimizedDiskEndAction(disk, how)
      BY <1>6, <2>3 DEF RawDone
    <3>2. Leads(disk') /\ Serves(disk')
      BY <1>a, <2>1, <2>3, <3>1, EndLeads
    <3> QED
      BY <1>l, <3>2
  <2> QED
    BY <2>2, <2>3
<1>7. CASE DiscLeaves \/ UNCHANGED vars
  <2>1. disk' = disk
    BY <1>7 DEF DiscLeaves, vars
  <2> QED
    BY <1>a, <1>u, <2>1
<1> QED
  BY <1>1, <1>2, <1>3, <1>4, <1>5, <1>6, <1>7 DEF Next

\* A disk is mounted with nothing to run.
LEMMA InitOrder == Init => OrderInv
<1> SUFFICES ASSUME Init PROVE OrderInv
  OBVIOUS
<1>1. disk.Running = <<>> /\ disk.RunningPriority = 0 /\ disk.RequestPriority = 0
  BY DEF Init, NewDisk, IdleDisk, SendRaw
<1> QED
  BY <1>1, InitHolds DEF OrderInv, Led

\* The request that the raw device is given is at least as urgent as every
\* request that then is on a list, whether the daemon starts a sweep or the end
\* action goes on with one: nothing overtakes, and nothing is overtaken unless a
\* retry or a boink has put it back.
THEOREM NoOvertakingHolds == Spec => NoOvertaking
<1>1. Init => OrderInv
  BY InitOrder
<1>2. OrderInv /\ [Next]_vars => OrderInv'
  BY StepOrder, NextHolds DEF OrderInv, Serves
<1>3. OrderInv /\ [Next]_vars =>
        [\A r \in Request : Given(r) =>
           \A q \in Range(Queued') : Pri[q] <= Pri[r]]_vars
  <2> SUFFICES ASSUME OrderInv, [Next]_vars, NEW r \in Request, Given(r),
                      NEW q \in Range(Queued')
               PROVE  Pri[q] <= Pri[r]
    BY DEF vars
  <2>1. Leads(disk') /\ Serves(disk')
    BY StepOrder
  <2>2. ListInv'
    BY NextHolds DEF OrderInv
  <2>3. Agrees(disk') /\ Hold(disk', disk'.Pending)
    BY <2>2 DEF ListInv, IInv
  <2>4. disk'.Running \in Seq(Request) /\ disk'.Running # <<>>
        /\ Head(disk'.Running) = r
    BY <2>3, DiskAssumption DEF Given, Agrees, Typed
  <2>5. r \in ToSet(disk'.Running)
    BY <2>4 DEF ToSet
  <2>6. q \in ToSet(disk'.ToDo) \cup ToSet(disk'.Deferred) \cup ToSet(disk'.Running)
    <3> DEFINE first == disk'.ToDo \o disk'.Deferred
    <3>1. /\ first \in Seq(Request) /\ IsInjective(first)
          /\ ToSet(first) = ToSet(disk'.ToDo) \cup ToSet(disk'.Deferred)
      BY <2>3, ConcatSet DEF Hold
    <3> HIDE DEF first
    <3>2. ToSet(first) \cap ToSet(disk'.Running) = {}
      BY <2>3, <3>1 DEF Hold
    <3>3. ToSet(first \o disk'.Running) = ToSet(first) \cup ToSet(disk'.Running)
      BY <2>3, <3>1, <3>2, ConcatSet DEF Hold
    <3>4. Queued' = first \o disk'.Running
      BY DEF Queued, first
    <3>5. Range(Queued') = ToSet(Queued')
      BY DEF Range, ToSet
    <3> QED
      BY <3>1, <3>3, <3>4, <3>5
  <2>7. /\ \A x \in ToSet(disk'.Running) : Pri[x] = disk'.RunningPriority
        /\ \A x \in ToSet(disk'.ToDo) \cup ToSet(disk'.Deferred) :
             Pri[x] <= disk'.RunningPriority
        /\ disk'.RunningPriority \in Nat
    BY <2>1, <2>4 DEF Leads, Serves
  <2> QED
    BY <2>5, <2>6, <2>7
<1> QED
  BY <1>1, <1>2, <1>3, PTL DEF Spec, NoOvertaking

-----------------------------------------------------------------------------
(* The links of a list, and walks along them *)

\* The cells of the list, and the one at each place from anchor to anchor.
Cells == Node \cup {K!HeadOf(l), K!TailOf(l)}

Cell(q, i) == IF i = 0 THEN K!HeadOf(l)
              ELSE IF i = Len(q) + 1 THEN K!TailOf(l) ELSE q[i]

LinkState == [n_Next : [Cells -> Cells \cup {Nil}], n_Prev : [Cells -> Cells \cup {Nil}]]

\* The links L join the nodes of q, in order, between the anchors.
Chain(L, q) ==
  /\ q \in Seq(Node) /\ IsInjective(q)
  /\ L \in LinkState
  /\ \A i \in 0..Len(q) : /\ L.n_Next[Cell(q, i)] = Cell(q, i + 1)
                          /\ L.n_Prev[Cell(q, i + 1)] = Cell(q, i)

LEMMA AnchorsApart ==
  /\ K!HeadOf(l) # K!TailOf(l)
  /\ {K!HeadOf(l), K!TailOf(l)} \cap (Node \cup {Nil}) = {}
<1>1. K!HeadOf(l) = <<"head", "list">> /\ K!TailOf(l) = <<"tail", "list">>
  BY DEF K!HeadOf, K!TailOf, l
<1>2. <<"head", "list">> # <<"tail", "list">>
  OBVIOUS
<1> QED
  BY <1>1, <1>2, ListAssumption

\* Every place has a cell of its own.
LEMMA CellsApart ==
  ASSUME NEW q \in Seq(Node), IsInjective(q)
  PROVE  /\ \A i \in 0..(Len(q) + 1) : Cell(q, i) \in Cells
         /\ \A i \in 1..Len(q) : Cell(q, i) \in Node /\ Cell(q, i) = q[i]
         /\ \A i, j \in 0..(Len(q) + 1) : Cell(q, i) = Cell(q, j) => i = j
<1>1. /\ Len(q) \in Nat /\ DOMAIN q = 1..Len(q)
      /\ \A i \in 1..Len(q) : q[i] \in Node
  BY LenProperties, ElementOfSeq
<1>2. \A i \in 0..(Len(q) + 1) : i = 0 \/ i = Len(q) + 1 \/ i \in 1..Len(q)
  BY <1>1
<1>3. \A i \in 1..Len(q) : i # 0 /\ i # Len(q) + 1
  BY <1>1
<1>4. \A i \in 1..Len(q) : Cell(q, i) \in Node /\ Cell(q, i) = q[i]
  BY <1>1, <1>3 DEF Cell
<1>5. Cell(q, 0) = K!HeadOf(l) /\ Cell(q, Len(q) + 1) = K!TailOf(l)
  BY <1>1 DEF Cell
<1>6. \A i \in 0..(Len(q) + 1) : Cell(q, i) \in Cells
  BY <1>2, <1>4, <1>5 DEF Cells
<1>7. ASSUME NEW i \in 0..(Len(q) + 1), NEW j \in 0..(Len(q) + 1), Cell(q, i) = Cell(q, j)
      PROVE  i = j
  <2>1. CASE i \in 1..Len(q) /\ j \in 1..Len(q)
    BY <1>1, <1>4, <1>7, <2>1 DEF IsInjective
  <2>2. CASE i \notin 1..Len(q)
    BY <1>2, <1>4, <1>5, <1>7, <2>2, AnchorsApart
  <2>3. CASE j \notin 1..Len(q)
    BY <1>2, <1>4, <1>5, <1>7, <2>3, AnchorsApart
  <2> QED
    BY <2>1, <2>2, <2>3
<1> QED
  BY <1>4, <1>6, <1>7

\* Module Links takes its cardinalities from where this one does.
LEMMA SameCardinality == \A X : K!Cardinality(X) = Cardinality(X)
  BY DEF K!Cardinality, Cardinality

\* The cells that a walk goes through.
WalkAt(g, step, from, to, i) ==
  IF i = 0 THEN step[from] ELSE IF g[i - 1] = to THEN to ELSE step[g[i - 1]]

\* The links step lead from one cell to another over the cells of r.
Joins(step, from, to, r) ==
  \A i \in 0..Len(r) : step[IF i = 0 THEN from ELSE r[i]]
                          = IF i = Len(r) THEN to ELSE r[i + 1]

\* A walk along the links from one cell to another meets what is between.
LEMMA WalkMeets ==
  ASSUME NEW S, NEW r \in Seq(S), NEW step, NEW from, NEW to, to \notin S,
         NEW max \in Nat, Len(r) <= max, Joins(step, from, to, r)
  PROVE  K!Walk(step, from, to, max) = r
<1> DEFINE at == CHOOSE g : g = [i \in 0..max |-> WalkAt(g, step, from, to, i)]
           cell(i) == IF i < Len(r) THEN r[i + 1] ELSE to
           w == [i \in 0..max |-> cell(i)]
<1>1. /\ Len(r) \in Nat /\ DOMAIN r = 1..Len(r)
      /\ \A i \in 1..Len(r) : r[i] \in S
      /\ r = [i \in 1..Len(r) |-> r[i]]
  BY LenProperties, ElementOfSeq
<1>2. /\ step[from] = cell(0)
      /\ \A i \in 1..max : IF cell(i - 1) = to THEN cell(i) = to
                           ELSE cell(i) = step[cell(i - 1)]
  <2>1. step[from] = cell(0)
    BY <1>1 DEF Joins
  <2>2. ASSUME NEW i \in 1..max, cell(i - 1) # to PROVE cell(i) = step[cell(i - 1)]
    <3>1. i - 1 < Len(r) /\ i \in 1..Len(r) /\ i \in 0..Len(r) /\ (i - 1) + 1 = i /\ i # 0
      BY <1>1, <2>2
    <3>2. step[r[i]] = IF i = Len(r) THEN to ELSE r[i + 1]
      BY <3>1 DEF Joins
    <3> QED
      BY <1>1, <3>1, <3>2
  <2>3. ASSUME NEW i \in 1..max, cell(i - 1) = to PROVE cell(i) = to
    <3>1. ~(i - 1 < Len(r))
      <4>1. SUFFICES ASSUME i - 1 < Len(r) PROVE FALSE
        OBVIOUS
      <4>2. i \in 1..Len(r) /\ (i - 1) + 1 = i
        BY <1>1, <4>1
      <4> QED
        BY <1>1, <2>3, <4>1, <4>2
    <3> QED
      BY <1>1, <3>1
  <2> QED
    BY <2>1, <2>2, <2>3
<1> HIDE DEF cell
<1>3. w = [i \in 0..max |-> WalkAt(w, step, from, to, i)]
  <2>1. ASSUME NEW i \in 0..max PROVE w[i] = WalkAt(w, step, from, to, i)
    <3>1. CASE i = 0
      BY <1>2, <3>1 DEF WalkAt
    <3>2. CASE i # 0
      <4>1. i \in 1..max /\ i - 1 \in 0..max
        BY <3>2
      <4>2. w[i - 1] = cell(i - 1) /\ w[i] = cell(i)
        BY <4>1
      <4> HIDE DEF w
      <4> QED
        BY <1>2, <3>2, <4>1, <4>2 DEF WalkAt
    <3> QED
      BY <3>1, <3>2
  <2>2. w = [i \in 0..max |-> w[i]]
    OBVIOUS
  <2> HIDE DEF w
  <2> QED
    BY <2>1, <2>2
<1>4. at = [i \in 0..max |-> WalkAt(at, step, from, to, i)]
  <2> HIDE DEF w
  <2> QED
    BY <1>3
<1>5. K!Walk(step, from, to, max)
        = [i \in 1..Cardinality({j \in 0..(max - 1) : at[j] # to}) |-> at[i - 1]]
  <2>1. K!Walk(step, from, to, max)
          = [i \in 1..K!Cardinality({j \in 0..(max - 1) : at[j] # to}) |-> at[i - 1]]
    BY Zenon DEF K!Walk, WalkAt
  <2> HIDE DEF at
  <2> QED
    BY <2>1, SameCardinality, Zenon
<1> HIDE DEF at, w
<1>6. \A i \in 0..max : at[i] = cell(i)
  <2> DEFINE N == {n \in Nat : n <= max => at[n] = cell(n)}
  <2>1. 0 \in N
    <3>1. 0 \in 0..max
      OBVIOUS
    <3>2. at[0] = WalkAt(at, step, from, to, 0)
      BY <1>4, <3>1
    <3> QED
      BY <1>2, <3>2 DEF WalkAt
  <2>2. ASSUME NEW n \in N PROVE n + 1 \in N
    <3>1. SUFFICES ASSUME n + 1 <= max PROVE at[n + 1] = cell(n + 1)
      OBVIOUS
    <3>2. n \in Nat /\ n + 1 \in 0..max /\ n + 1 \in 1..max /\ (n + 1) - 1 = n /\ n + 1 # 0
          /\ at[n] = cell(n)
      BY <3>1
    <3>3. at[n + 1] = WalkAt(at, step, from, to, n + 1)
      BY <1>4, <3>2
    <3> QED
      BY <1>2, <3>2, <3>3 DEF WalkAt
  <2>3. N = Nat
    <3>1. N \in SUBSET Nat
      OBVIOUS
    <3> HIDE DEF N
    <3> QED
      BY <2>1, <2>2, <3>1, SetInduction
  <2> QED
    <3>1. ASSUME NEW i \in 0..max PROVE at[i] = cell(i)
      <4>1. i \in Nat /\ i <= max
        OBVIOUS
      <4>2. i \in N
        BY <2>3, <4>1
      <4> QED
        BY <4>1, <4>2
    <3> QED
      BY <3>1
<1>7. Cardinality({j \in 0..(max - 1) : at[j] # to}) = Len(r)
  <2>1. \A j \in 0..(max - 1) : at[j] # to <=> j < Len(r)
    <3>1. ASSUME NEW j \in 0..(max - 1) PROVE at[j] # to <=> j < Len(r)
      <4>1. at[j] = IF j < Len(r) THEN r[j + 1] ELSE to
        BY <1>6 DEF cell
      <4>2. j < Len(r) => r[j + 1] \in S
        BY <1>1
      <4> QED
        BY <4>1, <4>2
    <3> QED
      BY <3>1
  <2>2. {j \in 0..(max - 1) : at[j] # to} = 0..(Len(r) - 1)
    BY <1>1, <2>1
  <2>3. 0 \in Int /\ Len(r) - 1 \in Int
    BY <1>1
  <2>4. Cardinality(0..(Len(r) - 1)) = IF 0 > Len(r) - 1 THEN 0 ELSE (Len(r) - 1) - 0 + 1
    BY <2>3, FS_Interval
  <2>5. Cardinality(0..(Len(r) - 1)) = Len(r)
    BY <1>1, <2>4
  <2> QED
    BY <2>2, <2>5
<1>8. \A i \in 1..Len(r) : at[i - 1] = r[i]
  <2>1. ASSUME NEW i \in 1..Len(r) PROVE at[i - 1] = r[i]
    <3>1. i - 1 \in 0..max /\ i - 1 < Len(r) /\ (i - 1) + 1 = i
      BY <1>1
    <3> QED
      BY <1>6, <3>1 DEF cell
  <2> QED
    BY <2>1
<1> QED
  BY <1>1, <1>5, <1>7, <1>8

\* A list holds no more nodes than there are.
LEMMA ListBounded ==
  ASSUME NEW q \in Seq(Node), IsInjective(q)
  PROVE  Len(q) <= Cardinality(Node) /\ Cardinality(Node) \in Nat
<1>1. /\ Len(q) \in Nat /\ DOMAIN q = 1..Len(q)
      /\ \A i \in 1..Len(q) : q[i] \in Node
      /\ q \in [1..Len(q) -> Node]
  BY LenProperties, ElementOfSeq
<1>2. \A i, j \in 1..Len(q) : q[i] = q[j] => i = j
  BY <1>1 DEF IsInjective
<1>3. q \in Injection(1..Len(q), Node)
  BY <1>1, <1>2 DEF Injection, IsInjective
<1>4. IsFiniteSet(Node)
  BY ListAssumption
<1>5. Cardinality(1..Len(q)) <= Cardinality(Node)
  BY <1>3, <1>4, FS_Injection
<1>6. 1 \in Int /\ Len(q) \in Int
  BY <1>1
<1>7. Cardinality(1..Len(q)) = IF 1 > Len(q) THEN 0 ELSE Len(q) - 1 + 1
  BY <1>6, FS_Interval
<1>8. Cardinality(Node) \in Nat
  BY <1>4, FS_CardinalityType
<1> QED
  BY <1>1, <1>5, <1>7, <1>8

\* From the head a walk meets the nodes in order.
LEMMA ForwardMeets ==
  ASSUME NEW L, NEW q, Chain(L, q), NEW max \in Nat, Len(q) <= max
  PROVE  K!Forward(L, l, max) = q
<1>1. /\ q \in Seq(Node) /\ Len(q) \in Nat
      /\ \A i \in 0..Len(q) : L.n_Next[Cell(q, i)] = Cell(q, i + 1)
  BY LenProperties DEF Chain
<1>2. \A i \in 0..Len(q) :
        L.n_Next[IF i = 0 THEN K!HeadOf(l) ELSE q[i]]
          = IF i = Len(q) THEN K!TailOf(l) ELSE q[i + 1]
  <2>1. ASSUME NEW i \in 0..Len(q)
        PROVE  /\ Cell(q, i) = IF i = 0 THEN K!HeadOf(l) ELSE q[i]
               /\ Cell(q, i + 1) = IF i = Len(q) THEN K!TailOf(l) ELSE q[i + 1]
    <3>1. i # Len(q) + 1 /\ i + 1 # 0 /\ (i + 1 = Len(q) + 1 <=> i = Len(q))
      BY <1>1
    <3> QED
      BY <3>1 DEF Cell
  <2> QED
    BY <1>1, <2>1
<1>3. Joins(L.n_Next, K!HeadOf(l), K!TailOf(l), q)
  BY <1>2 DEF Joins
<1>4. K!TailOf(l) \notin Node
  BY AnchorsApart
<1>5. K!Walk(L.n_Next, K!HeadOf(l), K!TailOf(l), max) = q
  BY <1>1, <1>3, <1>4, WalkMeets
<1> QED
  BY <1>5 DEF K!Forward

\* From the tail it meets them in the opposite order.
LEMMA BackwardMeets ==
  ASSUME NEW L, NEW q, Chain(L, q), NEW max \in Nat, Len(q) <= max
  PROVE  K!Backward(L, l, max) = Reverse(q)
<1> DEFINE r == Reverse(q)
<1>1. /\ q \in Seq(Node) /\ Len(q) \in Nat /\ \A i \in 1..Len(q) : q[i] \in Node
      /\ \A i \in 0..Len(q) : L.n_Prev[Cell(q, i + 1)] = Cell(q, i)
  BY LenProperties, ElementOfSeq DEF Chain
<1>2. /\ r \in Seq(Node) /\ Len(r) = Len(q)
      /\ \A i \in 1..Len(q) : r[i] = q[Len(q) - i + 1]
  <2>1. r = [i \in 1..Len(q) |-> q[(Len(q) - i) + 1]]
    BY DEF Reverse
  <2>2. \A i \in 1..Len(q) : q[(Len(q) - i) + 1] \in Node
    <3>1. \A i \in 1..Len(q) : (Len(q) - i) + 1 \in 1..Len(q)
      BY <1>1
    <3> QED
      BY <1>1, <3>1
  <2> HIDE DEF r
  <2> QED
    BY <1>1, <2>1, <2>2
<1> HIDE DEF r
<1>3. \A i \in 0..Len(r) :
        L.n_Prev[IF i = 0 THEN K!TailOf(l) ELSE r[i]]
          = IF i = Len(r) THEN K!HeadOf(l) ELSE r[i + 1]
  <2>1. ASSUME NEW i \in 0..Len(q)
        PROVE  L.n_Prev[IF i = 0 THEN K!TailOf(l) ELSE r[i]]
                 = IF i = Len(q) THEN K!HeadOf(l) ELSE r[i + 1]
    <3> DEFINE m == Len(q) - i
    <3>1. /\ m \in 0..Len(q) /\ m + 1 # 0 /\ m # Len(q) + 1
          /\ m + 1 = Len(q) + 1 <=> i = 0
          /\ m = 0 <=> i = Len(q)
      BY <1>1
    <3>2. i # 0 => r[i] = q[m + 1]
      BY <1>2
    <3>3. i # Len(q) => r[i + 1] = q[m]
      <4>1. SUFFICES ASSUME i # Len(q) PROVE r[i + 1] = q[m]
        OBVIOUS
      <4>2. i + 1 \in 1..Len(q) /\ Len(q) - (i + 1) + 1 = m
        BY <1>1, <4>1
      <4> QED
        BY <1>2, <4>2
    <3> HIDE DEF m
    <3>4. Cell(q, m + 1) = IF i = 0 THEN K!TailOf(l) ELSE r[i]
      BY <3>1, <3>2 DEF Cell
    <3>5. Cell(q, m) = IF i = Len(q) THEN K!HeadOf(l) ELSE r[i + 1]
      BY <3>1, <3>3 DEF Cell
    <3> QED
      BY <1>1, <3>1, <3>4, <3>5
  <2> QED
    BY <1>2, <2>1
<1>4. Joins(L.n_Prev, K!TailOf(l), K!HeadOf(l), r)
  BY <1>3 DEF Joins
<1>5. r \in Seq(Node) /\ Len(r) <= max /\ K!HeadOf(l) \notin Node
  BY <1>2, AnchorsApart
<1>6. K!Walk(L.n_Prev, K!TailOf(l), K!HeadOf(l), max) = r
  BY <1>4, <1>5, WalkMeets
<1> QED
  BY <1>6 DEF K!Backward, r

\* A node linked in front of the cell at a place is in the list at that place.
LEMMA LinkedBefore ==
  ASSUME NEW L, NEW q, Chain(L, q), NEW n \in Node, n \notin ToSet(q),
         NEW k \in 1..(Len(q) + 1)
  PROVE  Chain(K!LinkBefore(L, Cell(q, k), n), InsertAt(q, k, n))
<1> DEFINE r == InsertAt(q, k, n)
           M == K!LinkBefore(L, Cell(q, k), n)
<1>1. /\ q \in Seq(Node) /\ Len(q) \in Nat /\ IsInjective(q) /\ L \in LinkState
      /\ DOMAIN q = 1..Len(q)
      /\ \A i \in 0..Len(q) : /\ L.n_Next[Cell(q, i)] = Cell(q, i + 1)
                              /\ L.n_Prev[Cell(q, i + 1)] = Cell(q, i)
  BY LenProperties DEF Chain
<1>2. /\ r \in Seq(Node) /\ Len(r) = Len(q) + 1
      /\ \A j \in 1..(Len(q) + 1) :
           r[j] = IF j < k THEN q[j] ELSE IF j = k THEN n ELSE q[j - 1]
      /\ IsInjective(r)
  BY <1>1, InsertAtLemma, InsertAtSet
<1>3. /\ \A i \in 0..(Len(q) + 1) : Cell(q, i) \in Cells /\ Cell(q, i) # n
      /\ \A i, j \in 0..(Len(q) + 1) : Cell(q, i) = Cell(q, j) => i = j
  <2>1. \A i \in 1..Len(q) : Cell(q, i) # n
    <3>1. \A i \in 1..Len(q) : Cell(q, i) = q[i]
      BY <1>1, CellsApart
    <3>2. \A i \in 1..Len(q) : q[i] # n
      BY <1>1 DEF ToSet
    <3> QED
      BY <3>1, <3>2
  <2>2. Cell(q, 0) # n /\ Cell(q, Len(q) + 1) # n
    BY <1>1, AnchorsApart DEF Cell
  <2>3. \A i \in 0..(Len(q) + 1) : i = 0 \/ i = Len(q) + 1 \/ i \in 1..Len(q)
    BY <1>1
  <2> QED
    BY <1>1, <2>1, <2>2, <2>3, CellsApart
<1>4. \A i \in 0..(Len(q) + 2) :
        Cell(r, i) = IF i < k THEN Cell(q, i) ELSE IF i = k THEN n ELSE Cell(q, i - 1)
  <2>1. ASSUME NEW i \in 0..(Len(q) + 2)
        PROVE  Cell(r, i) = IF i < k THEN Cell(q, i)
                            ELSE IF i = k THEN n ELSE Cell(q, i - 1)
    <3> HIDE DEF r, M
    <3>1. CASE i = 0
      BY <1>1, <1>2, <3>1 DEF Cell
    <3>2. CASE i = Len(q) + 2
      <4>1. i - 1 = Len(q) + 1 /\ ~(i < k) /\ i # k /\ i # 0 /\ i - 1 # 0 /\ i = Len(r) + 1
        BY <1>1, <1>2, <3>2
      <4> QED
        BY <1>1, <1>2, <4>1 DEF Cell
    <3>3. CASE i \in 1..(Len(q) + 1)
      <4>1. i # 0 /\ i # Len(r) + 1
        BY <1>1, <1>2, <3>3
      <4>2. i < k => i # 0 /\ i # Len(q) + 1
        BY <1>1, <4>1
      <4>3. i > k => i - 1 # 0 /\ i - 1 # Len(q) + 1
        BY <1>1, <3>3
      <4>4. i < k \/ i = k \/ i > k
        BY <1>1
      <4> QED
        BY <1>1, <1>2, <3>3, <4>1, <4>2, <4>3, <4>4 DEF Cell
    <3> QED
      BY <1>1, <3>1, <3>2, <3>3
  <2> QED
    BY <2>1
<1>5. /\ k \in Int /\ k - 1 \in 0..Len(q) /\ (k - 1) + 1 = k
      /\ L.n_Prev[Cell(q, k)] = Cell(q, k - 1)
  BY <1>1
<1>6. /\ M \in LinkState
      /\ \A c \in Cells : M.n_Next[c] = IF c = Cell(q, k - 1) THEN n
                                        ELSE IF c = n THEN Cell(q, k) ELSE L.n_Next[c]
      /\ \A c \in Cells : M.n_Prev[c] = IF c = Cell(q, k) THEN n
                                        ELSE IF c = n THEN Cell(q, k - 1) ELSE L.n_Prev[c]
  <2>1. M = [n_Next |-> [L.n_Next EXCEPT ![n] = Cell(q, k), ![Cell(q, k - 1)] = n],
             n_Prev |-> [L.n_Prev EXCEPT ![n] = Cell(q, k - 1), ![Cell(q, k)] = n]]
    BY <1>5 DEF K!LinkBefore
  <2>2. n \in Cells /\ Cell(q, k) \in Cells /\ Cell(q, k - 1) \in Cells
    BY <1>1, <1>3, <1>5 DEF Cells
  <2> HIDE DEF M
  <2> QED
    BY <1>1, <2>1, <2>2 DEF LinkState
<1> HIDE DEF r, M
<1>7. ASSUME NEW i \in 0..(Len(q) + 1)
      PROVE  /\ M.n_Next[Cell(r, i)] = Cell(r, i + 1)
             /\ M.n_Prev[Cell(r, i + 1)] = Cell(r, i)
  <2>1. i \in Nat /\ i \in 0..(Len(q) + 2) /\ i + 1 \in 0..(Len(q) + 2) /\ (i + 1) - 1 = i
    BY <1>1
  <2>2. n \in Cells
    BY DEF Cells
  <2>3. CASE i < k - 1
    <3>1. /\ i \in 0..Len(q) /\ i + 1 \in 0..(Len(q) + 1) /\ i # k - 1 /\ i + 1 # k
          /\ i + 1 < k /\ i < k
          /\ k \in 0..(Len(q) + 1) /\ k - 1 \in 0..(Len(q) + 1)
      BY <1>1, <2>3
    <3>2. Cell(r, i) = Cell(q, i) /\ Cell(r, i + 1) = Cell(q, i + 1)
      BY <1>4, <2>1, <3>1
    <3>3. /\ Cell(q, i) # Cell(q, k - 1) /\ Cell(q, i) # n /\ Cell(q, i) \in Cells
          /\ Cell(q, i + 1) # Cell(q, k) /\ Cell(q, i + 1) # n /\ Cell(q, i + 1) \in Cells
      BY <1>3, <2>1, <3>1
    <3> QED
      BY <1>1, <1>6, <3>1, <3>2, <3>3
  <2>4. CASE i = k - 1
    <3>1. i < k /\ i + 1 = k /\ k \in 0..(Len(q) + 1) /\ i \in 0..(Len(q) + 1)
      BY <1>1, <2>4
    <3>2. Cell(r, i) = Cell(q, k - 1) /\ Cell(r, i + 1) = n
      BY <1>4, <2>1, <2>4, <3>1
    <3>3. n # Cell(q, k) /\ Cell(q, k - 1) \in Cells
      BY <1>3, <2>4, <3>1
    <3> QED
      BY <1>6, <2>2, <3>2, <3>3
  <2>5. CASE i = k
    <3>1. /\ ~(i < k) /\ ~(i + 1 < k) /\ i + 1 # k /\ k \in 0..(Len(q) + 1)
          /\ k - 1 \in 0..(Len(q) + 1)
      BY <1>1, <2>5
    <3>2. Cell(r, i) = n /\ Cell(r, i + 1) = Cell(q, k)
      BY <1>4, <2>1, <2>5, <3>1
    <3>3. n # Cell(q, k - 1) /\ Cell(q, k) \in Cells
      BY <1>3, <3>1
    <3> QED
      BY <1>6, <2>2, <3>2, <3>3
  <2>6. CASE i > k
    <3>1. /\ i - 1 \in 0..Len(q) /\ i - 1 \in 0..(Len(q) + 1) /\ (i - 1) + 1 = i
          /\ i - 1 # k - 1 /\ i # k /\ ~(i < k) /\ ~(i + 1 < k) /\ i + 1 # k
          /\ k \in 0..(Len(q) + 1) /\ k - 1 \in 0..(Len(q) + 1)
      BY <1>1, <2>6
    <3>2. Cell(r, i) = Cell(q, i - 1) /\ Cell(r, i + 1) = Cell(q, i)
      BY <1>4, <2>1, <3>1
    <3>3. /\ Cell(q, i - 1) # Cell(q, k - 1) /\ Cell(q, i - 1) # n /\ Cell(q, i - 1) \in Cells
          /\ Cell(q, i) # Cell(q, k) /\ Cell(q, i) # n /\ Cell(q, i) \in Cells
      BY <1>3, <2>1, <3>1
    <3>4. L.n_Next[Cell(q, i - 1)] = Cell(q, i) /\ L.n_Prev[Cell(q, i)] = Cell(q, i - 1)
      BY <1>1, <3>1
    <3> QED
      BY <1>6, <3>2, <3>3, <3>4
  <2> QED
    BY <1>5, <2>1, <2>3, <2>4, <2>5, <2>6
<1> QED
  BY <1>2, <1>6, <1>7 DEF Chain, r, M

\* When the neighbours of a node are linked to each other it is off the list,
\* whatever its own links say.
LEMMA NeighboursLinked ==
  ASSUME NEW L, NEW q, Chain(L, q), NEW k \in 1..Len(q), NEW M \in LinkState,
         \A c \in Cells \ {q[k]} :
           /\ M.n_Next[c] = IF c = Cell(q, k - 1) THEN Cell(q, k + 1) ELSE L.n_Next[c]
           /\ M.n_Prev[c] = IF c = Cell(q, k + 1) THEN Cell(q, k - 1) ELSE L.n_Prev[c]
  PROVE  Chain(M, RemoveAt(q, k))
<1> DEFINE r == RemoveAt(q, k)
<1>1. /\ q \in Seq(Node) /\ Len(q) \in Nat /\ IsInjective(q)
      /\ DOMAIN q = 1..Len(q)
      /\ \A i \in 0..Len(q) : /\ L.n_Next[Cell(q, i)] = Cell(q, i + 1)
                              /\ L.n_Prev[Cell(q, i + 1)] = Cell(q, i)
  BY LenProperties DEF Chain
<1>2. /\ r \in Seq(Node) /\ Len(r) = Len(q) - 1
      /\ \A j \in 1..(Len(q) - 1) : r[j] = IF j < k THEN q[j] ELSE q[j + 1]
      /\ IsInjective(r)
  BY <1>1, RemoveAtLemma, RemoveAtSet
<1> HIDE DEF r
<1>3. /\ \A i \in 0..(Len(q) + 1) : Cell(q, i) \in Cells
      /\ \A i, j \in 0..(Len(q) + 1) : Cell(q, i) = Cell(q, j) => i = j
      /\ Cell(q, k) = q[k]
  BY <1>1, CellsApart
<1>4. \A i \in 0..Len(q) : Cell(r, i) = IF i < k THEN Cell(q, i) ELSE Cell(q, i + 1)
  <2>1. ASSUME NEW i \in 0..Len(q)
        PROVE  Cell(r, i) = IF i < k THEN Cell(q, i) ELSE Cell(q, i + 1)
    <3>1. CASE i = 0
      BY <1>1, <1>2, <3>1 DEF Cell
    <3>2. CASE i = Len(q)
      <4>1. i = Len(r) + 1 /\ i # 0 /\ ~(i < k) /\ i + 1 = Len(q) + 1 /\ i + 1 # 0
        BY <1>1, <1>2, <3>2
      <4> QED
        BY <4>1 DEF Cell
    <3>3. CASE i \in 1..(Len(q) - 1)
      <4>1. Len(r) + 1 = Len(q)
        BY <1>1, <1>2
      <4>2. i # 0 /\ i # Len(q) /\ i # Len(q) + 1 /\ i + 1 # Len(q) + 1 /\ i + 1 # 0
        <5>1. Len(q) \in Nat /\ i \in 1..(Len(q) - 1)
          BY <1>1, <3>3
        <5> QED
          BY ONLY <5>1
      <4>3. r[i] = IF i < k THEN q[i] ELSE q[i + 1]
        BY <1>2, <3>3
      <4> QED
        BY <4>1, <4>2, <4>3 DEF Cell
    <3>4. i = 0 \/ i = Len(q) \/ i \in 1..(Len(q) - 1)
      <4>1. Len(q) \in Nat /\ i \in 0..Len(q)
        BY <1>1
      <4> QED
        BY ONLY <4>1
    <3> QED
      BY <3>1, <3>2, <3>3, <3>4
  <2> QED
    BY <2>1
<1>5. ASSUME NEW i \in 0..(Len(q) - 1)
      PROVE  /\ M.n_Next[Cell(r, i)] = Cell(r, i + 1)
             /\ M.n_Prev[Cell(r, i + 1)] = Cell(r, i)
  <2>1. /\ i \in Nat /\ i \in 0..Len(q) /\ i + 1 \in 0..Len(q) /\ i + 1 \in 0..(Len(q) + 1)
        /\ i \in 0..(Len(q) + 1) /\ (i + 1) + 1 \in 0..(Len(q) + 1) /\ (i + 1) + 1 # i + 1
        /\ k - 1 \in 0..(Len(q) + 1) /\ k + 1 \in 0..(Len(q) + 1) /\ k \in 0..(Len(q) + 1)
        /\ (k - 1) + 1 = k
    BY <1>1
  <2>2. CASE i < k - 1
    <3>1. i # k - 1 /\ i + 1 # k + 1 /\ i # k /\ i + 1 # k /\ i < k /\ i + 1 < k
      BY <2>1, <2>2
    <3>2. Cell(r, i) = Cell(q, i) /\ Cell(r, i + 1) = Cell(q, i + 1)
      BY <1>4, <2>1, <3>1
    <3>3. /\ Cell(q, i) \in Cells \ {q[k]} /\ Cell(q, i) # Cell(q, k - 1)
          /\ Cell(q, i + 1) \in Cells \ {q[k]} /\ Cell(q, i + 1) # Cell(q, k + 1)
      BY <1>3, <2>1, <3>1
    <3> QED
      BY <1>1, <2>1, <3>2, <3>3
  <2>3. CASE i = k - 1
    <3>1. i < k /\ ~(i + 1 < k) /\ (i + 1) + 1 = k + 1 /\ k - 1 # k /\ k + 1 # k
      BY <2>1, <2>3
    <3>2. Cell(r, i) = Cell(q, k - 1) /\ Cell(r, i + 1) = Cell(q, k + 1)
      BY <1>4, <2>1, <2>3, <3>1
    <3>3. Cell(q, k - 1) \in Cells \ {q[k]} /\ Cell(q, k + 1) \in Cells \ {q[k]}
      BY <1>3, <2>1, <3>1
    <3> QED
      BY <3>2, <3>3
  <2>4. CASE i > k - 1
    <3>1. /\ ~(i < k) /\ ~(i + 1 < k) /\ i + 1 # k /\ i + 1 # k - 1
          /\ (i + 1) + 1 # k /\ (i + 1) + 1 # k + 1
      BY <2>1, <2>4
    <3>2. Cell(r, i) = Cell(q, i + 1) /\ Cell(r, i + 1) = Cell(q, (i + 1) + 1)
      BY <1>4, <2>1, <3>1
    <3>3. /\ Cell(q, i + 1) \in Cells \ {q[k]} /\ Cell(q, i + 1) # Cell(q, k - 1)
          /\ Cell(q, (i + 1) + 1) \in Cells \ {q[k]}
          /\ Cell(q, (i + 1) + 1) # Cell(q, k + 1)
      BY <1>3, <2>1, <3>1
    <3> QED
      BY <1>1, <2>1, <3>2, <3>3
  <2> QED
    BY <2>1, <2>2, <2>3, <2>4
<1> QED
  BY <1>2, <1>5 DEF Chain, r

\* The cells next to the one at a place.
LEMMA Neighbours ==
  ASSUME NEW L, NEW q, Chain(L, q), NEW k \in 1..Len(q)
  PROVE  /\ q \in Seq(Node) /\ Len(q) \in Nat /\ IsInjective(q) /\ L \in LinkState
         /\ q[k] \in Node /\ Cell(q, k) = q[k]
         /\ Cell(q, k - 1) \in Cells /\ Cell(q, k + 1) \in Cells /\ q[k] \in Cells
         /\ Cell(q, k - 1) # q[k] /\ Cell(q, k + 1) # q[k]
         /\ L.n_Next[q[k]] = Cell(q, k + 1) /\ L.n_Prev[q[k]] = Cell(q, k - 1)
         /\ L.n_Next[Cell(q, k - 1)] = q[k] /\ L.n_Prev[Cell(q, k + 1)] = q[k]
<1>1. /\ q \in Seq(Node) /\ Len(q) \in Nat /\ IsInjective(q) /\ L \in LinkState
      /\ \A i \in 0..Len(q) : /\ L.n_Next[Cell(q, i)] = Cell(q, i + 1)
                              /\ L.n_Prev[Cell(q, i + 1)] = Cell(q, i)
  BY LenProperties DEF Chain
<1>2. /\ k \in 0..Len(q) /\ k - 1 \in 0..Len(q) /\ (k - 1) + 1 = k
      /\ k \in 0..(Len(q) + 1) /\ k - 1 \in 0..(Len(q) + 1) /\ k + 1 \in 0..(Len(q) + 1)
      /\ k - 1 # k /\ k + 1 # k
  BY <1>1
<1>3. /\ Cell(q, k) = q[k] /\ q[k] \in Node
      /\ \A i \in 0..(Len(q) + 1) : Cell(q, i) \in Cells
      /\ \A i, j \in 0..(Len(q) + 1) : Cell(q, i) = Cell(q, j) => i = j
  BY <1>1, CellsApart
<1>4. Cell(q, k - 1) # q[k] /\ Cell(q, k + 1) # q[k]
  BY <1>2, <1>3
<1>5. /\ L.n_Next[q[k]] = Cell(q, k + 1) /\ L.n_Prev[Cell(q, k + 1)] = q[k]
  BY <1>1, <1>2, <1>3
<1>6. /\ L.n_Next[Cell(q, k - 1)] = q[k] /\ L.n_Prev[q[k]] = Cell(q, k - 1)
  BY <1>1, <1>2, <1>3
<1> QED
  BY <1>1, <1>2, <1>3, <1>4, <1>5, <1>6

\* REMOVENODE and RemNode take the node off.
LEMMA NodeRemoved ==
  ASSUME NEW L, NEW q, Chain(L, q), NEW k \in 1..Len(q)
  PROVE  /\ Chain(K!REMOVENODE(L, q[k]), RemoveAt(q, k))
         /\ Chain(K!RemNode(L, q[k]), RemoveAt(q, k))
<1> DEFINE n == q[k]
           J == K!REMOVENODE(L, n)
           M == K!RemNode(L, n)
           a == Cell(q, k - 1)
           b == Cell(q, k + 1)
<1>1. /\ L \in LinkState /\ n \in Cells /\ a \in Cells /\ b \in Cells
      /\ a # n /\ b # n /\ L.n_Next[n] = b /\ L.n_Prev[n] = a
  BY Neighbours
<1>2. b # Nil
  BY <1>1, AnchorsApart, ListAssumption DEF Cells
<1>3. J = [n_Next |-> [L.n_Next EXCEPT ![a] = b], n_Prev |-> [L.n_Prev EXCEPT ![b] = a]]
  BY <1>1 DEF K!REMOVENODE
<1>4. M = [J EXCEPT !.n_Next[n] = Nil]
  BY <1>1, <1>2 DEF K!RemNode
<1> HIDE DEF n, J, M, a, b
<1>5. /\ J \in LinkState
      /\ \A c \in Cells : /\ J.n_Next[c] = IF c = a THEN b ELSE L.n_Next[c]
                          /\ J.n_Prev[c] = IF c = b THEN a ELSE L.n_Prev[c]
  BY <1>1, <1>3 DEF LinkState
<1>6. /\ M \in LinkState
      /\ \A c \in Cells \ {n} : M.n_Next[c] = J.n_Next[c] /\ M.n_Prev[c] = J.n_Prev[c]
  BY <1>1, <1>4, <1>5 DEF LinkState
<1>7. Chain(J, RemoveAt(q, k))
  BY <1>5, NeighboursLinked DEF n, a, b
<1>8. Chain(M, RemoveAt(q, k))
  BY <1>5, <1>6, NeighboursLinked DEF n, a, b
<1> QED
  BY <1>7, <1>8 DEF n, J, M

\* RemHead takes the first node off, and RemTail the last.
LEMMA EndRemoved ==
  ASSUME NEW L, NEW q, Chain(L, q), Len(q) # 0
  PROVE  /\ Chain(K!RemHead(L, l), RemoveAt(q, 1))
         /\ Chain(K!RemTail(L, l), RemoveAt(q, Len(q)))
<1> DEFINE a == Cell(q, 2)
           z == Cell(q, Len(q) - 1)
           H == K!RemHead(L, l)
           T == K!RemTail(L, l)
<1>1. /\ Len(q) \in Nat /\ 1 \in 1..Len(q) /\ Len(q) \in 1..Len(q)
      /\ L \in LinkState
  BY LenProperties DEF Chain
<1>2. /\ Cell(q, 0) = K!HeadOf(l) /\ Cell(q, Len(q) + 1) = K!TailOf(l)
      /\ 1 - 1 = 0 /\ 1 + 1 = 2
  BY <1>1 DEF Cell
<1>3. /\ L.n_Next[K!HeadOf(l)] = q[1] /\ L.n_Next[q[1]] = a
      /\ a \in Cells /\ K!HeadOf(l) \in Cells /\ q[1] \in Cells
  BY <1>1, <1>2, Neighbours
<1>4. /\ L.n_Prev[K!TailOf(l)] = q[Len(q)] /\ L.n_Prev[q[Len(q)]] = z
      /\ z \in Cells /\ K!TailOf(l) \in Cells
  BY <1>1, <1>2, Neighbours
<1>5. H = [n_Next |-> [L.n_Next EXCEPT ![K!HeadOf(l)] = a],
           n_Prev |-> [L.n_Prev EXCEPT ![a] = K!HeadOf(l)]]
  BY <1>3 DEF K!RemHead, K!FirstNode
<1>6. T = [n_Next |-> [L.n_Next EXCEPT ![z] = K!TailOf(l)],
           n_Prev |-> [L.n_Prev EXCEPT ![K!TailOf(l)] = z]]
  BY <1>4 DEF K!RemTail, K!LastNode
<1> HIDE DEF a, z, H, T
<1>7. /\ H \in LinkState
      /\ \A c \in Cells :
           /\ H.n_Next[c] = IF c = K!HeadOf(l) THEN a ELSE L.n_Next[c]
           /\ H.n_Prev[c] = IF c = a THEN K!HeadOf(l) ELSE L.n_Prev[c]
  BY <1>1, <1>3, <1>5 DEF LinkState
<1>8. /\ T \in LinkState
      /\ \A c \in Cells :
           /\ T.n_Next[c] = IF c = z THEN K!TailOf(l) ELSE L.n_Next[c]
           /\ T.n_Prev[c] = IF c = K!TailOf(l) THEN z ELSE L.n_Prev[c]
  BY <1>1, <1>4, <1>6 DEF LinkState
<1>9. Chain(H, RemoveAt(q, 1))
  <2>1. \A c \in Cells \ {q[1]} :
           /\ H.n_Next[c] = IF c = Cell(q, 1 - 1) THEN Cell(q, 1 + 1) ELSE L.n_Next[c]
           /\ H.n_Prev[c] = IF c = Cell(q, 1 + 1) THEN Cell(q, 1 - 1) ELSE L.n_Prev[c]
    BY <1>2, <1>7 DEF a
  <2> QED
    BY <1>1, <1>7, <2>1, NeighboursLinked
<1>10. Chain(T, RemoveAt(q, Len(q)))
  <2>1. \A c \in Cells \ {q[Len(q)]} :
           /\ T.n_Next[c] = IF c = Cell(q, Len(q) - 1) THEN Cell(q, Len(q) + 1)
                            ELSE L.n_Next[c]
           /\ T.n_Prev[c] = IF c = Cell(q, Len(q) + 1) THEN Cell(q, Len(q) - 1)
                            ELSE L.n_Prev[c]
    BY <1>2, <1>8 DEF z
  <2> QED
    BY <1>1, <1>8, <2>1, NeighboursLinked
<1> QED
  BY <1>9, <1>10 DEF H, T

\* At the ends of a sequence.
LEMMA AtTheEnds ==
  ASSUME NEW S, NEW q \in Seq(S), NEW n \in S
  PROVE  /\ InsertAt(q, 1, n) = <<n>> \o q
         /\ InsertAt(q, Len(q) + 1, n) = Append(q, n)
         /\ Len(q) # 0 => /\ RemoveAt(q, 1) = Tail(q)
                          /\ RemoveAt(q, Len(q)) = Front(q)
<1>1. /\ Len(q) \in Nat /\ 1 \in 1..(Len(q) + 1) /\ Len(q) + 1 \in 1..(Len(q) + 1)
      /\ DOMAIN q = 1..Len(q)
  BY LenProperties
<1>2. \A s \in Seq(S), t \in Seq(S) :
        Len(s) = Len(t) /\ (\A i \in 1..Len(s) : s[i] = t[i]) => s = t
  BY SeqEqual
<1>3. InsertAt(q, 1, n) = <<n>> \o q
  <2> DEFINE s == InsertAt(q, 1, n)
             t == <<n>> \o q
  <2>1. /\ s \in Seq(S) /\ Len(s) = Len(q) + 1
        /\ \A j \in 1..(Len(q) + 1) :
             s[j] = IF j < 1 THEN q[j] ELSE IF j = 1 THEN n ELSE q[j - 1]
    BY <1>1, InsertAtLemma
  <2>2. /\ <<n>> \in Seq(S) /\ Len(<<n>>) = 1 /\ <<n>>[1] = n
    OBVIOUS
  <2>3. /\ t \in Seq(S) /\ Len(t) = 1 + Len(q)
        /\ \A j \in 1..(1 + Len(q)) : t[j] = IF j <= 1 THEN <<n>>[j] ELSE q[j - 1]
    BY <2>2, ConcatProperties
  <2> HIDE DEF s, t
  <2>4. \A j \in 1..Len(s) : s[j] = t[j]
    <3>1. ASSUME NEW j \in 1..(Len(q) + 1) PROVE s[j] = t[j]
      <4>1. /\ ~(j < 1) /\ (j <= 1 <=> j = 1) /\ j \in 1..(1 + Len(q))
        BY <1>1
      <4> QED
        BY <2>1, <2>2, <2>3, <4>1
    <3> QED
      BY <2>1, <3>1
  <2>5. s = t
    BY <1>1, <1>2, <2>1, <2>3, <2>4
  <2> QED
    BY <2>5 DEF s, t
<1>4. InsertAt(q, Len(q) + 1, n) = Append(q, n)
  <2> DEFINE m == Len(q) + 1
             s == InsertAt(q, m, n)
             t == Append(q, n)
  <2>0. m \in 1..(Len(q) + 1) /\ m = Len(q) + 1
    BY <1>1
  <2> HIDE DEF m
  <2>1. /\ s \in Seq(S) /\ Len(s) = Len(q) + 1
        /\ \A j \in 1..(Len(q) + 1) :
             s[j] = IF j < m THEN q[j] ELSE IF j = m THEN n ELSE q[j - 1]
    BY <2>0, InsertAtLemma
  <2>2. /\ t \in Seq(S) /\ Len(t) = Len(q) + 1
        /\ \A j \in 1..Len(q) : t[j] = q[j]
        /\ t[Len(q) + 1] = n
    BY AppendProperties
  <2> HIDE DEF s, t
  <2>3. \A j \in 1..Len(s) : s[j] = t[j]
    <3>1. ASSUME NEW j \in 1..(Len(q) + 1) PROVE s[j] = t[j]
      <4>1. j < Len(q) + 1 => j \in 1..Len(q)
        BY <1>1
      <4>2. j < Len(q) + 1 \/ j = Len(q) + 1
        BY <1>1
      <4> QED
        BY <1>1, <2>0, <2>1, <2>2, <4>1, <4>2
    <3> QED
      BY <2>1, <3>1
  <2>4. s = t
    BY <1>2, <2>1, <2>2, <2>3
  <2> QED
    BY <2>0, <2>4 DEF s, t
<1>5. ASSUME Len(q) # 0 PROVE RemoveAt(q, 1) = Tail(q)
  <2> DEFINE s == RemoveAt(q, 1)
             t == Tail(q)
  <2>0. 1 \in 1..Len(q) /\ q # <<>>
    BY <1>1, <1>5
  <2>1. /\ s \in Seq(S) /\ Len(s) = Len(q) - 1
        /\ \A j \in 1..(Len(q) - 1) : s[j] = IF j < 1 THEN q[j] ELSE q[j + 1]
    BY <2>0, RemoveAtLemma
  <2>2. /\ t \in Seq(S) /\ Len(t) = Len(q) - 1
        /\ \A j \in 1..(Len(q) - 1) : t[j] = q[j + 1]
    BY <2>0, HeadTailProperties
  <2> HIDE DEF s, t
  <2>3. \A j \in 1..Len(s) : s[j] = t[j]
    BY <1>1, <2>1, <2>2
  <2>4. s = t
    BY <1>2, <2>1, <2>2, <2>3
  <2> QED
    BY <2>4 DEF s, t
<1>6. ASSUME Len(q) # 0 PROVE RemoveAt(q, Len(q)) = Front(q)
  <2> DEFINE s == RemoveAt(q, Len(q))
             t == Front(q)
  <2>0. Len(q) \in 1..Len(q) /\ 1 - 1 = 0 /\ Len(q) - 1 \in 0..Len(q)
    BY <1>1, <1>6
  <2>1. /\ s \in Seq(S) /\ Len(s) = Len(q) - 1
        /\ \A j \in 1..(Len(q) - 1) : s[j] = IF j < Len(q) THEN q[j] ELSE q[j + 1]
    BY <2>0, RemoveAtLemma
  <2>2. t = SubSeq(q, 1, Len(q) - 1)
    BY DEF Front
  <2>3. /\ t \in Seq(S) /\ Len(t) = Len(q) - 1
        /\ \A j \in 1..(Len(q) - 1) : t[j] = q[j]
    <3>1. /\ SubSeq(q, 1, Len(q) - 1) \in Seq(S)
          /\ Len(SubSeq(q, 1, Len(q) - 1)) = Len(q) - 1
          /\ \A j \in 1..(Len(q) - 1) : SubSeq(q, 1, Len(q) - 1)[j] = q[j]
      BY <1>1, <2>0, SubSeqProperties
    <3> HIDE DEF t
    <3> QED
      BY <2>2, <3>1
  <2> HIDE DEF s, t
  <2>4. \A j \in 1..Len(s) : s[j] = t[j]
    BY <1>1, <2>1, <2>3
  <2>5. s = t
    BY <1>2, <2>1, <2>3, <2>4
  <2> QED
    BY <2>5 DEF s, t
<1> QED
  BY <1>3, <1>4, <1>5, <1>6

\* The place of a node of a queue.
LEMMA RemovePlace ==
  ASSUME NEW S, NEW q \in Seq(S), NEW n \in ToSet(q)
  PROVE  \E k \in 1..Len(q) : q[k] = n /\ RemoveNode(q, n) = RemoveAt(q, k)
<1> DEFINE k == CHOOSE i \in DOMAIN q : q[i] = n
<1>1. k \in DOMAIN q /\ q[k] = n
  BY DEF ToSet
<1>2. RemoveNode(q, n) = RemoveAt(q, k)
  BY DEF RemoveNode
<1>3. DOMAIN q = 1..Len(q)
  BY LenProperties
<1> QED
  BY <1>1, <1>2, <1>3

\* The search from the tail ends where TailInsertNode puts the node.
LEMMA SearchFromTail ==
  ASSUME NEW q \in Seq(Node), NEW p \in [Node -> Nat], NEW n \in Node
  PROVE  \E k \in 0..Len(q) :
           /\ TailInsertNode(q, p, n) = InsertAt(q, k + 1, n)
           /\ K!FirstGood(Reverse(q), {c \in Node : p[c] >= p[n]}, K!HeadOf(l)) = Cell(q, k)
<1> DEFINE r == Reverse(q)
           N == Len(q)
           good == {c \in Node : p[c] >= p[n]}
           behind == {i \in DOMAIN q : p[q[i]] >= p[n]}
           found == {i \in DOMAIN r : r[i] \in good}
           place == CHOOSE i \in 0..N : (i = 0 \/ i \in behind) /\ \A j \in behind : j <= i
           first == CHOOSE i \in found : \A j \in found : i <= j
<1>1. /\ N \in Nat /\ DOMAIN q = 1..N /\ \A i \in 1..N : q[i] \in Node
  BY LenProperties, ElementOfSeq
<1>2. r = [i \in 1..N |-> q[(N - i) + 1]]
  BY DEF Reverse
<1>3. DOMAIN r = 1..N /\ \A i \in 1..N : r[i] = q[(N - i) + 1]
  BY <1>2
<1>4. behind \in SUBSET (1..N)
  BY <1>1
<1>5. place \in 0..N /\ (place = 0 \/ place \in behind) /\ \A j \in behind : j <= place
  <2>1. \E i \in 0..N : (i = 0 \/ i \in behind) /\ \A j \in behind : j <= i
    <3> HIDE DEF behind, N
    <3> QED
      BY <1>1, <1>4, LastPosition
  <2> HIDE DEF behind, N
  <2> QED
    BY <2>1
<1>6. TailInsertNode(q, p, n) = InsertAt(q, place + 1, n)
  BY Zenon DEF TailInsertNode
<1>7. K!FirstGood(r, good, K!HeadOf(l))
        = IF found = {} THEN K!HeadOf(l) ELSE r[first]
  BY Zenon DEF K!FirstGood
<1>8. \A i \in 1..N : /\ (N - i) + 1 \in 1..N
                      /\ (N - ((N - i) + 1)) + 1 = i
                      /\ i \in found <=> (N - i) + 1 \in behind
  <2>1. ASSUME NEW i \in 1..N
        PROVE  /\ (N - i) + 1 \in 1..N
               /\ (N - ((N - i) + 1)) + 1 = i
               /\ i \in found <=> (N - i) + 1 \in behind
    <3> DEFINE j == (N - i) + 1
    <3>1. j \in 1..N /\ (N - j) + 1 = i
      <4> HIDE DEF N
      <4> QED
        BY <1>1
    <3>2. r[i] = q[j] /\ q[j] \in Node
      BY <1>1, <1>3, <3>1
    <3>3. i \in found <=> p[q[j]] >= p[n]
      <4> HIDE DEF r, j, N
      <4> QED
        BY <1>3, <3>2
    <3>4. j \in behind <=> p[q[j]] >= p[n]
      <4> HIDE DEF j, N
      <4> QED
        BY <1>1, <3>1
    <3> QED
      BY <3>1, <3>3, <3>4
  <2> QED
    BY <2>1
<1> HIDE DEF r, N, good, behind, found, place, first
<1>9. found \in SUBSET Nat /\ found \subseteq 1..N
  BY <1>1, <1>3 DEF found
<1>10. CASE place = 0
  <2>1. behind = {}
    BY <1>4, <1>5, <1>10
  <2>2. found = {}
    BY <1>8, <1>9, <2>1
  <2>3. Cell(q, 0) = K!HeadOf(l)
    BY DEF Cell
  <2> QED
    BY <1>5, <1>6, <1>7, <1>10, <2>2, <2>3 DEF N, r, good
<1>11. CASE place # 0
  <2>1. place \in behind /\ place \in 1..N
    BY <1>4, <1>5, <1>11
  <2> DEFINE f == (N - place) + 1
  <2>2. f \in 1..N /\ (N - f) + 1 = place /\ f \in found
    BY <1>8, <2>1
  <2>3. ASSUME NEW j \in found PROVE f <= j
    <3>1. j \in 1..N /\ (N - j) + 1 \in behind
      BY <1>8, <1>9
    <3>2. (N - j) + 1 <= place
      BY <1>5, <3>1
    <3> QED
      BY <1>1, <1>5, <3>1, <3>2
  <2> HIDE DEF f
  <2>4. first \in found /\ \A j \in found : first <= j
    <3>1. \E i \in found : \A j \in found : i <= j
      BY <2>2, <2>3
    <3> QED
      BY <3>1, Zenon DEF first
  <2>5. first = f
    <3>1. first <= f /\ f <= first /\ first \in Nat /\ f \in Nat
      BY <1>9, <2>2, <2>3, <2>4
    <3> QED
      BY <3>1
  <2>6. r[first] = q[place]
    BY <1>3, <2>2, <2>5
  <2>7. Cell(q, place) = q[place]
    <3>1. place # 0 /\ place # N + 1
      BY <1>1, <2>1
    <3> QED
      BY <3>1 DEF Cell, N
  <2>8. found # {}
    BY <2>2
  <2> QED
    BY <1>5, <1>6, <1>7, <2>6, <2>7, <2>8 DEF N, r, good
<1> QED
  BY <1>10, <1>11

\* The places before the first node that is not more urgent.
Higher(q, p, n) == {i \in DOMAIN q : \A j \in 1..i : p[q[j]] > p[n]}

\* The search from the head ends behind all nodes of higher priority.
LEMMA SearchFromHead ==
  ASSUME NEW q \in Seq(Node), NEW p \in [Node -> Nat], NEW n \in Node, NEW else,
         q = <<>> => else = K!TailOf(l),
         q # <<>> => \E i \in DOMAIN q : p[q[i]] <= p[n]
  PROVE  \E k \in 1..(Len(q) + 1) :
           /\ Cardinality(Higher(q, p, n)) + 1 = k
           /\ K!FirstGood(q, {c \in Node : p[c] <= p[n]}, else) = Cell(q, k)
<1> DEFINE good == {c \in Node : p[c] <= p[n]}
           found == {i \in DOMAIN q : q[i] \in good}
           first == CHOOSE i \in found : \A j \in found : i <= j
           higher == Higher(q, p, n)
<1>1. /\ Len(q) \in Nat /\ DOMAIN q = 1..Len(q) /\ \A i \in 1..Len(q) : q[i] \in Node
  BY LenProperties, ElementOfSeq
<1>2. K!FirstGood(q, good, else) = IF found = {} THEN else ELSE q[first]
  BY Zenon DEF K!FirstGood
<1>3. \A i \in 1..Len(q) : /\ i \in found <=> p[q[i]] <= p[n]
                           /\ i \in found <=> ~(p[q[i]] > p[n])
  <2>1. \A i \in 1..Len(q) : p[q[i]] \in Nat /\ p[n] \in Nat
    BY <1>1
  <2> QED
    BY <1>1, <2>1
<1>4. found \subseteq 1..Len(q) /\ found \in SUBSET Nat
  BY <1>1
<1>5. higher = {i \in 1..Len(q) : \A j \in 1..i : p[q[j]] > p[n]}
  BY <1>1 DEF Higher
<1> HIDE DEF good, found, first, higher
<1>6. CASE q = <<>>
  <2>1. Len(q) = 0 /\ found = {} /\ higher = {}
    BY <1>1, <1>4, <1>5, <1>6
  <2>2. Cardinality(higher) = 0
    BY <2>1, FS_EmptySet
  <2>3. Cell(q, 1) = K!TailOf(l)
    BY <2>1 DEF Cell
  <2>4. 1 \in 1..(Len(q) + 1) /\ 0 + 1 = 1
    BY <2>1
  <2> QED
    BY <1>2, <1>6, <2>1, <2>2, <2>3, <2>4 DEF good, higher
<1>7. CASE q # <<>>
  <2>1. found # {}
    BY <1>1, <1>3, <1>7
  <2>2. first \in found /\ \A j \in found : first <= j
    <3>1. \E i \in found : \A j \in found : i <= j
      BY <1>4, <2>1, LeastNumber
    <3> QED
      BY <3>1, Zenon DEF first
  <2>3. first \in 1..Len(q)
    BY <1>4, <2>2
  <2>4. higher = 1..(first - 1)
    <3>1. ASSUME NEW i \in higher PROVE i \in 1..(first - 1)
      <4>1. i \in 1..Len(q) /\ \A j \in 1..i : p[q[j]] > p[n]
        BY <1>5
      <4>2. ~(first \in 1..i)
        BY <1>3, <2>2, <2>3, <4>1
      <4> QED
        BY <1>1, <2>3, <4>1, <4>2
    <3>2. ASSUME NEW i \in 1..(first - 1) PROVE i \in higher
      <4>1. i \in 1..Len(q)
        BY <1>1, <2>3
      <4>2. ASSUME NEW j \in 1..i PROVE p[q[j]] > p[n]
        <5>1. j \in 1..Len(q) /\ ~(first <= j)
          BY <1>1, <2>3
        <5> QED
          BY <1>3, <2>2, <5>1
      <4> QED
        BY <1>5, <4>1, <4>2
    <3> QED
      BY <3>1, <3>2
  <2>5. Cardinality(higher) + 1 = first
    <3>1. 1 \in Int /\ first - 1 \in Int
      BY <2>3
    <3>2. Cardinality(1..(first - 1)) = IF 1 > first - 1 THEN 0 ELSE (first - 1) - 1 + 1
      BY <3>1, FS_Interval
    <3>3. Cardinality(1..(first - 1)) = first - 1
      BY <2>3, <3>2
    <3> QED
      BY <2>3, <2>4, <3>3
  <2>6. Cell(q, first) = q[first]
    <3>1. first # 0 /\ first # Len(q) + 1
      BY <1>1, <2>3
    <3> QED
      BY <3>1 DEF Cell
  <2>7. first \in 1..(Len(q) + 1)
    BY <1>1, <2>3
  <2> QED
    BY <1>2, <2>1, <2>5, <2>6, <2>7 DEF good, higher
<1> QED
  BY <1>6, <1>7

\* The nodes met are those of the chain.
LEMMA ListIs ==
  ASSUME NEW L, NEW q, Chain(L, q)
  PROVE  /\ K!Forward(L, l, Cardinality(Node) + 1) = q
         /\ K!Forward(L, l, K!Cardinality(Node)) = q
         /\ K!Backward(L, l, K!Cardinality(Node)) = Reverse(q)
<1>1. q \in Seq(Node) /\ IsInjective(q) /\ Len(q) \in Nat
  BY LenProperties DEF Chain
<1>2. Len(q) <= Cardinality(Node) /\ Cardinality(Node) \in Nat
  BY <1>1, ListBounded
<1>3. /\ Cardinality(Node) + 1 \in Nat /\ Len(q) <= Cardinality(Node) + 1
      /\ K!Cardinality(Node) = Cardinality(Node)
  BY <1>1, <1>2, SameCardinality
<1> QED
  BY <1>1, <1>2, <1>3, ForwardMeets, BackwardMeets

\* What the procedures that link a node do to the list.
LEMMA Insertions ==
  ASSUME NEW L, NEW q, Chain(L, q), NEW p \in [Node -> Nat],
         NEW n \in Node, n \notin ToSet(q)
  PROVE  /\ Chain(K!AddHead(L, l, n), <<n>> \o q)
         /\ Chain(K!AddTail(L, l, n), Append(q, n))
         /\ Chain(K!InsertNodeFromTail(L, l, p, n, Node), TailInsertNode(q, p, n))
         /\ q = <<>> \/ (\E i \in DOMAIN q : p[q[i]] <= p[n])
              => Chain(K!InsertNodeFromHead(L, l, p, n, Node),
                       InsertAt(q, Cardinality(Higher(q, p, n)) + 1, n))
<1>1. /\ q \in Seq(Node) /\ Len(q) \in Nat
      /\ \A i \in 0..Len(q) : L.n_Next[Cell(q, i)] = Cell(q, i + 1)
      /\ Cell(q, 0) = K!HeadOf(l) /\ Cell(q, Len(q) + 1) = K!TailOf(l)
      /\ 0 \in 0..Len(q) /\ 0 + 1 = 1 /\ 1 \in 1..(Len(q) + 1)
      /\ Len(q) + 1 \in 1..(Len(q) + 1)
  <2>1. q \in Seq(Node) /\ Len(q) \in Nat
        /\ \A i \in 0..Len(q) : L.n_Next[Cell(q, i)] = Cell(q, i + 1)
    BY LenProperties DEF Chain
  <2> QED
    BY <2>1 DEF Cell
<1>2. L.n_Next[K!HeadOf(l)] = Cell(q, 1)
  BY <1>1
<1>3. \A k \in 1..(Len(q) + 1) : Chain(K!LinkBefore(L, Cell(q, k), n), InsertAt(q, k, n))
  BY LinkedBefore
<1>4. Chain(K!AddHead(L, l, n), <<n>> \o q)
  <2>1. K!AddHead(L, l, n) = K!LinkBefore(L, Cell(q, 1), n)
    BY <1>2 DEF K!AddHead, K!FirstNode
  <2>2. InsertAt(q, 1, n) = <<n>> \o q
    BY <1>1, AtTheEnds
  <2> QED
    BY <1>1, <1>3, <2>1, <2>2
<1>5. Chain(K!AddTail(L, l, n), Append(q, n))
  <2>1. K!AddTail(L, l, n) = K!LinkBefore(L, Cell(q, Len(q) + 1), n)
    BY <1>1 DEF K!AddTail
  <2>2. InsertAt(q, Len(q) + 1, n) = Append(q, n)
    BY <1>1, AtTheEnds
  <2> QED
    BY <1>1, <1>3, <2>1, <2>2
<1>6. Chain(K!InsertNodeFromTail(L, l, p, n, Node), TailInsertNode(q, p, n))
  <2>1. PICK k \in 0..Len(q) :
          /\ TailInsertNode(q, p, n) = InsertAt(q, k + 1, n)
          /\ K!FirstGood(Reverse(q), {c \in Node : p[c] >= p[n]}, K!HeadOf(l)) = Cell(q, k)
    BY <1>1, SearchFromTail
  <2>2. K!InsertNodeFromTail(L, l, p, n, Node) = K!LinkBefore(L, L.n_Next[Cell(q, k)], n)
    BY <2>1, ListIs, Zenon DEF K!InsertNodeFromTail
  <2>3. L.n_Next[Cell(q, k)] = Cell(q, k + 1) /\ k + 1 \in 1..(Len(q) + 1)
    BY <1>1
  <2> QED
    BY <1>3, <2>1, <2>2, <2>3
<1>7. ASSUME q = <<>> \/ (\E i \in DOMAIN q : p[q[i]] <= p[n])
      PROVE  Chain(K!InsertNodeFromHead(L, l, p, n, Node),
                   InsertAt(q, Cardinality(Higher(q, p, n)) + 1, n))
  <2> DEFINE else == K!FirstNode(L, l)
  <2>1. q = <<>> => else = K!TailOf(l)
    <3>1. SUFFICES ASSUME q = <<>> PROVE else = K!TailOf(l)
      OBVIOUS
    <3>2. Len(q) = 0
      BY <3>1
    <3> QED
      BY <1>1, <1>2, <3>2 DEF K!FirstNode
  <2>2. q # <<>> => \E i \in DOMAIN q : p[q[i]] <= p[n]
    BY <1>7
  <2> HIDE DEF else
  <2>3. PICK k \in 1..(Len(q) + 1) :
          /\ Cardinality(Higher(q, p, n)) + 1 = k
          /\ K!FirstGood(q, {c \in Node : p[c] <= p[n]}, else) = Cell(q, k)
    <3>1. q \in Seq(Node)
      BY <1>1
    <3> QED
      BY <2>1, <2>2, <3>1, SearchFromHead, ZenonT(60)
  <2>4. K!InsertNodeFromHead(L, l, p, n, Node) = K!LinkBefore(L, Cell(q, k), n)
    BY <2>3, ListIs, Zenon DEF K!InsertNodeFromHead, else
  <2> QED
    BY <1>3, <2>3, <2>4
<1> QED
  BY <1>4, <1>5, <1>6, <1>7

\* The links of an empty list.
LEMMA EmptyChain == Chain(K!EmptyLinks({l}, Node), <<>>)
<1> DEFINE h == K!HeadOf(l)
           t == K!TailOf(l)
           L == K!EmptyLinks({l}, Node)
           anchors == {K!HeadOf(m) : m \in {l}} \cup {K!TailOf(m) : m \in {l}}
           at(c, side) == IF c \in anchors /\ c[1] = side
                          THEN IF side = "head" THEN K!TailOf(c[2]) ELSE K!HeadOf(c[2])
                          ELSE Nil
<1>1. L = [n_Next |-> [c \in anchors \cup Node |-> at(c, "head")],
           n_Prev |-> [c \in anchors \cup Node |-> at(c, "tail")]]
  BY Zenon DEF K!EmptyLinks
<1>2. anchors = {h, t}
  OBVIOUS
<1>3. h[1] = "head" /\ h[2] = l /\ t[1] = "tail" /\ t[2] = l
  BY DEF K!HeadOf, K!TailOf
<1>4. at(h, "head") = t /\ at(t, "tail") = h
  <2> HIDE DEF h, t, anchors
  <2>1. h \in anchors /\ t \in anchors
    BY <1>2
  <2>2. "head" # "tail"
    OBVIOUS
  <2> QED
    BY <1>3, <2>1, <2>2 DEF h, t
<1>5. \A c \in Cells, side \in {"head", "tail"} : at(c, side) \in Cells \cup {Nil}
  <2>1. ASSUME NEW c \in Cells, NEW side \in {"head", "tail"}
        PROVE  at(c, side) \in Cells \cup {Nil}
    <3> HIDE DEF h, t, anchors
    <3>1. CASE c \in anchors
      <4>1. c[2] = l
        BY <1>2, <1>3, <3>1
      <4> QED
        BY <4>1 DEF Cells
    <3>2. CASE c \notin anchors
      BY <3>2
    <3> QED
      BY <3>1, <3>2
  <2> QED
    BY <2>1
<1>6. anchors \cup Node = Cells
  BY <1>2 DEF Cells
<1> HIDE DEF h, t, L, at, anchors
<1>7. /\ L \in LinkState /\ L.n_Next[h] = t /\ L.n_Prev[t] = h
  <2>1. h \in Cells /\ t \in Cells
    BY DEF Cells, h, t
  <2> QED
    BY <1>1, <1>4, <1>5, <1>6, <2>1 DEF LinkState
<1>8. /\ <<>> \in Seq(Node) /\ Len(<<>>) = 0 /\ IsInjective(<<>>)
      /\ Cell(<<>>, 0) = h /\ Cell(<<>>, 0 + 1) = t
  BY DEF IsInjective, Cell, h, t
<1>9. \A i \in 0..0 : i = 0
  OBVIOUS
<1> QED
  BY <1>7, <1>8, <1>9 DEF Chain, L

\* What the queues of QueueSpec are made of.
LEMMA SameQueues ==
  ASSUME NEW q, NEW p, NEW n
  PROVE  /\ Queue!TailInsertNode(q, p, n) = TailInsertNode(q, p, n)
         /\ Queue!RemoveNode(q, n) = RemoveNode(q, n)
         /\ Queue!ToSet(q) = ToSet(q)
         /\ Queue!Front(q) = Front(q)
         /\ \A k : Queue!InsertAt(q, k, n) = InsertAt(q, k, n)
         /\ \A X : Queue!Cardinality(X) = Cardinality(X)
<1>1. \A k : Queue!InsertAt(q, k, n) = InsertAt(q, k, n)
  BY DEF Queue!InsertAt, InsertAt
<1>2. Queue!TailInsertNode(q, p, n) = TailInsertNode(q, p, n)
  BY <1>1, Zenon DEF Queue!TailInsertNode, TailInsertNode
<1>3. Queue!RemoveNode(q, n) = RemoveNode(q, n)
  BY DEF Queue!RemoveNode, RemoveNode, Queue!RemoveAt, RemoveAt
<1>4. Queue!ToSet(q) = ToSet(q) /\ Queue!Front(q) = Front(q)
  BY DEF Queue!ToSet, ToSet, Queue!Front, Front
<1>5. \A X : Queue!Cardinality(X) = Cardinality(X)
  BY DEF Queue!Cardinality, Cardinality
<1> QED
  BY <1>1, <1>2, <1>3, <1>4, <1>5

-----------------------------------------------------------------------------
(* The links implement a queue *)

\* The links are those of the list that a walk from the head meets.
LinksInv == Chain(links, Nodes) /\ pri \in [Node -> Priority]

LEMMA NodesAre ==
  ASSUME NEW q
  PROVE  /\ Chain(links, q) => Nodes = q
         /\ Chain(links', q) => Nodes' = q
  BY ListIs DEF Nodes

LEMMA OnList == On = ToSet(Nodes)
  BY DEF On, ToSet

LEMMA InitLinks == ListInit => LinksInv /\ Queue!Init
<1> SUFFICES ASSUME ListInit PROVE LinksInv /\ Queue!Init
  OBVIOUS
<1>1. Chain(links, <<>>) /\ pri \in [Node -> Priority]
  BY EmptyChain DEF ListInit
<1>2. Nodes = <<>>
  BY <1>1, NodesAre
<1> QED
  BY <1>1, <1>2 DEF LinksInv, Queue!Init

\* A node is linked that was not on the list.
LEMMA StepInserts ==
  ASSUME LinksInv, NEW n \in Node, n \notin On, UNCHANGED pri
  PROVE  /\ links' = K!AddHead(links, l, n) => LinksInv' /\ Queue!AddHead(n)
         /\ links' = K!AddTail(links, l, n) => LinksInv' /\ Queue!AddTail(n)
         /\ links' = K!InsertNodeFromTail(links, l, pri, n, Node)
              => LinksInv' /\ Queue!InsertNodeFromTail(n)
         /\ links' = K!InsertNodeFromHead(links, l, pri, n, Node) /\ ~Lowest(n)
              => LinksInv' /\ Queue!InsertNodeFromHead(n)
<1> DEFINE q == Nodes
<1>1. /\ Chain(links, q) /\ n \notin ToSet(q) /\ pri' = pri
      /\ pri \in [Node -> Priority] /\ pri \in [Node -> Nat]
  <2>1. pri \in [Node -> Priority] /\ Priority \subseteq Nat
    BY ListAssumption DEF LinksInv
  <2>2. pri \in [Node -> Nat]
    BY <2>1
  <2> QED
    BY <2>1, <2>2, OnList DEF LinksInv
<1>2. Queue!Free = Node \ ToSet(q) /\ n \in Queue!Free
  BY <1>1, SameQueues DEF Queue!Free
<1> HIDE DEF q
<1>3. ASSUME NEW r, Chain(links', r) PROVE LinksInv' /\ Nodes' = r
  BY <1>1, <1>3, NodesAre DEF LinksInv
<1>4. ASSUME links' = K!AddHead(links, l, n) PROVE LinksInv' /\ Queue!AddHead(n)
  <2>1. LinksInv' /\ Nodes' = <<n>> \o q
    BY <1>1, <1>3, <1>4, Insertions
  <2> QED
    BY <1>1, <1>2, <2>1 DEF Queue!AddHead, q
<1>5. ASSUME links' = K!AddTail(links, l, n) PROVE LinksInv' /\ Queue!AddTail(n)
  <2>1. LinksInv' /\ Nodes' = Append(q, n)
    BY <1>1, <1>3, <1>5, Insertions
  <2> QED
    BY <1>1, <1>2, <2>1 DEF Queue!AddTail, q
<1>6. ASSUME links' = K!InsertNodeFromTail(links, l, pri, n, Node)
      PROVE  LinksInv' /\ Queue!InsertNodeFromTail(n)
  <2>1. LinksInv' /\ Nodes' = TailInsertNode(q, pri, n)
    BY <1>1, <1>3, <1>6, Insertions
  <2> QED
    BY <1>1, <1>2, <2>1, SameQueues DEF Queue!InsertNodeFromTail, q
<1>7. ASSUME links' = K!InsertNodeFromHead(links, l, pri, n, Node), ~Lowest(n)
      PROVE  LinksInv' /\ Queue!InsertNodeFromHead(n)
  <2>1. q = <<>> \/ \E i \in DOMAIN q : pri[q[i]] <= pri[n]
    <3>1. SUFFICES ASSUME q # <<>> PROVE \E i \in DOMAIN q : pri[q[i]] <= pri[n]
      OBVIOUS
    <3>2. q \in Seq(Node) /\ DOMAIN q = 1..Len(q) /\ \A i \in 1..Len(q) : q[i] \in Node
      BY <1>1, LenProperties, ElementOfSeq DEF Chain
    <3>3. On = {q[i] : i \in DOMAIN q}
      BY DEF On, q
    <3>4. On # {}
      <4>1. Len(q) # 0 /\ Len(q) \in Nat
        BY <3>1, <3>2, EmptySeq, LenProperties
      <4>2. 1 \in DOMAIN q
        BY <3>2, <4>1
      <4> QED
        BY <3>3, <4>2
    <3>5. PICK i \in DOMAIN q : ~(pri[q[i]] > pri[n])
      BY <1>7, <3>3, <3>4 DEF Lowest
    <3>6. pri[q[i]] \in Nat /\ pri[n] \in Nat
      BY <1>1, <3>2, <3>5
    <3> QED
      BY <3>5, <3>6
  <2>2. Chain(links', InsertAt(q, Cardinality(Higher(q, pri, n)) + 1, n))
    BY <1>1, <1>7, <2>1, Insertions
  <2>3. LinksInv' /\ Nodes' = InsertAt(q, Cardinality(Higher(q, pri, n)) + 1, n)
    BY <1>3, <2>2
  <2> QED
    BY <1>1, <1>2, <2>3, SameQueues DEF Queue!InsertNodeFromHead, Higher, q
<1> QED
  BY <1>4, <1>5, <1>6, <1>7

\* A node is taken off.
LEMMA StepRemoves ==
  ASSUME LinksInv, UNCHANGED pri
  PROVE  /\ RemHead => LinksInv' /\ Queue!RemHead
         /\ RemTail => LinksInv' /\ Queue!RemTail
         /\ \A n \in On : RemNode(n) => LinksInv' /\ Queue!RemNode(n)
<1> DEFINE q == Nodes
<1>1. /\ Chain(links, q) /\ q \in Seq(Node) /\ Len(q) \in Nat
      /\ pri' = pri /\ pri \in [Node -> Priority]
  BY LenProperties DEF LinksInv, Chain
<1>2. ~K!IsEmptyList(links, l) => Len(q) # 0 /\ q # <<>>
  <2>1. SUFFICES ASSUME Len(q) = 0 PROVE K!IsEmptyList(links, l)
    BY <1>1, EmptySeq
  <2>2. 0 \in 0..Len(q) /\ 0 + 1 = Len(q) + 1 /\ 0 + 1 # 0
    BY <2>1
  <2>3. links.n_Next[Cell(q, 0)] = Cell(q, 0 + 1)
    BY <1>1, <2>2 DEF Chain
  <2> HIDE DEF q
  <2>4. links.n_Next[K!HeadOf(l)] = K!TailOf(l)
    BY <2>2, <2>3 DEF Cell
  <2> QED
    BY <2>4 DEF K!IsEmptyList, K!FirstNode
<1> HIDE DEF q
<1>3. ASSUME NEW r, Chain(links', r) PROVE LinksInv' /\ Nodes' = r
  BY <1>1, <1>3, NodesAre DEF LinksInv
<1>4. ASSUME RemHead PROVE LinksInv' /\ Queue!RemHead
  <2>1. Len(q) # 0 /\ q # <<>> /\ links' = K!RemHead(links, l)
    BY <1>2, <1>4 DEF RemHead, TakeOff
  <2>2. Chain(links', RemoveAt(q, 1))
    BY <1>1, <2>1, EndRemoved
  <2>3. RemoveAt(q, 1) = Tail(q)
    <3>1. Node # {}
      BY <1>1, <2>1, EmptySeq
    <3>2. PICK n \in Node : TRUE
      BY <3>1
    <3> QED
      BY <1>1, <2>1, <3>2, AtTheEnds
  <2>4. LinksInv' /\ Nodes' = Tail(q)
    BY <1>3, <2>2, <2>3
  <2> QED
    BY <1>1, <2>1, <2>4 DEF Queue!RemHead, q
<1>5. ASSUME RemTail PROVE LinksInv' /\ Queue!RemTail
  <2>1. Len(q) # 0 /\ q # <<>> /\ links' = K!RemTail(links, l)
    BY <1>2, <1>5 DEF RemTail, TakeOff
  <2>2. Chain(links', RemoveAt(q, Len(q)))
    BY <1>1, <2>1, EndRemoved
  <2>3. RemoveAt(q, Len(q)) = Front(q)
    <3>1. Node # {}
      BY <1>1, <2>1, EmptySeq
    <3>2. PICK n \in Node : TRUE
      BY <3>1
    <3> QED
      BY <1>1, <2>1, <3>2, AtTheEnds
  <2>4. LinksInv' /\ Nodes' = Front(q)
    BY <1>3, <2>2, <2>3
  <2> QED
    BY <1>1, <2>1, <2>4, SameQueues DEF Queue!RemTail, q
<1>6. ASSUME NEW n \in On, RemNode(n) PROVE LinksInv' /\ Queue!RemNode(n)
  <2>1. n \in ToSet(q) /\ links' = K!RemNode(links, n)
    BY <1>6, OnList DEF RemNode, TakeOff, q
  <2>2. PICK k \in 1..Len(q) : q[k] = n /\ RemoveNode(q, n) = RemoveAt(q, k)
    BY <1>1, <2>1, RemovePlace
  <2>3. Chain(links', RemoveNode(q, n))
    BY <1>1, <2>1, <2>2, NodeRemoved
  <2>4. LinksInv' /\ Nodes' = RemoveNode(q, n)
    BY <1>3, <2>3
  <2> QED
    BY <1>1, <2>1, <2>4, SameQueues DEF Queue!RemNode, q
<1> QED
  BY <1>4, <1>5, <1>6

\* A node gets a new priority, and the place that goes with it.
LEMMA StepSetsPri ==
  ASSUME LinksInv, NEW n \in Node, NEW p \in Priority, SetNodePri(n, p)
  PROVE  LinksInv' /\ Queue!SetNodePri(n, p)
<1> DEFINE q == Nodes
           r == RemoveNode(q, n)
           pr == [pri EXCEPT ![n] = p]
           J == K!REMOVENODE(links, n)
<1>1. /\ Chain(links, q) /\ q \in Seq(Node) /\ Len(q) \in Nat /\ IsInjective(q)
      /\ n \in ToSet(q) /\ pri' = pr
      /\ links' = K!InsertNodeFromTail(J, l, pr, n, Node)
  BY LenProperties, OnList DEF LinksInv, Chain, SetNodePri
<1>2. pr \in [Node -> Priority] /\ pr \in [Node -> Nat]
  <2>1. pr \in [Node -> Priority] /\ Priority \subseteq Nat
    BY ListAssumption DEF LinksInv
  <2> HIDE DEF pr
  <2> QED
    BY <2>1
<1> HIDE DEF q, pr, J, r
<1>3. PICK k \in 1..Len(q) : q[k] = n /\ r = RemoveAt(q, k)
  BY <1>1, RemovePlace DEF r
<1>4. Chain(J, r)
  BY <1>1, <1>3, NodeRemoved DEF J
<1>5. n \notin ToSet(r)
  <2>1. ToSet(RemoveAt(q, k)) = ToSet(q) \ {q[k]}
    BY <1>1, RemoveAtSet
  <2> QED
    BY <1>3, <2>1
<1>6. Chain(links', TailInsertNode(r, pr, n))
  BY <1>1, <1>2, <1>4, <1>5, Insertions
<1>7. Nodes' = TailInsertNode(r, pr, n) /\ LinksInv'
  BY <1>1, <1>2, <1>6, NodesAre DEF LinksInv
<1> QED
  BY <1>1, <1>7, SameQueues DEF Queue!SetNodePri, pr, r, q

\* A step of the list is the step of the queue of the same name.
LEMMA StepRefines ==
  ASSUME ~FromHeadBelow, LinksInv
  PROVE  /\ RemHead => LinksInv' /\ Queue!RemHead
         /\ RemTail => LinksInv' /\ Queue!RemTail
         /\ \A n \in Node :
              /\ AddHead(n) => LinksInv' /\ Queue!AddHead(n)
              /\ AddTail(n) => LinksInv' /\ Queue!AddTail(n)
              /\ n \in On /\ RemNode(n) => LinksInv' /\ Queue!RemNode(n)
              /\ n \notin On /\ RemNode(n) => UNCHANGED listVars
              /\ InsertNodeFromTail(n) => LinksInv' /\ Queue!InsertNodeFromTail(n)
              /\ InsertNodeFromHead(n) => LinksInv' /\ Queue!InsertNodeFromHead(n)
              /\ \A p \in Priority : SetNodePri(n, p) => LinksInv' /\ Queue!SetNodePri(n, p)
<1>1. (RemHead => LinksInv' /\ Queue!RemHead) /\ (RemTail => LinksInv' /\ Queue!RemTail)
  BY StepRemoves DEF RemHead, RemTail, TakeOff
<1>2. ASSUME NEW n \in Node
      PROVE  /\ AddHead(n) => LinksInv' /\ Queue!AddHead(n)
             /\ AddTail(n) => LinksInv' /\ Queue!AddTail(n)
             /\ InsertNodeFromTail(n) => LinksInv' /\ Queue!InsertNodeFromTail(n)
             /\ InsertNodeFromHead(n) => LinksInv' /\ Queue!InsertNodeFromHead(n)
  BY StepInserts, ~FromHeadBelow
     DEF AddHead, AddTail, InsertNodeFromTail, InsertNodeFromHead, PutOn
<1>3. ASSUME NEW n \in Node
      PROVE  n \in On /\ RemNode(n) => LinksInv' /\ Queue!RemNode(n)
  BY StepRemoves DEF RemNode, TakeOff
<1>4. ASSUME NEW n \in Node
      PROVE  n \notin On /\ RemNode(n) => UNCHANGED listVars
  BY DEF RemNode, TakeOff, K!RemNode, listVars
<1> QED
  BY <1>1, <1>2, <1>3, <1>4, StepSetsPri

\* list.s: the links of a list are a queue, and each procedure changes it as
\* its documentation says, as long as InsertNodeFromHead is not called for a
\* node below all others.
THEOREM RefinesQueueHolds == ~FromHeadBelow => (ListSpec => RefinesQueue)
<1> SUFFICES ASSUME ~FromHeadBelow PROVE ListSpec => RefinesQueue
  OBVIOUS
<1> DEFINE Named ==
             /\ RemHead => Queue!RemHead
             /\ RemTail => Queue!RemTail
             /\ \A n \in Node :
                  /\ AddHead(n) => Queue!AddHead(n)
                  /\ AddTail(n) => Queue!AddTail(n)
                  /\ n \in On /\ RemNode(n) => Queue!RemNode(n)
                  /\ InsertNodeFromTail(n) => Queue!InsertNodeFromTail(n)
                  /\ InsertNodeFromHead(n) => Queue!InsertNodeFromHead(n)
                  /\ \A p \in Priority : SetNodePri(n, p) => Queue!SetNodePri(n, p)
<1>1. ListInit => LinksInv /\ Queue!Init
  BY InitLinks
<1>2. LinksInv /\ [ListNext]_listVars => LinksInv' /\ [Queue!Next]_<<Nodes, pri>>
  <2> SUFFICES ASSUME LinksInv, [ListNext]_listVars
               PROVE  LinksInv' /\ [Queue!Next]_<<Nodes, pri>>
    OBVIOUS
  <2>1. CASE UNCHANGED listVars
    <3>1. Nodes' = Nodes /\ pri' = pri /\ links' = links
      BY <2>1 DEF listVars, Nodes
    <3> QED
      BY <3>1 DEF LinksInv
  <2>2. CASE RemHead \/ RemTail
    BY <2>2, StepRefines DEF Queue!Next
  <2>3. ASSUME NEW n \in Node,
               AddHead(n) \/ AddTail(n) \/ InsertNodeFromTail(n) \/ InsertNodeFromHead(n)
        PROVE  LinksInv' /\ [Queue!Next]_<<Nodes, pri>>
    BY <2>3, StepRefines DEF Queue!Next
  <2>4. ASSUME NEW n \in Node, RemNode(n)
        PROVE  LinksInv' /\ [Queue!Next]_<<Nodes, pri>>
    <3>1. CASE n \in On
      BY <2>4, <3>1, StepRefines DEF Queue!Next
    <3>2. CASE n \notin On
      <4>1. UNCHANGED listVars
        BY <2>4, <3>2, StepRefines
      <4> QED
        BY <2>1, <4>1
    <3> QED
      BY <3>1, <3>2
  <2>5. ASSUME NEW n \in Node, NEW p \in Priority, SetNodePri(n, p)
        PROVE  LinksInv' /\ [Queue!Next]_<<Nodes, pri>>
    BY <2>5, StepRefines DEF Queue!Next
  <2> QED
    BY <2>1, <2>2, <2>3, <2>4, <2>5 DEF ListNext
<1>3. LinksInv => [Named]_listVars
  BY StepRefines
<1> QED
  BY <1>1, <1>2, <1>3, PTL DEF ListSpec, RefinesQueue, Queue!Spec
=============================================================================

------------------------------ MODULE IOProof -------------------------------
(***************************************************************************)
(* Proofs about the calls that start, wait for, abort and delete requests, *)
(* for every set of tasks and requests.                                    *)
(*                                                                         *)
(* IInv of the executive is a part of IOInv (devices, requests, waiters),  *)
(* IOInv of DelInv (requests that are being deleted), and DelInv of both   *)
(* AbortInv (tasks that sleep until an aborted request is done) and        *)
(* WarnInv (what a task that returns from WaitIO knows).                   *)
(***************************************************************************)
EXTENDS IOCalls, ExecProof

\* Programs give the drive commands that it knows: a request with another one is
\* never completed, and an abort unlinks it from a list that it is not on.
Known ==
  \A i \in IOReq : Device[i] = "cdrom" => \A c \in Cmds[i] : c.cmd \in {"READ", "STATUS"}

\* A request of the drive is deleted by its owner alone: while the drive still has
\* it, another task's deletion sleeps, and the owner could start it once more.
OwnDeletes ==
  \A t \in Task : \A i \in Deletes[t] : Device[i] = "cdrom" => IOOwner[i] = t

\* A request that one task deletes does not read into memory that another gives up.
Apart == \A t, u \in Task : t # u => Deletes[t] \cap GivesMemory[u] = {}

\* A delay in microseconds that a program wants to be quick has a length: one of
\* none is over inside SendIO, where the request is quick, and is told to nobody.
Lasts(c) == c.cmd = "DELAY" /\ c.unit # "VBLANK" => c.time # 0

Lasting ==
  \A i \in IOReq : \A c \in Cmds[i] : Device[i] = "timer" /\ c.quick => Lasts(c)

-----------------------------------------------------------------------------
(* The inductive invariant *)

Clocked(x) == ToSet(x.DelayList) \cup ToSet(x.MDelayList)

Driven(x) == ToSet(x.RequestsToDo) \cup ({x.RequestRunning} \ {NoIOReq})

Busy(x) == Clocked(x) \cup Driven(x)

\* Each list has a request once, and each request is on one list of its device.
Lists(x) ==
  /\ IsInjective(x.DelayList) /\ IsInjective(x.MDelayList) /\ IsInjective(x.RequestsToDo)
  /\ ToSet(x.DelayList) \cap ToSet(x.MDelayList) = {}
  /\ x.RequestRunning \notin ToSet(x.RequestsToDo)
  /\ \A i \in Clocked(x) : Device[i] = "timer"
  /\ \A i \in Driven(x) : Device[i] = "cdrom"

\* The requests of S are those that a driver has, unless they are done.
InProgress(x, S) == \A i \in S : "DONE" \notin x.Flags[i] <=> i \in Busy(x)

\* The queue is in order of the numbers f.
Rising(q, f) == \A m, n \in DOMAIN q : m < n => f[q[m]] <= f[q[n]]

\* The microsecond list is in order.
Upward(x) == Rising(x.MDelayList, x.left)

\* The hardware timer is set, and not past the first request.
Set(x) ==
  LET q == x.MDelayList IN
  q # <<>> => x.count # Off /\ x.count <= x.left[Head(q)]

\* Requests with messages alone are posted.
Based(x) == \A i \in x.Posted : MsgBased(i)

\* The quick requests of S are done.
QuickDone(x, S) == \A i \in S : "QUICK" \in x.Flags[i] => "DONE" \in x.Flags[i]

\* The signals of the reply ports are allocated.
PortsOpen(k) == \A i \in IOReq : ReplySig[i] \subseteq k.AllocatedSigs[IOOwner[i]]

CallState ==
  [at : {"none", "look", "sleep", "woken", "check", "aborted", "scan"},
   ior : IOReq \cup {NoIOReq},
   by : {"none", "wait", "delete", "scan"}]

\* The task has left the processor inside internalWait.
Away(k, m, t) == t # k.CurrentTask \/ m = "blip"

\* What a task sleeps for inside a SWI.
SleepBits(c) == IF c.by = "wait" THEN WaitBitsOf(c.ior) ELSE {ONESHOT}

\* What a SWI that sleeps is about.
Sound(t, c) ==
  \/ /\ c.by = "wait" /\ c.at \in {"look", "sleep", "woken"}
     /\ c.ior \in IOReq /\ IOOwner[c.ior] = t
  \/ c.by \in {"delete", "scan"} /\ c.at \in {"check", "aborted"} /\ c.ior \in IOReq
  \/ c.by = "scan" /\ c.at = "scan"

\* A task is in a SWI that sleeps: it runs it, or goes on with it when it is launched.
CallKnown(k, m, c, t) ==
  IF c.at = "none" THEN c = NoCall
  ELSE /\ t # Idle /\ Sound(t, c)
       /\ ~Away(k, m, t) => m = "swi"
       /\ Away(k, m, t) => /\ c.at \in {"woken", "aborted"}
                           /\ k.psr[t] = "super"
                           /\ k.WaitBits[t] = Awaited(SleepBits(c))

\* internalWait has just returned to the task.
Returned(k, m, c, t) == c.at \in {"woken", "aborted"} /\ ~Away(k, m, t)

\* The bits that t has, or has just got.
Got(k, m, c, t) == k.SigBits[t] \cup (IF Returned(k, m, c, t) THEN k.ret ELSE {})

\* The task in WaitIO will look at its request again before it sleeps.
Looks(k, m, c, t) == c.at = "look" \/ Returned(k, m, c, t)

\* What t knows of the request that it waits for: it learns of its end from the
\* message, the flag or a signal, and of its deletion from SIGF_ABORT.
Informed(X, m, c, t) ==
  LET i == c.ior IN
  /\ i \notin X.io.made => ABORT \in Got(X.k, m, c, t)
  /\ i \in X.io.made =>
       /\ "QUICK" \notin X.io.Flags[i] /\ (MsgBased(i) \/ "WAITING" \in X.io.Flags[i])
       /\ MsgBased(i) /\ c.at # "look" /\ "DONE" \in X.io.Flags[i] => i \in X.io.Posted
       /\ ~Looks(X.k, m, c, t) /\ ("DONE" \in X.io.Flags[i] \/ i \in X.io.Posted)
            => WaitBitsOf(i) \cap X.k.SigBits[t] # {}

Aware(X, m, c, t) == c.by = "wait" => Informed(X, m, c, t)

\* The call c of the task t is one that t can be in.
Fits(X, m, c, t) == CallKnown(X.k, m, c, t) /\ Aware(X, m, c, t)

Calls == call \in [Task -> CallState] /\ \A t \in Task : Fits(X0, mode, call[t], t)

Requests ==
  /\ io \in IOState /\ Lists(io) /\ InProgress(io, IOReq)
  /\ Based(io) /\ QuickDone(io, IOReq)
  /\ Upward(io) /\ Set(io)

IOInv == IInv /\ PortsOpen(kb) /\ Requests /\ Calls

-----------------------------------------------------------------------------
(* The lists of the timer *)

\* A request is inserted before the first that is behind it.
LEMMA InsertPlace ==
  ASSUME NEW q \in Seq(IOReq), NEW i \in IOReq, NEW behind
  PROVE  \E n \in 1..(Len(q) + 1) :
           /\ UniversalInsertNode(q, i, behind) = InsertAt(q, n, i)
           /\ \A m \in 1..Len(q) : m < n => q[m] \notin behind
           /\ n <= Len(q) => q[n] \in behind
<1> DEFINE places == {n \in DOMAIN q : q[n] \in behind}
<1>1. Len(q) \in Nat /\ DOMAIN q = 1..Len(q)
  BY LenProperties
<1>2. CASE places = {}
  <2>1. UniversalInsertNode(q, i, behind) = InsertAt(q, Len(q) + 1, i)
    BY <1>2 DEF UniversalInsertNode
  <2> QED
    BY <1>1, <1>2, <2>1
<1>3. CASE places # {}
  <2>1. places \in SUBSET Nat
    BY <1>1
  <2>2. \E n \in places : \A m \in places : n <= m
    BY <1>3, <2>1, LeastNumber
  <2> DEFINE n == Min(places)
  <2>3. n \in places /\ \A m \in places : n <= m
    BY <2>2 DEF Min
  <2>4. UniversalInsertNode(q, i, behind) = InsertAt(q, n, i)
    BY <1>3 DEF UniversalInsertNode
  <2> HIDE DEF n
  <2>5. \A m \in 1..Len(q) : m < n => q[m] \notin behind
    BY <1>1, <2>3
  <2> QED
    BY <1>1, <2>3, <2>4, <2>5
<1> QED
  BY <1>2, <1>3

\* The elements after an insertion.
LEMMA InsertItems ==
  ASSUME NEW q \in Seq(IOReq), NEW i \in IOReq, NEW n \in 1..(Len(q) + 1)
  PROVE  LET r == InsertAt(q, n, i) IN
         /\ r \in Seq(IOReq) /\ Len(r) = Len(q) + 1 /\ Len(q) \in Nat
         /\ DOMAIN q = 1..Len(q) /\ DOMAIN r = 1..(Len(q) + 1)
         /\ \A j \in 1..Len(q) : q[j] \in IOReq
         /\ \A j \in 1..Len(q) : j < n => r[j] = q[j]
         /\ r[n] = i
         /\ \A j \in 1..Len(q) : j >= n => r[j + 1] = q[j]
<1> DEFINE r == InsertAt(q, n, i)
<1>1. /\ r \in Seq(IOReq)
      /\ Len(r) = Len(q) + 1
      /\ \A j \in 1..(Len(q) + 1) :
           r[j] = IF j < n THEN q[j] ELSE IF j = n THEN i ELSE q[j - 1]
  <2>1. /\ InsertAt(q, n, i) \in Seq(IOReq)
        /\ Len(InsertAt(q, n, i)) = Len(q) + 1
        /\ \A j \in 1..(Len(q) + 1) :
             InsertAt(q, n, i)[j] = IF j < n THEN q[j] ELSE IF j = n THEN i ELSE q[j - 1]
    BY InsertAtLemma, SMTT(30)
  <2> QED
    BY ONLY <2>1 DEF r
<1> HIDE DEF r
<1>2. /\ Len(q) \in Nat /\ DOMAIN q = 1..Len(q) /\ DOMAIN r = 1..(Len(q) + 1)
      /\ \A j \in 1..Len(q) : q[j] \in IOReq
  BY <1>1, LenProperties, ElementOfSeq
<1>3. \A j \in 1..Len(q) : j < n => r[j] = q[j]
  BY <1>1, <1>2
<1>4. r[n] = i
  BY <1>1, <1>2
<1>5. \A j \in 1..Len(q) : j >= n => r[j + 1] = q[j]
  <2> TAKE j \in 1..Len(q)
  <2>1. j + 1 \in 1..(Len(q) + 1) /\ (j + 1) - 1 = j
    BY <1>2
  <2>2. j >= n => ~(j + 1 < n) /\ j + 1 # n
    BY <1>2
  <2> QED
    BY <1>1, <2>1, <2>2
<1> QED
  BY <1>1, <1>2, <1>3, <1>4, <1>5 DEF r

LEMMA InsertList ==
  ASSUME NEW q \in Seq(IOReq), NEW i \in IOReq, NEW behind,
         IsInjective(q), i \notin ToSet(q)
  PROVE  LET r == UniversalInsertNode(q, i, behind) IN
         /\ r \in Seq(IOReq) /\ ToSet(r) = ToSet(q) \cup {i} /\ IsInjective(r)
         /\ r # <<>> /\ (Head(r) = i \/ (q # <<>> /\ Head(r) = Head(q)))
<1> DEFINE r == UniversalInsertNode(q, i, behind)
<1>1. PICK n \in 1..(Len(q) + 1) : r = InsertAt(q, n, i)
  BY InsertPlace
<1> HIDE DEF r
<1>2. ToSet(r) = ToSet(q) \cup {i} /\ IsInjective(r)
  BY <1>1, InsertAtSet
<1>3. /\ r \in Seq(IOReq) /\ Len(r) = Len(q) + 1 /\ Len(q) \in Nat
      /\ \A j \in 1..Len(q) : j < n => r[j] = q[j]
      /\ r[n] = i
  BY <1>1, InsertItems
<1>4. r # <<>> /\ Head(r) = r[1] /\ (n # 1 => q # <<>> /\ Head(q) = q[1])
  BY <1>3, EmptySeq, HeadTailProperties
<1>5. Head(r) = i \/ (q # <<>> /\ Head(r) = Head(q))
  BY <1>3, <1>4
<1> QED
  BY <1>2, <1>3, <1>4, <1>5 DEF r

\* A list in order stays so, with the new request before its equals.
LEMMA InsertRising ==
  ASSUME NEW q \in Seq(IOReq), NEW i \in IOReq, NEW f \in [IOReq -> Nat], Rising(q, f)
  PROVE  Rising(UniversalInsertNode(q, i, {j \in IOReq : f[i] <= f[j]}), f)
<1> DEFINE behind == {j \in IOReq : f[i] <= f[j]}
           r == UniversalInsertNode(q, i, behind)
<1>1. PICK n \in 1..(Len(q) + 1) :
        /\ r = InsertAt(q, n, i)
        /\ \A m \in 1..Len(q) : m < n => q[m] \notin behind
        /\ n <= Len(q) => q[n] \in behind
  BY InsertPlace
<1> HIDE DEF r, behind
<1>2. /\ r \in Seq(IOReq) /\ Len(r) = Len(q) + 1 /\ Len(q) \in Nat
      /\ DOMAIN q = 1..Len(q) /\ DOMAIN r = 1..(Len(q) + 1)
      /\ \A j \in 1..Len(q) : q[j] \in IOReq
      /\ \A j \in 1..Len(q) : j < n => r[j] = q[j]
      /\ r[n] = i
      /\ \A j \in 1..Len(q) : j >= n => r[j + 1] = q[j]
  <2>1. q \in Seq(IOReq) /\ i \in IOReq /\ n \in 1..(Len(q) + 1) /\ r = InsertAt(q, n, i)
    BY <1>1
  <2> DEFINE s == InsertAt(q, n, i)
  <2>2. /\ s \in Seq(IOReq) /\ Len(s) = Len(q) + 1 /\ Len(q) \in Nat
        /\ DOMAIN q = 1..Len(q) /\ DOMAIN s = 1..(Len(q) + 1)
        /\ \A j \in 1..Len(q) : q[j] \in IOReq
        /\ \A j \in 1..Len(q) : j < n => s[j] = q[j]
        /\ s[n] = i
        /\ \A j \in 1..Len(q) : j >= n => s[j + 1] = q[j]
    BY ONLY <2>1, InsertItems, ZenonT(60)
  <2> HIDE DEF s
  <2>3. r = s
    BY <2>1 DEF s
  <2> QED
    BY <2>2, <2>3
<1>3. \A m \in 1..Len(q) : m < n => f[q[m]] <= f[i]
  BY <1>1, <1>2 DEF behind
<1>4. \A m \in 1..Len(q) : m >= n => f[i] <= f[q[m]]
  <2> SUFFICES ASSUME NEW m \in 1..Len(q), m >= n PROVE f[i] <= f[q[m]]
    OBVIOUS
  <2>1. n \in 1..Len(q) /\ f[i] <= f[q[n]]
    BY <1>1, <1>2, SMTT(30) DEF behind
  <2>2. n < m => f[q[n]] <= f[q[m]]
    BY <1>2, <2>1 DEF Rising
  <2> QED
    BY <1>2, <2>1, <2>2, SMTT(30)
<1> SUFFICES ASSUME NEW a \in 1..(Len(q) + 1), NEW b \in 1..(Len(q) + 1), a < b
             PROVE  f[r[a]] <= f[r[b]]
  BY <1>2 DEF Rising, r, behind
<1>5. CASE b < n
  <2>1. a \in 1..Len(q) /\ b \in 1..Len(q) /\ a < n
    BY <1>2, <1>5, SMTT(30)
  <2>2. a \in DOMAIN q /\ b \in DOMAIN q /\ r[a] = q[a] /\ r[b] = q[b]
    BY <1>2, <1>5, <2>1
  <2>3. f[q[a]] <= f[q[b]]
    BY ONLY <2>2, Rising(q, f), a < b DEF Rising
  <2> QED
    BY ONLY <2>2, <2>3
<1>6. CASE b = n
  <2>1. a \in 1..Len(q) /\ a < n
    BY <1>2, <1>6
  <2>2. r[a] = q[a] /\ r[b] = i /\ f[q[a]] <= f[i]
    BY <1>2, <1>3, <1>6, <2>1
  <2> QED
    BY ONLY <2>2
<1>7. CASE b > n
  <2>0. b - 1 \in 1..Len(q) /\ (b - 1) + 1 = b /\ b - 1 >= n
    BY <1>2, <1>7
  <2>1. b - 1 \in 1..Len(q) /\ r[b] = q[b - 1] /\ b - 1 >= n
    BY <1>2, <2>0
  <2>2. CASE a = n
    BY <1>2, <1>4, <2>1, <2>2
  <2>3. CASE a < n
    <3>0. a \in 1..Len(q) /\ a < b - 1
      BY <1>2, <2>1, <2>3
    <3>1. a \in DOMAIN q /\ b - 1 \in DOMAIN q /\ a < b - 1 /\ r[a] = q[a]
      BY <1>2, <2>1, <2>3, <3>0
    <3> QED
      BY <2>1, <3>1 DEF Rising
  <2>4. CASE a > n
    <3>0. a - 1 \in 1..Len(q) /\ (a - 1) + 1 = a /\ a - 1 >= n /\ a - 1 < b - 1
      BY <1>2, <2>4
    <3>1. a - 1 \in 1..Len(q) /\ r[a] = q[a - 1] /\ a - 1 < b - 1
      BY <1>2, <3>0
    <3> QED
      BY <1>2, <2>1, <3>1, ZenonT(60) DEF Rising
  <2> QED
    BY <2>2, <2>3, <2>4
<1>8. b < n \/ b = n \/ b > n
  BY <1>2
<1> HIDE DEF r, behind
<1> QED
  BY ONLY <1>5, <1>6, <1>7, <1>8

\* Unlinking a request, if it is on the list.
LEMMA DropList ==
  ASSUME NEW q \in Seq(IOReq), NEW i, IsInjective(q)
  PROVE  LET r == Drop(q, i) IN
         /\ r \in Seq(IOReq) /\ ToSet(r) = ToSet(q) \ {i} /\ IsInjective(r)
         /\ \A f : Rising(q, f) => Rising(r, f)
<1> DEFINE r == Drop(q, i)
<1>1. r \in Seq(IOReq) /\ ToSet(r) = ToSet(q) \ {i} /\ IsInjective(r)
  BY RemoveNodesSet DEF Drop
<1>2. \A m, n \in DOMAIN r :
        m < n => \E a, b \in DOMAIN q : a < b /\ r[m] = q[a] /\ r[n] = q[b]
  BY RemoveNodesOrder DEF Drop
<1> HIDE DEF r
<1>3. ASSUME NEW f, Rising(q, f) PROVE Rising(r, f)
  BY <1>2, <1>3 DEF Rising
<1> QED
  BY <1>1, <1>3 DEF r

\* What is first on a list that is in order is least.
LEMMA RisingHead ==
  ASSUME NEW q \in Seq(IOReq), NEW f \in [IOReq -> Nat], Rising(q, f), q # <<>>
  PROVE  Head(q) \in ToSet(q) /\ \A i \in ToSet(q) : f[Head(q)] <= f[i]
<1>1. /\ Len(q) \in Nat /\ Len(q) > 0 /\ DOMAIN q = 1..Len(q) /\ Head(q) = q[1]
      /\ \A m \in 1..Len(q) : q[m] \in IOReq
  BY LenProperties, EmptySeq, HeadTailProperties, ElementOfSeq
<1>2. ToSet(q) = {q[m] : m \in 1..Len(q)}
  BY <1>1 DEF ToSet
<1>3. \A m \in 1..Len(q) : f[q[1]] <= f[q[m]]
  <2> TAKE m \in 1..Len(q)
  <2>1. CASE m = 1
    BY <1>1, <2>1
  <2>2. CASE m # 1
    BY <1>1, <2>2, SMTT(30) DEF Rising
  <2> QED
    BY <2>1, <2>2
<1> QED
  BY <1>1, <1>2, <1>3

-----------------------------------------------------------------------------
(* What devices do to the tasks *)

Pair == [k : KernelState, io : IOState]

\* r is k after signals were sent: the tasks have what they had, and perhaps more.
Grows(k, r) ==
  /\ KInv(r) /\ SameRunner(k, r) /\ (Asked(k) => Asked(r))
  /\ SameFrames(k, r) /\ r.AllocatedSigs = k.AllocatedSigs /\ r.ret = k.ret
  /\ \A t \in Task : k.SigBits[t] \subseteq r.SigBits[t]

\* The owner of a request that is not quick is told of its end, in the step from
\* X to Y, and what was so stays so.
Tells(X, Y, i) ==
  /\ i \in X.io.made <=> i \in Y.io.made
  /\ i \in X.io.Posted => i \in Y.io.Posted
  /\ i \in Y.io.Posted \ X.io.Posted => ReplySig[i] \subseteq Y.k.SigBits[IOOwner[i]]
  /\ "WAITING" \in X.io.Flags[i] <=> "WAITING" \in Y.io.Flags[i]
  /\ "QUICK" \in Y.io.Flags[i] => "QUICK" \in X.io.Flags[i]
  /\ "DONE" \in X.io.Flags[i] => "DONE" \in Y.io.Flags[i]
  /\ "DONE" \in Y.io.Flags[i] /\ "DONE" \notin X.io.Flags[i] /\ "QUICK" \notin X.io.Flags[i]
       => IF MsgBased(i) THEN i \in Y.io.Posted ELSE IODONE \in Y.k.SigBits[IOOwner[i]]

\* SIGF_ONESHOT comes for a request that is done.
OneShots(X, Y) ==
  \A t \in Task : ONESHOT \in Y.k.SigBits[t] \ X.k.SigBits[t] =>
    \E i \in IOReq : X.io.SigItem[i] = t /\ "DONE" \in Y.io.Flags[i]

\* The task that waits for the end of an abort is told as well.
TellsAborter(X, Y, i) ==
  LET t == X.io.SigItem[i] IN
  "DONE" \in Y.io.Flags[i] /\ "DONE" \notin X.io.Flags[i] /\ "QUICK" \notin X.io.Flags[i]
  /\ t # NoTask => ONESHOT \in Y.k.SigBits[t]

\* SIGF_ABORT comes for nothing else than a deletion, and what is posted is done.
Honest(X, Y) ==
  /\ \A t \in Task : ABORT \in Y.k.SigBits[t] => ABORT \in X.k.SigBits[t]
  /\ \A i \in Y.io.Posted \ X.io.Posted : "DONE" \in Y.io.Flags[i]

\* A device completes requests.
Serves(X, Y) ==
  /\ Grows(X.k, Y.k) /\ Y.io.SigItem = X.io.SigItem /\ OneShots(X, Y) /\ Honest(X, Y)
  /\ \A i \in IOReq : Tells(X, Y, i) /\ TellsAborter(X, Y, i)

LEMMA PairFields ==
  ASSUME NEW X \in Pair
  PROVE  /\ X = [k |-> X.k, io |-> X.io]
         /\ X.k \in KernelState /\ X.io \in IOState
         /\ X.io.made \in SUBSET IOReq /\ X.io.Posted \in SUBSET IOReq
         /\ X.io.Flags \in [IOReq -> SUBSET IOFlag]
         /\ X.io.SigItem \in [IOReq -> Task \cup {NoTask}]
         /\ X.io.DelayList \in Seq(IOReq) /\ X.io.MDelayList \in Seq(IOReq)
         /\ X.io.left \in [IOReq -> 0..MaxTime] /\ X.io.period \in [IOReq -> 0..MaxTime]
         /\ X.io.count \in (0..MaxTime) \cup {Off}
         /\ X.io.RequestsToDo \in Seq(IOReq)
         /\ X.io.RequestRunning \in IOReq \cup {NoIOReq}
BY DEF Pair, IOState

LEMMA GrowsSelf ==
  ASSUME NEW k, KInv(k)
  PROVE  Grows(k, k)
BY DEF Grows, SameRunner, SameFrames

LEMMA GrowsOn ==
  ASSUME NEW j, NEW k, NEW r, Grows(j, k), Grows(k, r)
  PROVE  Grows(j, r)
<1>1. SameRunner(j, r) /\ SameFrames(j, r) /\ KInv(r) /\ (Asked(j) => Asked(r))
  BY DEF Grows, SameRunner, SameFrames
<1>2. r.AllocatedSigs = j.AllocatedSigs /\ r.ret = j.ret
      /\ \A t \in Task : j.SigBits[t] \subseteq r.SigBits[t]
  BY DEF Grows
<1> QED
  BY <1>1, <1>2 DEF Grows

\* A device that does nothing to the requests.
LEMMA ServesSelf ==
  ASSUME NEW X \in Pair, NEW Y \in Pair, Y.k = X.k, KInv(X.k),
         Y.io.Flags = X.io.Flags, Y.io.SigItem = X.io.SigItem,
         Y.io.Posted = X.io.Posted, Y.io.made = X.io.made
  PROVE  Serves(X, Y)
<1>1. Grows(X.k, Y.k)
  BY GrowsSelf
<1> QED
  BY <1>1 DEF Serves, OneShots, Honest, Tells, TellsAborter

\* One device after the other.
LEMMA ServesOn ==
  ASSUME NEW X \in Pair, NEW Y \in Pair, NEW Z \in Pair, Serves(X, Y), Serves(Y, Z)
  PROVE  Serves(X, Z)
<1>1. Grows(X.k, Z.k)
  BY GrowsOn DEF Serves
<1>2. \A t \in Task : X.k.SigBits[t] \subseteq Y.k.SigBits[t] /\ Y.k.SigBits[t] \subseteq Z.k.SigBits[t]
  BY DEF Serves, Grows
<1>3. Z.io.SigItem = X.io.SigItem /\ Y.io.SigItem = X.io.SigItem
  BY DEF Serves
<1>4. ASSUME NEW i \in IOReq PROVE Tells(X, Z, i)
  <2>1. IOOwner[i] \in Task
    BY IOAssumption
  <2>2. Tells(X, Y, i) /\ Tells(Y, Z, i)
    BY DEF Serves
  <2> QED
    BY <1>2, <2>1, <2>2 DEF Tells
<1>5. ASSUME NEW i \in IOReq PROVE TellsAborter(X, Z, i)
  <2>1. X.io.SigItem[i] \in Task \cup {NoTask}
    BY PairFields
  <2>2. Tells(X, Y, i) /\ TellsAborter(X, Y, i) /\ TellsAborter(Y, Z, i)
    BY DEF Serves
  <2> QED
    BY <1>2, <1>3, <2>1, <2>2 DEF Tells, TellsAborter
<1>6. OneShots(X, Z)
  <2>1. OneShots(X, Y) /\ OneShots(Y, Z) /\ \A i \in IOReq : Tells(Y, Z, i)
    BY DEF Serves
  <2> QED
    BY <1>3, <2>1 DEF OneShots, Tells
<1>7. Honest(X, Z)
  <2>1. Honest(X, Y) /\ Honest(Y, Z) /\ \A i \in IOReq : Tells(Y, Z, i)
    BY DEF Serves
  <2>2. \A i \in Y.io.Posted : i \in IOReq
    BY PairFields
  <2> QED
    BY <2>1, <2>2 DEF Honest, Tells
<1> QED
  BY <1>1, <1>3, <1>4, <1>5, <1>6, <1>7 DEF Serves

\* Sending bits that the task has allocated.
LEMMA SignalGrows ==
  ASSUME NEW X \in Pair, KInv(X.k), NEW t \in Task, NEW bits \in SUBSET Sig,
         bits \subseteq X.k.AllocatedSigs[t]
  PROVE  LET Y == Signal(X, t, bits) IN
         /\ Y \in Pair /\ Y.io = X.io /\ Grows(X.k, Y.k)
         /\ Y.k.SigBits = [X.k.SigBits EXCEPT ![t] = @ \cup bits]
<1> DEFINE k == X.k
           r == internalSignal(k, t, bits)
<1>1. /\ SameFrames(k, r) /\ r.AllocatedSigs = k.AllocatedSigs
      /\ r.SigBits = [k.SigBits EXCEPT ![t] = @ \cup bits]
  BY SignalFrame
<1>2. KInv(r) /\ SameRunner(k, r) /\ (Asked(k) => Asked(r))
  BY SignalLemma
<1>3. r.ret = k.ret
  BY PairFields DEF internalSignal, MakeReady, KernelState
<1>4. Signal(X, t, bits) = [k |-> r, io |-> X.io] /\ X.io \in IOState
  BY PairFields DEF Signal
<1> HIDE DEF r, k
<1>5. Grows(k, r)
  <2>1. k.SigBits \in [Task -> SUBSET Sig]
    BY PairFields, Fields DEF k
  <2>2. \A u \in Task : k.SigBits[u] \subseteq r.SigBits[u]
    BY <1>1, <2>1
  <2> QED
    BY <1>1, <1>2, <1>3, <2>2 DEF Grows
<1>6. r \in KernelState
  BY <1>2 DEF KInv
<1>7. Signal(X, t, bits) \in Pair
  BY <1>4, <1>6 DEF Pair
<1> QED
  BY <1>1, <1>4, <1>5, <1>7 DEF k

\* The signals of the reply ports are the owners' still.
LEMMA OpenPorts ==
  ASSUME NEW k, NEW r, PortsOpen(k), r.AllocatedSigs = k.AllocatedSigs
  PROVE  PortsOpen(r)
BY DEF PortsOpen

\* The message of a request is sent to its reply port, or its owner a signal.
LEMMA NotifyTells ==
  ASSUME NEW X \in Pair, KInv(X.k), PortsOpen(X.k), NEW i \in IOReq
  PROVE  LET Y == Notify(X, i) IN
         /\ Y \in Pair /\ Grows(X.k, Y.k)
         /\ \A t \in Task : /\ ONESHOT \in Y.k.SigBits[t] => ONESHOT \in X.k.SigBits[t]
                            /\ ABORT \in Y.k.SigBits[t] => ABORT \in X.k.SigBits[t]
         /\ Y.io = [X.io EXCEPT !.Posted = Y.io.Posted]
         /\ ~MsgBased(i) => Y.io.Posted = X.io.Posted /\ IODONE \in Y.k.SigBits[IOOwner[i]]
         /\ MsgBased(i) => Y.io.Posted = X.io.Posted \cup {i}
         /\ i \in Y.io.Posted \ X.io.Posted => ReplySig[i] \subseteq Y.k.SigBits[IOOwner[i]]
<1> DEFINE t == IOOwner[i]
           Y == Notify(X, i)
<1>1. /\ t \in Task /\ ReplySig[i] \in SUBSET Sig /\ {IODONE} \in SUBSET Sig
      /\ ONESHOT \notin ReplySig[i] /\ ONESHOT # IODONE
      /\ ABORT \notin ReplySig[i] /\ ABORT # IODONE
  BY IOAssumption, SigAssumption DEF Sig
<1>2. ReplySig[i] \subseteq X.k.AllocatedSigs[t] /\ {IODONE} \subseteq X.k.AllocatedSigs[t]
  BY <1>1, IOAssumption DEF KInv, Allocated, PortsOpen
<1>3. X.k.SigBits \in [Task -> SUBSET Sig] /\ X.io.Posted \in SUBSET IOReq
  BY PairFields, Fields
<1> HIDE DEF t
<1>4. CASE MsgBased(i) /\ i \in X.io.Posted
  <2>1. Y = X
    BY <1>4 DEF Notify, Reply
  <2>2. Grows(X.k, X.k) /\ X.io = [X.io EXCEPT !.Posted = X.io.Posted]
    BY GrowsSelf, PairFields DEF IOState
  <2> HIDE DEF Y
  <2> QED
    BY <1>4, <2>1, <2>2 DEF Y
<1>5. CASE MsgBased(i) /\ i \notin X.io.Posted
  <2> DEFINE Z == [X EXCEPT !.io.Posted = @ \cup {i}]
  <2>1. Z \in Pair /\ Z.k = X.k /\ Z.io = [X.io EXCEPT !.Posted = @ \cup {i}]
        /\ Z.io.Posted = X.io.Posted \cup {i}
    BY <1>3 DEF Pair, IOState
  <2>2. Y = Signal(Z, t, ReplySig[i])
    BY <1>5 DEF Notify, Reply, t
  <2> HIDE DEF Z
  <2>3. LET W == Signal(Z, t, ReplySig[i]) IN
        /\ W \in Pair /\ W.io = Z.io /\ Grows(Z.k, W.k)
        /\ W.k.SigBits = [Z.k.SigBits EXCEPT ![t] = @ \cup ReplySig[i]]
    BY <1>1, <1>2, <2>1, SignalGrows
  <2> HIDE DEF Y
  <2>4. /\ Y \in Pair /\ Y.io = Z.io /\ Grows(X.k, Y.k)
        /\ Y.k.SigBits = [X.k.SigBits EXCEPT ![t] = @ \cup ReplySig[i]]
    BY <2>1, <2>2, <2>3
  <2>5. ReplySig[i] \subseteq Y.k.SigBits[t]
        /\ \A u \in Task : /\ ONESHOT \in Y.k.SigBits[u] => ONESHOT \in X.k.SigBits[u]
                           /\ ABORT \in Y.k.SigBits[u] => ABORT \in X.k.SigBits[u]
    BY <1>1, <1>3, <2>4
  <2>6. Y.io = [X.io EXCEPT !.Posted = Y.io.Posted]
    BY <2>1, <2>4, PairFields DEF IOState
  <2> QED
    BY <1>5, <2>1, <2>4, <2>5, <2>6 DEF Y, t
<1>6. CASE ~MsgBased(i)
  <2>1. Y = Signal(X, t, {IODONE})
    BY <1>6 DEF Notify, t
  <2>2. LET W == Signal(X, t, {IODONE}) IN
        /\ W \in Pair /\ W.io = X.io /\ Grows(X.k, W.k)
        /\ W.k.SigBits = [X.k.SigBits EXCEPT ![t] = @ \cup {IODONE}]
    BY <1>1, <1>2, SignalGrows
  <2> HIDE DEF Y
  <2>4. /\ Y \in Pair /\ Y.io = X.io /\ Grows(X.k, Y.k)
        /\ Y.k.SigBits = [X.k.SigBits EXCEPT ![t] = @ \cup {IODONE}]
    BY <2>1, <2>2
  <2>5. IODONE \in Y.k.SigBits[t]
        /\ \A u \in Task : /\ ONESHOT \in Y.k.SigBits[u] => ONESHOT \in X.k.SigBits[u]
                           /\ ABORT \in Y.k.SigBits[u] => ABORT \in X.k.SigBits[u]
    BY <1>1, <1>3, <2>4
  <2>6. Y.io = [X.io EXCEPT !.Posted = Y.io.Posted]
    BY <2>4, PairFields DEF IOState
  <2> QED
    BY <1>6, <2>4, <2>5, <2>6 DEF Y, t
<1> QED
  BY <1>4, <1>5, <1>6

\* Completing a request: it is done, and who waits for it is told.
LEMMA CompleteLemma ==
  ASSUME NEW X \in Pair, KInv(X.k), PortsOpen(X.k), NEW i \in IOReq
  PROVE  LET Y == internalCompleteIO(X, i) IN
         /\ Y \in Pair /\ Serves(X, Y)
         /\ Y.io = [X.io EXCEPT !.Flags[i] = @ \cup {"DONE"}, !.Posted = Y.io.Posted]
         /\ \A j \in Y.io.Posted : j \in X.io.Posted \/ MsgBased(j)
<1> DEFINE done == Marked(X, i, {"DONE"})
           told == Notify(done, i)
           t == X.io.SigItem[i]
           Y == internalCompleteIO(X, i)
           F == [X.io.Flags EXCEPT ![i] = @ \cup {"DONE"}]
<1>0. /\ X.io.Flags \in [IOReq -> SUBSET IOFlag] /\ t \in Task \cup {NoTask}
      /\ X.io.SigItem \in [IOReq -> Task \cup {NoTask}] /\ X.io.Posted \in SUBSET IOReq
      /\ {ONESHOT} \in SUBSET Sig /\ ONESHOT \in SuperSigs /\ "DONE" \in IOFlag
      /\ ABORT # ONESHOT
  BY PairFields, IOAssumption DEF Sig, IOFlag
<1>1. /\ done \in Pair /\ done.k = X.k /\ done.io = [X.io EXCEPT !.Flags = F]
      /\ done.io.Flags = F /\ done.io.Posted = X.io.Posted
      /\ done.io.made = X.io.made /\ done.io.SigItem = X.io.SigItem
  <2>1. F \in [IOReq -> SUBSET IOFlag]
    BY <1>0
  <2>2. done = [X EXCEPT !.io = [X.io EXCEPT !.Flags = F]]
    BY DEF Marked
  <2> HIDE DEF done, F
  <2>3. [X.io EXCEPT !.Flags = F] \in IOState
    BY <2>1, PairFields, ZenonT(60) DEF IOState
  <2>4. done.k = X.k /\ done.io = [X.io EXCEPT !.Flags = F] /\ done \in Pair
    BY <2>2, <2>3 DEF Pair
  <2> QED
    BY <2>4, PairFields DEF IOState
<1>f. \A j \in IOReq : IF j = i THEN F[j] = X.io.Flags[i] \cup {"DONE"} ELSE F[j] = X.io.Flags[j]
  BY <1>0
<1>2. CASE Has(X, i, "QUICK")
  <2>1. Y = done
    BY <1>2 DEF internalCompleteIO
  <2> HIDE DEF Y, done, F, told
  <2>2. Grows(X.k, Y.k)
    BY <1>1, <2>1, GrowsSelf
  <2>3. OneShots(X, Y)
    BY <1>1, <2>1 DEF OneShots
  <2>4. ASSUME NEW j \in IOReq PROVE Tells(X, Y, j) /\ TellsAborter(X, Y, j)
    <3>1. Y.io.Flags = F /\ Y.io.Posted = X.io.Posted /\ Y.io.made = X.io.made
      BY <1>1, <2>1
    <3>2. \A flag : flag # "DONE" => (flag \in F[j] <=> flag \in X.io.Flags[j])
      BY <1>f
    <3>3. "DONE" \in X.io.Flags[j] => "DONE" \in F[j]
      BY <1>f
    <3>4. "DONE" \notin X.io.Flags[j] /\ "DONE" \in F[j] => "QUICK" \in X.io.Flags[j]
      BY <1>2, <1>f DEF Has
    <3> QED
      BY <3>1, <3>2, <3>3, <3>4 DEF Tells, TellsAborter
  <2>5. Y.io = [X.io EXCEPT !.Flags = F, !.Posted = Y.io.Posted]
    BY <1>1, <2>1, PairFields DEF IOState
  <2>6. Honest(X, Y)
    BY <1>1, <2>1 DEF Honest
  <2> QED
    BY <1>1, <2>1, <2>2, <2>3, <2>4, <2>5, <2>6 DEF Serves, Y, F
<1>3. CASE ~Has(X, i, "QUICK")
  <2> HIDE DEF done, F
  <2>1. LET Z == Notify(done, i) IN
         /\ Z \in Pair /\ Grows(done.k, Z.k)
         /\ \A u \in Task : /\ ONESHOT \in Z.k.SigBits[u] => ONESHOT \in done.k.SigBits[u]
                            /\ ABORT \in Z.k.SigBits[u] => ABORT \in done.k.SigBits[u]
         /\ Z.io = [done.io EXCEPT !.Posted = Z.io.Posted]
         /\ ~MsgBased(i) => Z.io.Posted = done.io.Posted /\ IODONE \in Z.k.SigBits[IOOwner[i]]
         /\ MsgBased(i) => Z.io.Posted = done.io.Posted \cup {i}
         /\ i \in Z.io.Posted \ done.io.Posted => ReplySig[i] \subseteq Z.k.SigBits[IOOwner[i]]
    BY <1>1, NotifyTells
  <2> HIDE DEF told
  <2>2. /\ told \in Pair /\ Grows(X.k, told.k)
        /\ \A u \in Task : /\ ONESHOT \in told.k.SigBits[u] => ONESHOT \in X.k.SigBits[u]
                           /\ ABORT \in told.k.SigBits[u] => ABORT \in X.k.SigBits[u]
        /\ told.io = [X.io EXCEPT !.Flags = F, !.Posted = told.io.Posted]
        /\ ~MsgBased(i) => told.io.Posted = X.io.Posted /\ IODONE \in told.k.SigBits[IOOwner[i]]
        /\ MsgBased(i) => told.io.Posted = X.io.Posted \cup {i}
        /\ i \in told.io.Posted \ X.io.Posted => ReplySig[i] \subseteq told.k.SigBits[IOOwner[i]]
    <3>1. told.io = [done.io EXCEPT !.Posted = told.io.Posted]
      BY <2>1 DEF told
    <3>2. told.io = [X.io EXCEPT !.Flags = F, !.Posted = told.io.Posted]
      BY <1>1, <3>1, PairFields DEF IOState
    <3> QED
      BY <1>1, <2>1, <3>2 DEF told
  <2>3. /\ Y \in Pair /\ Grows(told.k, Y.k) /\ Y.io = told.io
        /\ \A u \in Task : /\ ONESHOT \in Y.k.SigBits[u] => ONESHOT \in told.k.SigBits[u] \/ u = t
                           /\ ABORT \in Y.k.SigBits[u] => ABORT \in told.k.SigBits[u]
        /\ t # NoTask => ONESHOT \in Y.k.SigBits[t]
    <3>1. CASE t = NoTask
      <4>1. Y = told
        BY <1>3, <3>1 DEF internalCompleteIO, told, done
      <4>2. KInv(told.k)
        BY <2>2 DEF Grows
      <4> QED
        BY <2>2, <3>1, <4>1, <4>2, GrowsSelf
    <3>2. CASE t # NoTask
      <4>1. Y = Signal(told, t, {ONESHOT})
        BY <1>3, <3>2 DEF internalCompleteIO, told, done
      <4>2. KInv(told.k) /\ t \in Task /\ {ONESHOT} \subseteq told.k.AllocatedSigs[t]
        BY <1>0, <2>2, <3>2 DEF Grows, KInv, Allocated
      <4> HIDE DEF Y, t
      <4>3. LET W == Signal(told, t, {ONESHOT}) IN
            /\ W \in Pair /\ W.io = told.io /\ Grows(told.k, W.k)
            /\ W.k.SigBits = [told.k.SigBits EXCEPT ![t] = @ \cup {ONESHOT}]
        BY <1>0, <2>2, <4>2, SignalGrows
      <4>4. /\ Y \in Pair /\ Y.io = told.io /\ Grows(told.k, Y.k)
            /\ Y.k.SigBits = [told.k.SigBits EXCEPT ![t] = @ \cup {ONESHOT}]
        BY <4>1, <4>3
      <4>5. told.k.SigBits \in [Task -> SUBSET Sig]
        BY <2>2, PairFields, Fields
      <4> QED
        BY <1>0, <4>2, <4>4, <4>5
    <3> QED
      BY <3>1, <3>2
  <2> HIDE DEF Y
  <2>4. Grows(X.k, Y.k) /\ \A u \in Task : told.k.SigBits[u] \subseteq Y.k.SigBits[u]
    BY <2>2, <2>3, GrowsOn DEF Grows
  <2>5. /\ Y.io = [X.io EXCEPT !.Flags = F, !.Posted = Y.io.Posted]
        /\ Y.io.Flags = F /\ Y.io.SigItem = X.io.SigItem /\ Y.io.made = X.io.made
        /\ Y.io.Posted = told.io.Posted
    BY <2>2, <2>3, PairFields, ZenonT(60) DEF IOState
  <2>6. OneShots(X, Y)
    BY <1>f, <2>2, <2>3, <2>5 DEF OneShots, t
  <2>7. \A j \in IOReq : TellsAborter(X, Y, j)
    BY <1>f, <2>3, <2>5 DEF TellsAborter, t
  <2>8. \A j \in IOReq : Tells(X, Y, j)
    <3>1. ASSUME NEW j \in IOReq, j # i PROVE Tells(X, Y, j)
      BY <1>f, <2>2, <2>5, <3>1 DEF Tells
    <3>2. Tells(X, Y, i)
      <4>1. IOOwner[i] \in Task
        BY IOAssumption
      <4>2. "DONE" \in F[i] /\ \A flag : flag # "DONE" => (flag \in F[i] <=> flag \in X.io.Flags[i])
        BY <1>f
      <4> QED
        BY <2>2, <2>4, <2>5, <4>1, <4>2 DEF Tells
    <3> QED
      BY <3>1, <3>2
  <2>9. \A j \in Y.io.Posted : j \in X.io.Posted \/ MsgBased(j)
    BY <2>2, <2>5
  <2>10. Honest(X, Y)
    <3>1. \A j \in Y.io.Posted \ X.io.Posted : j = i
      BY <2>2, <2>5
    <3>2. "DONE" \in F[i]
      BY <1>f
    <3> QED
      BY <2>2, <2>3, <2>5, <3>1, <3>2 DEF Honest
  <2> QED
    BY <2>3, <2>4, <2>5, <2>6, <2>7, <2>8, <2>9, <2>10 DEF Serves, Y, F
<1> QED
  BY <1>2, <1>3

-----------------------------------------------------------------------------
(* The timer device *)

\* In the middle of a handler: the requests of S are with a driver unless done.
Good(X, S) ==
  /\ X \in Pair /\ KInv(X.k) /\ PortsOpen(X.k)
  /\ Lists(X.io) /\ InProgress(X.io, S) /\ Based(X.io)

Clock(x) == Upward(x) /\ Set(x)

\* The drivers have what they had, where they had it.
SameDevices(x, y) ==
  /\ y.DelayList = x.DelayList /\ y.MDelayList = x.MDelayList
  /\ y.left = x.left /\ y.period = x.period /\ y.count = x.count
  /\ y.RequestsToDo = x.RequestsToDo /\ y.RequestRunning = x.RequestRunning

LEMMA GoodOn ==
  ASSUME NEW X, NEW T, NEW Y \in Pair, NEW S, Good(X, T), Serves(X, Y),
         Lists(Y.io), InProgress(Y.io, S), Based(Y.io)
  PROVE  Good(Y, S)
<1>1. KInv(Y.k) /\ PortsOpen(Y.k)
  BY OpenPorts DEF Good, Serves, Grows
<1> QED
  BY <1>1 DEF Good

LEMMA QuickDoneOn ==
  ASSUME NEW X, NEW Y, NEW S \in SUBSET IOReq, QuickDone(X.io, S), Serves(X, Y)
  PROVE  QuickDone(Y.io, S)
BY DEF Serves, Tells, QuickDone

\* A request that no driver has is completed.
LEMMA CompleteGood ==
  ASSUME NEW X, NEW S \in SUBSET IOReq, NEW i \in IOReq, Good(X, S \ {i}),
         i \notin Busy(X.io)
  PROVE  LET Y == internalCompleteIO(X, i) IN
         /\ Good(Y, S) /\ Serves(X, Y) /\ SameDevices(X.io, Y.io)
         /\ Y.io.Flags[i] = X.io.Flags[i] \cup {"DONE"}
         /\ \A j \in IOReq \ {i} : Y.io.Flags[j] = X.io.Flags[j]
<1> DEFINE Y == internalCompleteIO(X, i)
<1>1. /\ Y \in Pair /\ Serves(X, Y)
      /\ Y.io = [X.io EXCEPT !.Flags[i] = @ \cup {"DONE"}, !.Posted = Y.io.Posted]
      /\ \A j \in Y.io.Posted : j \in X.io.Posted \/ MsgBased(j)
  BY CompleteLemma DEF Good
<1>2. X \in Pair /\ X.io.Flags \in [IOReq -> SUBSET IOFlag]
  BY PairFields DEF Good
<1> HIDE DEF Y
<1>3. /\ Y.io.Flags = [X.io.Flags EXCEPT ![i] = @ \cup {"DONE"}]
      /\ SameDevices(X.io, Y.io)
  BY <1>1, <1>2, PairFields DEF IOState, SameDevices
<1>4. /\ Y.io.Flags[i] = X.io.Flags[i] \cup {"DONE"}
      /\ \A j \in IOReq \ {i} : Y.io.Flags[j] = X.io.Flags[j]
  BY <1>2, <1>3
<1>5. Lists(Y.io) /\ Busy(Y.io) = Busy(X.io)
  BY <1>3 DEF Good, Lists, SameDevices, Busy, Clocked, Driven
<1>6. InProgress(Y.io, S)
  BY <1>4, <1>5 DEF Good, InProgress
<1>7. Based(Y.io)
  BY <1>1 DEF Good, Based
<1>8. Good(Y, S)
  BY <1>1, <1>5, <1>6, <1>7, GoodOn
<1> QED
  BY <1>1, <1>3, <1>4, <1>8 DEF Y

\* Unlinking a request of the timer.
LEMMA DropGood ==
  ASSUME NEW X, NEW S \in SUBSET IOReq, NEW i \in IOReq, Good(X, S), Device[i] = "timer"
  PROVE  LET Y == TimerDrop(X, i) IN
         /\ Good(Y, S \ {i}) /\ Serves(X, Y) /\ i \notin Busy(Y.io)
         /\ Y.k = X.k /\ Y.io.Flags = X.io.Flags /\ Y.io.left = X.io.left
         /\ Y.io.period = X.io.period
         /\ ToSet(Y.io.MDelayList) = ToSet(X.io.MDelayList) \ {i}
         /\ Upward(X.io) => Upward(Y.io)
         /\ Clock(X.io) => Clock(Y.io)
<1> DEFINE Y == TimerDrop(X, i)
           x == X.io
           d == Drop(x.DelayList, i)
           m == Drop(x.MDelayList, i)
<1>1. X \in Pair /\ x.DelayList \in Seq(IOReq) /\ x.MDelayList \in Seq(IOReq)
      /\ IsInjective(x.DelayList) /\ IsInjective(x.MDelayList)
  BY PairFields DEF Good, Lists
<1>2. /\ d \in Seq(IOReq) /\ ToSet(d) = ToSet(x.DelayList) \ {i} /\ IsInjective(d)
  BY <1>1, DropList
<1>3. /\ m \in Seq(IOReq) /\ ToSet(m) = ToSet(x.MDelayList) \ {i} /\ IsInjective(m)
      /\ \A f : Rising(x.MDelayList, f) => Rising(m, f)
  BY <1>1, DropList
<1> HIDE DEF d, m
<1>4. Y = [X EXCEPT !.io = [x EXCEPT !.DelayList = d, !.MDelayList = m]]
  BY DEF TimerDrop, d, m
<1>5. [x EXCEPT !.DelayList = d, !.MDelayList = m] \in IOState
  BY <1>1, <1>2, <1>3, PairFields, ZenonT(60) DEF IOState
<1>6. Y \in Pair /\ Y.k = X.k /\ Y.io = [x EXCEPT !.DelayList = d, !.MDelayList = m]
  BY <1>1, <1>4, <1>5 DEF Pair
<1> HIDE DEF Y
<1>7. /\ Y.io.Flags = x.Flags /\ Y.io.SigItem = x.SigItem /\ Y.io.Posted = x.Posted
      /\ Y.io.made = x.made /\ Y.io.left = x.left /\ Y.io.period = x.period
      /\ Y.io.count = x.count /\ Y.io.DelayList = d /\ Y.io.MDelayList = m
      /\ Y.io.RequestsToDo = x.RequestsToDo /\ Y.io.RequestRunning = x.RequestRunning
  BY <1>1, <1>6, PairFields DEF IOState
<1>8. Serves(X, Y)
  BY <1>1, <1>6, <1>7, ServesSelf DEF Good
<1>9. Clocked(Y.io) = Clocked(x) \ {i} /\ Driven(Y.io) = Driven(x)
  BY <1>2, <1>3, <1>7 DEF Clocked, Driven
<1>10. i \notin Driven(x)
  BY DEF Good, Lists
<1>11. Lists(Y.io)
  BY <1>2, <1>3, <1>7, <1>9 DEF Good, Lists
<1>12. i \notin Busy(Y.io) /\ InProgress(Y.io, S \ {i}) /\ Based(Y.io)
  BY <1>7, <1>9, <1>10 DEF Good, InProgress, Busy, Based
<1>13. Good(Y, S \ {i})
  BY <1>6, <1>8, <1>11, <1>12, GoodOn
<1>14. Upward(x) => Upward(Y.io)
  BY <1>3, <1>7 DEF Upward
<1>15. Clock(x) => Set(Y.io)
  <2> SUFFICES ASSUME Clock(x), m # <<>>
               PROVE  Y.io.count # Off /\ Y.io.count <= Y.io.left[Head(m)]
    BY <1>7 DEF Set
  <2> DEFINE q == x.MDelayList
             h == Head(q)
             g == Head(m)
  <2>0. x.left \in [IOReq -> 0..MaxTime] /\ x.count \in 0..MaxTime \cup {Off} /\ MaxTime \in Nat
    BY <1>1, PairFields, IOAssumption
  <2>1. g \in ToSet(m) /\ g \in ToSet(q)
    <3>1. Rising(m, x.left) /\ x.left \in [IOReq -> Nat]
      BY <1>3, <2>0 DEF Clock, Upward
    <3>2. g \in ToSet(m)
      BY <1>3, <3>1, RisingHead
    <3> QED
      BY <1>3, <3>2
  <2>2. q # <<>>
    BY <2>1 DEF ToSet
  <2>3. h \in ToSet(q) /\ x.left[h] <= x.left[g]
    <3>1. Rising(q, x.left) /\ x.left \in [IOReq -> Nat]
      BY <2>0 DEF Clock, Upward
    <3> HIDE DEF g
    <3> QED
      BY <1>1, <2>1, <2>2, <3>1, RisingHead
  <2>4. g \in IOReq /\ h \in IOReq
    <3>1. \A j \in ToSet(q) : j \in IOReq
      BY <1>1, LenProperties, ElementOfSeq DEF ToSet
    <3> QED
      BY <2>1, <2>3, <3>1
  <2>5. x.count # Off /\ x.count <= x.left[h]
    BY <2>2 DEF Clock, Set
  <2> QED
    <3>1. x.count \in Nat /\ x.left[h] \in Nat /\ x.left[g] \in Nat
      BY <2>0, <2>4, <2>5
    <3> QED
      BY <1>7, <2>3, <2>5, <3>1
<1> QED
  BY <1>3, <1>6, <1>7, <1>8, <1>12, <1>13, <1>14, <1>15 DEF Y, Clock

\* TimerAbortIO, and the end of a delay.
LEMMA TimerAbortGood ==
  ASSUME NEW X, NEW i \in IOReq, Good(X, IOReq), Device[i] = "timer"
  PROVE  LET Y == TimerAbortIO(X, i) IN
         /\ Good(Y, IOReq) /\ Serves(X, Y)
         /\ ToSet(Y.io.MDelayList) = ToSet(X.io.MDelayList) \ {i}
         /\ Y.io.left = X.io.left
         /\ "DONE" \in Y.io.Flags[i]
         /\ \A j \in IOReq \ {i} : Y.io.Flags[j] = X.io.Flags[j]
         /\ Upward(X.io) => Upward(Y.io)
         /\ Clock(X.io) => Clock(Y.io)
<1> DEFINE Z == TimerDrop(X, i)
           Y == TimerAbortIO(X, i)
<1>1. /\ Good(Z, IOReq \ {i}) /\ Serves(X, Z) /\ i \notin Busy(Z.io)
      /\ ToSet(Z.io.MDelayList) = ToSet(X.io.MDelayList) \ {i}
      /\ Z.io.left = X.io.left /\ Z.io.Flags = X.io.Flags
      /\ Upward(X.io) => Upward(Z.io)
      /\ Clock(X.io) => Clock(Z.io)
  BY DropGood
<1>2. Y = internalCompleteIO(Z, i)
  BY DEF TimerAbortIO
<1> HIDE DEF Z, Y
<1>3. /\ Good(Y, IOReq) /\ Serves(Z, Y) /\ SameDevices(Z.io, Y.io) /\ "DONE" \in Y.io.Flags[i]
      /\ \A j \in IOReq \ {i} : Y.io.Flags[j] = Z.io.Flags[j]
  <2>1. /\ Good(Y, IOReq) /\ Serves(Z, Y) /\ SameDevices(Z.io, Y.io)
        /\ Y.io.Flags[i] = Z.io.Flags[i] \cup {"DONE"}
        /\ \A j \in IOReq \ {i} : Y.io.Flags[j] = Z.io.Flags[j]
    <3>1. IOReq \in SUBSET IOReq /\ Good(Z, IOReq \ {i}) /\ i \notin Busy(Z.io)
      BY <1>1
    <3>2. LET V == internalCompleteIO(Z, i) IN
          /\ Good(V, IOReq) /\ Serves(Z, V) /\ SameDevices(Z.io, V.io)
          /\ V.io.Flags[i] = Z.io.Flags[i] \cup {"DONE"}
          /\ \A j \in IOReq \ {i} : V.io.Flags[j] = Z.io.Flags[j]
      BY ONLY <3>1, CompleteGood, i \in IOReq, ZenonT(60)
    <3> QED
      BY <1>2, <3>2
  <2> QED
    BY <2>1
<1>4. Serves(X, Y)
  BY <1>1, <1>3, ServesOn DEF Good
<1>5. \A j \in IOReq \ {i} : Y.io.Flags[j] = X.io.Flags[j]
  BY <1>1, <1>3
<1>6. /\ ToSet(Y.io.MDelayList) = ToSet(X.io.MDelayList) \ {i}
      /\ Y.io.left = X.io.left
      /\ Upward(X.io) => Upward(Y.io)
      /\ Clock(X.io) => Clock(Y.io)
  BY <1>1, <1>3 DEF SameDevices, Upward, Clock, Set
<1> QED
  BY <1>3, <1>4, <1>5, <1>6 DEF Y

LEMMA Update ==
  ASSUME NEW X \in Pair, NEW z \in IOState
  PROVE  LET Y == [X EXCEPT !.io = z] IN Y \in Pair /\ Y.k = X.k /\ Y.io = z
BY DEF Pair

\* A request goes on the microsecond list.
LEMMA InsertMGood ==
  ASSUME NEW X, NEW i \in IOReq, Good(X, IOReq \ {i}), Upward(X.io), i \notin Busy(X.io),
         Device[i] = "timer", "DONE" \notin X.io.Flags[i]
  PROVE  LET Y == [X EXCEPT !.io = InsertMDelay(@, i)] IN
         /\ Good(Y, IOReq) /\ Upward(Y.io) /\ Serves(X, Y)
         /\ Y.io.Flags = X.io.Flags /\ Y.io.left = X.io.left /\ Y.io.count = X.io.count
         /\ ToSet(Y.io.MDelayList) = ToSet(X.io.MDelayList) \cup {i}
         /\ \/ Head(Y.io.MDelayList) = i
            \/ X.io.MDelayList # <<>> /\ Head(Y.io.MDelayList) = Head(X.io.MDelayList)
<1> DEFINE x == X.io
           q == x.MDelayList
           m == UniversalInsertNode(q, i, {j \in IOReq : x.left[i] <= x.left[j]})
           Y == [X EXCEPT !.io = InsertMDelay(@, i)]
<1>1. /\ X \in Pair /\ q \in Seq(IOReq) /\ IsInjective(q) /\ x.left \in [IOReq -> Nat]
      /\ i \notin ToSet(q) /\ i \notin ToSet(x.DelayList) /\ Rising(q, x.left)
  BY PairFields, IOAssumption DEF Good, Lists, Busy, Clocked, Upward
<1>2. /\ m \in Seq(IOReq) /\ ToSet(m) = ToSet(q) \cup {i} /\ IsInjective(m)
      /\ Head(m) = i \/ (q # <<>> /\ Head(m) = Head(q))
  BY <1>1, InsertList
<1>3. Rising(m, x.left)
  BY <1>1, InsertRising
<1> HIDE DEF m
<1>4. Y = [X EXCEPT !.io = [x EXCEPT !.MDelayList = m]]
  BY DEF InsertMDelay, m
<1>5. [x EXCEPT !.MDelayList = m] \in IOState
  BY <1>1, <1>2, PairFields, ZenonT(60) DEF IOState
<1>6. Y \in Pair /\ Y.k = X.k /\ Y.io = [x EXCEPT !.MDelayList = m]
  BY <1>1, <1>4, <1>5 DEF Pair
<1> HIDE DEF Y
<1>7. /\ Y.io.Flags = x.Flags /\ Y.io.SigItem = x.SigItem /\ Y.io.Posted = x.Posted
      /\ Y.io.made = x.made /\ Y.io.left = x.left /\ Y.io.count = x.count
      /\ Y.io.DelayList = x.DelayList /\ Y.io.MDelayList = m
      /\ Y.io.RequestsToDo = x.RequestsToDo /\ Y.io.RequestRunning = x.RequestRunning
  BY <1>1, <1>6, PairFields DEF IOState
<1>8. Serves(X, Y)
  BY <1>1, <1>6, <1>7, ServesSelf DEF Good
<1>9. Clocked(Y.io) = Clocked(x) \cup {i} /\ Driven(Y.io) = Driven(x)
  BY <1>2, <1>7 DEF Clocked, Driven
<1>10. Lists(Y.io)
  BY <1>1, <1>2, <1>7, <1>9 DEF Good, Lists
<1>11. InProgress(Y.io, IOReq) /\ Based(Y.io)
  BY <1>7, <1>9 DEF Good, InProgress, Busy, Based
<1>12. Good(Y, IOReq)
  BY <1>6, <1>8, <1>10, <1>11, GoodOn
<1> QED
  BY <1>2, <1>3, <1>7, <1>8, <1>12 DEF Y, Upward

\* A request goes on the list of vertical blanks.
LEMMA InsertDGood ==
  ASSUME NEW X, NEW i \in IOReq, Good(X, IOReq \ {i}), i \notin Busy(X.io),
         Device[i] = "timer", "DONE" \notin X.io.Flags[i]
  PROVE  LET Y == [X EXCEPT !.io = InsertDelay(@, i)] IN
         /\ Good(Y, IOReq) /\ Serves(X, Y) /\ (Clock(X.io) => Clock(Y.io))
         /\ Y.io.Flags = X.io.Flags
<1> DEFINE x == X.io
           q == x.DelayList
           d == UniversalInsertNode(q, i, {j \in IOReq : x.period[i] < x.period[j]})
           Y == [X EXCEPT !.io = InsertDelay(@, i)]
<1>1. /\ X \in Pair /\ q \in Seq(IOReq) /\ IsInjective(q)
      /\ i \notin ToSet(q) /\ i \notin ToSet(x.MDelayList)
  BY PairFields DEF Good, Lists, Busy, Clocked
<1>2. /\ d \in Seq(IOReq) /\ ToSet(d) = ToSet(q) \cup {i} /\ IsInjective(d)
  BY <1>1, InsertList
<1> HIDE DEF d
<1>4. Y = [X EXCEPT !.io = [x EXCEPT !.DelayList = d]]
  BY DEF InsertDelay, d
<1>5. [x EXCEPT !.DelayList = d] \in IOState
  BY <1>1, <1>2, PairFields, ZenonT(60) DEF IOState
<1>6. Y \in Pair /\ Y.k = X.k /\ Y.io = [x EXCEPT !.DelayList = d]
  BY <1>1, <1>4, <1>5 DEF Pair
<1> HIDE DEF Y
<1>7. /\ Y.io.Flags = x.Flags /\ Y.io.SigItem = x.SigItem /\ Y.io.Posted = x.Posted
      /\ Y.io.made = x.made /\ Y.io.left = x.left /\ Y.io.count = x.count
      /\ Y.io.DelayList = d /\ Y.io.MDelayList = x.MDelayList
      /\ Y.io.RequestsToDo = x.RequestsToDo /\ Y.io.RequestRunning = x.RequestRunning
  BY <1>1, <1>6, PairFields DEF IOState
<1>8. Serves(X, Y)
  BY <1>1, <1>6, <1>7, ServesSelf DEF Good
<1>9. Clocked(Y.io) = Clocked(x) \cup {i} /\ Driven(Y.io) = Driven(x)
  BY <1>2, <1>7 DEF Clocked, Driven
<1>10. Lists(Y.io)
  BY <1>1, <1>2, <1>7, <1>9 DEF Good, Lists
<1>11. InProgress(Y.io, IOReq) /\ Based(Y.io)
  BY <1>7, <1>9 DEF Good, InProgress, Busy, Based
<1>12. Good(Y, IOReq)
  BY <1>6, <1>8, <1>10, <1>11, GoodOn
<1> QED
  BY <1>7, <1>8, <1>12 DEF Y, Clock, Upward, Set

\* At most the target of i and the intervals change.
Retargets(x, y, i) ==
  /\ y.Flags = x.Flags /\ y.SigItem = x.SigItem /\ y.Posted = x.Posted
  /\ y.made = x.made /\ y.count = x.count
  /\ y.DelayList = x.DelayList /\ y.MDelayList = x.MDelayList
  /\ y.RequestsToDo = x.RequestsToDo /\ y.RequestRunning = x.RequestRunning
  /\ \A j \in IOReq \ {i} : y.left[j] = x.left[j]

\* A request that is not on the microsecond list gets a new target.
LEMMA LeftGood ==
  ASSUME NEW X, NEW S, NEW i \in IOReq, Good(X, S), i \notin ToSet(X.io.MDelayList),
         NEW Y \in Pair, Y.k = X.k, Retargets(X.io, Y.io, i)
  PROVE  /\ Good(Y, S) /\ Serves(X, Y)
         /\ (Upward(X.io) => Upward(Y.io)) /\ (Clock(X.io) => Clock(Y.io))
         /\ Busy(Y.io) = Busy(X.io)
<1> DEFINE x == X.io
           q == x.MDelayList
<1>1. X \in Pair /\ q \in Seq(IOReq)
  BY PairFields DEF Good
<1>8. Serves(X, Y)
  BY <1>1, ServesSelf DEF Good, Retargets
<1>9. Clocked(Y.io) = Clocked(x) /\ Driven(Y.io) = Driven(x)
  BY DEF Clocked, Driven, Retargets
<1>10. Lists(Y.io) /\ InProgress(Y.io, S) /\ Based(Y.io)
  BY <1>9 DEF Good, Lists, InProgress, Busy, Based, Retargets
<1>11. Good(Y, S)
  BY <1>8, <1>10, GoodOn
<1>12. /\ DOMAIN q = 1..Len(q) /\ \A a \in DOMAIN q : q[a] \in IOReq /\ q[a] # i
  BY <1>1, LenProperties, ElementOfSeq DEF ToSet
<1>13. \A a \in DOMAIN q : Y.io.left[q[a]] = x.left[q[a]]
  BY <1>12 DEF Retargets
<1>14. Upward(x) => Upward(Y.io)
  BY <1>13 DEF Upward, Rising, Retargets
<1>15. Set(x) => Set(Y.io)
  <2>1. q # <<>> => 1 \in DOMAIN q /\ Head(q) = q[1]
    BY <1>1, EmptySeq, LenProperties, HeadTailProperties
  <2> QED
    BY <1>13, <2>1 DEF Set, Retargets
<1> QED
  BY <1>8, <1>9, <1>11, <1>14, <1>15 DEF Clock, Busy

\* The owner of a metronome is signalled.
LEMMA PingGood ==
  ASSUME NEW X, NEW S, NEW i \in IOReq, Good(X, S), CanPing(X, i)
  PROVE  LET Y == Signal(X, IOOwner[i], Ping) IN
         Good(Y, S) /\ Serves(X, Y) /\ Y.io = X.io
<1> DEFINE t == IOOwner[i]
           Y == Signal(X, t, Ping)
<1>1. /\ t \in Task /\ Ping \in SUBSET Sig /\ ONESHOT \notin Ping /\ ABORT \notin Ping
      /\ X \in Pair
      /\ Ping \subseteq X.k.AllocatedSigs[t]
  BY IOAssumption, SigAssumption DEF Sig, CanPing, Good
<1> HIDE DEF t
<1>2. /\ Y \in Pair /\ Y.io = X.io /\ Grows(X.k, Y.k)
      /\ Y.k.SigBits = [X.k.SigBits EXCEPT ![t] = @ \cup Ping]
  BY <1>1, SignalGrows DEF Good
<1> HIDE DEF Y
<1>3. OneShots(X, Y) /\ Honest(X, Y)
  <2>1. X.k.SigBits \in [Task -> SUBSET Sig]
    BY <1>1, PairFields, Fields
  <2>2. \A u \in Task : /\ ONESHOT \in Y.k.SigBits[u] => ONESHOT \in X.k.SigBits[u]
                        /\ ABORT \in Y.k.SigBits[u] => ABORT \in X.k.SigBits[u]
    BY <1>1, <1>2, <2>1
  <2> QED
    BY <1>2, <2>2 DEF OneShots, Honest
<1>4. Serves(X, Y)
  BY <1>2, <1>3 DEF Serves, Tells, TellsAborter
<1>5. Good(Y, S)
  BY <1>2, <1>4, GoodOn DEF Good
<1> QED
  BY <1>2, <1>4, <1>5 DEF Y, t

\* A request on a list of the timer is one of its requests.
LEMMA ClockedOnes ==
  ASSUME NEW X, NEW S, Good(X, S), NEW i \in Clocked(X.io)
  PROVE  i \in IOReq /\ Device[i] = "timer"
<1>1. X.io.DelayList \in Seq(IOReq) /\ X.io.MDelayList \in Seq(IOReq)
  BY PairFields DEF Good
<1>2. \A q \in Seq(IOReq) : \A j \in ToSet(q) : j \in IOReq
  BY LenProperties, ElementOfSeq DEF ToSet
<1> QED
  BY <1>1, <1>2 DEF Good, Lists, Clocked

\* A metronome goes on, if its owner has the signal still.
LEMMA PingedGood ==
  ASSUME NEW X, NEW S, NEW i \in IOReq, Good(X, S), i \notin ToSet(X.io.MDelayList),
         CanPing(X, i)
  PROVE  LET Y == Pinged(X, i) IN
         /\ Good(Y, S) /\ Serves(X, Y)
         /\ (Upward(X.io) => Upward(Y.io)) /\ (Clock(X.io) => Clock(Y.io))
         /\ Y.io.Flags = X.io.Flags /\ Y.io.MDelayList = X.io.MDelayList
         /\ Busy(Y.io) = Busy(X.io)
<1> DEFINE z == [X.io EXCEPT !.left[i] = X.io.period[i]]
           Z == [X EXCEPT !.io.left[i] = X.io.period[i]]
           Y == Pinged(X, i)
<1>1. X \in Pair /\ X.io.period[i] \in 0..MaxTime /\ X.io.left \in [IOReq -> 0..MaxTime]
  BY PairFields DEF Good
<1>2. z \in IOState /\ Retargets(X.io, z, i)
  <2>1. z \in IOState
    BY <1>1, PairFields, ZenonT(60) DEF IOState
  <2> QED
    BY <1>1, <2>1, PairFields DEF IOState, Retargets
<1>3. Z \in Pair /\ Z.k = X.k /\ Z.io = z
  <2>1. Z = [X EXCEPT !.io = z]
    OBVIOUS
  <2> HIDE DEF z, Z
  <2> QED
    BY <1>1, <1>2, <2>1 DEF Pair
<1>4. Y = Signal(Z, IOOwner[i], Ping)
  BY DEF Pinged
<1> HIDE DEF z, Z, Y
<1>5. CanPing(Z, i)
  BY <1>3 DEF CanPing
<1>6. /\ Good(Z, S) /\ Serves(X, Z)
      /\ (Upward(X.io) => Upward(Z.io)) /\ (Clock(X.io) => Clock(Z.io))
      /\ Busy(Z.io) = Busy(X.io)
  BY <1>2, <1>3, LeftGood
<1>7. Good(Y, S) /\ Serves(Z, Y) /\ Y.io = Z.io
  BY <1>4, <1>5, <1>6, PingGood
<1>8. Serves(X, Y)
  BY <1>1, <1>3, <1>6, <1>7, ServesOn DEF Good
<1> QED
  BY <1>2, <1>3, <1>6, <1>7, <1>8 DEF Y, Retargets

\* One request that has expired: a metronome starts again, another is done.
LEMMA ExpiredGood ==
  ASSUME NEW X, NEW i, Good(X, IOReq), Upward(X.io), i \in ToSet(X.io.MDelayList)
  PROVE  LET Y == Expired(X, i) IN
         /\ Good(Y, IOReq) /\ Upward(Y.io) /\ Serves(X, Y)
         /\ ToSet(X.io.MDelayList) \ {i} \subseteq ToSet(Y.io.MDelayList)
         /\ \A j \in IOReq \ {i} : Y.io.Flags[j] = X.io.Flags[j]
<1> DEFINE Z == TimerDrop(X, i)
           W == Pinged(Z, i)
           Y == Expired(X, i)
<1>1. i \in IOReq /\ Device[i] = "timer" /\ i \in Busy(X.io)
  BY ClockedOnes DEF Clocked, Busy
<1>2. /\ Good(Z, IOReq \ {i}) /\ Serves(X, Z) /\ i \notin Busy(Z.io)
      /\ Z.k = X.k /\ Z.io.Flags = X.io.Flags
      /\ ToSet(Z.io.MDelayList) = ToSet(X.io.MDelayList) \ {i} /\ Upward(Z.io)
  BY <1>1, DropGood
<1>3. CASE Has(X, i, "METRONOME") /\ CanPing(X, i)
  <2>1. Y = [W EXCEPT !.io = InsertMDelay(@, i)]
    BY <1>3 DEF Expired
  <2> HIDE DEF Z
  <2>2. CanPing(Z, i) /\ i \notin ToSet(Z.io.MDelayList)
    BY <1>2, <1>3 DEF CanPing
  <2>3. /\ Good(W, IOReq \ {i}) /\ Serves(Z, W) /\ Upward(W.io)
        /\ W.io.Flags = Z.io.Flags /\ W.io.MDelayList = Z.io.MDelayList
        /\ Busy(W.io) = Busy(Z.io)
    BY <1>1, <1>2, <2>2, PingedGood
  <2>4. "DONE" \notin X.io.Flags[i]
    BY <1>1 DEF Good, InProgress
  <2> HIDE DEF W, Y
  <2> DEFINE V == [W EXCEPT !.io = InsertMDelay(@, i)]
  <2>5. /\ Good(V, IOReq) /\ Upward(V.io) /\ Serves(W, V) /\ V.io.Flags = W.io.Flags
        /\ ToSet(V.io.MDelayList) = ToSet(W.io.MDelayList) \cup {i}
    <3>1. i \notin Busy(W.io) /\ "DONE" \notin W.io.Flags[i]
      BY <1>2, <2>3, <2>4
    <3> QED
      BY <1>1, <2>3, <3>1, InsertMGood
  <2> HIDE DEF V
  <2>6. Y = V
    BY <2>1 DEF V
  <2>7. Serves(X, W)
    BY <1>2, <2>3, ServesOn DEF Good
  <2>8. Serves(X, V)
    BY <2>3, <2>5, <2>7, ServesOn DEF Good
  <2> QED
    BY <1>2, <2>3, <2>5, <2>6, <2>8 DEF Y
<1>4. CASE ~(Has(X, i, "METRONOME") /\ CanPing(X, i))
  <2>1. Y = TimerAbortIO(X, i)
    BY <1>4 DEF Expired, TimerAbortIO
  <2> HIDE DEF Y
  <2>2. LET V == TimerAbortIO(X, i) IN
        /\ Good(V, IOReq) /\ Serves(X, V)
        /\ ToSet(V.io.MDelayList) = ToSet(X.io.MDelayList) \ {i}
        /\ \A j \in IOReq \ {i} : V.io.Flags[j] = X.io.Flags[j]
        /\ Upward(X.io) => Upward(V.io)
    BY <1>1, TimerAbortGood
  <2> QED
    BY <2>1, <2>2 DEF Y
<1> QED
  BY <1>3, <1>4

\* The states that the loop over the requests of late goes through.
Step(g, X, late, n) == IF n = 0 THEN X ELSE Expired(g[n - 1], late[n])

Loop(g, X, late, m) == g = [n \in 0..m |-> Step(g, X, late, n)]

LEMMA LoopExists ==
  ASSUME NEW X, NEW late \in Seq(IOReq)
  PROVE  \E g : Loop(g, X, late, Len(late)) /\ ExpireAll(X, late) = g[Len(late)]
<1> DEFINE N == {n \in Nat : \E g : Loop(g, X, late, n)}
           F == CHOOSE g : Loop(g, X, late, Len(late))
<1>1. 0 \in N
  <2>1. Loop([n \in 0..0 |-> X], X, late, 0)
    BY DEF Loop, Step
  <2> QED
    BY <2>1
<1>2. ASSUME NEW n \in N PROVE n + 1 \in N
  <2>1. PICK g : Loop(g, X, late, n)
    OBVIOUS
  <2> DEFINE h == [m \in 0..(n + 1) |-> Step(g, X, late, m)]
  <2>2. \A m \in 0..n : h[m] = g[m]
    BY <2>1 DEF Loop
  <2>3. \A m \in 0..(n + 1) : m # 0 => m - 1 \in 0..n
    OBVIOUS
  <2>4. \A m \in 0..(n + 1) : Step(h, X, late, m) = Step(g, X, late, m)
    <3> HIDE DEF h, N, F
    <3>1. \A m \in 0..(n + 1) : m # 0 => h[m - 1] = g[m - 1]
      BY <2>2, <2>3
    <3> QED
      BY <3>1 DEF Step
  <2>5. Loop(h, X, late, n + 1)
    BY <2>4 DEF Loop
  <2> HIDE DEF h
  <2> QED
    BY <2>5
<1>3. Len(late) \in N
  <2> HIDE DEF N
  <2>1. N \in SUBSET Nat
    BY DEF N
  <2> QED
    BY <1>1, <1>2, <2>1, SetInduction, LenProperties
<1>4. Loop(F, X, late, Len(late))
  BY <1>3
<1>5. ExpireAll(X, late) = F[Len(late)]
  BY Zenon DEF ExpireAll, Loop, Step
<1> QED
  BY <1>4, <1>5

\* The loop of reprocess.
LEMMA ExpireAllGood ==
  ASSUME NEW X, NEW late \in Seq(IOReq), Good(X, IOReq), Upward(X.io),
         IsInjective(late), ToSet(late) \subseteq ToSet(X.io.MDelayList)
  PROVE  LET Y == ExpireAll(X, late) IN
         /\ Good(Y, IOReq) /\ Upward(Y.io) /\ Serves(X, Y)
         /\ \A j \in IOReq \ ToSet(late) : Y.io.Flags[j] = X.io.Flags[j]
<1>1. PICK g : Loop(g, X, late, Len(late)) /\ ExpireAll(X, late) = g[Len(late)]
  BY LoopExists
<1>2. /\ Len(late) \in Nat /\ DOMAIN late = 1..Len(late)
      /\ ToSet(late) = {late[n] : n \in 1..Len(late)}
  BY LenProperties DEF ToSet
<1>3. /\ g[0] = X
      /\ \A n \in 1..Len(late) : g[n] = Expired(g[n - 1], late[n])
  <2>1. 0 \in 0..Len(late) /\ \A n \in 1..Len(late) : n \in 0..Len(late) /\ n # 0
    BY <1>2
  <2>2. \A n \in 0..Len(late) : g[n] = Step(g, X, late, n)
    BY <1>1 DEF Loop
  <2> QED
    BY <2>1, <2>2 DEF Step
<1> DEFINE rest(n) == {late[m] : m \in (n + 1)..Len(late)}
           Fine(n) == /\ Good(g[n], IOReq) /\ Upward(g[n].io) /\ Serves(X, g[n])
                      /\ rest(n) \subseteq ToSet(g[n].io.MDelayList)
                      /\ \A j \in IOReq \ ToSet(late) : g[n].io.Flags[j] = X.io.Flags[j]
           N == {n \in Nat : n <= Len(late) => Fine(n)}
<1>4. 0 \in N
  <2>1. Serves(X, X)
    BY ServesSelf DEF Good
  <2>2. rest(0) \subseteq ToSet(X.io.MDelayList)
    BY <1>2
  <2> QED
    BY <1>3, <2>1, <2>2
<1>5. ASSUME NEW n \in N PROVE n + 1 \in N
  <2>1. SUFFICES ASSUME n + 1 <= Len(late) PROVE Fine(n + 1)
    OBVIOUS
  <2> DEFINE i == late[n + 1]
             J == g[n]
             R == Expired(J, i)
  <2>2. /\ n \in Nat /\ n + 1 \in 1..Len(late) /\ (n + 1) - 1 = n
        /\ Good(J, IOReq) /\ Upward(J.io) /\ Serves(X, J)
        /\ rest(n) \subseteq ToSet(J.io.MDelayList)
        /\ \A j \in IOReq \ ToSet(late) : J.io.Flags[j] = X.io.Flags[j]
    BY <1>2, <2>1
  <2>3. g[n + 1] = R
    BY <1>3, <2>2
  <2>4. i \in rest(n) /\ rest(n + 1) \subseteq rest(n) \ {i}
    <3>1. \A m \in (n + 2)..Len(late) : m \in (n + 1)..Len(late) /\ late[m] # i
      <4> TAKE m \in (n + 2)..Len(late)
      <4>1. m \in (n + 1)..Len(late) /\ m \in DOMAIN late /\ n + 1 \in DOMAIN late /\ m # n + 1
        BY <1>2, <2>2
      <4> QED
        BY <4>1 DEF IsInjective
    <3>2. (n + 1) + 1 = n + 2 /\ n + 1 \in (n + 1)..Len(late)
      BY <1>2, <2>2
    <3> QED
      BY <3>1, <3>2
  <2> HIDE DEF rest, i, J, N, Fine
  <2>5. i \in ToSet(J.io.MDelayList)
    BY <2>2, <2>4
  <2>6. /\ Good(R, IOReq) /\ Upward(R.io) /\ Serves(J, R)
        /\ ToSet(J.io.MDelayList) \ {i} \subseteq ToSet(R.io.MDelayList)
        /\ \A j \in IOReq \ {i} : R.io.Flags[j] = J.io.Flags[j]
    BY <2>2, <2>5, ExpiredGood
  <2> HIDE DEF R
  <2>7. Serves(X, R)
    BY <2>2, <2>6, ServesOn DEF Good
  <2>8. rest(n + 1) \subseteq ToSet(R.io.MDelayList)
    BY <2>2, <2>4, <2>6
  <2>9. i \in ToSet(late)
    BY <1>2, <2>2 DEF i
  <2>10. \A j \in IOReq \ ToSet(late) : R.io.Flags[j] = X.io.Flags[j]
    BY <2>2, <2>6, <2>9
  <2> QED
    BY <2>3, <2>6, <2>7, <2>8, <2>10 DEF Fine
<1>6. Len(late) \in N
  <2> HIDE DEF N
  <2>1. N \in SUBSET Nat
    BY DEF N
  <2> QED
    BY <1>2, <1>4, <1>5, <2>1, SetInduction
<1> QED
  BY <1>1, <1>2, <1>6

\* The hardware timer is set for the first request.
LEMMA ArmedGood ==
  ASSUME NEW X, NEW S, Good(X, S), Upward(X.io)
  PROVE  LET Y == Armed(X) IN
         /\ Good(Y, S) /\ Clock(Y.io) /\ Serves(X, Y) /\ Y.io.Flags = X.io.Flags
<1> DEFINE x == X.io
           q == x.MDelayList
           l == x.left[Head(q)]
           c == IF q = <<>> THEN Off ELSE IF l < Second THEN l ELSE Second
           Y == Armed(X)
<1>1. X \in Pair /\ q \in Seq(IOReq) /\ x.left \in [IOReq -> 0..MaxTime]
  BY PairFields DEF Good
<1>2. q # <<>> => l \in 0..MaxTime
  BY <1>1, HeadTailProperties
<1>3. /\ c \in (0..MaxTime) \cup {Off}
      /\ q # <<>> => c # Off /\ c <= l
  <2>1. CASE q = <<>>
    BY <2>1
  <2>2. CASE q # <<>>
    <3>1. Second \in 0..MaxTime /\ l \in 0..MaxTime /\ Off \notin 0..MaxTime
      BY <1>2, <2>2, SecondAssumption, IOAssumption
    <3> HIDE DEF l
    <3>2. c = (IF l < Second THEN l ELSE Second)
      BY <2>2
    <3>3. c \in 0..MaxTime /\ c <= l
      <4> HIDE DEF c
      <4>1. l < Second => c = l
        BY <3>2
      <4>2. ~(l < Second) => c = Second
        BY <3>2
      <4> QED
        BY <3>1, <4>1, <4>2, IOAssumption
    <3> HIDE DEF c
    <3> QED
      BY <3>1, <3>3
  <2> QED
    BY <2>1, <2>2
<1>4. Y = [X EXCEPT !.io = [x EXCEPT !.count = c]]
  BY DEF Armed
<1> HIDE DEF c, l, Y
<1>5. [x EXCEPT !.count = c] \in IOState
  BY <1>1, <1>3, PairFields, ZenonT(60) DEF IOState
<1>6. Y \in Pair /\ Y.k = X.k /\ Y.io = [x EXCEPT !.count = c]
  BY <1>1, <1>4, <1>5 DEF Pair
<1>7. /\ Y.io.Flags = x.Flags /\ Y.io.SigItem = x.SigItem /\ Y.io.Posted = x.Posted
      /\ Y.io.made = x.made /\ Y.io.left = x.left /\ Y.io.count = c
      /\ Y.io.DelayList = x.DelayList /\ Y.io.MDelayList = x.MDelayList
      /\ Y.io.RequestsToDo = x.RequestsToDo /\ Y.io.RequestRunning = x.RequestRunning
  BY <1>1, <1>6, PairFields DEF IOState
<1>8. Serves(X, Y)
  BY <1>1, <1>6, <1>7, ServesSelf DEF Good
<1>9. Lists(Y.io) /\ InProgress(Y.io, S) /\ Based(Y.io)
  BY <1>7 DEF Good, Lists, InProgress, Busy, Clocked, Driven, Based
<1>10. Good(Y, S)
  BY <1>6, <1>8, <1>9, GoodOn
<1>11. Clock(Y.io)
  BY <1>3, <1>7 DEF Clock, Upward, Set, l
<1> QED
  BY <1>7, <1>8, <1>10, <1>11 DEF Y

\* The requests that have expired, each is done or starts again.
LEMMA ReprocessGood ==
  ASSUME NEW X, Good(X, IOReq), Upward(X.io)
  PROVE  LET Y == reprocess(X) IN
         /\ Good(Y, IOReq) /\ Clock(Y.io) /\ Serves(X, Y)
         /\ \A j \in IOReq : X.io.left[j] # 0 => Y.io.Flags[j] = X.io.Flags[j]
<1> DEFINE late == Late(X)
           W == ExpireAll(X, late)
           Y == reprocess(X)
<1>1. X \in Pair /\ X.io.MDelayList \in Seq(IOReq) /\ IsInjective(X.io.MDelayList)
  BY PairFields DEF Good, Lists
<1>2. /\ late \in Seq(IOReq) /\ IsInjective(late)
      /\ ToSet(late) = ToSet(X.io.MDelayList) \ {j \in IOReq : X.io.left[j] # 0}
  BY <1>1, RemoveNodesSet DEF Late
<1> HIDE DEF late
<1>3. /\ Good(W, IOReq) /\ Upward(W.io) /\ Serves(X, W)
      /\ \A j \in IOReq \ ToSet(late) : W.io.Flags[j] = X.io.Flags[j]
  BY <1>2, ExpireAllGood
<1>4. Y = Armed(W)
  BY DEF reprocess, late
<1> HIDE DEF W, Y
<1>5. Good(Y, IOReq) /\ Clock(Y.io) /\ Serves(W, Y) /\ Y.io.Flags = W.io.Flags
  BY <1>3, <1>4, ArmedGood
<1>6. Serves(X, Y)
  BY <1>1, <1>3, <1>5, ServesOn DEF Good
<1>7. \A j \in IOReq : X.io.left[j] # 0 => Y.io.Flags[j] = X.io.Flags[j]
  BY <1>2, <1>3, <1>5
<1> QED
  BY <1>5, <1>6, <1>7 DEF Y

\* All but the flags stays.
SameRequests(x, y) ==
  SameDevices(x, y) /\ y.SigItem = x.SigItem /\ y.Posted = x.Posted /\ y.made = x.made

LEMMA FlagsPair ==
  ASSUME NEW X \in Pair, NEW F \in [IOReq -> SUBSET IOFlag]
  PROVE  LET Y == [X EXCEPT !.io = [X.io EXCEPT !.Flags = F]] IN
         /\ Y \in Pair /\ Y.k = X.k /\ SameRequests(X.io, Y.io) /\ Y.io.Flags = F
<1> DEFINE z == [X.io EXCEPT !.Flags = F]
           Y == [X EXCEPT !.io = z]
<1>1. z \in IOState
  BY PairFields, ZenonT(60) DEF IOState
<1>2. Y \in Pair /\ Y.k = X.k /\ Y.io = z
  BY <1>1 DEF Pair
<1>3. z.Flags = F /\ SameRequests(X.io, z)
  BY PairFields DEF IOState, SameRequests, SameDevices
<1> QED
  BY <1>2, <1>3

LEMMA ClearedPair ==
  ASSUME NEW X \in Pair, NEW i \in IOReq, NEW f
  PROVE  LET Y == Cleared(X, i, f) IN
         /\ Y \in Pair /\ Y.k = X.k /\ SameRequests(X.io, Y.io)
         /\ Y.io.Flags[i] = X.io.Flags[i] \ f
         /\ \A j \in IOReq \ {i} : Y.io.Flags[j] = X.io.Flags[j]
<1> DEFINE Y == Cleared(X, i, f)
           g == X.io.Flags[i] \ f
           F == [X.io.Flags EXCEPT ![i] = g]
<1>1. g \in SUBSET IOFlag /\ X.io.Flags \in [IOReq -> SUBSET IOFlag]
  BY PairFields
<1>2. Y = [X EXCEPT !.io = [X.io EXCEPT !.Flags = F]]
  BY DEF Cleared
<1> HIDE DEF Y, g
<1>3. /\ F \in [IOReq -> SUBSET IOFlag] /\ F[i] = g
      /\ \A j \in IOReq \ {i} : F[j] = X.io.Flags[j]
  BY <1>1
<1> HIDE DEF F
<1>4. /\ Y \in Pair /\ Y.k = X.k /\ SameRequests(X.io, Y.io) /\ Y.io.Flags = F
  BY <1>2, <1>3, FlagsPair
<1> QED
  BY <1>3, <1>4 DEF Y, g

LEMMA MarkedPair ==
  ASSUME NEW X \in Pair, NEW i \in IOReq, NEW f \in SUBSET IOFlag
  PROVE  LET Y == Marked(X, i, f) IN
         /\ Y \in Pair /\ Y.k = X.k /\ SameRequests(X.io, Y.io)
         /\ Y.io.Flags[i] = X.io.Flags[i] \cup f
         /\ \A j \in IOReq \ {i} : Y.io.Flags[j] = X.io.Flags[j]
<1> DEFINE Y == Marked(X, i, f)
           g == X.io.Flags[i] \cup f
           F == [X.io.Flags EXCEPT ![i] = g]
<1>1. g \in SUBSET IOFlag /\ X.io.Flags \in [IOReq -> SUBSET IOFlag]
  BY PairFields
<1>2. Y = [X EXCEPT !.io = [X.io EXCEPT !.Flags = F]]
  BY DEF Marked
<1> HIDE DEF Y, g
<1>3. /\ F \in [IOReq -> SUBSET IOFlag] /\ F[i] = g
      /\ \A j \in IOReq \ {i} : F[j] = X.io.Flags[j]
  BY <1>1
<1> HIDE DEF F
<1>4. /\ Y \in Pair /\ Y.k = X.k /\ SameRequests(X.io, Y.io) /\ Y.io.Flags = F
  BY <1>2, <1>3, FlagsPair
<1> QED
  BY <1>3, <1>4 DEF Y, g

\* Flags that nobody is told of change.
LEMMA FlagsGood ==
  ASSUME NEW X, NEW S \in SUBSET IOReq, NEW Y \in Pair, Good(X, S), Y.k = X.k,
         SameRequests(X.io, Y.io),
         \A j \in IOReq : /\ "DONE" \in Y.io.Flags[j] <=> "DONE" \in X.io.Flags[j]
                          /\ "WAITING" \in Y.io.Flags[j] <=> "WAITING" \in X.io.Flags[j]
                          /\ "QUICK" \in Y.io.Flags[j] => "QUICK" \in X.io.Flags[j]
  PROVE  /\ Good(Y, S) /\ Serves(X, Y) /\ Busy(Y.io) = Busy(X.io)
         /\ (Upward(X.io) => Upward(Y.io)) /\ (Clock(X.io) => Clock(Y.io))
<1>1. Grows(X.k, Y.k)
  BY GrowsSelf DEF Good
<1>2. Serves(X, Y)
  BY <1>1 DEF Serves, OneShots, Honest, Tells, TellsAborter, SameRequests
<1>3. Lists(Y.io) /\ InProgress(Y.io, S) /\ Based(Y.io) /\ Busy(Y.io) = Busy(X.io)
  BY DEF Good, SameRequests, SameDevices, Lists, InProgress, Busy, Clocked, Driven, Based
<1>4. Good(Y, S)
  BY <1>2, <1>3, GoodOn
<1> QED
  BY <1>2, <1>3, <1>4 DEF SameRequests, SameDevices, Upward, Clock, Set

\* A driver keeps a request: it is not quick any more.
LEMMA KeepGood ==
  ASSUME NEW X, NEW i \in IOReq, Good(X, IOReq)
  PROVE  LET Y == Cleared(X, i, {"QUICK"}) IN
         /\ Good(Y, IOReq) /\ Serves(X, Y) /\ "QUICK" \notin Y.io.Flags[i]
         /\ "DONE" \in Y.io.Flags[i] <=> "DONE" \in X.io.Flags[i]
         /\ Clock(X.io) => Clock(Y.io)
<1> DEFINE Y == Cleared(X, i, {"QUICK"})
<1>1. X \in Pair
  BY DEF Good
<1>2. /\ Y \in Pair /\ Y.k = X.k /\ SameRequests(X.io, Y.io)
      /\ Y.io.Flags[i] = X.io.Flags[i] \ {"QUICK"}
      /\ \A j \in IOReq \ {i} : Y.io.Flags[j] = X.io.Flags[j]
  BY <1>1, ClearedPair
<1> HIDE DEF Y
<1>3. \A j \in IOReq : /\ "DONE" \in Y.io.Flags[j] <=> "DONE" \in X.io.Flags[j]
                       /\ "WAITING" \in Y.io.Flags[j] <=> "WAITING" \in X.io.Flags[j]
                       /\ "QUICK" \in Y.io.Flags[j] => "QUICK" \in X.io.Flags[j]
  <2> TAKE j \in IOReq
  <2>1. CASE j = i
    BY <1>2, <2>1
  <2>2. CASE j # i
    BY <1>2, <2>2
  <2> QED
    BY <2>1, <2>2
<1>4. Good(Y, IOReq) /\ Serves(X, Y) /\ (Clock(X.io) => Clock(Y.io))
  BY <1>2, <1>3, FlagsGood
<1> QED
  BY <1>2, <1>3, <1>4 DEF Y

-----------------------------------------------------------------------------
(* Starting a request of the timer *)

\* A request that is started, before its driver has it.
Fresh(X, i) ==
  /\ Good(X, IOReq \ {i}) /\ Clock(X.io)
  /\ i \notin Busy(X.io) /\ "DONE" \notin X.io.Flags[i]

LEMMA DelayGood ==
  ASSUME NEW X, NEW i \in IOReq, Fresh(X, i), Device[i] = "timer",
         NEW unit, NEW n \in 0..MaxTime
  PROVE  LET Y == CmdDelay(X, i, unit, n) IN
         /\ Good(Y, IOReq) /\ Clock(Y.io) /\ Serves(X, Y) /\ "QUICK" \notin Y.io.Flags[i]
         /\ unit = "VBLANK" \/ n # 0 => "DONE" \notin Y.io.Flags[i]
<1> DEFINE set   == [X EXCEPT !.io.left[i] = n, !.io.period[i] = n]
           z     == [X.io EXCEPT !.left[i] = n, !.period[i] = n]
           timed == [set EXCEPT !.io = InsertMDelay(@, i)]
           blank == [set EXCEPT !.io = InsertDelay(@, i)]
           run   == reprocess(timed)
           Y     == CmdDelay(X, i, unit, n)
<1>1. X \in Pair /\ i \notin ToSet(X.io.MDelayList)
  BY DEF Good, Fresh, Busy, Clocked
<1>2. z \in IOState /\ Retargets(X.io, z, i)
  <2>1. z \in IOState
    BY <1>1, PairFields, ZenonT(60) DEF IOState
  <2> QED
    BY <1>1, <2>1, PairFields DEF IOState, Retargets
<1>3. set \in Pair /\ set.k = X.k /\ set.io = z
  <2>1. set = [X EXCEPT !.io = z]
    BY <1>1 DEF Pair
  <2> HIDE DEF z, set
  <2> QED
    BY <1>1, <1>2, <2>1 DEF Pair
<1>4. Y = (IF unit = "VBLANK" THEN Cleared(blank, i, {"QUICK"})
           ELSE IF Head(timed.io.MDelayList) = i THEN Cleared(run, i, {"QUICK"})
           ELSE Cleared(timed, i, {"QUICK"}))
  BY DEF CmdDelay
<1> HIDE DEF z, set, Y
<1>5. /\ Good(set, IOReq \ {i}) /\ Serves(X, set) /\ Clock(set.io)
      /\ i \notin Busy(set.io) /\ "DONE" \notin set.io.Flags[i]
  <2>1. /\ Good(set, IOReq \ {i}) /\ Serves(X, set)
        /\ (Clock(X.io) => Clock(set.io)) /\ Busy(set.io) = Busy(X.io)
    BY <1>1, <1>2, <1>3, LeftGood DEF Fresh
  <2> QED
    BY <1>2, <1>3, <2>1 DEF Fresh, Retargets
<1>6. ASSUME NEW W, Good(W, IOReq), Clock(W.io), Serves(set, W)
      PROVE  LET V == Cleared(W, i, {"QUICK"}) IN
             /\ Good(V, IOReq) /\ Clock(V.io) /\ Serves(X, V)
             /\ "QUICK" \notin V.io.Flags[i]
             /\ "DONE" \in V.io.Flags[i] <=> "DONE" \in W.io.Flags[i]
  <2> DEFINE V == Cleared(W, i, {"QUICK"})
  <2>1. /\ Good(V, IOReq) /\ Serves(W, V) /\ "QUICK" \notin V.io.Flags[i]
        /\ "DONE" \in V.io.Flags[i] <=> "DONE" \in W.io.Flags[i]
        /\ Clock(W.io) => Clock(V.io)
    BY <1>6, KeepGood
  <2> HIDE DEF V
  <2>2. Serves(X, W)
    BY <1>1, <1>3, <1>5, <1>6, ServesOn DEF Good
  <2>3. Serves(X, V)
    BY <1>1, <1>6, <2>1, <2>2, ServesOn DEF Good
  <2> QED
    BY <1>6, <2>1, <2>3 DEF V
<1>9. set.io.left[i] = n
  BY <1>1, <1>3, PairFields DEF z, Good
<1>7. CASE unit = "VBLANK"
  <2>1. /\ Good(blank, IOReq) /\ Serves(set, blank) /\ (Clock(set.io) => Clock(blank.io))
        /\ blank.io.Flags = set.io.Flags
    BY <1>5, InsertDGood
  <2> HIDE DEF blank
  <2> QED
    BY <1>4, <1>5, <1>6, <1>7, <2>1 DEF Y
<1>8. CASE unit # "VBLANK"
  <2>1. /\ Good(timed, IOReq) /\ Upward(timed.io) /\ Serves(set, timed)
        /\ timed.io.Flags = set.io.Flags /\ timed.io.left = set.io.left
        /\ timed.io.count = set.io.count
        /\ \/ Head(timed.io.MDelayList) = i
           \/ /\ set.io.MDelayList # <<>>
              /\ Head(timed.io.MDelayList) = Head(set.io.MDelayList)
    BY <1>5, InsertMGood DEF Clock
  <2> HIDE DEF timed
  <2>2. CASE Head(timed.io.MDelayList) = i
    <3>1. /\ Good(run, IOReq) /\ Clock(run.io) /\ Serves(timed, run)
          /\ \A j \in IOReq : timed.io.left[j] # 0 => run.io.Flags[j] = timed.io.Flags[j]
      BY <2>1, ReprocessGood
    <3> HIDE DEF run
    <3>3. n # 0 => "DONE" \notin run.io.Flags[i]
      BY <1>5, <1>9, <2>1, <3>1
    <3>2. Serves(set, run)
      BY <1>3, <2>1, <3>1, ServesOn DEF Good
    <3> QED
      BY <1>4, <1>6, <1>8, <2>2, <3>1, <3>2, <3>3 DEF Y
  <2>3. CASE Head(timed.io.MDelayList) # i
    <3>1. Clock(timed.io)
      BY <1>5, <2>1, <2>3 DEF Clock, Set
    <3> QED
      BY <1>4, <1>5, <1>6, <1>8, <2>1, <2>3, <3>1 DEF Y
  <2> QED
    BY <2>2, <2>3
<1> QED
  BY <1>7, <1>8

LEMMA MetronomeGood ==
  ASSUME NEW X, NEW i \in IOReq, Fresh(X, i), Device[i] = "timer",
         NEW unit, NEW n \in 0..MaxTime
  PROVE  LET Y == CmdMetronome(X, i, unit, n) IN
         /\ Good(Y, IOReq) /\ Clock(Y.io) /\ Serves(X, Y) /\ "QUICK" \notin Y.io.Flags[i]
         /\ unit = "VBLANK" \/ n # 0 => "DONE" \notin Y.io.Flags[i]
<1> DEFINE Z == Marked(X, i, {"METRONOME"})
           Y == CmdMetronome(X, i, unit, n)
<1>1. X \in Pair /\ {"METRONOME"} \in SUBSET IOFlag
  BY DEF Good, Fresh, IOFlag
<1>2. /\ Z \in Pair /\ Z.k = X.k /\ SameRequests(X.io, Z.io)
      /\ Z.io.Flags[i] = X.io.Flags[i] \cup {"METRONOME"}
      /\ \A j \in IOReq \ {i} : Z.io.Flags[j] = X.io.Flags[j]
  BY <1>1, MarkedPair
<1>3. Y = CmdDelay(Z, i, unit, n)
  BY DEF CmdMetronome
<1> HIDE DEF Z, Y
<1>4. \A j \in IOReq : /\ "DONE" \in Z.io.Flags[j] <=> "DONE" \in X.io.Flags[j]
                       /\ "WAITING" \in Z.io.Flags[j] <=> "WAITING" \in X.io.Flags[j]
                       /\ "QUICK" \in Z.io.Flags[j] => "QUICK" \in X.io.Flags[j]
  <2> TAKE j \in IOReq
  <2>1. CASE j = i
    BY <1>2, <2>1
  <2>2. CASE j # i
    BY <1>2, <2>2
  <2> QED
    BY <2>1, <2>2
<1>5. /\ Good(Z, IOReq \ {i}) /\ Serves(X, Z) /\ Busy(Z.io) = Busy(X.io)
      /\ (Clock(X.io) => Clock(Z.io))
  BY <1>2, <1>4, FlagsGood DEF Fresh
<1>6. Fresh(Z, i)
  BY <1>4, <1>5 DEF Fresh
<1>7. /\ Good(Y, IOReq) /\ Clock(Y.io) /\ Serves(Z, Y) /\ "QUICK" \notin Y.io.Flags[i]
      /\ unit = "VBLANK" \/ n # 0 => "DONE" \notin Y.io.Flags[i]
  BY <1>3, <1>6, DelayGood
<1>8. Serves(X, Y)
  BY <1>1, <1>2, <1>5, <1>7, ServesOn DEF Good
<1> QED
  BY <1>7, <1>8 DEF Y

-----------------------------------------------------------------------------
(* The vertical blank *)

LEMMA BlankedGood ==
  ASSUME NEW X, NEW i \in IOReq, Good(X, IOReq), Clock(X.io), Device[i] = "timer",
         i \notin ToSet(X.io.MDelayList)
  PROVE  LET Y == Blanked(X, i) IN
         /\ Good(Y, IOReq) /\ Clock(Y.io) /\ Serves(X, Y)
         /\ ToSet(Y.io.MDelayList) \subseteq ToSet(X.io.MDelayList)
<1> DEFINE Y == Blanked(X, i)
           P == Pinged(X, i)
           A == TimerAbortIO(X, i)
           L == [X EXCEPT !.io.left[i] = @ - 1]
<1>1. CASE X.io.left[i] > 1
  <2> DEFINE z == [X.io EXCEPT !.left[i] = @ - 1]
  <2>1. X \in Pair /\ X.io.left \in [IOReq -> 0..MaxTime] /\ X.io.left[i] - 1 \in 0..MaxTime
    <3>1. X \in Pair /\ X.io.left \in [IOReq -> 0..MaxTime] /\ X.io.left[i] \in 0..MaxTime
      BY PairFields DEF Good
    <3> QED
      BY <1>1, <3>1, IOAssumption
  <2>2. z \in IOState /\ Retargets(X.io, z, i)
    <3>1. z \in IOState
      BY <2>1, PairFields, ZenonT(60) DEF IOState
    <3> QED
      BY <2>1, <3>1, PairFields DEF IOState, Retargets
  <2>3. L \in Pair /\ L.k = X.k /\ L.io = z
    <3>1. L = [X EXCEPT !.io = z]
      OBVIOUS
    <3> HIDE DEF z, L
    <3> QED
      BY <2>1, <2>2, <3>1 DEF Pair
  <2>4. Y = L
    BY <1>1 DEF Blanked
  <2> HIDE DEF z, L, Y
  <2>5. Good(L, IOReq) /\ Serves(X, L) /\ Clock(L.io)
    BY <2>2, <2>3, LeftGood
  <2> QED
    BY <2>2, <2>3, <2>4, <2>5 DEF Y, Retargets
<1>2. CASE ~(X.io.left[i] > 1) /\ (~Has(X, i, "METRONOME") \/ ~CanPing(X, i))
  <2>1. Y = A
    BY <1>2 DEF Blanked, TimerAbortIO
  <2> HIDE DEF Y
  <2>2. /\ Good(A, IOReq) /\ Serves(X, A) /\ (Clock(X.io) => Clock(A.io))
        /\ ToSet(A.io.MDelayList) = ToSet(X.io.MDelayList) \ {i}
    BY TimerAbortGood
  <2> HIDE DEF A
  <2> QED
    BY <2>1, <2>2 DEF Y
<1>3. CASE ~(X.io.left[i] > 1) /\ ~(~Has(X, i, "METRONOME") \/ ~CanPing(X, i))
  <2>1. Y = P
    BY <1>3 DEF Blanked, Pinged
  <2> HIDE DEF Y
  <2>2. /\ Good(P, IOReq) /\ Serves(X, P) /\ (Clock(X.io) => Clock(P.io))
        /\ P.io.MDelayList = X.io.MDelayList
    BY <1>3, PingedGood
  <2> HIDE DEF P
  <2> QED
    BY <2>1, <2>2 DEF Y
<1> QED
  BY <1>1, <1>2, <1>3

\* The states that the loop over the requests of q goes through.
BlankStep(g, X, q, n) == IF n = 0 THEN X ELSE Blanked(g[n - 1], q[n])

BlankLoop(g, X, q, m) == g = [n \in 0..m |-> BlankStep(g, X, q, n)]

LEMMA BlankLoopExists ==
  ASSUME NEW X, X.io.DelayList \in Seq(IOReq)
  PROVE  LET q == X.io.DelayList IN
         \E g : BlankLoop(g, X, q, Len(q)) /\ ctimerInt(X) = g[Len(q)]
<1> DEFINE q == X.io.DelayList
           N == {n \in Nat : \E g : BlankLoop(g, X, q, n)}
           F == CHOOSE g : BlankLoop(g, X, q, Len(q))
<1>1. 0 \in N
  <2>1. BlankLoop([n \in 0..0 |-> X], X, q, 0)
    BY DEF BlankLoop, BlankStep
  <2> QED
    BY <2>1
<1>2. ASSUME NEW n \in N PROVE n + 1 \in N
  <2>1. PICK g : BlankLoop(g, X, q, n)
    OBVIOUS
  <2> DEFINE h == [m \in 0..(n + 1) |-> BlankStep(g, X, q, m)]
  <2>2. \A m \in 0..n : h[m] = g[m]
    BY <2>1 DEF BlankLoop
  <2>3. \A m \in 0..(n + 1) : m # 0 => m - 1 \in 0..n
    OBVIOUS
  <2>4. \A m \in 0..(n + 1) : BlankStep(h, X, q, m) = BlankStep(g, X, q, m)
    <3> HIDE DEF h, N, F
    <3>1. \A m \in 0..(n + 1) : m # 0 => h[m - 1] = g[m - 1]
      BY <2>2, <2>3
    <3> QED
      BY <3>1 DEF BlankStep
  <2>5. BlankLoop(h, X, q, n + 1)
    BY <2>4 DEF BlankLoop
  <2> HIDE DEF h
  <2> QED
    BY <2>5
<1>3. Len(q) \in N
  <2> HIDE DEF N
  <2>1. N \in SUBSET Nat
    BY DEF N
  <2> QED
    BY <1>1, <1>2, <2>1, SetInduction, LenProperties
<1>4. BlankLoop(F, X, q, Len(q))
  BY <1>3
<1>5. ctimerInt(X) = F[Len(q)]
  BY Zenon DEF ctimerInt, BlankLoop, BlankStep
<1> QED
  BY <1>4, <1>5

\* The loop of ctimerInt.
LEMMA BlankGood ==
  ASSUME NEW X, Good(X, IOReq), Clock(X.io)
  PROVE  LET Y == ctimerInt(X) IN Good(Y, IOReq) /\ Clock(Y.io) /\ Serves(X, Y)
<1> DEFINE q == X.io.DelayList
<1>0. X \in Pair /\ q \in Seq(IOReq)
  BY PairFields DEF Good
<1>1. PICK g : BlankLoop(g, X, q, Len(q)) /\ ctimerInt(X) = g[Len(q)]
  BY <1>0, BlankLoopExists
<1>2. /\ Len(q) \in Nat
      /\ \A n \in 1..Len(q) : /\ q[n] \in IOReq /\ Device[q[n]] = "timer"
                              /\ q[n] \notin ToSet(X.io.MDelayList)
  <2>1. Len(q) \in Nat /\ DOMAIN q = 1..Len(q) /\ ToSet(q) = {q[n] : n \in 1..Len(q)}
    BY <1>0, LenProperties DEF ToSet
  <2>2. \A n \in 1..Len(q) : q[n] \in IOReq
    BY <1>0, ElementOfSeq
  <2>3. \A n \in 1..Len(q) : q[n] \in ToSet(q)
    BY <2>1
  <2> QED
    BY <2>1, <2>2, <2>3 DEF Good, Lists, Clocked
<1>3. /\ g[0] = X
      /\ \A n \in 1..Len(q) : g[n] = Blanked(g[n - 1], q[n])
  <2>1. 0 \in 0..Len(q) /\ \A n \in 1..Len(q) : n \in 0..Len(q) /\ n # 0
    BY <1>2
  <2>2. \A n \in 0..Len(q) : g[n] = BlankStep(g, X, q, n)
    BY <1>1 DEF BlankLoop
  <2> QED
    BY <2>1, <2>2 DEF BlankStep
<1> DEFINE Fine(n) == /\ Good(g[n], IOReq) /\ Clock(g[n].io) /\ Serves(X, g[n])
                      /\ ToSet(g[n].io.MDelayList) \subseteq ToSet(X.io.MDelayList)
           N == {n \in Nat : n <= Len(q) => Fine(n)}
<1> HIDE DEF q
<1>4. 0 \in N
  <2>1. Serves(X, X)
    BY ServesSelf DEF Good
  <2> QED
    BY <1>3, <2>1
<1>5. ASSUME NEW n \in N PROVE n + 1 \in N
  <2>1. SUFFICES ASSUME n + 1 <= Len(q) PROVE Fine(n + 1)
    OBVIOUS
  <2> DEFINE i == q[n + 1]
             J == g[n]
             R == Blanked(J, i)
  <2>2. /\ n \in Nat /\ n + 1 \in 1..Len(q) /\ (n + 1) - 1 = n
        /\ Good(J, IOReq) /\ Clock(J.io) /\ Serves(X, J)
        /\ ToSet(J.io.MDelayList) \subseteq ToSet(X.io.MDelayList)
    BY <1>2, <2>1
  <2>3. g[n + 1] = R
    BY <1>3, <2>2
  <2>4. i \in IOReq /\ Device[i] = "timer" /\ i \notin ToSet(J.io.MDelayList)
    BY <1>2, <2>2
  <2> HIDE DEF i, J, N, Fine
  <2>5. /\ Good(R, IOReq) /\ Clock(R.io) /\ Serves(J, R)
        /\ ToSet(R.io.MDelayList) \subseteq ToSet(J.io.MDelayList)
    BY <2>2, <2>4, BlankedGood
  <2> HIDE DEF R
  <2>6. Serves(X, R)
    BY <1>0, <2>2, <2>5, ServesOn DEF Good
  <2> QED
    BY <2>2, <2>3, <2>5, <2>6 DEF Fine
<1>6. Len(q) \in N
  <2> HIDE DEF N
  <2>1. N \in SUBSET Nat
    BY DEF N
  <2> QED
    BY <1>2, <1>4, <1>5, <2>1, SetInduction
<1> QED
  BY <1>1, <1>2, <1>6

-----------------------------------------------------------------------------
(* The CD-ROM driver *)

\* The driver's queue and its running request change.
Requeues(x, y) ==
  /\ y.Flags = x.Flags /\ y.SigItem = x.SigItem /\ y.Posted = x.Posted
  /\ y.made = x.made /\ y.left = x.left /\ y.period = x.period /\ y.count = x.count
  /\ y.DelayList = x.DelayList /\ y.MDelayList = x.MDelayList

LEMMA RequeueGood ==
  ASSUME NEW X, NEW T, NEW S, Good(X, T), NEW Y \in Pair, Y.k = X.k, Requeues(X.io, Y.io),
         IsInjective(Y.io.RequestsToDo), Y.io.RequestRunning \notin ToSet(Y.io.RequestsToDo),
         \A j \in Driven(Y.io) : Device[j] = "cdrom",
         \A j \in S : "DONE" \notin X.io.Flags[j] <=> j \in Clocked(X.io) \cup Driven(Y.io)
  PROVE  /\ Good(Y, S) /\ Serves(X, Y) /\ (Clock(X.io) => Clock(Y.io))
         /\ Busy(Y.io) = Clocked(X.io) \cup Driven(Y.io)
<1>1. X \in Pair
  BY DEF Good
<1>5. Serves(X, Y)
  BY <1>1, ServesSelf DEF Good, Requeues
<1>6. Clocked(Y.io) = Clocked(X.io) /\ Busy(Y.io) = Clocked(X.io) \cup Driven(Y.io)
  BY DEF Clocked, Busy, Requeues
<1>7. Lists(Y.io)
  BY <1>6 DEF Good, Lists, Requeues
<1>8. InProgress(Y.io, S) /\ Based(Y.io)
  BY <1>6 DEF Good, InProgress, Based, Requeues
<1>9. Good(Y, S)
  BY <1>5, <1>7, <1>8, GoodOn
<1>10. Clock(X.io) => Clock(Y.io)
  BY DEF Clock, Upward, Set, Requeues
<1> QED
  BY <1>5, <1>6, <1>9, <1>10

LEMMA RequeuePair ==
  ASSUME NEW X \in Pair, NEW d \in Seq(IOReq)
  PROVE  LET Y == [X EXCEPT !.io.RequestsToDo = d] IN
         /\ Y \in Pair /\ Y.k = X.k /\ Requeues(X.io, Y.io)
         /\ Y.io.RequestsToDo = d /\ Y.io.RequestRunning = X.io.RequestRunning
<1> DEFINE z == [X.io EXCEPT !.RequestsToDo = d]
           Y == [X EXCEPT !.io.RequestsToDo = d]
<1>1. z \in IOState
  BY PairFields, ZenonT(60) DEF IOState
<1>2. Y = [X EXCEPT !.io = z]
  OBVIOUS
<1>3. Requeues(X.io, z) /\ z.RequestsToDo = d /\ z.RequestRunning = X.io.RequestRunning
  BY PairFields DEF IOState, Requeues
<1> HIDE DEF z, Y
<1>4. Y \in Pair /\ Y.k = X.k /\ Y.io = z
  BY <1>1, <1>2 DEF Pair
<1> QED
  BY <1>3, <1>4 DEF Y

LEMMA RunningPair ==
  ASSUME NEW X \in Pair, NEW r \in IOReq \cup {NoIOReq}
  PROVE  LET Y == [X EXCEPT !.io.RequestRunning = r] IN
         /\ Y \in Pair /\ Y.k = X.k /\ Requeues(X.io, Y.io)
         /\ Y.io.RequestsToDo = X.io.RequestsToDo /\ Y.io.RequestRunning = r
<1> DEFINE z == [X.io EXCEPT !.RequestRunning = r]
           Y == [X EXCEPT !.io.RequestRunning = r]
<1>1. z \in IOState
  BY PairFields, ZenonT(60) DEF IOState
<1>2. Y = [X EXCEPT !.io = z]
  OBVIOUS
<1>3. Requeues(X.io, z) /\ z.RequestsToDo = X.io.RequestsToDo /\ z.RequestRunning = r
  BY PairFields DEF IOState, Requeues
<1> HIDE DEF z, Y
<1>4. Y \in Pair /\ Y.k = X.k /\ Y.io = z
  BY <1>1, <1>2 DEF Pair
<1> QED
  BY <1>3, <1>4 DEF Y

\* A request goes on the driver's queue.
LEMMA QueuedGood ==
  ASSUME NEW X, NEW i \in IOReq, Fresh(X, i), Device[i] = "cdrom"
  PROVE  LET Y == Queued(X, i) IN
         Good(Y, IOReq) /\ Clock(Y.io) /\ Serves(X, Y) /\ "DONE" \notin Y.io.Flags[i]
<1> DEFINE x == X.io
           q == x.RequestsToDo
           r == x.RequestRunning
           d == TailInsertNode(q, IOPri, i)
           Y == Queued(X, i)
<1>1. /\ X \in Pair /\ q \in Seq(IOReq) /\ r \in IOReq \cup {NoIOReq} /\ IsInjective(q)
      /\ Good(X, IOReq \ {i}) /\ Clock(x) /\ x \in IOState
      /\ i \notin ToSet(q) /\ i # r /\ i # NoIOReq /\ "DONE" \notin x.Flags[i]
  BY PairFields, IOAssumption DEF Good, Fresh, Lists, Busy, Driven
<1>2. PICK n \in 1..(Len(q) + 1) : d = InsertAt(q, n, i)
  <2>1. q \in Seq(IOReq) /\ IOPri \in [IOReq -> Nat]
    BY <1>1, IOAssumption
  <2>2. \E n \in 1..(Len(q) + 1) :
           /\ TailInsertNode(q, IOPri, i) = InsertAt(q, n, i)
           /\ \A j \in 1..Len(q) : IOPri[q[j]] >= IOPri[i] => j < n
           /\ n > 1 => IOPri[q[n - 1]] >= IOPri[i]
    BY ONLY <2>1, i \in IOReq, TailInsertPlace
  <2> QED
    BY <2>2
<1>3. d \in Seq(IOReq) /\ ToSet(d) = ToSet(q) \cup {i} /\ IsInjective(d)
  BY <1>1, <1>2, InsertAtSet, InsertAtLemma
<1>4. Y = [X EXCEPT !.io.RequestsToDo = d]
  BY DEF Queued
<1> HIDE DEF d, Y
<1>5. /\ Y \in Pair /\ Y.k = X.k /\ Requeues(x, Y.io)
      /\ Y.io.RequestsToDo = d /\ Y.io.RequestRunning = r
  BY <1>1, <1>3, <1>4, RequeuePair
<1>6. Driven(Y.io) = Driven(x) \cup {i}
  BY <1>3, <1>5 DEF Driven
<1>7. \A j \in IOReq : "DONE" \notin x.Flags[j] <=> j \in Clocked(x) \cup Driven(Y.io)
  BY <1>1, <1>6 DEF Good, InProgress, Busy
<1>8. /\ IsInjective(Y.io.RequestsToDo) /\ Y.io.RequestRunning \notin ToSet(Y.io.RequestsToDo)
      /\ \A j \in Driven(Y.io) : Device[j] = "cdrom"
  BY <1>1, <1>3, <1>5, <1>6 DEF Good, Lists
<1>9. /\ Good(Y, IOReq) /\ Serves(X, Y) /\ (Clock(X.io) => Clock(Y.io))
  BY <1>1, <1>5, <1>7, <1>8, RequeueGood
<1>10. "DONE" \notin Y.io.Flags[i]
  BY <1>6, <1>9 DEF Good, InProgress, Busy
<1> QED
  BY <1>1, <1>9, <1>10 DEF Y

\* A request that is not running is taken from the queue.
LEMMA UnqueuedList ==
  ASSUME NEW q \in Seq(IOReq), NEW i \in ToSet(q), IsInjective(q)
  PROVE  LET d == RemoveNode(q, i) IN
         d \in Seq(IOReq) /\ ToSet(d) = ToSet(q) \ {i} /\ IsInjective(d)
<1> DEFINE n == CHOOSE m \in DOMAIN q : q[m] = i
<1>1. n \in 1..Len(q) /\ q[n] = i
  BY LenProperties DEF ToSet
<1>2. RemoveNode(q, i) = RemoveAt(q, n)
  BY DEF RemoveNode
<1> HIDE DEF n
<1> QED
  BY <1>1, <1>2, RemoveAtSet, RemoveAtLemma

LEMMA UnqueuedGood ==
  ASSUME NEW X, NEW i \in IOReq, Good(X, IOReq), i \in ToSet(X.io.RequestsToDo)
  PROVE  LET Y == Unqueued(X, i) IN
         /\ Good(Y, IOReq \ {i}) /\ Serves(X, Y) /\ (Clock(X.io) => Clock(Y.io))
         /\ i \notin Busy(Y.io) /\ Y.k = X.k /\ Y.io.Flags = X.io.Flags
         /\ Y.io.RequestRunning = X.io.RequestRunning
<1> DEFINE x == X.io
           q == x.RequestsToDo
           r == x.RequestRunning
           d == RemoveNode(q, i)
           Y == Unqueued(X, i)
<1>1. /\ X \in Pair /\ q \in Seq(IOReq) /\ r \in IOReq \cup {NoIOReq} /\ IsInjective(q)
      /\ x \in IOState /\ i # r /\ Device[i] = "cdrom"
      /\ r \notin ToSet(q)
  BY PairFields DEF Good, Lists, Driven
<1>2. d \in Seq(IOReq) /\ ToSet(d) = ToSet(q) \ {i} /\ IsInjective(d)
  BY <1>1, UnqueuedList
<1>4. Y = [X EXCEPT !.io.RequestsToDo = d]
  BY DEF Unqueued
<1> HIDE DEF d, Y
<1>5. /\ Y \in Pair /\ Y.k = X.k /\ Requeues(x, Y.io)
      /\ Y.io.RequestsToDo = d /\ Y.io.RequestRunning = r
  BY <1>1, <1>2, <1>4, RequeuePair
<1>6. Driven(Y.io) = Driven(x) \ {i} /\ i \notin Clocked(x)
  BY <1>1, <1>2, <1>5 DEF Driven, Good, Lists
<1> DEFINE S == IOReq \ {i}
<1>7. \A j \in S : "DONE" \notin x.Flags[j] <=> j \in Clocked(x) \cup Driven(Y.io)
  BY <1>6 DEF Good, InProgress, Busy
<1>8. /\ IsInjective(Y.io.RequestsToDo) /\ Y.io.RequestRunning \notin ToSet(Y.io.RequestsToDo)
      /\ \A j \in Driven(Y.io) : Device[j] = "cdrom"
  BY <1>1, <1>2, <1>5, <1>6 DEF Good, Lists
<1> HIDE DEF S
<1>9. /\ Good(Y, S) /\ Serves(X, Y) /\ (Clock(X.io) => Clock(Y.io))
      /\ Busy(Y.io) = Clocked(X.io) \cup Driven(Y.io)
  BY <1>1, <1>5, <1>7, <1>8, RequeueGood
<1> QED
  BY <1>5, <1>6, <1>9 DEF Y, S, Requeues

\* A request that no driver has is completed by its driver.
LEMMA EndedGood ==
  ASSUME NEW X, NEW W, NEW i \in IOReq, X \in Pair, Serves(X, W), Good(W, IOReq \ {i}),
         i \notin Busy(W.io)
  PROVE  LET Y == internalCompleteIO(W, i) IN
         /\ Good(Y, IOReq) /\ Serves(X, Y) /\ (Clock(W.io) => Clock(Y.io))
         /\ Y.io.Flags[i] = W.io.Flags[i] \cup {"DONE"}
<1> DEFINE Y == internalCompleteIO(W, i)
<1>1. /\ Good(Y, IOReq) /\ Serves(W, Y) /\ SameDevices(W.io, Y.io)
      /\ Y.io.Flags[i] = W.io.Flags[i] \cup {"DONE"}
  BY CompleteGood, ZenonT(60)
<1> HIDE DEF Y
<1>2. Serves(X, Y)
  BY <1>1, ServesOn DEF Good
<1> QED
  BY <1>1, <1>2 DEF Y, SameDevices, Clock, Upward, Set

\* CDROM_Level2_Await_Request.
LEMMA AwaitGood ==
  ASSUME NEW X, Good(X, IOReq), Clock(X.io), CanStart(X)
  PROVE  LET Y == AwaitRequest(X) IN
         Good(Y, IOReq) /\ Clock(Y.io) /\ Serves(X, Y)
<1> DEFINE q == X.io.RequestsToDo
           i == Head(q)
           W == Unqueued(X, i)
           Y == AwaitRequest(X)
<1>1. X \in Pair /\ q \in Seq(IOReq) /\ q # <<>> /\ IsInjective(q)
  BY PairFields DEF Good, Lists, CanStart
<1>2. i \in IOReq /\ i \in ToSet(q)
  BY <1>1, TailSet
<1>3. Device[i] = "cdrom" /\ "DONE" \notin X.io.Flags[i]
  BY <1>2 DEF Good, Lists, InProgress, Driven, Busy
<1> HIDE DEF i
<1>4. /\ Good(W, IOReq \ {i}) /\ Serves(X, W) /\ (Clock(X.io) => Clock(W.io))
      /\ i \notin Busy(W.io) /\ W.k = X.k /\ W.io.Flags = X.io.Flags
      /\ W.io.RequestRunning = X.io.RequestRunning
  BY <1>2, UnqueuedGood
<1>5. Y = [W EXCEPT !.io.RequestRunning = i]
  BY DEF AwaitRequest, i
<1> HIDE DEF W, Y
<1>6. W \in Pair /\ W.io.RequestRunning = NoIOReq /\ i # NoIOReq
  BY <1>2, <1>4, IOAssumption DEF Good, CanStart
<1>7. /\ Y \in Pair /\ Y.k = W.k /\ Requeues(W.io, Y.io)
      /\ Y.io.RequestsToDo = W.io.RequestsToDo /\ Y.io.RequestRunning = i
  BY <1>2, <1>5, <1>6, RunningPair
<1>8. Driven(Y.io) = Driven(W.io) \cup {i}
  BY <1>6, <1>7 DEF Driven
<1>9. \A j \in IOReq : "DONE" \notin W.io.Flags[j] <=> j \in Clocked(W.io) \cup Driven(Y.io)
  BY <1>3, <1>4, <1>8 DEF Good, InProgress, Busy
<1>10. /\ IsInjective(Y.io.RequestsToDo) /\ Y.io.RequestRunning \notin ToSet(Y.io.RequestsToDo)
       /\ \A j \in Driven(Y.io) : Device[j] = "cdrom"
  BY <1>3, <1>4, <1>7, <1>8 DEF Good, Lists, Busy, Driven
<1>11. /\ Good(Y, IOReq) /\ Serves(W, Y) /\ (Clock(W.io) => Clock(Y.io))
  BY <1>4, <1>7, <1>9, <1>10, RequeueGood
<1>12. Serves(X, Y)
  BY <1>1, <1>4, <1>6, <1>7, <1>11, ServesOn
<1> QED
  BY <1>4, <1>11, <1>12 DEF Y

\* CDROM_Level2_Finish_Request.
LEMMA FinishGood ==
  ASSUME NEW X, Good(X, IOReq), Clock(X.io), X.io.RequestRunning # NoIOReq
  PROVE  LET Y == FinishRequest(X) IN
         Good(Y, IOReq) /\ Clock(Y.io) /\ Serves(X, Y)
<1> DEFINE i == X.io.RequestRunning
           W == [X EXCEPT !.io.RequestRunning = NoIOReq]
           Y == FinishRequest(X)
           S == IOReq \ {i}
<1>1. X \in Pair /\ i \in IOReq
  BY PairFields DEF Good
<1>2. Device[i] = "cdrom" /\ i \notin ToSet(X.io.RequestsToDo)
  BY <1>1, IOAssumption DEF Good, Lists, Driven
<1>3. /\ W \in Pair /\ W.k = X.k /\ Requeues(X.io, W.io)
      /\ W.io.RequestsToDo = X.io.RequestsToDo /\ W.io.RequestRunning = NoIOReq
  BY <1>1, RunningPair
<1>4. Y = internalCompleteIO(W, i)
  BY DEF FinishRequest
<1> HIDE DEF W, Y
<1>5. Driven(W.io) = Driven(X.io) \ {i} /\ i \notin Clocked(X.io)
  BY <1>1, <1>2, <1>3, IOAssumption DEF Driven, Good, Lists
<1>6. \A j \in S : "DONE" \notin X.io.Flags[j] <=> j \in Clocked(X.io) \cup Driven(W.io)
  BY <1>5 DEF Good, InProgress, Busy
<1>7. /\ IsInjective(W.io.RequestsToDo) /\ W.io.RequestRunning \notin ToSet(W.io.RequestsToDo)
      /\ \A j \in Driven(W.io) : Device[j] = "cdrom"
  <2>1. \A j \in ToSet(X.io.RequestsToDo) : j \in IOReq
    BY <1>1, PairFields, LenProperties, ElementOfSeq DEF ToSet
  <2> QED
    BY <1>3, <1>5, <2>1, IOAssumption DEF Good, Lists
<1> HIDE DEF S, i
<1>8. /\ Good(W, S) /\ Serves(X, W) /\ (Clock(X.io) => Clock(W.io))
      /\ Busy(W.io) = Clocked(X.io) \cup Driven(W.io)
  BY <1>3, <1>6, <1>7, RequeueGood
<1>9. i \notin Busy(W.io) /\ Good(W, IOReq \ {i})
  BY <1>5, <1>8 DEF S
<1>10. Good(Y, IOReq) /\ Serves(X, Y) /\ (Clock(W.io) => Clock(Y.io))
  BY <1>1, <1>4, <1>8, <1>9, EndedGood
<1> QED
  BY <1>8, <1>10 DEF Y

\* A request that is queued is completed, the one that is running goes on.
LEMMA DriveAbortGood ==
  ASSUME NEW X, NEW i \in IOReq, Good(X, IOReq), Clock(X.io), Device[i] = "cdrom",
         "DONE" \notin X.io.Flags[i]
  PROVE  LET Y == CDROMDriverAbortIo(X, i) IN
         Good(Y, IOReq) /\ Clock(Y.io) /\ Serves(X, Y)
<1> DEFINE W == Unqueued(X, i)
           Y == CDROMDriverAbortIo(X, i)
<1>1. CASE X.io.RequestRunning = i
  BY <1>1, ServesSelf DEF CDROMDriverAbortIo, Good
<1>2. CASE X.io.RequestRunning # i
  <2>1. i \in ToSet(X.io.RequestsToDo)
    BY <1>2 DEF Good, InProgress, Busy, Driven, Lists
  <2>2. /\ Good(W, IOReq \ {i}) /\ Serves(X, W) /\ (Clock(X.io) => Clock(W.io))
        /\ i \notin Busy(W.io)
    BY <2>1, UnqueuedGood
  <2>3. Y = internalCompleteIO(W, i)
    BY <1>2 DEF CDROMDriverAbortIo
  <2> HIDE DEF W, Y
  <2>4. Good(Y, IOReq) /\ Serves(X, Y) /\ (Clock(W.io) => Clock(Y.io))
    BY <2>2, <2>3, EndedGood DEF Good
  <2> QED
    BY <2>2, <2>4 DEF Y
<1> QED
  BY <1>1, <1>2

\* internalAbortIO.
LEMMA AbortGood ==
  ASSUME NEW X, NEW i \in IOReq, Good(X, IOReq), Clock(X.io)
  PROVE  LET Y == internalAbortIO(X, i) IN
         Good(Y, IOReq) /\ Clock(Y.io) /\ Serves(X, Y)
<1> DEFINE Y == internalAbortIO(X, i)
<1>1. CASE Has(X, i, "DONE")
  BY <1>1, ServesSelf DEF internalAbortIO, Good
<1>2. CASE ~Has(X, i, "DONE") /\ Device[i] = "timer"
  <2>1. Y = TimerAbortIO(X, i)
    BY <1>2 DEF internalAbortIO
  <2> HIDE DEF Y
  <2>2. LET V == TimerAbortIO(X, i) IN
        Good(V, IOReq) /\ Serves(X, V) /\ (Clock(X.io) => Clock(V.io))
    BY <1>2, TimerAbortGood
  <2> QED
    BY <2>1, <2>2 DEF Y
<1>3. CASE ~Has(X, i, "DONE") /\ Device[i] # "timer"
  <2>1. Y = CDROMDriverAbortIo(X, i)
    BY <1>3 DEF internalAbortIO
  <2>2. Device[i] = "cdrom" /\ "DONE" \notin X.io.Flags[i]
    BY <1>3, IOAssumption DEF Has
  <2> HIDE DEF Y
  <2>3. LET V == CDROMDriverAbortIo(X, i) IN
        Good(V, IOReq) /\ Clock(V.io) /\ Serves(X, V)
    BY <2>2, DriveAbortGood
  <2> QED
    BY <2>1, <2>3 DEF Y
<1> QED
  BY <1>1, <1>2, <1>3

-----------------------------------------------------------------------------
(* Starting a request *)

\* The flags of a request that is started.
Renewed(X, Y, i) ==
  /\ Y \in Pair /\ Y.k = X.k /\ SameRequests(X.io, Y.io)
  /\ Y.io.Flags[i] \ {"QUICK"} = X.io.Flags[i] \ {"DONE", "QUICK"}
  /\ \A j \in IOReq \ {i} : Y.io.Flags[j] = X.io.Flags[j]

Renew(X, i, quick) ==
  LET fresh == Cleared(X, i, {"DONE", "QUICK"}) IN
  IF quick THEN Marked(fresh, i, {"QUICK"}) ELSE fresh

LEMMA RenewFresh ==
  ASSUME NEW X, NEW i \in IOReq, Good(X, IOReq), Clock(X.io), "DONE" \in X.io.Flags[i],
         NEW quick
  PROVE  LET Y == Renew(X, i, quick) IN
         Renewed(X, Y, i) /\ Fresh(Y, i) /\ (~quick => "QUICK" \notin Y.io.Flags[i])
<1> DEFINE W == Cleared(X, i, {"DONE", "QUICK"})
           Y == Renew(X, i, quick)
<1>1. X \in Pair /\ i \notin Busy(X.io) /\ {"QUICK"} \in SUBSET IOFlag
  BY DEF Good, InProgress, IOFlag
<1>2. /\ W \in Pair /\ W.k = X.k /\ SameRequests(X.io, W.io)
      /\ W.io.Flags[i] = X.io.Flags[i] \ {"DONE", "QUICK"}
      /\ \A j \in IOReq \ {i} : W.io.Flags[j] = X.io.Flags[j]
  BY <1>1, ClearedPair
<1>3. Renewed(X, Y, i)
  <2>1. CASE ~quick
    <3>1. Y = W
      BY <2>1 DEF Renew
    <3> HIDE DEF W, Y
    <3> QED
      BY <1>2, <3>1 DEF Renewed
  <2>2. CASE quick
    <3> DEFINE V == Marked(W, i, {"QUICK"})
    <3>1. Y = V
      BY <2>2 DEF Renew
    <3> HIDE DEF W, Y
    <3>2. /\ V \in Pair /\ V.k = W.k /\ SameRequests(W.io, V.io)
          /\ V.io.Flags[i] = W.io.Flags[i] \cup {"QUICK"}
          /\ \A j \in IOReq \ {i} : V.io.Flags[j] = W.io.Flags[j]
      BY <1>1, <1>2, MarkedPair
    <3> HIDE DEF V
    <3>3. SameRequests(X.io, V.io)
      BY <1>2, <3>2 DEF SameRequests, SameDevices
    <3>4. V.io.Flags[i] \ {"QUICK"} = X.io.Flags[i] \ {"DONE", "QUICK"}
      BY <1>2, <3>2
    <3> QED
      BY <1>2, <3>1, <3>2, <3>3, <3>4 DEF Renewed
  <2> QED
    BY <2>1, <2>2
<1>8. ~quick => "QUICK" \notin Y.io.Flags[i]
  <2>1. ~quick => Y = W
    BY DEF Renew
  <2> HIDE DEF W, Y
  <2> QED
    BY <1>2, <2>1
<1> HIDE DEF W, Y
<1>4. "DONE" \notin Y.io.Flags[i]
  BY <1>3 DEF Renewed
<1>5. Lists(Y.io) /\ InProgress(Y.io, IOReq \ {i}) /\ Based(Y.io) /\ i \notin Busy(Y.io)
  BY <1>1, <1>3
     DEF Good, Renewed, SameRequests, SameDevices, Lists, InProgress, Busy, Clocked, Driven, Based
<1>6. Good(Y, IOReq \ {i})
  BY <1>3, <1>5 DEF Good, Renewed
<1>7. Clock(Y.io)
  BY <1>3 DEF Renewed, SameRequests, SameDevices, Clock, Upward, Set
<1> QED
  BY <1>3, <1>4, <1>5, <1>6, <1>7, <1>8 DEF Fresh, Y

LEMMA DispatchGood ==
  ASSUME Known, NEW X, NEW i \in IOReq, Fresh(X, i), NEW c \in Cmds[i]
  PROVE  LET Y == DispatchIO(X, i, c) IN
         /\ Good(Y, IOReq) /\ Clock(Y.io) /\ Serves(X, Y)
         /\ "QUICK" \in Y.io.Flags[i] => "DONE" \in Y.io.Flags[i]
         /\ "QUICK" \in X.io.Flags[i] /\ (Device[i] = "timer" => Lasts(c))
              => ("DONE" \in Y.io.Flags[i] => "QUICK" \in Y.io.Flags[i])
<1> DEFINE Y == DispatchIO(X, i, c)
           C == internalCompleteIO(X, i)
<1>0. X \in Pair /\ Good(X, IOReq \ {i}) /\ i \notin Busy(X.io) /\ Serves(X, X)
      /\ c.time \in 0..MaxTime /\ Clock(X.io) /\ Device[i] \in {"timer", "cdrom"}
  BY ServesSelf, CallAssumption, IOAssumption DEF Good, Fresh
<1>6. c.cmd = "METRONOME" => c.time # 0
  BY CallAssumption
<1>7. "DONE" \notin X.io.Flags[i]
  BY DEF Fresh
<1>1. CASE Y = C
  <2> HIDE DEF Y
  <2>1. /\ Good(C, IOReq) /\ Serves(X, C) /\ (Clock(X.io) => Clock(C.io))
        /\ C.io.Flags[i] = X.io.Flags[i] \cup {"DONE"}
    BY <1>0, EndedGood
  <2>2. C.io.Flags[i] = X.io.Flags[i] \cup {"DONE"} =>
          /\ "DONE" \in C.io.Flags[i]
          /\ "QUICK" \in X.io.Flags[i] => "QUICK" \in C.io.Flags[i]
    OBVIOUS
  <2> HIDE DEF C
  <2> QED
    BY <1>0, <1>1, <2>1, <2>2 DEF Y
<1>2. CASE Device[i] = "cdrom"
  <2>1. c.cmd \in {"READ", "STATUS"} /\ Y = CDROMDriverDispatch(X, i, c.cmd)
    BY <1>2 DEF Known, DispatchIO
  <2>2. CASE c.cmd = "STATUS"
    BY <1>1, <2>1, <2>2 DEF CDROMDriverDispatch
  <2>3. CASE c.cmd = "READ"
    <3> DEFINE W == Cleared(X, i, {"QUICK"})
               V == Queued(W, i)
    <3>1. Y = V
      BY <2>1, <2>3 DEF CDROMDriverDispatch, CDROMDriverDoit
    <3> HIDE DEF Y
    <3>2. /\ W \in Pair /\ W.k = X.k /\ SameRequests(X.io, W.io)
          /\ W.io.Flags[i] = X.io.Flags[i] \ {"QUICK"}
          /\ \A j \in IOReq \ {i} : W.io.Flags[j] = X.io.Flags[j]
      BY <1>0, ClearedPair
    <3> HIDE DEF W
    <3>3. \A j \in IOReq : /\ "DONE" \in W.io.Flags[j] <=> "DONE" \in X.io.Flags[j]
                           /\ "WAITING" \in W.io.Flags[j] <=> "WAITING" \in X.io.Flags[j]
                           /\ "QUICK" \in W.io.Flags[j] => "QUICK" \in X.io.Flags[j]
      <4> TAKE j \in IOReq
      <4>1. CASE j = i
        BY <3>2, <4>1
      <4>2. CASE j # i
        BY <3>2, <4>2
      <4> QED
        BY <4>1, <4>2
    <3>4. /\ Good(W, IOReq \ {i}) /\ Serves(X, W) /\ Busy(W.io) = Busy(X.io)
          /\ (Clock(X.io) => Clock(W.io))
      BY <1>0, <3>2, <3>3, FlagsGood
    <3>5. Fresh(W, i)
      BY <1>0, <3>3, <3>4 DEF Fresh
    <3>6. Good(V, IOReq) /\ Clock(V.io) /\ Serves(W, V) /\ "DONE" \notin V.io.Flags[i]
      BY <1>2, <3>5, QueuedGood
    <3> HIDE DEF V
    <3>7. Serves(X, V)
      BY <1>0, <3>4, <3>6, ServesOn DEF Good
    <3>8. "QUICK" \notin V.io.Flags[i]
      BY <3>2, <3>6 DEF Serves, Tells
    <3> QED
      BY <3>1, <3>6, <3>7, <3>8 DEF Y
  <2> QED
    BY <2>1, <2>2, <2>3
<1>3. CASE Device[i] = "timer" /\ ~Deferred(i, c)
  BY <1>1, <1>3 DEF DispatchIO
<1>4. CASE Device[i] = "timer" /\ Deferred(i, c) /\ c.cmd = "DELAY"
  <2>1. Y = CmdDelay(X, i, c.unit, c.time)
    BY <1>4 DEF DispatchIO
  <2> HIDE DEF Y
  <2>2. LET V == CmdDelay(X, i, c.unit, c.time) IN
        /\ Good(V, IOReq) /\ Clock(V.io) /\ Serves(X, V) /\ "QUICK" \notin V.io.Flags[i]
        /\ c.unit = "VBLANK" \/ c.time # 0 => "DONE" \notin V.io.Flags[i]
    BY <1>0, <1>4, DelayGood
  <2>3. /\ Good(Y, IOReq) /\ Clock(Y.io) /\ Serves(X, Y) /\ "QUICK" \notin Y.io.Flags[i]
        /\ c.unit = "VBLANK" \/ c.time # 0 => "DONE" \notin Y.io.Flags[i]
    BY <2>1, <2>2
  <2> QED
    BY <1>4, <2>3 DEF Y, Lasts
<1>5. CASE Device[i] = "timer" /\ Deferred(i, c) /\ c.cmd # "DELAY"
  <2>1. Y = CmdMetronome(X, i, c.unit, c.time)
    BY <1>5 DEF DispatchIO
  <2> HIDE DEF Y
  <2>2. LET V == CmdMetronome(X, i, c.unit, c.time) IN
        /\ Good(V, IOReq) /\ Clock(V.io) /\ Serves(X, V) /\ "QUICK" \notin V.io.Flags[i]
        /\ c.unit = "VBLANK" \/ c.time # 0 => "DONE" \notin V.io.Flags[i]
    BY <1>0, <1>5, MetronomeGood
  <2>3. /\ Good(Y, IOReq) /\ Clock(Y.io) /\ Serves(X, Y) /\ "QUICK" \notin Y.io.Flags[i]
        /\ c.unit = "VBLANK" \/ c.time # 0 => "DONE" \notin Y.io.Flags[i]
    BY <2>1, <2>2
  <2>4. c.time # 0
    BY <1>5, <1>6 DEF Deferred
  <2> QED
    BY <2>3, <2>4 DEF Y
<1> QED
  BY <1>0, <1>2, <1>3, <1>4, <1>5

\* The owner of a request that is done and not quick has been told.
Tended(Y, i) ==
  "DONE" \in Y.io.Flags[i] /\ "QUICK" \notin Y.io.Flags[i] =>
    IF MsgBased(i) THEN i \in Y.io.Posted ELSE IODONE \in Y.k.SigBits[IOOwner[i]]

\* internalSendIO.
LEMMA SendGood ==
  ASSUME Known, NEW X, NEW i \in IOReq, Good(X, IOReq), Clock(X.io),
         "DONE" \in X.io.Flags[i], NEW c \in Cmds[i], NEW quick
  PROVE  LET F == Renew(X, i, quick)
             Y == internalSendIO(X, i, c, quick) IN
         /\ Renewed(X, F, i) /\ Fresh(F, i) /\ Serves(F, Y)
         /\ Good(Y, IOReq) /\ Clock(Y.io)
         /\ QuickDone(X.io, IOReq) => QuickDone(Y.io, IOReq)
         /\ (Device[i] = "timer" /\ quick => Lasts(c)) => Tended(Y, i)
<1> DEFINE F == Renew(X, i, quick)
           Y == internalSendIO(X, i, c, quick)
<1>1. Renewed(X, F, i) /\ Fresh(F, i) /\ (~quick => "QUICK" \notin F.io.Flags[i])
  BY RenewFresh
<1>2. Y = DispatchIO(F, i, c)
  BY DEF internalSendIO, Renew
<1> HIDE DEF F, Y
<1>3. /\ Good(Y, IOReq) /\ Clock(Y.io) /\ Serves(F, Y)
      /\ "QUICK" \in Y.io.Flags[i] => "DONE" \in Y.io.Flags[i]
      /\ "QUICK" \in F.io.Flags[i] /\ (Device[i] = "timer" => Lasts(c))
           => ("DONE" \in Y.io.Flags[i] => "QUICK" \in Y.io.Flags[i])
  BY <1>1, <1>2, DispatchGood
<1>4. ASSUME QuickDone(X.io, IOReq) PROVE QuickDone(Y.io, IOReq)
  <2> DEFINE S == IOReq \ {i}
  <2>1. QuickDone(F.io, S)
    BY <1>1, <1>4 DEF QuickDone, Renewed
  <2> HIDE DEF S
  <2>2. S \in SUBSET IOReq
    BY DEF S
  <2>3. QuickDone(Y.io, S)
    BY <1>3, <2>1, <2>2, QuickDoneOn
  <2> QED
    BY <1>3, <2>3 DEF QuickDone, S
<1>5. (Device[i] = "timer" /\ quick => Lasts(c)) => Tended(Y, i)
  <2>1. Tells(F, Y, i) /\ "DONE" \notin F.io.Flags[i]
    BY <1>1, <1>3 DEF Serves, Fresh
  <2> QED
    BY <1>1, <1>3, <2>1 DEF Tells, Tended
<1> QED
  BY <1>1, <1>3, <1>4, <1>5 DEF F, Y

-----------------------------------------------------------------------------
(* Steps of the system *)

LEMMA XZero ==
  ASSUME IOInv
  PROVE  /\ X0 \in Pair /\ X0.k = kb /\ X0.io = io /\ Me \in Task /\ Me = kb.CurrentTask
         /\ Good(X0, IOReq) /\ Clock(X0.io) /\ QuickDone(X0.io, IOReq)
         /\ \A t \in Task : call[t] \in CallState /\ Fits(X0, mode, call[t], t)
<1>1. kb \in KernelState /\ io \in IOState /\ Me \in Task /\ Me = kb.CurrentTask
  BY DEF IOInv, IInv, KInv, Requests, Me
<1>2. X0 \in Pair /\ X0.k = kb /\ X0.io = io
  BY <1>1 DEF Pair, X0
<1>3. Good(X0, IOReq) /\ Clock(X0.io) /\ QuickDone(X0.io, IOReq)
  BY <1>2 DEF IOInv, IInv, Requests, Good, Clock
<1>4. \A t \in Task : call[t] \in CallState /\ Fits(X0, mode, call[t], t)
  BY DEF IOInv, Calls
<1> QED
  BY <1>1, <1>2, <1>3, <1>4

\* What a step has to keep.
LEMMA KeepsInv ==
  ASSUME NEW Y, Good(Y, IOReq), Clock(Y.io), QuickDone(Y.io, IOReq),
         kb' = Y.k, io' = Y.io, IInv',
         NEW m, mode' = m, NEW cs \in [Task -> CallState], call' = cs,
         \A t \in Task : Fits(Y, m, cs[t], t)
  PROVE  IOInv'
<1>1. Y.io \in IOState /\ Y = [k |-> kb', io |-> io']
  BY PairFields DEF Good
<1>2. PortsOpen(kb)' /\ Requests'
  BY <1>1 DEF Good, Clock, Requests
<1>3. Calls'
  <2>1. X0' = Y
    BY <1>1 DEF X0
  <2> QED
    BY <2>1 DEF Calls
<1> QED
  BY <1>2, <1>3 DEF IOInv

\* A step in which the current task keeps the processor: the others have what
\* they had.
Steady(k, r) ==
  /\ KInv(r) /\ SameRunner(k, r) /\ (Asked(k) => Asked(r)) /\ SameFrames(k, r)
  /\ \A t \in Task \ {k.CurrentTask} : k.SigBits[t] \subseteq r.SigBits[t]

LEMMA GrowsSteady ==
  ASSUME NEW k, NEW r, Grows(k, r)
  PROVE  Steady(k, r)
BY DEF Grows, Steady

\* A task that waits knows of what devices and other tasks have done.
LEMMA InformedOn ==
  ASSUME NEW X, NEW m, NEW Y, NEW n, NEW t, NEW c, c.ior \in IOReq, IOOwner[c.ior] = t,
         Informed(X, m, c, t), Tells(X, Y, c.ior), Based(Y.io),
         Returned(Y.k, n, c, t) <=> Returned(X.k, m, c, t),
         X.k.SigBits[t] \subseteq Y.k.SigBits[t],
         Returned(X.k, m, c, t) => Y.k.ret = X.k.ret
  PROVE  Informed(Y, n, c, t)
<1> DEFINE i == c.ior
<1>1. /\ i \in X.io.made <=> i \in Y.io.made
      /\ i \in X.io.Posted => i \in Y.io.Posted
      /\ i \in Y.io.Posted \ X.io.Posted => ReplySig[i] \subseteq Y.k.SigBits[t]
      /\ "WAITING" \in X.io.Flags[i] <=> "WAITING" \in Y.io.Flags[i]
      /\ "QUICK" \in Y.io.Flags[i] => "QUICK" \in X.io.Flags[i]
      /\ "DONE" \in X.io.Flags[i] => "DONE" \in Y.io.Flags[i]
      /\ "DONE" \in Y.io.Flags[i] /\ "DONE" \notin X.io.Flags[i] /\ "QUICK" \notin X.io.Flags[i]
           => IF MsgBased(i) THEN i \in Y.io.Posted ELSE IODONE \in Y.k.SigBits[t]
  BY DEF Tells
<1>2. ABORT \in Got(X.k, m, c, t) => ABORT \in Got(Y.k, n, c, t)
  BY DEF Got
<1>3. Looks(Y.k, n, c, t) <=> Looks(X.k, m, c, t)
  BY DEF Looks
<1>i. /\ i \notin X.io.made => ABORT \in Got(X.k, m, c, t)
      /\ i \in X.io.made =>
           /\ "QUICK" \notin X.io.Flags[i] /\ (MsgBased(i) \/ "WAITING" \in X.io.Flags[i])
           /\ MsgBased(i) /\ c.at # "look" /\ "DONE" \in X.io.Flags[i] => i \in X.io.Posted
           /\ ~Looks(X.k, m, c, t) /\ ("DONE" \in X.io.Flags[i] \/ i \in X.io.Posted)
                => WaitBitsOf(i) \cap X.k.SigBits[t] # {}
  BY DEF Informed
<1>b. i \in Y.io.Posted => MsgBased(i)
  BY DEF Based
<1>w. WaitBitsOf(i) = IF MsgBased(i) THEN ReplySig[i] ELSE {IODONE}
  BY DEF WaitBitsOf
<1>m. MsgBased(i) => ReplySig[i] # {}
  BY DEF MsgBased
<1> HIDE DEF i
<1>4. ASSUME i \in Y.io.made, ~Looks(X.k, m, c, t), "DONE" \in Y.io.Flags[i] \/ i \in Y.io.Posted
      PROVE  WaitBitsOf(i) \cap Y.k.SigBits[t] # {}
  <2>1. CASE "DONE" \in X.io.Flags[i] \/ i \in X.io.Posted
    BY <1>1, <1>4, <1>i, <2>1
  <2>2. CASE ~("DONE" \in X.io.Flags[i] \/ i \in X.io.Posted) /\ i \in Y.io.Posted
    <3>1. ReplySig[i] \subseteq Y.k.SigBits[t] /\ MsgBased(i)
      BY <1>1, <1>b, <2>2
    <3> QED
      BY <1>w, <1>m, <3>1
  <2>3. CASE ~("DONE" \in X.io.Flags[i] \/ i \in X.io.Posted) /\ i \notin Y.io.Posted
    <3>1. "QUICK" \notin X.io.Flags[i]
      BY <1>1, <1>4, <1>i
    <3>2. ~MsgBased(i) /\ IODONE \in Y.k.SigBits[t]
      BY <1>1, <1>4, <2>3, <3>1
    <3> QED
      BY <1>w, <3>2
  <2> QED
    BY <2>1, <2>2, <2>3
<1>5. i \notin Y.io.made => ABORT \in Got(Y.k, n, c, t)
  BY <1>1, <1>2, <1>i
<1>6. i \in Y.io.made => /\ "QUICK" \notin Y.io.Flags[i]
                         /\ MsgBased(i) \/ "WAITING" \in Y.io.Flags[i]
                         /\ MsgBased(i) /\ c.at # "look" /\ "DONE" \in Y.io.Flags[i]
                              => i \in Y.io.Posted
  BY <1>1, <1>i
<1> QED
  BY <1>3, <1>4, <1>5, <1>6 DEF Informed, i

\* A task that waits for a request owns it.
LEMMA WaitsForOwn ==
  ASSUME NEW X, NEW m, NEW t, NEW c, Fits(X, m, c, t), c.by = "wait"
  PROVE  /\ c.at \in {"look", "sleep", "woken"} /\ c.ior \in IOReq /\ IOOwner[c.ior] = t
         /\ t # Idle /\ Informed(X, m, c, t) /\ SleepBits(c) = WaitBitsOf(c.ior)
<1>1. c.at # "none"
  BY DEF Fits, CallKnown, NoCall
<1> QED
  BY <1>1 DEF Fits, CallKnown, Sound, Aware, SleepBits

\* A task that keeps or does not have the processor stays in its call.
LEMMA FitsOn ==
  ASSUME NEW X, NEW m, NEW Y, NEW n, NEW t \in Task, NEW c, Fits(X, m, c, t),
         SameFrames(X.k, Y.k), m = "blip" <=> n = "blip", m = "swi" => n = "swi",
         \/ c.by # "wait"
         \/ /\ Tells(X, Y, c.ior) /\ Based(Y.io) /\ X.k.SigBits[t] \subseteq Y.k.SigBits[t]
            /\ ~Away(X.k, m, t) => Y.k.ret = X.k.ret
         \/ Informed(Y, n, c, t)
  PROVE  Fits(Y, n, c, t)
<1>1. Away(Y.k, n, t) <=> Away(X.k, m, t)
  BY DEF Away, SameFrames
<1>2. CallKnown(Y.k, n, c, t)
  BY <1>1 DEF Fits, CallKnown, SameFrames
<1>3. Aware(Y, n, c, t)
  <2> SUFFICES ASSUME c.by = "wait" PROVE Informed(Y, n, c, t)
    BY DEF Aware
  <2>1. CASE /\ Tells(X, Y, c.ior) /\ Based(Y.io) /\ X.k.SigBits[t] \subseteq Y.k.SigBits[t]
             /\ ~Away(X.k, m, t) => Y.k.ret = X.k.ret
    <3>1. Returned(Y.k, n, c, t) <=> Returned(X.k, m, c, t)
      BY <1>1 DEF Returned
    <3>2. Returned(X.k, m, c, t) => Y.k.ret = X.k.ret
      BY <2>1 DEF Returned
    <3>3. c.ior \in IOReq /\ IOOwner[c.ior] = t /\ Informed(X, m, c, t)
      BY WaitsForOwn
    <3> QED
      BY <2>1, <3>1, <3>2, <3>3, InformedOn
  <2> QED
    BY <2>1
<1> QED
  BY <1>2, <1>3 DEF Fits

\* A device serves requests, in an interrupt.
LEMMA DeviceInv ==
  ASSUME IOInv, NEW Y, Good(Y, IOReq), Clock(Y.io), Serves(X0, Y),
         kb' = Y.k, io' = Y.io, call' = call, IInv',
         NEW n, mode' = n, n = "blip" <=> mode = "blip", mode = "swi" => n = "swi"
  PROVE  IOInv'
<1>1. QuickDone(Y.io, IOReq)
  BY XZero, QuickDoneOn
<1>2. SameFrames(X0.k, Y.k) /\ Y.k.ret = X0.k.ret
  BY DEF Serves, Grows
<1>3. ASSUME NEW t \in Task PROVE Fits(Y, n, call[t], t)
  <2>1. Fits(X0, mode, call[t], t)
    BY XZero
  <2>2. X0.k.SigBits[t] \subseteq Y.k.SigBits[t]
    BY DEF Serves, Grows
  <2>3. call[t].by = "wait" => Tells(X0, Y, call[t].ior)
    BY <2>1, WaitsForOwn DEF Serves
  <2> QED
    BY <1>2, <2>1, <2>2, <2>3, FitsOn DEF Good
<1>4. call \in [Task -> CallState]
  BY DEF IOInv, Calls
<1> QED
  BY <1>1, <1>3, <1>4, KeepsInv

LEMMA InterruptInv ==
  ASSUME IOInv, NEW Y, Good(Y, IOReq), Clock(Y.io), Serves(X0, Y), Interrupt(Y)
  PROVE  IOInv'
<1>1. kb' = Y.k /\ io' = Y.io /\ mode' = FirqMode /\ call' = call
  BY DEF Interrupt, Continues
<1>2. KInv(kb') /\ SameRunner(kb, kb') /\ (Asked(kb) => Asked(kb'))
  BY <1>1, XZero DEF Serves, Grows
<1>3. IInv
  BY DEF IOInv
<1>4. mode' \in Mode /\ mode' # "user" /\ (mode' = "blip" <=> mode = "blip")
      /\ (mode = "swi" => mode' = "swi")
  BY <1>1, <1>3 DEF FirqMode, IInv, Mode
<1>5. Running(kb', mode')
  BY <1>2, <1>3, <1>4 DEF IInv, Running, SameRunner
<1>6. IInv'
  BY <1>2, <1>3, <1>4, <1>5 DEF IInv
<1> DEFINE n == FirqMode
<1>7. mode' = n /\ (n = "blip" <=> mode = "blip") /\ (mode = "swi" => n = "swi")
  BY <1>1, <1>4
<1> HIDE DEF n
<1> QED
  BY <1>1, <1>6, <1>7, DeviceInv

\* The devices have the requests that they had.
SameLists(x, y) ==
  /\ y.Flags = x.Flags /\ y.SigItem = x.SigItem /\ y.Posted = x.Posted /\ y.made = x.made
  /\ y.DelayList = x.DelayList /\ y.MDelayList = x.MDelayList
  /\ y.RequestsToDo = x.RequestsToDo /\ y.RequestRunning = x.RequestRunning

\* The microsecond timer and its list count down together.
LEMMA TickGood ==
  ASSUME NEW X, Good(X, IOReq), Clock(X.io), X.io.MDelayList # <<>>,
         X.io.count \notin {0, Off},
         NEW Y \in Pair, Y.k = X.k, SameLists(X.io, Y.io), Y.io.count = X.io.count - 1,
         \A i \in IOReq : Y.io.left[i] =
           IF i \in ToSet(X.io.MDelayList) /\ X.io.left[i] > 0 THEN X.io.left[i] - 1
           ELSE X.io.left[i]
  PROVE  Good(Y, IOReq) /\ Clock(Y.io) /\ Serves(X, Y)
<1> DEFINE x == X.io
           q == x.MDelayList
<1>1. X \in Pair /\ q \in Seq(IOReq) /\ x.left \in [IOReq -> 0..MaxTime]
      /\ x.count \in 0..MaxTime /\ MaxTime \in Nat
  BY PairFields, IOAssumption DEF Good
<1>2. Serves(X, Y)
  BY <1>1, ServesSelf DEF Good, SameLists
<1>3. Lists(Y.io) /\ InProgress(Y.io, IOReq) /\ Based(Y.io)
  BY DEF Good, Lists, InProgress, Busy, Clocked, Driven, Based, SameLists
<1>4. Good(Y, IOReq)
  BY <1>2, <1>3, GoodOn
<1>5. \A a \in DOMAIN q : /\ q[a] \in IOReq /\ q[a] \in ToSet(q) /\ x.left[q[a]] \in Nat
  <2>1. \A a \in DOMAIN q : q[a] \in IOReq /\ q[a] \in ToSet(q)
    BY <1>1, LenProperties, ElementOfSeq DEF ToSet
  <2>2. \A i \in IOReq : x.left[i] \in Nat
    BY <1>1
  <2> QED
    BY <2>1, <2>2
<1>6. \A a \in DOMAIN q :
        Y.io.left[q[a]] = IF x.left[q[a]] > 0 THEN x.left[q[a]] - 1 ELSE x.left[q[a]]
  BY <1>5
<1>7. Upward(Y.io)
  <2> SUFFICES ASSUME NEW a \in DOMAIN q, NEW b \in DOMAIN q, a < b
               PROVE  Y.io.left[q[a]] <= Y.io.left[q[b]]
    BY DEF Upward, Rising, SameLists
  <2>1. x.left[q[a]] <= x.left[q[b]]
    BY DEF Clock, Upward, Rising
  <2> HIDE DEF q, x
  <2> QED
    BY <1>5, <1>6, <2>1
<1>8. Set(Y.io)
  <2>1. x.count <= x.left[Head(q)] /\ x.count \in Nat /\ x.count > 0
    BY <1>1 DEF Clock, Set
  <2>2. 1 \in DOMAIN q /\ Head(q) = q[1]
    BY <1>1, EmptySeq, LenProperties, HeadTailProperties
  <2>3. x.left[q[1]] \in Nat
        /\ Y.io.left[q[1]] = IF x.left[q[1]] > 0 THEN x.left[q[1]] - 1 ELSE x.left[q[1]]
    BY <1>5, <1>6, <2>2
  <2>4. Y.io.count <= Y.io.left[q[1]] /\ Y.io.count \in Nat
    BY <2>1, <2>2, <2>3
  <2>5. Y.io.count # Off
    BY <2>4, IOAssumption
  <2> QED
    BY <2>2, <2>4, <2>5 DEF Set, SameLists
<1> QED
  BY <1>2, <1>4, <1>7, <1>8 DEF Clock

LEMMA TickInv ==
  ASSUME IOInv, Tick
  PROVE  IOInv'
<1> DEFINE L == [i \in IOReq |->
                  IF i \in ToSet(io.MDelayList) /\ io.left[i] > 0 THEN io.left[i] - 1
                  ELSE io.left[i]]
           n == io.count - 1
           y == [io EXCEPT !.count = n, !.left = L]
           Y == [k |-> kb, io |-> y]
<1>1. /\ io' = [io EXCEPT !.count = @ - 1,
                          !.left = [i \in IOReq |->
                            IF i \in ToSet(io.MDelayList) /\ @[i] > 0 THEN @[i] - 1 ELSE @[i]]]
      /\ kb' = kb /\ mode' = mode /\ call' = call /\ Counts
  BY DEF Tick
<1>2. X0 \in Pair /\ X0.io = io /\ X0.k = kb /\ Good(X0, IOReq) /\ Clock(X0.io)
  BY XZero
<1>3. /\ io \in IOState /\ io.left \in [IOReq -> 0..MaxTime] /\ io.count \in (0..MaxTime) \cup {Off}
      /\ kb \in KernelState /\ MaxTime \in Nat
  BY <1>2, PairFields, IOAssumption
<1>4. n \in 0..MaxTime /\ io.count \notin {0, Off} /\ io.MDelayList # <<>>
  BY <1>1, <1>3 DEF Counts
<1>5. io' = y
  BY <1>1, <1>3 DEF IOState
<1>6. L \in [IOReq -> 0..MaxTime]
  <2>1. \A i \in IOReq : io.left[i] \in 0..MaxTime
    BY <1>3
  <2>2. \A i \in IOReq : L[i] \in 0..MaxTime
    BY <1>3, <2>1
  <2> QED
    BY <2>2
<1>7. \A i \in IOReq : L[i] =
           IF i \in ToSet(io.MDelayList) /\ io.left[i] > 0 THEN io.left[i] - 1
           ELSE io.left[i]
  OBVIOUS
<1> HIDE DEF L, n
<1>8. y \in IOState /\ SameLists(io, y) /\ y.count = n /\ y.left = L
  BY <1>3, <1>4, <1>6 DEF IOState, SameLists
<1> HIDE DEF y
<1>9. Y \in Pair /\ Y.k = kb /\ Y.io = y
  BY <1>3, <1>8 DEF Pair
<1> HIDE DEF Y
<1>10. Good(Y, IOReq) /\ Clock(Y.io) /\ Serves(X0, Y)
  <2>1. Y.io.count = io.count - 1
    BY <1>8, <1>9 DEF n
  <2> QED
    BY <1>2, <1>4, <1>7, <1>8, <1>9, <2>1, TickGood
<1>11. IInv'
  BY <1>1 DEF IOInv, IInv
<1> QED
  BY <1>1, <1>5, <1>9, <1>10, <1>11, DeviceInv

LEMMA DevicesInv ==
  ASSUME IOInv, Devices
  PROVE  IOInv'
<1>1. Good(X0, IOReq) /\ Clock(X0.io) /\ X0.io = io
  BY XZero
<1>2. CASE Tick
  BY <1>2, TickInv
<1>3. CASE cMtimerInt
  <2> DEFINE Y == reprocess(X0)
  <2>1. Good(Y, IOReq) /\ Clock(Y.io) /\ Serves(X0, Y)
    BY <1>1, ReprocessGood DEF Clock
  <2>2. Interrupt(Y)
    BY <1>3 DEF cMtimerInt
  <2> QED
    BY <2>1, <2>2, InterruptInv
<1>4. CASE VBlank
  <2> DEFINE Y == ctimerInt(X0)
  <2>1. Good(Y, IOReq) /\ Clock(Y.io) /\ Serves(X0, Y)
    BY <1>1, BlankGood
  <2>2. Interrupt(Y)
    BY <1>4 DEF VBlank
  <2> QED
    BY <2>1, <2>2, InterruptInv
<1>5. CASE CDStarts
  <2> DEFINE Y == AwaitRequest(X0)
  <2>1. Good(Y, IOReq) /\ Clock(Y.io) /\ Serves(X0, Y)
    BY <1>1, <1>5, AwaitGood DEF CDStarts
  <2>2. Interrupt(Y)
    BY <1>5 DEF CDStarts
  <2> QED
    BY <2>1, <2>2, InterruptInv
<1>6. CASE CDFinishes
  <2> DEFINE Y == FinishRequest(X0)
  <2>1. Good(Y, IOReq) /\ Clock(Y.io) /\ Serves(X0, Y)
    BY <1>1, <1>6, FinishGood DEF CDFinishes
  <2>2. Interrupt(Y)
    BY <1>6 DEF CDFinishes
  <2> QED
    BY <2>1, <2>2, InterruptInv
<1> QED
  BY <1>2, <1>3, <1>4, <1>5, <1>6 DEF Devices

\* The end of a quantum.
LEMMA QuantumInv ==
  ASSUME IOInv, Quantum
  PROVE  IOInv'
<1> DEFINE Y == [k |-> kb', io |-> io]
           n == FirqMode
<1>1. FirqQuantum /\ io' = io /\ call' = call /\ mode' = n
  BY DEF Quantum, FirqQuantum
<1>2. IInv /\ IInv'
  BY <1>1, FirqQuantumInv DEF IOInv
<1>3. /\ X0 \in Pair /\ X0.k = kb /\ X0.io = io /\ Good(X0, IOReq) /\ Clock(X0.io)
  BY XZero
<1>4. kb \in KernelState /\ kb' \in KernelState /\ io \in IOState
  BY <1>2, <1>3, PairFields DEF IInv, KInv
<1>5. Y \in Pair /\ Y.k = kb' /\ Y.io = io
  BY <1>4 DEF Pair
<1>6. /\ SameFrames(kb, kb') /\ kb'.AllocatedSigs = kb.AllocatedSigs /\ kb'.ret = kb.ret
      /\ kb'.SigBits = kb.SigBits /\ kb'.Flags = kb.Flags
      /\ kb'.TaskReadyQ = kb.TaskReadyQ /\ kb'.Priority = kb.Priority
      /\ kb.PleaseReschedule => kb'.PleaseReschedule
  <2>1. kb' = cblank(kb) /\ kb.CurrentTask # NoTask
    BY <1>1, <1>2, TaskAssumption DEF FirqQuantum, IInv, KInv
  <2> QED
    BY <1>4, <2>1 DEF cblank, KernelState, SameFrames
<1>7. Grows(kb, kb')
  <2>1. KInv(kb') /\ SameRunner(kb, kb')
    BY <1>2, <1>6 DEF IInv, SameRunner, SameFrames
  <2>2. Asked(kb) => Asked(kb')
    BY <1>6 DEF Asked, Urgent, CurPri, HeadPri, SameFrames
  <2> QED
    BY <1>6, <2>1, <2>2 DEF Grows
<1> HIDE DEF Y
<1>8. Serves(X0, Y)
  <2>1. Grows(X0.k, Y.k) /\ OneShots(X0, Y) /\ Honest(X0, Y)
    BY <1>3, <1>5, <1>6, <1>7 DEF OneShots, Honest
  <2> QED
    BY <1>3, <1>5, <2>1 DEF Serves, Tells, TellsAborter
<1>9. Good(Y, IOReq) /\ Clock(Y.io)
  BY <1>3, <1>5, <1>8, GoodOn DEF Good
<1>10. (n = "blip" <=> mode = "blip") /\ (mode = "swi" => n = "swi")
  BY DEF FirqMode
<1> HIDE DEF n
<1> QED
  BY <1>1, <1>2, <1>5, <1>8, <1>9, <1>10, DeviceInv

\* The current task goes on in a SWI, or returns from it.
LEMMA SwiGood ==
  ASSUME IOInv, mode \in {"user", "swi"},
         NEW Y, Good(Y, IOReq), Clock(Y.io), QuickDone(Y.io, IOReq), Steady(kb, Y.k),
         kb' = Y.k, io' = Y.io, mode' = "swi",
         NEW c \in CallState, call' = [call EXCEPT ![Me] = c],
         c = NoCall \/ (Me # Idle /\ c.at # "none" /\ Sound(Me, c)),
         c.by = "wait" => Informed(Y, "swi", c, Me),
         \A t \in Task \ {Me} : \/ call[t].by # "wait"
                                \/ Tells(X0, Y, call[t].ior)
                                \/ Informed(Y, "swi", call[t], t)
  PROVE  IOInv'
<1> DEFINE cs == [call EXCEPT ![Me] = c]
<1>1. /\ Me \in Task /\ Me = kb.CurrentTask /\ IInv /\ X0.k = kb
      /\ call \in [Task -> CallState] /\ \A t \in Task : Fits(X0, mode, call[t], t)
  BY XZero DEF IOInv, Calls
<1>2. cs \in [Task -> CallState] /\ cs[Me] = c /\ \A t \in Task \ {Me} : cs[t] = call[t]
  BY <1>1
<1>3. call' = cs
  OBVIOUS
<1> HIDE DEF cs
<1>4. IInv'
  <2>1. KInv(kb') /\ SameRunner(kb, kb') /\ Asked(kb')
    BY <1>1 DEF Steady, IInv
  <2>2. Running(kb', "swi")
    BY <1>1, <2>1 DEF IInv, Running, SameRunner
  <2> QED
    BY <2>1, <2>2 DEF IInv, Mode
<1>5. Y.k.CurrentTask = Me /\ ~Away(Y.k, "swi", Me)
  BY <1>1 DEF Steady, SameFrames, Away
<1>6. Fits(Y, "swi", c, Me)
  <2>1. CASE c = NoCall
    <3>1. c.at = "none" /\ c.by # "wait"
      BY <2>1 DEF NoCall
    <3> QED
      BY <2>1, <3>1 DEF Fits, CallKnown, Aware
  <2>2. CASE Me # Idle /\ c.at # "none" /\ Sound(Me, c)
    BY <1>5, <2>2 DEF Fits, CallKnown, Aware
  <2> QED
    BY <2>1, <2>2
<1>7. ASSUME NEW t \in Task \ {Me} PROVE Fits(Y, "swi", call[t], t)
  <2>1. Fits(X0, mode, call[t], t) /\ Away(X0.k, mode, t)
    BY <1>1 DEF Away
  <2>2. SameFrames(X0.k, Y.k) /\ X0.k.SigBits[t] \subseteq Y.k.SigBits[t] /\ Based(Y.io)
    BY <1>1 DEF Steady, Good
  <2> DEFINE m == mode
             ct == call[t]
  <2>3. /\ Fits(X0, m, ct, t) /\ Away(X0.k, m, t) /\ t \in Task
        /\ m \in {"user", "swi"}
        /\ ct.by # "wait" \/ Tells(X0, Y, ct.ior) \/ Informed(Y, "swi", ct, t)
    BY <2>1
  <2> HIDE DEF m, ct
  <2>4. Fits(Y, "swi", ct, t)
    BY <2>2, <2>3, FitsOn
  <2> QED
    BY <2>4 DEF ct
<1>8. \A t \in Task : Fits(Y, "swi", cs[t], t)
  BY <1>2, <1>6, <1>7
<1> QED
  BY <1>2, <1>3, <1>4, <1>8, KeepsInv

\* internalWait: the current task takes the bits it waits for, or sleeps.
LEMMA SleepGood ==
  ASSUME IOInv, mode \in {"user", "swi"}, Me # Idle,
         NEW X, Good(X, IOReq), Clock(X.io), QuickDone(X.io, IOReq), X.k = kb,
         NEW bits \in SUBSET Sig,
         NEW c \in CallState, call' = [call EXCEPT ![Me] = c],
         kb' = internalWait(kb, bits), io' = X.io,
         mode' = IF WaitSleeps(kb, bits) THEN "blip" ELSE "swi",
         \/ c = NoCall
         \/ /\ c.at \in {"woken", "aborted"} /\ Sound(Me, c) /\ bits = SleepBits(c)
            /\ bits \subseteq kb.AllocatedSigs[Me],
         c.by = "wait" =>
           LET i == c.ior IN
           /\ i \notin X.io.made => ABORT \in kb.SigBits[Me]
           /\ i \in X.io.made =>
                /\ "QUICK" \notin X.io.Flags[i] /\ (MsgBased(i) \/ "WAITING" \in X.io.Flags[i])
                /\ MsgBased(i) /\ "DONE" \in X.io.Flags[i] => i \in X.io.Posted
                /\ "DONE" \in X.io.Flags[i] \/ i \in X.io.Posted
                     => WaitBitsOf(i) \cap kb.SigBits[Me] # {},
         \A t \in Task \ {Me} : Tells(X0, X, call[t].ior)
  PROVE  IOInv'
<1> DEFINE r == internalWait(kb, bits)
           Y == [k |-> r, io |-> X.io]
           res == Awaited(bits) \cap kb.SigBits[Me]
           cs == [call EXCEPT ![Me] = c]
<1>1. /\ Me \in Task /\ Me = kb.CurrentTask /\ IInv /\ X0.k = kb /\ X \in Pair
      /\ call \in [Task -> CallState] /\ \A t \in Task : Fits(X0, mode, call[t], t)
      /\ KInv(kb) /\ kb \in KernelState /\ X.io \in IOState
  BY XZero, PairFields DEF IOInv, Calls, IInv, KInv, Good
<1>2. Running(kb, "user") /\ Asked(kb)
  BY <1>1 DEF IInv, Running
<1>3. /\ KInv(r) /\ r \in KernelState
      /\ WaitSleeps(kb, bits) => Running(r, "blip")
      /\ ~WaitSleeps(kb, bits) => Running(r, "swi") /\ Asked(r)
  BY <1>1, <1>2, WaitLemma DEF KInv
<1>4. WaitSleeps(kb, bits) <=> bits \subseteq kb.AllocatedSigs[Me] /\ res = {}
  BY <1>1 DEF WaitSleeps
<1>5. IInv'
  BY <1>3 DEF IInv, Mode
<1>6. ~(bits \subseteq kb.AllocatedSigs[Me]) => r = kb
  BY <1>1 DEF internalWait
<1>7. bits \subseteq kb.AllocatedSigs[Me] =>
        /\ r.CurrentTask = Me /\ r.AllocatedSigs = kb.AllocatedSigs
        /\ res = {} => /\ r.SigBits = kb.SigBits
                       /\ r.psr = [kb.psr EXCEPT ![Me] = "super"]
                       /\ r.WaitBits = [kb.WaitBits EXCEPT ![Me] = Awaited(bits)]
        /\ res # {} => /\ r.SigBits = [kb.SigBits EXCEPT ![Me] = @ \ res]
                       /\ SameFrames(kb, r) /\ r.ret = res
  BY <1>1, WaitFrame
<1>8. r.AllocatedSigs = kb.AllocatedSigs
  BY <1>6, <1>7
<1>f. /\ kb.SigBits \in [Task -> SUBSET Sig] /\ kb.psr \in [Task -> Psr]
      /\ kb.WaitBits \in [Task -> SUBSET Sig]
  BY <1>1, Fields
<1>9. cs \in [Task -> CallState] /\ cs[Me] = c /\ \A t \in Task \ {Me} : cs[t] = call[t]
  BY <1>1
<1>10. call' = cs /\ kb' = r
  OBVIOUS
<1> HIDE DEF r, cs, res
<1>11. Y \in Pair /\ Y.k = r /\ Y.io = X.io
  BY <1>1, <1>3 DEF Pair
<1> HIDE DEF Y
<1>12. Good(Y, IOReq) /\ Clock(Y.io) /\ QuickDone(Y.io, IOReq)
  BY <1>3, <1>8, <1>11, OpenPorts DEF Good
<1>13. \A t \in Task \ {Me} : r.SigBits[t] = kb.SigBits[t]
  BY <1>f, <1>6, <1>7
<1>14. \A t \in Task \ {Me} : call[t].by # "wait" \/ Tells(X0, Y, call[t].ior)
  <2> SUFFICES ASSUME NEW t \in Task \ {Me}, call[t].by = "wait"
               PROVE  Tells(X0, Y, call[t].ior)
    OBVIOUS
  <2>1. IOOwner[call[t].ior] = t
    BY <1>1, WaitsForOwn
  <2>2. Y.k.SigBits[IOOwner[call[t].ior]] = X.k.SigBits[IOOwner[call[t].ior]]
    BY <1>11, <1>13, <2>1
  <2>3. Tells(X0, X, call[t].ior)
    OBVIOUS
  <2> QED
    BY <1>11, <2>2, <2>3 DEF Tells
<1>15. CASE ~WaitSleeps(kb, bits)
  <2>1. Steady(kb, r)
    <3>1. SameRunner(kb, r) /\ SameFrames(kb, r)
      BY <1>1, <1>2, <1>3, <1>4, <1>6, <1>7, <1>15 DEF Running, SameRunner, SameFrames
    <3> QED
      BY <1>1, <1>3, <1>13, <1>15, <3>1 DEF Steady
  <2>2. c.by = "wait" => Informed(Y, "swi", c, Me)
    <3> SUFFICES ASSUME c.by = "wait" PROVE Informed(Y, "swi", c, Me)
      OBVIOUS
    <3>1. c # NoCall
      BY DEF NoCall
    <3>2. ~Away(Y.k, "swi", Me) /\ Returned(Y.k, "swi", c, Me)
      BY <1>7, <1>11, <3>1 DEF Away, Returned
    <3>3. kb.SigBits[Me] \subseteq Got(Y.k, "swi", c, Me)
      BY <1>f, <1>1, <1>4, <1>7, <1>11, <1>15, <3>1, <3>2 DEF Got
    <3>4. Looks(Y.k, "swi", c, Me)
      BY <3>2 DEF Looks
    <3> QED
      BY <1>11, <3>3, <3>4 DEF Informed
  <2>3. mode' = "swi"
    BY <1>15
  <2>4. c = NoCall \/ (Me # Idle /\ c.at # "none" /\ Sound(Me, c))
    OBVIOUS
  <2> QED
    BY <1>10, <1>11, <1>12, <1>14, <2>1, <2>2, <2>3, <2>4, SwiGood
<1>16. CASE WaitSleeps(kb, bits)
  <2>1. /\ r.CurrentTask = Me /\ r.SigBits = kb.SigBits
        /\ r.psr[Me] = "super" /\ r.WaitBits[Me] = Awaited(bits)
        /\ \A t \in Task \ {Me} : r.psr[t] = kb.psr[t] /\ r.WaitBits[t] = kb.WaitBits[t]
    BY <1>f, <1>1, <1>4, <1>7, <1>16
  <2>2. Fits(Y, "blip", c, Me)
    <3>1. Away(Y.k, "blip", Me)
      BY DEF Away
    <3>2. CASE c = NoCall
      <4>1. c.at = "none" /\ c.by # "wait"
        BY <3>2 DEF NoCall
      <4> QED
        BY <3>2, <4>1 DEF Fits, CallKnown, Aware
    <3>3. CASE c # NoCall
      <4>1. CallKnown(Y.k, "blip", c, Me)
        BY <1>11, <2>1, <3>1, <3>3 DEF CallKnown
      <4>2. ASSUME c.by = "wait" PROVE Informed(Y, "blip", c, Me)
        <5>1. ~Returned(Y.k, "blip", c, Me)
          BY <3>1 DEF Returned
        <5>2. Got(Y.k, "blip", c, Me) = kb.SigBits[Me]
          BY <1>11, <2>1, <5>1 DEF Got
        <5> QED
          BY <1>11, <2>1, <4>2, <5>2 DEF Informed
      <4> QED
        BY <4>1, <4>2 DEF Fits, Aware
    <3> QED
      BY <3>2, <3>3
  <2>3. ASSUME NEW t \in Task \ {Me} PROVE Fits(Y, "blip", call[t], t)
    <3>1. Fits(X0, mode, call[t], t) /\ Away(X0.k, mode, t) /\ Away(Y.k, "blip", t)
      BY <1>1 DEF Away
    <3>2. CallKnown(Y.k, "blip", call[t], t)
      BY <1>1, <1>11, <2>1, <3>1 DEF Fits, CallKnown
    <3>3. ASSUME call[t].by = "wait" PROVE Informed(Y, "blip", call[t], t)
      <4> DEFINE m == mode
                 ct == call[t]
      <4>1. /\ Fits(X0, m, ct, t) /\ ct.by = "wait" /\ Tells(X0, Y, ct.ior) /\ Based(Y.io)
            /\ Away(X0.k, m, t) /\ Away(Y.k, "blip", t) /\ t \in Task
        BY <1>12, <1>14, <3>1, <3>3 DEF Good
      <4>2. X0.k.SigBits[t] \subseteq Y.k.SigBits[t]
        BY <1>1, <1>11, <2>1
      <4> HIDE DEF m, ct
      <4>3. ~Returned(Y.k, "blip", ct, t) /\ ~Returned(X0.k, m, ct, t)
        BY <4>1 DEF Returned
      <4>4. ct.ior \in IOReq /\ IOOwner[ct.ior] = t /\ Informed(X0, m, ct, t)
        BY <4>1, WaitsForOwn
      <4>5. Informed(Y, "blip", ct, t)
        BY <4>1, <4>2, <4>3, <4>4, InformedOn
      <4> QED
        BY <4>5 DEF ct
    <3> QED
      BY <3>2, <3>3 DEF Fits, Aware
  <2>4. \A t \in Task : Fits(Y, "blip", cs[t], t)
    BY <1>9, <2>2, <2>3
  <2>5. mode' = "blip"
    BY <1>16
  <2> QED
    BY <1>5, <1>9, <1>10, <1>11, <1>12, <2>4, <2>5, KeepsInv
<1> QED
  BY <1>15, <1>16

\* Another task gets the processor: it goes on in the SWI in which it slept.
LEMMA SwitchInv ==
  ASSUME IOInv, StartNext \/ SwiRet \/ FirqReturn, SwiRet => call[Me].at = "none",
         io' = io, call' = call
  PROVE  IOInv'
<1> DEFINE Y == [k |-> kb', io |-> io]
           n == mode'
           u == kb'.CurrentTask
<1>1. /\ Me \in Task /\ Me = kb.CurrentTask /\ IInv /\ X0.k = kb /\ X0.io = io /\ X0 \in Pair
      /\ call \in [Task -> CallState] /\ \A t \in Task : Fits(X0, mode, call[t], t)
      /\ Good(X0, IOReq) /\ Clock(X0.io) /\ QuickDone(X0.io, IOReq) /\ io \in IOState
  BY XZero, PairFields DEF IOInv, Calls
<1>2. IInv' /\ kb' \in KernelState /\ u \in Task /\ KInv(kb')
  <2>1. IInv'
    BY <1>1, StartNextInv, SwiRetInv, FirqReturnInv
  <2> QED
    BY <2>1 DEF IInv, KInv
<1>3. Y \in Pair /\ Y.k = kb' /\ Y.io = io
  BY <1>1, <1>2 DEF Pair
<1>4. \/ Launched(kb, kb', n)
      \/ ~StartNext /\ Frozen(kb, kb') /\ u = Me /\ n = "user"
  BY <1>1, SwitchFrame DEF Me
<1>5. kb'.AllocatedSigs = kb.AllocatedSigs
  BY <1>4 DEF Launched, Frozen
<1> HIDE DEF Y
<1>6. Good(Y, IOReq) /\ Clock(Y.io) /\ QuickDone(Y.io, IOReq)
  BY <1>1, <1>2, <1>3, <1>5, OpenPorts DEF Good
<1>7. ASSUME NEW t \in Task PROVE Fits(Y, n, call[t], t)
  <2> DEFINE c == call[t]
  <2>1. Fits(X0, mode, c, t)
    BY <1>1
  <2>2. c.at = "none" \/ Away(kb, mode, t)
    <3>1. ~Away(kb, mode, t) => t = Me /\ mode # "blip"
      BY <1>1 DEF Away
    <3>2. c.at # "none" /\ ~Away(kb, mode, t) => mode = "swi"
      BY <1>1, <2>1 DEF Fits, CallKnown
    <3>3. mode = "swi" => SwiRet
      BY DEF StartNext, FirqReturn
    <3> QED
      BY <3>1, <3>2, <3>3
  <2>3. CASE c.at = "none"
    <3>1. c = NoCall /\ c.by # "wait"
      BY <2>1, <2>3 DEF Fits, CallKnown, NoCall
    <3> QED
      BY <2>3, <3>1 DEF Fits, CallKnown, Aware
  <2>4. CASE c.at # "none"
    <3>1. /\ Away(kb, mode, t) /\ t # Idle /\ Sound(t, c) /\ c.at \in {"woken", "aborted"}
          /\ kb.psr[t] = "super" /\ kb.WaitBits[t] = Awaited(SleepBits(c))
      BY <1>1, <2>1, <2>2, <2>4 DEF Fits, CallKnown
    <3>i. c.by = "wait" => Informed(X0, mode, c, t)
      BY <2>1 DEF Fits, Aware
    <3>g. Got(X0.k, mode, c, t) = kb.SigBits[t]
      BY <1>1, <3>1 DEF Got, Returned
    <3> HIDE DEF c
    <3>2. CASE t # u
      <4>1. /\ kb'.psr[t] = kb.psr[t] /\ kb'.WaitBits[t] = kb.WaitBits[t]
            /\ kb'.SigBits[t] = kb.SigBits[t]
        BY <1>4, <3>2 DEF Launched, Frozen
      <4>2. Away(kb', n, t)
        BY <3>2 DEF Away
      <4>3. CallKnown(Y.k, n, c, t)
        BY <1>3, <2>4, <3>1, <4>1, <4>2 DEF CallKnown
      <4>4. Got(Y.k, n, c, t) = kb.SigBits[t] /\ (Looks(Y.k, n, c, t) <=> Looks(X0.k, mode, c, t))
        BY <1>1, <1>3, <3>1, <4>1, <4>2 DEF Got, Returned, Looks
      <4>5. c.by = "wait" => Informed(Y, n, c, t)
        BY <1>1, <1>3, <3>i, <3>g, <4>1, <4>4 DEF Informed
      <4> QED
        BY <4>3, <4>5 DEF Fits, Aware, c
    <3>3. CASE t = u
      <4>1. Launched(kb, kb', n)
        <5>1. StartNext => Launched(kb, kb', n)
          BY <1>4
        <5>2. mode = "blip" => StartNext
          BY DEF SwiRet, FirqReturn
        <5> QED
          BY <1>1, <1>4, <3>1, <3>3, <5>1, <5>2 DEF Away
      <4>2. /\ n = "swi" /\ kb'.ret = kb.WaitBits[t] \cap kb.SigBits[t]
            /\ kb'.SigBits[t] = kb.SigBits[t] \ kb'.ret
        BY <3>1, <3>3, <4>1 DEF Launched
      <4>3. ~Away(kb', n, t)
        BY <3>3, <4>2 DEF Away
      <4>4. CallKnown(Y.k, n, c, t)
        BY <1>3, <2>4, <3>1, <4>2, <4>3 DEF CallKnown
      <4>5. kb.SigBits[t] \subseteq Got(Y.k, n, c, t) /\ Looks(Y.k, n, c, t)
        BY <1>3, <3>1, <4>2, <4>3 DEF Got, Looks, Returned
      <4>6. c.by = "wait" => Informed(Y, n, c, t)
        BY <1>1, <1>3, <3>i, <3>g, <4>5 DEF Informed
      <4> QED
        BY <4>4, <4>6 DEF Fits, Aware, c
    <3> QED
      BY <3>2, <3>3
  <2> QED
    BY <2>3, <2>4
<1> QED
  BY <1>1, <1>2, <1>3, <1>6, <1>7, KeepsInv

\* A task that makes a SWI is in no other.
LEMMA UserCall ==
  ASSUME IOInv, Swi
  PROVE  /\ mode \in {"user", "swi"} /\ Me # Idle
         /\ call[Me] = NoCall /\ [call EXCEPT ![Me] = NoCall] = call /\ NoCall \in CallState
<1>1. /\ Me \in Task /\ Me = kb.CurrentTask /\ X0.k = kb /\ mode = "user" /\ Me # Idle
      /\ call \in [Task -> CallState] /\ Fits(X0, mode, call[Me], Me)
  BY XZero DEF IOInv, Calls, Swi
<1>2. ~Away(X0.k, mode, Me)
  BY <1>1 DEF Away
<1>3. call[Me] = NoCall
  BY <1>1, <1>2 DEF Fits, CallKnown
<1> QED
  BY <1>1, <1>3 DEF NoCall, CallState

\* A task that goes on in a SWI.
LEMMA InsideCall ==
  ASSUME IOInv, NEW at \in SUBSET {"look", "sleep", "woken", "check", "aborted", "scan"}, NEW by,
         Inside(at, by)
  PROVE  /\ mode = "swi" /\ Me # Idle /\ call[Me].at \in at /\ call[Me].by \in by
         /\ Sound(Me, call[Me]) /\ call[Me] \in CallState /\ Fits(X0, "swi", call[Me], Me)
         /\ NoCall \in CallState /\ call \in [Task -> CallState]
         /\ ~Away(kb, "swi", Me)
<1>1. /\ Me \in Task /\ Me = kb.CurrentTask /\ X0.k = kb /\ mode = "swi"
      /\ call \in [Task -> CallState] /\ Fits(X0, mode, call[Me], Me) /\ call[Me] \in CallState
  BY XZero DEF IOInv, Calls, Inside
<1>2. call[Me].at \in at /\ call[Me].by \in by /\ call[Me].at # "none"
  BY DEF Inside
<1>3. ~Away(kb, "swi", Me)
  BY <1>1 DEF Away
<1> QED
  BY <1>1, <1>2, <1>3 DEF Fits, CallKnown, NoCall, CallState

\* Nothing happens to the requests, and the SWI goes on or returns.
LEMMA NothingDone ==
  ASSUME IOInv, mode \in {"user", "swi"}, Continues(X0, "swi"),
         NEW c \in CallState, call' = [call EXCEPT ![Me] = c],
         c = NoCall \/ (Me # Idle /\ c.at # "none" /\ Sound(Me, c)),
         c.by = "wait" => Informed(X0, "swi", c, Me)
  PROVE  IOInv'
<1>1. /\ X0 \in Pair /\ X0.k = kb /\ X0.io = io /\ Good(X0, IOReq) /\ Clock(X0.io)
      /\ QuickDone(X0.io, IOReq) /\ \A t \in Task : Fits(X0, mode, call[t], t)
  BY XZero
<1>2. Serves(X0, X0)
  BY <1>1, ServesSelf DEF Good
<1>3. Steady(kb, X0.k)
  BY <1>1, <1>2, GrowsSteady DEF Serves
<1>4. \A t \in Task \ {Me} : call[t].by # "wait" \/ Tells(X0, X0, call[t].ior)
  BY <1>1, <1>2, WaitsForOwn DEF Serves
<1>5. kb' = X0.k /\ io' = X0.io /\ mode' = "swi"
  BY DEF Continues
<1> QED
  BY <1>1, <1>3, <1>4, <1>5, SwiGood

LEMMA ReturnGood ==
  ASSUME IOInv, mode \in {"user", "swi"}, Refuse
  PROVE  IOInv'
<1>1. NoCall \in CallState /\ NoCall.by # "wait"
  BY DEF NoCall, CallState
<1>2. Continues(X0, "swi") /\ call' = [call EXCEPT ![Me] = NoCall]
  BY DEF Refuse, Done
<1> QED
  BY <1>1, <1>2, NothingDone

\* A device serves requests, in a SWI that goes on or returns.
LEMMA ServedSwi ==
  ASSUME IOInv, mode \in {"user", "swi"}, NEW Y, Good(Y, IOReq), Clock(Y.io), Serves(X0, Y),
         Continues(Y, "swi"),
         NEW c \in CallState, call' = [call EXCEPT ![Me] = c], c.by # "wait",
         c = NoCall \/ (Me # Idle /\ c.at # "none" /\ Sound(Me, c))
  PROVE  IOInv'
<1>1. X0.k = kb /\ QuickDone(X0.io, IOReq) /\ \A t \in Task : Fits(X0, mode, call[t], t)
  BY XZero
<1>2. Steady(kb, Y.k)
  BY <1>1, GrowsSteady DEF Serves
<1>3. \A t \in Task \ {Me} : call[t].by # "wait" \/ Tells(X0, Y, call[t].ior)
  BY <1>1, WaitsForOwn DEF Serves
<1>4. kb' = Y.k /\ io' = Y.io /\ mode' = "swi" /\ QuickDone(Y.io, IOReq)
  BY <1>1, QuickDoneOn DEF Continues
<1> QED
  BY <1>2, <1>3, <1>4, SwiGood

LEMMA AbortIOInv ==
  ASSUME IOInv, NEW i \in IOReq, AbortIO(i)
  PROVE  IOInv'
<1>1. mode \in {"user", "swi"} /\ NoCall \in CallState
  BY UserCall DEF AbortIO
<1>2. CASE IOOwner[i] # Me
  BY <1>1, <1>2, ReturnGood DEF AbortIO
<1>3. CASE IOOwner[i] = Me
  <2> DEFINE Y == internalAbortIO(X0, i)
  <2>1. Good(Y, IOReq) /\ Clock(Y.io) /\ Serves(X0, Y)
    BY XZero, AbortGood
  <2>2. Continues(Y, "swi") /\ call' = [call EXCEPT ![Me] = NoCall]
    BY <1>3 DEF AbortIO, Done
  <2>3. NoCall.by # "wait"
    BY DEF NoCall
  <2> HIDE DEF Y
  <2> QED
    BY <1>1, <2>1, <2>2, <2>3, ServedSwi
<1> QED
  BY <1>2, <1>3

LEMMA ControlMemInv ==
  ASSUME IOInv, ControlMem
  PROVE  IOInv'
<1> DEFINE c == [at |-> "scan", ior |-> NoIOReq, by |-> "scan"]
<1>1. mode \in {"user", "swi"} /\ Me # Idle
  BY UserCall DEF ControlMem
<1>2. c \in CallState /\ c.by # "wait" /\ c.at # "none" /\ Sound(Me, c)
  BY DEF CallState, Sound
<1>3. Continues(X0, "swi") /\ call' = [call EXCEPT ![Me] = c]
  BY DEF ControlMem, Goes
<1> HIDE DEF c
<1> QED
  BY <1>1, <1>2, <1>3, NothingDone

-----------------------------------------------------------------------------
(* The SWIs that work on a request of the current task *)

\* At most the message and the WAITING flag of i change.
Takes(x, y, i) ==
  /\ SameDevices(x, y) /\ y.SigItem = x.SigItem /\ y.made = x.made
  /\ y.Posted \subseteq x.Posted /\ x.Posted \ {i} \subseteq y.Posted
  /\ \A j \in IOReq \ {i} : y.Flags[j] = x.Flags[j]
  /\ y.Flags[i] \ {"WAITING"} = x.Flags[i] \ {"WAITING"}

LEMMA TakesGood ==
  ASSUME NEW X, NEW Y \in Pair, NEW i \in IOReq, Y.k = X.k, Takes(X.io, Y.io, i),
         Good(X, IOReq), Clock(X.io), QuickDone(X.io, IOReq)
  PROVE  /\ Good(Y, IOReq) /\ Clock(Y.io) /\ QuickDone(Y.io, IOReq)
         /\ \A j \in IOReq \ {i} : Tells(X, Y, j)
<1>1. \A j \in IOReq : /\ "DONE" \in Y.io.Flags[j] <=> "DONE" \in X.io.Flags[j]
                       /\ "QUICK" \in Y.io.Flags[j] <=> "QUICK" \in X.io.Flags[j]
  <2> TAKE j \in IOReq
  <2>1. CASE j = i
    <3>1. Y.io.Flags[i] \ {"WAITING"} = X.io.Flags[i] \ {"WAITING"}
      BY DEF Takes
    <3> QED
      BY <2>1, <3>1
  <2>2. CASE j # i
    BY <2>2 DEF Takes
  <2> QED
    BY <2>1, <2>2
<1>2. SameDevices(X.io, Y.io) /\ Busy(Y.io) = Busy(X.io)
  BY DEF Takes, SameDevices, Busy, Clocked, Driven
<1>3. Lists(Y.io) /\ Clock(Y.io)
  BY <1>2 DEF Good, Lists, SameDevices, Clocked, Driven, Clock, Upward, Set
<1>4. InProgress(Y.io, IOReq) /\ QuickDone(Y.io, IOReq)
  BY <1>1, <1>2 DEF Good, InProgress, QuickDone
<1>5. Based(Y.io)
  BY DEF Good, Based, Takes
<1>6. \A j \in IOReq \ {i} : Tells(X, Y, j)
  BY DEF Takes, Tells
<1> QED
  BY <1>3, <1>4, <1>5, <1>6 DEF Good

\* The task goes on with its own request i, from a state X that devices left.
LEMMA OwnSwi ==
  ASSUME IOInv, mode \in {"user", "swi"}, NEW i \in IOReq, IOOwner[i] = Me,
         NEW Y, Good(Y, IOReq), Clock(Y.io), QuickDone(Y.io, IOReq), Steady(kb, Y.k),
         \A j \in IOReq \ {i} : Tells(X0, Y, j), Continues(Y, "swi"),
         NEW c \in CallState, call' = [call EXCEPT ![Me] = c],
         c = NoCall \/ (Me # Idle /\ c.at # "none" /\ Sound(Me, c)),
         c.by = "wait" => Informed(Y, "swi", c, Me)
  PROVE  IOInv'
<1>1. \A t \in Task : Fits(X0, mode, call[t], t)
  BY XZero
<1>2. \A t \in Task \ {Me} : call[t].by # "wait" \/ Tells(X0, Y, call[t].ior)
  BY <1>1, WaitsForOwn
<1>3. kb' = Y.k /\ io' = Y.io /\ mode' = "swi"
  BY DEF Continues
<1> QED
  BY <1>2, <1>3, SwiGood

\* internalWaitIO starts.
LEMMA EnterWaitGood ==
  ASSUME IOInv, Swi, NEW i \in IOReq, NEW X, i \in X.io.made,
         "QUICK" \notin X.io.Flags[i] => IOOwner[i] = Me,
         Good(X, IOReq), Clock(X.io), QuickDone(X.io, IOReq), Steady(kb, X.k),
         \A j \in IOReq \ {i} : Tells(X0, X, j), IOOwner[i] = Me \/ X = X0,
         EnterWait(X, i)
  PROVE  IOInv'
<1>0. mode \in {"user", "swi"} /\ Me # Idle /\ NoCall \in CallState
  BY UserCall
<1>n. NoCall.by # "wait"
  BY DEF NoCall
<1>1. CASE Has(X, i, "QUICK") /\ IOOwner[i] = Me
  <2>1. Continues(X, "swi") /\ call' = [call EXCEPT ![Me] = NoCall]
    BY <1>1 DEF EnterWait, Done
  <2> QED
    BY <1>0, <1>1, <1>n, <2>1, OwnSwi
<1>2. CASE Has(X, i, "QUICK") /\ IOOwner[i] # Me
  <2>1. X = X0 /\ Refuse
    BY <1>2 DEF EnterWait, Refuse
  <2> QED
    BY <1>0, <2>1, ReturnGood
<1>3. CASE ~Has(X, i, "QUICK")
  <2> DEFINE c == [at |-> "look", ior |-> i, by |-> "wait"]
             W == Marked(X, i, {"WAITING"})
             Y == IF MsgBased(i) THEN X ELSE W
  <2>1. IOOwner[i] = Me /\ X \in Pair /\ {"WAITING"} \in SUBSET IOFlag /\ "QUICK" \notin X.io.Flags[i]
    BY <1>3 DEF Has, Good, IOFlag
  <2>2. Continues(Y, "swi") /\ call' = [call EXCEPT ![Me] = c]
    BY <1>3 DEF EnterWait, Goes
  <2>3. c \in CallState /\ c.at = "look" /\ c.ior = i /\ c.by = "wait" /\ Sound(Me, c)
    BY <2>1 DEF CallState, Sound
  <2> HIDE DEF c
  <2>4. /\ W \in Pair /\ W.k = X.k /\ SameRequests(X.io, W.io)
        /\ W.io.Flags[i] = X.io.Flags[i] \cup {"WAITING"}
        /\ \A j \in IOReq \ {i} : W.io.Flags[j] = X.io.Flags[j]
    BY <2>1, MarkedPair
  <2> HIDE DEF W
  <2>5. Takes(X.io, W.io, i)
    BY <2>4 DEF Takes, SameRequests
  <2>6. /\ Good(W, IOReq) /\ Clock(W.io) /\ QuickDone(W.io, IOReq)
        /\ \A j \in IOReq \ {i} : Tells(X, W, j)
    BY <2>4, <2>5, TakesGood
  <2>7. \A j \in IOReq \ {i} : Tells(X0, W, j)
    <3> TAKE j \in IOReq \ {i}
    <3>1. Tells(X0, X, j) /\ W.k = X.k /\ W.io.Posted = X.io.Posted /\ W.io.made = X.io.made
          /\ W.io.Flags[j] = X.io.Flags[j]
      BY <2>4 DEF SameRequests
    <3> QED
      BY <3>1 DEF Tells
  <2>8. /\ Good(Y, IOReq) /\ Clock(Y.io) /\ QuickDone(Y.io, IOReq) /\ Y.k = X.k
        /\ \A j \in IOReq \ {i} : Tells(X0, Y, j)
        /\ i \in Y.io.made /\ "QUICK" \notin Y.io.Flags[i]
        /\ MsgBased(i) \/ "WAITING" \in Y.io.Flags[i]
    BY <2>1, <2>4, <2>6, <2>7 DEF SameRequests
  <2> HIDE DEF Y
  <2>9. Informed(Y, "swi", c, Me)
    BY <2>3, <2>8 DEF Informed, Looks
  <2> QED
    BY <1>0, <2>1, <2>2, <2>3, <2>8, <2>9, OwnSwi
<1> QED
  BY <1>1, <1>2, <1>3

LEMMA WaitIOInv ==
  ASSUME IOInv, NEW i \in IOReq, WaitIO(i)
  PROVE  IOInv'
<1>1. mode \in {"user", "swi"} /\ Swi /\ i \in io.made
  BY UserCall DEF WaitIO
<1>2. CASE ~Has(X0, i, "QUICK") /\ IOOwner[i] # Me
  BY <1>1, <1>2, ReturnGood DEF WaitIO
<1>3. CASE ~(~Has(X0, i, "QUICK") /\ IOOwner[i] # Me)
  <2>1. /\ X0 \in Pair /\ X0.k = kb /\ X0.io = io /\ Good(X0, IOReq) /\ Clock(X0.io)
        /\ QuickDone(X0.io, IOReq)
    BY XZero
  <2>2. Serves(X0, X0)
    BY <2>1, ServesSelf DEF Good
  <2>3. Steady(kb, X0.k) /\ \A j \in IOReq : Tells(X0, X0, j)
    BY <2>1, <2>2, GrowsSteady DEF Serves
  <2>4. EnterWait(X0, i) /\ ("QUICK" \notin X0.io.Flags[i] => IOOwner[i] = Me)
    BY <1>3 DEF WaitIO, Has
  <2> QED
    BY <1>1, <2>1, <2>3, <2>4, EnterWaitGood
<1> QED
  BY <1>2, <1>3

\* A request of the task is started.
LEMMA StartGood ==
  ASSUME IOInv, Known, NEW i \in IOReq, NEW c \in Cmds[i], NEW quick, StartIO(i)
  PROVE  LET Y == internalSendIO(X0, i, c, quick) IN
         /\ Good(Y, IOReq) /\ Clock(Y.io) /\ QuickDone(Y.io, IOReq) /\ Steady(kb, Y.k)
         /\ \A j \in IOReq \ {i} : Tells(X0, Y, j)
         /\ i \in Y.io.made <=> i \in io.made
         /\ (Device[i] = "timer" /\ quick => Lasts(c)) => Tended(Y, i)
<1> DEFINE F == Renew(X0, i, quick)
           Y == internalSendIO(X0, i, c, quick)
<1>1. /\ X0 \in Pair /\ X0.k = kb /\ X0.io = io /\ Good(X0, IOReq) /\ Clock(X0.io)
      /\ QuickDone(X0.io, IOReq) /\ "DONE" \in X0.io.Flags[i]
  BY XZero DEF StartIO, Has
<1>2. /\ Renewed(X0, F, i) /\ Fresh(F, i) /\ Serves(F, Y)
      /\ Good(Y, IOReq) /\ Clock(Y.io) /\ QuickDone(Y.io, IOReq)
      /\ (Device[i] = "timer" /\ quick => Lasts(c)) => Tended(Y, i)
  BY <1>1, SendGood
<1> HIDE DEF F, Y
<1>3. Steady(kb, Y.k)
  BY <1>1, <1>2, GrowsSteady DEF Serves, Renewed
<1>4. \A j \in IOReq \ {i} : Tells(X0, Y, j)
  <2> TAKE j \in IOReq \ {i}
  <2>1. /\ F.k = X0.k /\ F.io.Posted = X0.io.Posted /\ F.io.made = X0.io.made
        /\ F.io.Flags[j] = X0.io.Flags[j]
    BY <1>2 DEF Renewed, SameRequests
  <2>2. Tells(F, Y, j)
    BY <1>2 DEF Serves
  <2> QED
    BY <2>1, <2>2 DEF Tells
<1>5. i \in Y.io.made <=> i \in io.made
  BY <1>1, <1>2 DEF Renewed, SameRequests, Serves, Tells
<1> QED
  BY <1>2, <1>3, <1>4, <1>5 DEF Y

LEMMA SendIOInv ==
  ASSUME IOInv, Known, NEW i \in IOReq, NEW c \in Cmds[i], SendIO(i, c)
  PROVE  IOInv'
<1>1. mode \in {"user", "swi"} /\ NoCall \in CallState /\ NoCall.by # "wait"
  BY UserCall DEF SendIO, Asks, NoCall
<1>2. CASE ~StartIO(i)
  BY <1>1, <1>2, ReturnGood DEF SendIO
<1>3. CASE StartIO(i)
  <2> DEFINE quick == c.quick
             Y == internalSendIO(X0, i, c, quick)
  <2>1. /\ Good(Y, IOReq) /\ Clock(Y.io) /\ QuickDone(Y.io, IOReq) /\ Steady(kb, Y.k)
        /\ \A j \in IOReq \ {i} : Tells(X0, Y, j)
    BY <1>3, StartGood
  <2>2. Continues(Y, "swi") /\ call' = [call EXCEPT ![Me] = NoCall]
    BY <1>3 DEF SendIO, Done
  <2> HIDE DEF Y
  <2> QED
    BY <1>1, <1>3, <2>1, <2>2, OwnSwi DEF StartIO
<1> QED
  BY <1>2, <1>3

LEMMA DoIOInv ==
  ASSUME IOInv, Known, NEW i \in IOReq, NEW c \in Cmds[i], DoIO(i, c)
  PROVE  IOInv'
<1>1. mode \in {"user", "swi"} /\ NoCall \in CallState /\ NoCall.by # "wait" /\ Swi
      /\ i \in io.made
  BY UserCall DEF DoIO, Asks, NoCall
<1>2. CASE ~StartIO(i)
  BY <1>1, <1>2, ReturnGood DEF DoIO
<1>3. CASE StartIO(i)
  <2> DEFINE Y == internalSendIO(X0, i, c, TRUE)
  <2>1. /\ Good(Y, IOReq) /\ Clock(Y.io) /\ QuickDone(Y.io, IOReq) /\ Steady(kb, Y.k)
        /\ \A j \in IOReq \ {i} : Tells(X0, Y, j)
        /\ i \in Y.io.made <=> i \in io.made
    BY <1>3, StartGood
  <2>2. IOOwner[i] = Me
    BY <1>3 DEF StartIO
  <2>3. IF Deferred(i, c) THEN EnterWait(Y, i) ELSE Done(Y)
    BY <1>3 DEF DoIO
  <2> HIDE DEF Y
  <2>4. CASE Deferred(i, c)
    BY <1>1, <2>1, <2>2, <2>3, <2>4, EnterWaitGood
  <2>5. CASE ~Deferred(i, c)
    <3>1. Continues(Y, "swi") /\ call' = [call EXCEPT ![Me] = NoCall]
      BY <2>3, <2>5 DEF Done
    <3> QED
      BY <1>1, <2>1, <2>2, <3>1, OwnSwi
  <2> QED
    BY <2>4, <2>5
<1> QED
  BY <1>2, <1>3

\* The message of a request is taken from the port, and the owner waits no more.
Received(X, i) == [X EXCEPT !.io.Posted = @ \ {i}]

Awakened(X, i) == [X EXCEPT !.io.Posted = @ \ {i}, !.io.Flags[i] = @ \ {"WAITING"}]

LEMMA ReceivedPair ==
  ASSUME NEW X \in Pair, NEW i \in IOReq
  PROVE  LET Y == Received(X, i) IN Y \in Pair /\ Y.k = X.k /\ Takes(X.io, Y.io, i)
<1> DEFINE Y == Received(X, i)
           p == X.io.Posted \ {i}
           z == [X.io EXCEPT !.Posted = p]
<1>1. /\ X = [k |-> X.k, io |-> X.io] /\ X.k \in KernelState /\ X.io \in IOState
      /\ p \in SUBSET IOReq /\ p \subseteq X.io.Posted /\ X.io.Posted \ {i} \subseteq p
  BY PairFields
<1>2. Y = [X EXCEPT !.io = z]
  BY DEF Received
<1> HIDE DEF p, Y
<1>3. z \in IOState /\ Takes(X.io, z, i)
  BY <1>1 DEF IOState, Takes, SameDevices
<1> HIDE DEF z
<1>4. Y \in Pair /\ Y.k = X.k /\ Y.io = z
  BY <1>1, <1>2, <1>3 DEF Pair
<1> QED
  BY <1>3, <1>4 DEF Y

LEMMA AwakenedPair ==
  ASSUME NEW X \in Pair, NEW i \in IOReq
  PROVE  LET Y == Awakened(X, i) IN Y \in Pair /\ Y.k = X.k /\ Takes(X.io, Y.io, i)
<1> DEFINE Y == Awakened(X, i)
           p == X.io.Posted \ {i}
           F == [X.io.Flags EXCEPT ![i] = X.io.Flags[i] \ {"WAITING"}]
           z == [X.io EXCEPT !.Posted = p, !.Flags = F]
<1>1. /\ X = [k |-> X.k, io |-> X.io] /\ X.k \in KernelState /\ X.io \in IOState
      /\ p \in SUBSET IOReq /\ F \in [IOReq -> SUBSET IOFlag]
      /\ p \subseteq X.io.Posted /\ X.io.Posted \ {i} \subseteq p
      /\ F[i] \ {"WAITING"} = X.io.Flags[i] \ {"WAITING"}
      /\ \A j \in IOReq \ {i} : F[j] = X.io.Flags[j]
  <2>1. X.io.Flags \in [IOReq -> SUBSET IOFlag] /\ X.io.Posted \in SUBSET IOReq
    BY PairFields
  <2> QED
    BY <2>1, PairFields
<1>2. Y = [X EXCEPT !.io = z]
  <2>1. X = [k |-> X.k, io |-> X.io] /\ X.io \in IOState
    BY <1>1
  <2>2. X.io.Flags \in [IOReq -> SUBSET IOFlag]
    BY PairFields
  <2> QED
    BY <2>1, <2>2 DEF Awakened, IOState
<1> HIDE DEF p, F, Y
<1>3. z \in IOState /\ Takes(X.io, z, i)
  BY <1>1 DEF IOState, Takes, SameDevices
<1> HIDE DEF z
<1>4. Y \in Pair /\ Y.k = X.k /\ Y.io = z
  BY <1>1, <1>2, <1>3 DEF Pair
<1> QED
  BY <1>3, <1>4 DEF Y

\* The SWI takes the request of its caller, and returns.
LEMMA TakenInv ==
  ASSUME IOInv, mode \in {"user", "swi"}, NEW i \in IOReq, IOOwner[i] = Me,
         NEW Y \in Pair, Y.k = X0.k, Takes(X0.io, Y.io, i), Done(Y)
  PROVE  IOInv'
<1>1. /\ X0.k = kb /\ Good(X0, IOReq) /\ Clock(X0.io) /\ QuickDone(X0.io, IOReq)
  BY XZero
<1>3. Continues(Y, "swi") /\ call' = [call EXCEPT ![Me] = NoCall]
  BY DEF Done
<1>5. /\ Good(Y, IOReq) /\ Clock(Y.io) /\ QuickDone(Y.io, IOReq)
      /\ \A j \in IOReq \ {i} : Tells(X0, Y, j)
  BY <1>1, TakesGood
<1>6. Steady(kb, Y.k)
  BY <1>1, GrowsSelf, GrowsSteady DEF Good
<1>7. NoCall \in CallState /\ NoCall.by # "wait"
  BY DEF NoCall, CallState
<1> QED
  BY <1>3, <1>5, <1>6, <1>7, OwnSwi

LEMMA GetMsgInv ==
  ASSUME IOInv, NEW i \in IOReq, GetMsg(i)
  PROVE  IOInv'
<1> DEFINE Y == Received(X0, i)
<1>1. mode \in {"user", "swi"} /\ IOOwner[i] = Me /\ X0 \in Pair
  BY UserCall, XZero DEF GetMsg
<1>2. Done(Y)
  BY DEF GetMsg, Received
<1>3. Y \in Pair /\ Y.k = X0.k /\ Takes(X0.io, Y.io, i)
  BY <1>1, ReceivedPair
<1> HIDE DEF Y
<1> QED
  BY <1>1, <1>2, <1>3, TakenInv

LEMMA WaitLooksInv ==
  ASSUME IOInv, WaitLooks
  PROVE  IOInv'
<1> DEFINE i == call[Me].ior
           zap == call[Me].at = "woken" /\ ABORT \in kb.ret
<1>1. /\ mode = "swi" /\ Me # Idle /\ call[Me].at \in {"look", "woken"} /\ call[Me].by = "wait"
      /\ Sound(Me, call[Me]) /\ Fits(X0, "swi", call[Me], Me) /\ ~Away(kb, "swi", Me)
      /\ X0.k = kb /\ X0.io = io /\ Good(X0, IOReq)
  <2> DEFINE at == {"look", "woken"}
             by == {"wait"}
  <2>1. Inside(at, by) /\ at \in SUBSET {"look", "sleep", "woken", "check", "aborted", "scan"}
    BY DEF WaitLooks
  <2> HIDE DEF at, by
  <2>2. /\ mode = "swi" /\ Me # Idle /\ call[Me].at \in at /\ call[Me].by \in by
        /\ Sound(Me, call[Me]) /\ Fits(X0, "swi", call[Me], Me) /\ ~Away(kb, "swi", Me)
    BY <2>1, InsideCall
  <2> QED
    BY <2>2, XZero DEF at, by
<1>2. i \in IOReq /\ IOOwner[i] = Me /\ Informed(X0, "swi", call[Me], Me)
  BY <1>1, WaitsForOwn
<1>3. CASE zap
  <2>1. Refuse
    BY <1>3 DEF WaitLooks, Refuse
  <2> QED
    BY <1>1, <2>1, ReturnGood
<1>4. CASE ~zap /\ WaitOver(i)
  <2> DEFINE Y == Awakened(X0, i)
  <2>1. Done(Y)
    BY <1>4 DEF WaitLooks, Awakened
  <2> HIDE DEF i
  <2>2. Y \in Pair /\ Y.k = X0.k /\ Takes(X0.io, Y.io, i)
    BY <1>2, AwakenedPair, XZero
  <2> HIDE DEF Y
  <2> QED
    BY <1>1, <1>2, <2>1, <2>2, TakenInv
<1>5. CASE ~zap /\ ~WaitOver(i)
  <2> DEFINE c == [at |-> "sleep", ior |-> i, by |-> "wait"]
             d == call[Me]
  <2>1. Continues(X0, "swi") /\ call' = [call EXCEPT ![Me] = c]
    BY <1>5 DEF WaitLooks, Goes
  <2>2. /\ c \in CallState /\ c.by = "wait" /\ c.at = "sleep" /\ c.ior = i
        /\ Sound(Me, c)
    BY <1>2 DEF CallState, Sound
  <2>3. Got(X0.k, "swi", c, Me) = kb.SigBits[Me]
    BY <1>1, <2>2 DEF Got, Returned
  <2>4. ABORT \in Got(X0.k, "swi", d, Me) => ABORT \in kb.SigBits[Me]
    <3>1. CASE d.at = "woken"
      BY <1>1, <1>5, <3>1 DEF Got
    <3>2. CASE d.at # "woken"
      BY <1>1, <3>2 DEF Got, Returned
    <3> QED
      BY <3>1, <3>2
  <2>5. /\ i \notin io.made => ABORT \in Got(X0.k, "swi", d, Me)
        /\ i \in io.made =>
             /\ "QUICK" \notin io.Flags[i] /\ (MsgBased(i) \/ "WAITING" \in io.Flags[i])
             /\ MsgBased(i) /\ d.at # "look" /\ "DONE" \in io.Flags[i] => i \in io.Posted
    BY <1>1, <1>2 DEF Informed
  <2>6. i \in io.made => "DONE" \notin io.Flags[i] /\ i \notin io.Posted
    <3>1. i \in io.Posted => MsgBased(i)
      BY <1>1 DEF Good, Based
    <3>2. /\ MsgBased(i) => i \notin io.Posted /\ ~(d.at = "look" /\ "DONE" \in io.Flags[i])
          /\ ~MsgBased(i) => "DONE" \notin io.Flags[i]
      BY <1>1, <1>5 DEF WaitOver, Has
    <3> QED
      BY <2>5, <3>1, <3>2
  <2> HIDE DEF c, d, i
  <2>7. Informed(X0, "swi", c, Me)
    BY <1>1, <2>2, <2>3, <2>4, <2>5, <2>6 DEF Informed
  <2> QED
    BY <1>1, <2>1, <2>2, <2>7, NothingDone
<1> QED
  BY <1>3, <1>4, <1>5

LEMMA WaitSleepsInv ==
  ASSUME IOInv, WaitSleepsNow
  PROVE  IOInv'
<1> DEFINE i == call[Me].ior
           d == call[Me]
           c == [call[Me] EXCEPT !.at = "woken"]
           bits == WaitBitsOf(i)
<1>1. /\ mode = "swi" /\ Me # Idle /\ d.at = "sleep" /\ d.by = "wait" /\ d \in CallState
      /\ Sound(Me, d) /\ Fits(X0, "swi", d, Me) /\ call \in [Task -> CallState]
  <2> DEFINE at == {"sleep"}
             by == {"wait"}
  <2>1. Inside(at, by) /\ at \in SUBSET {"look", "sleep", "woken", "check", "aborted", "scan"}
    BY DEF WaitSleepsNow
  <2> HIDE DEF at, by
  <2>2. /\ mode = "swi" /\ Me # Idle /\ call[Me].at \in at /\ call[Me].by \in by
        /\ Sound(Me, call[Me]) /\ Fits(X0, "swi", call[Me], Me) /\ call[Me] \in CallState
        /\ call \in [Task -> CallState]
    BY <2>1, InsideCall
  <2> QED
    BY <2>2 DEF at, by
<1>2. /\ X0 \in Pair /\ X0.k = kb /\ X0.io = io /\ Good(X0, IOReq) /\ Clock(X0.io)
      /\ QuickDone(X0.io, IOReq) /\ Me \in Task
  BY XZero
<1>3. i \in IOReq /\ IOOwner[i] = Me /\ Informed(X0, "swi", d, Me)
  BY <1>1, WaitsForOwn
<1>4. bits \in SUBSET Sig /\ bits \subseteq kb.AllocatedSigs[Me]
  <2>1. ReplySig[i] \subseteq kb.AllocatedSigs[Me] /\ SuperSigs \subseteq kb.AllocatedSigs[Me]
    BY <1>2, <1>3 DEF Good, PortsOpen, KInv, Allocated
  <2>2. ReplySig[i] \subseteq UserSigs /\ IODONE \in SuperSigs
    BY <1>3, IOAssumption
  <2> QED
    BY <2>1, <2>2 DEF WaitBitsOf, Sig
<1>5. kb' = internalWait(kb, bits) /\ io' = X0.io
      /\ mode' = (IF WaitSleeps(kb, bits) THEN "blip" ELSE "swi")
      /\ call' = [call EXCEPT ![Me].at = "woken"]
  <2>1. [X0 EXCEPT !.k = internalWait(kb, bits)].k = internalWait(kb, bits)
        /\ [X0 EXCEPT !.k = internalWait(kb, bits)].io = X0.io
    BY <1>2 DEF Pair
  <2> QED
    BY <1>2, <2>1 DEF WaitSleepsNow, Sleeps, Continues
<1>6. call' = [call EXCEPT ![Me] = c]
  BY <1>5
<1>7. /\ c \in CallState /\ c.at = "woken" /\ c.by = "wait" /\ c.ior = i
      /\ Sound(Me, c) /\ bits = SleepBits(c)
  <2>1. c \in CallState /\ c.at = "woken" /\ c.by = "wait" /\ c.ior = i
    BY <1>1 DEF CallState
  <2> HIDE DEF c
  <2> QED
    BY <1>3, <2>1 DEF Sound, SleepBits
<1> HIDE DEF c, i, d, bits
<1>8. /\ i \notin X0.io.made => ABORT \in kb.SigBits[Me]
      /\ i \in X0.io.made =>
           /\ "QUICK" \notin X0.io.Flags[i] /\ (MsgBased(i) \/ "WAITING" \in X0.io.Flags[i])
           /\ MsgBased(i) /\ "DONE" \in X0.io.Flags[i] => i \in X0.io.Posted
           /\ "DONE" \in X0.io.Flags[i] \/ i \in X0.io.Posted
                => WaitBitsOf(i) \cap kb.SigBits[Me] # {}
  <2>1. d.ior = i
    BY DEF d, i
  <2>2. ~Looks(X0.k, "swi", d, Me) /\ Got(X0.k, "swi", d, Me) = kb.SigBits[Me]
    BY <1>1, <1>2 DEF Looks, Got, Returned
  <2> QED
    BY <1>1, <1>2, <1>3, <2>1, <2>2 DEF Informed
<1>9. \A t \in Task \ {Me} : Tells(X0, X0, call[t].ior)
  BY DEF Tells
<1> QED
  BY <1>1, <1>2, <1>4, <1>5, <1>6, <1>7, <1>8, <1>9, SleepGood

LEMMA ProgramWaitsInv ==
  ASSUME IOInv, ProgramWaits
  PROVE  IOInv'
<1> PICK bits \in MayWait : Wait(bits) /\ io' = io /\ call' = call
  BY DEF ProgramWaits
<1>1. bits \in SUBSET Sig
  BY CallAssumption
<1>2. /\ X0 \in Pair /\ X0.k = kb /\ X0.io = io /\ Good(X0, IOReq) /\ Clock(X0.io)
      /\ QuickDone(X0.io, IOReq) /\ Me \in Task
  BY XZero
<1>3. Swi /\ kb' = internalWait(kb, bits) /\ mode' = (IF WaitSleeps(kb, bits) THEN "blip" ELSE "swi")
  BY DEF Wait
<1>4. mode \in {"user", "swi"} /\ Me # Idle /\ call' = [call EXCEPT ![Me] = NoCall]
      /\ NoCall \in CallState
  BY <1>3, UserCall
<1>5. NoCall.by # "wait"
  BY DEF NoCall
<1>6. \A t \in Task \ {Me} : Tells(X0, X0, call[t].ior)
  BY DEF Tells
<1> QED
  BY <1>1, <1>2, <1>3, <1>4, <1>5, <1>6, SleepGood

-----------------------------------------------------------------------------
(* Aborting and deleting *)

\* At most io_SigItem changes.
Renames(x, y) ==
  SameDevices(x, y) /\ y.Flags = x.Flags /\ y.Posted = x.Posted /\ y.made = x.made

LEMMA RenamesGood ==
  ASSUME NEW X, NEW Y \in Pair, Y.k = X.k, Renames(X.io, Y.io),
         Good(X, IOReq), Clock(X.io), QuickDone(X.io, IOReq)
  PROVE  /\ Good(Y, IOReq) /\ Clock(Y.io) /\ QuickDone(Y.io, IOReq)
         /\ \A j : Tells(X, Y, j)
<1>1. Lists(Y.io) /\ Clock(Y.io)
  BY DEF Renames, Good, Lists, SameDevices, Clocked, Driven, Clock, Upward, Set
<1>2. InProgress(Y.io, IOReq) /\ QuickDone(Y.io, IOReq) /\ Based(Y.io)
  BY DEF Renames, SameDevices, Good, InProgress, Busy, Clocked, Driven, QuickDone, Based
<1>3. \A j : Tells(X, Y, j)
  BY DEF Renames, Tells
<1> QED
  BY <1>1, <1>2, <1>3 DEF Good

\* io_SigItem is set.
Named(X, i, t) == [X EXCEPT !.io.SigItem[i] = t]

LEMMA NamedPair ==
  ASSUME NEW X \in Pair, NEW i \in IOReq, NEW t \in Task \cup {NoTask}
  PROVE  LET Y == Named(X, i, t) IN
         /\ Y \in Pair /\ Y.k = X.k /\ Renames(X.io, Y.io)
         /\ Y.io.SigItem[i] = t
         /\ \A j \in IOReq \ {i} : Y.io.SigItem[j] = X.io.SigItem[j]
<1> DEFINE Y == Named(X, i, t)
           g == [X.io.SigItem EXCEPT ![i] = t]
           z == [X.io EXCEPT !.SigItem = g]
<1>1. /\ X = [k |-> X.k, io |-> X.io] /\ X.k \in KernelState /\ X.io \in IOState
      /\ g \in [IOReq -> Task \cup {NoTask}]
      /\ g[i] = t /\ \A j \in IOReq \ {i} : g[j] = X.io.SigItem[j]
  BY PairFields
<1>2. Y = [X EXCEPT !.io = z]
  BY DEF Named
<1> HIDE DEF g, Y
<1>3. z \in IOState /\ Renames(X.io, z) /\ z.SigItem = g
  BY <1>1 DEF IOState, Renames, SameDevices
<1> HIDE DEF z
<1>4. Y \in Pair /\ Y.k = X.k /\ Y.io = z
  BY <1>1, <1>2, <1>3 DEF Pair
<1> QED
  BY <1>1, <1>3, <1>4 DEF Y

\* The item of a request is freed.
Gone(X, i) == [X EXCEPT !.io.made = @ \ {i}, !.io.Posted = @ \ {i}]

\* i is deleted, and all else stays.
Removes(x, y, i) ==
  /\ SameDevices(x, y) /\ y.Flags = x.Flags /\ y.SigItem = x.SigItem
  /\ y.made = x.made \ {i} /\ y.Posted = x.Posted \ {i}

LEMMA GonePair ==
  ASSUME NEW X \in Pair, NEW i \in IOReq
  PROVE  LET Y == Gone(X, i) IN Y \in Pair /\ Y.k = X.k /\ Removes(X.io, Y.io, i)
<1> DEFINE Y == Gone(X, i)
           p == X.io.Posted \ {i}
           m == X.io.made \ {i}
           z == [X.io EXCEPT !.made = m, !.Posted = p]
<1>1. /\ X = [k |-> X.k, io |-> X.io] /\ X.k \in KernelState /\ X.io \in IOState
      /\ p \in SUBSET IOReq /\ m \in SUBSET IOReq
  BY PairFields
<1>2. Y = [X EXCEPT !.io = z]
  <2>1. X = [k |-> X.k, io |-> X.io] /\ X.io \in IOState
    BY <1>1
  <2> QED
    BY <2>1 DEF Gone, IOState
<1> HIDE DEF p, m, Y
<1>3. /\ z \in IOState /\ SameDevices(X.io, z) /\ z.Flags = X.io.Flags
      /\ z.SigItem = X.io.SigItem /\ z.made = m /\ z.Posted = p
  BY <1>1 DEF IOState, SameDevices
<1> HIDE DEF z
<1>4. Y \in Pair /\ Y.k = X.k /\ Y.io = z
  BY <1>1, <1>2, <1>3 DEF Pair
<1> QED
  BY <1>3, <1>4 DEF Removes, Y, p, m

\* The end of internalDeleteIOReq.
LEMMA ZapGood ==
  ASSUME IOInv, NEW X \in Pair, X.k = kb, Renames(io, X.io), NEW i \in IOReq
  PROVE  LET Y == Zapped(X, i) IN
         /\ Good(Y, IOReq) /\ Clock(Y.io) /\ QuickDone(Y.io, IOReq) /\ Grows(kb, Y.k)
         /\ Removes(X.io, Y.io, i)
         /\ \A t \in Task : Y.k.SigBits[t] \subseteq kb.SigBits[t] \cup {ABORT}
         /\ \A t \in Task \ {Me} : \/ call[t].by # "wait"
                                   \/ Tells(X0, Y, call[t].ior)
                                   \/ Informed(Y, "swi", call[t], t)
<1> DEFINE G == Gone(X, i)
           S == Signal(G, IOOwner[i], {ABORT})
           Y == Zapped(X, i)
<1>1. /\ X0.k = kb /\ X0.io = io /\ Good(X0, IOReq) /\ Clock(X0.io) /\ QuickDone(X0.io, IOReq)
      /\ Me \in Task /\ Me = kb.CurrentTask
      /\ \A t \in Task : call[t] \in CallState /\ Fits(X0, mode, call[t], t)
  BY XZero
<1>2. Good(X, IOReq) /\ Clock(X.io) /\ QuickDone(X.io, IOReq)
  BY <1>1, RenamesGood
<1>3. G \in Pair /\ G.k = kb /\ Removes(X.io, G.io, i)
  BY GonePair
<1>4. IOOwner[i] \in Task /\ {ABORT} \in SUBSET Sig /\ {ABORT} \subseteq kb.AllocatedSigs[IOOwner[i]]
      /\ KInv(kb) /\ kb.SigBits \in [Task -> SUBSET Sig]
  <2>1. IOOwner[i] \in Task /\ ABORT \in SuperSigs /\ KInv(kb)
    BY <1>1, IOAssumption, SigAssumption DEF Good
  <2>2. kb \in KernelState
    BY <2>1 DEF KInv
  <2> QED
    BY <2>1, <2>2, Fields DEF KInv, Allocated, Sig
<1>5. Y = IF Waited(X, i) THEN S ELSE G
  BY DEF Zapped, Gone
<1> HIDE DEF G
<1>6. /\ S \in Pair /\ S.io = G.io /\ Grows(kb, S.k)
      /\ S.k.SigBits = [kb.SigBits EXCEPT ![IOOwner[i]] = @ \cup {ABORT}]
  BY <1>3, <1>4, SignalGrows
<1>7. Grows(kb, kb)
  BY <1>4, GrowsSelf
<1>8. ABORT \in S.k.SigBits[IOOwner[i]]
  BY <1>4, <1>6
<1> HIDE DEF S, Y
<1>9. /\ Y \in Pair /\ Grows(kb, Y.k) /\ Removes(X.io, Y.io, i)
      /\ Waited(X, i) => ABORT \in Y.k.SigBits[IOOwner[i]]
      /\ \A t \in Task : Y.k.SigBits[t] \subseteq kb.SigBits[t] \cup {ABORT}
  BY <1>3, <1>4, <1>5, <1>6, <1>7, <1>8
<1>10. Good(Y, IOReq) /\ Clock(Y.io) /\ QuickDone(Y.io, IOReq)
  <2>1. Lists(Y.io) /\ Clock(Y.io)
    BY <1>2, <1>9 DEF Removes, Good, Lists, SameDevices, Clocked, Driven, Clock, Upward, Set
  <2>2. InProgress(Y.io, IOReq) /\ QuickDone(Y.io, IOReq) /\ Based(Y.io)
    BY <1>2, <1>9
       DEF Removes, SameDevices, Good, InProgress, Busy, Clocked, Driven, QuickDone, Based
  <2>3. KInv(Y.k) /\ PortsOpen(Y.k)
    BY <1>1, <1>9, OpenPorts DEF Grows, Good
  <2> QED
    BY <1>9, <2>1, <2>2, <2>3 DEF Good
<1>11. ASSUME NEW t \in Task \ {Me}, call[t].by = "wait"
       PROVE  Tells(X0, Y, call[t].ior) \/ Informed(Y, "swi", call[t], t)
  <2> DEFINE c == call[t]
             j == c.ior
  <2>1. /\ c.at \in {"look", "sleep", "woken"} /\ j \in IOReq /\ IOOwner[j] = t
        /\ Informed(X0, mode, c, t) /\ t # Me /\ c \in CallState
    BY <1>1, <1>11, WaitsForOwn
  <2>2. Away(kb, mode, t) /\ c.at = "woken"
    <3>1. Away(kb, mode, t)
      BY <1>1 DEF Away
    <3> QED
      BY <1>1, <2>1, <3>1 DEF Fits, CallKnown
  <2>3. CASE j # i
    <3>1. /\ Y.io.made = io.made \ {i} /\ Y.io.Posted = io.Posted \ {i} /\ Y.io.Flags = io.Flags
      BY <1>9 DEF Removes, Renames
    <3>2. Tells(X0, Y, j)
      BY <1>1, <2>1, <2>3, <3>1 DEF Tells
    <3> QED
      BY <3>2
  <2>4. CASE j = i
    <3>1. i \notin Y.io.made
      BY <1>9 DEF Removes
    <3>2. ABORT \in Y.k.SigBits[t]
      <4>1. CASE i \notin io.made
        <5>1. ABORT \in Got(X0.k, mode, c, t)
          BY <1>1, <2>1, <2>4, <4>1 DEF Informed
        <5>2. ABORT \in kb.SigBits[t]
          BY <1>1, <2>2, <5>1 DEF Got, Returned
        <5> QED
          BY <1>9, <5>2 DEF Grows
      <4>2. CASE i \in io.made
        <5>1. MsgBased(i) \/ "WAITING" \in X.io.Flags[i]
          BY <1>1, <2>1, <2>4, <4>2 DEF Informed, Renames
        <5>2. c = [at |-> "woken", ior |-> i, by |-> "wait"]
          BY <1>11, <2>1, <2>2, <2>4 DEF CallState
        <5>3. Waited(X, i)
          BY <2>1, <2>4, <5>1, <5>2 DEF Waited, Has
        <5> QED
          BY <1>9, <2>1, <2>4, <5>3
      <4> QED
        BY <4>1, <4>2
    <3>3. ABORT \in Got(Y.k, "swi", c, t)
      BY <3>2 DEF Got
    <3> QED
      BY <2>4, <3>1, <3>3 DEF Informed
  <2> QED
    BY <2>3, <2>4
<1> QED
  BY <1>9, <1>10, <1>11 DEF Y

\* The item is freed, and the SWI returns.
LEMMA ZapInv ==
  ASSUME IOInv, mode \in {"user", "swi"}, NEW X \in Pair, X.k = kb, Renames(io, X.io),
         NEW i \in IOReq, Done(Zapped(X, i))
  PROVE  IOInv'
<1> DEFINE Y == Zapped(X, i)
<1>1. /\ Good(Y, IOReq) /\ Clock(Y.io) /\ QuickDone(Y.io, IOReq) /\ Grows(kb, Y.k)
      /\ \A t \in Task \ {Me} : \/ call[t].by # "wait"
                                \/ Tells(X0, Y, call[t].ior)
                                \/ Informed(Y, "swi", call[t], t)
  BY ZapGood
<1>2. kb' = Y.k /\ io' = Y.io /\ mode' = "swi" /\ call' = [call EXCEPT ![Me] = NoCall]
  BY DEF Done, Continues
<1> HIDE DEF Y
<1>3. Steady(kb, Y.k)
  BY <1>1, GrowsSteady
<1>4. NoCall \in CallState /\ NoCall.by # "wait"
  BY DEF NoCall, CallState
<1> QED
  BY <1>1, <1>2, <1>3, <1>4, SwiGood

\* A task forgets old signals.
LEMMA ClearedSignals ==
  ASSUME NEW X \in Pair, KInv(X.k), NEW bits
  PROVE  LET Y == [X EXCEPT !.k = ClearSignals(@, X.k.CurrentTask, bits)] IN
         /\ Y \in Pair /\ Y.io = X.io /\ Steady(X.k, Y.k)
         /\ Y.k.AllocatedSigs = X.k.AllocatedSigs
         /\ Y.k.SigBits = [X.k.SigBits EXCEPT ![X.k.CurrentTask] = @ \ bits]
         /\ \A t \in Task \ {X.k.CurrentTask} : Y.k.SigBits[t] = X.k.SigBits[t]
<1> DEFINE k == X.k
           t == k.CurrentTask
           r == ClearSignals(k, t, bits)
           Y == [X EXCEPT !.k = ClearSignals(@, X.k.CurrentTask, bits)]
<1>1. /\ X = [k |-> X.k, io |-> X.io] /\ k \in KernelState /\ X.io \in IOState /\ t \in Task
      /\ k.SigBits \in [Task -> SUBSET Sig]
  BY PairFields, Fields DEF KInv
<1>2. KInv(r) /\ r = [k EXCEPT !.SigBits = r.SigBits]
  BY <1>1, ClearLemma
<1>3. r.SigBits = [k.SigBits EXCEPT ![t] = @ \ bits]
  BY <1>1 DEF ClearSignals, KernelState
<1>4. Y = [X EXCEPT !.k = r]
  OBVIOUS
<1> HIDE DEF r, Y, t, k
<1>5. /\ r.CurrentTask = k.CurrentTask /\ r.psr = k.psr /\ r.WaitBits = k.WaitBits
      /\ r.AllocatedSigs = k.AllocatedSigs /\ r.Flags = k.Flags /\ r \in KernelState
      /\ r.TaskReadyQ = k.TaskReadyQ /\ r.Priority = k.Priority
      /\ r.PleaseReschedule = k.PleaseReschedule
  BY <1>1, <1>2 DEF KernelState, KInv
<1>6. \A u \in Task \ {t} : r.SigBits[u] = k.SigBits[u]
  BY <1>1, <1>3
<1>7. Steady(k, r)
  BY <1>2, <1>5, <1>6
     DEF Steady, SameRunner, SameFrames, Asked, Urgent, CurPri, HeadPri, t
<1>8. Y \in Pair /\ Y.io = X.io /\ Y.k = r
  BY <1>1, <1>4, <1>5 DEF Pair, k
<1> QED
  BY <1>3, <1>5, <1>6, <1>7, <1>8 DEF Y, t, k

\* internalAbortIO, and internalWaitAbortedIO starts.
LEMMA AbortAndWaitInv ==
  ASSUME IOInv, mode \in {"user", "swi"}, Me # Idle, NEW i \in IOReq,
         NEW by \in {"delete", "scan"}, AbortAndWait(i, by)
  PROVE  IOInv'
<1> DEFINE X == internalAbortIO(X0, i)
           W == [X EXCEPT !.k = ClearSignals(@, X.k.CurrentTask, {ONESHOT})]
           Y == IF Has(X, i, "QUICK") THEN X ELSE W
           c == [at |-> "check", ior |-> i, by |-> by]
<1>1. /\ X0.k = kb /\ Good(X0, IOReq) /\ Clock(X0.io) /\ QuickDone(X0.io, IOReq)
      /\ Me \in Task /\ Me = kb.CurrentTask
      /\ \A t \in Task : Fits(X0, mode, call[t], t)
  BY XZero
<1>2. Good(X, IOReq) /\ Clock(X.io) /\ Serves(X0, X)
  BY <1>1, AbortGood
<1>3. QuickDone(X.io, IOReq)
  BY <1>1, <1>2, QuickDoneOn
<1>4. X.k.CurrentTask = Me /\ Steady(kb, X.k)
  BY <1>1, <1>2, GrowsSteady DEF Serves, Grows, SameFrames
<1>5. kb' = Y.k /\ io' = Y.io /\ mode' = "swi" /\ call' = [call EXCEPT ![Me] = c]
  BY <1>4 DEF AbortAndWait, Goes, Continues
<1> HIDE DEF X
<1>6. /\ W \in Pair /\ W.io = X.io /\ Steady(X.k, W.k)
      /\ W.k.AllocatedSigs = X.k.AllocatedSigs
      /\ \A t \in Task \ {Me} : W.k.SigBits[t] = X.k.SigBits[t]
  BY <1>2, <1>4, ClearedSignals DEF Good
<1> HIDE DEF W
<1>7. Good(W, IOReq)
  BY <1>2, <1>6, OpenPorts DEF Good, Steady
<1>8. Steady(kb, W.k)
  <2>1. /\ SameFrames(kb, W.k) /\ SameRunner(kb, W.k) /\ (Asked(kb) => Asked(W.k)) /\ KInv(W.k)
    BY <1>4, <1>6 DEF Steady, SameFrames, SameRunner
  <2>2. \A t \in Task \ {Me} : kb.SigBits[t] \subseteq W.k.SigBits[t]
    BY <1>1, <1>4, <1>6 DEF Steady
  <2> QED
    BY <1>1, <2>1, <2>2 DEF Steady
<1>9. ASSUME NEW t \in Task \ {Me} PROVE call[t].by # "wait" \/ Tells(X0, W, call[t].ior)
  <2> SUFFICES ASSUME call[t].by = "wait" PROVE Tells(X0, W, call[t].ior)
    OBVIOUS
  <2>1. call[t].ior \in IOReq /\ IOOwner[call[t].ior] = t
    BY <1>1, WaitsForOwn
  <2>2. Tells(X0, X, call[t].ior)
    BY <1>2, <2>1 DEF Serves
  <2>3. W.k.SigBits[IOOwner[call[t].ior]] = X.k.SigBits[IOOwner[call[t].ior]]
    BY <1>6, <2>1
  <2> QED
    BY <1>6, <2>2, <2>3 DEF Tells
<1>10. \A t \in Task \ {Me} : call[t].by # "wait" \/ Tells(X0, X, call[t].ior)
  BY <1>1, <1>2, WaitsForOwn DEF Serves
<1>11. /\ Good(Y, IOReq) /\ Clock(Y.io) /\ QuickDone(Y.io, IOReq) /\ Steady(kb, Y.k)
       /\ \A t \in Task \ {Me} : call[t].by # "wait" \/ Tells(X0, Y, call[t].ior)
  BY <1>2, <1>3, <1>4, <1>6, <1>7, <1>8, <1>9, <1>10
<1>12. c \in CallState /\ c.at # "none" /\ c.by # "wait" /\ Sound(Me, c)
  BY DEF CallState, Sound
<1> HIDE DEF Y, c
<1> QED
  BY <1>5, <1>11, <1>12, SwiGood

LEMMA DeleteIOReqInv ==
  ASSUME IOInv, NEW i \in IOReq, DeleteIOReq(i)
  PROVE  IOInv'
<1>1. mode \in {"user", "swi"} /\ Me # Idle
  BY UserCall DEF DeleteIOReq
<1>2. CASE Me \notin SuperTask \cup {IOOwner[i]}
  BY <1>1, <1>2, ReturnGood DEF DeleteIOReq
<1>3. CASE ~(Me \notin SuperTask \cup {IOOwner[i]}) /\ Has(X0, i, "DONE")
  <2>1. Done(Zapped(X0, i)) /\ X0 \in Pair /\ X0.k = kb /\ X0.io = io
    BY <1>3, XZero DEF DeleteIOReq
  <2>2. Renames(io, X0.io)
    BY <2>1 DEF Renames, SameDevices
  <2> QED
    BY <1>1, <2>1, <2>2, ZapInv
<1>4. CASE ~(Me \notin SuperTask \cup {IOOwner[i]}) /\ ~Has(X0, i, "DONE")
  <2>1. AbortAndWait(i, "delete")
    BY <1>4 DEF DeleteIOReq
  <2> QED
    BY <1>1, <2>1, AbortAndWaitInv
<1> QED
  BY <1>2, <1>3, <1>4

\* The request is done with.
LEMMA AbortedGoesInv ==
  ASSUME IOInv, mode = "swi", Me # Idle, call[Me].ior \in IOReq,
         NEW X \in Pair, X.k = kb, Renames(io, X.io), AbortedGoes(X)
  PROVE  IOInv'
<1>1. CASE call[Me].by = "delete"
  BY <1>1, ZapInv DEF AbortedGoes
<1>2. CASE call[Me].by # "delete"
  <2> DEFINE c == [at |-> "scan", ior |-> NoIOReq, by |-> "scan"]
  <2>1. c \in CallState /\ c.by # "wait" /\ c.at # "none" /\ Sound(Me, c)
    BY DEF CallState, Sound
  <2>2. kb' = X.k /\ io' = X.io /\ mode' = "swi" /\ call' = [call EXCEPT ![Me] = c]
    BY <1>2 DEF AbortedGoes, Goes, Continues
  <2> HIDE DEF c
  <2>3. /\ X0.k = kb /\ X0.io = io /\ Good(X0, IOReq) /\ Clock(X0.io) /\ QuickDone(X0.io, IOReq)
    BY XZero
  <2>4. /\ Good(X, IOReq) /\ Clock(X.io) /\ QuickDone(X.io, IOReq) /\ \A j : Tells(X0, X, j)
    BY <2>3, RenamesGood
  <2>5. Steady(kb, X.k)
    BY <2>3, GrowsSelf, GrowsSteady DEF Good
  <2> QED
    BY <2>1, <2>2, <2>4, <2>5, SwiGood
<1> QED
  BY <1>1, <1>2

\* The task sleeps until the request is done.
LEMMA AbortedSleepsInv ==
  ASSUME IOInv, mode = "swi", Me # Idle, call[Me].ior \in IOReq, call \in [Task -> CallState],
         call[Me].by \in {"delete", "scan"},
         NEW X \in Pair, X.k = kb, Renames(io, X.io), Sleeps(X, {ONESHOT}, "aborted")
  PROVE  IOInv'
<1> DEFINE c == [call[Me] EXCEPT !.at = "aborted"]
           bits == {ONESHOT}
<1>1. /\ X0.k = kb /\ X0.io = io /\ Good(X0, IOReq) /\ Clock(X0.io) /\ QuickDone(X0.io, IOReq)
      /\ Me \in Task
  BY XZero
<1>2. /\ Good(X, IOReq) /\ Clock(X.io) /\ QuickDone(X.io, IOReq) /\ \A j : Tells(X0, X, j)
  BY <1>1, RenamesGood
<1>3. bits \in SUBSET Sig /\ bits \subseteq kb.AllocatedSigs[Me]
  BY <1>1, IOAssumption DEF Good, KInv, Allocated, Sig
<1>4. kb' = internalWait(kb, bits) /\ io' = X.io
      /\ mode' = (IF WaitSleeps(kb, bits) THEN "blip" ELSE "swi")
      /\ call' = [call EXCEPT ![Me].at = "aborted"]
  <2>1. [X EXCEPT !.k = internalWait(kb, bits)].k = internalWait(kb, bits)
        /\ [X EXCEPT !.k = internalWait(kb, bits)].io = X.io
    BY DEF Pair
  <2> QED
    BY <2>1 DEF Sleeps, Continues
<1>5. call' = [call EXCEPT ![Me] = c]
  BY <1>1, <1>4
<1>6. /\ c \in CallState /\ c.at = "aborted" /\ c.by \in {"delete", "scan"} /\ c.ior \in IOReq
      /\ call[Me] \in CallState
  BY <1>1 DEF CallState
<1> HIDE DEF c, bits
<1>7. Sound(Me, c) /\ bits = SleepBits(c) /\ c.by # "wait"
  BY <1>6 DEF Sound, SleepBits, bits
<1> QED
  BY <1>2, <1>3, <1>4, <1>5, <1>6, <1>7, SleepGood

LEMMA AbortedChecksInv ==
  ASSUME IOInv, AbortedChecks
  PROVE  IOInv'
<1> DEFINE i == call[Me].ior
           at == {"check"}
           by == {"delete", "scan"}
<1>1. Inside(at, by) /\ at \in SUBSET {"look", "sleep", "woken", "check", "aborted", "scan"}
  BY DEF AbortedChecks
<1> HIDE DEF at, by
<1>2. /\ mode = "swi" /\ Me # Idle /\ call[Me].at \in at /\ call[Me].by \in by
      /\ Sound(Me, call[Me]) /\ call \in [Task -> CallState]
  BY <1>1, InsideCall
<1>3. i \in IOReq /\ call[Me].by \in {"delete", "scan"}
  BY <1>2 DEF Sound, at, by
<1>4. X0 \in Pair /\ X0.k = kb /\ X0.io = io /\ Me \in Task
  BY XZero
<1>5. Renames(io, X0.io)
  BY <1>4 DEF Renames, SameDevices
<1>6. CASE io.Flags[i] \cap {"QUICK", "DONE"} # {}
  <2>1. AbortedGoes(X0)
    BY <1>6 DEF AbortedChecks
  <2> QED
    BY <1>2, <1>3, <1>4, <1>5, <2>1, AbortedGoesInv
<1>7. CASE ~(io.Flags[i] \cap {"QUICK", "DONE"} # {})
  <2> DEFINE X == Named(X0, i, Me)
  <2>1. Sleeps(X, {ONESHOT}, "aborted")
    BY <1>7 DEF AbortedChecks, Named
  <2> HIDE DEF i
  <2>2. X \in Pair /\ X.k = kb /\ Renames(io, X.io)
    BY <1>3, <1>4, NamedPair
  <2> HIDE DEF X
  <2> QED
    BY <1>2, <1>3, <2>1, <2>2, AbortedSleepsInv DEF i
<1> QED
  BY <1>6, <1>7

LEMMA AbortedWakesInv ==
  ASSUME IOInv, AbortedWakes
  PROVE  IOInv'
<1> DEFINE i == call[Me].ior
           at == {"aborted"}
           by == {"delete", "scan"}
<1>1. Inside(at, by) /\ at \in SUBSET {"look", "sleep", "woken", "check", "aborted", "scan"}
  BY DEF AbortedWakes
<1> HIDE DEF at, by
<1>2. /\ mode = "swi" /\ Me # Idle /\ call[Me].at \in at /\ call[Me].by \in by
      /\ Sound(Me, call[Me]) /\ call \in [Task -> CallState]
  BY <1>1, InsideCall
<1>3. i \in IOReq /\ call[Me].by \in {"delete", "scan"}
  BY <1>2 DEF Sound, at, by
<1>4. X0 \in Pair /\ X0.k = kb /\ X0.io = io /\ Me \in Task
  BY XZero
<1>5. CASE ONESHOT \in kb.ret
  <2> DEFINE X == Named(X0, i, NoTask)
  <2>1. AbortedGoes(X)
    BY <1>5 DEF AbortedWakes, Named
  <2> HIDE DEF i
  <2>2. X \in Pair /\ X.k = kb /\ Renames(io, X.io)
    BY <1>3, <1>4, NamedPair
  <2> HIDE DEF X
  <2> QED
    BY <1>2, <1>3, <2>1, <2>2, AbortedGoesInv DEF i
<1>6. CASE ONESHOT \notin kb.ret
  <2>1. Sleeps(X0, {ONESHOT}, "aborted")
    BY <1>6 DEF AbortedWakes
  <2>2. Renames(io, X0.io)
    BY <1>4 DEF Renames, SameDevices
  <2> QED
    BY <1>2, <1>3, <1>4, <2>1, <2>2, AbortedSleepsInv
<1> QED
  BY <1>5, <1>6

LEMMA ScansInv ==
  ASSUME IOInv, Scans
  PROVE  IOInv'
<1> DEFINE at == {"scan"}
           by == {"scan"}
<1>1. Inside(at, by) /\ at \in SUBSET {"look", "sleep", "woken", "check", "aborted", "scan"}
  BY DEF Scans
<1> HIDE DEF at, by
<1>2. mode = "swi" /\ Me # Idle
  BY <1>1, InsideCall
<1>3. CASE IntoMemory = {}
  BY <1>2, <1>3, ReturnGood DEF Scans, Refuse
<1>4. CASE IntoMemory # {}
  <2>1. PICK i \in IntoMemory : AbortAndWait(i, "scan")
    BY <1>4 DEF Scans
  <2>2. i \in IOReq
    BY CallAssumption, XZero DEF IntoMemory
  <2> QED
    BY <1>2, <2>1, <2>2, AbortAndWaitInv
<1> QED
  BY <1>3, <1>4

\* A task frees the signal of its metronome, or gets it: no reply port's signal.
LEMMA AllocGood ==
  ASSUME IOInv, Swi, io' = io, call' = call, NEW alloc \in SUBSET Sig, NEW bits \in SUBSET Sig,
         SuperSigs \subseteq alloc, kb.SigBits[Me] \ bits \subseteq alloc,
         \A i \in IOReq : IOOwner[i] = Me => ReplySig[i] \subseteq alloc,
         Return(ClearSignals([kb EXCEPT !.AllocatedSigs[Me] = alloc], Me, bits))
  PROVE  IOInv'
<1> DEFINE k == ClearSignals([kb EXCEPT !.AllocatedSigs[Me] = alloc], Me, bits)
           Y == [k |-> k, io |-> io]
<1>1. /\ Me \in Task /\ Me = kb.CurrentTask /\ X0 \in Pair /\ X0.k = kb /\ X0.io = io
      /\ Good(X0, IOReq) /\ Clock(X0.io) /\ QuickDone(X0.io, IOReq)
  BY XZero
<1>2. mode = "user" /\ KInv(kb) /\ kb \in KernelState /\ Me \notin kb.TaskWaitQ
  BY <1>1 DEF Swi, IOInv, IInv, KInv, Running, Linked
<1>3. KInv(k) /\ SameRunner(kb, k) /\ (Asked(kb) => Asked(k))
  BY <1>1, <1>2, AllocLemma
<1>4. /\ SameFrames(kb, k) /\ k.AllocatedSigs = [kb.AllocatedSigs EXCEPT ![Me] = alloc]
      /\ \A t \in Task \ {Me} : k.SigBits[t] = kb.SigBits[t]
  <2>1. kb.AllocatedSigs \in [Task -> SUBSET Sig] /\ kb.SigBits \in [Task -> SUBSET Sig]
    BY <1>2, Fields
  <2> QED
    BY <1>1, <1>2, <2>1 DEF ClearSignals, KernelState, SameFrames
<1>5. kb' = k /\ mode' = "swi"
  BY DEF Return
<1> HIDE DEF k
<1>6. Steady(kb, k)
  BY <1>1, <1>3, <1>4 DEF Steady
<1>7. PortsOpen(k)
  <2>1. PortsOpen(kb) /\ kb.AllocatedSigs \in [Task -> SUBSET Sig]
    BY <1>2, Fields DEF IOInv
  <2>2. \A i \in IOReq : IOOwner[i] \in Task
    BY IOAssumption
  <2> QED
    BY <1>1, <1>4, <2>1, <2>2 DEF PortsOpen
<1>8. k \in KernelState /\ io \in IOState
  BY <1>1, <1>3, PairFields DEF KInv
<1>9. Y \in Pair /\ Y.k = k /\ Y.io = io
  BY <1>8 DEF Pair
<1> HIDE DEF Y
<1>10. Good(Y, IOReq) /\ Clock(Y.io) /\ QuickDone(Y.io, IOReq)
  BY <1>1, <1>3, <1>7, <1>9 DEF Good
<1>11. /\ mode \in {"user", "swi"} /\ call' = [call EXCEPT ![Me] = NoCall]
       /\ NoCall \in CallState /\ NoCall.by # "wait"
  BY UserCall DEF NoCall
<1>12. \A t \in Task \ {Me} : Tells(X0, Y, call[t].ior)
  BY <1>1, <1>9 DEF Tells
<1> QED
  BY <1>5, <1>6, <1>9, <1>10, <1>11, <1>12, SwiGood

LEMMA PingSignalInv ==
  ASSUME IOInv, PingSignal
  PROVE  IOInv'
<1> DEFINE old == kb.AllocatedSigs[Me]
<1>1. io' = io /\ call' = call /\ Swi
  BY DEF PingSignal, FreeSignal, AllocSignal
<1>2. /\ Me \in Task /\ KInv(kb) /\ kb \in KernelState /\ PortsOpen(kb)
  BY XZero DEF IOInv, IInv, KInv
<1>3. /\ old \in SUBSET Sig /\ kb.SigBits[Me] \subseteq old /\ SuperSigs \subseteq old
      /\ \A i \in IOReq : IOOwner[i] = Me => ReplySig[i] \subseteq old
  BY <1>2, Fields DEF KInv, Allocated, PortsOpen
<1>4. Ping \in SUBSET Sig /\ \A i \in IOReq : ReplySig[i] \cap Ping = {}
  BY IOAssumption DEF Sig
<1>5. CASE Return(kb)
  <2>1. Refuse
    <3>1. kb' = X0.k /\ io' = X0.io /\ mode' = "swi"
      BY <1>1, <1>5, XZero DEF Return
    <3>2. call' = [call EXCEPT ![Me] = NoCall]
      BY <1>1, UserCall
    <3> QED
      BY <3>1, <3>2 DEF Refuse, Done, Continues
  <2> QED
    BY <1>1, <2>1, UserCall, ReturnGood
<1>6. CASE Return(ClearSignals([kb EXCEPT !.AllocatedSigs[Me] = old \ Ping], Me, Ping))
           /\ Ping \cap SuperSigs = {}
  <2> DEFINE alloc == old \ Ping
  <2>1. /\ alloc \in SUBSET Sig /\ SuperSigs \subseteq alloc /\ kb.SigBits[Me] \ Ping \subseteq alloc
        /\ \A i \in IOReq : IOOwner[i] = Me => ReplySig[i] \subseteq alloc
    BY <1>3, <1>4, <1>6
  <2>2. Return(ClearSignals([kb EXCEPT !.AllocatedSigs[Me] = alloc], Me, Ping))
    BY <1>6
  <2> HIDE DEF alloc
  <2> QED
    BY <1>1, <1>4, <2>1, <2>2, AllocGood
<1>7. CASE Return(ClearSignals([kb EXCEPT !.AllocatedSigs[Me] = old \cup Ping], Me, Ping))
  <2> DEFINE alloc == old \cup Ping
  <2>1. /\ alloc \in SUBSET Sig /\ SuperSigs \subseteq alloc /\ kb.SigBits[Me] \ Ping \subseteq alloc
        /\ \A i \in IOReq : IOOwner[i] = Me => ReplySig[i] \subseteq alloc
    BY <1>3, <1>4
  <2>2. Return(ClearSignals([kb EXCEPT !.AllocatedSigs[Me] = alloc], Me, Ping))
    BY <1>7
  <2> HIDE DEF alloc
  <2> QED
    BY <1>1, <1>4, <2>1, <2>2, AllocGood
<1>8. FreeSignal(Ping) \/ AllocSignal(Ping)
  BY DEF PingSignal
<1> QED
  BY <1>5, <1>6, <1>7, <1>8 DEF FreeSignal, AllocSignal

-----------------------------------------------------------------------------
(* Every step keeps the invariant *)

LEMMA IOInitInv == IOInit => IOInv
<1> SUFFICES ASSUME IOInit PROVE IOInv
  OBVIOUS
<1> DEFINE alloc == [t \in Task |-> SuperSigs \cup PortSigs(t)]
<1>1. alloc \in [Task -> SUBSET Sig] /\ \A t \in Task : SuperSigs \subseteq alloc[t]
  BY IOAssumption DEF Sig, PortSigs
<1>2. \A i \in IOReq : ReplySig[i] \subseteq alloc[IOOwner[i]]
  BY IOAssumption DEF PortSigs
<1>3. Started(alloc) /\ io = NewIOReqs /\ call = [t \in Task |-> NoCall]
  BY DEF IOInit
<1> HIDE DEF alloc
<1>4. IInv
  BY <1>1, <1>3, StartedInv
<1>5. PortsOpen(kb)
  <2>1. kb.AllocatedSigs = alloc
    BY <1>3 DEF Started
  <2> QED
    BY <1>2, <2>1 DEF PortsOpen
<1>6. /\ io.made = IOReq /\ io.Posted = {} /\ io.DelayList = <<>> /\ io.MDelayList = <<>>
      /\ io.RequestsToDo = <<>> /\ io.RequestRunning = NoIOReq
      /\ io.Flags = [i \in IOReq |-> {"DONE", "QUICK"}]
  BY <1>3 DEF NewIOReqs
<1>7. io \in IOState
  <2>1. 0 \in 0..MaxTime /\ <<>> \in Seq(IOReq) /\ {"DONE", "QUICK"} \in SUBSET IOFlag
    BY IOAssumption DEF IOFlag
  <2> QED
    BY <1>3, <2>1 DEF NewIOReqs, IOState
<1>8. Requests
  <2>1. DOMAIN <<>> = {} /\ ToSet(<<>>) = {} /\ IsInjective(<<>>)
    BY DEF ToSet, IsInjective
  <2>2. Busy(io) = {} /\ Lists(io)
    BY <1>6, <2>1 DEF Busy, Clocked, Driven, Lists
  <2>3. InProgress(io, IOReq) /\ QuickDone(io, IOReq) /\ Based(io)
    BY <1>6, <2>2 DEF InProgress, QuickDone, Based
  <2>4. Upward(io) /\ Set(io)
    BY <1>6, <2>1 DEF Upward, Rising, Set
  <2> QED
    BY <1>7, <2>2, <2>3, <2>4 DEF Requests
<1>9. Calls
  <2>1. call \in [Task -> CallState] /\ \A t \in Task : call[t] = NoCall
    BY <1>3 DEF NoCall, CallState
  <2>2. \A t \in Task : Fits(X0, mode, NoCall, t)
    BY DEF Fits, CallKnown, Aware, NoCall
  <2> QED
    BY <2>1, <2>2 DEF Calls
<1> QED
  BY <1>4, <1>5, <1>8, <1>9 DEF IOInv

LEMMA IONextInv ==
  ASSUME Known, IOInv, [IONext]_ioVars
  PROVE  IOInv'
<1>1. CASE IOSwi
  <2>1. ASSUME NEW i \in IOReq, NEW c \in Cmds[i], SendIO(i, c) PROVE IOInv'
    BY <2>1, SendIOInv
  <2>2. ASSUME NEW i \in IOReq, NEW c \in Cmds[i], DoIO(i, c) PROVE IOInv'
    BY <2>2, DoIOInv
  <2>3. ASSUME NEW i \in IOReq, WaitIO(i) PROVE IOInv'
    BY <2>3, WaitIOInv
  <2>4. ASSUME NEW i \in IOReq, GetMsg(i) PROVE IOInv'
    BY <2>4, GetMsgInv
  <2>5. ASSUME NEW i \in IOReq, AbortIO(i) PROVE IOInv'
    BY <2>5, AbortIOInv
  <2>6. ASSUME NEW i \in IOReq, DeleteIOReq(i) PROVE IOInv'
    BY <2>6, DeleteIOReqInv
  <2> QED
    BY <1>1, <2>1, <2>2, <2>3, <2>4, <2>5, <2>6, ControlMemInv, ProgramWaitsInv, PingSignalInv
       DEF IOSwi
<1>2. CASE Kernel
  <2>1. CASE WaitLooks \/ WaitSleepsNow \/ AbortedChecks \/ AbortedWakes \/ Scans
    BY <2>1, WaitLooksInv, WaitSleepsInv, AbortedChecksInv, AbortedWakesInv, ScansInv
  <2>2. CASE call[Me].at = "none" /\ SwiRet /\ UNCHANGED <<io, call>>
    BY <2>2, SwitchInv
  <2>3. CASE (StartNext \/ FirqReturn) /\ UNCHANGED <<io, call>>
    <3>1. ~SwiRet
      BY <2>3 DEF StartNext, FirqReturn, SwiRet
    <3> QED
      BY <2>3, <3>1, SwitchInv
  <2> QED
    BY <1>2, <2>1, <2>2, <2>3 DEF Kernel
<1>3. CASE Devices
  BY <1>3, DevicesInv
<1>4. CASE Quantum
  BY <1>4, QuantumInv
<1>5. CASE UNCHANGED ioVars
  <2>1. kb' = kb /\ mode' = mode /\ io' = io /\ call' = call
    BY <1>5 DEF ioVars, vars
  <2>2. X0' = X0 /\ Me' = Me
    BY <2>1 DEF X0, Me
  <2> QED
    BY <2>1, <2>2 DEF IOInv, IInv, Requests, Calls
<1> QED
  BY <1>1, <1>2, <1>3, <1>4, <1>5 DEF IONext

\* The executive's invariant, the drivers' lists and the calls that sleep agree
\* in every reachable state.
THEOREM IOInvariance == Known => (IOSpec => []IOInv)
<1> SUFFICES ASSUME Known PROVE IOSpec => []IOInv
  OBVIOUS
<1>1. IOInv /\ [IONext]_ioVars => IOInv'
  BY IONextInv
<1> QED
  BY <1>1, IOInitInv, PTL DEF IOSpec

\* The hardware timer never counts past the first request of the microsecond
\* list, which is in order, whatever SendIO inserts and AbortIO unlinks while it
\* counts: no delay is late because the timer was set for a longer one.
THEOREM TimerArmedHolds == Known => (IOSpec => []TimerArmed)
<1> SUFFICES ASSUME Known PROVE IOSpec => []TimerArmed
  OBVIOUS
<1>1. IOInv => TimerArmed
  BY DEF IOInv, Requests, Upward, Rising, Set, TimerArmed
<1> QED
  BY <1>1, IOInvariance, PTL

\* A task asleep in WaitIO waits for a request that is in progress: the driver
\* may complete it between any two steps of internalWaitIO, another task may
\* delete it, and the task is told, or has not gone to sleep.
THEOREM WaitsForProgressHolds == Known => (IOSpec => []WaitsForProgress)
<1> SUFFICES ASSUME Known PROVE IOSpec => []WaitsForProgress
  OBVIOUS
<1>1. IOInv => WaitsForProgress
  <2> SUFFICES ASSUME IOInv, NEW t \in Task, SleepsIn(t, {"wait"})
               PROVE  /\ call[t].ior \in io.made \ io.Posted
                      /\ "DONE" \notin io.Flags[call[t].ior]
    BY DEF WaitsForProgress
  <2> DEFINE m == mode
             c == call[t]
             i == c.ior
  <2>1. /\ Fits(X0, m, c, t) /\ X0.k = kb /\ X0.io = io
        /\ t \in kb.TaskWaitQ /\ c.by = "wait"
    BY XZero DEF SleepsIn
  <2>2. Away(kb, m, t) /\ Asleep(kb)
    BY <2>1 DEF Away, IOInv, IInv, KInv, Linked, Running
  <2> HIDE DEF m, c
  <2>3. /\ c.at \in {"look", "sleep", "woken"} /\ Informed(X0, m, c, t)
        /\ SleepBits(c) = WaitBitsOf(c.ior)
    BY <2>1, WaitsForOwn
  <2>4. c.at = "woken" /\ kb.WaitBits[t] = Awaited(WaitBitsOf(i))
    BY <2>1, <2>2, <2>3 DEF Fits, CallKnown
  <2>5. kb.SigBits[t] \cap kb.WaitBits[t] = {}
    BY <2>1, <2>2 DEF Asleep
  <2>6. Got(kb, m, c, t) = kb.SigBits[t] /\ ~Looks(kb, m, c, t)
    BY <2>2, <2>4 DEF Got, Looks, Returned
  <2>7. ABORT \notin kb.SigBits[t] /\ WaitBitsOf(i) \cap kb.SigBits[t] = {}
    BY <2>4, <2>5 DEF Awaited
  <2>8. i \in io.made /\ i \notin io.Posted /\ "DONE" \notin io.Flags[i]
    BY <2>1, <2>3, <2>6, <2>7 DEF Informed
  <2> QED
    BY <2>8 DEF c
<1> QED
  BY <1>1, IOInvariance, PTL


-----------------------------------------------------------------------------
(* The end of an abort *)

\* io_SigItem names a task that sleeps for that request, and SIGF_ONESHOT comes
\* to a task that deletes a request when the request is done.  The timer's are done
\* when they are aborted.
Ends(X, m, c, t) ==
  /\ \A j \in IOReq : X.io.SigItem[j] = t => c.at = "aborted" /\ c.ior = j
  /\ c.by = "delete" =>
       /\ c.ior \in Deletes[t] /\ c.ior \in X.io.made
       /\ ONESHOT \in Got(X.k, m, c, t) => "DONE" \in X.io.Flags[c.ior]
       /\ Device[c.ior] = "timer" => c.at # "aborted" /\ "DONE" \in X.io.Flags[c.ior]

DeletedDone(x) == \A i \in IOReq \ x.made : "DONE" \in x.Flags[i]

DelInv == IOInv /\ DeletedDone(io) /\ \A t \in Task : Ends(X0, mode, call[t], t)

\* A task that sleeps until an aborted request is done is named in io_SigItem
\* until it has SIGF_ONESHOT.
Waits(X, m, c, t) ==
  /\ c.by = "scan" /\ c.at # "scan" => c.ior \in GivesMemory[t] /\ c.ior \in X.io.made
  /\ c.at = "aborted" => \/ ONESHOT \in Got(X.k, m, c, t)
                         \/ /\ "DONE" \notin X.io.Flags[c.ior] /\ "QUICK" \notin X.io.Flags[c.ior]
                            /\ X.io.SigItem[c.ior] = t

OneScans(cs) == \A t, u \in Task : cs[t].by = "scan" /\ cs[u].by = "scan" => t = u

AbortInv == DelInv /\ OneScans(call) /\ \A t \in Task : Waits(X0, mode, call[t], t)

\* What a step of others does to a task t in the call c: io_SigItem does not
\* name it anew, and it gets SIGF_ONESHOT for a request that is done.
Lets(X, Y, c, t) ==
  /\ \A j \in IOReq : Y.io.SigItem[j] = t => X.io.SigItem[j] = t
  /\ ONESHOT \in Y.k.SigBits[t] \ X.k.SigBits[t] =>
       \E j \in IOReq : X.io.SigItem[j] = t /\ "DONE" \in Y.io.Flags[j]
  /\ c.by = "delete" /\ c.ior \in IOReq =>
       /\ c.ior \in X.io.made => c.ior \in Y.io.made
       /\ "DONE" \in X.io.Flags[c.ior] => "DONE" \in Y.io.Flags[c.ior]

\* And io_SigItem names it still, until it has SIGF_ONESHOT.
Leaves(X, Y, c, t) ==
  /\ X.k.SigBits[t] \subseteq Y.k.SigBits[t]
  /\ c.ior \in IOReq =>
       LET i == c.ior IN
       /\ X.io.SigItem[i] = t => Y.io.SigItem[i] = t
       /\ c.by = "scan" /\ i \in X.io.made => i \in Y.io.made
       /\ "QUICK" \in Y.io.Flags[i] => "QUICK" \in X.io.Flags[i] \/ "DONE" \in X.io.Flags[i]
       /\ /\ "DONE" \in Y.io.Flags[i] /\ X.io.SigItem[i] = t
          /\ "DONE" \notin X.io.Flags[i] /\ "QUICK" \notin X.io.Flags[i]
          => ONESHOT \in Y.k.SigBits[t]

LEMMA EndsOn ==
  ASSUME NEW X, NEW m, NEW Y, NEW n, NEW t \in Task, NEW c, Ends(X, m, c, t), Lets(X, Y, c, t),
         ONESHOT \in Got(Y.k, n, c, t) =>
           \/ ONESHOT \in Got(X.k, m, c, t)
           \/ ONESHOT \in Y.k.SigBits[t] \ X.k.SigBits[t]
  PROVE  Ends(Y, n, c, t)
<1>1. ASSUME NEW j \in IOReq, Y.io.SigItem[j] = t PROVE c.at = "aborted" /\ c.ior = j
  BY <1>1 DEF Lets, Ends
<1>2. ASSUME c.by = "delete"
      PROVE  /\ c.ior \in Deletes[t] /\ c.ior \in Y.io.made
             /\ ONESHOT \in Got(Y.k, n, c, t) => "DONE" \in Y.io.Flags[c.ior]
             /\ Device[c.ior] = "timer" => c.at # "aborted" /\ "DONE" \in Y.io.Flags[c.ior]
  <2>1. /\ c.ior \in Deletes[t] /\ c.ior \in X.io.made
        /\ ONESHOT \in Got(X.k, m, c, t) => "DONE" \in X.io.Flags[c.ior]
        /\ Device[c.ior] = "timer" => c.at # "aborted" /\ "DONE" \in X.io.Flags[c.ior]
    BY <1>2 DEF Ends
  <2>2. c.ior \in IOReq
    BY <2>1, CallAssumption
  <2>3. /\ c.ior \in Y.io.made
        /\ "DONE" \in X.io.Flags[c.ior] => "DONE" \in Y.io.Flags[c.ior]
    BY <1>2, <2>1, <2>2 DEF Lets
  <2>4. ASSUME ONESHOT \in Y.k.SigBits[t] \ X.k.SigBits[t] PROVE "DONE" \in Y.io.Flags[c.ior]
    <3>1. PICK j \in IOReq : X.io.SigItem[j] = t /\ "DONE" \in Y.io.Flags[j]
      BY <2>4 DEF Lets
    <3>2. c.ior = j
      BY <3>1 DEF Ends
    <3> QED
      BY <3>1, <3>2
  <2> QED
    BY <2>1, <2>3, <2>4
<1> QED
  BY <1>1, <1>2 DEF Ends

LEMMA WaitsOn ==
  ASSUME NEW X, NEW m, NEW Y, NEW n, NEW t \in Task, NEW c, Waits(X, m, c, t), Leaves(X, Y, c, t),
         ONESHOT \in Got(X.k, m, c, t) => ONESHOT \in Got(Y.k, n, c, t),
         c.at = "aborted" => c.ior \in IOReq
  PROVE  Waits(Y, n, c, t)
<1>1. ASSUME c.by = "scan", c.at # "scan" PROVE c.ior \in GivesMemory[t] /\ c.ior \in Y.io.made
  <2>1. c.ior \in GivesMemory[t] /\ c.ior \in X.io.made
    BY <1>1 DEF Waits
  <2>2. c.ior \in IOReq
    BY <2>1, CallAssumption
  <2> QED
    BY <1>1, <2>1, <2>2 DEF Leaves
<1>2. ASSUME c.at = "aborted", ONESHOT \notin Got(Y.k, n, c, t)
      PROVE  /\ "DONE" \notin Y.io.Flags[c.ior] /\ "QUICK" \notin Y.io.Flags[c.ior]
             /\ Y.io.SigItem[c.ior] = t
  <2>1. ONESHOT \notin Y.k.SigBits[t]
    BY <1>2 DEF Got
  <2>2. /\ "DONE" \notin X.io.Flags[c.ior] /\ "QUICK" \notin X.io.Flags[c.ior]
        /\ X.io.SigItem[c.ior] = t
    BY <1>2 DEF Waits
  <2> QED
    BY <1>2, <2>1, <2>2 DEF Leaves
<1> QED
  BY <1>1, <1>2 DEF Waits

\* A device that completes requests.
LEMMA ServesLets ==
  ASSUME NEW X, NEW Y, Serves(X, Y), NEW t \in Task, NEW c
  PROVE  Lets(X, Y, c, t) /\ Leaves(X, Y, c, t)
<1>0. t # NoTask
  BY TaskAssumption
<1>1. /\ Y.io.SigItem = X.io.SigItem /\ X.k.SigBits[t] \subseteq Y.k.SigBits[t]
      /\ ONESHOT \in Y.k.SigBits[t] \ X.k.SigBits[t] =>
           \E j \in IOReq : X.io.SigItem[j] = t /\ "DONE" \in Y.io.Flags[j]
  BY DEF Serves, Grows, OneShots
<1>2. ASSUME NEW i \in IOReq
      PROVE  /\ i \in X.io.made <=> i \in Y.io.made
             /\ "QUICK" \in Y.io.Flags[i] => "QUICK" \in X.io.Flags[i]
             /\ "DONE" \in X.io.Flags[i] => "DONE" \in Y.io.Flags[i]
             /\ /\ "DONE" \in Y.io.Flags[i] /\ X.io.SigItem[i] = t
                /\ "DONE" \notin X.io.Flags[i] /\ "QUICK" \notin X.io.Flags[i]
                => ONESHOT \in Y.k.SigBits[t]
  BY <1>0 DEF Serves, Tells, TellsAborter
<1> QED
  BY <1>1, <1>2 DEF Lets, Leaves

\* From the view of those who wait for an abort, nothing happens.
Calm(x, y) ==
  /\ y.SigItem = x.SigItem /\ y.made = x.made
  /\ \A j \in IOReq : /\ "DONE" \in y.Flags[j] <=> "DONE" \in x.Flags[j]
                      /\ "QUICK" \in y.Flags[j] <=> "QUICK" \in x.Flags[j]

LEMMA CalmLets ==
  ASSUME NEW X, NEW Y, NEW Z, NEW t, NEW c, Calm(Y.io, Z.io), Z.k.SigBits[t] = Y.k.SigBits[t]
  PROVE  /\ Lets(X, Y, c, t) => Lets(X, Z, c, t)
         /\ Leaves(X, Y, c, t) => Leaves(X, Z, c, t)
<1>1. Lets(X, Y, c, t) => Lets(X, Z, c, t)
  BY DEF Calm, Lets
<1>2. Leaves(X, Y, c, t) => Leaves(X, Z, c, t)
  BY DEF Calm, Leaves
<1> QED
  BY <1>1, <1>2

LEMMA SelfLets ==
  ASSUME NEW X, NEW t, NEW c
  PROVE  Lets(X, X, c, t) /\ Leaves(X, X, c, t)
BY DEF Lets, Leaves

LEMMA TakesCalm ==
  ASSUME NEW x, NEW y, NEW i, Takes(x, y, i)
  PROVE  Calm(x, y)
<1>1. \A j \in IOReq : /\ "DONE" \in y.Flags[j] <=> "DONE" \in x.Flags[j]
                       /\ "QUICK" \in y.Flags[j] <=> "QUICK" \in x.Flags[j]
  <2> TAKE j \in IOReq
  <2>1. CASE j = i
    <3>1. y.Flags[i] \ {"WAITING"} = x.Flags[i] \ {"WAITING"}
      BY DEF Takes
    <3> QED
      BY <2>1, <3>1
  <2>2. CASE j # i
    BY <2>2 DEF Takes
  <2> QED
    BY <2>1, <2>2
<1> QED
  BY <1>1 DEF Takes, Calm

\* What a step has to keep.
LEMMA KeepsEnds ==
  ASSUME IOInv', NEW Y \in Pair, kb' = Y.k, io' = Y.io, NEW n, mode' = n,
         NEW cs, call' = cs, DeletedDone(Y.io), \A t \in Task : Ends(Y, n, cs[t], t)
  PROVE  /\ DelInv'
         /\ OneScans(cs) /\ (\A t \in Task : Waits(Y, n, cs[t], t)) => AbortInv'
<1>1. X0' = Y
  BY PairFields DEF X0
<1>2. DelInv'
  BY <1>1 DEF DelInv
<1>3. OneScans(cs) /\ (\A t \in Task : Waits(Y, n, cs[t], t)) => AbortInv'
  BY <1>1, <1>2 DEF AbortInv
<1> QED
  BY <1>2, <1>3

\* What waiting for an abort knows of the request it is for.
LEMMA AbortedOwn ==
  ASSUME NEW X, NEW m, NEW c, NEW t, Fits(X, m, c, t)
  PROVE  c.at = "aborted" => c.ior \in IOReq /\ c.by \in {"delete", "scan"}
BY DEF Fits, CallKnown, Sound

\* A task that has left the processor deletes a request of its own.
LEMMA DeletesOwn ==
  ASSUME OwnDeletes, NEW X, NEW m, NEW c, NEW t \in Task, Fits(X, m, c, t), Ends(X, m, c, t),
         Away(X.k, m, t), c.by = "delete"
  PROVE  Device[c.ior] = "cdrom" /\ IOOwner[c.ior] = t
<1>1. c.at = "aborted" /\ c.ior \in IOReq /\ c.ior \in Deletes[t] /\ Device[c.ior] # "timer"
  BY CallAssumption DEF Fits, CallKnown, NoCall, Sound, Ends
<1>2. Device[c.ior] = "cdrom"
  BY <1>1, IOAssumption
<1> QED
  BY <1>1, <1>2 DEF OwnDeletes

LEMMA DelZero ==
  ASSUME DelInv
  PROVE  /\ IOInv /\ X0 \in Pair /\ X0.k = kb /\ X0.io = io /\ Me \in Task /\ Me = kb.CurrentTask
         /\ DeletedDone(X0.io) /\ QuickDone(X0.io, IOReq)
         /\ kb \in KernelState /\ KInv(kb) /\ io \in IOState
         /\ call \in [Task -> CallState]
         /\ \A t \in Task : Fits(X0, mode, call[t], t) /\ Ends(X0, mode, call[t], t)
<1>1. IOInv
  BY DEF DelInv
<1>2. /\ X0 \in Pair /\ X0.k = kb /\ X0.io = io /\ Me \in Task /\ Me = kb.CurrentTask
      /\ QuickDone(X0.io, IOReq) /\ \A t \in Task : Fits(X0, mode, call[t], t)
  BY <1>1, XZero
<1>3. kb \in KernelState /\ KInv(kb) /\ io \in IOState /\ call \in [Task -> CallState]
  BY <1>1 DEF IOInv, IInv, KInv, Requests, Calls
<1> QED
  BY <1>1, <1>2, <1>3 DEF DelInv

\* The current task goes on in a SWI, returns from it or sleeps.
LEMMA StayEnds ==
  ASSUME DelInv, IOInv', NEW Y \in Pair, kb' = Y.k, io' = Y.io, NEW n, mode' = n,
         Y.k.CurrentTask = Me, NEW c \in CallState, call' = [call EXCEPT ![Me] = c],
         DeletedDone(Y.io), \A t \in Task \ {Me} : Lets(X0, Y, call[t], t),
         Ends(Y, n, c, Me)
  PROVE  /\ DelInv'
         /\ /\ AbortInv /\ \A t \in Task \ {Me} : Leaves(X0, Y, call[t], t)
            /\ Waits(Y, n, c, Me)
            /\ c.by = "scan" => \A t \in Task \ {Me} : call[t].by # "scan"
            => AbortInv'
<1> DEFINE cs == [call EXCEPT ![Me] = c]
           m == mode
<1>1. /\ Me \in Task /\ X0.k = kb /\ Me = kb.CurrentTask /\ call \in [Task -> CallState]
      /\ \A t \in Task : Fits(X0, m, call[t], t) /\ Ends(X0, m, call[t], t)
  BY DelZero
<1>2. cs[Me] = c /\ \A t \in Task \ {Me} : cs[t] = call[t]
  BY <1>1
<1>3. call' = cs
  OBVIOUS
<1> HIDE DEF cs, m
<1>4. ASSUME NEW t \in Task \ {Me}
      PROVE  /\ Ends(Y, n, call[t], t)
             /\ Waits(X0, m, call[t], t) /\ Leaves(X0, Y, call[t], t) => Waits(Y, n, call[t], t)
  <2> DEFINE ct == call[t]
  <2>0. t \in Task /\ Ends(X0, m, ct, t) /\ Lets(X0, Y, ct, t) /\ Fits(X0, m, ct, t)
    BY <1>1
  <2>1. Got(X0.k, m, ct, t) = X0.k.SigBits[t] /\ Got(Y.k, n, ct, t) = Y.k.SigBits[t]
    BY <1>1 DEF Got, Returned, Away
  <2>2. ct.at = "aborted" => ct.ior \in IOReq
    BY <2>0, AbortedOwn
  <2> HIDE DEF ct
  <2>3. Ends(Y, n, ct, t)
    BY <2>0, <2>1, EndsOn
  <2>4. ASSUME Waits(X0, m, ct, t), Leaves(X0, Y, ct, t) PROVE Waits(Y, n, ct, t)
    <3>1. ONESHOT \in Got(X0.k, m, ct, t) => ONESHOT \in Got(Y.k, n, ct, t)
      BY <2>1, <2>4 DEF Leaves
    <3> QED
      BY <2>0, <2>2, <2>4, <3>1, WaitsOn
  <2> QED
    BY <2>3, <2>4 DEF ct
<1>5. \A t \in Task : Ends(Y, n, cs[t], t)
  BY <1>2, <1>4
<1>6. DelInv'
  BY <1>3, <1>5, KeepsEnds
<1>7. ASSUME AbortInv, \A t \in Task \ {Me} : Leaves(X0, Y, call[t], t), Waits(Y, n, c, Me),
             c.by = "scan" => \A t \in Task \ {Me} : call[t].by # "scan"
      PROVE  AbortInv'
  <2>1. \A t \in Task : Waits(X0, m, call[t], t)
    BY <1>7 DEF AbortInv, m
  <2>2. \A t \in Task : Waits(Y, n, cs[t], t)
    BY <1>2, <1>4, <1>7, <2>1
  <2>3. OneScans(cs)
    BY <1>2, <1>7 DEF AbortInv, OneScans
  <2> QED
    BY <1>3, <1>5, <2>2, <2>3, KeepsEnds
<1> QED
  BY <1>6, <1>7

\* An interrupt.
LEMMA InterruptEnds ==
  ASSUME DelInv, IOInv', NEW Y \in Pair, kb' = Y.k, io' = Y.io, call' = call,
         NEW n, mode' = n, n = "blip" <=> mode = "blip",
         Y.k.CurrentTask = Me, Y.k.ret = X0.k.ret, DeletedDone(Y.io),
         \A t \in Task : Lets(X0, Y, call[t], t) /\ Leaves(X0, Y, call[t], t)
  PROVE  DelInv' /\ (AbortInv => AbortInv')
<1> DEFINE cs == call
           m == mode
<1>1. /\ Me = kb.CurrentTask /\ X0.k = kb
      /\ \A t \in Task : Fits(X0, m, cs[t], t) /\ Ends(X0, m, cs[t], t)
  BY DelZero
<1>2. (n = "blip" <=> m = "blip") /\ call' = cs
      /\ \A t \in Task : Lets(X0, Y, cs[t], t) /\ Leaves(X0, Y, cs[t], t)
  OBVIOUS
<1>a. AbortInv => OneScans(cs) /\ \A t \in Task : Waits(X0, m, cs[t], t)
  BY DEF AbortInv
<1> HIDE DEF cs, m
<1>3. ASSUME NEW t \in Task
      PROVE  Ends(Y, n, cs[t], t) /\ (Waits(X0, m, cs[t], t) => Waits(Y, n, cs[t], t))
  <2> DEFINE c == cs[t]
  <2>0. Ends(X0, m, c, t) /\ Lets(X0, Y, c, t) /\ Leaves(X0, Y, c, t) /\ Fits(X0, m, c, t)
    BY <1>1, <1>2
  <2> HIDE DEF c
  <2>1. Returned(Y.k, n, c, t) <=> Returned(X0.k, m, c, t)
    BY <1>1, <1>2 DEF Returned, Away
  <2>2. \/ /\ Got(X0.k, m, c, t) = X0.k.SigBits[t] \cup X0.k.ret
           /\ Got(Y.k, n, c, t) = Y.k.SigBits[t] \cup X0.k.ret
        \/ Got(X0.k, m, c, t) = X0.k.SigBits[t] /\ Got(Y.k, n, c, t) = Y.k.SigBits[t]
    BY <2>1 DEF Got
  <2>3. Ends(Y, n, c, t)
    BY <2>0, <2>2, EndsOn
  <2>4. ONESHOT \in Got(X0.k, m, c, t) => ONESHOT \in Got(Y.k, n, c, t)
    BY <2>0, <2>2 DEF Leaves
  <2>5. c.at = "aborted" => c.ior \in IOReq
    BY <2>0, AbortedOwn
  <2> QED
    BY <2>0, <2>3, <2>4, <2>5, WaitsOn DEF c
<1> QED
  BY <1>2, <1>3, <1>a, KeepsEnds

\* The deleted requests stay done.
LEMMA DeletedOn ==
  ASSUME NEW X, NEW Y, DeletedDone(X.io),
         \A i \in IOReq : /\ i \in X.io.made => i \in Y.io.made
                          /\ "DONE" \in X.io.Flags[i] /\ i \notin X.io.made => "DONE" \in Y.io.Flags[i]
  PROVE  DeletedDone(Y.io)
BY DEF DeletedDone

LEMMA ServedEnds ==
  ASSUME DelInv, IOInv', NEW Y \in Pair, Serves(X0, Y), Interrupt(Y)
  PROVE  DelInv' /\ (AbortInv => AbortInv')
<1> DEFINE n == FirqMode
<1>1. kb' = Y.k /\ io' = Y.io /\ call' = call /\ mode' = n /\ (n = "blip" <=> mode = "blip")
  BY DEF Interrupt, Continues, FirqMode
<1> HIDE DEF n
<1>2. X0.k = kb /\ Me = kb.CurrentTask /\ DeletedDone(X0.io)
  BY DelZero
<1>3. Y.k.CurrentTask = Me /\ Y.k.ret = X0.k.ret
  BY <1>2 DEF Serves, Grows, SameFrames
<1>4. DeletedDone(Y.io)
  BY <1>2, DeletedOn DEF Serves, Tells
<1>5. \A t \in Task : Lets(X0, Y, call[t], t) /\ Leaves(X0, Y, call[t], t)
  BY ServesLets
<1> QED
  BY <1>1, <1>3, <1>4, <1>5, InterruptEnds

\* An interrupt that completes nothing.
LEMMA CalmEnds ==
  ASSUME DelInv, IOInv', kb'.CurrentTask = Me, kb'.ret = kb.ret, kb'.SigBits = kb.SigBits,
         Calm(io, io'), call' = call,
         NEW n, mode' = n, n = "blip" <=> mode = "blip"
  PROVE  DelInv' /\ (AbortInv => AbortInv')
<1> DEFINE Y == [k |-> kb', io |-> io']
<1>1. X0.k = kb /\ X0.io = io /\ DeletedDone(X0.io)
  BY DelZero
<1>2. kb' \in KernelState /\ io' \in IOState
  BY DEF IOInv, IInv, KInv, Requests
<1>3. Y \in Pair /\ Y.k = kb' /\ Y.io = io'
  BY <1>2 DEF Pair
<1> HIDE DEF Y
<1>4. \A t \in Task : Lets(X0, Y, call[t], t) /\ Leaves(X0, Y, call[t], t)
  <2>1. Calm(X0.io, Y.io) /\ \A t \in Task : Y.k.SigBits[t] = X0.k.SigBits[t]
    BY <1>1, <1>3
  <2> QED
    BY <2>1, CalmLets, SelfLets
<1>5. DeletedDone(Y.io)
  BY <1>1, <1>3 DEF Calm, DeletedDone
<1>6. Y.k.CurrentTask = Me /\ Y.k.ret = X0.k.ret
  BY <1>1, <1>3
<1> QED
  BY <1>3, <1>4, <1>5, <1>6, InterruptEnds

LEMMA DevicesEnds ==
  ASSUME DelInv, IOInv', Devices
  PROVE  DelInv' /\ (AbortInv => AbortInv')
<1>1. Good(X0, IOReq) /\ Clock(X0.io) /\ X0.io = io
  BY DelZero, XZero
<1>2. CASE Tick
  <2> DEFINE m == mode
  <2>1. mode' = m /\ kb' = kb /\ call' = call /\ m = mode
    BY <1>2 DEF Tick
  <2>2. Calm(io, io')
    <3>1. io \in IOState
      BY DelZero
    <3>2. io'.Flags = io.Flags /\ io'.SigItem = io.SigItem /\ io'.made = io.made
      BY <1>2, <3>1 DEF Tick, IOState
    <3> QED
      BY <3>2 DEF Calm
  <2>3. kb'.CurrentTask = Me /\ kb'.ret = kb.ret /\ kb'.SigBits = kb.SigBits
    BY <2>1, DelZero
  <2> HIDE DEF m
  <2> QED
    BY <2>1, <2>2, <2>3, CalmEnds
<1>3. CASE cMtimerInt
  <2> DEFINE Y == reprocess(X0)
  <2>1. Good(Y, IOReq) /\ Serves(X0, Y)
    BY <1>1, ReprocessGood DEF Clock
  <2>2. Interrupt(Y)
    BY <1>3 DEF cMtimerInt
  <2> HIDE DEF Y
  <2> QED
    BY <2>1, <2>2, ServedEnds DEF Good
<1>4. CASE VBlank
  <2> DEFINE Y == ctimerInt(X0)
  <2>1. Good(Y, IOReq) /\ Serves(X0, Y)
    BY <1>1, BlankGood
  <2>2. Interrupt(Y)
    BY <1>4 DEF VBlank
  <2> HIDE DEF Y
  <2> QED
    BY <2>1, <2>2, ServedEnds DEF Good
<1>5. CASE CDStarts
  <2> DEFINE Y == AwaitRequest(X0)
  <2>1. Good(Y, IOReq) /\ Serves(X0, Y)
    BY <1>1, <1>5, AwaitGood DEF CDStarts
  <2>2. Interrupt(Y)
    BY <1>5 DEF CDStarts
  <2> HIDE DEF Y
  <2> QED
    BY <2>1, <2>2, ServedEnds DEF Good
<1>6. CASE CDFinishes
  <2> DEFINE Y == FinishRequest(X0)
  <2>1. Good(Y, IOReq) /\ Serves(X0, Y)
    BY <1>1, <1>6, FinishGood DEF CDFinishes
  <2>2. Interrupt(Y)
    BY <1>6 DEF CDFinishes
  <2> HIDE DEF Y
  <2> QED
    BY <2>1, <2>2, ServedEnds DEF Good
<1> QED
  BY <1>2, <1>3, <1>4, <1>5, <1>6 DEF Devices

LEMMA QuantumEnds ==
  ASSUME DelInv, IOInv', Quantum
  PROVE  DelInv' /\ (AbortInv => AbortInv')
<1> DEFINE n == FirqMode
<1>1. mode' = n /\ (n = "blip" <=> mode = "blip") /\ call' = call /\ io' = io
      /\ kb' = cblank(kb)
  BY DEF Quantum, FirqQuantum, FirqMode
<1> HIDE DEF n
<1>2. kb \in KernelState /\ kb.CurrentTask # NoTask /\ Me = kb.CurrentTask
  BY DelZero, TaskAssumption
<1>3. kb'.CurrentTask = Me /\ kb'.ret = kb.ret /\ kb'.SigBits = kb.SigBits
  BY <1>1, <1>2 DEF cblank, KernelState
<1>4. Calm(io, io')
  BY <1>1 DEF Calm
<1> QED
  BY <1>1, <1>3, <1>4, CalmEnds

-----------------------------------------------------------------------------
(* SWIs that do not abort for their caller *)

LEMMA Unnamed ==
  ASSUME DelInv, call[Me].at # "aborted"
  PROVE  \A j \in IOReq : X0.io.SigItem[j] # Me
BY DelZero DEF Ends

\* The current task goes on with something else than the wait for an abort.
LEMMA FreeSwi ==
  ASSUME DelInv, IOInv', NEW Y \in Pair, kb' = Y.k, io' = Y.io, NEW n, mode' = n,
         Y.k.CurrentTask = Me, NEW c \in CallState, call' = [call EXCEPT ![Me] = c],
         c.at # "aborted", c.by # "delete", c.by = "scan" => c.at = "scan",
         DeletedDone(Y.io), \A j \in IOReq : Y.io.SigItem[j] # Me,
         \A t \in Task \ {Me} : Lets(X0, Y, call[t], t)
  PROVE  /\ DelInv'
         /\ /\ AbortInv /\ \A t \in Task \ {Me} : Leaves(X0, Y, call[t], t)
            /\ c.by = "scan" => \A t \in Task \ {Me} : call[t].by # "scan"
            => AbortInv'
<1>1. Ends(Y, n, c, Me)
  BY DEF Ends
<1>2. Waits(Y, n, c, Me)
  BY DEF Waits
<1> QED
  BY <1>1, <1>2, StayEnds

\* Nothing happens that others wait for.
LEMMA CalmSwi ==
  ASSUME DelInv, IOInv', call[Me].at # "aborted", Calm(io, io'),
         kb'.CurrentTask = Me, \A t \in Task \ {Me} : kb'.SigBits[t] = kb.SigBits[t],
         NEW n, mode' = n, NEW c \in CallState, call' = [call EXCEPT ![Me] = c],
         c.at # "aborted", c.by # "delete", c.by = "scan" => c.at = "scan"
  PROVE  /\ DelInv'
         /\ /\ AbortInv
            /\ c.by = "scan" => \A t \in Task \ {Me} : call[t].by # "scan"
            => AbortInv'
<1> DEFINE Y == [k |-> kb', io |-> io']
<1>1. X0.k = kb /\ X0.io = io /\ DeletedDone(X0.io) /\ \A j \in IOReq : X0.io.SigItem[j] # Me
  BY DelZero, Unnamed
<1>2. kb' \in KernelState /\ io' \in IOState
  BY DEF IOInv, IInv, KInv, Requests
<1>3. Y \in Pair /\ Y.k = kb' /\ Y.io = io'
  BY <1>2 DEF Pair
<1> HIDE DEF Y
<1>4. \A t \in Task \ {Me} : Lets(X0, Y, call[t], t) /\ Leaves(X0, Y, call[t], t)
  <2>1. Calm(X0.io, Y.io) /\ \A t \in Task \ {Me} : Y.k.SigBits[t] = X0.k.SigBits[t]
    BY <1>1, <1>3
  <2> QED
    BY <2>1, CalmLets, SelfLets
<1>5. DeletedDone(Y.io) /\ \A j \in IOReq : Y.io.SigItem[j] # Me
  BY <1>1, <1>3 DEF Calm, DeletedDone
<1> QED
  BY <1>3, <1>4, <1>5, FreeSwi

\* The SWI returns, or does not do more than to wait.
LEMMA QuietSwi ==
  ASSUME DelInv, IOInv', call[Me].at # "aborted", kb' = kb, Calm(io, io'), NEW n, mode' = n,
         NEW c \in CallState, call' = [call EXCEPT ![Me] = c],
         c.by \in {"none", "wait"}, c.at # "aborted"
  PROVE  DelInv' /\ (AbortInv => AbortInv')
BY CalmSwi, DelZero

LEMMA SelfCalm ==
  ASSUME NEW x
  PROVE  Calm(x, x)
BY DEF Calm

LEMMA RefuseEnds ==
  ASSUME DelInv, IOInv', call[Me].at # "aborted", Refuse
  PROVE  DelInv' /\ (AbortInv => AbortInv')
<1> DEFINE n == "swi"
<1>1. kb' = kb /\ io' = io /\ mode' = n /\ call' = [call EXCEPT ![Me] = NoCall]
  BY DelZero DEF Refuse, Done, Continues
<1>2. NoCall \in CallState /\ NoCall.by = "none" /\ NoCall.at = "none" /\ Calm(io, io')
  BY <1>1, SelfCalm DEF NoCall, CallState
<1> HIDE DEF n
<1> QED
  BY <1>1, <1>2, QuietSwi

LEMMA ControlMemEnds ==
  ASSUME DelInv, IOInv', ControlMem
  PROVE  DelInv' /\ (AbortInv => AbortInv')
<1> DEFINE n == "swi"
           c == [at |-> "scan", ior |-> NoIOReq, by |-> "scan"]
<1>1. kb' = kb /\ io' = io /\ mode' = n /\ call' = [call EXCEPT ![Me] = c]
  BY DelZero DEF ControlMem, Goes, Continues
<1>2. c \in CallState /\ c.at = "scan" /\ c.by = "scan" /\ Calm(io, io')
  BY <1>1, SelfCalm DEF CallState
<1>3. call[Me].at # "aborted" /\ \A t \in Task \ {Me} : call[t].by # "scan"
  BY UserCall, DelZero DEF ControlMem, NoCall
<1> HIDE DEF n, c
<1>4. kb'.CurrentTask = Me /\ \A t \in Task \ {Me} : kb'.SigBits[t] = kb.SigBits[t]
  BY <1>1, DelZero
<1> QED
  BY <1>1, <1>2, <1>3, <1>4, CalmSwi

\* The message of a request is taken.
LEMMA TakenEnds ==
  ASSUME DelInv, IOInv', call[Me].at # "aborted", NEW i \in IOReq,
         NEW Y, Y.k = X0.k, Takes(X0.io, Y.io, i), Done(Y)
  PROVE  DelInv' /\ (AbortInv => AbortInv')
<1> DEFINE n == "swi"
<1>1. kb' = kb /\ io' = Y.io /\ mode' = n /\ call' = [call EXCEPT ![Me] = NoCall]
  BY DelZero DEF Done, Continues
<1>2. NoCall \in CallState /\ NoCall.by = "none" /\ NoCall.at = "none"
  BY DEF NoCall, CallState
<1>3. Calm(io, io')
  BY <1>1, DelZero, TakesCalm
<1> HIDE DEF n
<1> QED
  BY <1>1, <1>2, <1>3, QuietSwi

LEMMA GetMsgEnds ==
  ASSUME DelInv, IOInv', NEW i \in IOReq, GetMsg(i)
  PROVE  DelInv' /\ (AbortInv => AbortInv')
<1> DEFINE Y == Received(X0, i)
<1>1. call[Me].at # "aborted" /\ X0 \in Pair
  BY UserCall, DelZero DEF GetMsg, NoCall
<1>2. Done(Y)
  BY DEF GetMsg, Received
<1>3. Y.k = X0.k /\ Takes(X0.io, Y.io, i)
  BY <1>1, ReceivedPair
<1> HIDE DEF Y
<1> QED
  BY <1>1, <1>2, <1>3, TakenEnds

\* internalWait of the current task leaves the others as they are.
LEMMA WaitOthers ==
  ASSUME NEW k \in KernelState, k.CurrentTask \in Task, NEW bits
  PROVE  LET r == internalWait(k, bits) IN
         /\ r.CurrentTask = k.CurrentTask
         /\ \A t \in Task \ {k.CurrentTask} : r.SigBits[t] = k.SigBits[t]
<1>1. CASE ~(bits \subseteq k.AllocatedSigs[k.CurrentTask])
  BY <1>1 DEF internalWait
<1>2. CASE bits \subseteq k.AllocatedSigs[k.CurrentTask]
  <2> DEFINE r == internalWait(k, bits)
             t == k.CurrentTask
             res == Awaited(bits) \cap k.SigBits[t]
  <2>1. /\ r.CurrentTask = t
        /\ res = {} => r.SigBits = k.SigBits
        /\ res # {} => r.SigBits = [k.SigBits EXCEPT ![t] = @ \ res]
    BY <1>2, WaitFrame
  <2>2. k.SigBits \in [Task -> SUBSET Sig]
    BY Fields
  <2> HIDE DEF r, res
  <2> QED
    BY <2>1, <2>2 DEF r
<1> QED
  BY <1>1, <1>2

\* internalWaitIO starts, after the step has come to X.
LEMMA EnterWaitEnds ==
  ASSUME DelInv, IOInv', Swi, NEW i \in IOReq, NEW X \in Pair, X.k.CurrentTask = Me,
         DeletedDone(X.io), \A j \in IOReq : X.io.SigItem[j] # Me,
         \A t \in Task \ {Me} : Lets(X0, X, call[t], t),
         EnterWait(X, i)
  PROVE  /\ DelInv'
         /\ AbortInv /\ (\A t \in Task \ {Me} : Leaves(X0, X, call[t], t)) => AbortInv'
<1> DEFINE n == "swi"
<1>1. CASE Has(X, i, "QUICK")
  <2>1. kb' = X.k /\ io' = X.io /\ mode' = n /\ call' = [call EXCEPT ![Me] = NoCall]
    BY <1>1 DEF EnterWait, Done, Continues
  <2>2. NoCall \in CallState /\ NoCall.by = "none" /\ NoCall.at = "none"
    BY DEF NoCall, CallState
  <2> HIDE DEF n
  <2> QED
    BY <2>1, <2>2, FreeSwi
<1>2. CASE ~Has(X, i, "QUICK")
  <2> DEFINE c == [at |-> "look", ior |-> i, by |-> "wait"]
             W == Marked(X, i, {"WAITING"})
             Y == IF MsgBased(i) THEN X ELSE W
  <2>1. kb' = Y.k /\ io' = Y.io /\ mode' = n /\ call' = [call EXCEPT ![Me] = c]
    BY <1>2 DEF EnterWait, Goes, Continues
  <2>2. c \in CallState /\ c.by = "wait" /\ c.at = "look"
    BY DEF CallState
  <2>3. {"WAITING"} \in SUBSET IOFlag
    BY DEF IOFlag
  <2> HIDE DEF c, n
  <2>4. /\ W \in Pair /\ W.k = X.k /\ SameRequests(X.io, W.io)
        /\ W.io.Flags[i] = X.io.Flags[i] \cup {"WAITING"}
        /\ \A j \in IOReq \ {i} : W.io.Flags[j] = X.io.Flags[j]
    BY <2>3, MarkedPair
  <2> HIDE DEF W
  <2>5. Calm(X.io, W.io)
    <3>1. \A j \in IOReq : W.io.Flags[j] \ {"WAITING"} = X.io.Flags[j] \ {"WAITING"}
      BY <2>4
    <3>2. \A j \in IOReq : /\ "DONE" \in W.io.Flags[j] <=> "DONE" \in X.io.Flags[j]
                           /\ "QUICK" \in W.io.Flags[j] <=> "QUICK" \in X.io.Flags[j]
      BY <3>1
    <3> QED
      BY <2>4, <3>2 DEF Calm, SameRequests
  <2>6. Y \in Pair /\ Y.k = X.k /\ Calm(X.io, Y.io)
    BY <2>4, <2>5, SelfCalm
  <2> HIDE DEF Y
  <2>7. DeletedDone(Y.io) /\ \A j \in IOReq : Y.io.SigItem[j] # Me
    BY <2>6 DEF Calm, DeletedDone
  <2>8. \A t \in Task \ {Me} : /\ Lets(X0, Y, call[t], t)
                               /\ Leaves(X0, X, call[t], t) => Leaves(X0, Y, call[t], t)
    BY <2>6, CalmLets
  <2> QED
    BY <2>1, <2>2, <2>6, <2>7, <2>8, FreeSwi
<1> QED
  BY <1>1, <1>2

LEMMA WaitIOEnds ==
  ASSUME DelInv, IOInv', NEW i \in IOReq, WaitIO(i)
  PROVE  DelInv' /\ (AbortInv => AbortInv')
<1>1. Swi /\ call[Me].at # "aborted"
  BY UserCall, DelZero DEF WaitIO, NoCall
<1>2. CASE ~Has(X0, i, "QUICK") /\ IOOwner[i] # Me
  BY <1>1, <1>2, RefuseEnds DEF WaitIO
<1>3. CASE ~(~Has(X0, i, "QUICK") /\ IOOwner[i] # Me)
  <2>1. EnterWait(X0, i)
    BY <1>3 DEF WaitIO
  <2>2. /\ X0 \in Pair /\ X0.k.CurrentTask = Me /\ DeletedDone(X0.io)
        /\ \A j \in IOReq : X0.io.SigItem[j] # Me
    BY <1>1, DelZero, Unnamed
  <2> QED
    BY <1>1, <2>1, <2>2, SelfLets, EnterWaitEnds
<1> QED
  BY <1>2, <1>3

\* A task inside internalWaitIO.
LEMMA InsideWait ==
  ASSUME DelInv, call[Me].at # "none", call[Me].by = "wait"
  PROVE  /\ call[Me].at # "aborted" /\ call[Me].ior \in IOReq /\ IOOwner[call[Me].ior] = Me
         /\ call[Me] \in CallState
BY DelZero, WaitsForOwn DEF IOInv, Calls

LEMMA WaitLooksEnds ==
  ASSUME DelInv, IOInv', WaitLooks
  PROVE  DelInv' /\ (AbortInv => AbortInv')
<1> DEFINE i == call[Me].ior
           zap == call[Me].at = "woken" /\ ABORT \in kb.ret
<1>1. call[Me].at \in {"look", "woken"} /\ call[Me].by = "wait"
  BY DEF WaitLooks, Inside
<1>2. i \in IOReq /\ call[Me].at # "aborted" /\ call[Me] \in CallState
  BY <1>1, InsideWait
<1>3. CASE zap
  <2>1. Refuse
    BY <1>3 DEF WaitLooks, Refuse
  <2> QED
    BY <1>2, <2>1, RefuseEnds
<1>4. CASE ~zap /\ WaitOver(i)
  <2> DEFINE Y == Awakened(X0, i)
  <2>1. Done(Y)
    BY <1>4 DEF WaitLooks, Awakened
  <2> HIDE DEF i
  <2>2. Y.k = X0.k /\ Takes(X0.io, Y.io, i)
    BY <1>2, AwakenedPair, DelZero
  <2> HIDE DEF Y
  <2> QED
    BY <1>2, <2>1, <2>2, TakenEnds
<1>5. CASE ~zap /\ ~WaitOver(i)
  <2> DEFINE c == [at |-> "sleep", ior |-> i, by |-> "wait"]
             n == "swi"
  <2>1. Continues(X0, n) /\ call' = [call EXCEPT ![Me] = c]
    BY <1>5 DEF WaitLooks, Goes
  <2>2. c \in CallState /\ c.by = "wait" /\ c.at = "sleep"
    BY <1>2 DEF CallState
  <2> HIDE DEF c, n
  <2>3. kb' = kb /\ io' = io /\ mode' = n /\ Calm(io, io')
    BY <2>1, DelZero, SelfCalm DEF Continues
  <2> QED
    BY <1>2, <2>1, <2>2, <2>3, QuietSwi
<1> QED
  BY <1>3, <1>4, <1>5

LEMMA WaitSleepsEnds ==
  ASSUME DelInv, IOInv', WaitSleepsNow
  PROVE  DelInv' /\ (AbortInv => AbortInv')
<1> DEFINE c == [call[Me] EXCEPT !.at = "woken"]
           bits == WaitBitsOf(call[Me].ior)
           n == IF WaitSleeps(kb, bits) THEN "blip" ELSE "swi"
<1>1. call[Me].at = "sleep" /\ call[Me].by = "wait"
  BY DEF WaitSleepsNow, Inside
<1>2. call[Me].at # "aborted" /\ call[Me] \in CallState
  BY <1>1, InsideWait
<1>3. X0 \in Pair /\ X0.k = kb /\ X0.io = io /\ kb \in KernelState /\ Me = kb.CurrentTask /\ Me \in Task
  BY DelZero
<1>4. kb' = internalWait(kb, bits) /\ io' = io /\ mode' = n
      /\ call' = [call EXCEPT ![Me].at = "woken"]
  <2>1. [X0 EXCEPT !.k = internalWait(kb, bits)].k = internalWait(kb, bits)
        /\ [X0 EXCEPT !.k = internalWait(kb, bits)].io = X0.io
    BY <1>3 DEF Pair
  <2> QED
    BY <1>3, <2>1 DEF WaitSleepsNow, Sleeps, Continues
<1>5. call' = [call EXCEPT ![Me] = c] /\ c \in CallState /\ c.at = "woken" /\ c.by = "wait"
  BY <1>1, <1>2, <1>4 DEF CallState
<1> HIDE DEF c, n, bits
<1>6. kb'.CurrentTask = Me /\ \A t \in Task \ {Me} : kb'.SigBits[t] = kb.SigBits[t]
  BY <1>3, <1>4, WaitOthers
<1>7. Calm(io, io')
  BY <1>4, SelfCalm
<1> QED
  BY <1>2, <1>4, <1>5, <1>6, <1>7, CalmSwi

\* A task that makes a SWI is in no call, and after the step in none.
LEMMA IdleCall ==
  ASSUME DelInv, Swi
  PROVE  /\ call[Me].at # "aborted" /\ call[Me] = NoCall /\ [call EXCEPT ![Me] = NoCall] = call
         /\ NoCall \in CallState /\ NoCall.at = "none" /\ NoCall.by = "none"
BY UserCall, DelZero DEF NoCall

LEMMA ProgramWaitsEnds ==
  ASSUME DelInv, IOInv', ProgramWaits
  PROVE  DelInv' /\ (AbortInv => AbortInv')
<1> PICK bits \in MayWait : Wait(bits) /\ io' = io /\ call' = call
  BY DEF ProgramWaits
<1> DEFINE n == IF WaitSleeps(kb, bits) THEN "blip" ELSE "swi"
<1>1. Swi /\ kb' = internalWait(kb, bits) /\ mode' = n
  BY DEF Wait
<1> HIDE DEF n
<1>2. kb \in KernelState /\ Me = kb.CurrentTask /\ Me \in Task
  BY DelZero
<1>3. kb'.CurrentTask = Me /\ \A t \in Task \ {Me} : kb'.SigBits[t] = kb.SigBits[t]
  BY <1>1, <1>2, WaitOthers
<1>4. Calm(io, io')
  BY SelfCalm
<1> QED
  BY <1>1, <1>3, <1>4, IdleCall, CalmSwi

LEMMA PingSignalEnds ==
  ASSUME DelInv, IOInv', PingSignal
  PROVE  DelInv' /\ (AbortInv => AbortInv')
<1> DEFINE n == "swi"
<1>1. io' = io /\ call' = call /\ Swi /\ mode' = n
  BY DEF PingSignal, FreeSignal, AllocSignal, Return
<1>2. /\ Me \in Task /\ kb \in KernelState /\ Me = kb.CurrentTask
      /\ kb.SigBits \in [Task -> SUBSET Sig]
  BY DelZero, Fields
<1>3. ASSUME NEW alloc, kb' = ClearSignals([kb EXCEPT !.AllocatedSigs[Me] = alloc], Me, Ping)
      PROVE  kb'.CurrentTask = Me /\ \A t \in Task \ {Me} : kb'.SigBits[t] = kb.SigBits[t]
  BY <1>2, <1>3 DEF ClearSignals, KernelState
<1>4. kb'.CurrentTask = Me /\ \A t \in Task \ {Me} : kb'.SigBits[t] = kb.SigBits[t]
  <2>1. \/ kb' = kb
        \/ kb' = ClearSignals([kb EXCEPT !.AllocatedSigs[Me] = kb.AllocatedSigs[Me] \ Ping], Me, Ping)
        \/ kb' = ClearSignals([kb EXCEPT !.AllocatedSigs[Me] = kb.AllocatedSigs[Me] \cup Ping], Me, Ping)
    BY DEF PingSignal, FreeSignal, AllocSignal, Return
  <2> QED
    BY <1>2, <1>3, <2>1
<1>5. Calm(io, io')
  BY <1>1, SelfCalm
<1> HIDE DEF n
<1> QED
  BY <1>1, <1>4, <1>5, IdleCall, CalmSwi

\* A device serves requests in a SWI, which returns.
LEMMA ServedReturns ==
  ASSUME DelInv, IOInv', call[Me].at # "aborted", NEW Y \in Pair, Serves(X0, Y), Done(Y)
  PROVE  DelInv' /\ (AbortInv => AbortInv')
<1> DEFINE n == "swi"
<1>1. kb' = Y.k /\ io' = Y.io /\ mode' = n /\ call' = [call EXCEPT ![Me] = NoCall]
  BY DEF Done, Continues
<1>2. NoCall \in CallState /\ NoCall.by = "none" /\ NoCall.at = "none"
  BY DEF NoCall, CallState
<1>3. /\ X0.k = kb /\ Me = kb.CurrentTask /\ DeletedDone(X0.io)
      /\ \A j \in IOReq : X0.io.SigItem[j] # Me
  BY DelZero, Unnamed
<1>4. Y.k.CurrentTask = Me /\ \A j \in IOReq : Y.io.SigItem[j] # Me
  BY <1>3 DEF Serves, Grows, SameFrames
<1>5. DeletedDone(Y.io)
  BY <1>3, DeletedOn DEF Serves, Tells
<1>6. \A t \in Task \ {Me} : Lets(X0, Y, call[t], t) /\ Leaves(X0, Y, call[t], t)
  BY ServesLets
<1> HIDE DEF n
<1> QED
  BY <1>1, <1>2, <1>4, <1>5, <1>6, FreeSwi

LEMMA AbortIOEnds ==
  ASSUME DelInv, IOInv', NEW i \in IOReq, AbortIO(i)
  PROVE  DelInv' /\ (AbortInv => AbortInv')
<1>1. Swi /\ call[Me].at # "aborted"
  BY IdleCall DEF AbortIO
<1>2. CASE IOOwner[i] # Me
  BY <1>1, <1>2, RefuseEnds DEF AbortIO
<1>3. CASE IOOwner[i] = Me
  <2> DEFINE Y == internalAbortIO(X0, i)
  <2>1. Done(Y)
    BY <1>3 DEF AbortIO
  <2>2. Good(Y, IOReq) /\ Serves(X0, Y)
    BY DelZero, XZero, AbortGood
  <2> HIDE DEF Y
  <2> QED
    BY <1>1, <2>1, <2>2, ServedReturns DEF Good
<1> QED
  BY <1>2, <1>3

\* A request is started: those who wait for the end of another see nothing of
\* it, and who waited for this one has its SIGF_ONESHOT.
LEMMA StartLets ==
  ASSUME DelInv, Known, OwnDeletes, NEW i \in IOReq, NEW c \in Cmds[i], NEW quick, StartIO(i)
  PROVE  LET Y == internalSendIO(X0, i, c, quick) IN
         /\ Y \in Pair /\ Y.k.CurrentTask = Me /\ (i \in io.made => DeletedDone(Y.io))
         /\ Y.io.SigItem = X0.io.SigItem
         /\ \A t \in Task \ {Me} : Lets(X0, Y, call[t], t) /\ Leaves(X0, Y, call[t], t)
<1> DEFINE F == Renew(X0, i, quick)
           Y == internalSendIO(X0, i, c, quick)
<1>1. /\ X0 \in Pair /\ X0.k = kb /\ X0.io = io /\ Good(X0, IOReq) /\ Clock(X0.io)
      /\ "DONE" \in X0.io.Flags[i] /\ IOOwner[i] = Me /\ Me = kb.CurrentTask
      /\ DeletedDone(X0.io)
  BY DelZero, XZero DEF StartIO, Has
<1>2. Renewed(X0, F, i) /\ Serves(F, Y) /\ Good(Y, IOReq)
  BY <1>1, SendGood
<1> HIDE DEF F, Y
<1>3. /\ F.k = X0.k /\ F.io.SigItem = X0.io.SigItem /\ F.io.made = X0.io.made
      /\ \A j \in IOReq \ {i} : F.io.Flags[j] = X0.io.Flags[j]
  BY <1>2 DEF Renewed, SameRequests
<1>4. /\ Y.io.SigItem = X0.io.SigItem /\ OneShots(F, Y) /\ Y.k.CurrentTask = Me
      /\ \A t \in Task : X0.k.SigBits[t] \subseteq Y.k.SigBits[t]
  BY <1>1, <1>2, <1>3 DEF Serves, Grows, SameFrames
<1>5. ASSUME NEW j \in IOReq
      PROVE  /\ j \in X0.io.made <=> j \in Y.io.made
             /\ j # i => /\ "QUICK" \in Y.io.Flags[j] => "QUICK" \in X0.io.Flags[j]
                         /\ "DONE" \in X0.io.Flags[j] => "DONE" \in Y.io.Flags[j]
                         /\ /\ "DONE" \in Y.io.Flags[j] /\ "DONE" \notin X0.io.Flags[j]
                            /\ "QUICK" \notin X0.io.Flags[j] /\ X0.io.SigItem[j] # NoTask
                            => ONESHOT \in Y.k.SigBits[X0.io.SigItem[j]]
  <2>1. Tells(F, Y, j) /\ TellsAborter(F, Y, j)
    BY <1>2 DEF Serves
  <2> QED
    BY <1>3, <2>1 DEF Tells, TellsAborter
<1>6. i \in io.made => DeletedDone(Y.io)
  BY <1>1, <1>5 DEF DeletedDone
<1>7. ASSUME NEW t \in Task \ {Me} PROVE Lets(X0, Y, call[t], t) /\ Leaves(X0, Y, call[t], t)
  <2> DEFINE m == mode
             d == call[t]
  <2>1. Ends(X0, m, d, t) /\ Fits(X0, m, d, t) /\ t # NoTask /\ Away(X0.k, m, t)
    BY <1>1, DelZero, TaskAssumption DEF Away
  <2> HIDE DEF d, m
  <2>2. d.by = "delete" => d.ior # i
    BY <1>1, <2>1, DeletesOwn
  <2>3. ONESHOT \in Y.k.SigBits[t] \ X0.k.SigBits[t] =>
          \E j \in IOReq : X0.io.SigItem[j] = t /\ "DONE" \in Y.io.Flags[j]
    BY <1>3, <1>4 DEF OneShots
  <2>4. Lets(X0, Y, d, t)
    BY <1>4, <1>5, <2>2, <2>3 DEF Lets
  <2>5. Leaves(X0, Y, d, t)
    BY <1>1, <1>4, <1>5, <2>1 DEF Leaves
  <2> QED
    BY <2>4, <2>5 DEF d
<1> QED
  BY <1>2, <1>4, <1>6, <1>7 DEF Good, Y

LEMMA SendIOEnds ==
  ASSUME DelInv, IOInv', Known, OwnDeletes, NEW i \in IOReq, NEW c \in Cmds[i], SendIO(i, c)
  PROVE  DelInv' /\ (AbortInv => AbortInv')
<1>1. Swi /\ call[Me].at # "aborted" /\ i \in io.made
  BY IdleCall DEF SendIO, Asks
<1>2. CASE ~StartIO(i)
  BY <1>1, <1>2, RefuseEnds DEF SendIO
<1>3. CASE StartIO(i)
  <2> DEFINE quick == c.quick
             Y == internalSendIO(X0, i, c, quick)
             n == "swi"
  <2>1. kb' = Y.k /\ io' = Y.io /\ mode' = n /\ call' = [call EXCEPT ![Me] = NoCall]
    BY <1>3 DEF SendIO, Done, Continues
  <2>2. /\ Y \in Pair /\ Y.k.CurrentTask = Me /\ DeletedDone(Y.io)
        /\ Y.io.SigItem = X0.io.SigItem
        /\ \A t \in Task \ {Me} : Lets(X0, Y, call[t], t) /\ Leaves(X0, Y, call[t], t)
    BY <1>1, <1>3, StartLets
  <2> HIDE DEF Y, n
  <2>3. \A j \in IOReq : Y.io.SigItem[j] # Me
    BY <1>1, <2>2, Unnamed
  <2> QED
    BY <1>1, <2>1, <2>2, <2>3, IdleCall, FreeSwi
<1> QED
  BY <1>2, <1>3

LEMMA DoIOEnds ==
  ASSUME DelInv, IOInv', Known, OwnDeletes, NEW i \in IOReq, NEW c \in Cmds[i], DoIO(i, c)
  PROVE  DelInv' /\ (AbortInv => AbortInv')
<1>1. Swi /\ call[Me].at # "aborted" /\ i \in io.made
  BY IdleCall DEF DoIO, Asks
<1>2. CASE ~StartIO(i)
  BY <1>1, <1>2, RefuseEnds DEF DoIO
<1>3. CASE StartIO(i)
  <2> DEFINE Y == internalSendIO(X0, i, c, TRUE)
             n == "swi"
  <2>1. /\ Y \in Pair /\ Y.k.CurrentTask = Me /\ DeletedDone(Y.io)
        /\ Y.io.SigItem = X0.io.SigItem
        /\ \A t \in Task \ {Me} : Lets(X0, Y, call[t], t) /\ Leaves(X0, Y, call[t], t)
    BY <1>1, <1>3, StartLets
  <2>2. IF Deferred(i, c) THEN EnterWait(Y, i) ELSE Done(Y)
    BY <1>3 DEF DoIO
  <2> HIDE DEF Y
  <2>3. \A j \in IOReq : Y.io.SigItem[j] # Me
    BY <1>1, <2>1, Unnamed
  <2>4. CASE Deferred(i, c)
    BY <1>1, <2>1, <2>2, <2>3, <2>4, EnterWaitEnds
  <2>5. CASE ~Deferred(i, c)
    <3>1. kb' = Y.k /\ io' = Y.io /\ mode' = n /\ call' = [call EXCEPT ![Me] = NoCall]
      BY <2>2, <2>5 DEF Done, Continues
    <3> HIDE DEF n
    <3> QED
      BY <1>1, <2>1, <2>3, <3>1, IdleCall, FreeSwi
  <2> QED
    BY <2>4, <2>5
<1> QED
  BY <1>2, <1>3

-----------------------------------------------------------------------------
(* Aborting and deleting *)

\* Two tasks do not wait for the end of the same abort.
LEMMA NotBoth ==
  ASSUME AbortInv, OwnDeletes, Apart, NEW t \in Task \ {Me},
         call[Me].by \in {"delete", "scan"}, call[Me].at # "scan",
         call[t].by \in {"delete", "scan"}, call[t].at # "scan"
  PROVE  call[t].ior # call[Me].ior
<1> DEFINE m == mode
           c == call[t]
<1>1. DelInv /\ OneScans(call) /\ Me \in Task /\ Me = kb.CurrentTask /\ X0.k = kb
  BY DelZero DEF AbortInv
<1>2. \A u \in Task : /\ call[u].by = "delete" => call[u].ior \in Deletes[u]
                      /\ call[u].by = "scan" /\ call[u].at # "scan" => call[u].ior \in GivesMemory[u]
  BY <1>1, DelZero DEF Ends, AbortInv, Waits
<1>3. ~(call[Me].by = "scan" /\ call[t].by = "scan")
  BY <1>1 DEF OneScans
<1>4. call[t].by = "delete" => Device[call[t].ior] = "cdrom" /\ IOOwner[call[t].ior] = t
  <2>1. Fits(X0, m, c, t) /\ Ends(X0, m, c, t) /\ Away(X0.k, m, t)
    BY <1>1, DelZero DEF Away
  <2> HIDE DEF m, c
  <2>2. c.by = "delete" => Device[c.ior] = "cdrom" /\ IOOwner[c.ior] = t
    BY <2>1, DeletesOwn
  <2> QED
    BY <2>2 DEF c
<1> QED
  BY <1>1, <1>2, <1>3, <1>4 DEF OwnDeletes, Apart

\* The end of a deletion, after the step has come to X.
LEMMA ZapLets ==
  ASSUME DelInv, OwnDeletes, NEW X \in Pair, X.k = kb, Renames(io, X.io),
         NEW i \in IOReq, i \in Deletes[Me], "DONE" \in io.Flags[i],
         NEW t \in Task \ {Me}, Lets(X0, X, call[t], t)
  PROVE  LET Y == Zapped(X, i) IN
         /\ Y \in Pair /\ Y.k.CurrentTask = Me /\ DeletedDone(Y.io)
         /\ Y.io.SigItem = X.io.SigItem
         /\ Lets(X0, Y, call[t], t)
         /\ AbortInv /\ Apart /\ Leaves(X0, X, call[t], t) => Leaves(X0, Y, call[t], t)
<1> DEFINE Y == Zapped(X, i)
           m == mode
           c == call[t]
<1>1. /\ X0.k = kb /\ X0.io = io /\ Me = kb.CurrentTask /\ DeletedDone(X0.io) /\ IOInv
      /\ Ends(X0, m, c, t) /\ Fits(X0, m, c, t) /\ Me \in Task
  BY DelZero
<1>b. Away(X0.k, m, t)
  BY <1>1 DEF Away
<1>2. /\ Good(Y, IOReq) /\ Grows(kb, Y.k) /\ Removes(X.io, Y.io, i)
      /\ \A u \in Task : Y.k.SigBits[u] \subseteq kb.SigBits[u] \cup {ABORT}
  BY <1>1, ZapGood
<1>w. AbortInv => Waits(X0, m, c, t)
  BY DEF AbortInv
<1> HIDE DEF Y, m, c
<1>3. /\ Y.io.Flags = io.Flags /\ Y.io.SigItem = X.io.SigItem /\ Y.io.made = io.made \ {i}
      /\ X.io.Flags = io.Flags /\ X.io.made = io.made
      /\ ONESHOT \in Y.k.SigBits[t] <=> ONESHOT \in kb.SigBits[t]
      /\ kb.SigBits[t] \subseteq Y.k.SigBits[t] /\ Y.k.CurrentTask = Me
  BY <1>1, <1>2, IOAssumption DEF Removes, Renames, Grows, SameFrames
<1>4. DeletedDone(Y.io)
  BY <1>1, <1>3 DEF DeletedDone
<1>a. c.at # "scan"
  BY <1>1, <1>b DEF Fits, CallKnown
<1>5. c.by = "delete" => c.ior # i
  BY <1>1, <1>b, DeletesOwn DEF OwnDeletes
<1>6. Lets(X0, Y, c, t)
  BY <1>1, <1>3, <1>5 DEF Lets, c
<1>7. ASSUME AbortInv, Apart, Leaves(X0, X, c, t) PROVE Leaves(X0, Y, c, t)
  <2>1. c.by = "scan" => c.ior # i
    BY <1>1, <1>a, <1>w, <1>7 DEF Waits, Apart
  <2> QED
    BY <1>1, <1>3, <1>7, <2>1 DEF Leaves
<1> QED
  BY <1>2, <1>3, <1>4, <1>6, <1>7 DEF Good, Y, c

\* internalDeleteIOReq ends, after the step has come to X.
LEMMA ZapEnds ==
  ASSUME DelInv, IOInv', OwnDeletes, NEW X \in Pair, X.k = kb, Renames(io, X.io),
         NEW i \in IOReq, i \in Deletes[Me], "DONE" \in io.Flags[i], Me # Idle,
         \A j \in IOReq : X.io.SigItem[j] # Me,
         \A t \in Task \ {Me} : Lets(X0, X, call[t], t),
         Done(Zapped(X, i))
  PROVE  /\ DelInv'
         /\ AbortInv /\ Apart /\ (\A t \in Task \ {Me} : Leaves(X0, X, call[t], t)) => AbortInv'
<1> DEFINE Y == Zapped(X, i)
           n == "swi"
<1>1. kb' = Y.k /\ io' = Y.io /\ mode' = n /\ call' = [call EXCEPT ![Me] = NoCall]
  BY DEF Done, Continues
<1>2. NoCall \in CallState /\ NoCall.by = "none" /\ NoCall.at = "none"
  BY DEF NoCall, CallState
<1>3. \A t \in Task \ {Me} :
         /\ Y \in Pair /\ Y.k.CurrentTask = Me /\ DeletedDone(Y.io)
         /\ Y.io.SigItem = X.io.SigItem
         /\ Lets(X0, Y, call[t], t)
         /\ AbortInv /\ Apart /\ Leaves(X0, X, call[t], t) => Leaves(X0, Y, call[t], t)
  BY ZapLets
<1>4. Idle \in Task \ {Me}
  BY TaskAssumption
<1> HIDE DEF Y, n
<1> QED
  BY <1>1, <1>2, <1>3, <1>4, FreeSwi

\* internalAbortIO, and internalWaitAbortedIO starts: SIGF_ONESHOT is cleared.
LEMMA AbortAndWaitEnds ==
  ASSUME DelInv, IOInv', call[Me].at # "aborted", NEW i \in IOReq, i \in io.made,
         NEW by \in {"delete", "scan"}, AbortAndWait(i, by),
         by = "delete" => i \in Deletes[Me],
         by = "scan" => i \in GivesMemory[Me] /\ call[Me].by = "scan"
  PROVE  DelInv' /\ (AbortInv => AbortInv')
<1> DEFINE X == internalAbortIO(X0, i)
           W == [X EXCEPT !.k = ClearSignals(@, X.k.CurrentTask, {ONESHOT})]
           Y == IF Has(X, i, "QUICK") THEN X ELSE W
           c == [at |-> "check", ior |-> i, by |-> by]
           n == "swi"
<1>1. /\ X0.k = kb /\ X0.io = io /\ QuickDone(X0.io, IOReq) /\ DeletedDone(X0.io)
      /\ Good(X0, IOReq) /\ Clock(X0.io) /\ Me \in Task /\ Me = kb.CurrentTask
      /\ \A j \in IOReq : X0.io.SigItem[j] # Me
  BY DelZero, XZero, Unnamed
<1>2. Good(X, IOReq) /\ Serves(X0, X)
  BY <1>1, AbortGood
<1>3. QuickDone(X.io, IOReq)
  BY <1>1, <1>2, QuickDoneOn
<1>4. X.k.CurrentTask = Me
  BY <1>1, <1>2 DEF Serves, Grows, SameFrames
<1>t. Device[i] = "timer" => "DONE" \in X.io.Flags[i]
  BY <1>1, TimerAbortGood DEF internalAbortIO, Has
<1>5. kb' = Y.k /\ io' = Y.io /\ mode' = n /\ call' = [call EXCEPT ![Me] = c]
  BY <1>4 DEF AbortAndWait, Goes, Continues
<1>c. c \in CallState /\ c.at = "check" /\ c.by = by /\ c.ior = i
  BY DEF CallState
<1> HIDE DEF X, c, n
<1>6. /\ W \in Pair /\ W.io = X.io /\ Steady(X.k, W.k)
      /\ W.k.SigBits = [X.k.SigBits EXCEPT ![X.k.CurrentTask] = @ \ {ONESHOT}]
      /\ \A t \in Task \ {X.k.CurrentTask} : W.k.SigBits[t] = X.k.SigBits[t]
  BY <1>2, ClearedSignals, ZenonT(60) DEF Good
<1>7. ONESHOT \notin W.k.SigBits[Me] /\ W.k.CurrentTask = Me
  <2>1. X.k.SigBits \in [Task -> SUBSET Sig]
    BY <1>2, PairFields, Fields DEF Good
  <2> QED
    BY <1>1, <1>4, <1>6, <2>1 DEF Steady, SameFrames
<1> HIDE DEF W
<1>8. /\ Y \in Pair /\ Y.io = X.io /\ Y.k.CurrentTask = Me
      /\ \A t \in Task \ {Me} : Y.k.SigBits[t] = X.k.SigBits[t]
      /\ "QUICK" \in Y.io.Flags[i] \/ ONESHOT \notin Y.k.SigBits[Me]
  BY <1>2, <1>4, <1>6, <1>7 DEF Good, Has
<1> HIDE DEF Y
<1>9. /\ i \in Y.io.made /\ DeletedDone(Y.io) /\ Y.io.SigItem = X0.io.SigItem
      /\ "QUICK" \in Y.io.Flags[i] => "DONE" \in Y.io.Flags[i]
      /\ Device[i] = "timer" => "DONE" \in Y.io.Flags[i]
  <2>1. DeletedDone(X.io)
    BY <1>1, <1>2, DeletedOn DEF Serves, Tells
  <2> QED
    BY <1>1, <1>2, <1>3, <1>8, <1>t, <2>1 DEF Serves, Tells, QuickDone
<1>10. \A t \in Task \ {Me} : Lets(X0, Y, call[t], t) /\ Leaves(X0, Y, call[t], t)
  <2>1. Calm(X.io, Y.io)
    BY <1>8, SelfCalm
  <2> QED
    BY <1>2, <1>8, <2>1, ServesLets, CalmLets
<1>11. Ends(Y, n, c, Me)
  <2>1. Got(Y.k, n, c, Me) = Y.k.SigBits[Me]
    BY <1>c DEF Got, Returned
  <2> QED
    BY <1>1, <1>8, <1>9, <1>c, <2>1 DEF Ends
<1>12. Waits(Y, n, c, Me)
  BY <1>9, <1>c DEF Waits
<1>13. AbortInv /\ c.by = "scan" => \A t \in Task \ {Me} : call[t].by # "scan"
  BY <1>1, <1>c DEF AbortInv, OneScans
<1> QED
  BY <1>5, <1>8, <1>9, <1>10, <1>11, <1>12, <1>13, <1>c, StayEnds

LEMMA DeleteIOReqEnds ==
  ASSUME DelInv, IOInv', OwnDeletes, NEW i \in IOReq, DeleteIOReq(i)
  PROVE  DelInv' /\ (Apart /\ AbortInv => AbortInv')
<1>1. call[Me].at # "aborted" /\ i \in io.made /\ i \in Deletes[Me] /\ Me # Idle
  BY IdleCall, UserCall, DelZero DEF DeleteIOReq
<1>2. CASE Me \notin SuperTask \cup {IOOwner[i]}
  BY <1>1, <1>2, RefuseEnds DEF DeleteIOReq
<1>3. CASE ~(Me \notin SuperTask \cup {IOOwner[i]}) /\ Has(X0, i, "DONE")
  <2>1. /\ Done(Zapped(X0, i)) /\ X0 \in Pair /\ X0.k = kb /\ X0.io = io /\ "DONE" \in io.Flags[i]
        /\ \A j \in IOReq : X0.io.SigItem[j] # Me
    BY <1>1, <1>3, DelZero, Unnamed DEF DeleteIOReq, Has
  <2>2. Renames(io, X0.io)
    BY <2>1 DEF Renames, SameDevices
  <2> QED
    BY <1>1, <2>1, <2>2, SelfLets, ZapEnds
<1>4. CASE ~(Me \notin SuperTask \cup {IOOwner[i]}) /\ ~Has(X0, i, "DONE")
  <2> DEFINE by == "delete"
  <2>1. AbortAndWait(i, by) /\ by \in {"delete", "scan"} /\ by = "delete"
    BY <1>4 DEF DeleteIOReq
  <2> HIDE DEF by
  <2> QED
    BY <1>1, <2>1, AbortAndWaitEnds
<1> QED
  BY <1>2, <1>3, <1>4

LEMMA ScansEnds ==
  ASSUME DelInv, IOInv', Scans
  PROVE  DelInv' /\ (AbortInv => AbortInv')
<1>1. call[Me].at = "scan" /\ call[Me].by = "scan"
  BY DEF Scans, Inside
<1>2. CASE IntoMemory = {}
  BY <1>1, <1>2, RefuseEnds DEF Scans, Refuse
<1>3. CASE IntoMemory # {}
  <2> DEFINE by == "scan"
  <2>1. PICK i \in IntoMemory : AbortAndWait(i, by)
    BY <1>3 DEF Scans
  <2>2. i \in IOReq /\ i \in io.made /\ i \in GivesMemory[Me]
    BY CallAssumption, DelZero DEF IntoMemory
  <2>3. by \in {"delete", "scan"} /\ by = "scan"
    OBVIOUS
  <2> HIDE DEF by
  <2> QED
    BY <1>1, <2>1, <2>2, <2>3, AbortAndWaitEnds
<1> QED
  BY <1>2, <1>3

\* internalWait takes no bit from the task that is in no call any more.
LEMMA WaitGot ==
  ASSUME NEW k \in KernelState, k.CurrentTask \in Task,
         NEW bits, bits \subseteq k.AllocatedSigs[k.CurrentTask],
         NEW c, c.at \in {"woken", "aborted"},
         NEW n, n = IF WaitSleeps(k, bits) THEN "blip" ELSE "swi"
  PROVE  Got(internalWait(k, bits), n, c, k.CurrentTask) = k.SigBits[k.CurrentTask]
<1> DEFINE t == k.CurrentTask
           r == internalWait(k, bits)
           res == Awaited(bits) \cap k.SigBits[t]
<1>1. /\ r.CurrentTask = t
      /\ res = {} => r.SigBits = k.SigBits
      /\ res # {} => r.SigBits = [k.SigBits EXCEPT ![t] = @ \ res] /\ r.ret = res
  BY WaitFrame
<1>2. k.SigBits \in [Task -> SUBSET Sig]
  BY Fields
<1>3. (n = "blip" <=> res = {}) /\ res \subseteq k.SigBits[t]
  BY DEF WaitSleeps
<1> HIDE DEF r, res
<1>4. ASSUME res = {} PROVE Got(r, n, c, t) = k.SigBits[t]
  <2>1. ~Returned(r, n, c, t) /\ r.SigBits = k.SigBits
    BY <1>1, <1>3, <1>4 DEF Returned, Away
  <2> QED
    BY <2>1 DEF Got
<1>5. ASSUME res # {} PROVE Got(r, n, c, t) = k.SigBits[t]
  <2>1. Returned(r, n, c, t)
    BY <1>1, <1>3, <1>5 DEF Returned, Away
  <2>2. r.SigBits[t] = k.SigBits[t] \ res /\ r.ret = res
    BY <1>1, <1>2, <1>5
  <2> QED
    BY <1>3, <2>1, <2>2 DEF Got
<1> QED
  BY <1>4, <1>5 DEF r

\* The request is done with, after the step has come to X.
LEMMA AbortedGoesEnds ==
  ASSUME DelInv, IOInv', OwnDeletes, call[Me].by \in {"delete", "scan"}, call[Me].ior \in IOReq,
         Me # Idle,
         NEW X \in Pair, X.k = kb, Renames(io, X.io),
         call[Me].by = "delete" => "DONE" \in io.Flags[call[Me].ior],
         \A j \in IOReq : X.io.SigItem[j] # Me,
         \A t \in Task \ {Me} : Lets(X0, X, call[t], t),
         AbortedGoes(X)
  PROVE  /\ DelInv'
         /\ AbortInv /\ Apart /\ (\A t \in Task \ {Me} : Leaves(X0, X, call[t], t)) => AbortInv'
<1> DEFINE i == call[Me].ior
<1>0. Me \in Task /\ Me = kb.CurrentTask /\ DeletedDone(io) /\ X0.io = io
  BY DelZero
<1>1. CASE call[Me].by = "delete"
  <2>1. i \in Deletes[Me]
    BY <1>1, DelZero DEF Ends
  <2>2. Done(Zapped(X, i))
    BY <1>1 DEF AbortedGoes
  <2> HIDE DEF i
  <2>3. i \in IOReq /\ "DONE" \in io.Flags[i]
    BY <1>1 DEF i
  <2> QED
    BY <2>1, <2>2, <2>3, ZapEnds
<1>2. CASE call[Me].by = "scan"
  <2> DEFINE c == [at |-> "scan", ior |-> NoIOReq, by |-> "scan"]
             n == "swi"
  <2>1. kb' = X.k /\ io' = X.io /\ mode' = n /\ call' = [call EXCEPT ![Me] = c]
    BY <1>2 DEF AbortedGoes, Goes, Continues
  <2>2. c \in CallState /\ c.at = "scan" /\ c.by = "scan"
    BY DEF CallState
  <2> HIDE DEF c, n
  <2>3. AbortInv => \A t \in Task \ {Me} : call[t].by # "scan"
    BY <1>0, <1>2 DEF AbortInv, OneScans
  <2>4. DeletedDone(X.io) /\ X.k.CurrentTask = Me
    BY <1>0 DEF Renames, DeletedDone
  <2> QED
    BY <2>1, <2>2, <2>3, <2>4, FreeSwi
<1> QED
  BY <1>1, <1>2

\* The task sleeps until the request is done, after the step has come to X.
LEMMA AbortedSleepsEnds ==
  ASSUME DelInv, IOInv', call[Me].by \in {"delete", "scan"}, call[Me].at # "scan",
         call[Me].ior \in IOReq,
         call[Me].by = "delete" => Device[call[Me].ior] # "timer",
         NEW X \in Pair, X.k = kb, Renames(io, X.io),
         \A j \in IOReq : X.io.SigItem[j] = Me => j = call[Me].ior,
         \A t \in Task \ {Me} : Lets(X0, X, call[t], t),
         AbortInv => \/ ONESHOT \in kb.SigBits[Me]
                     \/ /\ "DONE" \notin io.Flags[call[Me].ior]
                        /\ "QUICK" \notin io.Flags[call[Me].ior]
                        /\ X.io.SigItem[call[Me].ior] = Me,
         Sleeps(X, {ONESHOT}, "aborted")
  PROVE  /\ DelInv'
         /\ AbortInv /\ (\A t \in Task \ {Me} : Leaves(X0, X, call[t], t)) => AbortInv'
<1> DEFINE d == call[Me]
           c == [d EXCEPT !.at = "aborted"]
           i == d.ior
           bits == {ONESHOT}
           n == IF WaitSleeps(kb, bits) THEN "blip" ELSE "swi"
           Y == [X EXCEPT !.k = internalWait(kb, bits)]
           m == mode
<1>1. /\ X0.k = kb /\ X0.io = io /\ DeletedDone(io) /\ Me \in Task /\ Me = kb.CurrentTask
      /\ Ends(X0, m, d, Me) /\ kb \in KernelState /\ KInv(kb) /\ d \in CallState
      /\ call \in [Task -> CallState]
  BY DelZero DEF IOInv, Calls
<1>2. bits \subseteq kb.AllocatedSigs[Me]
  BY <1>1, IOAssumption DEF KInv, Allocated
<1>w. AbortInv => Waits(X0, m, d, Me)
  BY <1>1 DEF AbortInv
<1>3. Y.k = internalWait(kb, bits) /\ Y.io = X.io
  BY DEF Pair
<1>4. kb' = Y.k /\ io' = Y.io /\ mode' = n /\ call' = [call EXCEPT ![Me].at = "aborted"]
  BY <1>3 DEF Sleeps, Continues
<1>5. /\ call' = [call EXCEPT ![Me] = c] /\ c \in CallState /\ c.at = "aborted"
      /\ c.by = d.by /\ c.ior = i /\ d.by \in {"delete", "scan"} /\ d.at # "scan"
  BY <1>1, <1>4 DEF CallState
<1>6. n = IF WaitSleeps(kb, bits) THEN "blip" ELSE "swi"
  OBVIOUS
<1>h. /\ i \in IOReq /\ (d.by = "delete" => Device[i] # "timer")
      /\ \A j \in IOReq : X.io.SigItem[j] = Me => j = i
      /\ AbortInv => \/ ONESHOT \in kb.SigBits[Me]
                     \/ /\ "DONE" \notin io.Flags[i] /\ "QUICK" \notin io.Flags[i]
                        /\ X.io.SigItem[i] = Me
  OBVIOUS
<1> HIDE DEF n, bits, Y, c, d, i, m
<1>7. kb' \in KernelState /\ io' \in IOState
  BY DEF IOInv, IInv, KInv, Requests
<1>8. Y \in Pair
  <2>1. DOMAIN X = {"k", "io"} /\ Y = [X EXCEPT !.k = internalWait(kb, bits)]
    BY DEF Pair, Y
  <2>2. Y = [k |-> Y.k, io |-> Y.io]
    BY <1>3, PairFields DEF Y
  <2> QED
    BY <1>4, <1>7, <2>2 DEF Pair
<1>9. Got(Y.k, n, c, Me) = kb.SigBits[Me]
  BY <1>1, <1>2, <1>3, <1>5, <1>6, WaitGot
<1>10. /\ Y.k.CurrentTask = Me /\ \A t \in Task \ {Me} : Y.k.SigBits[t] = X.k.SigBits[t]
  BY <1>1, <1>3, WaitOthers
<1>11. /\ Y.io.Flags = io.Flags /\ Y.io.made = io.made /\ Y.io.SigItem = X.io.SigItem
       /\ DeletedDone(Y.io) /\ Calm(X.io, Y.io)
  BY <1>1, <1>3, SelfCalm DEF Renames, DeletedDone
<1>12. \A t \in Task \ {Me} : /\ Lets(X0, Y, call[t], t)
                              /\ Leaves(X0, X, call[t], t) => Leaves(X0, Y, call[t], t)
  BY <1>10, <1>11, CalmLets
<1>13. Ends(Y, n, c, Me)
  <2>1. kb.SigBits[Me] \subseteq Got(X0.k, m, d, Me)
    BY <1>1 DEF Got
  <2>2. c.by = "delete" => /\ i \in Deletes[Me] /\ i \in io.made
                           /\ ONESHOT \in Got(X0.k, m, d, Me) => "DONE" \in io.Flags[i]
    BY <1>1, <1>5 DEF Ends, i
  <2> QED
    BY <1>5, <1>9, <1>11, <1>h, <2>1, <2>2 DEF Ends
<1>14. AbortInv => Waits(Y, n, c, Me)
  <2>1. AbortInv /\ c.by = "scan" => i \in GivesMemory[Me] /\ i \in io.made
    BY <1>1, <1>5, <1>w DEF Waits, i
  <2> QED
    BY <1>5, <1>9, <1>11, <1>h, <2>1 DEF Waits
<1>15. AbortInv /\ c.by = "scan" => \A t \in Task \ {Me} : call[t].by # "scan"
  <2>1. c.by = "scan" => call[Me].by = "scan"
    BY <1>5 DEF d
  <2> QED
    BY <1>1, <2>1 DEF AbortInv, OneScans
<1> QED
  BY <1>4, <1>5, <1>8, <1>10, <1>11, <1>12, <1>13, <1>14, <1>15, StayEnds

\* io_SigItem of a request is set for the current task, or cleared.
LEMMA NamedLets ==
  ASSUME DelInv, NEW i \in IOReq, NEW u \in {Me, NoTask}, NEW t \in Task \ {Me}
  PROVE  LET X == Named(X0, i, u) IN
         /\ X \in Pair /\ X.k = kb /\ Renames(io, X.io)
         /\ X.io.SigItem[i] = u /\ \A j \in IOReq \ {i} : X.io.SigItem[j] = io.SigItem[j]
         /\ Lets(X0, X, call[t], t)
         /\ AbortInv /\ OwnDeletes /\ Apart /\ i = call[Me].ior
            /\ call[Me].by \in {"delete", "scan"} /\ call[Me].at # "scan"
            => Leaves(X0, X, call[t], t)
<1> DEFINE X == Named(X0, i, u)
           m == mode
           c == call[t]
<1>1. /\ X0 \in Pair /\ X0.k = kb /\ X0.io = io /\ Me \in Task
      /\ Ends(X0, m, c, t) /\ Fits(X0, m, c, t)
      /\ u \in Task \cup {NoTask} /\ u # t
  BY DelZero, TaskAssumption
<1>2. X \in Pair /\ X.k = kb /\ Renames(io, X.io)
      /\ X.io.SigItem[i] = u /\ \A j \in IOReq \ {i} : X.io.SigItem[j] = X0.io.SigItem[j]
  BY <1>1, NamedPair, SMTT(30)
<1> HIDE DEF X, c, m
<1>4. X.io.SigItem[i] = u /\ \A j \in IOReq \ {i} : X.io.SigItem[j] = io.SigItem[j]
  BY <1>1, <1>2
<1>5. X.io.Flags = X0.io.Flags /\ X.io.made = X0.io.made /\ X.k = X0.k
  BY <1>1, <1>2 DEF Renames
<1>6. Lets(X0, X, c, t)
  <2>1. \A j \in IOReq : X.io.SigItem[j] = t => X0.io.SigItem[j] = t
    BY <1>1, <1>4
  <2> QED
    BY <1>5, <2>1 DEF Lets
<1>7. ASSUME AbortInv, OwnDeletes, Apart, i = call[Me].ior,
             call[Me].by \in {"delete", "scan"}, call[Me].at # "scan"
      PROVE  Leaves(X0, X, c, t)
  <2>1. ASSUME c.ior \in IOReq, X0.io.SigItem[c.ior] = t PROVE c.ior # i
    <3>1. c.at = "aborted" /\ c.by \in {"delete", "scan"}
      BY <1>1, <2>1, AbortedOwn DEF Ends
    <3> QED
      BY <1>7, <3>1, NotBoth DEF c
  <2>2. c.ior \in IOReq /\ X0.io.SigItem[c.ior] = t => X.io.SigItem[c.ior] = t
    BY <1>1, <1>4, <2>1
  <2> QED
    BY <1>5, <2>2 DEF Leaves
<1> QED
  BY <1>2, <1>4, <1>6, <1>7 DEF X, c

\* The task that goes on in internalWaitAbortedIO, and what it knows.
LEMMA InsideAbort ==
  ASSUME DelInv, Inside({"check", "aborted"}, {"delete", "scan"})
  PROVE  /\ call[Me].by \in {"delete", "scan"} /\ call[Me].at \in {"check", "aborted"}
         /\ call[Me].ior \in IOReq /\ Me \in Task /\ Me # Idle
         /\ call[Me].by = "delete" /\ Device[call[Me].ior] = "timer" =>
              call[Me].at = "check" /\ "DONE" \in io.Flags[call[Me].ior]
         /\ X0 \in Pair /\ X0.k = kb /\ X0.io = io /\ Renames(io, X0.io)
         /\ call[Me].at = "check" => Got(X0.k, mode, call[Me], Me) = kb.SigBits[Me]
         /\ call[Me].at = "aborted" => Got(X0.k, mode, call[Me], Me) = kb.SigBits[Me] \cup kb.ret
<1>1. /\ call[Me].by \in {"delete", "scan"} /\ call[Me].at \in {"check", "aborted"} /\ mode = "swi"
  BY DEF Inside
<1>2. X0 \in Pair /\ X0.k = kb /\ X0.io = io /\ Me \in Task /\ Me = kb.CurrentTask
      /\ Fits(X0, mode, call[Me], Me) /\ Ends(X0, mode, call[Me], Me)
  BY DelZero
<1>3. call[Me].ior \in IOReq /\ Me # Idle
  BY <1>1, <1>2 DEF Fits, CallKnown, Sound
<1>6. call[Me].by = "delete" /\ Device[call[Me].ior] = "timer" =>
        call[Me].at = "check" /\ "DONE" \in io.Flags[call[Me].ior]
  BY <1>1, <1>2 DEF Ends
<1>4. /\ call[Me].at = "check" => Got(X0.k, mode, call[Me], Me) = kb.SigBits[Me]
      /\ call[Me].at = "aborted" => Got(X0.k, mode, call[Me], Me) = kb.SigBits[Me] \cup kb.ret
  BY <1>1, <1>2 DEF Got, Returned, Away
<1>5. Renames(io, X0.io)
  BY <1>2 DEF Renames, SameDevices
<1> QED
  BY <1>1, <1>2, <1>3, <1>4, <1>5, <1>6

\* The idle task is another one.
LEMMA OtherTask ==
  ASSUME DelInv, call[Me].at # "none"
  PROVE  Idle \in Task \ {Me}
BY DelZero, TaskAssumption DEF Fits, CallKnown

LEMMA AbortedChecksEnds ==
  ASSUME DelInv, IOInv', OwnDeletes, AbortedChecks
  PROVE  DelInv' /\ (Apart /\ AbortInv => AbortInv')
<1> DEFINE i == call[Me].ior
<1>1. Inside({"check"}, {"delete", "scan"})
  BY DEF AbortedChecks
<1>2. call[Me].at = "check" /\ Inside({"check", "aborted"}, {"delete", "scan"})
  BY <1>1 DEF Inside
<1>3. /\ call[Me].by \in {"delete", "scan"} /\ i \in IOReq /\ Me \in Task /\ Me # Idle
      /\ X0 \in Pair /\ X0.k = kb /\ X0.io = io /\ Renames(io, X0.io)
      /\ call[Me].by = "delete" /\ Device[i] = "timer" => "DONE" \in io.Flags[i]
  BY <1>2, InsideAbort
<1>4. QuickDone(io, IOReq) /\ \A j \in IOReq : X0.io.SigItem[j] # Me
  BY <1>2, <1>3, DelZero, Unnamed
<1>5. CASE io.Flags[i] \cap {"QUICK", "DONE"} # {}
  <2>1. AbortedGoes(X0)
    BY <1>5 DEF AbortedChecks
  <2>2. "DONE" \in io.Flags[i]
    BY <1>3, <1>4, <1>5 DEF QuickDone
  <2> QED
    BY <1>3, <1>4, <2>1, <2>2, SelfLets, AbortedGoesEnds
<1>6. CASE ~(io.Flags[i] \cap {"QUICK", "DONE"} # {})
  <2> DEFINE X == Named(X0, i, Me)
  <2>1. Sleeps(X, {ONESHOT}, "aborted") /\ "DONE" \notin io.Flags[i] /\ "QUICK" \notin io.Flags[i]
    BY <1>6 DEF AbortedChecks, Named
  <2> HIDE DEF i
  <2>2. \A t \in Task \ {Me} :
          /\ X \in Pair /\ X.k = kb /\ Renames(io, X.io)
          /\ X.io.SigItem[i] = Me /\ \A j \in IOReq \ {i} : X.io.SigItem[j] = io.SigItem[j]
          /\ Lets(X0, X, call[t], t)
          /\ AbortInv /\ OwnDeletes /\ Apart /\ i = call[Me].ior
             /\ call[Me].by \in {"delete", "scan"} /\ call[Me].at # "scan"
             => Leaves(X0, X, call[t], t)
    BY <1>3, NamedLets
  <2> HIDE DEF X
  <2>3. X \in Pair /\ X.k = kb /\ Renames(io, X.io) /\ X.io.SigItem[i] = Me
        /\ \A j \in IOReq : X.io.SigItem[j] = Me => j = i
    BY <1>2, <1>3, <1>4, <2>2, OtherTask
  <2>4. i = call[Me].ior
    BY DEF i
  <2> QED
    BY <1>2, <1>3, <2>1, <2>2, <2>3, <2>4, AbortedSleepsEnds
<1> QED
  BY <1>5, <1>6

LEMMA AbortedWakesEnds ==
  ASSUME DelInv, IOInv', OwnDeletes, AbortedWakes
  PROVE  DelInv' /\ (Apart /\ AbortInv => AbortInv')
<1> DEFINE i == call[Me].ior
           c == call[Me]
           m == mode
<1>1. Inside({"aborted"}, {"delete", "scan"})
  BY DEF AbortedWakes
<1>2. call[Me].at = "aborted" /\ Inside({"check", "aborted"}, {"delete", "scan"})
  BY <1>1 DEF Inside
<1>3. /\ call[Me].by \in {"delete", "scan"} /\ i \in IOReq /\ Me \in Task /\ Me # Idle
      /\ X0 \in Pair /\ X0.k = kb /\ X0.io = io /\ Renames(io, X0.io)
      /\ call[Me].by = "delete" => Device[i] # "timer"
      /\ Got(X0.k, m, c, Me) = kb.SigBits[Me] \cup kb.ret
  BY <1>2, InsideAbort
<1>4. Ends(X0, m, c, Me) /\ (AbortInv => Waits(X0, m, c, Me))
  BY <1>3, DelZero DEF AbortInv
<1>5. \A j \in IOReq : X0.io.SigItem[j] = Me => j = i
  BY <1>4 DEF Ends
<1> HIDE DEF m
<1>6. CASE ONESHOT \in kb.ret
  <2> DEFINE X == Named(X0, i, NoTask)
  <2>1. AbortedGoes(X)
    BY <1>6 DEF AbortedWakes, Named
  <2>2. c.by = "delete" => "DONE" \in io.Flags[i]
    BY <1>3, <1>4, <1>6 DEF Ends
  <2> HIDE DEF i, c
  <2>3. \A t \in Task \ {Me} :
          /\ X \in Pair /\ X.k = kb /\ Renames(io, X.io)
          /\ X.io.SigItem[i] = NoTask /\ \A j \in IOReq \ {i} : X.io.SigItem[j] = io.SigItem[j]
          /\ Lets(X0, X, call[t], t)
          /\ AbortInv /\ OwnDeletes /\ Apart /\ i = call[Me].ior
             /\ call[Me].by \in {"delete", "scan"} /\ call[Me].at # "scan"
             => Leaves(X0, X, call[t], t)
    BY <1>3, NamedLets
  <2> HIDE DEF X
  <2>4. X \in Pair /\ X.k = kb /\ Renames(io, X.io) /\ \A j \in IOReq : X.io.SigItem[j] # Me
    BY <1>2, <1>3, <1>5, <2>3, OtherTask, TaskAssumption
  <2>5. i = call[Me].ior /\ c = call[Me]
    BY DEF i, c
  <2> QED
    BY <1>2, <1>3, <2>1, <2>2, <2>3, <2>4, <2>5, AbortedGoesEnds
<1>7. CASE ONESHOT \notin kb.ret
  <2>1. Sleeps(X0, {ONESHOT}, "aborted")
    BY <1>7 DEF AbortedWakes
  <2>2. AbortInv => \/ ONESHOT \in kb.SigBits[Me]
                    \/ /\ "DONE" \notin io.Flags[i] /\ "QUICK" \notin io.Flags[i]
                       /\ X0.io.SigItem[i] = Me
    BY <1>2, <1>3, <1>4, <1>7 DEF Waits
  <2> QED
    BY <1>2, <1>3, <1>5, <2>1, <2>2, SelfLets, AbortedSleepsEnds
<1> QED
  BY <1>6, <1>7

-----------------------------------------------------------------------------
(* Every step keeps the invariants *)

\* The requests stay, and a task in a call has the bits that it had.
LEMMA SameGot ==
  ASSUME NEW X, NEW m, NEW Y, NEW n, NEW c, NEW t, Y.io = X.io,
         c = NoCall \/ Got(Y.k, n, c, t) = Got(X.k, m, c, t)
  PROVE  /\ Ends(X, m, c, t) => Ends(Y, n, c, t)
         /\ Waits(X, m, c, t) => Waits(Y, n, c, t)
<1>1. CASE c = NoCall
  BY <1>1 DEF NoCall, Ends, Waits
<1>2. CASE Got(Y.k, n, c, t) = Got(X.k, m, c, t)
  BY <1>2 DEF Ends, Waits
<1> QED
  BY <1>1, <1>2

\* Another task gets the processor, and takes the bits it has waited for.
LEMMA SwitchEnds ==
  ASSUME DelInv, IOInv', StartNext \/ SwiRet \/ FirqReturn, SwiRet => call[Me].at = "none",
         io' = io, call' = call
  PROVE  DelInv' /\ (AbortInv => AbortInv')
<1> DEFINE Y == [k |-> kb', io |-> io']
           n == mode'
           m == mode
           cs == call
           u == kb'.CurrentTask
<1>1. /\ Me \in Task /\ Me = kb.CurrentTask /\ IInv /\ X0.k = kb /\ X0.io = io
      /\ \A t \in Task : Fits(X0, m, cs[t], t) /\ Ends(X0, m, cs[t], t)
      /\ DeletedDone(X0.io) /\ kb.SigBits \in [Task -> SUBSET Sig]
  BY DelZero, Fields DEF IOInv
<1>2. kb' \in KernelState /\ io' \in IOState
  BY DEF IOInv, IInv, KInv, Requests
<1>3. Y \in Pair /\ Y.k = kb' /\ Y.io = io /\ io' = io
  BY <1>2 DEF Pair
<1>4. \/ Launched(kb, kb', n)
      \/ ~StartNext /\ Frozen(kb, kb') /\ u = Me /\ n = "user"
  BY <1>1, SwitchFrame DEF Me
<1>5. m = "blip" => StartNext
  BY DEF SwiRet, FirqReturn
<1>6. m = "swi" => cs[Me].at = "none"
  BY DEF StartNext, FirqReturn
<1>7. mode' = n /\ call' = cs /\ (AbortInv => OneScans(cs) /\ \A t \in Task : Waits(X0, m, cs[t], t))
  BY DEF AbortInv
<1> HIDE DEF Y, m, cs, n
<1>8. ASSUME NEW t \in Task PROVE cs[t] = NoCall \/ Got(Y.k, n, cs[t], t) = Got(X0.k, m, cs[t], t)
  <2> DEFINE c == cs[t]
  <2>1. Fits(X0, m, c, t)
    BY <1>1
  <2>2. CASE c.at = "none"
    BY <2>1, <2>2 DEF Fits, CallKnown
  <2>3. CASE c.at # "none"
    <3>1. Away(kb, m, t)
      BY <1>1, <1>6, <2>1, <2>3 DEF Fits, CallKnown, Away
    <3>2. c.at \in {"woken", "aborted"} /\ kb.psr[t] = "super"
      BY <1>1, <2>1, <2>3, <3>1 DEF Fits, CallKnown
    <3> HIDE DEF c
    <3>3. Got(X0.k, m, c, t) = kb.SigBits[t]
      BY <1>1, <3>1 DEF Got, Returned
    <3>4. CASE t # u
      <4>1. kb'.SigBits[t] = kb.SigBits[t] /\ ~Returned(kb', n, c, t)
        BY <1>4, <3>4 DEF Launched, Frozen, Returned, Away
      <4> QED
        BY <1>3, <3>3, <4>1 DEF Got, c
    <3>5. CASE t = u
      <4>1. Launched(kb, kb', n)
        BY <1>1, <1>4, <1>5, <3>1, <3>5 DEF Away
      <4>2. /\ n = "swi" /\ kb'.ret = kb.WaitBits[t] \cap kb.SigBits[t]
            /\ kb'.SigBits[t] = kb.SigBits[t] \ kb'.ret
        BY <3>2, <3>5, <4>1 DEF Launched
      <4>3. Returned(kb', n, c, t)
        BY <3>2, <3>5, <4>2 DEF Returned, Away
      <4>4. Got(kb', n, c, t) = kb.SigBits[t]
        BY <4>2, <4>3 DEF Got
      <4> QED
        BY <1>3, <3>3, <4>4 DEF c
    <3> QED
      BY <3>4, <3>5
  <2> QED
    BY <2>2, <2>3
<1>9. \A t \in Task : /\ Ends(Y, n, cs[t], t)
                      /\ Waits(X0, m, cs[t], t) => Waits(Y, n, cs[t], t)
  BY <1>1, <1>3, <1>8, SameGot
<1> QED
  BY <1>1, <1>3, <1>7, <1>9, KeepsEnds

LEMMA EndsInit == IOInit => DelInv /\ AbortInv
<1> SUFFICES ASSUME IOInit PROVE DelInv /\ AbortInv
  OBVIOUS
<1>1. IOInv /\ X0.io = io /\ \A t \in Task : call[t] = NoCall
  BY IOInitInv DEF X0, IOInit
<1>2. io.made = IOReq /\ io.SigItem = [i \in IOReq |-> NoTask]
  BY DEF IOInit, NewIOReqs
<1>3. \A t \in Task : Ends(X0, mode, NoCall, t) /\ Waits(X0, mode, NoCall, t)
  BY <1>1, <1>2, TaskAssumption DEF Ends, Waits, NoCall
<1>4. DelInv
  BY <1>1, <1>2, <1>3 DEF DelInv, DeletedDone
<1>5. OneScans(call)
  BY <1>1 DEF OneScans, NoCall
<1> QED
  BY <1>1, <1>3, <1>4, <1>5 DEF AbortInv

LEMMA EndsNext ==
  ASSUME Known, OwnDeletes, DelInv, [IONext]_ioVars
  PROVE  DelInv' /\ (Apart /\ AbortInv => AbortInv')
<1>0. IOInv'
  BY IONextInv DEF DelInv
<1>1. CASE IOSwi
  <2>1. ASSUME NEW i \in IOReq, NEW c \in Cmds[i], SendIO(i, c)
        PROVE  DelInv' /\ (Apart /\ AbortInv => AbortInv')
    BY <1>0, <2>1, SendIOEnds
  <2>2. ASSUME NEW i \in IOReq, NEW c \in Cmds[i], DoIO(i, c)
        PROVE  DelInv' /\ (Apart /\ AbortInv => AbortInv')
    BY <1>0, <2>2, DoIOEnds
  <2>3. ASSUME NEW i \in IOReq, WaitIO(i) PROVE DelInv' /\ (Apart /\ AbortInv => AbortInv')
    BY <1>0, <2>3, WaitIOEnds
  <2>4. ASSUME NEW i \in IOReq, GetMsg(i) PROVE DelInv' /\ (Apart /\ AbortInv => AbortInv')
    BY <1>0, <2>4, GetMsgEnds
  <2>5. ASSUME NEW i \in IOReq, AbortIO(i) PROVE DelInv' /\ (Apart /\ AbortInv => AbortInv')
    BY <1>0, <2>5, AbortIOEnds
  <2>6. ASSUME NEW i \in IOReq, DeleteIOReq(i) PROVE DelInv' /\ (Apart /\ AbortInv => AbortInv')
    BY <1>0, <2>6, DeleteIOReqEnds
  <2>7. CASE ControlMem \/ ProgramWaits \/ PingSignal
    BY <1>0, <2>7, ControlMemEnds, ProgramWaitsEnds, PingSignalEnds
  <2> QED
    BY <1>1, <2>1, <2>2, <2>3, <2>4, <2>5, <2>6, <2>7 DEF IOSwi
<1>2. CASE Kernel
  <2>1. CASE WaitLooks \/ WaitSleepsNow \/ Scans
    BY <1>0, <2>1, WaitLooksEnds, WaitSleepsEnds, ScansEnds
  <2>2. CASE AbortedChecks \/ AbortedWakes
    BY <1>0, <2>2, AbortedChecksEnds, AbortedWakesEnds
  <2>3. CASE call[Me].at = "none" /\ SwiRet /\ UNCHANGED <<io, call>>
    BY <1>0, <2>3, SwitchEnds
  <2>4. CASE (StartNext \/ FirqReturn) /\ UNCHANGED <<io, call>>
    <3>1. ~SwiRet
      BY <2>4 DEF StartNext, FirqReturn, SwiRet
    <3> QED
      BY <1>0, <2>4, <3>1, SwitchEnds
  <2> QED
    BY <1>2, <2>1, <2>2, <2>3, <2>4 DEF Kernel
<1>3. CASE Devices
  BY <1>0, <1>3, DevicesEnds
<1>4. CASE Quantum
  BY <1>0, <1>4, QuantumEnds
<1>5. CASE UNCHANGED ioVars
  <2>1. kb' = kb /\ mode' = mode /\ io' = io /\ call' = call
    BY <1>5 DEF ioVars, vars
  <2>2. X0' = X0
    BY <2>1 DEF X0
  <2> QED
    BY <1>0, <2>1, <2>2 DEF DelInv, AbortInv
<1> QED
  BY <1>1, <1>2, <1>3, <1>4, <1>5 DEF IONext

\* A driver has a request exactly while it is not done, on one list and once,
\* and no driver has a deleted one, whatever is started, aborted and deleted
\* while the devices complete requests.
THEOREM DriverHasItHolds == Known /\ OwnDeletes => (IOSpec => []DriverHasIt)
<1> SUFFICES ASSUME Known, OwnDeletes PROVE IOSpec => []DriverHasIt
  OBVIOUS
<1>1. DelInv => DriverHasIt
  <2> SUFFICES ASSUME DelInv PROVE DriverHasIt
    OBVIOUS
  <2> DEFINE q == IF io.RequestRunning = NoIOReq THEN <<>> ELSE <<io.RequestRunning>>
             P == Places
  <2>1. Lists(io) /\ InProgress(io, IOReq) /\ DeletedDone(io) /\ io \in IOState
    BY DEF DelInv, IOInv, Requests, X0
  <2>2. ToSet(q) = {io.RequestRunning} \ {NoIOReq} /\ IsInjective(q)
    BY DEF ToSet, IsInjective
  <2>3. /\ DOMAIN P = {1, 2, 3, 4} /\ P[1] = io.DelayList /\ P[2] = io.MDelayList
        /\ P[3] = io.RequestsToDo /\ P[4] = q
    BY DEF Places
  <2>4. Busy(io) \subseteq IOReq
    BY <2>1, ElementOfSeq DEF Busy, Clocked, Driven, IOState, ToSet
  <2> HIDE DEF P, q
  <2>5. \A i : Active(i) <=> i \in Busy(io)
    <3>1. \A i : Active(i) <=> \E p \in DOMAIN P : i \in ToSet(P[p])
      BY DEF Active, P
    <3> QED
      BY <2>2, <2>3, <3>1 DEF Busy, Clocked, Driven
  <2>6. \A p \in DOMAIN P : IsInjective(P[p])
    BY <2>1, <2>2, <2>3 DEF Lists
  <2>7. \A r, s \in DOMAIN P : r # s => ToSet(P[r]) \cap ToSet(P[s]) = {}
    <3>1. ToSet(P[4]) = {io.RequestRunning} \ {NoIOReq}
      BY <2>2, <2>3
    <3>2. \A i \in Clocked(io) : i \notin Driven(io)
      BY <2>1 DEF Lists
    <3> QED
      BY <2>1, <2>3, <3>1, <3>2 DEF Lists, Clocked, Driven
  <2>8. \A i \in IOReq : "DONE" \notin io.Flags[i] <=> Active(i)
    BY <2>1, <2>5 DEF InProgress
  <2>9. io.made \subseteq IOReq /\ \A i \in IOReq : Active(i) => i \in io.made
    BY <2>1, <2>8 DEF DeletedDone, IOState
  <2> QED
    BY <2>6, <2>7, <2>8, <2>9 DEF DriverHasIt, P
<1>2. DelInv /\ [IONext]_ioVars => DelInv'
  BY EndsNext
<1> QED
  BY <1>1, <1>2, EndsInit, PTL DEF IOSpec

\* A task asleep until an aborted request is done waits for one that is in
\* progress, and is the one that io_SigItem names: its completion wakes it.
THEOREM AbortWaitsHolds == Known /\ OwnDeletes /\ Apart => (IOSpec => []AbortWaits)
<1> SUFFICES ASSUME Known, OwnDeletes, Apart PROVE IOSpec => []AbortWaits
  OBVIOUS
<1>1. AbortInv => AbortWaits
  <2> SUFFICES ASSUME AbortInv, NEW t \in Task, SleepsIn(t, {"delete", "scan"})
               PROVE  LET i == call[t].ior IN
                      i \in io.made /\ "DONE" \notin io.Flags[i] /\ io.SigItem[i] = t
    BY DEF AbortWaits
  <2> DEFINE m == mode
             c == call[t]
             i == c.ior
  <2>1. /\ Fits(X0, m, c, t) /\ X0.k = kb /\ X0.io = io /\ IOInv
        /\ Ends(X0, m, c, t) /\ Waits(X0, m, c, t)
        /\ t \in kb.TaskWaitQ /\ c.by \in {"delete", "scan"}
    BY DelZero DEF AbortInv, SleepsIn
  <2>2. Away(kb, m, t) /\ Asleep(kb)
    BY <2>1 DEF Away, IOInv, IInv, KInv, Linked, Running
  <2> HIDE DEF m, c
  <2>3. /\ c.at = "aborted" /\ i \in IOReq
        /\ kb.WaitBits[t] = Awaited(SleepBits(c)) /\ SleepBits(c) = {ONESHOT}
    BY <2>1, <2>2 DEF Fits, CallKnown, NoCall, Sound, SleepBits
  <2>4. ONESHOT \notin kb.SigBits[t]
    BY <2>1, <2>2, <2>3 DEF Asleep, Awaited
  <2>5. Got(kb, m, c, t) = kb.SigBits[t]
    BY <2>2 DEF Got, Returned
  <2>6. "DONE" \notin io.Flags[i] /\ io.SigItem[i] = t
    BY <2>1, <2>3, <2>4, <2>5 DEF Waits
  <2>7. i \in io.made
    BY <2>1, <2>3 DEF Ends, Waits
  <2> QED
    BY <2>6, <2>7 DEF c
<1>2. AbortInv /\ [IONext]_ioVars => AbortInv'
  BY EndsNext DEF AbortInv
<1> QED
  BY <1>1, <1>2, EndsInit, PTL DEF IOSpec

-----------------------------------------------------------------------------
(* What the owner of a completed request is told *)

\* The requests that a step completes are told to their owners, unless quick.
News ==
  \A i \in IOReq :
    "DONE" \in io'.Flags[i] /\ "DONE" \notin io.Flags[i] /\ "QUICK" \notin io'.Flags[i]
      => Told(kb', io', i)

\* A step completes no request.
NoneDone == \A i \in IOReq : "DONE" \in io'.Flags[i] => "DONE" \in io.Flags[i]

LEMMA NoneNews ==
  ASSUME NoneDone
  PROVE  News
BY DEF NoneDone, News

LEMMA SameNews ==
  ASSUME io' = io
  PROVE  News
BY NoneNews DEF NoneDone

\* A request that was in progress is not quick.
LEMMA TellsNews ==
  ASSUME IOInv, NEW Y, kb' = Y.k, io' = Y.io, NEW S \in SUBSET IOReq,
         \A j \in S : Tells(X0, Y, j),
         \A j \in IOReq \ S : "DONE" \in Y.io.Flags[j] => "DONE" \in io.Flags[j]
  PROVE  News
<1> SUFFICES ASSUME NEW i \in IOReq, "DONE" \in Y.io.Flags[i], "DONE" \notin io.Flags[i],
                    "QUICK" \notin Y.io.Flags[i]
             PROVE  Told(Y.k, Y.io, i)
  BY DEF News
<1>1. i \in S /\ Tells(X0, Y, i)
  OBVIOUS
<1>2. X0.io = io /\ "QUICK" \notin io.Flags[i]
  BY XZero DEF QuickDone
<1>3. IF MsgBased(i) THEN i \in Y.io.Posted ELSE IODONE \in Y.k.SigBits[IOOwner[i]]
  BY <1>1, <1>2 DEF Tells
<1> QED
  BY <1>3 DEF Told

LEMMA ServesNews ==
  ASSUME IOInv, NEW Y, Serves(X0, Y), kb' = Y.k, io' = Y.io
  PROVE  News
<1> DEFINE S == IOReq
<1>1. S \in SUBSET IOReq /\ (\A j \in S : Tells(X0, Y, j)) /\ IOReq \ S = {}
  BY DEF Serves
<1> HIDE DEF S
<1>2. \A j \in IOReq \ S : "DONE" \in Y.io.Flags[j] => "DONE" \in io.Flags[j]
  BY <1>1
<1> QED
  BY <1>1, <1>2, TellsNews

LEMMA TakesNews ==
  ASSUME IOInv, NEW i \in IOReq, Takes(io, io', i)
  PROVE  News
<1>1. NoneDone
  <2> SUFFICES ASSUME NEW j \in IOReq, "DONE" \in io'.Flags[j] PROVE "DONE" \in io.Flags[j]
    BY DEF NoneDone
  <2>1. CASE j = i
    <3>1. io'.Flags[i] \ {"WAITING"} = io.Flags[i] \ {"WAITING"}
      BY DEF Takes
    <3> QED
      BY <2>1, <3>1
  <2>2. CASE j # i
    BY <2>2 DEF Takes
  <2> QED
    BY <2>1, <2>2
<1> QED
  BY <1>1, NoneNews

LEMMA DevicesNews ==
  ASSUME IOInv, Devices
  PROVE  News
<1>1. Good(X0, IOReq) /\ Clock(X0.io) /\ X0.io = io /\ io \in IOState
  BY XZero, PairFields
<1>2. CASE Tick
  <2>1. io'.Flags = io.Flags
    BY <1>1, <1>2 DEF Tick, IOState
  <2> QED
    BY <2>1, NoneNews DEF NoneDone
<1>3. CASE cMtimerInt
  <2> DEFINE Y == reprocess(X0)
  <2>1. Serves(X0, Y)
    BY <1>1, ReprocessGood DEF Clock
  <2>2. kb' = Y.k /\ io' = Y.io
    BY <1>3 DEF cMtimerInt, Interrupt, Continues
  <2> HIDE DEF Y
  <2> QED
    BY <2>1, <2>2, ServesNews
<1>4. CASE VBlank
  <2> DEFINE Y == ctimerInt(X0)
  <2>1. Serves(X0, Y)
    BY <1>1, BlankGood
  <2>2. kb' = Y.k /\ io' = Y.io
    BY <1>4 DEF VBlank, Interrupt, Continues
  <2> HIDE DEF Y
  <2> QED
    BY <2>1, <2>2, ServesNews
<1>5. CASE CDStarts
  <2> DEFINE Y == AwaitRequest(X0)
  <2>1. Serves(X0, Y)
    BY <1>1, <1>5, AwaitGood DEF CDStarts
  <2>2. kb' = Y.k /\ io' = Y.io
    BY <1>5 DEF CDStarts, Interrupt, Continues
  <2> HIDE DEF Y
  <2> QED
    BY <2>1, <2>2, ServesNews
<1>6. CASE CDFinishes
  <2> DEFINE Y == FinishRequest(X0)
  <2>1. Serves(X0, Y)
    BY <1>1, <1>6, FinishGood DEF CDFinishes
  <2>2. kb' = Y.k /\ io' = Y.io
    BY <1>6 DEF CDFinishes, Interrupt, Continues
  <2> HIDE DEF Y
  <2> QED
    BY <2>1, <2>2, ServesNews
<1> QED
  BY <1>2, <1>3, <1>4, <1>5, <1>6 DEF Devices

LEMMA RefuseNews ==
  ASSUME IOInv, Refuse
  PROVE  News
<1>1. io' = io
  BY XZero DEF Refuse, Done, Continues
<1> QED
  BY <1>1, SameNews

\* internalSendIO, and what DoIO does after it.
LEMMA StartNews ==
  ASSUME IOInv, Known, NEW i \in IOReq, NEW c \in Cmds[i], NEW quick, StartIO(i),
         kb' = internalSendIO(X0, i, c, quick).k,
         \A j \in IOReq \ {i} :
           /\ io'.Flags[j] = internalSendIO(X0, i, c, quick).io.Flags[j]
           /\ j \in io'.Posted <=> j \in internalSendIO(X0, i, c, quick).io.Posted
  PROVE  News
<1> DEFINE Y == internalSendIO(X0, i, c, quick)
<1>1. Y.k = kb' /\ \A j \in IOReq \ {i} : Tells(X0, Y, j)
  BY StartGood
<1>2. \A j \in IOReq \ {i} : /\ io'.Flags[j] = Y.io.Flags[j]
                             /\ j \in io'.Posted <=> j \in Y.io.Posted
  OBVIOUS
<1> HIDE DEF Y
<1>3. "DONE" \in io.Flags[i] /\ X0.io = io /\ QuickDone(io, IOReq)
  BY XZero DEF StartIO, Has
<1> SUFFICES ASSUME NEW j \in IOReq, "DONE" \in io'.Flags[j], "DONE" \notin io.Flags[j],
                    "QUICK" \notin io'.Flags[j]
             PROVE  Told(kb', io', j)
  BY DEF News
<1>4. j # i /\ "QUICK" \notin io.Flags[j]
  BY <1>3 DEF QuickDone
<1>5. IF MsgBased(j) THEN j \in io'.Posted ELSE IODONE \in kb'.SigBits[IOOwner[j]]
  BY <1>1, <1>2, <1>3, <1>4 DEF Tells
<1> QED
  BY <1>5 DEF Told

\* SendIO: what it completes at once, and is not quick, it tells to the owner.
LEMMA SendIONews ==
  ASSUME IOInv, Known, Lasting, NEW i \in IOReq, NEW c \in Cmds[i], SendIO(i, c)
  PROVE  /\ News
         /\ StartIO(i) /\ "DONE" \in io'.Flags[i] /\ "QUICK" \notin io'.Flags[i]
              => Told(kb', io', i)
<1>1. CASE ~StartIO(i)
  BY <1>1, RefuseNews DEF SendIO
<1>2. CASE StartIO(i)
  <2> DEFINE quick == c.quick
             Y == internalSendIO(X0, i, c, quick)
  <2>1. kb' = Y.k /\ io' = Y.io
    BY <1>2 DEF SendIO, Done, Continues
  <2>2. Device[i] = "timer" /\ quick => Lasts(c)
    BY DEF Lasting
  <2> HIDE DEF quick
  <2>3. News
    BY <1>2, <2>1, StartNews
  <2>4. Tended(Y, i)
    BY <1>2, <2>2, StartGood
  <2> HIDE DEF Y
  <2> QED
    BY <2>1, <2>3, <2>4 DEF Tended, Told
<1> QED
  BY <1>1, <1>2

LEMMA EnterWaitFrame ==
  ASSUME NEW X \in Pair, NEW i \in IOReq, EnterWait(X, i)
  PROVE  /\ kb' = X.k /\ io'.Posted = X.io.Posted
         /\ \A j \in IOReq \ {i} : io'.Flags[j] = X.io.Flags[j]
         /\ "DONE" \in io'.Flags[i] => "DONE" \in X.io.Flags[i]
<1> DEFINE W == Marked(X, i, {"WAITING"})
<1>1. /\ W.k = X.k /\ SameRequests(X.io, W.io)
      /\ W.io.Flags[i] = X.io.Flags[i] \cup {"WAITING"}
      /\ \A j \in IOReq \ {i} : W.io.Flags[j] = X.io.Flags[j]
  <2>1. {"WAITING"} \in SUBSET IOFlag
    BY DEF IOFlag
  <2> QED
    BY <2>1, MarkedPair
<1>2. (kb' = X.k /\ io' = X.io) \/ (kb' = W.k /\ io' = W.io)
  BY DEF EnterWait, Done, Goes, Continues
<1> HIDE DEF W
<1>3. "DONE" \in W.io.Flags[i] => "DONE" \in X.io.Flags[i]
  BY <1>1
<1> QED
  BY <1>1, <1>2, <1>3 DEF SameRequests

LEMMA DoIONews ==
  ASSUME IOInv, Known, NEW i \in IOReq, NEW c \in Cmds[i], DoIO(i, c)
  PROVE  News
<1>1. CASE ~StartIO(i)
  BY <1>1, RefuseNews DEF DoIO
<1>2. CASE StartIO(i)
  <2> DEFINE quick == TRUE
             Y == internalSendIO(X0, i, c, quick)
  <2>1. EnterWait(Y, i) \/ Done(Y)
    BY <1>2 DEF DoIO
  <2> HIDE DEF quick
  <2>2. Y \in Pair
    BY <1>2, StartGood DEF Good
  <2>3. /\ kb' = Y.k
        /\ \A j \in IOReq \ {i} : /\ io'.Flags[j] = Y.io.Flags[j]
                                  /\ j \in io'.Posted <=> j \in Y.io.Posted
    <3> HIDE DEF Y
    <3>1. CASE EnterWait(Y, i)
      BY <2>2, <3>1, EnterWaitFrame
    <3>2. CASE Done(Y)
      BY <3>2 DEF Done, Continues
    <3> QED
      BY <2>1, <3>1, <3>2
  <2> QED
    BY <1>2, <2>3, StartNews
<1> QED
  BY <1>1, <1>2

LEMMA WaitIONews ==
  ASSUME IOInv, NEW i \in IOReq, WaitIO(i)
  PROVE  News
<1>1. CASE Refuse
  BY <1>1, RefuseNews
<1>2. CASE EnterWait(X0, i)
  <2>1. X0 \in Pair /\ X0.io = io
    BY XZero
  <2>2. NoneDone
    BY <1>2, <2>1, EnterWaitFrame DEF NoneDone
  <2> QED
    BY <2>2, NoneNews
<1> QED
  BY <1>1, <1>2 DEF WaitIO

LEMMA GetMsgNews ==
  ASSUME IOInv, NEW i \in IOReq, GetMsg(i)
  PROVE  News
<1> DEFINE Y == Received(X0, i)
<1>1. io' = Y.io
  BY DEF GetMsg, Received, Done, Continues
<1>2. Takes(X0.io, Y.io, i) /\ X0.io = io
  BY XZero, ReceivedPair
<1> HIDE DEF Y
<1> QED
  BY <1>1, <1>2, TakesNews

LEMMA AbortIONews ==
  ASSUME IOInv, NEW i \in IOReq, AbortIO(i)
  PROVE  News
<1>1. CASE Refuse
  BY <1>1, RefuseNews
<1>2. CASE ~Refuse
  <2> DEFINE Y == internalAbortIO(X0, i)
  <2>1. Serves(X0, Y)
    BY XZero, AbortGood
  <2>2. kb' = Y.k /\ io' = Y.io
    BY <1>2 DEF AbortIO, Done, Continues
  <2> HIDE DEF Y
  <2> QED
    BY <2>1, <2>2, ServesNews
<1> QED
  BY <1>1, <1>2

\* No old SIGF_IODONE is cleared with SIGF_ONESHOT.
LEMMA AbortAndWaitNews ==
  ASSUME IOInv, NEW i \in IOReq, NEW by, AbortAndWait(i, by)
  PROVE  News
<1> DEFINE X == internalAbortIO(X0, i)
           bits == {ONESHOT}
           W == [X EXCEPT !.k = ClearSignals(@, X.k.CurrentTask, bits)]
           Y == IF Has(X, i, "QUICK") THEN X ELSE W
<1>1. Good(X, IOReq) /\ Serves(X0, X) /\ X0.k = kb /\ Me = kb.CurrentTask
  BY XZero, AbortGood
<1>2. X.k.CurrentTask = Me
  BY <1>1 DEF Serves, Grows, SameFrames
<1>3. kb' = Y.k /\ io' = Y.io
  BY <1>2 DEF AbortAndWait, Goes, Continues
<1> HIDE DEF X
<1>4. /\ W.io = X.io
      /\ W.k.SigBits = [X.k.SigBits EXCEPT ![X.k.CurrentTask] = @ \ bits]
      /\ X.k.SigBits \in [Task -> SUBSET Sig] /\ IODONE \notin bits
  <2>1. X \in Pair /\ KInv(X.k) /\ X.k \in KernelState
    BY <1>1 DEF Good, KInv
  <2>2. IODONE # ONESHOT
    BY IOAssumption
  <2> HIDE DEF W, bits
  <2>3. IODONE \notin bits
    BY <2>2 DEF bits
  <2> QED
    BY <2>1, <2>3, ClearedSignals, Fields DEF W
<1> HIDE DEF W, bits
<1>5. \A t \in Task : IODONE \in X.k.SigBits[t] => IODONE \in W.k.SigBits[t]
  <2> TAKE t \in Task
  <2>1. W.k.SigBits[t] = X.k.SigBits[t] \/ W.k.SigBits[t] = X.k.SigBits[t] \ bits
    BY <1>4
  <2> QED
    BY <1>4, <2>1
<1>6. /\ Y.io = X.io
      /\ \A t \in Task : IODONE \in X.k.SigBits[t] => IODONE \in Y.k.SigBits[t]
  BY <1>4, <1>5
<1> HIDE DEF Y
<1> SUFFICES ASSUME NEW j \in IOReq, "DONE" \in X.io.Flags[j], "DONE" \notin io.Flags[j],
                    "QUICK" \notin X.io.Flags[j]
             PROVE  Told(Y.k, X.io, j)
  BY <1>3, <1>6 DEF News
<1>7. Tells(X0, X, j) /\ X0.io = io /\ QuickDone(io, IOReq) /\ IOOwner[j] \in Task
  BY <1>1, XZero, IOAssumption DEF Serves
<1>8. "QUICK" \notin io.Flags[j]
  BY <1>7 DEF QuickDone
<1>9. IF MsgBased(j) THEN j \in X.io.Posted ELSE IODONE \in X.k.SigBits[IOOwner[j]]
  BY <1>7, <1>8 DEF Tells
<1> QED
  BY <1>6, <1>7, <1>9 DEF Told

\* The item is freed.
LEMMA ZappedNews ==
  ASSUME IOInv, NEW X \in Pair, X.k = kb, Renames(io, X.io), NEW i \in IOReq,
         Done(Zapped(X, i))
  PROVE  News
<1> DEFINE Y == Zapped(X, i)
<1>1. Removes(X.io, Y.io, i)
  BY ZapGood
<1>2. io' = Y.io
  BY DEF Done, Continues
<1> HIDE DEF Y
<1>3. io'.Flags = io.Flags
  BY <1>1, <1>2 DEF Removes, Renames
<1> QED
  BY <1>3, NoneNews DEF NoneDone

LEMMA DeleteIOReqNews ==
  ASSUME IOInv, NEW i \in IOReq, DeleteIOReq(i)
  PROVE  News
<1>1. CASE Refuse
  BY <1>1, RefuseNews
<1>2. CASE Done(Zapped(X0, i))
  <2>1. X0 \in Pair /\ X0.k = kb /\ X0.io = io
    BY XZero
  <2>2. Renames(io, X0.io)
    BY <2>1 DEF Renames, SameDevices
  <2> QED
    BY <1>2, <2>1, <2>2, ZappedNews
<1>3. CASE AbortAndWait(i, "delete")
  BY <1>3, AbortAndWaitNews
<1> QED
  BY <1>1, <1>2, <1>3 DEF DeleteIOReq

LEMMA AbortedGoesNews ==
  ASSUME IOInv, NEW X \in Pair, X.k = kb, Renames(io, X.io), call[Me].ior \in IOReq,
         AbortedGoes(X)
  PROVE  News
<1>1. CASE call[Me].by = "delete"
  BY <1>1, ZappedNews DEF AbortedGoes
<1>2. CASE call[Me].by # "delete"
  <2>1. io' = X.io
    BY <1>2 DEF AbortedGoes, Goes, Continues
  <2>2. io'.Flags = io.Flags
    BY <2>1 DEF Renames
  <2> QED
    BY <2>2, NoneNews DEF NoneDone
<1> QED
  BY <1>1, <1>2

LEMMA SleepsNews ==
  ASSUME NEW X \in Pair, Renames(io, X.io), NEW bits, NEW at, Sleeps(X, bits, at)
  PROVE  News
<1>1. io' = X.io
  BY DEF Sleeps, Continues, Pair
<1>2. io'.Flags = io.Flags
  BY <1>1 DEF Renames
<1> QED
  BY <1>2, NoneNews DEF NoneDone

LEMMA AbortedNews ==
  ASSUME IOInv, AbortedChecks \/ AbortedWakes
  PROVE  News
<1> DEFINE i == call[Me].ior
           at == {"check", "aborted"}
           by == {"delete", "scan"}
<1>1. Inside(at, by) /\ at \in SUBSET {"look", "sleep", "woken", "check", "aborted", "scan"}
  BY DEF AbortedChecks, AbortedWakes, Inside
<1> HIDE DEF at, by
<1>2. call[Me].at \in at /\ call[Me].by \in by /\ Sound(Me, call[Me])
  BY <1>1, InsideCall
<1>3. i \in IOReq
  BY <1>2 DEF Sound, at, by
<1>4. X0 \in Pair /\ X0.k = kb /\ X0.io = io /\ Me \in Task
  BY XZero
<1>5. Renames(io, X0.io)
  BY <1>4 DEF Renames, SameDevices
<1>6. /\ Named(X0, i, Me) \in Pair /\ Named(X0, i, Me).k = kb
      /\ Renames(io, Named(X0, i, Me).io)
      /\ Named(X0, i, NoTask) \in Pair /\ Named(X0, i, NoTask).k = kb
      /\ Renames(io, Named(X0, i, NoTask).io)
  <2> HIDE DEF i
  <2>1. \A t \in Task \cup {NoTask} : LET Y == Named(X0, i, t) IN
          Y \in Pair /\ Y.k = X0.k /\ Renames(X0.io, Y.io)
    BY <1>3, <1>4, NamedPair
  <2> QED
    BY <1>4, <2>1
<1>7. CASE AbortedGoes(X0)
  BY <1>3, <1>4, <1>5, <1>7, AbortedGoesNews
<1>8. CASE AbortedGoes(Named(X0, i, NoTask))
  <2> DEFINE X == Named(X0, i, NoTask)
  <2>1. X \in Pair /\ X.k = kb /\ Renames(io, X.io) /\ AbortedGoes(X)
    BY <1>6, <1>8
  <2> HIDE DEF X
  <2> QED
    BY <1>3, <2>1, AbortedGoesNews
<1>9. CASE Sleeps(X0, {ONESHOT}, "aborted")
  BY <1>4, <1>5, <1>9, SleepsNews
<1>10. CASE Sleeps(Named(X0, i, Me), {ONESHOT}, "aborted")
  BY <1>6, <1>10, SleepsNews
<1> QED
  BY <1>7, <1>8, <1>9, <1>10 DEF AbortedChecks, AbortedWakes, Named

LEMMA WaitLooksNews ==
  ASSUME IOInv, WaitLooks
  PROVE  News
<1> DEFINE i == call[Me].ior
           Y == Awakened(X0, i)
           at == {"look", "woken"}
           by == {"wait"}
<1>1. X0 \in Pair /\ X0.io = io
  BY XZero
<1>2. i \in IOReq
  <2>1. Inside(at, by) /\ at \in SUBSET {"look", "sleep", "woken", "check", "aborted", "scan"}
    BY DEF WaitLooks
  <2> HIDE DEF at, by
  <2>2. Fits(X0, "swi", call[Me], Me) /\ call[Me].by \in by
    BY <2>1, InsideCall
  <2> QED
    BY <2>2, WaitsForOwn DEF by
<1>3. io' = io \/ io' = Y.io
  BY <1>1 DEF WaitLooks, Done, Goes, Continues, Awakened
<1> HIDE DEF i
<1>4. Takes(io, Y.io, i)
  BY <1>1, <1>2, AwakenedPair
<1> HIDE DEF Y
<1> QED
  BY <1>2, <1>3, <1>4, SameNews, TakesNews

LEMMA WaitSleepsNews ==
  ASSUME IOInv, WaitSleepsNow
  PROVE  News
<1>1. X0 \in Pair /\ X0.io = io
  BY XZero
<1>2. Renames(io, X0.io)
  BY <1>1 DEF Renames, SameDevices
<1> QED
  BY <1>1, <1>2, SleepsNews DEF WaitSleepsNow

LEMMA ScansNews ==
  ASSUME IOInv, Scans
  PROVE  News
<1>1. CASE IntoMemory = {}
  BY <1>1, RefuseNews DEF Scans, Refuse
<1>2. CASE IntoMemory # {}
  <2>1. PICK i \in IntoMemory : AbortAndWait(i, "scan")
    BY <1>2 DEF Scans
  <2>2. i \in IOReq
    BY CallAssumption, XZero DEF IntoMemory
  <2> QED
    BY <2>1, <2>2, AbortAndWaitNews
<1> QED
  BY <1>1, <1>2

LEMMA NewsNext ==
  ASSUME Known, Lasting, IOInv, [IONext]_ioVars
  PROVE  News
<1>1. CASE IOSwi
  <2>1. ASSUME NEW i \in IOReq, NEW c \in Cmds[i], SendIO(i, c) PROVE News
    BY <2>1, SendIONews
  <2>2. ASSUME NEW i \in IOReq, NEW c \in Cmds[i], DoIO(i, c) PROVE News
    BY <2>2, DoIONews
  <2>3. ASSUME NEW i \in IOReq, WaitIO(i) \/ GetMsg(i) \/ AbortIO(i) \/ DeleteIOReq(i)
        PROVE  News
    BY <2>3, WaitIONews, GetMsgNews, AbortIONews, DeleteIOReqNews
  <2>4. CASE ControlMem \/ ProgramWaits \/ PingSignal
    <3>1. io' = io
      BY <2>4, XZero DEF ControlMem, ProgramWaits, PingSignal, Goes, Continues
    <3> QED
      BY <3>1, SameNews
  <2> QED
    BY <1>1, <2>1, <2>2, <2>3, <2>4 DEF IOSwi
<1>2. CASE Kernel
  <2>1. CASE WaitLooks \/ WaitSleepsNow \/ AbortedChecks \/ AbortedWakes \/ Scans
    BY <2>1, WaitLooksNews, WaitSleepsNews, AbortedNews, ScansNews
  <2>2. CASE UNCHANGED <<io, call>>
    BY <2>2, SameNews
  <2> QED
    BY <1>2, <2>1, <2>2 DEF Kernel
<1>3. CASE Devices
  BY <1>3, DevicesNews
<1>4. CASE Quantum \/ UNCHANGED ioVars
  <2>1. io' = io
    BY <1>4 DEF Quantum, ioVars
  <2> QED
    BY <2>1, SameNews
<1> QED
  BY <1>1, <1>2, <1>3, <1>4 DEF IONext

\* sendio.c:781: the owner of a request that is not quick is told of its end by
\* the step that completes it, by a message or by SIGF_IODONE, whoever completes
\* it: SendIO, an interrupt of either device, or the abort of any task.
THEOREM NotifiedHolds == Known /\ Lasting => (IOSpec => Notified)
<1> SUFFICES ASSUME Known, Lasting PROVE IOSpec => Notified
  OBVIOUS
<1> DEFINE Announced == \A i \in IOReq :
             /\ i \in io'.made /\ "DONE" \in io'.Flags[i] /\ "QUICK" \notin io'.Flags[i]
             /\ "DONE" \notin io.Flags[i] \/ \E c \in Cmds[i] : SendIO(i, c) /\ StartIO(i)
             => Told(kb', io', i)
<1>1. IOInv /\ [IONext]_ioVars => [Announced]_ioVars
  <2> SUFFICES ASSUME IOInv, [IONext]_ioVars PROVE Announced
    OBVIOUS
  <2>1. News
    BY NewsNext
  <2>2. ASSUME NEW i \in IOReq, NEW c \in Cmds[i], SendIO(i, c), StartIO(i),
               "DONE" \in io'.Flags[i], "QUICK" \notin io'.Flags[i]
        PROVE  Told(kb', io', i)
    BY <2>2, SendIONews
  <2> QED
    BY <2>1, <2>2 DEF News
<1>2. IOSpec => []IOInv
  BY IOInvariance
<1> QED
  BY <1>1, <1>2, PTL DEF IOSpec, Notified

-----------------------------------------------------------------------------
(* What a task that returns from WaitIO knows *)

\* SIGF_ABORT comes to a task when the request that it waits for is deleted, and
\* IO_WAITING is set while the owner waits.  A task leaves internalWait without
\* an old SIGF_ABORT.
Warned(X, m, c, t) ==
  /\ ABORT \in Got(X.k, m, c, t) => c.at = "woken" /\ c.by = "wait" /\ c.ior \notin X.io.made
  /\ Returned(X.k, m, c, t) => ABORT \notin X.k.SigBits[t]
  /\ \A i \in X.io.made :
       IOOwner[i] = t /\ "WAITING" \in X.io.Flags[i] => c.by = "wait" /\ c.ior = i

\* A message on its reply port is that of a request that is done.
PostedDone(x) == \A i \in x.Posted : "DONE" \in x.Flags[i]

WarnInv == DelInv /\ PostedDone(io) /\ \A t \in Task : Warned(X0, mode, call[t], t)

\* A step gives t no SIGF_ABORT, and marks no request of t as waited for.
Spares(X, Y, t) ==
  /\ ABORT \in Y.k.SigBits[t] => ABORT \in X.k.SigBits[t]
  /\ Y.io.made \subseteq X.io.made
  /\ \A i \in Y.io.made :
       IOOwner[i] = t /\ "WAITING" \in Y.io.Flags[i] => "WAITING" \in X.io.Flags[i]

LEMMA WarnedOn ==
  ASSUME NEW X, NEW m, NEW Y, NEW n, NEW t, NEW c, Warned(X, m, c, t), Spares(X, Y, t),
         Returned(Y.k, n, c, t) => Returned(X.k, m, c, t) /\ Y.k.ret = X.k.ret
  PROVE  Warned(Y, n, c, t)
<1>1. ABORT \in Got(Y.k, n, c, t) => ABORT \in Got(X.k, m, c, t)
  BY DEF Got, Spares
<1>2. Returned(Y.k, n, c, t) => ABORT \notin Y.k.SigBits[t]
  BY DEF Warned, Spares
<1> QED
  BY <1>1, <1>2 DEF Warned, Spares

LEMMA SelfSpares ==
  ASSUME NEW X, NEW t
  PROVE  Spares(X, X, t)
BY DEF Spares

LEMMA SparesOn ==
  ASSUME NEW X, NEW Y, NEW Z, NEW t, Spares(X, Y, t), Spares(Y, Z, t)
  PROVE  Spares(X, Z, t)
BY DEF Spares

\* A device completes requests: it gives no SIGF_ABORT, and posts what is done.
LEMMA ServesSpares ==
  ASSUME NEW X \in Pair, NEW Y \in Pair, Serves(X, Y)
  PROVE  /\ \A t \in Task : Spares(X, Y, t)
         /\ PostedDone(X.io) => PostedDone(Y.io)
<1>1. \A i \in IOReq : /\ i \in X.io.made <=> i \in Y.io.made
                       /\ "WAITING" \in X.io.Flags[i] <=> "WAITING" \in Y.io.Flags[i]
                       /\ "DONE" \in X.io.Flags[i] => "DONE" \in Y.io.Flags[i]
  BY DEF Serves, Tells
<1>2. Honest(X, Y)
  BY DEF Serves
<1>3. Y.io.made \subseteq IOReq /\ Y.io.Posted \subseteq IOReq
  BY PairFields
<1>4. \A t \in Task : Spares(X, Y, t)
  BY <1>1, <1>2, <1>3 DEF Spares, Honest
<1>5. PostedDone(X.io) => PostedDone(Y.io)
  BY <1>1, <1>2, <1>3 DEF PostedDone, Honest
<1> QED
  BY <1>4, <1>5

LEMMA WarnZero ==
  ASSUME WarnInv
  PROVE  /\ DelInv /\ PostedDone(X0.io) /\ X0 \in Pair /\ X0.k = kb /\ X0.io = io
         /\ Me \in Task /\ Me = kb.CurrentTask /\ kb \in KernelState /\ io \in IOState
         /\ call \in [Task -> CallState]
         /\ \A t \in Task : Fits(X0, mode, call[t], t) /\ Warned(X0, mode, call[t], t)
<1>1. DelInv
  BY DEF WarnInv
<1>2. X0 \in Pair /\ X0.k = kb /\ X0.io = io
      /\ Me \in Task /\ Me = kb.CurrentTask /\ kb \in KernelState /\ io \in IOState
      /\ call \in [Task -> CallState] /\ \A t \in Task : Fits(X0, mode, call[t], t)
  BY <1>1, DelZero
<1> QED
  BY <1>1, <1>2 DEF WarnInv

\* What a step has to keep.
LEMMA KeepsWarned ==
  ASSUME DelInv', NEW Y \in Pair, kb' = Y.k, io' = Y.io, NEW n, mode' = n,
         NEW cs, call' = cs, PostedDone(Y.io), \A t \in Task : Warned(Y, n, cs[t], t)
  PROVE  WarnInv'
<1>1. X0' = Y
  BY PairFields DEF X0
<1> QED
  BY <1>1 DEF WarnInv

\* The task that has the processor has taken its SIGF_ABORT, and has not looked
\* at a deleted request.
LEMMA NotWarned ==
  ASSUME WarnInv, mode # "blip"
  PROVE  /\ ABORT \notin X0.k.SigBits[Me]
         /\ call[Me].by = "wait" /\ call[Me].at \in {"look", "sleep"} => call[Me].ior \in io.made
<1> DEFINE m == mode
           c == call[Me]
<1>1. /\ X0.k = kb /\ X0.io = io /\ Me = kb.CurrentTask /\ m # "blip"
      /\ Warned(X0, m, c, Me) /\ Fits(X0, m, c, Me)
  BY WarnZero
<1> HIDE DEF m, c
<1>2. ~Away(X0.k, m, Me)
  BY <1>1 DEF Away
<1>3. ABORT \notin X0.k.SigBits[Me]
  <2>1. CASE c.at = "woken"
    BY <1>1, <1>2, <2>1 DEF Warned, Returned
  <2>2. CASE c.at # "woken"
    BY <1>1, <2>2 DEF Warned, Got
  <2> QED
    BY <2>1, <2>2
<1>4. ASSUME c.by = "wait", c.at \in {"look", "sleep"} PROVE c.ior \in io.made
  <2>1. Informed(X0, m, c, Me)
    BY <1>1, <1>4, WaitsForOwn
  <2>2. ABORT \notin Got(X0.k, m, c, Me)
    BY <1>1, <1>4 DEF Warned
  <2> QED
    BY <1>1, <2>1, <2>2 DEF Informed
<1> QED
  BY <1>3, <1>4 DEF c

\* The current task goes on in a SWI, returns from it or sleeps.
LEMMA StayWarned ==
  ASSUME WarnInv, DelInv', NEW Y \in Pair, kb' = Y.k, io' = Y.io, NEW n, mode' = n,
         Y.k.CurrentTask = Me, NEW c \in CallState, call' = [call EXCEPT ![Me] = c],
         PostedDone(Y.io),
         \A t \in Task \ {Me} : Spares(X0, Y, t) \/ Warned(Y, n, call[t], t),
         Warned(Y, n, c, Me)
  PROVE  WarnInv'
<1> DEFINE cs == [call EXCEPT ![Me] = c]
           m == mode
<1>1. /\ Me \in Task /\ call \in [Task -> CallState]
      /\ \A t \in Task : Warned(X0, m, call[t], t)
  BY WarnZero
<1>2. cs[Me] = c /\ \A t \in Task \ {Me} : cs[t] = call[t]
  BY <1>1
<1>3. call' = cs
  OBVIOUS
<1> HIDE DEF cs, m
<1>4. ASSUME NEW t \in Task \ {Me} PROVE Warned(Y, n, call[t], t)
  <2>1. ~Returned(Y.k, n, call[t], t)
    BY <1>4 DEF Returned, Away
  <2>2. Spares(X0, Y, t) => Warned(Y, n, call[t], t)
    BY <1>1, <2>1, WarnedOn
  <2> QED
    BY <2>2
<1>5. \A t \in Task : Warned(Y, n, cs[t], t)
  BY <1>2, <1>4
<1> QED
  BY <1>3, <1>5, KeepsWarned

\* It is not about to wake up: it has no SIGF_ABORT, and is in no other WaitIO.
LEMMA SwiWarned ==
  ASSUME WarnInv, DelInv', mode # "blip", NEW Y \in Pair, kb' = Y.k, io' = Y.io,
         NEW n, mode' = n, Y.k.CurrentTask = Me,
         NEW c \in CallState, call' = [call EXCEPT ![Me] = c],
         PostedDone(Y.io), \A t \in Task : Spares(X0, Y, t),
         c.at \in {"woken", "aborted"} => Got(Y.k, n, c, Me) \subseteq X0.k.SigBits[Me],
         call[Me].by = "wait" => c.by = "wait" /\ c.ior = call[Me].ior
  PROVE  WarnInv'
<1> DEFINE d == call[Me]
           m == mode
<1>1. /\ ABORT \notin X0.k.SigBits[Me] /\ Me \in Task
      /\ Warned(X0, m, d, Me) /\ Spares(X0, Y, Me)
      /\ d.by = "wait" => c.by = "wait" /\ c.ior = d.ior
  BY WarnZero, NotWarned
<1> HIDE DEF d, m
<1>2. ABORT \notin Got(Y.k, n, c, Me)
  <2>1. CASE c.at \in {"woken", "aborted"}
    BY <1>1, <2>1
  <2>2. CASE c.at \notin {"woken", "aborted"}
    BY <1>1, <2>2 DEF Got, Returned, Spares
  <2> QED
    BY <2>1, <2>2
<1>3. ABORT \notin Y.k.SigBits[Me]
  BY <1>2 DEF Got
<1>4. Warned(Y, n, c, Me)
  BY <1>1, <1>2, <1>3 DEF Warned, Spares
<1> QED
  BY <1>4, StayWarned

\* An interrupt.
LEMMA InterruptWarned ==
  ASSUME WarnInv, DelInv', NEW Y \in Pair, kb' = Y.k, io' = Y.io, call' = call,
         NEW n, mode' = n, n = "blip" <=> mode = "blip",
         Y.k.CurrentTask = Me, Y.k.ret = X0.k.ret, PostedDone(Y.io),
         \A t \in Task : Spares(X0, Y, t)
  PROVE  WarnInv'
<1> DEFINE cs == call
           m == mode
<1>1. /\ Me = kb.CurrentTask /\ X0.k = kb /\ \A t \in Task : Warned(X0, m, cs[t], t)
  BY WarnZero
<1>2. (n = "blip" <=> m = "blip") /\ call' = cs
  OBVIOUS
<1> HIDE DEF cs, m
<1>3. ASSUME NEW t \in Task PROVE Warned(Y, n, cs[t], t)
  <2>1. Returned(Y.k, n, cs[t], t) => Returned(X0.k, m, cs[t], t) /\ Y.k.ret = X0.k.ret
    BY <1>1, <1>2 DEF Returned, Away
  <2> QED
    BY <1>1, <2>1, WarnedOn
<1> QED
  BY <1>2, <1>3, KeepsWarned


LEMMA ServedWarned ==
  ASSUME WarnInv, DelInv', NEW Y \in Pair, Serves(X0, Y), Interrupt(Y)
  PROVE  WarnInv'
<1> DEFINE n == FirqMode
<1>1. kb' = Y.k /\ io' = Y.io /\ call' = call /\ mode' = n /\ (n = "blip" <=> mode = "blip")
  BY DEF Interrupt, Continues, FirqMode
<1> HIDE DEF n
<1>2. X0 \in Pair /\ X0.k = kb /\ Me = kb.CurrentTask /\ PostedDone(X0.io)
  BY WarnZero
<1>3. Y.k.CurrentTask = Me /\ Y.k.ret = X0.k.ret
  BY <1>2 DEF Serves, Grows, SameFrames
<1>4. PostedDone(Y.io) /\ \A t \in Task : Spares(X0, Y, t)
  BY <1>2, ServesSpares
<1> QED
  BY <1>1, <1>3, <1>4, InterruptWarned

\* An interrupt that completes nothing.
LEMMA CalmWarned ==
  ASSUME WarnInv, DelInv', kb'.CurrentTask = Me, kb'.ret = kb.ret, kb'.SigBits = kb.SigBits,
         io'.Flags = io.Flags, io'.made = io.made, io'.Posted = io.Posted, call' = call,
         NEW n, mode' = n, n = "blip" <=> mode = "blip"
  PROVE  WarnInv'
<1> DEFINE Y == [k |-> kb', io |-> io']
<1>1. X0.k = kb /\ X0.io = io /\ PostedDone(X0.io)
  BY WarnZero
<1>2. kb' \in KernelState /\ io' \in IOState
  BY DEF DelInv, IOInv, IInv, KInv, Requests
<1>3. Y \in Pair /\ Y.k = kb' /\ Y.io = io'
  BY <1>2 DEF Pair
<1> HIDE DEF Y
<1>4. \A t \in Task : Spares(X0, Y, t)
  BY <1>1, <1>3 DEF Spares
<1>5. PostedDone(Y.io)
  BY <1>1, <1>3 DEF PostedDone
<1>6. Y.k.CurrentTask = Me /\ Y.k.ret = X0.k.ret
  BY <1>1, <1>3
<1> QED
  BY <1>3, <1>4, <1>5, <1>6, InterruptWarned

LEMMA DevicesWarned ==
  ASSUME WarnInv, DelInv', Devices
  PROVE  WarnInv'
<1>1. Good(X0, IOReq) /\ Clock(X0.io) /\ X0.io = io
  BY WarnZero, DelZero, XZero
<1>2. CASE Tick
  <2> DEFINE m == mode
  <2>1. mode' = m /\ kb' = kb /\ call' = call /\ m = mode
    BY <1>2 DEF Tick
  <2>2. io'.Flags = io.Flags /\ io'.made = io.made /\ io'.Posted = io.Posted
    BY <1>2, WarnZero DEF Tick, IOState
  <2>3. kb'.CurrentTask = Me /\ kb'.ret = kb.ret /\ kb'.SigBits = kb.SigBits
    BY <2>1, WarnZero
  <2> HIDE DEF m
  <2> QED
    BY <2>1, <2>2, <2>3, CalmWarned
<1>3. CASE cMtimerInt
  <2> DEFINE Y == reprocess(X0)
  <2>1. Good(Y, IOReq) /\ Serves(X0, Y)
    BY <1>1, ReprocessGood DEF Clock
  <2>2. Interrupt(Y)
    BY <1>3 DEF cMtimerInt
  <2> HIDE DEF Y
  <2> QED
    BY <2>1, <2>2, ServedWarned DEF Good
<1>4. CASE VBlank
  <2> DEFINE Y == ctimerInt(X0)
  <2>1. Good(Y, IOReq) /\ Serves(X0, Y)
    BY <1>1, BlankGood
  <2>2. Interrupt(Y)
    BY <1>4 DEF VBlank
  <2> HIDE DEF Y
  <2> QED
    BY <2>1, <2>2, ServedWarned DEF Good
<1>5. CASE CDStarts
  <2> DEFINE Y == AwaitRequest(X0)
  <2>1. Good(Y, IOReq) /\ Serves(X0, Y)
    BY <1>1, <1>5, AwaitGood DEF CDStarts
  <2>2. Interrupt(Y)
    BY <1>5 DEF CDStarts
  <2> HIDE DEF Y
  <2> QED
    BY <2>1, <2>2, ServedWarned DEF Good
<1>6. CASE CDFinishes
  <2> DEFINE Y == FinishRequest(X0)
  <2>1. Good(Y, IOReq) /\ Serves(X0, Y)
    BY <1>1, <1>6, FinishGood DEF CDFinishes
  <2>2. Interrupt(Y)
    BY <1>6 DEF CDFinishes
  <2> HIDE DEF Y
  <2> QED
    BY <2>1, <2>2, ServedWarned DEF Good
<1> QED
  BY <1>2, <1>3, <1>4, <1>5, <1>6 DEF Devices

LEMMA QuantumWarned ==
  ASSUME WarnInv, DelInv', Quantum
  PROVE  WarnInv'
<1> DEFINE n == FirqMode
<1>1. mode' = n /\ (n = "blip" <=> mode = "blip") /\ call' = call /\ io' = io
      /\ kb' = cblank(kb)
  BY DEF Quantum, FirqQuantum, FirqMode
<1> HIDE DEF n
<1>2. kb \in KernelState /\ kb.CurrentTask # NoTask /\ Me = kb.CurrentTask
  BY WarnZero, TaskAssumption
<1>3. kb'.CurrentTask = Me /\ kb'.ret = kb.ret /\ kb'.SigBits = kb.SigBits
  BY <1>1, <1>2 DEF cblank, KernelState
<1> QED
  BY <1>1, <1>3, CalmWarned

\* The task is in no call when it makes a SWI, and in none when it returns.
LEMMA IdleWarned ==
  ASSUME WarnInv, Swi
  PROVE  /\ mode # "blip" /\ call[Me] = NoCall /\ call[Me].by # "wait"
         /\ [call EXCEPT ![Me] = NoCall] = call
         /\ NoCall \in CallState /\ NoCall.at \notin {"woken", "aborted"}
<1>1. mode \in {"user", "swi"} /\ call[Me] = NoCall /\ [call EXCEPT ![Me] = NoCall] = call
      /\ NoCall \in CallState
  BY WarnZero, DelZero, UserCall
<1> QED
  BY <1>1 DEF NoCall

\* The SWI returns, and no request was waited for or marked in it.
LEMMA DoneWarned ==
  ASSUME WarnInv, DelInv', mode # "blip", call[Me].by # "wait",
         NEW Y \in Pair, Y.k.CurrentTask = Me, Done(Y),
         PostedDone(Y.io), \A t \in Task : Spares(X0, Y, t)
  PROVE  WarnInv'
<1> DEFINE n == "swi"
<1>1. kb' = Y.k /\ io' = Y.io /\ mode' = n /\ call' = [call EXCEPT ![Me] = NoCall]
  BY DEF Done, Continues
<1>2. NoCall \in CallState /\ NoCall.at \notin {"woken", "aborted"}
  BY DEF NoCall, CallState
<1> HIDE DEF n
<1> QED
  BY <1>1, <1>2, SwiWarned

LEMMA RefuseWarned ==
  ASSUME WarnInv, DelInv', mode # "blip", call[Me].by # "wait", Refuse
  PROVE  WarnInv'
<1>1. Done(X0) /\ X0 \in Pair /\ X0.k.CurrentTask = Me /\ PostedDone(X0.io)
  BY WarnZero DEF Refuse
<1> QED
  BY <1>1, SelfSpares, DoneWarned

LEMMA ControlMemWarned ==
  ASSUME WarnInv, DelInv', ControlMem
  PROVE  WarnInv'
<1> DEFINE n == "swi"
           c == [at |-> "scan", ior |-> NoIOReq, by |-> "scan"]
<1>1. kb' = X0.k /\ io' = X0.io /\ mode' = n /\ call' = [call EXCEPT ![Me] = c]
  BY DEF ControlMem, Goes, Continues
<1>2. c \in CallState /\ c.at = "scan"
  BY DEF CallState
<1>3. mode # "blip" /\ call[Me].by # "wait"
  BY IdleWarned DEF ControlMem
<1>4. X0 \in Pair /\ X0.k.CurrentTask = Me /\ PostedDone(X0.io)
  BY WarnZero
<1> HIDE DEF n, c
<1> QED
  BY <1>1, <1>2, <1>3, <1>4, SelfSpares, SwiWarned

\* A device serves requests in a SWI, which returns.
LEMMA ServedDone ==
  ASSUME WarnInv, DelInv', mode # "blip", call[Me].by # "wait",
         NEW Y \in Pair, Serves(X0, Y), Done(Y)
  PROVE  WarnInv'
<1>1. X0 \in Pair /\ X0.k = kb /\ Me = kb.CurrentTask /\ PostedDone(X0.io)
  BY WarnZero
<1>2. Y.k.CurrentTask = Me
  BY <1>1 DEF Serves, Grows, SameFrames
<1>3. PostedDone(Y.io) /\ \A t \in Task : Spares(X0, Y, t)
  BY <1>1, ServesSpares
<1> QED
  BY <1>2, <1>3, DoneWarned

LEMMA AbortIOWarned ==
  ASSUME WarnInv, DelInv', NEW i \in IOReq, AbortIO(i)
  PROVE  WarnInv'
<1>1. mode # "blip" /\ call[Me].by # "wait"
  BY IdleWarned DEF AbortIO
<1>2. CASE IOOwner[i] # Me
  BY <1>1, <1>2, RefuseWarned DEF AbortIO
<1>3. CASE IOOwner[i] = Me
  <2> DEFINE Y == internalAbortIO(X0, i)
  <2>1. Done(Y)
    BY <1>3 DEF AbortIO
  <2>2. Good(Y, IOReq) /\ Serves(X0, Y)
    BY WarnZero, DelZero, XZero, AbortGood
  <2> HIDE DEF Y
  <2> QED
    BY <1>1, <2>1, <2>2, ServedDone DEF Good
<1> QED
  BY <1>2, <1>3

\* A request is started whose message is not on the reply port.
LEMMA StartSpares ==
  ASSUME WarnInv, Known, NEW i \in IOReq, NEW c \in Cmds[i], NEW quick, StartIO(i),
         i \notin io.Posted
  PROVE  LET Y == internalSendIO(X0, i, c, quick) IN
         /\ Y \in Pair /\ Y.k.CurrentTask = Me /\ PostedDone(Y.io)
         /\ \A t \in Task : Spares(X0, Y, t)
<1> DEFINE F == Renew(X0, i, quick)
           Y == internalSendIO(X0, i, c, quick)
<1>1. /\ X0 \in Pair /\ X0.k = kb /\ X0.io = io /\ Good(X0, IOReq) /\ Clock(X0.io)
      /\ "DONE" \in X0.io.Flags[i] /\ Me = kb.CurrentTask /\ PostedDone(X0.io)
  BY WarnZero, DelZero, XZero DEF StartIO, Has
<1>2. Renewed(X0, F, i) /\ Serves(F, Y) /\ Good(Y, IOReq)
  BY <1>1, SendGood
<1> HIDE DEF F, Y
<1>3. /\ F \in Pair /\ F.k = X0.k /\ F.io.made = X0.io.made /\ F.io.Posted = X0.io.Posted
      /\ \A j \in IOReq \ {i} : F.io.Flags[j] = X0.io.Flags[j]
      /\ F.io.Flags[i] \ {"QUICK"} = X0.io.Flags[i] \ {"DONE", "QUICK"}
  BY <1>2 DEF Renewed, SameRequests
<1>4. \A j \in IOReq : "WAITING" \in F.io.Flags[j] => "WAITING" \in X0.io.Flags[j]
  <2> SUFFICES ASSUME NEW j \in IOReq, "WAITING" \in F.io.Flags[j]
               PROVE  "WAITING" \in X0.io.Flags[j]
    OBVIOUS
  <2>1. CASE j = i
    BY <1>3, <2>1
  <2>2. CASE j # i
    BY <1>3, <2>2
  <2> QED
    BY <2>1, <2>2
<1>5. \A t \in Task : Spares(X0, F, t)
  BY <1>3, <1>4, PairFields DEF Spares
<1>6. PostedDone(F.io)
  BY <1>1, <1>3, PairFields DEF PostedDone
<1>7. PostedDone(Y.io) /\ \A t \in Task : Spares(F, Y, t)
  BY <1>2, <1>3, <1>6, ServesSpares DEF Good
<1>8. Y.k.CurrentTask = Me
  BY <1>1, <1>2, <1>3 DEF Serves, Grows, SameFrames
<1> QED
  BY <1>2, <1>5, <1>7, <1>8, SparesOn DEF Good, Y

LEMMA SendIOWarned ==
  ASSUME WarnInv, DelInv', Known, TakesMessages, NEW i \in IOReq, NEW c \in Cmds[i], SendIO(i, c)
  PROVE  WarnInv'
<1>1. mode # "blip" /\ call[Me].by # "wait" /\ i \notin io.Posted
  BY IdleWarned DEF SendIO, Asks
<1>2. CASE ~StartIO(i)
  BY <1>1, <1>2, RefuseWarned DEF SendIO
<1>3. CASE StartIO(i)
  <2> DEFINE quick == c.quick
             Y == internalSendIO(X0, i, c, quick)
  <2>1. Done(Y)
    BY <1>3 DEF SendIO
  <2>2. /\ Y \in Pair /\ Y.k.CurrentTask = Me /\ PostedDone(Y.io)
        /\ \A t \in Task : Spares(X0, Y, t)
    BY <1>1, <1>3, StartSpares
  <2> HIDE DEF Y
  <2> QED
    BY <1>1, <2>1, <2>2, DoneWarned
<1> QED
  BY <1>2, <1>3

\* internalWaitIO starts, after the step has come to X: IO_WAITING is set for the
\* request that the task waits for from now on.
LEMMA EnterWaitWarned ==
  ASSUME WarnInv, DelInv', Swi, NEW i \in IOReq, NEW X \in Pair, X.k.CurrentTask = Me,
         PostedDone(X.io), \A t \in Task : Spares(X0, X, t),
         "QUICK" \notin X.io.Flags[i] => IOOwner[i] = Me, EnterWait(X, i)
  PROVE  WarnInv'
<1>1. mode # "blip" /\ call[Me].by # "wait" /\ Me \in Task
  BY IdleWarned, WarnZero
<1>2. CASE Has(X, i, "QUICK")
  BY <1>1, <1>2, DoneWarned DEF EnterWait
<1>3. CASE ~Has(X, i, "QUICK")
  <2> DEFINE c == [at |-> "look", ior |-> i, by |-> "wait"]
             W == Marked(X, i, {"WAITING"})
             Y == IF MsgBased(i) THEN X ELSE W
             n == "swi"
             m == mode
  <2>1. kb' = Y.k /\ io' = Y.io /\ mode' = n /\ call' = [call EXCEPT ![Me] = c]
    BY <1>3 DEF EnterWait, Goes, Continues
  <2>2. c \in CallState /\ c.by = "wait" /\ c.at = "look" /\ c.ior = i
    BY DEF CallState
  <2>3. {"WAITING"} \in SUBSET IOFlag
    BY DEF IOFlag
  <2> HIDE DEF c, n
  <2>4. /\ W \in Pair /\ W.k = X.k /\ SameRequests(X.io, W.io)
        /\ W.io.Flags[i] = X.io.Flags[i] \cup {"WAITING"}
        /\ \A j \in IOReq \ {i} : W.io.Flags[j] = X.io.Flags[j]
    BY <2>3, MarkedPair
  <2> HIDE DEF W
  <2>5. /\ Y \in Pair /\ Y.k = X.k /\ Y.io.made = X.io.made /\ Y.io.Posted = X.io.Posted
        /\ \A j \in IOReq : X.io.Flags[j] \subseteq Y.io.Flags[j]
        /\ \A j \in IOReq \ {i} : Y.io.Flags[j] = X.io.Flags[j]
    BY <2>4 DEF SameRequests
  <2> HIDE DEF Y
  <2>6. IOOwner[i] = Me /\ Y.io.made \subseteq IOReq
    BY <1>3, <2>5, PairFields DEF Has
  <2>7. PostedDone(Y.io)
    BY <2>5, PairFields DEF PostedDone
  <2>8. \A t \in Task \ {Me} : Spares(X0, Y, t)
    <3>1. \A t \in Task \ {Me} : Spares(X, Y, t)
      BY <2>5, <2>6 DEF Spares
    <3> QED
      BY <3>1, SparesOn
  <2>9. Warned(Y, n, c, Me)
    <3>1. Warned(X0, m, call[Me], Me) /\ ABORT \notin X0.k.SigBits[Me] /\ Spares(X0, X, Me)
      BY <1>1, WarnZero, NotWarned
    <3> HIDE DEF m
    <3>2. ABORT \notin Got(Y.k, n, c, Me)
      BY <2>2, <2>5, <3>1 DEF Got, Returned, Spares
    <3>3. ASSUME NEW j \in Y.io.made, IOOwner[j] = Me, "WAITING" \in Y.io.Flags[j], j # i
          PROVE  FALSE
      <4>1. j \in X.io.made /\ j \in IOReq /\ "WAITING" \in X.io.Flags[j]
        BY <2>5, <2>6, <3>3
      <4>2. j \in X0.io.made /\ "WAITING" \in X0.io.Flags[j]
        BY <3>1, <3>3, <4>1 DEF Spares
      <4> QED
        BY <1>1, <3>1, <3>3, <4>2 DEF Warned
    <3> QED
      BY <2>2, <3>2, <3>3 DEF Warned, Returned
  <2> QED
    BY <2>1, <2>2, <2>5, <2>7, <2>8, <2>9, StayWarned
<1> QED
  BY <1>2, <1>3

LEMMA WaitIOWarned ==
  ASSUME WarnInv, DelInv', NEW i \in IOReq, WaitIO(i)
  PROVE  WarnInv'
<1>1. Swi /\ mode # "blip" /\ call[Me].by # "wait"
  BY IdleWarned DEF WaitIO
<1>2. CASE ~Has(X0, i, "QUICK") /\ IOOwner[i] # Me
  BY <1>1, <1>2, RefuseWarned DEF WaitIO
<1>3. CASE ~(~Has(X0, i, "QUICK") /\ IOOwner[i] # Me)
  <2>1. EnterWait(X0, i) /\ ("QUICK" \notin X0.io.Flags[i] => IOOwner[i] = Me)
    BY <1>3 DEF WaitIO, Has
  <2>2. X0 \in Pair /\ X0.k.CurrentTask = Me /\ PostedDone(X0.io)
    BY WarnZero
  <2> QED
    BY <1>1, <2>1, <2>2, SelfSpares, EnterWaitWarned
<1> QED
  BY <1>2, <1>3

LEMMA DoIOWarned ==
  ASSUME WarnInv, DelInv', Known, TakesMessages, NEW i \in IOReq, NEW c \in Cmds[i], DoIO(i, c)
  PROVE  WarnInv'
<1>1. Swi /\ mode # "blip" /\ call[Me].by # "wait" /\ i \notin io.Posted
  BY IdleWarned DEF DoIO, Asks
<1>2. CASE ~StartIO(i)
  BY <1>1, <1>2, RefuseWarned DEF DoIO
<1>3. CASE StartIO(i)
  <2> DEFINE Y == internalSendIO(X0, i, c, TRUE)
  <2>1. /\ Y \in Pair /\ Y.k.CurrentTask = Me /\ PostedDone(Y.io)
        /\ \A t \in Task : Spares(X0, Y, t)
    BY <1>1, <1>3, StartSpares
  <2>2. IF Deferred(i, c) THEN EnterWait(Y, i) ELSE Done(Y)
    BY <1>3 DEF DoIO
  <2>3. IOOwner[i] = Me
    BY <1>3 DEF StartIO
  <2> HIDE DEF Y
  <2>4. CASE Deferred(i, c)
    BY <1>1, <2>1, <2>2, <2>3, <2>4, EnterWaitWarned
  <2>5. CASE ~Deferred(i, c)
    BY <1>1, <2>1, <2>2, <2>5, DoneWarned
  <2> QED
    BY <2>4, <2>5
<1> QED
  BY <1>2, <1>3


\* The message of a request is taken, or its mark.
LEMMA TakesSpares ==
  ASSUME NEW X \in Pair, NEW Y \in Pair, NEW i \in IOReq, Y.k = X.k, Takes(X.io, Y.io, i),
         "WAITING" \in Y.io.Flags[i] => "WAITING" \in X.io.Flags[i]
  PROVE  /\ \A t \in Task : Spares(X, Y, t)
         /\ PostedDone(X.io) => PostedDone(Y.io)
<1>1. \A j \in IOReq : /\ "WAITING" \in Y.io.Flags[j] => "WAITING" \in X.io.Flags[j]
                       /\ "DONE" \in X.io.Flags[j] => "DONE" \in Y.io.Flags[j]
  <2> TAKE j \in IOReq
  <2>1. CASE j = i
    <3>1. Y.io.Flags[i] \ {"WAITING"} = X.io.Flags[i] \ {"WAITING"}
      BY DEF Takes
    <3> QED
      BY <2>1, <3>1
  <2>2. CASE j # i
    BY <2>2 DEF Takes
  <2> QED
    BY <2>1, <2>2
<1>2. Y.io.made = X.io.made /\ Y.io.Posted \subseteq X.io.Posted
      /\ Y.io.made \subseteq IOReq /\ Y.io.Posted \subseteq IOReq
  BY PairFields DEF Takes
<1>3. \A t \in Task : Spares(X, Y, t)
  BY <1>1, <1>2 DEF Spares
<1>4. PostedDone(X.io) => PostedDone(Y.io)
  BY <1>1, <1>2 DEF PostedDone
<1> QED
  BY <1>3, <1>4

LEMMA TakenFlags ==
  ASSUME NEW X \in Pair, NEW i \in IOReq
  PROVE  /\ Received(X, i).io.Flags = X.io.Flags
         /\ Awakened(X, i).io.Flags[i] = X.io.Flags[i] \ {"WAITING"}
<1>1. X = [k |-> X.k, io |-> X.io] /\ X.io \in IOState /\ X.io.Flags \in [IOReq -> SUBSET IOFlag]
  BY PairFields
<1>2. Received(X, i).io.Flags = X.io.Flags
  BY <1>1 DEF Received, IOState
<1>3. Awakened(X, i).io.Flags[i] = X.io.Flags[i] \ {"WAITING"}
  BY <1>1 DEF Awakened, IOState
<1> QED
  BY <1>2, <1>3

LEMMA GetMsgWarned ==
  ASSUME WarnInv, DelInv', NEW i \in IOReq, GetMsg(i)
  PROVE  WarnInv'
<1> DEFINE Y == Received(X0, i)
<1>1. mode # "blip" /\ call[Me].by # "wait"
  BY IdleWarned DEF GetMsg
<1>2. Done(Y)
  BY DEF GetMsg, Received
<1>3. X0 \in Pair /\ X0.k.CurrentTask = Me /\ PostedDone(X0.io)
  BY WarnZero
<1>4. Y \in Pair /\ Y.k = X0.k /\ Takes(X0.io, Y.io, i) /\ Y.io.Flags = X0.io.Flags
  BY <1>3, ReceivedPair, TakenFlags
<1> HIDE DEF Y
<1>5. PostedDone(Y.io) /\ \A t \in Task : Spares(X0, Y, t)
  BY <1>3, <1>4, TakesSpares
<1> QED
  BY <1>1, <1>2, <1>3, <1>4, <1>5, DoneWarned

\* internalWaitIO looks at the request: it returns because the request was deleted
\* or is done, or goes to sleep.
LEMMA WaitLooksWarned ==
  ASSUME WarnInv, DelInv', WaitLooks
  PROVE  WarnInv'
<1> DEFINE d == call[Me]
           i == d.ior
           zap == d.at = "woken" /\ ABORT \in kb.ret
           n == "swi"
           m == mode
<1>1. d.at \in {"look", "woken"} /\ d.by = "wait" /\ mode = "swi" /\ m = "swi"
  BY DEF WaitLooks, Inside
<1>2. /\ X0 \in Pair /\ X0.k = kb /\ X0.io = io /\ Me = kb.CurrentTask /\ PostedDone(X0.io)
      /\ Fits(X0, m, d, Me) /\ Warned(X0, m, d, Me) /\ ABORT \notin X0.k.SigBits[Me]
  BY <1>1, WarnZero, NotWarned
<1>3. i \in IOReq
  BY <1>1, <1>2, WaitsForOwn
<1>n. NoCall \in CallState /\ NoCall.at = "none"
  BY DEF NoCall, CallState
<1>g. zap => ABORT \in Got(X0.k, m, d, Me)
  BY <1>1, <1>2 DEF Got, Returned, Away
<1>4. CASE zap
  <2>1. kb' = X0.k /\ io' = X0.io /\ mode' = n /\ call' = [call EXCEPT ![Me] = NoCall]
    BY <1>4 DEF WaitLooks, Done, Continues
  <2> HIDE DEF n, m, d
  <2>2. Warned(X0, n, NoCall, Me)
    BY <1>2, <1>4, <1>g, <1>n DEF Warned, Got, Returned
  <2> QED
    BY <1>2, <1>n, <2>1, <2>2, SelfSpares, StayWarned
<1>5. CASE ~zap /\ WaitOver(i)
  <2> DEFINE Y == Awakened(X0, i)
  <2>1. kb' = Y.k /\ io' = Y.io /\ mode' = n /\ call' = [call EXCEPT ![Me] = NoCall]
    BY <1>5 DEF WaitLooks, Awakened, Done, Continues
  <2> HIDE DEF n, m, i
  <2>2. /\ Y \in Pair /\ Y.k = X0.k /\ Takes(X0.io, Y.io, i)
        /\ Y.io.Flags[i] = X0.io.Flags[i] \ {"WAITING"}
    BY <1>2, <1>3, AwakenedPair, TakenFlags
  <2> HIDE DEF Y
  <2>3. PostedDone(Y.io) /\ \A t \in Task : Spares(X0, Y, t)
    BY <1>2, <1>3, <2>2, TakesSpares
  <2>4. d.ior = i
    BY DEF i
  <2> HIDE DEF d
  <2>5. Spares(X0, Y, Me) /\ "WAITING" \notin Y.io.Flags[i]
    BY <1>2, <2>2, <2>3, WarnZero
  <2>6. Warned(Y, n, NoCall, Me)
    BY <1>2, <1>n, <2>2, <2>4, <2>5 DEF Warned, Got, Returned, Spares
  <2> QED
    BY <1>2, <1>n, <2>1, <2>2, <2>3, <2>6, StayWarned
<1>6. CASE ~zap /\ ~WaitOver(i)
  <2> DEFINE c == [at |-> "sleep", ior |-> i, by |-> "wait"]
  <2>1. kb' = X0.k /\ io' = X0.io /\ mode' = n /\ call' = [call EXCEPT ![Me] = c]
    BY <1>6 DEF WaitLooks, Goes, Continues
  <2>2. c \in CallState /\ c.at = "sleep" /\ c.by = "wait" /\ c.ior = call[Me].ior
    BY <1>3 DEF CallState
  <2> HIDE DEF c, n
  <2> QED
    BY <1>1, <1>2, <2>1, <2>2, SelfSpares, SwiWarned
<1> QED
  BY <1>4, <1>5, <1>6

\* internalWait gives no signal to anybody.
LEMMA WaitSpares ==
  ASSUME WarnInv, DelInv', NEW bits, kb' = internalWait(kb, bits),
         NEW Y \in Pair, Y.k = kb', Y.io.made = X0.io.made, Y.io.Flags = X0.io.Flags
  PROVE  Y.k.CurrentTask = Me /\ \A t \in Task : Spares(X0, Y, t)
<1>1. X0.k = kb /\ Me = kb.CurrentTask /\ Me \in Task /\ kb \in KernelState
      /\ kb.SigBits \in [Task -> SUBSET Sig]
  BY WarnZero, Fields
<1>2. kb'.CurrentTask = Me /\ \A t \in Task \ {Me} : kb'.SigBits[t] = kb.SigBits[t]
  BY <1>1, WaitOthers
<1>3. kb'.SigBits[Me] \subseteq kb.SigBits[Me]
  <2> DEFINE t == kb.CurrentTask
             r == internalWait(kb, bits)
             res == Awaited(bits) \cap kb.SigBits[t]
  <2>0. kb' = r /\ t = Me
    BY <1>1
  <2>1. CASE ~(bits \subseteq kb.AllocatedSigs[t])
    BY <1>1, <2>1 DEF internalWait
  <2>2. CASE bits \subseteq kb.AllocatedSigs[t]
    <3>1. /\ res = {} => r.SigBits = kb.SigBits
          /\ res # {} => r.SigBits = [kb.SigBits EXCEPT ![t] = @ \ res]
      BY <1>1, <2>2, WaitFrame
    <3> HIDE DEF r, res, t
    <3> QED
      BY <1>1, <2>0, <3>1
  <2> QED
    BY <2>1, <2>2
<1> QED
  BY <1>1, <1>2, <1>3 DEF Spares

LEMMA WaitSleepsWarned ==
  ASSUME WarnInv, DelInv', WaitSleepsNow
  PROVE  WarnInv'
<1> DEFINE d == call[Me]
           i == d.ior
           c == [d EXCEPT !.at = "woken"]
           bits == WaitBitsOf(i)
           n == IF WaitSleeps(kb, bits) THEN "blip" ELSE "swi"
           m == mode
           Y == [k |-> kb', io |-> io']
<1>1. d.at = "sleep" /\ d.by = "wait" /\ mode # "blip"
  BY DEF WaitSleepsNow, Inside
<1>2. /\ X0 \in Pair /\ X0.k = kb /\ X0.io = io /\ Me = kb.CurrentTask /\ PostedDone(X0.io)
      /\ kb \in KernelState /\ Me \in Task /\ call \in [Task -> CallState] /\ d \in CallState
      /\ IOInv /\ Good(X0, IOReq)
  BY WarnZero, DelZero, XZero
<1>3. i \in IOReq /\ IOOwner[i] = Me
  <2>1. Fits(X0, m, d, Me)
    BY WarnZero
  <2> HIDE DEF m, d
  <2> QED
    BY <1>1, <2>1, WaitsForOwn
<1>4. bits \subseteq kb.AllocatedSigs[Me]
  <2>1. ReplySig[i] \subseteq kb.AllocatedSigs[Me] /\ SuperSigs \subseteq kb.AllocatedSigs[Me]
    BY <1>2, <1>3 DEF Good, PortsOpen, KInv, Allocated
  <2> QED
    BY <2>1, <1>3, IOAssumption DEF WaitBitsOf
<1>5. kb' = internalWait(kb, bits) /\ io' = io /\ mode' = n
      /\ call' = [call EXCEPT ![Me].at = "woken"]
  <2>1. [X0 EXCEPT !.k = internalWait(kb, bits)].k = internalWait(kb, bits)
        /\ [X0 EXCEPT !.k = internalWait(kb, bits)].io = X0.io
    BY <1>2 DEF Pair
  <2> QED
    BY <1>2, <2>1 DEF WaitSleepsNow, Sleeps, Continues
<1>6. call' = [call EXCEPT ![Me] = c] /\ c \in CallState /\ c.at = "woken" /\ c.by = "wait"
      /\ c.ior = call[Me].ior
  BY <1>1, <1>2, <1>5 DEF CallState
<1>7. n = IF WaitSleeps(kb, bits) THEN "blip" ELSE "swi"
  OBVIOUS
<1>8. kb' \in KernelState /\ io' \in IOState
  BY DEF DelInv, IOInv, IInv, KInv, Requests
<1>9. Y \in Pair /\ Y.k = kb' /\ Y.io = io'
  BY <1>8 DEF Pair
<1> HIDE DEF d, i, c, bits, n, m, Y
<1>10. Y.k.CurrentTask = Me /\ \A t \in Task : Spares(X0, Y, t)
  BY <1>2, <1>5, <1>9, WaitSpares
<1>11. Got(Y.k, n, c, Me) \subseteq X0.k.SigBits[Me]
  BY <1>2, <1>4, <1>5, <1>6, <1>7, <1>9, WaitGot
<1>12. PostedDone(Y.io)
  BY <1>2, <1>5, <1>9
<1> QED
  BY <1>1, <1>5, <1>6, <1>9, <1>10, <1>11, <1>12, SwiWarned

LEMMA ProgramWaitsWarned ==
  ASSUME WarnInv, DelInv', ProgramWaits
  PROVE  WarnInv'
<1> PICK bits \in MayWait : Wait(bits) /\ io' = io /\ call' = call
  BY DEF ProgramWaits
<1> DEFINE n == IF WaitSleeps(kb, bits) THEN "blip" ELSE "swi"
           Y == [k |-> kb', io |-> io']
<1>1. Swi /\ kb' = internalWait(kb, bits) /\ mode' = n
  BY DEF Wait
<1>2. kb' \in KernelState /\ io' \in IOState
  BY DEF DelInv, IOInv, IInv, KInv, Requests
<1>3. Y \in Pair /\ Y.k = kb' /\ Y.io = io'
  BY <1>2 DEF Pair
<1> HIDE DEF n, Y
<1>4. PostedDone(Y.io) /\ Y.io = X0.io
  BY <1>3, WarnZero
<1>5. Y.k.CurrentTask = Me /\ \A t \in Task : Spares(X0, Y, t)
  BY <1>1, <1>3, <1>4, WaitSpares
<1> QED
  BY <1>1, <1>3, <1>4, <1>5, IdleWarned, SwiWarned

LEMMA PingSignalWarned ==
  ASSUME WarnInv, DelInv', PingSignal
  PROVE  WarnInv'
<1> DEFINE n == "swi"
           Y == [k |-> kb', io |-> io']
<1>1. io' = io /\ call' = call /\ Swi /\ mode' = n
  BY DEF PingSignal, FreeSignal, AllocSignal, Return
<1>2. /\ Me \in Task /\ kb \in KernelState /\ Me = kb.CurrentTask
      /\ kb.SigBits \in [Task -> SUBSET Sig]
  BY WarnZero, Fields
<1>3. ASSUME NEW alloc, kb' = ClearSignals([kb EXCEPT !.AllocatedSigs[Me] = alloc], Me, Ping)
      PROVE  kb'.CurrentTask = Me /\ \A t \in Task : kb'.SigBits[t] \subseteq kb.SigBits[t]
  BY <1>2, <1>3 DEF ClearSignals, KernelState
<1>4. kb'.CurrentTask = Me /\ \A t \in Task : kb'.SigBits[t] \subseteq kb.SigBits[t]
  <2>1. \/ kb' = kb
        \/ kb' = ClearSignals([kb EXCEPT !.AllocatedSigs[Me] = kb.AllocatedSigs[Me] \ Ping], Me, Ping)
        \/ kb' = ClearSignals([kb EXCEPT !.AllocatedSigs[Me] = kb.AllocatedSigs[Me] \cup Ping], Me, Ping)
    BY DEF PingSignal, FreeSignal, AllocSignal, Return
  <2> QED
    BY <1>2, <1>3, <2>1
<1>5. kb' \in KernelState /\ io' \in IOState
  BY DEF DelInv, IOInv, IInv, KInv, Requests
<1>6. Y \in Pair /\ Y.k = kb' /\ Y.io = io'
  BY <1>5 DEF Pair
<1> HIDE DEF n, Y
<1>7. X0.k = kb /\ PostedDone(Y.io) /\ Y.io = X0.io
  BY <1>1, <1>6, WarnZero
<1>8. \A t \in Task : Spares(X0, Y, t)
  BY <1>4, <1>6, <1>7 DEF Spares
<1> QED
  BY <1>1, <1>4, <1>6, <1>7, <1>8, IdleWarned, SwiWarned

LEMMA AbortAndWaitWarned ==
  ASSUME WarnInv, DelInv', mode # "blip", call[Me].by # "wait", NEW i \in IOReq,
         NEW by \in {"delete", "scan"}, AbortAndWait(i, by)
  PROVE  WarnInv'
<1> DEFINE X == internalAbortIO(X0, i)
           W == [X EXCEPT !.k = ClearSignals(@, X.k.CurrentTask, {ONESHOT})]
           Y == IF Has(X, i, "QUICK") THEN X ELSE W
           c == [at |-> "check", ior |-> i, by |-> by]
           n == "swi"
<1>1. /\ X0 \in Pair /\ X0.k = kb /\ X0.io = io /\ PostedDone(X0.io) /\ QuickDone(X0.io, IOReq)
      /\ Good(X0, IOReq) /\ Clock(X0.io) /\ Me \in Task /\ Me = kb.CurrentTask
  BY WarnZero, DelZero, XZero
<1>2. Good(X, IOReq) /\ Serves(X0, X)
  BY <1>1, AbortGood
<1>3. X.k.CurrentTask = Me
  BY <1>1, <1>2 DEF Serves, Grows, SameFrames
<1>4. kb' = Y.k /\ io' = Y.io /\ mode' = n /\ call' = [call EXCEPT ![Me] = c]
  BY <1>3 DEF AbortAndWait, Goes, Continues
<1>5. c \in CallState /\ c.at = "check"
  BY DEF CallState
<1> HIDE DEF X, c, n
<1>6. /\ W \in Pair /\ W.io = X.io /\ Steady(X.k, W.k)
      /\ W.k.SigBits = [X.k.SigBits EXCEPT ![X.k.CurrentTask] = @ \ {ONESHOT}]
      /\ \A t \in Task \ {X.k.CurrentTask} : W.k.SigBits[t] = X.k.SigBits[t]
  BY <1>2, ClearedSignals, ZenonT(60) DEF Good
<1>7. W.k.SigBits[Me] \subseteq X.k.SigBits[Me] /\ W.k.CurrentTask = Me
  <2>1. X.k.SigBits \in [Task -> SUBSET Sig]
    BY <1>2, PairFields, Fields DEF Good
  <2> QED
    BY <1>1, <1>3, <1>6, <2>1 DEF Steady, SameFrames
<1> HIDE DEF W
<1>8. /\ Y \in Pair /\ Y.io = X.io /\ Y.k.CurrentTask = Me
      /\ \A t \in Task : Y.k.SigBits[t] \subseteq X.k.SigBits[t]
  BY <1>2, <1>3, <1>6, <1>7 DEF Good
<1> HIDE DEF Y
<1>9. PostedDone(X.io) /\ \A t \in Task : Spares(X0, X, t)
  BY <1>1, <1>2, ServesSpares DEF Good
<1>10. PostedDone(Y.io) /\ \A t \in Task : Spares(X0, Y, t)
  BY <1>8, <1>9 DEF Spares
<1> QED
  BY <1>4, <1>5, <1>8, <1>10, SwiWarned


\* A deletion that tells the owner, which waits for the request: in WaitIO it is
\* asleep, or about to return.
LEMMA WaitedOwner ==
  ASSUME WarnInv, call[Me].by # "wait", NEW X, Renames(io, X.io),
         NEW i \in IOReq, i \in io.made, Waited(X, i)
  PROVE  LET c == call[IOOwner[i]] IN
         /\ IOOwner[i] # Me /\ c.at = "woken" /\ c.by = "wait" /\ c.ior = i
<1> DEFINE t == IOOwner[i]
           m == mode
           c == call[t]
<1>1. /\ t \in Task /\ X0.k = kb /\ X0.io = io /\ Me = kb.CurrentTask
      /\ Fits(X0, m, c, t) /\ Warned(X0, m, c, t)
  BY WarnZero, IOAssumption
<1>2. CASE MsgBased(i)
  BY <1>2 DEF Waited
<1>3. CASE ~MsgBased(i)
  <2>1. "WAITING" \in io.Flags[i]
    BY <1>3 DEF Waited, Has, Renames
  <2>2. c.by = "wait" /\ c.ior = i
    BY <1>1, <2>1 DEF Warned
  <2>3. t # Me
    BY <2>2
  <2> HIDE DEF m, c, t
  <2>4. Away(X0.k, m, t)
    BY <1>1, <2>3 DEF Away
  <2>5. c.at \in {"look", "sleep", "woken"}
    BY <1>1, <2>2, WaitsForOwn
  <2>6. c.at = "woken"
    BY <1>1, <2>4, <2>5 DEF Fits, CallKnown
  <2> QED
    BY <2>2, <2>3, <2>6 DEF c, t
<1> QED
  BY <1>2, <1>3

\* The end of a deletion, after the step has come to X.
LEMMA ZapWarned ==
  ASSUME WarnInv, DelInv', mode # "blip", call[Me].by # "wait",
         NEW X \in Pair, X.k = kb, Renames(io, X.io),
         NEW i \in IOReq, i \in io.made, Done(Zapped(X, i))
  PROVE  WarnInv'
<1> DEFINE G == Gone(X, i)
           o == IOOwner[i]
           S == Signal(G, o, {ABORT})
           Y == Zapped(X, i)
           n == "swi"
           m == mode
<1>1. /\ X0.k = kb /\ X0.io = io /\ Me \in Task /\ Me = kb.CurrentTask /\ PostedDone(X0.io)
      /\ IOInv /\ Good(X0, IOReq) /\ kb \in KernelState /\ io \in IOState
  BY WarnZero, DelZero, XZero
<1>2. G \in Pair /\ G.k = kb /\ Removes(X.io, G.io, i)
  BY GonePair
<1>3. o \in Task /\ {ABORT} \in SUBSET Sig /\ {ABORT} \subseteq kb.AllocatedSigs[o]
      /\ KInv(kb) /\ kb.SigBits \in [Task -> SUBSET Sig]
  <2>1. o \in Task /\ ABORT \in SuperSigs /\ KInv(kb)
    BY <1>1, IOAssumption, SigAssumption DEF Good
  <2> QED
    BY <1>1, <2>1, Fields DEF KInv, Allocated, Sig
<1>4. Y = IF Waited(X, i) THEN S ELSE G
  BY DEF Zapped, Gone
<1>5. kb' = Y.k /\ io' = Y.io /\ mode' = n /\ call' = [call EXCEPT ![Me] = NoCall]
  BY DEF Done, Continues
<1>6. NoCall \in CallState /\ NoCall.at = "none"
  BY DEF NoCall, CallState
<1> HIDE DEF G, Y, n, o
<1>7. /\ S \in Pair /\ S.io = G.io /\ Grows(kb, S.k)
      /\ S.k.SigBits = [kb.SigBits EXCEPT ![o] = @ \cup {ABORT}]
  BY <1>2, <1>3, SignalGrows
<1> HIDE DEF S
<1>8. /\ Y \in Pair /\ Y.k.CurrentTask = Me
      /\ Y.io.made = X0.io.made \ {i} /\ Y.io.Posted \subseteq X0.io.Posted
      /\ Y.io.Flags = X0.io.Flags
      /\ \A t \in Task : t # o \/ ~Waited(X, i) => Y.k.SigBits[t] = X0.k.SigBits[t]
  <2>1. X0.io = io /\ X0.k = kb /\ G.io.made = X0.io.made \ {i}
        /\ G.io.Posted \subseteq X0.io.Posted /\ G.io.Flags = X0.io.Flags
    BY <1>1, <1>2 DEF Removes, Renames
  <2>2. S.k.CurrentTask = Me /\ \A t \in Task : t # o => S.k.SigBits[t] = kb.SigBits[t]
    BY <1>1, <1>3, <1>7 DEF Grows, SameFrames
  <2>3. CASE Waited(X, i)
    BY <1>4, <1>7, <2>1, <2>2, <2>3
  <2>4. CASE ~Waited(X, i)
    BY <1>1, <1>2, <1>4, <2>1, <2>4
  <2> QED
    BY <2>3, <2>4
<1>9. PostedDone(Y.io)
  BY <1>1, <1>8 DEF PostedDone
<1>10. \A t \in Task : t # o \/ ~Waited(X, i) => Spares(X0, Y, t)
  BY <1>8 DEF Spares
<1>11. Waited(X, i) => o # Me /\ call[o].at = "woken" /\ call[o].by = "wait" /\ call[o].ior = i
  BY WaitedOwner DEF o
<1>12. Waited(X, i) => Warned(Y, n, call[o], o)
  <2> SUFFICES ASSUME Waited(X, i) PROVE Warned(Y, n, call[o], o)
    OBVIOUS
  <2>1. Warned(X0, m, call[o], o)
    BY <1>3, WarnZero
  <2>2. ~Returned(Y.k, n, call[o], o)
    BY <1>8, <1>11 DEF Returned, Away
  <2> QED
    BY <1>8, <1>11, <2>1, <2>2 DEF Warned
<1>13. Warned(Y, n, NoCall, Me)
  <2>1. Warned(X0, m, call[Me], Me) /\ ABORT \notin X0.k.SigBits[Me] /\ Spares(X0, Y, Me)
    BY <1>1, <1>10, <1>11, WarnZero, NotWarned
  <2> HIDE DEF m
  <2> QED
    BY <1>6, <2>1 DEF Warned, Spares, Got, Returned
<1>14. \A t \in Task \ {Me} : Spares(X0, Y, t) \/ Warned(Y, n, call[t], t)
  BY <1>10, <1>12
<1> QED
  BY <1>5, <1>6, <1>8, <1>9, <1>13, <1>14, StayWarned

LEMMA DeleteIOReqWarned ==
  ASSUME WarnInv, DelInv', NEW i \in IOReq, DeleteIOReq(i)
  PROVE  WarnInv'
<1>1. mode # "blip" /\ call[Me].by # "wait" /\ i \in io.made
  BY IdleWarned DEF DeleteIOReq
<1>2. CASE Me \notin SuperTask \cup {IOOwner[i]}
  BY <1>1, <1>2, RefuseWarned DEF DeleteIOReq
<1>3. CASE ~(Me \notin SuperTask \cup {IOOwner[i]}) /\ Has(X0, i, "DONE")
  <2>1. Done(Zapped(X0, i)) /\ X0 \in Pair /\ X0.k = kb /\ X0.io = io
    BY <1>3, WarnZero DEF DeleteIOReq
  <2>2. Renames(io, X0.io)
    BY <2>1 DEF Renames, SameDevices
  <2> QED
    BY <1>1, <2>1, <2>2, ZapWarned
<1>4. CASE ~(Me \notin SuperTask \cup {IOOwner[i]}) /\ ~Has(X0, i, "DONE")
  <2> DEFINE by == "delete"
  <2>1. AbortAndWait(i, by) /\ by \in {"delete", "scan"}
    BY <1>4 DEF DeleteIOReq
  <2> HIDE DEF by
  <2> QED
    BY <1>1, <2>1, AbortAndWaitWarned
<1> QED
  BY <1>2, <1>3, <1>4

LEMMA ScansWarned ==
  ASSUME WarnInv, DelInv', Scans
  PROVE  WarnInv'
<1>1. mode # "blip" /\ call[Me].by # "wait"
  BY DEF Scans, Inside
<1>2. CASE IntoMemory = {}
  BY <1>1, <1>2, RefuseWarned DEF Scans, Refuse
<1>3. CASE IntoMemory # {}
  <2> DEFINE by == "scan"
  <2>1. PICK i \in IntoMemory : AbortAndWait(i, by)
    BY <1>3 DEF Scans
  <2>2. i \in IOReq /\ by \in {"delete", "scan"}
    BY CallAssumption, WarnZero DEF IntoMemory
  <2> HIDE DEF by
  <2> QED
    BY <1>1, <2>1, <2>2, AbortAndWaitWarned
<1> QED
  BY <1>2, <1>3

\* The request is done with, after the step has come to X.
LEMMA AbortedGoesWarned ==
  ASSUME WarnInv, DelInv', mode # "blip", call[Me].by \in {"delete", "scan"},
         call[Me].ior \in IOReq, NEW X \in Pair, X.k = kb, Renames(io, X.io), AbortedGoes(X)
  PROVE  WarnInv'
<1> DEFINE i == call[Me].ior
           m == mode
<1>0. /\ X0.k = kb /\ X0.io = io /\ Me \in Task /\ Me = kb.CurrentTask /\ PostedDone(X0.io)
      /\ Ends(X0, m, call[Me], Me)
  BY WarnZero, DelZero
<1> HIDE DEF m
<1>1. CASE call[Me].by = "delete"
  <2>1. i \in io.made
    BY <1>0, <1>1 DEF Ends
  <2>2. Done(Zapped(X, i)) /\ i \in IOReq
    BY <1>1 DEF AbortedGoes
  <2> HIDE DEF i
  <2> QED
    BY <1>1, <2>1, <2>2, ZapWarned
<1>2. CASE call[Me].by = "scan"
  <2> DEFINE c == [at |-> "scan", ior |-> NoIOReq, by |-> "scan"]
             n == "swi"
  <2>1. kb' = X.k /\ io' = X.io /\ mode' = n /\ call' = [call EXCEPT ![Me] = c]
    BY <1>2 DEF AbortedGoes, Goes, Continues
  <2>2. c \in CallState /\ c.at = "scan"
    BY DEF CallState
  <2> HIDE DEF c, n
  <2>3. \A t \in Task : Spares(X0, X, t)
    BY <1>0 DEF Spares, Renames
  <2>4. PostedDone(X.io)
    BY <1>0 DEF PostedDone, Renames
  <2>5. X.k.CurrentTask = Me
    BY <1>0
  <2> QED
    BY <1>2, <2>1, <2>2, <2>3, <2>4, <2>5, SwiWarned
<1> QED
  BY <1>1, <1>2

\* The task sleeps until the request is done, after the step has come to X.
LEMMA AbortedSleepsWarned ==
  ASSUME WarnInv, DelInv', mode # "blip", call[Me].by \in {"delete", "scan"},
         NEW X \in Pair, X.k = kb, Renames(io, X.io), Sleeps(X, {ONESHOT}, "aborted")
  PROVE  WarnInv'
<1> DEFINE d == call[Me]
           c == [d EXCEPT !.at = "aborted"]
           bits == {ONESHOT}
           n == IF WaitSleeps(kb, bits) THEN "blip" ELSE "swi"
           Y == [k |-> kb', io |-> io']
<1>1. /\ X0.k = kb /\ X0.io = io /\ Me \in Task /\ Me = kb.CurrentTask /\ PostedDone(X0.io)
      /\ kb \in KernelState /\ KInv(kb) /\ d \in CallState /\ call \in [Task -> CallState]
  BY WarnZero, DelZero
<1>2. bits \subseteq kb.AllocatedSigs[Me]
  BY <1>1, IOAssumption DEF KInv, Allocated
<1>3. kb' = internalWait(kb, bits) /\ io' = X.io /\ mode' = n
      /\ call' = [call EXCEPT ![Me].at = "aborted"]
  <2>1. [X EXCEPT !.k = internalWait(kb, bits)].k = internalWait(kb, bits)
        /\ [X EXCEPT !.k = internalWait(kb, bits)].io = X.io
    BY DEF Pair
  <2> QED
    BY <2>1 DEF Sleeps, Continues
<1>4. /\ call' = [call EXCEPT ![Me] = c] /\ c \in CallState /\ c.at = "aborted"
      /\ call[Me].by # "wait"
  BY <1>1, <1>3 DEF CallState
<1>5. n = IF WaitSleeps(kb, bits) THEN "blip" ELSE "swi"
  OBVIOUS
<1>6. kb' \in KernelState /\ io' \in IOState
  BY DEF DelInv, IOInv, IInv, KInv, Requests
<1>7. Y \in Pair /\ Y.k = kb' /\ Y.io = io'
  BY <1>6 DEF Pair
<1> HIDE DEF d, c, bits, n, Y
<1>8. /\ Y.io.made = X0.io.made /\ Y.io.Flags = X0.io.Flags /\ Y.io.Posted = X0.io.Posted
  BY <1>1, <1>3, <1>7 DEF Renames
<1>9. Y.k.CurrentTask = Me /\ \A t \in Task : Spares(X0, Y, t)
  BY <1>3, <1>7, <1>8, WaitSpares
<1>10. Got(Y.k, n, c, Me) \subseteq X0.k.SigBits[Me]
  BY <1>1, <1>2, <1>3, <1>4, <1>5, <1>7, WaitGot
<1>11. PostedDone(Y.io)
  BY <1>1, <1>8 DEF PostedDone
<1> QED
  BY <1>3, <1>4, <1>7, <1>9, <1>10, <1>11, SwiWarned

LEMMA AbortedChecksWarned ==
  ASSUME WarnInv, DelInv', AbortedChecks
  PROVE  WarnInv'
<1> DEFINE i == call[Me].ior
<1>1. Inside({"check"}, {"delete", "scan"})
  BY DEF AbortedChecks
<1>2. mode # "blip" /\ Inside({"check", "aborted"}, {"delete", "scan"})
  BY <1>1 DEF Inside
<1>3. /\ call[Me].by \in {"delete", "scan"} /\ i \in IOReq /\ Me \in Task
      /\ X0 \in Pair /\ X0.k = kb /\ X0.io = io /\ Renames(io, X0.io)
  BY <1>2, WarnZero, InsideAbort
<1>4. CASE io.Flags[i] \cap {"QUICK", "DONE"} # {}
  <2>1. AbortedGoes(X0)
    BY <1>4 DEF AbortedChecks
  <2> QED
    BY <1>2, <1>3, <2>1, AbortedGoesWarned
<1>5. CASE ~(io.Flags[i] \cap {"QUICK", "DONE"} # {})
  <2> DEFINE X == Named(X0, i, Me)
  <2>1. Sleeps(X, {ONESHOT}, "aborted")
    BY <1>5 DEF AbortedChecks, Named
  <2> HIDE DEF i
  <2>2. X \in Pair /\ X.k = kb /\ Renames(io, X.io)
    BY <1>3, NamedPair, SMTT(30)
  <2> HIDE DEF X
  <2> QED
    BY <1>2, <1>3, <2>1, <2>2, AbortedSleepsWarned
<1> QED
  BY <1>4, <1>5

LEMMA AbortedWakesWarned ==
  ASSUME WarnInv, DelInv', AbortedWakes
  PROVE  WarnInv'
<1> DEFINE i == call[Me].ior
<1>1. Inside({"aborted"}, {"delete", "scan"})
  BY DEF AbortedWakes
<1>2. mode # "blip" /\ Inside({"check", "aborted"}, {"delete", "scan"})
  BY <1>1 DEF Inside
<1>3. /\ call[Me].by \in {"delete", "scan"} /\ i \in IOReq /\ Me \in Task
      /\ X0 \in Pair /\ X0.k = kb /\ X0.io = io /\ Renames(io, X0.io)
  BY <1>2, WarnZero, InsideAbort
<1>4. CASE ONESHOT \in kb.ret
  <2> DEFINE X == Named(X0, i, NoTask)
  <2>1. AbortedGoes(X)
    BY <1>4 DEF AbortedWakes, Named
  <2> HIDE DEF i
  <2>2. X \in Pair /\ X.k = kb /\ Renames(io, X.io)
    BY <1>3, NamedPair, SMTT(30)
  <2> HIDE DEF X
  <2>3. call[Me].ior \in IOReq
    BY <1>3 DEF i
  <2> QED
    BY <1>2, <1>3, <2>1, <2>2, <2>3, AbortedGoesWarned
<1>5. CASE ONESHOT \notin kb.ret
  <2>1. Sleeps(X0, {ONESHOT}, "aborted")
    BY <1>5 DEF AbortedWakes
  <2> QED
    BY <1>2, <1>3, <2>1, AbortedSleepsWarned
<1> QED
  BY <1>4, <1>5


\* Another task gets the processor: in internalWait it takes SIGF_ABORT, if it
\* has it, with what it waits for.
LEMMA SwitchWarned ==
  ASSUME WarnInv, DelInv', StartNext \/ SwiRet \/ FirqReturn, SwiRet => call[Me].at = "none",
         io' = io, call' = call
  PROVE  WarnInv'
<1> DEFINE Y == [k |-> kb', io |-> io']
           n == mode'
           m == mode
           cs == call
           u == kb'.CurrentTask
<1>1. /\ Me \in Task /\ Me = kb.CurrentTask /\ IInv /\ X0.k = kb /\ X0.io = io
      /\ \A t \in Task : Fits(X0, m, cs[t], t) /\ Warned(X0, m, cs[t], t)
      /\ PostedDone(X0.io) /\ kb.SigBits \in [Task -> SUBSET Sig]
  BY WarnZero, Fields DEF IOInv, DelInv
<1>2. kb' \in KernelState /\ io' \in IOState
  BY DEF DelInv, IOInv, IInv, KInv, Requests
<1>3. Y \in Pair /\ Y.k = kb' /\ Y.io = X0.io /\ Y.io = io'
  BY <1>1, <1>2 DEF Pair
<1>4. \/ Launched(kb, kb', n)
      \/ ~StartNext /\ Frozen(kb, kb') /\ u = Me /\ n = "user"
  BY <1>1, SwitchFrame DEF Me
<1>5. m = "blip" => StartNext
  BY DEF SwiRet, FirqReturn
<1>6. m = "swi" => cs[Me].at = "none"
  BY DEF StartNext, FirqReturn
<1>7. mode' = n /\ call' = cs
  OBVIOUS
<1> HIDE DEF Y, m, cs, n
<1>8. ASSUME NEW t \in Task PROVE Warned(Y, n, cs[t], t)
  <2> DEFINE c == cs[t]
  <2>1. Fits(X0, m, c, t) /\ Warned(X0, m, c, t)
    BY <1>1
  <2>2. CASE c.at = "none"
    <3>1. ABORT \notin kb.SigBits[t] /\ c.at \notin {"woken", "aborted"}
      BY <1>1, <2>1, <2>2 DEF Warned, Got
    <3> HIDE DEF c
    <3>2. kb'.SigBits[t] \subseteq kb.SigBits[t]
      BY <1>1, <1>4 DEF Launched, Frozen
    <3>3. ABORT \notin Got(Y.k, n, c, t)
      BY <1>3, <3>1, <3>2 DEF Got, Returned
    <3> QED
      BY <1>3, <2>1, <3>1, <3>3 DEF Warned, Returned, c
  <2>3. CASE c.at # "none"
    <3>1. Away(kb, m, t)
      BY <1>1, <1>6, <2>1, <2>3 DEF Fits, CallKnown, Away
    <3>2. /\ c.at \in {"woken", "aborted"} /\ kb.psr[t] = "super"
          /\ kb.WaitBits[t] = Awaited(SleepBits(c))
      BY <1>1, <2>1, <2>3, <3>1 DEF Fits, CallKnown
    <3> HIDE DEF c
    <3>3. Got(X0.k, m, c, t) = kb.SigBits[t]
      BY <1>1, <3>1 DEF Got, Returned
    <3>4. CASE t # u
      <4>1. kb'.SigBits[t] = kb.SigBits[t] /\ ~Returned(kb', n, c, t)
        BY <1>4, <3>4 DEF Launched, Frozen, Returned, Away
      <4>2. Got(Y.k, n, c, t) = kb.SigBits[t]
        BY <1>3, <4>1 DEF Got
      <4> QED
        BY <1>3, <2>1, <3>3, <4>1, <4>2 DEF Warned, c
    <3>5. CASE t = u
      <4>1. Launched(kb, kb', n)
        BY <1>1, <1>4, <1>5, <3>1, <3>5 DEF Away
      <4>2. /\ n = "swi" /\ kb'.ret = kb.WaitBits[t] \cap kb.SigBits[t]
            /\ kb'.SigBits[t] = kb.SigBits[t] \ kb'.ret
        BY <3>2, <3>5, <4>1 DEF Launched
      <4>3. Returned(kb', n, c, t)
        BY <3>2, <3>5, <4>2 DEF Returned, Away
      <4>4. Got(kb', n, c, t) = kb.SigBits[t]
        BY <4>2, <4>3 DEF Got
      <4>5. ABORT \notin kb'.SigBits[t]
        BY <3>2, <4>2 DEF Awaited
      <4> QED
        BY <1>3, <2>1, <3>3, <4>4, <4>5 DEF Warned, c
    <3> QED
      BY <3>4, <3>5
  <2> QED
    BY <2>2, <2>3
<1> QED
  BY <1>1, <1>3, <1>7, <1>8, KeepsWarned

LEMMA WarnInit == IOInit => WarnInv
<1> SUFFICES ASSUME IOInit PROVE WarnInv
  OBVIOUS
<1>1. DelInv /\ X0.io = io /\ X0.k = kb /\ \A t \in Task : call[t] = NoCall
  BY EndsInit DEF X0, IOInit
<1>2. io.Posted = {} /\ io.Flags = [i \in IOReq |-> {"DONE", "QUICK"}] /\ io.made = IOReq
  BY DEF IOInit, NewIOReqs
<1>3. \A t \in Task : kb.SigBits[t] = {}
  BY DEF IOInit, Started
<1>4. \A t \in Task : Warned(X0, mode, NoCall, t)
  BY <1>1, <1>2, <1>3 DEF Warned, Got, Returned, NoCall
<1> QED
  BY <1>1, <1>2, <1>4 DEF WarnInv, PostedDone

LEMMA WarnNext ==
  ASSUME Known, OwnDeletes, TakesMessages, WarnInv, [IONext]_ioVars
  PROVE  WarnInv'
<1>0. DelInv'
  BY EndsNext DEF WarnInv
<1>1. CASE IOSwi
  <2>1. ASSUME NEW i \in IOReq, NEW c \in Cmds[i], SendIO(i, c) PROVE WarnInv'
    BY <1>0, <2>1, SendIOWarned
  <2>2. ASSUME NEW i \in IOReq, NEW c \in Cmds[i], DoIO(i, c) PROVE WarnInv'
    BY <1>0, <2>2, DoIOWarned
  <2>3. ASSUME NEW i \in IOReq, WaitIO(i) PROVE WarnInv'
    BY <1>0, <2>3, WaitIOWarned
  <2>4. ASSUME NEW i \in IOReq, GetMsg(i) PROVE WarnInv'
    BY <1>0, <2>4, GetMsgWarned
  <2>5. ASSUME NEW i \in IOReq, AbortIO(i) PROVE WarnInv'
    BY <1>0, <2>5, AbortIOWarned
  <2>6. ASSUME NEW i \in IOReq, DeleteIOReq(i) PROVE WarnInv'
    BY <1>0, <2>6, DeleteIOReqWarned
  <2>7. CASE ControlMem \/ ProgramWaits \/ PingSignal
    BY <1>0, <2>7, ControlMemWarned, ProgramWaitsWarned, PingSignalWarned
  <2> QED
    BY <1>1, <2>1, <2>2, <2>3, <2>4, <2>5, <2>6, <2>7 DEF IOSwi
<1>2. CASE Kernel
  <2>1. CASE WaitLooks \/ WaitSleepsNow \/ Scans
    BY <1>0, <2>1, WaitLooksWarned, WaitSleepsWarned, ScansWarned
  <2>2. CASE AbortedChecks \/ AbortedWakes
    BY <1>0, <2>2, AbortedChecksWarned, AbortedWakesWarned
  <2>3. CASE call[Me].at = "none" /\ SwiRet /\ UNCHANGED <<io, call>>
    BY <1>0, <2>3, SwitchWarned
  <2>4. CASE (StartNext \/ FirqReturn) /\ UNCHANGED <<io, call>>
    <3>1. ~SwiRet
      BY <2>4 DEF StartNext, FirqReturn, SwiRet
    <3> QED
      BY <1>0, <2>4, <3>1, SwitchWarned
  <2> QED
    BY <1>2, <2>1, <2>2, <2>3, <2>4 DEF Kernel
<1>3. CASE Devices
  BY <1>0, <1>3, DevicesWarned
<1>4. CASE Quantum
  BY <1>0, <1>4, QuantumWarned
<1>5. CASE UNCHANGED ioVars
  <2>1. kb' = kb /\ mode' = mode /\ io' = io /\ call' = call
    BY <1>5 DEF ioVars, vars
  <2>2. X0' = X0
    BY <2>1 DEF X0
  <2> QED
    BY <1>0, <2>1, <2>2 DEF WarnInv
<1> QED
  BY <1>1, <1>2, <1>3, <1>4, <1>5 DEF IONext

\* Who comes back from WaitIO: the task that has looked at its request, and found
\* SIGF_ABORT or the request's end.
LEMMA WaitEnds ==
  ASSUME WarnInv, [IONext]_ioVars, NEW t \in Task, call[t].by = "wait", call'[t].by = "none"
  PROVE  t = Me /\ WaitLooks
<1>1. /\ Me \in Task /\ call \in [Task -> CallState]
  BY WarnZero
<1>2. ASSUME NEW c, call' = [call EXCEPT ![Me] = c] PROVE t = Me
  BY <1>1, <1>2
<1>3. ASSUME Swi, NEW c, call' = [call EXCEPT ![Me] = c] PROVE FALSE
  BY <1>1, <1>2, <1>3, IdleWarned
<1>4. ASSUME call' = call PROVE FALSE
  BY <1>4
<1>5. ASSUME call[Me].by # "wait", NEW c, call' = [call EXCEPT ![Me] = c] PROVE FALSE
  BY <1>2, <1>5
<1>6. CASE IOSwi
  <2>1. Swi
    BY <1>6 DEF IOSwi, SendIO, DoIO, Asks, WaitIO, GetMsg, AbortIO, DeleteIOReq, ControlMem,
                ProgramWaits, Wait, PingSignal, FreeSignal, AllocSignal
  <2>2. call' = call \/ \E c : call' = [call EXCEPT ![Me] = c]
    BY <1>6 DEF IOSwi, SendIO, DoIO, EnterWait, WaitIO, GetMsg, AbortIO, DeleteIOReq,
                AbortAndWait, ControlMem, ProgramWaits, PingSignal, Refuse, Done, Goes
  <2> QED
    BY <1>3, <1>4, <2>1, <2>2
<1>7. CASE WaitSleepsNow
  <2>1. call' = [call EXCEPT ![Me].at = "woken"]
    BY <1>7 DEF WaitSleepsNow, Sleeps
  <2>2. call'[t].by = call[t].by
    BY <1>1, <2>1 DEF CallState
  <2> QED
    BY <2>2
<1>8. CASE AbortedChecks \/ AbortedWakes \/ Scans
  <2>1. call[Me].by # "wait"
    BY <1>8 DEF AbortedChecks, AbortedWakes, Scans, Inside
  <2>2. \/ \E c : call' = [call EXCEPT ![Me] = c]
        \/ call' = [call EXCEPT ![Me].at = "aborted"]
    BY <1>8 DEF AbortedChecks, AbortedWakes, Scans, AbortedGoes, AbortAndWait, Sleeps, Done, Goes
  <2>3. \E c : call' = [call EXCEPT ![Me] = c]
    BY <2>2
  <2> QED
    BY <1>5, <2>1, <2>3
<1>9. CASE Devices \/ Quantum \/ UNCHANGED ioVars
  <2>1. call' = call
    BY <1>9 DEF Devices, Tick, cMtimerInt, VBlank, CDStarts, CDFinishes, Interrupt, Quantum,
                ioVars
  <2> QED
    BY <1>4, <2>1
<1>10. CASE /\ (call[Me].at = "none" /\ SwiRet) \/ StartNext \/ FirqReturn
            /\ UNCHANGED <<io, call>>
  BY <1>4, <1>10
<1>11. CASE WaitLooks
  BY <1>2, <1>11 DEF WaitLooks, Done, Goes
<1> QED
  BY <1>6, <1>7, <1>8, <1>9, <1>10, <1>11 DEF IONext, Kernel

\* A task that returns from WaitIO, and whose request was not deleted, finds it
\* done and no driver has it, whatever other tasks have aborted or deleted while
\* it slept.
THEOREM NoLongerActiveHolds ==
  Known /\ OwnDeletes /\ TakesMessages => (IOSpec => NoLongerActive)
<1> SUFFICES ASSUME Known, OwnDeletes, TakesMessages PROVE IOSpec => NoLongerActive
  OBVIOUS
<1>1. WarnInv /\ [IONext]_ioVars => WarnInv'
  BY WarnNext
<1>2. ASSUME WarnInv, WarnInv', [IONext]_ioVars, NEW t \in Task, NEW i \in IOReq,
             call[t].by = "wait", call[t].ior = i, call'[t].by = "none", i \in io'.made
      PROVE  "DONE" \in io'.Flags[i] /\ ~Active(i)'
  <2> DEFINE m == mode
             d == call[Me]
             zap == d.at = "woken" /\ ABORT \in kb.ret
             Y == Awakened(X0, i)
  <2>1. t = Me /\ WaitLooks /\ d.ior = i
    BY <1>2, WaitEnds
  <2>2. d.at \in {"look", "woken"} /\ d.by = "wait" /\ mode = "swi" /\ m = "swi"
    BY <2>1 DEF WaitLooks, Inside
  <2>3. /\ X0 \in Pair /\ X0.k = kb /\ X0.io = io /\ Me = kb.CurrentTask
        /\ PostedDone(X0.io) /\ Warned(X0, m, d, Me) /\ call \in [Task -> CallState]
    BY <1>2, WarnZero
  <2>4. ASSUME zap PROVE FALSE
    <3>1. ABORT \in Got(X0.k, m, d, Me)
      BY <2>2, <2>3, <2>4 DEF Got, Returned, Away
    <3>2. i \notin io.made
      BY <2>1, <2>3, <3>1 DEF Warned
    <3>3. io' = io
      BY <2>1, <2>3, <2>4 DEF WaitLooks, Done, Continues
    <3> QED
      BY <1>2, <3>2, <3>3
  <2>5. WaitOver(i)
    <3>1. ASSUME Goes(X0, "sleep", i, "wait") PROVE FALSE
      BY <1>2, <2>1, <2>3, <3>1 DEF Goes
    <3> QED
      BY <2>1, <2>4, <3>1 DEF WaitLooks
  <2>6. io' = Y.io
    BY <2>1, <2>4, <2>5 DEF WaitLooks, Awakened, Done, Continues
  <2>7. "DONE" \in io.Flags[i]
    BY <2>3, <2>5 DEF WaitOver, Has, PostedDone
  <2>8. "DONE" \in io'.Flags[i]
    <3>1. Y.io.Flags[i] = X0.io.Flags[i] \ {"WAITING"}
      BY <2>3, TakenFlags
    <3> HIDE DEF Y
    <3> QED
      BY <2>3, <2>6, <2>7, <3>1
  <2>9. InProgress(io', IOReq)
    BY <1>2 DEF WarnInv, DelInv, IOInv, Requests
  <2>10. i \notin Busy(io')
    BY <2>8, <2>9 DEF InProgress
  <2>11. ~Active(i)'
    <3> DEFINE P == Places'
               q == IF io'.RequestRunning = NoIOReq THEN <<>> ELSE <<io'.RequestRunning>>
    <3>1. /\ DOMAIN P = {1, 2, 3, 4} /\ P[1] = io'.DelayList /\ P[2] = io'.MDelayList
          /\ P[3] = io'.RequestsToDo /\ P[4] = q
      BY DEF Places
    <3>2. ToSet(q) = {io'.RequestRunning} \ {NoIOReq}
      BY DEF ToSet
    <3>3. Active(i)' <=> \E p \in DOMAIN P : i \in ToSet(P[p])
      BY DEF Active
    <3> HIDE DEF P, q
    <3> QED
      BY <2>10, <3>1, <3>2, <3>3 DEF Busy, Clocked, Driven
  <2> QED
    BY <2>8, <2>11
<1> DEFINE Ended == \A t \in Task, i \in IOReq :
             /\ call[t].by = "wait" /\ call[t].ior = i /\ call'[t].by = "none"
             /\ i \in io'.made
             => "DONE" \in io'.Flags[i] /\ ~Active(i)'
<1>3. WarnInv /\ WarnInv' /\ [IONext]_ioVars => [Ended]_ioVars
  BY <1>2
<1> HIDE DEF Ended
<1>4. IOSpec => [][Ended]_ioVars
  BY <1>1, <1>3, WarnInit, PTL DEF IOSpec
<1> QED
  BY <1>4 DEF Ended, NoLongerActive
=============================================================================

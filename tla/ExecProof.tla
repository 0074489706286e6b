----------------------------- MODULE ExecProof -----------------------------
(***************************************************************************)
(* Proofs about the executive, for every set of tasks, signals and         *)
(* priorities.                                                             *)
(***************************************************************************)
EXTENDS Exec, SequenceLemmas, FiniteSetTheorems

-----------------------------------------------------------------------------
(* The ready queue *)

\* TailInsertNode inserts behind every node that is at least as urgent.
LEMMA TailInsertPlace ==
  ASSUME NEW S, NEW q \in Seq(S), NEW pri \in [S -> Nat], NEW t \in S
  PROVE  \E n \in 1..(Len(q) + 1) :
           /\ TailInsertNode(q, pri, t) = InsertAt(q, n, t)
           /\ \A j \in 1..Len(q) : pri[q[j]] >= pri[t] => j < n
           /\ n > 1 => pri[q[n - 1]] >= pri[t]
<1> DEFINE behind == {i \in DOMAIN q : pri[q[i]] >= pri[t]}
           Ends(i) == (i = 0 \/ i \in behind) /\ \A j \in behind : j <= i
           place == CHOOSE i \in 0..Len(q) : Ends(i)
<1>1. Len(q) \in Nat /\ DOMAIN q = 1..Len(q)
  BY LenProperties
<1>2. \E i \in 0..Len(q) : Ends(i)
  <2>1. behind \in SUBSET (1..Len(q))
    BY <1>1
  <2> HIDE DEF behind
  <2> QED
    BY <1>1, <2>1, LastPosition
<1>3. place \in 0..Len(q) /\ Ends(place)
  BY <1>2
<1>4. TailInsertNode(q, pri, t) = InsertAt(q, place + 1, t)
  BY DEF TailInsertNode
<1> HIDE DEF place
<1>5. \A j \in 1..Len(q) : pri[q[j]] >= pri[t] => j < place + 1
  BY <1>1, <1>3
<1>6. place + 1 > 1 => pri[q[(place + 1) - 1]] >= pri[t]
  <2>1. (place + 1) - 1 = place
    BY <1>1, <1>3
  <2> QED
    BY <1>1, <1>3, <2>1
<1>7. place + 1 \in 1..(Len(q) + 1)
  BY <1>1, <1>3
<1> QED
  BY <1>4, <1>5, <1>6, <1>7

\* Queueing a task keeps the queue a sorted queue of distinct tasks, and its
\* head is the old head or the new task.
LEMMA TailInsertQueue ==
  ASSUME NEW S, NEW q \in Seq(S), NEW pri \in [S -> Nat], NEW t \in S,
         IsInjective(q), t \notin ToSet(q), Sorted(q, pri)
  PROVE  LET r == TailInsertNode(q, pri, t) IN
         /\ r \in Seq(S) /\ r # <<>>
         /\ ToSet(r) = ToSet(q) \cup {t}
         /\ IsInjective(r)
         /\ Sorted(r, pri)
         /\ Head(r) = t \/ (q # <<>> /\ Head(r) = Head(q))
<1> DEFINE r == TailInsertNode(q, pri, t)
<1>1. PICK n \in 1..(Len(q) + 1) :
        /\ r = InsertAt(q, n, t)
        /\ \A j \in 1..Len(q) : pri[q[j]] >= pri[t] => j < n
        /\ n > 1 => pri[q[n - 1]] >= pri[t]
  BY TailInsertPlace
<1>2. ToSet(r) = ToSet(q) \cup {t} /\ IsInjective(r)
  BY <1>1, InsertAtSet
<1>3. /\ Len(q) \in Nat /\ DOMAIN q = 1..Len(q)
      /\ r \in Seq(S) /\ DOMAIN r = 1..(Len(q) + 1) /\ Len(r) = Len(q) + 1
      /\ \A j \in 1..(Len(q) + 1) :
           r[j] = IF j < n THEN q[j] ELSE IF j = n THEN t ELSE q[j - 1]
  <2>1. /\ InsertAt(q, n, t) \in Seq(S)
        /\ Len(InsertAt(q, n, t)) = Len(q) + 1
        /\ \A j \in 1..(Len(q) + 1) :
             InsertAt(q, n, t)[j] =
               IF j < n THEN q[j] ELSE IF j = n THEN t ELSE q[j - 1]
    BY InsertAtLemma
  <2> HIDE DEF r
  <2>2. /\ r \in Seq(S) /\ Len(r) = Len(q) + 1
        /\ \A j \in 1..(Len(q) + 1) :
             r[j] = IF j < n THEN q[j] ELSE IF j = n THEN t ELSE q[j - 1]
    BY <1>1, <2>1
  <2> QED
    BY <2>2, LenProperties
<1> HIDE DEF r
<1>4. r # <<>> /\ Head(r) = r[1]
  BY <1>3, EmptySeq, HeadTailProperties
<1>5. Head(r) = t \/ (q # <<>> /\ Head(r) = Head(q))
  <2>1. CASE n = 1
    BY <1>3, <1>4, <2>1
  <2>2. CASE n # 1
    <3>1. 1 \in 1..Len(q) /\ r[1] = q[1]
      BY <1>3, <2>2
    <3>2. q # <<>> /\ Head(q) = q[1]
      BY <1>3, <3>1, EmptySeq, HeadTailProperties
    <3> QED
      BY <1>4, <3>1, <3>2
  <2> QED
    BY <2>1, <2>2
<1>6. \A j \in 1..Len(q) : q[j] \in S /\ pri[q[j]] \in Nat
  BY <1>3, ElementOfSeq
<1>7. pri[t] \in Nat
  OBVIOUS
<1>8. \A i, j \in 1..Len(q) : i < j => pri[q[i]] >= pri[q[j]]
  BY <1>3 DEF Sorted
<1>9. \A j \in 1..Len(q) : j < n => pri[q[j]] >= pri[t]
  <2>1. SUFFICES ASSUME NEW j \in 1..Len(q), j < n
                 PROVE  pri[q[j]] >= pri[t]
    OBVIOUS
  <2>2. n - 1 \in 1..Len(q) /\ n > 1 /\ j <= n - 1
    BY <1>3, <2>1
  <2>3. pri[q[n - 1]] >= pri[t]
    BY <1>1, <2>2
  <2>4. j = n - 1 \/ pri[q[j]] >= pri[q[n - 1]]
    BY <1>8, <2>1, <2>2
  <2> QED
    BY <1>6, <1>7, <2>1, <2>2, <2>3, <2>4
<1>10. \A j \in 1..Len(q) : ~(j < n) => pri[t] >= pri[q[j]]
  BY <1>1, <1>6, <1>7
<1>11. Sorted(r, pri)
  <2>1. SUFFICES ASSUME NEW i \in 1..(Len(q) + 1), NEW j \in 1..(Len(q) + 1), i < j
                 PROVE  pri[r[i]] >= pri[r[j]]
    BY <1>3 DEF Sorted
  <2>2. CASE j < n
    <3>1. i \in 1..Len(q) /\ j \in 1..Len(q) /\ r[i] = q[i] /\ r[j] = q[j]
      BY <1>3, <2>1, <2>2
    <3> QED
      BY <1>8, <2>1, <3>1
  <2>3. CASE j = n
    <3>1. i \in 1..Len(q) /\ i < n /\ r[i] = q[i] /\ r[j] = t
      BY <1>3, <2>1, <2>3
    <3> QED
      BY <1>9, <3>1
  <2>4. CASE j > n
    <3>1. j - 1 \in 1..Len(q) /\ ~(j - 1 < n) /\ r[j] = q[j - 1]
      BY <1>3, <2>1, <2>4
    <3>2. CASE i < n
      <4>1. i \in 1..Len(q) /\ i < j - 1 /\ r[i] = q[i]
        BY <1>3, <2>1, <2>4, <3>2
      <4> QED
        BY <1>8, <3>1, <4>1
    <3>3. CASE i = n
      <4>1. r[i] = t
        BY <1>3, <3>3
      <4> QED
        BY <1>10, <3>1, <4>1
    <3>4. CASE i > n
      <4>1. i - 1 \in 1..Len(q) /\ i - 1 < j - 1 /\ r[i] = q[i - 1]
        BY <1>3, <2>1, <3>4
      <4> QED
        BY <1>8, <3>1, <4>1
    <3> QED
      BY <3>2, <3>3, <3>4
  <2> QED
    BY <2>2, <2>3, <2>4
<1> QED
  BY <1>2, <1>3, <1>4, <1>5, <1>11 DEF r

\* The rest of a sorted queue is sorted and no better than its head.
LEMMA SortedTail ==
  ASSUME NEW S, NEW q \in Seq(S), NEW pri \in [S -> Nat], q # <<>>, Sorted(q, pri)
  PROVE  /\ Sorted(Tail(q), pri)
         /\ Tail(q) # <<>> => pri[Head(q)] >= pri[Head(Tail(q))]
<1> DEFINE r == Tail(q)
<1>1. /\ Len(q) \in Nat /\ DOMAIN q = 1..Len(q) /\ Head(q) = q[1] /\ Len(q) # 0
      /\ r \in Seq(S) /\ DOMAIN r = 1..(Len(q) - 1) /\ Len(r) = Len(q) - 1
      /\ \A j \in 1..(Len(q) - 1) : r[j] = q[j + 1] /\ j + 1 \in 1..Len(q)
  BY LenProperties, HeadTailProperties, EmptySeq
<1> HIDE DEF r
<1>2. Sorted(r, pri)
  <2>1. SUFFICES ASSUME NEW i \in 1..(Len(q) - 1), NEW j \in 1..(Len(q) - 1), i < j
                 PROVE  pri[r[i]] >= pri[r[j]]
    BY <1>1 DEF Sorted
  <2>2. /\ i + 1 \in DOMAIN q /\ j + 1 \in DOMAIN q /\ i + 1 < j + 1
        /\ r[i] = q[i + 1] /\ r[j] = q[j + 1]
    BY <1>1, <2>1
  <2> QED
    BY <2>2 DEF Sorted
<1>3. ASSUME r # <<>> PROVE pri[Head(q)] >= pri[Head(r)]
  <2>1. Head(r) = r[1] /\ 1 \in 1..(Len(q) - 1)
    BY <1>1, <1>3, EmptySeq, HeadTailProperties
  <2>2. r[1] = q[2] /\ 2 \in DOMAIN q /\ 1 \in DOMAIN q
    BY <1>1, <2>1
  <2>3. pri[q[1]] >= pri[q[2]]
    BY <2>2 DEF Sorted
  <2> QED
    BY <1>1, <2>1, <2>2, <2>3
<1> QED
  BY <1>2, <1>3 DEF r

\* Unlinking a task takes it out of the queue and keeps the order of the rest.
LEMMA RemoveNodeQueue ==
  ASSUME NEW S, NEW q \in Seq(S), NEW pri \in [S -> Nat], NEW t \in ToSet(q),
         IsInjective(q), Sorted(q, pri)
  PROVE  LET r == RemoveNode(q, t) IN
         /\ r \in Seq(S)
         /\ ToSet(r) = ToSet(q) \ {t}
         /\ IsInjective(r)
         /\ Sorted(r, pri)
         /\ r # <<>> => /\ q # <<>>
                        /\ pri[Head(r)] <= pri[Head(q)]
<1> DEFINE n == CHOOSE i \in DOMAIN q : q[i] = t
           r == RemoveAt(q, n)
<1>1. Len(q) \in Nat /\ DOMAIN q = 1..Len(q)
  BY LenProperties
<1>2. n \in 1..Len(q) /\ q[n] = t
  BY <1>1 DEF ToSet
<1>3. RemoveNode(q, t) = r
  BY DEF RemoveNode
<1> HIDE DEF n
<1>4. /\ r \in Seq(S) /\ Len(r) = Len(q) - 1 /\ DOMAIN r = 1..(Len(q) - 1)
      /\ \A j \in 1..(Len(q) - 1) : r[j] = IF j < n THEN q[j] ELSE q[j + 1]
  <2>1. /\ r \in Seq(S) /\ Len(r) = Len(q) - 1
        /\ \A j \in 1..(Len(q) - 1) : r[j] = IF j < n THEN q[j] ELSE q[j + 1]
    BY <1>2, RemoveAtLemma
  <2> HIDE DEF r
  <2> QED
    BY <1>1, <2>1, LenProperties
<1>5. ToSet(r) = ToSet(q) \ {t} /\ IsInjective(r)
  BY <1>2, RemoveAtSet
<1> HIDE DEF r
<1> DEFINE at(m) == IF m < n THEN m ELSE m + 1
<1>6. \A m \in 1..(Len(q) - 1) : at(m) \in 1..Len(q) /\ r[m] = q[at(m)]
  <2>1. \A m \in 1..(Len(q) - 1) : at(m) \in 1..Len(q)
    BY <1>1, <1>2
  <2>2. \A m \in 1..(Len(q) - 1) : r[m] = q[at(m)]
    BY <1>4
  <2> QED
    BY <2>1, <2>2
<1>7. \A i, j \in 1..(Len(q) - 1) : i < j => at(i) < at(j)
  BY <1>1, <1>2
<1> HIDE DEF at
<1>8. Sorted(r, pri)
  <2>1. SUFFICES ASSUME NEW i \in 1..(Len(q) - 1), NEW j \in 1..(Len(q) - 1), i < j
                 PROVE  pri[r[i]] >= pri[r[j]]
    BY <1>4 DEF Sorted
  <2>2. at(i) \in DOMAIN q /\ at(j) \in DOMAIN q /\ at(i) < at(j)
    BY <1>1, <1>6, <1>7, <2>1
  <2> QED
    BY <1>6, <2>1, <2>2 DEF Sorted
<1>9. ASSUME r # <<>>
      PROVE  q # <<>> /\ pri[Head(r)] <= pri[Head(q)]
  <2>1. 1 \in 1..(Len(q) - 1) /\ Head(r) = r[1] /\ 1 \in 1..Len(q)
    BY <1>1, <1>4, <1>9, EmptySeq, HeadTailProperties
  <2>2. q # <<>> /\ Head(q) = q[1]
    BY <1>1, <2>1, EmptySeq, HeadTailProperties
  <2>3. at(1) \in 1..Len(q) /\ r[1] = q[at(1)]
    BY <1>6, <2>1
  <2>4. at(1) = 1 \/ 1 < at(1)
    BY <2>3
  <2>5. \A j \in 1..Len(q) : pri[q[j]] \in Nat
    BY <1>1, ElementOfSeq
  <2> QED
    BY <1>1, <2>1, <2>2, <2>3, <2>4, <2>5 DEF Sorted
<1> QED
  BY <1>3, <1>4, <1>5, <1>8, <1>9

-----------------------------------------------------------------------------
(* The inductive invariant *)

Asleep(k) ==
  \A t \in k.TaskWaitQ : /\ k.SigBits[t] \cap k.WaitBits[t] = {}
                         /\ ABORT \in k.WaitBits[t]
                         /\ k.WaitBits[t] \subseteq k.AllocatedSigs[t]

Allocated(k) ==
  \A t \in Task : /\ k.SigBits[t] \subseteq k.AllocatedSigs[t]
                  /\ SuperSigs \subseteq k.AllocatedSigs[t]

\* What every kernel state satisfies, in the middle of a SWI too.
KInv(k) ==
  /\ k \in KernelState /\ k.CurrentTask \in Task
  /\ Linked(k)
  /\ Sorted(k.TaskReadyQ, k.Priority)
  /\ Asleep(k)
  /\ Allocated(k)
  /\ k.Flags[Idle] # "waiting"
  /\ k.quantaclock \/ k.PleaseReschedule

\* A better task is ready.
Urgent(k) == k.TaskReadyQ # <<>> /\ CurPri(k) < HeadPri(k)

\* The reschedule is requested as soon as a better task is ready.
Asked(k) == Urgent(k) => k.PleaseReschedule

Running(k, m) ==
  \A t \in Task : k.Flags[t] = "running" <=> t = k.CurrentTask /\ m # "blip"

\* In user mode a standing request has no task to switch to.
Settled(k) ==
  k.TaskReadyQ # <<>> /\ CurPri(k) <= HeadPri(k) => ~k.PleaseReschedule

IInv ==
  /\ KInv(kb) /\ mode \in Mode
  /\ Running(kb, mode)
  /\ mode # "blip" => Asked(kb)
  /\ mode = "user" => Settled(kb)

\* A step of the kernel that does not change which task runs.
SameRunner(k, r) ==
  /\ r.CurrentTask = k.CurrentTask
  /\ \A t \in Task : r.Flags[t] = "running" <=> k.Flags[t] = "running"

\* The tasks of S are on no queue; the queues agree with the other flags.
Unlinked(k, S) ==
  /\ IsInjective(k.TaskReadyQ)
  /\ \A t \in S : t \notin ToSet(k.TaskReadyQ) /\ t \notin k.TaskWaitQ
  /\ \A t \in Task \ S : /\ k.Flags[t] = "ready" <=> t \in ToSet(k.TaskReadyQ)
                         /\ k.Flags[t] = "waiting" <=> t \in k.TaskWaitQ

-----------------------------------------------------------------------------
(* The parts of a SWI *)

\* The fields of a kernel state have their types.
LEMMA Fields ==
  ASSUME NEW k \in KernelState
  PROVE  /\ k.TaskReadyQ \in Seq(Task) /\ k.TaskWaitQ \in SUBSET Task
         /\ k.PleaseReschedule \in BOOLEAN /\ k.quantaclock \in BOOLEAN
         /\ k.Flags \in [Task -> Flag] /\ k.psr \in [Task -> Psr]
         /\ k.Priority \in [Task -> Nat]
         /\ k.AllocatedSigs \in [Task -> SUBSET Sig]
         /\ k.SigBits \in [Task -> SUBSET Sig]
         /\ k.WaitBits \in [Task -> SUBSET Sig]
         /\ k.ret \in SUBSET Sig
BY DEF KernelState

\* MakeReady puts a task that is on no queue on the ready queue.
LEMMA MakeReadyLemma ==
  ASSUME NEW k \in KernelState, NEW S \in SUBSET Task, NEW t \in S, Unlinked(k, S),
         Sorted(k.TaskReadyQ, k.Priority)
  PROVE  LET r == MakeReady(k, t) IN
         /\ r \in KernelState
         /\ r = [k EXCEPT !.Flags = r.Flags, !.TaskReadyQ = r.TaskReadyQ]
         /\ r.Flags = [k.Flags EXCEPT ![t] = "ready"]
         /\ Unlinked(r, S \ {t})
         /\ Sorted(r.TaskReadyQ, k.Priority)
         /\ r.TaskReadyQ # <<>>
         /\ \/ Head(r.TaskReadyQ) = t
            \/ k.TaskReadyQ # <<>> /\ Head(r.TaskReadyQ) = Head(k.TaskReadyQ)
<1> DEFINE r == MakeReady(k, t)
           q == TailInsertNode(k.TaskReadyQ, k.Priority, t)
<1>1. /\ q \in Seq(Task) /\ q # <<>>
      /\ ToSet(q) = ToSet(k.TaskReadyQ) \cup {t}
      /\ IsInjective(q)
      /\ Sorted(q, k.Priority)
      /\ Head(q) = t \/ (k.TaskReadyQ # <<>> /\ Head(q) = Head(k.TaskReadyQ))
  BY Fields, TailInsertQueue DEF Unlinked
<1> HIDE DEF q
<1>2. r = [k EXCEPT !.Flags = [@ EXCEPT ![t] = "ready"], !.TaskReadyQ = q]
  BY DEF MakeReady, q
<1> HIDE DEF r
<1>a. [k.Flags EXCEPT ![t] = "ready"] \in [Task -> Flag]
  BY Fields DEF Flag
<1>3. r \in KernelState /\ r.TaskReadyQ = q /\ r.TaskWaitQ = k.TaskWaitQ
      /\ r.Flags = [k.Flags EXCEPT ![t] = "ready"]
      /\ r = [k EXCEPT !.Flags = r.Flags, !.TaskReadyQ = r.TaskReadyQ]
  BY <1>1, <1>2, <1>a DEF KernelState
<1>4. Unlinked(r, S \ {t})
  <2>1. \A u \in Task : r.Flags[u] = IF u = t THEN "ready" ELSE k.Flags[u]
    BY <1>3, Fields
  <2> QED
    BY <1>1, <1>3, <2>1 DEF Unlinked
<1> QED
  BY <1>1, <1>3, <1>4 DEF r

\* The same, when t is the only task on no queue.
LEMMA MakeReadyOnly ==
  ASSUME NEW k \in KernelState, NEW t \in Task, Unlinked(k, {t}),
         Sorted(k.TaskReadyQ, k.Priority)
  PROVE  LET r == MakeReady(k, t) IN
         /\ r \in KernelState
         /\ r = [k EXCEPT !.Flags = r.Flags, !.TaskReadyQ = r.TaskReadyQ]
         /\ r.Flags = [k.Flags EXCEPT ![t] = "ready"]
         /\ Linked(r)
         /\ Sorted(r.TaskReadyQ, k.Priority)
         /\ r.TaskReadyQ # <<>>
         /\ \/ Head(r.TaskReadyQ) = t
            \/ k.TaskReadyQ # <<>> /\ Head(r.TaskReadyQ) = Head(k.TaskReadyQ)
<1> DEFINE r == MakeReady(k, t)
<1>1. {t} \in SUBSET Task /\ t \in {t}
  OBVIOUS
<1>2. /\ r \in KernelState
      /\ r = [k EXCEPT !.Flags = r.Flags, !.TaskReadyQ = r.TaskReadyQ]
      /\ r.Flags = [k.Flags EXCEPT ![t] = "ready"]
      /\ Unlinked(r, {t} \ {t})
      /\ Sorted(r.TaskReadyQ, k.Priority)
      /\ r.TaskReadyQ # <<>>
      /\ \/ Head(r.TaskReadyQ) = t
         \/ k.TaskReadyQ # <<>> /\ Head(r.TaskReadyQ) = Head(k.TaskReadyQ)
  BY <1>1, MakeReadyLemma
<1> HIDE DEF r
<1>3. Linked(r)
  BY <1>2 DEF Linked, Unlinked
<1> QED
  BY <1>2, <1>3 DEF r

\* internalSignal keeps the invariant, never changes which task runs, and
\* requests a reschedule when it readies a better task.
LEMMA SignalLemma ==
  ASSUME NEW k, KInv(k), NEW t \in Task, NEW bits \in SUBSET Sig
  PROVE  LET r == internalSignal(k, t, bits) IN
         /\ KInv(r) /\ SameRunner(k, r)
         /\ Asked(k) => Asked(r)
<1> DEFINE sigs == k.SigBits[t] \cup bits
           s == [k EXCEPT !.SigBits[t] = sigs]
           u == [s EXCEPT !.TaskWaitQ = @ \ {t}]
           me == k.CurrentTask
           a == MakeReady(u, t)
           w == [a EXCEPT !.PleaseReschedule =
                   @ \/ (me # NoTask /\ k.Priority[me] < k.Priority[t])]
           r == internalSignal(k, t, bits)
<1>k. k \in KernelState
  BY DEF KInv
<1>1. CASE ~(bits \subseteq k.AllocatedSigs[t])
  BY <1>1 DEF internalSignal, SameRunner
<1>2. CASE /\ bits \subseteq k.AllocatedSigs[t]
           /\ ~(k.Flags[t] = "waiting" /\ sigs \cap k.WaitBits[t] # {})
  <2>1. r = s
    BY <1>2 DEF internalSignal
  <2>2. s \in KernelState
    BY <1>k DEF KernelState
  <2>3. /\ s.SigBits = [k.SigBits EXCEPT ![t] = sigs]
        /\ s.TaskReadyQ = k.TaskReadyQ /\ s.TaskWaitQ = k.TaskWaitQ
        /\ s.Flags = k.Flags /\ s.Priority = k.Priority
        /\ s.CurrentTask = k.CurrentTask /\ s.WaitBits = k.WaitBits
        /\ s.AllocatedSigs = k.AllocatedSigs
        /\ s.quantaclock = k.quantaclock
        /\ s.PleaseReschedule = k.PleaseReschedule
    BY <1>k DEF KernelState
  <2> HIDE DEF s
  <2>4. Asleep(s)
    BY <1>2, <1>k, <2>3, Fields DEF KInv, Asleep, Linked
  <2>5. Allocated(s)
    BY <1>2, <1>k, <2>3, Fields DEF KInv, Allocated
  <2>6. KInv(s)
    BY <2>2, <2>3, <2>4, <2>5 DEF KInv, Linked
  <2> QED
    BY <2>1, <2>3, <2>6 DEF SameRunner, Asked, Urgent, CurPri, HeadPri
<1>3. CASE /\ bits \subseteq k.AllocatedSigs[t]
           /\ k.Flags[t] = "waiting" /\ sigs \cap k.WaitBits[t] # {}
  <2>1. r = w
    BY <1>3 DEF internalSignal
  <2>2. u \in KernelState
    BY <1>k DEF KernelState
  <2>3. /\ u.SigBits = [k.SigBits EXCEPT ![t] = sigs]
        /\ u.TaskReadyQ = k.TaskReadyQ /\ u.TaskWaitQ = k.TaskWaitQ \ {t}
        /\ u.Flags = k.Flags /\ u.Priority = k.Priority
        /\ u.CurrentTask = k.CurrentTask /\ u.WaitBits = k.WaitBits
        /\ u.AllocatedSigs = k.AllocatedSigs
        /\ u.quantaclock = k.quantaclock
        /\ u.PleaseReschedule = k.PleaseReschedule
    BY <1>k DEF KernelState
  <2> HIDE DEF u
  <2>4. Unlinked(u, {t})
    BY <1>3, <2>3 DEF KInv, Linked, Unlinked
  <2>5. /\ a \in KernelState
        /\ a = [u EXCEPT !.Flags = a.Flags, !.TaskReadyQ = a.TaskReadyQ]
        /\ a.Flags = [u.Flags EXCEPT ![t] = "ready"]
        /\ Linked(a) /\ Sorted(a.TaskReadyQ, u.Priority)
        /\ \/ Head(a.TaskReadyQ) = t
           \/ u.TaskReadyQ # <<>> /\ Head(a.TaskReadyQ) = Head(u.TaskReadyQ)
    <3>1. Sorted(u.TaskReadyQ, u.Priority)
      BY <2>3 DEF KInv
    <3> QED
      BY <2>2, <2>4, <3>1, MakeReadyOnly
  <2> HIDE DEF a
  <2>6. /\ a.SigBits = u.SigBits /\ a.TaskWaitQ = u.TaskWaitQ
        /\ a.Priority = u.Priority /\ a.CurrentTask = u.CurrentTask
        /\ a.WaitBits = u.WaitBits /\ a.AllocatedSigs = u.AllocatedSigs
        /\ a.quantaclock = u.quantaclock
        /\ a.PleaseReschedule = u.PleaseReschedule
    BY <2>2, <2>5 DEF KernelState
  <2>7. w \in KernelState
    BY <2>5 DEF KernelState
  <2>8. /\ w.SigBits = a.SigBits /\ w.TaskWaitQ = a.TaskWaitQ
        /\ w.TaskReadyQ = a.TaskReadyQ /\ w.Flags = a.Flags
        /\ w.Priority = a.Priority /\ w.CurrentTask = a.CurrentTask
        /\ w.WaitBits = a.WaitBits /\ w.AllocatedSigs = a.AllocatedSigs
        /\ w.quantaclock = a.quantaclock
        /\ w.PleaseReschedule = (\/ a.PleaseReschedule
                                 \/ me # NoTask /\ k.Priority[me] < k.Priority[t])
    BY <2>5 DEF KernelState
  <2> HIDE DEF w
  <2>9. Linked(w)
    BY <2>5, <2>8 DEF Linked, Unlinked
  <2>10. Asleep(w)
    BY <1>k, <2>3, <2>6, <2>8, Fields DEF KInv, Asleep
  <2>11. Allocated(w)
    BY <1>3, <1>k, <2>3, <2>6, <2>8, Fields DEF KInv, Allocated
  <2>12. w.Flags[Idle] # "waiting"
    BY <1>k, <2>3, <2>5, <2>8, Fields, TaskAssumption DEF KInv
  <2>13. KInv(w)
    BY <2>3, <2>5, <2>6, <2>7, <2>8, <2>9, <2>10, <2>11, <2>12 DEF KInv
  <2>14. SameRunner(k, w)
    BY <1>3, <1>k, <2>3, <2>5, <2>6, <2>8, Fields DEF SameRunner
  <2>15. ASSUME Asked(k) PROVE Asked(w)
    <3>1. me \in Task /\ me # NoTask
      BY TaskAssumption DEF KInv
    <3>2. CASE Head(w.TaskReadyQ) = t
      BY <2>3, <2>6, <2>8, <3>1, <3>2 DEF Asked, Urgent, CurPri, HeadPri
    <3>3. CASE k.TaskReadyQ # <<>> /\ Head(w.TaskReadyQ) = Head(k.TaskReadyQ)
      BY <2>3, <2>6, <2>8, <2>15, <3>3 DEF Asked, Urgent, CurPri, HeadPri
    <3> QED
      BY <2>3, <2>5, <2>8, <3>2, <3>3
  <2> QED
    BY <2>1, <2>13, <2>14, <2>15
<1> QED
  BY <1>1, <1>2, <1>3

\* Clearing pending bits keeps the invariant.
LEMMA ClearLemma ==
  ASSUME NEW k, KInv(k), NEW t \in Task, NEW bits
  PROVE  LET r == ClearSignals(k, t, bits) IN
         /\ KInv(r)
         /\ r = [k EXCEPT !.SigBits = r.SigBits]
<1> DEFINE r == ClearSignals(k, t, bits)
<1>1. k \in KernelState
  BY DEF KInv
<1>2. r = [k EXCEPT !.SigBits[t] = k.SigBits[t] \ bits]
  BY DEF ClearSignals
<1>a. [k.SigBits EXCEPT ![t] = k.SigBits[t] \ bits] \in [Task -> SUBSET Sig]
  BY <1>1, Fields
<1>b. r = [k EXCEPT !.SigBits = [k.SigBits EXCEPT ![t] = k.SigBits[t] \ bits]]
  BY <1>2
<1> HIDE DEF r
<1>3. r \in KernelState
  BY <1>1, <1>a, <1>b DEF KernelState
<1>4. /\ r = [k EXCEPT !.SigBits = r.SigBits]
      /\ r.SigBits = [k.SigBits EXCEPT ![t] = k.SigBits[t] \ bits]
      /\ r.TaskReadyQ = k.TaskReadyQ /\ r.TaskWaitQ = k.TaskWaitQ
      /\ r.Flags = k.Flags /\ r.Priority = k.Priority
      /\ r.CurrentTask = k.CurrentTask /\ r.WaitBits = k.WaitBits
      /\ r.AllocatedSigs = k.AllocatedSigs
      /\ r.quantaclock = k.quantaclock
      /\ r.PleaseReschedule = k.PleaseReschedule
  BY <1>1, <1>b DEF KernelState
<1>5. \A u \in Task : r.SigBits[u] \subseteq k.SigBits[u]
  BY <1>1, <1>4, Fields
<1>6. Asleep(r) /\ Allocated(r)
  BY <1>1, <1>4, <1>5, Fields DEF KInv, Asleep, Allocated
<1>7. KInv(r)
  BY <1>3, <1>4, <1>6 DEF KInv, Linked
<1> QED
  BY <1>4, <1>7 DEF r

\* internalChangeTaskPri keeps the queue sorted wherever the task is, and asks
\* for a reschedule when a better task is ready afterwards.
LEMMA ChangePriLemma ==
  ASSUME NEW k, KInv(k), Running(k, "swi"), Asked(k),
         NEW t \in Task, NEW newpri \in Nat
  PROVE  LET r == internalChangeTaskPri(k, t, newpri) IN
         KInv(r) /\ SameRunner(k, r) /\ Asked(r)
<1> DEFINE me == k.CurrentTask
           oldpri == k.Priority[me]
           pri == [k.Priority EXCEPT ![t] = newpri]
           s == [k EXCEPT !.Priority[t] = newpri]
           c == [s EXCEPT !.PleaseReschedule = @ \/ newpri < oldpri]
           q == RemoveNode(k.TaskReadyQ, t)
           u == [s EXCEPT !.TaskReadyQ = RemoveNode(@, t)]
           a == MakeReady(u, t)
           w == [a EXCEPT !.PleaseReschedule = @ \/ newpri > oldpri]
           r == internalChangeTaskPri(k, t, newpri)
<1>k. k \in KernelState /\ me \in Task
  BY DEF KInv
<1>p. pri \in [Task -> Nat]
  BY <1>k, Fields
<1>s. /\ s \in KernelState
      /\ s.Priority = pri
      /\ s.SigBits = k.SigBits /\ s.TaskReadyQ = k.TaskReadyQ
      /\ s.TaskWaitQ = k.TaskWaitQ /\ s.Flags = k.Flags
      /\ s.CurrentTask = k.CurrentTask /\ s.WaitBits = k.WaitBits
      /\ s.AllocatedSigs = k.AllocatedSigs /\ s.quantaclock = k.quantaclock
      /\ s.PleaseReschedule = k.PleaseReschedule
  BY <1>k DEF KernelState
<1>o. /\ \A v \in Task : v # t => pri[v] = k.Priority[v]
      /\ pri[t] = newpri
      /\ \A v \in Task : pri[v] \in Nat /\ k.Priority[v] \in Nat
  BY <1>k, <1>p, Fields
<1>h. k.TaskReadyQ # <<>> => Head(k.TaskReadyQ) \in ToSet(k.TaskReadyQ)
                             /\ Head(k.TaskReadyQ) \in Task
  BY <1>k, Fields, TailSet DEF KInv, Linked
<1>e. \A i \in DOMAIN k.TaskReadyQ : k.TaskReadyQ[i] \in ToSet(k.TaskReadyQ)
                                    /\ k.TaskReadyQ[i] \in Task
  BY <1>k, Fields, ElementOfSeq, LenProperties DEF ToSet
<1>x. t \notin ToSet(k.TaskReadyQ) => Sorted(k.TaskReadyQ, pri)
  BY <1>e, <1>o DEF KInv, Sorted
<1>1. CASE t \notin SuperTask /\ (newpri > PriMax \/ newpri < PriMin)
  BY <1>1 DEF internalChangeTaskPri, SameRunner
<1>2. CASE /\ ~(t \notin SuperTask /\ (newpri > PriMax \/ newpri < PriMin))
           /\ t = me
  <2>1. r = c
    BY <1>2 DEF internalChangeTaskPri
  <2>2. /\ c \in KernelState
        /\ c.Priority = pri
        /\ c.SigBits = k.SigBits /\ c.TaskReadyQ = k.TaskReadyQ
        /\ c.TaskWaitQ = k.TaskWaitQ /\ c.Flags = k.Flags
        /\ c.CurrentTask = k.CurrentTask /\ c.WaitBits = k.WaitBits
        /\ c.AllocatedSigs = k.AllocatedSigs /\ c.quantaclock = k.quantaclock
        /\ c.PleaseReschedule = (k.PleaseReschedule \/ newpri < oldpri)
    BY <1>s DEF KernelState
  <2> HIDE DEF c, pri
  <2>3. t \notin ToSet(k.TaskReadyQ)
    BY <1>2, <1>k DEF KInv, Linked, Running
  <2>4. KInv(c)
    BY <1>x, <2>2, <2>3 DEF KInv, Linked, Asleep, Allocated
  <2>5. Asked(c)
    <3>1. SUFFICES ASSUME k.TaskReadyQ # <<>>, newpri < pri[Head(k.TaskReadyQ)],
                          ~(newpri < oldpri)
                   PROVE  k.PleaseReschedule
      BY <1>2, <1>o, <2>2 DEF Asked, Urgent, CurPri, HeadPri
    <3>2. oldpri < k.Priority[Head(k.TaskReadyQ)]
      BY <1>2, <1>h, <1>k, <1>o, <2>3, <3>1
    <3> QED
      BY <3>1, <3>2 DEF Asked, Urgent, CurPri, HeadPri
  <2> QED
    BY <2>1, <2>2, <2>4, <2>5 DEF SameRunner
<1>3. CASE /\ ~(t \notin SuperTask /\ (newpri > PriMax \/ newpri < PriMin))
           /\ t # me /\ k.Flags[t] = "waiting"
  <2>1. r = s
    BY <1>3 DEF internalChangeTaskPri
  <2> HIDE DEF s, pri
  <2>2. t \notin ToSet(k.TaskReadyQ)
    BY <1>3 DEF KInv, Linked
  <2>3. KInv(s)
    BY <1>s, <1>x, <2>2 DEF KInv, Linked, Asleep, Allocated
  <2>4. Asked(s)
    BY <1>3, <1>h, <1>k, <1>o, <1>s, <2>2 DEF Asked, Urgent, CurPri, HeadPri
  <2> QED
    BY <1>s, <2>1, <2>3, <2>4 DEF SameRunner
<1>4. CASE /\ ~(t \notin SuperTask /\ (newpri > PriMax \/ newpri < PriMin))
           /\ t # me /\ k.Flags[t] # "waiting"
  <2>1. r = w
    BY <1>4 DEF internalChangeTaskPri
  <2>2. k.Flags[t] = "ready" /\ t \in ToSet(k.TaskReadyQ) /\ t \notin k.TaskWaitQ
    BY <1>4, <1>k, Fields DEF KInv, Linked, Running, Flag
  <2>3. /\ q \in Seq(Task) /\ ToSet(q) = ToSet(k.TaskReadyQ) \ {t}
        /\ IsInjective(q) /\ Sorted(q, k.Priority)
        /\ q # <<>> => /\ k.TaskReadyQ # <<>>
                       /\ k.Priority[Head(q)] <= k.Priority[Head(k.TaskReadyQ)]
    BY <1>k, <2>2, Fields, RemoveNodeQueue DEF KInv, Linked
  <2> HIDE DEF q
  <2>4. Sorted(q, pri)
    <3>1. \A i \in DOMAIN q : q[i] \in Task /\ q[i] # t
      BY <2>3, ElementOfSeq, LenProperties DEF ToSet
    <3> QED
      BY <1>o, <2>3, <3>1 DEF Sorted
  <2>h. q # <<>> => Head(q) \in Task /\ Head(q) # t
    BY <2>3, TailSet
  <2>5. u = [s EXCEPT !.TaskReadyQ = q]
    BY <1>s DEF q
  <2>6. /\ u \in KernelState
        /\ u.Priority = pri /\ u.TaskReadyQ = q
        /\ u.SigBits = k.SigBits
        /\ u.TaskWaitQ = k.TaskWaitQ /\ u.Flags = k.Flags
        /\ u.CurrentTask = k.CurrentTask /\ u.WaitBits = k.WaitBits
        /\ u.AllocatedSigs = k.AllocatedSigs /\ u.quantaclock = k.quantaclock
        /\ u.PleaseReschedule = k.PleaseReschedule
    <3> HIDE DEF s, u
    <3> QED
      BY <1>s, <2>3, <2>5 DEF KernelState
  <2> HIDE DEF u
  <2>7. Unlinked(u, {t})
    BY <2>2, <2>3, <2>6 DEF KInv, Linked, Unlinked
  <2>8. /\ a \in KernelState
        /\ a = [u EXCEPT !.Flags = a.Flags, !.TaskReadyQ = a.TaskReadyQ]
        /\ a.Flags = [u.Flags EXCEPT ![t] = "ready"]
        /\ Linked(a) /\ Sorted(a.TaskReadyQ, u.Priority)
        /\ \/ Head(a.TaskReadyQ) = t
           \/ u.TaskReadyQ # <<>> /\ Head(a.TaskReadyQ) = Head(u.TaskReadyQ)
    <3>1. u \in KernelState /\ Sorted(u.TaskReadyQ, u.Priority)
      BY <2>4, <2>6
    <3> QED
      BY <2>7, <3>1, MakeReadyOnly
  <2> HIDE DEF a
  <2>9. a.Flags = k.Flags /\ a.TaskWaitQ = k.TaskWaitQ
    <3>1. a.TaskWaitQ = u.TaskWaitQ
      BY <2>6, <2>8 DEF KernelState
    <3> QED
      BY <1>k, <2>2, <2>6, <2>8, <3>1, Fields
  <2>10. /\ w \in KernelState
         /\ w.Priority = pri /\ w.TaskReadyQ = a.TaskReadyQ
         /\ w.SigBits = k.SigBits
         /\ w.TaskWaitQ = k.TaskWaitQ /\ w.Flags = k.Flags
         /\ w.CurrentTask = k.CurrentTask /\ w.WaitBits = k.WaitBits
         /\ w.AllocatedSigs = k.AllocatedSigs /\ w.quantaclock = k.quantaclock
         /\ w.PleaseReschedule = (k.PleaseReschedule \/ newpri > oldpri)
    BY <2>6, <2>8, <2>9 DEF KernelState
  <2> HIDE DEF w, pri
  <2>11. Linked(w)
    BY <2>6, <2>8, <2>9, <2>10 DEF Linked, Unlinked
  <2>12. KInv(w)
    BY <2>6, <2>8, <2>10, <2>11 DEF KInv, Asleep, Allocated
  <2>13. Asked(w)
    <3>1. pri[me] = oldpri
      BY <1>4, <1>k, <1>o
    <3>2. CASE Head(w.TaskReadyQ) = t
      BY <1>k, <1>o, <2>10, <3>1, <3>2 DEF Asked, Urgent, CurPri, HeadPri
    <3>3. CASE q # <<>> /\ Head(w.TaskReadyQ) = Head(q)
      <4>1. pri[Head(q)] <= k.Priority[Head(k.TaskReadyQ)] /\ k.TaskReadyQ # <<>>
        BY <1>o, <2>3, <2>h, <3>3
      <4>2. Head(k.TaskReadyQ) \in Task
        BY <1>h, <4>1
      <4>3. SUFFICES ASSUME pri[me] < pri[Head(q)] PROVE k.PleaseReschedule
        BY <2>10, <3>3 DEF Asked, Urgent, CurPri, HeadPri
      <4>4. oldpri < k.Priority[Head(k.TaskReadyQ)]
        BY <1>k, <1>o, <2>h, <3>1, <3>3, <4>1, <4>2, <4>3
      <4> QED
        BY <4>1, <4>4 DEF Asked, Urgent, CurPri, HeadPri
    <3> QED
      BY <2>6, <2>8, <2>10, <3>2, <3>3
  <2> QED
    BY <2>1, <2>10, <2>12, <2>13 DEF SameRunner
<1> QED
  BY <1>1, <1>2, <1>3, <1>4

\* The fields a step of the scheduler leaves alone.
SameSignals(k, r) ==
  /\ r.SigBits = k.SigBits /\ r.WaitBits = k.WaitBits
  /\ r.AllocatedSigs = k.AllocatedSigs /\ r.Priority = k.Priority
  /\ r.TaskWaitQ = k.TaskWaitQ

\* A task that finds none of its bits pending goes to sleep safely: nothing it
\* waits for is pending, and it owns every bit it waits for.
LEMMA FallAsleepLemma ==
  ASSUME NEW k, KInv(k), Running(k, "user"), k.CurrentTask # Idle,
         NEW bits \in SUBSET Sig, WaitSleeps(k, bits)
  PROVE  LET r == FallAsleep(k, bits) IN
         KInv(r) /\ Running(r, "blip")
<1> DEFINE t == k.CurrentTask
           c == CLand(k)
           r == FallAsleep(k, bits)
           flags == [[k.Flags EXCEPT ![t] = "ready"] EXCEPT ![t] = "waiting"]
           psr == [k.psr EXCEPT ![t] = "super"]
           wait == [k.WaitBits EXCEPT ![t] = Awaited(bits)]
<1>k. k \in KernelState /\ t \in Task
  BY DEF KInv
<1>a. Awaited(bits) \in SUBSET Sig
  BY SigAssumption DEF Awaited, Sig
<1>1. /\ flags \in [Task -> Flag] /\ psr \in [Task -> Psr]
      /\ wait \in [Task -> SUBSET Sig] /\ k.TaskWaitQ \cup {t} \in SUBSET Task
  BY <1>k, <1>a, Fields DEF Flag, Psr
<1>2. r = [k EXCEPT !.Flags = flags, !.psr = psr, !.WaitBits = wait,
                    !.TaskWaitQ = k.TaskWaitQ \cup {t}]
  BY <1>k DEF FallAsleep, CLand, KernelState
<1> HIDE DEF r
<1>3. /\ r \in KernelState
      /\ r.Flags = flags /\ r.psr = psr /\ r.WaitBits = wait
      /\ r.TaskWaitQ = k.TaskWaitQ \cup {t}
      /\ r.CurrentTask = t /\ r.TaskReadyQ = k.TaskReadyQ
      /\ r.Priority = k.Priority /\ r.SigBits = k.SigBits
      /\ r.AllocatedSigs = k.AllocatedSigs
      /\ r.quantaclock = k.quantaclock /\ r.PleaseReschedule = k.PleaseReschedule
  <2> HIDE DEF flags, psr, wait
  <2> QED
    BY <1>k, <1>1, <1>2 DEF KernelState
<1>4. \A u \in Task : /\ r.Flags[u] = IF u = t THEN "waiting" ELSE k.Flags[u]
                      /\ r.WaitBits[u] = IF u = t THEN Awaited(bits)
                                                 ELSE k.WaitBits[u]
  BY <1>k, <1>3, Fields
<1>5. k.Flags[t] = "running" /\ t \notin ToSet(k.TaskReadyQ)
  BY <1>k DEF KInv, Running, Linked
<1>6. Linked(r)
  BY <1>k, <1>3, <1>4, <1>5 DEF KInv, Linked
<1>7. Asleep(r)
  <2>1. SuperSigs \subseteq k.AllocatedSigs[t] /\ ABORT \in k.AllocatedSigs[t]
    BY <1>k, SigAssumption DEF KInv, Allocated
  <2>2. /\ Awaited(bits) \cap k.SigBits[t] = {} /\ ABORT \in Awaited(bits)
        /\ Awaited(bits) \subseteq k.AllocatedSigs[t]
    BY <2>1 DEF WaitSleeps, Awaited
  <2>3. \A u \in r.TaskWaitQ : u \in Task /\ (u = t \/ u \in k.TaskWaitQ)
    BY <1>k, <1>3, Fields
  <2> QED
    BY <1>3, <1>4, <2>2, <2>3 DEF KInv, Asleep
<1>8. KInv(r)
  BY <1>3, <1>4, <1>6, <1>7, TaskAssumption DEF KInv, Allocated
<1>9. Running(r, "blip")
  BY <1>4 DEF Running
<1> QED
  BY <1>8, <1>9 DEF r

\* internalWait either takes the pending bits or sleeps.
LEMMA WaitLemma ==
  ASSUME NEW k, KInv(k), Running(k, "user"), k.CurrentTask # Idle, Asked(k),
         NEW bits \in SUBSET Sig
  PROVE  LET r == internalWait(k, bits) IN
         /\ KInv(r)
         /\ WaitSleeps(k, bits) => Running(r, "blip")
         /\ ~WaitSleeps(k, bits) => Running(r, "swi") /\ Asked(r)
<1> DEFINE t == k.CurrentTask
           res == Awaited(bits) \cap k.SigBits[t]
           c == ClearSignals(k, t, res)
           w == [c EXCEPT !.ret = res]
           r == internalWait(k, bits)
<1>k. k \in KernelState /\ t \in Task
  BY DEF KInv
<1>1. CASE ~(bits \subseteq k.AllocatedSigs[t])
  BY <1>1 DEF internalWait, WaitSleeps, Running
<1>2. CASE bits \subseteq k.AllocatedSigs[t] /\ res # {}
  <2>1. r = w
    BY <1>2 DEF internalWait
  <2>2. KInv(c) /\ c = [k EXCEPT !.SigBits = c.SigBits]
    BY <1>k, ClearLemma
  <2>3. res \in SUBSET Sig
    BY <1>k, Fields, SigAssumption DEF Awaited, Sig
  <2> HIDE DEF c, res
  <2>4. /\ w \in KernelState
        /\ w.TaskReadyQ = c.TaskReadyQ /\ w.TaskWaitQ = c.TaskWaitQ
        /\ w.Flags = c.Flags /\ w.Priority = c.Priority
        /\ w.CurrentTask = c.CurrentTask /\ w.WaitBits = c.WaitBits
        /\ w.AllocatedSigs = c.AllocatedSigs /\ w.SigBits = c.SigBits
        /\ w.quantaclock = c.quantaclock
        /\ w.PleaseReschedule = c.PleaseReschedule
    BY <2>2, <2>3 DEF KInv, KernelState
  <2>5. /\ c.TaskReadyQ = k.TaskReadyQ /\ c.Flags = k.Flags
        /\ c.Priority = k.Priority /\ c.CurrentTask = k.CurrentTask
        /\ c.PleaseReschedule = k.PleaseReschedule
    BY <1>k, <2>2 DEF KernelState
  <2> HIDE DEF w
  <2>6. KInv(w)
    BY <2>2, <2>4 DEF KInv, Linked, Asleep, Allocated
  <2>7. ~WaitSleeps(k, bits)
    BY <1>2 DEF WaitSleeps, res
  <2>8. Running(w, "swi") /\ Asked(w)
    BY <2>4, <2>5 DEF Running, Asked, Urgent, CurPri, HeadPri
  <2> QED
    BY <2>1, <2>6, <2>7, <2>8
<1>3. CASE bits \subseteq k.AllocatedSigs[t] /\ res = {}
  <2>1. WaitSleeps(k, bits) /\ r = FallAsleep(k, bits)
    BY <1>3 DEF WaitSleeps, internalWait
  <2> QED
    BY <2>1, FallAsleepLemma
<1> QED
  BY <1>1, <1>2, <1>3

\* Launching a task that is on no queue, when no other task runs and the
\* ready tasks are no better, leaves the invariant true and the processor with
\* the best task; its quantum starts and the reschedule request is cleared.
LEMMA LaunchLemma ==
  ASSUME NEW k \in KernelState, NEW t \in Task, Unlinked(k, {t}),
         Sorted(k.TaskReadyQ, k.Priority), Asleep(k), Allocated(k),
         t = Idle \/ k.Flags[Idle] # "waiting",
         \A u \in Task \ {t} : k.Flags[u] # "running",
         k.TaskReadyQ # <<>> => HeadPri(k) <= k.Priority[t]
  PROVE  LET r == Launch(k, t) IN
         /\ KInv(r) /\ Running(r, "user") /\ Running(r, "swi")
         /\ Asked(r) /\ Settled(r)
<1> DEFINE c == CLaunch(k, t)
           flags == [k.Flags EXCEPT ![t] = "running"]
<1>1. flags \in [Task -> Flag]
  BY Fields DEF Flag
<1>2. c = [k EXCEPT !.CurrentTask = t, !.Flags = flags,
                    !.PleaseReschedule = FALSE, !.quantaclock = TRUE]
  BY DEF CLaunch
<1> HIDE DEF c
<1>3. /\ c \in KernelState
      /\ c.CurrentTask = t /\ c.Flags = flags
      /\ c.PleaseReschedule = FALSE /\ c.quantaclock = TRUE
      /\ c.TaskReadyQ = k.TaskReadyQ /\ SameSignals(k, c)
  <2> HIDE DEF flags
  <2> QED
    BY <1>1, <1>2 DEF KernelState, SameSignals
<1>4. \A u \in Task : flags[u] = IF u = t THEN "running" ELSE k.Flags[u]
  BY Fields
<1> HIDE DEF flags
<1>5. Linked(c)
  BY <1>3, <1>4 DEF Unlinked, Linked, SameSignals
<1>6. KInv(c)
  BY <1>3, <1>4, <1>5, TaskAssumption DEF KInv, Asleep, Allocated, SameSignals
<1>7. Running(c, "user") /\ Running(c, "swi")
  BY <1>3, <1>4 DEF Running
<1>8. ~Urgent(c)
  <2>1. SUFFICES ASSUME k.TaskReadyQ # <<>>
                 PROVE  ~(k.Priority[t] < HeadPri(k))
    BY <1>3 DEF Urgent, CurPri, HeadPri, SameSignals
  <2>2. Head(k.TaskReadyQ) \in Task
    BY <2>1, Fields, TailSet DEF Unlinked
  <2>3. k.Priority[t] \in Nat /\ HeadPri(k) \in Nat
    BY <2>2, Fields DEF HeadPri
  <2> QED
    BY <2>1, <2>3
<1>9. CASE k.psr[t] # "super"
  BY <1>3, <1>6, <1>7, <1>8, <1>9 DEF Launch, Asked, Settled, c
<1>10. CASE k.psr[t] = "super"
  <2> DEFINE res == c.WaitBits[t] \cap c.SigBits[t]
             sigs == [c.SigBits EXCEPT ![t] = @ \ res]
             wait == [c.WaitBits EXCEPT ![t] = {}]
             psr == [c.psr EXCEPT ![t] = "user"]
             r == Resume(c, t)
  <2>1. /\ sigs \in [Task -> SUBSET Sig] /\ wait \in [Task -> SUBSET Sig]
        /\ psr \in [Task -> Psr] /\ res \in SUBSET Sig
    BY <1>3, Fields DEF Psr
  <2>2. r = [c EXCEPT !.SigBits = sigs, !.WaitBits = wait, !.psr = psr, !.ret = res]
    BY DEF Resume
  <2>3. /\ \A u \in Task : sigs[u] \subseteq c.SigBits[u]
        /\ \A u \in Task : u # t => sigs[u] = c.SigBits[u] /\ wait[u] = c.WaitBits[u]
    BY <1>3, Fields
  <2> HIDE DEF r, sigs, wait, psr, res
  <2>4. /\ r \in KernelState
        /\ r.SigBits = sigs /\ r.WaitBits = wait
        /\ r.CurrentTask = c.CurrentTask /\ r.Flags = c.Flags
        /\ r.PleaseReschedule = c.PleaseReschedule
        /\ r.quantaclock = c.quantaclock
        /\ r.TaskReadyQ = c.TaskReadyQ /\ r.TaskWaitQ = c.TaskWaitQ
        /\ r.AllocatedSigs = c.AllocatedSigs /\ r.Priority = c.Priority
    BY <1>3, <2>1, <2>2 DEF KernelState
  <2>5. t \notin r.TaskWaitQ
    BY <1>3, <2>4 DEF Unlinked, SameSignals
  <2>6. Asleep(r) /\ Allocated(r)
    <3>1. \A u \in r.TaskWaitQ : u \in Task /\ u # t /\ u \in c.TaskWaitQ
      BY <1>3, <2>4, <2>5, Fields
    <3>2. Asleep(r)
      BY <1>6, <2>3, <2>4, <3>1 DEF KInv, Asleep
    <3>3. Allocated(r)
      BY <1>6, <2>3, <2>4 DEF KInv, Allocated
    <3> QED
      BY <3>2, <3>3
  <2>7. KInv(r)
    BY <1>6, <2>4, <2>6 DEF KInv, Linked
  <2>8. Running(r, "user") /\ Running(r, "swi") /\ Asked(r) /\ Settled(r)
    BY <1>3, <1>7, <1>8, <2>4 DEF Running, Asked, Settled, Urgent, CurPri, HeadPri
  <2> QED
    BY <1>10, <2>7, <2>8 DEF Launch, c, r
<1> QED
  BY <1>9, <1>10

\* RemHead of the ready queue takes its best task off.
LEMMA DequeueLemma ==
  ASSUME NEW k \in KernelState, NEW S \in SUBSET Task, Unlinked(k, S),
         Sorted(k.TaskReadyQ, k.Priority), k.TaskReadyQ # <<>>
  PROVE  LET d == DequeueHead(k)
             h == Head(k.TaskReadyQ)
         IN  /\ d \in KernelState /\ h \in Task \ S
             /\ h \in ToSet(k.TaskReadyQ)
             /\ d = [k EXCEPT !.TaskReadyQ = d.TaskReadyQ]
             /\ Unlinked(d, S \cup {h})
             /\ Sorted(d.TaskReadyQ, k.Priority)
             /\ d.TaskReadyQ # <<>> => HeadPri(d) <= k.Priority[h]
<1> DEFINE d == DequeueHead(k)
           h == Head(k.TaskReadyQ)
           q == Tail(k.TaskReadyQ)
<1>1. /\ h \in Task /\ q \in Seq(Task) /\ h \in ToSet(k.TaskReadyQ)
      /\ ToSet(q) = ToSet(k.TaskReadyQ) \ {h} /\ IsInjective(q)
  BY Fields, TailSet DEF Unlinked
<1>2. /\ Sorted(q, k.Priority)
      /\ q # <<>> => k.Priority[h] >= k.Priority[Head(q)]
  BY Fields, SortedTail
<1>3. h \notin S
  BY <1>1 DEF Unlinked
<1>4. h \notin k.TaskWaitQ
  BY <1>1, <1>3 DEF Unlinked
<1>5. d = [k EXCEPT !.TaskReadyQ = q]
  BY DEF DequeueHead
<1> HIDE DEF d
<1>q. q # <<>> => Head(q) \in Task
  BY <1>1, TailSet
<1> HIDE DEF q, h
<1>6. /\ d \in KernelState /\ d.TaskReadyQ = q /\ d.TaskWaitQ = k.TaskWaitQ
      /\ d.Flags = k.Flags /\ d.Priority = k.Priority
      /\ d = [k EXCEPT !.TaskReadyQ = d.TaskReadyQ]
  BY <1>1, <1>5 DEF KernelState
<1>7. Unlinked(d, S \cup {h})
  BY <1>1, <1>3, <1>4, <1>6 DEF Unlinked
<1>8. d.TaskReadyQ # <<>> => HeadPri(d) <= k.Priority[h]
  BY <1>1, <1>2, <1>6, <1>q, Fields DEF HeadPri
<1> QED
  BY <1>1, <1>2, <1>3, <1>6, <1>7, <1>8 DEF d, h

\* CLand takes the processor away from the current task.
LEMMA CLandLemma ==
  ASSUME NEW k, KInv(k), Running(k, "swi")
  PROVE  LET c == CLand(k) IN
         /\ c \in KernelState
         /\ c = [k EXCEPT !.Flags = c.Flags]
         /\ Unlinked(c, {k.CurrentTask})
         /\ c.Flags[k.CurrentTask] = "ready"
         /\ \A t \in Task : c.Flags[t] # "running"
         /\ c.Flags[Idle] # "waiting"
<1> DEFINE t == k.CurrentTask
           c == CLand(k)
           flags == [k.Flags EXCEPT ![t] = "ready"]
<1>1. k \in KernelState /\ t \in Task
  BY DEF KInv
<1>2. flags \in [Task -> Flag]
  BY <1>1, Fields DEF Flag
<1>3. \A u \in Task : flags[u] = IF u = t THEN "ready" ELSE k.Flags[u]
  BY <1>1, Fields
<1>4. c = [k EXCEPT !.Flags = flags]
  BY DEF CLand
<1> HIDE DEF c, flags
<1>5. /\ c \in KernelState /\ c.Flags = flags
      /\ c.TaskReadyQ = k.TaskReadyQ /\ c.TaskWaitQ = k.TaskWaitQ
      /\ c = [k EXCEPT !.Flags = c.Flags]
  BY <1>1, <1>2, <1>4 DEF KernelState
<1>6. k.Flags[t] = "running" /\ \A u \in Task \ {t} : k.Flags[u] # "running"
  BY <1>1 DEF Running
<1>7. Unlinked(c, {t})
  BY <1>1, <1>3, <1>5, <1>6 DEF KInv, Linked, Unlinked
<1> QED
  BY <1>1, <1>3, <1>5, <1>6, <1>7, TaskAssumption DEF c, KInv

\* Launching the head of a ready queue when no task runs.
LEMMA LaunchHead ==
  ASSUME NEW k \in KernelState, Linked(k), Sorted(k.TaskReadyQ, k.Priority),
         Asleep(k), Allocated(k), k.Flags[Idle] # "waiting",
         \A u \in Task : k.Flags[u] # "running",
         k.TaskReadyQ # <<>>
  PROVE  LET r == Launch(DequeueHead(k), Head(k.TaskReadyQ)) IN
         /\ KInv(r) /\ Running(r, "user") /\ Running(r, "swi")
         /\ Asked(r) /\ Settled(r)
<1> DEFINE d == DequeueHead(k)
           h == Head(k.TaskReadyQ)
<1>1. Unlinked(k, {}) /\ {} \in SUBSET Task /\ {} \cup {h} = {h}
  BY DEF Linked, Unlinked
<1>2. /\ d \in KernelState /\ h \in Task
      /\ d = [k EXCEPT !.TaskReadyQ = d.TaskReadyQ]
      /\ Unlinked(d, {h})
      /\ Sorted(d.TaskReadyQ, k.Priority)
      /\ d.TaskReadyQ # <<>> => HeadPri(d) <= k.Priority[h]
  <2>1. /\ d \in KernelState /\ h \in Task
        /\ d = [k EXCEPT !.TaskReadyQ = d.TaskReadyQ]
        /\ Unlinked(d, {} \cup {h})
        /\ Sorted(d.TaskReadyQ, k.Priority)
        /\ d.TaskReadyQ # <<>> => HeadPri(d) <= k.Priority[h]
    BY <1>1, DequeueLemma
  <2> HIDE DEF d, h
  <2> QED
    BY <1>1, <2>1
<1> HIDE DEF d, h
<1>3. d.Flags = k.Flags /\ SameSignals(k, d)
  BY <1>2 DEF KernelState, SameSignals
<1>4. Asleep(d) /\ Allocated(d)
  BY <1>3 DEF Asleep, Allocated, SameSignals
<1>5. /\ Sorted(d.TaskReadyQ, d.Priority)
      /\ d.TaskReadyQ # <<>> => HeadPri(d) <= d.Priority[h]
      /\ d.Flags[Idle] # "waiting"
      /\ \A u \in Task \ {h} : d.Flags[u] # "running"
  BY <1>2, <1>3 DEF SameSignals
<1>6. LET r == Launch(d, h) IN
      /\ KInv(r) /\ Running(r, "user") /\ Running(r, "swi")
      /\ Asked(r) /\ Settled(r)
  BY <1>2, <1>4, <1>5, LaunchLemma
<1> QED
  BY <1>6 DEF d, h

-----------------------------------------------------------------------------
(* The invariant is inductive *)

\* The tasks the operator has created start with the best one running.
LEMMA StartedInv ==
  ASSUME NEW alloc \in [Task -> SUBSET Sig], \A t \in Task : SuperSigs \subseteq alloc[t],
         Started(alloc)
  PROVE  IInv
<1>1. PICK q \in SetToSeqs(Task) :
        /\ ToSet(q) = Task
        /\ Sorted(q, InitPri)
        /\ kb = [CurrentTask |-> Head(q),
                 TaskReadyQ |-> Tail(q),
                 TaskWaitQ |-> {},
                 PleaseReschedule |-> FALSE,
                 quantaclock |-> TRUE,
                 Flags |-> [t \in Task |-> IF t = Head(q) THEN "running" ELSE "ready"],
                 psr |-> [t \in Task |-> "user"],
                 Priority |-> InitPri,
                 AllocatedSigs |-> alloc,
                 SigBits |-> [t \in Task |-> {}],
                 WaitBits |-> [t \in Task |-> {}],
                 ret |-> {}]
  BY DEF Started
<1>2. mode = "user"
  BY DEF Started
<1>3. q \in Seq(Task) /\ IsInjective(q)
  <2>1. Cardinality(Task) \in Nat
    BY TaskAssumption, FS_CardinalityType
  <2>2. /\ q \in [1..Cardinality(Task) -> Task]
        /\ \A i, j \in 1..Cardinality(Task) : i # j => q[i] # q[j]
    BY DEF SetToSeqs
  <2> QED
    BY <2>1, <2>2, IsASeq DEF IsInjective
<1>4. q # <<>>
  BY <1>1, <1>3, TaskAssumption, EmptySeq, LenProperties DEF ToSet
<1>5. /\ Head(q) \in Task /\ Tail(q) \in Seq(Task)
      /\ ToSet(Tail(q)) = Task \ {Head(q)} /\ IsInjective(Tail(q))
  BY <1>1, <1>3, <1>4, TailSet
<1>6. /\ Sorted(Tail(q), InitPri)
      /\ Tail(q) # <<>> => InitPri[Head(q)] >= InitPri[Head(Tail(q))]
  BY <1>1, <1>3, <1>4, SortedTail, PriAssumption
<1>7. kb \in KernelState
  BY <1>1, <1>5, PriAssumption DEF KernelState, Flag, Psr, Sig
<1>8. Linked(kb)
  BY <1>1, <1>5 DEF Linked
<1>9. KInv(kb)
  BY <1>1, <1>5, <1>6, <1>7, <1>8, TaskAssumption
     DEF KInv, Asleep, Allocated
<1>10. Running(kb, mode)
  BY <1>1, <1>2 DEF Running
<1>11. Asked(kb)
  <2>1. Tail(q) # <<>> => Head(Tail(q)) \in Task
    BY <1>5, TailSet
  <2> QED
    BY <1>1, <1>5, <1>6, <2>1, PriAssumption DEF Asked, Urgent, CurPri, HeadPri
<1>12. Settled(kb)
  BY <1>1 DEF Settled
<1> QED
  BY <1>2, <1>9, <1>10, <1>11, <1>12 DEF IInv, Mode

LEMMA InitInv == Init => IInv
<1> DEFINE alloc == [t \in Task |-> SuperSigs]
<1>1. alloc \in [Task -> SUBSET Sig] /\ \A t \in Task : SuperSigs \subseteq alloc[t]
  BY DEF Sig
<1> HIDE DEF alloc
<1>2. Started(alloc) => IInv
  BY <1>1, StartedInv
<1> QED
  BY <1>2 DEF Init, alloc

\* A task that is not asleep may change what it has allocated, as long as it
\* forgets the pending bits it gives up.
LEMMA AllocLemma ==
  ASSUME NEW k, KInv(k), NEW t \in Task, t \notin k.TaskWaitQ,
         NEW alloc \in SUBSET Sig, SuperSigs \subseteq alloc, NEW bits,
         k.SigBits[t] \ bits \subseteq alloc
  PROVE  LET r == ClearSignals([k EXCEPT !.AllocatedSigs[t] = alloc], t, bits) IN
         KInv(r) /\ SameRunner(k, r) /\ (Asked(k) => Asked(r))
<1> DEFINE r == ClearSignals([k EXCEPT !.AllocatedSigs[t] = alloc], t, bits)
           all == [k.AllocatedSigs EXCEPT ![t] = alloc]
           sigs == [k.SigBits EXCEPT ![t] = k.SigBits[t] \ bits]
<1>1. k \in KernelState
  BY DEF KInv
<1>2. all \in [Task -> SUBSET Sig] /\ sigs \in [Task -> SUBSET Sig]
  BY <1>1, Fields
<1>3. \A u \in Task : /\ all[u] = IF u = t THEN alloc ELSE k.AllocatedSigs[u]
                      /\ sigs[u] = IF u = t THEN k.SigBits[t] \ bits
                                            ELSE k.SigBits[u]
  BY <1>1, Fields
<1>4. r = [k EXCEPT !.AllocatedSigs = all, !.SigBits = sigs]
  BY <1>1 DEF ClearSignals, KernelState
<1> HIDE DEF r, all, sigs
<1>5. /\ r \in KernelState /\ r.AllocatedSigs = all /\ r.SigBits = sigs
      /\ r.CurrentTask = k.CurrentTask /\ r.Flags = k.Flags
      /\ r.PleaseReschedule = k.PleaseReschedule
      /\ r.quantaclock = k.quantaclock
      /\ r.TaskReadyQ = k.TaskReadyQ /\ r.TaskWaitQ = k.TaskWaitQ
      /\ r.WaitBits = k.WaitBits /\ r.Priority = k.Priority
  BY <1>1, <1>2, <1>4 DEF KernelState
<1>6. Asleep(r)
  <2>1. \A u \in r.TaskWaitQ : u \in Task /\ u # t /\ u \in k.TaskWaitQ
    BY <1>1, <1>5, Fields
  <2> QED
    BY <1>3, <1>5, <2>1 DEF KInv, Asleep
<1>7. Allocated(r)
  BY <1>3, <1>5 DEF KInv, Allocated
<1>8. KInv(r)
  BY <1>5, <1>6, <1>7 DEF KInv, Linked
<1>9. SameRunner(k, r) /\ (Asked(k) => Asked(r))
  BY <1>5 DEF SameRunner, Asked, Urgent, CurPri, HeadPri
<1> QED
  BY <1>8, <1>9 DEF r

\* A SWI that returns at once: it keeps the invariant, the running task, and
\* requests a reschedule if it made a better task ready.
LEMMA ReturnInv ==
  ASSUME IInv, mode = "user", NEW k, Return(k),
         KInv(k), SameRunner(kb, k), Asked(k)
  PROVE  IInv'
<1>1. kb' = k /\ mode' = "swi"
  BY DEF Return
<1>2. Running(k, "swi")
  BY DEF IInv, Running, SameRunner
<1> QED
  BY <1>1, <1>2 DEF IInv, Mode

\* Every SWI of a task keeps the invariant.
LEMMA SwiInv ==
  ASSUME IInv, TaskSwi
  PROVE  IInv'
<1>1. CASE Yield
  <2> DEFINE k == [kb EXCEPT !.PleaseReschedule = TRUE]
  <2>1. mode = "user" /\ Return(k)
    BY <1>1 DEF Yield, Swi
  <2>2. kb \in KernelState
    BY DEF IInv, KInv
  <2>3. /\ k \in KernelState /\ SameSignals(kb, k)
        /\ k.CurrentTask = kb.CurrentTask /\ k.Flags = kb.Flags
        /\ k.TaskReadyQ = kb.TaskReadyQ /\ k.PleaseReschedule = TRUE
    BY <2>2 DEF KernelState, SameSignals
  <2> HIDE DEF k
  <2>4. KInv(k) /\ SameRunner(kb, k) /\ Asked(k)
    BY <2>3 DEF IInv, KInv, Linked, Asleep, Allocated, SameRunner, Asked, SameSignals
  <2> QED
    BY <2>1, <2>4, ReturnInv
<1>a. /\ kb \in KernelState /\ kb.CurrentTask \in Task /\ KInv(kb)
      /\ mode = "user" => /\ Running(kb, "user") /\ Asked(kb)
                          /\ kb.CurrentTask \notin kb.TaskWaitQ
  BY DEF IInv, KInv, Running, Linked
<1>2. CASE AllocAnySignal
  <2> DEFINE old == kb.AllocatedSigs[kb.CurrentTask]
             free == UserSigs \ old
             lowest == {b \in free : \A c \in free : b <= c}
             k == ClearSignals([kb EXCEPT !.AllocatedSigs[kb.CurrentTask] =
                                  old \cup lowest], kb.CurrentTask, lowest)
  <2>1. mode = "user" /\ Return(k)
    BY <1>2 DEF AllocAnySignal, Swi, Me
  <2>2. /\ old \cup lowest \in SUBSET Sig /\ SuperSigs \subseteq old \cup lowest
        /\ kb.SigBits[kb.CurrentTask] \ lowest \subseteq old \cup lowest
    BY <1>a, Fields DEF KInv, Allocated, Sig
  <2> HIDE DEF old, lowest
  <2>3. KInv(k) /\ SameRunner(kb, k) /\ Asked(k)
    BY <1>a, <2>1, <2>2, AllocLemma
  <2> QED
    BY <2>1, <2>3, ReturnInv
<1>3. ASSUME NEW sigs \in SigSet, Wait(sigs) PROVE IInv'
  <2>1. mode = "user" /\ kb.CurrentTask # Idle /\ kb' = internalWait(kb, sigs)
        /\ mode' = IF WaitSleeps(kb, sigs) THEN "blip" ELSE "swi"
    BY <1>3 DEF Wait, Swi, Me
  <2>2. KInv(kb) /\ Running(kb, "user") /\ Asked(kb)
    BY <1>a, <2>1
  <2>3. /\ KInv(kb')
        /\ WaitSleeps(kb, sigs) => Running(kb', "blip")
        /\ ~WaitSleeps(kb, sigs) => Running(kb', "swi") /\ Asked(kb')
    BY <2>1, <2>2, WaitLemma DEF SigSet
  <2> QED
    BY <2>1, <2>3 DEF IInv, Mode
<1>4. ASSUME NEW sigs \in SigSet, AllocSignal(sigs) PROVE IInv'
  <2> DEFINE old == kb.AllocatedSigs[kb.CurrentTask]
             k == ClearSignals([kb EXCEPT !.AllocatedSigs[kb.CurrentTask] =
                                  old \cup sigs], kb.CurrentTask, sigs)
  <2>1. mode = "user" /\ (Return(kb) \/ Return(k))
    BY <1>4 DEF AllocSignal, Swi, Me
  <2>2. /\ old \cup sigs \in SUBSET Sig /\ SuperSigs \subseteq old \cup sigs
        /\ kb.SigBits[kb.CurrentTask] \ sigs \subseteq old \cup sigs
    BY <1>a, Fields DEF KInv, Allocated, Sig, SigSet
  <2> HIDE DEF old
  <2>3. KInv(k) /\ SameRunner(kb, k) /\ Asked(k)
    BY <1>a, <2>1, <2>2, AllocLemma
  <2>4. SameRunner(kb, kb)
    BY DEF SameRunner
  <2> QED
    BY <1>a, <2>1, <2>3, <2>4, ReturnInv
<1>5. ASSUME NEW sigs \in SigSet, FreeSignal(sigs) PROVE IInv'
  <2> DEFINE old == kb.AllocatedSigs[kb.CurrentTask]
             k == ClearSignals([kb EXCEPT !.AllocatedSigs[kb.CurrentTask] =
                                  old \ sigs], kb.CurrentTask, sigs)
  <2>1. mode = "user" /\ (Return(kb) \/ (Return(k) /\ sigs \cap SuperSigs = {}))
    BY <1>5 DEF FreeSignal, Swi, Me
  <2>2. SameRunner(kb, kb)
    BY DEF SameRunner
  <2>3. CASE Return(kb)
    BY <1>a, <2>1, <2>2, <2>3, ReturnInv
  <2>4. CASE Return(k) /\ sigs \cap SuperSigs = {}
    <3>1. /\ old \ sigs \in SUBSET Sig /\ SuperSigs \subseteq old \ sigs
          /\ kb.SigBits[kb.CurrentTask] \ sigs \subseteq old \ sigs
      BY <1>a, <2>4, Fields DEF KInv, Allocated
    <3> HIDE DEF old
    <3>2. KInv(k) /\ SameRunner(kb, k) /\ Asked(k)
      BY <1>a, <2>1, <3>1, AllocLemma
    <3> QED
      BY <2>1, <2>4, <3>2, ReturnInv
  <2> QED
    BY <2>1, <2>3, <2>4
<1>6. ASSUME NEW t \in Task, NEW sigs \in SigSet, SendSignal(t, sigs) PROVE IInv'
  <2> DEFINE k == internalSignal(kb, t, sigs)
  <2>1. mode = "user" /\ (Return(kb) \/ Return(k))
    BY <1>6 DEF SendSignal, Swi
  <2>2. SameRunner(kb, kb)
    BY DEF SameRunner
  <2>3. KInv(k) /\ SameRunner(kb, k) /\ Asked(k)
    BY <1>a, <2>1, SignalLemma DEF SigSet
  <2> HIDE DEF k
  <2> QED
    BY <1>a, <2>1, <2>2, <2>3, ReturnInv
<1>7. ASSUME NEW t \in Task, NEW p \in NewPri, SetItemPri(t, p) PROVE IInv'
  <2> DEFINE k == internalChangeTaskPri(kb, t, p)
  <2>1. mode = "user" /\ (Return(kb) \/ Return(k))
    BY <1>7 DEF SetItemPri, Swi
  <2>2. SameRunner(kb, kb)
    BY DEF SameRunner
  <2>3. Running(kb, "swi") /\ p \in Nat
    BY <1>a, <2>1, PriAssumption DEF Running
  <2>4. KInv(k) /\ SameRunner(kb, k) /\ Asked(k)
    BY <1>a, <2>1, <2>3, ChangePriLemma
  <2> HIDE DEF k
  <2> QED
    BY <1>a, <2>1, <2>2, <2>4, ReturnInv
<1> QED
  BY <1>1, <1>2, <1>3, <1>4, <1>5, <1>6, <1>7 DEF TaskSwi

\* internalWait goes on to the head of the ready queue, which is there.
LEMMA StartNextInv ==
  ASSUME IInv, StartNext
  PROVE  IInv'
<1>1. /\ mode = "blip" /\ kb.TaskReadyQ # <<>>
      /\ kb' = Launch(DequeueHead(kb), Head(kb.TaskReadyQ))
      /\ mode' \in {"user", "swi"}
  BY DEF StartNext, LaunchMode
<1>2. \A u \in Task : kb.Flags[u] # "running"
  BY <1>1 DEF IInv, Running
<1>3. /\ KInv(kb') /\ Running(kb', "user") /\ Running(kb', "swi")
      /\ Asked(kb') /\ Settled(kb')
  BY <1>1, <1>2, LaunchHead DEF IInv, KInv
<1> QED
  BY <1>1, <1>3 DEF IInv, Mode

\* swi_ret swaps to an equal or better task, or goes back to the caller.
LEMMA SwiRetInv ==
  ASSUME IInv, SwiRet
  PROVE  IInv'
<1> DEFINE done == [kb EXCEPT !.ret = {}]
           c == CLand(done)
           me == done.CurrentTask
           landed == SwiSwap(done)
<1>1. kb \in KernelState /\ KInv(kb) /\ Running(kb, "swi") /\ Asked(kb) /\ mode = "swi"
  BY DEF SwiRet, IInv, KInv
<1>2. /\ done \in KernelState /\ done.CurrentTask = kb.CurrentTask
      /\ done.Flags = kb.Flags /\ done.TaskReadyQ = kb.TaskReadyQ
      /\ done.PleaseReschedule = kb.PleaseReschedule
      /\ done.quantaclock = kb.quantaclock /\ SameSignals(kb, done)
  BY <1>1 DEF KernelState, SameSignals
<1> HIDE DEF done
<1>3. KInv(done) /\ Running(done, "swi") /\ Asked(done)
  BY <1>1, <1>2 DEF KInv, Linked, Asleep, Allocated, Running, Asked, Urgent,
                    CurPri, HeadPri, SameSignals
<1>4. CASE ShouldSwap(kb)
  <2>1. kb' = Launch(DequeueHead(landed), Head(landed.TaskReadyQ))
        /\ mode' \in {"user", "swi"}
    BY <1>4 DEF SwiRet, LaunchMode, done
  <2>2. /\ c \in KernelState
        /\ c = [done EXCEPT !.Flags = c.Flags]
        /\ Unlinked(c, {me})
        /\ c.Flags[me] = "ready"
        /\ \A t \in Task : c.Flags[t] # "running"
        /\ c.Flags[Idle] # "waiting"
    BY <1>3, CLandLemma
  <2> HIDE DEF c
  <2>3. c.TaskReadyQ = done.TaskReadyQ /\ SameSignals(done, c)
    BY <1>2, <2>2 DEF KernelState, SameSignals
  <2>4. landed = MakeReady(c, me) /\ me \in Task
    BY <1>3 DEF SwiSwap, c, KInv
  <2> HIDE DEF landed, me
  <2>5. /\ landed \in KernelState
        /\ landed = [c EXCEPT !.Flags = landed.Flags,
                              !.TaskReadyQ = landed.TaskReadyQ]
        /\ landed.Flags = [c.Flags EXCEPT ![me] = "ready"]
        /\ Linked(landed) /\ Sorted(landed.TaskReadyQ, c.Priority)
        /\ landed.TaskReadyQ # <<>>
    <3>1. me \in Task /\ Sorted(c.TaskReadyQ, c.Priority)
      BY <1>3, <2>3, <2>4 DEF KInv, SameSignals
    <3> QED
      BY <2>2, <2>4, <3>1, MakeReadyOnly
  <2>6. SameSignals(c, landed)
    BY <2>2, <2>5 DEF KernelState, SameSignals
  <2>7. /\ \A t \in Task : landed.Flags[t] # "running"
        /\ landed.Flags[Idle] # "waiting"
    BY <2>2, <2>4, <2>5, Fields, TaskAssumption
  <2>8. Asleep(landed) /\ Allocated(landed)
    BY <1>3, <2>3, <2>6 DEF KInv, Asleep, Allocated, SameSignals
  <2>9. /\ KInv(kb') /\ Running(kb', "user") /\ Running(kb', "swi")
        /\ Asked(kb') /\ Settled(kb')
    BY <2>1, <2>5, <2>6, <2>7, <2>8, LaunchHead DEF SameSignals
  <2> QED
    BY <2>1, <2>9 DEF IInv, Mode
<1>5. CASE ~ShouldSwap(kb)
  <2>1. kb' = done /\ mode' = "user"
    BY <1>5 DEF SwiRet, done
  <2>2. kb.CurrentTask # NoTask
    BY <1>1, TaskAssumption DEF KInv
  <2>3. Settled(done)
    BY <1>2, <1>5, <2>2 DEF Settled, ShouldSwap, CurPri, HeadPri, SameSignals
  <2>4. Running(done, "user")
    BY <1>3 DEF Running
  <2> QED
    BY <1>3, <2>1, <2>3, <2>4 DEF IInv, Mode
<1> QED
  BY <1>4, <1>5
\* A fast interrupt that signals a task keeps the invariant, in whatever mode
\* it finds the processor.
LEMMA FirqSignalInv ==
  ASSUME IInv, NEW t \in Task, NEW bits \in SUBSET Sig, FirqSignal(t, bits)
  PROVE  IInv'
<1> DEFINE k == internalSignal(kb, t, bits)
<1>1. kb' = k /\ mode' = FirqMode
  BY DEF FirqSignal
<1>2. KInv(k) /\ SameRunner(kb, k) /\ (Asked(kb) => Asked(k))
  BY SignalLemma DEF IInv
<1> HIDE DEF k
<1>3. mode' \in Mode /\ mode' # "user" /\ (mode' = "blip" <=> mode = "blip")
  BY <1>1 DEF FirqMode, IInv, Mode
<1>4. Running(k, mode')
  BY <1>2, <1>3 DEF IInv, Running, SameRunner
<1> QED
  BY <1>1, <1>2, <1>3, <1>4 DEF IInv

\* The end of a quantum keeps the invariant: the timer stays dead only when a
\* reschedule is requested.
LEMMA FirqQuantumInv ==
  ASSUME IInv, FirqQuantum
  PROVE  IInv'
<1> DEFINE resched == \/ kb.PleaseReschedule
                      \/ kb.TaskReadyQ # <<>> /\ CurPri(kb) <= HeadPri(kb)
           k == [kb EXCEPT !.PleaseReschedule = resched,
                           !.quantaclock = ~resched]
<1>1. KInv(kb) /\ kb \in KernelState /\ kb.CurrentTask # NoTask
  BY TaskAssumption DEF IInv, KInv
<1>2. kb' = k /\ mode' = FirqMode
  BY <1>1 DEF FirqQuantum, cblank
<1>r. resched \in BOOLEAN /\ (kb.PleaseReschedule => resched)
  BY <1>1, Fields
<1> HIDE DEF resched
<1>3. /\ k \in KernelState /\ SameSignals(kb, k)
      /\ k.CurrentTask = kb.CurrentTask /\ k.Flags = kb.Flags
      /\ k.TaskReadyQ = kb.TaskReadyQ
      /\ k.PleaseReschedule = resched /\ k.quantaclock = ~resched
  BY <1>1, <1>r DEF KernelState, SameSignals
<1> HIDE DEF k
<1>4. KInv(k)
  BY <1>1, <1>3 DEF KInv, Linked, Asleep, Allocated, SameSignals
<1>5. Asked(kb) => Asked(k)
  BY <1>3, <1>r DEF Asked, Urgent, CurPri, HeadPri, SameSignals
<1>6. mode' \in Mode /\ mode' # "user" /\ (mode' = "blip" <=> mode = "blip")
  BY <1>2 DEF FirqMode, IInv, Mode
<1>7. Running(k, mode')
  BY <1>3, <1>6 DEF IInv, Running
<1> QED
  BY <1>2, <1>4, <1>5, <1>6, <1>7 DEF IInv

\* The return from a fast interrupt keeps the invariant: FirqHandler takes the
\* head off before it queues the current task behind its equals.
LEMMA FirqReturnInv ==
  ASSUME IInv, FirqReturn
  PROVE  IInv'
<1> DEFINE me == kb.CurrentTask
           c == CLand(kb)
           d == DequeueHead(c)
           next == Head(kb.TaskReadyQ)
           swap == MakeReady(d, me)
<1>1. /\ kb \in KernelState /\ KInv(kb) /\ Running(kb, "swi") /\ Asked(kb)
      /\ mode = "firq" /\ me \in Task /\ me # NoTask
  BY TaskAssumption DEF FirqReturn, IInv, KInv, Running
<1>2. CASE ShouldSwap(kb)
  <2>1. kb' = Launch(swap, next) /\ mode' \in {"user", "swi"}
    BY <1>2 DEF FirqReturn, LaunchMode
  <2>2. kb.TaskReadyQ # <<>> /\ kb.Priority[me] <= kb.Priority[next]
    BY <1>2 DEF ShouldSwap, CurPri, HeadPri
  <2>3. /\ c \in KernelState
        /\ c = [kb EXCEPT !.Flags = c.Flags]
        /\ Unlinked(c, {me})
        /\ c.Flags[me] = "ready"
        /\ \A t \in Task : c.Flags[t] # "running"
        /\ c.Flags[Idle] # "waiting"
    BY <1>1, CLandLemma
  <2>4. next = Head(c.TaskReadyQ) /\ swap = MakeReady(d, me) /\ d = DequeueHead(c)
    BY <1>1, <2>3 DEF KernelState
  <2> HIDE DEF c, next, swap
  <2>5. c.TaskReadyQ = kb.TaskReadyQ /\ SameSignals(kb, c)
    BY <1>1, <2>3 DEF KernelState, SameSignals
  <2>6. Sorted(c.TaskReadyQ, c.Priority) /\ {me} \in SUBSET Task
    BY <1>1, <2>5 DEF KInv, SameSignals
  <2>7. /\ d \in KernelState /\ next \in Task \ {me}
        /\ d = [c EXCEPT !.TaskReadyQ = d.TaskReadyQ]
        /\ Unlinked(d, {me} \cup {next})
        /\ Sorted(d.TaskReadyQ, c.Priority)
        /\ d.TaskReadyQ # <<>> => HeadPri(d) <= c.Priority[next]
    <3> HIDE DEF d, me
    <3> QED
      BY <2>2, <2>3, <2>4, <2>5, <2>6, DequeueLemma
  <2> HIDE DEF d
  <2>8. d.Flags = c.Flags /\ d.Priority = c.Priority /\ d.SigBits = c.SigBits
        /\ d.WaitBits = c.WaitBits /\ d.AllocatedSigs = c.AllocatedSigs
        /\ d.TaskWaitQ = c.TaskWaitQ
    BY <2>3, <2>7 DEF KernelState
  <2>9. /\ me \in {me} \cup {next} /\ {me} \cup {next} \in SUBSET Task
        /\ ({me} \cup {next}) \ {me} = {next}
    BY <1>1, <2>7
  <2>10. /\ swap \in KernelState
         /\ swap = [d EXCEPT !.Flags = swap.Flags, !.TaskReadyQ = swap.TaskReadyQ]
         /\ swap.Flags = [d.Flags EXCEPT ![me] = "ready"]
         /\ Unlinked(swap, {next})
         /\ Sorted(swap.TaskReadyQ, d.Priority)
         /\ \/ Head(swap.TaskReadyQ) = me
            \/ d.TaskReadyQ # <<>> /\ Head(swap.TaskReadyQ) = Head(d.TaskReadyQ)
    <3> DEFINE S == {me} \cup {next}
    <3>1. Unlinked(d, S) /\ me \in S /\ S \in SUBSET Task
      BY <2>7, <2>9
    <3>2. /\ swap \in KernelState
          /\ swap = [d EXCEPT !.Flags = swap.Flags, !.TaskReadyQ = swap.TaskReadyQ]
          /\ swap.Flags = [d.Flags EXCEPT ![me] = "ready"]
          /\ Unlinked(swap, S \ {me})
          /\ Sorted(swap.TaskReadyQ, d.Priority)
          /\ \/ Head(swap.TaskReadyQ) = me
             \/ d.TaskReadyQ # <<>> /\ Head(swap.TaskReadyQ) = Head(d.TaskReadyQ)
      <4> HIDE DEF S
      <4>1. Sorted(d.TaskReadyQ, d.Priority)
        BY <2>7, <2>8
      <4>0. d \in KernelState
        BY <2>7
      <4>2. LET r == MakeReady(d, me) IN
            /\ r \in KernelState
            /\ r = [d EXCEPT !.Flags = r.Flags, !.TaskReadyQ = r.TaskReadyQ]
            /\ r.Flags = [d.Flags EXCEPT ![me] = "ready"]
            /\ Unlinked(r, S \ {me})
            /\ Sorted(r.TaskReadyQ, d.Priority)
            /\ \/ Head(r.TaskReadyQ) = me
               \/ d.TaskReadyQ # <<>> /\ Head(r.TaskReadyQ) = Head(d.TaskReadyQ)
        <5> HIDE DEF me
        <5> QED
          BY <3>1, <4>0, <4>1, MakeReadyLemma
      <4> QED
        BY <4>2 DEF swap
    <3> QED
      BY <2>9, <3>2
  <2>11. SameSignals(d, swap)
    BY <2>7, <2>10 DEF KernelState, SameSignals
  <2>12. /\ \A u \in Task : swap.Flags[u] # "running"
         /\ swap.Flags[Idle] # "waiting"
    BY <2>3, <2>7, <2>8, <2>10, Fields, TaskAssumption
  <2>13. Asleep(swap) /\ Allocated(swap)
    BY <1>1, <2>5, <2>8, <2>11 DEF KInv, Asleep, Allocated, SameSignals
  <2>14. swap.Priority = kb.Priority
    BY <2>5, <2>8, <2>11 DEF SameSignals
  <2>15. HeadPri(swap) <= swap.Priority[next]
    <3>1. CASE Head(swap.TaskReadyQ) = me
      BY <2>2, <2>14, <3>1 DEF HeadPri, next
    <3>2. CASE d.TaskReadyQ # <<>> /\ Head(swap.TaskReadyQ) = Head(d.TaskReadyQ)
      BY <2>5, <2>7, <2>8, <2>14, <3>2 DEF HeadPri, SameSignals
    <3> QED
      BY <2>10, <3>1, <3>2
  <2>16. /\ KInv(kb') /\ Running(kb', "user") /\ Running(kb', "swi")
         /\ Asked(kb') /\ Settled(kb')
    <3> DEFINE k == Launch(swap, next)
    <3>1. Sorted(swap.TaskReadyQ, swap.Priority)
      BY <2>10, <2>11 DEF SameSignals
    <3>2. KInv(k) /\ Running(k, "user") /\ Running(k, "swi") /\ Asked(k) /\ Settled(k)
      BY <2>7, <2>10, <2>12, <2>13, <2>15, <3>1, LaunchLemma
    <3> HIDE DEF k
    <3> QED
      BY <2>1, <3>2 DEF k
  <2> QED
    BY <2>1, <2>16 DEF IInv, Mode
<1>3. CASE ~ShouldSwap(kb)
  <2>1. kb' = kb /\ mode' = "user"
    BY <1>3 DEF FirqReturn
  <2>2. Settled(kb)
    BY <1>1, <1>3 DEF Settled, ShouldSwap
  <2>3. Running(kb, "user")
    BY <1>1 DEF Running
  <2> QED
    BY <1>1, <2>1, <2>2, <2>3 DEF IInv, Mode
<1> QED
  BY <1>2, <1>3

\* Every step keeps the invariant.
LEMMA NextInv == IInv /\ [Next]_vars => IInv'
<1> SUFFICES ASSUME IInv, [Next]_vars PROVE IInv'
  OBVIOUS
<1>1. CASE TaskSwi
  BY <1>1, SwiInv
<1>2. CASE StartNext
  BY <1>2, StartNextInv
<1>3. CASE SwiRet
  BY <1>3, SwiRetInv
<1>4. CASE Firq
  <2>1. CASE FirqQuantum
    BY <2>1, FirqQuantumInv
  <2>2. ASSUME NEW t \in Task, NEW sigs \in SigSet, FirqSignal(t, sigs)
        PROVE  IInv'
    BY <2>2, FirqSignalInv DEF SigSet
  <2> QED
    BY <1>4, <2>1, <2>2 DEF Firq
<1>5. CASE FirqReturn
  BY <1>5, FirqReturnInv
<1>6. CASE UNCHANGED vars
  BY <1>6 DEF vars, IInv
<1> QED
  BY <1>1, <1>2, <1>3, <1>4, <1>5, <1>6 DEF Next

-----------------------------------------------------------------------------
(* The theorems *)

\* The inductive invariant holds in every reachable state.
THEOREM Invariance == Spec => []IInv
<1> QED
  BY InitInv, NextInv, PTL DEF Spec

\* Every field of the kernel keeps its type: no SWI and no interrupt leaves
\* kb_CurrentTask, a queue or a set of bits outside its range.
THEOREM TypeCorrect == Spec => []TypeOK
<1>1. IInv => TypeOK
  BY DEF IInv, KInv, TypeOK
<1> QED
  BY <1>1, Invariance, PTL

\* The queues agree with n_Flags whatever interrupts come between the steps of
\* a switch, so internalSignal and internalChangeTaskPri unlink the right node.
THEOREM PlacementHolds == Spec => []Placement
<1>1. IInv => Placement
  BY DEF IInv, KInv, Running, Placement
<1> QED
  BY <1>1, Invariance, PTL

\* internalWait never loses a wakeup.
THEOREM LostWakeup == Spec => []NoLostWakeup
<1>1. IInv => NoLostWakeup
  BY DEF IInv, KInv, Asleep, NoLostWakeup
<1> QED
  BY <1>1, Invariance, PTL

\* No bit is pending that its task has not allocated.
THEOREM StaleSignal == Spec => []NoStaleSignal
<1>1. IInv => NoStaleSignal
  BY DEF IInv, KInv, Allocated, NoStaleSignal
<1> QED
  BY <1>1, Invariance, PTL

\* TailInsertNode and internalChangeTaskPri keep the ready queue sorted.
THEOREM QueueSorted == Spec => []ReadyQSorted
<1>1. IInv => ReadyQSorted
  BY DEF IInv, KInv, ReadyQSorted
<1> QED
  BY <1>1, Invariance, PTL

\* The best ready task runs: swi_ret and FirqHandler never go back to the code
\* of a task while a better one is ready.
THEOREM PriorityScheduling == Spec => []HighestRuns
<1>1. IInv => HighestRuns
  <2>1. SUFFICES ASSUME IInv, mode = "user", kb.TaskReadyQ # <<>>
                 PROVE  CurPri(kb) >= HeadPri(kb)
    BY DEF HighestRuns
  <2>2. CurPri(kb) \in Nat /\ HeadPri(kb) \in Nat
    <3>1. Head(kb.TaskReadyQ) \in Task
      BY <2>1, Fields, TailSet DEF IInv, KInv, Linked
    <3> QED
      BY <2>1, <3>1, Fields DEF IInv, KInv, CurPri, HeadPri
  <2>3. Asked(kb) /\ Settled(kb)
    BY <2>1 DEF IInv
  <2> QED
    BY <2>1, <2>2, <2>3 DEF Asked, Urgent, Settled
<1> QED
  BY <1>1, Invariance, PTL

\* Time slicing never stops for a task that runs beside a ready equal.
THEOREM QuantumHolds == Spec => []QuantumAlive
<1>1. IInv => QuantumAlive
  <2>1. SUFFICES ASSUME IInv, mode = "user", kb.TaskReadyQ # <<>>,
                        CurPri(kb) = HeadPri(kb)
                 PROVE  ~kb.PleaseReschedule
    BY DEF QuantumAlive, IInv, KInv
  <2>2. Head(kb.TaskReadyQ) \in Task
    BY <2>1, Fields, TailSet DEF IInv, KInv, Linked
  <2>3. HeadPri(kb) \in Nat
    BY <2>1, <2>2, Fields DEF IInv, KInv, HeadPri
  <2> QED
    BY <2>1, <2>3 DEF IInv, Settled
<1> QED
  BY <1>1, Invariance, PTL

\* internalWait never finds the ready queue empty: the idle thread is there.
THEOREM IdleReady == Spec => []NextTaskExists
<1>1. IInv => NextTaskExists
  <2>1. SUFFICES ASSUME IInv, mode = "blip" PROVE kb.TaskReadyQ # <<>>
    BY DEF NextTaskExists
  <2>2. kb.Flags[Idle] = "ready"
    BY <2>1, Fields, TaskAssumption DEF IInv, KInv, Running, Flag
  <2>3. Idle \in ToSet(kb.TaskReadyQ)
    BY <2>1, <2>2, TaskAssumption DEF IInv, KInv, Linked
  <2> QED
    BY <2>3 DEF ToSet
<1> QED
  BY <1>1, Invariance, PTL
-----------------------------------------------------------------------------
(* No step takes the signals of a task that is not resumed *)

\* Only the task that runs after the step from k to r may have lost a bit.
Keeps(k, r) ==
  \A t \in Task : t = r.CurrentTask \/ k.SigBits[t] \subseteq r.SigBits[t]

\* internalSignal adds to the pending bits of one task.
LEMMA SignalKeeps ==
  ASSUME NEW k \in KernelState, NEW t \in Task, NEW bits \in SUBSET Sig
  PROVE  Keeps(k, internalSignal(k, t, bits))
<1> DEFINE sigs == k.SigBits[t] \cup bits
           s == [k EXCEPT !.SigBits[t] = sigs]
           u == [s EXCEPT !.TaskWaitQ = @ \ {t}]
           a == MakeReady(u, t)
           r == internalSignal(k, t, bits)
<1>1. s \in KernelState /\ s.SigBits = [k.SigBits EXCEPT ![t] = sigs]
  BY DEF KernelState
<1>2. \A v \in Task : k.SigBits[v] \subseteq s.SigBits[v]
  BY <1>1, Fields
<1> HIDE DEF s
<1>3. u \in KernelState /\ u.SigBits = s.SigBits
  BY <1>1 DEF KernelState
<1> HIDE DEF u
<1>4. a.SigBits = u.SigBits /\ DOMAIN a = DOMAIN u
  BY <1>3 DEF MakeReady, KernelState
<1> HIDE DEF a
<1>5. "SigBits" \in DOMAIN a
  BY <1>3, <1>4 DEF KernelState
<1>6. r.SigBits = k.SigBits \/ r.SigBits = s.SigBits
  BY <1>3, <1>4, <1>5 DEF internalSignal, a, u, s
<1> QED
  BY <1>2, <1>6 DEF Keeps

Untouched(k, r) == r.SigBits = k.SigBits /\ DOMAIN r = DOMAIN k

\* A switch handles queues and flags, and no signals, until it launches a task.
LEMMA SwitchKeeps ==
  ASSUME NEW k, DOMAIN k = DOMAIN kb, kb \in KernelState, NEW t
  PROVE  /\ Untouched(k, MakeReady(k, t))
         /\ Untouched(k, DequeueHead(k))
         /\ Untouched(k, CLand(k))
BY DEF Untouched, MakeReady, DequeueHead, CLand, KernelState

\* Launch takes bits of the task it resumes alone.
LEMMA LaunchKeeps ==
  ASSUME NEW k, Untouched(kb, k), kb \in KernelState, NEW t
  PROVE  Keeps(kb, Launch(k, t))
<1> DEFINE c == CLaunch(k, t)
           r == Resume(c, t)
<1>1. {"CurrentTask", "SigBits"} \subseteq DOMAIN k
  BY DEF Untouched, KernelState
<1>2. c.CurrentTask = t /\ c.SigBits = kb.SigBits /\ DOMAIN c = DOMAIN k
  BY <1>1 DEF CLaunch, Untouched
<1> HIDE DEF c
<1>3. /\ r.CurrentTask = t
      /\ r.SigBits = [c.SigBits EXCEPT ![t] = @ \ (c.WaitBits[t] \cap c.SigBits[t])]
  BY <1>1, <1>2 DEF Resume
<1> HIDE DEF r
<1>4. \A u \in Task \ {t} : r.SigBits[u] = kb.SigBits[u]
  BY <1>2, <1>3, Fields
<1> QED
  BY <1>2, <1>3, <1>4 DEF Launch, Keeps, c, r

\* A SWI takes bits of its caller alone, which goes on running.
LEMMA SwiKeeps ==
  ASSUME IInv, TaskSwi
  PROVE  Keeps(kb, kb')
<1>k. kb \in KernelState /\ Me \in Task
  BY DEF IInv, KInv, Me
<1>1. ASSUME NEW t \in Task, NEW sigs \in SigSet, SendSignal(t, sigs)
      PROVE  Keeps(kb, kb')
  BY <1>k, <1>1, SignalKeeps DEF SendSignal, Return, Keeps, SigSet
<1>2. ASSUME NEW t \in Task, NEW p \in NewPri, SetItemPri(t, p)
      PROVE  Keeps(kb, kb')
  <2>2. internalChangeTaskPri(kb, t, p).SigBits = kb.SigBits
    <3> DEFINE s == [kb EXCEPT !.Priority[t] = p]
               q == [s EXCEPT !.TaskReadyQ = RemoveNode(@, t)]
               m == MakeReady(q, t)
    <3>1. Untouched(kb, s)
      BY <1>k DEF Untouched, KernelState
    <3> HIDE DEF s
    <3>2. Untouched(kb, q)
      BY <1>k, <3>1 DEF Untouched, KernelState
    <3> HIDE DEF q
    <3>3. Untouched(kb, m)
      BY <1>k, <3>2, SwitchKeeps DEF Untouched
    <3> HIDE DEF m
    <3>4. "SigBits" \in DOMAIN s /\ "SigBits" \in DOMAIN m
      BY <1>k, <3>1, <3>3 DEF Untouched, KernelState
    <3> QED
      BY <3>1, <3>3, <3>4 DEF internalChangeTaskPri, Untouched, m, q, s
  <2> QED
    BY <1>2, <2>2 DEF SetItemPri, Return, Keeps
<1>3. ASSUME NEW sigs \in SigSet, Wait(sigs) PROVE Keeps(kb, kb')
  <2> DEFINE res == Awaited(sigs) \cap kb.SigBits[Me]
             k == internalWait(kb, sigs)
  <2>1. k.CurrentTask = Me
    BY <1>k DEF internalWait, ClearSignals, FallAsleep, CLand, Me, KernelState
  <2>2. k.SigBits = kb.SigBits \/ k.SigBits = [kb.SigBits EXCEPT ![Me] = @ \ res]
    BY <1>k DEF internalWait, ClearSignals, FallAsleep, CLand, Me, KernelState
  <2> HIDE DEF k, res
  <2>3. \A t \in Task \ {Me} : k.SigBits[t] = kb.SigBits[t]
    BY <1>k, <2>2, Fields
  <2> QED
    BY <1>3, <2>1, <2>3 DEF Wait, Keeps, k
<1>4. ASSUME NEW alloc, NEW bits,
             Return(ClearSignals([kb EXCEPT !.AllocatedSigs[Me] = alloc], Me, bits))
      PROVE  Keeps(kb, kb')
  <2>1. kb'.CurrentTask = Me /\ kb'.SigBits = [kb.SigBits EXCEPT ![Me] = @ \ bits]
    BY <1>k, <1>4 DEF Return, ClearSignals, Me, KernelState
  <2> QED
    BY <1>k, <2>1, Fields DEF Keeps
<1>5. ASSUME Return(kb) \/ Return([kb EXCEPT !.PleaseReschedule = TRUE])
      PROVE  Keeps(kb, kb')
  <2>1. kb'.SigBits = kb.SigBits
    BY <1>k, <1>5 DEF Return, KernelState
  <2> QED
    BY <2>1 DEF Keeps
<1>6. Yield => Keeps(kb, kb')
  BY <1>5 DEF Yield
<1>7. AllocAnySignal => Keeps(kb, kb')
  BY <1>4 DEF AllocAnySignal
<1>8. ASSUME NEW sigs \in SigSet, AllocSignal(sigs) \/ FreeSignal(sigs)
      PROVE  Keeps(kb, kb')
  BY <1>4, <1>5, <1>8 DEF AllocSignal, FreeSignal
<1> QED
  BY <1>1, <1>2, <1>3, <1>6, <1>7, <1>8 DEF TaskSwi

\* StartNext, swi_ret and FirqHandler take bits of the task they resume alone.
LEMMA SwitchStepKeeps ==
  ASSUME IInv, StartNext \/ SwiRet \/ FirqReturn
  PROVE  Keeps(kb, kb')
<1>k. kb \in KernelState
  BY DEF IInv, KInv
<1>1. CASE StartNext
  <2>1. Untouched(kb, DequeueHead(kb))
    BY <1>k, SwitchKeeps DEF Untouched
  <2> QED
    BY <1>k, <1>1, <2>1, LaunchKeeps DEF StartNext
<1>2. CASE SwiRet /\ ShouldSwap(kb)
  <2> DEFINE done == [kb EXCEPT !.ret = {}]
             c == CLand(done)
             landed == MakeReady(c, kb.CurrentTask)
             d == DequeueHead(landed)
  <2>1. Untouched(kb, done) /\ done.CurrentTask = kb.CurrentTask
    BY <1>k DEF Untouched, KernelState
  <2>2. Untouched(kb, c)
    BY <1>k, <2>1, SwitchKeeps DEF Untouched
  <2>3. Untouched(kb, landed)
    BY <1>k, <2>2, SwitchKeeps DEF Untouched
  <2>4. Untouched(kb, d)
    BY <1>k, <2>3, SwitchKeeps DEF Untouched
  <2>5. kb' = Launch(d, Head(landed.TaskReadyQ))
    BY <1>2, <2>1 DEF SwiRet, SwiSwap
  <2> HIDE DEF d, landed
  <2> QED
    BY <1>k, <2>4, <2>5, LaunchKeeps
<1>3. CASE FirqReturn /\ ShouldSwap(kb)
  <2> DEFINE c == CLand(kb)
             d == DequeueHead(c)
             swap == MakeReady(d, kb.CurrentTask)
  <2>1. Untouched(kb, c)
    BY <1>k, SwitchKeeps DEF Untouched
  <2>2. Untouched(kb, d)
    BY <1>k, <2>1, SwitchKeeps DEF Untouched
  <2>3. Untouched(kb, swap)
    BY <1>k, <2>2, SwitchKeeps DEF Untouched
  <2>4. kb' = Launch(swap, Head(kb.TaskReadyQ))
    BY <1>3 DEF FirqReturn
  <2> HIDE DEF swap
  <2> QED
    BY <1>k, <2>3, <2>4, LaunchKeeps
<1>4. CASE (SwiRet \/ FirqReturn) /\ ~ShouldSwap(kb)
  <2>1. kb'.SigBits = kb.SigBits
    BY <1>k, <1>4 DEF SwiRet, FirqReturn, KernelState
  <2> QED
    BY <2>1 DEF Keeps
<1> QED
  BY <1>1, <1>2, <1>3, <1>4

\* No step loses a pending bit of a task that is not the caller or resumed.
THEOREM SignalsNeverLost == Spec => SignalsKept
<1>1. ASSUME IInv, [Next]_vars PROVE Keeps(kb, kb')
  <2>k. kb \in KernelState
    BY <1>1 DEF IInv, KInv
  <2>1. CASE TaskSwi
    BY <2>1, <1>1, SwiKeeps
  <2>2. CASE StartNext \/ SwiRet \/ FirqReturn
    BY <2>2, <1>1, SwitchStepKeeps
  <2>3. CASE Firq
    <3>1. CASE FirqQuantum
      <4>1. kb'.SigBits = kb.SigBits
        BY <2>k, <3>1 DEF FirqQuantum, cblank, KernelState
      <4> QED
        BY <4>1 DEF Keeps
    <3>2. ASSUME NEW t \in Task, NEW sigs \in SigSet, FirqSignal(t, sigs)
          PROVE  Keeps(kb, kb')
      BY <2>k, <3>2, SignalKeeps DEF FirqSignal, SigSet
    <3> QED
      BY <2>3, <3>1, <3>2 DEF Firq
  <2>4. CASE UNCHANGED vars
    BY <2>4 DEF vars, Keeps
  <2> QED
    BY <1>1, <2>1, <2>2, <2>3, <2>4 DEF Next
<1>2. IInv /\ [Next]_vars =>
        [\A t \in Task : ~(kb.SigBits[t] \subseteq kb'.SigBits[t]) =>
              t = kb'.CurrentTask]_vars
  BY <1>1 DEF Keeps
<1> QED
  BY <1>2, Invariance, PTL DEF Spec, SignalsKept
-----------------------------------------------------------------------------
(* What a step of the kernel leaves alone *)

\* A step that does not run another task, seen from inside the SWIs that sleep.
SameFrames(k, r) ==
  r.CurrentTask = k.CurrentTask /\ r.psr = k.psr /\ r.WaitBits = k.WaitBits

\* internalSignal adds the bits to one task, and wakes it if it waits for one.
LEMMA SignalFrame ==
  ASSUME NEW k, KInv(k), NEW t \in Task, NEW bits \in SUBSET Sig,
         bits \subseteq k.AllocatedSigs[t]
  PROVE  LET r == internalSignal(k, t, bits) IN
         /\ SameFrames(k, r)
         /\ r.AllocatedSigs = k.AllocatedSigs
         /\ r.SigBits = [k.SigBits EXCEPT ![t] = @ \cup bits]
         /\ bits \cap k.WaitBits[t] # {} => r.TaskWaitQ = k.TaskWaitQ \ {t}
         /\ bits \cap k.WaitBits[t] = {} => r.TaskWaitQ = k.TaskWaitQ
<1> DEFINE sigs == k.SigBits[t] \cup bits
           s == [k EXCEPT !.SigBits[t] = sigs]
           u == [s EXCEPT !.TaskWaitQ = @ \ {t}]
           me == k.CurrentTask
           a == MakeReady(u, t)
           w == [a EXCEPT !.PleaseReschedule =
                   @ \/ (me # NoTask /\ k.Priority[me] < k.Priority[t])]
           r == internalSignal(k, t, bits)
<1>k. k \in KernelState
  BY DEF KInv
<1>1. /\ DOMAIN s = DOMAIN k /\ SameFrames(k, s) /\ s.AllocatedSigs = k.AllocatedSigs
      /\ s.SigBits = [k.SigBits EXCEPT ![t] = sigs] /\ s.TaskWaitQ = k.TaskWaitQ
  BY <1>k DEF KernelState, SameFrames
<1> HIDE DEF s
<1>2. /\ DOMAIN u = DOMAIN k /\ SameFrames(k, u) /\ u.AllocatedSigs = k.AllocatedSigs
      /\ u.SigBits = s.SigBits /\ u.TaskWaitQ = k.TaskWaitQ \ {t}
  BY <1>k, <1>1 DEF KernelState, SameFrames
<1> HIDE DEF u
<1>3. /\ SameFrames(k, w) /\ w.AllocatedSigs = k.AllocatedSigs
      /\ w.SigBits = s.SigBits /\ w.TaskWaitQ = k.TaskWaitQ \ {t}
  BY <1>k, <1>2 DEF KernelState, SameFrames, MakeReady
<1> HIDE DEF w
<1>4. t \in k.TaskWaitQ <=> k.Flags[t] = "waiting"
  BY DEF KInv, Linked
<1>5. t \in k.TaskWaitQ => k.SigBits[t] \cap k.WaitBits[t] = {}
  BY DEF KInv, Asleep
<1>6. CASE t \in k.TaskWaitQ /\ bits \cap k.WaitBits[t] # {}
  <2>1. r = w
    BY <1>4, <1>6 DEF internalSignal, w, a, u, s
  <2> QED
    BY <1>1, <1>3, <1>6, <2>1
<1>7. CASE ~(t \in k.TaskWaitQ /\ bits \cap k.WaitBits[t] # {})
  <2>1. r = s
    BY <1>4, <1>5, <1>7 DEF internalSignal, s
  <2> QED
    BY <1>1, <1>7, <2>1
<1> QED
  BY <1>6, <1>7

\* internalWait puts the current task to sleep or takes the bits it waits for.
LEMMA WaitFrame ==
  ASSUME NEW k \in KernelState, k.CurrentTask \in Task,
         NEW bits, bits \subseteq k.AllocatedSigs[k.CurrentTask]
  PROVE  LET t   == k.CurrentTask
             r   == internalWait(k, bits)
             res == Awaited(bits) \cap k.SigBits[t]
         IN  /\ r.CurrentTask = t /\ r.AllocatedSigs = k.AllocatedSigs
             /\ res = {} => /\ r.SigBits = k.SigBits
                            /\ r.psr = [k.psr EXCEPT ![t] = "super"]
                            /\ r.WaitBits = [k.WaitBits EXCEPT ![t] = Awaited(bits)]
                            /\ r.TaskWaitQ = k.TaskWaitQ \cup {t}
             /\ res # {} => /\ r.SigBits = [k.SigBits EXCEPT ![t] = @ \ res]
                            /\ SameFrames(k, r) /\ r.TaskWaitQ = k.TaskWaitQ
                            /\ r.ret = res
<1> DEFINE t == k.CurrentTask
           res == Awaited(bits) \cap k.SigBits[t]
           r == internalWait(k, bits)
<1>1. CASE res = {}
  <2>1. r = FallAsleep(k, bits)
    BY <1>1 DEF internalWait
  <2> HIDE DEF r
  <2> QED
    BY <1>1, <2>1 DEF FallAsleep, CLand, KernelState, r
<1>2. CASE res # {}
  <2>1. r = [k EXCEPT !.SigBits = [k.SigBits EXCEPT ![t] = @ \ res], !.ret = res]
    BY <1>2 DEF internalWait, ClearSignals, KernelState
  <2> HIDE DEF r, res
  <2>2. /\ r.SigBits = [k.SigBits EXCEPT ![t] = @ \ res]
        /\ SameFrames(k, r) /\ r.TaskWaitQ = k.TaskWaitQ
        /\ r.ret = res /\ r.CurrentTask = t /\ r.AllocatedSigs = k.AllocatedSigs
    BY <2>1 DEF KernelState, SameFrames
  <2> QED
    BY <1>2, <2>2 DEF r, res
<1> QED
  BY <1>1, <1>2

\* Nothing the sleeping tasks depend on is touched.
Frozen(k, r) ==
  /\ DOMAIN r = DOMAIN k /\ r.psr = k.psr /\ r.WaitBits = k.WaitBits
  /\ r.SigBits = k.SigBits /\ r.AllocatedSigs = k.AllocatedSigs
  /\ r.TaskWaitQ = k.TaskWaitQ

\* The processor has gone to r.CurrentTask and is in mode m; a task that slept
\* in internalWait has what it waited for, any other goes on in user mode.
Launched(k, r, m) ==
  LET t == r.CurrentTask IN
  /\ r.AllocatedSigs = k.AllocatedSigs /\ r.TaskWaitQ = k.TaskWaitQ
  /\ \A u \in Task \ {t} : /\ r.psr[u] = k.psr[u] /\ r.WaitBits[u] = k.WaitBits[u]
                           /\ r.SigBits[u] = k.SigBits[u]
  /\ IF k.psr[t] = "super"
     THEN /\ m = "swi" /\ r.ret = k.WaitBits[t] \cap k.SigBits[t]
          /\ r.SigBits[t] = k.SigBits[t] \ r.ret
     ELSE m = "user" /\ r.SigBits[t] = k.SigBits[t]

\* A switch handles queues and flags until it launches a task.
LEMMA SwitchFrozen ==
  ASSUME NEW k, DOMAIN k = DOMAIN kb, kb \in KernelState, NEW t
  PROVE  /\ Frozen(k, MakeReady(k, t))
         /\ Frozen(k, DequeueHead(k))
         /\ Frozen(k, CLand(k)) /\ CLand(k).CurrentTask = k.CurrentTask
BY DEF Frozen, MakeReady, DequeueHead, CLand, KernelState

\* Launch makes the task the current one.
LEMMA LaunchCurrent ==
  ASSUME NEW k, DOMAIN k = DOMAIN kb, kb \in KernelState, NEW t
  PROVE  Launch(k, t).CurrentTask = t
BY DEF Launch, CLaunch, Resume, KernelState

\* What Launch does to the task it launches.
LEMMA LaunchFrame ==
  ASSUME NEW k, Frozen(kb, k), kb \in KernelState, NEW t \in Task
  PROVE  Launched(kb, Launch(k, t), LaunchMode(k, t))
<1> DEFINE c == CLaunch(k, t)
           r == Resume(c, t)
<1>1. {"CurrentTask", "SigBits", "psr", "WaitBits", "ret", "AllocatedSigs", "TaskWaitQ"}
        \subseteq DOMAIN k
  BY DEF Frozen, KernelState
<1>2. c.CurrentTask = t /\ Frozen(k, c)
  BY <1>1 DEF CLaunch, Frozen
<1>3. CASE k.psr[t] # "super"
  BY <1>2, <1>3 DEF Launch, LaunchMode, Launched, Frozen
<1>4. CASE k.psr[t] = "super"
  <2> HIDE DEF c
  <2>1. /\ r.CurrentTask = t
        /\ r.AllocatedSigs = c.AllocatedSigs /\ r.TaskWaitQ = c.TaskWaitQ
        /\ r.psr = [c.psr EXCEPT ![t] = "user"]
        /\ r.WaitBits = [c.WaitBits EXCEPT ![t] = {}]
        /\ r.ret = c.WaitBits[t] \cap c.SigBits[t]
        /\ r.SigBits = [c.SigBits EXCEPT ![t] = @ \ (c.WaitBits[t] \cap c.SigBits[t])]
    BY <1>1, <1>2 DEF Resume, Frozen
  <2> HIDE DEF r
  <2>2. Launch(k, t) = r /\ LaunchMode(k, t) = "swi"
    BY <1>4 DEF Launch, LaunchMode, r, c
  <2> QED
    BY <1>2, <1>4, <2>1, <2>2, Fields DEF Launched, Frozen
<1> QED
  BY <1>3, <1>4

\* StartNext, swi_ret and FirqHandler launch a task, or the last two go back to
\* the current one.
LEMMA SwitchFrame ==
  ASSUME IInv, StartNext \/ SwiRet \/ FirqReturn
  PROVE  \/ Launched(kb, kb', mode')
         \/ ~StartNext /\ Frozen(kb, kb') /\ Me' = Me /\ mode' = "user"
<1>k. kb \in KernelState
  BY DEF IInv, KInv
<1>t. \A q \in Seq(Task) : q # <<>> => Head(q) \in Task
  BY HeadTailProperties, ElementOfSeq, LenProperties
<1>1. CASE StartNext
  <2>1. Frozen(kb, DequeueHead(kb)) /\ Head(kb.TaskReadyQ) \in Task
    BY <1>k, <1>t, <1>1, SwitchFrozen, Fields DEF StartNext
  <2>2. LaunchMode(DequeueHead(kb), Head(kb.TaskReadyQ)) = mode'
    BY <1>1, <2>1 DEF StartNext, LaunchMode, Frozen
  <2> QED
    BY <1>k, <1>1, <2>1, <2>2, LaunchFrame DEF StartNext
<1>2. CASE SwiRet /\ ShouldSwap(kb)
  <2> DEFINE done == [kb EXCEPT !.ret = {}]
             c == CLand(done)
             landed == MakeReady(c, kb.CurrentTask)
             d == DequeueHead(landed)
             next == Head(landed.TaskReadyQ)
  <2>1. Frozen(kb, done) /\ done.CurrentTask = kb.CurrentTask
    BY <1>k DEF Frozen, KernelState
  <2>2. Frozen(kb, c)
    BY <1>k, <2>1, SwitchFrozen DEF Frozen
  <2>3. Frozen(kb, landed)
    BY <1>k, <2>2, SwitchFrozen DEF Frozen
  <2>4. Frozen(kb, d)
    BY <1>k, <2>3, SwitchFrozen DEF Frozen
  <2>5. kb' = Launch(d, next) /\ mode' = LaunchMode(landed, next)
    BY <1>2, <2>1 DEF SwiRet, SwiSwap
  <2> HIDE DEF d, landed, next
  <2>6. next \in Task
    <3>1. next = kb'.CurrentTask
      BY <1>k, <2>4, <2>5, LaunchCurrent DEF Frozen
    <3> QED
      BY <1>2, <3>1, SwiRetInv DEF IInv, KInv
  <2>7. LaunchMode(d, next) = LaunchMode(landed, next)
    BY <2>3, <2>4 DEF LaunchMode, Frozen
  <2> QED
    BY <1>k, <2>4, <2>5, <2>6, <2>7, LaunchFrame
<1>3. CASE FirqReturn /\ ShouldSwap(kb)
  <2> DEFINE c == CLand(kb)
             d == DequeueHead(c)
             swap == MakeReady(d, kb.CurrentTask)
             next == Head(kb.TaskReadyQ)
  <2>1. Frozen(kb, c)
    BY <1>k, SwitchFrozen DEF Frozen
  <2>2. Frozen(kb, d)
    BY <1>k, <2>1, SwitchFrozen DEF Frozen
  <2>3. Frozen(kb, swap)
    BY <1>k, <2>2, SwitchFrozen DEF Frozen
  <2>4. kb' = Launch(swap, next) /\ mode' = LaunchMode(kb, next)
    BY <1>3 DEF FirqReturn
  <2>5. next \in Task
    BY <1>k, <1>t, <1>3, Fields DEF ShouldSwap
  <2> HIDE DEF swap, next
  <2>6. LaunchMode(swap, next) = LaunchMode(kb, next)
    BY <2>3 DEF LaunchMode, Frozen
  <2> QED
    BY <1>k, <2>3, <2>4, <2>5, <2>6, LaunchFrame
<1>4. CASE (SwiRet \/ FirqReturn) /\ ~ShouldSwap(kb)
  BY <1>k, <1>4 DEF SwiRet, FirqReturn, StartNext, Frozen, Me, KernelState
<1> QED
  BY <1>1, <1>2, <1>3, <1>4

-----------------------------------------------------------------------------
(* The order of the ready queue *)

\* t is on the queue, and u is not, or comes after it.
InOrder(q, t, u) ==
  /\ t \in ToSet(q)
  /\ u \in ToSet(q) => \E i, j \in DOMAIN q : i < j /\ q[i] = t /\ q[j] = u

\* The queue r has what is left of q in its order, and u does not leave before t.
StaysInOrder(q, r, t, u) ==
  /\ t \in ToSet(r) => InOrder(r, t, u)
  /\ u \in ToSet(q) => u \in ToSet(r)

\* Queueing a task adds it to those on the queue.
LEMMA InsertMembers ==
  ASSUME NEW S, NEW q \in Seq(S), NEW pri \in [S -> Nat], NEW x \in S,
         IsInjective(q), x \notin ToSet(q)
  PROVE  ToSet(TailInsertNode(q, pri, x)) = ToSet(q) \cup {x}
<1>1. PICK n \in 1..(Len(q) + 1) : TailInsertNode(q, pri, x) = InsertAt(q, n, x)
  BY TailInsertPlace
<1> QED
  BY <1>1, InsertAtSet

\* Queueing a task keeps the order; the task goes behind those of its priority.
LEMMA InsertOrder ==
  ASSUME NEW S, NEW q \in Seq(S), NEW pri \in [S -> Nat], NEW x \in S,
         IsInjective(q), x \notin ToSet(q),
         NEW t \in S, NEW u \in S, t # u, pri[t] = pri[u], InOrder(q, t, u)
  PROVE  LET r == TailInsertNode(q, pri, x) IN
         InOrder(r, t, u) /\ StaysInOrder(q, r, t, u)
<1> DEFINE r == TailInsertNode(q, pri, x)
<1>1. PICK n \in 1..(Len(q) + 1) :
        /\ r = InsertAt(q, n, x)
        /\ \A j \in 1..Len(q) : pri[q[j]] >= pri[x] => j < n
  BY TailInsertPlace
<1>2. ToSet(r) = ToSet(q) \cup {x}
  BY InsertMembers
<1>3. /\ Len(q) \in Nat /\ DOMAIN q = 1..Len(q)
      /\ r \in Seq(S) /\ DOMAIN r = 1..(Len(q) + 1)
      /\ \A j \in 1..(Len(q) + 1) :
           r[j] = IF j < n THEN q[j] ELSE IF j = n THEN x ELSE q[j - 1]
  <2>1. /\ InsertAt(q, n, x) \in Seq(S)
        /\ Len(InsertAt(q, n, x)) = Len(q) + 1
        /\ \A j \in 1..(Len(q) + 1) :
             InsertAt(q, n, x)[j] =
               IF j < n THEN q[j] ELSE IF j = n THEN x ELSE q[j - 1]
    BY InsertAtLemma
  <2> HIDE DEF r
  <2>2. /\ r \in Seq(S) /\ Len(r) = Len(q) + 1
        /\ \A j \in 1..(Len(q) + 1) :
             r[j] = IF j < n THEN q[j] ELSE IF j = n THEN x ELSE q[j - 1]
    BY <1>1, <2>1
  <2> QED
    BY <2>2, LenProperties
<1> HIDE DEF r
<1> DEFINE to(j) == IF j < n THEN j ELSE j + 1
<1>4. \A j \in 1..Len(q) : to(j) \in DOMAIN r /\ r[to(j)] = q[j]
  BY <1>1, <1>3
<1>5. \A i, j \in 1..Len(q) : i < j => to(i) < to(j)
  BY <1>1, <1>3
<1>6. t # x
  BY DEF InOrder
<1>7. CASE u \in ToSet(q)
  <2>1. PICK i, j \in 1..Len(q) : i < j /\ q[i] = t /\ q[j] = u
    BY <1>3, <1>7 DEF InOrder
  <2>2. /\ to(i) \in DOMAIN r /\ to(j) \in DOMAIN r /\ to(i) < to(j)
        /\ r[to(i)] = t /\ r[to(j)] = u
    BY <1>4, <1>5, <2>1
  <2> HIDE DEF to
  <2>3. InOrder(r, t, u)
    BY <1>2, <1>7, <2>2 DEF InOrder
  <2> QED
    BY <1>2, <2>3 DEF StaysInOrder, r
<1>8. CASE u \notin ToSet(q) /\ u = x
  <2>1. PICK i \in 1..Len(q) : q[i] = t
    BY <1>3 DEF InOrder, ToSet
  <2>2. i < n
    BY <1>1, <1>8, <2>1
  <2>3. to(i) = i /\ i < n /\ n \in DOMAIN r /\ i \in DOMAIN r /\ r[i] = t /\ r[n] = u
    BY <1>1, <1>3, <1>4, <1>8, <2>1, <2>2
  <2> HIDE DEF to
  <2>4. InOrder(r, t, u)
    BY <1>2, <1>8, <2>3 DEF InOrder
  <2> QED
    BY <1>2, <2>4 DEF StaysInOrder, r
<1>9. CASE u \notin ToSet(q) /\ u # x
  <2>1. InOrder(r, t, u)
    BY <1>2, <1>9 DEF InOrder
  <2> QED
    BY <1>2, <2>1 DEF StaysInOrder, r
<1> QED
  BY <1>7, <1>8, <1>9

\* Taking the head keeps the order of the others.
LEMMA TailOrder ==
  ASSUME NEW S, NEW q \in Seq(S), q # <<>>, IsInjective(q),
         NEW t, NEW u, InOrder(q, t, u)
  PROVE  StaysInOrder(q, Tail(q), t, u)
<1>1. /\ ToSet(Tail(q)) = ToSet(q) \ {Head(q)} /\ Head(q) = q[1]
      /\ Len(q) \in Nat /\ DOMAIN q = 1..Len(q)
      /\ DOMAIN Tail(q) = 1..(Len(q) - 1)
      /\ \A j \in 1..(Len(q) - 1) : Tail(q)[j] = q[j + 1]
  BY TailSet, HeadTailProperties, LenProperties
<1>2. CASE u \in ToSet(q)
  <2>1. PICK i, j \in 1..Len(q) : i < j /\ q[i] = t /\ q[j] = u
    BY <1>1, <1>2 DEF InOrder
  <2>2. q[j] # q[1]
    BY <1>1, <2>1 DEF IsInjective
  <2>3. u \in ToSet(Tail(q))
    BY <1>1, <1>2, <2>1, <2>2
  <2>4. ASSUME t \in ToSet(Tail(q)) PROVE InOrder(Tail(q), t, u)
    <3>1. i # 1
      BY <1>1, <2>1, <2>4
    <3>2. /\ i - 1 \in 1..(Len(q) - 1) /\ j - 1 \in 1..(Len(q) - 1) /\ i - 1 < j - 1
          /\ Tail(q)[i - 1] = t /\ Tail(q)[j - 1] = u
      BY <1>1, <2>1, <3>1
    <3> QED
      BY <1>1, <2>4, <3>2 DEF InOrder
  <2> QED
    BY <2>3, <2>4 DEF StaysInOrder
<1>3. CASE u \notin ToSet(q)
  BY <1>1, <1>3 DEF InOrder, StaysInOrder
<1> QED
  BY <1>2, <1>3

\* Taking out another task keeps the order.
LEMMA RemoveOrder ==
  ASSUME NEW S, NEW q \in Seq(S), NEW x \in ToSet(q), IsInjective(q),
         NEW t, NEW u, x # t, x # u, InOrder(q, t, u)
  PROVE  LET r == RemoveNode(q, x) IN
         /\ r \in Seq(S) /\ IsInjective(r) /\ ToSet(r) = ToSet(q) \ {x}
         /\ InOrder(r, t, u)
<1> DEFINE n == CHOOSE i \in DOMAIN q : q[i] = x
           r == RemoveAt(q, n)
<1>1. Len(q) \in Nat /\ DOMAIN q = 1..Len(q)
  BY LenProperties
<1>2. n \in 1..Len(q) /\ q[n] = x /\ RemoveNode(q, x) = r
  BY <1>1 DEF ToSet, RemoveNode
<1> HIDE DEF n
<1>3. /\ r \in Seq(S) /\ Len(r) = Len(q) - 1
      /\ \A j \in 1..(Len(q) - 1) : r[j] = IF j < n THEN q[j] ELSE q[j + 1]
  BY <1>2, RemoveAtLemma
<1>4. ToSet(r) = ToSet(q) \ {x} /\ IsInjective(r)
  BY <1>2, RemoveAtSet
<1>5. DOMAIN r = 1..(Len(q) - 1)
  BY <1>3, LenProperties
<1> HIDE DEF r
<1> DEFINE to(j) == IF j < n THEN j ELSE j - 1
<1>6. \A j \in 1..Len(q) : j # n => to(j) \in DOMAIN r /\ r[to(j)] = q[j]
  BY <1>1, <1>2, <1>3, <1>5
<1>7. \A i, j \in 1..Len(q) : i # n /\ j # n /\ i < j => to(i) < to(j)
  BY <1>1, <1>2
<1>8. CASE u \in ToSet(q)
  <2>1. PICK i, j \in 1..Len(q) : i < j /\ q[i] = t /\ q[j] = u
    BY <1>1, <1>8 DEF InOrder
  <2>2. i # n /\ j # n
    BY <1>2, <2>1
  <2>3. /\ to(i) \in DOMAIN r /\ to(j) \in DOMAIN r /\ to(i) < to(j)
        /\ r[to(i)] = t /\ r[to(j)] = u
    BY <1>6, <1>7, <2>1, <2>2
  <2> HIDE DEF to
  <2>4. InOrder(r, t, u)
    BY <1>4, <2>3 DEF InOrder
  <2> QED
    BY <1>2, <1>3, <1>4, <2>4
<1>9. CASE u \notin ToSet(q)
  <2>1. InOrder(r, t, u)
    BY <1>4, <1>9 DEF InOrder
  <2> QED
    BY <1>2, <1>3, <1>4, <2>1
<1> QED
  BY <1>8, <1>9

\* A queue that does not change.
LEMMA SameOrder ==
  ASSUME NEW q, NEW t, NEW u, InOrder(q, t, u)
  PROVE  StaysInOrder(q, q, t, u)
BY DEF StaysInOrder

\* What the parts of a switch do to the ready queue.
LEMMA SwitchQueue ==
  ASSUME NEW k, DOMAIN k = DOMAIN kb, kb \in KernelState, NEW t
  PROVE  /\ MakeReady(k, t).TaskReadyQ = TailInsertNode(k.TaskReadyQ, k.Priority, t)
         /\ DequeueHead(k).TaskReadyQ = Tail(k.TaskReadyQ)
         /\ CLand(k).TaskReadyQ = k.TaskReadyQ
         /\ Launch(k, t).TaskReadyQ = k.TaskReadyQ
         /\ DOMAIN MakeReady(k, t) = DOMAIN kb /\ MakeReady(k, t).Priority = k.Priority
         /\ DOMAIN DequeueHead(k) = DOMAIN kb /\ DequeueHead(k).Priority = k.Priority
         /\ DOMAIN CLand(k) = DOMAIN kb /\ CLand(k).Priority = k.Priority
<1>1. DOMAIN k = DOMAIN kb /\ {"TaskReadyQ", "Priority"} \subseteq DOMAIN kb
  BY DEF KernelState
<1>2. Launch(k, t).TaskReadyQ = k.TaskReadyQ
  BY <1>1 DEF Launch, CLaunch, Resume, KernelState
<1> QED
  BY <1>1, <1>2 DEF MakeReady, DequeueHead, CLand

\* internalSignal queues the task it wakes.
LEMMA SignalQueue ==
  ASSUME NEW x \in Task, NEW bits \in SUBSET Sig, IInv
  PROVE  LET r == internalSignal(kb, x, bits) IN
         \/ r.TaskReadyQ = kb.TaskReadyQ
         \/ /\ x \notin ToSet(kb.TaskReadyQ)
            /\ r.TaskReadyQ = TailInsertNode(kb.TaskReadyQ, kb.Priority, x)
<1> DEFINE sigs == kb.SigBits[x] \cup bits
           s == [kb EXCEPT !.SigBits[x] = sigs]
           w == [s EXCEPT !.TaskWaitQ = @ \ {x}]
           a == MakeReady(w, x)
           r == internalSignal(kb, x, bits)
<1>1. kb \in KernelState /\ (kb.Flags[x] = "waiting" => x \notin ToSet(kb.TaskReadyQ))
  BY DEF IInv, KInv, Linked
<1>2. DOMAIN s = DOMAIN kb /\ s.TaskReadyQ = kb.TaskReadyQ /\ s.Priority = kb.Priority
  BY <1>1 DEF KernelState
<1> HIDE DEF s
<1>3. DOMAIN w = DOMAIN kb /\ w.TaskReadyQ = kb.TaskReadyQ /\ w.Priority = kb.Priority
  BY <1>1, <1>2 DEF KernelState
<1> HIDE DEF w
<1>4. /\ a.TaskReadyQ = TailInsertNode(kb.TaskReadyQ, kb.Priority, x)
      /\ DOMAIN a = DOMAIN kb /\ "TaskReadyQ" \in DOMAIN kb
  <2>1. "TaskReadyQ" \in DOMAIN kb
    BY <1>1 DEF KernelState
  <2> QED
    BY <1>1, <1>3, <2>1 DEF MakeReady
<1> HIDE DEF a
<1>5. \/ r.TaskReadyQ = kb.TaskReadyQ
      \/ kb.Flags[x] = "waiting" /\ r.TaskReadyQ = a.TaskReadyQ
  BY <1>2, <1>4 DEF internalSignal, a, w, s
<1> QED
  BY <1>1, <1>4, <1>5

\* internalChangeTaskPri moves the task it gives a priority.
LEMMA ChangePriQueue ==
  ASSUME NEW x \in Task, NEW p \in Nat, IInv
  PROVE  LET r == internalChangeTaskPri(kb, x, p)
             pri == [kb.Priority EXCEPT ![x] = p]
         IN  \/ r.TaskReadyQ = kb.TaskReadyQ
             \/ /\ x \in ToSet(kb.TaskReadyQ)
                /\ r.TaskReadyQ = TailInsertNode(RemoveNode(kb.TaskReadyQ, x), pri, x)
<1> DEFINE s == [kb EXCEPT !.Priority[x] = p]
           q == [s EXCEPT !.TaskReadyQ = RemoveNode(@, x)]
           m == MakeReady(q, x)
           r == internalChangeTaskPri(kb, x, p)
<1>1. /\ kb \in KernelState /\ kb.Flags[x] \in Flag
      /\ kb.Flags[x] = "ready" <=> x \in ToSet(kb.TaskReadyQ)
      /\ kb.Flags[x] = "running" => x = kb.CurrentTask
  BY DEF IInv, KInv, Linked, Running, KernelState
<1>2. /\ DOMAIN s = DOMAIN kb /\ s.TaskReadyQ = kb.TaskReadyQ
      /\ s.Priority = [kb.Priority EXCEPT ![x] = p]
  BY <1>1 DEF KernelState
<1> HIDE DEF s
<1>3. /\ DOMAIN q = DOMAIN kb /\ q.TaskReadyQ = RemoveNode(kb.TaskReadyQ, x)
      /\ q.Priority = s.Priority
  BY <1>1, <1>2 DEF KernelState
<1> HIDE DEF q
<1>4. /\ m.TaskReadyQ = TailInsertNode(q.TaskReadyQ, q.Priority, x)
      /\ DOMAIN m = DOMAIN kb /\ "TaskReadyQ" \in DOMAIN kb
  <2>1. "TaskReadyQ" \in DOMAIN kb
    BY <1>1 DEF KernelState
  <2> QED
    BY <1>1, <1>3, <2>1 DEF MakeReady
<1> HIDE DEF m
<1>5. \/ r.TaskReadyQ = kb.TaskReadyQ
      \/ kb.Flags[x] \notin {"waiting", "running"} /\ r.TaskReadyQ = m.TaskReadyQ
  BY <1>1, <1>2, <1>4 DEF internalChangeTaskPri, m, q, s
<1> QED
  BY <1>1, <1>2, <1>3, <1>4, <1>5 DEF Flag

\* t is ahead of u on the ready queue, and of its priority.
Ordered(t, u) ==
  t # u /\ kb.Priority[t] = kb.Priority[u] /\ InOrder(kb.TaskReadyQ, t, u)

\* A SWI that gives neither of them a priority keeps the order.
LEMMA SwiOrder ==
  ASSUME IInv, TaskSwi, NEW t \in Task, NEW u \in Task, Ordered(t, u),
         ~(\E p \in NewPri : SetItemPri(t, p) \/ SetItemPri(u, p))
  PROVE  StaysInOrder(kb.TaskReadyQ, kb'.TaskReadyQ, t, u)
<1> DEFINE q == kb.TaskReadyQ
<1>k. /\ kb \in KernelState /\ Me \in Task
      /\ q \in Seq(Task) /\ IsInjective(q) /\ kb.Priority \in [Task -> Nat]
  BY Fields DEF IInv, KInv, Me, Linked
<1>o. t # u /\ kb.Priority[t] = kb.Priority[u] /\ InOrder(q, t, u)
  BY DEF Ordered
<1>q. StaysInOrder(q, q, t, u)
  BY <1>o, SameOrder
<1>1. ASSUME NEW x \in Task, NEW sigs \in SigSet, SendSignal(x, sigs)
      PROVE  StaysInOrder(q, kb'.TaskReadyQ, t, u)
  <2>1. \/ kb'.TaskReadyQ = q
        \/ x \notin ToSet(q) /\ kb'.TaskReadyQ = TailInsertNode(q, kb.Priority, x)
    BY <1>1, SignalQueue DEF SendSignal, Return, SigSet
  <2> HIDE DEF q
  <2> QED
    BY <1>k, <1>o, <1>q, <2>1, InsertOrder
<1>2. ASSUME NEW x \in Task, NEW p \in NewPri, SetItemPri(x, p)
      PROVE  StaysInOrder(q, kb'.TaskReadyQ, t, u)
  <2> DEFINE pri == [kb.Priority EXCEPT ![x] = p]
             s == RemoveNode(q, x)
  <2>1. x # t /\ x # u /\ p \in Nat
    BY <1>2, PriAssumption
  <2>2. \/ kb'.TaskReadyQ = q
        \/ x \in ToSet(q) /\ kb'.TaskReadyQ = TailInsertNode(s, pri, x)
    BY <1>2, <2>1, ChangePriQueue DEF SetItemPri, Return
  <2>3. CASE x \in ToSet(q) /\ kb'.TaskReadyQ = TailInsertNode(s, pri, x)
    <3> HIDE DEF q
    <3>1. s \in Seq(Task) /\ IsInjective(s) /\ ToSet(s) = ToSet(q) \ {x} /\ InOrder(s, t, u)
      BY <1>k, <1>o, <2>1, <2>3, RemoveOrder
    <3>2. pri \in [Task -> Nat] /\ pri[t] = pri[u]
      BY <1>k, <1>o, <2>1
    <3> HIDE DEF s, pri
    <3>3. StaysInOrder(s, TailInsertNode(s, pri, x), t, u)
      BY <1>o, <3>1, <3>2, InsertOrder
    <3> QED
      BY <2>1, <2>3, <3>1, <3>3 DEF StaysInOrder
  <2> QED
    BY <1>q, <2>2, <2>3
<1>3. ASSUME NEW sigs \in SigSet, Wait(sigs)
      PROVE  kb'.TaskReadyQ = q
  BY <1>k, <1>3 DEF Wait, internalWait, ClearSignals, FallAsleep, CLand, KernelState
<1>4. ASSUME NEW alloc, NEW bits,
             Return(ClearSignals([kb EXCEPT !.AllocatedSigs[Me] = alloc], Me, bits))
      PROVE  kb'.TaskReadyQ = q
  BY <1>k, <1>4 DEF Return, ClearSignals, KernelState
<1>5. ASSUME Return(kb) \/ Return([kb EXCEPT !.PleaseReschedule = TRUE])
      PROVE  kb'.TaskReadyQ = q
  BY <1>k, <1>5 DEF Return, KernelState
<1>6. Yield => kb'.TaskReadyQ = q
  BY <1>5 DEF Yield
<1>7. AllocAnySignal => kb'.TaskReadyQ = q
  BY <1>4 DEF AllocAnySignal
<1>8. ASSUME NEW sigs \in SigSet, AllocSignal(sigs) \/ FreeSignal(sigs)
      PROVE  kb'.TaskReadyQ = q
  BY <1>4, <1>5, <1>8 DEF AllocSignal, FreeSignal
<1> QED
  BY <1>q, <1>1, <1>2, <1>3, <1>6, <1>7, <1>8 DEF TaskSwi

\* The task that lands goes behind its equals, and the head is launched.
LEMMA SwitchOrder ==
  ASSUME IInv, StartNext \/ SwiRet \/ FirqReturn,
         NEW t \in Task, NEW u \in Task, Ordered(t, u)
  PROVE  StaysInOrder(kb.TaskReadyQ, kb'.TaskReadyQ, t, u)
<1> DEFINE q == kb.TaskReadyQ
           me == kb.CurrentTask
<1>k. /\ kb \in KernelState /\ me \in Task
      /\ q \in Seq(Task) /\ IsInjective(q) /\ kb.Priority \in [Task -> Nat]
  BY Fields DEF IInv, KInv, Linked
<1>m. mode # "blip" => me \notin ToSet(q)
  BY <1>k DEF IInv, KInv, Linked, Running
<1>o. t # u /\ kb.Priority[t] = kb.Priority[u] /\ InOrder(q, t, u)
  BY DEF Ordered
<1>1. CASE StartNext
  <2>1. kb'.TaskReadyQ = Tail(q) /\ q # <<>>
    BY <1>k, <1>1, SwitchQueue DEF StartNext
  <2> HIDE DEF q
  <2>2. StaysInOrder(q, Tail(q), t, u)
    BY <1>k, <1>o, <2>1, TailOrder
  <2> QED
    BY <2>1, <2>2 DEF q
<1>2. CASE SwiRet /\ ShouldSwap(kb)
  <2> DEFINE done == [kb EXCEPT !.ret = {}]
             c == CLand(done)
             landed == MakeReady(c, me)
             d == DequeueHead(landed)
             in == TailInsertNode(q, kb.Priority, me)
  <2>1. /\ DOMAIN done = DOMAIN kb /\ done.CurrentTask = me
        /\ done.TaskReadyQ = q /\ done.Priority = kb.Priority
    BY <1>k DEF KernelState
  <2> HIDE DEF done
  <2>2. DOMAIN c = DOMAIN kb /\ c.TaskReadyQ = q /\ c.Priority = kb.Priority
    BY <1>k, <2>1, SwitchQueue
  <2> HIDE DEF c
  <2>3. DOMAIN landed = DOMAIN kb /\ landed.TaskReadyQ = in
    BY <1>k, <2>2, SwitchQueue
  <2> HIDE DEF landed
  <2>4. DOMAIN d = DOMAIN kb /\ d.TaskReadyQ = Tail(in)
    BY <1>k, <2>3, SwitchQueue
  <2>5. kb' = Launch(d, Head(landed.TaskReadyQ)) /\ mode = "swi"
    BY <1>2, <2>1 DEF SwiRet, SwiSwap, landed, c, done
  <2> HIDE DEF d
  <2>6. kb'.TaskReadyQ = Tail(in)
    BY <1>k, <2>4, <2>5, SwitchQueue
  <2> HIDE DEF q, me
  <2>7. InOrder(in, t, u) /\ StaysInOrder(q, in, t, u)
    BY <1>k, <1>m, <1>o, <2>5, InsertOrder
  <2>8. in \in Seq(Task) /\ in # <<>> /\ IsInjective(in)
    BY <1>k, <1>m, <2>5, TailInsertQueue DEF IInv, KInv, q
  <2> HIDE DEF in
  <2>9. StaysInOrder(in, Tail(in), t, u)
    BY <2>7, <2>8, TailOrder
  <2> QED
    BY <2>6, <2>7, <2>9 DEF StaysInOrder, q
<1>3. CASE FirqReturn /\ ShouldSwap(kb)
  <2> DEFINE c == CLand(kb)
             d == DequeueHead(c)
             swap == MakeReady(d, me)
             in == TailInsertNode(Tail(q), kb.Priority, me)
  <2>1. DOMAIN c = DOMAIN kb /\ c.TaskReadyQ = q /\ c.Priority = kb.Priority
    BY <1>k, SwitchQueue
  <2> HIDE DEF c
  <2>2. DOMAIN d = DOMAIN kb /\ d.TaskReadyQ = Tail(q) /\ d.Priority = kb.Priority
    BY <1>k, <2>1, SwitchQueue
  <2> HIDE DEF d
  <2>3. /\ DOMAIN swap = DOMAIN kb
        /\ swap.TaskReadyQ = in
    BY <1>k, <2>2, SwitchQueue
  <2>4. kb' = Launch(swap, Head(q)) /\ mode = "firq" /\ q # <<>>
    BY <1>3 DEF FirqReturn, ShouldSwap, swap, d, c
  <2> HIDE DEF swap
  <2>5. kb'.TaskReadyQ = in
    BY <1>k, <2>3, <2>4, SwitchQueue
  <2> HIDE DEF q, me
  <2>6. /\ Tail(q) \in Seq(Task) /\ IsInjective(Tail(q))
        /\ ToSet(Tail(q)) = ToSet(q) \ {Head(q)}
    BY <1>k, <2>4, TailSet
  <2>7. StaysInOrder(q, Tail(q), t, u)
    BY <1>k, <1>o, <2>4, TailOrder
  <2>8. me \notin ToSet(q) /\ me \notin ToSet(Tail(q))
    BY <1>m, <2>4, <2>6
  <2>9. ToSet(in) = ToSet(Tail(q)) \cup {me}
    <3> DEFINE rest == Tail(q)
    <3>1. rest \in Seq(Task) /\ IsInjective(rest) /\ me \notin ToSet(rest)
      BY <2>6, <2>8
    <3> DEFINE pri == kb.Priority
    <3>2. pri \in [Task -> Nat] /\ me \in Task
      BY <1>k
    <3> HIDE DEF rest, pri
    <3>3. \A s \in Seq(Task), p \in [Task -> Nat], x \in Task :
             IsInjective(s) /\ x \notin ToSet(s) =>
             ToSet(TailInsertNode(s, p, x)) = ToSet(s) \cup {x}
      BY InsertMembers
    <3>4. ToSet(TailInsertNode(rest, pri, me)) = ToSet(rest) \cup {me}
      BY <3>1, <3>2, <3>3, Zenon
    <3> QED
      BY <3>4 DEF rest, pri
  <2>10. CASE t \in ToSet(Tail(q))
    <3>1. InOrder(Tail(q), t, u)
      BY <2>7, <2>10 DEF StaysInOrder
    <3>2. InOrder(in, t, u)
      BY <1>k, <1>o, <2>6, <2>8, <3>1, InsertOrder
    <3> HIDE DEF in
    <3> QED
      BY <2>5, <2>7, <2>9, <2>10, <3>2 DEF StaysInOrder, q
  <2>11. CASE t \notin ToSet(Tail(q))
    <3>1. t # me
      BY <1>o, <2>8 DEF InOrder
    <3> HIDE DEF in
    <3> QED
      BY <2>5, <2>7, <2>9, <2>11, <3>1 DEF StaysInOrder, q
  <2> QED
    BY <2>10, <2>11
<1>4. CASE (SwiRet \/ FirqReturn) /\ ~ShouldSwap(kb)
  <2>1. kb'.TaskReadyQ = q
    BY <1>k, <1>4 DEF SwiRet, FirqReturn, KernelState
  <2> QED
    BY <1>o, <2>1, SameOrder
<1> QED
  BY <1>1, <1>2, <1>3, <1>4

\* FirstComeFirstServed: of two ready tasks of one priority the one that became ready
\* first is launched first, and internalSignal (signal.c), the swap on the way out of a SWI
\* or a FIRQ, and changes of other tasks' priorities leave their order alone.
THEOREM FirstComeHolds == Spec => FirstComeFirstServed
<1> DEFINE Serves(t, u) ==
             /\ t # u /\ Ahead(kb, t, u) /\ kb.Priority[t] = kb.Priority[u]
             /\ ~(\E p \in NewPri : SetItemPri(t, p) \/ SetItemPri(u, p))
             => /\ kb'.Flags[t] = "ready" => Ahead(kb', t, u)
                /\ kb.Flags[u] = "ready" => kb'.Flags[u] = "ready"
<1>1. ASSUME IInv, Next, NEW t \in Task, NEW u \in Task PROVE Serves(t, u)
  <2> SUFFICES ASSUME t # u, Ahead(kb, t, u), kb.Priority[t] = kb.Priority[u],
                      ~(\E p \in NewPri : SetItemPri(t, p) \/ SetItemPri(u, p))
               PROVE  /\ kb'.Flags[t] = "ready" => Ahead(kb', t, u)
                      /\ kb.Flags[u] = "ready" => kb'.Flags[u] = "ready"
    OBVIOUS
  <2>1. \A x \in Task : kb.Flags[x] = "ready" <=> x \in ToSet(kb.TaskReadyQ)
    BY <1>1 DEF IInv, KInv, Linked
  <2>2. \A x \in Task : kb'.Flags[x] = "ready" <=> x \in ToSet(kb'.TaskReadyQ)
    <3>1. IInv'
      BY <1>1, NextInv
    <3> QED
      BY <3>1 DEF IInv, KInv, Linked
  <2>3. Ordered(t, u)
    BY <2>1 DEF Ordered, InOrder, Ahead, Before
  <2>4. StaysInOrder(kb.TaskReadyQ, kb'.TaskReadyQ, t, u)
    <3>1. CASE TaskSwi
      BY <1>1, <2>3, <3>1, SwiOrder
    <3>2. CASE StartNext \/ SwiRet \/ FirqReturn
      BY <1>1, <2>3, <3>2, SwitchOrder
    <3>3. CASE Firq
      <4>k. /\ kb \in KernelState /\ kb.TaskReadyQ \in Seq(Task)
            /\ IsInjective(kb.TaskReadyQ) /\ kb.Priority \in [Task -> Nat]
        BY <1>1, Fields DEF IInv, KInv, Linked
      <4>o. InOrder(kb.TaskReadyQ, t, u)
        BY <2>3 DEF Ordered
      <4>1. CASE FirqQuantum
        <5>1. kb'.TaskReadyQ = kb.TaskReadyQ
          BY <4>k, <4>1 DEF FirqQuantum, cblank, KernelState
        <5> QED
          BY <4>o, <5>1, SameOrder
      <4>2. ASSUME NEW x \in Task, NEW sigs \in SigSet, FirqSignal(x, sigs)
            PROVE  StaysInOrder(kb.TaskReadyQ, kb'.TaskReadyQ, t, u)
        <5>1. \/ kb'.TaskReadyQ = kb.TaskReadyQ
              \/ /\ x \notin ToSet(kb.TaskReadyQ)
                 /\ kb'.TaskReadyQ = TailInsertNode(kb.TaskReadyQ, kb.Priority, x)
          BY <1>1, <4>2, SignalQueue DEF FirqSignal, SigSet
        <5> QED
          BY <4>k, <4>o, <5>1, InsertOrder, SameOrder
      <4> QED
        BY <3>3, <4>1, <4>2 DEF Firq
    <3> QED
      BY <1>1, <3>1, <3>2, <3>3 DEF Next
  <2> QED
    BY <2>1, <2>2, <2>4 DEF StaysInOrder, InOrder, Ahead, Before
<1>2. IInv /\ [Next]_vars =>
        [\A t, u \in Task :
           /\ t # u /\ Ahead(kb, t, u)
           /\ kb.Priority[t] = kb.Priority[u]
           /\ ~(\E p \in NewPri : SetItemPri(t, p) \/ SetItemPri(u, p))
           => /\ kb'.Flags[t] = "ready" => Ahead(kb', t, u)
              /\ kb.Flags[u] = "ready" => kb'.Flags[u] = "ready"]_vars
  BY <1>1
<1> QED
  BY <1>2, Invariance, PTL DEF Spec, FirstComeFirstServed
=============================================================================

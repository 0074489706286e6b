----------------------------- MODULE PortsProof -----------------------------
(***************************************************************************)
(* Proofs about the message ports, for every set of tasks, ports and       *)
(* messages.                                                               *)
(***************************************************************************)
EXTENDS Ports, ExecProof

-----------------------------------------------------------------------------
(* The inductive invariant *)

MailType ==
  /\ port \in [fresh : SUBSET Port, made : SUBSET Port,
               Signal : [Port -> SUBSET UserSigs], Msgs : [Port -> Seq(Msg)]]
  /\ msg \in [fresh : SUBSET Msg, made : SUBSET Msg,
              Flags : [Msg -> SUBSET {"SENT", "REPLIED"}],
              MsgPort : [Msg -> Port \cup Task \cup {NoItem}],
              Waiters : [Msg -> Nat]]
  /\ wait \in [Task -> [on : Port \cup {NoItem}, msg : Msg \cup {NoItem}]]

\* msg_MsgPort alone says where a message is.
Placed ==
  \A p \in Port :
    /\ \A m \in Msg : m \in ToSet(port.Msgs[p])
                        <=> p \in port.made /\ m \in msg.made /\ msg.MsgPort[m] = p
    /\ IsInjective(port.Msgs[p]) /\ Sorted(port.Msgs[p], MsgPri)

\* What the flags say about msg_MsgPort.
Marked ==
  \A m \in msg.made :
    /\ "SENT" \in msg.Flags[m] <=> msg.MsgPort[m] \in port.made
    /\ "REPLIED" \in msg.Flags[m] => "SENT" \in msg.Flags[m] /\ msg.MsgPort[m] = ReplyPort[m]

\* What is not made yet, and what is no more.
Unmade ==
  /\ port.fresh \cap port.made = {} /\ msg.fresh \cap msg.made = {}
  /\ \A m \in Msg : msg.MsgPort[m] \notin port.fresh
  /\ \A m \in Msg \ msg.made : msg.MsgPort[m] = NoItem
  /\ \A m \in msg.fresh : msg.Flags[m] = {} /\ msg.Waiters[m] = 0
  /\ \A t \in Task : wait[t].msg \notin msg.fresh

\* Every port has a signal of its own, which its owner has allocated.
OwnSignals ==
  /\ \A p \in port.made : /\ port.Signal[p] # {}
                          /\ port.Signal[p] \subseteq kb.AllocatedSigs[PortOwner[p]]
  /\ \A p, q \in port.made :
       p # q /\ PortOwner[p] = PortOwner[q] => port.Signal[p] \cap port.Signal[q] = {}

Inside(t) == wait[t].on # NoItem

\* The task has left the processor inside WaitPort.
Away(t) == t # Me \/ mode = "blip"

\* A task inside WaitPort waits on a port of its own.  internalWait has just
\* returned to it, or it will go on there when it is launched.
WaitersKnown ==
  \A t \in Task :
    IF ~Inside(t) THEN wait[t] = NoWait
    ELSE /\ t # Idle /\ wait[t].on \in port.made /\ PortOwner[wait[t].on] = t
         /\ ~Away(t) => mode = "swi" /\ ABORT \notin kb.SigBits[t]
         /\ Away(t) => /\ kb.psr[t] = "super"
                       /\ kb.WaitBits[t] = Awaited(port.Signal[wait[t].on])

\* What a task asleep in WaitPort waits for is not there.
Awaits(t) ==
  IF wait[t].msg = NoItem THEN port.Msgs[wait[t].on] = <<>>
  ELSE msg.MsgPort[wait[t].msg] # wait[t].on

Asleeps == \A t \in kb.TaskWaitQ : Inside(t) => Awaits(t)

\* t waits for a message that is no more.
Orphan(t) == wait[t].msg \in Msg \ msg.made

\* SIGF_ABORT is pending, or internalWait has just returned it.
Aborted(t) == ABORT \in kb.SigBits[t] \/ (~Away(t) /\ Inside(t) /\ ABORT \in kb.ret)

\* Exactly the tasks whose message was deleted are told.
ToldOfDelete == \A t \in Task : Orphan(t) <=> Aborted(t)

\* The tasks of S that f says wait for n.
For(f, S, n) == {u \in S : f[u].msg = n}

\* msg_Waiters counts the tasks that wait for the message.
Counted == \A m \in msg.made : msg.Waiters[m] = Cardinality(For(wait, Task, m))

MailInv ==
  /\ IInv /\ MailType
  /\ Placed /\ Marked /\ Unmade
  /\ OwnSignals
  /\ WaitersKnown /\ Asleeps /\ ToldOfDelete /\ Counted
-----------------------------------------------------------------------------
(* The operators *)

\* Taking a message from a queue, if it is there.
LEMMA WithoutQueue ==
  ASSUME NEW q \in Seq(Msg), NEW m \in Msg, IsInjective(q), Sorted(q, MsgPri)
  PROVE  LET r == Without(q, m) IN
         /\ r \in Seq(Msg) /\ ToSet(r) = ToSet(q) \ {m}
         /\ IsInjective(r) /\ Sorted(r, MsgPri)
<1>1. MsgPri \in [Msg -> Nat]
  BY PortAssumption
<1>2. CASE m \in ToSet(q)
  BY <1>1, <1>2, RemoveNodeQueue DEF Without
<1>3. CASE m \notin ToSet(q)
  BY <1>3 DEF Without
<1> QED
  BY <1>2, <1>3

\* A set of free signals has a lowest one.
LEMMA LowestSignal ==
  ASSUME NEW free \in SUBSET UserSigs, free # {}
  PROVE  {b \in free : \A c \in free : b <= c} # {}
<1>1. free \in SUBSET Nat
  BY SigAssumption
<1>2. PICK b \in free : \A c \in free : b <= c
  BY <1>1, LeastNumber
<1> QED
  BY <1>2

\* r is k after SIGF_ABORT has been sent to the tasks of T.
Told(k, r, T) ==
  /\ SameFrames(k, r) /\ SameRunner(k, r) /\ (Asked(k) => Asked(r))
  /\ r.AllocatedSigs = k.AllocatedSigs /\ r.TaskWaitQ \subseteq k.TaskWaitQ
  /\ \A t \in Task : r.SigBits[t] = IF t \in T THEN k.SigBits[t] \cup {ABORT}
                                     ELSE k.SigBits[t]

\* The states the walk of internalDeleteMsg goes through.
After(g, k, order, i) == IF i = 0 THEN k ELSE internalSignal(g[i - 1], order[i], {ABORT})

Walk(g, k, order, n) == g = [i \in 0..n |-> After(g, k, order, i)]

LEMMA WalkExists ==
  ASSUME NEW k, NEW order \in Seq(Task)
  PROVE  \E g : Walk(g, k, order, Len(order)) /\ AbortAll(k, order) = g[Len(order)]
<1> DEFINE N == {n \in Nat : \E g : Walk(g, k, order, n)}
           F == CHOOSE g : Walk(g, k, order, Len(order))
<1>1. 0 \in N
  <2>1. Walk([i \in 0..0 |-> k], k, order, 0)
    BY DEF Walk, After
  <2> QED
    BY <2>1
<1>2. ASSUME NEW n \in N PROVE n + 1 \in N
  <2>1. PICK g : Walk(g, k, order, n)
    OBVIOUS
  <2> DEFINE h == [i \in 0..(n + 1) |-> After(g, k, order, i)]
  <2>2. \A i \in 0..n : h[i] = g[i]
    BY <2>1 DEF Walk
  <2>3. \A i \in 0..(n + 1) : i # 0 => i - 1 \in 0..n
    OBVIOUS
  <2>4. \A i \in 0..(n + 1) : After(h, k, order, i) = After(g, k, order, i)
    <3> HIDE DEF h, N, F
    <3>1. \A i \in 0..(n + 1) : i # 0 => h[i - 1] = g[i - 1]
      BY <2>2, <2>3
    <3> QED
      BY <3>1 DEF After
  <2>5. Walk(h, k, order, n + 1)
    BY <2>4 DEF Walk
  <2> HIDE DEF h
  <2> QED
    BY <2>5
<1>3. Len(order) \in N
  <2> HIDE DEF N
  <2>1. N \in SUBSET Nat
    BY DEF N
  <2> QED
    BY <1>1, <1>2, <2>1, SetInduction, LenProperties
<1>4. Walk(F, k, order, Len(order))
  BY <1>3
<1>5. AbortAll(k, order) = F[Len(order)]
  BY Zenon DEF AbortAll, Walk, After
<1> QED
  BY <1>4, <1>5

\* The walk sends SIGF_ABORT to exactly the tasks of the list.
LEMMA AbortAllLemma ==
  ASSUME NEW k, KInv(k), NEW order \in Seq(Task)
  PROVE  KInv(AbortAll(k, order)) /\ Told(k, AbortAll(k, order), ToSet(order))
<1>1. PICK g : Walk(g, k, order, Len(order)) /\ AbortAll(k, order) = g[Len(order)]
  BY WalkExists
<1>2. /\ Len(order) \in Nat /\ \A i \in 1..Len(order) : order[i] \in Task
      /\ ToSet(order) = {order[i] : i \in 1..Len(order)}
  BY LenProperties, ElementOfSeq DEF ToSet
<1>3. /\ g[0] = k
      /\ \A i \in 1..Len(order) : g[i] = internalSignal(g[i - 1], order[i], {ABORT})
  <2>1. 0 \in 0..Len(order) /\ \A i \in 1..Len(order) : i \in 0..Len(order) /\ i # 0
    BY <1>2
  <2>2. \A i \in 0..Len(order) : g[i] = After(g, k, order, i)
    BY <1>1 DEF Walk
  <2> QED
    BY <2>1, <2>2 DEF After
<1> DEFINE first(n) == {order[i] : i \in 1..n}
           Good(n) == KInv(g[n]) /\ Told(k, g[n], first(n))
           N == {n \in Nat : n <= Len(order) => Good(n)}
<1>4. 0 \in N
  BY <1>3 DEF Told, SameFrames, SameRunner
<1>5. ASSUME NEW n \in N PROVE n + 1 \in N
  <2>1. SUFFICES ASSUME n + 1 <= Len(order) PROVE Good(n + 1)
    OBVIOUS
  <2> DEFINE t == order[n + 1]
             j == g[n]
             r == internalSignal(j, t, {ABORT})
  <2>2. /\ n + 1 \in 1..Len(order) /\ (n + 1) - 1 = n
        /\ KInv(j) /\ Told(k, j, first(n)) /\ t \in Task
    BY <1>2, <2>1
  <2>3. g[n + 1] = r
    BY <1>3, <2>2
  <2>4. first(n + 1) = first(n) \cup {t}
    <3>1. \A i \in 1..(n + 1) : i \in 1..n \/ i = n + 1
      OBVIOUS
    <3>2. \A i \in 1..n : i \in 1..(n + 1)
      OBVIOUS
    <3> QED
      BY <2>2, <3>1, <3>2
  <2> HIDE DEF first, t, j, Good, N
  <2>5. {ABORT} \in SUBSET Sig /\ {ABORT} \subseteq j.AllocatedSigs[t] /\ j \in KernelState
    BY <2>2, SigAssumption DEF KInv, Allocated, Sig
  <2>6. KInv(r) /\ SameRunner(j, r) /\ (Asked(j) => Asked(r))
    BY <2>2, <2>5, SignalLemma
  <2>7. /\ SameFrames(j, r) /\ r.AllocatedSigs = j.AllocatedSigs
        /\ r.SigBits = [j.SigBits EXCEPT ![t] = @ \cup {ABORT}]
        /\ r.TaskWaitQ \subseteq j.TaskWaitQ
    <3>1. /\ SameFrames(j, r) /\ r.AllocatedSigs = j.AllocatedSigs
          /\ r.SigBits = [j.SigBits EXCEPT ![t] = @ \cup {ABORT}]
          /\ r.TaskWaitQ = j.TaskWaitQ \ {t} \/ r.TaskWaitQ = j.TaskWaitQ
      BY <2>2, <2>5, SignalFrame
    <3> QED
      BY <3>1
  <2> HIDE DEF r
  <2>9. \A u \in Task : r.SigBits[u] = IF u = t THEN j.SigBits[u] \cup {ABORT}
                                                ELSE j.SigBits[u]
    BY <2>5, <2>7, Fields
  <2>8. \A u \in Task : r.SigBits[u] = IF u \in first(n + 1) THEN k.SigBits[u] \cup {ABORT}
                                                             ELSE k.SigBits[u]
    BY <2>2, <2>4, <2>9 DEF Told
  <2> QED
    BY <2>2, <2>3, <2>6, <2>7, <2>8 DEF Good, Told, SameFrames, SameRunner
<1>6. Len(order) \in N
  <2> HIDE DEF N
  <2>1. N \in SUBSET Nat
    BY DEF N
  <2> QED
    BY <1>2, <1>4, <1>5, <2>1, SetInduction
<1> QED
  BY <1>1, <1>2, <1>6

\* What AllocSignal and FreeSignal leave alone.
LEMMA AllocFrame ==
  ASSUME NEW k \in KernelState, NEW t \in Task, NEW alloc, NEW bits
  PROVE  LET r == ClearSignals([k EXCEPT !.AllocatedSigs[t] = alloc], t, bits) IN
         /\ SameFrames(k, r) /\ r.TaskWaitQ = k.TaskWaitQ
         /\ r.AllocatedSigs = [k.AllocatedSigs EXCEPT ![t] = alloc]
         /\ r.SigBits = [k.SigBits EXCEPT ![t] = k.SigBits[t] \ bits]
<1> DEFINE r == ClearSignals([k EXCEPT !.AllocatedSigs[t] = alloc], t, bits)
<1>1. r = [k EXCEPT !.AllocatedSigs = [k.AllocatedSigs EXCEPT ![t] = alloc],
                    !.SigBits = [k.SigBits EXCEPT ![t] = k.SigBits[t] \ bits]]
  BY DEF ClearSignals, KernelState
<1> HIDE DEF r
<1>2. /\ SameFrames(k, r) /\ r.TaskWaitQ = k.TaskWaitQ
      /\ r.AllocatedSigs = [k.AllocatedSigs EXCEPT ![t] = alloc]
      /\ r.SigBits = [k.SigBits EXCEPT ![t] = k.SigBits[t] \ bits]
  BY <1>1 DEF KernelState, SameFrames
<1> QED
  BY <1>2 DEF r

-----------------------------------------------------------------------------
(* The invariant holds to begin with *)

LEMMA InitMail == MailInit => MailInv
<1> SUFFICES ASSUME MailInit PROVE MailInv
  OBVIOUS
<1>1. IInv
  BY InitInv DEF MailInit
<1>2. /\ port.fresh = Port /\ port.made = {} /\ msg.fresh = Msg /\ msg.made = {}
      /\ \A p \in Port : port.Signal[p] = {} /\ port.Msgs[p] = <<>>
      /\ \A m \in Msg : msg.Flags[m] = {} /\ msg.MsgPort[m] = NoItem /\ msg.Waiters[m] = 0
      /\ \A t \in Task : wait[t] = NoWait
  BY DEF MailInit
<1>3. MailType
  BY DEF MailInit, MailType, NoWait
<1>4. Placed
  <2>1. ToSet(<<>>) = {} /\ IsInjective(<<>>) /\ Sorted(<<>>, MsgPri)
    BY DEF ToSet, IsInjective, Sorted
  <2> QED
    BY <1>2, <2>1 DEF Placed
<1>5. Marked /\ Unmade /\ OwnSignals /\ WaitersKnown /\ Counted
  BY <1>2, PortAssumption DEF Marked, Unmade, OwnSignals, WaitersKnown, Counted, Inside, NoWait
<1>6. Asleeps /\ ToldOfDelete
  <2>1. \A t \in Task : ~Inside(t) /\ ~Orphan(t)
    BY <1>2, PortAssumption DEF Inside, Orphan, NoWait
  <2>2. kb.TaskWaitQ \in SUBSET Task /\ \A t \in Task : kb.SigBits[t] = {}
    BY DEF MailInit, Init, Started
  <2> QED
    BY <2>1, <2>2 DEF Asleeps, ToldOfDelete, Aborted
<1> QED
  BY <1>1, <1>3, <1>4, <1>5, <1>6 DEF MailInv

-----------------------------------------------------------------------------
(* A SWI that does not sleep *)

\* A SWI starts outside WaitPort: the task has not been told of anything.
LEMMA CallerOutside ==
  ASSUME MailInv, mode # "swi", mode # "blip"
  PROVE  /\ Me \in Task /\ wait[Me] = NoWait /\ ~Inside(Me)
         /\ ~Orphan(Me) /\ ABORT \notin kb.SigBits[Me]
<1>1. Me \in Task /\ ~Away(Me)
  BY DEF MailInv, IInv, KInv, Away, Me
<1>2. wait[Me] = NoWait /\ ~Inside(Me)
  BY <1>1 DEF MailInv, WaitersKnown
<1>3. ~Orphan(Me)
  BY <1>2, PortAssumption DEF Orphan, NoWait
<1> QED
  BY <1>1, <1>2, <1>3 DEF MailInv, ToldOfDelete, Aborted

\* r is k after a SWI that lets all sleepers sleep or wakes some, and leaves
\* SIGF_ABORT alone.
Calm(k, r) ==
  /\ SameFrames(k, r) /\ r.TaskWaitQ \subseteq k.TaskWaitQ
  /\ \A t \in Task : ABORT \in r.SigBits[t] <=> ABORT \in k.SigBits[t]

\* The other tasks do not notice such a SWI, if it keeps the ports they wait
\* on and makes and deletes no message they wait for.
LEMMA CallKeepsWaiters ==
  ASSUME MailInv, mode = "user", NEW k, Return(k), UNCHANGED wait,
         KInv(k), SameRunner(kb, k), Asked(k), Calm(kb, k),
         \A t \in Task \ {Me} : Inside(t) => /\ wait[t].on \in port'.made
                                             /\ port'.Signal[wait[t].on] = port.Signal[wait[t].on],
         \A t \in Task : wait[t].msg \in Msg => (wait[t].msg \in msg'.made <=> wait[t].msg \in msg.made)
  PROVE  IInv' /\ WaitersKnown' /\ ToldOfDelete'
<1>1. kb' = k /\ mode' = "swi" /\ Me' = Me
  BY DEF Return, Calm, SameFrames, Me
<1>2. Me \in Task /\ wait[Me] = NoWait /\ ~Inside(Me)
  BY CallerOutside
<1>3. IInv'
  BY ReturnInv DEF MailInv
<1>4. \A t \in Task : /\ Away(t)' <=> Away(t)
                      /\ Inside(t)' <=> Inside(t)
                      /\ Orphan(t)' <=> Orphan(t)
  BY <1>1 DEF Away, Inside, Orphan
<1>5. WaitersKnown'
  BY <1>1, <1>2, <1>4 DEF MailInv, WaitersKnown, Calm, SameFrames, Away
<1>6. ToldOfDelete'
  BY <1>1, <1>2, <1>4 DEF MailInv, ToldOfDelete, Aborted, Calm, Away
<1> QED
  BY <1>3, <1>5, <1>6

-----------------------------------------------------------------------------
(* Sending *)

\* The fields of the items have their types.
LEMMA MailFields ==
  ASSUME MailType
  PROVE  /\ port.made \in SUBSET Port /\ msg.made \in SUBSET Msg
         /\ port.Signal \in [Port -> SUBSET UserSigs] /\ port.Msgs \in [Port -> Seq(Msg)]
         /\ msg.Flags \in [Msg -> SUBSET {"SENT", "REPLIED"}]
         /\ msg.MsgPort \in [Msg -> Port \cup Task \cup {NoItem}]
         /\ msg.Waiters \in [Msg -> Nat]
         /\ wait \in [Task -> [on : Port \cup {NoItem}, msg : Msg \cup {NoItem}]]
BY DEF MailType

\* A message that a task has goes to a port: the port holds it from then on.
LEMMA LinkPlaces ==
  ASSUME MailInv, NEW m \in msg.made, NEW p \in port.made, msg.MsgPort[m] \in Task,
         NEW flags \in SUBSET {"SENT", "REPLIED"}, "SENT" \in flags,
         "REPLIED" \in flags => p = ReplyPort[m],
         port' = [port EXCEPT !.Msgs[p] = TailInsertNode(@, MsgPri, m)],
         msg' = [msg EXCEPT !.Flags[m] = flags, !.MsgPort[m] = p],
         UNCHANGED wait
  PROVE  /\ MailType' /\ Placed' /\ Marked' /\ Unmade' /\ Counted'
         /\ port'.made = port.made /\ port'.Signal = port.Signal /\ msg'.made = msg.made
         /\ port'.Msgs = [port.Msgs EXCEPT ![p] = TailInsertNode(@, MsgPri, m)]
         /\ msg'.MsgPort = [msg.MsgPort EXCEPT ![m] = p]
         /\ m \in ToSet(port'.Msgs[p])
<1> DEFINE q == TailInsertNode(port.Msgs[p], MsgPri, m)
<1>t. MailType /\ m \in Msg /\ p \in Port
  BY MailFields DEF MailInv
<1>1. \A r \in Port : m \notin ToSet(port.Msgs[r])
  BY <1>t, PortAssumption DEF MailInv, Placed
<1>2. /\ q \in Seq(Msg) /\ ToSet(q) = ToSet(port.Msgs[p]) \cup {m}
      /\ IsInjective(q) /\ Sorted(q, MsgPri)
  <2>1. /\ port.Msgs[p] \in Seq(Msg) /\ m \notin ToSet(port.Msgs[p])
        /\ IsInjective(port.Msgs[p]) /\ Sorted(port.Msgs[p], MsgPri)
    BY <1>t, <1>1, MailFields DEF MailInv, Placed
  <2> QED
    BY <1>t, <2>1, TailInsertQueue, PortAssumption
<1> HIDE DEF q
<1>3. /\ port'.fresh = port.fresh /\ port'.made = port.made /\ port'.Signal = port.Signal
      /\ port'.Msgs = [port.Msgs EXCEPT ![p] = q]
      /\ msg'.fresh = msg.fresh /\ msg'.made = msg.made /\ msg'.Waiters = msg.Waiters
      /\ msg'.Flags = [msg.Flags EXCEPT ![m] = flags]
      /\ msg'.MsgPort = [msg.MsgPort EXCEPT ![m] = p]
  BY <1>t DEF MailType, q
<1>4. /\ \A r \in Port : port'.Msgs[r] = IF r = p THEN q ELSE port.Msgs[r]
      /\ \A n \in Msg : /\ msg'.Flags[n] = IF n = m THEN flags ELSE msg.Flags[n]
                        /\ msg'.MsgPort[n] = IF n = m THEN p ELSE msg.MsgPort[n]
  BY <1>t, <1>3, MailFields
<1>5. MailType'
  BY <1>t, <1>2 DEF MailType, q
<1>6. Placed'
  BY <1>1, <1>2, <1>3, <1>4 DEF MailInv, Placed
<1>7. Marked'
  <2>1. \A n \in msg.made : n \in Msg
    BY <1>t, MailFields
  <2> QED
    BY <1>3, <1>4, <2>1 DEF MailInv, Marked
<1>8. Unmade'
  <2>1. m \notin msg.fresh /\ p \notin port.fresh
    BY DEF MailInv, Unmade
  <2> QED
    BY <1>t, <1>3, <1>4, <2>1, MailFields DEF MailInv, Unmade
<1>9. Counted'
  BY <1>3 DEF MailInv, Counted
<1>10. m \in ToSet(port'.Msgs[p])
  BY <1>t, <1>2, <1>4
<1> QED
  BY <1>3, <1>5, <1>6, <1>7, <1>8, <1>9, <1>10 DEF q

\* Linking a message and signalling the port's owner: the owner, if it is
\* asleep on the port, is woken; nobody else waits there.
LEMMA LinkInv ==
  ASSUME MailInv, Swi, NEW m \in msg.made, NEW p \in port.made, msg.MsgPort[m] = Me,
         NEW flags \in SUBSET {"SENT", "REPLIED"}, "SENT" \in flags,
         "REPLIED" \in flags => p = ReplyPort[m],
         Link(m, p, flags), UNCHANGED wait
  PROVE  MailInv'
<1> DEFINE o == PortOwner[p]
           bits == port.Signal[p]
           k == internalSignal(kb, o, bits)
<1>t. /\ mode = "user" /\ Me \in Task /\ wait[Me] = NoWait /\ ~Inside(Me)
      /\ MailType /\ p \in Port /\ m \in Msg /\ o \in Task /\ KInv(kb)
  BY CallerOutside, MailFields, PortAssumption DEF Swi, MailInv, IInv
<1>1. /\ bits # {} /\ bits \subseteq UserSigs /\ bits \in SUBSET Sig /\ ABORT \notin bits
      /\ bits \subseteq kb.AllocatedSigs[o]
  BY <1>t, MailFields, SigAssumption DEF MailInv, OwnSignals, Sig
<1>2. /\ KInv(k) /\ SameRunner(kb, k) /\ Asked(k)
  <2>1. Asked(kb)
    BY <1>t DEF MailInv, IInv
  <2> QED
    BY <1>t, <1>1, <2>1, SignalLemma
<1>3. /\ SameFrames(kb, k) /\ k.AllocatedSigs = kb.AllocatedSigs
      /\ k.SigBits = [kb.SigBits EXCEPT ![o] = @ \cup bits]
      /\ bits \cap kb.WaitBits[o] # {} => k.TaskWaitQ = kb.TaskWaitQ \ {o}
      /\ bits \cap kb.WaitBits[o] = {} => k.TaskWaitQ = kb.TaskWaitQ
  BY <1>t, <1>1, SignalFrame
<1>4. Return(k)
  BY DEF Link
<1> HIDE DEF k
<1>5. kb' = k /\ kb \in KernelState /\ kb.TaskWaitQ \in SUBSET Task
  BY <1>t, <1>4, Fields DEF Return, KInv
<1>6. Calm(kb, k)
  BY <1>t, <1>1, <1>3, <1>5, Fields DEF Calm
<1>7. /\ MailType' /\ Placed' /\ Marked' /\ Unmade' /\ Counted'
      /\ port'.made = port.made /\ port'.Signal = port.Signal /\ msg'.made = msg.made
      /\ port'.Msgs = [port.Msgs EXCEPT ![p] = TailInsertNode(@, MsgPri, m)]
      /\ msg'.MsgPort = [msg.MsgPort EXCEPT ![m] = p]
  BY <1>t, LinkPlaces DEF Link
<1>8. IInv' /\ WaitersKnown' /\ ToldOfDelete'
  <2>1. \A t \in Task : Inside(t) => wait[t].on \in port.made
    BY DEF MailInv, WaitersKnown
  <2> QED
    BY <1>t, <1>2, <1>4, <1>6, <1>7, <2>1, CallKeepsWaiters
<1>9. OwnSignals'
  BY <1>3, <1>5, <1>7 DEF MailInv, OwnSignals
<1>10. Asleeps'
  <2>1. SUFFICES ASSUME NEW t \in kb'.TaskWaitQ, Inside(t)
                 PROVE  Awaits(t)'
    BY DEF Asleeps, Inside
  <2>2. t \in Task /\ t \in kb.TaskWaitQ /\ t # Me /\ wait[t].on \in Port
    <3>1. t \in Task /\ t \in kb.TaskWaitQ
      BY <1>3, <1>5
    <3>2. t # Me
      BY <1>t, <2>1
    <3>3. wait[t].on \in Port \cup {NoItem}
      BY <1>t, <3>1, MailFields
    <3> QED
      BY <2>1, <3>1, <3>2, <3>3 DEF Inside
  <2>3. Awaits(t)
    BY <2>1, <2>2 DEF MailInv, Asleeps
  <2>4. wait[t].on # p
    <3>1. SUFFICES ASSUME wait[t].on = p PROVE FALSE
      OBVIOUS
    <3>2. t = o /\ bits \subseteq kb.WaitBits[o]
      BY <2>1, <2>2, <3>1 DEF MailInv, WaitersKnown, Away, Awaited
    <3> QED
      BY <1>1, <1>3, <1>5, <3>2
  <2> QED
    BY <1>t, <1>7, <2>2, <2>3, <2>4, MailFields DEF Awaits
<1> QED
  BY <1>7, <1>8, <1>9, <1>10 DEF MailInv

\* A SWI that is refused.
LEMMA RefuseInv ==
  ASSUME MailInv, mode = "user", Refuse
  PROVE  MailInv'
<1>1. Return(kb) /\ UNCHANGED <<port, msg, wait>> /\ kb' = kb
  BY DEF Refuse, mail, Return
<1>2. IInv' /\ WaitersKnown' /\ ToldOfDelete'
  <2>1. KInv(kb) /\ SameRunner(kb, kb) /\ Asked(kb) /\ Calm(kb, kb)
    BY DEF MailInv, IInv, SameRunner, Calm, SameFrames
  <2>2. \A t \in Task : Inside(t) => wait[t].on \in port.made
    BY DEF MailInv, WaitersKnown
  <2> QED
    BY <1>1, <2>1, <2>2, CallKeepsWaiters
<1>3. MailType' /\ Placed' /\ Marked' /\ Unmade' /\ OwnSignals' /\ Asleeps' /\ Counted'
  BY <1>1 DEF MailInv, MailType, Placed, Marked, Unmade, OwnSignals, Asleeps, Inside,
              Awaits, Counted
<1> QED
  BY <1>2, <1>3 DEF MailInv

LEMMA PutMsgInv ==
  ASSUME MailInv, NEW p \in Port, NEW m \in Msg, PutMsg(p, m)
  PROVE  MailInv'
<1>1. CASE Refuse
  BY <1>1, RefuseInv DEF PutMsg, Swi
<1>2. CASE ~Refuse
  BY <1>2, LinkInv DEF PutMsg
<1> QED
  BY <1>1, <1>2

LEMMA ReplyMsgInv ==
  ASSUME MailInv, NEW m \in Msg, ReplyMsg(m)
  PROVE  MailInv'
<1>1. CASE Refuse
  BY <1>1, RefuseInv DEF ReplyMsg, Swi
<1>2. CASE ~Refuse
  BY <1>2, LinkInv DEF ReplyMsg
<1> QED
  BY <1>1, <1>2

-----------------------------------------------------------------------------
(* Receiving *)

\* Taking a message off every port it is on.
LEMMA MsgsWithout ==
  ASSUME MailInv, NEW m \in Msg
  PROVE  LET f == [p \in Port |-> Without(port.Msgs[p], m)] IN
         /\ f \in [Port -> Seq(Msg)]
         /\ \A p \in Port : /\ ToSet(f[p]) = ToSet(port.Msgs[p]) \ {m}
                            /\ IsInjective(f[p]) /\ Sorted(f[p], MsgPri)
                            /\ port.Msgs[p] = <<>> => f[p] = <<>>
<1>1. ASSUME NEW p \in Port
      PROVE  LET r == Without(port.Msgs[p], m) IN
             /\ r \in Seq(Msg) /\ ToSet(r) = ToSet(port.Msgs[p]) \ {m}
             /\ IsInjective(r) /\ Sorted(r, MsgPri)
  <2>1. port.Msgs[p] \in Seq(Msg) /\ IsInjective(port.Msgs[p]) /\ Sorted(port.Msgs[p], MsgPri)
    BY MailFields DEF MailInv, Placed
  <2> QED
    BY <2>1, WithoutQueue
<1>2. ASSUME NEW p \in Port, port.Msgs[p] = <<>>
      PROVE  Without(port.Msgs[p], m) = <<>>
  BY <1>2 DEF Without, ToSet
<1> QED
  BY <1>1, <1>2

\* A message that is given to a task leaves its port.
LEMMA UnlinkPlaces ==
  ASSUME MailInv, NEW m \in msg.made, NEW t \in Task,
         NEW w \in [Msg -> Nat], \A n \in msg.fresh : w[n] = 0,
         port' = [port EXCEPT !.Msgs = [p \in Port |-> Without(port.Msgs[p], m)]],
         msg' = [msg EXCEPT !.Flags[m] = {}, !.MsgPort[m] = t, !.Waiters = w],
         wait' \in [Task -> [on : Port \cup {NoItem}, msg : Msg \cup {NoItem}]],
         \A u \in Task : wait'[u].msg \notin msg.fresh
  PROVE  /\ MailType' /\ Placed' /\ Marked' /\ Unmade'
         /\ port'.made = port.made /\ port'.Signal = port.Signal /\ msg'.made = msg.made
         /\ msg'.Waiters = w
         /\ \A u \in Task : Awaits(u) /\ Inside(u) /\ wait'[u] = wait[u] => Awaits(u)'
<1> DEFINE f == [p \in Port |-> Without(port.Msgs[p], m)]
<1>t. MailType /\ m \in Msg
  BY MailFields DEF MailInv
<1>1. /\ f \in [Port -> Seq(Msg)]
      /\ \A p \in Port : /\ ToSet(f[p]) = ToSet(port.Msgs[p]) \ {m}
                         /\ IsInjective(f[p]) /\ Sorted(f[p], MsgPri)
                         /\ port.Msgs[p] = <<>> => f[p] = <<>>
  BY <1>t, MsgsWithout
<1>2. port' = [port EXCEPT !.Msgs = f]
  OBVIOUS
<1> HIDE DEF f
<1>3. /\ port'.fresh = port.fresh /\ port'.made = port.made /\ port'.Signal = port.Signal
      /\ port'.Msgs = f
      /\ msg'.fresh = msg.fresh /\ msg'.made = msg.made /\ msg'.Waiters = w
      /\ msg'.Flags = [msg.Flags EXCEPT ![m] = {}]
      /\ msg'.MsgPort = [msg.MsgPort EXCEPT ![m] = t]
  BY <1>t, <1>2 DEF MailType
<1>4. \A n \in Msg : /\ msg'.Flags[n] = IF n = m THEN {} ELSE msg.Flags[n]
                     /\ msg'.MsgPort[n] = IF n = m THEN t ELSE msg.MsgPort[n]
  BY <1>t, <1>3, MailFields
<1>5. MailType'
  BY <1>t, <1>1, <1>2 DEF MailType
<1>6. t \notin Port /\ t # NoItem
  BY PortAssumption
<1>7. Placed'
  BY <1>1, <1>3, <1>4, <1>6 DEF MailInv, Placed
<1>8. Marked'
  <2>1. \A n \in msg.made : n \in Msg
    BY <1>t, MailFields
  <2>2. t \notin port.made
    BY <1>t, <1>6, MailFields
  <2> QED
    BY <1>3, <1>4, <2>1, <2>2 DEF MailInv, Marked
<1>9. Unmade'
  <2>1. m \notin msg.fresh /\ t \notin port.fresh /\ msg.fresh \in SUBSET Msg
    BY <1>t, <1>6 DEF MailInv, Unmade, MailType
  <2> QED
    BY <1>t, <1>3, <1>4, <2>1, MailFields DEF MailInv, Unmade
<1>10. ASSUME NEW u \in Task, Awaits(u), Inside(u), wait'[u] = wait[u]
       PROVE  Awaits(u)'
  <2>1. wait[u].on \in Port /\ wait[u].msg \in Msg \cup {NoItem}
    BY <1>t, <1>10, MailFields DEF Inside
  <2> QED
    BY <1>1, <1>3, <1>4, <1>6, <1>10, <2>1 DEF Awaits
<1> QED
  BY <1>3, <1>5, <1>7, <1>8, <1>9, <1>10

\* GetMsg and GetThisMsg: the caller gets the message.
LEMMA UnlinkInv ==
  ASSUME MailInv, mode = "user", NEW m \in msg.made, Return(kb), Unlink(m, Me),
         UNCHANGED wait
  PROVE  MailInv'
<1>t. Me \in Task /\ MailType /\ m \in Msg
  BY CallerOutside, MailFields DEF MailInv
<1>1. /\ MailType' /\ Placed' /\ Marked' /\ Unmade'
      /\ port'.made = port.made /\ port'.Signal = port.Signal /\ msg'.made = msg.made
      /\ msg'.Waiters = msg.Waiters
      /\ \A u \in Task : Awaits(u) /\ Inside(u) => Awaits(u)'
  <2>1. /\ msg.Waiters \in [Msg -> Nat] /\ \A n \in msg.fresh : msg.Waiters[n] = 0
        /\ wait' \in [Task -> [on : Port \cup {NoItem}, msg : Msg \cup {NoItem}]]
        /\ \A u \in Task : wait'[u].msg \notin msg.fresh
    BY <1>t, MailFields DEF MailInv, Unmade
  <2>2. /\ port' = [port EXCEPT !.Msgs = [p \in Port |-> Without(port.Msgs[p], m)]]
        /\ msg' = [msg EXCEPT !.Flags[m] = {}, !.MsgPort[m] = Me, !.Waiters = msg.Waiters]
    BY <1>t DEF Unlink, MailType
  <2> QED
    BY <1>t, <2>1, <2>2, UnlinkPlaces
<1>2. kb' = kb
  BY DEF Return
<1>3. IInv' /\ WaitersKnown' /\ ToldOfDelete'
  <2>1. KInv(kb) /\ SameRunner(kb, kb) /\ Asked(kb) /\ Calm(kb, kb)
    BY DEF MailInv, IInv, SameRunner, Calm, SameFrames
  <2>2. \A t \in Task : Inside(t) => wait[t].on \in port.made
    BY DEF MailInv, WaitersKnown
  <2> QED
    BY <1>1, <2>1, <2>2, CallKeepsWaiters
<1>4. OwnSignals' /\ Counted'
  BY <1>1, <1>2 DEF MailInv, OwnSignals, Counted
<1>5. Asleeps'
  <2>1. kb.TaskWaitQ \in SUBSET Task
    BY Fields DEF MailInv, IInv, KInv
  <2> QED
    BY <1>1, <1>2, <2>1 DEF MailInv, Asleeps, Inside
<1> QED
  BY <1>1, <1>3, <1>4, <1>5 DEF MailInv

LEMMA GetMsgInv ==
  ASSUME MailInv, NEW p \in Port, GetMsg(p)
  PROVE  MailInv'
<1>1. CASE Refuse
  BY <1>1, RefuseInv DEF GetMsg, Swi
<1>2. CASE ~Refuse
  <2>1. port.Msgs[p] \in Seq(Msg) /\ port.Msgs[p] # <<>>
    BY <1>2, MailFields DEF GetMsg, MailInv
  <2>2. Head(port.Msgs[p]) \in ToSet(port.Msgs[p]) /\ Head(port.Msgs[p]) \in Msg
    BY <2>1, HeadTailProperties, LenProperties DEF ToSet
  <2>3. Head(port.Msgs[p]) \in msg.made
    BY <2>2 DEF MailInv, Placed
  <2> QED
    BY <1>2, <2>3, UnlinkInv DEF GetMsg, Swi
<1> QED
  BY <1>1, <1>2

LEMMA GetThisMsgInv ==
  ASSUME MailInv, NEW m \in Msg, GetThisMsg(m)
  PROVE  MailInv'
<1>1. CASE Refuse
  BY <1>1, RefuseInv DEF GetThisMsg, Swi
<1>2. CASE ~Refuse
  BY <1>2, UnlinkInv DEF GetThisMsg, Swi
<1> QED
  BY <1>1, <1>2

-----------------------------------------------------------------------------
(* Waiting *)

\* The current task is not on the queue of the sleepers.
LEMMA RunnerAwake ==
  ASSUME IInv, mode # "blip"
  PROVE  Me \in Task /\ Me \notin kb.TaskWaitQ
BY DEF IInv, KInv, Running, Linked, Me

\* The waiters of a message, when one task starts or stops to wait.
LEMMA WaitersOf ==
  ASSUME NEW f, NEW t \in Task, NEW n
  PROVE  /\ Cardinality(For(f, Task \ {t}, n)) \in Nat
         /\ f[t].msg = n =>
              Cardinality(For(f, Task, n)) = Cardinality(For(f, Task \ {t}, n)) + 1
         /\ f[t].msg # n =>
              Cardinality(For(f, Task, n)) = Cardinality(For(f, Task \ {t}, n))
<1> DEFINE others == For(f, Task \ {t}, n)
           all == For(f, Task, n)
<1>1. IsFiniteSet(others)
  BY FS_Subset, TaskAssumption DEF For
<1>2. t \notin others
  BY DEF For
<1>3. Cardinality(others) \in Nat /\ Cardinality(others \cup {t}) = Cardinality(others) + 1
  <2> HIDE DEF others
  <2> QED
    BY <1>1, <1>2, FS_AddElement, FS_CardinalityType
<1>4. /\ f[t].msg = n => all = others \cup {t}
      /\ f[t].msg # n => all = others
  BY DEF For
<1> HIDE DEF others, all
<1>5. /\ f[t].msg = n => Cardinality(all) = Cardinality(others) + 1
      /\ f[t].msg # n => Cardinality(all) = Cardinality(others)
  BY <1>3, <1>4
<1> QED
  BY <1>1, <1>3, <1>5 DEF others, all

\* What a turn of the loops of internalWaitPort may rely on: the caller owns
\* the port, no message it waits for has been deleted, and w counts the other
\* waiters.
Turning(p, m, w) ==
  /\ mode \in {"user", "swi"} /\ Me # Idle /\ ABORT \notin kb.SigBits[Me]
  /\ p \in port.made /\ PortOwner[p] = Me
  /\ m \in msg.made \cup {NoItem}
  /\ w \in [Msg -> Nat] /\ \A n \in msg.fresh : w[n] = 0
  /\ \A n \in msg.made : w[n] = Cardinality(For(wait, Task \ {Me}, n))

\* The message is there: the task takes it and leaves WaitPort.
LEMMA TurnTakes ==
  ASSUME MailInv, NEW p, NEW m, NEW w, Turning(p, m, w),
         Turn(p, m, [msg EXCEPT !.Waiters = w]),
         IF m = NoItem THEN port.Msgs[p] # <<>> ELSE msg.MsgPort[m] = p
  PROVE  MailInv'
<1> DEFINE first == IF m = NoItem THEN Head(port.Msgs[p]) ELSE m
<1>t. MailType /\ p \in Port /\ Me \in Task /\ Me \notin kb.TaskWaitQ /\ Port \cap Task = {}
  BY RunnerAwake, MailFields, PortAssumption DEF MailInv, Turning
<1>1. /\ Return(kb)
      /\ port' = [port EXCEPT !.Msgs[p] = Without(@, first)]
      /\ msg' = [[msg EXCEPT !.Waiters = w] EXCEPT !.Flags[first] = {}, !.MsgPort[first] = Me]
      /\ wait' = [wait EXCEPT ![Me] = NoWait]
  BY DEF Turn
<1>2. first \in msg.made /\ first \in Msg /\ msg.MsgPort[first] = p
  <2>1. CASE m = NoItem
    <3>1. port.Msgs[p] \in Seq(Msg) /\ port.Msgs[p] # <<>>
      BY <1>t, <2>1, MailFields
    <3>2. Head(port.Msgs[p]) \in ToSet(port.Msgs[p]) /\ Head(port.Msgs[p]) \in Msg
      BY <3>1, HeadTailProperties, LenProperties DEF ToSet
    <3> QED
      BY <1>t, <2>1, <3>2 DEF MailInv, Placed
  <2>2. CASE m # NoItem
    BY <1>t, <2>2, MailFields DEF Turning
  <2> QED
    BY <2>1, <2>2
<1> HIDE DEF first
<1>3. port' = [port EXCEPT !.Msgs = [q \in Port |-> Without(port.Msgs[q], first)]]
  <2>1. \A q \in Port \ {p} : Without(port.Msgs[q], first) = port.Msgs[q]
    BY <1>2 DEF MailInv, Placed, Without
  <2>2. [port.Msgs EXCEPT ![p] = Without(@, first)]
          = [q \in Port |-> Without(port.Msgs[q], first)]
    BY <1>t, <2>1, MailFields
  <2> QED
    BY <1>t, <1>1, <2>2 DEF MailType
<1>4. /\ wait' \in [Task -> [on : Port \cup {NoItem}, msg : Msg \cup {NoItem}]]
      /\ wait'[Me] = NoWait /\ \A u \in Task \ {Me} : wait'[u] = wait[u]
      /\ \A u \in Task : wait'[u].msg \notin msg.fresh
  <2>1. NoItem \notin msg.fresh
    BY <1>t, PortAssumption DEF MailType
  <2> QED
    BY <1>t, <1>1, <2>1, MailFields DEF MailInv, Unmade, NoWait
<1>5. /\ MailType' /\ Placed' /\ Marked' /\ Unmade'
      /\ port'.made = port.made /\ port'.Signal = port.Signal /\ msg'.made = msg.made
      /\ msg'.Waiters = w
      /\ \A u \in Task : Awaits(u) /\ Inside(u) /\ wait'[u] = wait[u] => Awaits(u)'
  <2>1. msg' = [msg EXCEPT !.Flags[first] = {}, !.MsgPort[first] = Me, !.Waiters = w]
    BY <1>t, <1>1 DEF MailType
  <2>2. w \in [Msg -> Nat] /\ \A n \in msg.fresh : w[n] = 0
    BY DEF Turning
  <2> QED
    BY <1>t, <1>2, <1>3, <1>4, <2>1, <2>2, UnlinkPlaces
<1>6. kb' = kb /\ mode' = "swi" /\ Me' = Me
  BY <1>1 DEF Return, Me
<1>7. IInv'
  BY <1>6 DEF MailInv, IInv, Running, Mode, Turning, Asked, Urgent, CurPri, HeadPri
<1>8. \A u \in Task \ {Me} : /\ Inside(u)' <=> Inside(u)
                             /\ Orphan(u)' <=> Orphan(u)
                             /\ Away(u) /\ Away(u)'
  BY <1>4, <1>5, <1>6 DEF Inside, Orphan, Away
<1>9. \A u \in Task : u = Me => ~Inside(u)' /\ ~Orphan(u)'
  BY <1>4, <1>6, PortAssumption DEF Inside, Orphan, NoWait
<1>10. WaitersKnown'
  BY <1>4, <1>5, <1>6, <1>8, <1>9 DEF MailInv, WaitersKnown
<1>11. ToldOfDelete'
  BY <1>t, <1>6, <1>8, <1>9 DEF MailInv, ToldOfDelete, Aborted, Turning
<1>12. Counted'
  <2>1. \A n \in msg.made : n \in Msg /\ n # NoItem
    BY <1>t, MailFields, PortAssumption
  <2>2. \A n \in msg.made : For(wait', Task, n) = For(wait, Task \ {Me}, n)
    BY <1>t, <1>4, <2>1 DEF NoWait, For
  <2> QED
    BY <1>5, <2>2 DEF Counted, Turning
<1>13. OwnSignals'
  BY <1>5, <1>6 DEF MailInv, OwnSignals
<1>14. Asleeps'
  <2>1. \A u \in kb.TaskWaitQ : u \in Task /\ u # Me
    BY <1>t, Fields DEF MailInv, IInv, KInv
  <2> QED
    BY <1>4, <1>5, <1>6, <1>8, <2>1 DEF MailInv, Asleeps
<1> QED
  BY <1>5, <1>7, <1>10, <1>11, <1>12, <1>13, <1>14 DEF MailInv

\* The message is not there: the task waits for the port's signal, and goes on
\* at once if it is pending.
LEMMA TurnWaits ==
  ASSUME MailInv, NEW p, NEW m, NEW w, Turning(p, m, w),
         Turn(p, m, [msg EXCEPT !.Waiters = w]),
         ~(IF m = NoItem THEN port.Msgs[p] # <<>> ELSE msg.MsgPort[m] = p)
  PROVE  MailInv'
<1> DEFINE bits == port.Signal[p]
           r == internalWait(kb, bits)
           res == Awaited(bits) \cap kb.SigBits[Me]
<1>t. /\ MailType /\ p \in Port /\ Me \in Task /\ Me \notin kb.TaskWaitQ /\ kb \in KernelState
      /\ KInv(kb) /\ p # NoItem
  BY RunnerAwake, MailFields, PortAssumption DEF MailInv, Turning, IInv, KInv
<1>1. /\ kb' = r
      /\ mode' = IF WaitSleeps(kb, bits) THEN "blip" ELSE "swi"
      /\ wait' = [wait EXCEPT ![Me] = [on |-> p, msg |-> m]]
      /\ msg' = IF m = NoItem THEN [msg EXCEPT !.Waiters = w]
                ELSE [[msg EXCEPT !.Waiters = w] EXCEPT !.Waiters[m] = @ + 1]
      /\ port' = port
  BY DEF Turn
<1>2. /\ bits \subseteq kb.AllocatedSigs[Me] /\ bits \in SUBSET Sig
  BY <1>t, MailFields, SigAssumption DEF MailInv, OwnSignals, Turning, Sig
<1>3. WaitSleeps(kb, bits) <=> res = {}
  BY <1>2 DEF WaitSleeps, Me
<1>4. /\ r.CurrentTask = Me /\ r.AllocatedSigs = kb.AllocatedSigs
      /\ res = {} => /\ r.SigBits = kb.SigBits
                     /\ r.psr = [kb.psr EXCEPT ![Me] = "super"]
                     /\ r.WaitBits = [kb.WaitBits EXCEPT ![Me] = Awaited(bits)]
                     /\ r.TaskWaitQ = kb.TaskWaitQ \cup {Me}
      /\ res # {} => /\ r.SigBits = [kb.SigBits EXCEPT ![Me] = @ \ res]
                     /\ SameFrames(kb, r) /\ r.TaskWaitQ = kb.TaskWaitQ
                     /\ r.ret = res
  BY <1>t, <1>2, WaitFrame DEF Me
<1>5. /\ KInv(r) /\ (res = {} => Running(r, "blip"))
      /\ (res # {} => Running(r, "swi") /\ Asked(r))
  <2>1. Running(kb, "user") /\ Asked(kb)
    BY DEF MailInv, IInv, Running, Turning
  <2> QED
    BY <1>t, <1>2, <1>3, <2>1, WaitLemma DEF Turning, Me
<1> HIDE DEF r
<1>6. Me' = Me /\ (mode' = "blip" <=> res = {}) /\ mode' \in {"blip", "swi"}
  BY <1>1, <1>3, <1>4 DEF Me
<1>7. ABORT \notin res
  BY DEF Turning
<1> HIDE DEF res
<1>8. IInv'
  BY <1>1, <1>5, <1>6 DEF IInv, Mode
<1>9. \A u \in Task : wait'[u] = IF u = Me THEN [on |-> p, msg |-> m] ELSE wait[u]
  BY <1>t, <1>1, MailFields
<1>10. msg'.fresh = msg.fresh /\ msg'.made = msg.made /\ msg'.MsgPort = msg.MsgPort
       /\ msg'.Flags = msg.Flags /\ msg'.Waiters \in [Msg -> Nat]
       /\ \A n \in Msg : msg'.Waiters[n] = IF n = m THEN w[n] + 1 ELSE w[n]
  <2>1. CASE m = NoItem
    BY <1>t, <1>1, <2>1, PortAssumption DEF MailType, Turning
  <2>2. CASE m # NoItem
    <3>1. m \in Msg
      BY <1>t, <2>2, MailFields DEF Turning
    <3>2. msg' = [msg EXCEPT !.Waiters = [w EXCEPT ![m] = @ + 1]]
      BY <1>t, <1>1, <2>2 DEF MailType
    <3>3. w \in [Msg -> Nat]
      BY DEF Turning
    <3> QED
      BY <1>t, <3>1, <3>2, <3>3 DEF MailType
  <2> QED
    BY <2>1, <2>2
<1>11. MailType'
  <2>1. msg' \in [fresh : SUBSET Msg, made : SUBSET Msg,
                  Flags : [Msg -> SUBSET {"SENT", "REPLIED"}],
                  MsgPort : [Msg -> Port \cup Task \cup {NoItem}],
                  Waiters : [Msg -> Nat]]
    <3>1. msg' = [msg EXCEPT !.Waiters = msg'.Waiters]
      BY <1>t, <1>1 DEF MailType
    <3> QED
      BY <1>t, <1>10, <3>1 DEF MailType
  <2>2. m \in Msg \cup {NoItem}
    BY <1>t, MailFields DEF Turning
  <2> QED
    BY <1>t, <1>1, <2>1, <2>2 DEF MailType
<1>12. Placed' /\ Marked'
  BY <1>1, <1>10 DEF MailInv, Placed, Marked
<1>13. OwnSignals'
  BY <1>1, <1>4 DEF MailInv, OwnSignals
<1>14. Unmade'
  <2>1. m \notin msg.fresh
    BY <1>t, PortAssumption DEF Turning, MailInv, Unmade, MailType
  <2>2. \A n \in msg.fresh : n \in Msg /\ n # m /\ msg'.Waiters[n] = 0
    BY <1>t, <1>10, <2>1 DEF Turning, MailType
  <2> QED
    BY <1>1, <1>9, <1>10, <2>1, <2>2 DEF MailInv, Unmade
<1>15. \A u \in Task \ {Me} : /\ Inside(u)' <=> Inside(u)
                              /\ Orphan(u)' <=> Orphan(u)
                              /\ Away(u) /\ Away(u)'
                              /\ wait'[u] = wait[u]
                              /\ kb'.psr[u] = kb.psr[u] /\ kb'.WaitBits[u] = kb.WaitBits[u]
                              /\ kb'.SigBits[u] = kb.SigBits[u]
  BY <1>t, <1>1, <1>4, <1>6, <1>9, <1>10, Fields DEF Inside, Orphan, Away, SameFrames
<1>16. /\ Inside(Me)' /\ ~Orphan(Me)' /\ ABORT \notin kb'.SigBits[Me]
       /\ wait'[Me].on = p /\ wait'[Me].msg = m
  BY <1>t, <1>1, <1>4, <1>6, <1>9, <1>10, Fields DEF Inside, Orphan, Turning
<1>17. WaitersKnown'
  <2>1. ASSUME NEW u \in Task \ {Me}
        PROVE  IF ~Inside(u)' THEN wait'[u] = NoWait
               ELSE /\ u # Idle /\ wait'[u].on \in port'.made /\ PortOwner[wait'[u].on] = u
                    /\ kb'.psr[u] = "super"
                    /\ kb'.WaitBits[u] = Awaited(port'.Signal[wait'[u].on])
    BY <1>1, <1>15 DEF MailInv, WaitersKnown
  <2>2. Away(Me)' => /\ kb'.psr[Me] = "super"
                     /\ kb'.WaitBits[Me] = Awaited(port'.Signal[wait'[Me].on])
    BY <1>t, <1>1, <1>4, <1>6, <1>16, Fields DEF Away
  <2>3. ~Away(Me)' => mode' = "swi"
    BY <1>6 DEF Away
  <2> QED
    BY <1>1, <1>6, <1>15, <1>16, <2>1, <2>2, <2>3 DEF WaitersKnown, Turning
<1>18. ToldOfDelete'
  <2>1. ~Away(Me)' => ABORT \notin kb'.ret
    BY <1>1, <1>4, <1>6, <1>7 DEF Away
  <2>2. ~Aborted(Me)'
    BY <1>6, <1>16, <2>1 DEF Aborted
  <2> QED
    BY <1>6, <1>15, <1>16, <2>2 DEF MailInv, ToldOfDelete, Aborted
<1>19. Asleeps'
  <2>1. Awaits(Me)'
    BY <1>1, <1>6, <1>10, <1>16 DEF Awaits
  <2>2. \A u \in kb'.TaskWaitQ : u \in Task /\ (u = Me \/ u \in kb.TaskWaitQ)
    BY <1>t, <1>1, <1>4, Fields
  <2>3. \A u \in Task \ {Me} : Awaits(u) => Awaits(u)'
    BY <1>1, <1>10, <1>15 DEF Awaits
  <2> QED
    BY <1>6, <1>15, <2>1, <2>2, <2>3 DEF MailInv, Asleeps
<1>20. Counted'
  <2> SUFFICES ASSUME NEW n \in msg.made
               PROVE  msg'.Waiters[n] = Cardinality(For(wait', Task, n))
    BY <1>10 DEF Counted
  <2>1. For(wait', Task \ {Me}, n) = For(wait, Task \ {Me}, n)
    BY <1>9 DEF For
  <2>2. n \in Msg /\ w[n] = Cardinality(For(wait', Task \ {Me}, n))
    BY <1>t, <2>1, MailFields DEF Turning
  <2>3. wait'[Me].msg = m
    BY <1>t, <1>9
  <2>4. /\ m = n => Cardinality(For(wait', Task, n)) = w[n] + 1
        /\ m # n => Cardinality(For(wait', Task, n)) = w[n]
    <3>1. Me \in Task
      BY <1>t
    <3>2. /\ wait'[Me].msg = n => Cardinality(For(wait', Task, n))
                                   = Cardinality(For(wait', Task \ {Me}, n)) + 1
          /\ wait'[Me].msg # n => Cardinality(For(wait', Task, n))
                                   = Cardinality(For(wait', Task \ {Me}, n))
      BY <3>1, WaitersOf
    <3> QED
      BY <2>2, <2>3, <3>2
  <2> QED
    BY <1>10, <2>2, <2>4
<1> QED
  BY <1>8, <1>11, <1>12, <1>13, <1>14, <1>17, <1>18, <1>19, <1>20 DEF MailInv

LEMMA TurnInv ==
  ASSUME MailInv, NEW p, NEW m, NEW w, Turning(p, m, w),
         Turn(p, m, [msg EXCEPT !.Waiters = w])
  PROVE  MailInv'
BY TurnTakes, TurnWaits

LEMMA WaitPortInv ==
  ASSUME MailInv, NEW p \in Port, NEW m \in Msg \cup {NoItem}, WaitPort(p, m)
  PROVE  MailInv'
<1>1. CASE Refuse
  BY <1>1, RefuseInv DEF WaitPort, Swi
<1>2. CASE ~Refuse
  <2>t. /\ MailType /\ mode = "user" /\ Me \in Task /\ wait[Me] = NoWait
        /\ ABORT \notin kb.SigBits[Me] /\ Me # Idle
    BY <1>2, CallerOutside DEF MailInv, WaitPort, Swi
  <2>1. p \in port.made /\ m \in msg.made \cup {NoItem} /\ PortOwner[p] = Me /\ Turn(p, m, msg)
    BY <1>2 DEF WaitPort
  <2>2. msg = [msg EXCEPT !.Waiters = msg.Waiters]
    BY <2>t DEF MailType
  <2>3. ASSUME NEW n \in msg.made
        PROVE  msg.Waiters[n] = Cardinality(For(wait, Task \ {Me}, n))
    <3>1. wait[Me].msg # n
      BY <2>t, MailFields, PortAssumption DEF NoWait
    <3>2. msg.Waiters[n] = Cardinality(For(wait, Task, n))
      BY DEF MailInv, Counted
    <3> QED
      BY <2>t, <3>1, <3>2, WaitersOf
  <2>4. Turning(p, m, msg.Waiters)
    BY <2>t, <2>1, <2>3, MailFields DEF MailInv, Unmade, Turning
  <2> QED
    BY <2>1, <2>2, <2>4, TurnInv
<1> QED
  BY <1>1, <1>2

LEMMA WaitReturnInv ==
  ASSUME MailInv, WaitReturn
  PROVE  MailInv'
<1> DEFINE p == wait[Me].on
           m == wait[Me].msg
<1>t. /\ MailType /\ mode = "swi" /\ Me \in Task /\ Inside(Me) /\ ~Away(Me)
      /\ Me # Idle /\ p \in port.made /\ PortOwner[p] = Me /\ ABORT \notin kb.SigBits[Me]
      /\ m \in Msg \cup {NoItem} /\ m \notin msg.fresh
  <2>1. MailType /\ mode = "swi" /\ Me \in Task /\ Inside(Me) /\ ~Away(Me)
    BY RunnerAwake DEF MailInv, WaitReturn, Waiting, Inside, Away
  <2> QED
    BY <2>1, MailFields DEF MailInv, WaitersKnown, Unmade
<1>0. Orphan(Me) <=> ABORT \in kb.ret
  BY <1>t DEF MailInv, ToldOfDelete, Aborted
<1>a. \A n \in msg.made : n \in Msg /\ n # NoItem /\ msg.Waiters[n] = Cardinality(For(wait, Task, n))
  BY <1>t, MailFields, PortAssumption DEF MailInv, Counted
<1>1. CASE ABORT \in kb.ret
  <2>1. /\ kb' = kb /\ mode' = "swi" /\ UNCHANGED <<port, msg>> /\ Me' = Me
        /\ wait' = [wait EXCEPT ![Me] = NoWait]
    BY <1>1 DEF WaitReturn, Return, Me
  <2>2. \A u \in Task : wait'[u] = IF u = Me THEN NoWait ELSE wait[u]
    BY <1>t, <2>1, MailFields
  <2>3. MailType' /\ Placed' /\ Marked' /\ OwnSignals' /\ IInv'
    <3>1. NoWait \in [on : Port \cup {NoItem}, msg : Msg \cup {NoItem}]
      BY DEF NoWait
    <3>2. MailType'
      BY <1>t, <2>1, <3>1 DEF MailType
    <3>3. IInv'
      BY <1>t, <2>1 DEF MailInv, IInv
    <3> QED
      BY <2>1, <3>2, <3>3 DEF MailInv, Placed, Marked, OwnSignals
  <2>4. Unmade'
    <3>1. NoWait.msg \notin msg.fresh
      BY <1>t, PortAssumption DEF NoWait, MailType
    <3> QED
      BY <2>1, <2>2, <3>1 DEF MailInv, Unmade
  <2>5. \A u \in Task \ {Me} : /\ Inside(u)' <=> Inside(u)
                               /\ Orphan(u)' <=> Orphan(u)
                               /\ Awaits(u)' <=> Awaits(u)
                               /\ Away(u) /\ Away(u)'
    BY <2>1, <2>2 DEF Inside, Orphan, Away, Awaits
  <2>6. wait'[Me] = NoWait /\ ~Inside(Me)' /\ ~Orphan(Me)'
    BY <1>t, <2>1, <2>2, PortAssumption DEF Inside, Orphan, NoWait
  <2>7. WaitersKnown'
    BY <2>1, <2>2, <2>5, <2>6 DEF MailInv, WaitersKnown
  <2>8. ToldOfDelete'
    BY <1>t, <2>1, <2>5, <2>6 DEF MailInv, ToldOfDelete, Aborted
  <2>9. Asleeps'
    <3>1. kb.TaskWaitQ \in SUBSET Task
      BY Fields DEF MailInv, IInv, KInv
    <3> QED
      BY <2>1, <2>2, <2>5, <2>6, <3>1 DEF MailInv, Asleeps
  <2>10. Counted'
    <3>1. \A n \in msg.made : m # n /\ NoWait.msg # n
      BY <1>0, <1>1, <1>a DEF Orphan, NoWait
    <3>2. \A n \in msg.made : For(wait', Task, n) = For(wait, Task, n)
      BY <1>t, <2>2, <3>1 DEF For
    <3> QED
      BY <2>1, <3>2 DEF MailInv, Counted
  <2> QED
    BY <2>3, <2>4, <2>7, <2>8, <2>9, <2>10 DEF MailInv
<1>2. CASE ABORT \notin kb.ret
  <2> DEFINE w == IF m = NoItem THEN msg.Waiters ELSE [msg.Waiters EXCEPT ![m] = @ - 1]
             counted == IF m = NoItem THEN msg ELSE [msg EXCEPT !.Waiters[m] = @ - 1]
  <2>1. Turn(p, m, counted)
    BY <1>2 DEF WaitReturn
  <2>2. m \in msg.made \cup {NoItem}
    BY <1>t, <1>0, <1>2 DEF Orphan
  <2>3. counted = [msg EXCEPT !.Waiters = w]
    BY <1>t DEF MailType
  <2>4. ASSUME NEW n \in msg.made
        PROVE  w[n] = Cardinality(For(wait, Task \ {Me}, n)) /\ w[n] \in Nat
    <3>1. /\ Cardinality(For(wait, Task \ {Me}, n)) \in Nat /\ n \in Msg /\ n # NoItem
          /\ m = n => msg.Waiters[n] = Cardinality(For(wait, Task \ {Me}, n)) + 1
          /\ m # n => msg.Waiters[n] = Cardinality(For(wait, Task \ {Me}, n))
      BY <1>t, <1>a, WaitersOf
    <3>2. msg.Waiters \in [Msg -> Nat]
      BY <1>t, MailFields
    <3> QED
      BY <1>t, <3>1, <3>2
  <2>5. w \in [Msg -> Nat] /\ \A n \in msg.fresh : w[n] = 0
    <3>1. \A n \in msg.fresh : n \in Msg /\ msg.Waiters[n] = 0
      BY <1>t DEF MailInv, Unmade, MailType
    <3> QED
      BY <1>t, <2>2, <2>4, <3>1, MailFields
  <2> HIDE DEF w, counted
  <2>6. Turning(p, m, w)
    BY <1>t, <2>2, <2>4, <2>5 DEF Turning
  <2> QED
    BY <2>1, <2>3, <2>6, TurnInv
<1> QED
  BY <1>1, <1>2

-----------------------------------------------------------------------------
(* Creating and deleting *)

\* A port takes the lowest free signal, which no other port of its owner has.
LEMMA CreateMsgPortInv ==
  ASSUME MailInv, NEW p \in Port, CreateMsgPort(p)
  PROVE  MailInv'
<1> DEFINE free == UserSigs \ kb.AllocatedSigs[Me]
           lowest == {b \in free : \A c \in free : b <= c}
           alloc == kb.AllocatedSigs[Me] \cup lowest
           k == ClearSignals([kb EXCEPT !.AllocatedSigs[Me] = alloc], Me, lowest)
<1>t. /\ mode = "user" /\ Me \in Task /\ wait[Me] = NoWait /\ ~Inside(Me)
      /\ MailType /\ KInv(kb) /\ Asked(kb) /\ Me \notin kb.TaskWaitQ /\ kb \in KernelState
      /\ p \in port.fresh /\ p \notin port.made /\ PortOwner[p] = Me
  BY CallerOutside, RunnerAwake DEF CreateMsgPort, Swi, MailInv, IInv, KInv, Unmade
<1>1. CASE free = {}
  BY <1>t, <1>1, RefuseInv DEF CreateMsgPort
<1>2. CASE free # {}
  <2>1. /\ Return(k)
        /\ port' = [port EXCEPT !.fresh = @ \ {p}, !.made = @ \cup {p}, !.Signal[p] = lowest]
        /\ UNCHANGED <<msg, wait>>
    BY <1>2 DEF CreateMsgPort
  <2>2. lowest # {}
    BY <1>2, LowestSignal
  <2>3. lowest \subseteq UserSigs /\ lowest \cap kb.AllocatedSigs[Me] = {} /\ ABORT \notin lowest
    BY SigAssumption
  <2> HIDE DEF free, lowest
  <2>4. alloc \in SUBSET Sig /\ SuperSigs \subseteq alloc /\ kb.SigBits[Me] \ lowest \subseteq alloc
    <3>1. lowest \subseteq Sig
      BY <2>3 DEF Sig
    <3> QED
      BY <1>t, <3>1, Fields DEF KInv, Allocated
  <2>5. KInv(k) /\ SameRunner(kb, k) /\ Asked(k)
    <3> HIDE DEF alloc
    <3> QED
      BY <1>t, <2>4, AllocLemma
  <2>6. /\ SameFrames(kb, k) /\ k.TaskWaitQ = kb.TaskWaitQ
        /\ k.AllocatedSigs = [kb.AllocatedSigs EXCEPT ![Me] = alloc]
        /\ k.SigBits = [kb.SigBits EXCEPT ![Me] = kb.SigBits[Me] \ lowest]
    <3> HIDE DEF alloc
    <3> QED
      BY <1>t, AllocFrame
  <2> HIDE DEF k
  <2>7. Calm(kb, k)
    BY <1>t, <2>3, <2>6, Fields DEF Calm
  <2>8. /\ port'.fresh = port.fresh \ {p} /\ port'.made = port.made \cup {p}
        /\ port'.Signal = [port.Signal EXCEPT ![p] = lowest] /\ port'.Msgs = port.Msgs
        /\ port' \in [fresh : SUBSET Port, made : SUBSET Port,
                      Signal : [Port -> SUBSET UserSigs], Msgs : [Port -> Seq(Msg)]]
        /\ msg' = msg /\ wait' = wait /\ kb' = k
    BY <1>t, <2>1, <2>3 DEF MailType, Return
  <2>9. \A q \in Port : port'.Signal[q] = IF q = p THEN lowest ELSE port.Signal[q]
    BY <1>t, <2>8, MailFields
  <2>10. MailType'
    BY <1>t, <2>8 DEF MailType
  <2>11. Placed' /\ Marked'
    <3>1. \A m \in Msg : msg.MsgPort[m] # p
      BY <1>t DEF MailInv, Unmade
    <3>2. \A m \in msg.made : m \in Msg
      BY <1>t, MailFields
    <3> QED
      BY <1>t, <2>8, <3>1, <3>2 DEF MailInv, Placed, Marked
  <2>12. Unmade' /\ Counted'
    <3>1. Unmade'
      BY <1>t, <2>8 DEF MailInv, Unmade
    <3>2. Counted'
      BY <2>8 DEF MailInv, Counted
    <3> QED
      BY <3>1, <3>2
  <2>13. OwnSignals'
    <3>1. \A t \in Task : kb'.AllocatedSigs[t] = IF t = Me THEN alloc ELSE kb.AllocatedSigs[t]
      BY <1>t, <2>6, <2>8, Fields
    <3>2. \A q \in port'.made : q \in Port /\ PortOwner[q] \in Task /\ (q # p => q \in port.made)
      BY <1>t, <2>8, MailFields, PortAssumption
    <3>3. \A q \in port'.made :
            port'.Signal[q] # {} /\ port'.Signal[q] \subseteq kb'.AllocatedSigs[PortOwner[q]]
      BY <1>t, <2>2, <2>9, <3>1, <3>2 DEF MailInv, OwnSignals
    <3>4. \A q \in port.made : PortOwner[q] = Me => port.Signal[q] \cap lowest = {}
      BY <2>3 DEF MailInv, OwnSignals
    <3>5. \A q, r \in port'.made :
            q # r /\ PortOwner[q] = PortOwner[r] => port'.Signal[q] \cap port'.Signal[r] = {}
      BY <1>t, <2>9, <3>2, <3>4 DEF MailInv, OwnSignals
    <3> QED
      BY <3>3, <3>5 DEF OwnSignals
  <2>14. IInv' /\ WaitersKnown' /\ ToldOfDelete'
    <3>1. \A t \in Task : Inside(t) => /\ wait[t].on \in port'.made
                                       /\ port'.Signal[wait[t].on] = port.Signal[wait[t].on]
      <4>1. \A t \in Task : Inside(t) => wait[t].on \in port.made
        BY DEF MailInv, WaitersKnown
      <4> QED
        BY <1>t, <2>8, <2>9, <4>1, MailFields
    <3> QED
      BY <1>t, <2>1, <2>5, <2>7, <2>8, <3>1, CallKeepsWaiters
  <2>15. Asleeps'
    BY <2>6, <2>8 DEF MailInv, Asleeps, Awaits, Inside
  <2> QED
    BY <2>10, <2>11, <2>12, <2>13, <2>14, <2>15 DEF MailInv
<1> QED
  BY <1>1, <1>2

LEMMA CreateMsgInv ==
  ASSUME MailInv, NEW m \in Msg, CreateMsg(m)
  PROVE  MailInv'
<1>t. /\ mode = "user" /\ Me \in Task /\ MailType /\ Me \notin Port /\ Me # NoItem
      /\ m \in msg.fresh /\ m \notin msg.made /\ msg.Flags[m] = {} /\ msg.Waiters[m] = 0
  BY CallerOutside, PortAssumption DEF CreateMsg, Swi, MailInv, Unmade
<1>1. /\ Return(kb) /\ kb' = kb /\ UNCHANGED <<port, wait>>
      /\ msg' = [msg EXCEPT !.fresh = @ \ {m}, !.made = @ \cup {m}, !.MsgPort[m] = Me]
  BY DEF CreateMsg, Return
<1>2. /\ msg'.fresh = msg.fresh \ {m} /\ msg'.made = msg.made \cup {m}
      /\ msg'.MsgPort = [msg.MsgPort EXCEPT ![m] = Me]
      /\ msg'.Flags = msg.Flags /\ msg'.Waiters = msg.Waiters
  BY <1>t, <1>1 DEF MailType
<1>3. \A n \in Msg : msg'.MsgPort[n] = IF n = m THEN Me ELSE msg.MsgPort[n]
  BY <1>t, <1>2, MailFields
<1>4. MailType'
  BY <1>t, <1>1 DEF MailType
<1>5. Placed'
  BY <1>t, <1>1, <1>2, <1>3 DEF MailInv, Placed
<1>6. Marked'
  <2>1. Me \notin port.made /\ \A n \in msg.made : n \in Msg
    BY <1>t, MailFields
  <2> QED
    BY <1>t, <1>1, <1>2, <1>3, <2>1 DEF MailInv, Marked
<1>7. Unmade'
  <2>1. Me \notin port.fresh /\ msg.fresh \in SUBSET Msg
    BY <1>t DEF MailType
  <2> QED
    BY <1>t, <1>1, <1>2, <1>3, <2>1 DEF MailInv, Unmade
<1>8. OwnSignals'
  BY <1>1 DEF MailInv, OwnSignals
<1>9. IInv' /\ WaitersKnown' /\ ToldOfDelete'
  <2>1. KInv(kb) /\ SameRunner(kb, kb) /\ Asked(kb) /\ Calm(kb, kb)
    BY <1>t DEF MailInv, IInv, SameRunner, Calm, SameFrames
  <2>2. \A t \in Task : Inside(t) => wait[t].on \in port.made
    BY DEF MailInv, WaitersKnown
  <2>3. \A t \in Task : wait[t].msg # m
    BY <1>t DEF MailInv, Unmade
  <2> QED
    BY <1>t, <1>1, <1>2, <2>1, <2>2, <2>3, CallKeepsWaiters
<1>10. Asleeps'
  <2>1. kb.TaskWaitQ \in SUBSET Task /\ \A t \in Task : wait[t].msg # m
    BY <1>t, Fields DEF MailInv, Unmade, IInv, KInv
  <2>2. \A t \in Task : wait[t].msg # NoItem => wait[t].msg \in Msg
    BY <1>t, MailFields
  <2> QED
    BY <1>1, <1>3, <2>1, <2>2 DEF MailInv, Asleeps, Awaits, Inside
<1>11. Counted'
  <2>1. For(wait, Task, m) = {}
    BY <1>t DEF MailInv, Unmade, For
  <2>2. Cardinality(For(wait, Task, m)) = 0
    BY <2>1, FS_EmptySet
  <2>3. \A n \in msg.made : msg.Waiters[n] = Cardinality(For(wait, Task, n))
    BY DEF MailInv, Counted
  <2> QED
    BY <1>t, <1>1, <1>2, <2>2, <2>3 DEF Counted
<1> QED
  BY <1>4, <1>5, <1>6, <1>7, <1>8, <1>9, <1>10, <1>11 DEF MailInv

\* A port that is deleted gives its signal back; only its owner may wait on it,
\* and it does not.
LEMMA DeleteMsgPortInv ==
  ASSUME MailInv, NEW p \in Port, DeleteMsgPort(p)
  PROVE  MailInv'
<1> DEFINE bits == port.Signal[p]
           alloc == kb.AllocatedSigs[Me] \ bits
           k == ClearSignals([kb EXCEPT !.AllocatedSigs[Me] = alloc], Me, bits)
           flags == [m \in Msg |-> IF m \in ToSet(port.Msgs[p]) THEN {} ELSE msg.Flags[m]]
<1>t. /\ mode = "user" /\ Me \in Task /\ wait[Me] = NoWait /\ ~Inside(Me)
      /\ MailType /\ KInv(kb) /\ Asked(kb) /\ Me \notin kb.TaskWaitQ /\ kb \in KernelState
      /\ p \in port.made /\ PortOwner[p] = Me
  BY CallerOutside, RunnerAwake DEF DeleteMsgPort, Swi, MailInv, IInv, KInv
<1>1. /\ Return(k) /\ kb' = k
      /\ msg' = [msg EXCEPT !.Flags = flags]
      /\ port' = [port EXCEPT !.made = @ \ {p}, !.Msgs[p] = <<>>, !.Signal[p] = {}]
      /\ wait' = wait
  BY DEF DeleteMsgPort, Return
<1>2. bits \subseteq UserSigs /\ ABORT \notin bits /\ SuperSigs \cap bits = {}
  BY <1>t, MailFields, SigAssumption
<1>3. alloc \in SUBSET Sig /\ SuperSigs \subseteq alloc /\ kb.SigBits[Me] \ bits \subseteq alloc
  BY <1>t, <1>2, Fields DEF KInv, Allocated
<1>4. flags \in [Msg -> SUBSET {"SENT", "REPLIED"}]
  BY <1>t, MailFields
<1> HIDE DEF alloc, flags
<1>5. KInv(k) /\ SameRunner(kb, k) /\ Asked(k)
  BY <1>t, <1>3, AllocLemma
<1>6. /\ SameFrames(kb, k) /\ k.TaskWaitQ = kb.TaskWaitQ
      /\ k.AllocatedSigs = [kb.AllocatedSigs EXCEPT ![Me] = alloc]
      /\ k.SigBits = [kb.SigBits EXCEPT ![Me] = kb.SigBits[Me] \ bits]
  BY <1>t, AllocFrame
<1> HIDE DEF k
<1>7. Calm(kb, k)
  BY <1>t, <1>2, <1>6, Fields DEF Calm
<1>8. /\ port'.fresh = port.fresh /\ port'.made = port.made \ {p}
      /\ port'.Signal = [port.Signal EXCEPT ![p] = {}]
      /\ port'.Msgs = [port.Msgs EXCEPT ![p] = <<>>]
      /\ msg'.fresh = msg.fresh /\ msg'.made = msg.made /\ msg'.Flags = flags
      /\ msg'.MsgPort = msg.MsgPort /\ msg'.Waiters = msg.Waiters
  BY <1>t, <1>1 DEF MailType
<1>9. /\ \A q \in Port : /\ port'.Signal[q] = IF q = p THEN {} ELSE port.Signal[q]
                         /\ port'.Msgs[q] = IF q = p THEN <<>> ELSE port.Msgs[q]
      /\ \A m \in Msg : msg'.Flags[m] = IF m \in ToSet(port.Msgs[p]) THEN {} ELSE msg.Flags[m]
  BY <1>t, <1>8, MailFields DEF flags
<1>10. MailType'
  <2>1. <<>> \in Seq(Msg)
    BY EmptySeq
  <2> QED
    BY <1>t, <1>1, <1>4, <2>1 DEF MailType
<1>11. Placed'
  <2>1. ToSet(<<>>) = {} /\ IsInjective(<<>>) /\ Sorted(<<>>, MsgPri)
    BY DEF ToSet, IsInjective, Sorted
  <2> QED
    BY <1>8, <1>9, <2>1 DEF MailInv, Placed
<1>12. Marked'
  <2>1. \A m \in msg.made : m \in Msg /\ (m \in ToSet(port.Msgs[p]) <=> msg.MsgPort[m] = p)
    BY <1>t, MailFields DEF MailInv, Placed
  <2> QED
    BY <1>8, <1>9, <2>1 DEF MailInv, Marked
<1>13. Unmade'
  <2>1. \A m \in msg.fresh : m \in Msg
    BY <1>t DEF MailType
  <2> QED
    BY <1>1, <1>8, <1>9, <2>1 DEF MailInv, Unmade
<1>14. Counted'
  BY <1>1, <1>8 DEF MailInv, Counted
<1>15. OwnSignals'
  <2>1. \A t \in Task : kb'.AllocatedSigs[t] = IF t = Me THEN kb.AllocatedSigs[Me] \ bits
                                                        ELSE kb.AllocatedSigs[t]
    BY <1>t, <1>1, <1>6, Fields DEF alloc
  <2>2. \A q \in port'.made : /\ q \in Port /\ PortOwner[q] \in Task /\ q # p /\ q \in port.made
                              /\ port'.Signal[q] = port.Signal[q]
    BY <1>t, <1>8, <1>9, MailFields, PortAssumption
  <2>3. \A q \in port.made : q # p /\ PortOwner[q] = Me => port.Signal[q] \cap bits = {}
    BY <1>t DEF MailInv, OwnSignals
  <2>4. \A q \in port'.made :
          port'.Signal[q] # {} /\ port'.Signal[q] \subseteq kb'.AllocatedSigs[PortOwner[q]]
    BY <2>1, <2>2, <2>3 DEF MailInv, OwnSignals
  <2>5. \A q, r \in port'.made :
          q # r /\ PortOwner[q] = PortOwner[r] => port'.Signal[q] \cap port'.Signal[r] = {}
    BY <2>2 DEF MailInv, OwnSignals
  <2> QED
    BY <2>4, <2>5 DEF OwnSignals
<1>16. \A t \in Task : Inside(t) => wait[t].on \in port.made /\ wait[t].on \in Port /\ wait[t].on # p
  BY <1>t, MailFields DEF MailInv, WaitersKnown
<1>17. IInv' /\ WaitersKnown' /\ ToldOfDelete'
  BY <1>t, <1>1, <1>5, <1>7, <1>8, <1>9, <1>16, CallKeepsWaiters
<1>18. Asleeps'
  <2>1. kb'.TaskWaitQ = kb.TaskWaitQ /\ kb.TaskWaitQ \in SUBSET Task
    BY <1>t, <1>1, <1>6, Fields
  <2> QED
    BY <1>1, <1>8, <1>9, <1>16, <2>1 DEF MailInv, Asleeps, Awaits, Inside
<1> QED
  BY <1>10, <1>11, <1>12, <1>13, <1>14, <1>15, <1>17, <1>18 DEF MailInv

\* Those told of the deletion of a message are its waiters.
LEMMA ToldWaiters ==
  ASSUME MailInv, NEW m \in msg.made
  PROVE  LET told == {t \in Task : wait[t].msg = m /\ msg.Waiters[m] # 0} IN
         /\ told = For(wait, Task, m)
         /\ \A order \in SetToSeqs(told) : order \in Seq(Task)
<1> DEFINE told == {t \in Task : wait[t].msg = m /\ msg.Waiters[m] # 0}
<1>1. IsFiniteSet(For(wait, Task, m))
  BY FS_Subset, TaskAssumption DEF For
<1>2. msg.Waiters[m] = 0 => For(wait, Task, m) = {}
  BY <1>1, FS_EmptySet DEF MailInv, Counted
<1>3. told = For(wait, Task, m)
  BY <1>2 DEF For
<1>4. told \subseteq Task /\ Cardinality(told) \in Nat
  BY <1>1, <1>3, FS_CardinalityType
<1> HIDE DEF told
<1>5. \A order \in SetToSeqs(told) : order \in Seq(Task)
  BY <1>4 DEF SetToSeqs
<1> QED
  BY <1>3, <1>5 DEF told

\* Deleting a message tells exactly those that wait for it.
LEMMA DeleteMsgInv ==
  ASSUME MailInv, NEW m \in Msg, DeleteMsg(m)
  PROVE  MailInv'
<1> DEFINE told == For(wait, Task, m)
           f == [p \in Port |-> Without(port.Msgs[p], m)]
<1>t. /\ mode = "user" /\ Me \in Task /\ wait[Me] = NoWait /\ ~Inside(Me)
      /\ MailType /\ KInv(kb) /\ Asked(kb) /\ m \in msg.made /\ kb.TaskWaitQ \in SUBSET Task
  BY CallerOutside, Fields DEF DeleteMsg, Swi, MailInv, IInv, KInv
<1>1. PICK order \in Seq(Task) : ToSet(order) = told /\ Return(AbortAll(kb, order))
  BY <1>t, ToldWaiters DEF DeleteMsg
<1> DEFINE k == AbortAll(kb, order)
<1>2. KInv(k) /\ Told(kb, k, told)
  BY <1>t, <1>1, AbortAllLemma
<1>3. kb' = k /\ mode' = "swi" /\ Return(k) /\ wait' = wait
  BY <1>1 DEF Return, DeleteMsg
<1> HIDE DEF k
<1>4. /\ Me' = Me /\ kb'.psr = kb.psr /\ kb'.WaitBits = kb.WaitBits
      /\ kb'.AllocatedSigs = kb.AllocatedSigs /\ kb'.TaskWaitQ \subseteq kb.TaskWaitQ
      /\ \A t \in Task : kb'.SigBits[t] = IF t \in told THEN kb.SigBits[t] \cup {ABORT}
                                                       ELSE kb.SigBits[t]
  BY <1>2, <1>3 DEF Told, SameFrames, Me
<1>5. IInv'
  BY <1>t, <1>2, <1>3, ReturnInv DEF Told, MailInv
<1>6. /\ f \in [Port -> Seq(Msg)]
      /\ \A p \in Port : /\ ToSet(f[p]) = ToSet(port.Msgs[p]) \ {m}
                         /\ IsInjective(f[p]) /\ Sorted(f[p], MsgPri)
                         /\ port.Msgs[p] = <<>> => f[p] = <<>>
  BY MsgsWithout
<1>7. /\ port' = [port EXCEPT !.Msgs = f]
      /\ msg' = [msg EXCEPT !.made = @ \ {m}, !.Flags[m] = {"SENT"}, !.MsgPort[m] = NoItem,
                            !.Waiters[m] = 0]
  BY DEF DeleteMsg
<1> HIDE DEF f
<1>8. /\ port'.fresh = port.fresh /\ port'.made = port.made /\ port'.Signal = port.Signal
      /\ port'.Msgs = f
      /\ msg'.fresh = msg.fresh /\ msg'.made = msg.made \ {m}
      /\ msg'.Flags = [msg.Flags EXCEPT ![m] = {"SENT"}]
      /\ msg'.MsgPort = [msg.MsgPort EXCEPT ![m] = NoItem]
      /\ msg'.Waiters = [msg.Waiters EXCEPT ![m] = 0]
  BY <1>t, <1>7 DEF MailType
<1>9. \A n \in Msg : /\ msg'.Flags[n] = IF n = m THEN {"SENT"} ELSE msg.Flags[n]
                     /\ msg'.MsgPort[n] = IF n = m THEN NoItem ELSE msg.MsgPort[n]
                     /\ msg'.Waiters[n] = IF n = m THEN 0 ELSE msg.Waiters[n]
  BY <1>t, <1>8, MailFields
<1>10. MailType'
  BY <1>t, <1>3, <1>6, <1>7 DEF MailType
<1>11. Placed'
  BY <1>6, <1>8, <1>9 DEF MailInv, Placed
<1>12. Marked'
  <2>1. \A n \in msg.made : n \in Msg
    BY <1>t, MailFields
  <2> QED
    BY <1>8, <1>9, <2>1 DEF MailInv, Marked
<1>13. Unmade'
  <2>1. m \notin msg.fresh /\ NoItem \notin port.fresh /\ msg.fresh \in SUBSET Msg
    BY <1>t, PortAssumption DEF MailInv, Unmade, MailType
  <2> QED
    BY <1>3, <1>8, <1>9, <2>1 DEF MailInv, Unmade
<1>14. OwnSignals'
  BY <1>4, <1>8 DEF MailInv, OwnSignals
<1>15. Counted'
  <2>1. \A n \in msg.made : n \in Msg
    BY <1>t, MailFields
  <2> QED
    BY <1>3, <1>8, <1>9, <2>1 DEF MailInv, Counted
<1>16. \A t \in Task : /\ Inside(t)' <=> Inside(t)
                       /\ Away(t)' <=> Away(t)
                       /\ Orphan(t)' <=> Orphan(t) \/ t \in told
                       /\ Inside(t) => Away(t)
  BY <1>t, <1>3, <1>4, <1>8 DEF Inside, Away, Orphan, For
<1>17. WaitersKnown'
  BY <1>3, <1>4, <1>8, <1>16 DEF MailInv, WaitersKnown
<1>18. ToldOfDelete'
  BY <1>4, <1>16 DEF MailInv, ToldOfDelete, Aborted
<1>19. Asleeps'
  <2>1. ASSUME NEW t \in Task, Inside(t), Awaits(t)
        PROVE  Awaits(t)'
    <3>1. wait[t].on \in Port /\ wait[t].msg \in Msg \cup {NoItem}
      BY <1>t, <2>1, MailFields DEF Inside
    <3> QED
      BY <1>3, <1>6, <1>8, <1>9, <2>1, <3>1, PortAssumption DEF Awaits
  <2> QED
    BY <1>t, <1>4, <1>16, <2>1 DEF MailInv, Asleeps
<1> QED
  BY <1>5, <1>10, <1>11, <1>12, <1>13, <1>14, <1>15, <1>17, <1>18, <1>19 DEF MailInv

-----------------------------------------------------------------------------
(* The kernel *)

\* What does not change while the items and what is allocated do not.
LEMMA KernelKeeps ==
  ASSUME MailInv, UNCHANGED mail, kb'.AllocatedSigs = kb.AllocatedSigs,
         kb'.TaskWaitQ = kb.TaskWaitQ
  PROVE  /\ MailType' /\ Placed' /\ Marked' /\ Unmade' /\ OwnSignals' /\ Asleeps' /\ Counted'
         /\ \A t \in Task : /\ Inside(t)' <=> Inside(t)
                            /\ Orphan(t)' <=> Orphan(t)
                            /\ Orphan(t) => Inside(t)
<1>1. port' = port /\ msg' = msg /\ wait' = wait
  BY DEF mail
<1>2. MailType' /\ Placed' /\ Marked' /\ Unmade'
  BY <1>1 DEF MailInv, MailType, Placed, Marked, Unmade
<1>3. OwnSignals' /\ Asleeps' /\ Counted'
  BY <1>1 DEF MailInv, OwnSignals, Asleeps, Inside, Awaits, Counted
<1>4. \A t \in Task : Orphan(t) => Inside(t)
  BY PortAssumption DEF MailInv, WaitersKnown, Inside, Orphan, NoWait
<1> QED
  BY <1>1, <1>2, <1>3, <1>4 DEF Inside, Orphan

\* A task that is launched inside WaitPort goes on there, and finds SIGF_ABORT
\* among what it is given if its message is no more.
LEMMA SwitchInv ==
  ASSUME MailInv, UNCHANGED mail,
         StartNext \/ (SwiRet /\ wait[Me].on = NoItem) \/ FirqReturn
  PROVE  MailInv'
<1>1. IInv /\ IInv'
  BY StartNextInv, SwiRetInv, FirqReturnInv DEF MailInv
<1>2. Me' \in Task /\ port' = port /\ wait' = wait
  BY <1>1 DEF IInv, KInv, Me, mail
<1>3. \A t \in Task : Inside(t) => Away(t)
  <2>1. CASE StartNext
    BY <2>1 DEF StartNext, Away
  <2>2. CASE SwiRet /\ wait[Me].on = NoItem
    BY <2>2 DEF Inside, Away
  <2>3. CASE FirqReturn
    BY <2>3, CallerOutside DEF FirqReturn, Away
  <2> QED
    BY <2>1, <2>2, <2>3
<1>4. \A t \in Task : Orphan(t) <=> ABORT \in kb.SigBits[t]
  BY <1>3 DEF MailInv, ToldOfDelete, Aborted
<1>5. \A t \in Task : Inside(t) => /\ kb.psr[t] = "super"
                                   /\ kb.WaitBits[t] = Awaited(port.Signal[wait[t].on])
                                   /\ ABORT \in kb.WaitBits[t]
  BY <1>3 DEF MailInv, WaitersKnown, Awaited
<1>6. CASE Launched(kb, kb', mode')
  <2>1. kb'.AllocatedSigs = kb.AllocatedSigs /\ kb'.TaskWaitQ = kb.TaskWaitQ
    BY <1>6 DEF Launched
  <2>2. /\ MailType' /\ Placed' /\ Marked' /\ Unmade' /\ OwnSignals' /\ Asleeps' /\ Counted'
        /\ \A t \in Task : /\ Inside(t)' <=> Inside(t)
                           /\ Orphan(t)' <=> Orphan(t)
                           /\ Orphan(t) => Inside(t)
    BY <2>1, KernelKeeps
  <2>3. \A t \in Task : t # Me' => /\ Away(t)'
                                   /\ kb'.psr[t] = kb.psr[t] /\ kb'.WaitBits[t] = kb.WaitBits[t]
                                   /\ kb'.SigBits[t] = kb.SigBits[t]
    BY <1>6 DEF Launched, Away, Me
  <2>4. /\ Inside(Me)' => /\ mode' = "swi"
                          /\ ABORT \in kb'.ret <=> ABORT \in kb.SigBits[Me']
                          /\ ABORT \notin kb'.SigBits[Me']
        /\ kb'.SigBits[Me'] \subseteq kb.SigBits[Me'] /\ mode' \in {"user", "swi"}
    BY <1>2, <1>5, <1>6, <2>2 DEF Launched, Me, Inside
  <2>5. ~Away(Me)' /\ \A t \in Task : Inside(t)' <=> wait[t].on # NoItem
    BY <1>2, <2>4 DEF Away, Inside
  <2>6. WaitersKnown'
    <3>1. \A t \in Task : IF ~Inside(t) THEN wait[t] = NoWait
                          ELSE t # Idle /\ wait[t].on \in port.made /\ PortOwner[wait[t].on] = t
      BY DEF MailInv, WaitersKnown
    <3>2. \A t \in Task : t = Me' /\ Inside(t)' =>
            ~Away(t)' /\ mode' = "swi" /\ ABORT \notin kb'.SigBits[t]
      BY <2>4, <2>5
    <3> QED
      BY <1>2, <1>5, <2>2, <2>3, <3>1, <3>2 DEF WaitersKnown
  <2>7. ToldOfDelete'
    <3>1. \A t \in Task : t # Me' => (Aborted(t)' <=> ABORT \in kb.SigBits[t])
      BY <2>3 DEF Aborted
    <3>2. \A t \in Task : t = Me' => (Aborted(t)' <=> ABORT \in kb.SigBits[t])
      BY <1>4, <2>2, <2>4, <2>5 DEF Aborted
    <3> QED
      BY <1>4, <2>2, <3>1, <3>2 DEF ToldOfDelete
  <2> QED
    BY <1>1, <2>2, <2>6, <2>7 DEF MailInv
<1>7. CASE ~StartNext /\ Frozen(kb, kb') /\ Me' = Me /\ mode' = "user"
  <2>1. /\ MailType' /\ Placed' /\ Marked' /\ Unmade' /\ OwnSignals' /\ Asleeps' /\ Counted'
        /\ \A t \in Task : /\ Inside(t)' <=> Inside(t)
                           /\ Orphan(t)' <=> Orphan(t)
                           /\ Orphan(t) => Inside(t)
    BY <1>7, KernelKeeps DEF Frozen
  <2>2. mode # "blip"
    BY <1>7 DEF SwiRet, FirqReturn
  <2>3. \A t \in Task : Away(t)' <=> Away(t)
    BY <1>7, <2>2 DEF Away
  <2>4. WaitersKnown'
    BY <1>2, <1>3, <1>7, <2>1, <2>3 DEF MailInv, WaitersKnown, Frozen
  <2>5. ToldOfDelete'
    BY <1>3, <1>4, <1>7, <2>1, <2>3 DEF ToldOfDelete, Aborted, Frozen
  <2> QED
    BY <1>1, <2>1, <2>4, <2>5 DEF MailInv
<1> QED
  BY <1>1, <1>6, <1>7, SwitchFrame

\* The end of a quantum disturbs no waiter.
LEMMA PreemptInv ==
  ASSUME MailInv, Preempt
  PROVE  MailInv'
<1>1. kb \in KernelState /\ IInv'
  BY FirqQuantumInv DEF MailInv, IInv, KInv, Preempt
<1>2. /\ SameFrames(kb, kb') /\ kb'.SigBits = kb.SigBits /\ kb'.ret = kb.ret
      /\ kb'.AllocatedSigs = kb.AllocatedSigs /\ kb'.TaskWaitQ = kb.TaskWaitQ
      /\ UNCHANGED mail
  BY <1>1 DEF Preempt, FirqQuantum, cblank, KernelState, SameFrames
<1>3. /\ MailType' /\ Placed' /\ Marked' /\ Unmade' /\ OwnSignals' /\ Asleeps' /\ Counted'
      /\ \A t \in Task : /\ Inside(t)' <=> Inside(t)
                         /\ Orphan(t)' <=> Orphan(t)
                         /\ Orphan(t) => Inside(t)
  BY <1>2, KernelKeeps
<1>4. Me' = Me /\ (mode' = "blip" <=> mode = "blip") /\ (mode = "swi" => mode' = "swi")
  BY <1>2 DEF Preempt, FirqQuantum, FirqMode, SameFrames, Me
<1>5. \A t \in Task : Away(t)' <=> Away(t)
  BY <1>4 DEF Away
<1>6. WaitersKnown'
  BY <1>2, <1>3, <1>4, <1>5 DEF MailInv, WaitersKnown, SameFrames, mail
<1>7. ToldOfDelete'
  BY <1>2, <1>3, <1>5 DEF MailInv, ToldOfDelete, Aborted
<1> QED
  BY <1>1, <1>3, <1>6, <1>7 DEF MailInv

-----------------------------------------------------------------------------
(* The theorems *)

\* Every step of the tasks and the kernel keeps the invariant.
LEMMA NextMail == MailInv /\ [MailNext]_mailVars => MailInv'
<1> SUFFICES ASSUME MailInv, [MailNext]_mailVars PROVE MailInv'
  OBVIOUS
<1>1. CASE MailSwi
  BY <1>1, CreateMsgPortInv, DeleteMsgPortInv, GetMsgInv, PutMsgInv, WaitPortInv,
     CreateMsgInv, DeleteMsgInv, GetThisMsgInv, ReplyMsgInv DEF MailSwi
<1>2. CASE Kernel
  BY <1>2, WaitReturnInv, SwitchInv DEF Kernel
<1>3. CASE Preempt
  BY <1>3, PreemptInv
<1>4. CASE UNCHANGED mailVars
  <2>1. UNCHANGED <<kb, mode, port, msg, wait>>
    BY <1>4 DEF mailVars, vars, mail
  <2>2. IInv' /\ MailType' /\ Placed' /\ Marked' /\ Unmade' /\ OwnSignals'
    BY <2>1 DEF MailInv, IInv, MailType, Placed, Marked, Unmade, OwnSignals
  <2>3. WaitersKnown' /\ Asleeps' /\ ToldOfDelete' /\ Counted'
    BY <2>1 DEF MailInv, WaitersKnown, Asleeps, ToldOfDelete, Counted, Inside, Away, Me,
                Awaits, Orphan, Aborted
  <2> QED
    BY <2>2, <2>3 DEF MailInv
<1> QED
  BY <1>1, <1>2, <1>3, <1>4 DEF MailNext

\* What the code relies on in every state: MailInv is an invariant.
THEOREM MailInvariance == MailSpec => []MailInv
<1> QED
  BY InitMail, NextMail, PTL DEF MailSpec

\* A message is on the port that msg_MsgPort names if MESSAGE_SENT is set, and
\* on none if it is not, so that taking it off its list on the strength of the
\* flag is safe; the queues are sorted and hold only messages that exist.
THEOREM MsgPlacedHolds == MailSpec => []MsgPlaced
<1>1. ASSUME MailInv PROVE MsgPlaced
  <2>t. MailType
    BY <1>1 DEF MailInv
  <2>1. ASSUME NEW m \in msg.made
        PROVE  LET on == {p \in Port : m \in ToSet(port.Msgs[p])} IN
               /\ IF "SENT" \in msg.Flags[m] THEN on = {msg.MsgPort[m]} /\ on \subseteq port.made
                  ELSE on = {} /\ msg.Flags[m] = {}
               /\ "REPLIED" \in msg.Flags[m] => on = {ReplyPort[m]}
               /\ \A p \in on : IsInjective(port.Msgs[p])
    <3> DEFINE on == {p \in Port : m \in ToSet(port.Msgs[p])}
    <3>1. m \in Msg /\ msg.Flags[m] \subseteq {"SENT", "REPLIED"} /\ port.made \subseteq Port
      BY <2>t, MailFields
    <3>2. /\ "SENT" \in msg.Flags[m] <=> msg.MsgPort[m] \in port.made
          /\ "REPLIED" \in msg.Flags[m] => "SENT" \in msg.Flags[m] /\ msg.MsgPort[m] = ReplyPort[m]
      BY <1>1 DEF MailInv, Marked
    <3>3. \A p \in Port : /\ p \in on <=> p \in port.made /\ msg.MsgPort[m] = p
                          /\ IsInjective(port.Msgs[p])
      BY <1>1, <3>1 DEF MailInv, Placed
    <3>4. on \subseteq Port
      OBVIOUS
    <3> HIDE DEF on
    <3>5. CASE "SENT" \in msg.Flags[m]
      <4>1. on = {msg.MsgPort[m]} /\ on \subseteq port.made
        BY <3>1, <3>2, <3>3, <3>4, <3>5
      <4> QED
        BY <3>2, <3>3, <3>4, <3>5, <4>1 DEF on
    <3>6. CASE "SENT" \notin msg.Flags[m]
      <4>1. on = {} /\ msg.Flags[m] = {}
        BY <3>1, <3>2, <3>3, <3>4, <3>6
      <4> QED
        BY <3>6, <4>1 DEF on
    <3> QED
      BY <3>5, <3>6
  <2>2. \A p \in Port : Sorted(port.Msgs[p], MsgPri) /\ ToSet(port.Msgs[p]) \subseteq msg.made
    <3>1. \A p \in Port : ToSet(port.Msgs[p]) \subseteq Msg
      BY <2>t, MailFields, LenProperties, ElementOfSeq DEF ToSet
    <3> QED
      BY <1>1, <3>1 DEF MailInv, Placed
  <2> QED
    BY <2>1, <2>2 DEF MsgPlaced
<1> QED
  BY <1>1, MailInvariance, PTL

\* A task that sleeps in WaitPort has missed nothing: there is no message for
\* it, its port still has the signal it waits for, and the message it waits
\* for has not been deleted.
THEOREM NoneMissedHolds == MailSpec => []NoneMissed
<1>1. ASSUME MailInv PROVE NoneMissed
  <2>1. SUFFICES ASSUME NEW t \in Task, Sleeps(t)
                 PROVE  /\ wait[t].on \in port.made
                        /\ port.Signal[wait[t].on] \subseteq kb.WaitBits[t] \cap kb.AllocatedSigs[t]
                        /\ IF wait[t].msg = NoItem THEN port.Msgs[wait[t].on] = <<>>
                           ELSE wait[t].msg \in msg.made /\ msg.MsgPort[wait[t].msg] # wait[t].on
    BY DEF NoneMissed
  <2>2. MailType /\ IInv /\ t \in kb.TaskWaitQ /\ Inside(t) /\ Awaits(t)
    BY <1>1, <2>1 DEF Sleeps, Inside, MailInv, Asleeps
  <2>3. Away(t)
    BY <2>2, RunnerAwake DEF Away
  <2>4. /\ wait[t].on \in port.made
        /\ kb.WaitBits[t] = Awaited(port.Signal[wait[t].on])
    BY <1>1, <2>2, <2>3 DEF MailInv, WaitersKnown
  <2>5. /\ kb.SigBits[t] \cap kb.WaitBits[t] = {} /\ ABORT \in kb.WaitBits[t]
        /\ kb.WaitBits[t] \subseteq kb.AllocatedSigs[t]
    BY <2>2 DEF IInv, KInv, Asleep
  <2>6. ~Orphan(t)
    BY <1>1, <2>3, <2>5 DEF MailInv, ToldOfDelete, Aborted
  <2>7. wait[t].msg \in msg.made \cup {NoItem}
    BY <2>2, <2>6, MailFields DEF Orphan
  <2> QED
    BY <2>2, <2>4, <2>5, <2>7 DEF Awaits, Awaited
<1> QED
  BY <1>1, MailInvariance, PTL
=============================================================================

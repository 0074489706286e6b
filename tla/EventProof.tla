----------------------------- MODULE EventProof -----------------------------
(***************************************************************************)
(* Proofs about the event broker, for every set of programs, whatever they *)
(* ask for, and queues of any length.                                      *)
(***************************************************************************)
EXTENDS EventBroker, SequenceLemmas

-----------------------------------------------------------------------------
(* The inductive invariant *)

Listener ==
  [category : Category, triggers : SUBSET Trigger, QueueMax : Nat,
   QueueOutstanding : Int, HasFocus : BOOLEAN, ToldFocus : BOOLEAN,
   LostEvents : BOOLEAN, ReportPortChange : BOOLEAN, NewlyInitialized : BOOLEAN]

Knowledge ==
  [focus : {"yes", "no", "unsure"}, missed : SUBSET {"event", "portchange"}]

BrokerType ==
  /\ open \in SUBSET Port /\ asked \in SUBSET Port
  /\ em \in [Kind -> Nat] /\ li \in [Port -> Listener]
  /\ focusListener \in Port \cup {NoPort} /\ portChanged \in BOOLEAN
  /\ tour \in [events : SUBSET Event, rest : Seq(Port), to : Port \cup {NoPort},
               frames : SUBSET (Trigger \cup {"overflow"})]
  /\ known \in [Port -> Knowledge]

\* A tour goes through listeners that are on the list.
Lists ==
  /\ listenerList \in Seq(Port) /\ IsInjective(listenerList)
  /\ IsInjective(tour.rest) /\ ToSet(tour.rest) \subseteq ToSet(listenerList)
  /\ tour.to # NoPort => tour.rest # <<>> /\ tour.to = Head(tour.rest)

\* What is not on the list has no messages out, and was sent none.
Unlisted(p) == ~Listens(p) => li[p].QueueOutstanding = 0 /\ known[p] = Ignorant

\* A listener that was not configured has no triggers, and was sent nothing.
Unconfigured(l, k) ==
  l.NewlyInitialized => /\ l.category = "NoSeeUm" /\ l.triggers = {}
                        /\ ~l.ToldFocus /\ k = Ignorant

Holds(p) == li[p].HasFocus <=> p = focusListener

OutTo(p) == [at |-> "out", to |-> p, orphan |-> FALSE]
GoneTo(p) == [at |-> "gone", to |-> p, orphan |-> FALSE]

Accounted(p) ==
  em[OutTo(p)] + em[GoneTo(p)] = li[p].QueueOutstanding

\* The broker's notes of what was missed.
Noted(l, k, changed) ==
  /\ "event" \in k.missed => l.LostEvents
  /\ "portchange" \in k.missed => "portchange" \in l.triggers
  /\ "portchange" \in k.missed => l.ReportPortChange \/ changed

\* li_ToldFocus is what the program believes, if it is told of both changes.
Believes(l, k) ==
  \/ k.focus = "unsure"
  \/ k.focus = "yes" /\ l.ToldFocus
  \/ k.focus = "no" /\ ~l.ToldFocus

Told(l, k) ==
  {"giving", "losing"} \subseteq l.triggers => l.LostEvents \/ Believes(l, k)

\* The message that is being made for a listener says what is noted.
Tells(l, k, frames) ==
  /\ "overflow" \in frames <=> l.LostEvents
  /\ "portchange" \in frames <=> l.ReportPortChange /\ "portchange" \in l.triggers
  /\ "giving" \in frames => l.ToldFocus
  /\ "losing" \in frames => ~l.ToldFocus
  /\ frames \cap {"giving", "losing"} = {} => Told(l, k)

Informed(p) ==
  /\ Noted(li[p], known[p], portChanged)
  /\ tour.to # p => Told(li[p], known[p])
  /\ tour.to = p => ~li[p].NewlyInitialized /\ Tells(li[p], known[p], tour.frames)

PortGood(p) ==
  /\ Unlisted(p) /\ Unconfigured(li[p], known[p])
  /\ Holds(p) /\ Accounted(p) /\ Informed(p)

BrokerInv == BrokerType /\ Lists /\ \A p \in Port : PortGood(p)

-----------------------------------------------------------------------------
(* The list *)

\* Removing a listener that is on the list.
LEMMA RemoveListener ==
  ASSUME NEW q \in Seq(Port), NEW p \in ToSet(q), IsInjective(q)
  PROVE  /\ RemoveNode(q, p) \in Seq(Port) /\ IsInjective(RemoveNode(q, p))
         /\ ToSet(RemoveNode(q, p)) = ToSet(q) \ {p}
<1> DEFINE n == CHOOSE i \in DOMAIN q : q[i] = p
<1>1. n \in DOMAIN q /\ q[n] = p
  BY DEF ToSet
<1>2. n \in 1..Len(q) /\ RemoveNode(q, p) = RemoveAt(q, n)
  BY <1>1, LenProperties DEF RemoveNode
<1> HIDE DEF n
<1> QED
  BY <1>1, <1>2, RemoveAtLemma, RemoveAtSet

\* A listener that moves, or comes, to the head.
LEMMA AtHeadList ==
  ASSUME Lists, NEW p \in Port
  PROVE  /\ AtHead(p) \in Seq(Port) /\ IsInjective(AtHead(p))
         /\ ToSet(AtHead(p)) = ToSet(listenerList) \cup {p}
<1> DEFINE rest == IF Listens(p) THEN RemoveNode(listenerList, p) ELSE listenerList
           one == <<p>>
<1>1. /\ rest \in Seq(Port) /\ IsInjective(rest)
      /\ ToSet(rest) = ToSet(listenerList) \ {p}
  <2>1. CASE Listens(p)
    BY <2>1, RemoveListener DEF Listens, Lists
  <2>2. CASE ~Listens(p)
    BY <2>2 DEF Listens, Lists
  <2> QED
    BY <2>1, <2>2
<1>2. one \in Seq(Port) /\ IsInjective(one) /\ ToSet(one) = {p}
  BY DEF IsInjective, ToSet
<1>3. AtHead(p) = one \o rest
  BY DEF AtHead
<1> HIDE DEF one, rest
<1>4. ToSet(one) \cap ToSet(rest) = {}
  BY <1>1, <1>2
<1>5. /\ one \o rest \in Seq(Port) /\ IsInjective(one \o rest)
      /\ ToSet(one \o rest) = ToSet(one) \cup ToSet(rest)
  BY <1>1, <1>2, <1>4, ConcatSet
<1> QED
  BY <1>1, <1>2, <1>3, <1>5

\* Who gets the focus of a listener that is killed.
Heir(list) ==
  IF Takers(list) = {} THEN NoPort
  ELSE list[CHOOSE i \in Takers(list) : \A j \in Takers(list) : i <= j]

LEMMA HeirListed ==
  ASSUME NEW q \in Seq(Port)
  PROVE  Heir(q) \in ToSet(q) \cup {NoPort}
<1>1. CASE Takers(q) = {}
  BY <1>1 DEF Heir
<1>2. CASE Takers(q) # {}
  <2>1. Takers(q) \in SUBSET Nat /\ Takers(q) \subseteq DOMAIN q
    BY LenProperties DEF Takers
  <2>2. \E i \in Takers(q) : \A j \in Takers(q) : i <= j
    BY <1>2, <2>1, LeastNumber
  <2> DEFINE n == CHOOSE i \in Takers(q) : \A j \in Takers(q) : i <= j
  <2>3. n \in Takers(q)
    BY <2>2
  <2>4. Heir(q) = q[n]
    BY <1>2 DEF Heir
  <2> HIDE DEF n
  <2> QED
    BY <2>1, <2>3, <2>4 DEF ToSet
<1> QED
  BY <1>1, <1>2

\* The tour goes on to the rest of its listeners.
LEMMA VisitedList ==
  ASSUME BrokerType, Lists, ~Idle, Visited
  PROVE  /\ tour' \in [events : SUBSET Event, rest : Seq(Port), to : Port \cup {NoPort},
                       frames : SUBSET (Trigger \cup {"overflow"})]
         /\ IsInjective(tour'.rest)
         /\ ToSet(tour'.rest) \subseteq ToSet(tour.rest) \ {Head(tour.rest)}
         /\ tour'.to = NoPort
<1> DEFINE r == tour.rest
<1>1. r \in Seq(Port) /\ r # <<>> /\ IsInjective(r) /\ tour.events \in SUBSET Event
  BY DEF BrokerType, Lists, Idle
<1>2. Tail(r) \in Seq(Port) /\ IsInjective(Tail(r)) /\ ToSet(Tail(r)) = ToSet(r) \ {Head(r)}
  BY <1>1, TailSet
<1>3. <<>> \in Seq(Port) /\ IsInjective(<<>>) /\ ToSet(<<>>) = {}
  BY DEF IsInjective, ToSet
<1> HIDE DEF r
<1>4. CASE tour' = NoTour
  <2>1. tour' = [events |-> {}, rest |-> <<>>, to |-> NoPort, frames |-> {}]
    BY <1>4 DEF NoTour
  <2> QED
    BY <1>3, <2>1
<1>5. CASE tour' = [NoTour EXCEPT !.events = tour.events, !.rest = Tail(r)]
  <2>1. tour' = [events |-> tour.events, rest |-> Tail(r), to |-> NoPort, frames |-> {}]
    BY <1>5, Zenon DEF NoTour
  <2> QED
    BY <1>1, <1>2, <2>1 DEF r
<1> QED
  BY <1>4, <1>5 DEF Visited, r

-----------------------------------------------------------------------------
(* What a step leaves alone *)

\* Two records of a listener that differ in the focus, and in what is not read here.
Alike(l, m) ==
  /\ l.category = m.category /\ l.triggers = m.triggers
  /\ l.QueueOutstanding = m.QueueOutstanding /\ l.ToldFocus = m.ToldFocus
  /\ l.LostEvents = m.LostEvents /\ l.ReportPortChange = m.ReportPortChange
  /\ l.NewlyInitialized = m.NewlyInitialized

SameMessages(q) == em'[OutTo(q)] = em[OutTo(q)] /\ em'[GoneTo(q)] = em[GoneTo(q)]

LEMMA OthersGood ==
  ASSUME NEW q \in Port, PortGood(q), Alike(li'[q], li[q]), known'[q] = known[q],
         SameMessages(q), portChanged' = portChanged, Listens(q) => Listens(q)',
         tour.to # q, tour'.to # q, Holds(q)'
  PROVE  PortGood(q)'
<1>1. Unlisted(q)' /\ Unconfigured(li[q], known[q])' /\ Accounted(q)'
  BY DEF PortGood, Unlisted, Unconfigured, Accounted, SameMessages, Alike, OutTo, GoneTo
<1>2. Informed(q)'
  BY DEF PortGood, Informed, Noted, Told, Believes, Alike
<1> QED
  BY <1>1, <1>2 DEF PortGood

\* The kinds of messages that count for a listener.
LEMMA KindsOf ==
  ASSUME NEW p \in Port
  PROVE  /\ OutTo(p) \in Kind /\ GoneTo(p) \in Kind /\ OutTo(p) # GoneTo(p)
         /\ OutTo(p).to = p /\ GoneTo(p).to = p
         /\ \A q \in Port : q # p => OutTo(q) # OutTo(p) /\ GoneTo(q) # GoneTo(p)
                                   /\ OutTo(q) # GoneTo(p) /\ GoneTo(q) # OutTo(p)
<1>1. /\ OutTo(p) \in Kind /\ GoneTo(p) \in Kind
      /\ OutTo(p).at = "out" /\ GoneTo(p).at = "gone"
  BY DEF OutTo, GoneTo, Kind
<1>2. \A q \in Port : OutTo(q).to = q /\ GoneTo(q).to = q
  BY DEF OutTo, GoneTo
<1> QED
  BY <1>1, <1>2

\* A new listener and one who knows nothing.
LEMMA FreshType ==
  ASSUME BrokerAssumption
  PROVE  /\ NewListener \in Listener /\ Ignorant \in Knowledge
         /\ Unconfigured(NewListener, Ignorant)
         /\ \A c \in BOOLEAN : Noted(NewListener, Ignorant, c)
         /\ Told(NewListener, Ignorant)
         /\ NewListener.QueueOutstanding = 0 /\ NewListener.HasFocus = FALSE
<1>1. NewListener \in Listener /\ Ignorant \in Knowledge
  BY DEF NewListener, Listener, Category, BrokerAssumption, Ignorant, Knowledge
<1>2. /\ Unconfigured(NewListener, Ignorant)
      /\ NewListener.QueueOutstanding = 0 /\ NewListener.HasFocus = FALSE
      /\ NewListener.triggers = {}
  BY DEF NewListener, Unconfigured
<1>3. \A c \in BOOLEAN : Noted(NewListener, Ignorant, c)
  BY DEF Noted, Ignorant
<1>4. Told(NewListener, Ignorant)
  BY <1>2 DEF Told
<1> QED
  BY <1>1, <1>2, <1>3, <1>4

-----------------------------------------------------------------------------
(* A tour *)

\* A listener that is killed has no messages out any more.
LEMMA OrphanedMessages ==
  ASSUME BrokerType, NEW p \in Port, em' = Orphaned(p)
  PROVE  /\ em' \in [Kind -> Nat]
         /\ em'[OutTo(p)] = 0 /\ em'[GoneTo(p)] = 0
         /\ \A q \in Port \ {p} : SameMessages(q)
<1>1. em \in [Kind -> Nat]
  BY DEF BrokerType
<1>2. \A k \in Kind : [k EXCEPT !.orphan = FALSE] \in Kind /\ k.orphan \in BOOLEAN
  BY DEF Kind
<1>a. em' = [k \in Kind |-> em'[k]]
  BY DEF Orphaned
<1>b. ASSUME NEW k \in Kind, k.to # p PROVE em'[k] = em[k]
  BY <1>b DEF Orphaned
<1>c. \A k \in Kind : k.to = p /\ k.orphan =>
                      em'[k] = em[k] + em[[k EXCEPT !.orphan = FALSE]]
  BY DEF Orphaned
<1>d. \A k \in Kind : k.to = p /\ ~k.orphan => em'[k] = 0
  BY DEF Orphaned
<1>4. em' \in [Kind -> Nat]
  <2>1. ASSUME NEW k \in Kind PROVE em'[k] \in Nat
    <3>1. CASE k.to # p
      BY <1>1, <1>b, <3>1
    <3>2. CASE k.to = p /\ k.orphan
      <4> DEFINE m == [k EXCEPT !.orphan = FALSE]
      <4>1. m \in Kind
        BY <1>2
      <4>2. em'[k] = em[k] + em[m]
        BY <1>c, <3>2
      <4> HIDE DEF m
      <4> QED
        BY <1>1, <4>1, <4>2
    <3>3. CASE k.to = p /\ ~k.orphan
      BY <1>d, <3>3
    <3> QED
      BY <3>1, <3>2, <3>3
  <2> QED
    BY <1>a, <2>1
<1>5. \A q \in Port : /\ OutTo(q) \in Kind /\ GoneTo(q) \in Kind
                      /\ OutTo(q).to = q /\ GoneTo(q).to = q
                      /\ ~OutTo(q).orphan /\ ~GoneTo(q).orphan
  BY KindsOf DEF OutTo, GoneTo
<1>6. em'[OutTo(p)] = 0 /\ em'[GoneTo(p)] = 0
  BY <1>d, <1>5
<1>7. ASSUME NEW q \in Port \ {p} PROVE SameMessages(q)
  BY <1>b, <1>5 DEF SameMessages
<1> QED
  BY <1>4, <1>6, <1>7

\* The next listener of a tour is killed.
LEMMA KillGood ==
  ASSUME BrokerAssumption, BrokerInv, NEW p \in Port, ~Idle, p = Head(tour.rest),
         KillListener(p), em' = Orphaned(p), Visited,
         tour.to \in {p, NoPort}, UNCHANGED <<open, asked, portChanged>>
  PROVE  BrokerInv'
<1> DEFINE left == RemoveNode(listenerList, p)
           heir == Heir(left)
           freed == [li EXCEPT ![p] = NewListener]
<1>1. /\ BrokerType /\ Lists /\ \A q \in Port : PortGood(q)
  BY DEF BrokerInv
<1>2. p \in ToSet(listenerList) /\ NoPort \notin Port
  <2>1. tour.rest \in Seq(Port) /\ tour.rest # <<>> /\ IsInjective(tour.rest)
    BY <1>1 DEF BrokerType, Lists, Idle
  <2> QED
    BY <1>1, <2>1, TailSet DEF Lists, BrokerAssumption
<1>3. /\ left \in Seq(Port) /\ IsInjective(left)
      /\ ToSet(left) = ToSet(listenerList) \ {p}
  BY <1>1, <1>2, RemoveListener DEF Lists
<1>4. heir \in ToSet(left) \cup {NoPort} /\ heir # p /\ heir \in Port \cup {NoPort}
  <2>1. ToSet(left) \subseteq Port
    BY <1>3 DEF ToSet
  <2> QED
    BY <1>2, <1>3, <2>1, HeirListed
<1>5. listenerList' = left /\ known' = [known EXCEPT ![p] = Ignorant]
  BY DEF KillListener
<1>6. /\ p # focusListener => li' = freed /\ focusListener' = focusListener
      /\ p = focusListener =>
           /\ focusListener' = heir
           /\ heir = NoPort => li' = freed
           /\ heir # NoPort => li' = [freed EXCEPT ![heir].HasFocus = TRUE]
  BY DEF KillListener, Heir
<1> HIDE DEF left, heir
<1>7. /\ li \in [Port -> Listener] /\ freed \in [Port -> Listener]
      /\ freed[p] = NewListener /\ \A q \in Port \ {p} : freed[q] = li[q]
  BY <1>1, FreshType DEF BrokerType
<1> HIDE DEF freed
<1>8. /\ li' \in [Port -> Listener] /\ li'[p] = NewListener
      /\ \A q \in Port \ {p} : /\ Alike(li'[q], li[q])
                               /\ li'[q].HasFocus <=> q = focusListener'
  <2>1. CASE li' = freed /\ focusListener' \notin Port \ {p} /\ focusListener \notin Port \ {p}
    <3>1. \A q \in Port \ {p} : ~li[q].HasFocus
      BY <1>1, <2>1 DEF PortGood, Holds
    <3> QED
      BY <1>7, <2>1, <3>1 DEF Alike
  <2>2. CASE li' = freed /\ focusListener' = focusListener
    <3>1. \A q \in Port \ {p} : li[q].HasFocus <=> q = focusListener
      BY <1>1 DEF PortGood, Holds
    <3> QED
      BY <1>7, <2>2, <3>1 DEF Alike
  <2>3. CASE p = focusListener /\ heir # NoPort
    <3>1. heir \in Port \ {p} /\ focusListener' = heir
          /\ li' = [freed EXCEPT ![heir].HasFocus = TRUE]
      BY <1>4, <1>6, <2>3
    <3>2. \A q \in Port \ {p} : ~li[q].HasFocus
      BY <1>1, <2>3 DEF PortGood, Holds
    <3>3. /\ li' \in [Port -> Listener] /\ li'[p] = NewListener
          /\ \A q \in Port \ {p, heir} : li'[q] = li[q]
          /\ li'[heir] = [li[heir] EXCEPT !.HasFocus = TRUE]
      <4>1. freed[heir] = li[heir] /\ li[heir] \in Listener
        BY <1>7, <3>1
      <4>2. [li[heir] EXCEPT !.HasFocus = TRUE] \in Listener
        BY <4>1 DEF Listener
      <4>3. li' = [freed EXCEPT ![heir] = [li[heir] EXCEPT !.HasFocus = TRUE]]
        BY <3>1, <4>1
      <4> DEFINE l == [li[heir] EXCEPT !.HasFocus = TRUE]
      <4> HIDE DEF l
      <4>4. l \in Listener /\ li' = [freed EXCEPT ![heir] = l]
        BY <4>2, <4>3 DEF l
      <4>5. /\ li' \in [Port -> Listener] /\ li'[p] = NewListener /\ li'[heir] = l
            /\ \A q \in Port \ {p, heir} : li'[q] = li[q]
        <5>1. \A q \in Port : li'[q] = IF q = heir THEN l ELSE freed[q]
          BY <1>7, <4>4
        <5>2. li' \in [Port -> Listener]
          BY <1>7, <4>4
        <5> QED
          BY <1>2, <1>7, <3>1, <5>1, <5>2
      <4> QED
        BY <4>5 DEF l
    <3>4. li[heir] \in Listener
      BY <1>7, <3>1
    <3>5. Alike(li'[heir], li[heir]) /\ li'[heir].HasFocus
      BY <3>3, <3>4 DEF Alike, Listener
    <3> QED
      BY <3>1, <3>2, <3>3, <3>5 DEF Alike
  <2> QED
    BY <1>2, <1>6, <2>1, <2>2, <2>3
<1>9. focusListener' # p /\ focusListener' \in Port \cup {NoPort}
  BY <1>1, <1>4, <1>6 DEF BrokerType
<1>10. /\ em' \in [Kind -> Nat] /\ em'[OutTo(p)] = 0 /\ em'[GoneTo(p)] = 0
       /\ \A q \in Port \ {p} : SameMessages(q)
  BY <1>1, OrphanedMessages
<1>11. /\ known' \in [Port -> Knowledge] /\ known'[p] = Ignorant
       /\ \A q \in Port \ {p} : known'[q] = known[q]
  BY <1>1, <1>5, FreshType DEF BrokerType
<1>12. /\ tour' \in [events : SUBSET Event, rest : Seq(Port), to : Port \cup {NoPort},
                      frames : SUBSET (Trigger \cup {"overflow"})]
       /\ IsInjective(tour'.rest) /\ tour'.to = NoPort
       /\ ToSet(tour'.rest) \subseteq ToSet(tour.rest) \ {p}
  BY <1>1, VisitedList
<1>13. BrokerType'
  BY <1>1, <1>8, <1>9, <1>10, <1>11, <1>12 DEF BrokerType
<1>14. Lists'
  BY <1>1, <1>3, <1>5, <1>12 DEF Lists
<1>15. ASSUME NEW q \in Port PROVE PortGood(q)'
  <2>1. CASE q = p
    <3>1. li'[p] = NewListener /\ known'[p] = Ignorant /\ tour'.to # p /\ portChanged' \in BOOLEAN
      BY <1>1, <1>2, <1>8, <1>11, <1>12 DEF BrokerType
    <3>2. Informed(p)' /\ Unconfigured(li[p], known[p])'
      BY <3>1, FreshType DEF Informed
    <3>3. Holds(p)' /\ Accounted(p)' /\ Unlisted(p)'
      <4>1. ~li'[p].HasFocus /\ li'[p].QueueOutstanding = 0
        BY <3>1, FreshType
      <4>2. em'[OutTo(p)] + em'[GoneTo(p)] = 0
        BY <1>10
      <4> QED
        BY <1>9, <3>1, <4>1, <4>2 DEF Holds, Accounted, Unlisted, OutTo, GoneTo
    <3> QED
      BY <2>1, <3>2, <3>3 DEF PortGood
  <2>2. CASE q # p
    <3>1. Listens(q) => Listens(q)'
      BY <1>3, <1>5, <2>2 DEF Listens
    <3>2. Holds(q)' /\ tour.to # q /\ tour'.to # q
      BY <1>2, <1>8, <1>12, <2>2 DEF Holds
    <3> QED
      BY <1>1, <1>8, <1>10, <1>11, <2>2, <3>1, <3>2, OthersGood
  <2> QED
    BY <2>1, <2>2
<1> QED
  BY <1>13, <1>14, <1>15 DEF BrokerInv

\* A step that changes the record of p alone, and what p knows.
LEMMA OneGood ==
  ASSUME BrokerInv, NEW p \in Port,
         \A q \in Port \ {p} : li'[q] = li[q] /\ known'[q] = known[q] /\ SameMessages(q),
         UNCHANGED <<portChanged, listenerList, focusListener>>,
         tour.to \in {p, NoPort}, tour'.to \in {p, NoPort}, NoPort \notin Port
  PROVE  \A q \in Port \ {p} : PortGood(q)'
<1> SUFFICES ASSUME NEW q \in Port, q # p PROVE PortGood(q)'
  OBVIOUS
<1>1. PortGood(q) /\ li'[q] = li[q] /\ known'[q] = known[q] /\ SameMessages(q)
  BY DEF BrokerInv
<1>2. Alike(li'[q], li[q]) /\ Holds(q)' /\ (Listens(q) => Listens(q)')
  BY <1>1 DEF Alike, PortGood, Holds, Listens
<1>3. tour.to # q /\ tour'.to # q
  OBVIOUS
<1> QED
  BY <1>1, <1>2, <1>3, OthersGood

\* What VisitListener puts into a message for p.
FramesFor(p) == BoilerplateEvents(li[p]) \cup (tour.events \cap li[p].triggers)

LEMMA FramesTell ==
  ASSUME BrokerInv, NEW p \in Port, Told(li[p], known[p]), NEW l \in Listener,
         l.triggers = li[p].triggers, l.LostEvents = li[p].LostEvents,
         l.ReportPortChange = li[p].ReportPortChange, l.ToldFocus = li[p].HasFocus
  PROVE  /\ Tells(l, known[p], FramesFor(p))
         /\ FramesFor(p) \in SUBSET (Trigger \cup {"overflow"})
<1> DEFINE frames == FramesFor(p)
<1>1. li[p] \in Listener /\ tour.events \in SUBSET Event
  BY DEF BrokerInv, BrokerType
<1>2. /\ li[p].triggers \in SUBSET Trigger /\ li[p].HasFocus \in BOOLEAN
      /\ li[p].ToldFocus \in BOOLEAN
  BY <1>1 DEF Listener
<1>4. /\ "overflow" \in frames <=> li[p].LostEvents
      /\ "portchange" \in frames <=> li[p].ReportPortChange /\ "portchange" \in li[p].triggers
  BY <1>1, <1>2 DEF FramesFor, BoilerplateEvents, Event, Trigger, FocusFrame
<1>5. /\ "giving" \in frames <=> /\ li[p].HasFocus /\ ~li[p].ToldFocus
                                 /\ "giving" \in li[p].triggers
      /\ "losing" \in frames <=> /\ ~li[p].HasFocus /\ li[p].ToldFocus
                                 /\ "losing" \in li[p].triggers
  BY <1>1, <1>2 DEF FramesFor, BoilerplateEvents, Event, FocusFrame
<1>6. frames \in SUBSET (Trigger \cup {"overflow"})
  BY <1>1, <1>2 DEF FramesFor, BoilerplateEvents
<1>7. ASSUME frames \cap {"giving", "losing"} = {} PROVE Told(l, known[p])
  <2>1. CASE {"giving", "losing"} \subseteq li[p].triggers
    <3>1. l.ToldFocus <=> li[p].ToldFocus
      BY <1>2, <1>5, <1>7, <2>1
    <3> QED
      BY <3>1 DEF Told, Believes
  <2>2. CASE ~({"giving", "losing"} \subseteq li[p].triggers)
    BY <2>2 DEF Told
  <2> QED
    BY <2>1, <2>2
<1> QED
  BY <1>4, <1>5, <1>6, <1>7 DEF Tells

LEMMA VisitGood ==
  ASSUME BrokerAssumption, BrokerInv, VisitListener
  PROVE  BrokerInv'
<1>1. /\ BrokerType /\ Lists /\ \A q \in Port : PortGood(q)
      /\ ~Idle /\ tour.to = NoPort /\ NoPort \notin Port
  BY DEF BrokerInv, VisitListener, BrokerAssumption
<1>2. PICK p \in Port : p = Head(tour.rest) /\ tour.rest # <<>>
  <2>1. tour.rest \in Seq(Port) /\ tour.rest # <<>>
    BY <1>1 DEF BrokerType, Idle
  <2> QED
    BY <2>1, HeadTailProperties
<1> DEFINE l == li[p]
           frames == FramesFor(p)
           told == [l EXCEPT !.ToldFocus = l.HasFocus]
<1>3. CASE p \notin open
  <2>1. KillListener(p) /\ em' = Orphaned(p) /\ Visited /\ UNCHANGED <<open, asked, portChanged>>
    BY <1>2, <1>3 DEF VisitListener
  <2> QED
    BY <1>1, <1>2, <2>1, KillGood
<1>4. CASE p \in open /\ ~TriggerListener(p, l)
  <2>1. /\ Visited
        /\ UNCHANGED <<em, li, listenerList, focusListener, known, open, asked, portChanged>>
    BY <1>2, <1>4 DEF VisitListener
  <2>2. BrokerType' /\ Lists' /\ tour'.to = NoPort
    BY <1>1, <2>1, VisitedList DEF BrokerType, Lists
  <2>3. \A q \in Port : PortGood(q)'
    BY <1>1, <2>1, <2>2 DEF PortGood, Unlisted, Listens, Holds, Accounted, Informed,
       OutTo, GoneTo
  <2> QED
    BY <2>2, <2>3 DEF BrokerInv
<1>5. CASE p \in open /\ TriggerListener(p, l)
  <2>1. /\ li' = [li EXCEPT ![p].ToldFocus = l.HasFocus]
        /\ frames = {} => Visited
        /\ frames # {} => tour' = [tour EXCEPT !.to = p, !.frames = frames]
        /\ UNCHANGED <<em, listenerList, focusListener, known, open, asked, portChanged>>
    BY <1>2, <1>5 DEF VisitListener, FramesFor
  <2>2. /\ l \in Listener /\ known[p] \in Knowledge /\ PortGood(p)
        /\ Told(l, known[p])
    BY <1>1, <1>2 DEF BrokerType, PortGood, Informed
  <2>3. told \in Listener /\ told.ToldFocus = l.HasFocus
    BY <2>2 DEF Listener
  <2>4. /\ told.category = l.category /\ told.triggers = l.triggers
        /\ told.QueueOutstanding = l.QueueOutstanding /\ told.HasFocus = l.HasFocus
        /\ told.LostEvents = l.LostEvents /\ told.ReportPortChange = l.ReportPortChange
        /\ told.NewlyInitialized = l.NewlyInitialized
    BY <2>2 DEF Listener
  <2> HIDE DEF told
  <2>6. li' \in [Port -> Listener] /\ li'[p] = told /\ \A q \in Port \ {p} : li'[q] = li[q]
    <3>1. li' = [li EXCEPT ![p] = told]
      BY <2>1 DEF told
    <3> QED
      BY <1>1, <1>2, <2>3, <3>1 DEF BrokerType
  <2>7. Tells(told, known[p], frames) /\ frames \in SUBSET (Trigger \cup {"overflow"})
    BY <1>2, <2>2, <2>3, <2>4, FramesTell
  <2>8. ~l.NewlyInitialized
    BY <1>5, <2>2 DEF TriggerListener, PortGood, Unconfigured
  <2> HIDE DEF frames
  <2>9. BrokerType' /\ Lists'
    <3>1. CASE frames = {}
      BY <1>1, <2>1, <2>6, <3>1, VisitedList DEF BrokerType, Lists
    <3>2. CASE frames # {}
      <4>1. tour' = [tour EXCEPT !.to = p, !.frames = frames]
        BY <2>1, <3>2
      <4>2. /\ tour' \in [events : SUBSET Event, rest : Seq(Port), to : Port \cup {NoPort},
                          frames : SUBSET (Trigger \cup {"overflow"})]
            /\ tour'.rest = tour.rest /\ tour'.to = p
        BY <1>1, <1>2, <2>7, <4>1 DEF BrokerType
      <4> QED
        BY <1>1, <1>2, <2>1, <2>6, <4>2 DEF BrokerType, Lists
    <3> QED
      BY <3>1, <3>2
  <2>10. tour'.to = NoPort \/ (tour'.to = p /\ tour'.frames = frames)
    <3>1. CASE frames = {}
      BY <1>1, <2>1, <3>1, VisitedList
    <3>2. CASE frames # {}
      BY <1>1, <2>1, <3>2 DEF BrokerType
    <3> QED
      BY <3>1, <3>2
  <2>11. frames = {} => Told(told, known[p])
    BY <2>7 DEF Tells
  <2>12. Told(told, known[p]) \/ tour'.to = p
    <3>1. CASE frames = {}
      BY <2>11, <3>1
    <3>2. CASE frames # {}
      BY <1>1, <2>1, <3>2 DEF BrokerType
    <3> QED
      BY <3>1, <3>2
  <2>13. PortGood(p)'
    <3>1. /\ known'[p] = known[p] /\ portChanged' = portChanged /\ li'[p] = told
          /\ OutTo(p)' = OutTo(p) /\ GoneTo(p)' = GoneTo(p) /\ em' = em
      BY <2>1, <2>6 DEF OutTo, GoneTo
    <3>2. Informed(p)'
      BY <1>1, <1>2, <2>2, <2>4, <2>7, <2>8, <2>10, <2>12, <3>1
      DEF Informed, PortGood, Noted
    <3>3. Unlisted(p)' /\ Accounted(p)' /\ Holds(p)' /\ Unconfigured(li[p], known[p])'
      BY <2>1, <2>2, <2>4, <2>8, <3>1
      DEF PortGood, Unlisted, Listens, Accounted, Holds, Unconfigured
    <3> QED
      BY <3>2, <3>3 DEF PortGood
  <2>14. \A q \in Port \ {p} : PortGood(q)'
    <3>1. \A q \in Port \ {p} : SameMessages(q)
      BY <2>1 DEF SameMessages
    <3>2. tour.to \in {p, NoPort} /\ tour'.to \in {p, NoPort}
      BY <1>1, <2>10
    <3> QED
      BY <1>1, <1>2, <2>1, <2>6, <3>1, <3>2, OneGood
  <2> QED
    BY <2>9, <2>13, <2>14 DEF BrokerInv
<1> QED
  BY <1>3, <1>4, <1>5

\* A message reaches p: what it says is not to be told any more.
LEMMA LearnsGood ==
  ASSUME NEW l \in Listener, NEW k \in Knowledge, NEW changed \in BOOLEAN,
         NEW frames \in SUBSET (Trigger \cup {"overflow"}), NEW m \in Listener,
         Noted(l, k, changed), Tells(l, k, frames),
         ~m.LostEvents, m.triggers = l.triggers, m.ToldFocus = l.ToldFocus
  PROVE  /\ Learns(k, frames) \in Knowledge
         /\ Noted(m, Learns(k, frames), changed)
         /\ Told(m, Learns(k, frames))
<1> DEFINE n == Learns(k, frames)
<1>1. /\ n.missed \subseteq k.missed
      /\ "event" \in n.missed => "event" \in k.missed /\ "overflow" \notin frames
      /\ "portchange" \in n.missed => "portchange" \in k.missed /\ "portchange" \notin frames
      /\ n = [focus |-> n.focus, missed |-> n.missed]
  BY DEF Learns
<1>2. /\ "giving" \in frames => n.focus = "yes"
      /\ "giving" \notin frames /\ "losing" \in frames => n.focus = "no"
      /\ {"giving", "losing"} \cap frames = {} /\ "overflow" \in frames => n.focus = "unsure"
      /\ {"giving", "losing", "overflow"} \cap frames = {} => n.focus = k.focus
  BY DEF Learns
<1> HIDE DEF n
<1>3. n \in Knowledge
  <2>1. n.focus \in {"yes", "no", "unsure"}
    BY <1>2 DEF Knowledge
  <2> QED
    BY <1>1, <2>1 DEF Knowledge
<1>4. Noted(m, n, changed)
  BY <1>1 DEF Noted, Tells
<1>5. ASSUME {"giving", "losing"} \subseteq m.triggers PROVE Believes(m, n)
  <2>1. CASE "giving" \in frames
    BY <1>2, <2>1 DEF Tells, Believes
  <2>2. CASE "giving" \notin frames /\ "losing" \in frames
    BY <1>2, <2>2 DEF Tells, Believes
  <2>3. CASE {"giving", "losing"} \cap frames = {} /\ "overflow" \in frames
    BY <1>2, <2>3 DEF Believes
  <2>4. CASE {"giving", "losing", "overflow"} \cap frames = {}
    <3>1. Told(l, k) /\ ~l.LostEvents
      BY <2>4 DEF Tells
    <3>2. Believes(l, k) /\ n.focus = k.focus
      BY <1>2, <1>5, <2>4, <3>1 DEF Told
    <3> QED
      BY <3>2 DEF Believes
  <2> QED
    BY <2>1, <2>2, <2>3, <2>4
<1> QED
  BY <1>3, <1>4, <1>5 DEF n, Told

\* The record of a listener that was sent a message.
LEMMA SentListener ==
  ASSUME NEW l \in Listener
  PROVE  LET m == [l EXCEPT !.LostEvents = FALSE, !.ReportPortChange = FALSE,
                            !.QueueOutstanding = l.QueueOutstanding + 1]
         IN  /\ m \in Listener /\ m.LostEvents = FALSE /\ m.triggers = l.triggers
             /\ m.ToldFocus = l.ToldFocus
             /\ m.HasFocus = l.HasFocus
             /\ m.NewlyInitialized = l.NewlyInitialized
             /\ m.QueueOutstanding = l.QueueOutstanding + 1
<1> DEFINE n == l.QueueOutstanding + 1
           a == [l EXCEPT !.LostEvents = FALSE]
           b == [a EXCEPT !.ReportPortChange = FALSE]
           m == [b EXCEPT !.QueueOutstanding = n]
<1>1. n \in Int
  BY DEF Listener
<1> HIDE DEF n
<1>2. /\ a \in Listener /\ a.LostEvents = FALSE /\ a.triggers = l.triggers
      /\ a.ToldFocus = l.ToldFocus /\ a.HasFocus = l.HasFocus
      /\ a.NewlyInitialized = l.NewlyInitialized
  BY DEF Listener
<1> HIDE DEF a
<1>3. /\ b \in Listener /\ b.LostEvents = FALSE /\ b.triggers = l.triggers
      /\ b.ToldFocus = l.ToldFocus /\ b.HasFocus = l.HasFocus
      /\ b.NewlyInitialized = l.NewlyInitialized
  BY <1>2 DEF Listener
<1> HIDE DEF b
<1>4. /\ m \in Listener /\ m.LostEvents = FALSE /\ m.triggers = l.triggers
      /\ m.ToldFocus = l.ToldFocus /\ m.HasFocus = l.HasFocus
      /\ m.NewlyInitialized = l.NewlyInitialized /\ m.QueueOutstanding = n
  BY <1>1, <1>3 DEF Listener
<1> QED
  BY <1>4 DEF n, b, a

LEMMA SendGood ==
  ASSUME BrokerAssumption, BrokerInv, NEW p \in Port, SendEventToListener(p)
  PROVE  BrokerInv'
<1> DEFINE l == li[p]
           full == l.QueueOutstanding >= l.QueueMax
           frames == tour.frames
<1>1. /\ BrokerType /\ Lists /\ \A q \in Port : PortGood(q)
      /\ tour.to = p /\ NoPort \notin Port /\ Visited
      /\ UNCHANGED <<open, asked, portChanged>>
  BY DEF BrokerInv, SendEventToListener, BrokerAssumption
<1>2. ~Idle /\ p = Head(tour.rest)
  BY <1>1 DEF Lists, Idle
<1>3. CASE ~full /\ p \notin open
  <2>1. KillListener(p) /\ em' = Orphaned(p)
    BY <1>3 DEF SendEventToListener
  <2> QED
    BY <1>1, <1>2, <2>1, KillGood
<1>4. /\ l \in Listener /\ known[p] \in Knowledge /\ PortGood(p)
      /\ Noted(l, known[p], portChanged) /\ Tells(l, known[p], frames)
      /\ ~l.NewlyInitialized /\ Listens(p) /\ frames \in SUBSET (Trigger \cup {"overflow"})
  <2>1. Listens(p)
    <3>1. tour.rest \in Seq(Port) /\ tour.rest # <<>> /\ IsInjective(tour.rest)
      BY <1>1, <1>2 DEF BrokerType, Lists, Idle
    <3> QED
      BY <1>1, <1>2, <3>1, TailSet DEF Lists, Listens
  <2> QED
    BY <1>1, <2>1 DEF BrokerType, PortGood, Informed
<1>5. /\ tour' \in [events : SUBSET Event, rest : Seq(Port), to : Port \cup {NoPort},
                     frames : SUBSET (Trigger \cup {"overflow"})]
      /\ IsInjective(tour'.rest) /\ tour'.to = NoPort
      /\ ToSet(tour'.rest) \subseteq ToSet(tour.rest)
  BY <1>1, <1>2, VisitedList
\* What is left to show of a step that keeps the listener.
<1>6. ASSUME NEW m \in Listener, NEW k \in Knowledge,
             li' = [li EXCEPT ![p] = m], known' = [known EXCEPT ![p] = k],
             em' \in [Kind -> Nat], \A q \in Port \ {p} : SameMessages(q),
             UNCHANGED <<listenerList, focusListener>>,
             em'[OutTo(p)] + em'[GoneTo(p)] = m.QueueOutstanding,
             m.HasFocus = l.HasFocus, ~m.NewlyInitialized,
             Noted(m, k, portChanged), Told(m, k)
      PROVE  BrokerInv'
  <2>1. li' \in [Port -> Listener] /\ li'[p] = m /\ \A q \in Port \ {p} : li'[q] = li[q]
    BY <1>1, <1>6 DEF BrokerType
  <2>2. known' \in [Port -> Knowledge] /\ known'[p] = k /\ \A q \in Port \ {p} : known'[q] = known[q]
    BY <1>1, <1>6 DEF BrokerType
  <2>3. BrokerType' /\ Lists'
    BY <1>1, <1>5, <1>6, <2>1, <2>2 DEF BrokerType, Lists
  <2>4. \A q \in Port \ {p} : PortGood(q)'
    BY <1>1, <1>5, <1>6, <2>1, <2>2, OneGood
  <2>5. PortGood(p)'
    <3>1. Unlisted(p)' /\ Holds(p)' /\ Accounted(p)' /\ Unconfigured(li[p], known[p])'
      BY <1>4, <1>6, <2>1, <2>2
      DEF PortGood, Unlisted, Listens, Holds, Accounted, Unconfigured, OutTo, GoneTo
    <3>2. Informed(p)'
      BY <1>1, <1>5, <1>6, <2>1, <2>2 DEF Informed
    <3> QED
      BY <3>1, <3>2 DEF PortGood
  <2> QED
    BY <2>3, <2>4, <2>5 DEF BrokerInv
<1>7. CASE full
  <2> DEFINE m == [l EXCEPT !.LostEvents = TRUE]
             k == Misses(known[p], frames)
  <2>1. /\ li' = [li EXCEPT ![p].LostEvents = TRUE] /\ known' = [known EXCEPT ![p] = k]
        /\ UNCHANGED <<em, listenerList, focusListener>>
    BY <1>7 DEF SendEventToListener, Lost
  <2>2. li' = [li EXCEPT ![p] = m]
    BY <2>1
  <2>3. /\ m \in Listener /\ m.LostEvents = TRUE /\ m.triggers = l.triggers
        /\ m.ReportPortChange = l.ReportPortChange /\ m.HasFocus = l.HasFocus
        /\ m.NewlyInitialized = l.NewlyInitialized
        /\ m.QueueOutstanding = l.QueueOutstanding
    BY <1>4 DEF Listener
  <2>4. /\ k \in Knowledge
        /\ "portchange" \in k.missed => "portchange" \in known[p].missed
    BY <1>4 DEF Misses, Knowledge
  <2> HIDE DEF m, k
  <2>5. Noted(m, k, portChanged) /\ Told(m, k)
    BY <1>4, <2>3, <2>4 DEF Noted, Told
  <2>6. em' \in [Kind -> Nat] /\ \A q \in Port : SameMessages(q)
    BY <1>1, <2>1 DEF BrokerType, SameMessages
  <2>7. em'[OutTo(p)] + em'[GoneTo(p)] = m.QueueOutstanding
    BY <1>4, <2>1, <2>3 DEF PortGood, Accounted
  <2> QED
    BY <1>4, <1>6, <2>1, <2>2, <2>3, <2>4, <2>5, <2>6, <2>7
<1>8. CASE ~full /\ p \in open
  <2> DEFINE m == [l EXCEPT !.LostEvents = FALSE, !.ReportPortChange = FALSE,
                            !.QueueOutstanding = l.QueueOutstanding + 1]
             k == Learns(known[p], frames)
  <2>1. /\ em' = [em EXCEPT ![OutTo(p)] = @ + 1]
        /\ li' = [li EXCEPT ![p].LostEvents = FALSE, ![p].ReportPortChange = FALSE,
                            ![p].QueueOutstanding = @ + 1]
        /\ known' = [known EXCEPT ![p] = k]
        /\ UNCHANGED <<listenerList, focusListener>>
    BY <1>8 DEF SendEventToListener, OutTo
  <2>2. li' = [li EXCEPT ![p] = m]
    BY <1>1, <2>1 DEF BrokerType
  <2>3. /\ m \in Listener /\ m.LostEvents = FALSE /\ m.triggers = l.triggers
        /\ m.ToldFocus = l.ToldFocus
        /\ m.HasFocus = l.HasFocus
        /\ m.NewlyInitialized = l.NewlyInitialized
        /\ m.QueueOutstanding = l.QueueOutstanding + 1
    BY <1>4, SentListener
  <2> HIDE DEF m
  <2>4. k \in Knowledge /\ Noted(m, k, portChanged) /\ Told(m, k)
    <3>1. portChanged \in BOOLEAN
      BY <1>1 DEF BrokerType
    <3> QED
      BY <1>4, <2>3, <3>1, LearnsGood
  <2> HIDE DEF k
  <2>5. em \in [Kind -> Nat]
    BY <1>1 DEF BrokerType
  <2>6. /\ em' \in [Kind -> Nat] /\ \A q \in Port \ {p} : SameMessages(q)
        /\ em'[OutTo(p)] = em[OutTo(p)] + 1 /\ em'[GoneTo(p)] = em[GoneTo(p)]
    BY <2>1, <2>5, KindsOf DEF SameMessages
  <2>7. em'[OutTo(p)] + em'[GoneTo(p)] = m.QueueOutstanding
    <3>1. em[OutTo(p)] \in Nat /\ em[GoneTo(p)] \in Nat
      BY <2>5, KindsOf
    <3> QED
      BY <1>4, <2>3, <2>6, <3>1 DEF PortGood, Accounted
  <2> QED
    BY <1>4, <1>6, <2>1, <2>2, <2>3, <2>4, <2>6, <2>7
<1> QED
  BY <1>3, <1>7, <1>8

-----------------------------------------------------------------------------
(* What the broker wakes for *)

\* A tour starts with all the listeners on the list.
LEMMA StartsList ==
  ASSUME BrokerAssumption, Lists, NEW events \in Frames, Starts(events),
         listenerList' = listenerList
  PROVE  /\ tour' \in [events : SUBSET Event, rest : Seq(Port), to : Port \cup {NoPort},
                       frames : SUBSET (Trigger \cup {"overflow"})]
         /\ tour'.to = NoPort /\ Lists'
<1>1. tour' = [events |-> events, rest |-> listenerList, to |-> NoPort, frames |-> {}]
  BY Zenon DEF Starts, NoTour
<1>2. events \in SUBSET Event /\ listenerList \in Seq(Port) /\ IsInjective(listenerList)
  BY DEF BrokerAssumption, Lists
<1>3. tour'.rest = listenerList /\ tour'.to = NoPort
  BY <1>1
<1> QED
  BY <1>1, <1>2, <1>3 DEF Lists

LEMMA IdleTour ==
  ASSUME BrokerAssumption, Lists, Idle
  PROVE  tour.to = NoPort /\ \A p \in Port : tour.to # p
BY DEF Lists, Idle, BrokerAssumption

LEMMA DispatchGood ==
  ASSUME BrokerAssumption, BrokerInv, NEW events \in Frames, DispatchEvent(events)
  PROVE  BrokerInv'
<1>1. /\ BrokerType /\ Lists /\ \A q \in Port : PortGood(q)
      /\ Idle /\ Starts(events)
      /\ UNCHANGED <<open, asked, em, li, listenerList, focusListener, portChanged, known>>
  BY DEF BrokerInv, DispatchEvent
<1>2. tour.to = NoPort /\ \A p \in Port : tour.to # p
  BY <1>1, IdleTour
<1>3. BrokerType' /\ Lists' /\ tour'.to = NoPort
  BY <1>1, StartsList DEF BrokerType
<1>4. ASSUME NEW q \in Port PROVE PortGood(q)'
  <2>1. /\ Alike(li'[q], li[q]) /\ known'[q] = known[q] /\ SameMessages(q)
        /\ Listens(q) => Listens(q)'
    BY <1>1 DEF Alike, SameMessages, Listens
  <2>2. Holds(q)' /\ PortGood(q)
    BY <1>1 DEF PortGood, Holds
  <2>3. tour'.to # q
    BY <1>3 DEF BrokerAssumption
  <2> QED
    BY <1>1, <1>2, <2>1, <2>2, <2>3, OthersGood
<1> QED
  BY <1>3, <1>4 DEF BrokerInv

LEMMA ControlPortGood ==
  ASSUME BrokerAssumption, BrokerInv, NEW changed \in BOOLEAN, NEW bogus \in BOOLEAN,
         NEW events \in Frames, ProcessControlPortInput(changed, bogus, events)
  PROVE  BrokerInv'
<1> DEFINE hears(q) == changed /\ Listens(q) /\ "portchange" \in li[q].triggers
<1>1. /\ BrokerType /\ Lists /\ \A q \in Port : PortGood(q) /\ Idle
      /\ UNCHANGED <<open, asked, em, listenerList, focusListener>>
  BY DEF BrokerInv, ProcessControlPortInput
<1>2. tour.to = NoPort /\ \A p \in Port : tour.to # p
  BY <1>1, IdleTour
<1>3. /\ known' = [q \in Port |-> known'[q]]
      /\ \A q \in Port : ~hears(q) => known'[q] = known[q]
  BY DEF ProcessControlPortInput
<1>4. ASSUME NEW q \in Port
      PROVE  /\ known'[q] \in Knowledge /\ known'[q].focus = known[q].focus
             /\ "event" \in known'[q].missed => "event" \in known[q].missed
             /\ "portchange" \in known'[q].missed => "portchange" \in known[q].missed \/ hears(q)
             /\ ~hears(q) => known'[q] = known[q]
  <2>1. known[q] \in Knowledge
    BY <1>1 DEF BrokerType
  <2>2. CASE hears(q)
    <3>1. known'[q] = [known[q] EXCEPT !.missed = @ \cup {"portchange"}]
      BY <2>2 DEF ProcessControlPortInput
    <3> HIDE DEF hears
    <3> QED
      BY <2>1, <2>2, <3>1 DEF Knowledge
  <2>3. CASE ~hears(q)
    BY <1>3, <2>1, <2>3
  <2> QED
    BY <2>2, <2>3
<1>5. known' \in [Port -> Knowledge]
  BY <1>3, <1>4
<1> HIDE DEF hears
<1>6. CASE bogus
  <2>1. portChanged' = (portChanged \/ changed) /\ li' = li /\ tour' = tour
    BY <1>6 DEF ProcessControlPortInput
  <2>2. portChanged' \in BOOLEAN /\ (portChanged => portChanged') /\ (changed => portChanged')
    BY <1>1, <2>1 DEF BrokerType
  <2>3. BrokerType' /\ Lists'
    BY <1>1, <1>5, <2>1, <2>2 DEF BrokerType, Lists
  <2>4. ASSUME NEW q \in Port PROVE PortGood(q)'
    <3>1. PortGood(q) /\ tour'.to # q
      BY <1>1, <1>2, <2>1
    <3>2. Unlisted(q)' /\ Holds(q)' /\ Accounted(q)' /\ Unconfigured(li[q], known[q])'
      BY <1>1, <1>4, <2>1, <3>1
      DEF PortGood, Unlisted, Listens, Holds, Accounted, Unconfigured, OutTo, GoneTo, hears
    <3>3. Noted(li[q], known[q], portChanged)'
      BY <1>4, <2>1, <2>2, <3>1 DEF PortGood, Informed, Noted, hears
    <3>4. Told(li[q], known[q])'
      BY <1>2, <1>4, <2>1, <3>1 DEF PortGood, Informed, Told, Believes
    <3> QED
      BY <3>1, <3>2, <3>3, <3>4 DEF PortGood, Informed
  <2> QED
    BY <2>3, <2>4 DEF BrokerInv
<1>7. CASE ~bogus
  <2> DEFINE noted(q) == [li[q] EXCEPT !.ReportPortChange = @ \/ portChanged \/ changed]
  <2>1. /\ portChanged' = FALSE /\ Starts(events)
        /\ li' = [q \in Port |-> IF Listens(q) THEN noted(q) ELSE li[q]]
    BY <1>7 DEF ProcessControlPortInput
  <2>2. ASSUME NEW q \in Port
        PROVE  /\ noted(q) \in Listener
               /\ noted(q).category = li[q].category /\ noted(q).triggers = li[q].triggers
               /\ noted(q).QueueOutstanding = li[q].QueueOutstanding
               /\ noted(q).HasFocus = li[q].HasFocus /\ noted(q).ToldFocus = li[q].ToldFocus
               /\ noted(q).LostEvents = li[q].LostEvents
               /\ noted(q).NewlyInitialized = li[q].NewlyInitialized
               /\ li[q].ReportPortChange \/ portChanged \/ changed => noted(q).ReportPortChange
    <3>1. li[q] \in Listener /\ portChanged \in BOOLEAN
      BY <1>1 DEF BrokerType
    <3> QED
      BY <3>1 DEF Listener
  <2> HIDE DEF noted
  <2>3. li' \in [Port -> Listener] /\ portChanged' \in BOOLEAN
    BY <1>1, <2>1, <2>2 DEF BrokerType
  <2>4. Lists' /\ tour'.to = NoPort /\ BrokerType'
    BY <1>1, <1>5, <2>1, <2>3, StartsList DEF BrokerType
  <2>5. ASSUME NEW q \in Port PROVE PortGood(q)'
    <3>1. PortGood(q) /\ tour'.to # q /\ tour.to # q
      BY <1>1, <1>2, <2>4 DEF BrokerAssumption
    <3>2. /\ li'[q].category = li[q].category /\ li'[q].triggers = li[q].triggers
          /\ li'[q].QueueOutstanding = li[q].QueueOutstanding
          /\ li'[q].HasFocus = li[q].HasFocus /\ li'[q].ToldFocus = li[q].ToldFocus
          /\ li'[q].LostEvents = li[q].LostEvents
          /\ li'[q].NewlyInitialized = li[q].NewlyInitialized
          /\ li[q].ReportPortChange => li'[q].ReportPortChange
          /\ Listens(q) => (portChanged \/ changed => li'[q].ReportPortChange)
      BY <2>1, <2>2
    <3>3. Unlisted(q)' /\ Holds(q)' /\ Accounted(q)' /\ Unconfigured(li[q], known[q])'
      BY <1>1, <1>4, <3>1, <3>2
      DEF PortGood, Unlisted, Listens, Holds, Accounted, Unconfigured, OutTo, GoneTo, hears
    <3>4. Noted(li[q], known[q], portChanged)'
      <4>1. "portchange" \in known[q].missed => Listens(q)
        BY <3>1 DEF PortGood, Unlisted, Ignorant
      <4> QED
        BY <1>4, <3>1, <3>2, <4>1 DEF PortGood, Informed, Noted, hears
    <3>5. Told(li[q], known[q])'
      BY <1>4, <3>1, <3>2 DEF PortGood, Informed, Told, Believes
    <3> QED
      BY <3>1, <3>3, <3>4, <3>5 DEF PortGood, Informed
  <2> QED
    BY <2>4, <2>5 DEF BrokerInv
<1> QED
  BY <1>6, <1>7

\* A list that listeners only came to.
LEMMA GrownList ==
  ASSUME BrokerAssumption, BrokerInv, Idle, tour' = tour,
         listenerList' \in Seq(Port), IsInjective(listenerList'),
         ToSet(listenerList) \subseteq ToSet(listenerList')
  PROVE  /\ Lists' /\ tour.to = NoPort /\ \A p \in Port : tour'.to # p
         /\ \A p \in Port : Listens(p) => Listens(p)'
<1>1. Lists
  BY DEF BrokerInv
<1> QED
  BY <1>1, IdleTour DEF Lists, Listens

\* The focus moves.
LEMMA FocusedIs ==
  ASSUME NEW ls \in [Port -> Listener], NEW p \in Port, BrokerType,
         \A q \in Port : ls[q].HasFocus <=> q = focusListener
  PROVE  /\ Focused(ls, p) \in [Port -> Listener]
         /\ \A q \in Port : /\ Alike(Focused(ls, p)[q], ls[q])
                            /\ Focused(ls, p)[q].HasFocus <=> q = p
<1> DEFINE has(q) == q = p \/ (ls[q].HasFocus /\ q # focusListener)
           l(q) == [ls[q] EXCEPT !.HasFocus = has(q)]
<1>1. Focused(ls, p) = [q \in Port |-> l(q)]
  BY DEF Focused
<1>2. ASSUME NEW q \in Port
      PROVE  l(q) \in Listener /\ Alike(l(q), ls[q]) /\ (l(q).HasFocus <=> q = p)
  <2>1. ls[q] \in Listener /\ has(q) \in BOOLEAN /\ (has(q) <=> q = p)
    OBVIOUS
  <2> HIDE DEF has
  <2> QED
    BY <2>1 DEF Listener, Alike
<1> HIDE DEF l
<1> QED
  BY <1>1, <1>2

LEMMA SetFocusGood ==
  ASSUME BrokerAssumption, BrokerInv, NEW p \in Port, SetFocus(p)
  PROVE  BrokerInv'
<1>1. /\ BrokerType /\ Lists /\ \A q \in Port : PortGood(q)
      /\ Idle /\ li' = Focused(li, p) /\ focusListener' = p
      /\ UNCHANGED <<open, asked, em, listenerList, portChanged, tour, known>>
  BY DEF BrokerInv, SetFocus
<1>2. /\ li' \in [Port -> Listener]
      /\ \A q \in Port : /\ Alike(li'[q], li[q])
                         /\ li'[q].HasFocus <=> q = p
  <2>1. \A q \in Port : li[q].HasFocus <=> q = focusListener
    BY <1>1 DEF PortGood, Holds
  <2>2. li \in [Port -> Listener]
    BY <1>1 DEF BrokerType
  <2> QED
    BY <1>1, <2>1, <2>2, FocusedIs
<1>3. /\ Lists' /\ \A q \in Port : tour.to # q /\ tour'.to # q
      /\ \A q \in Port : Listens(q) => Listens(q)'
  BY <1>1, GrownList, IdleTour DEF Lists
<1>4. BrokerType'
  BY <1>1, <1>2 DEF BrokerType
<1>5. ASSUME NEW q \in Port PROVE PortGood(q)'
  <2>1. Holds(q)' /\ SameMessages(q) /\ known'[q] = known[q]
    BY <1>1, <1>2 DEF Holds, SameMessages
  <2> QED
    BY <1>1, <1>2, <1>3, <2>1, OthersGood
<1> QED
  BY <1>3, <1>4, <1>5 DEF BrokerInv

LEMMA MakeTableGood ==
  ASSUME BrokerAssumption, BrokerInv, NEW p \in Port, MakeTable(p)
  PROVE  BrokerInv'
<1>1. /\ BrokerType /\ Lists /\ \A q \in Port : PortGood(q)
      /\ Idle /\ listenerList' = Listed(p)
      /\ UNCHANGED <<open, asked, em, li, focusListener, portChanged, tour, known>>
  BY DEF BrokerInv, MakeTable
<1>2. /\ listenerList' \in Seq(Port) /\ IsInjective(listenerList')
      /\ ToSet(listenerList) \subseteq ToSet(listenerList')
  BY <1>1, AtHeadList DEF Listed, Lists
<1>3. /\ Lists' /\ \A q \in Port : tour.to # q /\ tour'.to # q
      /\ \A q \in Port : Listens(q) => Listens(q)'
  BY <1>1, <1>2, GrownList, IdleTour
<1>4. BrokerType'
  BY <1>1 DEF BrokerType
<1>5. ASSUME NEW q \in Port PROVE PortGood(q)'
  <2>1. SameMessages(q) /\ known'[q] = known[q] /\ Alike(li'[q], li[q]) /\ Holds(q)'
    BY <1>1 DEF SameMessages, Alike, Holds, PortGood
  <2> QED
    BY <1>1, <1>3, <2>1, OthersGood
<1> QED
  BY <1>3, <1>4, <1>5 DEF BrokerInv

\* What EB_Configure makes of a record.
Configured(l, ask) ==
  [l EXCEPT !.category = ask.category, !.triggers = ask.triggers,
            !.QueueMax = IF ask.max \in 1..QueuePermitted THEN ask.max ELSE @,
            !.NewlyInitialized = FALSE]

LEMMA ConfiguredIs ==
  ASSUME BrokerAssumption, NEW l \in Listener, NEW ask \in Configuration
  PROVE  LET m == Configured(l, ask)
         IN  /\ m \in Listener /\ m.triggers = ask.triggers /\ ~m.NewlyInitialized
             /\ m.QueueOutstanding = l.QueueOutstanding /\ m.HasFocus = l.HasFocus
             /\ m.ToldFocus = l.ToldFocus /\ m.LostEvents = l.LostEvents
             /\ m.ReportPortChange = l.ReportPortChange
<1> DEFINE max == IF ask.max \in 1..QueuePermitted THEN ask.max ELSE l.QueueMax
           a == [l EXCEPT !.category = ask.category, !.triggers = ask.triggers]
           b == [a EXCEPT !.QueueMax = max, !.NewlyInitialized = FALSE]
<1>1. /\ max \in Nat /\ ask.category \in Category /\ ask.triggers \in SUBSET Trigger
  BY DEF Configuration, Listener, BrokerAssumption
<1>2. Configured(l, ask) = b
  BY DEF Configured
<1> HIDE DEF max
<1>3. /\ a \in Listener /\ a.triggers = ask.triggers
      /\ a.QueueOutstanding = l.QueueOutstanding /\ a.HasFocus = l.HasFocus
      /\ a.ToldFocus = l.ToldFocus /\ a.LostEvents = l.LostEvents
      /\ a.ReportPortChange = l.ReportPortChange
  BY <1>1 DEF Listener
<1> HIDE DEF a
<1>4. /\ b \in Listener /\ b.triggers = ask.triggers /\ ~b.NewlyInitialized
      /\ b.QueueOutstanding = l.QueueOutstanding /\ b.HasFocus = l.HasFocus
      /\ b.ToldFocus = l.ToldFocus /\ b.LostEvents = l.LostEvents
      /\ b.ReportPortChange = l.ReportPortChange
  BY <1>1, <1>3 DEF Listener
<1> QED
  BY <1>2, <1>4

LEMMA ConfigureGood ==
  ASSUME BrokerAssumption, BrokerInv, NEW p \in Port, NEW ask \in Asks[p], Configure(p, ask)
  PROVE  BrokerInv'
<1> DEFINE l == li[p]
           m == Configured(l, ask)
           ls == [li EXCEPT ![p] = m]
           new == l.NewlyInitialized
           both == {"giving", "losing"}
           seizes == new /\ ask.category \in {"FocusListener", "FocusUI"}
           k == known'[p]
<1>1. /\ BrokerType /\ Lists /\ \A q \in Port : PortGood(q)
      /\ Idle /\ asked' = asked \ {p} /\ ask \in Configuration
      /\ UNCHANGED <<open, em, portChanged, tour>>
  BY DEF BrokerInv, Configure, BrokerAssumption
<1>2. /\ seizes => li' = Focused(ls, p) /\ focusListener' = p /\ listenerList' = AtHead(p)
      /\ ~seizes => li' = ls /\ focusListener' = focusListener /\ listenerList' = Listed(p)
  BY DEF Configure, Configured
<1>3. /\ l \in Listener /\ known[p] \in Knowledge /\ PortGood(p)
      /\ tour.to = NoPort /\ \A q \in Port : tour.to # q /\ tour'.to # q
  BY <1>1, IdleTour DEF BrokerType
<1>4. /\ m \in Listener /\ m.triggers = ask.triggers /\ ~m.NewlyInitialized
      /\ m.QueueOutstanding = l.QueueOutstanding /\ m.HasFocus = l.HasFocus
      /\ m.ToldFocus = l.ToldFocus /\ m.LostEvents = l.LostEvents
      /\ m.ReportPortChange = l.ReportPortChange
  BY <1>1, <1>3, ConfiguredIs
<1> HIDE DEF m
<1>5. /\ ls \in [Port -> Listener] /\ ls[p] = m /\ \A q \in Port \ {p} : ls[q] = li[q]
  BY <1>1, <1>4 DEF BrokerType
<1> HIDE DEF ls
<1>6. \A q \in Port : ls[q].HasFocus <=> q = focusListener
  BY <1>1, <1>4, <1>5 DEF PortGood, Holds
<1>7. /\ li' \in [Port -> Listener] /\ focusListener' \in Port \cup {NoPort}
      /\ \A q \in Port : /\ Alike(li'[q], ls[q])
                         /\ li'[q].HasFocus <=> q = focusListener'
  <2>1. CASE seizes
    <3>1. li' = Focused(ls, p) /\ focusListener' = p
      BY <1>2, <2>1
    <3>2. ls \in [Port -> Listener]
      BY <1>5
    <3> QED
      <4>1. /\ li' \in [Port -> Listener]
            /\ \A q \in Port : /\ Alike(li'[q], ls[q])
                               /\ li'[q].HasFocus <=> q = p
        BY <1>1, <1>6, <3>1, <3>2, FocusedIs
      <4> QED
        BY <3>1, <4>1
  <2>2. CASE ~seizes
    BY <1>1, <1>2, <1>5, <1>6, <2>2 DEF Alike, BrokerType
  <2> QED
    BY <2>1, <2>2
<1>8. /\ listenerList' \in Seq(Port) /\ IsInjective(listenerList')
      /\ ToSet(listenerList') = ToSet(listenerList) \cup {p}
  BY <1>1, <1>2, AtHeadList DEF Listed, Lists, Listens
<1>9. Lists' /\ \A q \in Port : Listens(q) => Listens(q)'
  BY <1>1, <1>8, GrownList
<1>10. /\ k \in Knowledge /\ known' \in [Port -> Knowledge]
       /\ k.missed = known[p].missed \cap ({"event"} \cup ask.triggers)
       /\ new \/ both \subseteq l.triggers => k.focus = known[p].focus
       /\ ~new /\ ~(both \subseteq l.triggers) => k.focus = "unsure"
       /\ \A q \in Port \ {p} : known'[q] = known[q]
  <2> DEFINE focus == IF new \/ both \subseteq l.triggers THEN known[p].focus ELSE "unsure"
             missed == known[p].missed \cap ({"event"} \cup ask.triggers)
             n == [known[p] EXCEPT !.focus = focus, !.missed = missed]
  <2>1. known' = [known EXCEPT ![p] = n]
    <3>1. known \in [Port -> Knowledge]
      BY <1>1 DEF BrokerType
    <3> QED
      BY <3>1 DEF Configure
  <2>2. focus \in {"yes", "no", "unsure"} /\ missed \in SUBSET {"event", "portchange"}
    BY <1>3 DEF Knowledge
  <2> HIDE DEF focus, missed
  <2>3. n \in Knowledge /\ n.focus = focus /\ n.missed = missed
    BY <1>3, <2>2 DEF Knowledge
  <2> HIDE DEF n
  <2>4. known' \in [Port -> Knowledge] /\ known'[p] = n
        /\ \A q \in Port \ {p} : known'[q] = known[q]
    BY <1>1, <2>1, <2>3 DEF BrokerType
  <2> QED
    BY <2>3, <2>4 DEF focus, missed
<1>11. BrokerType'
  BY <1>1, <1>7, <1>10 DEF BrokerType
<1>12. ASSUME NEW q \in Port, q # p PROVE PortGood(q)'
  <2>1. Alike(li'[q], li[q]) /\ known'[q] = known[q] /\ SameMessages(q) /\ Holds(q)'
    BY <1>1, <1>5, <1>7, <1>10, <1>12 DEF SameMessages, Holds
  <2> QED
    BY <1>1, <1>3, <1>9, <2>1, OthersGood
<1>13. PortGood(p)'
  <2>1. Alike(li'[p], m)
    BY <1>5, <1>7
  <2>2. Unlisted(p)' /\ Holds(p)' /\ Accounted(p)' /\ Unconfigured(li[p], known[p])'
    <3>1. Listens(p)'
      BY <1>8 DEF Listens
    <3>2. li'[p].QueueOutstanding = l.QueueOutstanding /\ ~li'[p].NewlyInitialized
      BY <1>4, <2>1 DEF Alike
    <3>3. Accounted(p)
      BY <1>3 DEF PortGood
    <3> QED
      BY <1>1, <1>7, <3>1, <3>2, <3>3 DEF Unlisted, Holds, Accounted, Unconfigured, OutTo, GoneTo
  <2>3. Noted(li'[p], k, portChanged')
    BY <1>1, <1>3, <1>4, <1>10, <2>1 DEF PortGood, Informed, Noted, Alike
  <2>4. Told(li'[p], k)
    <3>1. CASE new
      BY <1>3, <1>4, <1>10, <2>1, <3>1
      DEF PortGood, Unconfigured, Ignorant, Told, Believes, Alike
    <3>2. CASE ~new /\ both \subseteq l.triggers
      BY <1>3, <1>4, <1>10, <2>1, <3>2 DEF PortGood, Informed, Told, Believes, Alike
    <3>3. CASE ~new /\ ~(both \subseteq l.triggers)
      BY <1>10, <3>3 DEF Told, Believes
    <3> QED
      BY <3>1, <3>2, <3>3
  <2> QED
    BY <1>3, <2>2, <2>3, <2>4 DEF PortGood, Informed
<1> QED
  BY <1>9, <1>11, <1>12, <1>13 DEF BrokerInv

-----------------------------------------------------------------------------
(* The programs *)

LEMMA ReplyGood ==
  ASSUME BrokerAssumption, BrokerInv, NEW n \in Kind, ReplyEvent(n)
  PROVE  BrokerInv'
<1> DEFINE p == n.to
           l == li[p]
           m == [l EXCEPT !.QueueOutstanding = @ - 1]
<1>1. /\ BrokerType /\ Lists /\ \A q \in Port : PortGood(q) /\ Idle
      /\ em[n] > 0 /\ em' = [em EXCEPT ![n] = @ - 1] /\ li' = Dequeued(n)
      /\ UNCHANGED <<open, asked, listenerList, focusListener, portChanged, tour, known>>
  BY DEF BrokerInv, ReplyEvent
<1>2. p \in Port /\ n.orphan \in BOOLEAN /\ n = [at |-> n.at, to |-> p, orphan |-> n.orphan]
  BY DEF Kind
<1>3. /\ em' \in [Kind -> Nat] /\ em'[n] = em[n] - 1
      /\ \A k \in Kind \ {n} : em'[k] = em[k]
  BY <1>1 DEF BrokerType
<1>4. \A q \in Port : tour.to # q /\ tour'.to # q
  BY <1>1, IdleTour
<1>5. l \in Listener
  BY <1>1, <1>2 DEF BrokerType
<1>6. /\ m \in Listener /\ m.QueueOutstanding = l.QueueOutstanding - 1
      /\ m.category = l.category /\ m.triggers = l.triggers /\ m.HasFocus = l.HasFocus
      /\ m.ToldFocus = l.ToldFocus /\ m.LostEvents = l.LostEvents
      /\ m.ReportPortChange = l.ReportPortChange /\ m.NewlyInitialized = l.NewlyInitialized
  BY <1>5 DEF Listener
<1> HIDE DEF m
<1>7. /\ n.orphan => li' = li
      /\ ~n.orphan => li' = [li EXCEPT ![p] = m]
  BY <1>1, <1>2 DEF Dequeued, m, BrokerType
<1>8. /\ li' \in [Port -> Listener] /\ \A q \in Port \ {p} : li'[q] = li[q]
      /\ n.orphan => li' = li
      /\ ~n.orphan => li'[p] = m
  BY <1>1, <1>2, <1>6, <1>7 DEF BrokerType
<1>9. BrokerType' /\ Lists'
  BY <1>1, <1>3, <1>8 DEF BrokerType, Lists
<1>10. ASSUME NEW q \in Port, q # p \/ n.orphan PROVE PortGood(q)'
  <2>1. OutTo(q) # n /\ GoneTo(q) # n /\ OutTo(q) \in Kind /\ GoneTo(q) \in Kind
    <3>1. /\ OutTo(q).to = q /\ GoneTo(q).to = q /\ ~OutTo(q).orphan /\ ~GoneTo(q).orphan
          /\ OutTo(q) \in Kind /\ GoneTo(q) \in Kind
      BY KindsOf DEF OutTo, GoneTo
    <3> QED
      BY <1>10, <3>1
  <2>2. SameMessages(q) /\ li'[q] = li[q]
    BY <1>3, <1>8, <1>10, <2>1 DEF SameMessages
  <2>3. Alike(li'[q], li[q]) /\ known'[q] = known[q] /\ Holds(q)' /\ (Listens(q) => Listens(q)')
    BY <1>1, <2>2 DEF Alike, Holds, PortGood, Listens
  <2> QED
    BY <1>1, <1>4, <2>2, <2>3, OthersGood
<1>11. ASSUME ~n.orphan PROVE PortGood(p)'
  <2>1. n = OutTo(p) \/ n = GoneTo(p)
    BY <1>2, <1>11 DEF Kind, OutTo, GoneTo
  <2>2. em \in [Kind -> Nat] /\ PortGood(p)
    BY <1>1, <1>2 DEF BrokerType
  <2>3. /\ em[OutTo(p)] \in Nat /\ em[GoneTo(p)] \in Nat
        /\ em'[OutTo(p)] + em'[GoneTo(p)] = em[OutTo(p)] + em[GoneTo(p)] - 1
    BY <1>2, <1>3, <2>1, <2>2, KindsOf
  <2>4. l.QueueOutstanding = em[OutTo(p)] + em[GoneTo(p)]
    BY <2>2 DEF PortGood, Accounted
  <2>5. em[OutTo(p)] + em[GoneTo(p)] > 0
    BY <1>1, <2>1, <2>3
  <2> HIDE DEF p, l
  <2>6. p \in Port /\ li'[p] = m /\ OutTo(p)' = OutTo(p') /\ GoneTo(p)' = GoneTo(p') /\ p' = p
    BY <1>2, <1>8, <1>11 DEF p, OutTo, GoneTo
  <2>7. Accounted(p)'
    BY <1>6, <2>3, <2>4, <2>6 DEF Accounted
  <2>8. Unlisted(p)' /\ Holds(p)' /\ Unconfigured(li[p], known[p])'
    BY <1>1, <1>6, <2>2, <2>4, <2>5, <2>6
    DEF PortGood, Unlisted, Listens, Holds, Unconfigured, l
  <2>9. Informed(p)'
    BY <1>1, <1>4, <1>6, <2>2, <2>6 DEF PortGood, Informed, Noted, Told, Believes, l
  <2> QED
    BY <2>7, <2>8, <2>9 DEF PortGood
<1> QED
  BY <1>9, <1>10, <1>11 DEF BrokerInv

LEMMA CloseGood ==
  ASSUME BrokerAssumption, BrokerInv, NEW p \in Port, ClosePort(p)
  PROVE  BrokerInv'
<1> DEFINE mine == {k \in Kind : k.to = p /\ k.at = "out"}
<1>1. /\ BrokerType /\ Lists /\ \A q \in Port : PortGood(q)
      /\ UNCHANGED <<li, listenerList, focusListener, portChanged, tour, known>>
      /\ open' = open \ {p}
  BY DEF BrokerInv, ClosePort
<1>2. PICK onPort \in [mine -> 0..QueuePermitted] :
        /\ \A k \in mine : onPort[k] <= em[k]
        /\ em' = [k \in Kind |->
                    IF k.to # p THEN em[k]
                    ELSE IF k.at = "out" THEN em[k] - onPort[k]
                    ELSE em[k] + onPort[[k EXCEPT !.at = "out"]]]
  BY DEF ClosePort
<1>3. asked' \in SUBSET Port
  BY <1>1 DEF ClosePort, BrokerType
<1>4. em \in [Kind -> Nat] /\ QueuePermitted \in Nat
  BY <1>1 DEF BrokerType, BrokerAssumption
<1>5. ASSUME NEW k \in Kind, k.to = p, k.at # "out"
      PROVE  [k EXCEPT !.at = "out"] \in mine
  BY <1>5 DEF Kind
<1>6. em' \in [Kind -> Nat]
  <2>1. ASSUME NEW k \in Kind PROVE em'[k] \in Nat
    <3>1. CASE k.to # p
      BY <1>2, <1>4, <3>1
    <3>2. CASE k.to = p /\ k.at = "out"
      <4>1. em'[k] = em[k] - onPort[k] /\ k \in mine
        BY <1>2, <3>2
      <4>2. onPort[k] \in 0..QueuePermitted /\ onPort[k] <= em[k] /\ em[k] \in Nat
        BY <1>2, <1>4, <4>1
      <4> QED
        BY <1>4, <4>1, <4>2
    <3>3. CASE k.to = p /\ k.at # "out"
      <4> DEFINE j == [k EXCEPT !.at = "out"]
      <4>1. j \in mine
        BY <1>5, <3>3
      <4>2. em'[k] = em[k] + onPort[j]
        BY <1>2, <3>3
      <4> HIDE DEF j
      <4>3. onPort[j] \in 0..QueuePermitted /\ em[k] \in Nat
        BY <1>2, <1>4, <4>1
      <4> QED
        BY <1>4, <4>2, <4>3
    <3> QED
      BY <3>1, <3>2, <3>3
  <2> QED
    BY <1>2, <2>1
<1>7. BrokerType' /\ Lists'
  BY <1>1, <1>3, <1>6 DEF BrokerType, Lists
<1>8. ASSUME NEW q \in Port
      PROVE  em'[OutTo(q)] + em'[GoneTo(q)] = em[OutTo(q)] + em[GoneTo(q)]
  <2>1. /\ OutTo(q) \in Kind /\ GoneTo(q) \in Kind
        /\ OutTo(q).to = q /\ GoneTo(q).to = q
        /\ OutTo(q).at = "out" /\ GoneTo(q).at = "gone"
        /\ [GoneTo(q) EXCEPT !.at = "out"] = OutTo(q)
    <3>1. OutTo(q) \in Kind /\ GoneTo(q) \in Kind
      BY KindsOf
    <3>2. /\ OutTo(q).to = q /\ GoneTo(q).to = q
          /\ OutTo(q).at = "out" /\ GoneTo(q).at = "gone"
      BY DEF OutTo, GoneTo
    <3>3. [GoneTo(q) EXCEPT !.at = "out"] = OutTo(q)
      <4> DEFINE j == [GoneTo(q) EXCEPT !.at = "out"]
      <4>1. j \in Kind /\ j.at = "out" /\ j.to = q /\ j.orphan = FALSE
        BY <3>1 DEF GoneTo, Kind
      <4>2. OutTo(q).at = "out" /\ OutTo(q).to = q /\ OutTo(q).orphan = FALSE
        BY DEF OutTo
      <4> HIDE DEF j
      <4>3. j = OutTo(q)
        BY <3>1, <4>1, <4>2 DEF Kind
      <4> QED
        BY <4>3 DEF j
    <3> QED
      BY <3>1, <3>2, <3>3
  <2>2. CASE q # p
    BY <1>2, <2>1, <2>2
  <2>3. CASE q = p
    <3>1. em'[OutTo(q)] = em[OutTo(q)] - onPort[OutTo(q)]
      BY <1>2, <2>1, <2>3
    <3>2. em'[GoneTo(q)] = em[GoneTo(q)] + onPort[OutTo(q)]
      BY <1>2, <2>1, <2>3
    <3>3. OutTo(q) \in mine
      BY <2>1, <2>3
    <3>4. onPort[OutTo(q)] \in 0..QueuePermitted
      BY <1>2, <3>3
    <3> QED
      BY <1>4, <2>1, <3>1, <3>2, <3>4
  <2> QED
    BY <2>2, <2>3
<1>9. ASSUME NEW q \in Port PROVE PortGood(q)'
  <2>1. PortGood(q) /\ em'[OutTo(q)] + em'[GoneTo(q)] = em[OutTo(q)] + em[GoneTo(q)]
    BY <1>1, <1>8
  <2> QED
    BY <1>1, <2>1
    DEF PortGood, Unlisted, Listens, Unconfigured, Holds, Accounted, OutTo, GoneTo, Informed,
        Noted, Told, Believes, Tells
<1> QED
  BY <1>7, <1>9 DEF BrokerInv

-----------------------------------------------------------------------------
(* The theorems *)

\* Every step of the broker and of the programs keeps the accounts and the notes.
LEMMA NextGood == BrokerInv /\ [Next]_vars => BrokerInv'
<1> SUFFICES ASSUME BrokerInv, [Next]_vars PROVE BrokerInv'
  OBVIOUS
<1>a. BrokerAssumption
  BY BrokerAssumption
<1>1. CASE VisitListener
  BY <1>a, <1>1, VisitGood
<1>2. CASE Frame
  <2>1. PICK events \in Frames :
          \/ \E changed, bogus \in BOOLEAN : ProcessControlPortInput(changed, bogus, events)
          \/ DispatchEvent(events)
    BY <1>2 DEF Frame
  <2> QED
    BY <1>a, <2>1, ControlPortGood, DispatchGood
<1>3. CASE \E k \in Kind : ReplyEvent(k)
  BY <1>a, <1>3, ReplyGood
<1>4. ASSUME NEW p \in Port,
             \/ SendEventToListener(p)
             \/ \E ask \in Asks[p] : Configure(p, ask)
             \/ p \in MayFocus /\ SetFocus(p)
             \/ MakeTable(p) \/ ClosePort(p)
      PROVE  BrokerInv'
  BY <1>a, <1>4, SendGood, ConfigureGood, SetFocusGood, MakeTableGood, CloseGood
<1>5. CASE UNCHANGED vars
  BY <1>5 DEF vars, BrokerInv, BrokerType, Lists, PortGood, Unlisted, Listens, Unconfigured,
     Holds, Accounted, OutTo, GoneTo, Informed
<1> QED
  BY <1>1, <1>2, <1>3, <1>4, <1>5 DEF Next

LEMMA InitGood == Init => BrokerInv
<1> SUFFICES ASSUME Init PROVE BrokerInv
  OBVIOUS
<1>a. BrokerAssumption
  BY BrokerAssumption
<1>1. PICK seeded \in BOOLEAN :
        /\ listenerList = IF seeded THEN <<Automounter>> ELSE <<>>
        /\ li = [p \in Port |-> IF seeded /\ p = Automounter THEN AutomounterListener
                                ELSE NewListener]
  BY DEF Init
<1>2. /\ AutomounterListener \in Listener /\ AutomounterListener.QueueOutstanding = 0
      /\ ~AutomounterListener.HasFocus /\ ~AutomounterListener.NewlyInitialized
      /\ AutomounterListener.triggers = {"system"}
  <2> DEFINE c == [NewListener EXCEPT !.category = "Observer", !.triggers = {"system"}]
             d == [c EXCEPT !.QueueMax = QueuePermitted, !.NewlyInitialized = FALSE]
  <2>1. AutomounterListener = d
    BY DEF AutomounterListener
  <2>2. NewListener \in Listener /\ NewListener.QueueOutstanding = 0 /\ ~NewListener.HasFocus
    BY <1>a, FreshType
  <2>3. QueuePermitted \in Nat /\ "Observer" \in Category /\ {"system"} \in SUBSET Trigger
    BY <1>a DEF BrokerAssumption, Category, Trigger, Event
  <2>4. /\ c \in Listener /\ c.QueueOutstanding = 0 /\ ~c.HasFocus /\ c.triggers = {"system"}
    BY <2>2, <2>3 DEF Listener
  <2> HIDE DEF c
  <2>5. /\ d \in Listener /\ d.QueueOutstanding = 0 /\ ~d.HasFocus /\ d.triggers = {"system"}
        /\ ~d.NewlyInitialized
    BY <2>3, <2>4 DEF Listener
  <2> QED
    BY <2>1, <2>5
<1>3. NewListener \in Listener /\ Ignorant \in Knowledge
  BY <1>a, FreshType
<1>4. /\ li \in [Port -> Listener]
      /\ \A p \in Port : li[p] \in {AutomounterListener, NewListener}
      /\ \A p \in Port : li[p].QueueOutstanding = 0 /\ ~li[p].HasFocus
  BY <1>1, <1>2, <1>3, FreshType, <1>a
<1>5. /\ open = Port /\ asked = {} /\ em = NoMessages /\ focusListener = NoPort
      /\ portChanged = FALSE /\ tour = NoTour /\ known = [p \in Port |-> Ignorant]
  BY DEF Init
<1>6. <<>> \in Seq(Port) /\ IsInjective(<<>>) /\ ToSet(<<>>) = {}
  BY DEF IsInjective, ToSet
<1>7. tour.rest = <<>> /\ tour.to = NoPort
      /\ tour \in [events : SUBSET Event, rest : Seq(Port), to : Port \cup {NoPort},
                   frames : SUBSET (Trigger \cup {"overflow"})]
  BY <1>5, <1>6 DEF NoTour
<1>8. BrokerType
  BY <1>3, <1>4, <1>5, <1>7 DEF BrokerType, NoMessages
<1>9. Lists
  <2>1. <<Automounter>> \in Seq(Port) /\ IsInjective(<<Automounter>>)
    BY <1>a DEF BrokerAssumption, IsInjective
  <2>2. listenerList \in Seq(Port) /\ IsInjective(listenerList)
    BY <1>1, <1>6, <2>1
  <2> QED
    BY <1>6, <1>7, <2>2 DEF Lists
<1>10. ASSUME NEW p \in Port PROVE PortGood(p)
  <2>1. /\ known[p] = Ignorant /\ Ignorant.missed = {} /\ Ignorant.focus = "no"
        /\ em[OutTo(p)] = 0 /\ em[GoneTo(p)] = 0 /\ tour.to # p /\ p # focusListener
    BY <1>a, <1>5, <1>7, KindsOf DEF Ignorant, NoMessages, BrokerAssumption
  <2>2. /\ li[p].NewlyInitialized => /\ li[p].category = "NoSeeUm" /\ li[p].triggers = {}
                                     /\ ~li[p].ToldFocus
        /\ ~({"giving", "losing"} \subseteq li[p].triggers)
    BY <1>2, <1>4 DEF NewListener
  <2>3. Informed(p)
    BY <2>1, <2>2 DEF Informed, Noted, Told
  <2> QED
    BY <1>4, <2>1, <2>2, <2>3 DEF PortGood, Unlisted, Unconfigured, Holds, Accounted
<1> QED
  BY <1>8, <1>9, <1>10 DEF BrokerInv

\* The inductive invariant of the broker holds.
THEOREM BrokerInvariance == Spec => []BrokerInv
<1>1. Init => BrokerInv
  BY InitGood
<1>2. BrokerInv /\ [Next]_vars => BrokerInv'
  BY NextGood
<1> QED
  BY <1>1, <1>2, PTL DEF Spec

\* The length of a listener's queue is the number of messages that are out for it.
THEOREM MessagesAccountedHolds == Spec => []MessagesAccounted
<1>1. BrokerInv => MessagesAccounted
  <2> SUFFICES ASSUME BrokerInv, NEW p \in Port
               PROVE  em[OutTo(p)] + em[GoneTo(p)]
                        = IF Listens(p) THEN li[p].QueueOutstanding ELSE 0
    BY DEF MessagesAccounted, OutTo, GoneTo
  <2> QED
    BY DEF BrokerInv, PortGood, Accounted, Unlisted
<1> QED
  BY <1>1, BrokerInvariance, PTL

\* The broker has a note of all that a listener was not told of.
THEOREM NotesKeptHolds == Spec => []NotesKept
<1>1. BrokerInv => NotesKept
  <2> SUFFICES ASSUME BrokerInv, NEW p \in Port, tour.to # p
               PROVE  /\ "event" \in known[p].missed => li[p].LostEvents
                      /\ "portchange" \in known[p].missed
                           => li[p].ReportPortChange \/ portChanged
                      /\ \/ KnowsFocus(p)
                         \/ li[p].HasFocus # li[p].ToldFocus
                         \/ li[p].LostEvents
    BY DEF NotesKept
  <2>1. Noted(li[p], known[p], portChanged) /\ Told(li[p], known[p]) /\ Holds(p)
    BY DEF BrokerInv, PortGood, Informed
  <2>2. li[p].HasFocus \in BOOLEAN /\ li[p].ToldFocus \in BOOLEAN
    BY DEF BrokerInv, BrokerType, Listener
  <2>3. ASSUME li[p].HasFocus = li[p].ToldFocus, ~li[p].LostEvents PROVE KnowsFocus(p)
    BY <2>1, <2>2, <2>3 DEF Told, Believes, Holds, KnowsFocus
  <2> QED
    BY <2>1, <2>3 DEF Noted
<1> QED
  BY <1>1, BrokerInvariance, PTL
=============================================================================

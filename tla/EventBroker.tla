----------------------------- MODULE EventBroker -----------------------------
(***************************************************************************)
(* The event broker, a task that gives programs the events of the control  *)
(* port and of each other: its listeners, the input focus and its pool of  *)
(* event messages (EventBroker.c), with the programs that get the messages *)
(* on their ports and send them back (EventUtility.c, focus.c).            *)
(*                                                                         *)
(* A tour of the listeners sends each what it is to have.  The broker does *)
(* one thing at a time, but a program may run, and go away, between the    *)
(* test that its port is there and the message that is sent to it.         *)
(*                                                                         *)
(* There are two classes of events: "ui", of which only observers and the  *)
(* listener with the focus are told, and "system", of which all are.  What *)
(* the pods on the control port do is any frame of events.  Events that a  *)
(* listener only captures go with others and are left out, and so is a     *)
(* lack of memory for a message, which is treated as a full queue is.  A   *)
(* frame that does not fit the broker's buffer sets li_LostEvents before   *)
(* the message is sent, and sending it sets or clears it again: it is not  *)
(* modelled.                                                               *)
(***************************************************************************)
EXTENDS Integers, Queue

CONSTANTS
  Port,            \* the programs, named by their ports
  NoPort,
  Automounter,     \* the port with the name "Automount"
  Asks,            \* what each program may ask EB_Configure for
  MayAskAgain,     \* the programs that may change what they asked for
  MayMakeTable,    \* the programs that may ask for the table of the pods' states
  MayFocus,        \* the programs that the focus may be moved to
  MayClose,        \* the programs that may delete their port
  Frames,          \* the sets of events that come together
  QueueDefault, QueuePermitted    \* EVENT_QUEUE_DEFAULT, EVENT_QUEUE_MAX_PERMITTED

Event == {"ui", "system"}

Category == {"NoSeeUm", "FocusListener", "Observer", "FocusUI"}

\* The bits that matter in a trigger mask.
Trigger == Event \cup {"portchange", "giving", "losing"}

\* A queue limit of 0 leaves the limit as it is.
Configuration == [category : Category, triggers : SUBSET Trigger, max : Nat]

ASSUME BrokerAssumption ==
  /\ IsFiniteSet(Port) /\ NoPort \notin Port /\ Automounter \in Port
  /\ Asks \in [Port -> SUBSET Configuration]
  /\ MayAskAgain \subseteq Port /\ MayMakeTable \subseteq Port
  /\ MayFocus \subseteq Port /\ MayClose \subseteq Port
  /\ Frames \subseteq SUBSET Event /\ {} \in Frames
  /\ QueueDefault \in Nat \ {0} /\ QueuePermitted \in Nat \ {0}


VARIABLES
  open,           \* the ports that are there
  asked,          \* the ports that are gone, but EB_Configure was asked for them
  em,             \* eventMsgsPending: how many event messages are where
  li,             \* the Listener of each port
  listenerList,   \* the ports with a Listener
  focusListener,
  portChanged,    \* the bus has changed since the last tour for the control port
  tour,           \* of the listeners: with which events, whom to visit yet, and
                  \* the frames that are being sent to whom
  known           \* history: what each program knows from the messages sent to it

vars == <<open, asked, em, li, listenerList, focusListener, portChanged, tour, known>>

NewListener ==
  [category |-> "NoSeeUm", triggers |-> {}, QueueMax |-> QueueDefault,
   QueueOutstanding |-> 0, HasFocus |-> FALSE, ToldFocus |-> FALSE,
   LostEvents |-> FALSE, ReportPortChange |-> FALSE, NewlyInitialized |-> TRUE]

NoTour == [events |-> {}, rest |-> <<>>, to |-> NoPort, frames |-> {}]

\* Whether it has the focus, as far as it was told, and what it has missed.
Ignorant == [focus |-> "no", missed |-> {}]

Listens(p) == p \in ToSet(listenerList)

\* The listener of p moves, or comes, to the head of the list.
AtHead(p) ==
  <<p>> \o (IF Listens(p) THEN RemoveNode(listenerList, p) ELSE listenerList)

\* GetListener: a new listener goes to the head.
Listed(p) == IF Listens(p) THEN listenerList ELSE AtHead(p)

TakesFocus(p) == li[p].category \in {"FocusListener", "FocusUI"}

Idle == tour.rest = <<>>

-----------------------------------------------------------------------------
(* Event messages *)

\* A message is out, on the port it was sent to or got from it, or is gone with the
\* port.  Its em_Listener is the port's, or NULL for an orphan.
Kind == [at : {"out", "gone"}, to : Port, orphan : BOOLEAN]

NoMessages == [k \in Kind |-> 0]

\* A message that comes back shortens the queue of a listener that is there.
Dequeued(k) ==
  IF k.orphan THEN li ELSE [li EXCEPT ![k.to].QueueOutstanding = @ - 1]

\* Mutant of Orphaned: messages keep the listener that was freed.
Orphaned_Not(p) == em

\* A listener that is killed has no messages any more.
Orphaned(p) ==
  [k \in Kind |->
     IF k.to # p THEN em[k]
     ELSE IF k.orphan THEN em[k] + em[[k EXCEPT !.orphan = FALSE]]
     ELSE 0]

-----------------------------------------------------------------------------
(* The focus *)

\* The focus moves from its holder, if there is one, to p.
Focused(ls, p) ==
  [q \in Port |-> [ls[q] EXCEPT !.HasFocus = (q = p \/ (@ /\ q # focusListener))]]

\* The places in a list of those listeners that the focus may be given to.
Takers(list) == {i \in DOMAIN list : TakesFocus(list[i])}

\* KillListener: the first listener that takes the focus gets that of p.
KillListener(p) ==
  LET left == RemoveNode(listenerList, p)
      first == CHOOSE i \in Takers(left) : \A j \in Takers(left) : i <= j
      heir == IF Takers(left) = {} THEN NoPort ELSE left[first]
      freed == [li EXCEPT ![p] = NewListener]
  IN  /\ listenerList' = left
      /\ IF p # focusListener
           THEN li' = freed /\ UNCHANGED focusListener
           ELSE /\ focusListener' = heir
                /\ li' = IF heir = NoPort THEN freed
                         ELSE [freed EXCEPT ![heir].HasFocus = TRUE]
      /\ known' = [known EXCEPT ![p] = Ignorant]

-----------------------------------------------------------------------------
(* A tour of the listeners *)

Visited ==
  tour' = IF Len(tour.rest) = 1 THEN NoTour
          ELSE [NoTour EXCEPT !.events = tour.events, !.rest = Tail(tour.rest)]

\* Mutant of TriggerListener: a listener that has lost events waits for the next.
TriggerListener_NotLost(p, l) ==
  /\ ~(l.LostEvents /\ l.QueueOutstanding >= l.QueueMax)
  /\ l.category # "NoSeeUm"
  /\ \/ l.HasFocus # l.ToldFocus
     \/ /\ l.category = "FocusListener" => p = focusListener
        /\ \/ /\ l.category = "Observer" \/ p = focusListener
              /\ "ui" \in tour.events \cap l.triggers
           \/ l.ReportPortChange /\ "portchange" \in l.triggers
           \/ "system" \in tour.events \cap l.triggers

\* Whether the listener of p is to have a message.
TriggerListener(p, l) ==
  /\ ~(l.LostEvents /\ l.QueueOutstanding >= l.QueueMax)
  /\ l.category # "NoSeeUm"
  /\ \/ l.HasFocus # l.ToldFocus
     \/ /\ l.category = "FocusListener" => p = focusListener
        /\ \/ /\ l.category = "Observer" \/ p = focusListener
              /\ "ui" \in tour.events \cap l.triggers
           \/ l.LostEvents
           \/ l.ReportPortChange /\ "portchange" \in l.triggers
           \/ "system" \in tour.events \cap l.triggers

FocusFrame(l) == IF l.HasFocus THEN "giving" ELSE "losing"

\* The frames at the head of a message.
BoilerplateEvents(l) ==
  {f \in {"overflow"} : l.LostEvents}
    \cup ({f \in {"portchange"} : l.ReportPortChange} \cap l.triggers)
    \cup ({f \in {FocusFrame(l)} : l.HasFocus # l.ToldFocus} \cap l.triggers)

\* The next listener is visited: it is killed if its port is gone, passed by, or
\* gets a message unless that would be empty.
VisitListener ==
  LET p == Head(tour.rest)
      l == li[p]
      frames == BoilerplateEvents(l) \cup (tour.events \cap l.triggers)
  IN  /\ ~Idle /\ tour.to = NoPort
      /\ \/ /\ p \notin open
            /\ KillListener(p) /\ em' = Orphaned(p) /\ Visited
         \/ /\ p \in open /\ ~TriggerListener(p, l)
            /\ Visited /\ UNCHANGED <<em, li, listenerList, focusListener, known>>
         \/ /\ p \in open /\ TriggerListener(p, l)
            /\ li' = [li EXCEPT ![p].ToldFocus = l.HasFocus]
            /\ IF frames = {} THEN Visited
               ELSE tour' = [tour EXCEPT !.to = p, !.frames = frames]
            /\ UNCHANGED <<em, listenerList, focusListener, known>>
      /\ UNCHANGED <<open, asked, portChanged>>

\* What a program knows once it has these frames.
Learns(k, frames) ==
  [focus  |-> IF "giving" \in frames THEN "yes"
              ELSE IF "losing" \in frames THEN "no"
              ELSE IF "overflow" \in frames THEN "unsure"
              ELSE k.focus,
   missed |-> (k.missed \ (frames \cap {"portchange"}))
                \ {x \in {"event"} : "overflow" \in frames}]

Misses(k, frames) ==
  [k EXCEPT !.missed = @ \cup {x \in {"event"} : frames \cap Event # {}}]

\* Mutant of Lost: the listener is not told of it.
Lost_Silently(p) ==
  /\ li' = [li EXCEPT ![p].LostEvents = FALSE]
  /\ known' = [known EXCEPT ![p] = Misses(@, tour.frames)]

Lost(p) ==
  /\ li' = [li EXCEPT ![p].LostEvents = TRUE]
  /\ known' = [known EXCEPT ![p] = Misses(@, tour.frames)]

\* SendEventToListener.  If SendMsg finds the port gone, the message goes back to
\* the pool.
SendEventToListener(p) ==
  LET full == li[p].QueueOutstanding >= li[p].QueueMax
      sent == [at |-> "out", to |-> p, orphan |-> FALSE]
  IN  /\ tour.to = p /\ p \in Port
      /\ Visited
      /\ \/ /\ full
            /\ Lost(p) /\ UNCHANGED <<em, listenerList, focusListener>>
         \/ /\ ~full /\ p \notin open
            /\ KillListener(p) /\ em' = Orphaned(p)
         \/ /\ ~full /\ p \in open
            /\ em' = [em EXCEPT ![sent] = @ + 1]
            /\ li' = [li EXCEPT ![p].LostEvents = FALSE,
                                ![p].ReportPortChange = FALSE,
                                ![p].QueueOutstanding = @ + 1]
            /\ known' = [known EXCEPT ![p] = Learns(@, tour.frames)]
            /\ UNCHANGED <<listenerList, focusListener>>
      /\ UNCHANGED <<open, asked, portChanged>>

-----------------------------------------------------------------------------
(* What the broker wakes for *)

\* DispatchEvent, and the last part of ProcessControlPortInput.
Starts(events) == tour' = [NoTour EXCEPT !.events = events, !.rest = listenerList]

\* A read of the control port is done.  If the pods are coming or going, nobody
\* is told until a later frame is clean.  The tour notes a change of the bus for
\* each listener as it comes to it, which is as good as for all at once.
ProcessControlPortInput(changed, bogus, events) ==
  /\ Idle
  /\ IF bogus THEN portChanged' = (portChanged \/ changed) /\ UNCHANGED <<li, tour>>
     ELSE /\ portChanged' = FALSE
          /\ li' = [p \in Port |->
                      IF Listens(p)
                        THEN [li[p] EXCEPT !.ReportPortChange = @ \/ portChanged \/ changed]
                        ELSE li[p]]
          /\ Starts(events)
  /\ known' = [p \in Port |->
                 IF changed /\ Listens(p) /\ "portchange" \in li[p].triggers
                   THEN [known[p] EXCEPT !.missed = @ \cup {"portchange"}]
                   ELSE known[p]]
  /\ UNCHANGED <<open, asked, em, listenerList, focusListener>>

\* ProcessHighLevelEvents: the events of a driver, or those of EB_SendEvent.
DispatchEvent(events) ==
  /\ Idle
  /\ Starts(events)
  /\ UNCHANGED <<open, asked, em, li, listenerList, focusListener, portChanged, known>>

MayAsk(p) == li[p].NewlyInitialized \/ p \in MayAskAgain

\* EB_Configure, of a port that may be gone.  A new listener that takes the focus
\* has it.
Configure(p, ask) ==
  LET l == [li[p] EXCEPT
              !.category = ask.category, !.triggers = ask.triggers,
              !.QueueMax = IF ask.max \in 1..QueuePermitted THEN ask.max ELSE @,
              !.NewlyInitialized = FALSE]
      new == li[p].NewlyInitialized
      seizes == new /\ ask.category \in {"FocusListener", "FocusUI"}
  IN  /\ Idle /\ p \in open \cup asked /\ MayAsk(p)
      /\ asked' = asked \ {p}
      /\ IF seizes
           THEN /\ li' = Focused([li EXCEPT ![p] = l], p)
                /\ focusListener' = p
           ELSE li' = [li EXCEPT ![p] = l] /\ UNCHANGED focusListener
      /\ listenerList' = IF seizes THEN AtHead(p) ELSE Listed(p)
      /\ known' = [known EXCEPT
                     ![p].focus = IF new \/ {"giving", "losing"} \subseteq li[p].triggers
                                    THEN @ ELSE "unsure",
                     ![p].missed = @ \cap ({"event"} \cup ask.triggers)]
      /\ UNCHANGED <<open, em, portChanged, tour>>

\* EB_MakeTable: it may make a listener, which has not been configured.
MakeTable(p) ==
  /\ Idle /\ p \in open \cap MayMakeTable
  /\ listenerList' = Listed(p)
  /\ UNCHANGED <<open, asked, em, li, focusListener, portChanged, tour, known>>

\* EB_SetFocus: refused unless p has a listener that takes the focus.
SetFocus(p) ==
  /\ Idle /\ Listens(p) /\ TakesFocus(p)
  /\ li' = Focused(li, p) /\ focusListener' = p
  /\ UNCHANGED <<open, asked, em, listenerList, portChanged, tour, known>>

-----------------------------------------------------------------------------
(* The programs *)

\* A program sends a message back, although it may have deleted its port, and
\* DequeuePendingEvent finds it on the broker's list.
ReplyEvent(k) ==
  /\ Idle /\ k.at = "out" /\ em[k] > 0
  /\ li' = Dequeued(k)
  /\ em' = [em EXCEPT ![k] = @ - 1]
  /\ UNCHANGED <<open, asked, listenerList, focusListener, portChanged, tour, known>>

\* The messages on a port that is deleted are not sent back (ports.c), those that
\* the program has got from it may be, and its EB_Configure may still be with the
\* broker.
ClosePort(p) ==
  /\ p \in open \cap MayClose
  /\ open' = open \ {p}
  /\ \E onPort \in [{k \in Kind : k.to = p /\ k.at = "out"} -> 0..QueuePermitted] :
       /\ \A k \in DOMAIN onPort : onPort[k] <= em[k]
       /\ em' = [k \in Kind |->
                   IF k.to # p THEN em[k]
                   ELSE IF k.at = "out" THEN em[k] - onPort[k]
                   ELSE em[k] + onPort[[k EXCEPT !.at = "out"]]]
  /\ asked' \in {asked} \cup {asked \cup {q} : q \in {q \in {p} : MayAsk(q)}}
  /\ UNCHANGED <<li, listenerList, focusListener, portChanged, tour, known>>

-----------------------------------------------------------------------------
AutomounterListener ==
  [NewListener EXCEPT !.category = "Observer", !.triggers = {"system"},
                      !.QueueMax = QueuePermitted, !.NewlyInitialized = FALSE]

\* The automounter, if it runs before the broker, is a listener from the start.
Init ==
  /\ open = Port
  /\ asked = {}
  /\ em = NoMessages
  /\ \E seeded \in BOOLEAN :
       /\ listenerList = IF seeded THEN <<Automounter>> ELSE <<>>
       /\ li = [p \in Port |-> IF seeded /\ p = Automounter THEN AutomounterListener
                               ELSE NewListener]
  /\ focusListener = NoPort
  /\ portChanged = FALSE
  /\ tour = NoTour
  /\ known = [p \in Port |-> Ignorant]

Frame ==
  \E events \in Frames :
    \/ \E changed, bogus \in BOOLEAN : ProcessControlPortInput(changed, bogus, events)
    \/ DispatchEvent(events)

Next ==
  \/ VisitListener \/ Frame
  \/ \E k \in Kind : ReplyEvent(k)
  \/ \E p \in Port :
       \/ SendEventToListener(p)
       \/ \E ask \in Asks[p] : Configure(p, ask)
       \/ p \in MayFocus /\ SetFocus(p)
       \/ MakeTable(p) \/ ClosePort(p)

Spec == Init /\ [][Next]_vars

CleanFrame ==
  \E changed \in BOOLEAN, events \in Frames :
    ProcessControlPortInput(changed, FALSE, events)

Returns(p) == \E k \in Kind : k.to = p /\ ReplyEvent(k)

CanReturn(p) == Idle /\ p \in open /\ \E k \in Kind : k.to = p /\ k.at = "out" /\ em[k] > 0

\* The broker's task runs, the hardware gives a clean frame of the control port
\* again and again, and a program with a port sends its messages back.  Written
\* with the conditions under which these are enabled: weak fairness of a tour's
\* steps, which are all that is possible of the broker in a tour, is that it ends.
FairSpec ==
  /\ Spec
  /\ []<>Idle
  /\ []<>(listenerList # <<>>) => []<><<CleanFrame>>_tour
  /\ \A p \in Port : []<>CanReturn(p) => []<><<Returns(p)>>_em

-----------------------------------------------------------------------------
(* Properties *)

\* A listener's queue is as long as the messages that are out for it, and no
\* message is out for a listener that was freed: through ports that are deleted
\* at any moment, messages that come back afterwards, and sends that fail.
MessagesAccounted ==
  \A p \in Port :
    em[[at |-> "out", to |-> p, orphan |-> FALSE]]
      + em[[at |-> "gone", to |-> p, orphan |-> FALSE]]
      = IF Listens(p) THEN li[p].QueueOutstanding ELSE 0

\* What a program knows of the focus, if it is sure, is so.
KnowsFocus(p) ==
  {"giving", "losing"} \subseteq li[p].triggers
    => known[p].focus \in {"unsure", IF p = focusListener THEN "yes" ELSE "no"}

\* What a listener has not been told of, the broker has a note of.  Events and the
\* news that it has the focus, or that another took it or was left it, may be lost
\* to a full queue, and changes of the bus come in frames that are not clean: then
\* it is still to be told, or to be told that it has lost something.
NotesKept ==
  \A p \in Port :
    Listens(p) /\ tour.to # p =>
      LET l == li[p]
      IN  /\ "event" \in known[p].missed => l.LostEvents
          /\ "portchange" \in known[p].missed => l.ReportPortChange \/ portChanged
          /\ KnowsFocus(p) \/ l.HasFocus # l.ToldFocus \/ l.LostEvents

\* A listener whose category lets TriggerListener tell it of lost events.
Attends(p) ==
  /\ Listens(p) /\ p \in open
  /\ li[p].category \in {"Observer", "FocusUI"} \/ (TakesFocus(p) /\ p = focusListener)

Uninformed(p) == Attends(p) /\ (known[p].missed # {} \/ ~KnowsFocus(p))

\* A listener that sends its messages back is told in the end of the events, the
\* changes of the bus and of the focus that it missed, or that it missed some.
EventuallyTold == \A p \in Port : Uninformed(p) ~> ~Uninformed(p)
=============================================================================

------------------------------- MODULE Ports --------------------------------
(***************************************************************************)
(* Message ports and messages: ports.c as SWIs of the executive.           *)
(*                                                                         *)
(* A message belongs to one task or one port at a time.  PutMsg links it   *)
(* into a port, GetMsg hands it to the port's owner, ReplyMsg links it     *)
(* into the reply port its creator gave it.  WaitPort sleeps inside the    *)
(* kernel until a message, or one particular message, is on the port; a    *)
(* waiter of a message that is deleted is told with SIGF_ABORT.            *)
(***************************************************************************)
EXTENDS Exec

CONSTANTS
  Port, Msg,     \* the ports and messages; an item number is not used again
  NoItem,        \* 0 where the code expects an item
  PortOwner,     \* the task whose program creates each port
  ReplyPort,     \* the reply port its creator gives each message
  MsgPri,        \* the priority of each message
  MayDelete      \* the items their owners' programs delete

ASSUME PortAssumption ==
  /\ IsFiniteSet(Port) /\ IsFiniteSet(Msg)
  /\ Port \cap Msg = {} /\ (Port \cup Msg) \cap Task = {}
  /\ NoItem \notin Port \cup Msg \cup Task
  /\ PortOwner \in [Port -> Task]
  /\ ReplyPort \in [Msg -> Port]
  /\ MsgPri \in [Msg -> Nat]
  /\ MayDelete \subseteq Port \cup Msg

VARIABLES
  port,      \* the message ports: not yet made, made, their signals and lists
  msg,       \* the messages: flags SENT and REPLIED, port or owner, waiters
  wait       \* the WaitPort each task sleeps in

mail == <<port, msg, wait>>

mailVars == <<vars, mail>>

NoWait == [on |-> NoItem, msg |-> NoItem]

\* Only the owner of the reply port can create a message with it.
MsgOwner(m) == PortOwner[ReplyPort[m]]

Refuse == Return(kb) /\ UNCHANGED mail

-----------------------------------------------------------------------------
(* Creating *)

\* CreateMsgPort without a signal of the caller's: allocates one, or fails.
CreateMsgPort(p) ==
  LET free   == UserSigs \ kb.AllocatedSigs[Me]
      lowest == {b \in free : \A c \in free : b <= c}
  IN  /\ Swi /\ p \in port.fresh /\ PortOwner[p] = Me
      /\ IF free = {} THEN Refuse
         ELSE /\ Return(ClearSignals([kb EXCEPT !.AllocatedSigs[Me] = @ \cup lowest],
                                     Me, lowest))
              /\ port' = [port EXCEPT !.fresh = @ \ {p},
                                      !.made = @ \cup {p},
                                      !.Signal[p] = lowest]
              /\ UNCHANGED <<msg, wait>>

CreateMsg(m) ==
  /\ Swi /\ m \in msg.fresh /\ MsgOwner(m) = Me /\ ReplyPort[m] \in port.made
  /\ Return(kb)
  /\ msg' = [msg EXCEPT !.fresh = @ \ {m}, !.made = @ \cup {m}, !.MsgPort[m] = Me]
  /\ UNCHANGED <<port, wait>>

-----------------------------------------------------------------------------
(* Sending *)

\* Mutant of Link: nobody is told of a reply.
Link_Silent(m, p, flags) ==
  /\ port' = [port EXCEPT !.Msgs[p] = TailInsertNode(@, MsgPri, m)]
  /\ msg' = [msg EXCEPT !.Flags[m] = flags, !.MsgPort[m] = p]
  /\ Return(IF "REPLIED" \in flags THEN kb
            ELSE internalSignal(kb, PortOwner[p], port.Signal[p]))

\* A message goes to a port, and the port's owner is signalled.
Link(m, p, flags) ==
  /\ port' = [port EXCEPT !.Msgs[p] = TailInsertNode(@, MsgPri, m)]
  /\ msg' = [msg EXCEPT !.Flags[m] = flags, !.MsgPort[m] = p]
  /\ Return(internalSignal(kb, PortOwner[p], port.Signal[p]))

PutMsg(p, m) ==
  /\ Swi /\ p \in port.made /\ m \in msg.made
  /\ IF msg.MsgPort[m] # Me \/ msg.Flags[m] # {} THEN Refuse
     ELSE Link(m, p, {"SENT"}) /\ UNCHANGED wait

\* The holder is a task with the caller's context: here the caller itself.
ReplyMsg(m) ==
  /\ Swi /\ m \in msg.made
  /\ IF msg.MsgPort[m] # Me \/ ReplyPort[m] \notin port.made \/ msg.Flags[m] # {}
     THEN Refuse
     ELSE Link(m, ReplyPort[m], {"SENT", "REPLIED"}) /\ UNCHANGED wait

-----------------------------------------------------------------------------
(* Receiving *)

Without(q, m) == IF m \in ToSet(q) THEN RemoveNode(q, m) ELSE q

\* REMOVENODE or RemHead, and the message belongs to t.
Unlink(m, t) ==
  /\ port' = [port EXCEPT !.Msgs = [p \in Port |-> Without(@[p], m)]]
  /\ msg' = [msg EXCEPT !.Flags[m] = {}, !.MsgPort[m] = t]

GetMsg(p) ==
  /\ Swi /\ p \in port.made
  /\ IF PortOwner[p] # Me \/ port.Msgs[p] = <<>> THEN Refuse
     ELSE Return(kb) /\ Unlink(Head(port.Msgs[p]), Me) /\ UNCHANGED wait

OKMsg(m, t) ==
  MsgOwner(m) = t \/ (msg.MsgPort[m] \in port.made /\ PortOwner[msg.MsgPort[m]] = t)

GetThisMsg(m) ==
  /\ Swi /\ m \in msg.made
  /\ IF ~OKMsg(m, Me) \/ msg.Flags[m] = {} THEN Refuse
     ELSE Return(kb) /\ Unlink(m, Me) /\ UNCHANGED wait

\* The next turn of the loops of internalWaitPort, the count of waiters being
\* that of counted.
Turn(p, m, counted) ==
  LET there == IF m = NoItem THEN port.Msgs[p] # <<>> ELSE msg.MsgPort[m] = p
      first == IF m = NoItem THEN Head(port.Msgs[p]) ELSE m
  IN  IF there
      THEN /\ Return(kb)
           /\ port' = [port EXCEPT !.Msgs[p] = Without(@, first)]
           /\ msg' = [counted EXCEPT !.Flags[first] = {}, !.MsgPort[first] = Me]
           /\ wait' = [wait EXCEPT ![Me] = NoWait]
      ELSE /\ kb' = internalWait(kb, port.Signal[p])
           /\ mode' = IF WaitSleeps(kb, port.Signal[p]) THEN "blip" ELSE "swi"
           /\ wait' = [wait EXCEPT ![Me] = [on |-> p, msg |-> m]]
           /\ msg' = IF m = NoItem THEN counted
                     ELSE [counted EXCEPT !.Waiters[m] = @ + 1]
           /\ UNCHANGED port

WaitPort(p, m) ==
  /\ Swi
  /\ IF p \notin port.made \/ m \notin msg.made \cup {NoItem} \/ PortOwner[p] # Me
     THEN Refuse
     ELSE Turn(p, m, msg)

Waiting == mode = "swi" /\ wait[Me].on # NoItem

\* internalWait returns to internalWaitPort.
WaitReturn ==
  LET m       == wait[Me].msg
      counted == IF m = NoItem THEN msg ELSE [msg EXCEPT !.Waiters[m] = @ - 1]
  IN  /\ Waiting
      /\ IF ABORT \in kb.ret
         THEN /\ Return(kb) /\ wait' = [wait EXCEPT ![Me] = NoWait]
              /\ UNCHANGED <<port, msg>>
         ELSE Turn(wait[Me].on, m, counted)

-----------------------------------------------------------------------------
(* Deleting *)

\* Mutant of DeleteMsg: tells nobody.
DeleteMsg_Quiet(m) ==
  /\ Swi /\ m \in msg.made /\ MsgOwner(m) = Me /\ m \in MayDelete
  /\ Return(kb)
  /\ port' = [port EXCEPT !.Msgs = [p \in Port |-> Without(@[p], m)]]
  /\ msg' = [msg EXCEPT !.made = @ \ {m}, !.Flags[m] = {"SENT"}, !.MsgPort[m] = NoItem,
                        !.Waiters[m] = 0]
  /\ UNCHANGED wait

\* The walk over kb_Tasks: SIGF_ABORT to one waiter after the other.
AbortAll(k, order) ==
  LET after[n \in 0..Len(order)] ==
        IF n = 0 THEN k ELSE internalSignal(after[n - 1], order[n], {ABORT})
  IN  after[Len(order)]

\* Only the owner is not refused.  What the freed memory holds is not read
\* again; the model clears it.
DeleteMsg(m) ==
  LET told == {t \in Task : wait[t].msg = m /\ msg.Waiters[m] # 0}
  IN  /\ Swi /\ m \in msg.made /\ MsgOwner(m) = Me /\ m \in MayDelete
      /\ \E order \in SetToSeqs(told) :
           /\ ToSet(order) = told /\ Len(order) = Cardinality(told)
           /\ Return(AbortAll(kb, order))
      /\ port' = [port EXCEPT !.Msgs = [p \in Port |-> Without(@[p], m)]]
      /\ msg' = [msg EXCEPT !.made = @ \ {m}, !.Flags[m] = {"SENT"}, !.MsgPort[m] = NoItem,
                            !.Waiters[m] = 0]
      /\ UNCHANGED wait

\* Mutant of DeleteMsgPort: leaves the messages on it as they are.
DeleteMsgPort_Leaves(p) ==
  /\ Swi /\ p \in port.made /\ PortOwner[p] = Me /\ p \in MayDelete
  /\ Return(kb)
  /\ port' = [port EXCEPT !.made = @ \ {p}, !.Msgs[p] = <<>>]
  /\ UNCHANGED <<msg, wait>>

\* The messages on the port are freed of their flags.  Those that were not
\* replies are then given to externalReplyMsg, which refuses them: msg_MsgPort
\* is a port, not a task.
DeleteMsgPort(p) ==
  /\ Swi /\ p \in port.made /\ PortOwner[p] = Me /\ p \in MayDelete
  /\ Return(ClearSignals([kb EXCEPT !.AllocatedSigs[Me] = @ \ port.Signal[p]],
                         Me, port.Signal[p]))
  /\ msg' = [msg EXCEPT !.Flags = [m \in Msg |-> IF m \in ToSet(port.Msgs[p]) THEN {} ELSE @[m]]]
  /\ port' = [port EXCEPT !.made = @ \ {p}, !.Msgs[p] = <<>>, !.Signal[p] = {}]
  /\ UNCHANGED wait

-----------------------------------------------------------------------------
MailInit ==
  /\ Init
  /\ port = [fresh |-> Port, made |-> {}, Signal |-> [p \in Port |-> {}],
             Msgs |-> [p \in Port |-> <<>>]]
  /\ msg = [fresh |-> Msg, made |-> {}, Flags |-> [m \in Msg |-> {}],
            MsgPort |-> [m \in Msg |-> NoItem], Waiters |-> [m \in Msg |-> 0]]
  /\ wait = [t \in Task |-> NoWait]

MailSwi ==
  \/ \E p \in Port : \/ CreateMsgPort(p) \/ DeleteMsgPort(p) \/ GetMsg(p)
                     \/ \E m \in Msg : PutMsg(p, m)
                     \/ \E m \in Msg \cup {NoItem} : WaitPort(p, m)
  \/ \E m \in Msg : CreateMsg(m) \/ DeleteMsg(m) \/ GetThisMsg(m) \/ ReplyMsg(m)

Kernel ==
  \/ WaitReturn
  \/ wait[Me].on = NoItem /\ SwiRet /\ UNCHANGED mail
  \/ StartNext /\ UNCHANGED mail
  \/ FirqReturn /\ UNCHANGED mail

Preempt == FirqQuantum /\ UNCHANGED mail

MailNext == MailSwi \/ Kernel \/ Preempt

MailSpec == MailInit /\ [][MailNext]_mailVars

\* The processor goes on executing and the quantum timer expires: weak fairness,
\* with the conditions under which the actions are enabled.
MailFairSpec ==
  /\ MailSpec
  /\ []<>(mode = "user") \/ []<><<Kernel>>_mailVars
  /\ []<>~Expires \/ []<><<Preempt>>_mailVars

-----------------------------------------------------------------------------
(* Properties *)

\* MESSAGE_SENT says that a message is on a port, exactly one and exactly once,
\* and msg_MsgPort says on which; REPLIED, that it is its reply port.  The
\* code unlinks a message on the strength of the flag alone.  A port holds
\* messages that exist only, in the order of their priorities.
MsgPlaced ==
  /\ \A m \in msg.made :
       LET on == {p \in Port : m \in ToSet(port.Msgs[p])} IN
       /\ IF "SENT" \in msg.Flags[m] THEN on = {msg.MsgPort[m]} /\ on \subseteq port.made
          ELSE on = {} /\ msg.Flags[m] = {}
       /\ "REPLIED" \in msg.Flags[m] => on = {ReplyPort[m]}
       /\ \A p \in on : IsInjective(port.Msgs[p])
  /\ \A p \in Port : Sorted(port.Msgs[p], MsgPri) /\ ToSet(port.Msgs[p]) \subseteq msg.made

Sleeps(t) == t \in kb.TaskWaitQ /\ wait[t].on # NoItem

\* No message is missed: a task asleep in WaitPort has no message it waits for
\* on its port, the message it waits for exists, and its port keeps the signal
\* that wakes it.
NoneMissed ==
  \A t \in Task : Sleeps(t) =>
    /\ wait[t].on \in port.made
    /\ port.Signal[wait[t].on] \subseteq kb.WaitBits[t] \cap kb.AllocatedSigs[t]
    /\ IF wait[t].msg = NoItem THEN port.Msgs[wait[t].on] = <<>>
       ELSE wait[t].msg \in msg.made /\ msg.MsgPort[wait[t].msg] # wait[t].on

\* A receiver that waits on its port while a message is there does not wait
\* for ever.
Received ==
  \A t \in Task, p \in Port :
    (wait[t] = [on |-> p, msg |-> NoItem] /\ port.Msgs[p] # <<>>)
      ~> (wait[t] = NoWait \/ port.Msgs[p] = <<>>)

\* ports.c:875, "send back to owner": the messages that are on a port when it
\* is deleted, and are not replies, go back to their reply ports.
SentBack ==
  [][\A p \in Port :
       p \in port.made \ port'.made
         => \A m \in ToSet(port.Msgs[p]) :
              "REPLIED" \notin msg.Flags[m] /\ ReplyPort[m] \in port'.made
                => msg'.MsgPort[m] = ReplyPort[m]]_mailVars
=============================================================================

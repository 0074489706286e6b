----------------------------- MODULE DemandLoad -----------------------------
(***************************************************************************)
(* Folios that are loaded on demand: the item calls of item.c, OpenFolio   *)
(* and CloseFolio (folio.c), UserModeService (usermodeservices.c), and the *)
(* server in user mode that loads the code of a folio and frees it         *)
(* (usermodeserver.c).                                                     *)
(*                                                                         *)
(* There is one folio, of which copies are loaded one after the other, and *)
(* tasks that open and close it, create items of its and other items, and  *)
(* exit.  A call of the kernel is not preempted, but it sleeps for the     *)
(* server's answer; the server has a thread run each module's main().      *)
(*                                                                         *)
(* Using code or data that has been freed has no defined outcome: "wild"   *)
(* says that it has happened, and nothing is modelled after that.          *)
(***************************************************************************)
EXTENDS ResourceTable

CONSTANTS
  Task,
  NoTask,      \* no task, and the owner of what the server owns
  MayRefuse,   \* the tasks that f_OpenFolio may refuse
  MayExit,     \* the tasks that may exit
  Twice,       \* the tasks that may open what they have open already
  MaxLoads,    \* bounds the loads
  MaxEntries   \* bounds what a task owns and opens

ASSUME LoadAssumption ==
  /\ IsFiniteSet(Task) /\ NoTask \notin Task
  /\ MayRefuse \subseteq Task /\ MayExit \subseteq Task /\ Twice \subseteq Task
  /\ MaxLoads \in Nat /\ MaxEntries \in Nat

Copy == 1..MaxLoads

VARIABLE sys

Open(c) == Entry("open", c)
Made(c) == Entry("made", c)    \* an item of the folio's
Other   == Entry("other", 0)   \* an item of the kernel's

\* The record of a copy: its code, whether its item exists and is found, the
\* opens, f_DemandLoad, and the thread that owns the item, named by the task
\* that it serves.
NewFolio ==
  [code |-> "none", there |-> FALSE, count |-> 0, context |-> FALSE, owner |-> NoTask]

\* The call that a task is in, the slot it is about, the answer of the server,
\* whether TASK_EXITING is set, and the slots that FreeResources has not been
\* through.
NewCall ==
  [in |-> "user", copy |-> 0, slot |-> 0, answer |-> "none", exits |-> FALSE, left |-> 0]

Wild(s) == [s EXCEPT !.wild = TRUE]

Exiting(s, t) == s.call[t].exits

\* The call is over, or FreeResources goes on.
Returned(s, t) ==
  [s EXCEPT !.call[t] = [NewCall EXCEPT !.in = IF Exiting(s, t) THEN "exit" ELSE "user",
                                        !.exits = s.call[t].exits,
                                        !.left = s.call[t].left],
            !.current = IF Exiting(s, t) THEN t ELSE NoTask]

FreesSlot(s, t, i) ==
  Returned([s EXCEPT !.table[t] = FreeItemSlot(@, i)], t)

-----------------------------------------------------------------------------
(* The services *)

Port == Entry("port", 0)
Message == Entry("message", 0)

\* t sends the service a message, with a port to reply to, and sleeps.  An
\* exiting task goes on afterwards in the table that it had before.
UserModeService(s, t, service, c, i) ==
  LET table == Filled(Filled(s.table[t], Port), Message)
  IN  IF Exiting(s, t) /\ Len(table.slot) # Len(s.table[t].slot) THEN Wild(s)
      ELSE [s EXCEPT !.table[t] = table,
                     !.call[t].in = service, !.call[t].copy = c, !.call[t].slot = i,
                     !.port = Append(@, t),
                     !.current = NoTask]

\* What it does about these when it wakes.
Answered(table) == RemoveItem(RemoveItem(table, Message), Port)

LoadModule(s, t) ==
  LET c == CHOOSE x \in Copy : s.folio[x].code = "none"
                               /\ \A y \in Copy : s.folio[y].code = "none" => x <= y
  IN  UserModeService([s EXCEPT !.folio[c].code = "asked"], t, "load", c, 0)

\* Afterwards, the slot is freed.
UnloadModule(s, t, c, i) ==
  IF s.folio[c].context THEN UserModeService(s, t, "unload", c, i)
  ELSE FreesSlot(s, t, i)

-----------------------------------------------------------------------------
(* Opening and closing *)

\* Mutant of OpenFolio: an open that is refused counts.
OpenFolio_Counts(s, t, c) ==
  LET i == AllocItemSlot(s.table[t])
      taken == [s EXCEPT !.table[t] = Allocated(@), !.folio[c].count = @ + 1]
  IN  IF s.folio[c].code = "freed" THEN {Wild(s)}
      ELSE {Returned([taken EXCEPT !.table[t].slot[i] = Open(c)], t)} \cup
           {UnloadModule(taken, t, c, i) : r \in MayRefuse \cap {t}}

\* internalOpenItem and OpenFolio.  A folio that refuses to be opened is unloaded.
OpenFolio(s, t, c) ==
  LET i == AllocItemSlot(s.table[t])
      taken == [s EXCEPT !.table[t] = Allocated(@)]
  IN  IF s.folio[c].code = "freed" THEN {Wild(s)}
      ELSE {Returned([taken EXCEPT !.folio[c].count = @ + 1,
                                   !.table[t].slot[i] = Open(c)], t)} \cup
           {UnloadModule(taken, t, c, i) : r \in MayRefuse \cap {t}}

\* Mutant of ReleaseFolioItems: the open that is being closed is not counted.
ReleaseFolioItems_NoOpen(s, t, c) ==
  IF ~Exiting(s, t) /\ Slots(s.table[t], Open(c)) = {}
    THEN [s EXCEPT !.table[t] = FreeItemSlots(@, Slots(@, Made(c)))] ELSE s

\* A task that closes a folio for the last time loses its items of the folio.
ReleaseFolioItems(s, t, c) ==
  IF ~Exiting(s, t) /\ Cardinality(Slots(s.table[t], Open(c))) = 1
    THEN [s EXCEPT !.table[t] = FreeItemSlots(@, Slots(@, Made(c)))] ELSE s

\* Mutant of CloseFolio: the last but one to close has it unloaded.
CloseFolio_Early(s, t, c, i) ==
  LET closed == ReleaseFolioItems([s EXCEPT !.folio[c].count = @ - 1], t, c)
  IN  IF s.folio[c].code = "freed" THEN Wild(s)
      ELSE IF closed.folio[c].count = 1 THEN UnloadModule(closed, t, c, i)
      ELSE FreesSlot(closed, t, i)

CloseFolio(s, t, c, i) ==
  LET closed == ReleaseFolioItems([s EXCEPT !.folio[c].count = @ - 1], t, c)
  IN  IF s.folio[c].code = "freed" THEN Wild(s)
      ELSE IF closed.folio[c].count = 0 THEN UnloadModule(closed, t, c, i)
      ELSE FreesSlot(closed, t, i)

internalCloseItem(s, t, c) ==
  LET i == FindItemSlot(s.table[t], Open(c))
  IN  IF s.folio[c].there THEN CloseFolio(s, t, c, i) ELSE FreesSlot(s, t, i)

\* The folio that WhichFolio finds for an item has to be there.
internalDeleteItem(s, t, e) ==
  IF e # Other /\ \A c \in Copy : ~s.folio[c].there THEN Wild(s)
  ELSE FreesSlot(s, t, FindItemSlot(s.table[t], e))

-----------------------------------------------------------------------------
(* The calls *)

User(t) == ~sys.wild /\ sys.current = NoTask /\ sys.call[t].in = "user"

Room(t) ==
  Cardinality({i \in DOMAIN sys.table[t].slot : sys.table[t].slot[i] # NoEntry})
    < MaxEntries

FindAndOpenItem(t) ==
  LET found == {c \in Copy : sys.folio[c].there}
  IN  /\ User(t) /\ Room(t)
      /\ t \in Twice \/ \A c \in found : Slots(sys.table[t], Open(c)) = {}
      /\ IF found # {} THEN \E c \in found : sys' \in OpenFolio(sys, t, c)
         ELSE /\ \E c \in Copy : sys.folio[c].code = "none"
              /\ sys' = LoadModule(sys, t)

CloseItem(t) ==
  /\ User(t)
  /\ \E c \in Copy : /\ Slots(sys.table[t], Open(c)) # {}
                     /\ sys' = internalCloseItem(sys, t, c)

CreateItem(t) ==
  /\ User(t) /\ Room(t)
  /\ \/ sys' = [sys EXCEPT !.table[t] = Filled(@, Other)]
     \/ \E c \in Copy :
          /\ Slots(sys.table[t], Open(c)) # {}
          /\ sys' = IF sys.folio[c].code = "freed" THEN Wild(sys)
                    ELSE [sys EXCEPT !.table[t] = Filled(@, Made(c))]

DeleteItem(t) ==
  /\ User(t)
  /\ \E e \in {Other} \cup {Made(c) : c \in Copy} :
       /\ Slots(sys.table[t], e) # {}
       /\ sys' = internalDeleteItem(sys, t, e)

\* The server has answered: what each call does when it wakes.
Wakes(t) ==
  LET call == sys.call[t]
      woken == [sys EXCEPT !.table[t] = Answered(@), !.call[t].answer = "none"]
  IN  /\ ~sys.wild /\ sys.current = NoTask
      /\ call.answer # "none"
      /\ \/ /\ call.in = "unload"
            /\ sys' = FreesSlot(woken, t, call.slot)
         \/ /\ call.in = "load" /\ call.answer = "failed"
            /\ sys' = Returned(woken, t)
         \/ /\ call.in = "load" /\ call.answer = "done"
            /\ sys' \in OpenFolio([woken EXCEPT !.folio[call.copy].context = TRUE],
                                  t, call.copy)

Exit(t) ==
  /\ t \in MayExit /\ User(t)
  /\ sys' = [sys EXCEPT !.call[t].in = "exit", !.call[t].exits = TRUE,
                        !.call[t].left = Len(sys.table[t].slot), !.current = t]

\* One turn of FreeResources, from the last slot to the first.
FreeResources(t) ==
  LET i == sys.call[t].left
      e == sys.table[t].slot[i]
      next == [sys EXCEPT !.call[t].left = @ - 1]
  IN  /\ ~sys.wild /\ sys.current = t
      /\ IF i = 0
           THEN sys' = [sys EXCEPT !.call[t].in = "dead", !.table[t] = EmptyTable,
                                   !.current = NoTask]
         ELSE sys' = CASE e.kind = "open" -> internalCloseItem(next, t, e.item)
                       [] e.kind \in {"made", "other"} -> internalDeleteItem(next, t, e)
                       [] OTHER -> next

-----------------------------------------------------------------------------
(* The server *)

Replied(s, t, answer) == [s EXCEPT !.call[t].answer = answer, !.job[t] = "none"]

\* ProvideServices takes a message, and has a thread do what it asks for.  The
\* code may fail to load.  Of what is to be unloaded the thread is made the
\* owner, if that is the server.
ProvideServices ==
  LET t == Head(sys.port)
      c == sys.call[t].copy
      taken == [sys EXCEPT !.port = Tail(@)]
  IN  /\ ~sys.wild /\ sys.current = NoTask /\ sys.port # <<>>
      /\ \/ /\ sys.call[t].in = "load"
            /\ \/ sys' = [taken EXCEPT !.folio[c].code = "loaded", !.job[t] = "load"]
               \/ sys' = Replied([taken EXCEPT !.folio[c].code = "failed"], t, "failed")
         \/ /\ sys.call[t].in = "unload"
            /\ sys' = IF sys.folio[c].code = "freed" THEN Wild(sys)
                      ELSE [taken EXCEPT !.job[t] = "unload",
                                         !.folio[c].owner = IF @ = NoTask THEN t ELSE @]

Thread(t, job) == ~sys.wild /\ sys.current = NoTask /\ sys.job[t] = job

\* Mutant of LoaderThread: there is no reply when main() fails.
LoaderThread_Silent(t) ==
  LET c == sys.call[t].copy
  IN  \/ /\ Thread(t, "load")
         /\ sys' = IF \E x \in Copy : sys.folio[x].there
                     THEN [sys EXCEPT !.folio[c].code = "failed", !.job[t] = "none"]
                   ELSE [sys EXCEPT !.folio[c].there = TRUE, !.folio[c].owner = t,
                                    !.job[t] = "loaded"]
      \/ /\ Thread(t, "loaded")
         /\ sys' = Replied([sys EXCEPT !.folio[c].owner = NoTask], t, "done")

\* main() of the folio creates it, unless there is one: its name is unique.
LoaderThread(t) ==
  LET c == sys.call[t].copy
  IN  \/ /\ Thread(t, "load")
         /\ sys' = IF \E x \in Copy : sys.folio[x].there
                     THEN Replied([sys EXCEPT !.folio[c].code = "failed"], t, "failed")
                   ELSE [sys EXCEPT !.folio[c].there = TRUE, !.folio[c].owner = t,
                                    !.job[t] = "loaded"]
      \/ /\ Thread(t, "loaded")
         /\ sys' = Replied([sys EXCEPT !.folio[c].owner = NoTask], t, "done")

\* internalDeleteFolio, by the thread that serves t.
DeletedFolio(s, t, c) ==
  IF s.folio[c].owner = t /\ s.folio[c].count = 0
    THEN [s EXCEPT !.folio[c].there = FALSE] ELSE s

\* main() is called to clean up, the folio is deleted, which may be refused, and
\* its code and data are freed.  The thread replies and exits, which deletes what
\* it still owns.
UnloaderThread(t) ==
  LET c == sys.call[t].copy
      gone == sys.folio[c].code = "freed"
  IN  \/ /\ Thread(t, "unload")
         /\ sys' = IF gone THEN Wild(sys)
                   ELSE [DeletedFolio(sys, t, c) EXCEPT !.job[t] = "unloading"]
      \/ /\ Thread(t, "unloading")
         /\ sys' = IF gone THEN Wild(sys)
                   ELSE [sys EXCEPT !.folio[c].code = "freed", !.job[t] = "unloaded"]
      \/ /\ Thread(t, "unloaded")
         /\ sys' = Replied(DeletedFolio(sys, t, c), t, "done")

-----------------------------------------------------------------------------
Init ==
  sys = [folio |-> [c \in Copy |-> NewFolio],
         table |-> [t \in Task |-> IncreaseResourceTable(EmptyTable, FirstSlots)],
         call |-> [t \in Task |-> NewCall],
         port |-> <<>>,                        \* of the tasks that ask the server
         job |-> [t \in Task |-> "none"],      \* what a thread does for each
         current |-> NoTask,                   \* an exiting task that does not sleep
         wild |-> FALSE]

\* After freed memory was used: anything, of which nothing is modelled.
Undefined == sys.wild /\ UNCHANGED sys

Next ==
  \/ \E t \in Task :
       \/ FindAndOpenItem(t) \/ CloseItem(t) \/ CreateItem(t) \/ DeleteItem(t)
       \/ Wakes(t) \/ Exit(t) \/ FreeResources(t)
       \/ LoaderThread(t) \/ UnloaderThread(t)
  \/ ProvideServices
  \/ Undefined

vars == sys

Spec == Init /\ [][Next]_vars

\* The operator, its threads and the tasks that were woken get the processor in
\* the end.
FairSpec ==
  /\ Spec
  /\ WF_vars(ProvideServices)
  /\ \A t \in Task : WF_vars(Wakes(t)) /\ WF_vars(FreeResources(t))
                     /\ WF_vars(LoaderThread(t)) /\ WF_vars(UnloaderThread(t))

-----------------------------------------------------------------------------
(* Properties *)

InCall(t) == sys.call[t].in \in {"load", "unload"}

\* Each slot of a table is free once, or holds an entry, or was taken for the
\* one open that sleeps while the folio which refused it is unloaded.  And a task
\* has an item of a copy only while it has that open, or exits.
SlotsAccounted ==
  \A t \in Task :
    LET table == sys.table[t]
        held == {i \in DOMAIN table.slot : table.slot[i] # NoEntry}
        slept == IF sys.call[t].in = "unload" THEN {sys.call[t].slot} ELSE {}
    IN  /\ IsInjective(table.free)
        /\ Range(table.free) = DOMAIN table.slot \ (held \cup slept)
        /\ sys.call[t].in \in {"user", "load"} =>
             \A c \in Copy : Slots(table, Made(c)) # {} => Slots(table, Open(c)) # {}

Opens(c) ==
  UNION {{t} \X Slots(sys.table[t], Open(c)) : t \in Task}

Closing(c) ==
  {t \in Task : sys.call[t].in = "unload" /\ <<t, sys.call[t].slot>> \in Opens(c)}

\* f_OpenCount is the number of times that tasks have a copy open, less those
\* that are being closed: through refused opens, closes that sleep, and exits.
OpensCounted ==
  \A c \in Copy :
    ~sys.wild /\ sys.folio[c].there =>
      sys.folio[c].count + Cardinality(Closing(c)) = Cardinality(Opens(c))

\* When no call is in progress, nothing of the folio is in memory that nobody has
\* open.
UnloadedWhenClosed ==
  (/\ ~sys.wild /\ sys.current = NoTask
   /\ \A t \in Task : ~InCall(t) /\ sys.job[t] = "none")
    => \A c \in Copy : sys.folio[c].code = "loaded" =>
                         sys.folio[c].there /\ sys.folio[c].count > 0

\* folio.c, of the folio's open count: "folks cache pointers to folios, and jump
\* through the vectors tables preceeding these pointers."  The code of a folio is
\* in memory as long as a task has it open.
LoadedWhileOpen ==
  \A c \in Copy : sys.folio[c].count > 0 => sys.folio[c].code = "loaded"

\* A call that sleeps for the server returns.
CallsReturn ==
  \A t \in Task : InCall(t) ~> (~InCall(t) \/ sys.wild)
=============================================================================

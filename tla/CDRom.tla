------------------------------- MODULE CDRom --------------------------------
(***************************************************************************)
(* The life of a request in the CD-ROM driver: CDROMDriver.c.              *)
(*                                                                         *)
(* The driver runs one request at a time.  What the drive is asked for to  *)
(* serve it, and the levels of the driver's state machine that do so, are  *)
(* left out: a request is running until its level 2 finishes it, fails it, *)
(* or gives up on the drive.                                               *)
(***************************************************************************)
EXTENDS IOReqs

Queued(X, i) == [X EXCEPT !.io.RequestsToDo = TailInsertNode(@, IOPri, i)]

Unqueued(X, i) == [X EXCEPT !.io.RequestsToDo = RemoveNode(@, i)]

CDROMDriverDoit(X, i) == Queued(Cleared(X, i, {"QUICK"}), i)

\* READ stands for every command that the driver queues, STATUS for one that
\* it serves from what it knows about the disc, and the others for a command it
\* does not know or the caller may not use: that is not completed.
CDROMDriverDispatch(X, i, cmd) ==
  CASE cmd = "READ"   -> CDROMDriverDoit(X, i)
    [] cmd = "STATUS" -> internalCompleteIO(X, i)
    [] OTHER          -> X

\* Mutant of CDROMDriverAbortIo: completes the running request as well.
CDROMDriverAbortIo_Running(X, i) ==
  internalCompleteIO(IF X.io.RequestRunning = i THEN X ELSE Unqueued(X, i), i)

\* The request that is running goes on: the driver has to clean up first.
CDROMDriverAbortIo(X, i) ==
  IF X.io.RequestRunning = i THEN X ELSE internalCompleteIO(Unqueued(X, i), i)

\* CDROM_Level2_Await_Request.
CanStart(X) == X.io.RequestRunning = NoIOReq /\ X.io.RequestsToDo # <<>>

AwaitRequest(X) ==
  LET i == Head(X.io.RequestsToDo) IN
  [Unqueued(X, i) EXCEPT !.io.RequestRunning = i]

\* CDROM_Level2_Finish_Request, and a request whose options are bad.
FinishRequest(X) ==
  internalCompleteIO([X EXCEPT !.io.RequestRunning = NoIOReq], X.io.RequestRunning)

\* CDROM_Level2_Kill_Pending_IOs: the running request goes on being the
\* running request.
KillPendingIOs(X) ==
  LET killed == IF X.io.RequestRunning = NoIOReq THEN X
                ELSE internalCompleteIO(X, X.io.RequestRunning)
  IN  FoldLeft(LAMBDA Y, i : internalCompleteIO(Unqueued(Y, i), i),
               killed, X.io.RequestsToDo)
=============================================================================

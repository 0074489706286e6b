----------------------------- MODULE TimerDevice ----------------------------
(***************************************************************************)
(* The timer device of the operator: timerdevice.c.                        *)
(*                                                                         *)
(* Times are relative: left is how far a request's target still is, in     *)
(* vertical blanks or in units of the microsecond timer.  A unit is longer *)
(* than interrupts stay disabled, so that the timer interrupt comes before *)
(* the next unit has passed.                                               *)
(***************************************************************************)
EXTENDS IOReqs

CONSTANT Second  \* the hardware timer counts this far at a time

ASSUME SecondAssumption == Second \in 1..MaxTime

Drop(q, i) == RemoveNodes(q, {i})

\* UniversalInsertNode: before the first of the nodes behind, or last.
UniversalInsertNode(q, i, behind) ==
  LET places == {n \in DOMAIN q : q[n] \in behind} IN
  InsertAt(q, IF places = {} THEN Len(q) + 1 ELSE Min(places), i)

\* tvCmpF and CmpF on lists that are sorted: at or after the target; a longer
\* delay.
InsertMDelay(io, i) ==
  [io EXCEPT !.MDelayList =
     UniversalInsertNode(@, i, {j \in IOReq : io.left[i] <= io.left[j]})]

InsertDelay(io, i) ==
  [io EXCEPT !.DelayList =
     UniversalInsertNode(@, i, {j \in IOReq : io.period[i] < io.period[j]})]

TimerDrop(X, i) ==
  [X EXCEPT !.io.DelayList = Drop(@, i), !.io.MDelayList = Drop(@, i)]

CanPing(X, i) == Ping \subseteq X.k.AllocatedSigs[IOOwner[i]]

Pinged(X, i) ==
  Signal([X EXCEPT !.io.left[i] = X.io.period[i]], IOOwner[i], Ping)

\* One expired request of reprocess.
Expired(X, i) ==
  LET off == TimerDrop(X, i) IN
  IF Has(X, i, "METRONOME") /\ CanPing(X, i)
  THEN LET on == Pinged(off, i) IN [on EXCEPT !.io = InsertMDelay(@, i)]
  ELSE internalCompleteIO(off, i)

\* Loads the hardware timer for the first request.
Armed(X) ==
  LET q == X.io.MDelayList IN
  [X EXCEPT !.io.count = IF q = <<>> THEN Off
                         ELSE IF X.io.left[Head(q)] < Second THEN X.io.left[Head(q)]
                         ELSE Second]

Late(X) == RemoveNodes(X.io.MDelayList, {i \in IOReq : X.io.left[i] # 0})

\* The loop of reprocess.  A metronome has an interval, so that none is late
\* again at once.
ExpireAll(X, late) ==
  LET after[n \in 0..Len(late)] ==
        IF n = 0 THEN X ELSE Expired(after[n - 1], late[n])
  IN  after[Len(late)]

\* Mutant of reprocess: does not load the timer again.
reprocess_Once(X) ==
  LET done == ExpireAll(X, Late(X)) IN
  IF X.io.count = Off THEN Armed(done) ELSE [done EXCEPT !.io.count = Off]

reprocess(X) == Armed(ExpireAll(X, Late(X)))

\* Mutant of CmdDelay: loads the timer when none counts only.
CmdDelay_Idle(X, i, unit, time) ==
  LET set   == [X EXCEPT !.io.left[i] = time, !.io.period[i] = time]
      timed == [set EXCEPT !.io = InsertMDelay(@, i)]
      first == Len(timed.io.MDelayList) = 1
  IN  IF unit = "VBLANK"
      THEN Cleared([set EXCEPT !.io = InsertDelay(@, i)], i, {"QUICK"})
      ELSE Cleared(IF first THEN reprocess(timed) ELSE timed, i, {"QUICK"})

\* CmdDelay keeps the request: it returns 0 even when reprocess has completed
\* it.
CmdDelay(X, i, unit, time) ==
  LET set   == [X EXCEPT !.io.left[i] = time, !.io.period[i] = time]
      timed == [set EXCEPT !.io = InsertMDelay(@, i)]
      first == Head(timed.io.MDelayList) = i
  IN  IF unit = "VBLANK"
      THEN Cleared([set EXCEPT !.io = InsertDelay(@, i)], i, {"QUICK"})
      ELSE Cleared(IF first THEN reprocess(timed) ELSE timed, i, {"QUICK"})

CmdMetronome(X, i, unit, time) == CmdDelay(Marked(X, i, {"METRONOME"}), i, unit, time)

TimerAbortIO(X, i) == internalCompleteIO(TimerDrop(X, i), i)

\* One request of the loop of ctimerInt.
Blanked(X, i) ==
  LET later == [X EXCEPT !.io.left[i] = @ - 1]
      again == [X EXCEPT !.io.left[i] = X.io.period[i]]
  IN  IF X.io.left[i] > 1 THEN later
      ELSE IF ~Has(X, i, "METRONOME") \/ ~CanPing(X, i)
           THEN internalCompleteIO(TimerDrop(X, i), i)
           ELSE Signal(again, IOOwner[i], Ping)

\* The vertical blank interrupt.
ctimerInt(X) ==
  LET q == X.io.DelayList
      after[n \in 0..Len(q)] == IF n = 0 THEN X ELSE Blanked(after[n - 1], q[n])
  IN  after[Len(q)]
=============================================================================

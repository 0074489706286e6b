----------------------------- MODULE AudioTimer -----------------------------
(***************************************************************************)
(* The audio clock: the events that tasks post to be performed at an audio *)
(* time (audio_timer.c), and the two kinds there are: cues, which signal a *)
(* task, and the segments of envelopes (audio_envelopes.c).                *)
(*                                                                         *)
(* The DSP counts ticks and interrupts.  The interrupt brings the audio    *)
(* time up to date and signals the folio's own task if af_NextTime has     *)
(* come.  That task performs the events that are due and sets af_NextTime  *)
(* to the time of the first that is left.  It and the SWIs that post and   *)
(* remove events run in supervisor mode, one at a time, but the interrupt  *)
(* comes in between their steps.                                           *)
(*                                                                         *)
(* Audio time wraps around.  What a DSP instrument plays is left out, and  *)
(* so are the points of an envelope: a segment ends with the next, is held *)
(* at a sustain point or was the last.                                     *)
(***************************************************************************)
EXTENDS Queue, Integers

CONSTANTS
  Cue,           \* cues, each used by the task that owns it
  Env,           \* envelopes, as attached to one instrument
  AutoStart,     \* those without AF_ATTF_NOAUTOSTART
  Fat,           \* those with AF_ATTF_FATLADYSINGS: their end stops it
  NoEvent,
  Half,          \* audio times are below 2 * Half: 2^31
  TickMod,       \* the counter of the DSP is read modulo this: 2^16
  MaxLost,       \* ticks that pass before the interrupt is served
  MaxLate,       \* ticks by which an event is overdue
  MaxPast,       \* how far in the past a program asks for a cue
  MaxAhead,      \* how far in the future an event is posted
  TakesSignals,  \* programs post a cue only after taking its last signal
  OneUse,        \* and let none that monitors an attachment be posted
  Alone          \* envelopes are started and released on their own, too

Event == Cue \cup Env
AudioTime == 0..(2 * Half - 1)

ASSUME AudioAssumption ==
  /\ AutoStart \subseteq Env /\ Fat \subseteq Env /\ Cue \cap Env = {}
  /\ NoEvent \notin Event
  /\ {Half, TickMod, MaxLost, MaxLate, MaxPast, MaxAhead} \subseteq Nat
  /\ 0 < MaxLost /\ MaxLost < TickMod /\ 0 < MaxAhead
  /\ MaxLost + MaxPast < MaxLate
  /\ MaxLate + MaxLost < Half /\ MaxLate + MaxAhead < Half
  /\ TakesSignals \in BOOLEAN /\ OneUse \in BOOLEAN /\ Alone \in BOOLEAN

VARIABLES
  dsp,    \* the DSP: its tick counter, and all its ticks in audio time
  timer,  \* af_Time, af_LastTickCount, af_NextTime, af_TimerPending, af_TimerList
  audio,  \* the folio's task: signalled, in HandleTimerSignal, and its Time
  step,   \* what is left of what runs in supervisor mode
  cue,    \* the cues: made, and with a signal that was not taken
  ins     \* the instrument, whether ains_Status is above AF_STOPPED, and its
          \* attachments with their aatt_ActivityLevel and aatt_CueItem

audioVars == <<dsp, timer, audio, step, cue, ins>>

-----------------------------------------------------------------------------
(* Audio times *)

\* The sum or difference of two numbers below n, modulo n.
Wrap(x, n) == IF x < 0 THEN x + n ELSE IF x >= n THEN x - n ELSE x

\* Mutant of CompareAudioTimes: without regard to wrap-around.
CompareAudioTimes_Plain(t1, t2) == t1 - t2

\* CompareAudioTimes: the difference as a signed number.
CompareAudioTimes(t1, t2) ==
  LET d == Wrap(t1 - t2, 2 * Half) IN IF d >= Half THEN d - 2 * Half ELSE d

LaterThan(t1, t2) == CompareAudioTimes(t1, t2) > 0

After(t, n) == Wrap(t + n, 2 * Half)

\* Ticks that the interrupt has not seen.
TicksElapsed == Wrap(dsp.counter - timer.LastTickCount, TickMod)

-----------------------------------------------------------------------------
(* The list of events *)

Posted(T) == ToSet(T.TimerList)

\* UniversalInsertNode with MatchTimerNode: before the first node that is not
\* earlier.
InsertEvent(T, e) ==
  LET q == T.TimerList
      earlier == {i \in DOMAIN q : \A j \in 1..i :
                    CompareAudioTimes(T.TriggerAt[q[j]], T.TriggerAt[e]) < 0}
      place == CHOOSE i \in 0..Len(q) :
                 (i = 0 \/ i \in earlier) /\ \A j \in earlier : j <= i
  IN  InsertAt(q, place + 1, e)

\* Mutant of PostTimed: af_NextTime is kept whenever the timer was pending.
PostTimed_Keeps(T, e, t, saw) ==
  LET U == [T EXCEPT !.TriggerAt[e] = t]
  IN  [U EXCEPT !.NextTime = IF saw THEN @ ELSE t,
                !.TimerPending = @ \/ ~saw,
                !.TimerList = InsertEvent(U, e)]

\* PostAudioEvent from when it has looked at af_TimerPending and saw it so.
PostTimed(T, e, t, saw) ==
  LET U == [T EXCEPT !.TriggerAt[e] = t]
  IN  [U EXCEPT !.NextTime = IF saw /\ ~LaterThan(@, t) THEN @ ELSE t,
                !.TimerPending = @ \/ ~saw,
                !.TimerList = InsertEvent(U, e)]

\* UnpostAudioEvent.  The time of an event that is not posted is not looked
\* at, and is 0.
UnpostAudioEvent(T, e) ==
  IF e \in Posted(T)
  THEN [T EXCEPT !.TimerList = RemoveNode(@, e), !.TriggerAt[e] = 0]
  ELSE T

-----------------------------------------------------------------------------
(* What runs in supervisor mode *)

Idle == [at |-> "idle", call |-> "none", event |-> NoEvent, when |-> 0,
         saw |-> FALSE, todo |-> {}]

\* An envelope's step is done, or PostAudioEvent is: on to the other envelopes
\* of the instrument, to the next event that is due, or to user mode.
Return(s) ==
  IF s.todo # {} THEN [Idle EXCEPT !.at = "segments", !.call = s.call, !.todo = s.todo]
  ELSE IF s.call = "event" THEN [Idle EXCEPT !.at = "perform"] ELSE Idle

\* PostAudioEvent refuses an event that is in use, and looks at af_TimerPending.
PostAudioEvent(T, e, t, s) ==
  IF e \in Posted(T) THEN Return(s)
  ELSE [s EXCEPT !.at = "post", !.event = e, !.when = t, !.saw = T.TimerPending]

PostEnds ==
  /\ step.at = "post"
  /\ timer' = PostTimed(timer, step.event, step.when, step.saw)
  /\ step' = Return(step)
  /\ UNCHANGED <<dsp, audio, cue, ins>>

\* ScheduleNextAudioTimerSignal, with the list T.TimerList, the last thing that
\* HandleTimerSignal and the removal of a cue do.  An interrupt may come before
\* af_TimerPending is set.
ScheduleNext(T) ==
  IF T.TimerList = <<>> THEN step' = Idle /\ timer' = T
  ELSE /\ timer' = [T EXCEPT !.NextTime = T.TriggerAt[Head(T.TimerList)]]
       /\ step' = [Idle EXCEPT !.at = "arm"]

\* Mutant of Arms: the timer is left as it was.
Arms_Not ==
  /\ step.at = "arm"
  /\ step' = Idle
  /\ UNCHANGED <<dsp, timer, audio, cue, ins>>

Arms ==
  /\ step.at = "arm"
  /\ timer' = [timer EXCEPT !.TimerPending = TRUE]
  /\ step' = Idle
  /\ UNCHANGED <<dsp, audio, cue, ins>>

-----------------------------------------------------------------------------
(* Cues *)

User == step.at = "idle"

\* internalCreateAudioCue, by a task for itself.
CreateCue(c) ==
  /\ User /\ c \notin cue.made
  /\ cue' = [cue EXCEPT !.made = @ \cup {c}]
  /\ UNCHANGED <<dsp, timer, audio, step, ins>>

\* The cues that tell of the end of an attachment.
Monitoring(I) == {I.CueItem[e] : e \in Env} \cap Cue

\* swiSignalAtTime at an audio time near the present one.
SignalAtTime(c) ==
  /\ User /\ c \in cue.made
  /\ TakesSignals => c \notin cue.signal
  /\ OneUse => c \notin Monitoring(ins)
  /\ \E d \in -MaxPast..MaxAhead :
       step' = PostAudioEvent(timer, c, After(timer.Time, d), [Idle EXCEPT !.call = "cue"])
  /\ UNCHANGED <<dsp, timer, audio, cue, ins>>

\* swiAbortTimerCue.  It does not take a signal that was sent.
AbortTimerCue(c) ==
  /\ User /\ c \in cue.made
  /\ ScheduleNext(UnpostAudioEvent(timer, c))
  /\ UNCHANGED <<dsp, audio, cue, ins>>

\* Attachments that a deleted cue monitored: its item number finds nothing.
Unmonitored(I, c) ==
  [I EXCEPT !.CueItem = [e \in Env |-> IF @[e] = c THEN NoEvent ELSE @[e]]]

\* Mutant of DeleteCue: the event stays in the list.
DeleteCue_Posted(c) ==
  /\ User /\ c \in cue.made
  /\ cue' = [cue EXCEPT !.made = @ \ {c}, !.signal = @ \ {c}]
  /\ ins' = Unmonitored(ins, c)
  /\ ScheduleNext(timer)
  /\ UNCHANGED <<dsp, audio>>

\* internalDeleteAudioCue, by the owner or because the owner died, perhaps
\* asleep: the signal is freed.
DeleteCue(c) ==
  /\ User /\ c \in cue.made
  /\ cue' = [cue EXCEPT !.made = @ \ {c}, !.signal = @ \ {c}]
  /\ ins' = Unmonitored(ins, c)
  /\ ScheduleNext(UnpostAudioEvent(timer, c))
  /\ UNCHANGED <<dsp, audio>>

\* WaitSignal of the owner, the second half of SleepUntilTime, returns.
TakeSignal(c) ==
  /\ User /\ c \in cue.signal
  /\ cue' = [cue EXCEPT !.signal = @ \ {c}]
  /\ UNCHANGED <<dsp, timer, audio, step, ins>>

-----------------------------------------------------------------------------
(* Envelopes *)

Halted(I) == [I EXCEPT !.running = FALSE, !.Activity = [e \in Env |-> "stopped"]]

\* DSPPStopInstrument for a call that goes on when the events of all envelopes
\* are removed.
Halts(I, call, e) ==
  [Idle EXCEPT !.at = "stops", !.call = call, !.event = e, !.todo = I.attached]

\* SignalMonitoringCue, whether the cue is posted or not.
SignalMonitoringCue(I, e) ==
  cue' = [cue EXCEPT !.signal = @ \cup ({I.CueItem[e]} \cap cue.made)]

\* NextEnvSegment, of an envelope that is not posted unless it is started: its
\* next segment is posted, it is held, or it has ended, which signals its cue
\* once the instrument is stopped.
NextEnvSegment(T, I, e, s) ==
  \/ /\ \E d \in 1..MaxAhead : step' = PostAudioEvent(T, e, After(T.Time, d), s)
     /\ timer' = T /\ ins' = I /\ UNCHANGED cue
  \/ /\ I.Activity[e] = "started"
     /\ step' = Return(s) /\ timer' = T /\ ins' = I /\ UNCHANGED cue
  \/ /\ s.call # "start" /\ timer' = T
     /\ IF e \in Fat /\ I.running
        THEN ins' = Halted(I) /\ step' = Halts(I, s.call, e) /\ UNCHANGED cue
        ELSE ins' = I /\ step' = Return(s) /\ SignalMonitoringCue(I, e)

\* DSPPReleaseEnvAttachment goes on to the release or leaves the envelope as it
\* is; an envelope that is no longer started is passed over.
ReleaseEnv(e, s) ==
  LET I == [ins EXCEPT !.Activity[e] = "released"]
  IN  IF ins.Activity[e] # "started" /\ s.call = "releaseall"
      THEN step' = Return(s) /\ UNCHANGED <<timer, ins, cue>>
      ELSE \/ step' = Return(s) /\ ins' = I /\ UNCHANGED <<timer, cue>>
           \/ NextEnvSegment(UnpostAudioEvent(timer, e), I, e, s)

\* The next envelope of those that a call starts, releases or performs.
Segment ==
  /\ step.at = "segments"
  /\ \E e \in step.todo :
       LET s == [step EXCEPT !.todo = @ \ {e}]
       IN  IF s.call \in {"release", "releaseall"} THEN ReleaseEnv(e, s)
           ELSE NextEnvSegment(timer, ins, e, s)
  /\ UNCHANGED <<dsp, audio>>

Does(call, es) == Return([Idle EXCEPT !.call = call, !.todo = es])

Started(I, es) ==
  [I EXCEPT !.Activity = [e \in Env |-> IF e \in es THEN "started" ELSE @[e]]]

Starts(I) ==
  /\ ins' = [Started(I, AutoStart \cap I.attached) EXCEPT !.running = TRUE]
  /\ step' = Does("start", AutoStart \cap I.attached)

\* swiStartInstrument stops it first if it is running.
StartInstrument ==
  /\ User
  /\ IF ~ins.running THEN Starts(ins)
     ELSE ins' = Halted(ins) /\ step' = Halts(ins, "restart", NoEvent)
  /\ UNCHANGED <<dsp, timer, audio, cue>>

\* swiReleaseInstrument
ReleaseInstrument ==
  /\ User /\ ins.running
  /\ step' = Does("releaseall", ins.attached)
  /\ UNCHANGED <<dsp, timer, audio, cue, ins>>

\* swiStopInstrument
StopInstrument ==
  /\ User /\ ins.running
  /\ ins' = Halted(ins) /\ step' = Halts(ins, "stop", NoEvent)
  /\ UNCHANGED <<dsp, timer, audio, cue>>

\* internalCreateAudioAttachment
AttachEnvelope(e) ==
  /\ User /\ e \notin ins.attached
  /\ ins' = [ins EXCEPT !.attached = @ \cup {e}]
  /\ UNCHANGED <<dsp, timer, audio, step, cue>>

\* swiMonitorAttachment: with a cue, which any task may name, or with none.
MonitorAttachment(e, c) ==
  /\ User /\ e \in ins.attached /\ c \in cue.made \cup {NoEvent}
  /\ OneUse => c \notin Posted(timer)
  /\ ins' = [ins EXCEPT !.CueItem[e] = c]
  /\ UNCHANGED <<dsp, timer, audio, step, cue>>

\* swiStartAttachment
StartAttachment(e) ==
  /\ User /\ e \in ins.attached
  /\ Alone \/ ins.running
  /\ ins' = Started(ins, {e})
  /\ step' = Does("start", {e})
  /\ UNCHANGED <<dsp, timer, audio, cue>>

\* swiReleaseAttachment
ReleaseAttachment(e) ==
  /\ User /\ e \in ins.attached
  /\ Alone \/ (ins.running /\ ins.Activity[e] # "stopped")
  /\ step' = Does("release", {e})
  /\ UNCHANGED <<dsp, timer, audio, cue, ins>>

\* swiStopAttachment
StopAttachment(e) ==
  /\ User /\ e \in ins.attached
  /\ timer' = UnpostAudioEvent(timer, e)
  /\ ins' = [ins EXCEPT !.Activity[e] = "stopped"]
  /\ UNCHANGED <<dsp, audio, step, cue>>

Detached(I, e) ==
  [I EXCEPT !.attached = @ \ {e}, !.Activity[e] = "stopped", !.CueItem[e] = NoEvent]

\* internalDeleteAudioAttachment: one that is not stopped has the instrument
\* stopped, which does nothing unless the instrument is running.
DetachEnvelope(e) ==
  /\ User /\ e \in ins.attached
  /\ IF ins.Activity[e] # "stopped" /\ ins.running
     THEN ins' = Halted(ins) /\ step' = Halts(ins, "detach", e)
     ELSE ins' = Detached(ins, e) /\ UNCHANGED step
  /\ UNCHANGED <<dsp, timer, audio, cue>>

\* DSPPStopInstrument's loop over the envelopes, and what comes after it: an
\* envelope whose end stopped the instrument signals its cue.
Stops ==
  /\ step.at = "stops"
  /\ \/ \E e \in step.todo : /\ timer' = UnpostAudioEvent(timer, e)
                             /\ step' = [step EXCEPT !.todo = @ \ {e}]
                             /\ UNCHANGED <<ins, cue>>
     \/ /\ step.todo = {} /\ UNCHANGED timer
        /\ CASE step.call = "restart" -> Starts(ins) /\ UNCHANGED cue
             [] step.call = "detach"  ->
                  ins' = Detached(ins, step.event) /\ step' = Idle /\ UNCHANGED cue
             [] step.call = "stop"    -> step' = Idle /\ UNCHANGED <<ins, cue>>
             [] OTHER                 ->
                  step' = Return(step) /\ UNCHANGED ins /\ SignalMonitoringCue(ins, step.event)
  /\ UNCHANGED <<dsp, audio>>

-----------------------------------------------------------------------------
(* The folio's task, swiRunAudioSignalTask *)

\* It is woken by af_TimerSignal and takes the time.
AudioWakes ==
  /\ User /\ audio.signal
  /\ audio' = [signal |-> FALSE, runs |-> TRUE, time |-> timer.Time]
  /\ step' = [Idle EXCEPT !.at = "perform"]
  /\ UNCHANGED <<dsp, timer, cue, ins>>

\* HandleTimerSignal's loop: the first event is removed and performed if it is
\* due; PerformCueSignal signals the owner.
Performs ==
  /\ step.at = "perform"
  /\ LET q == timer.TimerList
         e == Head(q)
         due == q # <<>> /\ ~LaterThan(timer.TriggerAt[e], audio.time)
     IN  \/ /\ ~due /\ ScheduleNext(timer)
            /\ audio' = [audio EXCEPT !.runs = FALSE, !.time = 0]
            /\ UNCHANGED cue
         \/ /\ due /\ timer' = UnpostAudioEvent(timer, e)
            /\ IF e \in Cue THEN cue' = [cue EXCEPT !.signal = @ \cup {e}] /\ UNCHANGED step
               ELSE step' = Does("event", {e}) /\ UNCHANGED cue
            /\ UNCHANGED audio
  /\ UNCHANGED <<dsp, ins>>

-----------------------------------------------------------------------------
(* The DSP and its interrupt *)

\* Times that something still depends on.
Awaited ==
  {timer.TriggerAt[e] : e \in Posted(timer)}
    \cup (IF step.at = "post" THEN {step.when} ELSE {})
    \cup (IF audio.runs THEN {audio.time} ELSE {})

\* A tick.  The interrupt is not put off for longer than MaxLost ticks, nor the
\* folio's task, of priority 190, for longer than MaxLate; the last of these is
\* kept for the interrupt that wakes it.
InTime ==
  /\ TicksElapsed < MaxLost
  /\ \A t \in Awaited :
       CompareAudioTimes(dsp.ticks, t) < IF User THEN MaxLate ELSE MaxLate - 1

Tick ==
  /\ InTime
  /\ dsp' = [counter |-> Wrap(dsp.counter + 1, TickMod), ticks |-> After(dsp.ticks, 1)]
  /\ UNCHANGED <<timer, audio, step, cue, ins>>

\* Mutant of AudioTimerIntHandler: an interrupt is a tick.
AudioTimerIntHandler_One ==
  /\ TicksElapsed > 0
  /\ LET now == After(timer.Time, 1)
         due == timer.TimerPending /\ ~LaterThan(timer.NextTime, now)
     IN  /\ timer' = [timer EXCEPT !.Time = now, !.LastTickCount = dsp.counter,
                                   !.TimerPending = @ /\ ~due]
         /\ audio' = [audio EXCEPT !.signal = @ \/ due]
  /\ UNCHANGED <<dsp, step, cue, ins>>

\* AudioTimerIntHandler, between any two steps.
AudioTimerIntHandler ==
  /\ TicksElapsed > 0
  /\ LET now == After(timer.Time, TicksElapsed)
         due == timer.TimerPending /\ ~LaterThan(timer.NextTime, now)
     IN  /\ timer' = [timer EXCEPT !.Time = now, !.LastTickCount = dsp.counter,
                                   !.TimerPending = @ /\ ~due]
         /\ audio' = [audio EXCEPT !.signal = @ \/ due]
  /\ UNCHANGED <<dsp, step, cue, ins>>

-----------------------------------------------------------------------------
\* InitAudioTimer.
Init ==
  /\ dsp = [counter |-> 0, ticks |-> 0]
  /\ timer = [Time |-> 0, LastTickCount |-> 0, NextTime |-> 0, TimerPending |-> FALSE,
              TimerList |-> <<>>, TriggerAt |-> [e \in Event |-> 0]]
  /\ audio = [signal |-> FALSE, runs |-> FALSE, time |-> 0]
  /\ step = Idle
  /\ cue = [made |-> {}, signal |-> {}]
  /\ ins = [running |-> FALSE, attached |-> {}, Activity |-> [e \in Env |-> "stopped"],
            CueItem |-> [e \in Env |-> NoEvent]]

Program ==
  \/ \E c \in Cue : \/ CreateCue(c) \/ SignalAtTime(c) \/ AbortTimerCue(c) \/ DeleteCue(c)
                    \/ TakeSignal(c)
  \/ \E e \in Env : \/ AttachEnvelope(e) \/ StartAttachment(e) \/ ReleaseAttachment(e)
                    \/ StopAttachment(e) \/ DetachEnvelope(e)
                    \/ \E c \in Cue \cup {NoEvent} : MonitorAttachment(e, c)
  \/ StartInstrument \/ ReleaseInstrument \/ StopInstrument

Supervisor == PostEnds \/ Arms \/ Segment \/ Stops \/ Performs

Next == Program \/ Supervisor \/ AudioWakes \/ Tick \/ AudioTimerIntHandler

Spec == Init /\ [][Next]_audioVars

\* Weak fairness of what runs in supervisor mode and of the interrupt, strong
\* fairness of the folio's task, which is above all programs, and of the ticks,
\* which only the bound InTime holds back; with the conditions under which
\* these are enabled.
FairSpec ==
  /\ Spec
  /\ []<>User \/ []<><<Supervisor>>_audioVars
  /\ []<>(TicksElapsed = 0) \/ []<><<AudioTimerIntHandler>>_audioVars
  /\ <>[]~(User /\ audio.signal) \/ []<><<AudioWakes>>_audioVars
  /\ <>[]~InTime \/ []<><<Tick>>_audioVars

-----------------------------------------------------------------------------
(* Properties *)

\* An event that is posted is not forgotten: the interrupt will look for it in
\* time (af_TimerPending is set, or about to be, and af_NextTime is not later),
\* or the folio's task has yet to look at the list.
Armed ==
  audio.signal \/ audio.runs
  \/ \A e \in Posted(timer) :
       /\ timer.TimerPending \/ step.at = "arm"
       /\ ~LaterThan(timer.NextTime, timer.TriggerAt[e])

\* Interrupts that came late or were lost lose no time: af_Time and what the
\* next interrupt will add are the ticks of the DSP.
ClockKeeps == After(timer.Time, TicksElapsed) = dsp.ticks

\* No event is in the list whose cue or attachment is gone, and none twice.
EventsExist ==
  Posted(timer) \subseteq cue.made \cup ins.attached /\ IsInjective(timer.TimerList)

\* A cue that is posted is signalled only when its time has come, another only
\* at the end of an attachment that it monitors, and while a cue is posted no
\* earlier signal of its is pending.  So SleepUntilTime, which posts a cue and
\* waits for its signal, does not return too early.
SleepsLongEnough ==
  [][\A c \in Cue :
       /\ c \in cue'.signal \ cue.signal
            => \/ c \in Posted(timer) /\ ~LaterThan(timer.TriggerAt[c], dsp.ticks)
               \/ c \in Monitoring(ins) /\ c \notin Posted(timer)
       /\ c \in Posted(timer)' => c \notin cue'.signal]_audioVars

\* Every cue that is posted is signalled or taken back.
CuesHappen == \A c \in Cue : c \in Posted(timer) ~> c \notin Posted(timer)
=============================================================================

----------------------------- MODULE AudioProof -----------------------------
(***************************************************************************)
(* The clock and the list of events, for every set of cues and envelopes,  *)
(* every number of ticks that interrupts and the folio's task may be late, *)
(* and every width of the audio time and of the counter.                   *)
(***************************************************************************)
EXTENDS AudioTimer, SequenceLemmas

-----------------------------------------------------------------------------
(* Audio times *)

\* CompareAudioTimes is the difference, but for a turn of the clock.
LEMMA CompareLemma ==
  ASSUME NEW t \in AudioTime, NEW u \in AudioTime
  PROVE  /\ CompareAudioTimes(t, u) \in -Half..(Half - 1)
         /\ CompareAudioTimes(t, u) \in {t - u, t - u + 2 * Half, t - u - 2 * Half}
<1>1. Half \in Nat /\ Half > 0
  BY AudioAssumption
<1> QED
  BY <1>1 DEF CompareAudioTimes, Wrap, AudioTime

\* What After adds is what CompareAudioTimes finds.
LEMMA AfterLemma ==
  ASSUME NEW t \in AudioTime, NEW d \in -Half..(Half - 1)
  PROVE  After(t, d) \in AudioTime /\ CompareAudioTimes(After(t, d), t) = d
<1>1. Half \in Nat /\ Half > 0
  BY AudioAssumption
<1> QED
  BY <1>1 DEF CompareAudioTimes, After, Wrap, AudioTime

\* Two times that are both near a third are as far apart as their distances.
LEMMA DistanceLemma ==
  ASSUME NEW t \in AudioTime, NEW u \in AudioTime, NEW now \in AudioTime,
         CompareAudioTimes(t, now) - CompareAudioTimes(u, now) \in -Half..(Half - 1)
  PROVE  CompareAudioTimes(t, u) = CompareAudioTimes(t, now) - CompareAudioTimes(u, now)
<1>1. Half \in Nat /\ Half > 0
  BY AudioAssumption
<1> DEFINE a == CompareAudioTimes(t, now)
           b == CompareAudioTimes(u, now)
           c == CompareAudioTimes(t, u)
<1>2. /\ a \in Int /\ b \in Int /\ c \in Int /\ t \in Int /\ u \in Int /\ now \in Int
      /\ c >= -Half /\ c < Half
      /\ a = t - now \/ a = t - now + 2 * Half \/ a = t - now - 2 * Half
      /\ b = u - now \/ b = u - now + 2 * Half \/ b = u - now - 2 * Half
      /\ c = t - u \/ c = t - u + 2 * Half \/ c = t - u - 2 * Half
      /\ a - b >= -Half /\ a - b < Half
  BY <1>1, CompareLemma DEF AudioTime
<1> HIDE DEF a, b, c
<1>3. c = a - b
  BY <1>1, <1>2
<1> QED
  BY <1>3 DEF a, b, c

\* When the clock goes on, what is ahead comes nearer.
LEMMA AdvanceLemma ==
  ASSUME NEW t \in AudioTime, NEW now \in AudioTime, NEW n \in 0..MaxLost,
         CompareAudioTimes(t, now) - n >= -Half
  PROVE  /\ After(now, n) \in AudioTime
         /\ CompareAudioTimes(t, After(now, n)) = CompareAudioTimes(t, now) - n
<1>1. Half \in Nat /\ Half > 0 /\ MaxLost \in Nat /\ MaxLost < Half
  BY AudioAssumption
<1> DEFINE u == After(now, n)
           a == CompareAudioTimes(t, now)
           c == CompareAudioTimes(t, u)
<1>2. u \in AudioTime /\ u \in {now + n, now + n - 2 * Half}
  BY <1>1 DEF After, Wrap, AudioTime
<1>3. /\ a \in Int /\ c \in Int /\ t \in Int /\ u \in Int /\ now \in Int /\ n \in Int
      /\ c >= -Half /\ c < Half /\ a < Half /\ a - n >= -Half /\ n >= 0
      /\ a = t - now \/ a = t - now + 2 * Half \/ a = t - now - 2 * Half
      /\ c = t - u \/ c = t - u + 2 * Half \/ c = t - u - 2 * Half
      /\ u = now + n \/ u = now + n - 2 * Half
  <2> HIDE DEF u
  <2> QED
    BY <1>1, <1>2, CompareLemma DEF AudioTime
<1> HIDE DEF u, a, c
<1>4. c = a - n
  BY <1>1, <1>3
<1> QED
  BY <1>2, <1>4 DEF u, a, c

-----------------------------------------------------------------------------
(* What Armed and ClockKeeps need to be inductive, of any state.            *)

DspType == [counter : 0..(TickMod - 1), ticks : AudioTime]

TimerType ==
  [Time : AudioTime, LastTickCount : 0..(TickMod - 1), NextTime : AudioTime,
   TimerPending : BOOLEAN, TimerList : Seq(Event), TriggerAt : [Event -> AudioTime]]

AudioType == [signal : BOOLEAN, runs : BOOLEAN, time : AudioTime]

Calls ==
  {"none", "cue", "event", "start", "release", "releaseall", "restart", "stop", "detach"}

StepType ==
  [at : {"idle", "post", "arm", "segments", "stops", "perform"}, call : Calls,
   event : Event \cup {NoEvent}, when : AudioTime, saw : BOOLEAN, todo : SUBSET Env]

InsType ==
  [running : BOOLEAN, attached : SUBSET Env,
   Activity : [Env -> {"stopped", "started", "released"}],
   CueItem : [Env -> Cue \cup {NoEvent}]]

Elapsed(D, T) == Wrap(D.counter - T.LastTickCount, TickMod)

Ahead(T, t) == CompareAudioTimes(t, T.Time)

Near(T, t) == Ahead(T, t) \in -MaxLate..MaxAhead

\* The list is in order and its events are near the time.
Listed(T) ==
  /\ T \in TimerType
  /\ IsInjective(T.TimerList)
  /\ \A i, j \in DOMAIN T.TimerList :
       i < j => ~LaterThan(T.TriggerAt[T.TimerList[i]], T.TriggerAt[T.TimerList[j]])
  /\ \A e \in Posted(T) : Near(T, T.TriggerAt[e])

\* The interrupt is served before anything that waits is overdue.
Clock(D, T) ==
  /\ After(T.Time, Elapsed(D, T)) = D.ticks
  /\ Elapsed(D, T) \in 0..MaxLost
  /\ \A e \in Posted(T) : Ahead(T, T.TriggerAt[e]) >= Elapsed(D, T) - MaxLate

\* What PostAudioEvent saw is so, but for an interrupt.
Posting(D, T, A, s) ==
  s.at = "post" =>
    /\ s.event \in Event \ Posted(T)
    /\ Ahead(T, s.when) >= Elapsed(D, T) - MaxLate
    /\ Ahead(T, s.when) <= MaxAhead
    /\ s.saw => T.TimerPending \/ A.signal
    /\ ~s.saw => ~T.TimerPending

Arming(T, s) ==
  s.at = "arm" => T.TimerList # <<>> /\ T.NextTime = T.TriggerAt[Head(T.TimerList)]

Waits(T, A, s) ==
  A.signal \/ A.runs
  \/ \A e \in Posted(T) : /\ T.TimerPending \/ s.at = "arm"
                          /\ ~LaterThan(T.NextTime, T.TriggerAt[e])

Good(D, T, A, s, I) ==
  /\ D \in DspType /\ A \in AudioType /\ s \in StepType /\ I \in InsType
  /\ Listed(T)
  /\ Clock(D, T)
  /\ T.TimerPending => Near(T, T.NextTime)
  /\ Posting(D, T, A, s)
  /\ Arming(T, s)
  /\ Waits(T, A, s)

IInv == Good(dsp, timer, audio, step, ins)

\* U is T without some of its events.
Fewer(T, U) ==
  /\ Listed(U)
  /\ U.Time = T.Time /\ U.LastTickCount = T.LastTickCount
  /\ U.NextTime = T.NextTime /\ U.TimerPending = T.TimerPending
  /\ Posted(U) \subseteq Posted(T)
  /\ \A e \in Posted(U) : U.TriggerAt[e] = T.TriggerAt[e]

\* A step that may follow another with a timer T: one that posts has just
\* looked at it.
Fresh(T, s) ==
  /\ s \in StepType /\ s.at # "arm"
  /\ s.at = "post" => /\ s.event \in Event \ Posted(T)
                      /\ Ahead(T, s.when) \in -MaxPast..MaxAhead
                      /\ s.saw = T.TimerPending

-----------------------------------------------------------------------------
(* The list of events *)

\* The numbers that bound the times.
LEMMA Bounds ==
  /\ Half \in Nat /\ TickMod \in Nat /\ MaxLost \in Nat /\ MaxLate \in Nat
  /\ MaxPast \in Nat /\ MaxAhead \in Nat
  /\ 0 < MaxLost /\ MaxLost < TickMod /\ 0 < MaxAhead
  /\ MaxLost + MaxPast < MaxLate
  /\ MaxLate + MaxLost < Half /\ MaxLate + MaxAhead < Half
BY AudioAssumption

\* The posted events are the elements of the list.
LEMMA PostedIs ==
  ASSUME NEW T \in TimerType
  PROVE  /\ Len(T.TimerList) \in Nat /\ DOMAIN T.TimerList = 1..Len(T.TimerList)
         /\ Posted(T) = {T.TimerList[i] : i \in DOMAIN T.TimerList}
         /\ Posted(T) \subseteq Event
<1>1. T.TimerList \in Seq(Event)
  BY DEF TimerType
<1>2. Len(T.TimerList) \in Nat /\ DOMAIN T.TimerList = 1..Len(T.TimerList)
  BY <1>1, LenProperties
<1>3. Posted(T) = {T.TimerList[i] : i \in DOMAIN T.TimerList}
  BY DEF Posted, ToSet
<1>4. \A i \in DOMAIN T.TimerList : T.TimerList[i] \in Event
  BY <1>1, <1>2, ElementOfSeq
<1> QED
  BY <1>2, <1>3, <1>4

\* Of two times near the present the later is the one further ahead.
LEMMA NearLater ==
  ASSUME NEW T, T.Time \in AudioTime, NEW t \in AudioTime, NEW u \in AudioTime,
         Near(T, t), Near(T, u)
  PROVE  /\ CompareAudioTimes(t, u) = Ahead(T, t) - Ahead(T, u)
         /\ LaterThan(t, u) <=> Ahead(T, t) > Ahead(T, u)
<1>1. Ahead(T, t) - Ahead(T, u) \in -Half..(Half - 1)
  BY Bounds DEF Near
<1>2. CompareAudioTimes(t, u) = Ahead(T, t) - Ahead(T, u)
  BY <1>1, DistanceLemma DEF Ahead
<1>3. Ahead(T, t) \in Int /\ Ahead(T, u) \in Int
  BY Bounds DEF Near
<1> QED
  BY <1>2, <1>3 DEF LaterThan

\* Removing an event leaves the others as they are.
LEMMA RemoveOK ==
  ASSUME NEW T, Listed(T), NEW e \in Event
  PROVE  Fewer(T, UnpostAudioEvent(T, e)) /\ e \notin Posted(UnpostAudioEvent(T, e))
<1> DEFINE q == T.TimerList
           U == UnpostAudioEvent(T, e)
<1>1. T \in TimerType /\ q \in Seq(Event) /\ IsInjective(q)
  BY DEF Listed, TimerType
<1>2. CASE e \notin Posted(T)
  BY <1>2 DEF Fewer, UnpostAudioEvent
<1>3. CASE e \in Posted(T)
  <2> DEFINE n == CHOOSE i \in DOMAIN q : q[i] = e
  <2>1. \E i \in DOMAIN q : q[i] = e
    BY <1>1, <1>3, PostedIs
  <2>2. n \in 1..Len(q) /\ q[n] = e
    BY <1>1, <2>1, PostedIs
  <2>3. RemoveNode(q, e) = RemoveAt(q, n)
    BY DEF RemoveNode
  <2> HIDE DEF n
  <2> DEFINE r == RemoveAt(q, n)
  <2>a. /\ r \in Seq(Event) /\ Len(r) = Len(q) - 1
        /\ \A j \in 1..(Len(q) - 1) : r[j] = IF j < n THEN q[j] ELSE q[j + 1]
    BY <1>1, <2>2, RemoveAtLemma
  <2>b. DOMAIN r = 1..Len(r)
    BY <2>a, LenProperties
  <2>4. /\ r \in Seq(Event) /\ Len(r) = Len(q) - 1 /\ DOMAIN r = 1..(Len(q) - 1)
        /\ \A j \in 1..(Len(q) - 1) : r[j] = IF j < n THEN q[j] ELSE q[j + 1]
    BY <2>a, <2>b
  <2>5. ToSet(r) = ToSet(q) \ {e} /\ IsInjective(r)
    BY <1>1, <2>2, RemoveAtSet
  <2> HIDE DEF r
  <2>6. U = [T EXCEPT !.TimerList = r, !.TriggerAt[e] = 0]
    BY <1>3, <2>3 DEF UnpostAudioEvent, r
  <2>7. 0 \in AudioTime
    BY Bounds DEF AudioTime
  <2>8. /\ U \in TimerType /\ U.TimerList = r
        /\ U.Time = T.Time /\ U.LastTickCount = T.LastTickCount
        /\ U.NextTime = T.NextTime /\ U.TimerPending = T.TimerPending
        /\ \A f \in Event : f # e => U.TriggerAt[f] = T.TriggerAt[f]
    <3> DEFINE at == [T.TriggerAt EXCEPT ![e] = 0]
    <3>1. at \in [Event -> AudioTime] /\ \A f \in Event : f # e => at[f] = T.TriggerAt[f]
      BY <1>1, <2>7 DEF TimerType
    <3>2. U = [T EXCEPT !.TimerList = r, !.TriggerAt = at]
      BY <1>1, <2>6 DEF TimerType
    <3> HIDE DEF at, U
    <3>3. U.TriggerAt = at
      BY <1>1, <3>2 DEF TimerType
    <3>4. /\ U \in TimerType /\ U.TimerList = r
          /\ U.Time = T.Time /\ U.LastTickCount = T.LastTickCount
          /\ U.NextTime = T.NextTime /\ U.TimerPending = T.TimerPending
      BY <1>1, <2>4, <3>1, <3>2 DEF TimerType
    <3> QED
      BY <3>1, <3>3, <3>4
  <2> HIDE DEF U
  <2>9. Posted(U) = Posted(T) \ {e}
    BY <2>5, <2>8 DEF Posted
  <2>10. \A f \in Posted(U) : f \in Posted(T) /\ U.TriggerAt[f] = T.TriggerAt[f]
    BY <1>1, <2>8, <2>9, PostedIs
  <2>11. ASSUME NEW i \in DOMAIN r, NEW j \in DOMAIN r, i < j
         PROVE  ~LaterThan(U.TriggerAt[r[i]], U.TriggerAt[r[j]])
    <3> DEFINE was(k) == IF k < n THEN k ELSE k + 1
    <3>1. /\ was(i) \in DOMAIN q /\ was(j) \in DOMAIN q /\ was(i) < was(j)
          /\ r[i] = q[was(i)] /\ r[j] = q[was(j)]
      BY <1>1, <2>2, <2>4, <2>11, PostedIs
    <3>2. ~LaterThan(T.TriggerAt[q[was(i)]], T.TriggerAt[q[was(j)]])
      BY <3>1 DEF Listed
    <3>3. r[i] \in Posted(U) /\ r[j] \in Posted(U)
      BY <2>8 DEF Posted, ToSet
    <3> QED
      BY <2>10, <3>1, <3>2, <3>3
  <2>12. \A f \in Posted(U) : Near(U, U.TriggerAt[f])
    BY <2>8, <2>10 DEF Listed, Near, Ahead
  <2>13. Listed(U)
    BY <2>5, <2>8, <2>11, <2>12 DEF Listed
  <2>14. Fewer(T, U) /\ e \notin Posted(U)
    BY <2>8, <2>9, <2>10, <2>13 DEF Fewer
  <2> QED
    BY <2>14 DEF U
<1> QED
  BY <1>2, <1>3

\* InsertEvent puts an event behind the events that are earlier, up to the first
\* that is not.
LEMMA InsertPlace ==
  ASSUME NEW T \in TimerType, NEW e \in Event
  PROVE  LET q == T.TimerList
             Before(i) == CompareAudioTimes(T.TriggerAt[q[i]], T.TriggerAt[e]) < 0 IN
         \E m \in 1..(Len(q) + 1) :
           /\ InsertEvent(T, e) = InsertAt(q, m, e)
           /\ \A i \in 1..(m - 1) : Before(i)
           /\ m \in 1..Len(q) => ~Before(m)
<1> DEFINE q == T.TimerList
           Before(i) == CompareAudioTimes(T.TriggerAt[q[i]], T.TriggerAt[e]) < 0
           earlier == {i \in DOMAIN q : \A j \in 1..i : Before(j)}
           n == CHOOSE i \in 0..Len(q) :
                  (i = 0 \/ i \in earlier) /\ \A j \in earlier : j <= i
<1>1. Len(q) \in Nat /\ DOMAIN q = 1..Len(q)
  BY PostedIs
<1>2. earlier \in SUBSET (1..Len(q))
  BY <1>1
<1>3. n \in 0..Len(q) /\ (n = 0 \/ n \in earlier) /\ \A j \in earlier : j <= n
  <2> HIDE DEF earlier
  <2>1. \E i \in 0..Len(q) : (i = 0 \/ i \in earlier) /\ \A j \in earlier : j <= i
    BY <1>1, <1>2, LastPosition
  <2> QED
    BY <2>1
<1>4. InsertEvent(T, e) = InsertAt(q, n + 1, e)
  BY DEF InsertEvent
<1> HIDE DEF n, Before
<1>5. \A i \in 1..n : Before(i)
  BY <1>1, <1>3
<1>6. n + 1 \in 1..Len(q) => ~Before(n + 1)
  <2>1. SUFFICES ASSUME n + 1 \in 1..Len(q), Before(n + 1)  PROVE  FALSE
    OBVIOUS
  <2>2. \A j \in 1..(n + 1) : Before(j)
    BY <1>3, <1>5, <2>1
  <2>3. n + 1 \in earlier
    BY <1>1, <2>1, <2>2
  <2> QED
    BY <1>3, <2>3
<1>7. n + 1 \in 1..(Len(q) + 1) /\ n + 1 - 1 = n
  BY <1>1, <1>3
<1>8. \E m \in 1..(Len(q) + 1) :
        /\ InsertEvent(T, e) = InsertAt(q, m, e)
        /\ \A i \in 1..(m - 1) : Before(i)
        /\ m \in 1..Len(q) => ~Before(m)
  <2>1. PICK m \in 1..(Len(q) + 1) : m = n + 1
    BY <1>7
  <2>2. InsertEvent(T, e) = InsertAt(q, m, e)
    BY <1>4, <2>1
  <2>3. \A i \in 1..(m - 1) : Before(i)
    <3>1. m - 1 = n
      BY <1>1, <1>3, <2>1
    <3> QED
      BY <1>5, <3>1
  <2>4. m \in 1..Len(q) => ~Before(m)
    BY <1>6, <2>1
  <2> QED
    BY <2>2, <2>3, <2>4
<1> QED
  BY <1>8 DEF Before

\* What inserting an event does to a list of events.
LEMMA InsertAtEvents ==
  ASSUME NEW s \in Seq(Event), NEW m \in 1..(Len(s) + 1), NEW f \in Event
  PROVE  /\ InsertAt(s, m, f) \in Seq(Event)
         /\ Len(InsertAt(s, m, f)) = Len(s) + 1
         /\ \A j \in 1..(Len(s) + 1) :
              /\ j < m => InsertAt(s, m, f)[j] = s[j]
              /\ j = m => InsertAt(s, m, f)[j] = f
              /\ j > m => InsertAt(s, m, f)[j] = s[j - 1]
<1>2. /\ InsertAt(s, m, f) \in Seq(Event)
      /\ Len(InsertAt(s, m, f)) = Len(s) + 1
      /\ \A j \in 1..(Len(s) + 1) :
           InsertAt(s, m, f)[j] =
             IF j < m THEN s[j] ELSE IF j = m THEN f ELSE s[j - 1]
  BY InsertAtLemma, SMT
<1>3. ASSUME NEW j \in 1..(Len(s) + 1)
      PROVE  /\ j < m => InsertAt(s, m, f)[j] = s[j]
             /\ j = m => InsertAt(s, m, f)[j] = f
             /\ j > m => InsertAt(s, m, f)[j] = s[j - 1]
  <2>1. Len(s) \in Nat
    BY LenProperties
  <2>2. j \in Int /\ m \in Int /\ (j > m => ~(j < m) /\ j # m) /\ (j = m => ~(j < m))
    BY <2>1
  <2> QED
    BY <1>2, <2>2
<1> QED
  BY <1>2, <1>3

\* A new event is put where its time belongs.
LEMMA InsertOK ==
  ASSUME NEW T, Listed(T), NEW e \in Event \ Posted(T), Near(T, T.TriggerAt[e]),
         NEW U, U = [T EXCEPT !.TimerList = InsertEvent(T, e)]
  PROVE  Listed(U) /\ Posted(U) = Posted(T) \cup {e}
<1> DEFINE q == T.TimerList
           a(f) == Ahead(T, T.TriggerAt[f])
<1>1. /\ T \in TimerType /\ q \in Seq(Event) /\ IsInjective(q) /\ e \in Event
      /\ T.TriggerAt \in [Event -> AudioTime] /\ T.Time \in AudioTime
  BY DEF Listed, TimerType
<1>2. /\ Len(q) \in Nat /\ DOMAIN q = 1..Len(q)
      /\ \A i \in 1..Len(q) : q[i] \in Posted(T) /\ q[i] \in Event
  BY <1>1, PostedIs
<1>3. PICK m \in 1..(Len(q) + 1) :
        /\ InsertEvent(T, e) = InsertAt(q, m, e)
        /\ \A i \in 1..(m - 1) :
             CompareAudioTimes(T.TriggerAt[q[i]], T.TriggerAt[e]) < 0
        /\ m \in 1..Len(q) => ~(CompareAudioTimes(T.TriggerAt[q[m]], T.TriggerAt[e]) < 0)
  BY <1>1, InsertPlace
<1>4. \A f \in Posted(T) \cup {e} : f \in Event /\ Near(T, T.TriggerAt[f])
  BY <1>1, PostedIs DEF Listed
<1>5. \A f \in Posted(T) \cup {e} : a(f) \in Int
  BY <1>4, Bounds DEF Near
<1>6. \A f, g \in Posted(T) \cup {e} :
        /\ CompareAudioTimes(T.TriggerAt[f], T.TriggerAt[g]) = a(f) - a(g)
        /\ LaterThan(T.TriggerAt[f], T.TriggerAt[g]) <=> a(f) > a(g)
  BY <1>1, <1>4, NearLater
<1>7. ASSUME NEW i \in 1..Len(q), NEW j \in 1..Len(q), i < j
      PROVE  a(q[i]) <= a(q[j])
  <2>1. ~LaterThan(T.TriggerAt[q[i]], T.TriggerAt[q[j]])
    BY <1>2, <1>7 DEF Listed
  <2>2. q[i] \in Posted(T) \cup {e} /\ q[j] \in Posted(T) \cup {e}
    BY <1>2
  <2> HIDE DEF a, q
  <2> QED
    BY <1>5, <1>6, <2>1, <2>2
<1>8. ASSUME NEW i \in 1..Len(q), i < m
      PROVE  a(q[i]) <= a(e)
  <2>1. CompareAudioTimes(T.TriggerAt[q[i]], T.TriggerAt[e]) < 0
    BY <1>2, <1>3, <1>8
  <2> HIDE DEF a
  <2> QED
    BY <1>2, <1>5, <1>6, <2>1
<1>9. ASSUME NEW i \in 1..Len(q), i >= m
      PROVE  a(e) <= a(q[i])
  <2>1. m \in 1..Len(q) /\ (m = i \/ m < i)
    BY <1>2, <1>9
  <2>2. ~(CompareAudioTimes(T.TriggerAt[q[m]], T.TriggerAt[e]) < 0)
    BY <1>3, <2>1
  <2>3. a(q[m]) = a(q[i]) \/ a(q[m]) <= a(q[i])
    BY <1>7, <2>1
  <2> HIDE DEF a
  <2> QED
    BY <1>2, <1>5, <1>6, <2>1, <2>2, <2>3
<1> DEFINE r == InsertAt(q, m, e)
<1>10. /\ r \in Seq(Event) /\ Len(r) = Len(q) + 1
       /\ \A j \in 1..(Len(q) + 1) :
            /\ j < m => r[j] = q[j]
            /\ j = m => r[j] = e
            /\ j > m => r[j] = q[j - 1]
  <2> HIDE DEF q
  <2> QED
    BY <1>1, InsertAtEvents
<1>11. ToSet(r) = ToSet(q) \cup {e} /\ IsInjective(r)
  <2>1. e \notin ToSet(q)
    BY DEF Posted
  <2> QED
    BY <1>1, <2>1, InsertAtSet
<1>12. U = [T EXCEPT !.TimerList = r]
  BY <1>3
<1> HIDE DEF r
<1>13. DOMAIN r = 1..(Len(q) + 1)
  BY <1>10, LenProperties
<1>14. /\ U \in TimerType /\ U.TimerList = r /\ U.Time = T.Time
       /\ U.TriggerAt = T.TriggerAt
  BY <1>1, <1>10, <1>12 DEF TimerType
<1>15. Posted(U) = Posted(T) \cup {e}
  BY <1>11, <1>14 DEF Posted
<1>16. ASSUME NEW i \in DOMAIN r, NEW j \in DOMAIN r, i < j
       PROVE  ~LaterThan(T.TriggerAt[r[i]], T.TriggerAt[r[j]])
  <2>1. r[i] \in Posted(T) \cup {e} /\ r[j] \in Posted(T) \cup {e}
    BY <1>11 DEF Posted, ToSet
  <2>2. i \in 1..(Len(q) + 1) /\ j \in 1..(Len(q) + 1) /\ Len(q) \in Nat /\ m \in Nat
    BY <1>2, <1>13
  <2>3. a(r[i]) <= a(r[j])
    <3>1. CASE j < m
      <4>1. i \in 1..Len(q) /\ j \in 1..Len(q) /\ i < m
        BY <1>16, <2>2, <3>1
      <4>2. r[i] = q[i] /\ r[j] = q[j]
        BY <1>10, <2>2, <3>1, <4>1
      <4> QED
        BY <1>7, <1>16, <4>1, <4>2
    <3>2. CASE j = m
      <4>1. i \in 1..Len(q) /\ i < m
        BY <1>16, <2>2, <3>2
      <4>2. r[i] = q[i] /\ r[j] = e
        BY <1>10, <2>2, <3>2, <4>1
      <4> QED
        BY <1>8, <4>1, <4>2
    <3>3. CASE j > m /\ i = m
      <4>1. j - 1 \in 1..Len(q) /\ j - 1 >= m /\ ~(j < m) /\ j # m /\ ~(i < m)
        BY <2>2, <3>3
      <4>2. r[i] = e /\ r[j] = q[j - 1]
        BY <1>10, <2>2, <3>3, <4>1
      <4> QED
        BY <1>9, <4>1, <4>2
    <3>4. CASE j > m /\ i < m
      <4>1. i \in 1..Len(q) /\ j - 1 \in 1..Len(q) /\ i < j - 1 /\ ~(j < m) /\ j # m
        BY <2>2, <3>4
      <4>2. r[i] = q[i] /\ r[j] = q[j - 1]
        BY <1>10, <2>2, <3>4, <4>1
      <4> QED
        BY <1>7, <4>1, <4>2
    <3>5. CASE j > m /\ i > m
      <4>1. /\ i - 1 \in 1..Len(q) /\ j - 1 \in 1..Len(q) /\ i - 1 < j - 1
            /\ ~(j < m) /\ j # m /\ ~(i < m) /\ i # m
        BY <1>16, <2>2, <3>5
      <4>2. r[i] = q[i - 1] /\ r[j] = q[j - 1]
        BY <1>10, <2>2, <3>5, <4>1
      <4> QED
        BY <1>7, <4>1, <4>2
    <3> QED
      BY <2>2, <3>1, <3>2, <3>3, <3>4, <3>5
  <2> HIDE DEF a
  <2> QED
    BY <1>5, <1>6, <2>1, <2>3
<1>17. \A f \in Posted(U) : Near(U, U.TriggerAt[f])
  BY <1>4, <1>14, <1>15 DEF Near, Ahead
<1> QED
  BY <1>11, <1>14, <1>15, <1>16, <1>17 DEF Listed

-----------------------------------------------------------------------------
(* Steps *)

\* Nothing runs in supervisor mode.
LEMMA IdleType == Idle \in StepType
<1>1. 0 \in AudioTime
  BY Bounds DEF AudioTime
<1> QED
  BY <1>1 DEF Idle, StepType, Calls

\* What runs in supervisor mode goes on without a post, if it goes on.
LEMMA ReturnFresh ==
  ASSUME NEW T, NEW s \in StepType
  PROVE  Idle \in StepType /\ Fresh(T, Idle) /\ Fresh(T, Return(s))
<1>1. Idle \in StepType
  BY IdleType
<1>2. Return(s) \in StepType /\ Return(s).at \in {"idle", "segments", "perform"}
  <2>1. /\ s.todo \in SUBSET Env /\ s.call \in Calls
    BY DEF StepType
  <2> QED
    BY <1>1, <2>1 DEF Return, Idle, StepType
<1> QED
  BY <1>1, <1>2 DEF Fresh, Idle

\* An event is posted at a time that is near the present.
LEMMA PostFresh ==
  ASSUME NEW T \in TimerType, NEW e \in Event, NEW s \in StepType,
         NEW d \in -MaxPast..MaxAhead
  PROVE  Fresh(T, PostAudioEvent(T, e, After(T.Time, d), s))
<1> DEFINE t == After(T.Time, d)
           n == PostAudioEvent(T, e, t, s)
<1>1. T.Time \in AudioTime /\ T.TimerPending \in BOOLEAN
  BY DEF TimerType
<1>2. d \in -Half..(Half - 1)
  BY Bounds
<1>3. t \in AudioTime /\ Ahead(T, t) = d
  BY <1>1, <1>2, AfterLemma DEF Ahead
<1> HIDE DEF t
<1>4. CASE e \in Posted(T)
  BY <1>4, ReturnFresh DEF PostAudioEvent, t
<1>5. CASE e \notin Posted(T)
  <2>1. n = [s EXCEPT !.at = "post", !.event = e, !.when = t, !.saw = T.TimerPending]
    BY <1>5 DEF PostAudioEvent
  <2>2. /\ n \in StepType /\ n.at = "post" /\ n.event = e /\ n.when = t
        /\ n.saw = T.TimerPending
    BY <1>1, <1>3, <2>1 DEF StepType
  <2> HIDE DEF n
  <2>3. Fresh(T, n)
    BY <1>3, <1>5, <2>2 DEF Fresh
  <2> QED
    BY <2>3 DEF n, t
<1> QED
  BY <1>4, <1>5

\* An envelope posts its next segment, or none.
LEMMA EnvFresh ==
  ASSUME NEW T \in TimerType, NEW I \in InsType, NEW e \in Env, NEW s \in StepType,
         NextEnvSegment(T, I, e, s)
  PROVE  timer' = T /\ ins' \in InsType /\ Fresh(T, step')
<1>1. e \in Event
  BY DEF Event
<1>2. CASE \E d \in 1..MaxAhead :
             /\ step' = PostAudioEvent(T, e, After(T.Time, d), s)
             /\ timer' = T /\ ins' = I
  <2>1. PICK d \in 1..MaxAhead : step' = PostAudioEvent(T, e, After(T.Time, d), s)
    BY <1>2
  <2>2. d \in -MaxPast..MaxAhead
    BY Bounds
  <2> QED
    BY <1>1, <1>2, <2>1, <2>2, PostFresh
<1>3. CASE step' = Return(s) /\ timer' = T /\ ins' = I
  BY <1>3, ReturnFresh
<1>4. CASE /\ timer' = T
           /\ ins' = Halted(I) /\ step' = Halts(I, s.call, e)
  <2>1. ins' \in InsType
    BY <1>4 DEF Halted, InsType
  <2>2. step' \in StepType /\ step'.at = "stops"
    BY <1>1, <1>4, ReturnFresh DEF Halts, StepType, InsType, Idle
  <2> QED
    BY <1>4, <2>1, <2>2 DEF Fresh
<1> QED
  BY <1>2, <1>3, <1>4 DEF NextEnvSegment

\* What posts and waits for nothing new, and may remove events, keeps the
\* state good.
LEMMA KeepsGood ==
  ASSUME NEW D, NEW T, NEW A, NEW s, NEW I, Good(D, T, A, s, I), s.at # "arm",
         NEW U, Fewer(T, U), NEW n, Fresh(U, n), NEW B \in AudioType, NEW J \in InsType,
         A.signal \/ A.runs => B.signal \/ B.runs
  PROVE  Good(D, U, B, n, J)
<1>1. D \in DspType /\ T \in TimerType /\ U \in TimerType /\ n \in StepType
  BY DEF Good, Fewer, Listed, Fresh
<1>2. /\ Listed(U) /\ U.Time = T.Time /\ U.NextTime = T.NextTime
      /\ U.LastTickCount = T.LastTickCount /\ U.TimerPending = T.TimerPending
      /\ \A e \in Posted(U) : e \in Posted(T) /\ U.TriggerAt[e] = T.TriggerAt[e]
  BY DEF Fewer
<1>3. Elapsed(D, U) = Elapsed(D, T) /\ \A t : Ahead(U, t) = Ahead(T, t)
  BY <1>2 DEF Elapsed, Ahead
<1>4. Clock(D, U)
  BY <1>2, <1>3 DEF Good, Clock
<1>5. U.TimerPending => Near(U, U.NextTime)
  BY <1>2, <1>3 DEF Good, Near
<1>6. Posting(D, U, B, n)
  <2>1. SUFFICES ASSUME n.at = "post"
                 PROVE  /\ n.event \in Event \ Posted(U)
                        /\ Ahead(U, n.when) >= Elapsed(D, U) - MaxLate
                        /\ Ahead(U, n.when) <= MaxAhead
                        /\ n.saw = U.TimerPending
    BY DEF Posting
  <2>2. /\ n.event \in Event \ Posted(U) /\ Ahead(U, n.when) \in -MaxPast..MaxAhead
        /\ n.saw = U.TimerPending
    BY <2>1 DEF Fresh
  <2>3. Elapsed(D, U) \in 0..MaxLost
    BY <1>4 DEF Clock
  <2> QED
    BY <2>2, <2>3, Bounds
<1>7. Arming(U, n)
  BY DEF Fresh, Arming
<1>8. Waits(U, B, n)
  BY <1>2 DEF Good, Waits
<1> QED
  BY <1>1, <1>2, <1>4, <1>5, <1>6, <1>7, <1>8 DEF Good

\* Removing no event is removing events.
LEMMA FewerSame ==
  ASSUME NEW T, Listed(T)
  PROVE  Fewer(T, T)
BY DEF Fewer

\* ScheduleNextAudioTimerSignal has the interrupt look for the first event, and
\* no other event that is left is earlier.
LEMMA ScheduleGood ==
  ASSUME NEW D, NEW T, NEW A, NEW s, NEW I, Good(D, T, A, s, I), s.at # "arm",
         NEW U, Fewer(T, U), NEW B \in AudioType, NEW J \in InsType,
         ScheduleNext(U)
  PROVE  Good(D, timer', B, step', J)
<1> DEFINE W == [signal |-> TRUE, runs |-> TRUE, time |-> B.time]
           q == U.TimerList
<1>1. U \in TimerType /\ q \in Seq(Event) /\ Idle \in StepType
  BY ReturnFresh DEF Fewer, Listed, TimerType, Good
<1>2. Good(D, U, W, Idle, J)
  <2>1. W \in AudioType
    BY DEF AudioType
  <2>2. Fresh(U, Idle)
    BY ReturnFresh DEF Good
  <2> QED
    BY <2>1, <2>2, KeepsGood
<1>3. CASE q = <<>>
  <2>1. step' = Idle /\ timer' = U
    BY <1>3 DEF ScheduleNext
  <2>2. Posted(U) = {}
    BY <1>1, <1>3, PostedIs
  <2>3. Posting(D, U, B, Idle) /\ Waits(U, B, Idle)
    BY <2>2 DEF Posting, Waits, Idle
  <2> QED
    BY <1>2, <2>1, <2>3 DEF Good
<1>4. CASE q # <<>>
  <2> DEFINE h == Head(q)
             V == [U EXCEPT !.NextTime = U.TriggerAt[h]]
             n == [Idle EXCEPT !.at = "arm"]
  <2>1. timer' = V /\ step' = n
    BY <1>4 DEF ScheduleNext
  <2>2. /\ Len(q) \in Nat \ {0} /\ 1 \in DOMAIN q /\ h = q[1] /\ h \in Posted(U)
        /\ h \in Event
    BY <1>1, <1>4, PostedIs, EmptySeq, HeadTailProperties
  <2>3. U.TriggerAt \in [Event -> AudioTime]
    BY <1>1 DEF TimerType
  <2>4. /\ V \in TimerType /\ V.TimerList = q /\ V.TriggerAt = U.TriggerAt
        /\ V.Time = U.Time /\ V.LastTickCount = U.LastTickCount
        /\ V.NextTime = U.TriggerAt[h] /\ V.TimerPending = U.TimerPending
    BY <1>1, <2>2, <2>3 DEF TimerType
  <2>5. n \in StepType /\ n.at = "arm"
    BY <1>1 DEF StepType, Idle
  <2> HIDE DEF h, V, n
  <2>6. Posted(V) = Posted(U) /\ Elapsed(D, V) = Elapsed(D, U)
        /\ \A t : Ahead(V, t) = Ahead(U, t)
    BY <2>4 DEF Posted, Elapsed, Ahead
  <2>7. Listed(V) /\ Near(V, V.NextTime)
    BY <2>2, <2>4, <2>6 DEF Fewer, Listed, Near
  <2>8. Clock(D, V)
    BY <1>2, <2>4, <2>6 DEF Good, Clock
  <2>9. Posting(D, V, B, n) /\ Arming(V, n)
    BY <1>4, <2>4, <2>5 DEF Posting, Arming, h
  <2>10. ASSUME NEW e \in Posted(V)
         PROVE  ~LaterThan(V.NextTime, V.TriggerAt[e])
    <3>1. PICK i \in DOMAIN q : e = q[i]
      BY <1>1, <2>6, PostedIs
    <3>2. i = 1 \/ 1 < i
      BY <1>1, PostedIs
    <3>3. CASE i = 1
      <4>1. Near(U, U.TriggerAt[h]) /\ U.TriggerAt[h] \in AudioTime /\ U.Time \in AudioTime
        BY <1>1, <2>2, <2>3 DEF Fewer, Listed, TimerType
      <4>2. LaterThan(U.TriggerAt[h], U.TriggerAt[h])
              <=> Ahead(U, U.TriggerAt[h]) > Ahead(U, U.TriggerAt[h])
        BY <4>1, NearLater
      <4>3. Ahead(U, U.TriggerAt[h]) \in Int
        BY <4>1, Bounds DEF Near
      <4> QED
        BY <2>2, <2>4, <3>1, <3>3, <4>2, <4>3
    <3>4. CASE 1 < i
      BY <2>2, <2>4, <3>1, <3>4 DEF Fewer, Listed
    <3> QED
      BY <3>2, <3>3, <3>4
  <2>11. Waits(V, B, n)
    BY <2>5, <2>10 DEF Waits
  <2> QED
    BY <1>2, <2>1, <2>4, <2>5, <2>7, <2>8, <2>9, <2>11 DEF Good
<1> QED
  BY <1>3, <1>4

\* PostAudioEvent, in every order with the interrupt.
LEMMA PostGood ==
  ASSUME IInv, PostEnds
  PROVE  IInv' /\ Posted(timer') = Posted(timer) \cup {step.event}
<1> DEFINE T == timer
           e == step.event
           t == step.when
           saw == step.saw
           U == [T EXCEPT !.TriggerAt[e] = t]
           V == PostTimed(T, e, t, saw)
<1>1. /\ dsp \in DspType /\ audio \in AudioType /\ step \in StepType /\ ins \in InsType
      /\ Listed(T) /\ Clock(dsp, T)
      /\ T.TimerPending => Near(T, T.NextTime)
      /\ Posting(dsp, T, audio, step) /\ Waits(T, audio, step)
  BY DEF IInv, Good
<1>2. /\ step.at = "post" /\ timer' = V /\ step' = Return(step)
      /\ dsp' = dsp /\ audio' = audio /\ ins' = ins
  BY DEF PostEnds
<1>3. /\ T \in TimerType /\ T.TriggerAt \in [Event -> AudioTime] /\ T.Time \in AudioTime
      /\ T.NextTime \in AudioTime /\ T.TimerPending \in BOOLEAN
      /\ t \in AudioTime /\ saw \in BOOLEAN
  BY <1>1 DEF Listed, TimerType, StepType
<1>4. /\ e \in Event /\ e \notin Posted(T)
      /\ Ahead(T, t) >= Elapsed(dsp, T) - MaxLate /\ Ahead(T, t) <= MaxAhead
      /\ saw => T.TimerPending \/ audio.signal
      /\ ~saw => ~T.TimerPending
  BY <1>1, <1>2 DEF Posting
<1>5. Near(T, t)
  <2>1. Elapsed(dsp, T) \in 0..MaxLost
    BY <1>1 DEF Clock
  <2>2. Ahead(T, t) \in Int
    BY <1>3, CompareLemma, Bounds DEF Ahead
  <2> QED
    BY <1>4, <2>1, <2>2, Bounds DEF Near
<1>6. /\ U \in TimerType /\ U.TimerList = T.TimerList /\ U.TriggerAt[e] = t
      /\ U.Time = T.Time /\ U.LastTickCount = T.LastTickCount
      /\ U.NextTime = T.NextTime /\ U.TimerPending = T.TimerPending
      /\ \A f \in Event : f # e => U.TriggerAt[f] = T.TriggerAt[f]
  <2> DEFINE at == [T.TriggerAt EXCEPT ![e] = t]
  <2>1. /\ at \in [Event -> AudioTime] /\ at[e] = t
        /\ \A f \in Event : f # e => at[f] = T.TriggerAt[f]
    BY <1>3, <1>4
  <2>2. U = [T EXCEPT !.TriggerAt = at]
    BY <1>3 DEF TimerType
  <2> HIDE DEF at, U
  <2> QED
    BY <1>3, <2>1, <2>2 DEF TimerType
<1>v. V = [U EXCEPT !.NextTime = IF saw /\ ~LaterThan(@, t) THEN @ ELSE t,
                    !.TimerPending = @ \/ ~saw,
                    !.TimerList = InsertEvent(U, e)]
  BY DEF PostTimed
<1> HIDE DEF U, V, T, e, t, saw
<1>7. /\ Posted(U) = Posted(T)
      /\ \A f \in Posted(U) : f # e /\ f \in Event /\ U.TriggerAt[f] = T.TriggerAt[f]
  BY <1>3, <1>4, <1>6, PostedIs DEF Posted
<1>8. Listed(U) /\ Near(U, U.TriggerAt[e])
  <2>1. /\ \A i \in DOMAIN U.TimerList :
             U.TriggerAt[U.TimerList[i]] = T.TriggerAt[T.TimerList[i]]
    BY <1>6, <1>7, PostedIs
  <2>a. \A x : Near(U, x) <=> Near(T, x)
    BY <1>6 DEF Near, Ahead
  <2>2. \A f \in Posted(U) : Near(U, U.TriggerAt[f])
    BY <1>1, <1>7, <2>a DEF Listed
  <2>3. Near(U, U.TriggerAt[e])
    BY <1>5, <1>6, <2>a
  <2> QED
    BY <1>1, <1>6, <2>1, <2>2, <2>3 DEF Listed
<1> DEFINE W == [U EXCEPT !.TimerList = InsertEvent(U, e)]
<1>9. Listed(W) /\ Posted(W) = Posted(T) \cup {e}
  BY <1>4, <1>7, <1>8, InsertOK
<1>10. /\ V.NextTime = IF saw /\ ~LaterThan(T.NextTime, t) THEN T.NextTime ELSE t
       /\ V.TimerPending = (T.TimerPending \/ ~saw)
       /\ V.Time = T.Time /\ V.LastTickCount = T.LastTickCount
       /\ V.TriggerAt = U.TriggerAt /\ W.TriggerAt = U.TriggerAt
       /\ V.TimerList = W.TimerList /\ V.TimerPending \in BOOLEAN
       /\ W.Time = T.Time
  BY <1>3, <1>6, <1>v DEF TimerType
<1>11. V \in TimerType
  <2>1. W \in TimerType /\ W.TimerList \in Seq(Event)
    BY <1>9 DEF Listed, TimerType
  <2>2. InsertEvent(U, e) \in Seq(Event)
    BY <1>6, <2>1 DEF TimerType
  <2> QED
    BY <1>3, <1>6, <1>v, <2>2 DEF TimerType
<1> HIDE DEF W
<1>12. Posted(V) = Posted(T) \cup {e}
  BY <1>9, <1>10 DEF Posted
<1>13. Listed(V)
  BY <1>9, <1>10, <1>11, <1>12 DEF Listed, Near, Ahead
<1>14. Elapsed(dsp, V) = Elapsed(dsp, T) /\ \A x : Ahead(V, x) = Ahead(T, x)
  BY <1>10 DEF Elapsed, Ahead
<1>15. Clock(dsp, V)
  BY <1>1, <1>4, <1>6, <1>7, <1>10, <1>12, <1>14 DEF Clock
<1>16. V.TimerPending => Near(V, V.NextTime)
  BY <1>1, <1>5, <1>10, <1>14 DEF Near
<1>17. Waits(V, audio, step')
  <2>1. SUFFICES ASSUME ~audio.signal, ~audio.runs, NEW f \in Posted(T) \cup {e}
                 PROVE  V.TimerPending /\ ~LaterThan(V.NextTime, V.TriggerAt[f])
    BY <1>12 DEF Waits
  <2>2. V.TimerPending
    BY <1>4, <1>10, <2>1
  <2>3. \A g \in Posted(T) : T.TimerPending /\ ~LaterThan(T.NextTime, T.TriggerAt[g])
    BY <1>1, <1>2, <2>1 DEF Waits
  <2>4. Ahead(T, t) \in Int /\ (LaterThan(t, t) <=> Ahead(T, t) > Ahead(T, t))
    BY <1>3, <1>5, NearLater, Bounds DEF Near
  <2>5. CASE f = e
    <3>1. V.TriggerAt[f] = t
      BY <1>6, <1>10, <2>5
    <3>2. V.NextTime = t \/ (V.NextTime = T.NextTime /\ ~LaterThan(T.NextTime, t))
      BY <1>10
    <3> QED
      BY <2>2, <2>4, <3>1, <3>2
  <2>6. CASE f # e
    <3>1. f \in Posted(T) /\ saw /\ T.TimerPending /\ V.TriggerAt[f] = T.TriggerAt[f]
      BY <1>4, <1>7, <1>10, <2>1, <2>3, <2>6
    <3>2. /\ T.TriggerAt[f] \in AudioTime /\ Near(T, T.TriggerAt[f]) /\ Near(T, T.NextTime)
      BY <1>1, <1>3, <1>7, <3>1 DEF Listed
    <3>3. /\ Ahead(T, T.TriggerAt[f]) \in Int /\ Ahead(T, T.NextTime) \in Int
      BY <3>2, Bounds DEF Near
    <3>4. /\ LaterThan(T.NextTime, T.TriggerAt[f])
               <=> Ahead(T, T.NextTime) > Ahead(T, T.TriggerAt[f])
          /\ LaterThan(t, T.TriggerAt[f]) <=> Ahead(T, t) > Ahead(T, T.TriggerAt[f])
          /\ LaterThan(T.NextTime, t) <=> Ahead(T, T.NextTime) > Ahead(T, t)
      BY <1>3, <1>5, <3>2, NearLater
    <3>5. V.NextTime = T.NextTime \/ (V.NextTime = t /\ LaterThan(T.NextTime, t))
      BY <1>10, <3>1
    <3>6. ~LaterThan(T.NextTime, T.TriggerAt[f])
      BY <2>3, <3>1
    <3> QED
      BY <2>2, <2>4, <3>1, <3>3, <3>4, <3>5, <3>6
  <2> QED
    BY <2>2, <2>5, <2>6
<1>18. Fresh(V, step')
  BY <1>1, <1>2, ReturnFresh
<1>19. step'.at \in {"idle", "segments", "perform"} /\ step' \in StepType
  <2>1. step'.at \in {"idle", "segments", "perform"}
    BY <1>2 DEF Return, Idle
  <2> QED
    BY <1>18, <2>1 DEF Fresh
<1>20. Posting(dsp, V, audio, step') /\ Arming(V, step')
  BY <1>19 DEF Posting, Arming
<1>21. IInv'
  BY <1>1, <1>2, <1>13, <1>15, <1>16, <1>17, <1>19, <1>20 DEF IInv, Good
<1> QED
  BY <1>2, <1>12, <1>21 DEF T, e

\* Setting af_TimerPending.
LEMMA ArmsGood ==
  ASSUME IInv, Arms
  PROVE  IInv'
<1> DEFINE T == timer
           V == [T EXCEPT !.TimerPending = TRUE]
<1>1. /\ dsp \in DspType /\ audio \in AudioType /\ step \in StepType /\ ins \in InsType
      /\ Listed(T) /\ Clock(dsp, T) /\ Arming(T, step) /\ Waits(T, audio, step)
  BY DEF IInv, Good
<1>2. /\ step.at = "arm" /\ timer' = V /\ step' = Idle
      /\ dsp' = dsp /\ audio' = audio /\ ins' = ins
  BY DEF Arms
<1>3. T \in TimerType /\ T.TimerList \in Seq(Event)
  BY <1>1 DEF Listed, TimerType
<1>4. /\ V \in TimerType /\ V.TimerList = T.TimerList /\ V.TriggerAt = T.TriggerAt
      /\ V.Time = T.Time /\ V.LastTickCount = T.LastTickCount
      /\ V.NextTime = T.NextTime /\ V.TimerPending = TRUE
  BY <1>3 DEF TimerType
<1> HIDE DEF V, T
<1>5. Posted(V) = Posted(T) /\ Elapsed(dsp, V) = Elapsed(dsp, T)
      /\ \A t : Ahead(V, t) = Ahead(T, t)
  BY <1>4 DEF Posted, Elapsed, Ahead
<1>6. Listed(V)
  BY <1>1, <1>4, <1>5 DEF Listed, Near
<1>7. Clock(dsp, V)
  BY <1>1, <1>4, <1>5 DEF Clock
<1>8. Near(V, V.NextTime)
  <2>1. T.TimerList # <<>> /\ T.NextTime = T.TriggerAt[Head(T.TimerList)]
    BY <1>1, <1>2 DEF Arming
  <2>2. Head(T.TimerList) \in Posted(T)
    BY <1>3, <2>1, PostedIs, EmptySeq, HeadTailProperties
  <2> QED
    BY <1>1, <1>4, <1>5, <2>1, <2>2 DEF Listed, Near
<1>9. Idle \in StepType /\ Posting(dsp, V, audio, Idle) /\ Arming(V, Idle)
  BY <1>1, ReturnFresh DEF Posting, Arming, Idle
<1>10. Waits(V, audio, Idle)
  BY <1>1, <1>4, <1>5 DEF Waits
<1> QED
  BY <1>1, <1>2, <1>6, <1>7, <1>8, <1>9, <1>10 DEF IInv, Good

-----------------------------------------------------------------------------
(* The clock *)

\* The interrupt adds the ticks it had not seen, and signals the folio's task
\* or leaves af_NextTime ahead.
LEMMA InterruptGood ==
  ASSUME IInv, AudioTimerIntHandler
  PROVE  IInv'
<1> DEFINE T == timer
           n == Elapsed(dsp, T)
           now == After(T.Time, n)
           due == T.TimerPending /\ ~LaterThan(T.NextTime, now)
           V == [T EXCEPT !.Time = now, !.LastTickCount = dsp.counter,
                          !.TimerPending = @ /\ ~due]
           B == [audio EXCEPT !.signal = @ \/ due]
<1>1. /\ dsp \in DspType /\ audio \in AudioType /\ step \in StepType /\ ins \in InsType
      /\ Listed(T) /\ Clock(dsp, T)
      /\ T.TimerPending => Near(T, T.NextTime)
      /\ Posting(dsp, T, audio, step) /\ Arming(T, step) /\ Waits(T, audio, step)
  BY DEF IInv, Good
<1>2. timer' = V /\ audio' = B /\ dsp' = dsp /\ step' = step /\ ins' = ins
  BY DEF AudioTimerIntHandler, TicksElapsed, Elapsed
<1> HIDE DEF T
<1>3. /\ T \in TimerType /\ T.TriggerAt \in [Event -> AudioTime] /\ T.Time \in AudioTime
      /\ T.NextTime \in AudioTime /\ T.TimerPending \in BOOLEAN
  BY <1>1 DEF Listed, TimerType
<1>4. n \in 0..MaxLost /\ now = dsp.ticks /\ now \in AudioTime
      /\ dsp.counter \in 0..(TickMod - 1)
  BY <1>1 DEF Clock, DspType
<1> HIDE DEF n, now
<1>5. due \in BOOLEAN
  OBVIOUS
<1> HIDE DEF due
<1>6. /\ V \in TimerType /\ V.TimerList = T.TimerList /\ V.TriggerAt = T.TriggerAt
      /\ V.Time = now /\ V.LastTickCount = dsp.counter
      /\ V.NextTime = T.NextTime /\ V.TimerPending = (T.TimerPending /\ ~due)
  BY <1>3, <1>4, <1>5 DEF TimerType
<1>7. /\ B \in AudioType /\ B.signal = (audio.signal \/ due) /\ B.runs = audio.runs
  BY <1>1, <1>5 DEF AudioType
<1> HIDE DEF V, B
<1>8. Posted(V) = Posted(T)
  BY <1>6 DEF Posted
<1>9. Elapsed(dsp, V) = 0
  BY <1>4, <1>6, Bounds DEF Elapsed, Wrap
<1>10. ASSUME NEW t \in AudioTime, Ahead(T, t) >= n - MaxLate \/ Near(T, t)
       PROVE  Ahead(V, t) = Ahead(T, t) - n /\ Ahead(T, t) \in Int
  <2>1. CompareAudioTimes(t, T.Time) \in -Half..(Half - 1)
    BY <1>3, CompareLemma
  <2>2. CompareAudioTimes(t, T.Time) - n >= -Half
    BY <1>4, <1>10, <2>1, Bounds DEF Ahead, Near
  <2>3. CompareAudioTimes(t, now) = CompareAudioTimes(t, T.Time) - n
    BY <1>3, <1>4, <2>2, AdvanceLemma DEF now
  <2> QED
    BY <1>6, <2>1, <2>3, Bounds DEF Ahead
<1>11. ASSUME NEW e \in Posted(V)
       PROVE  Near(V, V.TriggerAt[e])
  <2>1. /\ T.TriggerAt[e] \in AudioTime /\ Near(T, T.TriggerAt[e])
        /\ Ahead(T, T.TriggerAt[e]) >= n - MaxLate
    BY <1>1, <1>3, <1>8, PostedIs DEF Listed, Clock, n
  <2>2. Ahead(V, T.TriggerAt[e]) = Ahead(T, T.TriggerAt[e]) - n
    BY <1>10, <2>1
  <2> QED
    BY <1>4, <1>6, <2>1, <2>2, Bounds DEF Near
<1>12. Listed(V)
  BY <1>1, <1>6, <1>11 DEF Listed
<1>13. Clock(dsp, V)
  <2>1. After(V.Time, 0) = dsp.ticks
    BY <1>4, <1>6, Bounds DEF After, Wrap, AudioTime
  <2>2. \A e \in Posted(V) : Ahead(V, V.TriggerAt[e]) >= 0 - MaxLate
    BY <1>11, Bounds DEF Near
  <2> QED
    BY <1>9, <2>1, <2>2, Bounds DEF Clock
<1>14. V.TimerPending => Near(V, V.NextTime)
  <2>1. SUFFICES ASSUME V.TimerPending  PROVE  Near(V, T.NextTime)
    BY <1>6
  <2>2. T.TimerPending /\ LaterThan(T.NextTime, now) /\ Near(T, T.NextTime)
    BY <1>1, <1>6, <2>1 DEF due
  <2>3. Ahead(V, T.NextTime) = Ahead(T, T.NextTime) - n /\ Ahead(T, T.NextTime) \in Int
    BY <1>3, <1>10, <2>2
  <2>4. Ahead(V, T.NextTime) > 0
    BY <1>6, <2>2 DEF LaterThan, Ahead
  <2> QED
    BY <1>4, <2>2, <2>3, <2>4, Bounds DEF Near
<1>15. Posting(dsp, V, B, step)
  <2>1. SUFFICES ASSUME step.at = "post"
                 PROVE  /\ step.event \in Event \ Posted(V)
                        /\ Ahead(V, step.when) >= 0 - MaxLate
                        /\ Ahead(V, step.when) <= MaxAhead
                        /\ step.saw => V.TimerPending \/ B.signal
                        /\ ~step.saw => ~V.TimerPending
    BY <1>9 DEF Posting
  <2>2. /\ step.event \in Event \ Posted(T)
        /\ Ahead(T, step.when) >= n - MaxLate
        /\ Ahead(T, step.when) <= MaxAhead
        /\ step.saw => T.TimerPending \/ audio.signal
        /\ ~step.saw => ~T.TimerPending
    BY <1>1, <2>1 DEF Posting, n
  <2>3. step.when \in AudioTime
    BY <1>1 DEF StepType
  <2>4. Ahead(V, step.when) = Ahead(T, step.when) - n /\ Ahead(T, step.when) \in Int
    BY <1>10, <2>2, <2>3
  <2>5. /\ Ahead(V, step.when) >= 0 - MaxLate
        /\ Ahead(V, step.when) <= MaxAhead
    BY <1>4, <2>2, <2>4, Bounds
  <2> QED
    BY <1>6, <1>7, <1>8, <2>2, <2>5
<1>16. Arming(V, step)
  BY <1>1, <1>6 DEF Arming
<1>17. Waits(V, B, step)
  BY <1>1, <1>6, <1>7, <1>8 DEF Waits
<1> QED
  BY <1>1, <1>2, <1>7, <1>12, <1>13, <1>14, <1>15, <1>16, <1>17 DEF IInv, Good

\* A time that was not overdue before a tick is not after it.
LEMMA TickNear ==
  ASSUME NEW t \in AudioTime, NEW now \in AudioTime, NEW n \in 0..MaxLost,
         CompareAudioTimes(t, now) >= n - MaxLate,
         CompareAudioTimes(t, now) <= MaxAhead,
         CompareAudioTimes(After(now, n), t) < MaxLate
  PROVE  CompareAudioTimes(t, now) >= n + 1 - MaxLate
<1> DEFINE u == After(now, n)
           a == CompareAudioTimes(t, now)
           b == CompareAudioTimes(t, u)
           c == CompareAudioTimes(u, t)
<1>1. a \in Int /\ a >= n - MaxLate /\ a <= MaxAhead
  BY CompareLemma, Bounds
<1>2. u \in AudioTime /\ b = a - n
  BY <1>1, AdvanceLemma, Bounds
<1>3. CompareAudioTimes(u, u) = 0
  BY <1>2, Bounds DEF CompareAudioTimes, Wrap, AudioTime
<1>4. c = 0 - b
  <2>1. 0 - b \in -Half..(Half - 1)
    BY <1>1, <1>2, Bounds
  <2> HIDE DEF u
  <2> QED
    BY <1>2, <1>3, <2>1, DistanceLemma
<1>5. c < MaxLate
  OBVIOUS
<1> HIDE DEF a, b, c
<1>6. a >= n + 1 - MaxLate
  BY <1>1, <1>2, <1>4, <1>5, Bounds
<1> QED
  BY <1>6 DEF a

\* A tick is counted, and makes nothing that waits overdue.
LEMMA TickGood ==
  ASSUME IInv, Tick
  PROVE  IInv'
<1> DEFINE T == timer
           n == Elapsed(dsp, T)
           D == [counter |-> Wrap(dsp.counter + 1, TickMod), ticks |-> After(dsp.ticks, 1)]
<1>1. /\ dsp \in DspType /\ audio \in AudioType /\ step \in StepType /\ ins \in InsType
      /\ Listed(T) /\ Clock(dsp, T)
      /\ T.TimerPending => Near(T, T.NextTime)
      /\ Posting(dsp, T, audio, step) /\ Arming(T, step) /\ Waits(T, audio, step)
  BY DEF IInv, Good
<1>2. /\ dsp' = D /\ timer' = timer /\ audio' = audio /\ step' = step /\ ins' = ins
      /\ InTime
  BY DEF Tick
<1>3. /\ T \in TimerType /\ T.TriggerAt \in [Event -> AudioTime] /\ T.Time \in AudioTime
      /\ T.LastTickCount \in 0..(TickMod - 1)
      /\ dsp.counter \in 0..(TickMod - 1) /\ dsp.ticks \in AudioTime
  BY <1>1 DEF Listed, TimerType, DspType
<1>4. n \in 0..MaxLost /\ n < MaxLost /\ After(T.Time, n) = dsp.ticks
  BY <1>1, <1>2 DEF Clock, InTime, TicksElapsed, Elapsed
<1>5. D \in DspType
  BY <1>3, Bounds DEF DspType, After, Wrap, AudioTime
<1>6. Elapsed(D, T) = n + 1
  BY <1>3, <1>4, Bounds DEF Elapsed, Wrap
<1>7. After(T.Time, n + 1) = D.ticks
  BY <1>3, <1>4, Bounds DEF After, Wrap, AudioTime
<1>8. ASSUME NEW t \in Awaited, t \in AudioTime
      PROVE  CompareAudioTimes(dsp.ticks, t) < MaxLate
  <2>1. CompareAudioTimes(dsp.ticks, t) \in Int
    BY <1>3, <1>8, CompareLemma, Bounds
  <2>2. \/ CompareAudioTimes(dsp.ticks, t) < MaxLate
        \/ CompareAudioTimes(dsp.ticks, t) < MaxLate - 1
    BY <1>2 DEF InTime
  <2> QED
    BY <2>1, <2>2, Bounds
<1> HIDE DEF T, n, D
<1>9. ASSUME NEW e \in Posted(T)
      PROVE  Ahead(T, T.TriggerAt[e]) >= n + 1 - MaxLate
  <2>1. /\ T.TriggerAt[e] \in AudioTime /\ Near(T, T.TriggerAt[e])
        /\ Ahead(T, T.TriggerAt[e]) >= n - MaxLate
    BY <1>1, <1>3, PostedIs DEF Listed, Clock, n
  <2>2. T.TriggerAt[e] \in Awaited
    BY DEF Awaited, T
  <2>3. CompareAudioTimes(After(T.Time, n), T.TriggerAt[e]) < MaxLate
    BY <1>4, <1>8, <2>1, <2>2
  <2>4. Ahead(T, T.TriggerAt[e]) <= MaxAhead
    BY <2>1, Bounds DEF Near
  <2> QED
    BY <1>3, <1>4, <2>1, <2>3, <2>4, TickNear DEF Ahead
<1>10. Clock(D, T)
  BY <1>4, <1>6, <1>7, <1>9, Bounds DEF Clock
<1>11. Posting(D, T, audio, step)
  <2>1. CASE step.at # "post"
    BY <2>1 DEF Posting
  <2>2. CASE step.at = "post"
    <3>1. /\ step.event \in Event \ Posted(T)
          /\ Ahead(T, step.when) >= n - MaxLate
          /\ Ahead(T, step.when) <= MaxAhead
          /\ step.saw => T.TimerPending \/ audio.signal
          /\ ~step.saw => ~T.TimerPending
      BY <1>1, <2>2 DEF Posting, n
    <3>2. step.when \in AudioTime /\ step.when \in Awaited
      BY <1>1, <2>2 DEF StepType, Awaited
    <3>3. CompareAudioTimes(After(T.Time, n), step.when) < MaxLate
      BY <1>4, <1>8, <3>2
    <3>4. Ahead(T, step.when) >= n + 1 - MaxLate
      BY <1>3, <1>4, <3>1, <3>2, <3>3, TickNear DEF Ahead
    <3>5. Ahead(T, step.when) >= Elapsed(D, T) - MaxLate
      BY <1>4, <1>6, <3>4, Bounds
    <3> QED
      BY <3>1, <3>5 DEF Posting
  <2> QED
    BY <2>1, <2>2
<1> QED
  BY <1>1, <1>2, <1>5, <1>10, <1>11 DEF IInv, Good, T

-----------------------------------------------------------------------------
(* Programs, the envelopes and the folio's task *)

\* Going on with a number of envelopes.
LEMMA DoesFresh ==
  ASSUME NEW T, NEW call \in Calls, NEW es \in SUBSET Env
  PROVE  Fresh(T, Does(call, es))
<1>1. Idle \in StepType
  BY IdleType
<1>2. [Idle EXCEPT !.call = call, !.todo = es] \in StepType
  BY <1>1 DEF StepType
<1> QED
  BY <1>2, ReturnFresh DEF Does

\* Stopping the instrument.
LEMMA HaltsFresh ==
  ASSUME NEW T, NEW I \in InsType, NEW call \in Calls, NEW e \in Event \cup {NoEvent}
  PROVE  Halted(I) \in InsType /\ Fresh(T, Halts(I, call, e))
<1>1. Halted(I) \in InsType
  BY DEF Halted, InsType
<1>2. Idle \in StepType
  BY IdleType
<1>3. Halts(I, call, e) \in StepType /\ Halts(I, call, e).at = "stops"
  BY <1>2 DEF Halts, StepType, InsType
<1> QED
  BY <1>1, <1>3 DEF Fresh

\* Starting the instrument.
LEMMA StartsFresh ==
  ASSUME NEW T, NEW I \in InsType, Starts(I)
  PROVE  ins' \in InsType /\ Fresh(T, step')
<1>1. AutoStart \cap I.attached \in SUBSET Env
  BY DEF InsType
<1>2. Started(I, AutoStart \cap I.attached) \in InsType
  BY DEF Started, InsType
<1>3. ins' \in InsType
  BY <1>2 DEF Starts, InsType
<1>4. Fresh(T, step')
  BY <1>1, DoesFresh DEF Starts, Calls
<1> QED
  BY <1>3, <1>4

\* A step that leaves the clock and the folio's task alone, and posts at most
\* later, from a state that is good.
LEMMA Continues ==
  ASSUME IInv, step.at # "arm", dsp' = dsp, audio' = audio,
         Fewer(timer, timer'), ins' \in InsType, Fresh(timer', step')
  PROVE  IInv'
<1>1. audio \in AudioType
  BY DEF IInv, Good
<1>2. Good(dsp, timer', audio, step', ins')
  BY <1>1, KeepsGood DEF IInv
<1> QED
  BY <1>2 DEF IInv

\* The list of a good state, as it is and without an event.
LEMMA Unposted ==
  ASSUME IInv
  PROVE  /\ timer \in TimerType /\ step \in StepType /\ ins \in InsType
         /\ Fewer(timer, timer)
         /\ \A e \in Event : /\ Fewer(timer, UnpostAudioEvent(timer, e))
                             /\ UnpostAudioEvent(timer, e) \in TimerType
<1>1. Listed(timer) /\ step \in StepType /\ ins \in InsType
  BY DEF IInv, Good
<1>2. \A e \in Event : Fewer(timer, UnpostAudioEvent(timer, e))
  BY <1>1, RemoveOK
<1> QED
  BY <1>1, <1>2, FewerSame DEF Fewer, Listed

\* Removing a cue schedules the next signal.
LEMMA Reschedules ==
  ASSUME IInv, step.at # "arm", NEW U, Fewer(timer, U), ScheduleNext(U),
         dsp' = dsp, ins' \in InsType, audio' \in AudioType
  PROVE  IInv'
<1>1. Good(dsp, timer', audio', step', ins')
  BY ScheduleGood DEF IInv
<1> QED
  BY <1>1 DEF IInv

\* The attachments that a deleted cue monitored are as they were otherwise.
LEMMA UnmonitoredType ==
  ASSUME NEW I \in InsType, NEW c
  PROVE  LET J == Unmonitored(I, c) IN
         /\ J \in InsType
         /\ J.running = I.running /\ J.attached = I.attached /\ J.Activity = I.Activity
         /\ \A e \in Env : J.CueItem[e] \in {I.CueItem[e], NoEvent}
<1> DEFINE items == [e \in Env |-> IF I.CueItem[e] = c THEN NoEvent ELSE I.CueItem[e]]
           J == Unmonitored(I, c)
<1>1. items \in [Env -> Cue \cup {NoEvent}]
  BY DEF InsType
<1>2. \A e \in Env : items[e] \in {I.CueItem[e], NoEvent}
  OBVIOUS
<1>3. J = [I EXCEPT !.CueItem = items]
  BY DEF Unmonitored
<1> HIDE DEF items, J
<1>4. /\ J \in InsType /\ J.CueItem = items
      /\ J.running = I.running /\ J.attached = I.attached /\ J.Activity = I.Activity
  BY <1>1, <1>3 DEF InsType
<1>5. \A e \in Env : J.CueItem[e] \in {I.CueItem[e], NoEvent}
  BY <1>2, <1>4
<1> QED
  BY <1>4, <1>5 DEF J

\* What programs do with cues.
LEMMA CueGood ==
  ASSUME IInv, NEW c \in Cue,
         CreateCue(c) \/ SignalAtTime(c) \/ AbortTimerCue(c) \/ DeleteCue(c) \/ TakeSignal(c)
  PROVE  IInv'
<1>1. c \in Event /\ audio \in AudioType /\ Idle \in StepType
  BY ReturnFresh DEF Event, IInv, Good
<1>2. CASE CreateCue(c) \/ TakeSignal(c)
  BY <1>2 DEF CreateCue, TakeSignal, IInv
<1>3. CASE SignalAtTime(c)
  <2>1. PICK d \in -MaxPast..MaxAhead :
          step' = PostAudioEvent(timer, c, After(timer.Time, d), [Idle EXCEPT !.call = "cue"])
    BY <1>3 DEF SignalAtTime
  <2>2. [Idle EXCEPT !.call = "cue"] \in StepType
    BY <1>1 DEF Idle, StepType, Calls
  <2>3. Fresh(timer, step')
    BY <1>1, <2>1, <2>2, Unposted, PostFresh
  <2>4. step.at = "idle" /\ dsp' = dsp /\ timer' = timer /\ audio' = audio /\ ins' = ins
    BY <1>3 DEF SignalAtTime, User
  <2> QED
    BY <2>3, <2>4, Unposted, Continues
<1>4. CASE AbortTimerCue(c) \/ DeleteCue(c)
  <2>1. /\ step.at = "idle" /\ dsp' = dsp /\ audio' = audio
        /\ ScheduleNext(UnpostAudioEvent(timer, c))
        /\ ins' = ins \/ ins' = Unmonitored(ins, c)
    BY <1>4 DEF AbortTimerCue, DeleteCue, User
  <2>2. ins' \in InsType
    BY <2>1, Unposted, UnmonitoredType
  <2> QED
    BY <1>1, <2>1, <2>2, Unposted, Reschedules
<1> QED
  BY <1>2, <1>3, <1>4

\* What programs do with an instrument and its envelopes.
LEMMA InstrumentGood ==
  ASSUME IInv,
         \/ StartInstrument \/ ReleaseInstrument \/ StopInstrument
         \/ \E e \in Env : \/ AttachEnvelope(e) \/ StartAttachment(e) \/ ReleaseAttachment(e)
                           \/ StopAttachment(e) \/ DetachEnvelope(e)
                           \/ \E c \in Cue \cup {NoEvent} : MonitorAttachment(e, c)
  PROVE  IInv'
<1>1. /\ timer \in TimerType /\ step \in StepType /\ ins \in InsType
      /\ Fewer(timer, timer) /\ ins.attached \in SUBSET Env
  BY Unposted DEF InsType
<1>2. {"start", "restart", "stop", "detach", "releaseall", "release"} \subseteq Calls
  BY DEF Calls
<1>3. CASE StartInstrument
  <2>1. step.at = "idle" /\ dsp' = dsp /\ timer' = timer /\ audio' = audio
    BY <1>3 DEF StartInstrument, User
  <2>2. ins' \in InsType /\ Fresh(timer, step')
    BY <1>1, <1>2, <1>3, StartsFresh, HaltsFresh DEF StartInstrument
  <2> QED
    BY <1>1, <2>1, <2>2, Continues
<1>4. CASE ReleaseInstrument \/ StopInstrument
  <2>1. step.at = "idle" /\ dsp' = dsp /\ timer' = timer /\ audio' = audio
    BY <1>4 DEF ReleaseInstrument, StopInstrument, User
  <2>2. ins' \in InsType /\ Fresh(timer, step')
    BY <1>1, <1>2, <1>4, DoesFresh, HaltsFresh DEF ReleaseInstrument, StopInstrument
  <2> QED
    BY <1>1, <2>1, <2>2, Continues
<1>5. ASSUME NEW e \in Env, StartAttachment(e) \/ ReleaseAttachment(e)
      PROVE  IInv'
  <2>1. step.at = "idle" /\ dsp' = dsp /\ timer' = timer /\ audio' = audio
    BY <1>5 DEF StartAttachment, ReleaseAttachment, User
  <2>2. Started(ins, {e}) \in InsType
    BY <1>1 DEF Started, InsType
  <2>3. ins' \in InsType /\ Fresh(timer, step')
    BY <1>1, <1>2, <1>5, <2>2, DoesFresh DEF StartAttachment, ReleaseAttachment
  <2> QED
    BY <1>1, <2>1, <2>3, Continues
<1>6. ASSUME NEW e \in Env, AttachEnvelope(e) \/ StopAttachment(e)
      PROVE  IInv'
  <2>1. /\ step.at = "idle" /\ step' = step /\ dsp' = dsp /\ audio' = audio
        /\ timer' = timer \/ timer' = UnpostAudioEvent(timer, e)
    BY <1>6 DEF AttachEnvelope, StopAttachment, User
  <2>2. ins' \in InsType
    BY <1>1, <1>6 DEF AttachEnvelope, StopAttachment, InsType
  <2>3. Fresh(timer', step') /\ e \in Event
    BY <1>1, <2>1 DEF Fresh, Event
  <2> QED
    BY <1>1, <2>1, <2>2, <2>3, Unposted, Continues
<1>7. ASSUME NEW e \in Env, DetachEnvelope(e)
      PROVE  IInv'
  <2>1. step.at = "idle" /\ dsp' = dsp /\ timer' = timer /\ audio' = audio /\ e \in Event
    BY <1>7 DEF DetachEnvelope, User, Event
  <2>2. Detached(ins, e) \in InsType
    BY <1>1 DEF Detached, InsType
  <2>3. Fresh(timer, step)
    BY <1>1, <2>1 DEF Fresh
  <2>4. ins' \in InsType /\ Fresh(timer, step')
    BY <1>1, <1>2, <1>7, <2>1, <2>2, <2>3, HaltsFresh DEF DetachEnvelope
  <2> QED
    BY <1>1, <2>1, <2>4, Continues
<1>8. ASSUME NEW e \in Env, NEW c \in Cue \cup {NoEvent}, MonitorAttachment(e, c)
      PROVE  IInv'
  <2>1. /\ step.at = "idle" /\ step' = step /\ dsp' = dsp /\ audio' = audio
        /\ timer' = timer /\ ins' = [ins EXCEPT !.CueItem[e] = c]
    BY <1>8 DEF MonitorAttachment, User
  <2>2. ins' \in InsType /\ Fresh(timer, step)
    BY <1>1, <2>1 DEF InsType, Fresh
  <2> QED
    BY <1>1, <2>1, <2>2, Continues
<1> QED
  BY <1>3, <1>4, <1>5, <1>6, <1>7, <1>8

\* An envelope is started, performed or released.
LEMMA SegmentGood ==
  ASSUME IInv, Segment
  PROVE  IInv'
<1>1. PICK e \in step.todo :
        LET s == [step EXCEPT !.todo = @ \ {e}]
        IN  IF s.call \in {"release", "releaseall"} THEN ReleaseEnv(e, s)
            ELSE NextEnvSegment(timer, ins, e, s)
  BY DEF Segment
<1> DEFINE s == [step EXCEPT !.todo = @ \ {e}]
           I == [ins EXCEPT !.Activity[e] = "released"]
           U == UnpostAudioEvent(timer, e)
<1>2. /\ timer \in TimerType /\ step \in StepType /\ ins \in InsType
      /\ Fewer(timer, timer)
  BY Unposted
<1>3. e \in Env /\ e \in Event
  BY <1>2 DEF StepType, Event
<1>4. s \in StepType
  BY <1>2 DEF StepType
<1>5. I \in InsType
  BY <1>2 DEF InsType
<1>6. U \in TimerType /\ Fewer(timer, U)
  BY <1>3, Unposted
<1>7. step.at = "segments" /\ dsp' = dsp /\ audio' = audio
  BY DEF Segment
<1> HIDE DEF s, I, U
<1>8. CASE NextEnvSegment(timer, ins, e, s)
  <2>1. timer' = timer /\ ins' \in InsType /\ Fresh(timer, step')
    BY <1>2, <1>3, <1>4, <1>8, EnvFresh
  <2> QED
    BY <1>2, <1>7, <2>1, Continues
<1>9. CASE NextEnvSegment(U, I, e, s)
  <2>1. timer' = U /\ ins' \in InsType /\ Fresh(U, step')
    BY <1>3, <1>4, <1>5, <1>6, <1>9, EnvFresh
  <2> QED
    BY <1>6, <1>7, <2>1, Continues
<1>10. CASE step' = Return(s) /\ timer' = timer /\ ins' \in {ins, I}
  <2>1. Fresh(timer, step')
    BY <1>4, <1>10, ReturnFresh
  <2> QED
    BY <1>2, <1>5, <1>7, <1>10, <2>1, Continues
<1> QED
  BY <1>1, <1>8, <1>9, <1>10 DEF ReleaseEnv, s, I, U

\* The loop of DSPPStopInstrument, and what comes after it.
LEMMA StopsGood ==
  ASSUME IInv, Stops
  PROVE  IInv'
<1>1. /\ timer \in TimerType /\ step \in StepType /\ ins \in InsType
      /\ Fewer(timer, timer)
  BY Unposted
<1>2. step.at = "stops" /\ dsp' = dsp /\ audio' = audio
  BY DEF Stops
<1>3. ASSUME NEW e \in step.todo, timer' = UnpostAudioEvent(timer, e),
             step' = [step EXCEPT !.todo = @ \ {e}], ins' = ins
      PROVE  IInv'
  <2>1. e \in Event
    BY <1>1 DEF StepType, Event
  <2>2. step' \in StepType /\ step'.at = "stops"
    BY <1>1, <1>2, <1>3 DEF StepType
  <2>3. Fresh(timer', step')
    BY <2>2 DEF Fresh
  <2> QED
    BY <1>1, <1>2, <1>3, <2>1, <2>3, Unposted, Continues
<1>4. CASE timer' = timer /\ Starts(ins)
  <2>1. ins' \in InsType /\ Fresh(timer, step')
    BY <1>1, <1>4, StartsFresh
  <2> QED
    BY <1>1, <1>2, <1>4, <2>1, Continues
<1>5. CASE timer' = timer /\ ins' = Detached(ins, step.event) /\ step' = Idle
  <2>1. ins' \in InsType
    BY <1>1, <1>5 DEF Detached, InsType
  <2> QED
    BY <1>1, <1>2, <1>5, <2>1, ReturnFresh, Continues
<1>6. CASE timer' = timer /\ (step' = Return(step) \/ step' = Idle) /\ ins' = ins
  BY <1>1, <1>2, <1>6, ReturnFresh, Continues
<1> QED
  BY <1>3, <1>4, <1>5, <1>6 DEF Stops

\* The folio's task: it wakes, performs what is due and schedules the rest.
LEMMA TaskGood ==
  ASSUME IInv, AudioWakes \/ Performs
  PROVE  IInv'
<1>1. /\ timer \in TimerType /\ step \in StepType /\ ins \in InsType
      /\ Fewer(timer, timer) /\ audio \in AudioType /\ timer.Time \in AudioTime
  BY Unposted DEF IInv, Good, TimerType
<1>2. CASE AudioWakes
  <2>1. /\ step.at = "idle" /\ dsp' = dsp /\ timer' = timer /\ ins' = ins
        /\ audio' = [signal |-> FALSE, runs |-> TRUE, time |-> timer.Time]
        /\ step' = [Idle EXCEPT !.at = "perform"]
    BY <1>2 DEF AudioWakes, User
  <2>2. audio' \in AudioType /\ audio'.runs
    BY <1>1, <2>1 DEF AudioType
  <2>3. step' \in StepType /\ step'.at = "perform"
    BY <1>1, <2>1, ReturnFresh DEF StepType, Idle
  <2>4. Fresh(timer, step')
    BY <2>3 DEF Fresh
  <2>5. Good(dsp, timer, audio', step', ins)
    BY <1>1, <2>1, <2>2, <2>4, KeepsGood DEF IInv
  <2> QED
    BY <2>1, <2>5 DEF IInv
<1>3. CASE Performs
  <2> DEFINE q == timer.TimerList
             e == Head(q)
  <2>1. step.at = "perform" /\ dsp' = dsp /\ ins' = ins /\ ins' \in InsType
    BY <1>1, <1>3 DEF Performs
  <2>2. CASE ScheduleNext(timer) /\ audio' = [audio EXCEPT !.runs = FALSE, !.time = 0]
    <3>1. audio' \in AudioType
      <4>1. 0 \in AudioTime
        BY Bounds DEF AudioTime
      <4> QED
        BY <1>1, <2>2, <4>1 DEF AudioType
    <3> QED
      BY <1>1, <2>1, <2>2, <3>1, Reschedules
  <2>3. CASE /\ q # <<>> /\ timer' = UnpostAudioEvent(timer, e) /\ audio' = audio
             /\ (e \in Cue /\ step' = step) \/ (e \notin Cue /\ step' = Does("event", {e}))
    <3>1. e \in Event
      BY <1>1, <2>3, HeadTailProperties DEF TimerType
    <3>2. Fresh(timer', step')
      <4>1. CASE e \in Cue
        BY <1>1, <2>1, <2>3, <4>1 DEF Fresh
      <4>2. CASE e \notin Cue
        <5>1. {e} \in SUBSET Env /\ "event" \in Calls
          BY <3>1, <4>2 DEF Event, Calls
        <5> QED
          BY <2>3, <4>2, <5>1, DoesFresh
      <4> QED
        BY <4>1, <4>2
    <3> QED
      BY <1>1, <2>1, <2>3, <3>1, <3>2, Unposted, Continues
  <2> QED
    BY <1>3, <2>2, <2>3 DEF Performs
<1> QED
  BY <1>2, <1>3

-----------------------------------------------------------------------------
(* Theorems *)

\* At the start nothing is posted.
LEMMA InitGood == Init => IInv
<1> SUFFICES ASSUME Init  PROVE  IInv
  OBVIOUS
<1>1. 0 \in AudioTime /\ 0 \in 0..(TickMod - 1)
  BY Bounds DEF AudioTime
<1>2. /\ dsp \in DspType /\ audio \in AudioType /\ step \in StepType /\ ins \in InsType
  <2>1. dsp \in DspType /\ audio \in AudioType
    BY <1>1 DEF Init, DspType, AudioType
  <2>2. step \in StepType
    BY IdleType DEF Init
  <2>3. ins \in InsType
    BY DEF Init, InsType
  <2> QED
    BY <2>1, <2>2, <2>3
<1>3. /\ timer \in TimerType /\ timer.TimerList = <<>> /\ timer.TimerPending = FALSE
  BY <1>1 DEF Init, TimerType
<1>4. Posted(timer) = {} /\ DOMAIN timer.TimerList = {}
  BY <1>3, PostedIs
<1>5. Listed(timer)
  BY <1>3, <1>4 DEF Listed, IsInjective
<1>6. Elapsed(dsp, timer) = 0 /\ After(timer.Time, 0) = dsp.ticks
  BY Bounds DEF Init, Elapsed, Wrap, After
<1>7. Clock(dsp, timer)
  BY <1>4, <1>6, Bounds DEF Clock
<1>8. step.at = "idle"
  BY DEF Init, Idle
<1> QED
  BY <1>2, <1>3, <1>4, <1>5, <1>7, <1>8 DEF IInv, Good, Posting, Arming, Waits

\* Every step keeps it.
LEMMA NextGood == IInv /\ [Next]_audioVars => IInv'
<1> SUFFICES ASSUME IInv, [Next]_audioVars  PROVE  IInv'
  OBVIOUS
<1>1. CASE Program
  BY <1>1, CueGood, InstrumentGood DEF Program
<1>2. CASE Supervisor
  BY <1>2, PostGood, ArmsGood, SegmentGood, StopsGood, TaskGood DEF Supervisor
<1>3. CASE AudioWakes
  BY <1>3, TaskGood
<1>4. CASE Tick
  BY <1>4, TickGood
<1>5. CASE AudioTimerIntHandler
  BY <1>5, InterruptGood
<1>6. CASE UNCHANGED audioVars
  BY <1>6 DEF audioVars, IInv
<1> QED
  BY <1>1, <1>2, <1>3, <1>4, <1>5, <1>6 DEF Next

\* The state is always good.
LEMMA AlwaysGood == Spec => []IInv
  BY InitGood, NextGood, PTL DEF Spec

\* The clock of the folio does not lose a tick of the DSP, however late its
\* interrupts are, below the width of the counter.
THEOREM ClockHolds == Spec => []ClockKeeps
<1>1. IInv => ClockKeeps
  BY DEF IInv, Good, Clock, ClockKeeps, TicksElapsed, Elapsed
<1> QED
  BY <1>1, AlwaysGood, PTL

\* No event is forgotten, wherever the interrupt comes in between the steps that
\* post, remove and perform events.
THEOREM ArmedHolds == Spec => []Armed
<1>1. IInv => Armed
  BY DEF IInv, Good, Waits, Armed
<1> QED
  BY <1>1, AlwaysGood, PTL

-----------------------------------------------------------------------------
(* Cues are not signalled too early. *)

\* The steps of the folio's task.
InTask(s) == s.at = "perform" \/ s.call = "event"

\* The task runs with a time that has come, and soon enough.
Woken(D, T, A, s) ==
  /\ A.runs => /\ Ahead(T, A.time) >= Elapsed(D, T) - MaxLate
               /\ Ahead(T, A.time) <= 0
  /\ InTask(s) => A.runs

\* A cue that is posted, or is being posted, has no signal pending.
Signalled(T, s, C) ==
  \A c \in Cue : c \in C.signal => c \notin Posted(T) /\ ~(s.at = "post" /\ s.event = c)

\* Nor does it monitor an attachment.
Apart(T, s, I) ==
  \A c \in Monitoring(I) : c \notin Posted(T) /\ ~(s.at = "post" /\ s.event = c)

\* An instrument is stopped by a program or for an envelope.
Stopped(s) == s.at = "stops" => s.event \in Env \/ s.call \in {"restart", "stop"}

SInv ==
  /\ IInv
  /\ Woken(dsp, timer, audio, step)
  /\ Signalled(timer, step, cue)
  /\ Apart(timer, step, ins)
  /\ Stopped(step)
  /\ cue \in [made : SUBSET Cue, signal : SUBSET Cue]

\* Step n may follow s without a new cue.
Quiet(n, s) ==
  /\ InTask(n) => InTask(s)
  /\ n.at = "post" => n.event \notin Cue
  /\ Stopped(n) \/ (n.at = s.at /\ n.event = s.event /\ n.call = s.call)

\* An instrument J whose attachments are not monitored by other cues.
Watched(I, J) == \A e \in Env : J.CueItem[e] \in {I.CueItem[e], NoEvent}

\* No event is both a cue and an envelope.
LEMMA EnvNotCue == ASSUME NEW e \in Env PROVE e \notin Cue /\ e \in Event
  BY AudioAssumption DEF Event

\* Its attachments have no other cues.
LEMMA WatchedLess ==
  ASSUME NEW I, NEW J, Watched(I, J)
  PROVE  Monitoring(J) \subseteq Monitoring(I)
BY AudioAssumption DEF Watched, Monitoring, Event

\* What starts, stops and releases an instrument leaves its cues alone.
LEMMA WatchedSame ==
  ASSUME NEW I \in InsType
  PROVE  /\ Watched(I, I) /\ Watched(I, Halted(I))
         /\ \A es \in SUBSET Env : Watched(I, Started(I, es))
         /\ \A e \in Env : \A a \in {"stopped", "released"} :
              Watched(I, [I EXCEPT !.Activity[e] = a])
         /\ \A e : Watched(I, Detached(I, e))
<1>1. Watched(I, I) /\ Watched(I, Halted(I))
  BY DEF Watched, Halted, InsType
<1>2. ASSUME NEW es \in SUBSET Env
      PROVE  Watched(I, Started(I, es))
  BY DEF Watched, Started, InsType
<1>3. ASSUME NEW e \in Env, NEW a
      PROVE  Watched(I, [I EXCEPT !.Activity[e] = a])
  BY DEF Watched, InsType
<1>4. ASSUME NEW e
      PROVE  Watched(I, Detached(I, e))
  BY DEF Watched, Detached, InsType
<1> QED
  BY <1>1, <1>2, <1>3, <1>4

\* The end of an attachment signals the cue that monitors it, if there is one.
LEMMA MonitorLemma ==
  ASSUME cue \in [made : SUBSET Cue, signal : SUBSET Cue],
         NEW I, NEW e \in Env, SignalMonitoringCue(I, e)
  PROVE  /\ cue' \in [made : SUBSET Cue, signal : SUBSET Cue] /\ cue'.made = cue.made
         /\ cue'.signal \subseteq cue.signal \cup Monitoring(I)
<1>1. I.CueItem[e] \in Cue => I.CueItem[e] \in Monitoring(I)
  BY DEF Monitoring
<1>2. /\ cue' \in [made : SUBSET Cue, signal : SUBSET Cue] /\ cue'.made = cue.made
      /\ cue'.signal = cue.signal \cup ({I.CueItem[e]} \cap cue.made)
  BY DEF SignalMonitoringCue
<1> QED
  BY <1>1, <1>2

\* Going on posts no cue.
LEMMA QuietReturn ==
  ASSUME NEW s \in StepType
  PROVE  Quiet(Return(s), s) /\ Quiet(Idle, s)
<1>1. Idle \in StepType /\ ~InTask(Idle) /\ Idle.at = "idle"
  BY IdleType DEF Idle, InTask
<1>2. CASE s.todo # {}
  <2>1. Return(s) = [Idle EXCEPT !.at = "segments", !.call = s.call, !.todo = s.todo]
    BY <1>2 DEF Return
  <2>2. Return(s).at = "segments" /\ Return(s).call = s.call
    BY <1>1, <2>1 DEF StepType
  <2> QED
    BY <1>1, <2>2 DEF Quiet, Stopped, InTask
<1>3. CASE s.todo = {} /\ s.call = "event"
  BY <1>1, <1>3 DEF Return, Quiet, Stopped, InTask, StepType
<1>4. CASE s.todo = {} /\ s.call # "event"
  BY <1>1, <1>4 DEF Return, Quiet, Stopped, InTask, StepType
<1> QED
  BY <1>2, <1>3, <1>4

\* An envelope posts no cue.
LEMMA QuietEnv ==
  ASSUME NEW T, NEW I, NEW e \in Env, NEW s \in StepType,
         NextEnvSegment(T, I, e, s)
  PROVE  Quiet(step', s)
<1>1. e \notin Cue /\ Quiet(Return(s), s)
  BY EnvNotCue, QuietReturn
<1>2. ASSUME NEW t, step' = PostAudioEvent(T, e, t, s)
      PROVE  Quiet(step', s)
  <2>1. CASE e \in Posted(T)
    BY <1>1, <1>2, <2>1 DEF PostAudioEvent
  <2>2. CASE e \notin Posted(T)
    <3>1. step' = [s EXCEPT !.at = "post", !.event = e, !.when = t, !.saw = T.TimerPending]
      BY <1>2, <2>2 DEF PostAudioEvent
    <3>2. step'.at = "post" /\ step'.event = e /\ step'.call = s.call
      BY <3>1 DEF StepType
    <3> QED
      BY <1>1, <3>2 DEF Quiet, Stopped, InTask
  <2> QED
    BY <2>1, <2>2
<1>3. CASE step' = Return(s)
  BY <1>1, <1>3
<1>4. CASE step' = Halts(I, s.call, e)
  <2>1. step'.at = "stops" /\ step'.call = s.call /\ step'.event = e
    BY <1>4, IdleType DEF Halts, StepType
  <2> QED
    BY <2>1 DEF Quiet, Stopped, InTask
<1> QED
  BY <1>2, <1>3, <1>4 DEF NextEnvSegment

\* What posts no cue, signals none but those that monitor an attachment and
\* leaves the clock alone.
LEMMA QuietKeeps ==
  ASSUME SInv, IInv', dsp' = dsp, audio' = audio,
         timer'.Time = timer.Time, timer'.LastTickCount = timer.LastTickCount,
         Posted(timer') \subseteq Posted(timer),
         Quiet(step', step),
         Watched(ins, ins'),
         cue' \in [made : SUBSET Cue, signal : SUBSET Cue],
         cue'.signal \subseteq cue.signal \cup Monitoring(ins)
  PROVE  SInv'
<1>1. Elapsed(dsp, timer') = Elapsed(dsp, timer)
      /\ \A t : Ahead(timer', t) = Ahead(timer, t)
  BY DEF Elapsed, Ahead
<1>2. Woken(dsp, timer', audio, step')
  BY <1>1 DEF SInv, Woken, Quiet
<1>3. \A c \in Cue : ~(step'.at = "post" /\ step'.event = c)
  BY DEF Quiet
<1>4. Signalled(timer', step', cue')
  BY <1>3, Zenon DEF SInv, Signalled, Apart
<1>5. Monitoring(ins') \subseteq Monitoring(ins) /\ Monitoring(ins') \subseteq Cue
  BY WatchedLess DEF Monitoring
<1>6. Apart(timer', step', ins')
  BY <1>3, <1>5, Zenon DEF SInv, Apart
<1>7. Stopped(step')
  BY DEF SInv, Quiet, Stopped
<1> QED
  BY <1>2, <1>4, <1>6, <1>7 DEF SInv

\* The same, of an action that removes events or none.
LEMMA FewerKeeps ==
  ASSUME SInv, IInv', dsp' = dsp, audio' = audio, Fewer(timer, timer'),
         Quiet(step', step), Watched(ins, ins'),
         \/ cue' = cue
         \/ /\ cue' \in [made : SUBSET Cue, signal : SUBSET Cue]
            /\ cue'.signal \subseteq cue.signal \cup Monitoring(ins)
  PROVE  SInv'
<1>1. /\ cue' \in [made : SUBSET Cue, signal : SUBSET Cue]
      /\ cue'.signal \subseteq cue.signal \cup Monitoring(ins)
  BY DEF SInv
<1> QED
  BY <1>1, QuietKeeps DEF Fewer

\* Scheduling the next signal changes neither the time nor the list.
LEMMA ScheduleKeeps ==
  ASSUME NEW U \in TimerType, ScheduleNext(U)
  PROVE  /\ timer'.Time = U.Time /\ timer'.LastTickCount = U.LastTickCount
         /\ Posted(timer') = Posted(U)
         /\ ~InTask(step') /\ step'.at \notin {"post", "stops"}
<1>1. CASE U.TimerList = <<>>
  BY <1>1 DEF ScheduleNext, Idle, InTask
<1>2. CASE U.TimerList # <<>>
  <2>1. /\ timer' = [U EXCEPT !.NextTime = U.TriggerAt[Head(U.TimerList)]]
        /\ step' = [Idle EXCEPT !.at = "arm"]
    BY <1>2 DEF ScheduleNext
  <2>2. step'.at = "arm" /\ step'.call = "none"
    BY <2>1 DEF Idle
  <2>3. /\ timer'.Time = U.Time /\ timer'.LastTickCount = U.LastTickCount
        /\ timer'.TimerList = U.TimerList
    BY <2>1 DEF TimerType
  <2> QED
    BY <2>2, <2>3 DEF InTask, Posted
<1> QED
  BY <1>1, <1>2

\* What programs do with cues.
LEMMA CueSleeps ==
  ASSUME SInv, IInv', TakesSignals, OneUse, NEW c \in Cue,
         CreateCue(c) \/ SignalAtTime(c) \/ AbortTimerCue(c) \/ DeleteCue(c) \/ TakeSignal(c)
  PROVE  SInv'
<1>1. /\ IInv /\ c \in Event /\ step \in StepType /\ timer \in TimerType
      /\ Fewer(timer, timer) /\ ins \in InsType /\ Watched(ins, ins)
      /\ cue \in [made : SUBSET Cue, signal : SUBSET Cue]
  BY Unposted, WatchedSame DEF SInv, Event
<1>2. CASE CreateCue(c) \/ TakeSignal(c)
  <2>1. /\ dsp' = dsp /\ audio' = audio /\ timer' = timer /\ step' = step /\ ins' = ins
        /\ step.at = "idle"
    BY <1>2 DEF CreateCue, TakeSignal, User
  <2>2. /\ cue' \in [made : SUBSET Cue, signal : SUBSET Cue]
        /\ cue'.signal \subseteq cue.signal
    BY <1>1, <1>2 DEF CreateCue, TakeSignal
  <2>3. Quiet(step', step)
    BY <2>1 DEF Quiet
  <2> QED
    BY <1>1, <2>1, <2>2, <2>3, QuietKeeps
<1>3. CASE SignalAtTime(c)
  <2> DEFINE s == [Idle EXCEPT !.call = "cue"]
  <2>1. /\ dsp' = dsp /\ audio' = audio /\ timer' = timer /\ cue' = cue
        /\ c \notin cue.signal /\ c \notin Monitoring(ins) /\ ins' = ins
        /\ \E d : step' = PostAudioEvent(timer, c, After(timer.Time, d), s)
    BY <1>3 DEF SignalAtTime
  <2>2. s \in StepType /\ s.call = "cue" /\ s.at = "idle"
    BY IdleType DEF Idle, StepType, Calls
  <2>3. ~InTask(step') /\ (step'.at = "post" => step'.event = c) /\ step'.at # "stops"
    <3>1. PICK d : step' = PostAudioEvent(timer, c, After(timer.Time, d), s)
      BY <2>1
    <3>2. CASE step' = Return(s)
      BY <2>2, <3>2 DEF InTask, Return, Idle
    <3>3. CASE step' = [s EXCEPT !.at = "post", !.event = c,
                                 !.when = After(timer.Time, d), !.saw = timer.TimerPending]
      <4> HIDE DEF s
      <4> QED
        BY <2>2, <3>3 DEF InTask, StepType
    <3> QED
      BY <3>1, <3>2, <3>3 DEF PostAudioEvent
  <2>4. Woken(dsp, timer, audio, step')
    BY <2>3 DEF SInv, Woken
  <2>5. Signalled(timer, step', cue)
    BY <2>1, <2>3 DEF SInv, Signalled
  <2>6. Apart(timer, step', ins)
    BY <2>1, <2>3 DEF SInv, Apart
  <2>7. Stopped(step')
    BY <2>3 DEF Stopped
  <2> QED
    BY <2>1, <2>4, <2>5, <2>6, <2>7 DEF SInv
<1>4. CASE AbortTimerCue(c) \/ DeleteCue(c)
  <2> DEFINE U == UnpostAudioEvent(timer, c)
  <2>1. /\ dsp' = dsp /\ audio' = audio /\ ScheduleNext(U)
    BY <1>4 DEF AbortTimerCue, DeleteCue
  <2>2. U \in TimerType /\ Fewer(timer, U)
    BY <1>1, Unposted
  <2>3. /\ cue' \in [made : SUBSET Cue, signal : SUBSET Cue]
        /\ cue'.signal \subseteq cue.signal
    BY <1>1, <1>4 DEF AbortTimerCue, DeleteCue
  <2> HIDE DEF U
  <2>4. Quiet(step', step) /\ timer'.Time = timer.Time
        /\ timer'.LastTickCount = timer.LastTickCount
        /\ Posted(timer') \subseteq Posted(timer)
    BY <2>1, <2>2, ScheduleKeeps DEF Fewer, Quiet, Stopped
  <2>5. ins' = ins \/ ins' = Unmonitored(ins, c)
    BY <1>4 DEF AbortTimerCue, DeleteCue
  <2>6. Watched(ins, ins')
    BY <1>1, <2>5, UnmonitoredType DEF Watched
  <2> QED
    BY <2>1, <2>3, <2>4, <2>6, QuietKeeps
<1> QED
  BY <1>2, <1>3, <1>4

\* Calls of programs are not steps of the folio's task.
LEMMA QuietCalls ==
  ASSUME NEW s \in StepType, NEW call \in Calls \ {"event"}, NEW es \in SUBSET Env,
         NEW I \in InsType, NEW e \in Event \cup {NoEvent}
  PROVE  /\ Quiet(Does(call, es), s)
         /\ e \in Env \/ call \in {"restart", "stop"} => Quiet(Halts(I, call, e), s)
<1> DEFINE n == [Idle EXCEPT !.call = call, !.todo = es]
<1>1. n \in StepType /\ n.at = "idle" /\ n.call = call
  BY IdleType DEF StepType, Idle
<1> HIDE DEF n
<1>2. ~InTask(n) /\ Quiet(Return(n), n)
  BY <1>1, QuietReturn DEF InTask
<1>3. Does(call, es) = Return(n)
  BY DEF Does, n
<1>4. /\ Halts(I, call, e).at = "stops" /\ Halts(I, call, e).call = call
      /\ Halts(I, call, e).event = e
  BY IdleType DEF Halts, StepType
<1> QED
  BY <1>1, <1>2, <1>3, <1>4 DEF Quiet, Stopped, InTask

\* Starting an instrument leaves its cues alone.
LEMMA StartsWatched ==
  ASSUME ins \in InsType, Starts(ins)
  PROVE  Watched(ins, ins')
<1> DEFINE J == Started(ins, AutoStart \cap ins.attached)
<1>1. J \in InsType /\ Watched(ins, J)
  BY WatchedSame DEF Started, InsType
<1>2. ins' = [J EXCEPT !.running = TRUE]
  BY DEF Starts
<1> HIDE DEF J
<1>3. ins'.CueItem = J.CueItem
  BY <1>1, <1>2 DEF InsType
<1> QED
  BY <1>1, <1>3 DEF Watched

\* What programs do with an instrument and its envelopes.
LEMMA InstrumentSleeps ==
  ASSUME SInv, IInv',
         \/ StartInstrument \/ ReleaseInstrument \/ StopInstrument
         \/ \E e \in Env : \/ AttachEnvelope(e) \/ StartAttachment(e) \/ ReleaseAttachment(e)
                           \/ StopAttachment(e) \/ DetachEnvelope(e)
  PROVE  SInv'
<1>1. /\ IInv /\ step \in StepType /\ ins \in InsType /\ ins.attached \in SUBSET Env
      /\ Fewer(timer, timer)
      /\ \A e \in Event : Fewer(timer, UnpostAudioEvent(timer, e))
      /\ Watched(ins, ins)
  BY Unposted, WatchedSame DEF SInv, InsType
<1>2. {"start", "restart", "stop", "detach", "releaseall", "release"} \subseteq Calls \ {"event"}
  BY DEF Calls
<1>3. \A e \in Env : e \in Event /\ {e} \in SUBSET Env
  BY DEF Event
<1>4. CASE StartInstrument \/ ReleaseInstrument \/ StopInstrument
  <2>1. dsp' = dsp /\ audio' = audio /\ cue' = cue /\ timer' = timer
    BY <1>4 DEF StartInstrument, ReleaseInstrument, StopInstrument
  <2>2. \/ step' = Does("start", AutoStart \cap ins.attached)
        \/ \E call \in {"restart", "stop"} : step' = Halts(ins, call, NoEvent)
        \/ step' = Does("releaseall", ins.attached)
    BY <1>4 DEF StartInstrument, ReleaseInstrument, StopInstrument, Starts
  <2>3. AutoStart \cap ins.attached \in SUBSET Env
    BY <1>1
  <2>4. Quiet(step', step)
    BY <1>1, <1>2, <2>2, <2>3, QuietCalls
  <2>5. Watched(ins, ins')
    <3>1. CASE Starts(ins)
      BY <1>1, <3>1, StartsWatched
    <3>2. CASE ins' = Halted(ins) \/ ins' = ins
      BY <1>1, <3>2, WatchedSame
    <3> QED
      BY <1>4, <3>1, <3>2 DEF StartInstrument, ReleaseInstrument, StopInstrument
  <2> QED
    BY <1>1, <2>1, <2>4, <2>5, FewerKeeps
<1>5. ASSUME NEW e \in Env,
             \/ AttachEnvelope(e) \/ StartAttachment(e) \/ ReleaseAttachment(e)
             \/ StopAttachment(e) \/ DetachEnvelope(e)
      PROVE  SInv'
  <2>1. /\ dsp' = dsp /\ audio' = audio /\ cue' = cue
        /\ timer' = timer \/ timer' = UnpostAudioEvent(timer, e)
    BY <1>5 DEF AttachEnvelope, StartAttachment, ReleaseAttachment, StopAttachment,
                DetachEnvelope
  <2>2. \/ step' = step /\ step.at = "idle"
        \/ \E call \in {"start", "release"} : step' = Does(call, {e})
        \/ step' = Halts(ins, "detach", e)
    BY <1>5 DEF AttachEnvelope, StartAttachment, ReleaseAttachment, StopAttachment,
                DetachEnvelope, User
  <2>3. Quiet(step', step)
    <3>1. CASE step' = step /\ step.at = "idle"
      BY <3>1 DEF Quiet
    <3>2. CASE \E call \in {"start", "release"} : step' = Does(call, {e})
      BY <1>1, <1>2, <1>3, <3>2, QuietCalls
    <3>3. CASE step' = Halts(ins, "detach", e)
      BY <1>1, <1>2, <1>3, <3>3, QuietCalls
    <3> QED
      BY <2>2, <3>1, <3>2, <3>3
  <2>4. Watched(ins, ins')
    <3>1. CASE AttachEnvelope(e)
      BY <1>1, <3>1 DEF AttachEnvelope, Watched, InsType
    <3>2. CASE StartAttachment(e) \/ ReleaseAttachment(e) \/ StopAttachment(e)
      BY <1>1, <1>3, <3>2, WatchedSame DEF StartAttachment, ReleaseAttachment, StopAttachment
    <3>3. CASE DetachEnvelope(e)
      BY <1>1, <3>3, WatchedSame DEF DetachEnvelope
    <3> QED
      BY <1>5, <3>1, <3>2, <3>3
  <2> QED
    BY <1>1, <1>3, <2>1, <2>3, <2>4, FewerKeeps
<1> QED
  BY <1>4, <1>5

\* An attachment is given a cue that is not posted.
LEMMA MonitorSleeps ==
  ASSUME SInv, IInv', OneUse, NEW e \in Env, NEW c \in Cue \cup {NoEvent},
         MonitorAttachment(e, c)
  PROVE  SInv'
<1>1. /\ ins \in InsType /\ step.at = "idle" /\ c \notin Posted(timer)
      /\ ins' = [ins EXCEPT !.CueItem[e] = c]
      /\ dsp' = dsp /\ timer' = timer /\ audio' = audio /\ step' = step /\ cue' = cue
  BY Unposted DEF SInv, MonitorAttachment, User
<1>2. \A f \in Env : ins'.CueItem[f] = ins.CueItem[f] \/ ins'.CueItem[f] = c
  BY <1>1 DEF InsType
<1>3. Monitoring(ins') \subseteq Monitoring(ins) \cup {c}
  BY <1>2 DEF Monitoring
<1>4. Apart(timer, step, ins')
  BY <1>1, <1>3 DEF SInv, Apart
<1> QED
  BY <1>1, <1>4 DEF SInv

\* Starting an instrument posts no cue.
LEMMA QuietStarts ==
  ASSUME NEW s \in StepType, NEW I \in InsType, Starts(I)
  PROVE  Quiet(step', s)
<1>1. AutoStart \cap I.attached \in SUBSET Env /\ "start" \in Calls \ {"event"}
  BY DEF InsType, Calls
<1>2. step' = Does("start", AutoStart \cap I.attached)
  BY DEF Starts
<1>3. NoEvent \in Event \cup {NoEvent}
  OBVIOUS
<1> QED
  BY <1>1, <1>2, <1>3, QuietCalls

\* An envelope is started, performed or released.
LEMMA SegmentSleeps ==
  ASSUME SInv, IInv', Segment
  PROVE  SInv'
<1>1. PICK e \in step.todo :
        LET s == [step EXCEPT !.todo = @ \ {e}]
        IN  IF s.call \in {"release", "releaseall"} THEN ReleaseEnv(e, s)
            ELSE NextEnvSegment(timer, ins, e, s)
  BY DEF Segment
<1> DEFINE s == [step EXCEPT !.todo = @ \ {e}]
           I == [ins EXCEPT !.Activity[e] = "released"]
           U == UnpostAudioEvent(timer, e)
<1>2. /\ IInv /\ step \in StepType /\ Fewer(timer, timer) /\ ins \in InsType
      /\ Watched(ins, ins)
  BY Unposted, WatchedSame DEF SInv
<1>3. e \in Env /\ e \in Event
  BY <1>2 DEF StepType, Event
<1>4. s \in StepType /\ s.call = step.call /\ s.at = step.at /\ s.event = step.event
  BY <1>2 DEF StepType
<1>5. Fewer(timer, U)
  BY <1>2, <1>3, Unposted
<1>6. dsp' = dsp /\ audio' = audio
  BY DEF Segment
<1>a. I \in InsType /\ Watched(ins, I)
  BY <1>2, <1>3, WatchedSame DEF InsType
<1> HIDE DEF s, I, U
<1>b. I.CueItem = ins.CueItem
  BY <1>2 DEF I, InsType
<1>c. Watched(ins, Halted(ins)) /\ Watched(ins, Halted(I))
  <2>1. Watched(ins, Halted(ins)) /\ Watched(I, Halted(I))
    BY <1>2, <1>a, WatchedSame
  <2> QED
    BY <1>b, <2>1 DEF Watched
<1>7. \/ NextEnvSegment(timer, ins, e, s) \/ NextEnvSegment(U, I, e, s)
      \/ step' = Return(s) /\ timer' = timer /\ ins' \in {ins, I} /\ cue' = cue
  BY <1>1 DEF ReleaseEnv, s, I, U
<1>d. /\ ins' \in {ins, I, Halted(ins), Halted(I)}
      /\ cue' = cue \/ SignalMonitoringCue(ins, e) \/ SignalMonitoringCue(I, e)
  BY <1>7 DEF NextEnvSegment
<1>e. /\ Watched(ins, ins')
      /\ \/ cue' = cue
         \/ /\ cue' \in [made : SUBSET Cue, signal : SUBSET Cue]
            /\ cue'.signal \subseteq cue.signal \cup Monitoring(ins)
  <2>1. Watched(ins, ins')
    BY <1>2, <1>a, <1>c, <1>d
  <2>2. Monitoring(I) \subseteq Monitoring(ins)
    BY <1>a, WatchedLess
  <2>3. cue \in [made : SUBSET Cue, signal : SUBSET Cue]
    BY DEF SInv
  <2>4. CASE SignalMonitoringCue(ins, e)
    BY <1>3, <2>1, <2>3, <2>4, MonitorLemma
  <2>5. CASE SignalMonitoringCue(I, e)
    <3>1. /\ cue' \in [made : SUBSET Cue, signal : SUBSET Cue]
          /\ cue'.signal \subseteq cue.signal \cup Monitoring(I)
      BY <1>3, <2>3, <2>5, MonitorLemma
    <3> QED
      BY <2>1, <2>2, <3>1
  <2> QED
    BY <1>d, <2>1, <2>4, <2>5
<1>8. Quiet(step', s) /\ timer' \in {timer, U}
  BY <1>3, <1>4, <1>7, QuietEnv, QuietReturn DEF NextEnvSegment
<1>9. Quiet(step', step)
  BY <1>4, <1>8 DEF Quiet, InTask
<1> QED
  BY <1>2, <1>5, <1>6, <1>8, <1>9, <1>e, FewerKeeps

\* The loop of DSPPStopInstrument, and what comes after it.
LEMMA StopsSleeps ==
  ASSUME SInv, IInv', Stops
  PROVE  SInv'
<1>1. /\ IInv /\ step \in StepType /\ ins \in InsType /\ Fewer(timer, timer)
      /\ step.at = "stops" /\ dsp' = dsp /\ audio' = audio
      /\ Watched(ins, ins) /\ Watched(ins, Detached(ins, step.event))
  BY Unposted, WatchedSame DEF SInv, Stops
<1>2. ASSUME NEW e \in step.todo, timer' = UnpostAudioEvent(timer, e),
             step' = [step EXCEPT !.todo = @ \ {e}], ins' = ins, cue' = cue
      PROVE  SInv'
  <2>1. e \in Event
    BY <1>1 DEF StepType, Event
  <2>2. step'.at = "stops" /\ step'.call = step.call /\ step'.event = step.event
    BY <1>1, <1>2 DEF StepType
  <2>3. Quiet(step', step)
    BY <1>1, <2>2 DEF Quiet, InTask
  <2> QED
    BY <1>1, <1>2, <2>1, <2>3, Unposted, FewerKeeps
<1>3. CASE timer' = timer /\ Starts(ins) /\ cue' = cue
  <2>1. Quiet(step', step) /\ Watched(ins, ins')
    BY <1>1, <1>3, QuietStarts, StartsWatched
  <2> QED
    BY <1>1, <1>3, <2>1, FewerKeeps
<1>4. CASE /\ timer' = timer /\ step' = Idle /\ cue' = cue
           /\ ins' = ins \/ ins' = Detached(ins, step.event)
  <2>1. Quiet(step', step) /\ Watched(ins, ins')
    BY <1>1, <1>4, QuietReturn
  <2> QED
    BY <1>1, <1>4, <2>1, FewerKeeps
<1>5. CASE /\ timer' = timer /\ step' = Return(step) /\ ins' = ins
           /\ SignalMonitoringCue(ins, step.event) /\ step.call \notin {"restart", "stop"}
  <2>1. Quiet(step', step) /\ Watched(ins, ins')
    BY <1>1, <1>5, QuietReturn
  <2>2. step.event \in Env
    BY <1>1, <1>5 DEF SInv, Stopped
  <2>3. /\ cue' \in [made : SUBSET Cue, signal : SUBSET Cue]
        /\ cue'.signal \subseteq cue.signal \cup Monitoring(ins)
    BY <1>5, <2>2, MonitorLemma DEF SInv
  <2>4. Fewer(timer, timer')
    BY <1>1, <1>5
  <2> QED
    BY <1>1, <2>1, <2>3, <2>4, FewerKeeps
<1> QED
  BY <1>2, <1>3, <1>4, <1>5 DEF Stops

\* A cue that is posted had no signal when it was asked for.
LEMMA PostSleeps ==
  ASSUME SInv, IInv', PostEnds
  PROVE  SInv'
<1>1. /\ step.at = "post" /\ step' = Return(step)
      /\ timer' = PostTimed(timer, step.event, step.when, step.saw)
      /\ dsp' = dsp /\ audio' = audio /\ cue' = cue /\ ins' = ins
  BY DEF PostEnds
<1>2. /\ timer \in TimerType /\ step \in StepType /\ step.event \in Event \ Posted(timer)
      /\ Listed(timer) /\ Fewer(timer, timer)
  BY <1>1, Unposted DEF SInv, IInv, Good, Posting
<1>3. timer'.Time = timer.Time /\ timer'.LastTickCount = timer.LastTickCount
  BY <1>1, <1>2 DEF PostTimed, TimerType
<1>4. Posted(timer') = Posted(timer) \cup {step.event}
  BY PostGood DEF SInv
<1>5. Quiet(step', step) /\ step'.at # "post"
  <2>1. Quiet(step', step)
    BY <1>1, <1>2, QuietReturn
  <2>2. step'.at # "post"
    BY <1>1, IdleType DEF Return, StepType, Idle
  <2> QED
    BY <2>1, <2>2
<1>6. Elapsed(dsp, timer') = Elapsed(dsp, timer)
      /\ \A t : Ahead(timer', t) = Ahead(timer, t)
  BY <1>3 DEF Elapsed, Ahead
<1>7. Woken(dsp, timer', audio, step')
  BY <1>5, <1>6 DEF SInv, Woken, Quiet
<1>8. Signalled(timer', step', cue)
  BY <1>1, <1>4, <1>5 DEF SInv, Signalled
<1>9. Apart(timer', step', ins)
  BY <1>1, <1>4, <1>5 DEF SInv, Apart
<1>10. Stopped(step')
  BY <1>1, <1>5 DEF Quiet, Stopped
<1> QED
  BY <1>1, <1>7, <1>8, <1>9, <1>10 DEF SInv

\* Setting af_TimerPending.
LEMMA ArmsSleeps ==
  ASSUME SInv, IInv', Arms
  PROVE  SInv'
<1>1. /\ timer \in TimerType /\ step \in StepType /\ Watched(ins, ins)
  BY Unposted, WatchedSame DEF SInv
<1>2. /\ dsp' = dsp /\ audio' = audio /\ cue' = cue /\ step' = Idle /\ ins' = ins
      /\ timer' = [timer EXCEPT !.TimerPending = TRUE]
  BY DEF Arms
<1>3. /\ timer'.Time = timer.Time /\ timer'.LastTickCount = timer.LastTickCount
      /\ timer'.TimerList = timer.TimerList
  BY <1>1, <1>2 DEF TimerType
<1>4. Posted(timer') \subseteq Posted(timer) /\ Quiet(step', step)
  BY <1>1, <1>2, <1>3, QuietReturn DEF Posted
<1> QED
  BY <1>1, <1>2, <1>3, <1>4, QuietKeeps DEF SInv

\* Every cue the task performs has come due, and is no longer posted.
LEMMA PerformedCue ==
  ASSUME SInv, Performs, NEW c \in Cue, c \in cue'.signal, c \notin cue.signal
  PROVE  /\ c \in Posted(timer) /\ ~LaterThan(timer.TriggerAt[c], dsp.ticks)
         /\ timer' = UnpostAudioEvent(timer, c) /\ step' = step /\ audio' = audio
         /\ cue' = [cue EXCEPT !.signal = @ \cup {c}]
<1> DEFINE q == timer.TimerList
           e == Head(q)
           t == timer.TriggerAt[e]
<1>1. /\ timer \in TimerType /\ Listed(timer) /\ Clock(dsp, timer)
      /\ audio \in AudioType /\ Woken(dsp, timer, audio, step)
  BY Unposted DEF SInv, IInv, Good
<1>2. /\ step.at = "perform" /\ q # <<>> /\ ~LaterThan(t, audio.time)
      /\ timer' = UnpostAudioEvent(timer, e) /\ audio' = audio
      /\ e \in Cue /\ cue' = [cue EXCEPT !.signal = @ \cup {e}] /\ step' = step
  BY DEF Performs
<1>3. e = c
  BY <1>2 DEF SInv
<1>4. e \in Posted(timer) /\ e \in Event
  BY <1>1, <1>2, PostedIs, EmptySeq, HeadTailProperties DEF TimerType
<1>5. audio.runs
  BY <1>1, <1>2 DEF Woken, InTask
<1> DEFINE n == Elapsed(dsp, timer)
<1>6. /\ t \in AudioTime /\ audio.time \in AudioTime /\ timer.Time \in AudioTime
      /\ n \in 0..MaxLost /\ After(timer.Time, n) = dsp.ticks
      /\ Near(timer, t) /\ Ahead(timer, t) >= n - MaxLate
      /\ Ahead(timer, audio.time) >= n - MaxLate /\ Ahead(timer, audio.time) <= 0
  BY <1>1, <1>4, <1>5 DEF TimerType, AudioType, Listed, Clock, Woken
<1> HIDE DEF t, n
<1>7. Ahead(timer, t) \in Int /\ Ahead(timer, audio.time) \in Int
  BY <1>6, CompareLemma, Bounds DEF Ahead
<1>8. Near(timer, audio.time)
  BY <1>6, <1>7, Bounds DEF Near
<1>9. Ahead(timer, t) <= Ahead(timer, audio.time)
  BY <1>2, <1>6, <1>7, <1>8, NearLater DEF t
<1>10. CompareAudioTimes(t, timer.Time) - n >= -Half
  BY <1>6, <1>7, Bounds DEF Ahead
<1>11. CompareAudioTimes(t, dsp.ticks) = Ahead(timer, t) - n
  BY <1>6, <1>10, AdvanceLemma DEF Ahead
<1>12. ~LaterThan(t, dsp.ticks)
  BY <1>6, <1>7, <1>9, <1>11 DEF LaterThan
<1> QED
  BY <1>2, <1>3, <1>4, <1>12 DEF t

\* The folio's task: it wakes, performs what is due and schedules the rest.
LEMMA TaskSleeps ==
  ASSUME SInv, IInv', AudioWakes \/ Performs
  PROVE  SInv'
<1>1. /\ IInv /\ timer \in TimerType /\ step \in StepType /\ Fewer(timer, timer)
      /\ Listed(timer) /\ timer.Time \in AudioTime /\ Clock(dsp, timer)
      /\ audio \in AudioType /\ ins' = ins /\ Watched(ins, ins)
      /\ cue \in [made : SUBSET Cue, signal : SUBSET Cue]
  BY Unposted, WatchedSame DEF SInv, IInv, Good, TimerType, AudioWakes, Performs
<1>2. CASE AudioWakes
  <2>1. /\ dsp' = dsp /\ timer' = timer /\ cue' = cue
        /\ audio' = [signal |-> FALSE, runs |-> TRUE, time |-> timer.Time]
        /\ step' = [Idle EXCEPT !.at = "perform"]
    BY <1>2 DEF AudioWakes
  <2>2. step'.at = "perform"
    BY <2>1, IdleType DEF StepType
  <2>3. Ahead(timer, timer.Time) = 0
    BY <1>1, Bounds DEF Ahead, CompareAudioTimes, Wrap, AudioTime
  <2>4. Woken(dsp, timer, audio', step')
    BY <1>1, <2>1, <2>3, Bounds DEF Woken, Clock
  <2>5. Signalled(timer, step', cue)
    BY <2>2 DEF SInv, Signalled
  <2>6. Apart(timer, step', ins) /\ Stopped(step')
    BY <2>2 DEF SInv, Apart, Stopped
  <2> QED
    BY <1>1, <2>1, <2>4, <2>5, <2>6 DEF SInv
<1>3. CASE Performs
  <2> DEFINE q == timer.TimerList
             e == Head(q)
  <2>1. step.at = "perform" /\ dsp' = dsp
    BY <1>3 DEF Performs
  <2>2. CASE /\ ScheduleNext(timer) /\ cue' = cue
             /\ audio' = [audio EXCEPT !.runs = FALSE, !.time = 0]
    <3>1. Woken(dsp, timer', audio', step')
      BY <1>1, <2>2, ScheduleKeeps DEF Woken, AudioType
    <3>2. Signalled(timer', step', cue)
      BY <1>1, <2>2, ScheduleKeeps DEF SInv, Signalled
    <3>3. Apart(timer', step', ins) /\ Stopped(step')
      BY <1>1, <2>2, ScheduleKeeps DEF SInv, Apart, Stopped
    <3> QED
      BY <1>1, <2>1, <2>2, <3>1, <3>2, <3>3 DEF SInv
  <2>3. CASE /\ q # <<>> /\ timer' = UnpostAudioEvent(timer, e) /\ audio' = audio
             /\ e \in Cue /\ step' = step /\ cue' = [cue EXCEPT !.signal = @ \cup {e}]
    <3>1. e \in Event
      BY <2>3 DEF Event
    <3>2. Fewer(timer, timer') /\ e \notin Posted(timer')
      BY <1>1, <2>3, <3>1, RemoveOK
    <3>3. /\ timer'.Time = timer.Time /\ timer'.LastTickCount = timer.LastTickCount
          /\ Posted(timer') \subseteq Posted(timer)
      BY <3>2 DEF Fewer
    <3>4. Elapsed(dsp, timer') = Elapsed(dsp, timer)
          /\ \A t : Ahead(timer', t) = Ahead(timer, t)
      BY <3>3 DEF Elapsed, Ahead
    <3>5. Woken(dsp, timer', audio, step)
      BY <3>4 DEF SInv, Woken
    <3>6. /\ cue' \in [made : SUBSET Cue, signal : SUBSET Cue]
          /\ cue'.signal = cue.signal \cup {e}
      BY <1>1, <2>3
    <3>7. Signalled(timer', step, cue')
      BY <2>1, <3>2, <3>3, <3>6 DEF SInv, Signalled
    <3>8. Apart(timer', step, ins) /\ Stopped(step)
      BY <3>3 DEF SInv, Apart
    <3> QED
      BY <1>1, <2>1, <2>3, <3>5, <3>6, <3>7, <3>8 DEF SInv
  <2>4. CASE /\ q # <<>> /\ timer' = UnpostAudioEvent(timer, e) /\ audio' = audio
             /\ e \notin Cue /\ step' = Does("event", {e}) /\ cue' = cue
    <3>1. e \in Env /\ e \in Event
      BY <1>1, <2>4, HeadTailProperties DEF TimerType, Event
    <3>2. Fewer(timer, timer')
      BY <1>1, <2>4, <3>1, RemoveOK
    <3>3. Quiet(step', step)
      <4> DEFINE n == [Idle EXCEPT !.call = "event", !.todo = {e}]
      <4>1. n \in StepType /\ n.at = "idle"
        BY <3>1, IdleType DEF StepType, Calls, Idle
      <4>2. Quiet(Return(n), n) /\ step' = Return(n)
        BY <2>4, <4>1, QuietReturn DEF Does
      <4> HIDE DEF n
      <4> QED
        BY <2>1, <4>1, <4>2 DEF Quiet, Stopped, InTask
    <3> QED
      BY <1>1, <2>1, <2>4, <3>2, <3>3, FewerKeeps
  <2> QED
    BY <1>3, <2>2, <2>3, <2>4 DEF Performs
<1> QED
  BY <1>2, <1>3

\* The time of the folio's task does not grow too old for the ticks.
LEMMA TickSleeps ==
  ASSUME SInv, IInv', Tick
  PROVE  SInv'
<1> DEFINE n == Elapsed(dsp, timer)
<1>1. /\ timer \in TimerType /\ timer.Time \in AudioTime /\ Clock(dsp, timer)
      /\ audio \in AudioType /\ Woken(dsp, timer, audio, step)
      /\ timer.LastTickCount \in 0..(TickMod - 1)
      /\ dsp.counter \in 0..(TickMod - 1) /\ dsp.ticks \in AudioTime
  BY Unposted DEF SInv, IInv, Good, TimerType, DspType
<1>2. /\ dsp' = [counter |-> Wrap(dsp.counter + 1, TickMod), ticks |-> After(dsp.ticks, 1)]
      /\ timer' = timer /\ audio' = audio /\ step' = step /\ cue' = cue /\ InTime
      /\ ins' = ins
  BY DEF Tick
<1>3. n \in 0..MaxLost /\ n < MaxLost /\ After(timer.Time, n) = dsp.ticks
  BY <1>1, <1>2 DEF Clock, InTime, TicksElapsed, Elapsed
<1>4. Elapsed(dsp', timer) = n + 1
  BY <1>1, <1>2, <1>3, Bounds DEF Elapsed, Wrap
<1> HIDE DEF n
<1>5. ASSUME audio.runs
      PROVE  Ahead(timer, audio.time) >= n + 1 - MaxLate
  <2>1. /\ audio.time \in AudioTime /\ audio.time \in Awaited
        /\ Ahead(timer, audio.time) >= n - MaxLate /\ Ahead(timer, audio.time) <= 0
    BY <1>1, <1>5 DEF AudioType, Awaited, Woken, n
  <2>2. CompareAudioTimes(dsp.ticks, audio.time) \in Int
    BY <1>1, <2>1, CompareLemma, Bounds
  <2>3. \/ CompareAudioTimes(dsp.ticks, audio.time) < MaxLate
        \/ CompareAudioTimes(dsp.ticks, audio.time) < MaxLate - 1
    BY <1>2, <2>1 DEF InTime
  <2>4. CompareAudioTimes(After(timer.Time, n), audio.time) < MaxLate
    BY <1>3, <2>2, <2>3, Bounds
  <2>5. /\ CompareAudioTimes(audio.time, timer.Time) >= n - MaxLate
        /\ CompareAudioTimes(audio.time, timer.Time) <= MaxAhead
    <3>1. CompareAudioTimes(audio.time, timer.Time) \in Int
      BY <1>1, <2>1, CompareLemma, Bounds
    <3> QED
      BY <2>1, <3>1, Bounds DEF Ahead
  <2> QED
    BY <1>1, <1>3, <2>1, <2>4, <2>5, TickNear DEF Ahead
<1>6. Woken(dsp', timer, audio, step)
  BY <1>1, <1>3, <1>4, <1>5, Bounds DEF Woken
<1> QED
  BY <1>2, <1>6 DEF SInv

\* Nor does an interrupt make it a time to come.
LEMMA InterruptSleeps ==
  ASSUME SInv, IInv', AudioTimerIntHandler
  PROVE  SInv'
<1> DEFINE n == Elapsed(dsp, timer)
           now == After(timer.Time, n)
<1>1. /\ timer \in TimerType /\ timer.Time \in AudioTime /\ Clock(dsp, timer)
      /\ audio \in AudioType /\ Woken(dsp, timer, audio, step)
      /\ dsp.counter \in 0..(TickMod - 1) /\ dsp.ticks \in AudioTime
  BY Unposted DEF SInv, IInv, Good, TimerType, DspType
<1>2. /\ timer'.Time = now /\ timer'.LastTickCount = dsp.counter
      /\ timer'.TimerList = timer.TimerList
      /\ audio'.runs = audio.runs /\ audio'.time = audio.time
      /\ dsp' = dsp /\ step' = step /\ cue' = cue /\ ins' = ins
  BY <1>1 DEF AudioTimerIntHandler, TicksElapsed, Elapsed, TimerType, AudioType
<1>3. n \in 0..MaxLost /\ now = dsp.ticks
  BY <1>1 DEF Clock
<1>4. Elapsed(dsp, timer') = 0
  BY <1>1, <1>2, Bounds DEF Elapsed, Wrap
<1> HIDE DEF n, now
<1>5. ASSUME audio.runs
      PROVE  Ahead(timer', audio.time) >= 0 - MaxLate /\ Ahead(timer', audio.time) <= 0
  <2>1. /\ audio.time \in AudioTime
        /\ Ahead(timer, audio.time) >= n - MaxLate /\ Ahead(timer, audio.time) <= 0
    BY <1>1, <1>5 DEF AudioType, Woken, n
  <2>2. CompareAudioTimes(audio.time, timer.Time) \in Int
    BY <1>1, <2>1, CompareLemma, Bounds
  <2>3. CompareAudioTimes(audio.time, timer.Time) - n >= -Half
    BY <1>3, <2>1, <2>2, Bounds DEF Ahead
  <2>4. CompareAudioTimes(audio.time, now) = CompareAudioTimes(audio.time, timer.Time) - n
    BY <1>1, <1>3, <2>1, <2>3, AdvanceLemma DEF now
  <2> QED
    BY <1>2, <1>3, <2>1, <2>2, <2>4, Bounds DEF Ahead
<1>6. Woken(dsp, timer', audio', step)
  BY <1>1, <1>2, <1>4, <1>5 DEF Woken
<1>7. Signalled(timer', step, cue) /\ Apart(timer', step, ins)
  BY <1>2 DEF SInv, Signalled, Apart, Posted
<1> QED
  BY <1>2, <1>6, <1>7 DEF SInv

\* Every step keeps it, if programs take their signals before they post again
\* and post no cue that monitors an attachment.
LEMMA NextSleeps == TakesSignals /\ OneUse /\ SInv /\ [Next]_audioVars => SInv'
<1> SUFFICES ASSUME TakesSignals, OneUse, SInv, [Next]_audioVars  PROVE  SInv'
  OBVIOUS
<1>i. IInv'
  BY NextGood DEF SInv
<1>1. CASE Program
  BY <1>i, <1>1, CueSleeps, InstrumentSleeps, MonitorSleeps DEF Program
<1>2. CASE Supervisor
  BY <1>i, <1>2, PostSleeps, ArmsSleeps, SegmentSleeps, StopsSleeps, TaskSleeps DEF Supervisor
<1>3. CASE AudioWakes
  BY <1>i, <1>3, TaskSleeps
<1>4. CASE Tick
  BY <1>i, <1>4, TickSleeps
<1>5. CASE AudioTimerIntHandler
  BY <1>i, <1>5, InterruptSleeps
<1>6. CASE UNCHANGED audioVars
  BY <1>i, <1>6 DEF audioVars, SInv
<1> QED
  BY <1>1, <1>2, <1>3, <1>4, <1>5, <1>6 DEF Next

\* At the start no signal is pending and the task sleeps.
LEMMA InitSleeps == Init => SInv
<1> SUFFICES ASSUME Init  PROVE  SInv
  OBVIOUS
<1>1. IInv
  BY InitGood
<1>2. Woken(dsp, timer, audio, step)
  BY DEF Init, Woken, InTask, Idle
<1>3. Signalled(timer, step, cue) /\ cue \in [made : SUBSET Cue, signal : SUBSET Cue]
  BY DEF Init, Signalled
<1>4. Monitoring(ins) = {}
  BY AudioAssumption DEF Init, Monitoring, Event
<1>5. Apart(timer, step, ins) /\ Stopped(step)
  BY <1>4 DEF Init, Apart, Stopped, Idle
<1> QED
  BY <1>1, <1>2, <1>3, <1>5 DEF SInv

\* An envelope that signals a cue is monitored by it.
LEMMA EnvSignals ==
  ASSUME NEW T, NEW I, NEW e \in Env, NEW s, NextEnvSegment(T, I, e, s),
         cue \in [made : SUBSET Cue, signal : SUBSET Cue]
  PROVE  cue'.signal \subseteq cue.signal \cup Monitoring(I)
<1>1. cue' = cue \/ SignalMonitoringCue(I, e)
  BY DEF NextEnvSegment
<1> QED
  BY <1>1, MonitorLemma

\* A cue is signalled only by the folio's task and at the end of an attachment
\* that it monitors.
LEMMA OnlyPerforms ==
  ASSUME SInv, [Next]_audioVars, ~Performs, NEW c \in Cue, c \in cue'.signal
  PROVE  c \in cue.signal \cup Monitoring(ins)
<1>t. /\ cue \in [made : SUBSET Cue, signal : SUBSET Cue] /\ step \in StepType
      /\ ins \in InsType
  BY Unposted DEF SInv
<1>1. CASE Program
  BY <1>1, <1>t
  DEF Program, CreateCue, SignalAtTime, AbortTimerCue, DeleteCue, TakeSignal,
      AttachEnvelope, StartAttachment, ReleaseAttachment, StopAttachment,
      DetachEnvelope, StartInstrument, ReleaseInstrument, StopInstrument,
      MonitorAttachment
<1>2. CASE Segment
  <2>1. PICK e \in step.todo :
          LET s == [step EXCEPT !.todo = @ \ {e}]
          IN  IF s.call \in {"release", "releaseall"} THEN ReleaseEnv(e, s)
              ELSE NextEnvSegment(timer, ins, e, s)
    BY <1>2 DEF Segment
  <2> DEFINE s == [step EXCEPT !.todo = @ \ {e}]
             I == [ins EXCEPT !.Activity[e] = "released"]
             U == UnpostAudioEvent(timer, e)
  <2>2. e \in Env
    BY <1>t DEF StepType
  <2>3. Monitoring(I) \subseteq Monitoring(ins)
    BY <1>t, <2>2, WatchedSame, WatchedLess
  <2> HIDE DEF s, I, U
  <2>4. \/ NextEnvSegment(timer, ins, e, s) \/ NextEnvSegment(U, I, e, s) \/ cue' = cue
    BY <2>1 DEF ReleaseEnv, s, I, U
  <2> QED
    BY <1>t, <2>2, <2>3, <2>4, EnvSignals
<1>3. CASE Stops
  <2>1. \/ cue' = cue
        \/ /\ step.at = "stops" /\ step.call \notin {"restart", "stop"}
           /\ SignalMonitoringCue(ins, step.event)
    BY <1>3 DEF Stops
  <2>2. step.event \in Env \/ cue' = cue
    BY <2>1 DEF SInv, Stopped
  <2> QED
    BY <1>t, <2>1, <2>2, MonitorLemma
<1>4. CASE PostEnds \/ Arms \/ AudioWakes \/ Tick \/ AudioTimerIntHandler
           \/ UNCHANGED audioVars
  BY <1>4 DEF PostEnds, Arms, AudioWakes, Tick, AudioTimerIntHandler, audioVars
<1> QED
  BY <1>1, <1>2, <1>3, <1>4 DEF Next, Supervisor

\* No program that sleeps until an audio time is woken before it, if programs take
\* their signals before they post again and keep a cue that monitors an
\* attachment apart from those they post.
THEOREM SleepsHolds ==
  ASSUME TakesSignals, OneUse
  PROVE  Spec => SleepsLongEnough
<1> DEFINE Sleeps ==
             \A c \in Cue :
               /\ c \in cue'.signal \ cue.signal
                    => \/ c \in Posted(timer) /\ ~LaterThan(timer.TriggerAt[c], dsp.ticks)
                       \/ c \in Monitoring(ins) /\ c \notin Posted(timer)
               /\ c \in Posted(timer)' => c \notin cue'.signal
<1>1. SInv /\ [Next]_audioVars => SInv'
  BY NextSleeps
<1>2. SInv /\ [Next]_audioVars => Sleeps
  <2> SUFFICES ASSUME SInv, [Next]_audioVars, NEW c \in Cue
               PROVE  /\ c \in cue'.signal \ cue.signal
                           => \/ /\ c \in Posted(timer)
                                 /\ ~LaterThan(timer.TriggerAt[c], dsp.ticks)
                              \/ c \in Monitoring(ins) /\ c \notin Posted(timer)
                      /\ c \in Posted(timer)' => c \notin cue'.signal
    OBVIOUS
  <2>1. SInv'
    BY <1>1
  <2>2. c \in Posted(timer)' => c \notin cue'.signal
    BY <2>1 DEF SInv, Signalled
  <2>3. ASSUME c \in cue'.signal, c \notin cue.signal
        PROVE  \/ c \in Posted(timer) /\ ~LaterThan(timer.TriggerAt[c], dsp.ticks)
               \/ c \in Monitoring(ins) /\ c \notin Posted(timer)
    <3>1. CASE Performs
      BY <2>3, <3>1, PerformedCue
    <3>2. CASE ~Performs
      <4>1. c \in Monitoring(ins)
        BY <2>3, <3>2, OnlyPerforms
      <4> QED
        BY <4>1 DEF SInv, Apart
    <3> QED
      BY <3>1, <3>2
  <2> QED
    BY <2>2, <2>3
<1>3. Spec => [][Sleeps]_audioVars
  <2> HIDE DEF Sleeps
  <2> QED
    BY <1>1, <1>2, InitSleeps, PTL DEF Spec
<1> QED
  BY <1>3 DEF SleepsLongEnough

-----------------------------------------------------------------------------
(* No event outlives its cue or its attachment.                             *)

\* The instrument is in use by what runs in supervisor mode, which is not about
\* to have all its events removed.
Plays(s) == s.at = "segments" \/ (s.at = "post" /\ (s.event \in Env \/ s.todo # {}))

\* The attachments of an instrument and their events: those that are posted, or
\* are going to be, are active ones of a running instrument, until its loop over
\* the attachments has come to them when it is stopped.
Attended(T, s, I) ==
  /\ s.todo \subseteq I.attached
  /\ s.at = "idle" => s.todo = {}
  /\ s.at = "stops" => ~I.running /\ Posted(T) \cap Env \subseteq s.todo
  /\ Plays(s) => I.running
  /\ ~I.running /\ s.at # "stops" => Posted(T) \cap Env = {}
  /\ I.running => \A e \in Posted(T) \cap Env : I.Activity[e] # "stopped"
  /\ s.at \in {"segments", "post"} /\ s.call \notin {"release", "releaseall"} =>
       \A e \in s.todo : I.Activity[e] # "stopped"
  /\ s.at = "post" /\ s.event \in Env => I.Activity[s.event] # "stopped"

\* Every event that is posted or about to be has a cue or an attachment.
Owned(T, s, C, I) ==
  /\ Posted(T) \subseteq C.made \cup I.attached
  /\ s.at = "post" => s.event \in C.made \cup I.attached

\* What EventsExist needs to be inductive.
EInv ==
  /\ IInv
  /\ cue \in [made : SUBSET Cue, signal : SUBSET Cue]
  /\ Attended(timer, step, ins)
  /\ Owned(timer, step, cue, ins)

\* The part of Attended that says nothing of the step.
Active(T, I) ==
  /\ ~I.running => Posted(T) \cap Env = {}
  /\ I.running => \A e \in Posted(T) \cap Env : I.Activity[e] # "stopped"

\* The envelopes a step still has to go through can be.
Todo(s, I) ==
  /\ s.todo \subseteq I.attached
  /\ s.todo # {} => I.running
  /\ s.call \notin {"release", "releaseall"} => \A e \in s.todo : I.Activity[e] # "stopped"

\* Between the loops over the attachments what is posted is active.
LEMMA AttendedActive ==
  ASSUME NEW T, NEW s, NEW I, Attended(T, s, I), s.at # "stops"
  PROVE  Active(T, I)
BY DEF Attended, Active

\* Fewer events do not make an attachment less active.
LEMMA ActiveFewer ==
  ASSUME NEW T, NEW U, NEW I, Active(T, I), Posted(U) \subseteq Posted(T)
  PROVE  Active(U, I)
BY DEF Active

\* Going on with what is left to do.
LEMMA ReturnAttended ==
  ASSUME NEW T, NEW I, Active(T, I), NEW s \in StepType, Todo(s, I)
  PROVE  /\ Attended(T, Return(s), I) /\ Return(s).at # "post"
         /\ Attended(T, Idle, I) /\ Idle.at # "post"
<1>1. Idle \in StepType /\ Idle.at = "idle" /\ Idle.todo = {}
  BY IdleType DEF Idle
<1>2. ASSUME NEW n, n.at \in {"idle", "perform"}, n.todo = {}
      PROVE  Attended(T, n, I)
  BY <1>2 DEF Attended, Active, Plays
<1>3. CASE s.todo # {}
  <2>1. Return(s) = [Idle EXCEPT !.at = "segments", !.call = s.call, !.todo = s.todo]
    BY <1>3 DEF Return
  <2>2. Return(s).at = "segments" /\ Return(s).call = s.call /\ Return(s).todo = s.todo
    BY <1>1, <2>1 DEF StepType
  <2> QED
    BY <1>1, <1>2, <1>3, <2>2 DEF Attended, Active, Plays, Todo
<1>4. CASE s.todo = {}
  <2>1. Return(s).at \in {"idle", "perform"} /\ Return(s).todo = {}
    BY <1>1, <1>4 DEF Return, StepType
  <2> QED
    BY <1>1, <1>2, <2>1
<1> QED
  BY <1>3, <1>4

\* Posting an event, if it is an envelope's for one that is active.
LEMMA PostAttended ==
  ASSUME NEW T, NEW I, Active(T, I), NEW s \in StepType, Todo(s, I),
         NEW e \in Event, NEW t, NEW C, e \in C.made \cup I.attached,
         e \in Env => I.running /\ I.Activity[e] # "stopped"
  PROVE  LET n == PostAudioEvent(T, e, t, s) IN
         /\ Attended(T, n, I)
         /\ n.at = "post" => n.event \in C.made \cup I.attached
<1>1. CASE e \in Posted(T)
  BY <1>1, ReturnAttended DEF PostAudioEvent
<1>2. CASE e \notin Posted(T)
  <2> DEFINE n == [s EXCEPT !.at = "post", !.event = e, !.when = t, !.saw = T.TimerPending]
  <2>1. n.at = "post" /\ n.event = e /\ n.todo = s.todo /\ n.call = s.call
    BY DEF StepType
  <2> HIDE DEF n
  <2>2. Attended(T, n, I)
    BY <2>1 DEF Attended, Active, Plays, Todo
  <2> QED
    BY <1>2, <2>1, <2>2 DEF PostAudioEvent, n
<1> QED
  BY <1>1, <1>2

\* Stopping the instrument goes through all attachments that have an event.
LEMMA HaltsAttended ==
  ASSUME NEW T, NEW I \in InsType, Posted(T) \cap Env \subseteq I.attached,
         NEW call, NEW e
  PROVE  /\ Attended(T, Halts(I, call, e), Halted(I))
         /\ Halts(I, call, e).at # "post" /\ Halted(I).attached = I.attached
<1>1. Halted(I).running = FALSE /\ Halted(I).attached = I.attached
  BY DEF Halted, InsType
<1>2. Halts(I, call, e).at = "stops" /\ Halts(I, call, e).todo = I.attached
  BY IdleType DEF Halts, StepType
<1> QED
  BY <1>1, <1>2 DEF Attended, Plays

\* Starting it, with no event of an attachment posted.
LEMMA StartsAttended ==
  ASSUME NEW T, NEW I \in InsType, Posted(T) \cap Env = {}, Starts(I)
  PROVE  /\ Attended(T, step', ins') /\ step'.at # "post"
         /\ ins'.attached = I.attached
<1> DEFINE es == AutoStart \cap I.attached
           n == [Idle EXCEPT !.call = "start", !.todo = es]
<1>1. es \in SUBSET Env
  BY DEF InsType
<1>2. n \in StepType /\ n.call = "start" /\ n.todo = es
  BY <1>1, IdleType DEF StepType, Calls
<1>3. Started(I, es) \in InsType /\ Started(I, es).attached = I.attached
      /\ \A e \in es : Started(I, es).Activity[e] = "started"
  BY <1>1 DEF Started, InsType
<1>4. /\ ins'.running = TRUE /\ ins'.attached = I.attached
      /\ \A e \in es : ins'.Activity[e] = "started"
  BY <1>3 DEF Starts, InsType
<1>5. step' = Return(n)
  BY DEF Starts, Does
<1> HIDE DEF n
<1>6. Active(T, ins')
  BY <1>4 DEF Active
<1>7. Todo(n, ins')
  BY <1>2, <1>4 DEF Todo
<1> QED
  BY <1>2, <1>4, <1>5, <1>6, <1>7, ReturnAttended

\* An attached envelope that is active posts its next segment, or none, or stops
\* the instrument.
LEMMA EnvAttended ==
  ASSUME NEW T, NEW I \in InsType, Active(T, I), NEW s \in StepType, Todo(s, I),
         NEW C, NEW e \in Env, e \in I.attached, I.running, I.Activity[e] # "stopped",
         Posted(T) \cap Env \subseteq I.attached,
         NextEnvSegment(T, I, e, s)
  PROVE  /\ Attended(T, step', ins') /\ timer' = T /\ ins'.attached = I.attached
         /\ step'.at = "post" => step'.event \in C.made \cup I.attached
<1>1. e \in Event
  BY DEF Event
<1>2. CASE /\ \E d \in 1..MaxAhead : step' = PostAudioEvent(T, e, After(T.Time, d), s)
           /\ timer' = T /\ ins' = I
  BY <1>1, <1>2, PostAttended
<1>3. CASE step' = Return(s) /\ timer' = T /\ ins' = I
  BY <1>3, ReturnAttended
<1>4. CASE timer' = T /\ ins' = Halted(I) /\ step' = Halts(I, s.call, e)
  BY <1>4, HaltsAttended
<1> QED
  BY <1>2, <1>3, <1>4 DEF NextEnvSegment

\* Scheduling the next signal leaves supervisor mode but for the arming.
LEMMA ScheduleAttended ==
  ASSUME NEW U \in TimerType, NEW I, Active(U, I), ScheduleNext(U)
  PROVE  /\ Attended(timer', step', I) /\ step'.at # "post"
         /\ Posted(timer') = Posted(U)
<1>1. Posted(timer') = Posted(U)
  BY ScheduleKeeps
<1>2. step'.at \in {"idle", "arm"} /\ step'.todo = {}
  BY DEF ScheduleNext, Idle
<1> QED
  BY <1>1, <1>2 DEF Attended, Active, Plays

\* What EInv adds to IInv.
Kept ==
  /\ cue \in [made : SUBSET Cue, signal : SUBSET Cue]
  /\ Attended(timer, step, ins)
  /\ Owned(timer, step, cue, ins)

\* The state while no loop that stops the instrument is under way.
LEMMA Between ==
  ASSUME EInv
  PROVE  /\ timer \in TimerType /\ step \in StepType /\ ins \in InsType
         /\ ins.attached \in SUBSET Env
         /\ \A e \in Event : /\ Posted(UnpostAudioEvent(timer, e)) \subseteq Posted(timer)
                             /\ e \notin Posted(UnpostAudioEvent(timer, e))
                             /\ UnpostAudioEvent(timer, e) \in TimerType
         /\ Posted(timer) \cap Env \subseteq ins.attached
         /\ step.at # "stops" => Active(timer, ins)
<1>1. IInv /\ Listed(timer) /\ ins.attached \in SUBSET Env
  BY DEF EInv, IInv, Good, InsType
<1>2. \A e \in Event : Fewer(timer, UnpostAudioEvent(timer, e))
                       /\ e \notin Posted(UnpostAudioEvent(timer, e))
  BY <1>1, RemoveOK
<1>3. Posted(timer) \cap Env \subseteq ins.attached
  BY EnvNotCue DEF EInv, Owned
<1>4. step.at # "stops" => Active(timer, ins)
  BY AttendedActive DEF EInv
<1> QED
  BY <1>1, <1>2, <1>3, <1>4, Unposted DEF Fewer

\* What programs do with cues.
LEMMA CueExists ==
  ASSUME EInv, NEW c \in Cue,
         CreateCue(c) \/ SignalAtTime(c) \/ AbortTimerCue(c) \/ DeleteCue(c) \/ TakeSignal(c)
  PROVE  Kept'
<1>1. /\ timer \in TimerType /\ ins \in InsType /\ Active(timer, ins) /\ c \in Event
      /\ ins' = ins \/ DeleteCue(c)
      /\ step.at = "idle"
      /\ cue \in [made : SUBSET Cue, signal : SUBSET Cue] /\ Attended(timer, step, ins) /\ Owned(timer, step, cue, ins)
  BY Between
  DEF CreateCue, SignalAtTime, AbortTimerCue, DeleteCue, TakeSignal, User, Event, EInv
<1> DEFINE U == UnpostAudioEvent(timer, c)
<1>2. /\ U \in TimerType /\ Posted(U) \subseteq Posted(timer) /\ c \notin Posted(U)
      /\ Active(U, ins)
  BY <1>1, Between, ActiveFewer
<1> HIDE DEF U
<1>3. CASE CreateCue(c)
  <2>1. /\ ins' = ins /\ cue'.made = cue.made \cup {c} /\ timer' = timer /\ step' = step
        /\ cue' \in [made : SUBSET Cue, signal : SUBSET Cue]
    BY <1>1, <1>3 DEF CreateCue
  <2> QED
    BY <1>1, <2>1 DEF Kept, Owned
<1>4. CASE SignalAtTime(c)
  <2>1. PICK d :
          step' = PostAudioEvent(timer, c, After(timer.Time, d), [Idle EXCEPT !.call = "cue"])
    BY <1>4 DEF SignalAtTime
  <2> DEFINE s == [Idle EXCEPT !.call = "cue"]
  <2>2. s \in StepType /\ s.todo = {} /\ s.call = "cue"
    BY IdleType DEF Idle, StepType, Calls
  <2> HIDE DEF s
  <2>3. Todo(s, ins)
    BY <2>2 DEF Todo
  <2>4. c \in cue.made /\ timer' = timer /\ cue' = cue /\ ins' = ins
    BY <1>4 DEF SignalAtTime
  <2>5. c \notin Env
    BY AudioAssumption
  <2>6. /\ Attended(timer, step', ins)
        /\ step'.at = "post" => step'.event \in cue.made \cup ins.attached
    BY <1>1, <2>1, <2>2, <2>3, <2>4, <2>5, PostAttended DEF s
  <2> QED
    BY <1>1, <2>4, <2>6 DEF Kept, Owned
<1>5. CASE AbortTimerCue(c)
  <2>1. ScheduleNext(U) /\ cue' = cue /\ ins' = ins
    BY <1>5 DEF AbortTimerCue, U
  <2>2. /\ Attended(timer', step', ins) /\ step'.at # "post"
        /\ Posted(timer') = Posted(U)
    BY <1>2, <2>1, ScheduleAttended
  <2> QED
    BY <1>1, <1>2, <2>1, <2>2 DEF Kept, Owned
<1>6. CASE DeleteCue(c)
  <2>1. ScheduleNext(U) /\ ins' = Unmonitored(ins, c)
    BY <1>6 DEF DeleteCue, U
  <2>a. /\ ins'.running = ins.running /\ ins'.attached = ins.attached
        /\ ins'.Activity = ins.Activity
    BY <1>1, <2>1, UnmonitoredType
  <2>b. Active(U, ins')
    BY <1>2, <2>a DEF Active
  <2>2. /\ Attended(timer', step', ins') /\ step'.at # "post"
        /\ Posted(timer') = Posted(U)
    BY <1>2, <2>1, <2>b, ScheduleAttended
  <2>3. /\ cue'.made = cue.made \ {c}
        /\ cue' \in [made : SUBSET Cue, signal : SUBSET Cue]
    BY <1>1, <1>6 DEF DeleteCue
  <2> QED
    BY <1>1, <1>2, <2>a, <2>2, <2>3 DEF Kept, Owned
<1>7. CASE TakeSignal(c)
  <2>1. ins' = ins /\ cue'.made = cue.made /\ cue' \in [made : SUBSET Cue, signal : SUBSET Cue]
    BY <1>1, <1>7 DEF TakeSignal
  <2> QED
    BY <1>1, <1>7, <2>1 DEF TakeSignal, Kept, Owned
<1> QED
  BY <1>3, <1>4, <1>5, <1>6, <1>7

\* What programs do with the instrument.
LEMMA InstrumentExists ==
  ASSUME EInv, StartInstrument \/ ReleaseInstrument \/ StopInstrument
  PROVE  Kept'
<1>1. /\ timer \in TimerType /\ ins \in InsType /\ Active(timer, ins)
      /\ ins.attached \in SUBSET Env /\ Posted(timer) \cap Env \subseteq ins.attached
      /\ timer' = timer /\ cue' = cue
      /\ cue \in [made : SUBSET Cue, signal : SUBSET Cue] /\ Attended(timer, step, ins) /\ Owned(timer, step, cue, ins)
  BY Between
  DEF StartInstrument, ReleaseInstrument, StopInstrument, User, EInv
<1>2. SUFFICES /\ Attended(timer, step', ins') /\ step'.at # "post"
               /\ ins'.attached = ins.attached
  BY <1>1 DEF Kept, Owned
<1>3. CASE StartInstrument /\ ~ins.running
  <2>1. Posted(timer) \cap Env = {} /\ Starts(ins)
    BY <1>1, <1>3 DEF Active, StartInstrument
  <2> QED
    BY <1>1, <2>1, StartsAttended
<1>4. CASE (StartInstrument /\ ins.running) \/ StopInstrument
  BY <1>1, <1>4, HaltsAttended DEF StartInstrument, StopInstrument
<1>5. CASE ReleaseInstrument
  <2> DEFINE n == [Idle EXCEPT !.call = "releaseall", !.todo = ins.attached]
  <2>1. n \in StepType /\ n.call = "releaseall" /\ n.todo = ins.attached
    BY <1>1, IdleType DEF StepType, Calls
  <2>2. step' = Return(n) /\ ins' = ins /\ ins.running
    BY <1>5 DEF ReleaseInstrument, Does
  <2> HIDE DEF n
  <2>3. Todo(n, ins)
    BY <2>1, <2>2 DEF Todo
  <2> QED
    BY <1>1, <2>1, <2>2, <2>3, ReturnAttended
<1> QED
  BY <1>3, <1>4, <1>5

\* What programs do with one envelope: they start and release it only while the
\* instrument runs.
LEMMA EnvelopeExists ==
  ASSUME EInv, ~Alone, NEW e \in Env,
         \/ AttachEnvelope(e) \/ StartAttachment(e) \/ ReleaseAttachment(e)
         \/ StopAttachment(e) \/ DetachEnvelope(e)
  PROVE  Kept'
<1>1. /\ timer \in TimerType /\ ins \in InsType /\ Active(timer, ins) /\ e \in Event
      /\ ins.attached \in SUBSET Env /\ Posted(timer) \cap Env \subseteq ins.attached
      /\ ins.Activity \in [Env -> {"stopped", "started", "released"}]
      /\ cue' = cue /\ step.at = "idle" /\ e \notin Cue
      /\ cue \in [made : SUBSET Cue, signal : SUBSET Cue] /\ Attended(timer, step, ins) /\ Owned(timer, step, cue, ins)
  BY Between, EnvNotCue
  DEF AttachEnvelope, StartAttachment, ReleaseAttachment, StopAttachment, DetachEnvelope,
      User, EInv, InsType
<1> DEFINE U == UnpostAudioEvent(timer, e)
<1>2. /\ U \in TimerType /\ Posted(U) \subseteq Posted(timer) /\ e \notin Posted(U)
      /\ Active(U, ins)
  BY <1>1, Between, ActiveFewer
<1> HIDE DEF U
<1>3. CASE AttachEnvelope(e)
  <2>1. /\ ins'.attached = ins.attached \cup {e} /\ ins'.running = ins.running
        /\ ins'.Activity = ins.Activity /\ timer' = timer /\ step' = step
    BY <1>1, <1>3 DEF AttachEnvelope, InsType
  <2>2. Attended(timer, step, ins')
    BY <1>1, <2>1 DEF Attended
  <2> QED
    BY <1>1, <2>1, <2>2 DEF Kept, Owned
<1>4. CASE StartAttachment(e)
  <2> DEFINE n == [Idle EXCEPT !.call = "start", !.todo = {e}]
  <2>1. n \in StepType /\ n.call = "start" /\ n.todo = {e}
    BY IdleType DEF StepType, Calls
  <2>2. /\ ins.running /\ e \in ins.attached /\ timer' = timer /\ step' = Return(n)
        /\ ins' = Started(ins, {e})
    BY <1>4 DEF StartAttachment, Does
  <2>3. /\ ins'.running = ins.running /\ ins'.attached = ins.attached
        /\ ins'.Activity = [f \in Env |-> IF f \in {e} THEN "started" ELSE ins.Activity[f]]
    BY <1>1, <2>2 DEF Started, InsType
  <2>4. /\ ins'.Activity[e] = "started"
        /\ \A f \in Env : ins'.Activity[f] = ins.Activity[f] \/ ins'.Activity[f] = "started"
    BY <2>3
  <2> HIDE DEF n
  <2>5. Active(timer, ins')
    BY <1>1, <2>2, <2>3, <2>4 DEF Active
  <2>6. Todo(n, ins')
    BY <2>1, <2>2, <2>3, <2>4 DEF Todo
  <2>7. Attended(timer, step', ins') /\ step'.at # "post"
    BY <2>1, <2>2, <2>5, <2>6, ReturnAttended
  <2> QED
    BY <1>1, <2>2, <2>3, <2>7 DEF Kept, Owned
<1>5. CASE ReleaseAttachment(e)
  <2> DEFINE n == [Idle EXCEPT !.call = "release", !.todo = {e}]
  <2>1. n \in StepType /\ n.call = "release" /\ n.todo = {e}
    BY IdleType DEF StepType, Calls
  <2>2. /\ ins.running /\ e \in ins.attached /\ timer' = timer /\ step' = Return(n)
        /\ ins' = ins
    BY <1>5 DEF ReleaseAttachment, Does
  <2> HIDE DEF n
  <2>3. Todo(n, ins)
    BY <2>1, <2>2 DEF Todo
  <2>4. Attended(timer, step', ins) /\ step'.at # "post"
    BY <1>1, <2>1, <2>2, <2>3, ReturnAttended
  <2> QED
    BY <1>1, <2>2, <2>4 DEF Kept, Owned
<1>6. CASE StopAttachment(e)
  <2>1. /\ timer' = U /\ step' = step
        /\ ins' = [ins EXCEPT !.Activity[e] = "stopped"]
    BY <1>6 DEF StopAttachment, U
  <2>2. /\ ins'.running = ins.running /\ ins'.attached = ins.attached
        /\ \A f \in Env : f # e => ins'.Activity[f] = ins.Activity[f]
    BY <1>1, <2>1 DEF InsType
  <2>3. Attended(timer', step', ins')
    BY <1>1, <1>2, <2>1, <2>2 DEF Attended, Active, Plays
  <2> QED
    BY <1>1, <1>2, <2>1, <2>2, <2>3 DEF Kept, Owned
<1>7. CASE DetachEnvelope(e) /\ ins.Activity[e] # "stopped" /\ ins.running
  <2>1. ins' = Halted(ins) /\ step' = Halts(ins, "detach", e) /\ timer' = timer
    BY <1>7 DEF DetachEnvelope
  <2> QED
    BY <1>1, <2>1, HaltsAttended DEF Kept, Owned
<1>8. CASE DetachEnvelope(e) /\ ~(ins.Activity[e] # "stopped" /\ ins.running)
  <2>1. ins' = Detached(ins, e) /\ step' = step /\ timer' = timer
    BY <1>8 DEF DetachEnvelope
  <2>2. e \notin Posted(timer)
    BY <1>1, <1>8 DEF Active
  <2>3. /\ ins'.running = ins.running /\ ins'.attached = ins.attached \ {e}
        /\ \A f \in Env : f # e => ins'.Activity[f] = ins.Activity[f]
    BY <1>1, <2>1 DEF Detached, InsType
  <2>4. step.todo \subseteq ins'.attached
    <3>1. step.todo = {}
      BY <1>1 DEF Attended
    <3> QED
      BY <3>1
  <2>5. Attended(timer, step, ins')
    BY <1>1, <2>2, <2>3, <2>4 DEF Attended, Active, Plays
  <2> QED
    BY <1>1, <2>1, <2>2, <2>3, <2>5 DEF Kept, Owned
<1> QED
  BY <1>3, <1>4, <1>5, <1>6, <1>7, <1>8

\* A task names a cue that is to monitor an attachment.
LEMMA MonitorExists ==
  ASSUME EInv, NEW e \in Env, NEW c \in Cue \cup {NoEvent}, MonitorAttachment(e, c)
  PROVE  Kept'
<1>1. /\ ins \in InsType /\ ins' = [ins EXCEPT !.CueItem[e] = c]
      /\ timer' = timer /\ step' = step /\ cue' = cue
  BY Between DEF MonitorAttachment
<1>2. /\ ins'.running = ins.running /\ ins'.attached = ins.attached
      /\ ins'.Activity = ins.Activity
  BY <1>1 DEF InsType
<1> QED
  BY <1>1, <1>2 DEF EInv, Kept, Owned, Attended, Plays

\* The next envelope of a loop is started, released or performed.
LEMMA SegmentExists ==
  ASSUME EInv, Segment
  PROVE  Kept'
<1>1. PICK e \in step.todo :
        LET s == [step EXCEPT !.todo = @ \ {e}]
        IN  IF s.call \in {"release", "releaseall"} THEN ReleaseEnv(e, s)
            ELSE NextEnvSegment(timer, ins, e, s)
  BY DEF Segment
<1> DEFINE s == [step EXCEPT !.todo = @ \ {e}]
           I == [ins EXCEPT !.Activity[e] = "released"]
           U == UnpostAudioEvent(timer, e)
<1>2. /\ timer \in TimerType /\ step \in StepType /\ ins \in InsType
      /\ Active(timer, ins) /\ step.at = "segments"
      /\ ins.attached \in SUBSET Env /\ Posted(timer) \cap Env \subseteq ins.attached
      /\ ins.Activity \in [Env -> {"stopped", "started", "released"}]
      /\ cue \in [made : SUBSET Cue, signal : SUBSET Cue] /\ Attended(timer, step, ins) /\ Owned(timer, step, cue, ins)
  BY Between DEF Segment, EInv, InsType
<1>3. /\ e \in Env /\ e \in Event /\ e \in ins.attached /\ ins.running
  BY <1>2 DEF Attended, Plays, StepType, Event
<1>4. /\ s \in StepType /\ s.call = step.call /\ s.at = step.at
      /\ s.todo = step.todo \ {e}
  BY <1>2 DEF StepType
<1>5. /\ I \in InsType /\ I.running = ins.running /\ I.attached = ins.attached
      /\ I.Activity[e] = "released"
      /\ \A f \in Env : f # e => I.Activity[f] = ins.Activity[f]
  BY <1>2, <1>3 DEF InsType
<1>6. Posted(U) \subseteq Posted(timer)
  BY <1>3, Between
<1> HIDE DEF s, I, U
<1>7. Todo(s, ins)
  BY <1>2, <1>3, <1>4 DEF Todo, Attended
<1>8. Todo(s, I) /\ Active(timer, I)
  BY <1>2, <1>3, <1>5, <1>7 DEF Todo, Active
<1>9. Active(U, I)
  BY <1>6, <1>8, ActiveFewer
<1>10. SUFFICES /\ Attended(timer', step', ins') /\ ins'.attached = ins.attached
                /\ Posted(timer') \subseteq Posted(timer)
                /\ step'.at = "post" => step'.event \in cue.made \cup ins.attached
  <2>1. \/ NextEnvSegment(timer, ins, e, s) \/ NextEnvSegment(U, I, e, s)
        \/ cue' = cue
    BY <1>1 DEF ReleaseEnv, s, I, U
  <2>2. cue' = cue \/ \E J : SignalMonitoringCue(J, e)
    BY <2>1 DEF NextEnvSegment
  <2>3. cue'.made = cue.made /\ cue' \in [made : SUBSET Cue, signal : SUBSET Cue]
    BY <1>2, <1>3, <2>2, MonitorLemma
  <2> QED
    BY <1>2, <2>3 DEF Kept, Owned
<1>11. CASE step.call \notin {"release", "releaseall"}
  <2>1. NextEnvSegment(timer, ins, e, s)
    BY <1>1, <1>4, <1>11 DEF s
  <2>2. ins.Activity[e] # "stopped"
    BY <1>2, <1>11 DEF Attended
  <2> QED
    BY <1>2, <1>3, <1>4, <1>7, <2>1, <2>2, EnvAttended
<1>12. CASE step.call \in {"release", "releaseall"}
  <2>1. ReleaseEnv(e, s)
    BY <1>1, <1>4, <1>12 DEF s
  <2>2. CASE step' = Return(s) /\ timer' = timer /\ ins' = ins
    BY <1>2, <1>4, <1>7, <2>2, ReturnAttended
  <2>3. CASE step' = Return(s) /\ timer' = timer /\ ins' = I
    BY <1>4, <1>5, <1>8, <2>3, ReturnAttended
  <2>4. CASE NextEnvSegment(U, I, e, s)
    <3>1. Posted(U) \cap Env \subseteq I.attached
      BY <1>2, <1>5, <1>6
    <3> QED
      BY <1>3, <1>4, <1>5, <1>6, <1>8, <1>9, <2>4, <3>1, EnvAttended
  <2> QED
    BY <2>1, <2>2, <2>3, <2>4 DEF ReleaseEnv, I, U
<1> QED
  BY <1>11, <1>12

\* The loop over the attachments of an instrument that is stopped removes all
\* events of envelopes, and only then the instrument or one of them goes on.
LEMMA StopsExists ==
  ASSUME EInv, Stops
  PROVE  Kept'
<1>1. /\ timer \in TimerType /\ step \in StepType /\ ins \in InsType
      /\ step.at = "stops" /\ ~ins.running
      /\ cue'.made = cue.made /\ cue' \in [made : SUBSET Cue, signal : SUBSET Cue]
      /\ ins.attached \in SUBSET Env /\ Posted(timer) \cap Env \subseteq step.todo
      /\ cue \in [made : SUBSET Cue, signal : SUBSET Cue] /\ Attended(timer, step, ins) /\ Owned(timer, step, cue, ins)
  <2>1. cue' = cue \/ \E e : SignalMonitoringCue(ins, e)
    BY DEF Stops
  <2>2. cue'.made = cue.made /\ cue' \in [made : SUBSET Cue, signal : SUBSET Cue]
    BY <2>1 DEF SignalMonitoringCue, EInv
  <2> QED
    BY <2>2, Between DEF Stops, EInv, InsType, Attended
<1>2. ASSUME NEW e \in step.todo, timer' = UnpostAudioEvent(timer, e),
             step' = [step EXCEPT !.todo = @ \ {e}], ins' = ins
      PROVE  Kept'
  <2>1. e \in Event
    BY <1>1 DEF StepType, Event
  <2>2. Posted(timer') \subseteq Posted(timer) /\ e \notin Posted(timer')
    BY <1>2, <2>1, Between
  <2>3. step'.at = "stops" /\ step'.todo = step.todo \ {e}
    BY <1>1, <1>2 DEF StepType
  <2>4. Attended(timer', step', ins)
    BY <1>1, <2>2, <2>3 DEF Attended, Plays
  <2> QED
    BY <1>1, <1>2, <2>2, <2>3, <2>4 DEF Kept, Owned
<1>3. CASE step.todo = {} /\ timer' = timer
  <2>1. Posted(timer) \cap Env = {} /\ Active(timer, ins)
    BY <1>1, <1>3 DEF Active
  <2>2. CASE Starts(ins)
    BY <1>1, <1>3, <2>1, <2>2, StartsAttended DEF Kept, Owned
  <2>3. CASE ins' = Detached(ins, step.event) /\ step' = Idle
    <3>1. ins'.running = ins.running /\ ins'.attached = ins.attached \ {step.event}
      BY <1>1, <2>3 DEF Detached, InsType
    <3>2. Active(timer, ins')
      BY <1>1, <2>1, <3>1 DEF Active
    <3>3. Idle.at = "idle" /\ Idle.todo = {}
      BY DEF Idle
    <3>4. Attended(timer, Idle, ins')
      BY <3>2, <3>3 DEF Attended, Active, Plays
    <3>5. Posted(timer) \subseteq cue.made
      <4>1. \A e \in ins.attached : e \notin Posted(timer)
        BY <1>1, <2>1
      <4> QED
        BY <1>1, <4>1 DEF Owned
    <3> QED
      BY <1>1, <1>3, <2>3, <3>3, <3>4, <3>5 DEF Kept, Owned
  <2>4. CASE (step' = Return(step) \/ step' = Idle) /\ ins' = ins
    <3>1. Todo(step, ins)
      BY <1>1, <1>3 DEF Todo
    <3>2. Attended(timer, step', ins) /\ step'.at # "post"
      BY <1>1, <2>1, <2>4, <3>1, ReturnAttended
    <3> QED
      BY <1>1, <1>3, <2>4, <3>2 DEF Kept, Owned
  <2> QED
    BY <1>3, <2>2, <2>3, <2>4 DEF Stops
<1> QED
  BY <1>2, <1>3 DEF Stops

\* The event that is posted has an owner.
LEMMA PostExists ==
  ASSUME EInv, PostEnds
  PROVE  Kept'
<1>1. /\ step.at = "post" /\ step' = Return(step) /\ cue' = cue /\ ins' = ins
      /\ step \in StepType
      /\ cue \in [made : SUBSET Cue, signal : SUBSET Cue] /\ Attended(timer, step, ins) /\ Owned(timer, step, cue, ins)
  BY Between DEF PostEnds, EInv
<1>2. Posted(timer') = Posted(timer) \cup {step.event}
  BY PostGood DEF EInv
<1>3. Active(timer', ins)
  BY <1>1, <1>2 DEF Attended, Active, Plays
<1>4. Todo(step, ins)
  BY <1>1 DEF Attended, Todo, Plays
<1>5. Attended(timer', step', ins) /\ step'.at # "post"
  BY <1>1, <1>3, <1>4, ReturnAttended
<1> QED
  BY <1>1, <1>2, <1>5 DEF Kept, Owned

\* The folio's task performs an event of the list, which may be an envelope's.
LEMMA TaskExists ==
  ASSUME EInv, AudioWakes \/ Performs
  PROVE  Kept'
<1>1. /\ timer \in TimerType /\ step \in StepType /\ ins \in InsType
      /\ Active(timer, ins) /\ ins' = ins /\ cue'.made = cue.made
      /\ cue' \in [made : SUBSET Cue, signal : SUBSET Cue]
      /\ step.at \in {"idle", "perform"}
      /\ Posted(timer) \cap Env \subseteq ins.attached
      /\ cue \in [made : SUBSET Cue, signal : SUBSET Cue] /\ Attended(timer, step, ins) /\ Owned(timer, step, cue, ins)
  <2>1. cue'.made = cue.made /\ cue' \in [made : SUBSET Cue, signal : SUBSET Cue]
    BY DEF AudioWakes, Performs, EInv
  <2> QED
    BY <2>1, Between DEF AudioWakes, Performs, User, EInv
<1>2. CASE AudioWakes
  <2>1. timer' = timer /\ step' = [Idle EXCEPT !.at = "perform"]
    BY <1>2 DEF AudioWakes
  <2>2. step'.at = "perform" /\ step'.todo = {}
    BY <2>1 DEF Idle
  <2>3. Attended(timer, step', ins)
    BY <1>1, <2>2 DEF Attended, Active, Plays
  <2> QED
    BY <1>1, <2>1, <2>2, <2>3 DEF Kept, Owned
<1>3. CASE Performs
  <2> DEFINE q == timer.TimerList
             e == Head(q)
             U == UnpostAudioEvent(timer, e)
  <2>1. CASE ScheduleNext(timer)
    <3>1. /\ Attended(timer', step', ins) /\ step'.at # "post"
          /\ Posted(timer') = Posted(timer)
      BY <1>1, <2>1, ScheduleAttended
    <3> QED
      BY <1>1, <3>1 DEF Kept, Owned
  <2>2. CASE /\ q # <<>> /\ timer' = U
             /\ e \in Cue => step' = step
             /\ e \notin Cue => step' = Does("event", {e})
    <3>1. e \in Posted(timer) /\ e \in Event
      BY <1>1, <2>2, PostedIs, EmptySeq, HeadTailProperties DEF TimerType
    <3>2. Posted(U) \subseteq Posted(timer) /\ Active(U, ins)
      BY <1>1, <3>1, Between, ActiveFewer
    <3>3. CASE e \in Cue /\ step' = step
      <4>1. Attended(U, step, ins)
        BY <1>1, <3>2 DEF Attended, Active, Plays
      <4> QED
        BY <1>1, <2>2, <3>2, <3>3, <4>1 DEF Kept, Owned
    <3>4. CASE e \notin Cue /\ step' = Does("event", {e})
      <4> DEFINE n == [Idle EXCEPT !.call = "event", !.todo = {e}]
      <4>1. e \in Env
        BY <3>1, <3>4 DEF Event
      <4>2. n \in StepType /\ n.call = "event" /\ n.todo = {e}
        BY <4>1, IdleType DEF StepType, Calls
      <4>3. step' = Return(n)
        BY <3>4 DEF Does
      <4> HIDE DEF n
      <4>4. Todo(n, ins)
        BY <1>1, <3>1, <4>1, <4>2 DEF Todo, Active
      <4>5. Attended(U, step', ins) /\ step'.at # "post"
        BY <3>2, <4>2, <4>3, <4>4, ReturnAttended
      <4> QED
        BY <1>1, <2>2, <3>2, <4>5 DEF Kept, Owned
    <3> QED
      BY <2>2, <3>3, <3>4
  <2> QED
    BY <1>3, <2>1, <2>2 DEF Performs
<1> QED
  BY <1>2, <1>3

\* Arming the timer, a tick and the interrupt leave the list as it is.
LEMMA ClockExists ==
  ASSUME EInv, Arms \/ Tick \/ AudioTimerIntHandler
  PROVE  Kept'
<1>1. /\ timer \in TimerType /\ step \in StepType
      /\ ins' = ins /\ cue' = cue
      /\ cue \in [made : SUBSET Cue, signal : SUBSET Cue] /\ Attended(timer, step, ins) /\ Owned(timer, step, cue, ins)
  BY Between DEF Arms, Tick, AudioTimerIntHandler, EInv
<1>2. timer'.TimerList = timer.TimerList
  BY <1>1 DEF Arms, Tick, AudioTimerIntHandler, TimerType
<1>3. Posted(timer') = Posted(timer)
  BY <1>2 DEF Posted
<1>4. CASE step' = step
  BY <1>1, <1>3, <1>4 DEF Kept, Owned, Attended
<1>5. CASE step' = Idle /\ step.at = "arm"
  <2>1. Active(timer, ins)
    BY <1>5, Between
  <2>2. Idle.at = "idle" /\ Idle.todo = {}
    BY DEF Idle
  <2>3. Attended(timer', Idle, ins)
    BY <1>3, <2>1, <2>2 DEF Attended, Active, Plays
  <2> QED
    BY <1>1, <1>3, <1>5, <2>2, <2>3 DEF Kept, Owned
<1> QED
  BY <1>4, <1>5 DEF Arms, Tick, AudioTimerIntHandler

\* Every step keeps the events owned and their attachments active.
LEMMA NextExists == ~Alone /\ EInv /\ [Next]_audioVars => EInv'
<1> SUFFICES ASSUME ~Alone, EInv, [Next]_audioVars PROVE EInv'
  OBVIOUS
<1>1. IInv'
  BY NextGood DEF EInv
<1>2. Kept'
  <2>1. CASE \E c \in Cue : \/ CreateCue(c) \/ SignalAtTime(c) \/ AbortTimerCue(c)
                            \/ DeleteCue(c) \/ TakeSignal(c)
    BY <2>1, CueExists
  <2>2. CASE \E e \in Env : \/ AttachEnvelope(e) \/ StartAttachment(e)
                            \/ ReleaseAttachment(e) \/ StopAttachment(e) \/ DetachEnvelope(e)
                            \/ \E c \in Cue \cup {NoEvent} : MonitorAttachment(e, c)
    BY <2>2, EnvelopeExists, MonitorExists
  <2>3. CASE StartInstrument \/ ReleaseInstrument \/ StopInstrument
    BY <2>3, InstrumentExists
  <2>4. CASE Supervisor
    BY <2>4, PostExists, ClockExists, SegmentExists, StopsExists, TaskExists DEF Supervisor
  <2>5. CASE AudioWakes \/ Tick \/ AudioTimerIntHandler
    BY <2>5, ClockExists, TaskExists
  <2>6. CASE UNCHANGED audioVars
    BY <2>6 DEF audioVars, EInv, Kept, Owned, Attended, Plays, Posted
  <2> QED
    BY <2>1, <2>2, <2>3, <2>4, <2>5, <2>6 DEF Next, Program
<1> QED
  BY <1>1, <1>2 DEF EInv, Kept

\* The folio starts with an empty list.
LEMMA InitExists == Init => EInv
<1> SUFFICES ASSUME Init PROVE EInv
  OBVIOUS
<1>1. IInv
  BY InitGood
<1>2. /\ timer.TimerList = <<>> /\ step = Idle
      /\ cue \in [made : SUBSET Cue, signal : SUBSET Cue]
  BY DEF Init
<1>3. Posted(timer) = {}
  BY <1>2 DEF Posted, ToSet
<1>4. Idle.at = "idle" /\ Idle.todo = {}
  BY DEF Idle
<1> QED
  BY <1>1, <1>2, <1>3, <1>4 DEF EInv, Attended, Owned, Plays

\* While programs start and release envelopes only on an instrument that runs,
\* the list of the audio timer never has an event, or has one twice, whose cue
\* or attachment was deleted: however the deletion of a cue, the end of an
\* envelope that stops the instrument, and the post of the next segment interleave.
THEOREM EventsExistHolds == ASSUME ~Alone PROVE Spec => []EventsExist
<1>1. EInv => EventsExist
  BY DEF EInv, IInv, Good, Listed, Owned, EventsExist
<1>2. EInv /\ [Next]_audioVars => EInv'
  BY NextExists
<1> QED
  BY <1>1, <1>2, InitExists, PTL DEF Spec
=============================================================================

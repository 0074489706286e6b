SPECIFICATION FairSpec
CONSTANTS
  c1 = c1
  e1 = e1
  none = none
  Cue <- MCCue
  Env <- MCEnv
  AutoStart <- MCAuto
  Fat <- MCFat
  NoEvent = none
  Half = 6
  TickMod = 4
  MaxLost = 2
  MaxLate = 3
  MaxPast = 0
  MaxAhead = 2
  TakesSignals = TRUE
  OneUse = TRUE
  Alone = FALSE
INVARIANTS Armed ClockKeeps EventsExist
PROPERTIES SleepsLongEnough CuesHappen

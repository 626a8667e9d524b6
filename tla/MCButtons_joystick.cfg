SPECIFICATION ButtonsSpec
CONSTANTS
  TimerSize = 4
  TickSize = 8
  Period = 3
  uib_INIT_DEBOUNCE = 2
  uib_SECOND_DEBOUNCE = 4
  uib_REPEAT_DEBOUNCE = 3
  Samples <- mcSamples
  MaxLag = 2
INVARIANTS
  ReportsOnSchedule
  ReadInTime
PROPERTY
  HeldIsTaken

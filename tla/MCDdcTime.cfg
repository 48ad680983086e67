SPECIFICATION ClockSpec
CONSTANTS
  Manual = {m1}
  Refresh = {f1}
  timer = timer
  Parts = 2
  Base = 2
INVARIANTS ClockTypeOK
PROPERTIES WholeTime KeepsTime

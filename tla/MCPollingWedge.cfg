SPECIFICATION Spec
CONSTANTS
  Request = {r1}
  boot = boot
  TimerId = {t1, t2, t3}
  NoTimer = NoTimer
  Cycle = {c1, c2}
  MaxReads = 2

PROPERTY ScheduledCycleRuns

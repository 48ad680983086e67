SPECIFICATION FairSpec
CONSTANTS
  r1 = r1
  r2 = r2
  v0 = v0
  v1 = v1
  v2 = v2
  Request = {r1, r2}
  N = 2
  Bodies <- MCBodies
  Value = {v0, v1, v2}
  First = v0
  Garbled = Garbled
  MaxFault = 1
INVARIANTS TypeOK WriteSuccessTaken TimeIsWhole
PROPERTIES SettledForGood LogsSettle TimeShown

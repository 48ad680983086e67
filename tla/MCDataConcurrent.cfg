SPECIFICATION Spec
CONSTANTS
  Value = {on}
  Off = on
  Fresh = on
  Nothing = Nothing
  Device = {d1, d2}
  Counter = {d2}
  Load = {l1}
  Registration = {r1}
  Poller = {q1}
  User = {}
  MaxMade = 1
INVARIANTS OneApplication OneEach
PROPERTIES ComesOut

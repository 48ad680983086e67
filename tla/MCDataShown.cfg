SPECIFICATION Spec
CONSTANTS
  Value = {off, on}
  Off = off
  Fresh = on
  Nothing = Nothing
  Device = {d1, d2}
  Counter = {d2}
  Load = {l1}
  Registration = {}
  Poller = {q1}
  User = {u1}
  MaxMade = 1
INVARIANTS TypeOK
PROPERTIES ShowsTheDevice

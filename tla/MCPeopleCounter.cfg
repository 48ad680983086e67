SPECIFICATION Spec
CONSTANTS
  Tick = {k1, k2}
  midnight = midnight
  Hand = {h1}
  Nobody = Nobody
  None = None
  StartCounts = {0}
  MaxEntered = 1
  MaxDay = 1
SYMMETRY Symmetry
CONSTRAINT RaceAlone
INVARIANTS TypeOK JobsServed CountedOnce ShownWasStored

SPECIFICATION FairSpec
CONSTANTS
  c1 = c1
  c2 = c2
  NUnits = 2
  Cycle = cycle
  Monitor = {tick}
  Counter = {c1, c2}
  UnitOf <- MCUnitOf
  MaxChange = 3
  MaxFault = 1
CONSTRAINT FewDisturbances
INVARIANTS TypeOK AgreeUnlessDisturbed
PROPERTIES StatusFollows

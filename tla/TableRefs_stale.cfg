\* A flow is modified to name another meter, then that meter is deleted.  The
\* controller names only meters that exist.
SPECIFICATION SpecOfKnownMeters
CONSTANTS
  r1 = r1  r2 = r2
  e1 = e1  e2 = e2  e3 = e3
  a1 = a1  a2 = a2  a3 = a3
  g1 = g1  g2 = g2
  m1 = m1  m2 = m2
  Rules <- TwoRules
  Table <- OneTable
  Selections <- BothRules
  EntryIds <- ThreeEntries
  ArrayIds <- ThreeArrays
  GroupIds = {g1}
  MeterIds = {m1, m2}
  NoMeter = NoMeter
  AnyGroup = AnyGroup
  MaxFlows = 2
  MaxGroups = 1
  MaxMeters = 2
  CountMod = 4
SYMMETRY Addresses
PROPERTIES
  DeletedMetersTakeTheirFlows
CHECK_DEADLOCK FALSE

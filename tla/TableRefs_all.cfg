\* Two groups, a meter, two rules, any messages and timeouts.
SPECIFICATION Spec
CONSTANTS
  r1 = r1  r2 = r2
  e1 = e1  e2 = e2  e3 = e3
  a1 = a1  a2 = a2  a3 = a3
  g1 = g1  g2 = g2
  m1 = m1  m2 = m2
  Rules <- TwoRules
  Table <- OneTable
  Selections <- BothRules
  EntryIds <- ThreeEntries
  ArrayIds <- ThreeArrays
  GroupIds = {g1, g2}
  MeterIds = {m1}
  NoMeter = NoMeter
  AnyGroup = AnyGroup
  MaxFlows = 2
  MaxGroups = 2
  MaxMeters = 2
  CountMod = 4
SYMMETRY GroupsAlike
INVARIANTS
  TypeOK
  ReferencesAgree
  GroupsAreLoopFree
PROPERTIES
  ContentsSpec
CHECK_DEADLOCK FALSE

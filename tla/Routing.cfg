\* A full mesh of four switches with one destination; readings change with each update.
CONSTANTS
  Switches <- MCSwitches
  Hosts <- MCHosts
  HostOrder <- MCHostOrder
  Links <- MCLinks
  Flexes <- MCFlexes
  Scale = 2
  MaxUpdates = 2
SPECIFICATION FairSpec
INVARIANT RoutesAreCurrent
PROPERTY EveryPacketLeaves

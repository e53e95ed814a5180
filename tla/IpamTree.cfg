SPECIFICATION Spec
CONSTANTS
  a1 = a1
  p1 = p1
  p2 = p2
  p3 = p3
  c1 = c1
  c2 = c2
  None = None
  Blank = Blank
  Nets <- MCNets
  Hosts <- MCHosts
  AggIds <- MCAggIds
  PrefixIds <- MCPrefixIds
  Clients <- MCClients
SYMMETRY Symmetry
CONSTRAINT Unclashed
INVARIANTS TypeOK WellPlaced UniquePerAggregate HostsInside
PROPERTY NoSilentCascade

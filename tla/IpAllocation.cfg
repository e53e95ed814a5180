SPECIFICATION Spec
CONSTANTS
  RowIds = {r1, r2}
  PrefixIds = {1, 2}
  Addresses = {1, 2}
  Spelled = {2}
  Net <- Networks
  VMs = {v1, v2}
  Reports <- Reported
  Clients = {c1}
  None = None
SYMMETRY Symmetry
CONSTRAINT Unraced
INVARIANTS TypeOK OneMachinePerAddress OccupiedIsExclusive
PROPERTIES OnlyReleaseEndsOccupation

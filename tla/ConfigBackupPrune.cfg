SPECIFICATION Spec
CONSTANTS
  d1 = d1
  w1 = w1
  d2 = d2
  o1 = o1
  h1 = h1
  h2 = h2
  n1 = n1
  None = None
  Devices <- MCDevices
  Workers <- MCWorkers
  Operators <- MCOperators
  Hashes <- MCHashes
  Names <- MCNames
  NameOf <- MCNameOf
  Policies <- MCPolicies
  Verdicts <- MCVerdicts
  MaxCaptures = 3
  MaxSecond = 1
PROPERTY PrunePreservesBaselines

SPECIFICATION Spec
CONSTANTS
  Commits = {c1}
  Writers = {w1}
  Imported <- Foreign
  Keep = 2
  MaxStarts = 3
  MaxRestores = 2
  Missing = Missing
INVARIANTS TypeOK Recoverable RestoreIsWhole PreUpgradeCopyKept
CHECK_DEADLOCK FALSE

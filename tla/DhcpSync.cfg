SPECIFICATION Spec
CONSTANTS
  Pools = {p1}
  Items = {i1}
  Identities = {x, y}
  Nets = {n1, n2}
  Scopes = {n1}
  Thresholds = {50, 80}
  Percents = {60}
  Names = {a}
  PrefixIds = {1}
  Threads = {t1, t2}
  Clients = {c1}
  MaxEdits = 2
  None = None
  Gone = Gone
CONSTRAINT OneSource
SYMMETRY Symmetry
INVARIANTS TypeOK SnapshotFitsSettings LinksAreSound
PROPERTIES EditsWin LinkedSourceKept

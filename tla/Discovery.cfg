SPECIFICATION Spec
CONSTANTS
  Ids = {1, 2, 3}
  Addresses = {a, b}
  Reports <- Reported
  Tasks = {t1}
  Workers = 2
  MaxDepth = 3
  MaxChanges = 1
  Seeds = {1}
  Request = Request
  None = None
INVARIANTS TypeOK AddressesUnique 
 
CHECK_DEADLOCK FALSE

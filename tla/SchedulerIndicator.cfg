SPECIFICATION Spec
CONSTANTS
  r1 = r1
  r2 = r2
  q1 = q1
  None = None
  Runners <- MCRunners
  Requesters <- MCRequesters
  Types <- MCTypes
  DeviceTypes <- MCDeviceTypes
  Crons <- MCCrons
  GoodCrons <- MCGoodCrons
  Results <- MCResults
  MaxId = 2
  MaxEvents = 2
CHECK_DEADLOCK FALSE
INVARIANT ExecutingIsShown

SPECIFICATION FairSpec
CONSTANTS
  tailer = tailer
  storage = storage
  heartbeat = heartbeat
  Order <- MCOrder
  Heartbeat = heartbeat
  CanHang = {storage}
  MaxPanics = 2
INVARIANTS
  ClosedLast
  WaitGroupExact
PROPERTIES
  ShutsDown
  

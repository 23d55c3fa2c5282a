SPECIFICATION TxSpec
CONSTANTS
  Events = {e1}
  Users = {u1, u2}
  Times <- MCTimes
  Capacities <- MCCapacities
  AttendeeCounts <- MCAttendeeCounts
  MaxTime = 1
  MaxCapacity = 1
  MaxAttendeeCount = 1
  NoResponse = NoResponse
  NoEvent = NoEvent
  Transactions = {t1, t2, t3}
  NoCall = NoCall
  NoRead = NoRead
  NoDraft = NoDraft
SYMMETRY MCSymmetry
INVARIANTS
  TxTypeOK
  ReadsHold
  NoCircularWait
PROPERTIES
  MethodsAtomic
  ClosedStaysClosed

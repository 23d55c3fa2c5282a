SPECIFICATION FairSpec
CONSTANTS
  Events = {e1}
  Users = {u1}
  Times <- MCTimes
  Capacities <- MCCapacities
  AttendeeCounts <- MCAttendeeCounts
  MaxTime = 1
  MaxCapacity = 1
  MaxAttendeeCount = 1
  NoResponse = NoResponse
  NoEvent = NoEvent
  Groups = {g1}
  InviteIds = {i1}
  NoGroup = NoGroup
  Requests = {r1, r2}
  NoRequest = NoRequest
PROPERTIES
  EveryRequestReturns

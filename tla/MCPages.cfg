SPECIFICATION PageSpec
CONSTANTS
  Events = {e1, e2}
  Users = {u1, u2}
  Times <- MCTimes
  Capacities <- MCCapacities
  AttendeeCounts <- MCAttendeeCounts
  MaxTime = 2
  MaxAttendeeCount = 1
  NoResponse = NoResponse
  NoEvent = NoEvent
  Groups = {g1}
  InviteIds = {i1}
  NoGroup = NoGroup
  PastLimit = 1
  NoId = NoId
SYMMETRY MCSymmetry
INVARIANTS
  PageTypeOK
  HomeMissesNothing
  OutsidersSeeNothing

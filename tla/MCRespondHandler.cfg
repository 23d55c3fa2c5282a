SPECIFICATION AppSpec
CONSTANTS
  Events = {e1}
  Users = {u1, u2}
  Times <- MCTimes
  Capacities <- MCCapacities
  AttendeeCounts <- MCAttendeeCounts
  MaxTime = 0
  MaxCapacity = 1
  MaxAttendeeCount = 1
  NoResponse = NoResponse
  NoEvent = NoEvent
  Groups = {g1}
  InviteIds = {i1}
  NoGroup = NoGroup
  Requests = {r1, r2}
  NoRequest = NoRequest
SYMMETRY MCSymmetry
INVARIANTS
  AppTypeOK
  AuditTellsTruth
  OutsidersNotAnswered


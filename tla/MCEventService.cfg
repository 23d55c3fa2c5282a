SPECIFICATION Spec
CONSTANTS
  e1 = e1
  u1 = u1
  u2 = u2
  u3 = u3
  Events = {e1}
  Users = {u1, u2, u3}
  Times <- MCTimes
  Capacities <- MCCapacities
  AttendeeCounts <- MCAttendeeCounts
  MaxTime = 2
  MaxCapacity = 5
  MaxAttendeeCount = 2
  NoResponse = NoResponse
  NoEvent = NoEvent
SYMMETRY MCSymmetry
INVARIANTS
  TypeOK
  WaitlistManaged
  CapacityRespected
  NoOvertaking
  NoIdleSpots
PROPERTIES
  ResponsesMoveForCause
  PlacesKept
  QueueSpec

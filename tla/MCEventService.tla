--------------------------- MODULE MCEventService ---------------------------
(***************************************************************************)
(* A small instance of EventService for TLC: every clock reading, capacity *)
(* and attendee count of a small range, the invalid ones included.         *)
(***************************************************************************)
EXTENDS EventService, TLC

CONSTANTS MaxTime, MaxCapacity

MCTimes          == 0 .. MaxTime
MCCapacities     == -1 .. MaxCapacity
MCAttendeeCounts == -1 .. MaxAttendeeCount + 1

MCSymmetry == Permutations(Users)

=============================================================================

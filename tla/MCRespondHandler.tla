-------------------------- MODULE MCRespondHandler --------------------------
(***************************************************************************)
(* Two requests in progress, of one or two users, about one event that is  *)
(* public or belongs to the one group.                                     *)
(***************************************************************************)
EXTENDS RespondHandler, TLC

CONSTANTS MaxTime, MaxCapacity

MCTimes          == 0 .. MaxTime
MCCapacities     == MaxCapacity .. MaxCapacity
MCAttendeeCounts == 0 .. MaxAttendeeCount + 1

MCSymmetry == Permutations(Users) \cup Permutations(Requests)

=============================================================================

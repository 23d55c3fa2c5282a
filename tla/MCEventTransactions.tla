------------------------- MODULE MCEventTransactions -------------------------
(***************************************************************************)
(* One event, answered, edited, deleted and shown by transactions whose    *)
(* statements interleave in every order.                                   *)
(***************************************************************************)
EXTENDS EventTransactions, TLC

CONSTANTS MaxTime, MaxCapacity

MCTimes          == 0 .. MaxTime
MCCapacities     == 0 .. MaxCapacity
MCAttendeeCounts == 0 .. MaxAttendeeCount + 1

MCSymmetry == Permutations(Users) \cup Permutations(Transactions)

=============================================================================

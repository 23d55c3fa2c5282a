------------------------------ MODULE MCPages ------------------------------
(***************************************************************************)
(* Two events, one past event on the home page, and a user who may be      *)
(* outside of the only group.                                              *)
(***************************************************************************)
EXTENDS Pages, TLC

CONSTANTS MaxTime

MCTimes          == 0 .. MaxTime
MCCapacities     == 1 .. 1
MCAttendeeCounts == 0 .. 0

MCSymmetry == Permutations(Users) \cup Permutations(Events)

=============================================================================

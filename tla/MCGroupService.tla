--------------------------- MODULE MCGroupService ---------------------------
(***************************************************************************)
(* Two groups, enough users to have a creator and others, and enough       *)
(* invite ids to refresh each group's link.                                *)
(***************************************************************************)
EXTENDS GroupService, TLC

MCSymmetry == Permutations(Users) \cup Permutations(InviteIds) \cup Permutations(Groups)

=============================================================================

---------------------------- MODULE MCLoginFlow ----------------------------
(***************************************************************************)
(* One browser, with one tab or two.                                       *)
(***************************************************************************)
EXTENDS LoginFlow, TLC

MCSymmetry ==
  Permutations(Users) \cup Permutations(Tabs) \cup Permutations(Tokens)
    \cup Permutations(States) \cup Permutations(InviteIds) \cup Permutations(Grants)

=============================================================================

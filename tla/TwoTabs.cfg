SPECIFICATION Spec
CONSTANTS
  Users = {u1, u2}
  Grants = {p1, p2}
  Tabs = {t1, t2}
  Tokens = {k1, k2, k3}
  States = {s1}
  Groups = {g1}
  InviteIds = {}
  NoGroup = NoGroup
  None = None
SYMMETRY MCSymmetry
INVARIANTS
  PermissionsAsGranted

SPECIFICATION FairSpec
CONSTANTS
  Users = {u1}
  Grants = {p1}
  Tabs = {t1}
  Tokens = {k1, k2}
  States = {s1, s2}
  Groups = {g1}
  InviteIds = {i1}
  NoGroup = NoGroup
  None = None
INVARIANTS
  TypeOK
  LinkKept
PROPERTIES
  InviteSeenThrough

SPECIFICATION Spec
CONSTANTS
  Groups = {g1, g2}
  Users = {u1, u2, u3}
  InviteIds = {i1, i2, i3, i4}
  NoGroup = NoGroup

INVARIANTS
  CreatorStaysMember

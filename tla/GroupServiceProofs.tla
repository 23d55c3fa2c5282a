------------------------- MODULE GroupServiceProofs -------------------------
(***************************************************************************)
(* Theorems about the group service, for every set of groups, users and    *)
(* invite ids. The inductive invariant adds to CreatorIsMember that the    *)
(* links in table user_group are among the ids drawn: without it a fresh   *)
(* id might revive a link.                                                 *)
(***************************************************************************)
EXTENDS GroupService, TLAPS

LinksIssued == \A g \in Groups : Exists(g) => userGroup[g].inviteId \in issued

IInv == TypeOK /\ CreatorIsMember /\ LinksIssued

\* Every step of the group service keeps the types of its tables.
LEMMA NextTypeOK == TypeOK /\ [Next]_vars => TypeOK'
<1> SUFFICES ASSUME TypeOK, [Next]_vars PROVE TypeOK'
  OBVIOUS
<1> USE DEF TypeOK
<1>1. ASSUME NEW g \in Groups, NEW u \in Users, NEW i \in InviteIds,
             CreateAndAddMember(g, u, i)
      PROVE  TypeOK'
  BY <1>1 DEF CreateAndAddMember, NewGroup, AddMember, GroupRow
<1>2. ASSUME NEW g \in Groups, NEW u \in Users, NEW i \in InviteIds,
             AddMemberFromInvite(g, i, u)
      PROVE  TypeOK'
  BY <1>2 DEF AddMemberFromInvite, AddMember
<1>3. ASSUME NEW g \in Groups, NEW u \in Users, RemoveMember(g, u)
      PROVE  TypeOK'
  BY <1>3 DEF RemoveMember
<1>4. ASSUME NEW g \in Groups, NEW i \in InviteIds, RefreshInviteId(g, i)
      PROVE  TypeOK'
  <2> DEFINE row == [userGroup[g] EXCEPT !.inviteId = i]
  <2>1. row \in GroupRow
    BY <1>4 DEF RefreshInviteId, Exists, GroupRow
  <2>2. userGroup' = [userGroup EXCEPT ![g] = row] /\ UNCHANGED member /\ issued' = issued \cup {i}
    BY <1>4 DEF RefreshInviteId
  <2> HIDE DEF row
  <2> QED
    BY <2>1, <2>2
<1>5. ASSUME NEW g \in Groups, Delete(g)
      PROVE  TypeOK'
  <2> DEFINE row == [userGroup[g] EXCEPT !.isDeleted = TRUE]
  <2>1. row \in GroupRow
    BY <1>5 DEF Delete, Exists, GroupRow
  <2>2. userGroup' = [userGroup EXCEPT ![g] = row] /\ UNCHANGED <<member, issued>>
    BY <1>5 DEF Delete
  <2> HIDE DEF row
  <2> QED
    BY <2>1, <2>2
<1>6. CASE UNCHANGED vars
  BY <1>6 DEF vars
<1> QED
  BY <1>1, <1>2, <1>3, <1>4, <1>5, <1>6 DEF Next

\* IInv is an invariant of the group service.
THEOREM SpecIInv == Spec => []IInv
<1>1. Init => IInv
  BY DEF Init, IInv, TypeOK, CreatorIsMember, LinksIssued, Live, Exists
<1>2. IInv /\ [Next]_vars => IInv'
  <2> SUFFICES ASSUME IInv, [Next]_vars PROVE IInv'
    OBVIOUS
  <2> USE DEF IInv, TypeOK, CreatorIsMember, LinksIssued, Live, Exists, HasMember
  <2>1. ASSUME NEW g \in Groups, NEW u \in Users, NEW i \in InviteIds,
               CreateAndAddMember(g, u, i)
        PROVE  IInv'
    <3> DEFINE row == [creator |-> u, inviteId |-> i, isDeleted |-> FALSE]
    <3>1. row \in GroupRow /\ row.creator = u /\ row.inviteId = i
      BY DEF GroupRow
    <3>2. /\ userGroup' = [userGroup EXCEPT ![g] = row]
          /\ member' = member \cup {<<g, u>>}
          /\ issued' = issued \cup {i}
      BY <2>1 DEF CreateAndAddMember, NewGroup, AddMember
    <3> HIDE DEF row
    <3> QED
      BY <3>1, <3>2
  <2>2. ASSUME NEW g \in Groups, NEW u \in Users, NEW i \in InviteIds,
               AddMemberFromInvite(g, i, u)
        PROVE  IInv'
    BY <2>2 DEF AddMemberFromInvite, AddMember
  <2>3. ASSUME NEW g \in Groups, NEW u \in Users, RemoveMember(g, u)
        PROVE  IInv'
    BY <2>3 DEF RemoveMember, MayRemove
  <2>4. ASSUME NEW g \in Groups, NEW i \in InviteIds, RefreshInviteId(g, i)
        PROVE  IInv'
    <3> DEFINE row == [userGroup[g] EXCEPT !.inviteId = i]
    <3>1. userGroup[g] \in GroupRow
      BY <2>4 DEF RefreshInviteId
    <3>2. /\ row \in GroupRow
          /\ row.creator = userGroup[g].creator
          /\ row.isDeleted = userGroup[g].isDeleted
          /\ row.inviteId = i
      BY <3>1 DEF GroupRow
    <3>3. /\ userGroup' = [userGroup EXCEPT ![g] = row]
          /\ member' = member
          /\ issued' = issued \cup {i}
      BY <2>4 DEF RefreshInviteId
    <3> HIDE DEF row
    <3> QED
      BY <2>4, <3>2, <3>3 DEF RefreshInviteId
  <2>5. ASSUME NEW g \in Groups, Delete(g)
        PROVE  IInv'
    <3> DEFINE row == [userGroup[g] EXCEPT !.isDeleted = TRUE]
    <3>1. userGroup[g] \in GroupRow
      BY <2>5 DEF Delete
    <3>2. row \in GroupRow /\ row.isDeleted /\ row.inviteId = userGroup[g].inviteId
      BY <3>1 DEF GroupRow
    <3>3. /\ userGroup' = [userGroup EXCEPT ![g] = row]
          /\ member' = member
          /\ issued' = issued
      BY <2>5 DEF Delete
    <3> HIDE DEF row
    <3> QED
      BY <2>5, <3>2, <3>3 DEF Delete
  <2>6. CASE UNCHANGED vars
    BY <2>6 DEF vars
  <2> QED
    BY <2>1, <2>2, <2>3, <2>4, <2>5, <2>6 DEF Next
<1> QED
  BY <1>1, <1>2, PTL DEF Spec

\* The tables of groups and members, and the ids drawn, keep their types.
THEOREM TypeCorrect == Spec => []TypeOK
<1>1. IInv => TypeOK
  BY DEF IInv
<1> QED
  BY <1>1, SpecIInv, PTL

\* The creator of a group is a member of it for as long as it is not deleted.
THEOREM CreatorAlwaysMember == Spec => []CreatorIsMember
<1>1. IInv => CreatorIsMember
  BY DEF IInv
<1> QED
  BY <1>1, SpecIInv, PTL

\* A link that was replaced or deleted with its group never works again.
THEOREM RevokedForever == Spec => RevocationIsFinal
<1>1. IInv /\ [Next]_vars => [DeadLinksStayDead]_vars
  <2> SUFFICES ASSUME IInv, [Next]_vars,
                      NEW dead \in issued, dead \notin WorkingInvites,
                      NEW h \in Groups, Live(h)', userGroup'[h].inviteId = dead
               PROVE  FALSE
    <3>1. [Next]_vars => issued \subseteq issued'
      BY DEF Next, vars, CreateAndAddMember, AddMemberFromInvite, RemoveMember,
             RefreshInviteId, Delete
    <3> QED
      BY <3>1 DEF DeadLinksStayDead, WorkingInvites
  <2> USE DEF IInv, TypeOK, Live, Exists
  <2>0. ~ (Live(h) /\ userGroup[h].inviteId = dead)
    BY DEF WorkingInvites
  <2>1. ASSUME NEW g \in Groups, NEW u \in Users, NEW i \in InviteIds,
               CreateAndAddMember(g, u, i)
        PROVE  FALSE
    BY <2>0, <2>1 DEF CreateAndAddMember, NewGroup
  <2>2. ASSUME userGroup' = userGroup
        PROVE  FALSE
    BY <2>0, <2>2
  <2>3. ASSUME NEW g \in Groups, NEW i \in InviteIds, RefreshInviteId(g, i)
        PROVE  FALSE
    BY <2>0, <2>3 DEF RefreshInviteId, GroupRow
  <2>4. ASSUME NEW g \in Groups, Delete(g)
        PROVE  FALSE
    BY <2>0, <2>4 DEF Delete, GroupRow
  <2> QED
    BY <2>1, <2>2, <2>3, <2>4
    DEF Next, vars, AddMemberFromInvite, RemoveMember
<1> QED
  BY <1>1, SpecIInv, PTL DEF Spec, RevocationIsFinal

\* A deleted group stays deleted and gains no member (group/service.go:
\* addMemberFromInvite finds live groups only, a refresh keeps is_deleted).
THEOREM DeletedForever == Spec => DeletionIsFinal
<1>1. IInv /\ [Next]_vars => [DeletedGroupsShrink]_vars
  <2> SUFFICES ASSUME IInv, [Next]_vars,
                      NEW g \in Groups, Exists(g), userGroup[g].isDeleted
               PROVE  /\ userGroup'[g].isDeleted
                      /\ \A u \in Users : HasMember(g, u)' => HasMember(g, u)
    BY DEF DeletedGroupsShrink
  <2> USE DEF Exists, HasMember
  <2>0. userGroup \in [Groups -> GroupRow \cup {NoGroup}] /\ userGroup[g] \in GroupRow
    BY DEF IInv, TypeOK
  <2>1. ASSUME NEW h \in Groups, NEW u \in Users, NEW i \in InviteIds,
               CreateAndAddMember(h, u, i)
        PROVE  userGroup'[g] = userGroup[g] /\ \A v \in Users : HasMember(g, v)' => HasMember(g, v)
    BY <2>0, <2>1 DEF CreateAndAddMember, AddMember
  <2>2. ASSUME NEW h \in Groups, NEW u \in Users, NEW i \in InviteIds,
               AddMemberFromInvite(h, i, u)
        PROVE  userGroup'[g] = userGroup[g] /\ \A v \in Users : HasMember(g, v)' => HasMember(g, v)
    BY <2>0, <2>2 DEF AddMemberFromInvite, AddMember, HasInvite, Live
  <2>3. ASSUME NEW h \in Groups, NEW u \in Users, RemoveMember(h, u)
        PROVE  userGroup'[g] = userGroup[g] /\ \A v \in Users : HasMember(g, v)' => HasMember(g, v)
    BY <2>3 DEF RemoveMember
  <2>4. ASSUME NEW h \in Groups, NEW i \in InviteIds, RefreshInviteId(h, i)
        PROVE  userGroup'[g].isDeleted = userGroup[g].isDeleted /\ member' = member
    BY <2>0, <2>4 DEF RefreshInviteId, GroupRow
  <2>5. ASSUME NEW h \in Groups, Delete(h)
        PROVE  (g # h => userGroup'[g] = userGroup[g]) /\ member' = member
    BY <2>0, <2>5 DEF Delete
  <2>6. ASSUME Delete(g)
        PROVE  userGroup'[g].isDeleted = TRUE
    BY <2>0, <2>6 DEF Delete, GroupRow
  <2>7. CASE UNCHANGED vars
    BY <2>7 DEF vars
  <2> QED
    BY <2>1, <2>2, <2>3, <2>4, <2>5, <2>6, <2>7 DEF Next
<1> QED
  BY <1>1, SpecIInv, PTL DEF Spec, DeletionIsFinal

=============================================================================

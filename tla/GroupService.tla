---------------------------- MODULE GroupService ----------------------------
(***************************************************************************)
(* The group service (group/service.go): groups, their invite links and    *)
(* their members. One action per method that writes; a method that fails   *)
(* rolls its transaction back and changes nothing. Names and the order of  *)
(* lists are left out, so Update, which renames a group, is a stutter.     *)
(***************************************************************************)
EXTENDS FiniteSets

CONSTANTS
  Groups,     \* group ids
  Users,      \* user ids
  InviteIds,  \* invite ids: nanoids, never drawn twice
  NoGroup     \* there is no row in user_group for this id; also event.group_id NULL

GroupRow == [creator : Users, inviteId : InviteIds, isDeleted : BOOLEAN]

ASSUME NoGroupAssumption == NoGroup \notin GroupRow /\ NoGroup \notin Groups

VARIABLES
  userGroup,  \* table user_group
  member,     \* table user_group_member: pairs <<group, user>>
  issued      \* the invite ids drawn so far

vars == <<userGroup, member, issued>>

TypeOK ==
  /\ userGroup \in [Groups -> GroupRow \cup {NoGroup}]
  /\ member \subseteq Groups \X Users
  /\ issued \subseteq InviteIds

Init ==
  /\ userGroup = [g \in Groups |-> NoGroup]
  /\ member = {}
  /\ issued = {}

-----------------------------------------------------------------------------
Exists(g) == userGroup[g] # NoGroup

\* get finds the group.
Live(g) == Exists(g) /\ ~ userGroup[g].isDeleted

\* hasMember: it does not look at the group, deleted or not.
HasMember(g, u) == <<g, u>> \in member

\* UserCanAccess: no group means a public event.
UserCanAccess(g, u) == g = NoGroup \/ HasMember(g, u)

\* Mutant: deleted groups are found too.
HasInviteDeleted(g, i) == Exists(g) /\ userGroup[g].inviteId = i

\* getByInvite finds the group.
HasInvite(g, i) == Live(g) /\ userGroup[g].inviteId = i

\* create: the row that is inserted.
NewGroup(u, i) == [creator |-> u, inviteId |-> i, isDeleted |-> FALSE]

\* addMember: ON CONFLICT DO NOTHING.
AddMember(g, u) == member' = member \cup {<<g, u>>}

\* Mutant: the creator is compared with the wrong id.
MayRemoveAny(g, u) == ~ (Live(g) /\ userGroup[g].creator = g)

\* removeMember accepts the user. It ignores the error of get: without a live
\* group it compares the user with the creator of the zero Group, which is
\* nobody.
MayRemove(g, u) == ~ (Live(g) /\ userGroup[g].creator = u)

\* CreateAndAddMember with the fresh ids g and i. It drops the error of addMember,
\* whose INSERT is taken to succeed: after create the transaction holds SQLite's
\* write lock and the new group has no members to conflict with.
CreateAndAddMember(g, u, i) ==
  /\ ~ Exists(g)
  /\ i \notin issued
  /\ userGroup' = [userGroup EXCEPT ![g] = NewGroup(u, i)]
  /\ AddMember(g, u)
  /\ issued' = issued \cup {i}

\* Delete
Delete(g) ==
  /\ Exists(g)
  /\ userGroup' = [userGroup EXCEPT ![g].isDeleted = TRUE]
  /\ UNCHANGED <<member, issued>>

\* Mutant: addMember is given the invite id in place of the group's.
AddMemberToInvite(g, i, u) ==
  /\ HasInvite(g, i)
  /\ AddMember(i, u)
  /\ UNCHANGED <<userGroup, issued>>

\* AddMemberFromInvite
AddMemberFromInvite(g, i, u) ==
  /\ HasInvite(g, i)
  /\ AddMember(g, u)
  /\ UNCHANGED <<userGroup, issued>>

\* RemoveMember
RemoveMember(g, u) ==
  /\ MayRemove(g, u)
  /\ member' = member \ {<<g, u>>}
  /\ UNCHANGED <<userGroup, issued>>

\* Mutant: the link is only changed to another one, not to a fresh one.
RefreshToAnother(g, i) ==
  /\ Exists(g)
  /\ i # userGroup[g].inviteId
  /\ \A h \in Groups : Exists(h) => userGroup[h].inviteId # i
  /\ userGroup' = [userGroup EXCEPT ![g].inviteId = i]
  /\ issued' = issued \cup {i}
  /\ UNCHANGED member

\* RefreshInviteId: also of a deleted group.
RefreshInviteId(g, i) ==
  /\ Exists(g)
  /\ i \notin issued
  /\ userGroup' = [userGroup EXCEPT ![g].inviteId = i]
  /\ issued' = issued \cup {i}
  /\ UNCHANGED member

Next ==
  \/ \E g \in Groups, u \in Users, i \in InviteIds :
        \/ CreateAndAddMember(g, u, i)
        \/ AddMemberFromInvite(g, i, u)
  \/ \E g \in Groups, u \in Users : RemoveMember(g, u)
  \/ \E g \in Groups, i \in InviteIds : RefreshInviteId(g, i)
  \/ \E g \in Groups : Delete(g)

Spec == Init /\ [][Next]_vars

-----------------------------------------------------------------------------
\* The creator of a group that is not deleted is a member of it, whatever is
\* added, removed and refreshed: removeMember refuses to remove them.
CreatorIsMember ==
  \A g \in Groups : Live(g) => HasMember(g, userGroup[g].creator)

\* Membership grows only in a live group, and a deleted group stays deleted:
\* its members (who keep access to its events) can only become fewer.
DeletedGroupsShrink ==
  \A g \in Groups : Exists(g) /\ userGroup[g].isDeleted =>
    /\ userGroup'[g].isDeleted
    /\ \A u \in Users : HasMember(g, u)' => HasMember(g, u)

\* The invite links that work: getByInvite finds a group for them.
WorkingInvites == {userGroup[g].inviteId : g \in {h \in Groups : Live(h)}}

\* A link that was replaced, or whose group was deleted, never works again, for
\* this group or another one.
DeadLinksStayDead == issued \ WorkingInvites \subseteq issued' \ WorkingInvites'

RevocationIsFinal == [][DeadLinksStayDead]_vars

DeletionIsFinal == [][DeletedGroupsShrink]_vars

\* What removeMember's error promises without qualification: "cannot remove the
\* creator of a group". A group that was deleted is not excepted by it.
CreatorStaysMember ==
  \A g \in Groups : Exists(g) => HasMember(g, userGroup[g].creator)

=============================================================================

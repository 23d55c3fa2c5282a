----------------------------- MODULE AppTables -----------------------------
(***************************************************************************)
(* The tables of events and groups together, with the handlers that write  *)
(* them in one transaction. Which group an event belongs to is a column of *)
(* table event that the event service stores and never looks at. The       *)
(* handler that writes an answer is in RespondHandler.                     *)
(***************************************************************************)
EXTENDS EventService

CONSTANTS Groups, InviteIds, NoGroup  \* of GroupService

VARIABLES
  userGroup, member, issued,  \* of GroupService
  groupId    \* column group_id of table event, NoGroup for NULL

GS == INSTANCE GroupService

\* What stands for NULL is neither an id nor a row.
ASSUME NoGroupAssumption == NoGroup \notin GS!GroupRow /\ NoGroup \notin Groups

gsVars == <<userGroup, member, issued>>

TablesTypeOK ==
  /\ TypeOK
  /\ GS!TypeOK
  /\ groupId \in [Events -> Groups \cup {NoGroup}]

TablesInit ==
  /\ Init
  /\ GS!Init
  /\ groupId = [e \in Events |-> NoGroup]

\* What UserCanAccess decides for the group_id of an event.
CanAccess(e, u) == GS!UserCanAccess(groupId[e], u)

\* createEvent: the group comes from the form and need not be live any more.
CreateEvent(e, capacity, start, g) ==
  /\ Create(e, capacity, start)
  /\ groupId' = [groupId EXCEPT ![e] = g]

\* updateEvent: it writes neither the group nor the creator.
UpdateEvent(e, capacity, start) == Update(e, capacity, start) /\ UNCHANGED groupId

\* deleteEvent
DeleteEvent(e) == Delete(e) /\ UNCHANGED groupId

EventTables ==
  /\ \/ \E e \in Events, capacity \in Capacities, start \in Times :
          \/ \E g \in Groups \cup {NoGroup} : CreateEvent(e, capacity, start, g)
          \/ UpdateEvent(e, capacity, start)
     \/ \E e \in Events : DeleteEvent(e)
  /\ UNCHANGED gsVars

\* createGroup
CreateGroup(g, u, i) == GS!CreateAndAddMember(g, u, i)

\* inviteGroup, with a session user
InviteGroup(g, i, u) == GS!AddMemberFromInvite(g, i, u)

\* removeGroupMember: the user in the path need not be a member.
RemoveGroupMember(g, u) == GS!RemoveMember(g, u)

\* refreshInviteLinkGroup
RefreshInviteLinkGroup(g, i) == GS!RefreshInviteId(g, i)

\* deleteGroup; its events and members stay. updateGroup changes only a name.
DeleteGroup(g) == GS!Delete(g)

GroupTables ==
  /\ \/ \E g \in Groups, u \in Users, i \in InviteIds :
          CreateGroup(g, u, i) \/ InviteGroup(g, i, u)
     \/ \E g \in Groups, u \in Users : RemoveGroupMember(g, u)
     \/ \E g \in Groups, i \in InviteIds : RefreshInviteLinkGroup(g, i)
     \/ \E g \in Groups : DeleteGroup(g)
  /\ UNCHANGED <<vars, groupId>>

Tables == EventTables \/ GroupTables

=============================================================================

------------------------------- MODULE Pages -------------------------------
(***************************************************************************)
(* The pages that read events and groups: renderHome, renderEventDetails   *)
(* and renderGroupDetails. Each runs two transactions; between them, and   *)
(* before and after, the handlers of AppTables commit. (Answers are left   *)
(* out: no property here looks at them.)                                   *)
(*                                                                         *)
(* A page that only reads does not disturb another one, so one request is  *)
(* enough.                                                                 *)
(***************************************************************************)
EXTENDS AppTables

CONSTANTS
  PastLimit,  \* how many past events the home page lists
  NoId        \* the request has no user, or no id in its path

ASSUME PastLimitAssumption == PastLimit \in Nat \ {0}
ASSUME EventsAssumption == IsFiniteSet(Events)
ASSUME NoIdAssumption == NoId \notin Users \cup Events \cup Groups

VARIABLES
  now,       \* the wall clock, read by datetime()
  pc,        \* the transaction the request does next, "shown" once it is rendered
  viewer,    \* the session's user
  manager,   \* the session's permissions include modifying groups
  target,    \* the event or group in the path
  upcoming,  \* the events listed as upcoming
  past,      \* those listed as past, with their start
  allowed,   \* history: the events and groups that the viewer could access at
             \* some time since the request was sent
  steady     \* history: the events that were not deleted, that the viewer could
             \* access and that did not move all that time, if the clock was
             \* not set back

requestVars == <<pc, viewer, manager, target, upcoming, past>>
pageVars    == <<vars, gsVars, groupId, now, requestVars, allowed, steady>>

Steps == {"upcoming", "past", "event", "eventAccess", "groupAccess", "group"}

PageTypeOK ==
  /\ TablesTypeOK
  /\ now \in Times
  /\ pc \in Steps \cup {"idle", "shown"}
  /\ viewer \in Users \cup {NoId}
  /\ manager \in BOOLEAN
  /\ target \in Events \cup Groups \cup {NoId}
  /\ upcoming \subseteq Events
  /\ past \subseteq Events \X Times
  /\ Cardinality(past) <= PastLimit
  /\ allowed \subseteq Events \cup Groups
  /\ steady \subseteq Events

PageInit ==
  /\ TablesInit
  /\ now \in Times
  /\ pc = "idle" /\ viewer = NoId /\ manager = FALSE /\ target = NoId
  /\ upcoming = {} /\ past = {}
  /\ allowed = {} /\ steady = {}

-----------------------------------------------------------------------------
\* Whether user u could access an event or a group.
Accessible(u) ==
  {e \in Events : Exists(e) /\ CanAccess(e, u)} \cup {g \in Groups : GS!HasMember(g, u)}

\* The two conditions of list on every event.
Listable(e, u) == Live(e) /\ (groupId[e] = NoGroup \/ GS!HasMember(groupId[e], u))

\* list with Past.
IsPast(e) == now > event[e].start

\* Mutant: an event that starts now is not upcoming any more.
IsUpcomingStrict(e) == now < event[e].start

\* list with Upcoming.
IsUpcoming(e) == now <= event[e].start

\* The rows of a page.
Listed(T) == {<<e, event[e].start>> : e \in T}

\* Mutant: the limit is not added to the statement.
NewestUnlimited(S, T) == T = S

\* list with OrderByDesc and Limit: T are those that it returns of S. SQLite may
\* return events with the same start in any order.
Newest(S, T) ==
  /\ T \subseteq S
  /\ Cardinality(T) <= PastLimit
  /\ T # S => Cardinality(T) = PastLimit
  /\ \A e \in T, f \in S \ T : event[e].start >= event[f].start

-----------------------------------------------------------------------------
\* A request arrives, of a user that requireAuth lets through.
Send(step, id) ==
  /\ pc \in {"idle", "shown"}
  /\ pc' = step
  /\ viewer' \in Users
  /\ manager' \in BOOLEAN
  /\ target' = id
  /\ upcoming' = {} /\ past' = {}

\* renderHome lists the upcoming events first.
ListUpcoming ==
  /\ pc = "upcoming"
  /\ upcoming' = {e \in Events : Listable(e, viewer) /\ IsUpcoming(e)}
  /\ pc' = "past"
  /\ UNCHANGED <<viewer, manager, target, past>>

\* renderHome then lists the past ones, and is rendered.
ListPast ==
  /\ pc = "past"
  /\ \E T \in SUBSET Events :
       /\ Newest({e \in Events : Listable(e, viewer) /\ IsPast(e)}, T)
       /\ past' = Listed(T)
  /\ pc' = "shown"
  /\ UNCHANGED <<viewer, manager, target, upcoming>>

\* renderEventDetails: GetDetailed finds the event.
GetEvent ==
  /\ pc = "event"
  /\ Live(target)
  /\ pc' = "eventAccess"
  /\ UNCHANGED <<viewer, manager, target, upcoming, past>>

\* renderEventDetails: UserCanAccessError, after the event was read.
CheckEvent ==
  /\ pc = "eventAccess"
  /\ CanAccess(target, viewer)
  /\ pc' = "shown"
  /\ UNCHANGED <<viewer, manager, target, upcoming, past>>

\* Mutant: the id of the group is passed as NULL.
CheckGroupNull ==
  /\ pc = "groupAccess"
  /\ manager \/ GS!UserCanAccess(NoGroup, viewer)
  /\ pc' = "group"
  /\ UNCHANGED <<viewer, manager, target, upcoming, past>>

\* renderGroupDetails: UserCanAccessError, before the group is read, unless the
\* user may modify groups.
CheckGroup ==
  /\ pc = "groupAccess"
  /\ manager \/ GS!UserCanAccess(target, viewer)
  /\ pc' = "group"
  /\ UNCHANGED <<viewer, manager, target, upcoming, past>>

\* renderGroupDetails: GetDetailed finds the group.
GetGroup ==
  /\ pc = "group"
  /\ GS!Live(target)
  /\ pc' = "shown"
  /\ UNCHANGED <<viewer, manager, target, upcoming, past>>

\* The error page: nothing found, no access, or the database failed.
Fail ==
  /\ pc \in Steps
  /\ pc' = "idle" /\ viewer' = NoId /\ manager' = FALSE /\ target' = NoId
  /\ upcoming' = {} /\ past' = {}

\* The history variables, as every step updates them; a request that was sent
\* begins with all the events.
Track ==
  LET sent == pc \in {"idle", "shown"} /\ pc' \in Steps
  IN /\ allowed' = IF pc' = "idle" THEN {}
                   ELSE (IF sent THEN {} ELSE allowed) \cup Accessible(viewer)'
     /\ steady' = IF pc' = "idle" THEN {}
                  ELSE {e \in IF sent THEN Events ELSE steady :
                          /\ Exists(e) /\ (Live(e) /\ CanAccess(e, viewer))'
                          /\ event'[e].start = event[e].start
                          /\ now' >= now}

\* A step of the request; it only reads the tables, and the clock.
ReadOnly == UNCHANGED <<vars, gsVars, groupId, now>> /\ Track

\* The clock moves: usually ahead, but the host may set it back.
Tick == now' \in Times /\ UNCHANGED <<vars, gsVars, groupId>>

PageNext ==
  \/ Send("upcoming", NoId) /\ ReadOnly
  \/ \E e \in Events : Send("event", e) /\ ReadOnly
  \/ \E g \in Groups : Send("groupAccess", g) /\ ReadOnly
  \/ ListUpcoming /\ ReadOnly
  \/ ListPast /\ ReadOnly
  \/ GetEvent /\ ReadOnly
  \/ CheckEvent /\ ReadOnly
  \/ CheckGroup /\ ReadOnly
  \/ GetGroup /\ ReadOnly
  \/ Fail /\ ReadOnly
  \/ Tables /\ UNCHANGED <<now, requestVars>> /\ Track
  \/ Tick /\ UNCHANGED requestVars /\ Track

PageSpec == PageInit /\ [][PageNext]_pageVars

-----------------------------------------------------------------------------
(***************************************************************************)
(* Properties.                                                             *)
(***************************************************************************)

\* An event that the viewer could see all the time the home page was put together
\* is on it, upcoming or past, also when it began between the two lists; only
\* past events are left out, for as many that are at least as recent. It needs the
\* order of the two transactions, that their conditions leave no gap, and that the
\* SQL of list lets the viewer see all that UserCanAccess does.
HomeMissesNothing ==
  pc = "shown" /\ target = NoId =>
    \A e \in steady :
      \/ e \in upcoming \cup {row[1] : row \in past}
      \/ /\ Cardinality(past) = PastLimit
         /\ \A row \in past : row[2] >= event[e].start

\* None of the three pages shows an event or a group to a user who could at no time during the
\* request access it, whichever of the two transactions checks, and although
\* list repeats the condition of UserCanAccess in SQL. (The edit forms ask for a
\* permission instead: who may modify events sees any event there.)
OutsidersSeeNothing ==
  pc = "shown" =>
    /\ upcoming \cup {row[1] : row \in past} \subseteq allowed
    /\ target \in Events \cup Groups => target \in allowed \/ (target \in Groups /\ manager)

=============================================================================

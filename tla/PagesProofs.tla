----------------------------- MODULE PagesProofs -----------------------------
(***************************************************************************)
(* Theorems about the pages, for any number of events, groups and users    *)
(* and every limit: what the two transactions of a page show together,     *)
(* whatever is committed between them.                                     *)
(***************************************************************************)
EXTENDS Pages, EventServiceProofs

\* What the path of each page names.
Targets ==
  /\ pc \in {"upcoming", "past"} => target = NoId
  /\ pc \in {"event", "eventAccess"} => target \in Events
  /\ pc \in {"groupAccess", "group"} => target \in Groups

\* The first list has decided of the steady events which are upcoming, and those
\* that are not are past from then on.
Decided ==
  /\ \A e \in steady : e \in Events /\ Live(e) /\ Listable(e, viewer)
  /\ pc = "past" => \A e \in steady : e \in upcoming \/ IsPast(e)

\* What was listed, or found accessible, was so during the request.
Permitted ==
  /\ pc \in {"upcoming", "past", "shown"} =>
       upcoming \subseteq allowed /\ {row[1] : row \in past} \subseteq allowed
  /\ pc \in {"event", "eventAccess", "groupAccess", "group"} => upcoming = {} /\ past = {}
  /\ pc = "eventAccess" => Exists(target)
  /\ pc = "group" => target \in allowed \/ manager

\* The tables are what the event service leaves, and the clock shows a time.
TablesInv == IInv /\ now \in Times

PageInv ==
  /\ TablesInv
  /\ Targets
  /\ Decided
  /\ Permitted
  /\ HomeMissesNothing
  /\ OutsidersSeeNothing

\* The times of an event can be compared with each other and with the clock.
LEMMA EventTimes ==
  ASSUME TablesInv, NEW e \in Events, Exists(e)
  PROVE  event[e].start \in Nat /\ now \in Nat
BY TimesAssumption DEF TablesInv, IInv, TypeOK, Exists, EventRow

\* The rows of a page are as many as its events.
LEMMA ListedCardinality ==
  ASSUME NEW T \in SUBSET Events
  PROVE  Cardinality(Listed(T)) = Cardinality(T)
<1> DEFINE f == [e \in T |-> <<e, event[e].start>>]
<1>1. IsFiniteSet(T)
  BY EventsAssumption, FS_Subset
<1>2. f \in Bijection(T, Listed(T))
  BY DEF Bijection, Injection, Surjection, IsInjective, Listed
<1>3. ExistsBijection(T, Listed(T))
  BY <1>2 DEF ExistsBijection
<1> QED
  BY <1>1, <1>3, FS_Bijection

\* The handlers beside the page commit what the event service does, or nothing, and
\* the clock moves.
LEMMA TablesAreEvents ==
  ASSUME TablesInv, (Tables /\ UNCHANGED now) \/ Tick
  PROVE  TablesInv' /\ \A e \in Events : Exists(e) => Exists(e)'
<1>1. [Next]_vars
  BY DEF Tables, EventTables, GroupTables, CreateEvent, UpdateEvent, DeleteEvent, Next, Tick
<1>2. now' \in Times
  BY DEF TablesInv, Tick
<1> QED
  BY <1>1, <1>2, NextIInv, NextWaitlistManaged DEF TablesInv

\* What the history variables say after a step of a request in progress.
LEMMA Tracked ==
  ASSUME PageInv, Track, pc' # "idle", pc' \notin Steps \/ pc \in Steps
  PROVE  /\ \A e \in steady' :
              /\ e \in steady /\ e \in Events /\ Live(e) /\ Live(e)' /\ Listable(e, viewer)'
              /\ event'[e].start = event[e].start /\ now' >= now
         /\ allowed' = allowed \cup Accessible(viewer)'
<1>1. ~ (pc \in {"idle", "shown"} /\ pc' \in Steps)
  BY DEF Steps
<1> QED
  BY <1>1 DEF Track, PageInv, Decided, Listable, CanAccess, GS!UserCanAccess

\* A step of the request leaves the tables alone.
LEMMA ReadOnlyTables ==
  ASSUME PageInv, ReadOnly
  PROVE  /\ TablesInv' /\ Track
         /\ UNCHANGED <<event, response, now, userGroup, member, issued, groupId>>
BY DEF PageInv, ReadOnly, vars, gsVars, TablesInv, IInv, TypeOK, WaitlistManaged, Exists

\* A request is sent.
LEMMA SendStep ==
  ASSUME PageInv, ReadOnly, NEW step \in {"upcoming", "event", "groupAccess"},
         NEW id \in Events \cup Groups \cup {NoId}, Send(step, id),
         step = "upcoming" => id = NoId,
         step = "event" => id \in Events,
         step = "groupAccess" => id \in Groups
  PROVE  PageInv'
<1>1. TablesInv' /\ Track
  BY ReadOnlyTables
<1>2. /\ pc' = step /\ target' = id /\ upcoming' = {} /\ past' = {}
      /\ pc \in {"idle", "shown"} /\ pc' \in Steps
  BY DEF Send, Steps
<1>3. \A e \in steady' : e \in Events /\ Listable(e, viewer)'
  BY <1>1, <1>2 DEF Track, Listable, CanAccess, GS!UserCanAccess
<1>4. Decided'
  BY <1>2, <1>3 DEF Decided, Listable
<1>5. Targets' /\ Permitted' /\ HomeMissesNothing' /\ OutsidersSeeNothing'
  BY <1>2 DEF Targets, Permitted, HomeMissesNothing, OutsidersSeeNothing
<1> QED
  BY <1>1, <1>4, <1>5 DEF PageInv

\* The home page's first list.
LEMMA ListUpcomingStep ==
  ASSUME PageInv, ReadOnly, ListUpcoming
  PROVE  PageInv'
<1>1. TablesInv' /\ Track /\ UNCHANGED <<event, response, now, userGroup, member, issued, groupId>>
  BY ReadOnlyTables
<1>2. /\ pc = "upcoming" /\ pc' = "past" /\ viewer' = viewer /\ target' = target /\ past' = past
      /\ upcoming' = {e \in Events : Listable(e, viewer) /\ IsUpcoming(e)}
  BY DEF ListUpcoming
<1>3. /\ \A e \in steady' : e \in steady /\ e \in Events /\ Live(e) /\ Live(e)' /\ Listable(e, viewer)'
      /\ allowed' = allowed \cup Accessible(viewer)'
  BY <1>1, <1>2, Tracked DEF Steps
<1>4. Decided'
  <2>1. ASSUME NEW e \in steady'
        PROVE  e \in upcoming' \/ IsPast(e)'
    <3>1. event[e].start \in Nat /\ now \in Nat
      BY <1>3, <2>1, EventTimes DEF PageInv, Live
    <3>2. Listable(e, viewer)
      BY <1>3, <2>1 DEF PageInv, Decided
    <3> QED
      BY <1>1, <1>2, <1>3, <2>1, <3>1, <3>2 DEF IsUpcoming, IsPast
  <2> QED
    BY <1>2, <1>3, <2>1 DEF Decided
<1>5. upcoming' \subseteq Accessible(viewer)'
  BY <1>1, <1>2 DEF Listable, Live, Exists, Accessible, CanAccess, GS!UserCanAccess, GS!HasMember
<1>6. Permitted'
  BY <1>2, <1>3, <1>5 DEF PageInv, Permitted
<1>7. Targets' /\ HomeMissesNothing' /\ OutsidersSeeNothing'
  BY <1>2 DEF PageInv, Targets, HomeMissesNothing, OutsidersSeeNothing
<1> QED
  BY <1>1, <1>4, <1>6, <1>7 DEF PageInv

\* The home page's second list.
LEMMA ListPastStep ==
  ASSUME PageInv, ReadOnly, ListPast
  PROVE  PageInv'
<1>1. TablesInv' /\ Track /\ UNCHANGED <<event, response, now, userGroup, member, issued, groupId>>
  BY ReadOnlyTables
<1> DEFINE S == {e \in Events : Listable(e, viewer) /\ IsPast(e)}
<1>2. PICK T \in SUBSET Events : Newest(S, T) /\ past' = Listed(T)
  BY DEF ListPast
<1>3. /\ pc = "past" /\ pc' = "shown" /\ UNCHANGED <<viewer, target, upcoming, manager>>
      /\ target = NoId
  BY DEF ListPast, PageInv, Targets
<1>4. /\ \A e \in steady' : e \in steady /\ e \in Events /\ Live(e) /\ Live(e)' /\ Listable(e, viewer)'
      /\ allowed' = allowed \cup Accessible(viewer)'
  BY <1>1, <1>3, Tracked DEF Steps
<1>5. {row[1] : row \in past'} = T /\ \A row \in past' : row[1] \in T /\ row[2] = event[row[1]].start
  <2>1. \A e : <<e, event[e].start>>[1] = e /\ <<e, event[e].start>>[2] = event[e].start
    OBVIOUS
  <2>2. past' = {<<e, event[e].start>> : e \in T}
    BY <1>2 DEF Listed
  <2>3. \A row \in past' : row[1] \in T /\ row[2] = event[row[1]].start
    BY <2>1, <2>2
  <2>4. \A e \in T : \E row \in past' : row[1] = e
    BY <2>1, <2>2
  <2> QED
    BY <2>3, <2>4
<1>6. T \subseteq Accessible(viewer)'
  BY <1>1, <1>2, <1>3
  DEF Newest, Listable, Live, Exists, Accessible, CanAccess, GS!UserCanAccess, GS!HasMember
<1>7. Permitted'
  BY <1>3, <1>4, <1>5, <1>6 DEF PageInv, Permitted
<1>8. OutsidersSeeNothing'
  BY <1>3, <1>4, <1>5, <1>6, NoIdAssumption DEF PageInv, Permitted, OutsidersSeeNothing
<1>9. HomeMissesNothing'
  <2>1. ASSUME NEW e \in steady', e \notin upcoming', e \notin T
        PROVE  Cardinality(past') = PastLimit /\ \A row \in past' : row[2] >= event'[e].start
    <3>1. e \in S
      BY <1>3, <1>4, <2>1 DEF PageInv, Decided
    <3>2. Cardinality(T) = PastLimit /\ \A f \in T : event[f].start >= event[e].start
      BY <1>2, <2>1, <3>1 DEF Newest
    <3> QED
      BY <1>1, <1>2, <1>5, <3>2, ListedCardinality
  <2> QED
    BY <1>5, <2>1 DEF HomeMissesNothing
<1>10. Decided' /\ Targets'
  BY <1>3, <1>4 DEF Decided, Targets
<1> QED
  BY <1>1, <1>7, <1>8, <1>9, <1>10 DEF PageInv

\* The transactions of the other two pages.
LEMMA DetailSteps ==
  ASSUME PageInv, ReadOnly, GetEvent \/ CheckEvent \/ CheckGroup \/ GetGroup
  PROVE  PageInv'
<1>1. TablesInv' /\ Track /\ UNCHANGED <<event, response, now, userGroup, member, issued, groupId>>
  BY ReadOnlyTables
<1>2. /\ pc \in {"event", "eventAccess", "groupAccess", "group"}
      /\ pc' \in {"eventAccess", "group", "shown"}
      /\ UNCHANGED <<viewer, target, upcoming, past, manager>>
      /\ upcoming = {} /\ past = {} /\ target \in Events \cup Groups /\ target # NoId
  BY NoIdAssumption DEF GetEvent, CheckEvent, CheckGroup, GetGroup, PageInv, Targets, Permitted
<1>3. /\ \A e \in steady' : e \in Events /\ Live(e)' /\ Listable(e, viewer)'
      /\ allowed' = allowed \cup Accessible(viewer)'
  BY <1>1, <1>2, Tracked DEF Steps
<1>4. Decided' /\ HomeMissesNothing'
  BY <1>2, <1>3 DEF Decided, HomeMissesNothing
<1>5. CASE GetEvent
  <2>1. Exists(target)' /\ target \in Events /\ pc' = "eventAccess"
    BY <1>1, <1>2, <1>5 DEF GetEvent, Live, Exists, PageInv, Targets
  <2> QED
    BY <1>1, <1>2, <1>4, <2>1 DEF PageInv, Targets, Permitted, OutsidersSeeNothing
<1>6. CASE CheckEvent
  <2>1. /\ pc' = "shown" /\ target \in Events /\ Exists(target) /\ CanAccess(target, viewer)
    BY <1>6 DEF CheckEvent, PageInv, Targets, Permitted
  <2>2. target \in Accessible(viewer)'
    BY <1>1, <1>2, <2>1 DEF Accessible, Exists, CanAccess, GS!UserCanAccess, GS!HasMember
  <2> QED
    BY <1>1, <1>2, <1>3, <1>4, <2>1, <2>2 DEF PageInv, Targets, Permitted, OutsidersSeeNothing
<1>7. CASE CheckGroup
  <2>1. /\ pc' = "group" /\ target \in Groups
        /\ manager \/ GS!UserCanAccess(target, viewer)
    BY <1>7 DEF CheckGroup, PageInv, Targets
  <2>2. manager \/ target \in Accessible(viewer)'
    BY <1>1, <1>2, <2>1, NoGroupAssumption DEF Accessible, GS!UserCanAccess, GS!HasMember
  <2> QED
    BY <1>1, <1>2, <1>3, <1>4, <2>1, <2>2 DEF PageInv, Targets, Permitted, OutsidersSeeNothing
<1>8. CASE GetGroup
  <2>1. pc' = "shown" /\ target \in Groups /\ (target \in allowed \/ manager)
    BY <1>8 DEF GetGroup, PageInv, Targets, Permitted
  <2> QED
    BY <1>1, <1>2, <1>3, <1>4, <2>1 DEF PageInv, Targets, Permitted, OutsidersSeeNothing
<1> QED
  BY <1>5, <1>6, <1>7, <1>8

\* The error page.
LEMMA FailStep ==
  ASSUME PageInv, ReadOnly, Fail
  PROVE  PageInv'
<1>1. TablesInv' /\ Track
  BY ReadOnlyTables
<1>2. pc' = "idle" /\ steady' = {}
  BY <1>1 DEF Fail, Track
<1> QED
  BY <1>1, <1>2
  DEF PageInv, Targets, Decided, Permitted, HomeMissesNothing, OutsidersSeeNothing

\* Another handler commits, or the clock moves, between two transactions of the page,
\* before or after.
LEMMA TablesStep ==
  ASSUME PageInv, (Tables /\ UNCHANGED now) \/ Tick, UNCHANGED requestVars, Track
  PROVE  PageInv'
<1>1. TablesInv' /\ \A e \in Events : Exists(e) => Exists(e)'
  BY TablesAreEvents DEF PageInv
<1>2. UNCHANGED <<pc, viewer, manager, target, upcoming, past>>
  BY DEF requestVars
<1>3. CASE pc = "idle"
  BY <1>1, <1>2, <1>3
  DEF Track, PageInv, Targets, Decided, Permitted, HomeMissesNothing, OutsidersSeeNothing
<1>4. CASE pc # "idle"
  <2>1. /\ \A e \in steady' :
             /\ e \in steady /\ e \in Events /\ Live(e) /\ Live(e)' /\ Listable(e, viewer)'
             /\ event'[e].start = event[e].start /\ now' >= now
        /\ allowed' = allowed \cup Accessible(viewer)'
    BY <1>2, <1>4, Tracked
  <2>2. Decided'
    <3>1. ASSUME NEW e \in steady', pc = "past"
          PROVE  e \in upcoming \/ IsPast(e)'
      <4>1. event[e].start \in Nat /\ now \in Nat
        BY <2>1, <3>1, EventTimes DEF PageInv, Live
      <4>2. now' \in Nat
        BY <1>1, TimesAssumption DEF TablesInv
      <4> QED
        BY <2>1, <3>1, <4>1, <4>2 DEF PageInv, Decided, IsPast
    <3> QED
      BY <1>2, <2>1, <3>1 DEF Decided
  <2>3. Targets' /\ Permitted'
    BY <1>1, <1>2, <2>1 DEF PageInv, Targets, Permitted
  <2>4. HomeMissesNothing' /\ OutsidersSeeNothing'
    BY <1>2, <2>1 DEF PageInv, HomeMissesNothing, OutsidersSeeNothing
  <2> QED
    BY <1>1, <2>2, <2>3, <2>4 DEF PageInv
<1> QED
  BY <1>3, <1>4

\* PageInv is an invariant of the pages.
THEOREM SpecPageInv == PageSpec => []PageInv
<1>1. PageInit => PageInv
  BY InitIInv
  DEF PageInit, TablesInit, PageInv, TablesInv, Targets, Decided, Permitted, HomeMissesNothing,
      OutsidersSeeNothing
<1>2. PageInv /\ [PageNext]_pageVars => PageInv'
  <2> SUFFICES ASSUME PageInv, [PageNext]_pageVars PROVE PageInv'
    OBVIOUS
  <2>1. CASE /\ ReadOnly
             /\ \/ Send("upcoming", NoId)
                \/ \E e \in Events : Send("event", e)
                \/ \E g \in Groups : Send("groupAccess", g)
    BY <2>1, SendStep
  <2>2. CASE ListUpcoming /\ ReadOnly
    BY <2>2, ListUpcomingStep
  <2>3. CASE ListPast /\ ReadOnly
    BY <2>3, ListPastStep
  <2>4. CASE (GetEvent \/ CheckEvent \/ CheckGroup \/ GetGroup) /\ ReadOnly
    BY <2>4, DetailSteps
  <2>5. CASE Fail /\ ReadOnly
    BY <2>5, FailStep
  <2>6. CASE ((Tables /\ UNCHANGED now) \/ Tick) /\ UNCHANGED requestVars /\ Track
    BY <2>6, TablesStep
  <2>7. CASE UNCHANGED pageVars
    BY <2>7
    DEF pageVars, requestVars, vars, gsVars, PageInv, TablesInv, IInv, TypeOK, WaitlistManaged,
        Targets, Decided, Permitted, HomeMissesNothing, OutsidersSeeNothing,
        Exists, Live, Listable, IsPast, GS!HasMember
  <2> QED
    BY <2>1, <2>2, <2>3, <2>4, <2>5, <2>6, <2>7 DEF PageNext
<1> QED
  BY <1>1, <1>2, PTL DEF PageSpec

\* renderHome never loses an event between its two lists.
THEOREM HomeNeverMisses == PageSpec => []HomeMissesNothing
<1>1. PageInv => HomeMissesNothing
  BY DEF PageInv
<1> QED
  BY <1>1, SpecPageInv, PTL

\* None of the three pages shows what its viewer could at no time during the request access.
THEOREM OutsidersNeverSee == PageSpec => []OutsidersSeeNothing
<1>1. PageInv => OutsidersSeeNothing
  BY DEF PageInv
<1> QED
  BY <1>1, SpecPageInv, PTL

-----------------------------------------------------------------------------
GSP == INSTANCE GroupServiceProofs

\* The group service's lemma, about its tables here.
LEMMA NextGroupTypeOK == GS!TypeOK /\ [GS!Next]_gsVars => GS!TypeOK'
<1>1. (GS!TypeOK <=> GSP!TypeOK) /\ (GS!TypeOK' <=> GSP!TypeOK')
  BY DEF GS!TypeOK, GSP!TypeOK, GS!GroupRow, GSP!GroupRow
<1>2. [GS!Next]_gsVars <=> [GSP!Next]_(GSP!vars)
  BY DEF GS!Next, GSP!Next, gsVars, GSP!vars,
     GS!CreateAndAddMember, GS!AddMemberFromInvite, GS!RemoveMember, GS!RefreshInviteId,
     GS!Delete, GS!Exists, GS!Live, GS!HasInvite, GS!NewGroup, GS!AddMember, GS!MayRemove,
     GSP!CreateAndAddMember, GSP!AddMemberFromInvite, GSP!RemoveMember,
     GSP!RefreshInviteId, GSP!Delete, GSP!Exists, GSP!Live, GSP!HasInvite, GSP!NewGroup,
     GSP!AddMember, GSP!MayRemove
<1>3. NoGroup \notin GSP!GroupRow
  BY NoGroupAssumption DEF GS!GroupRow, GSP!GroupRow
<1> QED
  BY <1>1, <1>2, <1>3, NoGroupAssumption, GSP!NextTypeOK

\* The tables that the event service does not look at.
GroupTypes == GS!TypeOK /\ groupId \in [Events -> Groups \cup {NoGroup}]

LEMMA TablesGroupTypes ==
  ASSUME GroupTypes, Tables
  PROVE  GroupTypes'
<1>1. [GS!Next]_gsVars
  BY DEF Tables, EventTables, GroupTables, CreateGroup, InviteGroup, RemoveGroupMember,
         RefreshInviteLinkGroup, DeleteGroup, GS!Next
<1>2. groupId' \in [Events -> Groups \cup {NoGroup}]
  BY DEF GroupTypes, Tables, EventTables, GroupTables, CreateEvent, UpdateEvent, DeleteEvent
<1> QED
  BY <1>1, <1>2, NextGroupTypeOK DEF GroupTypes

\* The history variables name events and groups.
LEMMA TrackTypes ==
  ASSUME Track, allowed \subseteq Events \cup Groups, steady \subseteq Events
  PROVE  allowed' \subseteq Events \cup Groups /\ steady' \subseteq Events
<1>1. Accessible(viewer)' \subseteq Events \cup Groups
  BY DEF Accessible
<1> QED
  BY <1>1 DEF Track

\* A list of the past has at most PastLimit rows.
LEMMA PastTypes ==
  ASSUME TypeOK, NEW T, Newest({e \in Events : Listable(e, viewer) /\ IsPast(e)}, T)
  PROVE  Listed(T) \subseteq Events \X Times /\ Cardinality(Listed(T)) <= PastLimit
<1>1. T \in SUBSET Events /\ \A e \in T : event[e].start \in Times
  BY DEF Newest, Listable, Live, Exists, TypeOK, EventRow
<1>2. Cardinality(Listed(T)) <= PastLimit
  BY <1>1, ListedCardinality DEF Newest
<1> QED
  BY <1>1, <1>2 DEF Listed

\* The tables, the request and what it lists keep their types.
THEOREM PageTypeCorrect == PageSpec => []PageTypeOK
<1>1. PageInit => PageTypeOK
  <2> SUFFICES ASSUME PageInit PROVE PageTypeOK
    OBVIOUS
  <2>1. TablesTypeOK
    BY InitIInv DEF PageInit, TablesInit, IInv, TablesTypeOK, GS!Init, GS!TypeOK
  <2>2. Cardinality({}) <= PastLimit
    BY PastLimitAssumption, FS_EmptySet
  <2> QED
    BY <2>1, <2>2 DEF PageInit, PageTypeOK
<1>2. PageInv /\ PageInv' /\ PageTypeOK /\ [PageNext]_pageVars => PageTypeOK'
  <2> SUFFICES ASSUME PageInv, PageInv', PageTypeOK, [PageNext]_pageVars PROVE PageTypeOK'
    OBVIOUS
  <2>1. TypeOK /\ TypeOK' /\ now' \in Times /\ GroupTypes
    BY DEF PageInv, TablesInv, IInv, PageTypeOK, TablesTypeOK, GroupTypes
  <2>2. /\ Cardinality({}) <= PastLimit
        /\ NoId \in Users \cup {NoId} /\ FALSE \in BOOLEAN
    BY PastLimitAssumption, FS_EmptySet
  <2>3. CASE UNCHANGED pageVars
    BY <2>1, <2>3
    DEF pageVars, requestVars, gsVars, PageTypeOK, TablesTypeOK, GS!TypeOK
  <2>4. CASE ((Tables /\ UNCHANGED now) \/ Tick) /\ UNCHANGED requestVars /\ Track
    <3>1. GroupTypes'
      BY <2>1, <2>4, TablesGroupTypes DEF Tick, gsVars, GroupTypes, GS!TypeOK
    <3>2. allowed' \subseteq Events \cup Groups /\ steady' \subseteq Events
      BY <2>4, TrackTypes DEF PageTypeOK
    <3> QED
      BY <2>1, <2>4, <3>1, <3>2 DEF requestVars, PageTypeOK, TablesTypeOK, GroupTypes
  <2>5. ASSUME ReadOnly,
               /\ pc' \in Steps \cup {"idle", "shown"}
               /\ viewer' \in Users \cup {NoId} /\ manager' \in BOOLEAN
               /\ target' \in Events \cup Groups \cup {NoId}
               /\ upcoming' \subseteq Events
               /\ past' \subseteq Events \X Times /\ Cardinality(past') <= PastLimit
        PROVE  PageTypeOK'
    <3>1. GroupTypes'
      BY <2>1, <2>5 DEF ReadOnly, gsVars, GroupTypes, GS!TypeOK
    <3>2. allowed' \subseteq Events \cup Groups /\ steady' \subseteq Events
      BY <2>5, TrackTypes DEF ReadOnly, PageTypeOK
    <3> QED
      BY <2>1, <2>5, <3>1, <3>2 DEF PageTypeOK, TablesTypeOK, GroupTypes
  <2>6. ASSUME NEW step \in {"upcoming", "event", "groupAccess"},
               NEW id \in Events \cup Groups \cup {NoId}, Send(step, id), ReadOnly
        PROVE  PageTypeOK'
    BY <2>2, <2>5, <2>6 DEF Send, Steps
  <2>7. CASE (ListUpcoming \/ GetEvent \/ CheckEvent \/ CheckGroup \/ GetGroup) /\ ReadOnly
    BY <2>5, <2>7
    DEF ListUpcoming, GetEvent, CheckEvent, CheckGroup, GetGroup, PageTypeOK, Steps
  <2>8. CASE ListPast /\ ReadOnly
    BY <2>1, <2>5, <2>8, PastTypes DEF ListPast, PageTypeOK, Steps
  <2>9. CASE Fail /\ ReadOnly
    BY <2>2, <2>5, <2>9 DEF Fail, Steps
  <2> QED
    BY <2>3, <2>4, <2>6, <2>7, <2>8, <2>9 DEF PageNext
<1> QED
  BY <1>1, <1>2, SpecPageInv, PTL DEF PageSpec

=============================================================================

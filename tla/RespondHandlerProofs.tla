------------------------ MODULE RespondHandlerProofs ------------------------
(***************************************************************************)
(* Theorems about respondEvent served concurrently with the other          *)
(* handlers, for any number of requests, users, events and groups.         *)
(*                                                                         *)
(* First, the whole implements the event service, so that what is proved   *)
(* of the service holds here. Then AuditTellsTruth,                        *)
(* by an invariant that adds what the mutex gives: one request is between  *)
(* its transactions, and while it has answered but not yet logged, nobody  *)
(* else can change the answer.                                             *)
(***************************************************************************)
EXTENDS RespondHandler, EventServiceProofs

\* What the handler's own variables satisfy: a request has its form for as long
\* as it is served, and only the holder of the mutex is past lock.Lock().
Control ==
  /\ lock \in Requests \cup {NoRequest}
  /\ pc \in [Requests -> {"idle", "lock"} \cup Critical]
  /\ req \in [Requests -> RequestType \cup {NoRequest}]
  /\ \A r \in Requests : pc[r] = "idle" <=> req[r] = NoRequest
  /\ \A r \in Requests : pc[r] \in Critical => lock = r

\* The form of a request that is being served.
LEMMA ServedForm ==
  ASSUME Control, NEW r \in Requests, pc[r] # "idle"
  PROVE  /\ req[r] \in RequestType
         /\ req[r].user \in Users
         /\ req[r].event \in Events
         /\ req[r].attendeeCount \in AttendeeCounts
<1>1. req[r] \in RequestType
  BY DEF Control
<1> QED
  BY <1>1 DEF RequestType

LEMMA InitControl == AppInit => Control
BY DEF AppInit, Control, Critical

LEMMA NextControl == Control /\ [AppNext]_appVars => Control'
<1> SUFFICES ASSUME Control, [AppNext]_appVars PROVE Control'
  OBVIOUS
<1> USE DEF Control, Critical
<1>1. ASSUME NEW r \in Requests, Send(r)
      PROVE  Control'
  <2>1. PICK q \in RequestType : req' = [req EXCEPT ![r] = q]
    BY <1>1 DEF Send
  <2>2. q # NoRequest
    BY NoRequestAssumption
  <2> QED
    BY <1>1, <2>1, <2>2 DEF Send
<1>2. ASSUME NEW r \in Requests, Lock(r)
      PROVE  Control'
  BY <1>2, NoRequestAssumption DEF Lock
<1>3. ASSUME NEW r \in Requests, Decode(r) \/ Get(r) \/ CheckAccess(r) \/ Answer(r)
      PROVE  Control'
  BY <1>3 DEF Decode, Get, CheckAccess, Answer
<1>4. ASSUME NEW r \in Requests, Fail(r) \/ Audit(r)
      PROVE  Control'
  BY <1>4 DEF Fail, Audit, Return
<1>5. CASE Restart
  BY <1>5 DEF Restart
<1>6. CASE UNCHANGED handlerVars
  BY <1>6 DEF handlerVars
<1> QED
  BY <1>1, <1>2, <1>3, <1>4, <1>5, <1>6 DEF AppNext, HandlerOnly, appVars

LEMMA AlwaysControl == AppSpec => []Control
BY InitControl, NextControl, PTL DEF AppSpec

-----------------------------------------------------------------------------
\* The mutex has a holder that is still in the handler, and only one.
Held == \A r \in Requests : lock = r <=> pc[r] \in Critical

\* Every return of respondEvent, and a restart, releases the mutex: whoever waits for
\* it waits for a request that is being served, never for one that is gone.
THEOREM MutexNeverLost == AppSpec => []Held
<1>1. AppInit => Held
  BY NoRequestAssumption DEF AppInit, Held, Critical
<1>2. Control /\ Held /\ [AppNext]_appVars => Held'
  <2> SUFFICES ASSUME Control, Held, [AppNext]_appVars PROVE Held'
    OBVIOUS
  <2> USE DEF Control, Held, Critical
  <2>1. ASSUME NEW r \in Requests, Send(r)
        PROVE  Held'
    BY <2>1 DEF Send
  <2>2. ASSUME NEW r \in Requests, Lock(r)
        PROVE  Held'
    BY <2>2, NoRequestAssumption DEF Lock
  <2>3. ASSUME NEW r \in Requests, Decode(r) \/ Get(r) \/ CheckAccess(r) \/ Answer(r)
        PROVE  Held'
    BY <2>3 DEF Decode, Get, CheckAccess, Answer
  <2>4. ASSUME NEW r \in Requests, Fail(r) \/ Audit(r)
        PROVE  Held'
    BY <2>4, NoRequestAssumption DEF Fail, Audit, Return
  <2>5. CASE Restart
    BY <2>5, NoRequestAssumption DEF Restart
  <2>6. CASE UNCHANGED handlerVars
    BY <2>6 DEF handlerVars
  <2> QED
    BY <2>1, <2>2, <2>3, <2>4, <2>5, <2>6 DEF AppNext, HandlerOnly, appVars
<1> QED
  BY <1>1, <1>2, AlwaysControl, PTL DEF AppSpec

\* The most steps that request r has yet to take.
Left(r) ==
  CASE pc[r] = "idle"   -> 0
    [] pc[r] = "audit"  -> 1
    [] pc[r] = "answer" -> 2
    [] pc[r] = "access" -> 3
    [] pc[r] = "get"    -> 4
    [] pc[r] = "decode" -> 5
    [] pc[r] = "lock"   -> 6

\* A step of r is one of the holder of the mutex or takes it when it is free, and leaves
\* r with fewer to take and the others with as many; only a request that is sent adds.
RunsOut ==
  \A r \in Requests :
    /\ Advance(r) \/ Acquire(r) => /\ lock = IF pc[r] = "lock" THEN NoRequest ELSE r
                                   /\ Left(r)' < Left(r)
                                   /\ \A q \in Requests \ {r} : Left(q)' = Left(q)
    /\ Left(r)' > Left(r) => pc[r] = "idle"

\* respondEvent takes at most six steps and never goes back, so a holder keeps the mutex
\* for at most five of its own, which nobody else can undo: with MutexNeverLost, what
\* EveryRequestReturns needs beside the fairness of the scheduler.
THEOREM RequestsRunOut == AppSpec => [][RunsOut]_appVars
<1>1. Control /\ Control' /\ [AppNext]_appVars => [RunsOut]_appVars
  <2> SUFFICES ASSUME Control, Control', AppNext, NEW r \in Requests
               PROVE  /\ Advance(r) \/ Acquire(r) =>
                           /\ lock = IF pc[r] = "lock" THEN NoRequest ELSE r
                           /\ Left(r)' < Left(r)
                           /\ \A q \in Requests \ {r} : Left(q)' = Left(q)
                      /\ Left(r)' > Left(r) => pc[r] = "idle"
    BY DEF RunsOut
  <2>1. /\ pc \in [Requests -> {"idle", "lock", "decode", "get", "access", "answer", "audit"}]
        /\ pc' \in [Requests -> {"idle", "lock", "decode", "get", "access", "answer", "audit"}]
        /\ \A q \in Requests : pc[q] \notin {"idle", "lock"} => lock = q
    BY DEF Control, Critical
  <2>2. ASSUME NEW q \in Requests, pc'[q] = pc[q]
        PROVE  Left(q)' = Left(q)
    BY <2>2 DEF Left
  <2>3. \A q \in Requests : Left(q) \in 0 .. 6 /\ Left(q)' \in 0 .. 6
    BY <2>1 DEF Left
  <2>4. \A q \in Requests : /\ pc[q] # "idle" => Left(q) > 0
                            /\ pc'[q] = "idle" => Left(q)' = 0
    BY <2>1 DEF Left
  <2>5. ASSUME NEW o \in Requests, Advance(o) \/ Acquire(o)
        PROVE  /\ lock = IF pc[o] = "lock" THEN NoRequest ELSE o
               /\ Left(o)' < Left(o)
               /\ \A q \in Requests \ {o} : Left(q)' = Left(q)
    <3>1. /\ \A q \in Requests \ {o} : pc'[q] = pc[q]
          /\ \/ pc[o] = "lock" /\ lock = NoRequest /\ pc'[o] = "decode"
             \/ pc[o] = "decode" /\ pc'[o] = "get"
             \/ pc[o] = "get" /\ pc'[o] = "access"
             \/ pc[o] = "access" /\ pc'[o] = "answer"
             \/ pc[o] = "answer" /\ pc'[o] = "audit"
             \/ pc[o] \notin {"idle", "lock"} /\ pc'[o] = "idle"
      BY <2>1, <2>5
      DEF Advance, Acquire, Lock, Decode, Get, CheckAccess, Answer, Fail, Audit, Return
    <3>2. lock = IF pc[o] = "lock" THEN NoRequest ELSE o
      BY <2>1, <3>1
    <3>3. Left(o)' < Left(o)
      BY <2>1, <3>1 DEF Left
    <3> QED
      BY <2>2, <3>1, <3>2, <3>3
  <2>6. Left(r)' > Left(r) => pc[r] = "idle"
    <3>1. ASSUME NEW o \in Requests, Send(o)
          PROVE  pc'[r] = pc[r] \/ pc[r] = "idle"
      BY <2>1, <3>1 DEF Send
    <3>2. ASSUME NEW o \in Requests, Advance(o) \/ Acquire(o)
          PROVE  Left(r)' = Left(r) \/ Left(r)' < Left(r)
      BY <2>5, <3>2
    <3>3. CASE Restart
      BY <2>3, <2>4, <3>3 DEF Restart
    <3>4. CASE UNCHANGED handlerVars
      BY <2>2, <2>3, <3>4 DEF handlerVars
    <3> QED
      BY <2>2, <2>3, <3>1, <3>2, <3>3, <3>4 DEF AppNext, Advance, Acquire
  <2> QED
    BY <2>5, <2>6
<1> QED
  BY <1>1, AlwaysControl, PTL DEF AppSpec

-----------------------------------------------------------------------------
\* A step of the application is a step of the event service or leaves its
\* tables as they are.
LEMMA AppStepIsEventStep == Control /\ [AppNext]_appVars => [Next]_vars
<1> SUFFICES ASSUME Control, [AppNext]_appVars PROVE [Next]_vars
  OBVIOUS
<1>1. CASE UNCHANGED vars
  BY <1>1
<1>2. ASSUME NEW r \in Requests, Answer(r)
      PROVE  Next
  <2>1. pc[r] # "idle"
    BY <1>2 DEF Answer
  <2> QED
    BY <1>2, <2>1, ServedForm DEF Answer, Next
<1>3. ASSUME NEW e \in Events, NEW capacity \in Capacities, NEW start \in Times,
             NEW g \in Groups \cup {NoGroup}, CreateEvent(e, capacity, start, g)
      PROVE  Next
  BY <1>3 DEF CreateEvent, Next
<1>4. ASSUME NEW e \in Events, NEW capacity \in Capacities, NEW start \in Times,
             UpdateEvent(e, capacity, start)
      PROVE  Next
  BY <1>4 DEF UpdateEvent, Next
<1>5. ASSUME NEW e \in Events, DeleteEvent(e)
      PROVE  Next
  BY <1>5 DEF DeleteEvent, Next
<1> QED
  BY <1>1, <1>2, <1>3, <1>4, <1>5 DEF AppNext, HandlerOnly, Tables, EventTables, GroupTables, appVars

\* By their definitions, the handlers write the event tables by actions of the event
\* service, so what is proved of that carries over.
LEMMA WritesAsEventService == AppSpec => Spec
<1>1. AppInit => Init
  BY DEF AppInit, TablesInit
<1> QED
  BY <1>1, AppStepIsEventStep, AlwaysControl, PTL DEF AppSpec, Spec

\* The promises of the event service about its waitlist hold while requests,
\* edits and restarts interleave.
THEOREM AppKeepsPromises ==
  AppSpec => [](WaitlistManaged /\ CapacityRespected /\ NoOvertaking /\ NoIdleSpots)
BY WritesAsEventService, WaitlistAlwaysManaged, CapacityAlwaysRespected,
   NeverOvertaken, NeverIdle, PTL

\* Nor does anything that runs beside an answer take a spot without a cause, or a place.
THEOREM AppKeepsResponses == AppSpec => ResponsesMoveForCause /\ PlacesKept
BY WritesAsEventService, SpotsMoveOnlyForCause, PlacesAlwaysKept

-----------------------------------------------------------------------------
\* HandleResponse stores the count it was given for its user, and nobody
\* else's changes.
LEMMA HandleResponseHeads ==
  ASSUME TypeOK, NEW e \in Events, NEW u \in Users, NEW count \in AttendeeCounts,
         NEW checked \in Times, NEW written \in Times,
         HandleResponse(e, u, count, checked, written)
  PROVE  /\ HeadsOf(response'[e], u) = count
         /\ \A f \in Events, v \in Users :
              <<f, v>> # <<e, u>> => HeadsOf(response'[f], v) = HeadsOf(response[f], v)
<1> DEFINE answered == Answered(response[e], u, count, written)
<1>1. count \in 0 .. MaxAttendeeCount
  BY AttendeeCountsAssumption, MaxAssumption DEF HandleResponse
<1>2. response[e] \in RowsType /\ event[e].capacity \in Int
  BY CapacitiesAssumption DEF TypeOK, HandleResponse, Live, Exists, EventRow
<1>3. answered \in RowsType
  BY <1>1, <1>2, AnsweredType DEF TypeOK
<1>4. response'[e] = ManageWaitlist(answered, event[e].capacity)
  BY DEF HandleResponse, TypeOK
<1>5. \A v \in Users : HeadsOf(response'[e], v) = HeadsOf(answered, v)
  <2> HIDE DEF answered
  <2> QED
    BY <1>2, <1>3, <1>4, ManageKeepsHeads
<1>6. HeadsOf(answered, u) = count
  <2>1. CASE count = 0
    BY <1>2, <2>1 DEF Answered, DeleteResponse, HeadsOf, RowsType
  <2>2. CASE count # 0 /\ response[e][u] = NoResponse
    <3> DEFINE row == [attendeeCount |-> count, createdAt |-> written, onWaitlist |-> FALSE]
    <3>1. answered[u] = row
      BY <1>2, <2>2 DEF Answered, UpdateResponse, RowsType
    <3>2. row \in Response /\ row.attendeeCount = count
      BY <1>1, <2>2, MaxAssumption DEF Response, TypeOK
    <3> QED
      BY <3>1, <3>2, NoRowAssumption DEF HeadsOf
  <2>3. CASE count # 0 /\ response[e][u] # NoResponse
    <3> DEFINE row == [response[e][u] EXCEPT !.attendeeCount = count]
    <3>1. answered[u] = row
      BY <1>2, <2>3 DEF Answered, UpdateResponse, RowsType
    <3>2. response[e][u] \in Response
      BY <1>2, <2>3 DEF RowsType
    <3>3. row \in Response /\ row.attendeeCount = count
      BY <1>1, <2>3, <3>2, MaxAssumption DEF Response
    <3> QED
      BY <3>1, <3>3, NoRowAssumption DEF HeadsOf
  <2> QED
    BY <2>1, <2>2, <2>3
<1>7. \A v \in Users \ {u} : HeadsOf(answered, v) = HeadsOf(response[e], v)
  BY <1>2 DEF Answered, DeleteResponse, UpdateResponse, HeadsOf, RowsType
<1>8. \A f \in Events \ {e} : response'[f] = response[f]
  BY DEF HandleResponse, TypeOK
<1> HIDE DEF answered
<1> QED
  BY <1>5, <1>6, <1>7, <1>8

\* No mutation beside the handler changes who comes to an event.
LEMMA TablesKeepHeads ==
  ASSUME TypeOK, Tables, NEW e \in Events, NEW u \in Users
  PROVE  HeadsOf(response'[e], u) = HeadsOf(response[e], u)
<1>1. CASE UNCHANGED response
  BY <1>1
<1>2. ASSUME NEW f \in Events, NEW capacity \in Capacities, NEW start \in Times,
             Update(f, capacity, start)
      PROVE  HeadsOf(response'[e], u) = HeadsOf(response[e], u)
  <2>1. CASE e = f
    BY <1>2, <2>1, CapacitiesAssumption, ManageKeepsHeads DEF Update, TypeOK
  <2>2. CASE e # f
    BY <1>2, <2>2 DEF Update, TypeOK
  <2> QED
    BY <2>1, <2>2
<1> QED
  BY <1>1, <1>2
  DEF Tables, EventTables, GroupTables, CreateEvent, UpdateEvent, DeleteEvent, Create, Delete, vars

\* What is stored for a request that has answered and not yet logged.
AnsweredStored ==
  \A r \in Requests : pc[r] = "audit" =>
    HeadsOf(response[req[r].event], req[r].user) = req[r].attendeeCount

AuditInv ==
  /\ AnsweredStored
  /\ auditlog \in [Events -> [Users -> Int]]
  /\ AuditTellsTruth

LEMMA InitAuditInv == AppInit => AuditInv
BY DEF AppInit, TablesInit, Init, AuditInv, AnsweredStored, AuditTellsTruth, HeadsOf

LEMMA NextAuditInv == Control /\ TypeOK /\ AuditInv /\ [AppNext]_appVars => AuditInv'
<1> SUFFICES ASSUME Control, TypeOK, AuditInv, [AppNext]_appVars
             PROVE  AuditInv'
  OBVIOUS
<1> USE DEF AuditInv
<1>1. ASSUME \A e \in Events, u \in Users :
               HeadsOf(response'[e], u) = HeadsOf(response[e], u),
             \A r \in Requests :
               /\ pc'[r] = "audit" <=> pc[r] = "audit"
               /\ pc[r] = "audit" => req'[r] = req[r],
             UNCHANGED <<auditlog, unlogged>>
      PROVE  AuditInv'
  <2>1. \A r \in Requests : pc[r] = "audit" => req[r].event \in Events /\ req[r].user \in Users
    BY ServedForm
  <2> QED
    BY <1>1, <2>1 DEF AnsweredStored, AuditTellsTruth
<1>2. ASSUME NEW r \in Requests, Send(r), UNCHANGED response
      PROVE  AuditInv'
  BY <1>1, <1>2 DEF Send, Control
<1>3. ASSUME NEW r \in Requests, Lock(r) \/ Decode(r) \/ Get(r) \/ CheckAccess(r),
             UNCHANGED response
      PROVE  AuditInv'
  BY <1>1, <1>3 DEF Lock, Decode, Get, CheckAccess, Control
<1>4. ASSUME NEW r \in Requests, Fail(r), UNCHANGED response
      PROVE  AuditInv'
  BY <1>1, <1>4 DEF Fail, Return, Control
<1>5. ASSUME NEW r \in Requests, Answer(r)
      PROVE  AuditInv'
  <2>1. /\ req[r].event \in Events /\ req[r].user \in Users
        /\ req[r].attendeeCount \in AttendeeCounts
    BY <1>5, ServedForm DEF Answer
  <2>2. PICK checked \in Times, written \in Times :
          HandleResponse(req[r].event, req[r].user, req[r].attendeeCount, checked, written)
    BY <1>5 DEF Answer
  <2>3. /\ HeadsOf(response'[req[r].event], req[r].user) = req[r].attendeeCount
        /\ \A f \in Events, v \in Users :
             <<f, v>> # <<req[r].event, req[r].user>>
               => HeadsOf(response'[f], v) = HeadsOf(response[f], v)
    BY <2>1, <2>2, HandleResponseHeads
  <2>4. \A q \in Requests \ {r} : pc[q] # "audit"
    BY <1>5 DEF Answer, Control, Critical
  <2>5. /\ pc' = [pc EXCEPT ![r] = "audit"] /\ pc \in [Requests -> {"idle", "lock"} \cup Critical]
        /\ UNCHANGED <<req, auditlog, unlogged>>
    BY <1>5 DEF Answer, Control, Critical
  <2>6. AnsweredStored'
    BY <2>3, <2>4, <2>5 DEF AnsweredStored
  <2>7. AuditTellsTruth'
    <3> SUFFICES ASSUME NEW e \in Events, NEW u \in Users, <<e, u>> \notin unlogged
                 PROVE  \/ \E q \in Requests : pc'[q] = "audit" /\ req[q].event = e /\ req[q].user = u
                        \/ auditlog[e][u] = HeadsOf(response'[e], u)
      BY <2>5 DEF AuditTellsTruth
    <3>1. CASE e = req[r].event /\ u = req[r].user
      BY <2>5, <3>1
    <3>2. CASE ~ (e = req[r].event /\ u = req[r].user)
      <4>1. HeadsOf(response'[e], u) = HeadsOf(response[e], u)
        BY <2>3, <3>2
      <4>2. auditlog[e][u] = HeadsOf(response[e], u)
        BY <1>5, <2>4 DEF AuditTellsTruth, Answer
      <4> QED
        BY <4>1, <4>2
    <3> QED
      BY <3>1, <3>2
  <2> QED
    BY <2>5, <2>6, <2>7
<1>6. ASSUME NEW r \in Requests, Audit(r), UNCHANGED response
      PROVE  AuditInv'
  <2> DEFINE e == req[r].event
             u == req[r].user
  <2>1. /\ e \in Events /\ u \in Users /\ req[r].attendeeCount \in Int
        /\ HeadsOf(response[e], u) = req[r].attendeeCount
    BY <1>6, ServedForm, AttendeeCountsAssumption DEF Audit, AnsweredStored
  <2>2. \A q \in Requests : pc[q] = "audit" => q = r
    BY <1>6 DEF Audit, Control, Critical
  <2>3. \A q \in Requests : pc'[q] # "audit"
    BY <1>6, <2>2 DEF Audit, Return, Control
  <2>4. \/ /\ auditlog' = [auditlog EXCEPT ![e][u] = req[r].attendeeCount]
           /\ unlogged' = unlogged \ {<<e, u>>}
        \/ /\ unlogged' = unlogged \cup {<<e, u>>}
           /\ UNCHANGED auditlog
    BY <1>6 DEF Audit
  <2>5. AnsweredStored'
    BY <2>3 DEF AnsweredStored
  <2>6. auditlog' \in [Events -> [Users -> Int]]
    BY <2>1, <2>4
  <2>7. AuditTellsTruth'
    <3> SUFFICES ASSUME NEW f \in Events, NEW v \in Users, <<f, v>> \notin unlogged'
                 PROVE  auditlog'[f][v] = HeadsOf(response[f], v)
      BY <1>6 DEF AuditTellsTruth
    <3>1. CASE <<f, v>> = <<e, u>>
      BY <2>1, <2>4, <3>1
    <3>2. CASE <<f, v>> # <<e, u>>
      <4>1. <<f, v>> \notin unlogged
        BY <2>4, <3>2
      <4>2. auditlog[f][v] = HeadsOf(response[f], v)
        BY <2>2, <3>2, <4>1 DEF AuditTellsTruth
      <4>3. auditlog'[f][v] = auditlog[f][v]
        BY <2>1, <2>4, <3>2
      <4> QED
        BY <4>2, <4>3
    <3> QED
      BY <3>1, <3>2
  <2> QED
    BY <2>5, <2>6, <2>7
<1>7. ASSUME Restart, UNCHANGED response
      PROVE  AuditInv'
  <2>1. AnsweredStored' /\ auditlog' = auditlog
    BY <1>7 DEF Restart, AnsweredStored
  <2>2. AuditTellsTruth'
    <3> SUFFICES ASSUME NEW e \in Events, NEW u \in Users, <<e, u>> \notin unlogged'
                 PROVE  auditlog[e][u] = HeadsOf(response[e], u)
      BY <1>7, <2>1 DEF AuditTellsTruth
    <3>1. /\ <<e, u>> \notin unlogged
          /\ \A r \in Requests : pc[r] = "audit" => <<req[r].event, req[r].user>> # <<e, u>>
      BY <1>7 DEF Restart
    <3> QED
      BY <3>1 DEF AuditTellsTruth
  <2> QED
    BY <2>1, <2>2
<1>8. CASE Tables /\ UNCHANGED handlerVars
  BY <1>1, <1>8, TablesKeepHeads DEF handlerVars
<1>9. CASE UNCHANGED appVars
  BY <1>1, <1>9 DEF appVars, vars, handlerVars
<1> QED
  BY <1>2, <1>3, <1>4, <1>5, <1>6, <1>7, <1>8, <1>9
  DEF AppNext, HandlerOnly, vars

\* The audit log never contradicts the stored answers: an entry is missing only
\* where its write failed or the process stopped, never in the wrong order.
THEOREM AuditAlwaysTellsTruth == AppSpec => []AuditTellsTruth
<1>1. AuditInv => AuditTellsTruth
  BY DEF AuditInv
<1> QED
  BY <1>1, InitAuditInv, NextAuditInv, AlwaysControl, WritesAsEventService,
     TypeCorrect, PTL DEF AppSpec

-----------------------------------------------------------------------------
\* An outsider's request has not passed the access check.
OutsidersInv ==
  /\ outsiders \subseteq Requests
  /\ \A r \in outsiders : pc[r] \in {"lock", "decode", "get", "access"}

\* Nobody's answer is stored who had no access at any time during the request.
THEOREM OutsidersNeverAnswered == AppSpec => []OutsidersNotAnswered
<1>1. AppInit => OutsidersInv
  BY DEF AppInit, OutsidersInv
<1>2. Control /\ OutsidersInv /\ [AppNext]_appVars => OutsidersInv'
  <2> SUFFICES ASSUME Control, OutsidersInv, AppNext,
                      NEW r \in Requests, r \in outsiders'
               PROVE  pc'[r] \in {"lock", "decode", "get", "access"}
    BY DEF OutsidersInv, AppNext, HandlerOnly, TrackOutsiders, appVars, handlerVars
  <2>1. /\ pc'[r] # "idle"
        /\ pc[r] = "idle" \/ pc[r] \in {"lock", "decode", "get", "access"}
        /\ ~ CanAccess(req[r].event, req[r].user)'
    BY DEF AppNext, HandlerOnly, TrackOutsiders, OutsidersInv
  <2> USE DEF Control, Critical
  <2>2. ASSUME NEW q \in Requests, Send(q)
        PROVE  pc'[r] \in {"lock", "decode", "get", "access"}
    BY <2>1, <2>2 DEF Send
  <2>3. ASSUME NEW q \in Requests, Lock(q)
        PROVE  pc'[r] \in {"lock", "decode", "get", "access"}
    BY <2>1, <2>3 DEF Lock
  <2>4. ASSUME NEW q \in Requests, Decode(q) \/ Get(q)
        PROVE  pc'[r] \in {"lock", "decode", "get", "access"}
    BY <2>1, <2>4 DEF Decode, Get
  <2>5. ASSUME NEW q \in Requests, CheckAccess(q), UNCHANGED <<groupId, gsVars>>
        PROVE  pc'[r] \in {"lock", "decode", "get", "access"}
    <3>1. CASE q = r
      <4>1. CanAccess(req[r].event, req[r].user)
        BY <2>5, <3>1 DEF CheckAccess
      <4>2. CanAccess(req[r].event, req[r].user)'
        BY <2>5, <4>1 DEF CheckAccess, CanAccess, GS!UserCanAccess, GS!HasMember, gsVars
      <4> QED
        BY <2>1, <4>2
    <3>2. CASE q # r
      BY <2>1, <2>5, <3>2 DEF CheckAccess
    <3> QED
      BY <3>1, <3>2
  <2>6. ASSUME NEW q \in Requests, Answer(q)
        PROVE  pc'[r] \in {"lock", "decode", "get", "access"}
    BY <2>1, <2>6 DEF Answer
  <2>7. ASSUME NEW q \in Requests, Fail(q) \/ Audit(q)
        PROVE  pc'[r] \in {"lock", "decode", "get", "access"}
    BY <2>1, <2>7 DEF Fail, Audit, Return
  <2>8. CASE Restart
    BY <2>1, <2>8 DEF Restart
  <2>9. CASE UNCHANGED handlerVars
    BY <2>1, <2>9 DEF handlerVars
  <2> QED
    BY <2>2, <2>3, <2>4, <2>5, <2>6, <2>7, <2>8, <2>9 DEF AppNext, HandlerOnly
<1>3. OutsidersInv => OutsidersNotAnswered
  BY DEF OutsidersInv, OutsidersNotAnswered
<1> QED
  BY <1>1, <1>2, <1>3, AlwaysControl, PTL DEF AppSpec

-----------------------------------------------------------------------------
GSP == INSTANCE GroupServiceProofs

\* The group service of these tables, under the name of its proofs.
LEMMA SameGroupService ==
  /\ GS!Init <=> GSP!Init
  /\ [GS!Next]_gsVars <=> [GSP!Next]_(GSP!vars)
  /\ (GS!TypeOK <=> GSP!TypeOK) /\ (GS!TypeOK' <=> GSP!TypeOK')
  /\ NoGroup \notin GSP!GroupRow
<1>1. GS!Init <=> GSP!Init
  BY DEF GS!Init, GSP!Init
<1>2. [GS!Next]_gsVars <=> [GSP!Next]_(GSP!vars)
  BY DEF GS!Next, GSP!Next, gsVars, GSP!vars,
     GS!CreateAndAddMember, GS!AddMemberFromInvite, GS!RemoveMember, GS!RefreshInviteId,
     GS!Delete, GS!Exists, GS!Live, GS!HasInvite, GS!NewGroup, GS!AddMember, GS!MayRemove,
     GSP!CreateAndAddMember, GSP!AddMemberFromInvite, GSP!RemoveMember,
     GSP!RefreshInviteId, GSP!Delete, GSP!Exists, GSP!Live, GSP!HasInvite, GSP!NewGroup,
     GSP!AddMember, GSP!MayRemove
<1>3. (GS!TypeOK <=> GSP!TypeOK) /\ (GS!TypeOK' <=> GSP!TypeOK')
  BY DEF GS!TypeOK, GSP!TypeOK, GS!GroupRow, GSP!GroupRow
<1>4. NoGroup \notin GSP!GroupRow
  BY NoGroupAssumption DEF GS!GroupRow, GSP!GroupRow
<1> QED
  BY <1>1, <1>2, <1>3, <1>4

\* The group service's lemma, about its tables here.
LEMMA NextGroupTypeOK == GS!TypeOK /\ [GS!Next]_gsVars => GS!TypeOK'
BY SameGroupService, NoGroupAssumption, GSP!NextTypeOK

\* What the group service promises holds of its tables here, too.
LEMMA GroupPromises ==
  GS!Spec => [](GS!CreatorIsMember) /\ GS!RevocationIsFinal /\ GS!DeletionIsFinal
<1>1. GS!Spec => GSP!Spec
  <2>1. [GS!Next]_(GS!vars) <=> [GSP!Next]_(GSP!vars)
    BY SameGroupService DEF gsVars, GS!vars
  <2> QED
    BY <2>1, SameGroupService, PTL DEF GS!Spec, GSP!Spec
<1>2. GSP!Spec => []GSP!CreatorIsMember /\ GSP!RevocationIsFinal /\ GSP!DeletionIsFinal
  BY SameGroupService, NoGroupAssumption, GSP!CreatorAlwaysMember, GSP!RevokedForever,
     GSP!DeletedForever
<1>3. GSP!CreatorIsMember <=> GS!CreatorIsMember
  BY DEF GS!CreatorIsMember, GSP!CreatorIsMember, GS!Live, GSP!Live, GS!Exists, GSP!Exists,
         GS!HasMember, GSP!HasMember
<1>4. [GSP!DeadLinksStayDead]_(GSP!vars) <=> [GS!DeadLinksStayDead]_(GS!vars)
  BY DEF GS!DeadLinksStayDead, GSP!DeadLinksStayDead, GS!WorkingInvites,
         GSP!WorkingInvites, GS!Live, GSP!Live, GS!Exists, GSP!Exists, GS!vars, GSP!vars
<1>5. [GSP!DeletedGroupsShrink]_(GSP!vars) <=> [GS!DeletedGroupsShrink]_(GS!vars)
  BY DEF GS!DeletedGroupsShrink, GSP!DeletedGroupsShrink, GS!Exists, GSP!Exists,
         GS!HasMember, GSP!HasMember, GS!vars, GSP!vars
<1> QED
  BY <1>1, <1>2, <1>3, <1>4, <1>5, PTL
  DEF GS!RevocationIsFinal, GSP!RevocationIsFinal, GS!DeletionIsFinal, GSP!DeletionIsFinal

\* What the application does to the tables of groups, the group service does.
LEMMA AppStepIsGroupStep == [AppNext]_appVars => [GS!Next]_gsVars
BY DEF AppNext, HandlerOnly, Tables, EventTables, GroupTables, CreateGroup, InviteGroup,
       RemoveGroupMember, RefreshInviteLinkGroup, DeleteGroup, GS!Next, appVars

\* Nothing the event handlers do beside them breaks what the group service promises
\* about creators, links and deleted groups.
THEOREM AppKeepsGroups ==
  AppSpec => [](GS!CreatorIsMember) /\ GS!RevocationIsFinal /\ GS!DeletionIsFinal
<1>1. AppInit => GS!Init
  BY DEF AppInit, TablesInit
<1>2. [AppNext]_appVars => [GS!Next]_(GS!vars)
  BY AppStepIsGroupStep DEF gsVars, GS!vars
<1>3. AppSpec => GS!Spec
  BY <1>1, <1>2, PTL DEF AppSpec, GS!Spec
<1> QED
  BY <1>3, GroupPromises

\* Every logged count is a valid one, for the reason that HandleResponse has
\* accepted it.
CountsValid ==
  /\ auditlog \in [Events -> [Users -> 0 .. MaxAttendeeCount]]
  /\ unlogged \subseteq Events \X Users
  /\ \A r \in Requests : pc[r] = "audit" => req[r].attendeeCount \in 0 .. MaxAttendeeCount

LEMMA NextCountsValid == Control /\ CountsValid /\ [AppNext]_appVars => CountsValid'
<1> SUFFICES ASSUME Control, CountsValid, [AppNext]_appVars PROVE CountsValid'
  OBVIOUS
<1>1. ASSUME NEW r \in Requests, Send(r) \/ Lock(r) \/ Decode(r) \/ Get(r) \/ CheckAccess(r)
      PROVE  CountsValid'
  BY <1>1 DEF CountsValid, Control, Critical, Send, Lock, Decode, Get, CheckAccess
<1>2. ASSUME NEW r \in Requests, Answer(r)
      PROVE  CountsValid'
  <2>1. req[r].attendeeCount \in AttendeeCounts
    BY <1>2, ServedForm DEF Answer
  <2>2. req[r].attendeeCount \in 0 .. MaxAttendeeCount
    <3> DEFINE count == req[r].attendeeCount
    <3>1. PICK checked \in Times, written \in Times :
            HandleResponse(req[r].event, req[r].user, count, checked, written)
      BY <1>2 DEF Answer
    <3>2. count >= 0 /\ count <= MaxAttendeeCount
      BY <3>1 DEF HandleResponse
    <3>3. count \in Int
      BY <2>1, AttendeeCountsAssumption
    <3> HIDE DEF count
    <3>4. count \in 0 .. MaxAttendeeCount
      BY <3>2, <3>3, MaxAssumption
    <3> QED
      BY <3>4 DEF count
  <2>3. /\ pc' = [pc EXCEPT ![r] = "audit"]
        /\ UNCHANGED <<req, auditlog, unlogged>>
    BY <1>2 DEF Answer
  <2> QED
    BY <2>2, <2>3 DEF CountsValid, Control
<1>3. ASSUME NEW r \in Requests, Fail(r)
      PROVE  CountsValid'
  BY <1>3 DEF CountsValid, Control, Critical, Fail, Return
<1>4. ASSUME NEW r \in Requests, Audit(r)
      PROVE  CountsValid'
  <2>1. /\ req[r].event \in Events /\ req[r].user \in Users
        /\ req[r].attendeeCount \in 0 .. MaxAttendeeCount
    BY <1>4, ServedForm DEF Audit, CountsValid
  <2>2. \A q \in Requests : pc'[q] # "audit"
    BY <1>4 DEF Audit, Return, Control, Critical
  <2> QED
    BY <1>4, <2>1, <2>2 DEF CountsValid, Audit
<1>5. CASE Restart
  <2>1. \A r \in Requests : pc[r] = "audit" => req[r].event \in Events /\ req[r].user \in Users
    BY ServedForm
  <2>2. auditlog' = auditlog /\ \A r \in Requests : pc'[r] = "idle"
    BY <1>5 DEF Restart
  <2>3. unlogged' \subseteq Events \X Users
    BY <1>5, <2>1 DEF Restart, CountsValid
  <2> QED
    BY <2>2, <2>3 DEF CountsValid
<1>6. CASE UNCHANGED handlerVars
  BY <1>6 DEF handlerVars, CountsValid
<1> QED
  BY <1>1, <1>2, <1>3, <1>4, <1>5, <1>6 DEF AppNext, appVars

\* The types of the groups and of the history variable.
GroupInv ==
  /\ GS!TypeOK
  /\ groupId \in [Events -> Groups \cup {NoGroup}]
  /\ outsiders \subseteq Requests

LEMMA NextGroupInv == GroupInv /\ [AppNext]_appVars => GroupInv'
<1> SUFFICES ASSUME GroupInv, [AppNext]_appVars PROVE GroupInv'
  OBVIOUS
<1>1. outsiders' \subseteq Requests
  BY DEF GroupInv, AppNext, HandlerOnly, TrackOutsiders, appVars
<1>2. CASE UNCHANGED <<gsVars, groupId>>
  BY <1>1, <1>2 DEF GroupInv, gsVars, GS!TypeOK
<1>3. CASE GroupTables
  <2>1. GS!Next
    BY <1>3 DEF GroupTables, CreateGroup, InviteGroup, RemoveGroupMember,
                RefreshInviteLinkGroup, DeleteGroup, GS!Next
  <2>2. UNCHANGED groupId
    BY <1>3 DEF GroupTables
  <2> QED
    BY <1>1, <2>1, <2>2, NextGroupTypeOK DEF GroupInv
<1>4. CASE EventTables
  <2>1. UNCHANGED gsVars /\ groupId' \in [Events -> Groups \cup {NoGroup}]
    BY <1>4 DEF GroupInv, EventTables, CreateEvent, UpdateEvent, DeleteEvent
  <2> QED
    BY <1>1, <2>1 DEF GroupInv, gsVars, GS!TypeOK
<1> QED
  BY <1>2, <1>3, <1>4 DEF AppNext, HandlerOnly, Tables, appVars

LEMMA InitAppTypes == AppInit => CountsValid /\ GroupInv
BY MaxAssumption DEF AppInit, TablesInit, CountsValid, GroupInv, GS!Init, GS!TypeOK

\* The tables, the requests in progress and the audit log keep their types: every
\* count that was logged is one that HandleResponse accepts.
THEOREM AppTypeCorrect == AppSpec => []AppTypeOK
<1>1. TypeOK /\ Control /\ CountsValid /\ GroupInv => AppTypeOK
  BY DEF Control, CountsValid, GroupInv, AppTypeOK, TablesTypeOK
<1> QED
  BY <1>1, InitAppTypes, NextCountsValid, NextGroupInv, AlwaysControl, WritesAsEventService,
     TypeCorrect, PTL DEF AppSpec

\* The queue that the event service promises is kept by the whole application.
THEOREM AppKeepsQueue == AppSpec => QueueSpec
BY WritesAsEventService, ImplementsQueue

=============================================================================

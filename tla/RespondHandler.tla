--------------------------- MODULE RespondHandler ---------------------------
(***************************************************************************)
(* POST /event/respond (respondEvent in app/event.go) served concurrently, *)
(* beside everything else that writes the same tables.                     *)
(*                                                                         *)
(* One request takes the handler's mutex, reads the form, and then runs    *)
(* four transactions: Get of the event, UserCanAccessError,                *)
(* HandleResponse, and Create of an audit log entry. Each transaction is   *)
(* one step; between two of them any handler that does not take this mutex *)
(* may commit: events are created, edited and deleted, groups and members  *)
(* come and go. Any transaction may fail, and the process may stop at any  *)
(* point and be started again.                                             *)
(***************************************************************************)
EXTENDS AppTables

CONSTANTS
  Requests,   \* the requests to respondEvent that can be in progress at once
  NoRequest   \* the mutex is free; there is no request in this slot

VARIABLES
  lock,       \* the mutex: the request that holds it, or NoRequest
  pc,         \* the transaction each request does next, or where it waits
  req,        \* the user, event id and attendee count of each request
  auditlog,   \* [e][u]: the attendee count in the audit log entry inserted
              \* last of user u about event e, 0 if there is none
  unlogged,   \* history: pairs <<e, u>> whose newest answer has no entry,
              \* because Create failed or the process stopped before it
  outsiders   \* history: requests whose user could not access the event at
              \* any time since they were sent

handlerVars == <<lock, pc, req, auditlog, unlogged>>
appVars     == <<vars, gsVars, groupId, handlerVars, outsiders>>

\* The steps of a request that holds the mutex, in their order.
Critical == {"decode", "get", "access", "answer", "audit"}

RequestType == [user : Users, event : Events, attendeeCount : AttendeeCounts]

ASSUME NoRequestAssumption == NoRequest \notin Requests \cup RequestType

AppTypeOK ==
  /\ TablesTypeOK
  /\ lock \in Requests \cup {NoRequest}
  /\ pc \in [Requests -> {"idle", "lock"} \cup Critical]
  /\ req \in [Requests -> RequestType \cup {NoRequest}]
  /\ \A r \in Requests : pc[r] = "idle" <=> req[r] = NoRequest
  /\ auditlog \in [Events -> [Users -> 0 .. MaxAttendeeCount]]
  /\ unlogged \subseteq Events \X Users
  /\ outsiders \subseteq Requests

AppInit ==
  /\ TablesInit
  /\ lock = NoRequest
  /\ pc = [r \in Requests |-> "idle"]
  /\ req = [r \in Requests |-> NoRequest]
  /\ auditlog = [e \in Events |-> [u \in Users |-> 0]]
  /\ unlogged = {}
  /\ outsiders = {}

-----------------------------------------------------------------------------
(***************************************************************************)
(* The handler.                                                            *)
(***************************************************************************)

\* A user who is logged in sends the form; its event id and count are read later,
\* but they are what the user filled in.
Send(r) ==
  /\ pc[r] = "idle"
  /\ pc' = [pc EXCEPT ![r] = "lock"]
  /\ \E q \in RequestType : req' = [req EXCEPT ![r] = q]
  /\ UNCHANGED <<lock, auditlog, unlogged>>

\* Mutant: there is no mutex.
LockFree(r) ==
  /\ pc[r] = "lock"
  /\ lock' = r
  /\ pc' = [pc EXCEPT ![r] = "decode"]
  /\ UNCHANGED <<req, auditlog, unlogged>>

\* lock.Lock()
Lock(r) ==
  /\ pc[r] = "lock"
  /\ lock = NoRequest
  /\ lock' = r
  /\ pc' = [pc EXCEPT ![r] = "decode"]
  /\ UNCHANGED <<req, auditlog, unlogged>>

\* The response is written and the deferred lock.Unlock() runs.
Return(r) ==
  /\ lock' = NoRequest
  /\ pc' = [pc EXCEPT ![r] = "idle"]
  /\ req' = [req EXCEPT ![r] = NoRequest]

\* schemaDecode reads the body of the request, with the mutex held.
Decode(r) ==
  /\ pc[r] = "decode"
  /\ pc' = [pc EXCEPT ![r] = "get"]
  /\ UNCHANGED <<lock, req, auditlog, unlogged>>

\* eventService.Get finds the event.
Get(r) ==
  /\ pc[r] = "get"
  /\ Live(req[r].event)
  /\ pc' = [pc EXCEPT ![r] = "access"]
  /\ UNCHANGED <<lock, req, auditlog, unlogged>>

\* Mutant: the events of a group that is not found are public.
CheckAccessLiveGroup(r) ==
  /\ pc[r] = "access"
  /\ LET g == groupId[req[r].event]
     IN g # NoGroup /\ GS!Live(g) => GS!HasMember(g, req[r].user)
  /\ pc' = [pc EXCEPT ![r] = "answer"]
  /\ UNCHANGED <<lock, req, auditlog, unlogged>>

\* groupService.UserCanAccessError, for the group_id that Get read (no
\* statement ever changes the group_id of an event).
CheckAccess(r) ==
  /\ pc[r] = "access"
  /\ CanAccess(req[r].event, req[r].user)
  /\ pc' = [pc EXCEPT ![r] = "answer"]
  /\ UNCHANGED <<lock, req, auditlog, unlogged>>

\* eventService.HandleResponse commits, with any two readings of the clock.
Answer(r) ==
  /\ pc[r] = "answer"
  /\ \E checked, written \in Times :
        HandleResponse(req[r].event, req[r].user, req[r].attendeeCount, checked, written)
  /\ pc' = [pc EXCEPT ![r] = "audit"]
  /\ UNCHANGED <<lock, req, auditlog, unlogged>>

\* Mutant: an error returns without unlocking.
FailLocked(r) ==
  /\ pc[r] \in {"decode", "get", "access", "answer"}
  /\ pc' = [pc EXCEPT ![r] = "idle"]
  /\ req' = [req EXCEPT ![r] = NoRequest]
  /\ UNCHANGED <<lock, auditlog, unlogged>>

\* The form or one of the first three transactions returns an error: not a form,
\* no such event, no access, a past event, an invalid count, or the connection
\* or the database failed.
Fail(r) ==
  /\ pc[r] \in {"decode", "get", "access", "answer"}
  /\ Return(r)
  /\ UNCHANGED <<auditlog, unlogged>>

\* auditlogService.Create; its error is only logged.
Audit(r) ==
  /\ pc[r] = "audit"
  /\ LET e == req[r].event
         u == req[r].user
     IN \/ /\ auditlog' = [auditlog EXCEPT ![e][u] = req[r].attendeeCount]
           /\ unlogged' = unlogged \ {<<e, u>>}
        \/ /\ unlogged' = unlogged \cup {<<e, u>>}
           /\ UNCHANGED auditlog
  /\ Return(r)

\* The process stops and is started again: the requests and the mutex are gone,
\* the tables are as the last commit left them.
Restart ==
  /\ lock' = NoRequest
  /\ pc' = [r \in Requests |-> "idle"]
  /\ req' = [r \in Requests |-> NoRequest]
  /\ unlogged' = unlogged \cup
       {<<req[r].event, req[r].user>> : r \in {r \in Requests : pc[r] = "audit"}}
  /\ UNCHANGED auditlog

-----------------------------------------------------------------------------
\* The history variable outsiders, as every step updates it.
TrackOutsiders ==
  outsiders' = {r \in Requests : /\ pc'[r] # "idle"
                                 /\ pc[r] = "idle" \/ r \in outsiders
                                 /\ ~ CanAccess(req[r].event, req[r].user)'}

\* A step of the handler that leaves the tables of the two services alone.
HandlerOnly == UNCHANGED <<vars, gsVars, groupId>> /\ TrackOutsiders

AppNext ==
  \/ \E r \in Requests :
       \/ Send(r) /\ HandlerOnly
       \/ Lock(r) /\ HandlerOnly
       \/ Decode(r) /\ HandlerOnly
       \/ Get(r) /\ HandlerOnly
       \/ CheckAccess(r) /\ HandlerOnly
       \/ Answer(r) /\ UNCHANGED <<gsVars, groupId>> /\ TrackOutsiders
       \/ Fail(r) /\ HandlerOnly
       \/ Audit(r) /\ HandlerOnly
  \/ Restart /\ HandlerOnly
  \/ Tables /\ UNCHANGED handlerVars /\ TrackOutsiders

AppSpec == AppInit /\ [][AppNext]_appVars

\* The Go scheduler runs a request that can run, a transaction ends, with or
\* without an error, and sync.Mutex hands itself to a waiter that has waited
\* for a millisecond, so no waiter starves. That Decode or Fail follows Lock is
\* an assumption about the client, the only one: that the rest of a form it
\* began to send arrives or its connection breaks. The server sets no timeout.
Advance(r) ==
  \/ (Decode(r) \/ Get(r) \/ CheckAccess(r) \/ Fail(r) \/ Audit(r)) /\ HandlerOnly
  \/ Answer(r) /\ UNCHANGED <<gsVars, groupId>> /\ TrackOutsiders

Acquire(r) == Lock(r) /\ HandlerOnly

FairSpec ==
  /\ AppSpec
  /\ \A r \in Requests : WF_appVars(Advance(r)) /\ SF_appVars(Acquire(r))

-----------------------------------------------------------------------------
(***************************************************************************)
(* Properties.                                                             *)
(***************************************************************************)

\* The newest audit log entry of a user about an event states what table
\* event_response holds, unless that answer is still being logged or its entry
\* was lost. It needs the mutex: two answers of one user committed in one order
\* and logged in the other would leave a log that contradicts the table.
AuditTellsTruth ==
  \A e \in Events, u \in Users :
    \/ <<e, u>> \in unlogged
    \/ \E r \in Requests : pc[r] = "audit" /\ req[r].event = e /\ req[r].user = u
    \/ auditlog[e][u] = HeadsOf(response[e], u)

\* No answer is stored for a user who could not access the event at any time
\* while the request was served. (A user who is removed from the group after
\* the access check is still answered: they had access during the request.)
OutsidersNotAnswered == \A r \in outsiders : pc[r] # "audit"

\* Every request is answered, with a redirect or an error, or its connection
\* is closed by a restart: the mutex is released on every path.
EveryRequestReturns == \A r \in Requests : pc[r] = "lock" ~> pc[r] = "idle"

=============================================================================

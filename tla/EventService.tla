---------------------------- MODULE EventService ----------------------------
(***************************************************************************)
(* The event service (event/service.go): the tables event and              *)
(* event_response and the transactions that write them.                    *)
(*                                                                         *)
(* Every method of the service runs in one transaction, commits at its end *)
(* and rolls back on each earlier return, so a method that succeeds is one *)
(* action and a method that fails leaves the state as it is.               *)
(***************************************************************************)
EXTENDS Waitlist

CONSTANTS
  Events,          \* event ids
  Capacities,      \* capacities a form can carry: any int, also negative ones
  AttendeeCounts,  \* attendee counts a request can carry, valid or not
  NoEvent          \* there is no row in table event for this id

EventRow == [isDeleted : BOOLEAN, capacity : Capacities, start : Times]

ASSUME CapacitiesAssumption     == Capacities \subseteq Int
ASSUME AttendeeCountsAssumption == AttendeeCounts \subseteq Int
ASSUME NoEventAssumption        == NoEvent \notin EventRow \cup Capacities

VARIABLES
  event,     \* table event
  response   \* table event_response, by event

vars == <<event, response>>

TypeOK ==
  /\ event \in [Events -> EventRow \cup {NoEvent}]
  /\ response \in [Events -> RowsType]

Init ==
  /\ event = [e \in Events |-> NoEvent]
  /\ response = [e \in Events |-> [u \in Users |-> NoResponse]]

-----------------------------------------------------------------------------
\* The row exists, deleted or not.
Exists(e) == event[e] # NoEvent

\* get finds the event.
Live(e) == Exists(e) /\ ~ event[e].isDeleted

\* create: the row that is inserted.
NewEvent(capacity, start) ==
  [isDeleted |-> FALSE, capacity |-> capacity, start |-> start]

\* Create, with a fresh nanoid as the id.
Create(e, capacity, start) ==
  /\ ~ Exists(e)
  /\ event' = [event EXCEPT ![e] = NewEvent(capacity, start)]
  /\ UNCHANGED response

\* Mutant: the waitlist is not managed after the update.
UpdateUnmanaged(e, capacity, start) ==
  /\ Live(e)
  /\ event' = [event EXCEPT ![e].capacity = capacity, ![e].start = start]
  /\ UNCHANGED response

\* Mutant: the waitlist is managed before the update, for the old capacity.
UpdateManagedFirst(e, capacity, start) ==
  /\ Live(e)
  /\ event' = [event EXCEPT ![e].capacity = capacity, ![e].start = start]
  /\ response' = [response EXCEPT ![e] = ManageWaitlist(@, event[e].capacity)]

\* update: the table after the row is written, whether it is deleted or not.
Updated(e, capacity, start) ==
  [event EXCEPT ![e].capacity = capacity, ![e].start = start]

\* Update. update would write a deleted row too, but then get fails in
\* manageWaitlist and the transaction rolls back.
Update(e, capacity, start) ==
  /\ Live(e)
  /\ event' = Updated(e, capacity, start)
  /\ response' = [response EXCEPT ![e] = ManageWaitlist(@, capacity)]

\* Delete: a soft delete without a transaction, a look at the clock or at the
\* responses; on a deleted event it writes the same row again.
Delete(e) ==
  /\ Exists(e)
  /\ event' = [event EXCEPT ![e].isDeleted = TRUE]
  /\ UNCHANGED response

\* The rows of an event after HandleResponse wrote user u's answer, for which it
\* has read the clock.
Answered(rows, u, count, reading) ==
  IF count = 0 THEN DeleteResponse(rows, u)
               ELSE UpdateResponse(rows, u, count, reading)

\* Mutant: no maximum.
HandleResponseAnyCount(e, u, count, checked, written) ==
  /\ count >= 0
  /\ Live(e)
  /\ checked <= event[e].start
  /\ response' = [response EXCEPT ![e] =
                    ManageWaitlist(Answered(@, u, count, written), event[e].capacity)]
  /\ UNCHANGED event

\* Mutant: the answer alone is put on the waitlist, when it does not fit the
\* spots left.
HandleResponseBySpotsLeft(e, u, count, checked, written) ==
  /\ count >= 0
  /\ count <= MaxAttendeeCount
  /\ Live(e)
  /\ checked <= event[e].start
  /\ LET rows == Answered(response[e], u, count, written)
     IN response' = [response EXCEPT ![e] =
          IF count = 0
          THEN rows
          ELSE [rows EXCEPT ![u].onWaitlist =
                  count > SpotsLeft(DeleteResponse(rows, u), event[e].capacity)]]
  /\ UNCHANGED event

\* Mutant: a declined answer returns before the waitlist is managed.
HandleResponseDeclineReturns(e, u, count, checked, written) ==
  /\ count >= 0
  /\ count <= MaxAttendeeCount
  /\ Live(e)
  /\ checked <= event[e].start
  /\ LET rows == Answered(response[e], u, count, written)
     IN response' = [response EXCEPT ![e] =
          IF count = 0 THEN rows ELSE ManageWaitlist(rows, event[e].capacity)]
  /\ UNCHANGED event

\* HandleResponse reads the clock twice: get, when it looks whether the event is
\* past, and the statement that stores created_at. It is a wall clock, which moves
\* on in between and may be set back, so the readings need not agree, and an event
\* that began after the first is still answered.
HandleResponse(e, u, count, checked, written) ==
  /\ count >= 0
  /\ count <= MaxAttendeeCount
  /\ Live(e)
  /\ checked <= event[e].start
  /\ response' = [response EXCEPT ![e] =
                    ManageWaitlist(Answered(@, u, count, written), event[e].capacity)]
  /\ UNCHANGED event

Next ==
  \/ \E e \in Events, capacity \in Capacities, start \in Times :
        Create(e, capacity, start) \/ Update(e, capacity, start)
  \/ \E e \in Events : Delete(e)
  \/ \E e \in Events, u \in Users, count \in AttendeeCounts, checked, written \in Times :
        HandleResponse(e, u, count, checked, written)

Spec == Init /\ [][Next]_vars

-----------------------------------------------------------------------------
(***************************************************************************)
(* Invariants.                                                             *)
(***************************************************************************)

\* Every transaction that touches a capacity or a response leaves the waitlist
\* managed: a response is on the waitlist exactly when the heads up to and
\* including it do not fit the capacity. (manageWaitlist is called by Update
\* and HandleResponse, and nothing else may disturb what it computed.) An
\* event that was never created has no responses to manage.
WaitlistManaged ==
  \A e \in Events :
    IF Exists(e) THEN IsManaged(response[e], event[e].capacity)
                 ELSE Responders(response[e]) = {}

\* The confirmed heads never exceed the capacity; when the capacity is cut
\* below what was promised, or is negative, somebody is moved out for it.
CapacityRespected ==
  \A e \in Events : Exists(e) => FitsCapacity(response[e], event[e].capacity)

\* First come, first served: nobody has a spot while somebody who answered no
\* later than they did waits, even when the later party is the smaller one
\* (TestHandleResponse_OnWaitlistEvenIfSpotsLeft).
NoOvertaking ==
  \A e \in Events : InOrder(response[e])

\* Nobody waits in vain: when a party waits, the spots left are fewer than
\* the heads waiting up to that party.
NoIdleSpots ==
  \A e \in Events : Exists(e) => NoIdle(response[e], event[e].capacity)

-----------------------------------------------------------------------------
(***************************************************************************)
(* Action properties.                                                      *)
(***************************************************************************)

\* A confirmed spot is lost only to a smaller capacity or to an earlier party
\* (or the user's own) that grew: never to a decline, a larger capacity, a
\* later response or a new start time.
DemotedForCause ==
  \A e \in Events :
    \A u \in Confirmed(response[e]) \cap Waitlisted(response'[e]) :
      \/ event'[e].capacity < event[e].capacity
      \/ MoreUpTo(response'[e], response[e], u)

\* A waiting response gets a spot only from a larger capacity or from an
\* earlier party (or the user's own) that shrank or left.
PromotedForCause ==
  \A e \in Events :
    \A u \in Waitlisted(response[e]) \cap Confirmed(response'[e]) :
      \/ event'[e].capacity > event[e].capacity
      \/ MoreUpTo(response[e], response'[e], u)

\* A user who changes their party size, or is moved between list and waitlist,
\* keeps their place in the queue (ON CONFLICT keeps created_at).
PlaceKept == \A e \in Events : SamePlaces(response[e], response'[e])

ResponsesMoveForCause == [][DemotedForCause /\ PromotedForCause]_vars
PlacesKept            == [][PlaceKept]_vars

-----------------------------------------------------------------------------
(***************************************************************************)
(* The service implements the queue of parties it promises.                *)
(***************************************************************************)

\* The parties of an event's rows.
Parties(rows) ==
  [u \in Users |->
     IF rows[u] = NoResponse
     THEN NoResponse
     ELSE [heads |-> rows[u].attendeeCount, place |-> rows[u].createdAt]]

Queue == INSTANCE RsvpQueue WITH
  MaxHeads   <- MaxAttendeeCount,
  Places     <- Times,
  Absent     <- NoResponse,
  NoCapacity <- NoEvent,
  capacity   <- [e \in Events |-> IF Exists(e) THEN event[e].capacity ELSE NoEvent],
  open       <- {e \in Events : Live(e)},
  queue      <- [e \in Events |-> Parties(response[e])],
  confirmed  <- [e \in Events |-> Confirmed(response[e])]

ASSUME NoPartyAssumption == NoResponse \notin Queue!Party

\* The stored waitlist, its running totals and the readings of the clock amount
\* to the queue of RsvpQueue: confirmed is the longest front that fits, after
\* every transaction, and a deleted event's queue is closed.
QueueSpec == Queue!Spec

=============================================================================

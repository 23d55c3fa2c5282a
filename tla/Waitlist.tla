------------------------------ MODULE Waitlist ------------------------------
(***************************************************************************)
(* The rows of table event_response that belong to one event, and the      *)
(* statement of event/service.go that keeps their on_waitlist column.      *)
(*                                                                         *)
(* The rows of an event are a function from users to a row or NoResponse   *)
(* (the table's primary key is (event_id, user_id)).                       *)
(***************************************************************************)
EXTENDS Integers, FiniteSets

CONSTANTS
  Users,             \* ids of the users that can respond
  Times,             \* readings of the server's wall clock, time.Now().UTC()
  MaxAttendeeCount,  \* event.MaxAttendeeCount: the user and their plus ones
  NoResponse         \* there is no row for this user

Response == [attendeeCount : 1 .. MaxAttendeeCount,
             createdAt     : Times,
             onWaitlist    : BOOLEAN]

ASSUME UsersAssumption == IsFiniteSet(Users)
ASSUME TimesAssumption == Times \subseteq Nat
ASSUME MaxAssumption   == MaxAttendeeCount \in Nat \ {0}
ASSUME NoRowAssumption == NoResponse \notin Response

RowsType == [Users -> Response \cup {NoResponse}]

Responders(rows) == {u \in Users : rows[u] # NoResponse}

Confirmed(rows) == {u \in Responders(rows) : ~ rows[u].onWaitlist}

Waitlisted(rows) == {u \in Responders(rows) : rows[u].onWaitlist}

\* The people that come with the members of S, one pair per head: the SQL sums
\* of attendee_count are cardinalities of such sets.
Heads(rows, S) ==
  {h \in S \X (1 .. MaxAttendeeCount) :
     rows[h[1]] # NoResponse /\ h[2] <= rows[h[1]].attendeeCount}

SumAttendeeCount(rows, S) == Cardinality(Heads(rows, S))

\* SUM(...) OVER (ORDER BY created_at) has SQL's default RANGE frame: every row
\* created no later than u's own, u itself and its peers included.
UpTo(rows, u) ==
  {v \in Responders(rows) : rows[v].createdAt <= rows[u].createdAt}

RunningTotal(rows, u) == SumAttendeeCount(rows, UpTo(rows, u))

\* COALESCE((SELECT SUM(attendee_count) ... on_waitlist = FALSE), 0) of get.
TotalAttendeeCount(rows) == SumAttendeeCount(rows, Confirmed(rows))

SpotsLeft(rows, capacity) == capacity - TotalAttendeeCount(rows)

\* Mutant: a party that starts below the capacity is let in whole.
ManageWaitlistIfRoom(rows, capacity) ==
  [u \in Users |->
     IF rows[u] = NoResponse
     THEN NoResponse
     ELSE [rows[u] EXCEPT !.onWaitlist =
             RunningTotal(rows, u) - rows[u].attendeeCount >= capacity]]

\* manageWaitlist, for an event that get found with this capacity.
ManageWaitlist(rows, capacity) ==
  [u \in Users |->
     IF rows[u] = NoResponse
     THEN NoResponse
     ELSE [rows[u] EXCEPT !.onWaitlist = ~ (RunningTotal(rows, u) <= capacity)]]

\* deleteResponse
DeleteResponse(rows, u) == [rows EXCEPT ![u] = NoResponse]

\* Mutant: ON CONFLICT takes created_at from the new values too.
UpdateResponseRequeued(rows, u, count, t) ==
  [rows EXCEPT ![u] =
     IF rows[u] = NoResponse
     THEN [attendeeCount |-> count, createdAt |-> t, onWaitlist |-> FALSE]
     ELSE [rows[u] EXCEPT !.attendeeCount = count, !.createdAt = t]]

\* updateResponse: an upsert whose ON CONFLICT branch leaves created_at and
\* on_waitlist as they are.
UpdateResponse(rows, u, count, t) ==
  [rows EXCEPT ![u] =
     IF rows[u] = NoResponse
     THEN [attendeeCount |-> count, createdAt |-> t, onWaitlist |-> FALSE]
     ELSE [rows[u] EXCEPT !.attendeeCount = count]]

-----------------------------------------------------------------------------
(***************************************************************************)
(* What the service promises about the rows of one event, and what may     *)
(* change between two states of them.                                      *)
(***************************************************************************)

\* A response waits exactly when the heads up to it do not fit the capacity.
IsManaged(rows, capacity) ==
  \A u \in Responders(rows) :
    rows[u].onWaitlist <=> RunningTotal(rows, u) > capacity

\* The confirmed heads fit, or nobody is confirmed.
FitsCapacity(rows, capacity) ==
  \/ Confirmed(rows) = {}
  \/ TotalAttendeeCount(rows) <= capacity

\* Whoever has a spot answered before whoever waits.
InOrder(rows) ==
  \A u \in Confirmed(rows), v \in Waitlisted(rows) :
    rows[u].createdAt < rows[v].createdAt

\* The spots left are fewer than the heads waiting up to any waiting party.
NoIdle(rows, capacity) ==
  \A u \in Waitlisted(rows) :
    SpotsLeft(rows, capacity) <
      SumAttendeeCount(rows, UpTo(rows, u) \cap Waitlisted(rows))

HeadsOf(rows, u) == IF rows[u] = NoResponse THEN 0 ELSE rows[u].attendeeCount

\* Somebody at or before u in the order of rows1 brings more people there than
\* in rows2 (where they may be absent).
MoreUpTo(rows1, rows2, u) ==
  \E v \in UpTo(rows1, u) : HeadsOf(rows1, v) > HeadsOf(rows2, v)

\* The responses in both tables were created at the same time in both.
SamePlaces(rows1, rows2) ==
  \A u \in Responders(rows1) \cap Responders(rows2) :
    rows1[u].createdAt = rows2[u].createdAt

=============================================================================

------------------------- MODULE EventServiceProofs -------------------------
(***************************************************************************)
(* Theorems about the event service, for every set of events, users,       *)
(* clock readings and capacities and every MaxAttendeeCount.               *)
(*                                                                         *)
(* The inductive invariant is TypeOK /\ WaitlistManaged: the other three   *)
(* invariants are consequences of WaitlistManaged (ManagedPromises) and    *)
(* would not be inductive alone, since they say too little about which     *)
(* rows a change of capacity moves.                                        *)
(*                                                                         *)
(* First, what the operators of Waitlist guarantee for every table of      *)
(* responses, every capacity and every number of users.                    *)
(***************************************************************************)
EXTENDS EventService, FiniteSetTheorems, TLAPS

\* A sum of attendee counts over any set of users is a natural number.
LEMMA SumType ==
  ASSUME NEW rows, NEW S \in SUBSET Users
  PROVE  /\ IsFiniteSet(Heads(rows, S))
         /\ SumAttendeeCount(rows, S) \in Nat
<1>1. IsFiniteSet(S)
  BY UsersAssumption, FS_Subset
<1>2. IsFiniteSet(1 .. MaxAttendeeCount)
  BY MaxAssumption, FS_Interval
<1>3. IsFiniteSet(S \X (1 .. MaxAttendeeCount))
  BY <1>1, <1>2, FS_Product
<1>4. Heads(rows, S) \in SUBSET (S \X (1 .. MaxAttendeeCount))
  BY DEF Heads
<1>5. IsFiniteSet(Heads(rows, S))
  BY <1>3, <1>4, FS_Subset
<1> QED
  BY <1>5, FS_CardinalityType DEF SumAttendeeCount

\* More heads, larger sum.
LEMMA SumMonotone ==
  ASSUME NEW rows1, NEW S \in SUBSET Users,
         NEW rows2, NEW T \in SUBSET Users,
         Heads(rows1, S) \subseteq Heads(rows2, T)
  PROVE  SumAttendeeCount(rows1, S) <= SumAttendeeCount(rows2, T)
BY SumType, FS_Subset DEF SumAttendeeCount

\* A user with a row has a first head.
LEMMA FirstHead ==
  ASSUME NEW rows \in RowsType, NEW S \in SUBSET Users,
         NEW u \in S \cap Responders(rows)
  PROVE  <<u, 1>> \in Heads(rows, S)
<1>1. rows[u] \in Response
  BY DEF Responders, RowsType
<1>2. rows[u].attendeeCount \in 1 .. MaxAttendeeCount
  BY <1>1 DEF Response
<1> QED
  BY <1>2, MaxAssumption DEF Heads, Responders

\* The sum over two sets of users is at most the sum of the sums.
LEMMA SumOfUnion ==
  ASSUME NEW rows, NEW S \in SUBSET Users, NEW T \in SUBSET Users
  PROVE  SumAttendeeCount(rows, S \cup T) <=
           SumAttendeeCount(rows, S) + SumAttendeeCount(rows, T)
<1> DEFINE HS == Heads(rows, S)
           HT == Heads(rows, T)
<1>1. Heads(rows, S \cup T) = HS \cup HT
  BY DEF Heads
<1>2. IsFiniteSet(HS) /\ IsFiniteSet(HT)
  BY SumType
<1>3. IsFiniteSet(HS \cap HT)
  BY <1>2, FS_Intersection
<1>4. Cardinality(HS) \in Nat /\ Cardinality(HT) \in Nat /\ Cardinality(HS \cap HT) \in Nat
  BY <1>2, <1>3, FS_CardinalityType
<1>5. Cardinality(HS \cup HT) = Cardinality(HS) + Cardinality(HT) - Cardinality(HS \cap HT)
  BY <1>2, FS_Union
<1>6. Cardinality(HS \cup HT) <= Cardinality(HS) + Cardinality(HT)
  <2> HIDE DEF HS, HT
  <2> QED
    BY <1>4, <1>5
<1> QED
  BY <1>1, <1>6 DEF SumAttendeeCount

\* The running total grows with created_at, strictly where created_at does.
LEMMA RunningTotalOrder ==
  ASSUME NEW rows \in RowsType,
         NEW u \in Responders(rows), NEW v \in Responders(rows)
  PROVE  /\ RunningTotal(rows, u) \in Nat
         /\ rows[u].createdAt <= rows[v].createdAt
              => RunningTotal(rows, u) <= RunningTotal(rows, v)
         /\ rows[u].createdAt < rows[v].createdAt
              => RunningTotal(rows, u) < RunningTotal(rows, v)
<1>1. \A w \in Responders(rows) : w \in Users /\ rows[w].createdAt \in Nat
  BY TimesAssumption DEF Responders, RowsType, Response
<1>2. UpTo(rows, u) \in SUBSET Users /\ UpTo(rows, v) \in SUBSET Users
  BY <1>1 DEF UpTo
<1>3. RunningTotal(rows, u) \in Nat /\ RunningTotal(rows, v) \in Nat
  BY <1>2, SumType DEF RunningTotal
<1>4. ASSUME rows[u].createdAt <= rows[v].createdAt
      PROVE  /\ Heads(rows, UpTo(rows, u)) \subseteq Heads(rows, UpTo(rows, v))
             /\ RunningTotal(rows, u) <= RunningTotal(rows, v)
  <2>1. UpTo(rows, u) \subseteq UpTo(rows, v)
    BY <1>1, <1>4 DEF UpTo
  <2>2. Heads(rows, UpTo(rows, u)) \subseteq Heads(rows, UpTo(rows, v))
    BY <2>1 DEF Heads
  <2> QED
    BY <1>2, <2>2, SumMonotone DEF RunningTotal
<1>5. ASSUME rows[u].createdAt < rows[v].createdAt
      PROVE  RunningTotal(rows, u) < RunningTotal(rows, v)
  <2>1. rows[u].createdAt <= rows[v].createdAt
    BY <1>1, <1>5
  <2>2. v \in UpTo(rows, v) /\ v \notin UpTo(rows, u)
    BY <1>1, <1>5 DEF UpTo
  <2>3. <<v, 1>> \in Heads(rows, UpTo(rows, v))
    BY <1>2, <2>2, FirstHead
  <2>4. <<v, 1>> \notin Heads(rows, UpTo(rows, u))
    BY <2>2 DEF Heads
  <2>5. IsFiniteSet(Heads(rows, UpTo(rows, v)))
    BY <1>2, SumType
  <2>6. RunningTotal(rows, v) # RunningTotal(rows, u)
    BY <1>4, <2>1, <2>3, <2>4, <2>5, FS_Subset DEF RunningTotal, SumAttendeeCount
  <2> QED
    BY <1>3, <1>4, <2>1, <2>6
<1> QED
  BY <1>3, <1>4, <1>5

\* Among finitely many responses one has the latest created_at.
LEMMA LatestResponse ==
  ASSUME NEW rows \in RowsType, NEW S \in SUBSET Responders(rows), S # {}
  PROVE  \E m \in S : \A v \in S : rows[v].createdAt <= rows[m].createdAt
<1> DEFINE All == SumAttendeeCount(rows, Users)
           Rest == {All - RunningTotal(rows, u) : u \in S}
<1>1. All \in Nat
  BY SumType
<1>2. \A u \in S : RunningTotal(rows, u) \in Nat /\ RunningTotal(rows, u) <= All
  <2> TAKE u \in S
  <2>1. UpTo(rows, u) \in SUBSET Users
    BY DEF UpTo, Responders
  <2>2. Heads(rows, UpTo(rows, u)) \subseteq Heads(rows, Users)
    BY <2>1 DEF Heads
  <2> QED
    BY <2>1, <2>2, SumType, SumMonotone DEF RunningTotal
<1>3. Rest \subseteq Nat /\ Rest # {}
  BY <1>1, <1>2
<1>4. PICK x \in Rest : \A y \in Rest : ~ (<<y, x>> \in OpToRel(<, Nat))
  BY <1>3, NatLessThanWellFounded, WFMin, Zenon
<1>5. \A y \in Rest : ~ (y < x)
  BY <1>3, <1>4 DEF OpToRel
<1>6. PICK m \in S : x = All - RunningTotal(rows, m)
  BY <1>4
<1>7. ASSUME NEW v \in S
      PROVE  rows[v].createdAt <= rows[m].createdAt
  <2>1. RunningTotal(rows, v) <= RunningTotal(rows, m)
    BY <1>1, <1>2, <1>5, <1>6
  <2>2. rows[v].createdAt \in Nat /\ rows[m].createdAt \in Nat
    BY TimesAssumption DEF Responders, RowsType, Response
  <2>3. ~ (rows[m].createdAt < rows[v].createdAt)
    BY <1>2, <2>1, RunningTotalOrder
  <2> QED
    BY <2>2, <2>3
<1> QED
  BY <1>7

-----------------------------------------------------------------------------
\* manageWaitlist writes the on_waitlist column and nothing else, so running
\* totals are what they were and its result is managed.
LEMMA ManageWaitlistIsManaged ==
  ASSUME NEW rows \in RowsType, NEW capacity \in Int
  PROVE  /\ ManageWaitlist(rows, capacity) \in RowsType
         /\ IsManaged(ManageWaitlist(rows, capacity), capacity)
         /\ Responders(ManageWaitlist(rows, capacity)) = Responders(rows)
         /\ \A u \in Responders(rows) :
              /\ ManageWaitlist(rows, capacity)[u].createdAt = rows[u].createdAt
              /\ ManageWaitlist(rows, capacity)[u].attendeeCount = rows[u].attendeeCount
<1> DEFINE new == ManageWaitlist(rows, capacity)
<1>1. ASSUME NEW u \in Users, rows[u] # NoResponse
      PROVE  /\ new[u] \in Response
             /\ new[u] # NoResponse
             /\ new[u].createdAt = rows[u].createdAt
             /\ new[u].attendeeCount = rows[u].attendeeCount
             /\ new[u].onWaitlist = ~ (RunningTotal(rows, u) <= capacity)
  <2>1. new[u] = [rows[u] EXCEPT !.onWaitlist = ~ (RunningTotal(rows, u) <= capacity)]
    BY <1>1 DEF ManageWaitlist
  <2>2. rows[u] \in Response
    BY <1>1 DEF RowsType
  <2> QED
    BY <2>1, <2>2, NoRowAssumption DEF Response
<1>2. ASSUME NEW u \in Users, rows[u] = NoResponse
      PROVE  new[u] = NoResponse
  BY <1>2 DEF ManageWaitlist
<1>3. new \in RowsType
  <2>1. new = [u \in Users |-> new[u]]
    BY DEF ManageWaitlist
  <2> QED
    BY <1>1, <1>2, <2>1 DEF RowsType
<1>4. Responders(new) = Responders(rows)
  BY <1>1, <1>2 DEF Responders
<1>5. ASSUME NEW u \in Responders(rows)
      PROVE  RunningTotal(new, u) = RunningTotal(rows, u)
  <2>1. UpTo(new, u) = UpTo(rows, u)
    BY <1>1, <1>4 DEF UpTo, Responders
  <2>2. Heads(new, UpTo(rows, u)) = Heads(rows, UpTo(rows, u))
    BY <1>1, <1>2 DEF Heads, UpTo, Responders
  <2> QED
    BY <2>1, <2>2 DEF RunningTotal, SumAttendeeCount
<1>6. IsManaged(new, capacity)
  <2> SUFFICES ASSUME NEW u \in Responders(new)
               PROVE  new[u].onWaitlist <=> RunningTotal(new, u) > capacity
    BY DEF IsManaged
  <2>1. u \in Responders(rows) /\ rows[u] # NoResponse /\ u \in Users
    BY <1>4 DEF Responders
  <2>2. RunningTotal(rows, u) \in Nat
    BY <2>1, RunningTotalOrder
  <2>3. ~ (RunningTotal(rows, u) <= capacity) <=> RunningTotal(rows, u) > capacity
    BY <2>2
  <2>4. new[u].onWaitlist = ~ (RunningTotal(rows, u) <= capacity)
    BY <1>1, <2>1
  <2> HIDE DEF new
  <2> QED
    BY <1>5, <2>1, <2>3, <2>4, Zenon
<1> HIDE DEF new
<1>7. \A u \in Responders(rows) : /\ new[u].createdAt = rows[u].createdAt
                                  /\ new[u].attendeeCount = rows[u].attendeeCount
  BY <1>1 DEF Responders
<1> QED
  BY <1>3, <1>4, <1>6, <1>7 DEF new

\* What a managed table promises, whatever wrote it.
LEMMA ManagedPromises ==
  ASSUME NEW rows \in RowsType, NEW capacity \in Int, IsManaged(rows, capacity)
  PROVE  /\ FitsCapacity(rows, capacity)
         /\ InOrder(rows)
         /\ NoIdle(rows, capacity)
<1>1. \A u \in Responders(rows) : RunningTotal(rows, u) \in Nat
  BY RunningTotalOrder
<1>2. \A u \in Responders(rows) : u \in Users /\ rows[u].createdAt \in Nat
  BY TimesAssumption DEF Responders, RowsType, Response
<1>3. \A u \in Confirmed(rows) : RunningTotal(rows, u) <= capacity
  BY <1>1 DEF IsManaged, Confirmed
<1>4. \A u \in Waitlisted(rows) : RunningTotal(rows, u) > capacity
  BY DEF IsManaged, Waitlisted
<1>5. FitsCapacity(rows, capacity)
  <2> SUFFICES ASSUME Confirmed(rows) # {}
               PROVE  TotalAttendeeCount(rows) <= capacity
    BY DEF FitsCapacity
  <2>1. Confirmed(rows) \in SUBSET Responders(rows)
    BY DEF Confirmed
  <2>2. PICK m \in Confirmed(rows) :
               \A v \in Confirmed(rows) : rows[v].createdAt <= rows[m].createdAt
    BY <2>1, LatestResponse
  <2>3. Confirmed(rows) \subseteq UpTo(rows, m)
    BY <2>1, <2>2 DEF UpTo
  <2>4. Heads(rows, Confirmed(rows)) \subseteq Heads(rows, UpTo(rows, m))
    BY <2>3 DEF Heads
  <2>5. Confirmed(rows) \in SUBSET Users /\ UpTo(rows, m) \in SUBSET Users
    BY DEF Confirmed, UpTo, Responders
  <2>6. TotalAttendeeCount(rows) <= RunningTotal(rows, m)
    BY <2>4, <2>5, SumMonotone DEF TotalAttendeeCount, RunningTotal
  <2>7. TotalAttendeeCount(rows) \in Nat
    BY <2>5, SumType DEF TotalAttendeeCount
  <2> QED
    BY <1>1, <1>3, <2>1, <2>6, <2>7
<1>6. InOrder(rows)
  <2> SUFFICES ASSUME NEW u \in Confirmed(rows), NEW v \in Waitlisted(rows),
                      ~ (rows[u].createdAt < rows[v].createdAt)
               PROVE  FALSE
    BY DEF InOrder
  <2>1. u \in Responders(rows) /\ v \in Responders(rows)
    BY DEF Confirmed, Waitlisted
  <2>2. rows[v].createdAt <= rows[u].createdAt
    BY <1>2, <2>1
  <2>3. RunningTotal(rows, v) <= RunningTotal(rows, u)
    BY <2>1, <2>2, RunningTotalOrder
  <2> QED
    BY <1>1, <1>3, <1>4, <2>1, <2>3
<1>7. NoIdle(rows, capacity)
  <2> SUFFICES ASSUME NEW u \in Waitlisted(rows)
               PROVE  SpotsLeft(rows, capacity) <
                        SumAttendeeCount(rows, UpTo(rows, u) \cap Waitlisted(rows))
    BY DEF NoIdle
  <2> DEFINE W == UpTo(rows, u) \cap Waitlisted(rows)
             C == Confirmed(rows)
  <2>1. u \in Responders(rows)
    BY DEF Waitlisted
  <2>2. W \in SUBSET Users /\ C \in SUBSET Users /\ UpTo(rows, u) \in SUBSET Users
    BY DEF Confirmed, UpTo, Responders
  <2>3. UpTo(rows, u) \subseteq C \cup W
    BY DEF UpTo, Confirmed, Waitlisted
  <2>4. Heads(rows, UpTo(rows, u)) \subseteq Heads(rows, C \cup W)
    BY <2>3 DEF Heads
  <2>5. RunningTotal(rows, u) <= SumAttendeeCount(rows, C \cup W)
    BY <2>2, <2>4, SumMonotone DEF RunningTotal
  <2>6. SumAttendeeCount(rows, C \cup W) <= SumAttendeeCount(rows, C) + SumAttendeeCount(rows, W)
    BY <2>2, SumOfUnion
  <2>7. SumAttendeeCount(rows, C) \in Nat /\ SumAttendeeCount(rows, W) \in Nat
        /\ SumAttendeeCount(rows, C \cup W) \in Nat
    BY <2>2, SumType
  <2>8. RunningTotal(rows, u) > capacity
    BY <1>4
  <2> HIDE DEF W
  <2>9. capacity - SumAttendeeCount(rows, C) < SumAttendeeCount(rows, W)
    BY <1>1, <2>1, <2>5, <2>6, <2>7, <2>8
  <2> QED
    BY <2>9 DEF SpotsLeft, TotalAttendeeCount, W
<1> QED
  BY <1>5, <1>6, <1>7

\* Between two managed tables, a response that fits in the first and not in
\* the second saw the capacity shrink or a party up to it grow.
LEMMA SpotsMoveForCause ==
  ASSUME NEW rows1 \in RowsType, NEW cap1 \in Int, IsManaged(rows1, cap1),
         NEW rows2 \in RowsType, NEW cap2 \in Int, IsManaged(rows2, cap2),
         SamePlaces(rows1, rows2),
         NEW u \in Confirmed(rows1) \cap Waitlisted(rows2)
  PROVE  cap2 < cap1 \/ MoreUpTo(rows2, rows1, u)
<1>1. u \in Responders(rows1) /\ u \in Responders(rows2)
  BY DEF Confirmed, Waitlisted
<1>2. RunningTotal(rows1, u) \in Nat /\ RunningTotal(rows2, u) \in Nat
  BY <1>1, RunningTotalOrder
<1>3. RunningTotal(rows1, u) <= cap1
  BY <1>1, <1>2 DEF IsManaged, Confirmed
<1>4. RunningTotal(rows2, u) > cap2
  BY <1>1 DEF IsManaged, Waitlisted
<1> SUFFICES ASSUME ~ (cap2 < cap1)
             PROVE  MoreUpTo(rows2, rows1, u)
  OBVIOUS
<1>5. UpTo(rows1, u) \in SUBSET Users /\ UpTo(rows2, u) \in SUBSET Users
  BY DEF UpTo, Responders
<1>6. ~ (RunningTotal(rows2, u) <= RunningTotal(rows1, u))
  BY <1>2, <1>3, <1>4
<1>7. ~ (Heads(rows2, UpTo(rows2, u)) \subseteq Heads(rows1, UpTo(rows1, u)))
  BY <1>5, <1>6, SumMonotone DEF RunningTotal
<1>8. PICK h \in Heads(rows2, UpTo(rows2, u)) : h \notin Heads(rows1, UpTo(rows1, u))
  BY <1>7
<1>9. /\ h \in UpTo(rows2, u) \X (1 .. MaxAttendeeCount)
      /\ rows2[h[1]] # NoResponse
      /\ h[2] <= rows2[h[1]].attendeeCount
  BY <1>8 DEF Heads
<1> DEFINE v == h[1]
<1>10. v \in UpTo(rows2, u) /\ h[2] \in 1 .. MaxAttendeeCount /\ v \in Users
  BY <1>9 DEF UpTo, Responders
<1>11. rows2[v] \in Response /\ rows2[v].attendeeCount \in Nat
  BY <1>9, <1>10, MaxAssumption DEF RowsType, Response
<1>12. HeadsOf(rows2, v) = rows2[v].attendeeCount
  BY <1>9 DEF HeadsOf
<1>13. HeadsOf(rows2, v) > HeadsOf(rows1, v)
  <2>1. CASE rows1[v] = NoResponse
    BY <1>9, <1>10, <1>11, <1>12, <2>1 DEF HeadsOf
  <2>2. CASE rows1[v] # NoResponse
    <3>1. v \in Responders(rows1) /\ v \in Responders(rows2)
      BY <1>9, <1>10, <2>2 DEF Responders
    <3>2. rows1[v].createdAt = rows2[v].createdAt /\ rows1[u].createdAt = rows2[u].createdAt
      BY <1>1, <3>1 DEF SamePlaces
    <3>3. v \in UpTo(rows1, u)
      BY <1>10, <3>1, <3>2 DEF UpTo
    <3>4. h \in UpTo(rows1, u) \X (1 .. MaxAttendeeCount)
      BY <1>9, <1>10, <3>3
    <3>5. ~ (h[2] <= rows1[v].attendeeCount)
      BY <1>8, <2>2, <3>4 DEF Heads
    <3>6. rows1[v] \in Response /\ rows1[v].attendeeCount \in Nat
      BY <1>10, <2>2, MaxAssumption DEF RowsType, Response
    <3> QED
      BY <1>9, <1>10, <1>11, <1>12, <2>2, <3>5, <3>6 DEF HeadsOf
  <2> QED
    BY <2>1, <2>2
<1> QED
  BY <1>10, <1>13 DEF MoreUpTo

-----------------------------------------------------------------------------
IInv == TypeOK /\ WaitlistManaged

\* The empty database satisfies the inductive invariant.
LEMMA InitIInv == Init => IInv
<1> SUFFICES ASSUME Init PROVE IInv
  OBVIOUS
<1>1. TypeOK
  BY DEF Init, TypeOK, RowsType
<1>2. WaitlistManaged
  BY DEF Init, WaitlistManaged, Exists, Responders
<1> QED
  BY <1>1, <1>2 DEF IInv

\* Answering writes the rows of one user and keeps every place in the queue.
LEMMA AnsweredType ==
  ASSUME NEW rows \in RowsType, NEW u \in Users, NEW reading \in Times,
         NEW count \in 0 .. MaxAttendeeCount
  PROVE  /\ Answered(rows, u, count, reading) \in RowsType
         /\ SamePlaces(rows, Answered(rows, u, count, reading))
<1>1. CASE count = 0
  BY <1>1 DEF Answered, DeleteResponse, RowsType, SamePlaces, Responders
<1>2. CASE count # 0 /\ rows[u] = NoResponse
  <2> DEFINE row == [attendeeCount |-> count, createdAt |-> reading, onWaitlist |-> FALSE]
  <2>1. Answered(rows, u, count, reading) = [rows EXCEPT ![u] = row]
    BY <1>2 DEF Answered, UpdateResponse
  <2>2. row \in Response
    BY <1>2, MaxAssumption DEF Response
  <2> HIDE DEF row
  <2> QED
    BY <1>2, <2>1, <2>2 DEF RowsType, SamePlaces, Responders
<1>3. CASE count # 0 /\ rows[u] # NoResponse
  <2> DEFINE row == [rows[u] EXCEPT !.attendeeCount = count]
  <2>1. Answered(rows, u, count, reading) = [rows EXCEPT ![u] = row]
    BY <1>3 DEF Answered, UpdateResponse
  <2>2. rows[u] \in Response
    BY <1>3 DEF RowsType
  <2>3. row \in Response /\ row.createdAt = rows[u].createdAt
    BY <1>3, <2>2, MaxAssumption DEF Response
  <2> HIDE DEF row
  <2> QED
    BY <1>3, <2>1, <2>3 DEF RowsType, SamePlaces, Responders
<1> QED
  BY <1>1, <1>2, <1>3

\* Every transaction leaves tables of the right type.
LEMMA NextTypeOK == TypeOK /\ [Next]_vars => TypeOK'
<1> SUFFICES ASSUME TypeOK, [Next]_vars PROVE TypeOK'
  OBVIOUS
<1> USE DEF TypeOK
<1>1. ASSUME NEW e \in Events, NEW capacity \in Capacities, NEW start \in Times,
             Create(e, capacity, start)
      PROVE  TypeOK'
  BY <1>1 DEF Create, NewEvent, EventRow
<1>2. ASSUME NEW e \in Events, NEW capacity \in Capacities, NEW start \in Times,
             Update(e, capacity, start)
      PROVE  TypeOK'
  <2>1. event[e] \in EventRow
    BY <1>2 DEF Update, Live, Exists
  <2>2. event' \in [Events -> EventRow \cup {NoEvent}]
    BY <1>2, <2>1 DEF Update, Updated, EventRow
  <2>3. ManageWaitlist(response[e], capacity) \in RowsType
    BY CapacitiesAssumption, ManageWaitlistIsManaged
  <2> QED
    BY <1>2, <2>2, <2>3 DEF Update
<1>3. ASSUME NEW e \in Events, Delete(e)
      PROVE  TypeOK'
  <2>1. event[e] \in EventRow
    BY <1>3 DEF Delete, Exists
  <2> QED
    BY <1>3, <2>1 DEF Delete, EventRow
<1>4. ASSUME NEW e \in Events, NEW u \in Users, NEW count \in AttendeeCounts,
             NEW checked \in Times, NEW written \in Times,
             HandleResponse(e, u, count, checked, written)
      PROVE  TypeOK'
  <2>1. event[e] \in EventRow /\ event[e].capacity \in Int
    BY <1>4, CapacitiesAssumption DEF HandleResponse, Live, Exists, EventRow
  <2>2. count \in 0 .. MaxAttendeeCount
    BY <1>4, AttendeeCountsAssumption, MaxAssumption DEF HandleResponse
  <2>3. Answered(response[e], u, count, written) \in RowsType
    BY <2>2, AnsweredType
  <2>4. ManageWaitlist(Answered(response[e], u, count, written), event[e].capacity) \in RowsType
    BY <2>1, <2>3, ManageWaitlistIsManaged
  <2> QED
    BY <1>4, <2>4 DEF HandleResponse
<1>5. CASE UNCHANGED vars
  BY <1>5 DEF vars
<1> QED
  BY <1>1, <1>2, <1>3, <1>4, <1>5 DEF Next

\* A transaction that writes the event's capacity or its rows ends with
\* manageWaitlist; the others leave what it computed as it is. No transaction
\* moves a response that stays, and no event disappears.
LEMMA NextWaitlistManaged ==
  ASSUME IInv, [Next]_vars, NEW f \in Events
  PROVE  /\ IF Exists(f)' THEN IsManaged(response'[f], event'[f].capacity)
                          ELSE Responders(response'[f]) = {}
         /\ SamePlaces(response[f], response'[f])
         /\ Exists(f) => Exists(f)'
<1> DEFINE Goal == /\ IF Exists(f)' THEN IsManaged(response'[f], event'[f].capacity)
                                    ELSE Responders(response'[f]) = {}
                   /\ SamePlaces(response[f], response'[f])
                   /\ Exists(f) => Exists(f)'
<1> USE DEF IInv, TypeOK
<1>1. ASSUME response'[f] = response[f],
             Exists(f)' <=> Exists(f),
             Exists(f) => event'[f].capacity = event[f].capacity
      PROVE  Goal
  BY <1>1 DEF WaitlistManaged, SamePlaces
<1>2. ASSUME event'[f] = event[f], response'[f] = response[f]
      PROVE  Goal
  BY <1>1, <1>2 DEF Exists
<1>3. ASSUME NEW e \in Events, NEW capacity \in Capacities, NEW start \in Times,
             Create(e, capacity, start)
      PROVE  Goal
  <2>1. CASE f = e
    <3>1. Responders(response[f]) = {} /\ response'[f] = response[f]
      BY <1>3, <2>1 DEF Create, WaitlistManaged
    <3>2. event'[f] \in EventRow
      BY <1>3, <2>1 DEF Create, NewEvent, EventRow
    <3> QED
      BY <3>1, <3>2, NoEventAssumption DEF Exists, IsManaged, SamePlaces
  <2>2. CASE f # e
    BY <1>2, <1>3, <2>2 DEF Create
  <2> QED
    BY <2>1, <2>2
<1>4. ASSUME NEW e \in Events, NEW capacity \in Capacities, NEW start \in Times,
             Update(e, capacity, start)
      PROVE  Goal
  <2>1. CASE f = e
    <3>1. event[f] \in EventRow
      BY <1>4, <2>1 DEF Update, Live, Exists
    <3>2. event'[f] = [event[f] EXCEPT !.capacity = capacity, !.start = start]
      BY <1>4, <2>1 DEF Update, Updated
    <3>3. event'[f].capacity = capacity /\ event'[f] \in EventRow
      BY <3>1, <3>2 DEF EventRow
    <3>4. response'[f] = ManageWaitlist(response[f], capacity)
      BY <1>4, <2>1 DEF Update
    <3>5. IsManaged(response'[f], capacity) /\ SamePlaces(response[f], response'[f])
      BY <3>4, CapacitiesAssumption, ManageWaitlistIsManaged DEF SamePlaces
    <3> QED
      BY <3>3, <3>5, NoEventAssumption DEF Exists
  <2>2. CASE f # e
    BY <1>2, <1>4, <2>2 DEF Update, Updated
  <2> QED
    BY <2>1, <2>2
<1>5. ASSUME NEW e \in Events, Delete(e)
      PROVE  Goal
  <2>1. CASE f = e
    <3>1. event[f] \in EventRow
      BY <1>5, <2>1 DEF Delete, Exists
    <3>2. event'[f] = [event[f] EXCEPT !.isDeleted = TRUE]
      BY <1>5, <2>1 DEF Delete
    <3>3. event'[f] \in EventRow /\ event'[f].capacity = event[f].capacity
      BY <3>1, <3>2 DEF EventRow
    <3>4. response'[f] = response[f]
      BY <1>5 DEF Delete
    <3>5. Exists(f) /\ Exists(f)'
      BY <1>5, <2>1, <3>3, NoEventAssumption DEF Delete, Exists
    <3> HIDE DEF Goal
    <3> QED
      BY <1>1, <3>3, <3>4, <3>5
  <2>2. CASE f # e
    BY <1>2, <1>5, <2>2 DEF Delete
  <2> QED
    BY <2>1, <2>2
<1>6. ASSUME NEW e \in Events, NEW u \in Users, NEW count \in AttendeeCounts,
             NEW checked \in Times, NEW written \in Times,
             HandleResponse(e, u, count, checked, written)
      PROVE  Goal
  <2>1. CASE f = e
    <3> DEFINE answered == Answered(response[f], u, count, written)
    <3>1. Exists(f) /\ event'[f] = event[f] /\ event[f].capacity \in Int
      BY <1>6, <2>1, CapacitiesAssumption DEF HandleResponse, Live, Exists, EventRow
    <3>2. count \in 0 .. MaxAttendeeCount
      BY <1>6, AttendeeCountsAssumption, MaxAssumption DEF HandleResponse
    <3>3. answered \in RowsType /\ SamePlaces(response[f], answered)
      BY <3>2, AnsweredType
    <3>4. response'[f] = ManageWaitlist(answered, event[f].capacity)
      BY <1>6, <2>1 DEF HandleResponse
    <3> HIDE DEF answered
    <3>5. IsManaged(response'[f], event[f].capacity)
      BY <3>1, <3>3, <3>4, ManageWaitlistIsManaged
    <3>6. SamePlaces(response[f], response'[f])
      BY <3>1, <3>3, <3>4, ManageWaitlistIsManaged DEF SamePlaces
    <3> QED
      BY <3>1, <3>5, <3>6 DEF Exists
  <2>2. CASE f # e
    BY <1>2, <1>6, <2>2 DEF HandleResponse
  <2> QED
    BY <2>1, <2>2
<1>7. CASE UNCHANGED vars
  BY <1>2, <1>7 DEF vars
<1> QED
  BY <1>3, <1>4, <1>5, <1>6, <1>7 DEF Next

LEMMA NextIInv == IInv /\ [Next]_vars => IInv'
BY NextTypeOK, NextWaitlistManaged DEF IInv, WaitlistManaged

\* IInv is an invariant of the event service.
THEOREM SpecIInv == Spec => []IInv
<1>1. Init => IInv
  BY InitIInv
<1>2. IInv /\ [Next]_vars => IInv'
  BY NextIInv
<1> QED
  BY <1>1, <1>2, PTL DEF Spec

\* The tables always have the right type: no request, valid or not, gets a
\* party larger than MaxAttendeeCount or an empty one stored.
THEOREM TypeCorrect == Spec => []TypeOK
<1>1. IInv => TypeOK
  BY DEF IInv
<1> QED
  BY <1>1, SpecIInv, PTL

\* Between any two transactions, whatever the clock did, the on_waitlist column
\* of every event is what manageWaitlist would compute.
THEOREM WaitlistAlwaysManaged == Spec => []WaitlistManaged
<1>1. IInv => WaitlistManaged
  BY DEF IInv
<1> QED
  BY <1>1, SpecIInv, PTL

\* Every event keeps its capacity, its order and no idle spots.
LEMMA IInvPromises == IInv => CapacityRespected /\ NoOvertaking /\ NoIdleSpots
<1> SUFFICES ASSUME IInv, NEW e \in Events
             PROVE  /\ Exists(e) => FitsCapacity(response[e], event[e].capacity)
                    /\ InOrder(response[e])
                    /\ Exists(e) => NoIdle(response[e], event[e].capacity)
  BY DEF CapacityRespected, NoOvertaking, NoIdleSpots
<1> USE DEF IInv, TypeOK
<1>1. CASE Exists(e)
  <2>1. event[e].capacity \in Int
    BY <1>1, CapacitiesAssumption DEF Exists, EventRow
  <2>2. IsManaged(response[e], event[e].capacity)
    BY <1>1 DEF WaitlistManaged
  <2> QED
    BY <2>1, <2>2, ManagedPromises
<1>2. CASE ~ Exists(e)
  BY <1>2 DEF WaitlistManaged, InOrder, Confirmed
<1> QED
  BY <1>1, <1>2

\* No sequence of answers, edits, deletions and clock steps confirms more heads
\* than the capacity, unless nobody is confirmed.
THEOREM CapacityAlwaysRespected == Spec => []CapacityRespected
BY IInvPromises, SpecIInv, PTL

\* Nobody ever has a spot while an earlier response waits.
THEOREM NeverOvertaken == Spec => []NoOvertaking
BY IInvPromises, SpecIInv, PTL

\* Nobody ever waits while all the heads waiting up to them would fit.
THEOREM NeverIdle == Spec => []NoIdleSpots
BY IInvPromises, SpecIInv, PTL

-----------------------------------------------------------------------------
\* Between managed tables in which whoever stays keeps their place, a spot is lost or
\* won only for a cause, whatever the step between them did.
LEMMA StepMovesForCause ==
  ASSUME IInv, IInv',
         \A e \in Events : /\ Exists(e) => Exists(e)'
                           /\ SamePlaces(response[e], response'[e])
  PROVE  DemotedForCause /\ PromotedForCause
<1> SUFFICES ASSUME NEW e \in Events, NEW u \in Users
             PROVE  /\ u \in Confirmed(response[e]) \cap Waitlisted(response'[e])
                         => \/ event'[e].capacity < event[e].capacity
                            \/ MoreUpTo(response'[e], response[e], u)
                    /\ u \in Waitlisted(response[e]) \cap Confirmed(response'[e])
                         => \/ event'[e].capacity > event[e].capacity
                            \/ MoreUpTo(response[e], response'[e], u)
  BY DEF DemotedForCause, PromotedForCause, Confirmed, Waitlisted, Responders
<1>1. CASE ~ Exists(e)
  BY <1>1 DEF IInv, WaitlistManaged, Confirmed, Waitlisted
<1>2. CASE Exists(e)
  <2>1. Exists(e)'
    BY <1>2
  <2>2. /\ response[e] \in RowsType /\ event[e].capacity \in Int
        /\ IsManaged(response[e], event[e].capacity)
    BY <1>2, CapacitiesAssumption DEF IInv, TypeOK, WaitlistManaged, Exists, EventRow
  <2>3. /\ response'[e] \in RowsType /\ event'[e].capacity \in Int
        /\ IsManaged(response'[e], event'[e].capacity)
    BY <2>1, CapacitiesAssumption DEF IInv, TypeOK, WaitlistManaged, Exists, EventRow
  <2>4. SamePlaces(response[e], response'[e]) /\ SamePlaces(response'[e], response[e])
    BY DEF SamePlaces
  <2>5. ASSUME u \in Confirmed(response[e]) \cap Waitlisted(response'[e])
        PROVE  \/ event'[e].capacity < event[e].capacity
               \/ MoreUpTo(response'[e], response[e], u)
    BY <2>2, <2>3, <2>4, <2>5, SpotsMoveForCause
  <2>6. ASSUME u \in Waitlisted(response[e]) \cap Confirmed(response'[e])
        PROVE  \/ event'[e].capacity > event[e].capacity
               \/ MoreUpTo(response[e], response'[e], u)
    <3>1. event[e].capacity < event'[e].capacity \/ MoreUpTo(response[e], response'[e], u)
      BY <2>2, <2>3, <2>4, <2>6, SpotsMoveForCause
    <3> QED
      BY <2>2, <2>3, <3>1
  <2> QED
    BY <2>5, <2>6
<1> QED
  BY <1>1, <1>2

\* In every step a spot is lost or won only for a cause that the code names:
\* the capacity, or the size of a party at or before the user's place.
THEOREM SpotsMoveOnlyForCause == Spec => ResponsesMoveForCause
<1>1. IInv /\ IInv' /\ [Next]_vars => [DemotedForCause /\ PromotedForCause]_vars
  BY NextWaitlistManaged, StepMovesForCause
<1> QED
  BY <1>1, SpecIInv, PTL DEF Spec, ResponsesMoveForCause

\* No step moves a response that stays to another place in the queue.
THEOREM PlacesAlwaysKept == Spec => PlacesKept
<1>1. IInv /\ [Next]_vars => [PlaceKept]_vars
  BY NextWaitlistManaged DEF PlaceKept
<1> QED
  BY <1>1, SpecIInv, PTL DEF Spec, PlacesKept

\* manageWaitlist brings nobody in and sends nobody away.
LEMMA ManageKeepsHeads ==
  ASSUME NEW rows \in RowsType, NEW capacity \in Int, NEW u \in Users
  PROVE  HeadsOf(ManageWaitlist(rows, capacity), u) = HeadsOf(rows, u)
<1> DEFINE new == ManageWaitlist(rows, capacity)
<1>1. /\ Responders(new) = Responders(rows)
      /\ \A v \in Responders(rows) : new[v].attendeeCount = rows[v].attendeeCount
  BY ManageWaitlistIsManaged
<1> HIDE DEF new
<1>2. new[u] # NoResponse <=> rows[u] # NoResponse
  BY <1>1 DEF Responders
<1>3. HeadsOf(new, u) = HeadsOf(rows, u)
  BY <1>1, <1>2 DEF HeadsOf, Responders
<1> QED
  BY <1>3 DEF new

\* Create, Update and Delete change nobody's party.
LEMMA EditsKeepHeads ==
  ASSUME IInv, NEW f \in Events, Exists(f),
         \/ \E e \in Events, capacity \in Capacities, start \in Times :
              Create(e, capacity, start) \/ Update(e, capacity, start)
         \/ \E e \in Events : Delete(e)
  PROVE  \A u \in Users : HeadsOf(response'[f], u) = HeadsOf(response[f], u)
<1> USE DEF IInv, TypeOK
<1>1. ASSUME NEW e \in Events, NEW capacity \in Capacities, NEW start \in Times,
             Update(e, capacity, start)
      PROVE  \A u \in Users : HeadsOf(response'[f], u) = HeadsOf(response[f], u)
  <2>1. CASE e = f
    <3>1. response'[f] = ManageWaitlist(response[f], capacity)
      BY <1>1, <2>1 DEF Update
    <3> QED
      BY <3>1, CapacitiesAssumption, ManageKeepsHeads
  <2>2. CASE e # f
    BY <1>1, <2>2 DEF Update
  <2> QED
    BY <2>1, <2>2
<1> QED
  BY <1>1 DEF Create, Delete

\* No method of the service changes the row or the responses of a deleted event.
LEMMA DeletedIsFinal ==
  ASSUME IInv, [Next]_vars, NEW f \in Events, Exists(f), event[f].isDeleted
  PROVE  event'[f] = event[f] /\ response'[f] = response[f]
<1> USE DEF IInv, TypeOK
<1>1. ASSUME NEW e \in Events, Delete(e)
      PROVE  event'[f] = event[f] /\ response'[f] = response[f]
  <2>1. event[f] \in EventRow /\ event[f].isDeleted = TRUE
    BY DEF Exists, EventRow
  <2>2. e = f => event'[f] = [event[f] EXCEPT !.isDeleted = TRUE]
    BY <1>1 DEF Delete
  <2>3. e = f => event'[f] = event[f]
    BY <2>1, <2>2 DEF EventRow
  <2> QED
    BY <1>1, <2>3 DEF Delete
<1>2. ASSUME NEW e \in Events, NEW capacity \in Capacities, NEW start \in Times,
             Create(e, capacity, start) \/ Update(e, capacity, start)
      PROVE  event'[f] = event[f] /\ response'[f] = response[f]
  BY <1>2 DEF Create, Exists, Update, Updated, Live
<1>3. ASSUME NEW e \in Events, NEW u \in Users, NEW count \in AttendeeCounts,
             NEW checked \in Times, NEW written \in Times,
             HandleResponse(e, u, count, checked, written)
      PROVE  event'[f] = event[f] /\ response'[f] = response[f]
  BY <1>3 DEF HandleResponse, Live
<1> QED
  BY <1>1, <1>2, <1>3 DEF Next, vars

-----------------------------------------------------------------------------
(***************************************************************************)
(* The event service implements the queue of RsvpQueue.                    *)
(***************************************************************************)

\* The queue of an event holds the parties that responded.
LEMMA PartiesOf ==
  ASSUME NEW rows \in RowsType, NEW u \in Users
  PROVE  /\ u \in Responders(rows) =>
              /\ Parties(rows)[u] # NoResponse
              /\ Parties(rows)[u].heads = rows[u].attendeeCount
              /\ Parties(rows)[u].place = rows[u].createdAt
         /\ u \notin Responders(rows) => Parties(rows)[u] = NoResponse
<1>1. CASE u \in Responders(rows)
  <2> DEFINE p == [heads |-> rows[u].attendeeCount, place |-> rows[u].createdAt]
  <2>1. Parties(rows)[u] = p
    BY <1>1 DEF Parties, Responders
  <2>2. rows[u] \in Response
    BY <1>1 DEF Responders, RowsType
  <2>3. p \in Queue!Party
    BY <2>2 DEF Response, Queue!Party
  <2>4. p.heads = rows[u].attendeeCount /\ p.place = rows[u].createdAt
    OBVIOUS
  <2> HIDE DEF p
  <2> QED
    BY <1>1, <2>1, <2>3, <2>4, NoPartyAssumption
<1>2. CASE u \notin Responders(rows)
  BY <1>2 DEF Parties, Responders
<1> QED
  BY <1>1, <1>2

\* A managed waitlist confirms the longest front of the queue that fits: a party
\* is in a front that fits exactly when its running total fits.
LEMMA ManagedConfirmsPromised ==
  ASSUME NEW rows \in RowsType, NEW capacity \in Int, IsManaged(rows, capacity)
  PROVE  Queue!Promised(Parties(rows), capacity) = Confirmed(rows)
<1> DEFINE q == Parties(rows)
<1>1. Queue!InQueue(q) = Responders(rows)
  <2> HIDE DEF q
  <2>1. \A u \in Users : q[u] # NoResponse <=> u \in Responders(rows)
    BY PartiesOf DEF q
  <2> QED
    BY <2>1 DEF Queue!InQueue, Responders
<1>2. ASSUME NEW S \in SUBSET Responders(rows)
      PROVE  Queue!People(q, S) = Heads(rows, S)
  <2> HIDE DEF q
  <2>1. \A h \in S \X (1 .. MaxAttendeeCount) :
           /\ q[h[1]] # NoResponse /\ rows[h[1]] # NoResponse
           /\ q[h[1]].heads = rows[h[1]].attendeeCount
    BY PartiesOf DEF q, Responders
  <2> QED
    BY <2>1 DEF Queue!People, Heads
<1>3. ASSUME NEW S \in SUBSET Responders(rows)
      PROVE  Queue!IsFront(q, S) <=> \A u \in S : UpTo(rows, u) \subseteq S
  <2> HIDE DEF q
  <2>1. \A u \in Responders(rows) : u \in Users /\ q[u].place = rows[u].createdAt
    BY PartiesOf DEF q, Responders
  <2> QED
    BY <1>1, <2>1 DEF Queue!IsFront, UpTo
<1> DEFINE Fits(S) == Queue!IsFront(q, S) /\ Cardinality(Queue!People(q, S)) <= capacity
<1>4. \A u \in Responders(rows) :
         RunningTotal(rows, u) \in Nat /\ UpTo(rows, u) \in SUBSET Responders(rows)
  BY RunningTotalOrder DEF UpTo
<1>5. \A u, v \in Responders(rows) :
         rows[u].createdAt \in Nat /\ rows[v].createdAt \in Nat
  BY TimesAssumption DEF Responders, RowsType, Response
<1>6. ASSUME NEW u \in Responders(rows), RunningTotal(rows, u) <= capacity
      PROVE  u \in UpTo(rows, u) /\ Fits(UpTo(rows, u))
  <2> DEFINE S == UpTo(rows, u)
  <2>1. S \in SUBSET Responders(rows)
    BY <1>4
  <2>2. u \in S /\ \A v \in S : UpTo(rows, v) \subseteq S
    BY <1>5 DEF UpTo
  <2>3. Queue!IsFront(q, S)
    BY <1>3, <2>1, <2>2
  <2>4. Cardinality(Queue!People(q, S)) = RunningTotal(rows, u)
    BY <1>2, <2>1 DEF RunningTotal, SumAttendeeCount
  <2> QED
    BY <1>6, <2>2, <2>3, <2>4
<1>7. ASSUME NEW S \in SUBSET Responders(rows), Fits(S), NEW u \in S
      PROVE  RunningTotal(rows, u) <= capacity
  <2>1. UpTo(rows, u) \subseteq S /\ S \subseteq Users
    BY <1>3, <1>7 DEF Responders
  <2>2. Heads(rows, UpTo(rows, u)) \subseteq Heads(rows, S)
    BY <2>1 DEF Heads
  <2>3. RunningTotal(rows, u) <= SumAttendeeCount(rows, S)
    BY <2>1, <2>2, SumMonotone DEF RunningTotal
  <2>4. SumAttendeeCount(rows, S) <= capacity /\ SumAttendeeCount(rows, S) \in Nat
    BY <1>2, <1>7, <2>1, SumType DEF SumAttendeeCount
  <2> QED
    BY <1>4, <2>3, <2>4
<1>8. \A u \in Responders(rows) :
         u \in Confirmed(rows) <=> RunningTotal(rows, u) <= capacity
  <2>1. \A u \in Responders(rows) :
           rows[u].onWaitlist <=> ~ (RunningTotal(rows, u) <= capacity)
    BY <1>4 DEF IsManaged
  <2> QED
    BY <2>1 DEF Confirmed
<1>9. Queue!Promised(q, capacity) = UNION {S \in SUBSET Responders(rows) : Fits(S)}
  BY <1>1 DEF Queue!Promised, Queue!Cardinality, Cardinality
<1> HIDE DEF Fits, q
<1>10. \A u : u \in UNION {S \in SUBSET Responders(rows) : Fits(S)} <=> u \in Confirmed(rows)
  <2> TAKE u
  <2>1. ASSUME NEW S \in SUBSET Responders(rows), Fits(S), u \in S
        PROVE  u \in Confirmed(rows)
    BY <1>7, <1>8, <2>1
  <2>2. ASSUME u \in Confirmed(rows)
        PROVE  u \in UNION {S \in SUBSET Responders(rows) : Fits(S)}
    <3>1. u \in Responders(rows)
      BY <2>2 DEF Confirmed
    <3> QED
      BY <1>4, <1>6, <1>8, <2>2, <3>1
  <2> QED
    BY <2>1, <2>2
<1> QED
  BY <1>9, <1>10 DEF q

\* The refinement mapping, by name.
QCapacity  == [e \in Events |-> IF Exists(e) THEN event[e].capacity ELSE NoEvent]
QOpen      == {e \in Events : Live(e)}
QQueue     == [e \in Events |-> Parties(response[e])]
QConfirmed == [e \in Events |-> Confirmed(response[e])]

\* An action that leaves the rows and capacities of all events but f alone, and
\* leaves those of f as they are or manages them, changes the queue of f alone.
LEMMA QueueOfOne ==
  ASSUME IInv, IInv', NEW f \in Events, Exists(f)', NEW rows \in RowsType,
         response' = [response EXCEPT ![f] = rows],
         IsManaged(rows, event'[f].capacity)
  PROVE  /\ QQueue' = [QQueue EXCEPT ![f] = Parties(rows)]
         /\ QConfirmed' = [QConfirmed EXCEPT ![f] =
                             Queue!Promised(Parties(rows), event'[f].capacity)]
<1> USE DEF IInv, TypeOK
<1>1. event'[f].capacity \in Int
  BY CapacitiesAssumption DEF Exists, EventRow
<1>2. Queue!Promised(Parties(rows), event'[f].capacity) = Confirmed(rows)
  BY <1>1, ManagedConfirmsPromised
<1>3. QQueue' = [QQueue EXCEPT ![f] = Parties(rows)]
  BY DEF QQueue
<1>4. QConfirmed' = [QConfirmed EXCEPT ![f] = Confirmed(rows)]
  BY DEF QConfirmed
<1> QED
  BY <1>2, <1>3, <1>4

\* What an answer of user u makes of the rows, whenever it was written.
IsAnswer(rows, answered, u) ==
  /\ SamePlaces(rows, answered)
  /\ \A v \in Users \ {u} : answered[v] = rows[v]

LEMMA AnsweredIsAnswer ==
  ASSUME NEW rows \in RowsType, NEW u \in Users, NEW reading \in Times,
         NEW count \in 0 .. MaxAttendeeCount
  PROVE  /\ Answered(rows, u, count, reading) \in RowsType
         /\ IsAnswer(rows, Answered(rows, u, count, reading), u)
<1>1. \A v \in Users \ {u} : Answered(rows, u, count, reading)[v] = rows[v]
  BY DEF Answered, DeleteResponse, UpdateResponse, RowsType
<1> QED
  BY <1>1, AnsweredType DEF IsAnswer

\* A transaction that writes an answer and manages the waitlist is a step of the
\* queue.
LEMMA AnswerStep ==
  ASSUME IInv, IInv', NEW e \in Events, NEW u \in Users, Live(e), event' = event,
         NEW answered \in RowsType, IsAnswer(response[e], answered, u),
         response' = [response EXCEPT ![e] = ManageWaitlist(answered, event[e].capacity)]
  PROVE  Queue!Leave(e, u) \/ \E p \in Queue!Party : Queue!Answer(e, u, p)
<1> USE DEF IInv, TypeOK
<1>1. event[e] \in EventRow /\ Exists(e)
  BY DEF Live, Exists
<1>2. event[e].capacity \in Int
  BY <1>1, CapacitiesAssumption DEF EventRow
<1> DEFINE rows == ManageWaitlist(answered, event[e].capacity)
           q == Parties(response[e])
           p == Parties(answered)[u]
<1>3. Parties(answered) = [q EXCEPT ![u] = p]
  BY DEF Parties, IsAnswer
<1>4. rows \in RowsType /\ IsManaged(rows, event[e].capacity)
  BY <1>2, ManageWaitlistIsManaged
<1>5. Parties(rows) = Parties(answered)
  <2>1. \A v \in Users :
          /\ rows[v] = NoResponse <=> answered[v] = NoResponse
          /\ rows[v] # NoResponse =>
               /\ rows[v].attendeeCount = answered[v].attendeeCount
               /\ rows[v].createdAt = answered[v].createdAt
    BY <1>2, ManageWaitlistIsManaged DEF Responders
  <2> HIDE DEF rows
  <2> QED
    BY <2>1 DEF Parties
<1>6. response' = [response EXCEPT ![e] = rows]
  OBVIOUS
<1> HIDE DEF rows
<1>7. Exists(e)' /\ event'[e].capacity = event[e].capacity
  BY <1>1 DEF Exists
<1>8. /\ QQueue' = [QQueue EXCEPT ![e] = Parties(rows)]
      /\ QConfirmed' = [QConfirmed EXCEPT ![e] =
                          Queue!Promised(Parties(rows), event[e].capacity)]
  BY <1>4, <1>6, <1>7, QueueOfOne
<1>9. QCapacity' = QCapacity /\ QOpen' = QOpen /\ e \in QOpen
  BY DEF QCapacity, QOpen, Live, Exists
<1>10. QCapacity[e] = event[e].capacity /\ QQueue[e] = q
  BY <1>1 DEF QCapacity, QQueue
<1>11. /\ QQueue' = [QQueue EXCEPT ![e][u] = p]
       /\ QQueue'[e] = Parties(rows)
  BY <1>3, <1>5, <1>8, <1>10 DEF QQueue
<1>12. QConfirmed' = [QConfirmed EXCEPT ![e] = Queue!Promised(QQueue'[e], QCapacity[e])]
  BY <1>8, <1>10, <1>11
<1>13. CASE answered[u] = NoResponse
  <2>1. p = NoResponse
    BY <1>13 DEF Parties
  <2> QED
    BY <1>9, <1>11, <1>12, <2>1 DEF Queue!Leave, QCapacity, QOpen, QQueue, QConfirmed
<1>14. CASE answered[u] # NoResponse
  <2>1. u \in Responders(answered) /\ answered[u] \in Response
    BY <1>14 DEF Responders, RowsType
  <2>2. p = [heads |-> answered[u].attendeeCount, place |-> answered[u].createdAt]
    BY <1>14 DEF Parties
  <2>3. p \in Queue!Party /\ p.place = answered[u].createdAt
    BY <2>1, <2>2 DEF Response, Queue!Party
  <2>4. q[u] # NoResponse => q[u].place = p.place
    <3>1. q[u] # NoResponse => u \in Responders(response[e])
      BY PartiesOf
    <3>2. u \in Responders(response[e]) => q[u].place = response[e][u].createdAt
      BY PartiesOf
    <3> QED
      BY <2>1, <2>3, <3>1, <3>2 DEF SamePlaces, IsAnswer
  <2> HIDE DEF p, q
  <2>5. Queue!Answer(e, u, p)
    BY <1>9, <1>10, <1>11, <1>12, <2>4
       DEF Queue!Answer, QCapacity, QOpen, QQueue, QConfirmed
  <2> QED
    BY <2>3, <2>5
<1> QED
  BY <1>13, <1>14

\* Every transaction is a step of the queue, or leaves it as it is.
LEMMA QueueStep == IInv /\ IInv' /\ [Next]_vars => [Queue!Next]_(Queue!queueVars)
<1> SUFFICES ASSUME IInv, IInv', [Next]_vars
             PROVE  [Queue!Next]_(Queue!queueVars)
  OBVIOUS
<1> USE DEF IInv, TypeOK
<1>1. ASSUME NEW e \in Events, NEW capacity \in Capacities, NEW start \in Times,
             Create(e, capacity, start)
      PROVE  Queue!Announce(e, capacity)
  <2>1. event'[e] \in EventRow /\ event'[e].capacity = capacity /\ ~ event'[e].isDeleted
    BY <1>1 DEF Create, NewEvent, EventRow
  <2>2. Exists(e)' /\ Live(e)' /\ ~ Exists(e)
    BY <1>1, <2>1, NoEventAssumption DEF Create, Exists, Live
  <2>3. \A f \in Events \ {e} : event'[f] = event[f]
    BY <1>1 DEF Create
  <2>4. QCapacity[e] = NoEvent /\ QCapacity' = [QCapacity EXCEPT ![e] = capacity]
    BY <2>1, <2>2, <2>3 DEF QCapacity, Exists
  <2>5. QOpen' = QOpen \cup {e}
    BY <2>2, <2>3 DEF QOpen, Live, Exists
  <2>6. QQueue' = QQueue /\ QConfirmed' = QConfirmed
    BY <1>1 DEF Create, QQueue, QConfirmed
  <2> QED
    BY <2>4, <2>5, <2>6 DEF Queue!Announce, QCapacity, QOpen, QQueue, QConfirmed
<1>2. ASSUME NEW e \in Events, NEW capacity \in Capacities, NEW start \in Times,
             Update(e, capacity, start)
      PROVE  Queue!Resize(e, capacity)
  <2>1. event[e] \in EventRow /\ Live(e)
    BY <1>2 DEF Update, Live, Exists
  <2>2. event'[e] = [event[e] EXCEPT !.capacity = capacity, !.start = start]
    BY <1>2 DEF Update, Updated
  <2>3. /\ event'[e] \in EventRow /\ event'[e].capacity = capacity
        /\ event'[e].isDeleted = event[e].isDeleted
    BY <2>1, <2>2 DEF EventRow
  <2>4. Exists(e)' /\ Exists(e) /\ (Live(e)' <=> Live(e))
    BY <2>1, <2>3, NoEventAssumption DEF Exists, Live
  <2>5. \A f \in Events \ {e} : event'[f] = event[f]
    BY <1>2 DEF Update, Updated
  <2>6. QCapacity' = [QCapacity EXCEPT ![e] = capacity]
    BY <2>3, <2>4, <2>5 DEF QCapacity, Exists
  <2>7. QOpen' = QOpen /\ e \in QOpen
    BY <2>1, <2>4, <2>5 DEF QOpen, Live, Exists
  <2> DEFINE rows == ManageWaitlist(response[e], capacity)
  <2>8. rows \in RowsType /\ IsManaged(rows, capacity)
    BY CapacitiesAssumption, ManageWaitlistIsManaged
  <2>9. Parties(rows) = Parties(response[e])
    <3>1. \A u \in Users :
            /\ rows[u] = NoResponse <=> response[e][u] = NoResponse
            /\ rows[u] # NoResponse =>
                 /\ rows[u].attendeeCount = response[e][u].attendeeCount
                 /\ rows[u].createdAt = response[e][u].createdAt
      BY CapacitiesAssumption, ManageWaitlistIsManaged DEF Responders
    <3> HIDE DEF rows
    <3> QED
      BY <3>1 DEF Parties
  <2>10. response' = [response EXCEPT ![e] = rows]
    BY <1>2 DEF Update
  <2> HIDE DEF rows
  <2>11. /\ QQueue' = [QQueue EXCEPT ![e] = Parties(rows)]
         /\ QConfirmed' = [QConfirmed EXCEPT ![e] = Queue!Promised(Parties(rows), capacity)]
    BY <2>3, <2>4, <2>8, <2>10, QueueOfOne
  <2>12. QQueue[e] = Parties(rows) /\ QQueue' = QQueue
    BY <2>9, <2>11 DEF QQueue
  <2> QED
    BY <2>6, <2>7, <2>11, <2>12 DEF Queue!Resize, QCapacity, QOpen, QQueue, QConfirmed
<1>3. ASSUME NEW e \in Events, Delete(e)
      PROVE  Queue!Close(e)
  <2>1. event[e] \in EventRow /\ Exists(e)
    BY <1>3 DEF Delete, Exists
  <2>2. event'[e] = [event[e] EXCEPT !.isDeleted = TRUE]
    BY <1>3 DEF Delete
  <2>3. /\ event'[e] \in EventRow /\ event'[e].capacity = event[e].capacity
        /\ event'[e].isDeleted
    BY <2>1, <2>2 DEF EventRow
  <2>4. Exists(e)' /\ ~ Live(e)'
    BY <2>3, NoEventAssumption DEF Exists, Live
  <2>5. \A f \in Events \ {e} : event'[f] = event[f]
    BY <1>3 DEF Delete
  <2>6. QCapacity' = QCapacity
    BY <2>1, <2>3, <2>4, <2>5 DEF QCapacity, Exists
  <2>7. QOpen' = QOpen \ {e}
    BY <2>4, <2>5 DEF QOpen, Live, Exists
  <2>8. QQueue' = QQueue /\ QConfirmed' = QConfirmed
    BY <1>3 DEF Delete, QQueue, QConfirmed
  <2> QED
    BY <2>6, <2>7, <2>8 DEF Queue!Close, QCapacity, QOpen, QQueue, QConfirmed
<1>4. ASSUME NEW e \in Events, NEW u \in Users, NEW count \in AttendeeCounts,
             NEW checked \in Times, NEW written \in Times,
             HandleResponse(e, u, count, checked, written)
      PROVE  Queue!Leave(e, u) \/ \E p \in Queue!Party : Queue!Answer(e, u, p)
  <2> DEFINE answered == Answered(response[e], u, count, written)
  <2>1. Live(e) /\ event' = event
    BY <1>4 DEF HandleResponse
  <2>2. count \in 0 .. MaxAttendeeCount
    BY <1>4, AttendeeCountsAssumption, MaxAssumption DEF HandleResponse
  <2>3. answered \in RowsType /\ IsAnswer(response[e], answered, u)
    BY <2>2, AnsweredIsAnswer
  <2>4. response' = [response EXCEPT ![e] = ManageWaitlist(answered, event[e].capacity)]
    BY <1>4 DEF HandleResponse
  <2> HIDE DEF answered
  <2> QED
    BY <2>1, <2>3, <2>4, AnswerStep
<1>5. CASE UNCHANGED vars
  BY <1>5 DEF vars, Queue!queueVars, Exists, Live
<1> QED
  BY <1>1, <1>2, <1>3, <1>4, <1>5 DEF Next, Queue!Next

\* The empty database is the empty queue.
LEMMA InitQueue == Init => Queue!Init
<1> SUFFICES ASSUME Init PROVE Queue!Init
  OBVIOUS
<1>1. \A e \in Events : ~ Exists(e) /\ Parties(response[e]) = [u \in Users |-> NoResponse]
  BY DEF Init, Exists, Parties
<1>2. \A e \in Events : Confirmed(response[e]) = {}
  BY DEF Init, Confirmed, Responders
<1> QED
  BY <1>1, <1>2 DEF Queue!Init, Live

\* The event service implements the abstract queue: its stored waitlist, managed
\* by running totals, confirms after every transaction what the queue promises.
THEOREM ImplementsQueue == Spec => QueueSpec
<1>1. Init => Queue!Init
  BY InitQueue
<1>2. IInv /\ IInv' /\ [Next]_vars => [Queue!Next]_(Queue!queueVars)
  BY QueueStep
<1> QED
  BY <1>1, <1>2, SpecIInv, PTL DEF Spec, QueueSpec, Queue!Spec

=============================================================================

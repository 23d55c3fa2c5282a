----------------------- MODULE EventTransactionsProofs -----------------------
(***************************************************************************)
(* Theorems about the event service's transactions, for any number of      *)
(* them: that the interleaved statements leave in the tables what          *)
(* RsvpQueue promises, and that what a transaction has read holds for as   *)
(* long as it may use it.                                                  *)
(*                                                                         *)
(* The argument is two-phase locking. A commit needs that nobody else has  *)
(* a lock, so it disturbs nobody who has read; only one transaction can    *)
(* have written, so what it wrote was computed from the tables as they     *)
(* are when it commits.                                                    *)
(***************************************************************************)
EXTENDS EventTransactions, EventServiceProofs

\* What get or the first statement finds.
Row(e) == [event |-> event[e], responses |-> response[e]]

\* The method of t, the lock it holds, and what it has read, at each statement.
Step(t) ==
  /\ pc[t] = "idle" <=> call[t] = NoCall
  /\ pc[t] \in {"idle", "get"} => lock[t] = "none"
  /\ pc[t] = "get" => call[t].method \in {"HandleResponse", "GetDetailed"}
  /\ pc[t] = "list" => lock[t] = "shared" /\ call[t].method = "GetDetailed"
  /\ pc[t] = "write" =>
       /\ call[t].method \in {"HandleResponse", "Create", "Update", "Delete"}
       /\ lock[t] = IF call[t].method = "HandleResponse" THEN "shared" ELSE "none"
  /\ pc[t] = "manage" =>
       lock[t] = "reserved" /\ call[t].method \in {"HandleResponse", "Update"}
  /\ pc[t] = "commit" =>
       /\ lock[t] \in {"reserved", "pending"}
       /\ call[t].method \in {"HandleResponse", "Create", "Update", "Delete"}

\* What was read is there, under a lock.
Read(t) ==
  /\ seen[t] # NoRead =>
       /\ lock[t] # "none" /\ call[t].event \in Events
       /\ Live(call[t].event) /\ seen[t] = Row(call[t].event)
  /\ lock[t] # "none" /\ call[t].method = "HandleResponse" =>
       /\ seen[t] # NoRead
       /\ \E checked \in clock[t] : checked <= event[call[t].event].start

\* HandleResponse may have read what the clock shows.
Clock(t) ==
  pc[t] # "idle" /\ call[t].method = "HandleResponse" => now \in clock[t]

\* The event that a method is called for exists, or is its own new one.
Called(t) ==
  pc[t] # "idle" =>
    /\ Exists(call[t].event) <=> call[t].method # "Create"
    /\ call[t].method = "HandleResponse" => call[t].attendeeCount \in 0 .. MaxAttendeeCount

\* The rows that the answer makes, before they are managed, with any of the readings.
AnsweredRows(t) ==
  {Answered(response[call[t].event], call[t].user, call[t].attendeeCount, written) :
     written \in clock[t]}

\* What t wrote follows from the tables as they are.
Wrote(t) ==
  LET c == call[t]
      e == call[t].event
  IN Writes(t) =>
       /\ draft \in EventRows
       /\ c.method = "HandleResponse" =>
            /\ draft.event = event[e]
            /\ \E rows \in AnsweredRows(t) :
                 draft.responses = IF pc[t] = "manage"
                                   THEN rows ELSE ManageWaitlist(rows, event[e].capacity)
       /\ c.method = "Update" =>
            /\ draft.event = Updated(e, c.capacity, c.start)[e]
            /\ pc[t] = "manage" => draft.responses = response[e]
            /\ pc[t] = "commit" =>
                 /\ Live(e)
                 /\ draft.responses = ManageWaitlist(response[e], c.capacity)
       /\ c.method = "Create" =>
            draft.event = NewEvent(c.capacity, c.start) /\ draft.responses = response[e]
       /\ c.method = "Delete" =>
            /\ draft.event = [event[e] EXCEPT !.isDeleted = TRUE]
            /\ draft.responses = response[e]

TxTypes ==
  /\ pc \in [Transactions -> {"idle", "get", "list", "write", "manage", "commit"}]
  /\ call \in [Transactions -> Calls \cup {NoCall}]
  /\ lock \in [Transactions -> {"none", "shared", "reserved", "pending"}]
  /\ seen \in [Transactions -> EventRows \cup {NoRead}]
  /\ clock \in [Transactions -> SUBSET Times]
  /\ now \in Times

\* Only one transaction writes, and no two create the same event.
Apart(t, o) ==
  /\ ~ (Writes(t) /\ Writes(o))
  /\ ~ /\ pc[t] # "idle" /\ pc[o] # "idle"
       /\ call[t].method = "Create" /\ call[o].method = "Create"
       /\ call[t].event = call[o].event

TxInv ==
  /\ IInv
  /\ TxTypes
  /\ \A t \in Transactions : Step(t) /\ Read(t) /\ Clock(t) /\ Called(t) /\ Wrote(t)
  /\ \A t \in Transactions : \A o \in Transactions \ {t} : Apart(t, o)
  /\ draft # NoDraft <=> \E t \in Transactions : Writes(t)

\* The fields of a method's arguments.
LEMMA CallFields ==
  ASSUME NEW c \in Calls
  PROVE  /\ c.event \in Events
         /\ c.method \in {"HandleResponse", "Create", "Update", "Delete", "GetDetailed"}
         /\ c.method = "HandleResponse" => c.user \in Users /\ c.attendeeCount \in AttendeeCounts
         /\ c.method \in {"Create", "Update"} => c.capacity \in Capacities /\ c.start \in Times
<1>1. CASE c \in Answers
  BY <1>1 DEF Answers
<1>2. CASE c \in Edits
  BY <1>2 DEF Edits
<1>3. CASE c \in Others
  BY <1>3 DEF Others
<1> QED
  BY <1>1, <1>2, <1>3 DEF Calls

\* Transaction t does not move, and nor does the clock.
Still(t) == UNCHANGED <<pc[t], call[t], lock[t], seen[t], clock[t]>>

\* A transaction whose variables do not change, while the tables do not; its clock
\* may go on.
LEMMA Untouched ==
  ASSUME TxInv, NEW t \in Transactions, UNCHANGED <<event, response>>,
         UNCHANGED <<pc[t], call[t], lock[t], seen[t]>>, clock[t] \subseteq clock'[t],
         Writes(t) => UNCHANGED draft
  PROVE  Step(t)' /\ Read(t)' /\ Called(t)' /\ Wrote(t)'
<1>1. Step(t)'
  BY DEF TxInv, Step
<1>2. Read(t)'
  BY DEF TxInv, Read, Row, Live, Exists
<1>3. Called(t)'
  BY DEF TxInv, Called, Exists
<1>4. Wrote(t)'
  <2>1. Writes(t)' <=> Writes(t)
    BY DEF Writes
  <2>2. AnsweredRows(t) \subseteq AnsweredRows(t)'
    BY DEF AnsweredRows
  <2>3. Wrote(t)
    BY DEF TxInv
  <2>4. /\ Live(call[t].event)' <=> Live(call[t].event)
        /\ Updated(call[t].event, call[t].capacity, call[t].start)'
             = Updated(call[t].event, call[t].capacity, call[t].start)
    BY DEF Live, Exists, Updated
  <2> QED
    BY <2>1, <2>2, <2>3, <2>4 DEF Wrote
<1> QED
  BY <1>1, <1>2, <1>3, <1>4

\* A step of transaction t that leaves the tables and the other transactions alone.
LEMMA OneMoves ==
  ASSUME TxInv, NEW t \in Transactions, UNCHANGED <<vars, now>>,
         \A o \in Transactions \ {t} : Still(o),
         TxTypes', Step(t)', Read(t)', Clock(t)', Called(t)', Wrote(t)',
         Writes(t)' => (Writes(t) \/ MayWrite(t)) /\ draft' # NoDraft,
         ~ Writes(t)' => draft' = IF Writes(t) THEN NoDraft ELSE draft,
         \/ pc'[t] = "idle"
         \/ pc[t] # "idle" /\ call'[t] = call[t]
         \/ call'[t].method = "Create" => call'[t].event \notin Creating
  PROVE  TxInv'
<1>1. IInv'
  BY DEF TxInv, IInv, TypeOK, WaitlistManaged, Exists, vars
<1>2. ASSUME NEW o \in Transactions \ {t}
      PROVE  (Writes(o)' <=> Writes(o)) /\ Apart(o, t)' /\ Apart(t, o)'
  <2>1. Writes(o)' <=> Writes(o)
    BY DEF Writes, Still
  <2>2. Apart(o, t) /\ Apart(t, o)
    BY DEF TxInv
  <2>3. ~ (Writes(t)' /\ Writes(o)')
    BY <2>1, <2>2 DEF Apart, MayWrite
  <2>4. pc[o] # "idle" /\ call[o].method = "Create" => call[o].event \in Creating
    BY DEF Creating
  <2> QED
    BY <2>1, <2>2, <2>3, <2>4 DEF Apart, Still
<1>3. ASSUME NEW o \in Transactions \ {t}
      PROVE  Step(o)' /\ Read(o)' /\ Clock(o)' /\ Called(o)' /\ Wrote(o)'
  <2>1. Writes(o) => ~ Writes(t) /\ ~ Writes(t)'
    BY <1>2, <1>3 DEF TxInv, Apart, MayWrite
  <2>2. Writes(o) => draft' = draft
    BY <2>1
  <2>3. Clock(o)'
    BY DEF TxInv, Clock, Still, vars
  <2> QED
    BY <2>2, <2>3, Untouched DEF Still, vars
<1>4. ASSUME NEW o \in Transactions, NEW r \in Transactions \ {o}
      PROVE  Apart(o, r)'
  <2>1. CASE o # t /\ r # t
    BY <1>2, <2>1 DEF TxInv, Apart, Still
  <2>2. CASE o = t \/ r = t
    BY <1>2, <2>2
  <2> QED
    BY <2>1, <2>2
<1>5. draft' # NoDraft <=> \E o \in Transactions : Writes(o)'
  <2>1. CASE Writes(t)'
    BY <2>1
  <2>2. CASE ~ Writes(t)' /\ Writes(t)
    <3>1. \A o \in Transactions \ {t} : ~ Writes(o)'
      BY <1>2, <2>2 DEF TxInv, Apart
    <3> QED
      BY <2>2, <3>1
  <2>3. CASE ~ Writes(t)' /\ ~ Writes(t)
    BY <1>2, <2>3 DEF TxInv
  <2> QED
    BY <2>1, <2>2, <2>3
<1> QED
  BY <1>1, <1>3, <1>4, <1>5 DEF TxInv

\* A transaction that ends.
LEMMA RollbackStep ==
  ASSUME TxInv, NEW t \in Transactions, Rollback(t)
  PROVE  TxInv'
<1> USE DEF Rollback, End
<1>1. TxTypes'
  BY DEF TxInv, TxTypes
<1>2. /\ pc'[t] = "idle" /\ call'[t] = NoCall /\ lock'[t] = "none" /\ seen'[t] = NoRead
      /\ \A o \in Transactions \ {t} : Still(o)
  BY DEF TxInv, TxTypes, Still
<1>3. ~ Writes(t)'
  BY <1>2 DEF Writes
<1>4. Step(t)' /\ Read(t)' /\ Clock(t)' /\ Called(t)' /\ Wrote(t)'
  BY <1>2, <1>3 DEF Step, Read, Clock, Called, Wrote
<1> QED
  BY <1>1, <1>2, <1>3, <1>4, OneMoves

\* What the transaction of t is about.
LEMMA CallOf ==
  ASSUME TxInv, NEW t \in Transactions, pc[t] # "idle"
  PROVE  call[t] \in Calls
BY DEF TxInv, TxTypes, Step

\* The row of an event that exists.
LEMMA RowOf ==
  ASSUME TxInv, NEW e \in Events, Exists(e)
  PROVE  event[e] \in EventRow /\ Row(e) \in EventRows
BY DEF TxInv, IInv, TypeOK, Exists, Row, EventRows

LEMMA BeginStep ==
  ASSUME TxInv, NEW t \in Transactions, NEW c \in Calls, Begin(t, c)
  PROVE  TxInv'
<1>1. TxTypes'
  BY DEF TxInv, TxTypes, Begin
<1>2. /\ pc[t] = "idle" /\ pc'[t] \in {"get", "write"}
      /\ pc'[t] = "get" <=> c.method \in {"HandleResponse", "GetDetailed"}
      /\ call'[t] = c /\ UNCHANGED <<vars, now, draft, lock, seen>>
      /\ c.method = "HandleResponse" => clock'[t] = {now}
      /\ \A o \in Transactions \ {t} : Still(o)
  BY DEF TxInv, TxTypes, Begin, Still
<1>3. lock[t] = "none" /\ seen[t] = NoRead /\ ~ Writes(t) /\ ~ Writes(t)'
  BY <1>2 DEF TxInv, Step, Read, Writes
<1>4. Step(t)'
  BY <1>2, <1>3, CallFields, NothingAssumption DEF Step
<1>5. Read(t)' /\ Clock(t)' /\ Wrote(t)'
  BY <1>2, <1>3 DEF Read, Clock, Wrote, vars
<1>6. Called(t)'
  BY <1>2, CallFields DEF Called, Begin, Exists, vars
<1>7. call'[t].method = "Create" => call'[t].event \notin Creating
  BY <1>2 DEF Begin
<1> QED
  BY <1>1, <1>2, <1>3, <1>4, <1>5, <1>6, <1>7, OneMoves

LEMMA GetStep ==
  ASSUME TxInv, NEW t \in Transactions, Get(t)
  PROVE  TxInv'
<1> DEFINE e == call[t].event
<1>1. /\ pc[t] = "get" /\ lock[t] = "none" /\ ~ Writes(t)
      /\ call[t].method \in {"HandleResponse", "GetDetailed"}
  BY DEF TxInv, Step, Get, Writes
<1>2. call[t] \in Calls /\ e \in Events
  BY <1>1, CallOf, CallFields
<1>3. Live(e) /\ seen' = [seen EXCEPT ![t] = Row(e)]
  BY <1>1 DEF Get, Found, Current, Row
<1>4. Row(e) \in EventRows /\ Row(e) # NoRead
  BY <1>2, <1>3, RowOf, NothingAssumption DEF Live
<1>5. TxTypes'
  BY <1>3, <1>4 DEF TxInv, TxTypes, Get
<1>6. /\ pc'[t] = IF call[t].method = "GetDetailed" THEN "list" ELSE "write"
      /\ call' = call /\ lock'[t] = "shared" /\ seen'[t] = Row(e)
      /\ UNCHANGED <<vars, now, draft, clock>>
      /\ \A o \in Transactions \ {t} : Still(o)
  BY <1>3 DEF TxInv, TxTypes, Get, Still
<1>7. ~ Writes(t)'
  BY <1>6 DEF Writes
<1>8. Step(t)'
  BY <1>1, <1>2, <1>6, NothingAssumption DEF Step
<1>9. Read(t)'
  <2>1. ASSUME call[t].method = "HandleResponse"
        PROVE  now \in clock[t] /\ now <= event[e].start
    <3>1. now \in Nat /\ event[e].start \in Nat
      BY <1>2, <1>3, RowOf, TimesAssumption DEF TxInv, TxTypes, IInv, TypeOK, EventRow, Live
    <3>2. ~ (now > event[e].start)
      BY <2>1 DEF Get, Found, IsPast
    <3> QED
      BY <1>1, <2>1, <3>1, <3>2 DEF TxInv, Clock
  <2> QED
    BY <1>2, <1>3, <1>4, <1>6, <2>1 DEF Read, Row, Live, Exists, vars
<1>10. Called(t)' /\ Wrote(t)' /\ Clock(t)'
  BY <1>1, <1>6, <1>7 DEF TxInv, Called, Wrote, Clock, Exists, vars
<1> QED
  BY <1>1, <1>5, <1>6, <1>7, <1>8, <1>9, <1>10, OneMoves

LEMMA PrepareStep ==
  ASSUME TxInv, NEW t \in Transactions, Prepare(t)
  PROVE  TxInv'
<1>1. /\ pc[t] = "commit" /\ lock'[t] = "pending" /\ Writes(t) /\ Writes(t)'
      /\ UNCHANGED <<vars, now, pc, call, seen, draft, clock>>
      /\ \A o \in Transactions \ {t} : Still(o)
  BY DEF TxInv, TxTypes, Prepare, Writes, Still
<1>2. TxTypes'
  BY DEF TxInv, TxTypes, Prepare
<1>3. Step(t)' /\ Called(t)' /\ Clock(t)'
  BY <1>1 DEF TxInv, Step, Called, Clock, Exists, vars
<1>4. Read(t)'
  BY <1>1 DEF TxInv, Read, Row, Live, Exists, vars, Writes
<1>5. Wrote(t)'
  <2>1. AnsweredRows(t)' = AnsweredRows(t)
    BY <1>1 DEF AnsweredRows, vars
  <2>2. Wrote(t)
    BY DEF TxInv
  <2>3. /\ Live(call[t].event)' <=> Live(call[t].event)
        /\ Updated(call[t].event, call[t].capacity, call[t].start)'
             = Updated(call[t].event, call[t].capacity, call[t].start)
    BY <1>1 DEF Live, Exists, Updated, vars
  <2> QED
    BY <1>1, <2>1, <2>2, <2>3 DEF Wrote, vars
<1>6. draft' # NoDraft
  BY <1>1 DEF TxInv
<1> QED
  BY <1>1, <1>2, <1>3, <1>4, <1>5, <1>6, OneMoves

\* update writes capacity and start.
LEMMA UpdatedRow ==
  ASSUME TxInv, NEW e \in Events, Exists(e), NEW capacity \in Capacities, NEW start \in Times
  PROVE  LET row == Updated(e, capacity, start)[e]
         IN row \in EventRow /\ row.capacity = capacity /\ row.isDeleted = event[e].isDeleted
<1>1. event[e] \in EventRow
  BY RowOf
<1>2. Updated(e, capacity, start)[e] = [event[e] EXCEPT !.capacity = capacity, !.start = start]
  BY DEF TxInv, IInv, TypeOK, Updated
<1> QED
  BY <1>1, <1>2 DEF EventRow

\* What the method's own statement writes.
LEMMA WrittenRow ==
  ASSUME TxInv, NEW t \in Transactions, pc[t] = "write"
  PROVE  LET c == call[t]
             e == call[t].event
         IN /\ Written(c) \in EventRows
            /\ c.method = "HandleResponse" =>
                 Written(c).event = event[e] /\ Written(c).responses \in AnsweredRows(t)
            /\ c.method = "Update" =>
                 /\ Written(c).event = Updated(e, c.capacity, c.start)[e]
                 /\ Written(c).responses = response[e]
            /\ c.method = "Create" =>
                 /\ Written(c).event = NewEvent(c.capacity, c.start)
                 /\ Written(c).responses = response[e]
            /\ c.method = "Delete" =>
                 /\ Written(c).event = [event[e] EXCEPT !.isDeleted = TRUE]
                 /\ Written(c).responses = response[e]
<1> DEFINE c == call[t]
           e == call[t].event
<1>1. c \in Calls /\ e \in Events /\ response[e] \in RowsType /\ now \in Times
  BY CallOf, CallFields DEF TxInv, TxTypes, IInv, TypeOK
<1>2. c.method \in {"HandleResponse", "Create", "Update", "Delete"}
  BY DEF TxInv, Step
<1>3. Exists(e) <=> c.method # "Create"
  BY DEF TxInv, Called
<1>4. CASE c.method = "HandleResponse"
  <2> DEFINE rows == Answered(response[e], c.user, c.attendeeCount, now)
  <2>1. Written(c) = [event |-> event[e], responses |-> rows]
    BY <1>4 DEF Written
  <2>2. c.user \in Users /\ c.attendeeCount \in 0 .. MaxAttendeeCount
    BY <1>1, <1>4, CallFields DEF TxInv, Called
  <2>3. rows \in AnsweredRows(t)
    BY <1>4 DEF TxInv, Clock, AnsweredRows
  <2>4. rows \in RowsType /\ event[e] \in EventRow
    BY <1>1, <1>3, <1>4, <2>2, AnsweredType, RowOf
  <2> HIDE DEF rows
  <2> QED
    BY <1>4, <2>1, <2>3, <2>4 DEF EventRows
<1>5. CASE c.method = "Update"
  <2>1. Written(c) = [event |-> Updated(e, c.capacity, c.start)[e], responses |-> response[e]]
    BY <1>5 DEF Written
  <2>2. Updated(e, c.capacity, c.start)[e] \in EventRow
    BY <1>1, <1>3, <1>5, CallFields, UpdatedRow
  <2> QED
    BY <1>1, <1>5, <2>1, <2>2 DEF EventRows
<1>6. CASE c.method = "Create"
  <2>1. Written(c) = [event |-> NewEvent(c.capacity, c.start), responses |-> response[e]]
    BY <1>6 DEF Written
  <2>2. NewEvent(c.capacity, c.start) \in EventRow
    BY <1>1, <1>6, CallFields DEF NewEvent, EventRow
  <2> QED
    BY <1>1, <1>6, <2>1, <2>2 DEF EventRows
<1>7. CASE c.method = "Delete"
  <2>1. Written(c) = [event |-> [event[e] EXCEPT !.isDeleted = TRUE], responses |-> response[e]]
    BY <1>7 DEF Written
  <2>2. event[e] \in EventRow
    BY <1>1, <1>3, <1>7, RowOf
  <2>3. [event[e] EXCEPT !.isDeleted = TRUE] \in EventRow
    BY <2>2 DEF EventRow
  <2> QED
    BY <1>1, <1>7, <2>1, <2>3 DEF EventRows
<1> QED
  BY <1>2, <1>4, <1>5, <1>6, <1>7

LEMMA WriteStep ==
  ASSUME TxInv, NEW t \in Transactions, Write(t)
  PROVE  TxInv'
<1> DEFINE c == call[t]
           e == call[t].event
<1>1. /\ pc[t] = "write" /\ c.method \in {"HandleResponse", "Create", "Update", "Delete"}
      /\ lock[t] = IF c.method = "HandleResponse" THEN "shared" ELSE "none"
  BY DEF TxInv, Step, Write
<1>2. c \in Calls
  BY <1>1, CallOf
<1>3. TxTypes'
  BY DEF TxInv, TxTypes, Write
<1>4. /\ pc'[t] = IF c.method \in {"HandleResponse", "Update"} THEN "manage" ELSE "commit"
      /\ lock'[t] = "reserved" /\ draft' = Written(c)
      /\ UNCHANGED <<vars, now, call, seen, clock>>
      /\ \A o \in Transactions \ {t} : Still(o)
  BY DEF TxInv, TxTypes, Write, Still
<1>5. Writes(t)' /\ MayWrite(t)
  BY <1>4 DEF Writes, Write
<1>6. Step(t)' /\ Called(t)' /\ Clock(t)'
  BY <1>1, <1>2, <1>4, NothingAssumption DEF TxInv, Step, Called, Clock, Exists, vars
<1>7. Read(t)'
  BY <1>1, <1>4 DEF TxInv, Read, Row, Live, Exists, vars
<1>8. Wrote(t)'
  <2>1. AnsweredRows(t)' = AnsweredRows(t)
    BY <1>4 DEF AnsweredRows, vars
  <2>2. Updated(e, c.capacity, c.start)' = Updated(e, c.capacity, c.start)
    BY <1>4 DEF Updated, vars
  <2> QED
    BY <1>1, <1>4, <2>1, <2>2, WrittenRow DEF Wrote, vars
<1>9. draft' # NoDraft
  BY <1>1, <1>4, WrittenRow, NothingAssumption
<1> QED
  BY <1>1, <1>3, <1>4, <1>5, <1>6, <1>7, <1>8, <1>9, OneMoves

LEMMA ManageStep ==
  ASSUME TxInv, NEW t \in Transactions, Manage(t)
  PROVE  TxInv'
<1> DEFINE c == call[t]
           e == call[t].event
           managed == ManageWaitlist(draft.responses, draft.event.capacity)
<1>1. /\ pc[t] = "manage" /\ lock[t] = "reserved" /\ Writes(t)
      /\ c.method \in {"HandleResponse", "Update"} /\ ~ draft.event.isDeleted
  BY DEF TxInv, Step, Manage, Writes
<1>2. c \in Calls /\ e \in Events /\ Exists(e)
  BY <1>1, CallOf, CallFields DEF TxInv, Called
<1>3. TxTypes'
  BY DEF TxInv, TxTypes, Manage
<1>4. /\ pc'[t] = "commit" /\ draft' = [draft EXCEPT !.responses = managed]
      /\ UNCHANGED <<vars, now, call, lock, seen, clock>>
      /\ \A o \in Transactions \ {t} : Still(o)
  BY DEF TxInv, TxTypes, Manage, Still
<1>5. draft \in EventRows /\ Wrote(t)
  BY <1>1 DEF TxInv, Wrote
<1>6. managed \in RowsType
  BY <1>5, CapacitiesAssumption, ManageWaitlistIsManaged DEF EventRows, EventRow
<1> HIDE DEF managed
<1>7. draft' \in EventRows /\ draft'.event = draft.event /\ draft'.responses = managed
  BY <1>4, <1>5, <1>6 DEF EventRows
<1>8. Writes(t)' /\ draft' # NoDraft
  BY <1>1, <1>4, <1>7, NothingAssumption DEF Writes
<1>9. Step(t)' /\ Called(t)' /\ Read(t)' /\ Clock(t)'
  BY <1>1, <1>2, <1>4, NothingAssumption
  DEF TxInv, Step, Called, Read, Clock, Row, Live, Exists, vars
<1>10. Wrote(t)'
  <2>1. AnsweredRows(t)' = AnsweredRows(t)
    BY <1>4 DEF AnsweredRows, vars
  <2>2. Updated(e, c.capacity, c.start)' = Updated(e, c.capacity, c.start)
    BY <1>4 DEF Updated, vars
  <2>3. Live(e)' <=> Live(e)
    BY <1>4 DEF Live, Exists, vars
  <2>4. CASE c.method = "HandleResponse"
    <3>1. PICK rows \in AnsweredRows(t) : draft.responses = rows
      BY <1>1, <1>5, <2>4 DEF Wrote
    <3>2. draft.event = event[e] /\ managed = ManageWaitlist(rows, event[e].capacity)
      BY <1>1, <1>5, <2>4, <3>1 DEF Wrote, managed
    <3> QED
      BY <1>4, <1>7, <2>1, <2>4, <3>2 DEF Wrote, vars
  <2>5. CASE c.method = "Update"
    <3>1. draft.event = Updated(e, c.capacity, c.start)[e] /\ draft.responses = response[e]
      BY <1>1, <1>5, <2>5 DEF Wrote
    <3>2. draft.event.capacity = c.capacity /\ draft.event.isDeleted = event[e].isDeleted
      BY <1>2, <2>5, <3>1, CallFields, UpdatedRow
    <3>3. Live(e) /\ managed = ManageWaitlist(response[e], c.capacity)
      BY <1>1, <1>2, <3>1, <3>2 DEF Live, managed
    <3> QED
      BY <1>4, <1>7, <2>2, <2>3, <2>5, <3>1, <3>3 DEF Wrote, vars
  <2> QED
    BY <1>1, <2>4, <2>5
<1> QED
  BY <1>1, <1>3, <1>4, <1>8, <1>9, <1>10, OneMoves

\* What a commit does to the tables.
LEMMA Committed ==
  ASSUME TxInv, NEW t \in Transactions, Commit(t)
  PROVE  LET c == call[t]
             e == call[t].event
         IN \/ /\ c.method = "HandleResponse"
               /\ \E checked, written \in clock[t] :
                     HandleResponse(e, c.user, c.attendeeCount, checked, written)
            \/ c.method = "Update" /\ Update(e, c.capacity, c.start)
            \/ c.method = "Create" /\ Create(e, c.capacity, c.start)
            \/ c.method = "Delete" /\ Delete(e)
<1> DEFINE c == call[t]
           e == call[t].event
<1>1. lock[t] = "pending" /\ Writes(t) /\ pc[t] = "commit"
  BY DEF TxInv, TxTypes, Step, Commit, Writes
<1>2. c.method \in {"HandleResponse", "Create", "Update", "Delete"}
  BY <1>1 DEF TxInv, Step
<1>3. e \in Events /\ (Exists(e) <=> c.method # "Create")
  BY <1>1, CallOf, CallFields DEF TxInv, Called
<1>4. Wrote(t)
  BY DEF TxInv
<1>5. /\ event' = [event EXCEPT ![e] = draft.event]
      /\ response' = [response EXCEPT ![e] = draft.responses]
  BY DEF Commit
<1>6. /\ event \in [Events -> EventRow \cup {NoEvent}]
      /\ response \in [Events -> RowsType]
  BY DEF TxInv, IInv, TypeOK
<1>7. CASE c.method = "HandleResponse"
  <2>1. Live(e)
    BY <1>1, <1>7 DEF TxInv, Read
  <2>2. draft.event = event[e]
    BY <1>1, <1>4, <1>7 DEF Wrote
  <2>3. event' = event
    BY <1>3, <1>5, <1>6, <2>2
  <2>4. PICK rows \in AnsweredRows(t) : draft.responses = ManageWaitlist(rows, event[e].capacity)
    BY <1>1, <1>4, <1>7 DEF Wrote
  <2>5. PICK written \in clock[t] :
          rows = Answered(response[e], c.user, c.attendeeCount, written)
    BY <2>4 DEF AnsweredRows
  <2>6. PICK checked \in clock[t] : checked <= event[e].start
    BY <1>1, <1>7 DEF TxInv, Read
  <2>7. c.attendeeCount \in 0 .. MaxAttendeeCount
    BY <1>1, <1>7 DEF TxInv, Called
  <2>8. HandleResponse(e, c.user, c.attendeeCount, checked, written)
    BY <1>5, <2>1, <2>3, <2>4, <2>5, <2>6, <2>7, MaxAssumption DEF HandleResponse
  <2> QED
    BY <1>7, <2>8
<1>8. CASE c.method = "Update"
  <2>1. /\ draft.event = Updated(e, c.capacity, c.start)[e] /\ Live(e)
        /\ draft.responses = ManageWaitlist(response[e], c.capacity)
    BY <1>1, <1>4, <1>8 DEF Wrote
  <2>2. event' = Updated(e, c.capacity, c.start)
    BY <1>3, <1>5, <1>6, <2>1 DEF Updated
  <2> QED
    BY <1>5, <1>8, <2>1, <2>2 DEF Update
<1>9. CASE c.method = "Create"
  <2>1. draft.event = NewEvent(c.capacity, c.start) /\ draft.responses = response[e]
    BY <1>1, <1>4, <1>9 DEF Wrote
  <2>2. response' = response
    BY <1>3, <1>5, <1>6, <2>1
  <2> QED
    BY <1>3, <1>5, <1>9, <2>1, <2>2 DEF Create
<1>10. CASE c.method = "Delete"
  <2>1. draft.event = [event[e] EXCEPT !.isDeleted = TRUE] /\ draft.responses = response[e]
    BY <1>1, <1>4, <1>10 DEF Wrote
  <2>2. response' = response
    BY <1>3, <1>5, <1>6, <2>1
  <2>3. event' = [event EXCEPT ![e].isDeleted = TRUE]
    BY <1>3, <1>5, <1>6, <2>1
  <2> QED
    BY <1>3, <1>5, <1>10, <2>2, <2>3 DEF Delete
<1> QED
  BY <1>2, <1>7, <1>8, <1>9, <1>10

\* A commit is a step of EventService.
LEMMA CommittedNext ==
  ASSUME TxInv, NEW t \in Transactions, Commit(t)
  PROVE  Next
<1>1. call[t] \in Calls /\ clock[t] \subseteq Times
  BY CallOf DEF TxInv, TxTypes, Step, Commit
<1>2. CASE call[t].method = "HandleResponse"
  <2>1. PICK checked \in clock[t], written \in clock[t] :
          HandleResponse(call[t].event, call[t].user, call[t].attendeeCount, checked, written)
    BY <1>2, Committed
  <2> QED
    BY <1>1, <1>2, <2>1, CallFields DEF Next
<1>3. CASE call[t].method # "HandleResponse"
  BY <1>1, <1>3, Committed, CallFields DEF Next
<1> QED
  BY <1>2, <1>3

LEMMA CommitStep ==
  ASSUME TxInv, NEW t \in Transactions, Commit(t)
  PROVE  TxInv'
<1> DEFINE e == call[t].event
<1>1. pc[t] = "commit" /\ Writes(t)
  BY DEF TxInv, TxTypes, Step, Commit, Writes
<1>2. call[t] \in Calls /\ e \in Events
  BY <1>1, CallOf, CallFields
<1>3. IInv'
  BY CommittedNext, NextIInv DEF TxInv
<1>4. /\ pc'[t] = "idle" /\ call'[t] = NoCall /\ lock'[t] = "none" /\ seen'[t] = NoRead
      /\ \A o \in Transactions \ {t} : Still(o)
      /\ draft' = NoDraft /\ now' = now
  BY <1>1 DEF TxInv, TxTypes, Commit, End, Still
<1>5. TxTypes'
  BY DEF TxInv, TxTypes, Commit, End
<1>6. \A o \in Transactions : ~ Writes(o)'
  BY <1>4 DEF Writes, Commit, MayCommit, Still
<1>7. Step(t)' /\ Read(t)' /\ Clock(t)' /\ Called(t)' /\ Wrote(t)'
  BY <1>4, <1>6 DEF Step, Read, Clock, Called, Wrote
<1>8. event'[e] # NoEvent /\ \A f \in Events \ {e} : event'[f] = event[f]
  <2>1. draft.event \in EventRow
    BY <1>1 DEF TxInv, Wrote, EventRows
  <2>2. event' = [event EXCEPT ![e] = draft.event]
    BY DEF Commit
  <2>3. event \in [Events -> EventRow \cup {NoEvent}]
    BY DEF TxInv, IInv, TypeOK
  <2> QED
    BY <1>2, <2>1, <2>2, <2>3, NoEventAssumption
<1>9. ASSUME NEW o \in Transactions \ {t}
      PROVE  Step(o)' /\ Read(o)' /\ Clock(o)' /\ Called(o)' /\ Wrote(o)'
  <2>1. lock[o] = "none" /\ seen[o] = NoRead
    BY DEF Commit, MayCommit, TxInv, Read
  <2>2. Step(o)' /\ Read(o)' /\ Clock(o)' /\ Wrote(o)'
    <3>1. Step(o)' /\ Clock(o)'
      BY <1>4 DEF TxInv, Step, Clock, Still
    <3>2. Read(o)'
      BY <1>4, <2>1 DEF Read, Still
    <3>3. Wrote(o)'
      BY <1>6 DEF Wrote
    <3> QED
      BY <3>1, <3>2, <3>3
  <2>3. ASSUME pc[o] # "idle"
        PROVE  event'[call[o].event] # NoEvent <=> call[o].method # "Create"
    <3>1. call[o].event \in Events
      BY <2>3, CallOf, CallFields
    <3>2. event[call[o].event] # NoEvent <=> call[o].method # "Create"
      BY <2>3 DEF TxInv, Called, Exists
    <3>3. CASE call[o].event = e
      <4>1. event[e] # NoEvent <=> call[t].method # "Create"
        BY <1>1 DEF TxInv, Called, Exists
      <4>2. Apart(t, o)
        BY DEF TxInv
      <4>3. call[o].method # "Create"
        BY <1>1, <2>3, <3>2, <3>3, <4>1, <4>2 DEF Apart
      <4> QED
        BY <1>8, <3>3, <4>3
    <3>4. CASE call[o].event # e
      BY <1>8, <3>1, <3>2, <3>4
    <3> QED
      BY <3>3, <3>4
  <2>4. Called(o)'
    BY <1>4, <2>3 DEF TxInv, Called, Exists, Still
  <2> QED
    BY <2>2, <2>4
<1>10. ASSUME NEW o \in Transactions, NEW r \in Transactions \ {o}
       PROVE  Apart(o, r)'
  BY <1>4, <1>6 DEF TxInv, Apart, Still
<1> QED
  BY <1>3, <1>4, <1>5, <1>6, <1>7, <1>9, <1>10 DEF TxInv

-----------------------------------------------------------------------------
LEMMA InitTxInv == TxInit => TxInv
<1> SUFFICES ASSUME TxInit PROVE TxInv
  OBVIOUS
<1>1. IInv /\ TxTypes
  BY InitIInv DEF TxInit, TxTypes
<1>2. \A t \in Transactions :
        ~ Writes(t) /\ Step(t) /\ Read(t) /\ Clock(t) /\ Called(t) /\ Wrote(t)
  BY DEF TxInit, Writes, Step, Read, Clock, Called, Wrote
<1> QED
  BY <1>1, <1>2 DEF TxInit, TxInv, Apart

\* After a crash nobody is in a transaction, as in the beginning.
LEMMA CrashStep ==
  ASSUME TxInv, Crash
  PROVE  TxInv'
<1>1. IInv' /\ TxTypes'
  BY DEF Crash, vars, TxInv, IInv, TypeOK, WaitlistManaged, Exists, TxTypes
<1>2. \A t \in Transactions :
        ~ Writes(t)' /\ Step(t)' /\ Read(t)' /\ Clock(t)' /\ Called(t)' /\ Wrote(t)'
  BY DEF Crash, Writes, Step, Read, Clock, Called, Wrote
<1>3. \A t \in Transactions : \A o \in Transactions \ {t} : Apart(t, o)'
  BY <1>2 DEF Crash, Apart
<1> QED
  BY <1>1, <1>2, <1>3 DEF Crash, TxInv

\* The clock does not matter to who has read or written.
LEMMA ClockStep ==
  ASSUME TxInv, Tick
  PROVE  TxInv'
<1> USE DEF Tick, vars
<1>1. IInv' /\ TxTypes'
  BY DEF TxInv, IInv, TypeOK, WaitlistManaged, Exists, TxTypes
<1>2. \A t \in Transactions : clock[t] \subseteq clock'[t]
  BY DEF TxInv, TxTypes
<1>3. \A t \in Transactions : Step(t)' /\ Read(t)' /\ Called(t)' /\ Wrote(t)'
  BY <1>2, Untouched
<1>4. \A t \in Transactions : Clock(t)'
  BY DEF TxInv, TxTypes, Clock
<1>5. \A t, o \in Transactions : Apart(t, o) => Apart(t, o)'
  BY DEF Apart, Writes
<1>6. \A t \in Transactions : Writes(t)' <=> Writes(t)
  BY DEF Writes
<1> QED
  BY <1>1, <1>3, <1>4, <1>5, <1>6 DEF TxInv

LEMMA StutterStep ==
  ASSUME TxInv, UNCHANGED txVars
  PROVE  TxInv'
<1> USE DEF txVars, vars
<1>1. IInv' /\ TxTypes'
  BY DEF TxInv, IInv, TypeOK, WaitlistManaged, Exists, TxTypes
<1>2. \A t \in Transactions : Step(t)' /\ Read(t)' /\ Called(t)' /\ Wrote(t)' /\ Clock(t)'
  BY Untouched DEF TxInv, Clock
<1>3. \A t, o \in Transactions : Apart(t, o) => Apart(t, o)'
  BY DEF Apart, Writes
<1>4. \A t \in Transactions : Writes(t)' <=> Writes(t)
  BY DEF Writes
<1> QED
  BY <1>1, <1>2, <1>3, <1>4 DEF TxInv

\* TxInv is an invariant of the transactions.
THEOREM SpecTxInv == TxSpec => []TxInv
<1>1. TxInit => TxInv
  BY InitTxInv
<1>2. TxInv /\ [TxNext]_txVars => TxInv'
  <2> SUFFICES ASSUME TxInv, [TxNext]_txVars PROVE TxInv'
    OBVIOUS
  <2>1. ASSUME NEW t \in Transactions, NEW c \in Calls, Begin(t, c)
        PROVE  TxInv'
    BY <2>1, BeginStep
  <2>2. ASSUME NEW t \in Transactions, Get(t) \/ Write(t) \/ Manage(t) \/ Prepare(t) \/ Commit(t)
        PROVE  TxInv'
    BY <2>2, GetStep, WriteStep, ManageStep, PrepareStep, CommitStep
  <2>3. ASSUME NEW t \in Transactions, List(t) \/ Busy(t) \/ Refuse(t) \/ Fail(t)
        PROVE  TxInv'
    BY <2>3, RollbackStep DEF List, Busy, Refuse, Fail
  <2>4. CASE Crash
    BY <2>4, CrashStep
  <2>5. CASE Tick
    BY <2>5, ClockStep
  <2>6. CASE UNCHANGED txVars
    BY <2>6, StutterStep
  <2> QED
    BY <2>1, <2>2, <2>3, <2>4, <2>5, <2>6 DEF TxNext
<1> QED
  BY <1>1, <1>2, PTL DEF TxSpec

\* No interleaving leaves a party that is empty or too large, a lock that nobody
\* gives back, or writes of nobody.
THEOREM TxTypeCorrect == TxSpec => []TxTypeOK
<1>1. TxInv => TxTypeOK
  <2> SUFFICES ASSUME TxInv PROVE TxTypeOK
    OBVIOUS
  <2>1. draft \in EventRows \cup {NoDraft}
    BY DEF TxInv, Wrote
  <2> QED
    BY <2>1 DEF TxInv, IInv, TxTypes, TxTypeOK, Step
<1> QED
  BY <1>1, SpecTxInv, PTL

\* Between what get finds and the write or the commit, nobody deletes, resizes or
\* answers the event: HandleResponse's and GetDetailed's reads stay true.
THEOREM ReadsAlwaysHold == TxSpec => []ReadsHold
<1>1. TxInv => ReadsHold
  BY DEF TxInv, Read, Row, ReadsHold
<1> QED
  BY <1>1, SpecTxInv, PTL

\* A step of the transactions is a commit, or leaves the tables as they are.
LEMMA OnlyCommits ==
  ASSUME [TxNext]_txVars, ~ UNCHANGED vars
  PROVE  \E t \in Transactions : Commit(t)
BY DEF TxNext, txVars, Tick, Begin, Get, List, Write, Busy, Manage, Refuse, Prepare, Fail,
       Crash, Rollback

\* However the statements of the transactions interleave, and whichever of them
\* fail, the tables change as EventService says, where every method is one step. What
\* is proved of that holds of the transactions, too.
THEOREM TxImplementsEventService == TxSpec => Spec
<1>1. TxInit => Init
  BY DEF TxInit
<1>2. TxInv /\ [TxNext]_txVars => [Next]_vars
  BY OnlyCommits, CommittedNext
<1> QED
  BY <1>1, <1>2, SpecTxInv, PTL DEF TxSpec, Spec

\* So the tables are the queue that was promised.
THEOREM TxKeepsQueue == TxSpec => QueueSpec
BY TxImplementsEventService, ImplementsQueue

\* The commits are those of the methods as EventService has them, one by one; see
\* MethodsAtomic.
THEOREM MethodsAreAtomic == TxSpec => MethodsAtomic
<1>1. TxInv /\ [TxNext]_txVars => [\E t \in Transactions : Performed(t)]_vars
  <2> SUFFICES ASSUME TxInv, [TxNext]_txVars, ~ UNCHANGED vars
               PROVE  \E t \in Transactions : Performed(t)
    OBVIOUS
  <2>1. PICK t \in Transactions : Commit(t)
    BY OnlyCommits
  <2>2. pc[t] = "commit" /\ pc'[t] = "idle"
    BY <2>1 DEF TxInv, TxTypes, Step, Commit, End
  <2>3. Performed(t)
    BY <2>1, <2>2, Committed DEF Performed
  <2> QED
    BY <2>3
<1> QED
  BY <1>1, SpecTxInv, PTL DEF TxSpec, MethodsAtomic

\* However many transactions there are, one of them does not wait, unless all are idle.
\* Only who has not read waits to read or write, and only for the one that writes; that
\* one waits only to commit, for readers that are at their last statement or, if they
\* want to write, are refused at once.
THEOREM NeverInACircle == TxSpec => []NoCircularWait
<1>1. TxInv => NoCircularWait
  <2> SUFFICES ASSUME TxInv, NEW t \in Transactions, pc[t] # "idle"
               PROVE  \E o \in Transactions : Ready(o)
    BY DEF NoCircularWait
  <2>1. \A o \in Transactions :
          /\ lock[o] \in {"none", "shared", "reserved", "pending"}
          /\ pc[o] \in {"idle", "get", "list", "write", "manage", "commit"}
          /\ lock[o] = "shared" => pc[o] \in {"list", "write"}
          /\ Writes(o) => pc[o] \in {"manage", "commit"}
          /\ pc[o] \in {"manage", "commit"} => Writes(o)
    BY DEF TxInv, TxTypes, Step, Writes
  <2>2. CASE \E w \in Transactions : Writes(w)
    <3>1. PICK w \in Transactions : Writes(w)
      BY <2>2
    <3>2. CASE pc[w] = "manage" \/ lock[w] = "reserved"
      BY <2>1, <3>1, <3>2 DEF Ready
    <3>3. CASE pc[w] = "commit" /\ lock[w] = "pending"
      <4>1. CASE MayCommit(w)
        BY <3>3, <4>1 DEF Ready
      <4>2. CASE ~ MayCommit(w)
        <5>1. PICK o \in Transactions \ {w} : lock[o] # "none"
          BY <4>2 DEF MayCommit
        <5>2. ~ Writes(o)
          BY <3>1 DEF TxInv, Apart
        <5>3. lock[o] = "shared"
          BY <2>1, <5>1, <5>2 DEF Writes
        <5> QED
          BY <2>1, <5>3 DEF Ready
      <4> QED
        BY <4>1, <4>2
    <3> QED
      BY <2>1, <3>1, <3>2, <3>3 DEF Writes
  <2>3. CASE ~ \E w \in Transactions : Writes(w)
    <3>1. MayRead(t) /\ MayWrite(t)
      BY <2>3 DEF MayRead, MayWrite, Writes
    <3>2. Ready(t)
      BY <2>1, <2>3, <3>1 DEF Ready
    <3> QED
      BY <3>2
  <2> QED
    BY <2>2, <2>3
<1> QED
  BY <1>1, SpecTxInv, PTL

\* The most statements that the method of t has yet to do.
Left(t) ==
  CASE pc[t] = "idle"   -> 0
    [] pc[t] = "list"   -> 1
    [] pc[t] = "commit" -> IF lock[t] = "pending" THEN 1 ELSE 2
    [] pc[t] = "manage" -> 3
    [] pc[t] = "write"  -> 4
    [] pc[t] = "get"    -> 5

\* A statement of t is one that Ready allows, and leaves t with fewer to do and the
\* others with as many; only a method that begins adds to them.
RunsOut ==
  \A t \in Transactions :
    /\ Proceed(t) => /\ Ready(t)
                     /\ Left(t)' < Left(t)
                     /\ \A o \in Transactions \ {t} : Left(o)' = Left(o)
    /\ Left(t)' > Left(t) => pc[t] = "idle"

\* A method of the service has at most five statements to do and does not go back:
\* no step of another transaction sends it, and whoever proceeds was ready to. So, with
\* NeverInACircle, the methods in progress end however they wait for each other, with at
\* most five statements each.
THEOREM StatementsRunOut == TxSpec => [][RunsOut]_txVars
<1>1. TxInv /\ TxInv' /\ [TxNext]_txVars => [RunsOut]_txVars
  <2> SUFFICES ASSUME TxInv, TxInv', TxNext, NEW t \in Transactions
               PROVE  /\ Proceed(t) => /\ Ready(t)
                                       /\ Left(t)' < Left(t)
                                       /\ \A o \in Transactions \ {t} : Left(o)' = Left(o)
                      /\ Left(t)' > Left(t) => pc[t] = "idle"
    BY DEF RunsOut, txVars
  <2>1. /\ pc \in [Transactions -> {"idle", "get", "list", "write", "manage", "commit"}]
        /\ lock \in [Transactions -> {"none", "shared", "reserved", "pending"}]
        /\ \A o \in Transactions : lock[o] = "pending" => pc[o] = "commit"
        /\ \A o \in Transactions : pc[o] = "commit" => lock[o] \in {"reserved", "pending"}
    BY DEF TxInv, TxTypes, Step
  <2>2. ASSUME NEW o \in Transactions, UNCHANGED <<pc[o], lock[o]>>
        PROVE  Left(o)' = Left(o)
    BY <2>2 DEF Left
  <2>3. ASSUME NEW o \in Transactions, pc'[o] = "idle"
        PROVE  Left(o)' = 0
    BY <2>3 DEF Left
  <2>4. \A o \in Transactions : /\ Left(o) \in 0 .. 5 /\ Left(o)' \in 0 .. 5
                                /\ pc[o] # "idle" => Left(o) > 0
    BY <2>1 DEF Left, TxInv, TxTypes
  <2>5. ASSUME NEW o \in Transactions, Rollback(o) \/ Commit(o), pc[o] # "idle"
        PROVE  /\ Left(o)' < Left(o)
               /\ \A q \in Transactions \ {o} : Left(q)' = Left(q)
    <3>1. pc'[o] = "idle" /\ \A q \in Transactions \ {o} : UNCHANGED <<pc[q], lock[q]>>
      BY <2>1, <2>5 DEF Rollback, Commit, End
    <3> QED
      BY <2>2, <2>3, <2>4, <2>5, <3>1
  <2>6. ASSUME NEW o \in Transactions, Proceed(o)
        PROVE  /\ Ready(o)
               /\ Left(o)' < Left(o)
               /\ \A q \in Transactions \ {o} : Left(q)' = Left(q)
    <3>1. CASE Get(o)
      <4>1. /\ Ready(o) /\ pc[o] = "get" /\ pc'[o] \in {"list", "write"}
            /\ \A q \in Transactions \ {o} : UNCHANGED <<pc[q], lock[q]>>
        BY <2>1, <3>1 DEF Get, Ready
      <4>2. Left(o) = 5 /\ Left(o)' \in {1, 4}
        BY <4>1 DEF Left
      <4> QED
        BY <2>2, <4>1, <4>2
    <3>2. CASE Write(o)
      <4>1. /\ Ready(o) /\ pc[o] = "write" /\ pc'[o] \in {"manage", "commit"}
            /\ \A q \in Transactions \ {o} : UNCHANGED <<pc[q], lock[q]>>
        BY <2>1, <3>2 DEF Write, Ready
      <4>2. Left(o) = 4 /\ Left(o)' \in {1, 2, 3}
        BY <4>1 DEF Left
      <4> QED
        BY <2>2, <4>1, <4>2
    <3>3. CASE Manage(o)
      <4>1. /\ Ready(o) /\ pc[o] = "manage" /\ pc'[o] = "commit"
            /\ \A q \in Transactions \ {o} : UNCHANGED <<pc[q], lock[q]>>
        BY <2>1, <3>3 DEF Manage, Ready
      <4>2. Left(o) = 3 /\ Left(o)' \in {1, 2}
        BY <4>1 DEF Left
      <4> QED
        BY <2>2, <4>1, <4>2
    <3>4. CASE Prepare(o)
      <4>1. /\ Ready(o) /\ pc[o] = "commit" /\ pc'[o] = "commit"
            /\ lock[o] = "reserved" /\ lock'[o] = "pending"
            /\ \A q \in Transactions \ {o} : UNCHANGED <<pc[q], lock[q]>>
        BY <2>1, <3>4 DEF Prepare, Ready
      <4>2. Left(o) = 2 /\ Left(o)' = 1
        BY <4>1 DEF Left
      <4> QED
        BY <2>2, <4>1, <4>2
    <3>5. CASE Commit(o)
      <4>1. Ready(o) /\ pc[o] # "idle"
        BY <2>1, <3>5 DEF Commit, Ready
      <4> QED
        BY <2>5, <3>5, <4>1
    <3>6. CASE List(o) \/ Busy(o) \/ Refuse(o)
      <4>1. Ready(o) /\ pc[o] # "idle" /\ Rollback(o)
        BY <3>6 DEF List, Busy, Refuse, Ready
      <4> QED
        BY <2>5, <4>1
    <3> QED
      BY <2>6, <3>1, <3>2, <3>3, <3>4, <3>5, <3>6 DEF Proceed
  <2>7. Left(t)' > Left(t) => pc[t] = "idle"
    <3>1. ASSUME NEW o \in Transactions, NEW c \in Calls, Begin(o, c)
          PROVE  Left(t)' > Left(t) => pc[t] = "idle"
      <4>1. CASE o = t
        BY <3>1, <4>1 DEF Begin
      <4>2. CASE o # t
        <5>1. UNCHANGED <<pc[t], lock[t]>>
          BY <2>1, <3>1, <4>2 DEF Begin
        <5> QED
          BY <2>2, <2>4, <5>1
      <4> QED
        BY <4>1, <4>2
    <3>2. ASSUME NEW o \in Transactions, Proceed(o) \/ (pc[o] # "idle" /\ Rollback(o))
          PROVE  Left(t)' > Left(t) => pc[t] = "idle"
      <4>1. Left(t)' < Left(t) \/ Left(t)' = Left(t)
        BY <2>5, <2>6, <3>2
      <4> QED
        BY <2>4, <4>1
    <3>3. CASE Crash
      BY <2>3, <2>4, <3>3 DEF Crash
    <3>4. CASE Tick
      BY <2>2, <2>4, <3>4 DEF Tick
    <3> QED
      BY <3>1, <3>2, <3>3, <3>4 DEF TxNext, Proceed, Fail
  <2> QED
    BY <2>6, <2>7
<1> QED
  BY <1>1, SpecTxInv, PTL DEF TxSpec

\* The tables keep the service's promises at every moment, whoever reads them: the
\* waitlist is managed, the confirmed parties fit, nobody is overtaken and nobody
\* waits in vain.
THEOREM TxKeepsPromises ==
  TxSpec => [](WaitlistManaged /\ CapacityRespected /\ NoOvertaking /\ NoIdleSpots)
BY TxImplementsEventService, WaitlistAlwaysManaged, CapacityAlwaysRespected, NeverOvertaken,
   NeverIdle, PTL

\* No interleaving, failure or crash takes a spot from somebody, or gives one, without a
\* cause that they could name.
THEOREM TxSpotsMoveForCause == TxSpec => ResponsesMoveForCause
BY TxImplementsEventService, SpotsMoveOnlyForCause

\* Nor does any give somebody another place in the queue.
THEOREM TxPlacesKept == TxSpec => PlacesKept
BY TxImplementsEventService, PlacesAlwaysKept

\* Whoever is stored as coming, with another party or not any more after an event began
\* had answered before it did, however long the answer then waited for a lock; and no
\* method that was under way when an event was deleted changes it.
THEOREM TxClosedStaysClosed == TxSpec => ClosedStaysClosed
<1>1. TxInv /\ [TxNext]_txVars => [ClosedEventsFrozen]_vars
  <2> SUFFICES ASSUME TxInv, [TxNext]_txVars, NEW f \in Events, Exists(f)
               PROVE  /\ (\E u \in Users : HeadsOf(response'[f], u) # HeadsOf(response[f], u)) =>
                            \E t \in Transactions :
                               /\ pc[t] # "idle" /\ call[t].method = "HandleResponse"
                               /\ call[t].event = f
                               /\ \E reading \in clock[t] : reading <= event[f].start
                      /\ event[f].isDeleted => event'[f] = event[f] /\ response'[f] = response[f]
    BY DEF ClosedEventsFrozen
  <2>1. CASE UNCHANGED vars
    BY <2>1 DEF vars
  <2>2. ASSUME NEW t \in Transactions, Commit(t)
        PROVE  /\ (\E u \in Users : HeadsOf(response'[f], u) # HeadsOf(response[f], u)) =>
                     /\ pc[t] # "idle" /\ call[t].method = "HandleResponse"
                     /\ call[t].event = f
                     /\ \E reading \in clock[t] : reading <= event[f].start
               /\ event[f].isDeleted => event'[f] = event[f] /\ response'[f] = response[f]
    <3>1. IInv /\ Next
      BY <2>2, CommittedNext DEF TxInv
    <3>2. pc[t] = "commit" /\ call[t] \in Calls
      BY <2>2, CallOf DEF TxInv, TxTypes, Step, Commit
    <3>3. event[f].isDeleted => event'[f] = event[f] /\ response'[f] = response[f]
      BY <3>1, DeletedIsFinal
    <3>4. CASE call[t].method # "HandleResponse"
      <4>1. \/ \E e \in Events, capacity \in Capacities, start \in Times :
                 Create(e, capacity, start) \/ Update(e, capacity, start)
            \/ \E e \in Events : Delete(e)
        BY <2>2, <3>2, <3>4, Committed, CallFields
      <4>2. \A u \in Users : HeadsOf(response'[f], u) = HeadsOf(response[f], u)
        BY <3>1, <4>1, EditsKeepHeads
      <4> QED
        BY <3>3, <4>2
    <3>5. CASE call[t].method = "HandleResponse"
      <4>1. PICK checked \in clock[t], written \in clock[t] :
              HandleResponse(call[t].event, call[t].user, call[t].attendeeCount, checked, written)
        BY <2>2, <3>5, Committed
      <4>2. checked <= event[call[t].event].start
        BY <4>1 DEF HandleResponse
      <4>3. f # call[t].event => response'[f] = response[f]
        BY <3>2, <4>1, CallFields DEF HandleResponse, TxInv, IInv, TypeOK
      <4> QED
        BY <3>2, <3>3, <3>5, <4>2, <4>3
    <3> QED
      BY <3>4, <3>5
  <2> QED
    BY <2>1, <2>2, OnlyCommits
<1> QED
  BY <1>1, SpecTxInv, PTL DEF TxSpec, ClosedStaysClosed

=============================================================================

-------------------------- MODULE EventTransactions --------------------------
(***************************************************************************)
(* The methods of the event service statement by statement, as SQLite runs *)
(* them side by side. Beginx begins a deferred transaction: it takes no    *)
(* lock before its first statement. EventService takes each method as one  *)
(* step; here that is a consequence.                                       *)
(*                                                                         *)
(* The locks are those of a database file with a rollback journal, which   *)
(* is how db.Connect opens it. A transaction that reads holds SHARED to    *)
(* its end. One that writes holds RESERVED, which only one can, and keeps  *)
(* what it wrote to itself. To commit it takes PENDING, which lets nobody  *)
(* start to read, and waits until the others have stopped reading.         *)
(***************************************************************************)
EXTENDS EventService

CONSTANTS
  Transactions,  \* the connections of the pool, each with at most one transaction
  NoCall, NoRead, NoDraft  \* the transaction has no method, read or wrote nothing

Answers  == [method : {"HandleResponse"}, event : Events, user : Users,
             attendeeCount : AttendeeCounts]
Edits    == [method : {"Create", "Update"}, event : Events,
             capacity : Capacities, start : Times]
Others   == [method : {"Delete", "GetDetailed"}, event : Events]
Calls    == Answers \cup Edits \cup Others
\* What there is of one event.
EventRows == [event : EventRow, responses : RowsType]

ASSUME NothingAssumption ==
  NoCall \notin Calls /\ NoRead \notin EventRows /\ NoDraft \notin EventRows

VARIABLES
  now,   \* the wall clock of the server, read by time.Now() and datetime()
  pc,    \* the statement each transaction does next
  call,  \* the method it runs, with its arguments
  lock,  \* the lock it holds
  seen,  \* what get found in table event and summed in event_response
  draft, \* what the holder of RESERVED has written
  clock  \* history: what the clock has shown since each HandleResponse began

txVars == <<vars, now, pc, call, lock, seen, draft, clock>>

Writes(t) == lock[t] \in {"reserved", "pending"}

TxTypeOK ==
  /\ TypeOK
  /\ now \in Times
  /\ pc \in [Transactions -> {"idle", "get", "list", "write", "manage", "commit"}]
  /\ call \in [Transactions -> Calls \cup {NoCall}]
  /\ \A t \in Transactions : pc[t] = "idle" <=> call[t] = NoCall
  /\ lock \in [Transactions -> {"none", "shared", "reserved", "pending"}]
  /\ seen \in [Transactions -> EventRows \cup {NoRead}]
  /\ clock \in [Transactions -> SUBSET Times]
  /\ draft \in EventRows \cup {NoDraft}
  /\ draft # NoDraft <=> \E t \in Transactions : Writes(t)

TxInit ==
  /\ Init
  /\ now \in Times
  /\ pc = [t \in Transactions |-> "idle"]
  /\ call = [t \in Transactions |-> NoCall]
  /\ lock = [t \in Transactions |-> "none"]
  /\ seen = [t \in Transactions |-> NoRead]
  /\ draft = NoDraft
  /\ clock = [t \in Transactions |-> {}]

-----------------------------------------------------------------------------
(***************************************************************************)
(* SQLite.                                                                 *)
(***************************************************************************)

\* A first statement takes SHARED; a later one holds it.
MayRead(t) == \A o \in Transactions \ {t} : lock[o] # "pending"

\* A first write takes RESERVED.
MayWrite(t) == \A o \in Transactions \ {t} : ~ Writes(o)

\* PENDING becomes EXCLUSIVE, and the pages are written.
MayCommit(t) == \A o \in Transactions \ {t} : lock[o] = "none"

\* The transaction ends: its locks are released and what it wrote is dropped,
\* unless this step wrote it to the tables.
End(t) ==
  /\ pc' = [pc EXCEPT ![t] = "idle"]
  /\ call' = [call EXCEPT ![t] = NoCall]
  /\ lock' = [lock EXCEPT ![t] = "none"]
  /\ seen' = [seen EXCEPT ![t] = NoRead]
  /\ draft' = IF Writes(t) THEN NoDraft ELSE draft
  /\ clock' = [clock EXCEPT ![t] = {}]

\* Tables are as they were.
Rollback(t) == End(t) /\ UNCHANGED <<vars, now>>

\* The transaction has read, and another one writes: SQLite does not let it wait
\* for the other, which may wait for it, but fails its write at once.
Busy(t) ==
  /\ pc[t] = "write"
  /\ lock[t] = "shared"
  /\ ~ MayWrite(t)
  /\ Rollback(t)

\* COMMIT, when it has to wait for readers: nobody else may start to read.
Prepare(t) ==
  /\ pc[t] = "commit"
  /\ lock[t] = "reserved"
  /\ lock' = [lock EXCEPT ![t] = "pending"]
  /\ UNCHANGED <<vars, now, pc, call, seen, draft, clock>>

Commit(t) ==
  /\ lock[t] = "pending"
  /\ MayCommit(t)
  /\ LET e == call[t].event
     IN /\ event' = [event EXCEPT ![e] = draft.event]
        /\ response' = [response EXCEPT ![e] = draft.responses]
  /\ End(t)
  /\ UNCHANGED now

-----------------------------------------------------------------------------
(***************************************************************************)
(* The methods.                                                            *)
(***************************************************************************)

\* What the transaction finds of its event.
Current(t) ==
  IF Writes(t) THEN draft
               ELSE [event |-> event[call[t].event], responses |-> response[call[t].event]]

\* The ids drawn by create that are not committed.
Creating ==
  {call[t].event : t \in {o \in Transactions :
                            pc[o] # "idle" /\ call[o].method = "Create"}}

\* Mutant: the count is not looked at.
BeginAnyCount(t, c) ==
  /\ pc[t] = "idle"
  /\ IF c.method = "Create"
     THEN ~ Exists(c.event) /\ c.event \notin Creating
     ELSE Exists(c.event)
  /\ call' = [call EXCEPT ![t] = c]
  /\ pc' = [pc EXCEPT ![t] =
              IF c.method \in {"HandleResponse", "GetDetailed"} THEN "get" ELSE "write"]
  /\ clock' = [clock EXCEPT ![t] = IF c.method = "HandleResponse" THEN {now} ELSE {}]
  /\ UNCHANGED <<vars, now, lock, seen, draft>>

\* A method is called and begins its transaction. HandleResponse has looked at
\* the count before; the id of Create is fresh, that of the others is of some
\* row (without one the method finds or changes nothing).
Begin(t, c) ==
  /\ pc[t] = "idle"
  /\ IF c.method = "Create"
     THEN ~ Exists(c.event) /\ c.event \notin Creating
     ELSE Exists(c.event)
  /\ c.method = "HandleResponse" => c.attendeeCount \in 0 .. MaxAttendeeCount
  /\ call' = [call EXCEPT ![t] = c]
  /\ pc' = [pc EXCEPT ![t] =
              IF c.method \in {"HandleResponse", "GetDetailed"} THEN "get" ELSE "write"]
  /\ clock' = [clock EXCEPT ![t] = IF c.method = "HandleResponse" THEN {now} ELSE {}]
  /\ UNCHANGED <<vars, now, lock, seen, draft>>

\* is_past as get computes it.
IsPast(e) == now > event[e].start

\* Mutant: an event that has begun is answered.
FoundPast(t) == Live(call[t].event)

\* HandleResponse and GetDetailed go on with what get finds.
Found(t) ==
  /\ Live(call[t].event)
  /\ call[t].method = "HandleResponse" => ~ IsPast(call[t].event)

\* Mutant: get does not run in the transaction, but on the database.
GetOutside(t) ==
  /\ pc[t] = "get"
  /\ MayRead(t)
  /\ Found(t)
  /\ seen' = [seen EXCEPT ![t] = Current(t)]
  /\ pc' = [pc EXCEPT ![t] = IF call[t].method = "GetDetailed" THEN "list" ELSE "write"]
  /\ UNCHANGED <<vars, now, call, lock, draft, clock>>

\* get, and in HandleResponse also getUserResponse, whose result is not used.
Get(t) ==
  /\ pc[t] = "get"
  /\ MayRead(t)
  /\ Found(t)
  /\ lock' = [lock EXCEPT ![t] = "shared"]
  /\ seen' = [seen EXCEPT ![t] = Current(t)]
  /\ pc' = [pc EXCEPT ![t] = IF call[t].method = "GetDetailed" THEN "list" ELSE "write"]
  /\ UNCHANGED <<vars, now, call, draft, clock>>

\* listResponses and getUserResponse of GetDetailed, which then rolls back.
List(t) == pc[t] = "list" /\ Rollback(t)

\* The row and the responses of event c.event after the method's own statement.
Written(c) ==
  LET e == c.event
  IN CASE c.method = "HandleResponse" ->
            [event     |-> event[e],
             responses |-> Answered(response[e], c.user, c.attendeeCount, now)]
       [] c.method = "Update" ->
            [event     |-> Updated(e, c.capacity, c.start)[e],
             responses |-> response[e]]
       [] c.method = "Create" ->
            [event |-> NewEvent(c.capacity, c.start), responses |-> response[e]]
       [] c.method = "Delete" ->
            [event |-> [event[e] EXCEPT !.isDeleted = TRUE], responses |-> response[e]]

\* updateResponse or deleteResponse, update, create, and the UPDATE of Delete. A
\* transaction that has not read waits here for the one that writes.
Write(t) ==
  /\ pc[t] = "write"
  /\ MayWrite(t)
  /\ lock' = [lock EXCEPT ![t] = "reserved"]
  /\ draft' = Written(call[t])
  /\ pc' = [pc EXCEPT ![t] =
              IF call[t].method \in {"HandleResponse", "Update"} THEN "manage" ELSE "commit"]
  /\ UNCHANGED <<vars, now, call, seen, clock>>

\* Mutant: get of manageWaitlist runs on the database and finds the old capacity.
ManageOutside(t) ==
  /\ pc[t] = "manage"
  /\ Live(call[t].event)
  /\ draft' = [draft EXCEPT !.responses = ManageWaitlist(@, event[call[t].event].capacity)]
  /\ pc' = [pc EXCEPT ![t] = "commit"]
  /\ UNCHANGED <<vars, now, call, lock, seen, clock>>

\* manageWaitlist: get finds the event as this transaction wrote it.
Manage(t) ==
  /\ pc[t] = "manage"
  /\ ~ draft.event.isDeleted
  /\ draft' = [draft EXCEPT !.responses = ManageWaitlist(@, draft.event.capacity)]
  /\ pc' = [pc EXCEPT ![t] = "commit"]
  /\ UNCHANGED <<vars, now, call, lock, seen, clock>>

\* get finds nothing, or the event is past: the method returns an error.
Refuse(t) ==
  /\ \/ pc[t] = "get" /\ MayRead(t) /\ ~ Found(t)
     \/ pc[t] = "manage" /\ draft.event.isDeleted
  /\ Rollback(t)

\* Mutant: an error returns without the deferred Rollback.
FailOpen(t) ==
  /\ pc[t] # "idle"
  /\ pc' = [pc EXCEPT ![t] = "idle"]
  /\ call' = [call EXCEPT ![t] = NoCall]
  /\ clock' = [clock EXCEPT ![t] = {}]
  /\ UNCHANGED <<vars, now, lock, seen, draft>>

\* A statement or the commit fails: the disk, the client's data, or the busy
\* timeout of a transaction that waits for a lock.
Fail(t) == pc[t] # "idle" /\ Rollback(t)

\* The process stops; the next one finds the tables as the last commit left them.
Crash ==
  /\ pc' = [t \in Transactions |-> "idle"]
  /\ call' = [t \in Transactions |-> NoCall]
  /\ lock' = [t \in Transactions |-> "none"]
  /\ seen' = [t \in Transactions |-> NoRead]
  /\ draft' = NoDraft
  /\ clock' = [t \in Transactions |-> {}]
  /\ UNCHANGED <<vars, now>>

\* The clock moves: usually ahead, but the host may set it back. Readings may also
\* repeat between two statements.
Tick ==
  /\ now' \in Times
  /\ clock' = [t \in Transactions |-> IF clock[t] = {} THEN {} ELSE clock[t] \cup {now'}]
  /\ UNCHANGED <<vars, pc, call, lock, seen, draft>>

\* The next statement of a transaction, without a failure.
Proceed(t) ==
  Get(t) \/ List(t) \/ Write(t) \/ Busy(t) \/ Manage(t) \/ Refuse(t) \/ Prepare(t) \/ Commit(t)

TxNext ==
  \/ \E t \in Transactions, c \in Calls : Begin(t, c)
  \/ \E t \in Transactions :
       \/ Get(t) \/ List(t) \/ Write(t) \/ Busy(t) \/ Manage(t) \/ Refuse(t)
       \/ Prepare(t) \/ Commit(t)
       \/ Fail(t)
  \/ Crash
  \/ Tick

TxSpec == TxInit /\ [][TxNext]_txVars

-----------------------------------------------------------------------------
(***************************************************************************)
(* Properties. That the tables are, commit by commit, the queue that was   *)
(* promised (QueueSpec) is proved of this specification too.               *)
(***************************************************************************)

\* What get found still holds when the transaction writes, lists the responses
\* or commits: HandleResponse does not answer an event that was deleted or
\* resized since it looked, and the attendees that GetDetailed counts are those
\* that it lists.
ReadsHold ==
  \A t \in Transactions : seen[t] # NoRead =>
    /\ Live(call[t].event)
    /\ seen[t] = [event |-> event[call[t].event], responses |-> response[call[t].event]]

\* The method of t takes effect as a whole, and has returned.
Performed(t) ==
  LET c == call[t]
  IN /\ pc[t] # "idle" /\ pc'[t] = "idle"
     /\ \/ c.method = "Create" /\ Create(c.event, c.capacity, c.start)
        \/ c.method = "Update" /\ Update(c.event, c.capacity, c.start)
        \/ c.method = "Delete" /\ Delete(c.event)
        \/ /\ c.method = "HandleResponse"
           /\ \E checked, written \in clock[t] :
                 HandleResponse(c.event, c.user, c.attendeeCount, checked, written)

\* The methods are atomic, as EventService takes them: whatever the others do
\* between its statements, a method changes the tables once, at its return, and
\* as if it ran alone then; only that an answer may be judged and dated by what
\* the clock showed earlier, but not before the method was called.
MethodsAtomic == [][\E t \in Transactions : Performed(t)]_vars

\* Nobody joins, leaves or changes their party but by an answer that was under way
\* before the event began, by the start that the event has when the answer is
\* committed. (An event can begin after get has computed is_past, and still be
\* answered.) The row and the responses of a deleted event, the waitlist included,
\* are final: no method that was under way when it was deleted changes them.
ClosedEventsFrozen ==
  \A e \in Events : Exists(e) =>
    /\ (\E u \in Users : HeadsOf(response'[e], u) # HeadsOf(response[e], u)) =>
          \E t \in Transactions :
             /\ pc[t] # "idle" /\ call[t].method = "HandleResponse" /\ call[t].event = e
             /\ \E reading \in clock[t] : reading <= event[e].start
    /\ event[e].isDeleted => event'[e] = event[e] /\ response'[e] = response[e]

ClosedStaysClosed == [][ClosedEventsFrozen]_vars

\* Transaction t does not wait for a lock.
Ready(t) ==
  \/ pc[t] = "get" /\ MayRead(t)
  \/ pc[t] \in {"list", "manage"}
  \/ pc[t] = "write" /\ (lock[t] = "shared" \/ MayWrite(t))
  \/ pc[t] = "commit" /\ (lock[t] = "reserved" \/ MayCommit(t))

\* The transactions never wait for each other in a circle, and none waits for one
\* that is gone: some transaction can go on without a timeout.
NoCircularWait ==
  (\E t \in Transactions : pc[t] # "idle") => \E t \in Transactions : Ready(t)

=============================================================================

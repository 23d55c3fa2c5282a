------------------------------ MODULE RsvpQueue ------------------------------
(***************************************************************************)
(* What the event service promises, without its tables and its clock: the  *)
(* parties of an event stand in a queue, and confirmed are those in the    *)
(* longest part of the queue, from its head on, that fits the capacity.    *)
(* Nothing is stored about who waits; every step that changes the queue or *)
(* the capacity changes the confirmed parties with it.                     *)
(***************************************************************************)
EXTENDS Integers, FiniteSets

CONSTANTS
  Users, Events,
  Capacities,   \* the capacities an event can be given
  MaxHeads,     \* the largest party
  Places,       \* the places in the queue; parties may share one
  Absent,       \* not in the queue
  NoCapacity    \* the event has not been announced

Party == [heads : 1 .. MaxHeads, place : Places]

VARIABLES
  capacity,   \* of each event
  open,       \* the events that can be answered and edited
  queue,      \* [e][u]: the party of user u, or Absent
  confirmed   \* the users with a spot, by event

queueVars == <<capacity, open, queue, confirmed>>

InQueue(q) == {u \in Users : q[u] # Absent}

\* The people of the parties in S.
People(q, S) == {h \in S \X (1 .. MaxHeads) : q[h[1]] # Absent /\ h[2] <= q[h[1]].heads}

\* S is a part of the queue from its head on: with a party, it has those before
\* it and those that share its place.
IsFront(q, S) ==
  \A u \in S, v \in InQueue(q) : q[v].place <= q[u].place => v \in S

\* The longest front that fits.
Promised(q, cap) ==
  UNION {S \in SUBSET InQueue(q) : IsFront(q, S) /\ Cardinality(People(q, S)) <= cap}

Init ==
  /\ capacity = [e \in Events |-> NoCapacity]
  /\ open = {}
  /\ queue = [e \in Events |-> [u \in Users |-> Absent]]
  /\ confirmed = [e \in Events |-> {}]

Announce(e, cap) ==
  /\ capacity[e] = NoCapacity
  /\ capacity' = [capacity EXCEPT ![e] = cap]
  /\ open' = open \cup {e}
  /\ UNCHANGED <<queue, confirmed>>

Resize(e, cap) ==
  /\ e \in open
  /\ capacity' = [capacity EXCEPT ![e] = cap]
  /\ confirmed' = [confirmed EXCEPT ![e] = Promised(queue[e], cap)]
  /\ UNCHANGED <<open, queue>>

\* User u joins with party p, or changes their party and keeps their place.
Answer(e, u, p) ==
  /\ e \in open
  /\ queue[e][u] # Absent => queue[e][u].place = p.place
  /\ queue' = [queue EXCEPT ![e][u] = p]
  /\ confirmed' = [confirmed EXCEPT ![e] = Promised(queue'[e], capacity[e])]
  /\ UNCHANGED <<capacity, open>>

Leave(e, u) ==
  /\ e \in open
  /\ queue' = [queue EXCEPT ![e][u] = Absent]
  /\ confirmed' = [confirmed EXCEPT ![e] = Promised(queue'[e], capacity[e])]
  /\ UNCHANGED <<capacity, open>>

Close(e) ==
  /\ open' = open \ {e}
  /\ UNCHANGED <<capacity, queue, confirmed>>

Next ==
  \E e \in Events :
    \/ \E cap \in Capacities : Announce(e, cap) \/ Resize(e, cap)
    \/ \E u \in Users : Leave(e, u) \/ \E p \in Party : Answer(e, u, p)
    \/ Close(e)

Spec == Init /\ [][Next]_queueVars

=============================================================================

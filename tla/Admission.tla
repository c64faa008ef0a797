------------------------------- MODULE Admission -------------------------------
(***************************************************************************)
(* What a concurrency limiter promises, with no mutex and no channel: for  *)
(* every key a room of at most MaxConcurrent admitted requests and a queue *)
(* of at most MaxQueued requests.  A request is admitted only into a free  *)
(* place, is turned away only when the room is full, and gives up only     *)
(* from the queue.                                                         *)
(***************************************************************************)
EXTENDS Naturals, FiniteSets

CONSTANTS
  Requests,       \* the calls of Acquire, one per request
  Keys,           \* limiter keys after normalisation
  MaxConcurrent,  \* Config.MaxConcurrent
  MaxQueued       \* Config.MaxQueued

VARIABLES
  room,    \* room[k]: the requests admitted under key k
  queue,   \* queue[k]: the requests that wait under key k
  left     \* requests that are finished: refused, given up or released

avars == <<room, queue, left>>

Init ==
  /\ room = [k \in Keys |-> {}]
  /\ queue = [k \in Keys |-> {}]
  /\ left = {}

Newcomer(r) ==
  r \notin left /\ \A k \in Keys : r \notin room[k] /\ r \notin queue[k]

Full(k) == Cardinality(room[k]) >= MaxConcurrent

Admit(r, k) ==
  /\ Newcomer(r) \/ r \in queue[k]
  /\ ~Full(k)
  /\ room' = [room EXCEPT ![k] = @ \cup {r}]
  /\ queue' = [queue EXCEPT ![k] = @ \ {r}]
  /\ UNCHANGED left

Enqueue(r, k) ==
  /\ Newcomer(r)
  /\ Full(k)
  /\ Cardinality(queue[k]) < MaxQueued
  /\ queue' = [queue EXCEPT ![k] = @ \cup {r}]
  /\ UNCHANGED <<room, left>>

Refuse(r, k) ==
  /\ Newcomer(r)
  /\ Full(k)
  /\ Cardinality(queue[k]) >= MaxQueued
  /\ left' = left \cup {r}
  /\ UNCHANGED <<room, queue>>

GiveUp(r, k) ==
  /\ r \in queue[k]
  /\ queue' = [queue EXCEPT ![k] = @ \ {r}]
  /\ left' = left \cup {r}
  /\ UNCHANGED room

Leave(r, k) ==
  /\ r \in room[k]
  /\ room' = [room EXCEPT ![k] = @ \ {r}]
  /\ left' = left \cup {r}
  /\ UNCHANGED queue

Next ==
  \E r \in Requests, k \in Keys :
    Admit(r, k) \/ Enqueue(r, k) \/ Refuse(r, k) \/ GiveUp(r, k) \/ Leave(r, k)

Spec == Init /\ [][Next]_avars
================================================================================

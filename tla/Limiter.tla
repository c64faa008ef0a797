-------------------------------- MODULE Limiter --------------------------------
(***************************************************************************)
(* internal/limit/limiter.go: the keyed concurrency limiter of the proxy's *)
(* hot path.  Every critical section of Limiter.mu is one action; what     *)
(* runs between two critical sections of one Acquire is a state of its     *)
(* request.  A notify channel has no identity of its own here: a request   *)
(* that selects on the current channel of its key is "waiting", and        *)
(* close(st.notify) makes all of those "woken" at once.                    *)
(***************************************************************************)
EXTENDS Naturals, FiniteSets

CONSTANTS
  Requests,       \* calls of Acquire, one per request
  Keys,           \* limiter keys after normalisation
  Global,         \* the key of a blank key
  Blank,          \* a key that trims to the empty string
  MaxConcurrent,  \* Config.MaxConcurrent (New returns no limiter when <= 0)
  MaxQueued       \* Config.MaxQueued, clamped to >= 0 by New

ASSUME LimiterAssumption ==
  /\ IsFiniteSet(Requests)
  /\ Global \in Keys
  /\ Blank \notin Keys
  /\ MaxConcurrent \in Nat \ {0}
  /\ MaxQueued \in Nat

VARIABLES
  states,   \* Limiter.states: an absent entry is Absent
  pc,       \* where each request stands in Acquire / Release
  key,      \* the normalised key of each request
  reason,   \* the RejectReason Acquire returned
  ctxDone   \* requests whose context has ended

vars == <<states, pc, key, reason, ctxDone>>

Absent == [present |-> FALSE, inflight |-> 0, queued |-> 0]

State == [present : BOOLEAN, inflight : Nat, queued : Nat]

\* "idle"    before Acquire
\* "queued"  counted in st.queued, has not read st.notify (the top of the loop)
\* "waiting" in the select, on the channel that is st.notify now
\* "woken"   in the select, on a channel that has been closed
\* "holding" Acquire returned a lease that is not released
\* "done"    the lease is released, or Acquire returned without one
PC == {"idle", "queued", "waiting", "woken", "holding", "done"}

Reasons == {"none", "concurrency_rejected", "queue_saturated"}

normalizeKey(k) == IF k = Blank THEN Global ELSE k

stateForKeyLocked(k) ==
  IF states[k].present THEN states[k] ELSE [Absent EXCEPT !.present = TRUE]

\* Mutant: the entry goes with its last lease, whoever waits.
MutCleanupIgnoresQueue(st) == IF st.inflight = 0 THEN Absent ELSE st

\* Mutant: an entry that was used is never deleted.
MutCleanupNever(st) == st

\* cleanupLocked: an entry nobody holds or waits for is deleted from the map.
cleanupLocked(st) == IF st.inflight = 0 /\ st.queued = 0 THEN Absent ELSE st

\* Mutant: one lease too many.
MutRoomOffByOne(st) == st.inflight <= MaxConcurrent

HasRoom(st) == st.inflight < MaxConcurrent

\* Mutant: the last place of the queue is never given.
MutQueueFullEarly(st) == st.queued + 1 >= MaxQueued

QueueFull(st) == st.queued >= MaxQueued

Init ==
  /\ states = [k \in Keys |-> Absent]
  /\ pc = [r \in Requests |-> "idle"]
  /\ key = [r \in Requests |-> Global]
  /\ reason = [r \in Requests |-> "none"]
  /\ ctxDone = {}

(***************************************************************************)
(* Acquire, first critical section: a lease, a refusal, or a place in the  *)
(* queue.  A newcomer that finds room takes it without looking at the      *)
(* queue.                                                                  *)
(***************************************************************************)
AcquireNow(r, raw) ==
  LET k == normalizeKey(raw) IN
  /\ pc[r] = "idle"
  /\ HasRoom(stateForKeyLocked(k))
  /\ states' = [states EXCEPT ![k] = [stateForKeyLocked(k) EXCEPT !.inflight = @ + 1]]
  /\ pc' = [pc EXCEPT ![r] = "holding"]
  /\ key' = [key EXCEPT ![r] = k]
  /\ UNCHANGED <<reason, ctxDone>>

AcquireRefused(r, raw) ==
  LET k == normalizeKey(raw) IN
  /\ pc[r] = "idle"
  /\ ~HasRoom(stateForKeyLocked(k))
  /\ QueueFull(stateForKeyLocked(k))
  /\ states' = [states EXCEPT ![k] = stateForKeyLocked(k)]
  /\ pc' = [pc EXCEPT ![r] = "done"]
  /\ key' = [key EXCEPT ![r] = k]
  /\ reason' = [reason EXCEPT ![r] = IF MaxQueued = 0 THEN "concurrency_rejected"
                                                      ELSE "queue_saturated"]
  /\ UNCHANGED ctxDone

AcquireQueues(r, raw) ==
  LET k == normalizeKey(raw) IN
  /\ pc[r] = "idle"
  /\ ~HasRoom(stateForKeyLocked(k))
  /\ ~QueueFull(stateForKeyLocked(k))
  /\ states' = [states EXCEPT ![k] = [stateForKeyLocked(k) EXCEPT !.queued = @ + 1]]
  /\ pc' = [pc EXCEPT ![r] = "queued"]
  /\ key' = [key EXCEPT ![r] = k]
  /\ UNCHANGED <<reason, ctxDone>>

\* The top of the loop: read st.notify under the lock and enter the select.
Subscribe(r) ==
  /\ pc[r] = "queued"
  /\ states' = [states EXCEPT ![key[r]] = stateForKeyLocked(key[r])]
  /\ pc' = [pc EXCEPT ![r] = "waiting"]
  /\ UNCHANGED <<key, reason, ctxDone>>

\* After <-ch: the room is looked at again; another request may have taken it.
Recheck(r) ==
  LET st == stateForKeyLocked(key[r]) IN
  /\ pc[r] = "woken"
  /\ IF HasRoom(st)
       THEN /\ states' = [states EXCEPT ![key[r]] =
                            [[st EXCEPT !.queued = @ - 1] EXCEPT !.inflight = @ + 1]]
            /\ pc' = [pc EXCEPT ![r] = "holding"]
       ELSE /\ states' = [states EXCEPT ![key[r]] = st]
            /\ pc' = [pc EXCEPT ![r] = "queued"]
  /\ UNCHANGED <<key, reason, ctxDone>>

\* <-ctx.Done().  The select may take it even when the channel is closed too.
GiveUp(r) ==
  LET st == states[key[r]] IN
  /\ pc[r] \in {"waiting", "woken"}
  /\ r \in ctxDone
  /\ states' = [states EXCEPT ![key[r]] = cleanupLocked([st EXCEPT !.queued = @ - 1])]
  /\ pc' = [pc EXCEPT ![r] = "done"]
  /\ reason' = [reason EXCEPT ![r] = "concurrency_rejected"]
  /\ UNCHANGED <<key, ctxDone>>

\* Mutant: a signal instead of a broadcast.
MutWakeOne(k) ==
  LET sleepers == {q \in Requests : pc[q] = "waiting" /\ key[q] = k} IN
  IF sleepers = {} THEN pc ELSE [pc EXCEPT ![CHOOSE q \in sleepers : TRUE] = "woken"]

\* close(st.notify) and a new channel: every request in the select is woken.
WakeAll(k) ==
  [q \in Requests |-> IF pc[q] = "waiting" /\ key[q] = k THEN "woken" ELSE pc[q]]

\* Lease.Release, once per lease.
Release(r) ==
  LET k == key[r]
      st == states[k]
      dec == [st EXCEPT !.inflight = IF @ > 0 THEN @ - 1 ELSE @]
  IN
  /\ pc[r] = "holding"
  /\ IF st.present
       THEN /\ states' = [states EXCEPT ![k] = cleanupLocked(dec)]
            /\ pc' = [WakeAll(k) EXCEPT ![r] = "done"]
       ELSE /\ UNCHANGED states
            /\ pc' = [pc EXCEPT ![r] = "done"]
  /\ UNCHANGED <<key, reason, ctxDone>>

\* The client of the request goes away.
ContextEnds(r) ==
  /\ r \notin ctxDone
  /\ pc[r] # "done"
  /\ ctxDone' = ctxDone \cup {r}
  /\ UNCHANGED <<states, pc, key, reason>>

Next ==
  \E r \in Requests :
    \/ \E raw \in Keys \cup {Blank} :
         AcquireNow(r, raw) \/ AcquireRefused(r, raw) \/ AcquireQueues(r, raw)
    \/ Subscribe(r)
    \/ Recheck(r)
    \/ GiveUp(r)
    \/ Release(r)
    \/ ContextEnds(r)

Spec == Init /\ [][Next]_vars

(***************************************************************************)
(* Fairness.  A goroutine inside Acquire is scheduled, and a lease is      *)
(* released because every caller defers Release.  No client is obliged to  *)
(* arrive or to go away.                                                   *)
(***************************************************************************)
FairSpec ==
  Spec /\ \A r \in Requests :
            WF_vars(Subscribe(r)) /\ WF_vars(Recheck(r)) /\ WF_vars(GiveUp(r))
              /\ WF_vars(Release(r))

-------------------------------------------------------------------------------
Holders(k) == {r \in Requests : pc[r] = "holding" /\ key[r] = k}

Waiters(k) == {r \in Requests : pc[r] \in {"queued", "waiting", "woken"} /\ key[r] = k}

TypeOK ==
  /\ states \in [Keys -> State]
  /\ pc \in [Requests -> PC]
  /\ key \in [Requests -> Keys]
  /\ reason \in [Requests -> Reasons]
  /\ ctxDone \subseteq Requests

\* The counters of an entry are the leases and the waiters that exist, and
\* neither passes its limit, whatever the order of arrivals, wake-ups,
\* cancellations and releases (Acquire, release, the ctx.Done branch).
CountersExact ==
  \A k \in Keys :
    /\ states[k].inflight = Cardinality(Holders(k))
    /\ states[k].queued = Cardinality(Waiters(k))
    /\ states[k].inflight <= MaxConcurrent
    /\ states[k].queued <= MaxQueued

\* The map holds an entry for a key exactly while a request holds a lease or
\* waits under it: no entry is leaked, and none is deleted under a waiter,
\* whose channel nobody would ever close (cleanupLocked and its callers).
EntryWhileUsed ==
  \A k \in Keys : states[k].present <=> (Holders(k) \cup Waiters(k) # {})

\* A release wakes every request that sleeps on the key's channel, not one of
\* them: a sleeper whose context has ended cannot swallow the wake-up.
ReleaseWakesEverySleeper ==
  [][\A k \in Keys :
       states'[k].inflight < states[k].inflight =>
         \A r \in Requests : ~(pc'[r] = "waiting" /\ key[r] = k)]_vars

\* The limiter is a bounded room with a bounded queue (Admission).
A == INSTANCE Admission WITH
       room <- [k \in Keys |-> Holders(k)],
       queue <- [k \in Keys |-> Waiters(k)],
       left <- {r \in Requests : pc[r] = "done"}

ImplementsAdmission == A!Spec

\* The statement of limiter_test.go ("queued Acquire did not return after
\* release"): a request in the queue gets its lease, or its context ends.
QueuedAcquireReturns ==
  \A r \in Requests :
    (pc[r] \in {"queued", "waiting", "woken"}) ~> (pc[r] \in {"holding", "done"})
================================================================================

------------------------------- MODULE ProxyRetry -------------------------------
(***************************************************************************)
(* internal/proxy/handler.go, ServeHTTP: one proxied request from its      *)
(* arrival to its answer, through the limiter, the router's selection, the *)
(* attempts at upstream targets and the waits between them.  Requests run  *)
(* concurrently and meet in the limiter's leases, the targets' inflight    *)
(* counters and the process-wide retry wait slots.  What a deferred        *)
(* function gives back, it gives back in the step that returns.            *)
(*                                                                         *)
(* The router is here what it answers: a target is selectable, temporarily *)
(* open, or no candidate (Router models why).  The limiter is its room and *)
(* its queue (Limiter models the waiting).                                 *)
(***************************************************************************)
EXTENDS Naturals, FiniteSets

CONSTANTS
  Requests,       \* proxied requests
  CountTokens,    \* those that POST /v1/messages/count_tokens
  Targets,        \* the router's targets
  Flaky,          \* the targets whose selectability changes during the run
  Keys,           \* limiter keys
  NoKey,          \* the scope makes no limit decision at this point
  PreKey,         \* preSelectionLimitDecision: Requests -> Keys \cup {NoKey}
  PostKey,        \* postSelectionLimitDecision: Targets -> Keys \cup {NoKey}
  NoTarget,       \* no selection yet
  MaxConcurrent,  \* Limits.MaxConcurrent
  MaxQueued,      \* Limits.MaxQueued
  WaitCapacity    \* upstreamRetryWaitCapacity

ASSUME ProxyAssumption ==
  /\ IsFiniteSet(Requests) /\ IsFiniteSet(Targets)
  /\ CountTokens \subseteq Requests
  /\ Flaky \subseteq Targets
  /\ NoTarget \notin Targets
  /\ NoKey \notin Keys
  /\ PreKey \in [Requests -> Keys \cup {NoKey}]
  /\ PostKey \in [Targets -> Keys \cup {NoKey}]
  /\ MaxConcurrent \in Nat \ {0}
  /\ MaxQueued \in Nat
  /\ WaitCapacity \in Nat \ {0}

VARIABLES
  pc,            \* where ServeHTTP stands for each request
  triedIDs,      \* the targets tried since the last wait
  selection,     \* the target selected last
  count,         \* its Selection.CandidateCount
  lastErr,       \* why the last attempt or selection failed
  waitSlotHeld,  \* requests that hold a retry wait slot
  leases,        \* the limiter leases a request will release when it returns
  answer,        \* how the request was answered
  gone,          \* requests whose client went away
  expired,       \* requests past their retryDeadline
  inflight,      \* Target.inflight, this handler's share
  load,          \* leases out under each limiter key
  slots,         \* the length of upstreamRetryWaitSlots
  health         \* what the router thinks of each target

local == <<pc, triedIDs, selection, count, lastErr, answer>>
shared == <<inflight, load, slots>>
held == <<waitSlotHeld, leases>>
world == <<gone, expired, health>>
vars == <<local, shared, held, world>>

PC == {"arriving", "queuedBefore", "selecting", "limiting", "queuedAfter",
       "preparing", "sending", "responding", "sleeping", "done"}

Answers == {"none", "early", "limited", "saturated", "unavailable", "exhausted",
            "synthesized", "relayed", "gone"}

Errors == {"none", "excluded", "unsupported", "log", "transient", "notFound"}

Health == {"selectable", "open", "absent"}

Init ==
  /\ pc = [r \in Requests |-> "arriving"]
  /\ triedIDs = [r \in Requests |-> {}]
  /\ selection = [r \in Requests |-> NoTarget]
  /\ count = [r \in Requests |-> 0]
  /\ lastErr = [r \in Requests |-> "none"]
  /\ waitSlotHeld = {}
  /\ leases = [r \in Requests |-> [k \in Keys |-> 0]]
  /\ answer = [r \in Requests |-> "none"]
  /\ gone = {}
  /\ expired = {}
  /\ inflight = [t \in Targets |-> 0]
  /\ load = [k \in Keys |-> 0]
  /\ slots = 0
  /\ health = [t \in Targets |-> "selectable"]

Candidates == {t \in Targets : health[t] # "absent"}

Available(r) == {t \in Candidates : health[t] = "selectable"} \ triedIDs[r]

\* The key a request waits for in the limiter's queue.
Awaited(r) ==
  CASE pc[r] = "queuedBefore" -> PreKey[r]
    [] pc[r] = "queuedAfter" -> PostKey[selection[r]]
    [] OTHER -> NoKey

Queued(k) == {r \in Requests : Awaited(r) = k}

\* Mutant: a lease is given back at once and once more by its defer.
MutReturnedTwice(r, k) == 2 * leases[r][k]

\* Mutant: only the last lease taken under a key is given back.
MutReturned(r, k) == IF leases[r][k] > 0 THEN 1 ELSE 0

\* The deferred lease.Release calls, one for each lease taken on the way.
Returned(r, k) == leases[r][k]

\* Mutant: the slot is given back without looking who took it.
MutSlotsAfter(r) == IF slots > 0 THEN slots - 1 ELSE 0

\* The deferred releaseRetryWaitSlot.
SlotsAfter(r) == IF r \in waitSlotHeld THEN slots - 1 ELSE slots

\* ServeHTTP answers and returns.
Return(r, a) ==
  /\ pc' = [pc EXCEPT ![r] = "done"]
  /\ answer' = [answer EXCEPT ![r] = a]
  /\ load' = [k \in Keys |-> load[k] - Returned(r, k)]
  /\ leases' = [leases EXCEPT ![r] = [k \in Keys |-> 0]]
  /\ slots' = SlotsAfter(r)
  /\ waitSlotHeld' = waitSlotHeld \ {r}
  /\ UNCHANGED <<selection, count>>

Go(r, where) == pc' = [pc EXCEPT ![r] = where]

Failed(r, e) == lastErr' = [lastErr EXCEPT ![r] = e]

\* router.Complete and router.Release, as far as Target.inflight goes.
Settled(r) == [inflight EXCEPT ![selection[r]] = @ - 1]

\* Mutant: a request the limiter refuses forgets its selection.
MutLetGo(r) == inflight

\* The selection of a request the limiter refuses.
LetGo(r) == Settled(r)

-------------------------------------------------------------------------------
(***************************************************************************)
(* The answers that come before any limit or selection: 401, the model     *)
(* endpoints, no targets, an unreadable body, the local Responses runtime. *)
(***************************************************************************)
AnswerEarly(r) ==
  /\ pc[r] = "arriving"
  /\ Return(r, "early")
  /\ UNCHANGED <<triedIDs, lastErr, inflight, world>>

\* limiter.Acquire(k) finds room, at once or out of the queue.
Lease(r, k) ==
  /\ k # NoKey
  /\ load[k] < MaxConcurrent
  /\ load' = [load EXCEPT ![k] = @ + 1]
  /\ leases' = [leases EXCEPT ![r][k] = @ + 1]
  /\ UNCHANGED <<triedIDs, selection, count, lastErr, answer, inflight, slots, waitSlotHeld, world>>

\* limiter.Acquire(k) finds no room but a place in the queue.
Queue(k) ==
  /\ k # NoKey
  /\ load[k] = MaxConcurrent
  /\ Cardinality(Queued(k)) < MaxQueued
  /\ UNCHANGED <<triedIDs, selection, count, lastErr, answer, shared, held, world>>

\* limiter.Acquire(k) refuses: 429 without a queue, 503 when it is full.
Refuse(r, k) ==
  /\ k # NoKey
  /\ load[k] = MaxConcurrent
  /\ Cardinality(Queued(k)) >= MaxQueued
  /\ Return(r, IF MaxQueued = 0 THEN "limited" ELSE "saturated")
  /\ UNCHANGED <<triedIDs, lastErr, world>>

\* The scope makes no decision here.
Unlimited(r, k, next) ==
  /\ k = NoKey
  /\ Go(r, next)
  /\ UNCHANGED <<triedIDs, selection, count, lastErr, answer, shared, held, world>>

\* Acquire under the global or header scope, before any selection.
LimitBefore(r) ==
  /\ pc[r] = "arriving"
  /\ \/ Unlimited(r, PreKey[r], "selecting")
     \/ Lease(r, PreKey[r]) /\ Go(r, "selecting")
     \/ Queue(PreKey[r]) /\ Go(r, "queuedBefore")
     \/ Refuse(r, PreKey[r]) /\ UNCHANGED inflight

LeftQueueBefore(r) ==
  /\ pc[r] = "queuedBefore"
  /\ \/ Lease(r, PreKey[r]) /\ Go(r, "selecting")
     \/ /\ r \in gone
        /\ Return(r, "limited")
        /\ UNCHANGED <<triedIDs, lastErr, inflight, world>>

(***************************************************************************)
(* router.SelectWithBody, or SelectWithExclusion once targets were tried.  *)
(***************************************************************************)
Select(r) ==
  /\ pc[r] = "selecting"
  /\ \E t \in Available(r) :
       /\ selection' = [selection EXCEPT ![r] = t]
       /\ inflight' = [inflight EXCEPT ![t] = @ + 1]
  /\ count' = [count EXCEPT ![r] = Cardinality(Available(r))]
  /\ Go(r, "limiting")
  /\ UNCHANGED <<triedIDs, lastErr, answer, load, slots, held, world>>

\* SelectionFailureNoSupportingTarget or SelectionFailureAllTargetsExcluded:
\* the end, whether or not there is budget left.
SelectFails(r) ==
  /\ pc[r] = "selecting"
  /\ Available(r) = {}
  /\ Candidates = {} \/ triedIDs[r] # {}
  /\ IF triedIDs[r] # {}
       THEN /\ Return(r, "exhausted")
            /\ Failed(r, IF Candidates = {} THEN "unsupported" ELSE "excluded")
       ELSE /\ Return(r, IF r \in CountTokens THEN "synthesized" ELSE "unavailable")
            /\ UNCHANGED lastErr
  /\ UNCHANGED <<triedIDs, inflight, world>>

\* SelectionFailureAllTargetsOpen past the deadline, be it noticed before the
\* slot is taken or after (retryDelay is then 0).
GiveUpOpen(r) ==
  /\ pc[r] = "selecting"
  /\ Available(r) = {} /\ Candidates # {} /\ triedIDs[r] = {}
  /\ r \in expired
  /\ Return(r, "unavailable") \/ (r \in gone /\ Return(r, "gone"))
  /\ UNCHANGED <<triedIDs, lastErr, inflight, world>>

\* SelectionFailureAllTargetsOpen within the budget: wait, in a slot.
WaitForOpen(r) ==
  /\ pc[r] = "selecting"
  /\ Available(r) = {} /\ Candidates # {} /\ triedIDs[r] = {}
  /\ r \notin expired
  /\ IF r \in waitSlotHeld \/ slots < WaitCapacity
       THEN /\ waitSlotHeld' = waitSlotHeld \cup {r}
            /\ slots' = IF r \in waitSlotHeld THEN slots ELSE slots + 1
            /\ Go(r, "sleeping")
            /\ UNCHANGED <<selection, count, answer, load, leases>>
       ELSE Return(r, "saturated")
  /\ UNCHANGED <<triedIDs, lastErr, inflight, world>>

\* The sleep ends by its timer; triedIDs is forgotten and RefreshNow runs,
\* whose effect on the targets is TargetChanges.
WakeUp(r) ==
  /\ pc[r] = "sleeping"
  /\ triedIDs' = [triedIDs EXCEPT ![r] = {}]
  /\ Go(r, "selecting")
  /\ UNCHANGED <<selection, count, lastErr, answer, shared, held, world>>

SleepCancelled(r) ==
  /\ pc[r] = "sleeping"
  /\ r \in gone
  /\ Return(r, "gone")
  /\ UNCHANGED <<triedIDs, lastErr, inflight, world>>

\* Acquire under the channel, route_target or credential scope.  A refused
\* request returns its selection to the router, a served one is tried.
LimitAfter(r) ==
  LET k == PostKey[selection[r]] IN
  /\ pc[r] = "limiting"
  /\ \/ Unlimited(r, k, "preparing")
     \/ Lease(r, k) /\ Go(r, "preparing")
     \/ Queue(k) /\ Go(r, "queuedAfter")
     \/ Refuse(r, k) /\ inflight' = LetGo(r)

LeftQueueAfter(r) ==
  /\ pc[r] = "queuedAfter"
  /\ \/ Lease(r, PostKey[selection[r]]) /\ Go(r, "preparing")
     \/ /\ r \in gone
        /\ Return(r, "limited")
        /\ inflight' = LetGo(r)
        /\ UNCHANGED <<triedIDs, lastErr, world>>

\* triedIDs grows and the attempt's log file is prepared; when it cannot be,
\* the request ends.
Prepare(r) ==
  /\ pc[r] = "preparing"
  /\ triedIDs' = [triedIDs EXCEPT ![r] = @ \cup {selection[r]}]
  /\ Go(r, "sending")
  /\ UNCHANGED <<selection, count, lastErr, answer, shared, held, world>>

PrepareFails(r) ==
  /\ pc[r] = "preparing"
  /\ triedIDs' = [triedIDs EXCEPT ![r] = @ \cup {selection[r]}]
  /\ Return(r, "exhausted")
  /\ Failed(r, "log")
  /\ inflight' = Settled(r)
  /\ UNCHANGED world

\* Every target the last selection could choose from has been tried.
RoundOver(r) == Cardinality(triedIDs[r]) >= count[r]

\* Mutant: the deadline is not looked at.
MutMayWait(r) == TRUE

\* retryDelay finds time left before retryDeadline.
MayWait(r) == r \notin expired

(***************************************************************************)
(* The attempt fails in a way another target or a later time may mend: a   *)
(* network error, or a 429 or 5xx.  The target is told and the log closed; *)
(* then the next target, or a wait when the round is over, or the end when *)
(* the budget is.                                                          *)
(***************************************************************************)
AttemptFails(r) ==
  /\ pc[r] = "sending"
  /\ inflight' = Settled(r)
  /\ Failed(r, "transient")
  /\ IF ~RoundOver(r) \/ MayWait(r)
       THEN /\ Go(r, IF RoundOver(r) THEN "sleeping" ELSE "selecting")
            /\ UNCHANGED <<selection, count, answer, load, slots, held>>
       ELSE Return(r, IF r \in gone THEN "gone" ELSE "exhausted")
  /\ UNCHANGED <<triedIDs, world>>

\* A 404: the next target; at the end of the round, no waiting.
ModelNotFound(r) ==
  /\ pc[r] = "sending"
  /\ inflight' = Settled(r)
  /\ CASE r \in CountTokens -> Return(r, "synthesized") /\ UNCHANGED lastErr
       [] r \notin CountTokens /\ RoundOver(r) -> Return(r, "exhausted") /\ Failed(r, "notFound")
       [] OTHER -> /\ Go(r, "selecting") /\ Failed(r, "notFound")
                   /\ UNCHANGED <<selection, count, answer, load, slots, held>>
  /\ UNCHANGED <<triedIDs, world>>

\* Any other status is the client's: the response is written.
UpstreamAnswers(r) ==
  /\ pc[r] = "sending"
  /\ Go(r, "responding")
  /\ UNCHANGED <<triedIDs, selection, count, lastErr, answer, shared, held, world>>

\* writeUpstreamResponse has copied the body, or failed to, and completes.
Responded(r) ==
  /\ pc[r] = "responding"
  /\ Return(r, "relayed")
  /\ inflight' = Settled(r)
  /\ UNCHANGED <<triedIDs, lastErr, world>>

-------------------------------------------------------------------------------
\* The client goes away.
ClientLeaves(r) ==
  /\ pc[r] \notin {"arriving", "done"}
  /\ gone' = gone \cup {r}
  /\ UNCHANGED <<local, shared, held, expired, health>>

\* Thirty seconds have passed since the request came.
DeadlinePasses(r) ==
  /\ pc[r] \notin {"arriving", "done"}
  /\ expired' = expired \cup {r}
  /\ UNCHANGED <<local, shared, held, gone, health>>

\* Circuits open and close, refreshes add and remove the model.
TargetChanges(t) ==
  /\ t \in Flaky
  /\ \E h \in Health : health' = [health EXCEPT ![t] = h]
  /\ UNCHANGED <<local, shared, held, gone, expired>>

Serve(r) ==
  \/ AnswerEarly(r) \/ LimitBefore(r) \/ LeftQueueBefore(r)
  \/ Select(r) \/ SelectFails(r) \/ GiveUpOpen(r) \/ WaitForOpen(r)
  \/ WakeUp(r) \/ SleepCancelled(r)
  \/ LimitAfter(r) \/ LeftQueueAfter(r) \/ Prepare(r) \/ PrepareFails(r)
  \/ AttemptFails(r) \/ ModelNotFound(r) \/ UpstreamAnswers(r) \/ Responded(r)

Next ==
  \/ \E r \in Requests : Serve(r) \/ ClientLeaves(r) \/ DeadlinePasses(r)
  \/ \E t \in Targets : TargetChanges(t)

Spec == Init /\ [][Next]_vars

(***************************************************************************)
(* Fairness.  ServeHTTP runs on, an upstream answers or fails, and time    *)
(* passes.  Nobody has to arrive or to leave, and no target to recover.    *)
(* A request in the limiter's queue is promised nothing: its wake-up can   *)
(* be lost (Limiter).                                                      *)
(***************************************************************************)
FairSpec ==
  Spec /\ \A r \in Requests :
            /\ WF_vars(pc[r] \notin {"arriving", "queuedBefore", "queuedAfter"} /\ Serve(r))
            /\ WF_vars(DeadlinePasses(r))

-------------------------------------------------------------------------------
TypeOK ==
  /\ pc \in [Requests -> PC]
  /\ triedIDs \in [Requests -> SUBSET Targets]
  /\ selection \in [Requests -> Targets \cup {NoTarget}]
  /\ count \in [Requests -> 0..Cardinality(Targets)]
  /\ lastErr \in [Requests -> Errors]
  /\ waitSlotHeld \subseteq Requests
  /\ leases \in [Requests -> [Keys -> Nat]]
  /\ answer \in [Requests -> Answers]
  /\ gone \subseteq Requests
  /\ expired \subseteq Requests
  /\ inflight \in [Targets -> Nat]
  /\ load \in [Keys -> Nat]
  /\ slots \in 0..WaitCapacity
  /\ health \in [Targets -> Health]

\* The requests that selected t and have not told the router how it went.
Using(t) ==
  {r \in Requests :
     /\ pc[r] \in {"limiting", "queuedAfter", "preparing", "sending", "responding"}
     /\ selection[r] = t}

\* Every selection is completed or released exactly once, on every way out of
\* the loop: a target's inflight is the number of requests at work on it, and
\* no refused, retried, abandoned or exhausted request weighs on its cost.
SelectionsSettled == \A t \in Targets : inflight[t] = Cardinality(Using(t))

\* The leases under a key that unanswered requests will give back, each named
\* by its request and its number there.
Out(k) == UNION {{r} \X (1 .. leases[r][k]) : r \in {q \in Requests : pc[q] # "done"}}

\* The leases out under a key are those that unanswered requests will give
\* back, the ones of earlier attempts of a retried request included, and they
\* never pass the limit (the two Acquire calls and their deferred releases).
LeasesReturned ==
  \A k \in Keys : load[k] = Cardinality(Out(k)) /\ load[k] <= MaxConcurrent

\* The channel of wait slots holds one token per request that took one and is
\* not answered: a request that never waited gives no one else's token back
\* (tryAcquireRetryWaitSlot and the deferred releaseRetryWaitSlot).
SlotsExact ==
  /\ slots = Cardinality(waitSlotHeld)
  /\ \A r \in waitSlotHeld : pc[r] # "done"

\* Under a scope that limits before the selection, every request that was let
\* in is answered, however the targets fail and recover: the budget bounds the
\* rounds of the loop, and the wait slots block nobody.
EveryRequestAnswered ==
  \A r \in Requests : (pc[r] = "selecting") ~> (pc[r] = "done")
================================================================================

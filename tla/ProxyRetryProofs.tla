--------------------------- MODULE ProxyRetryProofs ---------------------------
(***************************************************************************)
(* Selections, wait slots and the limiter's leases are given back exactly  *)
(* once on every way out of the retry loop: for all requests, targets,     *)
(* limits and capacities.                                                  *)
(***************************************************************************)
EXTENDS ProxyRetry, FiniteSetTheorems, TLAPS

USE ProxyAssumption DEF ProxyAssumption

(* Where a request has a selection it has not settled. *)
AtWork == {"limiting", "queuedAfter", "preparing", "sending", "responding"}

Placed ==
  /\ pc \in [Requests -> PC]
  /\ selection \in [Requests -> Targets \cup {NoTarget}]
  /\ \A r \in Requests : pc[r] \in AtWork => selection[r] \in Targets

WorkInv == inflight \in [Targets -> Nat] /\ SelectionsSettled

SlotsInv ==
  /\ waitSlotHeld \subseteq Requests
  /\ slots \in 0 .. WaitCapacity
  /\ SlotsExact

(* Inductive.  inflight - 1 stays a natural number because the request that *)
(* settles is counted, slots - 1 because the one that answers holds a slot. *)
LoopInv == Placed /\ WorkInv /\ SlotsInv

-----------------------------------------------------------------------------
LEMMA UsingFinite == \A t \in Targets : IsFiniteSet(Using(t))
<1> TAKE t \in Targets
<1>1. Using(t) \subseteq Requests
  BY DEF Using
<1> QED
  BY <1>1, FS_Subset

LEMMA HoldersFinite == SlotsInv => IsFiniteSet(waitSlotHeld)
BY FS_Subset DEF SlotsInv

(* A request goes on without settling or taking a selection. *)
LEMMA WorkKept ==
  ASSUME Placed, WorkInv, NEW r \in Requests, NEW p \in PC,
         pc' = [pc EXCEPT ![r] = p], pc[r] \in AtWork <=> p \in AtWork,
         UNCHANGED <<selection, inflight>>
  PROVE  Placed' /\ WorkInv'
<1>1. Placed'
  BY DEF Placed
<1>2. \A t \in Targets : Using(t)' = Using(t)
  BY DEF Placed, Using, AtWork
<1>3. WorkInv'
  BY <1>2 DEF WorkInv, SelectionsSettled
<1> QED
  BY <1>1, <1>3

(* A request settles its selection and is no longer at work. *)
LEMMA WorkSettled ==
  ASSUME Placed, WorkInv, NEW r \in Requests, NEW p \in PC \ AtWork,
         pc' = [pc EXCEPT ![r] = p], pc[r] \in AtWork,
         inflight' = Settled(r), UNCHANGED selection
  PROVE  Placed' /\ WorkInv'
<1>t. PICK t \in Targets : t = selection[r]
  BY DEF Placed
<1>1. r \in Using(t)
  BY <1>t DEF Using, AtWork
<1>2. /\ Using(t)' = Using(t) \ {r}
      /\ \A u \in Targets \ {t} : Using(u)' = Using(u)
  BY <1>t DEF Using, Placed, AtWork
<1>3. Cardinality(Using(t) \ {r}) = Cardinality(Using(t)) - 1 /\ IsFiniteSet(Using(t) \ {r})
  BY <1>1, UsingFinite, FS_RemoveElement
<1>4. Cardinality(Using(t) \ {r}) \in Nat /\ Cardinality(Using(t)) \in Nat
  BY <1>3, FS_CardinalityType, UsingFinite
<1>5. inflight[t] = Cardinality(Using(t))
  BY DEF WorkInv, SelectionsSettled
<1>6. inflight' = [inflight EXCEPT ![t] = @ - 1]
  BY <1>t DEF Settled
<1>7. inflight' \in [Targets -> Nat]
  BY <1>3, <1>4, <1>5, <1>6 DEF WorkInv
<1>8. ASSUME NEW u \in Targets PROVE inflight'[u] = Cardinality(Using(u)')
  <2>1. CASE u = t
    BY <2>1, <1>2, <1>3, <1>5, <1>6 DEF WorkInv
  <2>2. CASE u # t
    BY <2>2, <1>2, <1>6 DEF WorkInv, SelectionsSettled
  <2> QED
    BY <2>1, <2>2
<1>9. Placed'
  BY DEF Placed
<1> QED
  BY <1>7, <1>8, <1>9 DEF WorkInv, SelectionsSettled

(* What a request that answers does to the slots. *)
LEMMA SlotReturned ==
  ASSUME SlotsInv, pc \in [Requests -> PC], NEW r \in Requests, NEW a, Return(r, a)
  PROVE  SlotsInv'
<1>1. /\ pc' = [pc EXCEPT ![r] = "done"]
      /\ slots' = IF r \in waitSlotHeld THEN slots - 1 ELSE slots
      /\ waitSlotHeld' = waitSlotHeld \ {r}
  BY DEF Return, SlotsAfter
<1>2. waitSlotHeld' \subseteq Requests /\ \A q \in waitSlotHeld' : pc'[q] # "done"
  BY <1>1 DEF SlotsInv, SlotsExact
<1>3. CASE r \in waitSlotHeld
  <2>1. Cardinality(waitSlotHeld \ {r}) = Cardinality(waitSlotHeld) - 1
        /\ IsFiniteSet(waitSlotHeld \ {r})
    BY <1>3, HoldersFinite, FS_RemoveElement
  <2>2. Cardinality(waitSlotHeld \ {r}) \in Nat
    BY <2>1, FS_CardinalityType
  <2>3. slots' = Cardinality(waitSlotHeld') /\ slots' \in 0 .. WaitCapacity
    BY <1>1, <1>3, <2>1, <2>2 DEF SlotsInv, SlotsExact
  <2> QED
    BY <1>2, <2>3 DEF SlotsInv, SlotsExact
<1>4. CASE r \notin waitSlotHeld
  <2>1. slots' = slots /\ waitSlotHeld' = waitSlotHeld
    BY <1>1, <1>4
  <2> QED
    BY <1>2, <2>1 DEF SlotsInv, SlotsExact
<1> QED
  BY <1>3, <1>4

LEMMA SlotsKept ==
  ASSUME SlotsInv, pc \in [Requests -> PC], NEW r \in Requests, NEW p \in PC \ {"done"},
         pc' = [pc EXCEPT ![r] = p], UNCHANGED <<slots, waitSlotHeld>>
  PROVE  SlotsInv'
BY DEF SlotsInv, SlotsExact

-----------------------------------------------------------------------------
(* The kinds of step a request takes. *)

LEMMA GoesOn ==
  ASSUME LoopInv, NEW r \in Requests, NEW p \in PC \ {"done"}, Go(r, p),
         pc[r] \in AtWork <=> p \in AtWork,
         UNCHANGED <<selection, inflight, slots, waitSlotHeld>>
  PROVE  LoopInv'
<1>1. pc' = [pc EXCEPT ![r] = p]
  BY DEF Go
<1>2. Placed' /\ WorkInv'
  BY <1>1, WorkKept DEF LoopInv
<1>3. SlotsInv'
  BY <1>1, SlotsKept DEF LoopInv, Placed
<1> QED
  BY <1>2, <1>3 DEF LoopInv

(* It answers with no selection to settle. *)
LEMMA Answers0 ==
  ASSUME LoopInv, NEW r \in Requests, NEW a, Return(r, a), pc[r] \notin AtWork,
         UNCHANGED inflight
  PROVE  LoopInv'
<1>1. pc' = [pc EXCEPT ![r] = "done"] /\ UNCHANGED selection
  BY DEF Return
<1>2. "done" \in PC \ AtWork
  BY DEF PC, AtWork
<1>3. Placed' /\ WorkInv'
  BY <1>1, <1>2, WorkKept DEF LoopInv
<1>4. SlotsInv'
  BY SlotReturned DEF LoopInv, Placed
<1> QED
  BY <1>3, <1>4 DEF LoopInv

(* It settles its selection and answers. *)
LEMMA SettlesAndAnswers ==
  ASSUME LoopInv, NEW r \in Requests, NEW a, Return(r, a), pc[r] \in AtWork,
         inflight' = Settled(r)
  PROVE  LoopInv'
<1>1. pc' = [pc EXCEPT ![r] = "done"] /\ UNCHANGED selection
  BY DEF Return
<1>2. "done" \in PC \ AtWork
  BY DEF PC, AtWork
<1>3. Placed' /\ WorkInv'
  BY <1>1, <1>2, WorkSettled DEF LoopInv
<1>4. SlotsInv'
  BY SlotReturned DEF LoopInv, Placed
<1> QED
  BY <1>3, <1>4 DEF LoopInv

(* It settles its selection and tries again. *)
LEMMA SettlesAndRetries ==
  ASSUME LoopInv, NEW r \in Requests, NEW p \in {"selecting", "sleeping"}, Go(r, p),
         pc[r] \in AtWork, inflight' = Settled(r),
         UNCHANGED <<selection, slots, waitSlotHeld>>
  PROVE  LoopInv'
<1>1. pc' = [pc EXCEPT ![r] = p]
  BY DEF Go
<1>2. p \in PC \ AtWork /\ p # "done"
  BY DEF PC, AtWork
<1>3. Placed' /\ WorkInv'
  BY <1>1, <1>2, WorkSettled DEF LoopInv
<1>4. SlotsInv'
  BY <1>1, <1>2, SlotsKept DEF LoopInv, Placed
<1> QED
  BY <1>3, <1>4 DEF LoopInv

-----------------------------------------------------------------------------
LEMMA LoopInitially == Init => LoopInv
<1> SUFFICES ASSUME Init PROVE LoopInv
  OBVIOUS
<1>1. Placed
  BY DEF Init, Placed, PC, AtWork
<1>2. \A t \in Targets : Using(t) = {}
  BY DEF Init, Using
<1>3. WorkInv
  BY <1>2, FS_EmptySet DEF Init, WorkInv, SelectionsSettled
<1>4. SlotsInv
  BY FS_EmptySet DEF Init, SlotsInv, SlotsExact
<1> QED
  BY <1>1, <1>3, <1>4 DEF LoopInv

LEMMA EarlyStep == ASSUME LoopInv, NEW r \in Requests, AnswerEarly(r) PROVE LoopInv'
BY Answers0 DEF AnswerEarly, AtWork

LEMMA LimitBeforeStep == ASSUME LoopInv, NEW r \in Requests, LimitBefore(r) PROVE LoopInv'
<1> DEFINE k == PreKey[r]
<1>1. pc[r] = "arriving" /\ pc[r] \notin AtWork
  BY DEF LimitBefore, AtWork
<1>2. ASSUME NEW p \in {"selecting", "queuedBefore"}, Go(r, p),
             UNCHANGED <<selection, inflight, slots, waitSlotHeld>>
      PROVE  LoopInv'
  <2>1. p \in PC \ {"done"} /\ p \notin AtWork
    BY DEF PC, AtWork
  <2> QED
    BY <1>1, <1>2, <2>1, GoesOn
<1>3. CASE Unlimited(r, k, "selecting")
  BY <1>2, <1>3 DEF Unlimited, shared, held
<1>4. CASE Lease(r, k) /\ Go(r, "selecting")
  BY <1>2, <1>4 DEF Lease
<1>5. CASE Queue(k) /\ Go(r, "queuedBefore")
  BY <1>2, <1>5 DEF Queue, shared, held
<1>6. CASE Refuse(r, k) /\ UNCHANGED inflight
  BY <1>1, <1>6, Answers0 DEF Refuse
<1> QED
  BY <1>3, <1>4, <1>5, <1>6 DEF LimitBefore

LEMMA LeftBeforeStep == ASSUME LoopInv, NEW r \in Requests, LeftQueueBefore(r) PROVE LoopInv'
<1>1. pc[r] = "queuedBefore" /\ pc[r] \notin AtWork
  BY DEF LeftQueueBefore, AtWork
<1>2. CASE Lease(r, PreKey[r]) /\ Go(r, "selecting")
  <2>1. "selecting" \in PC \ {"done"} /\ "selecting" \notin AtWork
    BY DEF PC, AtWork
  <2> QED
    BY <1>1, <1>2, <2>1, GoesOn DEF Lease
<1>3. CASE Return(r, "limited") /\ UNCHANGED inflight
  BY <1>1, <1>3, Answers0
<1> QED
  BY <1>2, <1>3 DEF LeftQueueBefore

(* The target selected has one request more at work on it. *)
LEMMA SelectStep == ASSUME LoopInv, NEW r \in Requests, Select(r) PROVE LoopInv'
<1>1. PICK t \in Available(r) : /\ selection' = [selection EXCEPT ![r] = t]
                                /\ inflight' = [inflight EXCEPT ![t] = @ + 1]
  BY DEF Select
<1>2. /\ pc[r] = "selecting" /\ pc' = [pc EXCEPT ![r] = "limiting"]
      /\ UNCHANGED <<slots, waitSlotHeld>>
  BY DEF Select, Go, held
<1>3. t \in Targets
  BY <1>1 DEF Available, Candidates
<1>4. "limiting" \in PC \ {"done"} /\ "selecting" \notin AtWork
  BY DEF PC, AtWork
<1>5. Placed'
  BY <1>1, <1>2, <1>3, <1>4 DEF LoopInv, Placed
<1>6. r \notin Using(t)
  BY <1>2 DEF Using
<1>7. /\ Using(t)' = Using(t) \cup {r}
      /\ \A u \in Targets \ {t} : Using(u)' = Using(u)
  BY <1>1, <1>2, <1>3 DEF LoopInv, Placed, Using
<1>8. Cardinality(Using(t) \cup {r}) = Cardinality(Using(t)) + 1
  BY <1>3, <1>6, UsingFinite, FS_AddElement
<1>9. inflight' \in [Targets -> Nat]
  BY <1>1, <1>3 DEF LoopInv, WorkInv
<1>10. ASSUME NEW u \in Targets PROVE inflight'[u] = Cardinality(Using(u)')
  <2>1. CASE u = t
    BY <2>1, <1>1, <1>3, <1>7, <1>8 DEF LoopInv, WorkInv, SelectionsSettled
  <2>2. CASE u # t
    BY <2>2, <1>1, <1>7 DEF LoopInv, WorkInv, SelectionsSettled
  <2> QED
    BY <2>1, <2>2
<1>11. WorkInv'
  BY <1>9, <1>10 DEF WorkInv, SelectionsSettled
<1>12. SlotsInv'
  BY <1>2, <1>4, SlotsKept DEF LoopInv, Placed
<1> QED
  BY <1>5, <1>11, <1>12 DEF LoopInv

LEMMA SelectFailsStep == ASSUME LoopInv, NEW r \in Requests, SelectFails(r) PROVE LoopInv'
<1>1. pc[r] \notin AtWork /\ UNCHANGED inflight
  BY DEF SelectFails, AtWork
<1>2. PICK a \in {"exhausted", "synthesized", "unavailable"} : Return(r, a)
  BY DEF SelectFails
<1> QED
  BY <1>1, <1>2, Answers0

LEMMA GiveUpStep == ASSUME LoopInv, NEW r \in Requests, GiveUpOpen(r) PROVE LoopInv'
<1>1. pc[r] \notin AtWork /\ UNCHANGED inflight
  BY DEF GiveUpOpen, AtWork
<1>2. PICK a \in {"unavailable", "gone"} : Return(r, a)
  BY DEF GiveUpOpen
<1> QED
  BY <1>1, <1>2, Answers0

(* A slot is taken by one that has none, and only while one is free. *)
LEMMA WaitStep == ASSUME LoopInv, NEW r \in Requests, WaitForOpen(r) PROVE LoopInv'
<1>1. /\ pc[r] = "selecting" /\ pc[r] \notin AtWork
      /\ UNCHANGED inflight
  BY DEF WaitForOpen, AtWork
<1>2. CASE r \in waitSlotHeld \/ slots < WaitCapacity
  <2>1. /\ waitSlotHeld' = waitSlotHeld \cup {r}
        /\ slots' = IF r \in waitSlotHeld THEN slots ELSE slots + 1
        /\ pc' = [pc EXCEPT ![r] = "sleeping"]
        /\ UNCHANGED selection
    BY <1>2 DEF WaitForOpen, Go
  <2>2. "sleeping" \in PC \ AtWork
    BY DEF PC, AtWork
  <2>3. Placed' /\ WorkInv'
    BY <1>1, <2>1, <2>2, WorkKept DEF LoopInv
  <2>4. waitSlotHeld' \subseteq Requests /\ \A q \in waitSlotHeld' : pc'[q] # "done"
    BY <2>1 DEF LoopInv, Placed, SlotsInv, SlotsExact
  <2>5. CASE r \in waitSlotHeld
    <3>1. slots' = slots /\ waitSlotHeld' = waitSlotHeld
      BY <2>1, <2>5
    <3> QED
      BY <2>3, <2>4, <3>1 DEF LoopInv, SlotsInv, SlotsExact
  <2>6. CASE r \notin waitSlotHeld
    <3>1. Cardinality(waitSlotHeld \cup {r}) = Cardinality(waitSlotHeld) + 1
      BY <2>6, HoldersFinite, FS_AddElement DEF LoopInv
    <3>2. slots' = Cardinality(waitSlotHeld') /\ slots' \in 0 .. WaitCapacity
      BY <1>2, <2>1, <2>6, <3>1 DEF LoopInv, SlotsInv, SlotsExact
    <3> QED
      BY <2>3, <2>4, <3>2 DEF LoopInv, SlotsInv, SlotsExact
  <2> QED
    BY <2>5, <2>6
<1>3. CASE ~ (r \in waitSlotHeld \/ slots < WaitCapacity)
  BY <1>1, <1>3, Answers0 DEF WaitForOpen
<1> QED
  BY <1>2, <1>3

LEMMA SleepStep ==
  ASSUME LoopInv, NEW r \in Requests, WakeUp(r) \/ SleepCancelled(r)
  PROVE  LoopInv'
<1>1. pc[r] = "sleeping" /\ pc[r] \notin AtWork
  BY DEF WakeUp, SleepCancelled, AtWork
<1>2. CASE WakeUp(r)
  <2>1. "selecting" \in PC \ {"done"} /\ "selecting" \notin AtWork
    BY DEF PC, AtWork
  <2> QED
    BY <1>1, <1>2, <2>1, GoesOn DEF WakeUp, shared, held
<1>3. CASE SleepCancelled(r)
  BY <1>1, <1>3, Answers0 DEF SleepCancelled
<1> QED
  BY <1>2, <1>3

LEMMA LimitAfterStep == ASSUME LoopInv, NEW r \in Requests, LimitAfter(r) PROVE LoopInv'
<1> DEFINE k == PostKey[selection[r]]
<1>1. pc[r] = "limiting" /\ pc[r] \in AtWork
  BY DEF LimitAfter, AtWork
<1>2. ASSUME NEW p \in {"preparing", "queuedAfter"}, Go(r, p),
             UNCHANGED <<selection, inflight, slots, waitSlotHeld>>
      PROVE  LoopInv'
  <2>1. p \in PC \ {"done"} /\ p \in AtWork
    BY DEF PC, AtWork
  <2> QED
    BY <1>1, <1>2, <2>1, GoesOn
<1>3. CASE Unlimited(r, k, "preparing")
  BY <1>2, <1>3 DEF Unlimited, shared, held
<1>4. CASE Lease(r, k) /\ Go(r, "preparing")
  BY <1>2, <1>4 DEF Lease
<1>5. CASE Queue(k) /\ Go(r, "queuedAfter")
  BY <1>2, <1>5 DEF Queue, shared, held
<1>6. CASE Refuse(r, k) /\ inflight' = LetGo(r)
  BY <1>1, <1>6, SettlesAndAnswers DEF Refuse, LetGo
<1> QED
  BY <1>3, <1>4, <1>5, <1>6 DEF LimitAfter

LEMMA LeftAfterStep == ASSUME LoopInv, NEW r \in Requests, LeftQueueAfter(r) PROVE LoopInv'
<1>1. pc[r] = "queuedAfter" /\ pc[r] \in AtWork
  BY DEF LeftQueueAfter, AtWork
<1>2. CASE Lease(r, PostKey[selection[r]]) /\ Go(r, "preparing")
  <2>1. "preparing" \in PC \ {"done"} /\ "preparing" \in AtWork
    BY DEF PC, AtWork
  <2> QED
    BY <1>1, <1>2, <2>1, GoesOn DEF Lease
<1>3. CASE Return(r, "limited") /\ inflight' = LetGo(r)
  BY <1>1, <1>3, SettlesAndAnswers DEF LetGo
<1> QED
  BY <1>2, <1>3 DEF LeftQueueAfter

LEMMA PrepareStep ==
  ASSUME LoopInv, NEW r \in Requests, Prepare(r) \/ PrepareFails(r)
  PROVE  LoopInv'
<1>1. pc[r] = "preparing" /\ pc[r] \in AtWork
  BY DEF Prepare, PrepareFails, AtWork
<1>2. CASE Prepare(r)
  <2>1. "sending" \in PC \ {"done"} /\ "sending" \in AtWork
    BY DEF PC, AtWork
  <2> QED
    BY <1>1, <1>2, <2>1, GoesOn DEF Prepare, shared, held
<1>3. CASE PrepareFails(r)
  BY <1>1, <1>3, SettlesAndAnswers DEF PrepareFails
<1> QED
  BY <1>2, <1>3

LEMMA AttemptStep ==
  ASSUME LoopInv, NEW r \in Requests, AttemptFails(r) \/ ModelNotFound(r)
  PROVE  LoopInv'
<1>1. /\ pc[r] = "sending" /\ pc[r] \in AtWork
      /\ inflight' = Settled(r)
  BY DEF AttemptFails, ModelNotFound, AtWork
<1>2. ASSUME NEW p \in {"selecting", "sleeping"}, Go(r, p),
             UNCHANGED <<selection, slots, held>>
      PROVE  LoopInv'
  BY <1>1, <1>2, SettlesAndRetries DEF held
<1>3. ASSUME NEW a \in Answers, Return(r, a) PROVE LoopInv'
  BY <1>1, <1>3, SettlesAndAnswers
<1>4. CASE AttemptFails(r)
  <2>1. CASE ~RoundOver(r) \/ MayWait(r)
    BY <1>2, <1>4, <2>1 DEF AttemptFails
  <2>2. CASE ~(~RoundOver(r) \/ MayWait(r))
    <3>1. PICK a \in {"gone", "exhausted"} : Return(r, a)
      BY <1>4, <2>2 DEF AttemptFails
    <3> QED
      BY <1>3, <3>1 DEF Answers
  <2> QED
    BY <2>1, <2>2
<1>5. CASE ModelNotFound(r)
  <2>1. CASE r \in CountTokens
    BY <1>3, <1>5, <2>1 DEF ModelNotFound, Answers
  <2>2. CASE r \notin CountTokens /\ RoundOver(r)
    BY <1>3, <1>5, <2>2 DEF ModelNotFound, Answers
  <2>3. CASE r \notin CountTokens /\ ~RoundOver(r)
    BY <1>2, <1>5, <2>3 DEF ModelNotFound
  <2> QED
    BY <2>1, <2>2, <2>3
<1> QED
  BY <1>4, <1>5

LEMMA ResponseStep ==
  ASSUME LoopInv, NEW r \in Requests, UpstreamAnswers(r) \/ Responded(r)
  PROVE  LoopInv'
<1>1. pc[r] \in AtWork
  BY DEF UpstreamAnswers, Responded, AtWork
<1>2. CASE UpstreamAnswers(r)
  <2>1. "responding" \in PC \ {"done"} /\ "responding" \in AtWork
    BY DEF PC, AtWork
  <2> QED
    BY <1>1, <1>2, <2>1, GoesOn DEF UpstreamAnswers, shared, held
<1>3. CASE Responded(r)
  BY <1>1, <1>3, SettlesAndAnswers DEF Responded
<1> QED
  BY <1>2, <1>3

(* Nothing the invariant speaks of changes. *)
LEMMA WorldStep ==
  ASSUME LoopInv, UNCHANGED <<pc, selection, inflight, slots, waitSlotHeld>>
  PROVE  LoopInv'
<1>1. \A t \in Targets : Using(t)' = Using(t)
  BY DEF Using
<1> QED
  BY <1>1 DEF LoopInv, Placed, WorkInv, SelectionsSettled, SlotsInv, SlotsExact

LEMMA LoopKept == LoopInv /\ [Next]_vars => LoopInv'
<1> SUFFICES ASSUME LoopInv, [Next]_vars PROVE LoopInv'
  OBVIOUS
<1>1. CASE UNCHANGED vars
  BY <1>1, WorldStep DEF vars, local, shared, held
<1>2. ASSUME NEW r \in Requests, Serve(r) PROVE LoopInv'
  BY <1>2, EarlyStep, LimitBeforeStep, LeftBeforeStep, SelectStep, SelectFailsStep,
     GiveUpStep, WaitStep, SleepStep, LimitAfterStep, LeftAfterStep, PrepareStep,
     AttemptStep, ResponseStep
  DEF Serve
<1>3. ASSUME NEW r \in Requests, ClientLeaves(r) \/ DeadlinePasses(r) PROVE LoopInv'
  BY <1>3, WorldStep DEF ClientLeaves, DeadlinePasses, local, shared, held
<1>4. ASSUME NEW t \in Targets, TargetChanges(t) PROVE LoopInv'
  BY <1>4, WorldStep DEF TargetChanges, local, shared, held
<1> QED
  BY <1>1, <1>2, <1>3, <1>4 DEF Next

(* Every selection is completed or released once, on every way out of the  *)
(* loop: the load of a target is the number of requests at work on it.     *)
THEOREM SelectionsAreSettled == Spec => []SelectionsSettled
<1>1. LoopInv => SelectionsSettled
  BY DEF LoopInv, WorkInv
<1> QED
  BY <1>1, LoopInitially, LoopKept, PTL DEF Spec

(* The tokens in the channel of wait slots are those of the unanswered     *)
(* requests that took one, and no request gives another's back.            *)
THEOREM SlotsAreExact == Spec => []SlotsExact
<1>1. LoopInv => SlotsExact
  BY DEF LoopInv, SlotsInv
<1> QED
  BY <1>1, LoopInitially, LoopKept, PTL DEF Spec

-----------------------------------------------------------------------------
(* Leases, and the types of what the loop keeps besides. *)

(* Inductive.  load - leases stays a natural number because the leases the *)
(* request gives back are among those counted.                             *)
LeaseInv ==
  /\ leases \in [Requests -> [Keys -> Nat]]
  /\ load \in [Keys -> Nat]
  /\ \A k \in Keys : IsFiniteSet(Out(k))
  /\ LeasesReturned

RestOK ==
  /\ triedIDs \in [Requests -> SUBSET Targets]
  /\ count \in [Requests -> 0 .. Cardinality(Targets)]
  /\ lastErr \in [Requests -> Errors]
  /\ answer \in [Requests -> Answers]
  /\ gone \subseteq Requests
  /\ expired \subseteq Requests
  /\ health \in [Targets -> Health]

ProxyInv == LoopInv /\ LeaseInv /\ RestOK

(* What a request does with its leases in one step. *)
KeepsLeases(r) == \E p \in PC \ {"done"} : Go(r, p) /\ UNCHANGED <<load, leases>>
TakesLease(r) == \E k \in Keys, p \in PC \ {"done"} : Lease(r, k) /\ Go(r, p)
Replies(r) == \E a \in Answers : Return(r, a)

LEMMA LeasesKept ==
  ASSUME LoopInv, LeaseInv, NEW r \in Requests, pc[r] # "done", KeepsLeases(r)
  PROVE  LeaseInv'
<1>1. PICK p \in PC \ {"done"} : pc' = [pc EXCEPT ![r] = p] /\ UNCHANGED <<load, leases>>
  BY DEF KeepsLeases, Go
<1>2. {q \in Requests : pc'[q] # "done"} = {q \in Requests : pc[q] # "done"}
  BY <1>1 DEF LoopInv, Placed
<1>3. \A k \in Keys : Out(k)' = Out(k)
  BY <1>1, <1>2 DEF Out
<1> QED
  BY <1>1, <1>3 DEF LeaseInv, LeasesReturned

(* The lease taken is a new one of its request, and there was room for it. *)
LEMMA LeaseTaken ==
  ASSUME LoopInv, LeaseInv, NEW r \in Requests, pc[r] # "done", TakesLease(r)
  PROVE  LeaseInv'
<1>1. PICK k \in Keys, p \in PC \ {"done"} : Lease(r, k) /\ pc' = [pc EXCEPT ![r] = p]
  BY DEF TakesLease, Go
<1>2. /\ load' = [load EXCEPT ![k] = @ + 1] /\ load[k] < MaxConcurrent
      /\ leases' = [leases EXCEPT ![r][k] = @ + 1]
  BY <1>1 DEF Lease
<1>3. {q \in Requests : pc'[q] # "done"} = {q \in Requests : pc[q] # "done"}
  BY <1>1 DEF LoopInv, Placed
<1>4. leases' \in [Requests -> [Keys -> Nat]] /\ load' \in [Keys -> Nat]
  BY <1>2 DEF LeaseInv
<1>5. ASSUME NEW q \in Requests, NEW c \in Keys
      PROVE  leases'[q][c] = IF q = r /\ c = k THEN leases[r][k] + 1 ELSE leases[q][c]
  BY <1>2 DEF LeaseInv
<1> DEFINE new == <<r, leases[r][k] + 1>>
<1>6. new \notin Out(k)
  BY DEF Out, LeaseInv
<1>7. 1 .. leases[r][k] + 1 = (1 .. leases[r][k]) \cup {leases[r][k] + 1}
  BY DEF LeaseInv
<1>8. Out(k)' = Out(k) \cup {new}
  <2>1. ASSUME NEW x PROVE x \in Out(k)' <=> x \in Out(k) \cup {new}
    <3>1. x \in Out(k)' <=> \E q \in Requests : pc[q] # "done" /\ \E n \in 1 .. leases'[q][k] : x = <<q, n>>
      BY <1>3 DEF Out
    <3>2. x \in Out(k) <=> \E q \in Requests : pc[q] # "done" /\ \E n \in 1 .. leases[q][k] : x = <<q, n>>
      BY DEF Out
    <3>3. \A q \in Requests \ {r} : 1 .. leases'[q][k] = 1 .. leases[q][k]
      BY <1>5
    <3>4. 1 .. leases'[r][k] = (1 .. leases[r][k]) \cup {leases[r][k] + 1}
      BY <1>5, <1>7
    <3> QED
      BY <3>1, <3>2, <3>3, <3>4
  <2> QED
    BY <2>1
<1>9. \A c \in Keys \ {k} : Out(c)' = Out(c)
  <2> TAKE c \in Keys \ {k}
  <2>1. \A q \in Requests : 1 .. leases'[q][c] = 1 .. leases[q][c]
    BY <1>5
  <2> QED
    BY <1>3, <2>1 DEF Out
<1>10. Cardinality(Out(k)') = Cardinality(Out(k)) + 1 /\ IsFiniteSet(Out(k)')
  BY <1>6, <1>8, FS_AddElement DEF LeaseInv
<1>11. ASSUME NEW c \in Keys
       PROVE  IsFiniteSet(Out(c)') /\ load'[c] = Cardinality(Out(c)') /\ load'[c] <= MaxConcurrent
  <2>1. CASE c = k
    BY <2>1, <1>2, <1>10 DEF LeaseInv, LeasesReturned
  <2>2. CASE c # k
    BY <2>2, <1>2, <1>9 DEF LeaseInv, LeasesReturned
  <2> QED
    BY <2>1, <2>2
<1> QED
  BY <1>4, <1>11 DEF LeaseInv, LeasesReturned

(* n leases of one request. *)
LEMMA LeasesOfOne ==
  ASSUME NEW r, NEW n \in Nat
  PROVE  IsFiniteSet({r} \X (1 .. n)) /\ Cardinality({r} \X (1 .. n)) = n
<1>1. IsFiniteSet(1 .. n) /\ Cardinality(1 .. n) = n
  BY FS_Interval
<1>2. IsFiniteSet({r}) /\ Cardinality({r}) = 1
  BY FS_Singleton
<1>3. Cardinality({r} \X (1 .. n)) = 1 * n /\ IsFiniteSet({r} \X (1 .. n))
  BY <1>1, <1>2, FS_Product
<1> QED
  BY <1>3

LEMMA LeasesGiven ==
  ASSUME LoopInv, LeaseInv, NEW r \in Requests, pc[r] # "done", Replies(r)
  PROVE  LeaseInv'
<1>1. /\ pc' = [pc EXCEPT ![r] = "done"]
      /\ load' = [k \in Keys |-> load[k] - leases[r][k]]
      /\ leases' = [leases EXCEPT ![r] = [k \in Keys |-> 0]]
  BY DEF Replies, Return, Returned
<1>2. {q \in Requests : pc'[q] # "done"} = {q \in Requests : pc[q] # "done"} \ {r}
  BY <1>1 DEF LoopInv, Placed
<1>3. leases' \in [Requests -> [Keys -> Nat]]
  BY <1>1 DEF LeaseInv
<1>4. ASSUME NEW k \in Keys
      PROVE  /\ IsFiniteSet(Out(k)') /\ load'[k] \in Nat
             /\ load'[k] = Cardinality(Out(k)') /\ load'[k] <= MaxConcurrent
  <2> DEFINE mine == {r} \X (1 .. leases[r][k])
  <2>1. leases[r][k] \in Nat /\ load[k] \in Nat
    BY DEF LeaseInv
  <2>2. Out(k) \cap mine = mine
    BY DEF Out
  <2>3. Out(k)' = Out(k) \ mine
    <3>1. \A q \in Requests \ {r} : leases'[q][k] = leases[q][k]
      BY <1>1 DEF LeaseInv
    <3>2. ASSUME NEW x PROVE x \in Out(k)' <=> x \in Out(k) \ mine
      <4>1. x \in Out(k)' <=> \E q \in Requests \ {r} : pc[q] # "done" /\ \E n \in 1 .. leases[q][k] : x = <<q, n>>
        BY <1>2, <3>1 DEF Out
      <4>2. x \in Out(k) <=> \E q \in Requests : pc[q] # "done" /\ \E n \in 1 .. leases[q][k] : x = <<q, n>>
        BY DEF Out
      <4>3. x \in mine <=> \E n \in 1 .. leases[r][k] : x = <<r, n>>
        OBVIOUS
      <4> QED
        BY <4>1, <4>2, <4>3
    <3> QED
      BY <3>2
  <2>4. Cardinality(mine) = leases[r][k]
    BY <2>1, LeasesOfOne
  <2>5. IsFiniteSet(Out(k))
    BY DEF LeaseInv
  <2>6. IsFiniteSet(Out(k) \ mine) /\ Cardinality(Out(k) \ mine) = Cardinality(Out(k)) - Cardinality(Out(k) \cap mine)
    BY <2>5, FS_Difference
  <2>7. Cardinality(Out(k) \ mine) = load[k] - leases[r][k]
    BY <2>2, <2>4, <2>6 DEF LeaseInv, LeasesReturned
  <2>8. Cardinality(Out(k) \ mine) \in Nat
    BY <2>6, FS_CardinalityType
  <2>9. load'[k] = load[k] - leases[r][k]
    BY <1>1
  <2>10. load[k] <= MaxConcurrent
    BY DEF LeaseInv, LeasesReturned
  <2>11. load'[k] = Cardinality(Out(k)') /\ IsFiniteSet(Out(k)')
    BY <2>3, <2>6, <2>7, <2>9
  <2>12. load'[k] \in Nat /\ load'[k] <= MaxConcurrent
    BY <2>1, <2>7, <2>8, <2>9, <2>10
  <2> QED
    BY <2>11, <2>12
<1>5. load' \in [Keys -> Nat]
  BY <1>1, <1>4
<1> QED
  BY <1>3, <1>4, <1>5 DEF LeaseInv, LeasesReturned

(* Every step of a request is of one of the three kinds. *)
LEMMA StepKinds ==
  ASSUME LoopInv, NEW r \in Requests, Serve(r)
  PROVE  pc[r] # "done" /\ (KeepsLeases(r) \/ TakesLease(r) \/ Replies(r))
<1>k. \A p \in PC \ {"done"} : Go(r, p) /\ UNCHANGED <<load, leases>> => KeepsLeases(r)
  BY DEF KeepsLeases
<1>t. \A k \in Keys \cup {NoKey}, p \in PC \ {"done"} : Lease(r, k) /\ Go(r, p) => TakesLease(r)
  BY DEF TakesLease, Lease
<1>a. \A a \in Answers : Return(r, a) => Replies(r)
  BY DEF Replies
<1>1. CASE LimitBefore(r) \/ LeftQueueBefore(r)
  <2>1. PreKey[r] \in Keys \cup {NoKey} /\ pc[r] # "done"
    BY <1>1 DEF LimitBefore, LeftQueueBefore
  <2> QED
    BY <1>1, <1>k, <1>t, <1>a, <2>1
    DEF LimitBefore, LeftQueueBefore, Unlimited, Queue, Refuse, PC, Answers, shared, held
<1>2. CASE LimitAfter(r) \/ LeftQueueAfter(r)
  <2>1. PostKey[selection[r]] \in Keys \cup {NoKey} /\ pc[r] # "done"
    BY <1>2 DEF LimitAfter, LeftQueueAfter, LoopInv, Placed, AtWork
  <2> QED
    BY <1>2, <1>k, <1>t, <1>a, <2>1
    DEF LimitAfter, LeftQueueAfter, Unlimited, Queue, Refuse, PC, Answers, shared, held
<1>3. CASE AnswerEarly(r) \/ SelectFails(r) \/ GiveUpOpen(r) \/ SleepCancelled(r)
           \/ PrepareFails(r) \/ Responded(r)
  BY <1>3, <1>a
  DEF AnswerEarly, SelectFails, GiveUpOpen, SleepCancelled, PrepareFails, Responded, Answers
<1>4. CASE Select(r) \/ WaitForOpen(r) \/ WakeUp(r) \/ Prepare(r) \/ UpstreamAnswers(r)
  BY <1>4, <1>k, <1>a
  DEF Select, WaitForOpen, WakeUp, Prepare, UpstreamAnswers, PC, Answers, shared, held
<1>5. CASE AttemptFails(r) \/ ModelNotFound(r)
  BY <1>5, <1>k, <1>a DEF AttemptFails, ModelNotFound, PC, Answers, held
<1> QED
  BY <1>1, <1>2, <1>3, <1>4, <1>5 DEF Serve

LEMMA ReturnsAnswer ==
  ASSUME RestOK, NEW r \in Requests, NEW a \in Answers, Return(r, a)
  PROVE  answer' \in [Requests -> Answers] /\ UNCHANGED count
BY DEF RestOK, Return

LEMMA RestKept ==
  ASSUME LoopInv, RestOK, NEW r \in Requests, Serve(r)
  PROVE  RestOK'
<1>1. UNCHANGED world
  BY DEF Serve, AnswerEarly, LimitBefore, LeftQueueBefore, Select, SelectFails, GiveUpOpen,
     WaitForOpen, WakeUp, SleepCancelled, LimitAfter, LeftQueueAfter, Prepare, PrepareFails,
     AttemptFails, ModelNotFound, UpstreamAnswers, Responded, Unlimited, Lease, Queue, Refuse
<1>2. triedIDs' \in [Requests -> SUBSET Targets]
  <2>1. CASE UNCHANGED triedIDs
    BY <2>1 DEF RestOK
  <2>2. CASE triedIDs' = [triedIDs EXCEPT ![r] = {}]
    BY <2>2 DEF RestOK
  <2>3. CASE pc[r] = "preparing" /\ triedIDs' = [triedIDs EXCEPT ![r] = @ \cup {selection[r]}]
    BY <2>3 DEF RestOK, LoopInv, Placed, AtWork
  <2> QED
    BY <2>1, <2>2, <2>3
    DEF Serve, AnswerEarly, LimitBefore, LeftQueueBefore, Select, SelectFails, GiveUpOpen,
     WaitForOpen, WakeUp, SleepCancelled, LimitAfter, LeftQueueAfter, Prepare, PrepareFails,
     AttemptFails, ModelNotFound, UpstreamAnswers, Responded, Unlimited, Lease, Queue, Refuse
<1>3. count' \in [Requests -> 0 .. Cardinality(Targets)]
  <2>1. Cardinality(Available(r)) \in 0 .. Cardinality(Targets)
    <3>1. Available(r) \in SUBSET Targets
      BY DEF Available, Candidates
    <3> QED
      BY <3>1, FS_Subset, FS_CardinalityType
  <2>2. UNCHANGED count \/ count' = [count EXCEPT ![r] = Cardinality(Available(r))]
    BY DEF Serve, AnswerEarly, LimitBefore, LeftQueueBefore, Select, SelectFails, GiveUpOpen,
     WaitForOpen, WakeUp, SleepCancelled, LimitAfter, LeftQueueAfter, Prepare, PrepareFails,
     AttemptFails, ModelNotFound, UpstreamAnswers, Responded, Unlimited, Lease, Queue, Refuse,
     Return
  <2> QED
    BY <2>1, <2>2 DEF RestOK
<1>4. lastErr' \in [Requests -> Errors]
  <2>1. UNCHANGED lastErr \/ \E e \in Errors : lastErr' = [lastErr EXCEPT ![r] = e]
    BY DEF Serve, AnswerEarly, LimitBefore, LeftQueueBefore, Select, SelectFails, GiveUpOpen,
     WaitForOpen, WakeUp, SleepCancelled, LimitAfter, LeftQueueAfter, Prepare, PrepareFails,
     AttemptFails, ModelNotFound, UpstreamAnswers, Responded, Unlimited, Lease, Queue, Refuse,
     Failed, Errors
  <2> QED
    BY <2>1 DEF RestOK
<1>5. answer' \in [Requests -> Answers]
  <2>1. UNCHANGED answer \/ \E a \in Answers : Return(r, a)
    BY DEF Serve, AnswerEarly, LimitBefore, LeftQueueBefore, Select, SelectFails, GiveUpOpen,
     WaitForOpen, WakeUp, SleepCancelled, LimitAfter, LeftQueueAfter, Prepare, PrepareFails,
     AttemptFails, ModelNotFound, UpstreamAnswers, Responded, Unlimited, Lease, Queue, Refuse,
     Answers
  <2> QED
    BY <2>1, ReturnsAnswer DEF RestOK
<1> QED
  BY <1>1, <1>2, <1>3, <1>4, <1>5 DEF RestOK, world

LEMMA ProxyInitially == Init => ProxyInv
<1> SUFFICES ASSUME Init PROVE ProxyInv
  OBVIOUS
<1>1. \A k \in Keys : Out(k) = {}
  BY DEF Init, Out
<1>2. LeaseInv
  <2>1. load \in [Keys -> Nat] /\ leases \in [Requests -> [Keys -> Nat]]
    BY DEF Init
  <2>2. \A k \in Keys : load[k] = 0
    BY DEF Init
  <2>3. \A k \in Keys : IsFiniteSet(Out(k)) /\ Cardinality(Out(k)) = 0
    BY <1>1, FS_EmptySet
  <2> QED
    BY <2>1, <2>2, <2>3 DEF LeaseInv, LeasesReturned
<1>3. RestOK
  <2>1. 0 \in 0 .. Cardinality(Targets)
    BY FS_CardinalityType
  <2> QED
    BY <2>1 DEF Init, RestOK, Errors, Answers, Health
<1> QED
  BY <1>2, <1>3, LoopInitially DEF ProxyInv

LEMMA ProxyKept == ProxyInv /\ [Next]_vars => ProxyInv'
<1> SUFFICES ASSUME ProxyInv, [Next]_vars PROVE ProxyInv'
  OBVIOUS
<1>1. LoopInv'
  BY LoopKept DEF ProxyInv
<1>2. ASSUME UNCHANGED <<pc, load, leases>> PROVE LeaseInv'
  <2>1. \A k \in Keys : Out(k)' = Out(k)
    BY <1>2 DEF Out
  <2> QED
    BY <1>2, <2>1 DEF ProxyInv, LeaseInv, LeasesReturned
<1>3. CASE UNCHANGED vars
  BY <1>1, <1>2, <1>3 DEF ProxyInv, RestOK, vars, local, shared, held, world
<1>4. ASSUME NEW r \in Requests, Serve(r) PROVE ProxyInv'
  BY <1>1, <1>4, StepKinds, LeasesKept, LeaseTaken, LeasesGiven, RestKept DEF ProxyInv
<1>5. ASSUME NEW r \in Requests, ClientLeaves(r) \/ DeadlinePasses(r) PROVE ProxyInv'
  BY <1>1, <1>2, <1>5
  DEF ProxyInv, RestOK, ClientLeaves, DeadlinePasses, local, shared, held, world
<1>6. ASSUME NEW t \in Targets, TargetChanges(t) PROVE ProxyInv'
  BY <1>1, <1>2, <1>6 DEF ProxyInv, RestOK, TargetChanges, local, shared, held, world
<1> QED
  BY <1>3, <1>4, <1>5, <1>6 DEF Next

(* Every variable of the loop stays in its range, inflight and load never  *)
(* below zero and the wait slots never above their capacity.               *)
THEOREM ProxyTypes == Spec => []TypeOK
<1>1. ProxyInv => TypeOK
  BY DEF ProxyInv, LoopInv, Placed, WorkInv, SlotsInv, LeaseInv, RestOK, TypeOK
<1> QED
  BY <1>1, ProxyInitially, ProxyKept, PTL DEF Spec

(* The leases out under a key are those unanswered requests will give      *)
(* back, and they never pass the limit: whatever a request went through,   *)
(* its deferred releases give back what it took, once.                     *)
THEOREM LeasesAreReturned == Spec => []LeasesReturned
<1>1. ProxyInv => LeasesReturned
  BY DEF ProxyInv, LeaseInv
<1> QED
  BY <1>1, ProxyInitially, ProxyKept, PTL DEF Spec
=============================================================================

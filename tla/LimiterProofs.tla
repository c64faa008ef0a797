----------------------------- MODULE LimiterProofs -----------------------------
(***************************************************************************)
(* The limiter's counters are exact and bounded, its map holds no orphan   *)
(* entry, a release leaves no sleeper, and the limiter implements          *)
(* Admission: for every finite set of requests and every pair of limits.   *)
(***************************************************************************)
EXTENDS Limiter, FiniteSetTheorems, TLAPS

\* Inductive: the decrements of GiveUp and Recheck stay in Nat only because the
\* counters are exact, and an absent entry counts zero only because no request
\* uses its key.
IInv == TypeOK /\ CountersExact /\ EntryWhileUsed

USE LimiterAssumption

LEMMA PartiesFinite ==
  \A k \in Keys : /\ IsFiniteSet(Holders(k)) /\ Cardinality(Holders(k)) \in Nat
                  /\ IsFiniteSet(Waiters(k)) /\ Cardinality(Waiters(k)) \in Nat
<1> TAKE k \in Keys
<1>1. Holders(k) \subseteq Requests /\ Waiters(k) \subseteq Requests
  BY DEF Holders, Waiters
<1>2. IsFiniteSet(Holders(k)) /\ IsFiniteSet(Waiters(k))
  BY <1>1, FS_Subset
<1> QED
  BY <1>2, FS_CardinalityType

LEMMA RawKeysNormalise ==
  \A raw \in Keys \cup {Blank} : normalizeKey(raw) \in Keys
BY DEF normalizeKey

\* What the invariant says of one entry: it counts the parties of its key.
LEMMA EntryFacts ==
  ASSUME IInv, NEW k \in Keys
  PROVE  LET st == stateForKeyLocked(k) IN
         /\ states[k] \in State /\ st \in State /\ st.present
         /\ st.inflight = Cardinality(Holders(k)) /\ st.inflight <= MaxConcurrent
         /\ st.queued = Cardinality(Waiters(k)) /\ st.queued <= MaxQueued
         /\ Holders(k) \cup Waiters(k) # {} => st = states[k] /\ states[k].present
<1>1. CASE states[k].present
  BY <1>1 DEF IInv, TypeOK, CountersExact, stateForKeyLocked
<1>2. CASE ~states[k].present
  <2>1. Holders(k) = {} /\ Waiters(k) = {}
    BY <1>2 DEF IInv, EntryWhileUsed
  <2>2. Cardinality(Holders(k)) = 0 /\ Cardinality(Waiters(k)) = 0
    BY <2>1, FS_EmptySet
  <2>3. stateForKeyLocked(k) = [present |-> TRUE, inflight |-> 0, queued |-> 0]
    BY <1>2 DEF stateForKeyLocked, Absent
  <2> QED
    BY <2>1, <2>2, <2>3 DEF IInv, TypeOK, State
<1> QED
  BY <1>1, <1>2

\* A party that leaves was counted.
LEMMA PartyLeaves ==
  ASSUME NEW S, IsFiniteSet(S), NEW x \in S
  PROVE  /\ Cardinality(S) > 0 /\ Cardinality(S \ {x}) = Cardinality(S) - 1
         /\ Cardinality(S \ {x}) \in Nat
         /\ S \ {x} = {} <=> Cardinality(S \ {x}) = 0
<1>1. Cardinality(S \ {x}) = Cardinality(S) - 1 /\ IsFiniteSet(S \ {x})
  BY FS_RemoveElement
<1>2. Cardinality(S) \in Nat /\ Cardinality(S \ {x}) \in Nat
  BY <1>1, FS_CardinalityType
<1>3. S \ {x} = {} <=> Cardinality(S \ {x}) = 0
  BY <1>1, FS_EmptySet
<1> QED
  BY <1>1, <1>2, <1>3

\* A step that changes the entry of one key preserves the invariant when the
\* new entry counts the new parties of that key and those of the other keys stay.
LEMMA EntryStep ==
  ASSUME IInv, TypeOK', NEW k \in Keys, NEW st \in State,
         states' = [states EXCEPT ![k] = st],
         \A j \in Keys \ {k} : Holders(j)' = Holders(j) /\ Waiters(j)' = Waiters(j),
         st.inflight = Cardinality(Holders(k)'), st.inflight <= MaxConcurrent,
         st.queued = Cardinality(Waiters(k)'), st.queued <= MaxQueued,
         st.present <=> (Holders(k)' \cup Waiters(k)' # {})
  PROVE  IInv'
<1>1. states'[k] = st /\ \A j \in Keys \ {k} : states'[j] = states[j]
  BY DEF IInv, TypeOK
<1>2. CountersExact'
  BY <1>1 DEF IInv, CountersExact
<1>3. EntryWhileUsed'
  BY <1>1 DEF IInv, EntryWhileUsed
<1> QED
  BY <1>2, <1>3 DEF IInv

LEMMA InitInv == Init => IInv
<1> SUFFICES ASSUME Init PROVE IInv
  OBVIOUS
<1>1. TypeOK
  BY DEF Init, TypeOK, State, Absent, PC, Reasons
<1>2. \A k \in Keys : Holders(k) = {} /\ Waiters(k) = {}
  BY DEF Init, Holders, Waiters
<1>3. \A k \in Keys : ~states[k].present /\ states[k].inflight = 0 /\ states[k].queued = 0
  BY DEF Init, Absent
<1>4. CountersExact
  BY <1>2, <1>3, FS_EmptySet DEF CountersExact
<1>5. EntryWhileUsed
  BY <1>2, <1>3 DEF EntryWhileUsed
<1> QED
  BY <1>1, <1>4, <1>5 DEF IInv

LEMMA AcquireNowInv ==
  ASSUME IInv, NEW r \in Requests, NEW raw \in Keys \cup {Blank}, AcquireNow(r, raw)
  PROVE  IInv'
<1> DEFINE k == normalizeKey(raw)
           st == [stateForKeyLocked(k) EXCEPT !.inflight = @ + 1]
<1>k. k \in Keys
  BY RawKeysNormalise
<1>1. /\ pc[r] = "idle" /\ pc' = [pc EXCEPT ![r] = "holding"]
      /\ key' = [key EXCEPT ![r] = k]
      /\ stateForKeyLocked(k).inflight < MaxConcurrent
      /\ states' = [states EXCEPT ![k] = st]
      /\ reason' = reason /\ ctxDone' = ctxDone
  BY DEF AcquireNow, HasRoom
<1>2. /\ Holders(k)' = Holders(k) \cup {r} /\ r \notin Holders(k)
      /\ Waiters(k)' = Waiters(k)
      /\ \A j \in Keys \ {k} : Holders(j)' = Holders(j) /\ Waiters(j)' = Waiters(j)
  BY <1>1, <1>k DEF IInv, TypeOK, Holders, Waiters
<1> HIDE DEF k
<1>3. Cardinality(Holders(k)') = Cardinality(Holders(k)) + 1
  BY <1>2, <1>k, PartiesFinite, FS_AddElement
<1>4. /\ st \in State /\ st.present /\ st.queued = stateForKeyLocked(k).queued
      /\ st.inflight = stateForKeyLocked(k).inflight + 1
  BY <1>k, EntryFacts DEF State
<1>5. TypeOK'
  BY <1>1, <1>4, <1>k DEF IInv, TypeOK, PC
<1>6. /\ st.inflight = Cardinality(Holders(k)') /\ st.inflight <= MaxConcurrent
      /\ st.queued = Cardinality(Waiters(k)') /\ st.queued <= MaxQueued
      /\ st.present <=> (Holders(k)' \cup Waiters(k)' # {})
  BY <1>1, <1>2, <1>3, <1>4, <1>k, EntryFacts DEF State
<1> HIDE DEF st
<1> QED
  BY <1>1, <1>2, <1>4, <1>5, <1>6, <1>k, EntryStep

LEMMA AcquireRefusedInv ==
  ASSUME IInv, NEW r \in Requests, NEW raw \in Keys \cup {Blank}, AcquireRefused(r, raw)
  PROVE  IInv'
<1> DEFINE k == normalizeKey(raw)
           st == stateForKeyLocked(k)
<1>k. k \in Keys
  BY RawKeysNormalise
<1>1. /\ pc[r] = "idle" /\ pc' = [pc EXCEPT ![r] = "done"]
      /\ key' = [key EXCEPT ![r] = k]
      /\ ~(st.inflight < MaxConcurrent)
      /\ states' = [states EXCEPT ![k] = st]
      /\ reason' \in [Requests -> Reasons] /\ ctxDone' = ctxDone
  BY DEF AcquireRefused, HasRoom, IInv, TypeOK, Reasons
<1>2. \A j \in Keys : Holders(j)' = Holders(j) /\ Waiters(j)' = Waiters(j)
  BY <1>1, <1>k DEF IInv, TypeOK, Holders, Waiters
<1> HIDE DEF k
<1>3. TypeOK'
  BY <1>1, <1>k, EntryFacts DEF IInv, TypeOK, PC
<1>4. Holders(k) # {}
  <2>1. Cardinality(Holders(k)) # 0
    BY <1>1, <1>k, EntryFacts DEF State
  <2> QED
    BY <2>1, FS_EmptySet
<1> QED
  BY <1>1, <1>2, <1>3, <1>4, <1>k, EntryFacts, EntryStep

LEMMA AcquireQueuesInv ==
  ASSUME IInv, NEW r \in Requests, NEW raw \in Keys \cup {Blank}, AcquireQueues(r, raw)
  PROVE  IInv'
<1> DEFINE k == normalizeKey(raw)
           st == [stateForKeyLocked(k) EXCEPT !.queued = @ + 1]
<1>k. k \in Keys
  BY RawKeysNormalise
<1>1. /\ pc[r] = "idle" /\ pc' = [pc EXCEPT ![r] = "queued"]
      /\ key' = [key EXCEPT ![r] = k]
      /\ ~(stateForKeyLocked(k).queued >= MaxQueued)
      /\ states' = [states EXCEPT ![k] = st]
      /\ reason' = reason /\ ctxDone' = ctxDone
  BY DEF AcquireQueues, QueueFull
<1>2. /\ Waiters(k)' = Waiters(k) \cup {r} /\ r \notin Waiters(k)
      /\ Holders(k)' = Holders(k)
      /\ \A j \in Keys \ {k} : Holders(j)' = Holders(j) /\ Waiters(j)' = Waiters(j)
  BY <1>1, <1>k DEF IInv, TypeOK, Holders, Waiters
<1> HIDE DEF k
<1>3. Cardinality(Waiters(k)') = Cardinality(Waiters(k)) + 1
  BY <1>2, <1>k, PartiesFinite, FS_AddElement
<1>4. /\ st \in State /\ st.present /\ st.inflight = stateForKeyLocked(k).inflight
      /\ st.queued = stateForKeyLocked(k).queued + 1
  BY <1>k, EntryFacts DEF State
<1>5. TypeOK'
  BY <1>1, <1>4, <1>k DEF IInv, TypeOK, PC
<1>6. /\ st.inflight = Cardinality(Holders(k)') /\ st.inflight <= MaxConcurrent
      /\ st.queued = Cardinality(Waiters(k)') /\ st.queued <= MaxQueued
      /\ st.present <=> (Holders(k)' \cup Waiters(k)' # {})
  BY <1>1, <1>2, <1>3, <1>4, <1>k, EntryFacts DEF State
<1> HIDE DEF st
<1> QED
  BY <1>1, <1>2, <1>4, <1>5, <1>6, <1>k, EntryStep

LEMMA SubscribeInv ==
  ASSUME IInv, NEW r \in Requests, Subscribe(r)
  PROVE  IInv'
<1>k. PICK k \in Keys : k = key[r]
  BY DEF IInv, TypeOK
<1>1. /\ pc[r] = "queued" /\ pc' = [pc EXCEPT ![r] = "waiting"] /\ key' = key
      /\ states' = [states EXCEPT ![k] = stateForKeyLocked(k)]
      /\ reason' = reason /\ ctxDone' = ctxDone
  BY <1>k DEF Subscribe
<1>2. /\ r \in Waiters(k)
      /\ \A j \in Keys : Holders(j)' = Holders(j) /\ Waiters(j)' = Waiters(j)
  BY <1>1, <1>k DEF IInv, TypeOK, Holders, Waiters
<1>3. TypeOK'
  BY <1>1, <1>k, EntryFacts DEF IInv, TypeOK, PC
<1> DEFINE st == stateForKeyLocked(k)
<1>4. /\ st \in State /\ st.present /\ Holders(k)' \cup Waiters(k)' # {}
      /\ st.inflight = Cardinality(Holders(k)') /\ st.inflight <= MaxConcurrent
      /\ st.queued = Cardinality(Waiters(k)') /\ st.queued <= MaxQueued
  BY <1>2, <1>k, EntryFacts
<1> HIDE DEF st
<1>5. states' = [states EXCEPT ![k] = st]
  BY <1>1 DEF st
<1> QED
  BY <1>2, <1>3, <1>4, <1>5, EntryStep

LEMMA RecheckInv ==
  ASSUME IInv, NEW r \in Requests, Recheck(r)
  PROVE  IInv'
<1>0. PICK k \in Keys : k = key[r]
  BY DEF IInv, TypeOK
<1> DEFINE st == stateForKeyLocked(k)
           left == [st EXCEPT !.queued = @ - 1]
           new == [left EXCEPT !.inflight = @ + 1]
<1>k. k = key[r] /\ pc[r] = "woken" /\ key' = key /\ reason' = reason /\ ctxDone' = ctxDone
  BY <1>0 DEF Recheck
<1>w. r \in Waiters(k) /\ r \notin Holders(k)
  BY <1>k DEF Waiters, Holders
<1>1. CASE HasRoom(st)
  <2>1. /\ pc' = [pc EXCEPT ![r] = "holding"] /\ states' = [states EXCEPT ![k] = new]
        /\ st.inflight < MaxConcurrent
    BY <1>1, <1>k DEF Recheck, HasRoom
  <2>2. /\ Holders(k)' = Holders(k) \cup {r} /\ Waiters(k)' = Waiters(k) \ {r}
        /\ \A j \in Keys \ {k} : Holders(j)' = Holders(j) /\ Waiters(j)' = Waiters(j)
    BY <1>k, <2>1 DEF IInv, TypeOK, Holders, Waiters
  <2>3. Cardinality(Holders(k)') = Cardinality(Holders(k)) + 1
    BY <1>k, <1>w, <2>2, PartiesFinite, FS_AddElement
  <2>4. /\ Cardinality(Waiters(k)') = Cardinality(Waiters(k)) - 1
        /\ Cardinality(Waiters(k)) > 0
    BY <1>k, <1>w, <2>2, PartiesFinite, PartyLeaves
  <2>5. /\ new \in State /\ new.present
        /\ new.inflight = st.inflight + 1 /\ new.queued = st.queued - 1
    <3>1. /\ st \in State /\ st.present /\ st.queued > 0
      BY <1>k, <2>4, EntryFacts
    <3> HIDE DEF st
    <3>2. /\ left \in State /\ left.present
          /\ left.inflight = st.inflight /\ left.queued = st.queued - 1
      BY <3>1 DEF State
    <3> HIDE DEF left
    <3> QED
      BY <3>2 DEF State
  <2>6. TypeOK'
    BY <1>k, <2>1, <2>5 DEF IInv, TypeOK, PC
  <2>7. /\ new.inflight = Cardinality(Holders(k)') /\ new.inflight <= MaxConcurrent
        /\ new.queued = Cardinality(Waiters(k)') /\ new.queued <= MaxQueued
        /\ new.present <=> (Holders(k)' \cup Waiters(k)' # {})
    BY <1>k, <2>1, <2>2, <2>3, <2>4, <2>5, EntryFacts DEF State
  <2> HIDE DEF new
  <2> QED
    BY <1>k, <2>1, <2>2, <2>5, <2>6, <2>7, EntryStep
<1>2. CASE ~HasRoom(st)
  <2>1. pc' = [pc EXCEPT ![r] = "queued"] /\ states' = [states EXCEPT ![k] = st]
    BY <1>2, <1>k DEF Recheck
  <2>2. \A j \in Keys : Holders(j)' = Holders(j) /\ Waiters(j)' = Waiters(j)
    BY <1>k, <2>1 DEF IInv, TypeOK, Holders, Waiters
  <2>3. TypeOK'
    BY <1>k, <2>1, EntryFacts DEF IInv, TypeOK, PC
  <2>4. /\ st \in State /\ st.present /\ Holders(k)' \cup Waiters(k)' # {}
        /\ st.inflight = Cardinality(Holders(k)') /\ st.inflight <= MaxConcurrent
        /\ st.queued = Cardinality(Waiters(k)') /\ st.queued <= MaxQueued
    BY <1>w, <2>2, EntryFacts
  <2> HIDE DEF st
  <2> QED
    BY <2>1, <2>2, <2>3, <2>4, EntryStep
<1> QED
  BY <1>1, <1>2

\* cleanupLocked keeps the counts and deletes exactly the entry that counts none.
LEMMA CleanupFacts ==
  ASSUME NEW st \in State, st.present
  PROVE  LET c == cleanupLocked(st) IN
         /\ c \in State /\ c.inflight = st.inflight /\ c.queued = st.queued
         /\ c.present <=> (st.inflight # 0 \/ st.queued # 0)
BY DEF cleanupLocked, Absent, State

LEMMA GiveUpInv ==
  ASSUME IInv, NEW r \in Requests, GiveUp(r)
  PROVE  IInv'
<1>0. PICK k \in Keys : k = key[r]
  BY DEF IInv, TypeOK
<1> DEFINE st == [states[k] EXCEPT !.queued = @ - 1]
<1>1. /\ k = key[r] /\ pc[r] \in {"waiting", "woken"} /\ key' = key /\ ctxDone' = ctxDone
      /\ pc' = [pc EXCEPT ![r] = "done"]
      /\ states' = [states EXCEPT ![k] = cleanupLocked(st)]
      /\ reason' \in [Requests -> Reasons]
  BY <1>0 DEF GiveUp, IInv, TypeOK, Reasons
<1>2. /\ r \in Waiters(k) /\ Waiters(k)' = Waiters(k) \ {r} /\ Holders(k)' = Holders(k)
      /\ \A j \in Keys \ {k} : Holders(j)' = Holders(j) /\ Waiters(j)' = Waiters(j)
  BY <1>1 DEF IInv, TypeOK, Holders, Waiters
<1>3. /\ Cardinality(Waiters(k)') = Cardinality(Waiters(k)) - 1
      /\ Cardinality(Waiters(k)) > 0
  BY <1>1, <1>2, PartiesFinite, PartyLeaves
<1>4. states[k] \in State /\ states[k].present /\ states[k] = stateForKeyLocked(k)
  BY <1>1, <1>2, EntryFacts
<1>5. /\ st \in State /\ st.present
      /\ st.inflight = states[k].inflight /\ st.queued = states[k].queued - 1
  BY <1>1, <1>3, <1>4, EntryFacts DEF State
<1>6. /\ st.inflight = Cardinality(Holders(k)') /\ st.inflight <= MaxConcurrent
      /\ st.queued = Cardinality(Waiters(k)') /\ st.queued <= MaxQueued
  BY <1>1, <1>2, <1>3, <1>4, <1>5, EntryFacts DEF State
<1> HIDE DEF st
<1>7. cleanupLocked(st).present <=> (Holders(k)' \cup Waiters(k)' # {})
  <2>1. Waiters(k)' = {} <=> st.queued = 0
    BY <1>1, <1>2, <1>6, PartiesFinite, PartyLeaves
  <2>2. Holders(k)' = {} <=> st.inflight = 0
    BY <1>1, <1>2, <1>6, PartiesFinite, FS_EmptySet
  <2> QED
    BY <2>1, <2>2, <1>5, CleanupFacts
<1>8. TypeOK'
  BY <1>1, <1>5, CleanupFacts DEF IInv, TypeOK, PC
<1> DEFINE c == cleanupLocked(st)
<1>9. c \in State /\ c.inflight = st.inflight /\ c.queued = st.queued
  BY <1>5, CleanupFacts
<1> HIDE DEF c
<1>10. states' = [states EXCEPT ![k] = c] /\ (c.present <=> (Holders(k)' \cup Waiters(k)' # {}))
  BY <1>1, <1>7 DEF c
<1> QED
  BY <1>2, <1>6, <1>8, <1>9, <1>10, EntryStep

LEMMA ReleaseInv ==
  ASSUME IInv, NEW r \in Requests, Release(r)
  PROVE  IInv'
<1>0. PICK k \in Keys : k = key[r]
  BY DEF IInv, TypeOK
<1> DEFINE st == [states[k] EXCEPT !.inflight = IF @ > 0 THEN @ - 1 ELSE @]
<1>1. k = key[r] /\ pc[r] = "holding" /\ r \in Holders(k)
  BY <1>0 DEF Release, IInv, TypeOK, Holders
<1>2. states[k] \in State /\ states[k].present /\ states[k] = stateForKeyLocked(k)
  BY <1>1, EntryFacts DEF IInv, EntryWhileUsed
<1>3. /\ key' = key /\ ctxDone' = ctxDone /\ reason' = reason
      /\ pc' = [WakeAll(k) EXCEPT ![r] = "done"]
      /\ states' = [states EXCEPT ![k] = cleanupLocked(st)]
  BY <1>1, <1>2 DEF Release
<1>4. /\ Holders(k)' = Holders(k) \ {r} /\ Waiters(k)' = Waiters(k)
      /\ \A j \in Keys \ {k} : Holders(j)' = Holders(j) /\ Waiters(j)' = Waiters(j)
  BY <1>1, <1>3 DEF IInv, TypeOK, Holders, Waiters, WakeAll
<1>5. /\ Cardinality(Holders(k)') = Cardinality(Holders(k)) - 1
      /\ Cardinality(Holders(k)) > 0
  BY <1>1, <1>4, PartiesFinite, PartyLeaves
<1>6. /\ st \in State /\ st.present
      /\ st.inflight = states[k].inflight - 1 /\ st.queued = states[k].queued
  BY <1>1, <1>2, <1>5, EntryFacts DEF State
<1>7. /\ st.inflight = Cardinality(Holders(k)') /\ st.inflight <= MaxConcurrent
      /\ st.queued = Cardinality(Waiters(k)') /\ st.queued <= MaxQueued
  BY <1>1, <1>2, <1>4, <1>5, <1>6, EntryFacts DEF State
<1> HIDE DEF st
<1>8. cleanupLocked(st).present <=> (Holders(k)' \cup Waiters(k)' # {})
  <2>1. Holders(k)' = {} <=> st.inflight = 0
    BY <1>1, <1>4, <1>7, PartiesFinite, PartyLeaves
  <2>2. Waiters(k)' = {} <=> st.queued = 0
    BY <1>1, <1>4, <1>7, PartiesFinite, FS_EmptySet
  <2> QED
    BY <2>1, <2>2, <1>6, CleanupFacts
<1>9. TypeOK'
  BY <1>1, <1>3, <1>6, CleanupFacts DEF IInv, TypeOK, PC, WakeAll
<1> DEFINE c == cleanupLocked(st)
<1>10. c \in State /\ c.inflight = st.inflight /\ c.queued = st.queued
  BY <1>6, CleanupFacts
<1> HIDE DEF c
<1>11. states' = [states EXCEPT ![k] = c] /\ (c.present <=> (Holders(k)' \cup Waiters(k)' # {}))
  BY <1>3, <1>8 DEF c
<1> QED
  BY <1>4, <1>7, <1>9, <1>10, <1>11, EntryStep

LEMMA NextInv == IInv /\ [Next]_vars => IInv'
<1> SUFFICES ASSUME IInv, [Next]_vars PROVE IInv'
  OBVIOUS
<1>1. ASSUME NEW r \in Requests, ContextEnds(r) PROVE IInv'
  BY <1>1 DEF ContextEnds, IInv, TypeOK, CountersExact, EntryWhileUsed, Holders, Waiters
<1>2. CASE UNCHANGED vars
  BY <1>2 DEF vars, IInv, TypeOK, CountersExact, EntryWhileUsed, Holders, Waiters
<1> QED
  BY <1>1, <1>2, AcquireNowInv, AcquireRefusedInv, AcquireQueuesInv, SubscribeInv,
     RecheckInv, GiveUpInv, ReleaseInv DEF Next

\* Every reachable state satisfies the inductive invariant.
THEOREM Invariance == Spec => []IInv
BY InitInv, NextInv, PTL DEF Spec

\* Acquire and release keep the limiter's variables in their types; in
\* particular neither counter ever becomes negative.
THEOREM TypeCorrect == Spec => []TypeOK
<1>1. IInv => TypeOK
  BY DEF IInv
<1> QED
  BY <1>1, Invariance, PTL

\* st.inflight and st.queued count the leases and the waiters that exist and
\* stay within MaxConcurrent and MaxQueued.
THEOREM CountersCorrect == Spec => []CountersExact
<1>1. IInv => CountersExact
  BY DEF IInv
<1> QED
  BY <1>1, Invariance, PTL

\* Limiter.states holds an entry exactly for the keys in use.
THEOREM NoOrphanEntry == Spec => []EntryWhileUsed
<1>1. IInv => EntryWhileUsed
  BY DEF IInv
<1> QED
  BY <1>1, Invariance, PTL

-------------------------------------------------------------------------------
\* A release, the only step that lowers st.inflight, leaves no request asleep on
\* the channel it closes.
THEOREM ReleaseWakes == Spec => ReleaseWakesEverySleeper
<1> DEFINE Wakes == \A k \in Keys :
             states'[k].inflight < states[k].inflight =>
               \A r \in Requests : ~(pc'[r] = "waiting" /\ key[r] = k)
<1>1. ASSUME IInv, IInv', Next PROVE Wakes
  <2>1. \A k \in Keys : /\ states[k].inflight = Cardinality(Holders(k))
                        /\ states'[k].inflight = Cardinality(Holders(k)')
    BY <1>1 DEF IInv, CountersExact
  <2>2. \A k \in Keys : Cardinality(Holders(k)) \in Nat
    BY PartiesFinite
  <2>3. ASSUME NEW r \in Requests, Release(r) PROVE Wakes
    <3>1. PICK k \in Keys : k = key[r]
      BY <1>1 DEF IInv, TypeOK
    <3>2. \A j \in Keys \ {k} : states'[j] = states[j]
      BY <1>1, <2>3, <3>1 DEF Release, IInv, TypeOK
    <3>3. r \in Holders(k) /\ states[k].present
      BY <1>1, <2>3, <3>1 DEF Release, Holders, IInv, EntryWhileUsed
    <3>4. pc' = [WakeAll(k) EXCEPT ![r] = "done"]
      BY <2>3, <3>1, <3>3 DEF Release
    <3>5. \A q \in Requests : ~(pc'[q] = "waiting" /\ key[q] = k)
      BY <3>4 DEF WakeAll
    <3>6. \A j \in Keys \ {k} : ~(states'[j].inflight < states[j].inflight)
      BY <2>1, <2>2, <3>2
    <3> QED
      BY <3>5, <3>6
  <2>4. ASSUME NEW k \in Keys, Holders(k) \subseteq Holders(k)'
        PROVE  ~(states'[k].inflight < states[k].inflight)
    <3>1. /\ IsFiniteSet(Holders(k)) /\ IsFiniteSet(Holders(k)')
          /\ Cardinality(Holders(k)) \in Nat /\ Cardinality(Holders(k)') \in Nat
      BY FS_Subset, FS_CardinalityType DEF Holders
    <3>2. Cardinality(Holders(k)) <= Cardinality(Holders(k)')
      BY <2>4, <3>1, FS_Subset
    <3> QED
      BY <2>1, <3>1, <3>2
  <2>5. ASSUME NEW r \in Requests, NEW raw \in Keys \cup {Blank},
               \/ AcquireNow(r, raw) \/ AcquireRefused(r, raw) \/ AcquireQueues(r, raw)
        PROVE  \A k \in Keys : Holders(k) \subseteq Holders(k)'
    BY <1>1, <2>5
    DEF AcquireNow, AcquireRefused, AcquireQueues, IInv, TypeOK, Holders
  <2>6. ASSUME NEW r \in Requests,
               Subscribe(r) \/ Recheck(r) \/ GiveUp(r) \/ ContextEnds(r)
        PROVE  \A k \in Keys : Holders(k) \subseteq Holders(k)'
    BY <1>1, <2>6 DEF Subscribe, Recheck, GiveUp, ContextEnds, IInv, TypeOK, Holders
  <2> QED
    BY <1>1, <2>3, <2>4, <2>5, <2>6 DEF Next
<1>2. IInv /\ IInv' /\ [Next]_vars => [Wakes]_vars
  BY <1>1
<1> QED
  BY <1>2, Invariance, PTL DEF Spec, ReleaseWakesEverySleeper

-------------------------------------------------------------------------------
\* The refinement: how the abstract variables change with the parties of a key.
LEMMA IdleIsNewcomer ==
  ASSUME NEW r \in Requests, pc[r] = "idle"
  PROVE  A!Newcomer(r)
BY DEF A!Newcomer, Holders, Waiters

\* The instance has its own copy of Cardinality.
LEMMA SameCardinality == \A S : A!Cardinality(S) = Cardinality(S)
BY DEF A!Cardinality, Cardinality, A!IsFiniteSet, IsFiniteSet

LEMMA FullFacts ==
  \A k \in Keys : A!Full(k) <=> Cardinality(Holders(k)) >= MaxConcurrent
BY SameCardinality DEF A!Full

LEMMA AdmitStep ==
  ASSUME IInv, NEW r \in Requests, NEW k \in Keys,
         pc[r] = "idle" \/ r \in Waiters(k),
         ~(Cardinality(Holders(k)) >= MaxConcurrent),
         Holders(k)' = Holders(k) \cup {r}, Waiters(k)' = Waiters(k) \ {r},
         \A j \in Keys \ {k} : Holders(j)' = Holders(j) /\ Waiters(j)' = Waiters(j),
         {q \in Requests : pc[q] = "done"}' = {q \in Requests : pc[q] = "done"}
  PROVE  A!Admit(r, k)
<1>1. A!Newcomer(r) \/ r \in Waiters(k)
  BY IdleIsNewcomer
<1>2. ~A!Full(k)
  BY FullFacts
<1> QED
  BY <1>1, <1>2 DEF A!Admit

LEMMA StepImplements ==
  IInv /\ [Next]_vars => [A!Next]_A!avars
<1> SUFFICES ASSUME IInv, [Next]_vars PROVE [A!Next]_A!avars
  OBVIOUS
<1>1. ASSUME NEW r \in Requests, NEW raw \in Keys \cup {Blank}, AcquireNow(r, raw)
      PROVE  A!Next
  <2>1. PICK k \in Keys : k = normalizeKey(raw)
    BY RawKeysNormalise
  <2>2. /\ pc[r] = "idle" /\ pc' = [pc EXCEPT ![r] = "holding"]
        /\ key' = [key EXCEPT ![r] = k]
        /\ stateForKeyLocked(k).inflight < MaxConcurrent
    BY <1>1, <2>1 DEF AcquireNow, HasRoom
  <2>3. /\ Holders(k)' = Holders(k) \cup {r} /\ Waiters(k)' = Waiters(k) \ {r}
        /\ \A j \in Keys \ {k} : Holders(j)' = Holders(j) /\ Waiters(j)' = Waiters(j)
        /\ {q \in Requests : pc[q] = "done"}' = {q \in Requests : pc[q] = "done"}
    BY <2>2 DEF IInv, TypeOK, Holders, Waiters
  <2>4. ~(Cardinality(Holders(k)) >= MaxConcurrent)
    BY <2>2, EntryFacts, PartiesFinite
  <2>5. A!Admit(r, k)
    BY <2>2, <2>3, <2>4, AdmitStep
  <2> QED
    BY <2>5 DEF A!Next
<1>2. ASSUME NEW r \in Requests, NEW raw \in Keys \cup {Blank}, AcquireRefused(r, raw)
      PROVE  A!Next
  <2>1. PICK k \in Keys : k = normalizeKey(raw)
    BY RawKeysNormalise
  <2>2. /\ pc[r] = "idle" /\ pc' = [pc EXCEPT ![r] = "done"]
        /\ key' = [key EXCEPT ![r] = k]
        /\ ~(stateForKeyLocked(k).inflight < MaxConcurrent)
        /\ stateForKeyLocked(k).queued >= MaxQueued
    BY <1>2, <2>1 DEF AcquireRefused, HasRoom, QueueFull
  <2>3. /\ \A j \in Keys : Holders(j)' = Holders(j) /\ Waiters(j)' = Waiters(j)
        /\ {q \in Requests : pc[q] = "done"}' = {q \in Requests : pc[q] = "done"} \cup {r}
    BY <2>2 DEF IInv, TypeOK, Holders, Waiters
  <2>4. Cardinality(Holders(k)) >= MaxConcurrent /\ Cardinality(Waiters(k)) >= MaxQueued
    BY <2>2, EntryFacts, PartiesFinite
  <2>5. A!Refuse(r, k)
    <3>1. A!Newcomer(r) /\ A!Full(k)
      BY <2>2, <2>4, IdleIsNewcomer, FullFacts
    <3> QED
      BY <3>1, <2>3, <2>4, SameCardinality DEF A!Refuse
  <2> QED
    BY <2>5 DEF A!Next
<1>3. ASSUME NEW r \in Requests, NEW raw \in Keys \cup {Blank}, AcquireQueues(r, raw)
      PROVE  A!Next
  <2>1. PICK k \in Keys : k = normalizeKey(raw)
    BY RawKeysNormalise
  <2>2. /\ pc[r] = "idle" /\ pc' = [pc EXCEPT ![r] = "queued"]
        /\ key' = [key EXCEPT ![r] = k]
        /\ ~(stateForKeyLocked(k).inflight < MaxConcurrent)
        /\ ~(stateForKeyLocked(k).queued >= MaxQueued)
    BY <1>3, <2>1 DEF AcquireQueues, HasRoom, QueueFull
  <2>3. /\ Waiters(k)' = Waiters(k) \cup {r} /\ Holders(k)' = Holders(k)
        /\ \A j \in Keys \ {k} : Holders(j)' = Holders(j) /\ Waiters(j)' = Waiters(j)
        /\ {q \in Requests : pc[q] = "done"}' = {q \in Requests : pc[q] = "done"}
    BY <2>2 DEF IInv, TypeOK, Holders, Waiters
  <2>4. Cardinality(Holders(k)) >= MaxConcurrent /\ Cardinality(Waiters(k)) < MaxQueued
    BY <2>2, EntryFacts, PartiesFinite
  <2>5. A!Enqueue(r, k)
    <3>1. A!Newcomer(r) /\ A!Full(k)
      BY <2>2, <2>4, IdleIsNewcomer, FullFacts
    <3> QED
      BY <3>1, <2>3, <2>4, SameCardinality DEF A!Enqueue
  <2> QED
    BY <2>5 DEF A!Next
<1>4. ASSUME NEW r \in Requests, Recheck(r), HasRoom(stateForKeyLocked(key[r]))
      PROVE  A!Next
  <2>1. PICK k \in Keys : k = key[r]
    BY DEF IInv, TypeOK
  <2>2. /\ pc[r] = "woken" /\ pc' = [pc EXCEPT ![r] = "holding"] /\ key' = key
        /\ stateForKeyLocked(k).inflight < MaxConcurrent
    BY <1>4, <2>1 DEF Recheck, HasRoom
  <2>3. /\ Holders(k)' = Holders(k) \cup {r} /\ Waiters(k)' = Waiters(k) \ {r}
        /\ r \in Waiters(k)
        /\ \A j \in Keys \ {k} : Holders(j)' = Holders(j) /\ Waiters(j)' = Waiters(j)
        /\ {q \in Requests : pc[q] = "done"}' = {q \in Requests : pc[q] = "done"}
    BY <2>1, <2>2 DEF IInv, TypeOK, Holders, Waiters
  <2>4. ~(Cardinality(Holders(k)) >= MaxConcurrent)
    BY <2>2, EntryFacts, PartiesFinite
  <2>5. A!Admit(r, k)
    BY <2>3, <2>4, AdmitStep
  <2> QED
    BY <2>5 DEF A!Next
<1>5. ASSUME NEW r \in Requests, GiveUp(r)
      PROVE  A!Next
  <2>1. PICK k \in Keys : k = key[r]
    BY DEF IInv, TypeOK
  <2>2. pc[r] \in {"waiting", "woken"} /\ pc' = [pc EXCEPT ![r] = "done"] /\ key' = key
    BY <1>5 DEF GiveUp
  <2>3. /\ r \in Waiters(k) /\ Waiters(k)' = Waiters(k) \ {r} /\ Holders(k)' = Holders(k)
        /\ \A j \in Keys \ {k} : Holders(j)' = Holders(j) /\ Waiters(j)' = Waiters(j)
        /\ {q \in Requests : pc[q] = "done"}' = {q \in Requests : pc[q] = "done"} \cup {r}
    BY <2>1, <2>2 DEF IInv, TypeOK, Holders, Waiters
  <2>4. A!GiveUp(r, k)
    BY <2>3 DEF A!GiveUp
  <2> QED
    BY <2>4 DEF A!Next
<1>6. ASSUME NEW r \in Requests, Release(r)
      PROVE  A!Next
  <2>1. PICK k \in Keys : k = key[r]
    BY DEF IInv, TypeOK
  <2>2. /\ r \in Holders(k) /\ key' = key /\ pc[r] = "holding"
        /\ pc' = [WakeAll(k) EXCEPT ![r] = "done"]
    BY <1>6, <2>1 DEF Release, Holders, IInv, EntryWhileUsed
  <2>3. /\ Holders(k)' = Holders(k) \ {r} /\ Waiters(k)' = Waiters(k)
        /\ \A j \in Keys \ {k} : Holders(j)' = Holders(j) /\ Waiters(j)' = Waiters(j)
        /\ {q \in Requests : pc[q] = "done"}' = {q \in Requests : pc[q] = "done"} \cup {r}
    BY <2>1, <2>2 DEF IInv, TypeOK, Holders, Waiters, WakeAll
  <2>4. A!Leave(r, k)
    BY <2>2, <2>3 DEF A!Leave
  <2> QED
    BY <2>4 DEF A!Next
<1>7. ASSUME /\ \A k \in Keys : Holders(k)' = Holders(k) /\ Waiters(k)' = Waiters(k)
             /\ {q \in Requests : pc[q] = "done"}' = {q \in Requests : pc[q] = "done"}
      PROVE  UNCHANGED A!avars
  BY <1>7 DEF A!avars
<1>8. ASSUME NEW r \in Requests,
             \/ Subscribe(r) \/ ContextEnds(r)
             \/ Recheck(r) /\ ~HasRoom(stateForKeyLocked(key[r]))
      PROVE  UNCHANGED A!avars
  BY <1>7, <1>8 DEF Subscribe, ContextEnds, Recheck, IInv, TypeOK, Holders, Waiters
<1>9. CASE UNCHANGED vars
  BY <1>7, <1>9 DEF vars, Holders, Waiters
<1> QED
  BY <1>1, <1>2, <1>3, <1>4, <1>5, <1>6, <1>8, <1>9 DEF Next

LEMMA InitImplements == Init => A!Init
BY DEF Init, A!Init, Holders, Waiters

\* limiter.go implements the bounded room with a bounded queue.
THEOREM LimiterImplementsAdmission == Spec => ImplementsAdmission
BY InitImplements, StepImplements, Invariance, PTL DEF Spec, ImplementsAdmission, A!Spec
================================================================================

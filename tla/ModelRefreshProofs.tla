-------------------------- MODULE ModelRefreshProofs --------------------------
(***************************************************************************)
(* The catalog and the running targets, for every number of targets,       *)
(* proxies and reloads.                                                    *)
(***************************************************************************)
EXTENDS ModelRefresh, TLAPS

(* Types, and what a refresh keeps: it counts from 1 when it is not in a   *)
(* loop, and it never holds targets of a generation yet to come.           *)
RefreshTypeOK ==
  /\ models \in [Generations -> [Targets -> Lists \cup {Torn}]]
  /\ filler \in [Generations -> [Targets -> Callers \cup {Nobody}]]
  /\ catalog \in [Targets -> Lists \cup {Torn}]
  /\ running \in Generations
  /\ refreshing \in BOOLEAN /\ up \in BOOLEAN
  /\ mu \in Callers \cup {Nobody}
  /\ missed \subseteq Targets
  /\ pc \in [Callers -> PCs]
  /\ gen \in [Callers -> Generations]
  /\ next \in [Callers -> Targets]
  /\ \A c \in Callers : gen[c] <= running
  /\ \A c \in Callers : pc[c] \notin {"refresh", "fill", "rebuild"} => next[c] = 1

(* Who is about to read t again can be had among those that refresh the    *)
(* running targets: a refresh of old targets may fail, and no target is    *)
(* then counted as missed.                                                 *)
SomeoneWillRead(t) == \E c \in Callers : gen[c] = running /\ WillRead(c, t)
Covered ==
  \A t \in Targets : catalog[t] # models[running][t] => t \in missed \/ SomeoneWillRead(t)

RefreshInv == RefreshTypeOK /\ Covered

(* The part of the state that a caller's own progress changes. *)
Loops == {"refresh", "fill", "rebuild"}

-----------------------------------------------------------------------------
LEMMA TargetsAreNumbers == Targets \subseteq Nat \ {0} /\ 1 \in Targets
BY RefreshAssumption DEF RefreshAssumption, Targets

LEMMA RefreshInitially == Init => RefreshInv
<1> SUFFICES ASSUME Init PROVE RefreshInv
  OBVIOUS
<1>1. PICK first \in [Targets -> Lists] :
        models = [g \in Generations |-> first] /\ catalog = first
  BY DEF Init
<1>2. 0 \in Generations
  BY RefreshAssumption DEF RefreshAssumption, Generations
<1>3. RefreshTypeOK
  <2>1. models \in [Generations -> [Targets -> Lists \cup {Torn}]]
        /\ catalog \in [Targets -> Lists \cup {Torn}]
    BY <1>1
  <2>2. filler \in [Generations -> [Targets -> Callers \cup {Nobody}]]
    BY DEF Init
  <2>3. /\ running \in Generations /\ refreshing \in BOOLEAN /\ up \in BOOLEAN
        /\ mu \in Callers \cup {Nobody} /\ missed \subseteq Targets
    BY <1>2 DEF Init
  <2>4. /\ pc \in [Callers -> PCs] /\ gen \in [Callers -> Generations]
        /\ next \in [Callers -> Targets]
        /\ \A c \in Callers : gen[c] <= running
        /\ \A c \in Callers : next[c] = 1
    BY <1>2, TargetsAreNumbers DEF Init, PCs
  <2> QED
    BY <2>1, <2>2, <2>3, <2>4 DEF RefreshTypeOK
<1>4. Covered
  BY <1>1, <1>2 DEF Init, Covered
<1> QED
  BY <1>3, <1>4 DEF RefreshInv

(* A step outside the loops, of a caller that no target waits for. *)
LEMMA AsideStep ==
  ASSUME RefreshInv, NEW c \in Callers, NEW step \in PCs,
         pc[c] \in {"idle", "wait", "land"}, step \notin Loops, To(c, step),
         refreshing' \in BOOLEAN,
         gen' = gen \/ gen' = [gen EXCEPT ![c] = 0],
         UNCHANGED <<next, models, filler, running, up, catalog, mu, missed>>
  PROVE  RefreshInv'
<1>1. pc' = [pc EXCEPT ![c] = step]
  BY DEF To
<1>2. 0 \in Generations /\ running >= 0
  BY RefreshAssumption DEF RefreshAssumption, Generations, RefreshInv, RefreshTypeOK
<1>3. RefreshTypeOK'
  BY <1>1, <1>2 DEF RefreshInv, RefreshTypeOK, Loops
<1>4. \A d \in Callers, t \in Targets :
        gen[d] = running /\ WillRead(d, t) => (gen[d] = running /\ WillRead(d, t))'
  BY <1>1 DEF RefreshInv, RefreshTypeOK, WillRead
<1>5. Covered'
  BY <1>4 DEF RefreshInv, Covered, SomeoneWillRead
<1> QED
  BY <1>3, <1>5 DEF RefreshInv

LEMMA CopyStep ==
  ASSUME RefreshInv, NEW c \in Callers, Copy(c)
  PROVE  RefreshInv'
<1>1. /\ pc[c] = "copy" /\ pc' = [pc EXCEPT ![c] = "refresh"]
      /\ gen' = [gen EXCEPT ![c] = running]
      /\ UNCHANGED <<refreshing, next, models, filler, running, up, catalog, mu, missed>>
  BY DEF Copy, To, targetsUnchanged, catalogUnchanged
<1>2. RefreshTypeOK'
  BY <1>1 DEF RefreshInv, RefreshTypeOK, PCs, Generations
<1>3. \A d \in Callers, t \in Targets :
        gen[d] = running /\ WillRead(d, t) => (gen[d] = running /\ WillRead(d, t))'
  BY <1>1 DEF RefreshInv, RefreshTypeOK, WillRead
<1>4. Covered'
  BY <1>1, <1>3 DEF RefreshInv, Covered, SomeoneWillRead
<1> QED
  BY <1>2, <1>4 DEF RefreshInv

(* A target that c is filling is one c will read, if it still runs. *)
LEMMA BeginFillStep ==
  ASSUME RefreshInv, NEW c \in Callers, BeginFill(c)
  PROVE  RefreshInv'
<1>1. /\ pc[c] = "refresh" /\ pc' = [pc EXCEPT ![c] = "fill"]
      /\ models' = [models EXCEPT ![gen[c]][next[c]] = Torn]
      /\ filler' = [filler EXCEPT ![gen[c]][next[c]] = c]
      /\ UNCHANGED <<running, refreshing, gen, next, up, catalog, mu, missed>>
  BY DEF BeginFill, To, catalogUnchanged
<1>2. RefreshTypeOK'
  BY <1>1 DEF RefreshInv, RefreshTypeOK, PCs
<1>3. \A d \in Callers, t \in Targets :
        gen[d] = running /\ WillRead(d, t) => (gen[d] = running /\ WillRead(d, t))'
  <2> TAKE d \in Callers, t \in Targets
  <2>1. CASE d = c
    <3>1. t \in Nat /\ next[c] \in Nat
      BY TargetsAreNumbers DEF RefreshInv, RefreshTypeOK
    <3>2. pc'[c] = "fill" /\ next'[c] = next[c] /\ gen'[c] = gen[c] /\ running' = running
      BY <1>1 DEF RefreshInv, RefreshTypeOK
    <3>3. WillRead(c, t) => t < next[c]
      BY <1>1 DEF WillRead
    <3> QED
      BY <2>1, <3>1, <3>2, <3>3 DEF WillRead
  <2>2. CASE d # c
    BY <1>1, <2>2 DEF RefreshInv, RefreshTypeOK, WillRead
  <2> QED
    BY <2>1, <2>2
<1>4. \A t \in Targets : models'[running][t] # models[running][t]
        => (gen[c] = running /\ WillRead(c, t))'
  BY <1>1, TargetsAreNumbers DEF RefreshInv, RefreshTypeOK, WillRead
<1>5. Covered'
  BY <1>1, <1>3, <1>4 DEF RefreshInv, Covered, SomeoneWillRead
<1> QED
  BY <1>2, <1>5 DEF RefreshInv

LEMMA EndFillStep ==
  ASSUME RefreshInv, NEW c \in Callers, EndFill(c)
  PROVE  RefreshInv'
<1>1. PICK list \in Lists : models' = [models EXCEPT ![gen[c]][next[c]] = list]
  BY DEF EndFill
<1>2. /\ pc[c] = "fill"
      /\ pc' = [pc EXCEPT ![c] = IF next[c] = NumTargets THEN "persist" ELSE "refresh"]
      /\ filler' = [filler EXCEPT ![gen[c]][next[c]] = Nobody]
      /\ next' = [next EXCEPT ![c] = IF @ = NumTargets THEN 1 ELSE @ + 1]
      /\ UNCHANGED <<running, refreshing, gen, up, catalog, mu, missed>>
  BY DEF EndFill, To, Advance, catalogUnchanged
<1>3. next' \in [Callers -> Targets]
  BY <1>2, RefreshAssumption DEF RefreshInv, RefreshTypeOK, RefreshAssumption, Targets
<1>4. RefreshTypeOK'
  BY <1>1, <1>2, <1>3 DEF RefreshInv, RefreshTypeOK, PCs
<1>5. \A t \in Targets : t <= next[c] => WillRead(c, t)'
  BY <1>2, RefreshAssumption DEF RefreshInv, RefreshTypeOK, WillRead, Targets, RefreshAssumption
<1>6. \A d \in Callers, t \in Targets :
        gen[d] = running /\ WillRead(d, t) => (gen[d] = running /\ WillRead(d, t))'
  BY <1>2, <1>5 DEF RefreshInv, RefreshTypeOK, WillRead
<1>7. \A t \in Targets : models'[running][t] # models[running][t]
        => (gen[c] = running /\ WillRead(c, t))'
  BY <1>1, <1>2, <1>5, TargetsAreNumbers DEF RefreshInv, RefreshTypeOK
<1>8. Covered'
  BY <1>2, <1>6, <1>7 DEF RefreshInv, Covered, SomeoneWillRead
<1> QED
  BY <1>4, <1>8 DEF RefreshInv

(* A refresh that gives up leaves its targets to the missed, if they run. *)
LEMMA PersistStep ==
  ASSUME RefreshInv, NEW c \in Callers, Persist(c)
  PROVE  RefreshInv'
<1>1. /\ pc[c] = "persist"
      /\ UNCHANGED <<refreshing, gen, next, catalog, mu, models, filler, running, up>>
  BY DEF Persist, targetsUnchanged
<1>2. CASE pc' = [pc EXCEPT ![c] = "lock"] /\ missed' = missed
  <2>1. RefreshTypeOK'
    BY <1>1, <1>2 DEF RefreshInv, RefreshTypeOK, PCs
  <2>2. \A d \in Callers, t \in Targets :
          gen[d] = running /\ WillRead(d, t) => (gen[d] = running /\ WillRead(d, t))'
    BY <1>1, <1>2 DEF RefreshInv, RefreshTypeOK, WillRead
  <2>3. Covered'
    BY <1>1, <1>2, <2>2 DEF RefreshInv, Covered, SomeoneWillRead
  <2> QED
    BY <2>1, <2>3 DEF RefreshInv
<1>3. CASE pc' = [pc EXCEPT ![c] = "land"] /\ missed' = missed \cup Missed(c)
  <2>1. RefreshTypeOK'
    BY <1>1, <1>3 DEF RefreshInv, RefreshTypeOK, PCs, Missed
  <2>2. \A d \in Callers \ {c}, t \in Targets :
          gen[d] = running /\ WillRead(d, t) => (gen[d] = running /\ WillRead(d, t))'
    BY <1>1, <1>3 DEF RefreshInv, RefreshTypeOK, WillRead
  <2>3. gen[c] = running => missed' = Targets
    BY <1>3 DEF RefreshInv, RefreshTypeOK, Missed
  <2>4. missed \subseteq missed'
    BY <1>3
  <2>5. Covered'
    BY <1>1, <2>2, <2>3, <2>4 DEF RefreshInv, Covered, SomeoneWillRead
  <2> QED
    BY <2>1, <2>5 DEF RefreshInv
<1> QED
  BY <1>2, <1>3 DEF Persist, To, AfterError

LEMMA LockStep ==
  ASSUME RefreshInv, NEW c \in Callers, LockRouter(c)
  PROVE  RefreshInv'
<1>1. /\ pc[c] = "lock" /\ pc' = [pc EXCEPT ![c] = "rebuild"]
      /\ mu' = c
      /\ UNCHANGED <<refreshing, gen, next, catalog, missed, models, filler, running, up>>
  BY DEF LockRouter, To, targetsUnchanged
<1>2. next[c] = 1
  BY <1>1 DEF RefreshInv, RefreshTypeOK
<1>3. RefreshTypeOK'
  BY <1>1 DEF RefreshInv, RefreshTypeOK, PCs
<1>4. \A d \in Callers, t \in Targets :
        gen[d] = running /\ WillRead(d, t) => (gen[d] = running /\ WillRead(d, t))'
  BY <1>1, <1>2, TargetsAreNumbers DEF RefreshInv, RefreshTypeOK, WillRead
<1>5. Covered'
  BY <1>1, <1>4 DEF RefreshInv, Covered, SomeoneWillRead
<1> QED
  BY <1>3, <1>5 DEF RefreshInv

(* What a rebuild reads of a target is what the catalog then has of it. *)
LEMMA ReadStep ==
  ASSUME RefreshInv, NEW c \in Callers, ReadTarget(c)
  PROVE  RefreshInv'
<1> DEFINE n == next[c]
<1>1. /\ pc[c] = "rebuild"
      /\ pc' = [pc EXCEPT ![c] = IF n = NumTargets THEN "land" ELSE "rebuild"]
      /\ catalog' = [catalog EXCEPT ![n] = models[running][n]]
      /\ missed' = missed \ {n}
      /\ mu' = IF n = NumTargets THEN Nobody ELSE mu
      /\ next' = [next EXCEPT ![c] = IF @ = NumTargets THEN 1 ELSE @ + 1]
      /\ UNCHANGED <<refreshing, gen, models, filler, running, up>>
  BY DEF ReadTarget, To, Source, Advance, targetsUnchanged
<1>2. next' \in [Callers -> Targets]
  BY <1>1, RefreshAssumption DEF RefreshInv, RefreshTypeOK, RefreshAssumption, Targets
<1>3. RefreshTypeOK'
  BY <1>1, <1>2 DEF RefreshInv, RefreshTypeOK, PCs
<1>4. \A d \in Callers, t \in Targets \ {n} :
        gen[d] = running /\ WillRead(d, t) => (gen[d] = running /\ WillRead(d, t))'
  <2> TAKE d \in Callers, t \in Targets \ {n}
  <2>1. CASE d = c
    BY <1>1, <2>1, RefreshAssumption
    DEF RefreshInv, RefreshTypeOK, WillRead, Targets, RefreshAssumption
  <2>2. CASE d # c
    BY <1>1, <2>2 DEF RefreshInv, RefreshTypeOK, WillRead
  <2> QED
    BY <2>1, <2>2
<1>5. catalog'[n] = models'[running'][n]
  BY <1>1 DEF RefreshInv, RefreshTypeOK
<1>6. \A t \in Targets \ {n} : catalog'[t] = catalog[t] /\ (t \in missed => t \in missed')
  BY <1>1 DEF RefreshInv, RefreshTypeOK
<1>7. Covered'
  BY <1>1, <1>4, <1>5, <1>6 DEF RefreshInv, Covered, SomeoneWillRead
<1> QED
  BY <1>3, <1>7 DEF RefreshInv

LEMMA DeathStep ==
  ASSUME RefreshInv, NEW c \in Callers, ReadDies(c)
  PROVE  RefreshInv'
BY DEF ReadDies, RefreshInv, RefreshTypeOK, Covered, SomeoneWillRead, WillRead

(* No refresh has copied the new targets, and the catalog is theirs. *)
LEMMA ReloadStep ==
  ASSUME RefreshInv, Reload
  PROVE  RefreshInv'
<1>1. PICK lists \in [Targets -> Lists] :
        models' = [models EXCEPT ![running + 1] = lists] /\ catalog' = lists
  BY DEF Reload
<1>2. /\ running < MaxReloads /\ running' = running + 1
      /\ missed' = {}
      /\ UNCHANGED <<filler, refreshing, mu, pc, gen, next, up>>
  BY DEF Reload
<1>3. running + 1 \in Generations
  BY <1>2, RefreshAssumption DEF RefreshInv, RefreshTypeOK, Generations, RefreshAssumption
<1>4. \A c \in Callers : gen[c] <= running + 1
  BY DEF RefreshInv, RefreshTypeOK, Generations
<1>5. RefreshTypeOK'
  BY <1>1, <1>2, <1>3, <1>4 DEF RefreshInv, RefreshTypeOK
<1>6. Covered'
  BY <1>1, <1>2, <1>3 DEF RefreshInv, RefreshTypeOK, Covered
<1> QED
  BY <1>5, <1>6 DEF RefreshInv

-----------------------------------------------------------------------------
LEMMA RefreshKept == RefreshInv /\ [Next]_vars => RefreshInv'
<1> SUFFICES ASSUME RefreshInv, [Next]_vars PROVE RefreshInv'
  OBVIOUS
<1>1. CASE UNCHANGED vars
  BY <1>1 DEF vars, RefreshInv, RefreshTypeOK, Covered, SomeoneWillRead, WillRead
<1>2. ASSUME NEW p \in Proxies, RefreshNow(p) PROVE RefreshInv'
  <2>1. PICK step \in {"wait", "copy"} : To(p, step)
    BY <1>2 DEF RefreshNow
  <2> QED
    BY <1>2, <2>1, AsideStep
    DEF RefreshNow, Callers, PCs, Loops, targetsUnchanged, catalogUnchanged
<1>3. ASSUME NEW p \in Proxies, Wake(p) PROVE RefreshInv'
  BY <1>3, AsideStep
  DEF Wake, Callers, PCs, Loops, targetsUnchanged, catalogUnchanged, RefreshInv, RefreshTypeOK
<1>4. CASE Tick
  BY <1>4, AsideStep
  DEF Tick, Callers, PCs, Loops, targetsUnchanged, catalogUnchanged, RefreshInv, RefreshTypeOK
<1>5. ASSUME NEW c \in Callers, Land(c) PROVE RefreshInv'
  <2>1. refreshing' \in BOOLEAN
    BY <1>5 DEF Land
  <2> QED
    BY <1>5, <2>1, AsideStep
    DEF Land, PCs, Loops, targetsUnchanged, catalogUnchanged
<1>6. ASSUME NEW c \in Callers, Refresh(c) PROVE RefreshInv'
  BY <1>5, <1>6, CopyStep, BeginFillStep, EndFillStep, PersistStep, LockStep, ReadStep, DeathStep
  DEF Refresh
<1> QED
  BY <1>1, <1>2, <1>3, <1>4, <1>6, ReloadStep DEF Next

(* The catalog and the running targets disagree about a target only while  *)
(* somebody is about to read it again, or after a refresh whose write      *)
(* failed.                                                                 *)
THEOREM CatalogKept == Spec => []CatalogAgrees
<1>1. RefreshInv => CatalogAgrees
  BY DEF RefreshInv, Covered, SomeoneWillRead, CatalogAgrees
<1> QED
  BY <1>1, RefreshInitially, RefreshKept, PTL DEF Spec
=============================================================================

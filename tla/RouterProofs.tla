------------------------------ MODULE RouterProofs ------------------------------
(***************************************************************************)
(* A target's load is exact, a retry keeps away from what it tried, and a  *)
(* model's failures never open a target: for all requests, targets,        *)
(* models, sessions, catalogs and failure thresholds.                      *)
(***************************************************************************)
EXTENDS Router, FiniteSetTheorems, TLAPS

-------------------------------------------------------------------------------
(***************************************************************************)
(* Breakers.  What an outcome, a refresh and the passing of a window leave *)
(* of one, for every failure threshold: a health record again, a failure   *)
(* count below the threshold, and a clean record where nothing blames the  *)
(* target itself.                                                          *)
(***************************************************************************)
USE ThresholdAssumption

Below(h) == h.failures < FailureThreshold

\* Nothing on record against the target itself.
CleanRecord(h) ==
  h.error = "zero" /\ h.timeout = "zero" /\ h.failures = 0 /\ h.state # "open"

\* The failures that are the target's own, not one model's.
Blames(named, o) == o.kind = "transport" \/ (o.kind = "status" /\ ~named)

LEMMA BandsStep ==
  \A band \in Bands : Decay(band) \subseteq Bands /\ Raise(band) \subseteq Bands
BY DEF Bands, Decay, Raise

\* The helpers that rewrite one or two fields of a record.
LEMMA EnterHealth ==
  ASSUME NEW h \in TargetHealths, NEW s \in HealthStates
  PROVE  /\ Enter(h, s) \in TargetHealths
         /\ Enter(h, s).state = s /\ Enter(h, s).failures = h.failures
         /\ Enter(h, s).error = h.error /\ Enter(h, s).timeout = h.timeout
BY DEF TargetHealths, Enter

LEMMA ForgivenHealth ==
  ASSUME NEW h \in TargetHealths
  PROVE  /\ Forgiven(h) \in TargetHealths
         /\ Forgiven(h).state = h.state /\ Forgiven(h).failures = 0
         /\ Forgiven(h).error = h.error /\ Forgiven(h).timeout = h.timeout
BY DEF TargetHealths, Forgiven

LEMMA TalliedHealth ==
  ASSUME NEW h \in TargetHealths
  PROVE  Tallied(h) \in TargetHealths
BY DEF TargetHealths, Tallied

LEMMA ErrorHealth ==
  ASSUME NEW h \in TargetHealths, NEW e \in Bands
  PROVE  [h EXCEPT !.error = e] \in TargetHealths
BY DEF TargetHealths

LEMMA RatedHealth ==
  ASSUME NEW h \in TargetHealths, NEW e \in Bands, NEW u \in Bands
  PROVE  /\ Rated(h, e, u) \in TargetHealths
         /\ Rated(h, e, u).state = h.state /\ Rated(h, e, u).failures = h.failures
         /\ Rated(h, e, u).error = e /\ Rated(h, e, u).timeout = u
BY DEF TargetHealths, Rated

LEMMA EnterModel ==
  ASSUME NEW m \in ModelHealths, NEW s \in HealthStates
  PROVE  Enter(m, s) \in ModelHealths /\ Enter(m, s).failures = m.failures
BY DEF ModelHealths, Enter

LEMMA ForgivenModel ==
  ASSUME NEW m \in ModelHealths
  PROVE  Forgiven(m) \in ModelHealths /\ Forgiven(m).failures = 0
BY DEF ModelHealths, Forgiven

LEMMA TalliedModel ==
  ASSUME NEW m \in ModelHealths
  PROVE  Tallied(m) \in ModelHealths
BY DEF ModelHealths, Tallied

LEMMA ErrorModel ==
  ASSUME NEW m \in ModelHealths, NEW e \in Bands
  PROVE  [m EXCEPT !.error = e] \in ModelHealths /\ [m EXCEPT !.error = e].failures = m.failures
BY DEF ModelHealths

LEMMA AgeHealth ==
  ASSUME NEW h \in TargetHealths
  PROVE  /\ Age(h) \in TargetHealths /\ Age(h).failures = h.failures
         /\ CleanRecord(h) => CleanRecord(Age(h))
BY EnterHealth DEF HealthStates, Age, CleanRecord

LEMMA AgeModel ==
  ASSUME NEW m \in ModelHealths
  PROVE  Age(m) \in ModelHealths /\ Age(m).failures = m.failures
BY EnterModel DEF HealthStates, Age

LEMMA CountedHealth ==
  ASSUME NEW h \in TargetHealths, NEW named \in BOOLEAN, NEW o \in Outcomes,
         NEW c \in Counted(h, named, o)
  PROVE  /\ c \in TargetHealths
         /\ (CleanRecord(h) /\ ~Blames(named, o)) => CleanRecord(c)
<1>0. h.error \in Bands /\ h.timeout \in Bands
  BY DEF TargetHealths
<1>1. CASE o.kind = "success"
  <2>1. PICK e \in Decay(h.error), u \in Decay(h.timeout) : c = Rated(Forgiven(h), e, u)
    BY <1>1 DEF Counted
  <2>2. e \in Bands /\ u \in Bands
    BY <1>0, BandsStep
  <2>3. h.error = "zero" /\ h.timeout = "zero" => e = "zero" /\ u = "zero"
    BY DEF Decay
  <2>4. /\ c \in TargetHealths /\ c.state = h.state /\ c.failures = 0
        /\ c.error = e /\ c.timeout = u
    BY <2>1, <2>2, ForgivenHealth, RatedHealth
  <2> QED
    BY <2>3, <2>4 DEF CleanRecord
<1>2. CASE o.kind # "success" /\ countsAsUpstreamHealthFailure(o)
                              /\ ~shouldUpdateModelHealth(named, o)
  <2> DEFINE U == IF o.timeout THEN {"open"} ELSE Decay(h.timeout)
  <2>1. PICK e \in Raise(h.error), u \in U : c = Rated(Tallied(h), e, u)
    BY <1>2 DEF Counted
  <2>2. e \in Bands /\ u \in Bands
    BY <1>0, BandsStep DEF Bands
  <2>3. Blames(named, o)
    BY <1>2 DEF Blames, countsAsUpstreamHealthFailure, shouldUpdateModelHealth
  <2>4. c \in TargetHealths
    BY <2>1, <2>2, TalliedHealth, RatedHealth
  <2> QED
    BY <2>3, <2>4
<1>3. CASE o.kind # "success" /\ ~( countsAsUpstreamHealthFailure(o)
                                    /\ ~shouldUpdateModelHealth(named, o))
  BY <1>3 DEF Counted
<1> QED
  BY <1>1, <1>2, <1>3

LEMMA OpenedHealth ==
  /\ \A h \in TargetHealths : Opened(h) \in TargetHealths /\ Below(Opened(h))
  /\ \A m \in ModelHealths : Opened(m) \in ModelHealths /\ Below(Opened(m))
BY EnterHealth, ForgivenHealth, EnterModel, ForgivenModel DEF Opened, HealthStates, Below

LEMMA VerdictHealth ==
  ASSUME NEW c \in TargetHealths, NEW o \in Outcomes
  PROVE  /\ Verdict(c, o) \in TargetHealths /\ Below(Verdict(c, o))
         /\ CleanRecord(c) => CleanRecord(Verdict(c, o))
<1>0. c.failures \in Nat /\ FailureThreshold > 0
  BY DEF TargetHealths
<1>1. \A s \in HealthStates :
        /\ Forgiven(Enter(c, s)) \in TargetHealths /\ Forgiven(Enter(c, s)).failures = 0
        /\ Forgiven(Enter(c, s)).state = s
        /\ Forgiven(Enter(c, s)).error = c.error /\ Forgiven(Enter(c, s)).timeout = c.timeout
  BY EnterHealth, ForgivenHealth
<1> QED
  BY <1>0, <1>1, OpenedHealth, EnterHealth DEF HealthStates, Verdict, Below, CleanRecord

LEMMA FinishHealth ==
  ASSUME NEW h \in TargetHealths, NEW named \in BOOLEAN, NEW o \in Outcomes,
         Below(h), NEW f \in Finish(h, named, o)
  PROVE  /\ f \in TargetHealths /\ Below(f)
         /\ (CleanRecord(h) /\ ~Blames(named, o)) => CleanRecord(f)
<1>1. CASE o.kind = "canceled"
  BY <1>1 DEF Finish
<1>2. CASE o.kind # "canceled"
  <2>1. PICK c \in Counted(h, named, o) : f = Verdict(c, o)
    BY <1>2 DEF Finish
  <2> QED
    BY <2>1, CountedHealth, VerdictHealth
<1> QED
  BY <1>1, <1>2

LEMMA FinishModelHealth ==
  ASSUME NEW m \in ModelHealths, NEW o \in Outcomes, NEW f \in FinishModel(m, o)
  PROVE  f \in ModelHealths /\ Below(f)
<1>0. m.error \in Bands
  BY DEF ModelHealths
<1>1. CASE o.kind = "success"
  <2>1. PICK e \in Decay(m.error) : f = [Forgiven(Enter(m, "healthy")) EXCEPT !.error = e]
    BY <1>1 DEF FinishModel
  <2>2. e \in Bands
    BY <1>0, BandsStep
  <2>3. /\ Forgiven(Enter(m, "healthy")) \in ModelHealths
        /\ Forgiven(Enter(m, "healthy")).failures = 0
    BY EnterModel, ForgivenModel DEF HealthStates
  <2> QED
    BY <2>1, <2>2, <2>3, ErrorModel DEF Below
<1>2. CASE o.kind # "success"
  <2>1. PICK e \in Raise(m.error) : f = ModelVerdict([Tallied(m) EXCEPT !.error = e])
    BY <1>2 DEF FinishModel
  <2>2. e \in Bands
    BY <1>0, BandsStep
  <2>3. [Tallied(m) EXCEPT !.error = e] \in ModelHealths
    BY <2>2, TalliedModel, ErrorModel
  <2>4. ASSUME NEW n \in ModelHealths
        PROVE  ModelVerdict(n) \in ModelHealths /\ Below(ModelVerdict(n))
    <3>1. n.failures \in Nat
      BY DEF ModelHealths
    <3> QED
      BY <3>1, OpenedHealth, EnterModel DEF HealthStates, ModelVerdict, Below
  <2> QED
    BY <2>1, <2>3, <2>4
<1> QED
  BY <1>1, <1>2

LEMMA RefreshFailedHealth ==
  ASSUME NEW h \in TargetHealths, NEW f \in RefreshFailed(h)
  PROVE  f \in TargetHealths /\ Below(f)
<1>1. PICK e \in Bands : f = Faulted([Tallied(h) EXCEPT !.error = e])
  <2>1. h.error \in Bands /\ Raise(h.error) \subseteq Bands /\ "zero" \in Bands
    BY BandsStep DEF TargetHealths, Bands
  <2> QED
    BY <2>1 DEF RefreshFailed
<1>2. [Tallied(h) EXCEPT !.error = e] \in TargetHealths
  BY TalliedHealth, ErrorHealth
<1>3. ASSUME NEW g \in TargetHealths
      PROVE  Faulted(g) \in TargetHealths /\ Below(Faulted(g))
  <2>1. g.failures \in Nat
    BY DEF TargetHealths
  <2>2. /\ [g EXCEPT !.state = "degraded"] \in TargetHealths
        /\ [g EXCEPT !.state = "degraded"].failures = g.failures
    BY DEF TargetHealths, HealthStates
  <2> QED
    BY <2>1, <2>2, OpenedHealth DEF Faulted, Below
<1> QED
  BY <1>1, <1>2, <1>3

LEMMA RefreshSucceededHealth ==
  ASSUME NEW h \in TargetHealths, NEW f \in RefreshSucceeded(h)
  PROVE  /\ f \in TargetHealths /\ Below(f)
         /\ CleanRecord(h) => CleanRecord(f)
<1>1. PICK e \in Decay(h.error), u \in Decay(h.timeout) :
        f = Recovered(Rated(Forgiven(h), e, u))
  BY DEF RefreshSucceeded
<1>2. e \in Bands /\ u \in Bands
  BY BandsStep DEF TargetHealths
<1>3. h.error = "zero" /\ h.timeout = "zero" => e = "zero" /\ u = "zero"
  BY DEF Decay
<1> DEFINE c == Rated(Forgiven(h), e, u)
<1>4. /\ c \in TargetHealths /\ c.failures = 0 /\ c.error = e /\ c.timeout = u
  BY <1>2, ForgivenHealth, RatedHealth
<1> HIDE DEF c
<1>5. /\ Recovered(c) \in TargetHealths /\ Recovered(c).failures = 0
      /\ Recovered(c).error = e /\ Recovered(c).timeout = u
      /\ Recovered(c).state # "open"
  BY <1>4, EnterHealth DEF Recovered, HealthStates
<1>6. f = Recovered(c)
  BY <1>1 DEF c
<1> QED
  BY <1>3, <1>5, <1>6 DEF Below, CleanRecord

LEMMA ModelRefreshedHealth ==
  ASSUME NEW m \in ModelHealths, Below(m), NEW f \in ModelRefreshed(m)
  PROVE  f \in ModelHealths /\ Below(f)
<1>1. CASE m.state = "healthy"
  BY <1>1 DEF ModelRefreshed
<1>2. CASE m.state # "healthy"
  <2>1. PICK e \in Decay(m.error) : f = [Forgiven(Enter(m, "probation")) EXCEPT !.error = e]
    BY <1>2 DEF ModelRefreshed
  <2>2. e \in Bands
    BY BandsStep DEF ModelHealths
  <2>3. /\ Forgiven(Enter(m, "probation")) \in ModelHealths
        /\ Forgiven(Enter(m, "probation")).failures = 0
    BY EnterModel, ForgivenModel DEF HealthStates
  <2> QED
    BY <2>1, <2>2, <2>3, ErrorModel DEF Below
<1> QED
  BY <1>1, <1>2

-------------------------------------------------------------------------------
(* Requests, targets and the steps of the router. *)

USE RouterAssumption

\* The breakers, whose updates the lemmas above describe.
HealthInv ==
  /\ health \in [Targets -> TargetHealths]
  /\ modelHealth \in [Targets -> [Models -> ModelHealths]]
  /\ FailuresBelowThreshold
  /\ blamed \in SUBSET Targets
  /\ \A t \in Targets \ blamed : CleanRecord(health[t])

\* What a request has in hand: nothing it tried is available to it, and it has
\* a target exactly while it is on one.
Apart ==
  \A r \in Requests :
    /\ available[r] \cap tried[r] = {}
    /\ pc[r] = "inflight" => target[r] \in Targets \ tried[r]
    /\ pc[r] # "inflight" => target[r] = NoTarget

RequestsOK ==
  /\ binding \in [Keys -> Targets \cup {NoTarget}]
  /\ pc \in [Requests -> PC]
  /\ model \in [Requests -> AllModels]
  /\ key \in [Requests -> Keys \cup {NoKey}]
  /\ hit \in [Requests -> Targets \cup {NoTarget}]
  /\ unseen \in [Requests -> SUBSET Targets]
  /\ available \in [Requests -> SUBSET Targets]
  /\ tried \in [Requests -> SUBSET Targets]
  /\ target \in [Requests -> Targets \cup {NoTarget}]
  /\ refreshes \in 0 .. Refreshes

LoadInv == inflight \in [Targets -> Nat] /\ InflightExact

\* Inductive.  The load is exact only because a request on a target has one
\* (Apart), and a clean record is kept only because a model-scoped outcome
\* leaves the target's averages at zero (HealthInv).
IInv == RequestsOK /\ Apart /\ LoadInv /\ HealthInv

LEMMA HealthStep ==
  ASSUME HealthInv, NEW t \in Targets, NEW h \in TargetHealths, Below(h),
         health' = [health EXCEPT ![t] = h],
         modelHealth' \in [Targets -> [Models -> ModelHealths]],
         \A u \in Targets, m \in Models : Below(modelHealth'[u][m]),
         blamed' \in SUBSET Targets, blamed \subseteq blamed',
         t \notin blamed' /\ CleanRecord(health[t]) => CleanRecord(h)
  PROVE  HealthInv'
<1>1. health' \in [Targets -> TargetHealths]
  BY DEF HealthInv
<1>2. \A u \in Targets : health'[u] = IF u = t THEN h ELSE health[u]
  BY DEF HealthInv
<1>3. FailuresBelowThreshold'
  BY <1>2 DEF HealthInv, FailuresBelowThreshold, Below
<1>4. \A u \in Targets \ blamed' : CleanRecord(health'[u])
  BY <1>2 DEF HealthInv
<1> QED
  BY <1>1, <1>3, <1>4 DEF HealthInv

LEMMA ModelsBelow ==
  HealthInv => \A u \in Targets, m \in Models : Below(modelHealth[u][m])
BY DEF HealthInv, FailuresBelowThreshold, Below

LEMMA ModelStep ==
  ASSUME HealthInv, NEW t \in Targets, NEW m \in Models, NEW mh \in ModelHealths, Below(mh),
         modelHealth' = [modelHealth EXCEPT ![t][m] = mh]
  PROVE  /\ modelHealth' \in [Targets -> [Models -> ModelHealths]]
         /\ \A u \in Targets, n \in Models : Below(modelHealth'[u][n])
<1>1. \A u \in Targets, n \in Models :
        modelHealth'[u][n] = IF u = t /\ n = m THEN mh ELSE modelHealth[u][n]
  BY DEF HealthInv
<1>2. modelHealth' \in [Targets -> [Models -> ModelHealths]]
  BY DEF HealthInv
<1> QED
  BY <1>1, <1>2, ModelsBelow

LEMMA HealthStutters ==
  HealthInv /\ UNCHANGED <<health, modelHealth, blamed>> => HealthInv'
BY DEF HealthInv, FailuresBelowThreshold

LEMMA ServingFinite ==
  \A t \in Targets : IsFiniteSet(Serving(t)) /\ Cardinality(Serving(t)) \in Nat
<1> TAKE t \in Targets
<1>1. Serving(t) \subseteq Requests
  BY DEF Serving
<1> QED
  BY <1>1, FS_Subset, FS_CardinalityType

LEMMA LoadStutters ==
  ASSUME LoadInv, UNCHANGED inflight, \A t \in Targets : Serving(t)' = Serving(t)
  PROVE  LoadInv'
BY DEF LoadInv, InflightExact

\* A request leaves its target: the load it adds is taken off, once.
LEMMA LoadDrops ==
  ASSUME RequestsOK, Apart, LoadInv, NEW r \in Requests, pc[r] = "inflight",
         inflight' = [inflight EXCEPT ![target[r]] =
                        IF inflight[target[r]] > 0 THEN inflight[target[r]] - 1
                                                   ELSE inflight[target[r]]],
         target' = [target EXCEPT ![r] = NoTarget],
         NEW p \in PC \ {"inflight"}, pc' = [pc EXCEPT ![r] = p]
  PROVE  LoadInv'
<1>t. PICK t \in Targets : t = target[r]
  BY DEF Apart
<1>1. r \in Serving(t)
  BY <1>t DEF Serving
<1>2. /\ Serving(t)' = Serving(t) \ {r}
      /\ \A u \in Targets \ {t} : Serving(u)' = Serving(u)
  BY <1>t DEF Serving, RequestsOK
<1>3. Cardinality(Serving(t) \ {r}) = Cardinality(Serving(t)) - 1 /\ IsFiniteSet(Serving(t) \ {r})
  BY <1>1, ServingFinite, FS_RemoveElement
<1>4. Cardinality(Serving(t) \ {r}) \in Nat /\ Cardinality(Serving(t)) \in Nat
  BY <1>3, FS_CardinalityType, ServingFinite
<1>5. inflight[t] = Cardinality(Serving(t)) /\ inflight[t] > 0
  BY <1>3, <1>4 DEF LoadInv, InflightExact
<1>6. inflight' = [inflight EXCEPT ![t] = inflight[t] - 1]
  BY <1>t, <1>5
<1>7. inflight' \in [Targets -> Nat]
  BY <1>3, <1>4, <1>5, <1>6 DEF LoadInv
<1>8. InflightExact'
  <2> SUFFICES ASSUME NEW u \in Targets PROVE inflight'[u] = Cardinality(Serving(u)')
    BY DEF InflightExact
  <2>1. CASE u = t
    BY <2>1, <1>2, <1>3, <1>5, <1>6 DEF LoadInv
  <2>2. CASE u # t
    BY <2>2, <1>2, <1>6 DEF LoadInv, InflightExact
  <2> QED
    BY <2>1, <2>2
<1> QED
  BY <1>7, <1>8 DEF LoadInv

LEMMA InitInv == Init => IInv
<1> SUFFICES ASSUME Init PROVE IInv
  OBVIOUS
<1>1. RequestsOK
  <2>1. /\ binding \in [Keys -> Targets \cup {NoTarget}]
        /\ pc \in [Requests -> PC]
        /\ model \in [Requests -> AllModels]
        /\ key \in [Requests -> Keys \cup {NoKey}]
        /\ hit \in [Requests -> Targets \cup {NoTarget}]
        /\ target \in [Requests -> Targets \cup {NoTarget}]
    BY DEF Init, PC, AllModels
  <2>2. /\ unseen \in [Requests -> SUBSET Targets]
        /\ available \in [Requests -> SUBSET Targets]
        /\ tried \in [Requests -> SUBSET Targets]
    BY DEF Init
  <2>3. refreshes \in 0 .. Refreshes
    BY DEF Init
  <2> QED
    BY <2>1, <2>2, <2>3 DEF RequestsOK
<1>2. Apart
  BY DEF Init, Apart
<1>3. \A t \in Targets : Serving(t) = {}
  BY DEF Init, Serving
<1>4. LoadInv
  BY <1>3, FS_EmptySet DEF Init, LoadInv, InflightExact
<1>5. /\ NewTarget \in TargetHealths /\ CleanRecord(NewTarget) /\ NewTarget.failures = 0
      /\ NewModel \in ModelHealths /\ NewModel.failures = 0
  BY DEF NewTarget, NewModel, TargetHealths, ModelHealths, HealthStates, Bands, CleanRecord
<1>6. HealthInv
  <2>1. /\ health \in [Targets -> TargetHealths]
        /\ modelHealth \in [Targets -> [Models -> ModelHealths]]
        /\ blamed \in SUBSET Targets
    BY <1>5 DEF Init
  <2>2. \A t \in Targets : health[t] = NewTarget
    BY DEF Init
  <2>3. \A t \in Targets, m \in Models : modelHealth[t][m] = NewModel
    BY DEF Init
  <2>4. FailuresBelowThreshold
    <3>1. 0 < FailureThreshold
      BY ThresholdAssumption
    <3>2. \A t \in Targets : health[t].failures < FailureThreshold
      BY <1>5, <2>2, <3>1
    <3>3. \A t \in Targets, m \in Models : modelHealth[t][m].failures < FailureThreshold
      BY <1>5, <2>3, <3>1
    <3> QED
      BY <3>2, <3>3 DEF FailuresBelowThreshold
  <2>5. \A t \in Targets \ blamed : CleanRecord(health[t])
    BY <1>5, <2>2
  <2> QED
    BY <2>1, <2>4, <2>5 DEF HealthInv
<1> QED
  BY <1>1, <1>2, <1>4, <1>6 DEF IInv

\* A step that leaves the breakers alone and starts or moves a selection.
LEMMA BeginScanOK ==
  ASSUME RequestsOK, NEW r \in Requests, NEW m \in AllModels, NEW k \in Keys \cup {NoKey},
         BeginScan(r, m, k)
  PROVE  /\ pc' \in [Requests -> PC] /\ hit' \in [Requests -> Targets \cup {NoTarget}]
         /\ unseen' \in [Requests -> SUBSET Targets]
         /\ available' \in [Requests -> SUBSET Targets]
         /\ available' = [available EXCEPT ![r] = {}]
         /\ pc' = [pc EXCEPT ![r] = "scan"]
<1>1. Serves[m] \in SUBSET Targets
  BY DEF AllModels
<1>2. (IF k = NoKey THEN NoTarget ELSE binding[k]) \in Targets \cup {NoTarget}
  BY DEF RequestsOK
<1>3. hit' \in [Requests -> Targets \cup {NoTarget}]
  BY <1>2 DEF RequestsOK, BeginScan
<1>4. unseen' \in [Requests -> SUBSET Targets]
  BY <1>1 DEF RequestsOK, BeginScan
<1> QED
  BY <1>3, <1>4 DEF RequestsOK, BeginScan, PC

LEMMA OverOK ==
  ASSUME RequestsOK, NEW r \in Requests, Over(r)
  PROVE  /\ pc' \in [Requests -> PC] /\ hit' \in [Requests -> Targets \cup {NoTarget}]
         /\ model' \in [Requests -> AllModels] /\ key' \in [Requests -> Keys \cup {NoKey}]
         /\ unseen' \in [Requests -> SUBSET Targets]
         /\ available' \in [Requests -> SUBSET Targets]
         /\ tried' \in [Requests -> SUBSET Targets]
         /\ available' = [available EXCEPT ![r] = {}]
         /\ tried' = [tried EXCEPT ![r] = {}]
         /\ pc' = [pc EXCEPT ![r] = "done"]
BY DEF RequestsOK, Over, PC, AllModels

LEMMA SelectInv == ASSUME IInv, NEW r \in Requests, Select(r) PROVE IInv'
<1>1. PICK m \in AllModels, k \in Keys \cup {NoKey} :
        /\ model' = [model EXCEPT ![r] = m] /\ key' = [key EXCEPT ![r] = k]
        /\ BeginScan(r, m, k)
  BY DEF Select
<1>2. /\ pc[r] = "idle"
      /\ UNCHANGED <<health, modelHealth, inflight, binding, tried, target, refreshes, blamed>>
  BY DEF Select
<1>3. RequestsOK'
  BY <1>1, <1>2, BeginScanOK DEF IInv, RequestsOK
<1>4. available' = [available EXCEPT ![r] = {}] /\ pc' = [pc EXCEPT ![r] = "scan"]
  BY <1>1 DEF BeginScan
<1>5. Apart'
  BY <1>2, <1>4 DEF IInv, RequestsOK, Apart
<1>6. \A t \in Targets : Serving(t)' = Serving(t)
  BY <1>2, <1>4 DEF IInv, RequestsOK, Serving
<1> QED
  BY <1>2, <1>3, <1>5, <1>6, LoadStutters, HealthStutters DEF IInv

LEMMA ExamineInv ==
  ASSUME IInv, NEW r \in Requests, NEW t \in Targets, Examine(r, t) PROVE IInv'
<1>1. /\ pc[r] = "scan" /\ t \in unseen[r]
      /\ health' = [health EXCEPT ![t] = Age(health[t])]
      /\ \/ modelHealth' = modelHealth
         \/ Named(r) /\ modelHealth' = [modelHealth EXCEPT ![t][model[r]] =
                                          Age(modelHealth[t][model[r]])]
      /\ unseen' = [unseen EXCEPT ![r] = unseen[r] \ {t}]
      /\ UNCHANGED <<inflight, binding, pc, model, key, hit, tried, target, refreshes, blamed>>
  BY DEF Examine, IInv, HealthInv
<1>2. PICK a \in SUBSET Targets : /\ available' = [available EXCEPT ![r] = a]
                                  /\ a \cap tried[r] = {}
  <2>1. available[r] \in SUBSET Targets /\ available[r] \cap tried[r] = {}
    BY DEF IInv, RequestsOK, Apart
  <2>2. \/ available' = [available EXCEPT ![r] = available[r]]
        \/ t \notin tried[r] /\ available' = [available EXCEPT ![r] = available[r] \cup {t}]
    BY DEF Examine
  <2> QED
    BY <2>1, <2>2
<1>3. RequestsOK'
  BY <1>1, <1>2 DEF IInv, RequestsOK
<1>4. Apart'
  BY <1>1, <1>2 DEF IInv, RequestsOK, Apart
<1>5. \A u \in Targets : Serving(u)' = Serving(u)
  BY <1>1 DEF Serving
<1>6. HealthInv'
  <2>1. health[t] \in TargetHealths /\ Below(health[t])
    BY DEF IInv, HealthInv, FailuresBelowThreshold, Below
  <2>2. Age(health[t]) \in TargetHealths /\ Below(Age(health[t]))
        /\ (CleanRecord(health[t]) => CleanRecord(Age(health[t])))
    BY <2>1, AgeHealth DEF Below
  <2>3. /\ modelHealth' \in [Targets -> [Models -> ModelHealths]]
        /\ \A u \in Targets, m \in Models : Below(modelHealth'[u][m])
    <3>1. CASE modelHealth' = modelHealth
      BY <3>1, ModelsBelow DEF IInv, HealthInv
    <3>2. CASE Named(r) /\ modelHealth' = [modelHealth EXCEPT ![t][model[r]] =
                                             Age(modelHealth[t][model[r]])]
      <4>1. PICK m \in Models : m = model[r]
        BY <3>2 DEF Named, IInv, RequestsOK, AllModels
      <4>2. modelHealth[t][m] \in ModelHealths /\ Below(modelHealth[t][m])
        BY ModelsBelow DEF IInv, HealthInv
      <4>3. Age(modelHealth[t][m]) \in ModelHealths /\ Below(Age(modelHealth[t][m]))
        BY <4>2, AgeModel DEF Below
      <4> QED
        BY <3>2, <4>1, <4>3, ModelStep DEF IInv
    <3> QED
      BY <1>1, <3>1, <3>2
  <2>4. blamed' = blamed /\ blamed' \in SUBSET Targets
    BY <1>1 DEF IInv, HealthInv
  <2> QED
    BY <1>1, <2>2, <2>3, <2>4, HealthStep DEF IInv
<1> QED
  BY <1>1, <1>3, <1>4, <1>5, <1>6, LoadStutters DEF IInv

LEMMA StartInv == ASSUME IInv, NEW r \in Requests, Start(r) PROVE IInv'
<1>1. PICK t \in Choices(r) :
        /\ target' = [target EXCEPT ![r] = t]
        /\ inflight' = [inflight EXCEPT ![t] = inflight[t] + 1]
        /\ binding' = IF key[r] # NoKey /\ hit[r] \notin available[r]
                        THEN [binding EXCEPT ![key[r]] = t]
                        ELSE binding
  BY DEF Start
<1>2. /\ pc[r] = "scan" /\ pc' = [pc EXCEPT ![r] = "inflight"]
      /\ hit' = [hit EXCEPT ![r] = NoTarget] /\ available' = [available EXCEPT ![r] = {}]
      /\ UNCHANGED <<health, modelHealth, model, key, unseen, tried, refreshes, blamed>>
  BY DEF Start
<1>3. t \in available[r] /\ t \in Targets /\ t \notin tried[r]
  BY DEF Choices, IInv, RequestsOK, Apart
<1>4. binding' \in [Keys -> Targets \cup {NoTarget}]
  BY <1>1, <1>3 DEF IInv, RequestsOK
<1>5. RequestsOK'
  BY <1>1, <1>2, <1>3, <1>4 DEF IInv, RequestsOK, PC
<1>6. Apart'
  BY <1>1, <1>2, <1>3 DEF IInv, RequestsOK, Apart
<1>7. /\ r \notin Serving(t) /\ Serving(t)' = Serving(t) \cup {r}
      /\ \A u \in Targets \ {t} : Serving(u)' = Serving(u)
  BY <1>1, <1>2, <1>3 DEF IInv, RequestsOK, Apart, Serving
<1>8. Cardinality(Serving(t) \cup {r}) = Cardinality(Serving(t)) + 1
  BY <1>3, <1>7, ServingFinite, FS_AddElement
<1>9. LoadInv'
  <2>1. inflight' \in [Targets -> Nat]
    BY <1>1, <1>3 DEF IInv, LoadInv
  <2>2. \A u \in Targets : inflight'[u] = IF u = t THEN inflight[u] + 1 ELSE inflight[u]
    BY <1>1, <1>3 DEF IInv, LoadInv
  <2>3. ASSUME NEW u \in Targets PROVE inflight'[u] = Cardinality(Serving(u)')
    <3>1. CASE u = t
      BY <2>2, <3>1, <1>7, <1>8 DEF IInv, LoadInv, InflightExact
    <3>2. CASE u # t
      BY <2>2, <3>2, <1>7 DEF IInv, LoadInv, InflightExact
    <3> QED
      BY <3>1, <3>2
  <2> QED
    BY <2>1, <2>3 DEF LoadInv, InflightExact
<1> QED
  BY <1>2, <1>5, <1>6, <1>9, HealthStutters DEF IInv

LEMMA SelectionFailsInv == ASSUME IInv, NEW r \in Requests, SelectionFails(r) PROVE IInv'
<1>1. /\ pc[r] = "scan" /\ Over(r)
      /\ UNCHANGED <<health, modelHealth, inflight, binding, target, refreshes, blamed>>
  BY DEF SelectionFails
<1>2. RequestsOK'
  BY <1>1, OverOK DEF IInv, RequestsOK
<1>3. /\ available' = [available EXCEPT ![r] = {}] /\ tried' = [tried EXCEPT ![r] = {}]
      /\ pc' = [pc EXCEPT ![r] = "done"]
  BY <1>1 DEF Over
<1>4. Apart'
  BY <1>1, <1>3 DEF IInv, RequestsOK, Apart
<1>5. \A t \in Targets : Serving(t)' = Serving(t)
  BY <1>1, <1>3 DEF IInv, RequestsOK, Serving
<1> QED
  BY <1>1, <1>2, <1>4, <1>5, LoadStutters, HealthStutters DEF IInv

LEMMA CompleteInv == ASSUME IInv, NEW r \in Requests, Complete(r) PROVE IInv'
<1>t. PICK t \in Targets : t = target[r]
  BY DEF Complete, IInv, Apart
<1>0. /\ pc[r] = "inflight" /\ target' = [target EXCEPT ![r] = NoTarget]
      /\ UNCHANGED <<binding, refreshes>>
  BY DEF Complete
<1>1. PICK o \in Outcomes :
        /\ blamed' = IF o.kind = "transport" \/ (o.kind = "status" /\ ~Named(r))
                       THEN blamed \cup {t} ELSE blamed
        /\ inflight' = [inflight EXCEPT ![t] = Released(t, o)]
        /\ \E h \in Finish(health[t], Named(r), o) : health' = [health EXCEPT ![t] = h]
        /\ IF shouldUpdateModelHealth(Named(r), o)
             THEN \E mh \in FinishModel(modelHealth[t][model[r]], o) :
                    modelHealth' = [modelHealth EXCEPT ![t][model[r]] = mh]
             ELSE UNCHANGED modelHealth
        /\ \/ Over(r)
           \/ /\ tried' = [tried EXCEPT ![r] = tried[r] \cup {t}]
              /\ BeginScan(r, model[r], key[r])
              /\ UNCHANGED <<model, key>>
  BY <1>t DEF Complete
<1>2. ASSUME Over(r) PROVE RequestsOK' /\ Apart'
  <2>1. RequestsOK'
    BY <1>0, <1>2, OverOK DEF IInv, RequestsOK
  <2>2. /\ available' = [available EXCEPT ![r] = {}] /\ tried' = [tried EXCEPT ![r] = {}]
        /\ pc' = [pc EXCEPT ![r] = "done"]
    BY <1>2 DEF Over
  <2>3. Apart'
    BY <1>0, <2>2 DEF IInv, RequestsOK, Apart
  <2> QED
    BY <2>1, <2>3
<1>3. ASSUME tried' = [tried EXCEPT ![r] = tried[r] \cup {t}],
             BeginScan(r, model[r], key[r]), UNCHANGED <<model, key>>
      PROVE  RequestsOK' /\ Apart'
  <2>1. model[r] \in AllModels /\ key[r] \in Keys \cup {NoKey}
    BY DEF IInv, RequestsOK
  <2>2. /\ pc' \in [Requests -> PC] /\ hit' \in [Requests -> Targets \cup {NoTarget}]
        /\ unseen' \in [Requests -> SUBSET Targets]
        /\ available' \in [Requests -> SUBSET Targets]
        /\ available' = [available EXCEPT ![r] = {}] /\ pc' = [pc EXCEPT ![r] = "scan"]
    BY <1>3, <2>1, BeginScanOK DEF IInv
  <2>3. RequestsOK'
    BY <1>0, <1>3, <2>2 DEF IInv, RequestsOK
  <2>4. Apart'
    BY <1>0, <1>3, <2>2 DEF IInv, RequestsOK, Apart
  <2> QED
    BY <2>3, <2>4
<1>4. RequestsOK' /\ Apart'
  BY <1>1, <1>2, <1>3
<1>5. LoadInv'
  <2>1. inflight' = [inflight EXCEPT ![target[r]] =
                       IF inflight[target[r]] > 0 THEN inflight[target[r]] - 1
                                                  ELSE inflight[target[r]]]
    BY <1>1, <1>t DEF Released
  <2>2. \E p \in PC \ {"inflight"} : pc' = [pc EXCEPT ![r] = p]
    BY <1>1 DEF Over, BeginScan, PC
  <2> QED
    BY <1>0, <2>1, <2>2, LoadDrops DEF IInv
<1>6. HealthInv'
  <2>1. health[t] \in TargetHealths /\ Below(health[t])
    BY DEF IInv, HealthInv, FailuresBelowThreshold, Below
  <2>2. Named(r) \in BOOLEAN
    BY DEF Named
  <2>3. PICK h \in Finish(health[t], Named(r), o) : health' = [health EXCEPT ![t] = h]
    BY <1>1
  <2>4. /\ h \in TargetHealths /\ Below(h)
        /\ CleanRecord(health[t]) /\ ~Blames(Named(r), o) => CleanRecord(h)
    BY <2>1, <2>2, <2>3, FinishHealth
  <2>5. /\ modelHealth' \in [Targets -> [Models -> ModelHealths]]
        /\ \A u \in Targets, n \in Models : Below(modelHealth'[u][n])
    <3>1. CASE shouldUpdateModelHealth(Named(r), o)
      <4>1. PICK m \in Models : m = model[r]
        BY <3>1 DEF shouldUpdateModelHealth, Named, IInv, RequestsOK, AllModels
      <4>2. modelHealth[t][m] \in ModelHealths
        BY DEF IInv, HealthInv
      <4>3. PICK mh \in FinishModel(modelHealth[t][m], o) :
              modelHealth' = [modelHealth EXCEPT ![t][m] = mh]
        BY <1>1, <3>1, <4>1
      <4>4. mh \in ModelHealths /\ Below(mh)
        BY <4>2, <4>3, FinishModelHealth
      <4> QED
        BY <4>3, <4>4, ModelStep DEF IInv
    <3>2. CASE ~shouldUpdateModelHealth(Named(r), o)
      BY <1>1, <3>2, ModelsBelow DEF IInv, HealthInv
    <3> QED
      BY <3>1, <3>2
  <2>6. /\ blamed' \in SUBSET Targets /\ blamed \subseteq blamed'
        /\ t \notin blamed' => ~Blames(Named(r), o)
    BY <1>1 DEF IInv, HealthInv, Blames
  <2> QED
    BY <2>3, <2>4, <2>5, <2>6, HealthStep DEF IInv
<1> QED
  BY <1>4, <1>5, <1>6 DEF IInv

LEMMA ReleaseInv == ASSUME IInv, NEW r \in Requests, Release(r) PROVE IInv'
<1>1. /\ pc[r] = "inflight" /\ Over(r) /\ target' = [target EXCEPT ![r] = NoTarget]
      /\ inflight' = [inflight EXCEPT ![target[r]] =
                        IF inflight[target[r]] > 0 THEN inflight[target[r]] - 1
                                                   ELSE inflight[target[r]]]
      /\ UNCHANGED <<health, modelHealth, binding, refreshes, blamed>>
  BY DEF Release, IInv, LoadInv, Apart
<1>2. RequestsOK'
  BY <1>1, OverOK DEF IInv, RequestsOK
<1>3. /\ available' = [available EXCEPT ![r] = {}] /\ tried' = [tried EXCEPT ![r] = {}]
      /\ pc' = [pc EXCEPT ![r] = "done"] /\ "done" \in PC \ {"inflight"}
  BY <1>1 DEF Over, PC
<1>4. Apart'
  BY <1>1, <1>3 DEF IInv, RequestsOK, Apart
<1>5. LoadInv'
  BY <1>1, <1>3, LoadDrops DEF IInv
<1> QED
  BY <1>1, <1>2, <1>4, <1>5, HealthStutters DEF IInv

\* What is left of the invariant when a step touches no request and no load.
LEMMA RequestsStutter ==
  ASSUME IInv, UNCHANGED <<inflight, requestVars>>, HealthInv',
         binding' \in [Keys -> Targets \cup {NoTarget}], refreshes' \in 0 .. Refreshes
  PROVE  IInv'
<1>1. RequestsOK' /\ Apart'
  BY DEF IInv, RequestsOK, Apart, requestVars
<1>2. \A t \in Targets : Serving(t)' = Serving(t)
  BY DEF Serving, requestVars
<1>3. LoadInv'
  BY <1>2, LoadStutters DEF IInv
<1> QED
  BY <1>1, <1>3 DEF IInv

LEMMA RefreshFailsInv == ASSUME IInv, NEW t \in Targets, RefreshFails(t) PROVE IInv'
<1>1. PICK h \in RefreshFailed(health[t]) : health' = [health EXCEPT ![t] = h]
  BY DEF RefreshFails
<1>2. h \in TargetHealths /\ Below(h)
  BY <1>1, RefreshFailedHealth DEF IInv, HealthInv
<1>3. /\ blamed' = blamed \cup {t} /\ modelHealth' = modelHealth
      /\ UNCHANGED <<inflight, binding, requestVars>>
      /\ refreshes' = refreshes + 1 /\ refreshes < Refreshes
  BY DEF RefreshFails
<1>4. /\ modelHealth' \in [Targets -> [Models -> ModelHealths]]
      /\ \A u \in Targets, m \in Models : Below(modelHealth'[u][m])
      /\ blamed' \in SUBSET Targets /\ blamed \subseteq blamed' /\ t \in blamed'
  BY <1>3, ModelsBelow DEF IInv, HealthInv
<1>5. HealthInv'
  BY <1>1, <1>2, <1>4, HealthStep DEF IInv
<1>6. refreshes' \in 0 .. Refreshes /\ binding' \in [Keys -> Targets \cup {NoTarget}]
  BY <1>3 DEF IInv, RequestsOK
<1> QED
  BY <1>3, <1>5, <1>6, RequestsStutter

LEMMA RefreshWorksInv == ASSUME IInv, NEW t \in Targets, RefreshWorks(t) PROVE IInv'
<1>1. PICK h \in RefreshSucceeded(health[t]) : health' = [health EXCEPT ![t] = h]
  BY DEF RefreshWorks
<1>2. h \in TargetHealths /\ Below(h) /\ (CleanRecord(health[t]) => CleanRecord(h))
  BY <1>1, RefreshSucceededHealth DEF IInv, HealthInv
<1>l. PICK listed \in SUBSET Models :
        \E mh \in ModelsRefreshed(t, listed) : modelHealth' = [modelHealth EXCEPT ![t] = mh]
  BY DEF RefreshWorks
<1>3. PICK mh \in ModelsRefreshed(t, listed) : modelHealth' = [modelHealth EXCEPT ![t] = mh]
  BY <1>l
<1>4. /\ UNCHANGED <<inflight, binding, requestVars, blamed>>
      /\ refreshes' = refreshes + 1 /\ refreshes < Refreshes
  BY DEF RefreshWorks
<1>5. mh \in [Models -> ModelHealths] /\ \A m \in Models : Below(mh[m])
  <2> SUFFICES ASSUME NEW m \in Models PROVE mh[m] \in ModelHealths /\ Below(mh[m])
    BY <1>3 DEF ModelsRefreshed
  <2>1. modelHealth[t][m] \in ModelHealths /\ Below(modelHealth[t][m])
    BY ModelsBelow DEF IInv, HealthInv
  <2>2. mh[m] = modelHealth[t][m] \/ mh[m] \in ModelRefreshed(modelHealth[t][m])
    BY <1>3 DEF ModelsRefreshed
  <2> QED
    BY <2>1, <2>2, ModelRefreshedHealth
<1>6. /\ modelHealth' \in [Targets -> [Models -> ModelHealths]]
      /\ \A u \in Targets, m \in Models : Below(modelHealth'[u][m])
  <2>1. \A u \in Targets : modelHealth'[u] = IF u = t THEN mh ELSE modelHealth[u]
    BY <1>3 DEF IInv, HealthInv
  <2>2. modelHealth' \in [Targets -> [Models -> ModelHealths]]
    BY <1>3, <1>5 DEF IInv, HealthInv
  <2> QED
    BY <1>5, <2>1, <2>2, ModelsBelow DEF IInv
<1>7. HealthInv'
  BY <1>1, <1>2, <1>4, <1>6, HealthStep DEF IInv, HealthInv
<1>8. refreshes' \in 0 .. Refreshes /\ binding' \in [Keys -> Targets \cup {NoTarget}]
  BY <1>4 DEF IInv, RequestsOK
<1> QED
  BY <1>4, <1>7, <1>8, RequestsStutter

LEMMA WindowElapsesInv == ASSUME IInv, NEW t \in Targets, WindowElapses(t) PROVE IInv'
<1> DEFINE h == [health[t] EXCEPT !.elapsed = TRUE]
<1>1. health' = [health EXCEPT ![t] = h] /\ health[t].state = "open"
      /\ UNCHANGED <<modelHealth, inflight, binding, requestVars, refreshes, blamed>>
  BY DEF WindowElapses
<1>2. health[t] \in TargetHealths /\ Below(health[t]) /\ ~CleanRecord(health[t])
  BY <1>1 DEF IInv, HealthInv, FailuresBelowThreshold, Below, CleanRecord
<1>3. h \in TargetHealths /\ Below(h)
  BY <1>2 DEF TargetHealths, Below
<1>4. HealthInv'
  BY <1>1, <1>2, <1>3, ModelsBelow, HealthStep DEF IInv, HealthInv
<1> QED
  BY <1>1, <1>4, RequestsStutter DEF IInv, RequestsOK

LEMMA ModelWindowElapsesInv ==
  ASSUME IInv, NEW t \in Targets, NEW m \in Models, ModelWindowElapses(t, m) PROVE IInv'
<1> DEFINE mh == [modelHealth[t][m] EXCEPT !.elapsed = TRUE]
<1>1. modelHealth' = [modelHealth EXCEPT ![t][m] = mh]
      /\ UNCHANGED <<health, inflight, binding, requestVars, refreshes, blamed>>
  BY DEF ModelWindowElapses
<1>2. modelHealth[t][m] \in ModelHealths /\ Below(modelHealth[t][m])
  BY ModelsBelow DEF IInv, HealthInv
<1>3. mh \in ModelHealths /\ Below(mh)
  BY <1>2 DEF ModelHealths, Below
<1>4. /\ modelHealth' \in [Targets -> [Models -> ModelHealths]]
      /\ \A u \in Targets, n \in Models : Below(modelHealth'[u][n])
  BY <1>1, <1>3, ModelStep DEF IInv
<1>5. HealthInv'
  <2>1. FailuresBelowThreshold'
    <3>1. \A u \in Targets : health'[u].failures < FailureThreshold
      BY <1>1 DEF IInv, HealthInv, FailuresBelowThreshold
    <3>2. \A u \in Targets, n \in Models : modelHealth'[u][n].failures < FailureThreshold
      BY <1>4 DEF Below
    <3> QED
      BY <3>1, <3>2 DEF FailuresBelowThreshold
  <2>2. /\ health' \in [Targets -> TargetHealths] /\ blamed' \in SUBSET Targets
        /\ \A u \in Targets \ blamed' : CleanRecord(health'[u])
    BY <1>1 DEF IInv, HealthInv
  <2> QED
    BY <1>4, <2>1, <2>2 DEF HealthInv
<1> QED
  BY <1>1, <1>5, RequestsStutter DEF IInv, RequestsOK

LEMMA BindingExpiresInv == ASSUME IInv, NEW k \in Keys, BindingExpires(k) PROVE IInv'
<1>1. /\ binding' = [binding EXCEPT ![k] = NoTarget]
      /\ UNCHANGED <<health, modelHealth, inflight, requestVars, refreshes, blamed>>
  BY DEF BindingExpires
<1>2. HealthInv'
  BY <1>1, HealthStutters DEF IInv
<1> QED
  BY <1>1, <1>2, RequestsStutter DEF IInv, RequestsOK

LEMMA NextInv == IInv /\ [Next]_vars => IInv'
<1> SUFFICES ASSUME IInv, [Next]_vars PROVE IInv'
  OBVIOUS
<1>1. ASSUME NEW r \in Requests, Select(r) PROVE IInv'
  BY <1>1, SelectInv
<1>2. ASSUME NEW r \in Requests, NEW t \in Targets, Examine(r, t) PROVE IInv'
  BY <1>2, ExamineInv
<1>3. ASSUME NEW r \in Requests, Start(r) PROVE IInv'
  BY <1>3, StartInv
<1>4. ASSUME NEW r \in Requests, SelectionFails(r) PROVE IInv'
  BY <1>4, SelectionFailsInv
<1>5. ASSUME NEW r \in Requests, Complete(r) PROVE IInv'
  BY <1>5, CompleteInv
<1>6. ASSUME NEW r \in Requests, Release(r) PROVE IInv'
  BY <1>6, ReleaseInv
<1>7. ASSUME NEW t \in Targets, RefreshFails(t) PROVE IInv'
  BY <1>7, RefreshFailsInv
<1>8. ASSUME NEW t \in Targets, RefreshWorks(t) PROVE IInv'
  BY <1>8, RefreshWorksInv
<1>9. ASSUME NEW t \in Targets, WindowElapses(t) PROVE IInv'
  BY <1>9, WindowElapsesInv
<1>10. ASSUME NEW t \in Targets, NEW m \in Models, ModelWindowElapses(t, m) PROVE IInv'
  BY <1>10, ModelWindowElapsesInv
<1>11. ASSUME NEW k \in Keys, BindingExpires(k) PROVE IInv'
  BY <1>11, BindingExpiresInv
<1>12. CASE UNCHANGED vars
  <2>1. UNCHANGED <<health, modelHealth, inflight, binding, requestVars, refreshes, blamed>>
    BY <1>12 DEF vars
  <2> QED
    BY <2>1, HealthStutters, RequestsStutter DEF IInv, RequestsOK
<1> QED
  BY <1>1, <1>2, <1>3, <1>4, <1>5, <1>6, <1>7, <1>8, <1>9, <1>10, <1>11, <1>12 DEF Next

LEMMA Invariance == Spec => []IInv
<1>1. Init => IInv
  BY InitInv
<1>2. IInv /\ [Next]_vars => IInv'
  BY NextInv
<1> QED
  BY <1>1, <1>2, PTL DEF Spec

\* Every variable of the router keeps its type.
THEOREM TypeCorrect == Spec => []TypeOK
<1>1. IInv => TypeOK
  BY DEF IInv, RequestsOK, LoadInv, HealthInv, TypeOK
<1> QED
  BY <1>1, Invariance, PTL

\* The load onStart and releaseLocked keep for a target is the number of
\* requests on it, however selections, retries and completions interleave.
THEOREM LoadIsExact == Spec => []InflightExact
<1>1. IInv => InflightExact
  BY DEF IInv, LoadInv
<1> QED
  BY <1>1, Invariance, PTL

\* A target opens only for failures of its own: those onFinish charges to a
\* model leave it closed, for any number of models, requests and refreshes.
THEOREM ModelFailuresIsolated == Spec => []ModelFailuresStayInModel
<1>1. IInv => ModelFailuresStayInModel
  BY DEF IInv, HealthInv, CleanRecord, ModelFailuresStayInModel
<1> QED
  BY <1>1, Invariance, PTL

\* Every path that counts a failure also opens the breaker when the count
\* reaches the threshold, and resets it.
THEOREM CountsBelowThreshold == Spec => []FailuresBelowThreshold
<1>1. IInv => FailuresBelowThreshold
  BY DEF IInv, HealthInv
<1> QED
  BY <1>1, Invariance, PTL

\* A retry is never sent to a target its request already failed on.
THEOREM RetriesMoveOn == Spec => []TriedNotReselected
<1>1. IInv => TriedNotReselected
  BY DEF IInv, Apart, TriedNotReselected
<1> QED
  BY <1>1, Invariance, PTL
================================================================================

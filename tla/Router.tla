-------------------------------- MODULE Router --------------------------------
(***************************************************************************)
(* Selection and completion in internal/router: selectTargets under        *)
(* Router.mu.RLock (so any number of selections run at once), Complete,    *)
(* the sticky bindings and the effect of refreshes on the breakers.        *)
(*                                                                         *)
(* A selection is the steps the code takes between two locks: the sticky   *)
(* lookup (before Router.mu), canSelect on each candidate (under that      *)
(* target's mu only), and the pick with onStart.  Other selections and     *)
(* completions come between them.                                          *)
(***************************************************************************)
EXTENDS TargetHealth, FiniteSets

CONSTANTS
  Requests,    \* client requests
  Targets,     \* route targets of the running snapshot
  Models,      \* models requests name
  NoModel,     \* a request that names none
  Serves,      \* Serves[m]: candidatesForRequest for model m
  Keys,        \* sticky session keys
  NoKey,       \* a request without a session
  NoTarget,
  Refreshes    \* bound: how many refresh results are applied

ASSUME RouterAssumption ==
  /\ IsFiniteSet(Requests)
  /\ NoModel \notin Models
  /\ Serves \in [Models \cup {NoModel} -> SUBSET Targets]
  /\ NoKey \notin Keys
  /\ NoTarget \notin Targets
  /\ Refreshes \in Nat

VARIABLES
  health,        \* Target.healthState and what decides it
  modelHealth,   \* Target.modelHealth
  inflight,      \* Target.inflight
  binding,       \* StickyBindingStore.bindings
  pc, model, key,\* each request: where it stands, what it asks for
  hit,           \* the binding its lookup returned
  unseen,        \* candidates canSelect has not looked at
  available,     \* candidates canSelect admitted
  tried,         \* excludeIDs: targets this request already used
  target,        \* Selection.Target
  refreshes,     \* refresh results applied so far
  blamed         \* targets that had a failure of their own, not of one model

requestVars == <<pc, model, key, hit, unseen, available, tried, target>>
vars == <<health, modelHealth, inflight, binding, requestVars, refreshes, blamed>>

AllModels == Models \cup {NoModel}

PC == {"idle", "scan", "inflight", "done"}

Named(r) == model[r] # NoModel

Init ==
  /\ health = [t \in Targets |-> NewTarget]
  /\ modelHealth = [t \in Targets |-> [m \in Models |-> NewModel]]
  /\ inflight = [t \in Targets |-> 0]
  /\ binding = [k \in Keys |-> NoTarget]
  /\ pc = [r \in Requests |-> "idle"]
  /\ model = [r \in Requests |-> NoModel]
  /\ key = [r \in Requests |-> NoKey]
  /\ hit = [r \in Requests |-> NoTarget]
  /\ unseen = [r \in Requests |-> {}]
  /\ available = [r \in Requests |-> {}]
  /\ tried = [r \in Requests |-> {}]
  /\ target = [r \in Requests |-> NoTarget]
  /\ refreshes = 0
  /\ blamed = {}

\* sticky.Lookup, then the candidates of the request's model.
BeginScan(r, m, k) ==
  /\ hit' = [hit EXCEPT ![r] = IF k = NoKey THEN NoTarget ELSE binding[k]]
  /\ unseen' = [unseen EXCEPT ![r] = Serves[m]]
  /\ available' = [available EXCEPT ![r] = {}]
  /\ pc' = [pc EXCEPT ![r] = "scan"]

\* The request is over and its locals with it.
Over(r) ==
  /\ pc' = [pc EXCEPT ![r] = "done"]
  /\ model' = [model EXCEPT ![r] = NoModel]
  /\ key' = [key EXCEPT ![r] = NoKey]
  /\ hit' = [hit EXCEPT ![r] = NoTarget]
  /\ unseen' = [unseen EXCEPT ![r] = {}]
  /\ available' = [available EXCEPT ![r] = {}]
  /\ tried' = [tried EXCEPT ![r] = {}]

\* SelectWithBody: the first selection of a request.
Select(r) ==
  /\ pc[r] = "idle"
  /\ \E m \in AllModels, k \in Keys \cup {NoKey} :
       /\ model' = [model EXCEPT ![r] = m]
       /\ key' = [key EXCEPT ![r] = k]
       /\ BeginScan(r, m, k)
  /\ UNCHANGED <<health, modelHealth, inflight, binding, tried, target, refreshes,
                 blamed>>

(***************************************************************************)
(* canSelect on one candidate, under that target's mu.  The model's        *)
(* breaker is looked at only when the target's admits the request.  An     *)
(* excluded target is looked at too, and not kept.                         *)
(***************************************************************************)
Examine(r, t) ==
  LET m == model[r]
      admitted == Admits(health[t], inflight[t])
      selectable == admitted /\ (Named(r) => Admits(modelHealth[t][m], inflight[t]))
  IN
  /\ pc[r] = "scan"
  /\ t \in unseen[r]
  /\ health' = [health EXCEPT ![t] = Age(@)]
  /\ modelHealth' = IF admitted /\ Named(r)
                      THEN [modelHealth EXCEPT ![t][m] = Age(@)]
                      ELSE modelHealth
  /\ unseen' = [unseen EXCEPT ![r] = @ \ {t}]
  /\ available' = [available EXCEPT ![r] =
                     IF selectable /\ t \notin tried[r] THEN @ \cup {t} ELSE @]
  /\ UNCHANGED <<inflight, binding, pc, model, key, hit, tried, target, refreshes,
                 blamed>>

\* Mutant: a bound session goes to its target, tried or not, open or not.
MutChoices(r) == IF hit[r] # NoTarget THEN {hit[r]} ELSE available[r]

\* The bound target when it is available, any available one otherwise: the
\* cost order and the random pick of p2c are data.
Choices(r) == IF hit[r] \in available[r] THEN {hit[r]} ELSE available[r]

\* The pick, the new binding and onStart.
Start(r) ==
  /\ pc[r] = "scan"
  /\ unseen[r] = {}
  /\ available[r] # {}
  /\ \E t \in Choices(r) :
       /\ target' = [target EXCEPT ![r] = t]
       /\ inflight' = [inflight EXCEPT ![t] = @ + 1]
       /\ binding' = IF key[r] # NoKey /\ hit[r] \notin available[r]
                       THEN [binding EXCEPT ![key[r]] = t]
                       ELSE binding
  /\ pc' = [pc EXCEPT ![r] = "inflight"]
  /\ hit' = [hit EXCEPT ![r] = NoTarget]
  /\ available' = [available EXCEPT ![r] = {}]
  /\ UNCHANGED <<health, modelHealth, model, key, unseen, tried, refreshes, blamed>>

\* SelectionError: no_supporting_target, all_targets_open or all_targets_excluded.
SelectionFails(r) ==
  /\ pc[r] = "scan"
  /\ unseen[r] = {}
  /\ available[r] = {}
  /\ Over(r)
  /\ UNCHANGED <<health, modelHealth, inflight, binding, target, refreshes, blamed>>

\* Mutant: the last request of a target is taken off twice, with no guard.
MutReleasedTwice(t, o) == inflight[t] - 2

\* Mutant: a canceled request is not taken off its target.
MutReleased(t, o) == IF o.kind = "canceled" THEN inflight[t] ELSE inflight[t] - 1

\* releaseLocked, the first thing onFinish does whatever the outcome.
Released(t, o) == IF inflight[t] > 0 THEN inflight[t] - 1 ELSE inflight[t]

(***************************************************************************)
(* Complete: the request leaves its target and reports its outcome.  After *)
(* a failure the caller may select again with the target excluded.         *)
(***************************************************************************)
Complete(r) ==
  LET t == target[r]
      m == model[r]
  IN
  /\ pc[r] = "inflight"
  /\ \E o \in Outcomes :
       /\ blamed' = IF o.kind = "transport" \/ (o.kind = "status" /\ ~Named(r))
                     THEN blamed \cup {t} ELSE blamed
       /\ inflight' = [inflight EXCEPT ![t] = Released(t, o)]
       /\ \E h \in Finish(health[t], Named(r), o) : health' = [health EXCEPT ![t] = h]
       /\ IF shouldUpdateModelHealth(Named(r), o)
            THEN \E mh \in FinishModel(modelHealth[t][m], o) :
                   modelHealth' = [modelHealth EXCEPT ![t][m] = mh]
            ELSE UNCHANGED modelHealth
       /\ \/ Over(r)
          \/ /\ o.kind \notin {"success", "canceled"}
             /\ tried' = [tried EXCEPT ![r] = @ \cup {t}]
             /\ BeginScan(r, m, key[r])
             /\ UNCHANGED <<model, key>>
  /\ target' = [target EXCEPT ![r] = NoTarget]
  /\ UNCHANGED <<binding, refreshes>>

\* Release: a selection given back before anything was sent (limit rejection).
Release(r) ==
  LET t == target[r] IN
  /\ pc[r] = "inflight"
  /\ inflight' = [inflight EXCEPT ![t] = IF @ > 0 THEN @ - 1 ELSE @]
  /\ target' = [target EXCEPT ![r] = NoTarget]
  /\ Over(r)
  /\ UNCHANGED <<health, modelHealth, binding, refreshes, blamed>>

\* setRefreshResult with a failed discovery: the models' breakers are not touched.
RefreshFails(t) ==
  /\ refreshes < Refreshes
  /\ refreshes' = refreshes + 1
  /\ \E h \in RefreshFailed(health[t]) : health' = [health EXCEPT ![t] = h]
  /\ blamed' = blamed \cup {t}
  /\ UNCHANGED <<modelHealth, inflight, binding, requestVars>>

\* What a discovery that lists these models may leave of the breakers of t.
ModelsRefreshed(t, listed) ==
  LET After(m) == IF m \in listed THEN ModelRefreshed(modelHealth[t][m])
                                  ELSE {modelHealth[t][m]}
  IN {f \in [Models -> UNION {After(m) : m \in Models}] : \A m \in Models : f[m] \in After(m)}

\* setRefreshResult with the models the discovery listed.
RefreshWorks(t) ==
  /\ refreshes < Refreshes
  /\ refreshes' = refreshes + 1
  /\ \E h \in RefreshSucceeded(health[t]) : health' = [health EXCEPT ![t] = h]
  /\ \E listed \in SUBSET Models : \E mh \in ModelsRefreshed(t, listed) :
       modelHealth' = [modelHealth EXCEPT ![t] = mh]
  /\ UNCHANGED <<inflight, binding, requestVars, blamed>>

\* openUntil passes.
WindowElapses(t) ==
  /\ health[t].state = "open"
  /\ ~health[t].elapsed
  /\ health' = [health EXCEPT ![t].elapsed = TRUE]
  /\ UNCHANGED <<modelHealth, inflight, binding, requestVars, refreshes, blamed>>

ModelWindowElapses(t, m) ==
  /\ modelHealth[t][m].state = "open"
  /\ ~modelHealth[t][m].elapsed
  /\ modelHealth' = [modelHealth EXCEPT ![t][m].elapsed = TRUE]
  /\ UNCHANGED <<health, inflight, binding, requestVars, refreshes, blamed>>

\* The binding's hour is over: the next lookup deletes it.
BindingExpires(k) ==
  /\ binding[k] # NoTarget
  /\ binding' = [binding EXCEPT ![k] = NoTarget]
  /\ UNCHANGED <<health, modelHealth, inflight, requestVars, refreshes, blamed>>

Next ==
  \/ \E r \in Requests :
       \/ Select(r)
       \/ \E t \in Targets : Examine(r, t)
       \/ Start(r)
       \/ SelectionFails(r)
       \/ Complete(r)
       \/ Release(r)
  \/ \E t \in Targets :
       \/ RefreshFails(t)
       \/ RefreshWorks(t)
       \/ WindowElapses(t)
       \/ \E m \in Models : ModelWindowElapses(t, m)
  \/ \E k \in Keys : BindingExpires(k)

Spec == Init /\ [][Next]_vars

(***************************************************************************)
(* Fairness: a selection holds a read lock and never waits, and time       *)
(* passes.  That every request sent is completed is assumed of upstreams:  *)
(* they answer or their connection fails (the proxy's transport sets no    *)
(* response timeout).  Nothing is assumed of arrivals, refreshes or picks. *)
(***************************************************************************)
Ends(r) == Complete(r) \/ Release(r)

FairSpec ==
  /\ Spec
  /\ \A r \in Requests :
       /\ WF_vars(\E t \in Targets : Examine(r, t))
       /\ WF_vars(Start(r) \/ SelectionFails(r))
       /\ WF_vars(Ends(r))
  /\ \A t \in Targets : WF_vars(WindowElapses(t))

-------------------------------------------------------------------------------

TypeOK ==
  /\ health \in [Targets -> TargetHealths]
  /\ modelHealth \in [Targets -> [Models -> ModelHealths]]
  /\ inflight \in [Targets -> Nat]
  /\ binding \in [Keys -> Targets \cup {NoTarget}]
  /\ pc \in [Requests -> PC]
  /\ model \in [Requests -> AllModels]
  /\ key \in [Requests -> Keys \cup {NoKey}]
  /\ hit \in [Requests -> Targets \cup {NoTarget}]
  /\ unseen \in [Requests -> SUBSET Targets]
  /\ available \in [Requests -> SUBSET Targets]
  /\ tried \in [Requests -> SUBSET Targets]
  /\ target \in [Requests -> Targets \cup {NoTarget}]
  /\ refreshes \in 0 .. Refreshes
  /\ blamed \in SUBSET Targets

Serving(t) == {r \in Requests : pc[r] = "inflight" /\ target[r] = t}

\* The load a target is charged with, which probation and the cost order read,
\* is the number of requests on it: Complete and Release take each request off
\* once, on every outcome, and the guard of releaseLocked never hides a second.
InflightExact == \A t \in Targets : inflight[t] = Cardinality(Serving(t))

\* Failures that are one model's business, in any number, from any number of
\* requests and whatever late answers arrive, never open a target: only a
\* failure of its own (no answer, no model named, a failed discovery) does.
ModelFailuresStayInModel ==
  \A t \in Targets \ blamed : health[t].state # "open"

\* The failure counts never stay at the threshold or above between two steps,
\* on any path (outcome, model outcome, refresh): a breaker that opened starts
\* counting again from zero after its window.
FailuresBelowThreshold ==
  \A t \in Targets :
    /\ health[t].failures < FailureThreshold
    /\ \A m \in Models : modelHealth[t][m].failures < FailureThreshold

\* A retry never lands on a target its request has already tried, not even
\* through the sticky binding its session still has to that target.
TriedNotReselected ==
  \A r \in Requests : pc[r] = "inflight" => target[r] \notin tried[r]

\* An open target admits a request again in time, whatever it was serving
\* when it opened and whatever late failures those requests report.
OpenTargetRecovers ==
  \A t \in Targets :
    health[t].state = "open" ~> Admits(health[t], inflight[t])
================================================================================

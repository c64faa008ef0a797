------------------------------ MODULE TargetHealth ------------------------------
(***************************************************************************)
(* The circuit breaker of one upstream target and of one model on it:      *)
(* canSelect, onFinish, updateModelHealthLocked and applyRefreshHealthLocked *)
(* of internal/router/router.go, as operators on health records.           *)
(*                                                                         *)
(* The moving averages are kept as bands, cut where the code compares them *)
(* with a threshold (defaultCostConfig): "zero", "low", "degraded" (from   *)
(* 0.15 for errors, 0.10 for timeouts) and "open" (from 0.35 and 0.25).    *)
(* One update maps a band to every band its values can reach, so an        *)
(* operator that updates an average returns a set of records.              *)
(***************************************************************************)
EXTENDS Naturals

CONSTANT FailureThreshold   \* router.selection.failure_threshold

ASSUME ThresholdAssumption == FailureThreshold \in Nat \ {0}

HealthStates == {"healthy", "degraded", "open", "probation"}

Bands == {"zero", "low", "degraded", "open"}

\* elapsed: openUntil has passed (it is read only while the state is open).
TargetHealths ==
  [state : HealthStates, failures : Nat, elapsed : BOOLEAN, error : Bands, timeout : Bands]

ModelHealths ==
  [state : HealthStates, failures : Nat, elapsed : BOOLEAN, error : Bands]

NewTarget ==
  [state |-> "healthy", failures |-> 0, elapsed |-> FALSE, error |-> "zero", timeout |-> "zero"]

\* An absent modelHealth entry behaves as this one.
NewModel == [state |-> "healthy", failures |-> 0, elapsed |-> FALSE, error |-> "zero"]

(***************************************************************************)
(* ewma with FastAlpha = 0.30.  A sample of 0 multiplies by 0.7.  A sample *)
(* of 1 turns 0 into 1 at once, and any other x into 0.3 + 0.7 x, which is *)
(* above the timeout threshold whatever x was.                             *)
(***************************************************************************)
Decay(band) ==
  CASE band = "zero"     -> {"zero"}
    [] band = "low"      -> {"low"}
    [] band = "degraded" -> {"low", "degraded"}
    [] band = "open"     -> {"degraded", "open"}

Raise(band) == IF band = "low" THEN {"degraded", "open"} ELSE {"open"}

(***************************************************************************)
(* What a finished request reports (Outcome).                              *)
(*   success    2xx, the body complete                                     *)
(*   canceled   the client went away                                       *)
(*   transport  no status: the request never got an answer                 *)
(*   status     408, 429 or 5xx                                            *)
(*   client     any other status: not a health failure                     *)
(* timeout: 408, 504, or a stream with no first token.                     *)
(* slow: the fast TTFT average is 1.5 times the slow one, or more.         *)
(***************************************************************************)
Kinds == {"success", "canceled", "transport", "status", "client"}

Outcomes ==
  {o \in [kind : Kinds, timeout : BOOLEAN, slow : BOOLEAN] :
     o.timeout => o.kind \in {"transport", "status"}}

countsAsUpstreamHealthFailure(o) == o.kind \in {"transport", "status"}

\* Mutant: a failure counts against its model and against the whole target.
MutNeverModelScoped(named, o) == named /\ o.kind = "success"

\* named: the request names a model.
shouldUpdateModelHealth(named, o) == named /\ o.kind \in {"success", "status"}

\* A breaker changes state; its window, if any, starts from now.
Enter(h, state) == [[h EXCEPT !.state = state] EXCEPT !.elapsed = FALSE]

Forgiven(h) == [h EXCEPT !.failures = 0]

Tallied(h) == [h EXCEPT !.failures = @ + 1]

Opened(h) == Forgiven(Enter(h, "open"))

Rated(h, error, timeout) == [[h EXCEPT !.error = error] EXCEPT !.timeout = timeout]

(***************************************************************************)
(* canSelect.  Age is the transition it makes on the way: an open target   *)
(* whose window has passed is on probation.                                *)
(***************************************************************************)
Age(h) == IF h.state = "open" /\ h.elapsed THEN Enter(h, "probation") ELSE h

\* Probation admits a request only while the target serves none.
Admits(h, inflight) ==
  /\ Age(h).state # "open"
  /\ Age(h).state = "probation" => inflight < 1

\* The switch at the end of onFinish, once the averages are updated.
Verdict(h, o) ==
  IF h.state = "probation" /\ o.kind = "success"
    THEN Forgiven(Enter(h, "healthy"))
  ELSE IF h.failures >= FailureThreshold \/ h.error = "open" \/ h.timeout = "open"
    THEN Opened(h)
  ELSE IF h.error = "degraded" \/ h.timeout = "degraded" \/ o.slow
    THEN IF h.state = "probation" THEN h ELSE Enter(h, "degraded")
  ELSE IF h.state = "open" THEN h
       ELSE Enter(h, "healthy")

\* The averages and the failure count onFinish leaves, before the switch.
Counted(h, named, o) ==
  IF o.kind = "success"
    THEN {Rated(Forgiven(h), e, u) : e \in Decay(h.error), u \in Decay(h.timeout)}
  ELSE IF countsAsUpstreamHealthFailure(o) /\ ~shouldUpdateModelHealth(named, o)
    THEN {Rated(Tallied(h), e, u) :
            e \in Raise(h.error), u \in IF o.timeout THEN {"open"} ELSE Decay(h.timeout)}
  ELSE {h}

\* Mutant: the count is not reset when the target opens.
MutFinishKeepsFailures(h, named, o) ==
  IF o.kind = "canceled" THEN {h}
  ELSE {[Verdict(c, o) EXCEPT !.failures = c.failures] : c \in Counted(h, named, o)}

\* onFinish on the target: a canceled request says nothing of its health.
Finish(h, named, o) ==
  IF o.kind = "canceled" THEN {h} ELSE {Verdict(c, o) : c \in Counted(h, named, o)}

\* updateModelHealthLocked on a failure, once the average is updated.
ModelVerdict(m) ==
  IF m.state = "probation" \/ m.failures >= FailureThreshold \/ m.error = "open"
    THEN Opened(m)
  ELSE IF m.error = "degraded" THEN Enter(m, "degraded")
  ELSE m

\* updateModelHealthLocked, called when shouldUpdateModelHealth.
FinishModel(m, o) ==
  IF o.kind = "success"
    THEN {[Forgiven(Enter(m, "healthy")) EXCEPT !.error = e] : e \in Decay(m.error)}
    ELSE {ModelVerdict([Tallied(m) EXCEPT !.error = e]) : e \in Raise(m.error)}

(***************************************************************************)
(* applyRefreshHealthLocked: what a model discovery does to the breaker.   *)
(* A failed discovery leaves an average of zero alone.                     *)
(***************************************************************************)
Faulted(h) ==
  IF h.failures >= FailureThreshold THEN Opened(h)
  ELSE IF h.state = "open" THEN h
  ELSE [h EXCEPT !.state = "degraded"]

RefreshFailed(h) ==
  {Faulted([Tallied(h) EXCEPT !.error = e]) :
     e \in IF h.error = "zero" THEN {"zero"} ELSE Raise(h.error)}

Recovered(h) == IF h.state = "healthy" THEN h ELSE Enter(h, "probation")

RefreshSucceeded(h) ==
  {Recovered(Rated(Forgiven(h), e, u)) : e \in Decay(h.error), u \in Decay(h.timeout)}

\* The model's own breaker, when the discovery lists it.
ModelRefreshed(m) ==
  IF m.state = "healthy" THEN {m}
  ELSE {[Forgiven(Enter(m, "probation")) EXCEPT !.error = e] : e \in Decay(m.error)}
================================================================================

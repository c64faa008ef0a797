------------------------------ MODULE ModelRefresh ------------------------------
(***************************************************************************)
(* How the router learns which target serves which model.  A refresh asks  *)
(* each target for its models, one after the other, stores the lists under *)
(* the targets' own locks, writes them to the database if it may, and then *)
(* rebuilds the catalog under the router's lock.  Refreshes come from a    *)
(* background loop and from proxies about to retry; the proxies share one  *)
(* flight, the loop is outside it.  A reload replaces all the targets.     *)
(*                                                                         *)
(* setRefreshResult fills the new map of a target while rebuildCatalog may *)
(* be reading it: the two hold different locks.  What a read then sees is  *)
(* a part of the list, or the Go runtime ends the process.                 *)
(***************************************************************************)
EXTENDS Integers

CONSTANTS
  NumTargets,   \* targets, in the order of the configuration
  Lists,        \* lists of models a target may answer with
  Torn,         \* part of a list
  Proxies,      \* requests about to retry
  Background,   \* the refresh loop
  Nobody,       \* no one holds a lock
  MaxReloads    \* bound: reloads

Targets == 1 .. NumTargets

ASSUME RefreshAssumption ==
  /\ NumTargets \in Nat \ {0}
  /\ Torn \notin Lists /\ Lists # {}
  /\ Background \notin Proxies
  /\ Nobody \notin Proxies \cup {Background}
  /\ MaxReloads \in Nat

Callers == Proxies \cup {Background}

VARIABLES
  models,     \* Target.models, of the targets of each generation
  filler,     \* who fills it: the owner of that target's mutex
  running,    \* the generation in Router.targets
  catalog,    \* modelToTargets: the list it was built from, per target
  refreshing, \* a flight of RefreshNow is under way
  mu,         \* the writer of Router.mu
  pc,         \* where each caller is
  gen,        \* the targets it copied
  next,       \* the one it comes to next
  missed,     \* targets whose new list no rebuild will follow
  up          \* the process runs

vars == <<models, filler, running, catalog, refreshing, mu, pc, gen, next, missed, up>>

PCs == {"idle", "wait", "copy", "refresh", "fill", "persist", "lock", "rebuild", "land"}
Generations == 0 .. MaxReloads

(* New and Initialize refreshed every target and built the catalog. *)
Init ==
  /\ \E first \in [Targets -> Lists] :
       models = [g \in Generations |-> first] /\ catalog = first
  /\ filler = [g \in Generations |-> [t \in Targets |-> Nobody]]
  /\ running = 0 /\ refreshing = FALSE /\ mu = Nobody
  /\ pc = [c \in Callers |-> "idle"] /\ gen = [c \in Callers |-> 0]
  /\ next = [c \in Callers |-> 1]
  /\ missed = {} /\ up = TRUE

To(c, step) == up /\ pc' = [pc EXCEPT ![c] = step]
Advance(c) == next' = [next EXCEPT ![c] = IF @ = NumTargets THEN 1 ELSE @ + 1]
targetsUnchanged == UNCHANGED <<models, filler, running, up>>
catalogUnchanged == UNCHANGED <<catalog, mu, missed>>

-----------------------------------------------------------------------------
(* The flight. *)

RefreshNow(p) ==
  /\ pc[p] = "idle"
  /\ To(p, IF refreshing THEN "wait" ELSE "copy")
  /\ refreshing' = TRUE
  /\ UNCHANGED <<gen, next>> /\ targetsUnchanged /\ catalogUnchanged

(* A waiter is woken by the broadcast, and waits again when a newcomer has *)
(* begun the next flight before it looks.  It never refreshes itself.      *)
Wake(p) ==
  /\ pc[p] = "wait" /\ ~ refreshing
  /\ To(p, "idle")
  /\ UNCHANGED <<refreshing, gen, next>> /\ targetsUnchanged /\ catalogUnchanged

Tick ==
  /\ pc[Background] = "idle"
  /\ To(Background, "copy")
  /\ UNCHANGED <<refreshing, gen, next>> /\ targetsUnchanged /\ catalogUnchanged

(* The deferred function of RefreshNow; the loop has nothing to end. *)
Land(c) ==
  /\ pc[c] = "land"
  /\ To(c, "idle")
  /\ refreshing' = (c = Background /\ refreshing)
  /\ gen' = [gen EXCEPT ![c] = 0]
  /\ UNCHANGED next /\ targetsUnchanged /\ catalogUnchanged

-----------------------------------------------------------------------------
(* A refresh. *)

(* refreshAll copies Router.targets under the read lock. *)
Copy(c) ==
  /\ pc[c] = "copy" /\ mu = Nobody
  /\ To(c, "refresh")
  /\ gen' = [gen EXCEPT ![c] = running]
  /\ UNCHANGED <<refreshing, next>> /\ targetsUnchanged /\ catalogUnchanged

(* refreshTarget has asked a target; setRefreshResult locks it and makes a *)
(* new map.  A target that does not answer keeps its static list.          *)
BeginFill(c) ==
  /\ pc[c] = "refresh" /\ filler[gen[c]][next[c]] = Nobody
  /\ To(c, "fill")
  /\ models' = [models EXCEPT ![gen[c]][next[c]] = Torn]
  /\ filler' = [filler EXCEPT ![gen[c]][next[c]] = c]
  /\ UNCHANGED <<running, refreshing, gen, next, up>> /\ catalogUnchanged

EndFill(c) ==
  /\ pc[c] = "fill"
  /\ To(c, IF next[c] = NumTargets THEN "persist" ELSE "refresh")
  /\ \E list \in Lists : models' = [models EXCEPT ![gen[c]][next[c]] = list]
  /\ filler' = [filler EXCEPT ![gen[c]][next[c]] = Nobody]
  /\ Advance(c)
  /\ UNCHANGED <<running, refreshing, gen, up>> /\ catalogUnchanged

(* What a refresh that returns an error leaves behind. *)
Missed(c) == IF gen[c] = running THEN Targets ELSE {}

(* Mutant: an early return leaves the flight open. *)
MutAfterError(c) == "idle"

AfterError(c) == "land"

(* The rows are written, or a configuration change holds the upstream lock *)
(* and nothing is; or a write fails, and the caller skips the rebuild.     *)
Persist(c) ==
  /\ pc[c] = "persist"
  /\ \/ To(c, "lock") /\ UNCHANGED missed
     \/ To(c, AfterError(c)) /\ missed' = missed \cup Missed(c)
  /\ UNCHANGED <<refreshing, gen, next, catalog, mu>> /\ targetsUnchanged

LockRouter(c) ==
  /\ pc[c] = "lock" /\ mu = Nobody
  /\ To(c, "rebuild")
  /\ mu' = c
  /\ UNCHANGED <<refreshing, gen, next, catalog, missed>> /\ targetsUnchanged

-----------------------------------------------------------------------------
(* rebuildCatalog reads the running targets, one after the other. *)

(* Mutant: the targets the refresh copied, whether or not they still run. *)
MutSource(c) == gen[c]

Source(c) == running

ReadTarget(c) ==
  /\ pc[c] = "rebuild"
  /\ To(c, IF next[c] = NumTargets THEN "land" ELSE "rebuild")
  /\ catalog' = [catalog EXCEPT ![next[c]] = models[Source(c)][next[c]]]
  /\ missed' = missed \ {next[c]}
  /\ mu' = IF next[c] = NumTargets THEN Nobody ELSE mu
  /\ Advance(c)
  /\ UNCHANGED <<refreshing, gen>> /\ targetsUnchanged

(* fatal error: concurrent map iteration and map write *)
ReadDies(c) ==
  /\ pc[c] = "rebuild" /\ up
  /\ filler[Source(c)][next[c]] # Nobody
  /\ up' = FALSE
  /\ UNCHANGED <<models, filler, running, catalog, refreshing, mu, pc, gen, next, missed>>

(* ReloadWithCommit publishes new targets, refreshed before, with their    *)
(* catalog.  Refreshes under way go on with the old ones.                  *)
Reload ==
  /\ up /\ running < MaxReloads /\ mu = Nobody
  /\ running' = running + 1
  /\ \E lists \in [Targets -> Lists] :
       /\ models' = [models EXCEPT ![running + 1] = lists]
       /\ catalog' = lists
  /\ missed' = {}
  /\ UNCHANGED <<filler, refreshing, mu, pc, gen, next, up>>

Refresh(c) ==
  \/ Copy(c) \/ BeginFill(c) \/ EndFill(c) \/ Persist(c)
  \/ LockRouter(c) \/ ReadTarget(c) \/ ReadDies(c) \/ Land(c)

Next ==
  \/ \E p \in Proxies : RefreshNow(p) \/ Wake(p)
  \/ Tick \/ Reload
  \/ \E c \in Callers : Refresh(c)

Spec == Init /\ [][Next]_vars

(* A refresh goes on, its network calls having timeouts, and a waiter that *)
(* finds no flight returns.                                                *)
FairSpec ==
  /\ Spec
  /\ \A c \in Callers : SF_vars(Refresh(c))
  /\ \A p \in Proxies : WF_vars(Wake(p))

-----------------------------------------------------------------------------
(* A rebuild of the running targets comes after what c stored of t. *)
WillRead(c, t) ==
  \/ pc[c] = "rebuild" /\ t >= next[c]
  \/ pc[c] \in {"persist", "lock"}
  \/ pc[c] = "refresh" /\ t < next[c]
  \/ pc[c] = "fill" /\ t <= next[c]

(* The catalog and a target disagree only while somebody is about to read  *)
(* that target again, or after a refresh that could not write its rows:    *)
(* whichever refreshes and reloads overlap, and although the catalog may   *)
(* have been built from a list that was half filled.                       *)
CatalogAgrees ==
  \A t \in Targets :
    catalog[t] # models[running][t] => t \in missed \/ \E c \in Callers : WillRead(c, t)

(* RefreshNow returns, to the one who flies and to those who wait, on      *)
(* every error path; unless the process died, or flight follows on flight  *)
(* for ever.                                                               *)
RefreshNowReturns ==
  \A p \in Proxies :
    pc[p] # "idle" ~> (pc[p] = "idle" \/ ~ up \/ \E q \in Proxies \ {p} : pc[q] = "copy")
=============================================================================

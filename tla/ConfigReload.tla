------------------------------ MODULE ConfigReload ------------------------------
(***************************************************************************)
(* Configuration changes and refreshes: ConfigurationTransaction and the   *)
(* upstream write lock (internal/store/config_transaction.go), the handler *)
(* around them (internal/monitor/configuration.go), ReloadWithCommit and   *)
(* refreshTargets (internal/router/router.go).                             *)
(*                                                                         *)
(* A configuration gives each target the revision of its settings, or      *)
(* Absent.  It is what the database holds, what one transaction drafts,    *)
(* what the router runs, and what the rows of upstream_targets describe.   *)
(***************************************************************************)
EXTENDS Naturals

CONSTANTS
  Admins,        \* management requests
  Refreshers,    \* the background loop and proxies in RefreshNow
  Targets,       \* target ids
  Nobody,        \* no one holds a lock
  MaxRevision,   \* bound: changes of a target's settings
  MaxCrashes     \* bound: crashes of the process

ASSUME ConfigAssumption ==
  /\ Admins \cap Refreshers = {}
  /\ Nobody \notin Admins \cup Refreshers
  /\ MaxRevision \in Nat
  /\ MaxCrashes \in Nat

VARIABLES
  configMu,      \* sharedStore.configMu: its owner
  upstreamMu,    \* sharedStore.upstreamMu
  reloadMu,      \* Router.reloadMu
  committed,     \* the configuration in the database
  rows,          \* upstream_targets: the revision each row describes
  snapshot,      \* Router.targets
  step,          \* where each admin stands
  draft,         \* the configuration an admin's transaction holds
  phase,         \* where each refresher stands
  taken,         \* the targets a refresher copied, then the writes it keeps
  revision,      \* the last revision given
  crashes,
  diverged       \* a commit took effect and reported an error

locks == <<configMu, upstreamMu, reloadMu>>
adminVars == <<step, draft>>
refreshVars == <<phase, taken>>
vars == <<locks, committed, rows, snapshot, adminVars, refreshVars, revision, crashes, diverged>>

Absent == 0

Configurations == [Targets -> 0 .. MaxRevision]

Nothing == [t \in Targets |-> Absent]

Steps == {"idle", "config", "begin", "apply", "reload", "prepare", "commit", "publish", "finish"}

Phases == {"idle", "refreshing", "persist"}

\* Rows after the targets of a configuration are upserted: no row is deleted.
Upserted(config) == [t \in Targets |-> IF config[t] = Absent THEN rows[t] ELSE config[t]]

Init ==
  /\ configMu = Nobody /\ upstreamMu = Nobody /\ reloadMu = Nobody
  /\ committed = Nothing
  /\ rows = Nothing
  /\ snapshot = Nothing
  /\ step = [a \in Admins |-> "idle"]
  /\ draft = [a \in Admins |-> Nothing]
  /\ phase = [f \in Refreshers |-> "idle"]
  /\ taken = [f \in Refreshers |-> Nothing]
  /\ revision = 0
  /\ crashes = 0
  /\ diverged = FALSE

-------------------------------------------------------------------------------
\* A configuration change.

\* A management request that writes arrives.
Request(a) ==
  /\ step[a] = "idle"
  /\ step' = [step EXCEPT ![a] = "config"]
  /\ UNCHANGED <<locks, committed, rows, snapshot, draft, refreshVars, revision, crashes, diverged>>

LockConfig(a) ==
  /\ step[a] = "config"
  /\ configMu = Nobody
  /\ configMu' = a
  /\ step' = [step EXCEPT ![a] = "begin"]
  /\ UNCHANGED <<upstreamMu, reloadMu, committed, rows, snapshot, draft, refreshVars, revision,
                 crashes, diverged>>

\* upstreamMu, then BeginTx: the transaction sees what is committed.
LockUpstream(a) ==
  /\ step[a] = "begin"
  /\ upstreamMu = Nobody
  /\ upstreamMu' = a
  /\ \/ /\ step' = [step EXCEPT ![a] = "apply"]
        /\ draft' = [draft EXCEPT ![a] = committed]
     \/ /\ step' = [step EXCEPT ![a] = "finish"]
        /\ UNCHANGED draft
  /\ UNCHANGED <<configMu, reloadMu, committed, rows, snapshot, refreshVars, revision, crashes,
                 diverged>>

\* The handler edits the configuration in its transaction: new settings for a
\* target, or none.  RuntimeTargets then reads the draft.
Edit(a) ==
  /\ step[a] = "apply"
  /\ revision < MaxRevision
  /\ revision' = revision + 1
  /\ \E t \in Targets, r \in {revision + 1, Absent} : draft' = [draft EXCEPT ![a][t] = r]
  /\ step' = [step EXCEPT ![a] = "reload"]
  /\ UNCHANGED <<locks, committed, rows, snapshot, refreshVars, crashes, diverged>>

\* A rejected request rolls back; a failed probe and a settings reset commit
\* something that is no part of the routing.
NoRoutingChange(a) ==
  /\ step[a] = "apply"
  /\ step' = [step EXCEPT ![a] = "finish"]
  /\ UNCHANGED <<locks, committed, rows, snapshot, draft, refreshVars, revision, crashes, diverged>>

LockReload(a) ==
  /\ step[a] = "reload"
  /\ reloadMu = Nobody
  /\ reloadMu' = a
  /\ step' = [step EXCEPT ![a] = "prepare"]
  /\ UNCHANGED <<configMu, upstreamMu, committed, rows, snapshot, draft, refreshVars, revision,
                 crashes, diverged>>

\* buildTargets, and refreshTargetsWithStore through the transaction: an error
\* of either rolls back.
Prepare(a) ==
  /\ step[a] = "prepare"
  /\ step' \in {[step EXCEPT ![a] = "commit"], [step EXCEPT ![a] = "finish"]}
  /\ UNCHANGED <<locks, committed, rows, snapshot, draft, refreshVars, revision, crashes, diverged>>

\* Mutant: the new snapshot is published before the commit.
MutEarlySnapshot(a) == draft[a]

\* Mutant: the running snapshot loses the targets the draft leaves out.
MutPartialSnapshot(a) == [t \in {u \in Targets : draft[a][u] # Absent} |-> draft[a][t]]

\* What the router runs while the transaction commits.
CommitSnapshot(a) == snapshot

\* tx.Commit: it holds, or it fails, or it holds and the answer is lost.
Commit(a) ==
  /\ step[a] = "commit"
  /\ snapshot' = CommitSnapshot(a)
  /\ \/ /\ committed' = draft[a]
        /\ rows' = Upserted(draft[a])
        /\ \/ step' = [step EXCEPT ![a] = "publish"] /\ UNCHANGED diverged
           \/ step' = [step EXCEPT ![a] = "finish"] /\ diverged' = TRUE
     \/ /\ step' = [step EXCEPT ![a] = "finish"]
        /\ UNCHANGED <<committed, rows, diverged>>
  /\ UNCHANGED <<locks, draft, refreshVars, revision, crashes>>

\* The new snapshot and its catalog, under Router.mu.
Publish(a) ==
  /\ step[a] = "publish"
  /\ snapshot' = draft[a]
  /\ diverged' = FALSE
  /\ step' = [step EXCEPT ![a] = "finish"]
  /\ UNCHANGED <<locks, committed, rows, draft, refreshVars, revision, crashes>>

\* Mutant: a return that unlocks nothing.
MutFreed(mu, a) == mu

\* A deferred unlock: of what the request holds.
Freed(mu, a) == IF mu = a THEN Nobody ELSE mu

\* The deferred Rollback and unlocks.
Finish(a) ==
  /\ step[a] = "finish"
  /\ reloadMu' = Freed(reloadMu, a)
  /\ upstreamMu' = Freed(upstreamMu, a)
  /\ configMu' = Freed(configMu, a)
  /\ step' = [step EXCEPT ![a] = "idle"]
  /\ draft' = [draft EXCEPT ![a] = Nothing]
  /\ UNCHANGED <<committed, rows, snapshot, refreshVars, revision, crashes, diverged>>

-------------------------------------------------------------------------------
\* A refresh, by the background loop or by a proxy about to retry.

\* refreshAll copies the running targets, and goes to the network with them.
BeginRefresh(f) ==
  /\ phase[f] = "idle"
  /\ phase' = [phase EXCEPT ![f] = "refreshing"]
  /\ taken' = [taken EXCEPT ![f] = snapshot]
  /\ UNCHANGED <<locks, committed, rows, snapshot, adminVars, revision, crashes, diverged>>

\* Mutant: everything the refresh learned is written.
MutLiveWrites(f) == taken[f]

\* liveRefreshWrites: the results whose target id is still running.
LiveWrites(f) ==
  [t \in Targets |-> IF snapshot[t] = Absent THEN Absent ELSE taken[f][t]]

\* TryLockUpstreamWrites, and the filter under the lock.
TakeUpstream(f) ==
  /\ phase[f] = "refreshing"
  /\ upstreamMu = Nobody
  /\ upstreamMu' = f
  /\ taken' = [taken EXCEPT ![f] = LiveWrites(f)]
  /\ phase' = [phase EXCEPT ![f] = "persist"]
  /\ UNCHANGED <<configMu, reloadMu, committed, rows, snapshot, adminVars, revision, crashes,
                 diverged>>

\* Mutant: the refresh waits for the lock.
MutMaySkip(f) == FALSE

\* TryLock found the lock held.
MaySkip(f) == upstreamMu # Nobody

\* Nothing is stored: the lock is held, or the router has no targets.
SkipPersist(f) ==
  /\ phase[f] = "refreshing"
  /\ MaySkip(f) \/ taken[f] = Nothing
  /\ phase' = [phase EXCEPT ![f] = "idle"]
  /\ taken' = [taken EXCEPT ![f] = Nothing]
  /\ UNCHANGED <<locks, committed, rows, snapshot, adminVars, revision, crashes, diverged>>

\* persistRefreshWrites: one write, of the settings the refreshed target had.
PersistOne(f) ==
  /\ phase[f] = "persist"
  /\ \E t \in Targets :
       /\ taken[f][t] # Absent
       /\ rows' = [rows EXCEPT ![t] = taken[f][t]]
       /\ taken' = [taken EXCEPT ![f][t] = Absent]
  /\ UNCHANGED <<locks, committed, snapshot, adminVars, phase, revision, crashes, diverged>>

\* All is written, or a write failed: the rest is dropped, the lock released.
EndPersist(f) ==
  /\ phase[f] = "persist"
  /\ upstreamMu' = Freed(upstreamMu, f)
  /\ phase' = [phase EXCEPT ![f] = "idle"]
  /\ taken' = [taken EXCEPT ![f] = Nothing]
  /\ UNCHANGED <<configMu, reloadMu, committed, rows, snapshot, adminVars, revision, crashes,
                 diverged>>

\* The process dies and is started again: New and Initialize from the database.
Crash ==
  /\ crashes < MaxCrashes
  /\ crashes' = crashes + 1
  /\ configMu' = Nobody /\ upstreamMu' = Nobody /\ reloadMu' = Nobody
  /\ step' = [a \in Admins |-> "idle"]
  /\ draft' = [a \in Admins |-> Nothing]
  /\ phase' = [f \in Refreshers |-> "idle"]
  /\ taken' = [f \in Refreshers |-> Nothing]
  /\ snapshot' = committed
  /\ rows' = Upserted(committed)
  /\ diverged' = FALSE
  /\ UNCHANGED <<committed, revision>>

Next ==
  \/ \E a \in Admins :
       \/ Request(a)
       \/ LockConfig(a)
       \/ LockUpstream(a)
       \/ Edit(a)
       \/ NoRoutingChange(a)
       \/ LockReload(a)
       \/ Prepare(a)
       \/ Commit(a)
       \/ Publish(a)
       \/ Finish(a)
  \/ \E f \in Refreshers :
       \/ BeginRefresh(f)
       \/ TakeUpstream(f)
       \/ SkipPersist(f)
       \/ PersistOne(f)
       \/ EndPersist(f)
  \/ Crash

Spec == Init /\ [][Next]_vars

\* A refresh goes on: every network call of it has a timeout.
RefreshGoesOn(f) == TakeUpstream(f) \/ SkipPersist(f) \/ EndPersist(f)

(***************************************************************************)
(* Fairness of a refresh alone: no change is assumed to end.               *)
(***************************************************************************)
RefreshFairSpec == Spec /\ \A f \in Refreshers : WF_vars(RefreshGoesOn(f))

(***************************************************************************)
(* Fairness of changes and refreshes.  A sync.Mutex in starvation mode is  *)
(* handed over in arrival order, so a lock that is released again and      *)
(* again is obtained: strong fairness of the two lock steps.               *)
(***************************************************************************)
ChangeGoesOn(a) ==
  \/ Edit(a) \/ NoRoutingChange(a) \/ LockReload(a) \/ Prepare(a)
  \/ Commit(a) \/ Publish(a) \/ Finish(a)

ChangesGoOn ==
  \A a \in Admins : /\ SF_vars(LockConfig(a))
                    /\ SF_vars(LockUpstream(a))
                    /\ WF_vars(ChangeGoesOn(a))

-------------------------------------------------------------------------------

TypeOK ==
  /\ configMu \in Admins \cup {Nobody}
  /\ upstreamMu \in Admins \cup Refreshers \cup {Nobody}
  /\ reloadMu \in Admins \cup {Nobody}
  /\ committed \in Configurations
  /\ rows \in Configurations
  /\ snapshot \in Configurations
  /\ step \in [Admins -> Steps]
  /\ draft \in [Admins -> Configurations]
  /\ phase \in [Refreshers -> Phases]
  /\ taken \in [Refreshers -> Configurations]
  /\ revision \in 0 .. MaxRevision
  /\ crashes \in 0 .. MaxCrashes
  /\ diverged \in BOOLEAN

\* The router runs what the database holds, except while the change that was
\* just committed is on its way to be published: never a draft, never what a
\* failed commit left, never an older configuration once a change is over, and
\* so through crashes.  Only a commit whose answer was lost escapes.
SnapshotIsCommitted ==
  \/ diverged
  \/ snapshot = committed
  \/ \E a \in Admins : step[a] = "publish" /\ draft[a] = committed

\* A refresh that was under way when a change dropped its target leaves that
\* target's row alone: rows of targets that are not running never change.
NoResurrectedRow ==
  [][\A t \in Targets :
       ( /\ committed[t] = Absent /\ committed'[t] = Absent
         /\ ~diverged )
       => rows'[t] = rows[t]]_vars

\* A refresh ends even if a configuration change never does: a proxy that is
\* about to retry is not held up by an administrator.
RefreshNeverStalls ==
  \A f \in Refreshers : phase[f] = "refreshing" ~> phase[f] = "idle"

\* Changes that go on come to their end, whatever the other changes and the
\* refreshes do with the locks, and on every error path.
ChangesEnd ==
  ChangesGoOn => \A a \in Admins : step[a] = "config" ~> step[a] = "idle"
================================================================================

--------------------------- MODULE ConfigReloadProofs ---------------------------
(***************************************************************************)
(* The router runs committed configurations only, and no refresh brings    *)
(* back the row of a dropped target: for all sets of requests, refreshes   *)
(* and targets, with lost commits and crashes.                             *)
(***************************************************************************)
EXTENDS ConfigReload, TLAPS

USE ConfigAssumption

\* A change past its first lock owns the configuration, past the second the
\* upstream rows too; what it publishes is what it committed.
ChangesLocked ==
  \A a \in Admins :
    /\ step[a] \notin {"idle", "config"} => configMu = a
    /\ step[a] \notin {"idle", "config", "begin", "finish"} => upstreamMu = a
    /\ step[a] = "publish" => draft[a] = committed

\* A refresh that writes owns the rows, and only has writes for running targets.
WritesLive ==
  \A f \in Refreshers : phase[f] = "persist" =>
    /\ upstreamMu = f
    /\ \A t \in Targets : taken[f][t] # Absent => snapshot[t] # Absent

\* Inductive.
IInv == TypeOK /\ SnapshotIsCommitted /\ ChangesLocked /\ WritesLive

LEMMA InitInv == Init => IInv
<1> SUFFICES ASSUME Init PROVE IInv
  OBVIOUS
<1>1. Nothing \in Configurations
  BY DEF Nothing, Configurations, Absent
<1>2. TypeOK
  <2>1. /\ configMu \in Admins \cup {Nobody} /\ reloadMu \in Admins \cup {Nobody}
        /\ upstreamMu \in Admins \cup Refreshers \cup {Nobody}
        /\ committed \in Configurations /\ rows \in Configurations /\ snapshot \in Configurations
        /\ revision \in 0 .. MaxRevision /\ crashes \in 0 .. MaxCrashes
    BY <1>1 DEF Init
  <2>2. /\ step \in [Admins -> Steps] /\ draft \in [Admins -> Configurations]
        /\ phase \in [Refreshers -> Phases] /\ taken \in [Refreshers -> Configurations]
    BY <1>1 DEF Init, Steps, Phases
  <2> QED
    BY <2>1, <2>2 DEF Init, TypeOK
<1>3. SnapshotIsCommitted /\ ChangesLocked /\ WritesLive
  BY DEF Init, SnapshotIsCommitted, ChangesLocked, WritesLive
<1> QED
  BY <1>2, <1>3 DEF IInv

LEMMA UpsertedType ==
  ASSUME TypeOK, NEW c \in Configurations PROVE Upserted(c) \in Configurations
BY DEF TypeOK, Configurations, Upserted

\* A step of one admin that leaves the database, the snapshot, the refreshes
\* and the owner of the rows alone.
LEMMA AdminMoves ==
  ASSUME IInv, TypeOK', NEW a \in Admins, NEW s \in Steps \ {"publish"},
         step' = [step EXCEPT ![a] = s], step[a] # "publish",
         \A b \in Admins \ {a} : draft'[b] = draft[b],
         UNCHANGED <<committed, snapshot, refreshVars, diverged>>,
         \A b \in (Admins \cup Refreshers) \ {a} :
           (configMu = b => configMu' = b) /\ (upstreamMu = b => upstreamMu' = b),
         s \notin {"idle", "config"} => configMu' = a,
         s \notin {"idle", "config", "begin", "finish"} => upstreamMu' = a
  PROVE  IInv'
<1>1. \A b \in Admins \ {a} : step'[b] = step[b]
  BY DEF IInv, TypeOK
<1>2. step'[a] = s
  BY DEF IInv, TypeOK
<1>3. ChangesLocked'
  BY <1>1, <1>2 DEF IInv, ChangesLocked
<1>4. SnapshotIsCommitted'
  BY <1>1, <1>2 DEF IInv, SnapshotIsCommitted
<1>5. WritesLive'
  BY DEF IInv, WritesLive, refreshVars
<1> QED
  BY <1>3, <1>4, <1>5 DEF IInv

LEMMA RequestInv == ASSUME IInv, NEW a \in Admins, Request(a) PROVE IInv'
<1>1. TypeOK'
  BY DEF Request, IInv, TypeOK, Steps, locks, refreshVars
<1>2. "config" \in Steps \ {"publish"}
  BY DEF Steps
<1> QED
  BY <1>1, <1>2, AdminMoves DEF Request, locks

LEMMA LockConfigInv == ASSUME IInv, NEW a \in Admins, LockConfig(a) PROVE IInv'
<1>1. TypeOK'
  BY DEF LockConfig, IInv, TypeOK, Steps, refreshVars
<1>2. "begin" \in Steps \ {"publish"}
  BY DEF Steps
<1> QED
  BY <1>1, <1>2, AdminMoves DEF LockConfig

LEMMA LockUpstreamInv == ASSUME IInv, NEW a \in Admins, LockUpstream(a) PROVE IInv'
<1>0. configMu = a
  BY DEF LockUpstream, IInv, ChangesLocked
<1>1. CASE step' = [step EXCEPT ![a] = "apply"] /\ draft' = [draft EXCEPT ![a] = committed]
  <2>1. TypeOK'
    BY <1>1 DEF LockUpstream, IInv, TypeOK, Steps, refreshVars
  <2>2. "apply" \in Steps \ {"publish"}
    BY DEF Steps
  <2>3. \A b \in Admins \ {a} : draft'[b] = draft[b]
    BY <1>1 DEF IInv, TypeOK
  <2> QED
    BY <1>0, <1>1, <2>1, <2>2, <2>3, AdminMoves DEF LockUpstream
<1>2. CASE step' = [step EXCEPT ![a] = "finish"] /\ draft' = draft
  <2>1. TypeOK'
    BY <1>2 DEF LockUpstream, IInv, TypeOK, Steps, refreshVars
  <2>2. "finish" \in Steps \ {"publish"}
    BY DEF Steps
  <2> QED
    BY <1>0, <1>2, <2>1, <2>2, AdminMoves DEF LockUpstream
<1> QED
  BY <1>1, <1>2 DEF LockUpstream

LEMMA EditInv == ASSUME IInv, NEW a \in Admins, Edit(a) PROVE IInv'
<1>1. PICK t \in Targets, r \in {revision + 1, Absent} : draft' = [draft EXCEPT ![a][t] = r]
  BY DEF Edit
<1>2. /\ r \in 0 .. MaxRevision /\ revision' \in 0 .. MaxRevision
      /\ draft' \in [Admins -> Configurations]
      /\ \A b \in Admins \ {a} : draft'[b] = draft[b]
  BY <1>1 DEF Edit, IInv, TypeOK, Configurations, Absent
<1>3. TypeOK'
  BY <1>2 DEF Edit, IInv, TypeOK, Steps, locks, refreshVars
<1>4. "reload" \in Steps \ {"publish"} /\ configMu = a /\ upstreamMu = a
  BY DEF Edit, IInv, ChangesLocked, Steps
<1> QED
  BY <1>2, <1>3, <1>4, AdminMoves DEF Edit, locks

LEMMA NoRoutingChangeInv == ASSUME IInv, NEW a \in Admins, NoRoutingChange(a) PROVE IInv'
<1>1. TypeOK'
  BY DEF NoRoutingChange, IInv, TypeOK, Steps, locks, refreshVars
<1>2. "finish" \in Steps \ {"publish"} /\ configMu = a
  BY DEF NoRoutingChange, IInv, ChangesLocked, Steps
<1> QED
  BY <1>1, <1>2, AdminMoves DEF NoRoutingChange, locks

LEMMA LockReloadInv == ASSUME IInv, NEW a \in Admins, LockReload(a) PROVE IInv'
<1>1. TypeOK'
  BY DEF LockReload, IInv, TypeOK, Steps, refreshVars
<1>2. "prepare" \in Steps \ {"publish"} /\ configMu = a /\ upstreamMu = a
  BY DEF LockReload, IInv, ChangesLocked, Steps
<1> QED
  BY <1>1, <1>2, AdminMoves DEF LockReload

LEMMA PrepareInv == ASSUME IInv, NEW a \in Admins, Prepare(a) PROVE IInv'
<1>1. PICK s \in {"commit", "finish"} : step' = [step EXCEPT ![a] = s]
  BY DEF Prepare
<1>2. TypeOK'
  BY <1>1 DEF Prepare, IInv, TypeOK, Steps, locks, refreshVars
<1>3. s \in Steps \ {"publish"} /\ configMu = a /\ upstreamMu = a
  BY DEF Prepare, IInv, ChangesLocked, Steps
<1> QED
  BY <1>1, <1>2, <1>3, AdminMoves DEF Prepare, locks

\* While one change commits or publishes, no other is past its first lock and
\* no refresh writes.
LEMMA Alone ==
  ASSUME IInv, NEW a \in Admins, step[a] \in {"commit", "publish"}
  PROVE  /\ configMu = a /\ upstreamMu = a
         /\ \A b \in Admins \ {a} : step[b] \in {"idle", "config"}
         /\ \A f \in Refreshers : phase[f] # "persist"
<1>1. configMu = a /\ upstreamMu = a
  BY DEF IInv, ChangesLocked
<1> QED
  BY <1>1 DEF IInv, ChangesLocked, WritesLive

LEMMA CommitInv == ASSUME IInv, NEW a \in Admins, Commit(a) PROVE IInv'
<1>0. /\ step[a] = "commit" /\ snapshot' = snapshot
      /\ UNCHANGED <<locks, draft, refreshVars, revision, crashes>>
  BY DEF Commit, CommitSnapshot
<1>1. /\ configMu = a /\ upstreamMu = a
      /\ \A b \in Admins \ {a} : step[b] \in {"idle", "config"}
      /\ \A f \in Refreshers : phase[f] # "persist"
  BY <1>0, Alone
<1>2. PICK s \in {"publish", "finish"} : step' = [step EXCEPT ![a] = s]
  BY DEF Commit
<1>3. /\ committed' \in Configurations /\ rows' \in Configurations /\ diverged' \in BOOLEAN
  <2>1. draft[a] \in Configurations /\ TypeOK
    BY DEF IInv, TypeOK
  <2>2. Upserted(draft[a]) \in Configurations
    BY <2>1, UpsertedType
  <2>3. \/ committed' = draft[a] /\ rows' = Upserted(draft[a])
        \/ committed' = committed /\ rows' = rows
    BY DEF Commit
  <2>4. diverged' = diverged \/ diverged' = TRUE
    BY DEF Commit
  <2>5. diverged' \in BOOLEAN
    BY <2>1, <2>4 DEF TypeOK
  <2> QED
    BY <2>1, <2>2, <2>3, <2>5 DEF TypeOK
<1>4. TypeOK'
  BY <1>0, <1>2, <1>3 DEF IInv, TypeOK, Steps, locks, refreshVars
<1>5. step'[a] = s /\ \A b \in Admins \ {a} : step'[b] = step[b]
  BY <1>2 DEF IInv, TypeOK
<1>6. step'[a] = "publish" => draft'[a] = committed'
  BY <1>0, <1>2, <1>5 DEF Commit, IInv, TypeOK
<1>7. ChangesLocked'
  BY <1>0, <1>1, <1>5, <1>6 DEF ChangesLocked, locks
<1>8. SnapshotIsCommitted'
  <2>1. CASE committed' = draft[a] /\ step' = [step EXCEPT ![a] = "publish"]
    BY <1>0, <2>1 DEF SnapshotIsCommitted, IInv, TypeOK
  <2>2. CASE diverged' = TRUE
    BY <2>2 DEF SnapshotIsCommitted
  <2>3. CASE committed' = committed /\ diverged' = diverged
    BY <1>0, <1>1, <2>3 DEF SnapshotIsCommitted, IInv
  <2> QED
    BY <2>1, <2>2, <2>3 DEF Commit
<1>9. WritesLive'
  BY <1>0, <1>1 DEF WritesLive, refreshVars
<1> QED
  BY <1>4, <1>7, <1>8, <1>9 DEF IInv

LEMMA PublishInv == ASSUME IInv, NEW a \in Admins, Publish(a) PROVE IInv'
<1>0. /\ step[a] = "publish" /\ snapshot' = draft[a] /\ diverged' = FALSE
      /\ step' = [step EXCEPT ![a] = "finish"]
      /\ UNCHANGED <<locks, committed, rows, draft, refreshVars, revision, crashes>>
  BY DEF Publish
<1>1. /\ configMu = a /\ draft[a] = committed
      /\ \A b \in Admins \ {a} : step[b] \in {"idle", "config"}
      /\ \A f \in Refreshers : phase[f] # "persist"
  BY <1>0, Alone DEF IInv, ChangesLocked
<1>2. TypeOK'
  BY <1>0 DEF IInv, TypeOK, Steps, locks, refreshVars
<1>3. step'[a] = "finish" /\ \A b \in Admins \ {a} : step'[b] = step[b]
  BY <1>0 DEF IInv, TypeOK
<1>4. ChangesLocked'
  BY <1>0, <1>1, <1>3 DEF ChangesLocked, locks
<1>5. SnapshotIsCommitted'
  BY <1>0, <1>1 DEF SnapshotIsCommitted
<1>6. WritesLive'
  BY <1>0, <1>1 DEF WritesLive, refreshVars
<1> QED
  BY <1>2, <1>4, <1>5, <1>6 DEF IInv

LEMMA FinishInv == ASSUME IInv, NEW a \in Admins, Finish(a) PROVE IInv'
<1>1. /\ step' = [step EXCEPT ![a] = "idle"] /\ draft' = [draft EXCEPT ![a] = Nothing]
      /\ step[a] = "finish"
      /\ reloadMu' \in {reloadMu, Nobody} /\ upstreamMu' \in {upstreamMu, Nobody}
      /\ configMu' \in {configMu, Nobody}
      /\ UNCHANGED <<committed, rows, snapshot, refreshVars, revision, crashes, diverged>>
  BY DEF Finish, Freed
<1>2. Nothing \in Configurations
  BY DEF Nothing, Configurations, Absent
<1>3. TypeOK'
  BY <1>1, <1>2 DEF IInv, TypeOK, Steps, refreshVars
<1>4. \A b \in (Admins \cup Refreshers) \ {a} :
        (configMu = b => configMu' = b) /\ (upstreamMu = b => upstreamMu' = b)
  BY DEF Finish, Freed
<1>5. "idle" \in Steps \ {"publish"} /\ \A b \in Admins \ {a} : draft'[b] = draft[b]
  BY <1>1 DEF Steps, IInv, TypeOK
<1> QED
  BY <1>1, <1>3, <1>4, <1>5, AdminMoves

\* A step of a refresh leaves the changes alone.
LEMMA RefreshMoves ==
  ASSUME IInv, TypeOK', WritesLive',
         UNCHANGED <<configMu, committed, snapshot, adminVars, diverged>>,
         \A a \in Admins : upstreamMu = a => upstreamMu' = a
  PROVE  IInv'
<1>1. ChangesLocked'
  BY DEF IInv, ChangesLocked, adminVars
<1>2. SnapshotIsCommitted'
  BY DEF IInv, SnapshotIsCommitted, adminVars
<1> QED
  BY <1>1, <1>2 DEF IInv

LEMMA BeginRefreshInv == ASSUME IInv, NEW f \in Refreshers, BeginRefresh(f) PROVE IInv'
<1>1. TypeOK'
  BY DEF BeginRefresh, IInv, TypeOK, Phases, locks, adminVars
<1>2. WritesLive'
  BY DEF BeginRefresh, IInv, TypeOK, WritesLive, locks
<1> QED
  BY <1>1, <1>2, RefreshMoves DEF BeginRefresh, locks

LEMMA TakeUpstreamInv == ASSUME IInv, NEW f \in Refreshers, TakeUpstream(f) PROVE IInv'
<1>1. LiveWrites(f) \in Configurations
  BY DEF LiveWrites, Configurations, IInv, TypeOK, Absent
<1>2. TypeOK'
  BY <1>1 DEF TakeUpstream, IInv, TypeOK, Phases, adminVars
<1>3. \A t \in Targets : LiveWrites(f)[t] # Absent => snapshot[t] # Absent
  BY DEF LiveWrites
<1>4. WritesLive'
  BY <1>3 DEF TakeUpstream, IInv, TypeOK, WritesLive
<1> QED
  BY <1>2, <1>4, RefreshMoves DEF TakeUpstream

LEMMA SkipPersistInv == ASSUME IInv, NEW f \in Refreshers, SkipPersist(f) PROVE IInv'
<1>1. Nothing \in Configurations
  BY DEF Nothing, Configurations, Absent
<1>2. TypeOK'
  BY <1>1 DEF SkipPersist, IInv, TypeOK, Phases, locks, adminVars
<1>3. WritesLive'
  BY DEF SkipPersist, IInv, TypeOK, WritesLive, locks
<1> QED
  BY <1>2, <1>3, RefreshMoves DEF SkipPersist, locks

LEMMA PersistOneInv == ASSUME IInv, NEW f \in Refreshers, PersistOne(f) PROVE IInv'
<1>1. PICK t \in Targets :
        /\ rows' = [rows EXCEPT ![t] = taken[f][t]]
        /\ taken' = [taken EXCEPT ![f][t] = Absent]
  BY DEF PersistOne
<1>2. /\ rows' \in Configurations /\ taken' \in [Refreshers -> Configurations]
      /\ \A g \in Refreshers, u \in Targets :
           taken'[g][u] # Absent => taken'[g][u] = taken[g][u]
  BY <1>1 DEF IInv, TypeOK, Configurations, Absent
<1>3. TypeOK'
  BY <1>2 DEF PersistOne, IInv, TypeOK, locks, adminVars
<1>4. WritesLive'
  BY <1>2 DEF PersistOne, IInv, WritesLive, locks
<1> QED
  BY <1>3, <1>4, RefreshMoves DEF PersistOne, locks

LEMMA EndPersistInv == ASSUME IInv, NEW f \in Refreshers, EndPersist(f) PROVE IInv'
<1>1. Nothing \in Configurations
  BY DEF Nothing, Configurations, Absent
<1>2. TypeOK'
  BY <1>1 DEF EndPersist, Freed, IInv, TypeOK, Phases, adminVars
<1>3. upstreamMu = f /\ \A g \in Refreshers \ {f} : phase[g] # "persist"
  BY DEF EndPersist, IInv, WritesLive
<1>4. \A g \in Refreshers : phase'[g] # "persist"
  BY <1>3 DEF EndPersist, IInv, TypeOK
<1>5. WritesLive'
  BY <1>4 DEF WritesLive
<1> QED
  BY <1>2, <1>3, <1>5, RefreshMoves DEF EndPersist

LEMMA CrashInv == ASSUME IInv, Crash PROVE IInv'
<1>1. Nothing \in Configurations
  BY DEF Nothing, Configurations, Absent
<1>2. rows' \in Configurations
  BY UpsertedType DEF Crash, IInv, TypeOK
<1>3. TypeOK'
  <2>1. /\ configMu' \in Admins \cup {Nobody} /\ reloadMu' \in Admins \cup {Nobody}
        /\ upstreamMu' \in Admins \cup Refreshers \cup {Nobody}
        /\ committed' \in Configurations /\ snapshot' \in Configurations
        /\ revision' \in 0 .. MaxRevision /\ crashes' \in 0 .. MaxCrashes
    BY DEF Crash, IInv, TypeOK
  <2>2. /\ step' \in [Admins -> Steps] /\ draft' \in [Admins -> Configurations]
        /\ phase' \in [Refreshers -> Phases] /\ taken' \in [Refreshers -> Configurations]
    BY <1>1 DEF Crash, Steps, Phases
  <2> QED
    BY <1>2, <2>1, <2>2 DEF Crash, TypeOK
<1>4. SnapshotIsCommitted' /\ ChangesLocked' /\ WritesLive'
  BY DEF Crash, SnapshotIsCommitted, ChangesLocked, WritesLive
<1> QED
  BY <1>3, <1>4 DEF IInv

LEMMA NextInv == IInv /\ [Next]_vars => IInv'
<1> SUFFICES ASSUME IInv, [Next]_vars PROVE IInv'
  OBVIOUS
<1>1. ASSUME NEW a \in Admins,
             \/ Request(a) \/ LockConfig(a) \/ LockUpstream(a) \/ Edit(a) \/ NoRoutingChange(a)
             \/ LockReload(a) \/ Prepare(a) \/ Commit(a) \/ Publish(a) \/ Finish(a)
      PROVE  IInv'
  BY <1>1, RequestInv, LockConfigInv, LockUpstreamInv, EditInv, NoRoutingChangeInv,
     LockReloadInv, PrepareInv, CommitInv, PublishInv, FinishInv
<1>2. ASSUME NEW f \in Refreshers,
             \/ BeginRefresh(f) \/ TakeUpstream(f) \/ SkipPersist(f)
             \/ PersistOne(f) \/ EndPersist(f)
      PROVE  IInv'
  BY <1>2, BeginRefreshInv, TakeUpstreamInv, SkipPersistInv, PersistOneInv, EndPersistInv
<1>3. CASE Crash
  BY <1>3, CrashInv
<1>4. CASE UNCHANGED vars
  BY <1>4 DEF vars, locks, adminVars, refreshVars, IInv, TypeOK, SnapshotIsCommitted,
              ChangesLocked, WritesLive
<1> QED
  BY <1>1, <1>2, <1>3, <1>4 DEF Next

LEMMA Invariance == Spec => []IInv
<1>1. Init => IInv
  BY InitInv
<1>2. IInv /\ [Next]_vars => IInv'
  BY NextInv
<1> QED
  BY <1>1, <1>2, PTL DEF Spec

\* Every variable keeps its type.
THEOREM TypeCorrect == Spec => []TypeOK
<1>1. IInv => TypeOK
  BY DEF IInv
<1> QED
  BY <1>1, Invariance, PTL

\* ReloadWithCommit publishes what its transaction committed, and nothing else
\* changes the running snapshot: through rollbacks, failed commits and crashes.
THEOREM RunsCommittedConfiguration == Spec => []SnapshotIsCommitted
<1>1. IInv => SnapshotIsCommitted
  BY DEF IInv
<1> QED
  BY <1>1, Invariance, PTL

\* liveRefreshWrites, taken under the upstream lock, keeps a refresh that began
\* before a change from writing the rows of the targets the change dropped.
THEOREM NoRowResurrected == Spec => NoResurrectedRow
<1>1. IInv /\ [Next]_vars =>
        [\A t \in Targets :
           ( /\ committed[t] = Absent /\ committed'[t] = Absent
             /\ ~diverged )
           => rows'[t] = rows[t]]_vars
  <2> SUFFICES ASSUME IInv, [Next]_vars, NEW t \in Targets,
                      committed[t] = Absent, committed'[t] = Absent, ~diverged
               PROVE  rows'[t] = rows[t]
    OBVIOUS
  <2>1. CASE rows' = rows
    BY <2>1
  <2>2. ASSUME NEW a \in Admins, Commit(a) PROVE rows'[t] = rows[t]
    BY <2>2 DEF Commit, Upserted
  <2>3. ASSUME NEW f \in Refreshers, PersistOne(f) PROVE rows'[t] = rows[t]
    <3>1. PICK u \in Targets : taken[f][u] # Absent /\ rows' = [rows EXCEPT ![u] = taken[f][u]]
      BY <2>3 DEF PersistOne
    <3>2. upstreamMu = f /\ snapshot[u] # Absent
      BY <2>3, <3>1 DEF PersistOne, IInv, WritesLive
    <3>3. \A a \in Admins : step[a] # "publish"
      BY <3>2 DEF IInv, ChangesLocked
    <3>4. snapshot = committed
      BY <3>3 DEF IInv, SnapshotIsCommitted
    <3>5. u # t
      BY <3>2, <3>4
    <3> QED
      BY <3>1, <3>5 DEF IInv, TypeOK, Configurations
  <2>4. CASE Crash
    BY <2>4 DEF Crash, Upserted
  <2>5. \/ rows' = rows
        \/ \E a \in Admins : Commit(a)
        \/ \E f \in Refreshers : PersistOne(f)
        \/ Crash
    BY DEF Next, vars, Request, LockConfig, LockUpstream, Edit, NoRoutingChange, LockReload,
           Prepare, Publish, Finish, BeginRefresh, TakeUpstream, SkipPersist, EndPersist
  <2> QED
    BY <2>1, <2>2, <2>3, <2>4, <2>5
<1> QED
  BY <1>1, Invariance, PTL DEF Spec, NoResurrectedRow
================================================================================

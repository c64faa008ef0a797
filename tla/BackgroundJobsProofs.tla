------------------------ MODULE BackgroundJobsProofs ------------------------
(***************************************************************************)
(* The proofs about BackgroundJobs, for every number of traces, handlers,  *)
(* requests and mishaps.  The state falls into two parts that meet in      *)
(* little: the files, the index and the parse jobs on one side; the        *)
(* analysis jobs and those who execute them on the other.  Inv has the     *)
(* conjuncts of each.  What an executor knows of its job is ExecOK, and    *)
(* every step but a crash is a JobStep: one executor moves, every other    *)
(* one keeps what it knows because rows are never removed and keep what    *)
(* they were made for.                                                     *)
(***************************************************************************)
EXTENDS BackgroundJobs, SequenceTheorems, FiniteSetTheorems, TLAPS

JobType ==
  [scope : Scopes, trace : Traces \cup {0}, steps : SUBSET Steps, status : Status,
   attempts : Nat, over : SUBSET Traces, caller : Executors]
ParseType == [trace : Traces, status : ParseStatus]
ExecType(n) ==
  [pc : ExecPC, job : 0 .. n, outer : 0 .. n, todo : Seq(Traces), over : SUBSET Traces]

FileTypes ==
  /\ cassette \in [Traces -> Files] /\ recorder \in [Traces -> RecorderPC]
  /\ logs \subseteq Traces /\ rewritten \subseteq Traces
  /\ parseJobs \in Seq(ParseType)
  /\ parser \in [pc : ParserPC, job : 0 .. Len(parseJobs), list : Seq(1 .. Len(parseJobs))]
  /\ (parser.job = 0 <=> parser.pc = "idle")
  /\ reportedParses \subseteq 1 .. Len(parseJobs) /\ lostParses \subseteq 1 .. Len(parseJobs)
JobTypes ==
  /\ observations \subseteq Traces /\ findings \subseteq Traces
  /\ jobs \in Seq(JobType)
  /\ exec \in [Executors -> ExecType(Len(jobs))]
  /\ \A e \in Executors : exec[e].job = 0 <=> exec[e].pc = "idle"
  /\ listed \in Seq(1 .. Len(jobs))
  /\ reported \subseteq 1 .. Len(jobs) /\ lost \subseteq 1 .. Len(jobs)
BoundTypes ==
  asks \in 0 .. MaxAsks /\ faults \in 0 .. MaxMishaps /\ crashes \in 0 .. MaxMishaps

(* What x, an executor's state, has in hand that may be running, and the    *)
(* failure it is about to report.                                           *)
Has(x, j) == (x.job = j /\ x.pc \notin {"mark", "report"}) \/ x.outer = j
Reporting(x, j) == x.job = j /\ x.pc = "report"
(* What job j promised for the traces T is in the database. *)
Promise(js, obs, fnd, j, T) ==
  IF js[j].scope = "batch"
  THEN \A t \in T : \A s \in js[j].steps : \E k \in j + 1 .. Len(js) :
         js[k].trace = t /\ s \in js[k].steps
  ELSE /\ "reparse" \in js[j].steps => T \subseteq obs
       /\ "scan" \in js[j].steps => T \subseteq fnd
Of(job, T) == IF job.scope = "trace" THEN {job.trace} ELSE T

(* What e knows at x.pc of the job it executes, and of the session that waits for it. *)
AtPC(js, obs, fnd, ix, e, x) ==
  LET job == js[x.job] IN
  /\ e \in {Worker, job.caller}
  /\ x.pc \in {"list", "next"} => (job.scope # "trace" /\ x.outer = 0)
  /\ x.pc \in {"repair", "rewrite", "load", "parse", "save", "scan"} => job.scope = "trace"
  /\ x.pc \in {"repair", "rewrite"} => job.steps = {"repair"}
  /\ x.pc = "rewrite" => job.trace \in ix
  /\ x.pc = "load" => "reparse" \notin job.steps
  /\ x.pc = "save" => job.trace \in Traces
  /\ x.pc = "scan" => job.trace \in obs
  /\ x.pc = "next" => Promise(js, obs, fnd, x.job, x.over \ ToSet(x.todo))
  /\ x.pc = "complete" => Promise(js, obs, fnd, x.job, Of(job, x.over))
AtOuter(js, obs, fnd, e, x) ==
  /\ x.pc # "idle" /\ e \in {Worker, js[x.outer].caller}
  /\ js[x.job].scope = "trace" /\ js[x.outer].scope = "session"
  /\ js[x.job].steps = js[x.outer].steps
  /\ Promise(js, obs, fnd, x.outer, x.over \ (ToSet(x.todo) \cup {js[x.job].trace}))
ExecOK(js, obs, fnd, ix, e, x) ==
  /\ x.pc # "idle" => AtPC(js, obs, fnd, ix, e, x)
  /\ x.outer # 0 => AtOuter(js, obs, fnd, e, x)

Shape(job) ==
  (job.scope # "batch" /\ "repair" \in job.steps) => (job.scope = "trace" /\ job.steps = {"repair"})
JobShape == \A j \in 1 .. Len(jobs) : Shape(jobs[j])
ExecInv ==
  \A e \in Executors : ExecOK(jobs, observations, findings, logs, e, exec[e])
RunningInv ==
  \A j \in 1 .. Len(jobs) : jobs[j].status = "running" =>
    ((\E e \in Executors : Has(exec[e], j)) \/ j \in lost)
FailedInv ==
  \A j \in 1 .. Len(jobs) : jobs[j].status = "failed" =>
    \/ j \in reported \/ j \in lost \/ faults > 0
    \/ \E e \in Executors : Reporting(exec[e], j)
CompletedInv ==
  \A j \in 1 .. Len(jobs) : jobs[j].status = "completed" =>
    Promise(jobs, observations, findings, j, Of(jobs[j], jobs[j].over))

(* The worker may still begin job j; the caller that runs it has not begun. *)
Pending(js, ls, w, j) ==
  js[j].status = "queued" \/ j \in ToSet(ls) \/ (w.job = j /\ w.pc = "mark")
Calling(js, ex, j) ==
  js[j].caller # Worker /\ ex[js[j].caller].job = j /\ ex[js[j].caller].pc = "mark"
Allowed(js, j) == IF js[j].caller = Worker THEN 1 ELSE 2
(* The executions of job j that began and that may yet begin. *)
Tries(js, ex, ls, j) ==
  js[j].attempts + (IF Pending(js, ls, ex[Worker], j) THEN 1 ELSE 0)
                 + (IF Calling(js, ex, j) THEN 1 ELSE 0)
Attempts(js, ex, ls) ==
  /\ \A j \in 1 .. Len(js) : Tries(js, ex, ls, j) <= Allowed(js, j)
  /\ ex[Worker].pc = "mark" => ex[Worker].job \notin ToSet(ls)
  /\ \A k, l \in 1 .. Len(ls) : ls[k] = ls[l] => k = l
AttemptsInv == Attempts(jobs, exec, listed)

(* A parse job exists once its trace is indexed and its file was whole. *)
Written(t) == cassette[t] = "whole" \/ t \in rewritten
FileInv ==
  /\ \A i \in 1 .. Len(parseJobs) : parseJobs[i].trace \in logs /\ Written(parseJobs[i].trace)
  /\ \A t \in Traces :
       /\ recorder[t] = "none" => (t \notin logs /\ cassette[t] = "none")
       /\ recorder[t] \in {"index", "enqueue"} => Written(t)
       /\ recorder[t] = "enqueue" => t \in logs
Excused(i) ==
  parseJobs[i].trace \notin Parsable \/ parseJobs[i].trace \in rewritten \/ faults > 0
ParseInv ==
  /\ \A i \in 1 .. Len(parseJobs) :
       /\ parseJobs[i].status = "running" =>
            ((parser.job = i /\ parser.pc \in {"parse", "save", "done", "fail"}) \/ i \in lostParses)
       /\ parseJobs[i].status = "failed" =>
            /\ Excused(i)
            /\ \/ i \in reportedParses \/ i \in lostParses \/ faults > 0
               \/ parser.job = i /\ parser.pc = "report"
  /\ parser.pc = "fail" => Excused(parser.job)

FilePart == FileTypes /\ FileInv /\ ParseInv
RowsInv == JobTypes /\ JobShape /\ ExecInv /\ RunningInv /\ FailedInv /\ CompletedInv
Inv == BoundTypes /\ FilePart /\ RowsInv /\ AttemptsInv

-----------------------------------------------------------------------------
(* Sequences and listings. *)

(* The elements of an appended sequence. *)
LEMMA Appended ==
  ASSUME NEW S, NEW s \in Seq(S), NEW u \in Seq(S)
  PROVE  /\ s \o u \in Seq(S) /\ Len(s \o u) = Len(s) + Len(u)
         /\ \A i \in 1 .. Len(s) : (s \o u)[i] = s[i]
         /\ \A i \in Len(s) + 1 .. Len(s) + Len(u) : (s \o u)[i] = u[i - Len(s)]
<1>1. /\ s \o u \in Seq(S) /\ Len(s \o u) = Len(s) + Len(u)
      /\ \A i \in 1 .. Len(s) + Len(u) : (s \o u)[i] = IF i <= Len(s) THEN s[i] ELSE u[i - Len(s)]
  BY ConcatProperties
<1>2. Len(s) \in Nat /\ Len(u) \in Nat
  BY LenProperties
<1> QED
  BY <1>1, <1>2

(* One element more. *)
LEMMA OneMore ==
  ASSUME NEW S, NEW s \in Seq(S), NEW x \in S
  PROVE  /\ Append(s, x) \in Seq(S) /\ Len(Append(s, x)) = Len(s) + 1
         /\ \A i \in 1 .. Len(s) : Append(s, x)[i] = s[i]
         /\ Append(s, x)[Len(s) + 1] = x
  BY AppendProperties

(* The rows of a status are finitely many ids. *)
LEMMA IdsFinite ==
  ASSUME NEW S, NEW table \in Seq(S), NEW status
  PROVE  LET I == Ids(table, status) IN
         I \subseteq 1 .. Len(table) /\ Cardinality(I) \in Nat
<1> DEFINE I == Ids(table, status)
<1>1. I \subseteq 1 .. Len(table)
  BY DEF Ids
<1>2. Len(table) \in Int
  BY LenProperties
<1>3. IsFiniteSet(1 .. Len(table))
  BY <1>2, FS_Interval
<1>4. IsFiniteSet(I)
  BY <1>1, <1>3, FS_Subset
<1>5. Cardinality(I) \in Nat
  BY <1>4, FS_CardinalityType
<1> QED
  BY <1>1, <1>5

(* What is listed of the rows I is some of them, each once. *)
LEMMA ListingOf ==
  ASSUME NEW I, I \subseteq Int, Cardinality(I) \in Nat, NEW s \in Listings(I)
  PROVE  /\ s \in Seq(I) /\ ToSet(s) \subseteq I
         /\ \A k, l \in 1 .. Len(s) : s[k] = s[l] => k = l
<1> DEFINE n == IF Cardinality(I) < BatchSize THEN Cardinality(I) ELSE BatchSize
<1>1. n \in Nat
  BY JobsAssumption
<1>2. s \in [1 .. n -> I] /\ \A k, l \in 1 .. n : k < l => s[k] < s[l]
  BY DEF Listings
<1> HIDE DEF n
<1>3. s \in Seq(I) /\ Len(s) = n
  BY <1>1, <1>2
<1>4. ToSet(s) \subseteq I
  BY <1>2, <1>3 DEF ToSet
<1>5. ASSUME NEW k \in 1 .. Len(s), NEW l \in 1 .. Len(s), s[k] = s[l]
      PROVE  k = l
  <2>1. k \in 1 .. n /\ l \in 1 .. n
    BY <1>3
  <2>2. k \in Int /\ l \in Int
    BY <1>1, <2>1
  <2>3. s[k] \in Int /\ s[l] \in Int
    BY <1>2, <2>1
  <2> QED
    BY <1>2, <1>5, <2>1, <2>2, <2>3
<1> QED
  BY <1>3, <1>4, <1>5

(* An order of a finite set of traces is a sequence of them all. *)
LEMMA OrderOf ==
  ASSUME NEW T \in SUBSET Traces, NEW s \in Orders(T)
  PROVE  s \in Seq(Traces) /\ ToSet(s) = T
<1>1. NumTraces \in Int
  BY JobsAssumption
<1>2. IsFiniteSet(Traces)
  BY <1>1, FS_Interval DEF Traces
<1>3. IsFiniteSet(T)
  BY <1>2, FS_Subset
<1>4. Cardinality(T) \in Nat
  BY <1>3, FS_CardinalityType
<1>5. s \in [1 .. Cardinality(T) -> T] /\ ToSet(s) = T
  BY DEF Orders
<1> QED
  BY <1>4, <1>5

(* The head of a list and the rest of it. *)
LEMMA Taken ==
  ASSUME NEW S, NEW s \in Seq(S), s # <<>>
  PROVE  /\ Head(s) \in S /\ Tail(s) \in Seq(S)
         /\ ToSet(s) = {Head(s)} \cup ToSet(Tail(s))
         /\ (\A k, l \in 1 .. Len(s) : s[k] = s[l] => k = l) =>
              /\ Head(s) \notin ToSet(Tail(s))
              /\ \A k, l \in 1 .. Len(Tail(s)) : Tail(s)[k] = Tail(s)[l] => k = l
<1>1. /\ Head(s) \in S /\ Tail(s) \in Seq(S) /\ Len(Tail(s)) = Len(s) - 1
      /\ \A i \in 1 .. Len(Tail(s)) : Tail(s)[i] = s[i + 1]
  BY HeadTailProperties
<1>2. Len(s) \in Nat \ {0} /\ Head(s) = s[1] /\ DOMAIN s = 1 .. Len(s)
      /\ DOMAIN Tail(s) = 1 .. Len(Tail(s))
  BY <1>1, EmptySeq, LenProperties
<1>3. ToSet(s) = {s[i] : i \in 1 .. Len(s)} /\ ToSet(Tail(s)) = {Tail(s)[i] : i \in 1 .. Len(Tail(s))}
  BY <1>2 DEF ToSet
<1>4. ToSet(Tail(s)) = {s[i] : i \in 2 .. Len(s)}
  <2>1. ASSUME NEW i \in 1 .. Len(Tail(s)) PROVE i + 1 \in 2 .. Len(s) /\ Tail(s)[i] = s[i + 1]
    BY <1>1, <1>2
  <2>2. ASSUME NEW i \in 2 .. Len(s) PROVE i - 1 \in 1 .. Len(Tail(s)) /\ Tail(s)[i - 1] = s[i]
    <3>1. i - 1 \in 1 .. Len(Tail(s)) /\ (i - 1) + 1 = i
      BY <1>1, <1>2
    <3> QED
      BY <1>1, <3>1
  <2>3. ToSet(Tail(s)) \subseteq {s[i] : i \in 2 .. Len(s)}
    BY <1>3, <2>1
  <2>4. {s[i] : i \in 2 .. Len(s)} \subseteq ToSet(Tail(s))
    BY <1>3, <2>2
  <2> QED
    BY <2>3, <2>4
<1>5. ToSet(s) = {Head(s)} \cup ToSet(Tail(s))
  <2>1. 1 .. Len(s) = {1} \cup 2 .. Len(s)
    BY <1>2
  <2> QED
    BY <1>2, <1>3, <1>4, <2>1
<1>6. ASSUME \A k, l \in 1 .. Len(s) : s[k] = s[l] => k = l
      PROVE  /\ Head(s) \notin ToSet(Tail(s))
             /\ \A k, l \in 1 .. Len(Tail(s)) : Tail(s)[k] = Tail(s)[l] => k = l
  <2>1. Head(s) \notin ToSet(Tail(s))
    BY <1>2, <1>4, <1>6
  <2>2. ASSUME NEW k \in 1 .. Len(Tail(s)), NEW l \in 1 .. Len(Tail(s)), Tail(s)[k] = Tail(s)[l]
        PROVE  k = l
    <3>1. k + 1 \in 1 .. Len(s) /\ l + 1 \in 1 .. Len(s) /\ s[k + 1] = s[l + 1]
      BY <1>1, <1>2, <2>2
    <3>2. k + 1 = l + 1
      BY <1>6, <3>1
    <3> QED
      BY <1>1, <1>2, <3>2
  <2> QED
    BY <2>1, <2>2
<1> QED
  BY <1>1, <1>5, <1>6

(* Nothing is in an empty sequence. *)
LEMMA NothingLeft == ToSet(<<>>) = {}
  BY DEF ToSet

-----------------------------------------------------------------------------
(* Rows are added, never removed, and keep what they were made for: what an *)
(* executor knows of its job stays true while the others work.              *)

Grown(js, ks) ==
  /\ js \in Seq(JobType) /\ ks \in Seq(JobType) /\ Len(js) <= Len(ks)
  /\ \A j \in 1 .. Len(js) :
       /\ ks[j].scope = js[j].scope /\ ks[j].trace = js[j].trace
       /\ ks[j].steps = js[j].steps /\ ks[j].caller = js[j].caller

(* A kept promise stays kept, and so does one about fewer traces. *)
LEMMA PromiseKept ==
  ASSUME NEW js, NEW ks, Grown(js, ks), NEW obs, NEW obs2, obs \subseteq obs2,
         NEW fnd, NEW fnd2, fnd \subseteq fnd2, NEW j \in 1 .. Len(js),
         NEW T, NEW U \in SUBSET T, Promise(js, obs, fnd, j, T)
  PROVE  Promise(ks, obs2, fnd2, j, U)
<1>1. ks[j].scope = js[j].scope /\ ks[j].steps = js[j].steps
  BY DEF Grown
<1>2. CASE js[j].scope = "batch"
  <2>1. ASSUME NEW t \in U, NEW s \in js[j].steps
        PROVE  \E k \in j + 1 .. Len(ks) : ks[k].trace = t /\ s \in ks[k].steps
    <3>1. PICK k \in j + 1 .. Len(js) : js[k].trace = t /\ s \in js[k].steps
      BY <1>2, <2>1 DEF Promise
    <3>2. Len(js) \in Nat /\ Len(ks) \in Nat
      BY LenProperties DEF Grown
    <3>3. k \in 1 .. Len(js) /\ k \in j + 1 .. Len(ks)
      BY <3>1, <3>2 DEF Grown
    <3>4. ks[k].trace = t /\ s \in ks[k].steps
      BY <3>1, <3>3 DEF Grown
    <3> QED
      BY <3>3, <3>4
  <2> QED
    BY <1>1, <1>2, <2>1 DEF Promise
<1>3. CASE js[j].scope # "batch"
  BY <1>1, <1>3 DEF Promise
<1> QED
  BY <1>2, <1>3

(* What e knows stays true. *)
LEMMA ExecKept ==
  ASSUME NEW js, NEW ks, Grown(js, ks), NEW obs, NEW obs2, obs \subseteq obs2,
         NEW fnd, NEW fnd2, fnd \subseteq fnd2, NEW ix, NEW ix2, ix \subseteq ix2,
         NEW e, NEW x \in ExecType(Len(js)), x.job = 0 <=> x.pc = "idle",
         ExecOK(js, obs, fnd, ix, e, x)
  PROVE  ExecOK(ks, obs2, fnd2, ix2, e, x)
<1>1. Len(js) \in Nat
  BY LenProperties DEF Grown
<1>2. x.job \in 0 .. Len(js) /\ x.outer \in 0 .. Len(js)
  BY DEF ExecType
<1>3. ASSUME x.pc # "idle"
      PROVE  x.job \in 1 .. Len(js) /\ AtPC(js, obs, fnd, ix, e, x) /\ AtPC(ks, obs2, fnd2, ix2, e, x)
  <2>1. x.job \in 1 .. Len(js)
    BY <1>1, <1>2, <1>3
  <2>2. AtPC(js, obs, fnd, ix, e, x)
    BY <1>3 DEF ExecOK
  <2>3. /\ ks[x.job].scope = js[x.job].scope /\ ks[x.job].trace = js[x.job].trace
        /\ ks[x.job].steps = js[x.job].steps /\ ks[x.job].caller = js[x.job].caller
    BY <2>1 DEF Grown
  <2>4. x.pc = "next" => Promise(ks, obs2, fnd2, x.job, x.over \ ToSet(x.todo))
    BY <2>1, <2>2, PromiseKept DEF AtPC
  <2>5. x.pc = "complete" => Promise(ks, obs2, fnd2, x.job, Of(js[x.job], x.over))
    BY <2>1, <2>2, PromiseKept DEF AtPC
  <2>6. Of(js[x.job], x.over) = Of(ks[x.job], x.over)
    BY <2>3 DEF Of
  <2>7. AtPC(ks, obs2, fnd2, ix2, e, x)
    BY <2>2, <2>3, <2>4, <2>5, <2>6 DEF AtPC
  <2> QED
    BY <2>1, <2>2, <2>7
<1>4. ASSUME x.outer # 0
      PROVE  AtOuter(ks, obs2, fnd2, e, x)
  <2>1. x.outer \in 1 .. Len(js)
    BY <1>1, <1>2, <1>4
  <2>2. AtOuter(js, obs, fnd, e, x)
    BY <1>4 DEF ExecOK
  <2>3. x.job \in 1 .. Len(js)
    BY <1>3, <2>2 DEF AtOuter
  <2>4. /\ ks[x.job].scope = js[x.job].scope /\ ks[x.job].trace = js[x.job].trace
        /\ ks[x.job].steps = js[x.job].steps
        /\ ks[x.outer].scope = js[x.outer].scope /\ ks[x.outer].caller = js[x.outer].caller
        /\ ks[x.outer].steps = js[x.outer].steps
    BY <2>1, <2>3 DEF Grown
  <2>5. Promise(ks, obs2, fnd2, x.outer, x.over \ (ToSet(x.todo) \cup {js[x.job].trace}))
    BY <2>1, <2>2, PromiseKept DEF AtOuter
  <2> QED
    BY <2>2, <2>4, <2>5 DEF AtOuter
<1> QED
  BY <1>3, <1>4 DEF ExecOK

(* The states of an executor, as rows are added. *)
LEMMA ExecTypeGrows ==
  ASSUME NEW m \in Nat, NEW n \in Nat, m <= n, NEW x \in ExecType(m)
  PROVE  x \in ExecType(n)
  BY DEF ExecType

-----------------------------------------------------------------------------
(* A step of the executor e, which goes on as x; also every step that       *)
(* touches no executor.                                                     *)

RowOK(o, x, j) ==
  /\ jobs'[j].status = "running" =>
       \/ Has(x, j) \/ j \in lost'
       \/ jobs[j].status = "running" /\ ~ Has(o, j)
  /\ jobs'[j].status = "failed" =>
       \/ Reporting(x, j) \/ j \in reported' \/ j \in lost' \/ faults' > 0
       \/ jobs[j].status = "failed" /\ ~ Reporting(o, j)
  /\ jobs'[j].status = "completed" =>
       \/ Promise(jobs', observations', findings', j, Of(jobs'[j], jobs'[j].over))
       \/ jobs[j].status = "completed" /\ jobs'[j].over = jobs[j].over
NewRow(job) == job.status = "queued" /\ Shape(job)
ResultsGrow ==
  /\ observations \subseteq observations' /\ observations' \subseteq Traces
  /\ findings \subseteq findings' /\ findings' \subseteq Traces
  /\ logs \subseteq logs'
JobStep(e, x) ==
  /\ exec' = [exec EXCEPT ![e] = x]
  /\ x \in ExecType(Len(jobs')) /\ (x.job = 0 <=> x.pc = "idle")
  /\ Grown(jobs, jobs')
  /\ listed' \in Seq(1 .. Len(jobs'))
  /\ ResultsGrow
  /\ reported \subseteq reported' /\ reported' \subseteq 1 .. Len(jobs')
  /\ lost \subseteq lost' /\ lost' \subseteq 1 .. Len(jobs')
  /\ faults > 0 => faults' > 0
  /\ ExecOK(jobs', observations', findings', logs', e, x)
  /\ \A j \in 1 .. Len(jobs) : RowOK(exec[e], x, j)
  /\ \A j \in Len(jobs) + 1 .. Len(jobs') : NewRow(jobs'[j])

(* A JobStep keeps what is true of the rows and of those who execute them. *)
LEMMA JobStepKeeps ==
  ASSUME RowsInv, NEW e \in Executors, NEW x, JobStep(e, x)
  PROVE  RowsInv'
<1>1. /\ jobs \in Seq(JobType) /\ jobs' \in Seq(JobType)
      /\ Len(jobs) \in Nat /\ Len(jobs') \in Nat /\ Len(jobs) <= Len(jobs')
  BY LenProperties DEF JobStep, Grown
<1>2. exec \in [Executors -> ExecType(Len(jobs))] /\ \A f \in Executors : exec[f].job = 0 <=> exec[f].pc = "idle"
  BY DEF RowsInv, JobTypes
<1>3. \A f \in Executors : exec'[f] = IF f = e THEN x ELSE exec[f]
  BY <1>2 DEF JobStep
<1>4. JobTypes'
  <2>1. \A f \in Executors : exec'[f] \in ExecType(Len(jobs')) /\ (exec'[f].job = 0 <=> exec'[f].pc = "idle")
    <3> SUFFICES ASSUME NEW f \in Executors
                 PROVE  exec'[f] \in ExecType(Len(jobs')) /\ (exec'[f].job = 0 <=> exec'[f].pc = "idle")
      OBVIOUS
    <3>1. CASE f = e
      BY <1>3, <3>1 DEF JobStep
    <3>2. CASE f # e
      <4>1. exec[f] \in ExecType(Len(jobs')) 
        BY <1>1, <1>2, ExecTypeGrows
      <4> QED
        BY <1>2, <1>3, <3>2, <4>1
    <3> QED
      BY <3>1, <3>2
  <2>2. exec' \in [Executors -> ExecType(Len(jobs'))]
    BY <1>2, <2>1 DEF JobStep
  <2> QED
    BY <1>1, <2>1, <2>2 DEF JobTypes, JobStep, ResultsGrow
<1>5. JobShape'
  <2>1. ASSUME NEW j \in 1 .. Len(jobs') PROVE Shape(jobs'[j])
    <3>1. CASE j \in 1 .. Len(jobs)
      <4>1. Shape(jobs[j]) /\ jobs'[j].scope = jobs[j].scope /\ jobs'[j].steps = jobs[j].steps
        BY <3>1 DEF RowsInv, JobShape, JobStep, Grown
      <4> QED
        BY <4>1 DEF Shape
    <3>2. CASE j \notin 1 .. Len(jobs)
      <4>1. j \in Len(jobs) + 1 .. Len(jobs')
        BY <1>1, <3>2
      <4> QED
        BY <4>1 DEF JobStep, NewRow
    <3> QED
      BY <3>1, <3>2
  <2> QED
    BY <2>1 DEF JobShape
<1>6. ExecInv'
  <2>1. ASSUME NEW f \in Executors PROVE ExecOK(jobs', observations', findings', logs', f, exec'[f])
    <3>1. CASE f = e
      BY <1>3, <3>1 DEF JobStep
    <3>2. CASE f # e
      <4>1. ExecOK(jobs, observations, findings, logs, f, exec[f])
        BY DEF RowsInv, ExecInv
      <4>2. ExecOK(jobs', observations', findings', logs', f, exec[f])
        BY <1>2, <4>1, ExecKept DEF JobStep, ResultsGrow
      <4> QED
        BY <1>3, <3>2, <4>2
    <3> QED
      BY <3>1, <3>2
  <2> QED
    BY <2>1 DEF ExecInv
<1>7. ASSUME NEW j \in 1 .. Len(jobs'), jobs'[j].status # "queued"
      PROVE  j \in 1 .. Len(jobs) /\ RowOK(exec[e], x, j)
  <2>1. j \notin Len(jobs) + 1 .. Len(jobs')
    BY <1>7 DEF JobStep, NewRow
  <2>2. j \in 1 .. Len(jobs)
    BY <1>1, <2>1
  <2> QED
    BY <2>2 DEF JobStep
<1>8. RunningInv'
  <2>1. ASSUME NEW j \in 1 .. Len(jobs'), jobs'[j].status = "running"
        PROVE  (\E f \in Executors : Has(exec'[f], j)) \/ j \in lost'
    <3>1. j \in 1 .. Len(jobs) /\ RowOK(exec[e], x, j)
      BY <1>7, <2>1
    <3>2. CASE Has(x, j) \/ j \in lost'
      BY <1>3, <3>2
    <3>3. CASE jobs[j].status = "running" /\ ~ Has(exec[e], j)
      <4>1. (\E f \in Executors : Has(exec[f], j)) \/ j \in lost
        BY <3>1, <3>3 DEF RowsInv, RunningInv
      <4>2. CASE j \in lost
        BY <4>2 DEF JobStep
      <4>3. CASE \E f \in Executors : Has(exec[f], j)
        BY <1>3, <3>3, <4>3
      <4> QED
        BY <4>1, <4>2, <4>3
    <3> QED
      BY <2>1, <3>1, <3>2, <3>3 DEF RowOK
  <2> QED
    BY <2>1 DEF RunningInv
<1>9. FailedInv'
  <2>1. ASSUME NEW j \in 1 .. Len(jobs'), jobs'[j].status = "failed"
        PROVE  \/ j \in reported' \/ j \in lost' \/ faults' > 0
               \/ \E f \in Executors : Reporting(exec'[f], j)
    <3>1. j \in 1 .. Len(jobs) /\ RowOK(exec[e], x, j)
      BY <1>7, <2>1
    <3>2. CASE Reporting(x, j) \/ j \in reported' \/ j \in lost' \/ faults' > 0
      BY <1>3, <3>2
    <3>3. CASE jobs[j].status = "failed" /\ ~ Reporting(exec[e], j)
      <4>1. \/ j \in reported \/ j \in lost \/ faults > 0
            \/ \E f \in Executors : Reporting(exec[f], j)
        BY <3>1, <3>3 DEF RowsInv, FailedInv
      <4>2. CASE j \in reported \/ j \in lost \/ faults > 0
        BY <4>2 DEF JobStep
      <4>3. CASE \E f \in Executors : Reporting(exec[f], j)
        BY <1>3, <3>3, <4>3
      <4> QED
        BY <4>1, <4>2, <4>3
    <3> QED
      BY <2>1, <3>1, <3>2, <3>3 DEF RowOK
  <2> QED
    BY <2>1 DEF FailedInv
<1>10. CompletedInv'
  <2>1. ASSUME NEW j \in 1 .. Len(jobs'), jobs'[j].status = "completed"
        PROVE  Promise(jobs', observations', findings', j, Of(jobs'[j], jobs'[j].over))
    <3>1. j \in 1 .. Len(jobs) /\ RowOK(exec[e], x, j)
      BY <1>7, <2>1
    <3>2. CASE jobs[j].status = "completed" /\ jobs'[j].over = jobs[j].over
      <4>1. Promise(jobs, observations, findings, j, Of(jobs[j], jobs[j].over))
        BY <3>1, <3>2 DEF RowsInv, CompletedInv
      <4>2. Of(jobs'[j], jobs'[j].over) = Of(jobs[j], jobs[j].over)
        BY <3>1, <3>2 DEF JobStep, Grown, Of
      <4>3. Promise(jobs', observations', findings', j, Of(jobs[j], jobs[j].over))
        BY <3>1, <4>1, PromiseKept DEF JobStep, ResultsGrow
      <4> QED
        BY <4>2, <4>3
    <3> QED
      BY <2>1, <3>1, <3>2 DEF RowOK
  <2> QED
    BY <2>1 DEF CompletedInv
<1> QED
  BY <1>4, <1>5, <1>6, <1>8, <1>9, <1>10 DEF RowsInv

(* Mishaps are counted, never forgotten. *)
LEMMA FaultsCount ==
  ASSUME BoundTypes
  PROVE  /\ Works => faults' = faults /\ faults' \in 0 .. MaxMishaps
         /\ Fails => faults' > 0 /\ faults' \in 0 .. MaxMishaps
<1>1. MaxMishaps \in Nat
  BY JobsAssumption
<1> QED
  BY <1>1 DEF BoundTypes, Works, Fails

(* Nothing grows when nothing changes. *)
LEMMA GrownSelf ==
  ASSUME RowsInv, jobs' = jobs
  PROVE  Grown(jobs, jobs') /\ Len(jobs') = Len(jobs)
<1>1. jobs \in Seq(JobType)
  BY DEF RowsInv, JobTypes
<1>2. Len(jobs) \in Nat
  BY <1>1, LenProperties
<1> QED
  BY <1>1, <1>2 DEF Grown

(* A step that moves no executor. *)
LEMMA Unmoved ==
  ASSUME RowsInv, exec' = exec, Grown(jobs, jobs'), listed' \in Seq(1 .. Len(jobs')),
         ResultsGrow, reported' = reported, lost' = lost, faults > 0 => faults' > 0,
         \A j \in 1 .. Len(jobs) : jobs'[j] = jobs[j] \/ jobs'[j].status = "canceled",
         \A j \in Len(jobs) + 1 .. Len(jobs') : NewRow(jobs'[j])
  PROVE  JobStep(Worker, exec[Worker])
<1> DEFINE o == exec[Worker]
<1>0. Worker \in Executors
  BY DEF Executors
<1>1. exec \in [Executors -> ExecType(Len(jobs))] /\ (o.job = 0 <=> o.pc = "idle")
  BY <1>0 DEF RowsInv, JobTypes
<1>2. exec' = [exec EXCEPT ![Worker] = o]
  BY <1>1
<1>3. Len(jobs) \in Nat /\ Len(jobs') \in Nat /\ Len(jobs) <= Len(jobs')
  BY LenProperties DEF Grown
<1>4. o \in ExecType(Len(jobs')) /\ o \in ExecType(Len(jobs))
  BY <1>0, <1>1, <1>3, ExecTypeGrows
<1>5. reported \subseteq 1 .. Len(jobs') /\ lost \subseteq 1 .. Len(jobs')
  BY <1>3 DEF RowsInv, JobTypes
<1>6. ExecOK(jobs, observations, findings, logs, Worker, o)
  BY <1>0 DEF RowsInv, ExecInv
<1>7. ExecOK(jobs', observations', findings', logs', Worker, o)
  BY <1>1, <1>4, <1>6, ExecKept DEF ResultsGrow
<1>8. ASSUME NEW j \in 1 .. Len(jobs) PROVE RowOK(o, o, j)
  <2>1. CASE jobs'[j] = jobs[j]
    BY <2>1 DEF RowOK
  <2>2. CASE jobs'[j].status = "canceled"
    BY <2>2 DEF RowOK
  <2> QED
    BY <2>1, <2>2
<1> HIDE DEF o
<1> QED
  BY <1>1, <1>2, <1>4, <1>5, <1>7, <1>8 DEF JobStep, o

(* A step within the execution of a job, that touches no row. *)
Runs(pc) == pc \notin {"idle", "mark", "report"}
LEMMA Moved ==
  ASSUME RowsInv, NEW e \in Executors, NEW x \in ExecType(Len(jobs)),
         exec' = [exec EXCEPT ![e] = x], x.job = exec[e].job, x.outer = exec[e].outer,
         Runs(exec[e].pc), Runs(x.pc), UNCHANGED <<jobs, listed, reported, lost>>,
         ResultsGrow, faults > 0 => faults' > 0,
         ExecOK(jobs, observations', findings', logs', e, x)
  PROVE  JobStep(e, x)
<1>1. Grown(jobs, jobs') /\ Len(jobs') = Len(jobs) /\ jobs' = jobs
  BY GrownSelf
<1>2. exec[e].job = 0 <=> exec[e].pc = "idle"
  BY DEF RowsInv, JobTypes
<1>3. x.job = 0 <=> x.pc = "idle"
  BY <1>2 DEF Runs
<1>4. listed \in Seq(1 .. Len(jobs)) /\ reported \subseteq 1 .. Len(jobs) /\ lost \subseteq 1 .. Len(jobs)
  BY DEF RowsInv, JobTypes
<1>5. Len(jobs) \in Nat
  BY LenProperties DEF RowsInv, JobTypes
<1>6. ASSUME NEW j \in 1 .. Len(jobs) PROVE RowOK(exec[e], x, j)
  <2>1. Has(exec[e], j) => Has(x, j)
    BY DEF Has, Runs
  <2>2. ~ Reporting(exec[e], j)
    BY DEF Reporting, Runs
  <2> QED
    BY <1>1, <2>1, <2>2 DEF RowOK
<1>7. Len(jobs) + 1 .. Len(jobs') = {}
  BY <1>1, <1>5
<1> QED
  BY <1>1, <1>3, <1>4, <1>6, <1>7 DEF JobStep

(* Of one who fails nothing more is asked. *)
LEMMA FailKnows ==
  ASSUME NEW js, NEW obs, NEW fnd, NEW ix, NEW e, NEW o, NEW x,
         ExecOK(js, obs, fnd, ix, e, o), o.pc # "idle", x.pc \in {"fail", "report"},
         x.job = o.job, x.outer = o.outer, x.todo = o.todo, x.over = o.over
  PROVE  ExecOK(js, obs, fnd, ix, e, x)
<1>1. AtPC(js, obs, fnd, ix, e, x)
  BY DEF ExecOK, AtPC
<1>2. x.outer # 0 => AtOuter(js, obs, fnd, e, x)
  BY DEF ExecOK, AtOuter
<1> QED
  BY <1>1, <1>2 DEF ExecOK

(* Where an executor goes back to. *)
Back(o, ok) ==
  IF o.outer = 0 THEN AtRest
  ELSE [pc |-> IF ok THEN "next" ELSE "fail", job |-> o.outer,
        outer |-> 0, todo |-> o.todo, over |-> o.over]
LEMMA BackIs ==
  ASSUME NEW e, NEW ok \in BOOLEAN, Returned(e, ok)
  PROVE  exec' = [exec EXCEPT ![e] = Back(exec[e], ok)]
  BY DEF Returned, Back

(* It is a state of an executor, and holds the outer job only. *)
LEMMA BackType ==
  ASSUME NEW n \in Nat, NEW o \in ExecType(n), NEW ok \in BOOLEAN
  PROVE  LET x == Back(o, ok) IN
         /\ x \in ExecType(n) /\ (x.job = 0 <=> x.pc = "idle")
         /\ x.pc \in {"idle", "next", "fail"} /\ x.outer = 0 /\ x.job \in {0, o.outer}
         /\ \A j \in 1 .. n : o.outer = j => Has(x, j)
<1>1. <<>> \in Seq(Traces)
  BY EmptySeq
<1>2. CASE o.outer = 0
  BY <1>1, <1>2 DEF Back, AtRest, ExecType, ExecPC
<1>3. CASE o.outer # 0
  BY <1>3 DEF Back, ExecType, ExecPC, Has
<1> QED
  BY <1>2, <1>3

(* What it knows there: after a failure nothing; after a success, that the *)
(* outer job is done with one trace more.                                  *)
LEMMA BackKnows ==
  ASSUME NEW js, NEW obs, NEW fnd, NEW ix, NEW e, NEW o, NEW ok \in BOOLEAN,
         ExecOK(js, obs, fnd, ix, e, o),
         (ok /\ o.outer # 0) => Promise(js, obs, fnd, o.job, {js[o.job].trace})
  PROVE  ExecOK(js, obs, fnd, ix, e, Back(o, ok))
<1> DEFINE x == Back(o, ok)
<1>1. CASE o.outer = 0
  <2>1. x.pc = "idle" /\ x.outer = 0
    BY <1>1 DEF Back, AtRest
  <2> HIDE DEF x
  <2>2. ExecOK(js, obs, fnd, ix, e, x)
    BY <2>1 DEF ExecOK
  <2> QED
    BY <2>2 DEF x
<1>2. CASE o.outer # 0
  <2>1. AtOuter(js, obs, fnd, e, o)
    BY <1>2 DEF ExecOK
  <2>2. x = [pc |-> IF ok THEN "next" ELSE "fail", job |-> o.outer,
             outer |-> 0, todo |-> o.todo, over |-> o.over]
    BY <1>2 DEF Back
  <2>3. /\ x.pc = (IF ok THEN "next" ELSE "fail") /\ x.job = o.outer /\ x.outer = 0
        /\ x.todo = o.todo /\ x.over = o.over
    BY <2>2
  <2>4. ok => Promise(js, obs, fnd, o.outer, o.over \ ToSet(o.todo))
    <3> SUFFICES ASSUME ok PROVE Promise(js, obs, fnd, o.outer, o.over \ ToSet(o.todo))
      OBVIOUS
    <3>1. Promise(js, obs, fnd, o.job, {js[o.job].trace})
      BY <1>2
    <3>2. Promise(js, obs, fnd, o.outer, o.over \ (ToSet(o.todo) \cup {js[o.job].trace}))
      BY <2>1 DEF AtOuter
    <3>3. js[o.job].scope = "trace" /\ js[o.outer].scope = "session" /\ js[o.job].steps = js[o.outer].steps
      BY <2>1 DEF AtOuter
    <3> QED
      BY <3>1, <3>2, <3>3 DEF Promise
  <2> HIDE DEF x
  <2>5. AtPC(js, obs, fnd, ix, e, x)
    BY <2>1, <2>3, <2>4 DEF AtPC, AtOuter
  <2>6. ExecOK(js, obs, fnd, ix, e, x)
    BY <2>3, <2>5 DEF ExecOK
  <2> QED
    BY <2>6 DEF x
<1> QED
  BY <1>1, <1>2

-----------------------------------------------------------------------------
(* The steps of an execution. *)

(* A step that begins no job: it makes jobs for the worker only. *)
Quiet(e, x) ==
  /\ exec' = [exec EXCEPT ![e] = x] /\ listed' = listed /\ x.pc # "mark"
  /\ {x.job, x.outer} \subseteq {0, exec[e].job, exec[e].outer}
  /\ jobs' \in Seq(JobType) /\ Len(jobs) <= Len(jobs')
  /\ \A j \in 1 .. Len(jobs) :
       /\ jobs'[j].attempts = jobs[j].attempts /\ jobs'[j].caller = jobs[j].caller
       /\ jobs'[j].status = "queued" => jobs[j].status = "queued"
       /\ j # exec[e].job => jobs'[j].status = jobs[j].status
  /\ \A j \in Len(jobs) + 1 .. Len(jobs') : jobs'[j].attempts = 0 /\ jobs'[j].caller = Worker
Did(e) == \E x : JobStep(e, x) /\ Quiet(e, x)

(* What is known of an executor that has a job. *)
LEMMA AtWork ==
  ASSUME RowsInv, NEW e \in Executors, exec[e].pc # "idle"
  PROVE  /\ exec[e] \in ExecType(Len(jobs)) /\ exec[e].job \in 1 .. Len(jobs) /\ Len(jobs) \in Nat
         /\ Mine(e) \in JobType /\ Shape(Mine(e))
         /\ ExecOK(jobs, observations, findings, logs, e, exec[e])
         /\ AtPC(jobs, observations, findings, logs, e, exec[e])
<1>1. jobs \in Seq(JobType) /\ Len(jobs) \in Nat
  BY LenProperties DEF RowsInv, JobTypes
<1>2. exec[e] \in ExecType(Len(jobs)) /\ (exec[e].job = 0 <=> exec[e].pc = "idle")
  BY DEF RowsInv, JobTypes
<1>3. exec[e].job \in 0 .. Len(jobs)
  BY <1>2 DEF ExecType
<1>4. exec[e].job \in 1 .. Len(jobs)
  BY <1>1, <1>2, <1>3
<1>5. Mine(e) \in JobType /\ Shape(Mine(e))
  BY <1>1, <1>4, ElementOfSeq DEF RowsInv, JobShape, Mine
<1>6. ExecOK(jobs, observations, findings, logs, e, exec[e])
  BY DEF RowsInv, ExecInv
<1> QED
  BY <1>1, <1>2, <1>4, <1>5, <1>6 DEF ExecOK

(* A step that only goes on to x. *)
LEMMA Goes ==
  ASSUME RowsInv, NEW e \in Executors, NEW x \in ExecType(Len(jobs)),
         exec' = [exec EXCEPT ![e] = x], x.job = exec[e].job, x.outer = exec[e].outer,
         Runs(exec[e].pc), Runs(x.pc), UNCHANGED <<jobs, listed, reported, lost>>,
         ResultsGrow, faults > 0 => faults' > 0,
         ExecOK(jobs, observations', findings', logs', e, x)
  PROVE  Did(e)
<1>1. JobStep(e, x)
  BY Moved
<1>2. jobs \in Seq(JobType) /\ Len(jobs) \in Nat /\ jobs' = jobs
  BY LenProperties DEF RowsInv, JobTypes
<1>3. Quiet(e, x)
  BY <1>2 DEF Quiet, Runs
<1> QED
  BY <1>1, <1>3 DEF Did

(* The state at another pc. *)
LEMMA ToPC ==
  ASSUME RowsInv, NEW e \in Executors, NEW pc \in ExecPC, ExecTo(e, pc)
  PROVE  LET x == [exec[e] EXCEPT !.pc = pc] IN
         /\ exec' = [exec EXCEPT ![e] = x] /\ x \in ExecType(Len(jobs))
         /\ x.pc = pc /\ x.job = exec[e].job /\ x.outer = exec[e].outer
         /\ x.todo = exec[e].todo /\ x.over = exec[e].over
<1>1. exec[e] \in ExecType(Len(jobs))
  BY DEF RowsInv, JobTypes
<1> QED
  BY <1>1 DEF ExecTo, ExecType

(* A step to another pc, where e knows what is to be known there. *)
LEMMA GoesTo ==
  ASSUME RowsInv, NEW e \in Executors, NEW pc \in ExecPC, ExecTo(e, pc),
         Runs(exec[e].pc), Runs(pc), UNCHANGED <<jobs, listed, reported, lost>>,
         ResultsGrow, faults > 0 => faults' > 0,
         AtPC(jobs, observations', findings', logs', e, [exec[e] EXCEPT !.pc = pc])
  PROVE  Did(e)
<1> DEFINE x == [exec[e] EXCEPT !.pc = pc]
<1>1. /\ exec' = [exec EXCEPT ![e] = x] /\ x \in ExecType(Len(jobs))
      /\ x.pc = pc /\ x.job = exec[e].job /\ x.outer = exec[e].outer
      /\ x.todo = exec[e].todo /\ x.over = exec[e].over
  BY ToPC
<1>2. exec[e].pc # "idle"
  BY DEF Runs
<1>3. /\ exec[e] \in ExecType(Len(jobs)) /\ exec[e].job # 0
      /\ ExecOK(jobs, observations, findings, logs, e, exec[e])
  BY <1>2, AtWork
<1>4. Grown(jobs, jobs') /\ jobs' = jobs
  BY GrownSelf
<1>5. ExecOK(jobs, observations', findings', logs', e, exec[e])
  BY <1>2, <1>3, <1>4, ExecKept DEF ResultsGrow
<1>6. AtPC(jobs, observations', findings', logs', e, x)
  OBVIOUS
<1> HIDE DEF x
<1>7. x.outer # 0 => AtOuter(jobs, observations', findings', e, x)
  BY <1>1, <1>5 DEF ExecOK, AtOuter, Runs
<1>8. ExecOK(jobs, observations', findings', logs', e, x)
  BY <1>6, <1>7 DEF ExecOK
<1> QED
  BY <1>1, <1>8, Goes

(* A step to the deferred handler. *)
LEMMA GoesToFail ==
  ASSUME RowsInv, NEW e \in Executors, ExecTo(e, "fail"), Runs(exec[e].pc),
         UNCHANGED <<jobs, listed, reported, lost>>, ResultsGrow, faults > 0 => faults' > 0
  PROVE  Did(e)
<1>1. exec[e].pc # "idle"
  BY DEF Runs
<1>2. AtPC(jobs, observations, findings, logs, e, exec[e])
  BY <1>1, AtWork
<1>3. "fail" \in ExecPC /\ Runs("fail")
  BY DEF ExecPC, Runs
<1>4. LET x == [exec[e] EXCEPT !.pc = "fail"] IN x.pc = "fail" /\ x.job = exec[e].job
  BY <1>3, ToPC
<1>5. AtPC(jobs, observations', findings', logs', e, [exec[e] EXCEPT !.pc = "fail"])
  BY <1>2, <1>4 DEF AtPC
<1> QED
  BY <1>3, <1>5, GoesTo

(* Nothing of the results changes. *)
LEMMA SameResults ==
  ASSUME RowsInv, FileTypes, UNCHANGED <<observations, findings, logs>>
  PROVE  ResultsGrow
  BY DEF ResultsGrow, RowsInv, JobTypes

(* ListTraces keeps the rows right. *)
LEMMA ListTracesStep ==
  ASSUME RowsInv, FileTypes, BoundTypes, NEW e \in Executors, ListTraces(e)
  PROVE  Did(e)
<1>1. exec[e].pc = "list" /\ Runs(exec[e].pc) /\ exec[e].pc # "idle"
  BY DEF ListTraces, Runs
<1>2. UNCHANGED <<jobs, listed, reported, lost>> /\ ResultsGrow
  BY SameResults DEF ListTraces, execUnchanged, resultVars
<1>3. faults > 0 => faults' > 0
  BY FaultsCount DEF ListTraces
<1>4. CASE ExecTo(e, "fail")
  BY <1>1, <1>2, <1>3, <1>4, GoesToFail
<1>5. CASE \E todo \in IF Mine(e).scope = "session" /\ Mine(e).steps = {} THEN {<<>>} ELSE Orders(logs) :
             exec' = [exec EXCEPT ![e].pc = "next", ![e].todo = todo, ![e].over = logs]
  <2>1. PICK todo \in IF Mine(e).scope = "session" /\ Mine(e).steps = {} THEN {<<>>} ELSE Orders(logs) :
             exec' = [exec EXCEPT ![e].pc = "next", ![e].todo = todo, ![e].over = logs]
    BY <1>5
  <2>2. /\ exec[e] \in ExecType(Len(jobs)) /\ Mine(e) \in JobType
        /\ AtPC(jobs, observations, findings, logs, e, exec[e])
    BY <1>1, AtWork
  <2>3. exec \in [Executors -> ExecType(Len(jobs))]
    BY DEF RowsInv, JobTypes
  <2>4. logs \in SUBSET Traces /\ logs' = logs
    BY DEF FileTypes, ListTraces, execUnchanged
  <2>5. todo \in Seq(Traces) /\ ((Mine(e).scope = "session" /\ Mine(e).steps = {}) \/ ToSet(todo) = logs)
    BY <2>1, <2>4, OrderOf, EmptySeq
  <2> DEFINE x == [exec[e] EXCEPT !.pc = "next", !.todo = todo, !.over = logs]
  <2>6. exec' = [exec EXCEPT ![e] = x]
    BY <2>1, <2>2, <2>3 DEF ExecType
  <2>7. /\ x \in ExecType(Len(jobs)) /\ x.pc = "next" /\ x.job = exec[e].job /\ x.outer = exec[e].outer
        /\ x.todo = todo /\ x.over = logs
    BY <2>2, <2>4, <2>5 DEF ExecType, ExecPC
  <2> HIDE DEF x
  <2>8. Mine(e).scope # "trace" /\ exec[e].outer = 0 /\ e \in {Worker, Mine(e).caller}
    BY <1>1, <2>2 DEF AtPC, Mine
  <2>9. Promise(jobs, observations', findings', x.job, x.over \ ToSet(x.todo))
    <3>1. CASE ToSet(todo) = logs
      <4>1. x.over \ ToSet(x.todo) = {}
        BY <2>7, <3>1
      <4> QED
        BY <4>1 DEF Promise
    <3>2. CASE Mine(e).scope = "session" /\ Mine(e).steps = {}
      BY <2>7, <3>2 DEF Promise, Mine
    <3> QED
      BY <2>5, <3>1, <3>2
  <2>10. ExecOK(jobs, observations', findings', logs', e, x)
    BY <2>7, <2>8, <2>9 DEF ExecOK, AtPC, Mine
  <2>11. Runs(x.pc)
    BY <2>7 DEF Runs
  <2> QED
    BY <1>1, <1>2, <1>3, <2>6, <2>7, <2>10, <2>11, Goes
<1> QED
  BY <1>4, <1>5 DEF ListTraces

(* So does a caller that leaves. *)
LEMMA CallerLeftStep ==
  ASSUME RowsInv, FileTypes, BoundTypes, NEW e \in Executors, CallerLeft(e)
  PROVE  Did(e)
<1>1. Runs(exec[e].pc) /\ ExecTo(e, "fail")
  BY DEF CallerLeft, Runs
<1>2. UNCHANGED <<jobs, listed, reported, lost>> /\ ResultsGrow /\ faults' = faults
  BY SameResults DEF CallerLeft, execUnchanged, resultVars
<1> QED
  BY <1>1, <1>2, GoesToFail

(* So does the end of the traces. *)
LEMMA FinishTracesStep ==
  ASSUME RowsInv, FileTypes, BoundTypes, NEW e \in Executors, FinishTraces(e)
  PROVE  Did(e)
<1>1. exec[e].pc = "next" /\ Runs(exec[e].pc) /\ exec[e].pc # "idle" /\ exec[e].todo = <<>>
  BY DEF FinishTraces, Runs
<1>2. UNCHANGED <<jobs, listed, reported, lost, observations, findings, logs>> /\ ResultsGrow
  BY SameResults DEF FinishTraces, execUnchanged, resultVars
<1>3. faults > 0 => faults' > 0
  BY FaultsCount DEF FinishTraces
<1>4. CASE ExecTo(e, "fail")
  BY <1>1, <1>2, <1>3, <1>4, GoesToFail
<1>5. CASE ExecTo(e, "complete")
  <2>1. "complete" \in ExecPC /\ Runs("complete")
    BY DEF ExecPC, Runs
  <2>2. LET x == [exec[e] EXCEPT !.pc = "complete"] IN
        x.pc = "complete" /\ x.job = exec[e].job /\ x.over = exec[e].over
    BY <1>5, <2>1, ToPC
  <2>3. AtPC(jobs, observations, findings, logs, e, exec[e])
    BY <1>1, AtWork
  <2>4. Of(Mine(e), exec[e].over) = exec[e].over \ ToSet(exec[e].todo)
    BY <1>1, <2>3, NothingLeft DEF AtPC, Of, Mine
  <2>5. AtPC(jobs, observations', findings', logs', e, [exec[e] EXCEPT !.pc = "complete"])
    BY <1>1, <1>2, <2>2, <2>3, <2>4 DEF AtPC, Mine
  <2> QED
    BY <1>1, <1>2, <1>3, <1>5, <2>1, <2>5, GoesTo
<1> QED
  BY <1>4, <1>5 DEF FinishTraces

(* So does a repair. *)
LEMMA RepairUsageStep ==
  ASSUME RowsInv, FileTypes, BoundTypes, NEW e \in Executors, RepairUsage(e)
  PROVE  Did(e)
<1>1. exec[e].pc = "repair" /\ Runs(exec[e].pc) /\ exec[e].pc # "idle"
  BY DEF RepairUsage, Runs
<1>2. UNCHANGED <<jobs, listed, reported, lost, observations, findings, logs>> /\ ResultsGrow
  BY SameResults DEF RepairUsage, resultVars
<1>3. faults > 0 => faults' > 0
  BY FaultsCount DEF RepairUsage
<1>4. AtPC(jobs, observations, findings, logs, e, exec[e])
  BY <1>1, AtWork
<1>5. Mine(e).scope = "trace" /\ Mine(e).steps = {"repair"} /\ e \in {Worker, Mine(e).caller}
  BY <1>1, <1>4 DEF AtPC, Mine
<1>6. CASE ExecTo(e, "fail")
  BY <1>1, <1>2, <1>3, <1>6, GoesToFail
<1>7. ASSUME NEW pc \in {"complete", "rewrite"}, ExecTo(e, pc), pc = "rewrite" => Mine(e).trace \in logs
      PROVE  Did(e)
  <2>1. pc \in ExecPC /\ Runs(pc)
    BY <1>7 DEF ExecPC, Runs
  <2>2. LET x == [exec[e] EXCEPT !.pc = pc] IN x.pc = pc /\ x.job = exec[e].job
    BY <1>7, <2>1, ToPC
  <2>3. \A T : Promise(jobs, observations, findings, exec[e].job, T)
    BY <1>5 DEF Promise, Mine
  <2>4. AtPC(jobs, observations', findings', logs', e, [exec[e] EXCEPT !.pc = pc])
    BY <1>2, <1>5, <1>7, <2>2, <2>3 DEF AtPC, Mine
  <2> QED
    BY <1>1, <1>2, <1>3, <1>7, <2>1, <2>4, GoesTo
<1> QED
  BY <1>6, <1>7 DEF RepairUsage

(* So does its second half. *)
LEMMA RewriteCassetteStep ==
  ASSUME RowsInv, FileTypes, BoundTypes, NEW e \in Executors, RewriteCassette(e)
  PROVE  Did(e)
<1>1. exec[e].pc = "rewrite" /\ Runs(exec[e].pc) /\ exec[e].pc # "idle"
  BY DEF RewriteCassette, Runs
<1>2. UNCHANGED <<jobs, listed, reported, lost, observations, findings, logs>> /\ ResultsGrow
  BY SameResults DEF RewriteCassette, resultVars
<1>3. faults > 0 => faults' > 0
  BY FaultsCount DEF RewriteCassette
<1>4. AtPC(jobs, observations, findings, logs, e, exec[e])
  BY <1>1, AtWork
<1>5. Mine(e).scope = "trace" /\ Mine(e).steps = {"repair"} /\ e \in {Worker, Mine(e).caller}
  BY <1>1, <1>4 DEF AtPC, Mine
<1>6. CASE ExecTo(e, "fail")
  BY <1>1, <1>2, <1>3, <1>6, GoesToFail
<1>7. CASE ExecTo(e, "complete")
  <2>1. "complete" \in ExecPC /\ Runs("complete")
    BY DEF ExecPC, Runs
  <2>2. LET x == [exec[e] EXCEPT !.pc = "complete"] IN x.pc = "complete" /\ x.job = exec[e].job
    BY <1>7, <2>1, ToPC
  <2>3. \A T : Promise(jobs, observations, findings, exec[e].job, T)
    BY <1>5 DEF Promise, Mine
  <2>4. AtPC(jobs, observations', findings', logs', e, [exec[e] EXCEPT !.pc = "complete"])
    BY <1>2, <1>5, <2>2, <2>3 DEF AtPC, Mine
  <2> QED
    BY <1>1, <1>2, <1>3, <1>7, <2>1, <2>4, GoesTo
<1> QED
  BY <1>6, <1>7 DEF RewriteCassette

(* So does loading the observation: what is scanned is there. *)
LEMMA LoadObservationStep ==
  ASSUME RowsInv, FileTypes, BoundTypes, NEW e \in Executors, LoadObservation(e)
  PROVE  Did(e)
<1>1. exec[e].pc = "load" /\ Runs(exec[e].pc) /\ exec[e].pc # "idle"
  BY DEF LoadObservation, Runs
<1>2. UNCHANGED <<jobs, listed, reported, lost, observations, findings, logs>> /\ ResultsGrow
  BY SameResults DEF LoadObservation, execUnchanged, resultVars
<1>3. faults > 0 => faults' > 0
  BY FaultsCount DEF LoadObservation
<1>4. AtPC(jobs, observations, findings, logs, e, exec[e])
  BY <1>1, AtWork
<1>5. CASE ExecTo(e, "fail")
  BY <1>1, <1>2, <1>3, <1>5, GoesToFail
<1>6. CASE ExecTo(e, "scan") /\ Mine(e).trace \in observations
  <2>1. "scan" \in ExecPC /\ Runs("scan")
    BY DEF ExecPC, Runs
  <2>2. LET x == [exec[e] EXCEPT !.pc = "scan"] IN x.pc = "scan" /\ x.job = exec[e].job
    BY <1>6, <2>1, ToPC
  <2>3. AtPC(jobs, observations', findings', logs', e, [exec[e] EXCEPT !.pc = "scan"])
    BY <1>1, <1>2, <1>4, <1>6, <2>2 DEF AtPC, Mine
  <2> QED
    BY <1>1, <1>2, <1>3, <1>6, <2>1, <2>3, GoesTo
<1> QED
  BY <1>5, <1>6 DEF LoadObservation

(* So does reading the cassette. *)
LEMMA ReparseTraceStep ==
  ASSUME RowsInv, FileTypes, BoundTypes, NEW e \in Executors, ReparseTrace(e)
  PROVE  Did(e)
<1>1. exec[e].pc = "parse" /\ Runs(exec[e].pc) /\ exec[e].pc # "idle"
  BY DEF ReparseTrace, Runs
<1>2. UNCHANGED <<jobs, listed, reported, lost, observations, findings, logs>> /\ ResultsGrow
  BY SameResults DEF ReparseTrace, execUnchanged, resultVars
<1>3. faults > 0 => faults' > 0
  BY DEF ReparseTrace
<1>4. AtPC(jobs, observations, findings, logs, e, exec[e])
  BY <1>1, AtWork
<1>5. CASE ExecTo(e, "fail")
  BY <1>1, <1>2, <1>3, <1>5, GoesToFail
<1>6. CASE ExecTo(e, "save") /\ Readable(Mine(e).trace)
  <2>1. "save" \in ExecPC /\ Runs("save")
    BY DEF ExecPC, Runs
  <2>2. LET x == [exec[e] EXCEPT !.pc = "save"] IN x.pc = "save" /\ x.job = exec[e].job
    BY <1>6, <2>1, ToPC
  <2>3. Mine(e).trace \in Traces
    BY <1>6 DEF Readable, FileTypes
  <2>4. AtPC(jobs, observations', findings', logs', e, [exec[e] EXCEPT !.pc = "save"])
    BY <1>1, <1>2, <1>4, <2>2, <2>3 DEF AtPC, Mine
  <2> QED
    BY <1>1, <1>2, <1>3, <1>6, <2>1, <2>4, GoesTo
<1> QED
  BY <1>5, <1>6 DEF ReparseTrace

(* So does saving what was read. *)
LEMMA SaveObservationStep ==
  ASSUME RowsInv, FileTypes, BoundTypes, NEW e \in Executors, SaveObservation(e)
  PROVE  Did(e)
<1>1. exec[e].pc = "save" /\ Runs(exec[e].pc) /\ exec[e].pc # "idle"
  BY DEF SaveObservation, Runs
<1>2. UNCHANGED <<jobs, listed, reported, lost, findings, logs>>
  BY DEF SaveObservation, execUnchanged
<1>3. faults > 0 => faults' > 0
  BY FaultsCount DEF SaveObservation
<1>4. AtPC(jobs, observations, findings, logs, e, exec[e])
  BY <1>1, AtWork
<1>5. Mine(e).scope = "trace" /\ Mine(e).trace \in Traces /\ e \in {Worker, Mine(e).caller}
  BY <1>1, <1>4 DEF AtPC, Mine
<1>6. CASE ExecTo(e, "fail") /\ UNCHANGED observations
  <2>1. ResultsGrow
    BY <1>2, <1>6, SameResults
  <2> QED
    BY <1>1, <1>2, <1>3, <1>6, <2>1, GoesToFail
<1>7. ASSUME NEW pc, pc = (IF "scan" \in Mine(e).steps THEN "scan" ELSE "complete"), ExecTo(e, pc),
             observations' = observations \cup {Mine(e).trace}
      PROVE  Did(e)
  <2>1. pc \in ExecPC /\ Runs(pc) /\ pc \in {"scan", "complete"}
    BY <1>7 DEF ExecPC, Runs
  <2>2. LET x == [exec[e] EXCEPT !.pc = pc] IN
        x.pc = pc /\ x.job = exec[e].job /\ x.over = exec[e].over
    BY <1>7, <2>1, ToPC
  <2>3. ResultsGrow
    BY <1>2, <1>5, <1>7 DEF ResultsGrow, RowsInv, JobTypes
  <2>4. Of(Mine(e), exec[e].over) = {Mine(e).trace}
    BY <1>5 DEF Of
  <2>5. pc = "complete" => Promise(jobs, observations', findings', exec[e].job, {Mine(e).trace})
    BY <1>5, <1>7 DEF Promise, Mine
  <2>6. AtPC(jobs, observations', findings', logs', e, [exec[e] EXCEPT !.pc = pc])
    BY <1>5, <1>7, <2>1, <2>2, <2>4, <2>5 DEF AtPC, Mine
  <2> QED
    BY <1>1, <1>2, <1>3, <1>7, <2>1, <2>3, <2>6, GoesTo
<1> QED
  BY <1>6, <1>7 DEF SaveObservation

(* So does saving the findings. *)
LEMMA SaveFindingsStep ==
  ASSUME RowsInv, FileTypes, BoundTypes, NEW e \in Executors, SaveFindings(e)
  PROVE  Did(e)
<1>1. exec[e].pc = "scan" /\ Runs(exec[e].pc) /\ exec[e].pc # "idle"
  BY DEF SaveFindings, Runs
<1>2. UNCHANGED <<jobs, listed, reported, lost, observations, logs>>
  BY DEF SaveFindings, execUnchanged
<1>3. faults > 0 => faults' > 0
  BY FaultsCount DEF SaveFindings
<1>4. AtPC(jobs, observations, findings, logs, e, exec[e])
  BY <1>1, AtWork
<1>5. Mine(e).scope = "trace" /\ Mine(e).trace \in observations /\ e \in {Worker, Mine(e).caller}
  BY <1>1, <1>4 DEF AtPC, Mine
<1>6. CASE ExecTo(e, "fail") /\ UNCHANGED findings
  <2>1. ResultsGrow
    BY <1>2, <1>6, SameResults
  <2> QED
    BY <1>1, <1>2, <1>3, <1>6, <2>1, GoesToFail
<1>7. CASE ExecTo(e, "complete") /\ findings' = findings \cup {Mine(e).trace}
  <2>1. "complete" \in ExecPC /\ Runs("complete")
    BY DEF ExecPC, Runs
  <2>2. LET x == [exec[e] EXCEPT !.pc = "complete"] IN
        x.pc = "complete" /\ x.job = exec[e].job /\ x.over = exec[e].over
    BY <1>7, <2>1, ToPC
  <2>3. ResultsGrow
    BY <1>2, <1>5, <1>7 DEF ResultsGrow, RowsInv, JobTypes
  <2>4. Of(Mine(e), exec[e].over) = {Mine(e).trace}
    BY <1>5 DEF Of
  <2>5. Promise(jobs, observations', findings', exec[e].job, {Mine(e).trace})
    BY <1>2, <1>5, <1>7 DEF Promise, Mine
  <2>6. AtPC(jobs, observations', findings', logs', e, [exec[e] EXCEPT !.pc = "complete"])
    BY <1>5, <1>7, <2>1, <2>2, <2>4, <2>5 DEF AtPC, Mine
  <2> QED
    BY <1>1, <1>2, <1>3, <1>7, <2>1, <2>3, <2>6, GoesTo
<1> QED
  BY <1>6, <1>7 DEF SaveFindings

(* A row is written over, and stays what it was made for. *)
LEMMA RowSet ==
  ASSUME RowsInv, NEW j \in 1 .. Len(jobs), NEW row \in JobType,
         row.scope = jobs[j].scope, row.trace = jobs[j].trace,
         row.steps = jobs[j].steps, row.caller = jobs[j].caller,
         jobs' = [jobs EXCEPT ![j] = row]
  PROVE  /\ Grown(jobs, jobs') /\ Len(jobs') = Len(jobs) /\ Len(jobs) \in Nat
         /\ \A k \in 1 .. Len(jobs) : jobs'[k] = IF k = j THEN row ELSE jobs[k]
<1>1. jobs \in Seq(JobType) /\ Len(jobs) \in Nat
  BY LenProperties DEF RowsInv, JobTypes
<1>2. /\ jobs' \in Seq(JobType) /\ Len(jobs') = Len(jobs)
      /\ \A k \in 1 .. Len(jobs) : jobs'[k] = IF k = j THEN row ELSE jobs[k]
  BY <1>1, ExceptSeq
<1> QED
  BY <1>1, <1>2 DEF Grown

(* A step that ends the job in a row. *)
LEMMA Settles ==
  ASSUME RowsInv, NEW e \in Executors, Runs(exec[e].pc),
         NEW x \in ExecType(Len(jobs)), x.job = 0 <=> x.pc = "idle", x.pc # "mark",
         {x.job, x.outer} \subseteq {0, exec[e].job, exec[e].outer},
         exec' = [exec EXCEPT ![e] = x],
         NEW row \in JobType, row.scope = Mine(e).scope, row.trace = Mine(e).trace,
         row.steps = Mine(e).steps, row.caller = Mine(e).caller, row.attempts = Mine(e).attempts,
         row.status \in {"completed", "failed"}, jobs' = [jobs EXCEPT ![exec[e].job] = row],
         UNCHANGED <<listed, reported, lost>>, ResultsGrow, faults > 0 => faults' > 0,
         ExecOK(jobs', observations', findings', logs', e, x),
         row.status = "completed" =>
           Promise(jobs, observations, findings, exec[e].job, Of(row, row.over)),
         row.status = "failed" => Reporting(x, exec[e].job),
         exec[e].outer # 0 => Has(x, exec[e].outer)
  PROVE  Did(e)
<1> DEFINE o == exec[e]
<1>1. /\ o.job \in 1 .. Len(jobs) /\ Len(jobs) \in Nat
  BY AtWork DEF Runs
<1>2. /\ Grown(jobs, jobs') /\ Len(jobs') = Len(jobs)
      /\ \A k \in 1 .. Len(jobs) : jobs'[k] = IF k = o.job THEN row ELSE jobs[k]
  BY <1>1, RowSet DEF Mine
<1>3. listed' \in Seq(1 .. Len(jobs')) /\ reported' \subseteq 1 .. Len(jobs') /\ lost' \subseteq 1 .. Len(jobs')
  BY <1>2 DEF RowsInv, JobTypes
<1>4. ASSUME NEW j \in 1 .. Len(jobs) PROVE RowOK(o, x, j)
  <2>1. CASE j = o.job
    <3>1. jobs'[j] = row
      BY <1>2, <2>1
    <3>2. row.status = "completed" =>
            Promise(jobs', observations', findings', j, Of(row, row.over))
      BY <1>2, <2>1, PromiseKept DEF ResultsGrow
    <3> QED
      BY <2>1, <3>1, <3>2 DEF RowOK
  <2>2. CASE j # o.job
    <3>1. jobs'[j] = jobs[j]
      BY <1>2, <2>2
    <3>2. Has(o, j) => Has(x, j)
      BY <2>2 DEF Has
    <3>3. ~ Reporting(o, j)
      BY DEF Runs, Reporting
    <3> QED
      BY <3>1, <3>2, <3>3 DEF RowOK
  <2> QED
    BY <2>1, <2>2
<1>5. Len(jobs) + 1 .. Len(jobs') = {}
  BY <1>1, <1>2
<1>6. JobStep(e, x)
  BY <1>2, <1>3, <1>4, <1>5 DEF JobStep
<1>7. Quiet(e, x)
  <2>1. jobs' \in Seq(JobType) /\ Len(jobs) <= Len(jobs')
    BY <1>2 DEF Grown
  <2>2. ASSUME NEW j \in 1 .. Len(jobs)
        PROVE  /\ jobs'[j].attempts = jobs[j].attempts /\ jobs'[j].caller = jobs[j].caller
               /\ jobs'[j].status = "queued" => jobs[j].status = "queued"
               /\ j # o.job => jobs'[j].status = jobs[j].status
    BY <1>2 DEF Mine
  <2> QED
    BY <1>5, <2>1, <2>2 DEF Quiet
<1> QED
  BY <1>6, <1>7 DEF Did

(* A step that leaves the row as it is and returns an error. *)
LEMMA Leaves ==
  ASSUME RowsInv, NEW e \in Executors, exec[e].pc # "idle", Returned(e, FALSE),
         UNCHANGED <<jobs, listed>>, ResultsGrow, faults > 0 => faults' > 0,
         reported \subseteq reported', reported' \subseteq 1 .. Len(jobs),
         lost \subseteq lost', lost' \subseteq 1 .. Len(jobs),
         Runs(exec[e].pc) => exec[e].job \in lost',
         exec[e].pc = "report" => (exec[e].job \in reported' \/ faults' > 0)
  PROVE  Did(e)
<1> DEFINE o == exec[e]  x == Back(o, FALSE)
<1>1. /\ o \in ExecType(Len(jobs)) /\ o.job \in 1 .. Len(jobs) /\ Len(jobs) \in Nat
      /\ ExecOK(jobs, observations, findings, logs, e, o)
  BY AtWork
<1>2. Grown(jobs, jobs') /\ jobs' = jobs
  BY GrownSelf
<1>3. exec' = [exec EXCEPT ![e] = x]
  BY BackIs
<1>4. /\ x \in ExecType(Len(jobs)) /\ (x.job = 0 <=> x.pc = "idle")
      /\ x.pc \in {"idle", "next", "fail"} /\ x.outer = 0 /\ x.job \in {0, o.outer}
      /\ \A j \in 1 .. Len(jobs) : o.outer = j => Has(x, j)
  BY <1>1, BackType
<1>5. ExecOK(jobs, observations, findings, logs, e, x)
  BY <1>1, BackKnows
<1>6. listed' \in Seq(1 .. Len(jobs)) /\ jobs \in Seq(JobType)
  BY DEF RowsInv, JobTypes
<1> HIDE DEF x
<1>7. ExecOK(jobs', observations', findings', logs', e, x)
  BY <1>2, <1>4, <1>5, ExecKept DEF ResultsGrow
<1>8. ASSUME NEW j \in 1 .. Len(jobs) PROVE RowOK(o, x, j)
  <2>1. Has(o, j) => (Has(x, j) \/ j \in lost')
    BY <1>4 DEF Has, Runs
  <2>2. Reporting(o, j) => (j \in reported' \/ faults' > 0)
    BY DEF Reporting
  <2> QED
    BY <1>2, <2>1, <2>2 DEF RowOK
<1>9. Len(jobs) + 1 .. Len(jobs') = {}
  BY <1>1, <1>2
<1>10. JobStep(e, x)
  BY <1>2, <1>3, <1>4, <1>6, <1>7, <1>8, <1>9 DEF JobStep
<1>11. Quiet(e, x)
  BY <1>1, <1>2, <1>3, <1>4, <1>6, <1>9 DEF Quiet
<1> QED
  BY <1>10, <1>11 DEF Did

(* The report of a failure keeps the rows right. *)
LEMMA ReportFailureStep ==
  ASSUME RowsInv, FileTypes, BoundTypes, NEW e \in Executors, ReportFailure(e)
  PROVE  Did(e)
<1>1. exec[e].pc = "report" /\ exec[e].pc # "idle" /\ ~ Runs(exec[e].pc) /\ Returned(e, FALSE)
  BY DEF ReportFailure, Runs
<1>2. UNCHANGED <<jobs, listed, lost>> /\ ResultsGrow
  BY SameResults DEF ReportFailure, execUnchanged, resultVars
<1>3. exec[e].job \in 1 .. Len(jobs)
  BY <1>1, AtWork
<1>4. reported \subseteq 1 .. Len(jobs) /\ lost \subseteq 1 .. Len(jobs)
  BY DEF RowsInv, JobTypes
<1>5. /\ faults > 0 => faults' > 0
      /\ reported \subseteq reported' /\ reported' \subseteq 1 .. Len(jobs)
      /\ exec[e].job \in reported' \/ faults' > 0
  BY <1>3, <1>4, FaultsCount DEF ReportFailure
<1> QED
  BY <1>1, <1>2, <1>4, <1>5, Leaves

(* So does marking a job failed. *)
LEMMA MarkAnalysisJobFailedStep ==
  ASSUME RowsInv, FileTypes, BoundTypes, NEW e \in Executors, MarkAnalysisJobFailed(e)
  PROVE  Did(e)
<1> DEFINE o == exec[e]
<1>1. o.pc = "fail" /\ o.pc # "idle" /\ Runs(o.pc)
  BY DEF MarkAnalysisJobFailed, Runs
<1>2. UNCHANGED <<listed, reported>> /\ ResultsGrow
  BY SameResults DEF MarkAnalysisJobFailed, resultVars
<1>3. faults > 0 => faults' > 0
  BY FaultsCount DEF MarkAnalysisJobFailed
<1>4. /\ o \in ExecType(Len(jobs)) /\ o.job \in 1 .. Len(jobs) /\ Mine(e) \in JobType
      /\ ExecOK(jobs, observations, findings, logs, e, o)
  BY <1>1, AtWork
<1>5. reported \subseteq 1 .. Len(jobs) /\ lost \subseteq 1 .. Len(jobs) /\ jobs \in Seq(JobType)
  BY DEF RowsInv, JobTypes
<1>6. CASE UNCHANGED jobs /\ Returned(e, FALSE) /\ lost' = lost \cup {o.job}
  BY <1>1, <1>2, <1>3, <1>4, <1>5, <1>6, Leaves
<1>7. CASE SetJob(o.job, "failed") /\ ExecTo(e, "report") /\ UNCHANGED lost
  <2> DEFINE row == [Mine(e) EXCEPT !.status = "failed"]  x == [o EXCEPT !.pc = "report"]
  <2>1. /\ exec' = [exec EXCEPT ![e] = x] /\ x \in ExecType(Len(jobs))
        /\ x.pc = "report" /\ x.job = o.job /\ x.outer = o.outer
        /\ x.todo = o.todo /\ x.over = o.over
    BY <1>7, ToPC DEF ExecPC
  <2>2. /\ row \in JobType /\ row.scope = Mine(e).scope /\ row.trace = Mine(e).trace
        /\ row.steps = Mine(e).steps /\ row.caller = Mine(e).caller
        /\ row.attempts = Mine(e).attempts /\ row.status = "failed"
    BY <1>4 DEF JobType, Status
  <2>3. jobs' = [jobs EXCEPT ![o.job] = row]
    BY <1>4, <1>5, <1>7 DEF SetJob, Mine
  <2> HIDE DEF row, x
  <2>4. Grown(jobs, jobs') /\ Len(jobs') = Len(jobs)
    BY <1>4, <2>2, <2>3, RowSet DEF Mine
  <2>5. ExecOK(jobs, observations, findings, logs, e, x)
    BY <1>1, <1>4, <2>1, FailKnows
  <2>6. x.job = 0 <=> x.pc = "idle"
    BY <1>4, <2>1
  <2>7. ExecOK(jobs', observations', findings', logs', e, x)
    BY <1>2, <2>1, <2>4, <2>5, <2>6, ExecKept DEF ResultsGrow
  <2>8. Reporting(x, o.job) /\ (o.outer # 0 => Has(x, o.outer))
    BY <2>1 DEF Reporting, Has
  <2>9. {x.job, x.outer} \subseteq {0, o.job, o.outer} /\ x.pc # "mark"
    BY <2>1
  <2> QED
    BY <1>1, <1>2, <1>3, <1>7, <2>1, <2>2, <2>3, <2>6, <2>7, <2>8, <2>9, Settles
<1> QED
  BY <1>6, <1>7 DEF MarkAnalysisJobFailed

(* So does marking it completed: what it promised is there. *)
LEMMA MarkAnalysisJobCompletedStep ==
  ASSUME RowsInv, FileTypes, BoundTypes, NEW e \in Executors, MarkAnalysisJobCompleted(e)
  PROVE  Did(e)
<1> DEFINE o == exec[e]
<1>1. o.pc = "complete" /\ o.pc # "idle" /\ Runs(o.pc)
  BY DEF MarkAnalysisJobCompleted, Runs
<1>2. UNCHANGED <<listed, reported, lost>> /\ ResultsGrow
  BY SameResults DEF MarkAnalysisJobCompleted, resultVars, execUnchanged
<1>3. faults > 0 => faults' > 0
  BY FaultsCount DEF MarkAnalysisJobCompleted
<1>4. /\ o \in ExecType(Len(jobs)) /\ o.job \in 1 .. Len(jobs) /\ Mine(e) \in JobType /\ Len(jobs) \in Nat
      /\ ExecOK(jobs, observations, findings, logs, e, o)
      /\ AtPC(jobs, observations, findings, logs, e, o)
  BY <1>1, AtWork
<1>5. jobs \in Seq(JobType) /\ o.over \subseteq Traces
  BY <1>4 DEF RowsInv, JobTypes, ExecType
<1>6. CASE UNCHANGED jobs /\ ExecTo(e, "fail")
  BY <1>1, <1>2, <1>3, <1>6, GoesToFail
<1>7. ASSUME Completed(e),
             NEW x \in ExecType(Len(jobs)), x.job = 0 <=> x.pc = "idle", x.pc # "mark",
             {x.job, x.outer} \subseteq {0, o.job, o.outer}, exec' = [exec EXCEPT ![e] = x],
             ExecOK(jobs, observations, findings, logs, e, x), o.outer # 0 => Has(x, o.outer)
      PROVE  Did(e)
  <2> DEFINE row == [Mine(e) EXCEPT !.status = "completed", !.over = o.over]
  <2>1. /\ row \in JobType /\ row.scope = Mine(e).scope /\ row.trace = Mine(e).trace
        /\ row.steps = Mine(e).steps /\ row.caller = Mine(e).caller
        /\ row.attempts = Mine(e).attempts /\ row.status = "completed" /\ row.over = o.over
    BY <1>4, <1>5 DEF JobType, Status
  <2>2. jobs' = [jobs EXCEPT ![o.job] = row]
    BY <1>4, <1>5, <1>7 DEF Completed, Mine
  <2> HIDE DEF row
  <2>3. Grown(jobs, jobs')
    BY <1>4, <2>1, <2>2, RowSet DEF Mine
  <2>4. ExecOK(jobs', observations', findings', logs', e, x)
    BY <1>2, <1>7, <2>3, ExecKept DEF ResultsGrow
  <2>5. Of(row, row.over) = Of(Mine(e), o.over)
    BY <2>1 DEF Of
  <2>6. Promise(jobs, observations, findings, o.job, Of(row, row.over))
    BY <1>1, <1>4, <2>5 DEF AtPC, Mine
  <2> QED
    BY <1>1, <1>2, <1>3, <1>7, <2>1, <2>2, <2>4, <2>6, Settles
<1>8. CASE Completed(e) /\ ExecTo(e, "fail")
  <2> DEFINE x == [o EXCEPT !.pc = "fail"]
  <2>1. /\ exec' = [exec EXCEPT ![e] = x] /\ x \in ExecType(Len(jobs))
        /\ x.pc = "fail" /\ x.job = o.job /\ x.outer = o.outer
        /\ x.todo = o.todo /\ x.over = o.over
    BY <1>8, ToPC DEF ExecPC
  <2> HIDE DEF x
  <2>2. ExecOK(jobs, observations, findings, logs, e, x)
    BY <1>1, <1>4, <2>1, FailKnows
  <2>3. (x.job = 0 <=> x.pc = "idle") /\ (o.outer # 0 => Has(x, o.outer)) /\ x.pc # "mark"
        /\ {x.job, x.outer} \subseteq {0, o.job, o.outer}
    BY <1>4, <2>1 DEF Has
  <2> QED
    BY <1>7, <1>8, <2>1, <2>2, <2>3
<1>9. CASE Completed(e) /\ Returned(e, TRUE)
  <2> DEFINE x == Back(o, TRUE)
  <2>1. exec' = [exec EXCEPT ![e] = x]
    BY <1>9, BackIs
  <2>2. /\ x \in ExecType(Len(jobs)) /\ (x.job = 0 <=> x.pc = "idle")
        /\ x.pc \in {"idle", "next", "fail"} /\ x.outer = 0 /\ x.job \in {0, o.outer}
        /\ \A j \in 1 .. Len(jobs) : o.outer = j => Has(x, j)
    BY <1>4, BackType
  <2>3. o.outer # 0 => Promise(jobs, observations, findings, o.job, {jobs[o.job].trace})
    <3> SUFFICES ASSUME o.outer # 0
                 PROVE  Promise(jobs, observations, findings, o.job, {jobs[o.job].trace})
      OBVIOUS
    <3>1. jobs[o.job].scope = "trace"
      BY <1>4 DEF ExecOK, AtOuter
    <3> QED
      BY <1>1, <1>4, <3>1 DEF AtPC, Of
  <2>4. ExecOK(jobs, observations, findings, logs, e, x)
    BY <1>4, <2>3, BackKnows
  <2> HIDE DEF x
  <2>5. o.outer # 0 => Has(x, o.outer)
    BY <1>4, <2>2 DEF ExecType
  <2>6. x.pc # "mark" /\ {x.job, x.outer} \subseteq {0, o.job, o.outer}
    BY <2>2
  <2> QED
    BY <1>7, <1>9, <2>1, <2>2, <2>4, <2>5, <2>6
<1> QED
  BY <1>6, <1>8, <1>9 DEF MarkAnalysisJobCompleted

(* Rows are added. *)
LEMMA RowsAdded ==
  ASSUME RowsInv, NEW u \in Seq(JobType), jobs' = jobs \o u
  PROVE  /\ Grown(jobs, jobs') /\ Len(jobs) \in Nat /\ Len(u) \in Nat /\ Len(jobs') = Len(jobs) + Len(u)
         /\ \A k \in 1 .. Len(jobs) : jobs'[k] = jobs[k]
         /\ \A k \in Len(jobs) + 1 .. Len(jobs') : k - Len(jobs) \in 1 .. Len(u) /\ jobs'[k] = u[k - Len(jobs)]
<1>1. jobs \in Seq(JobType) /\ Len(jobs) \in Nat /\ Len(u) \in Nat
  BY LenProperties DEF RowsInv, JobTypes
<1>2. /\ jobs' \in Seq(JobType) /\ Len(jobs') = Len(jobs) + Len(u)
      /\ \A k \in 1 .. Len(jobs) : jobs'[k] = jobs[k]
      /\ \A k \in Len(jobs) + 1 .. Len(jobs) + Len(u) : jobs'[k] = u[k - Len(jobs)]
  BY <1>1, Appended
<1> QED
  BY <1>1, <1>2 DEF Grown

(* The jobs a batch leaves to the worker: one for each step, on the trace. *)
LEMMA ChildrenOf ==
  ASSUME NEW t \in Traces, NEW steps \in SUBSET Steps
  PROVE  LET c == Children(t, steps) IN
         /\ c \in Seq(JobType) /\ Len(c) \in Nat
         /\ \A i \in 1 .. Len(c) : /\ NewRow(c[i]) /\ c[i].attempts = 0
                                   /\ c[i].caller = Worker /\ c[i].trace = t
         /\ \A s \in steps : \E i \in 1 .. Len(c) : s \in c[i].steps
<1> DEFINE r == Job("trace", t, {"repair"}, Worker)
           q == Job("trace", t, steps \ {"repair"}, Worker)
           a == IF "repair" \in steps THEN <<r>> ELSE <<>>
           b == IF steps \ {"repair"} # {} THEN <<q>> ELSE <<>>
<1>1. /\ r \in JobType /\ NewRow(r) /\ r.attempts = 0 /\ r.caller = Worker /\ r.trace = t
      /\ r.steps = {"repair"}
  BY DEF Job, JobType, NewRow, Shape, Executors, Scopes, Steps, Status
<1>2. /\ q \in JobType /\ NewRow(q) /\ q.attempts = 0 /\ q.caller = Worker /\ q.trace = t
      /\ q.steps = steps \ {"repair"}
  BY DEF Job, JobType, NewRow, Shape, Executors, Scopes, Steps, Status
<1> HIDE DEF r, q
<1>3. /\ a \in Seq(JobType) /\ Len(a) \in Nat /\ \A i \in 1 .. Len(a) : a[i] = r
      /\ "repair" \in steps => Len(a) = 1
  BY <1>1
<1>4. /\ b \in Seq(JobType) /\ Len(b) \in Nat /\ \A i \in 1 .. Len(b) : b[i] = q
      /\ steps \ {"repair"} # {} => Len(b) = 1
  BY <1>2
<1>5. Children(t, steps) = a \o b
  BY DEF Children, r, q
<1> HIDE DEF a, b
<1>6. /\ a \o b \in Seq(JobType) /\ Len(a \o b) = Len(a) + Len(b)
      /\ \A i \in 1 .. Len(a) : (a \o b)[i] = a[i]
      /\ \A i \in Len(a) + 1 .. Len(a) + Len(b) : (a \o b)[i] = b[i - Len(a)]
  BY <1>3, <1>4, Appended
<1>7. ASSUME NEW i \in 1 .. Len(a) + Len(b) PROVE (a \o b)[i] \in {r, q}
  <2>1. CASE i \in 1 .. Len(a)
    BY <1>3, <1>6, <2>1
  <2>2. CASE i \notin 1 .. Len(a)
    <3>1. i \in Len(a) + 1 .. Len(a) + Len(b) /\ i - Len(a) \in 1 .. Len(b)
      BY <1>3, <1>4, <2>2
    <3> QED
      BY <1>4, <1>6, <3>1
  <2> QED
    BY <2>1, <2>2
<1>8. ASSUME NEW s \in steps PROVE \E i \in 1 .. Len(a) + Len(b) : s \in (a \o b)[i].steps
  <2>1. CASE s = "repair"
    <3>1. "repair" \in steps
      BY <2>1
    <3>2. Len(a) = 1
      BY <1>3, <3>1
    <3>3. 1 \in 1 .. Len(a) /\ 1 \in 1 .. Len(a) + Len(b)
      BY <1>3, <1>4, <3>2
    <3>4. (a \o b)[1] = r
      BY <1>3, <1>6, <3>3
    <3> QED
      BY <1>1, <2>1, <3>3, <3>4
  <2>2. CASE s # "repair"
    <3>1. Len(b) = 1
      BY <1>4, <2>2
    <3>2. /\ Len(a) + 1 \in 1 .. Len(a) + Len(b) /\ Len(a) + 1 \in Len(a) + 1 .. Len(a) + Len(b)
          /\ (Len(a) + 1) - Len(a) = 1 /\ 1 \in 1 .. Len(b)
      BY <1>3, <3>1
    <3>3. (a \o b)[Len(a) + 1] = q
      BY <1>4, <1>6, <3>2
    <3> QED
      BY <1>2, <2>2, <3>2, <3>3
  <2> QED
    BY <2>1, <2>2
<1>9. Len(a \o b) \in Nat
  BY <1>3, <1>4, <1>6
<1> QED
  BY <1>1, <1>2, <1>5, <1>6, <1>7, <1>8, <1>9

(* A step that adds jobs for the worker and goes on to x. *)
LEMMA Leaving ==
  ASSUME RowsInv, NEW e \in Executors, NEW x \in ExecType(Len(jobs)), Runs(exec[e].pc), Runs(x.pc),
         exec' = [exec EXCEPT ![e] = x], x.job = exec[e].job, x.outer = exec[e].outer,
         NEW u \in Seq(JobType), jobs' = jobs \o u,
         \A i \in 1 .. Len(u) : NewRow(u[i]) /\ u[i].attempts = 0 /\ u[i].caller = Worker,
         UNCHANGED <<listed, reported, lost>>, ResultsGrow, faults > 0 => faults' > 0,
         ExecOK(jobs', observations', findings', logs', e, x)
  PROVE  Did(e)
<1> DEFINE o == exec[e]
<1>1. /\ Grown(jobs, jobs') /\ Len(jobs) \in Nat /\ Len(u) \in Nat /\ Len(jobs') = Len(jobs) + Len(u)
      /\ \A k \in 1 .. Len(jobs) : jobs'[k] = jobs[k]
      /\ \A k \in Len(jobs) + 1 .. Len(jobs') : k - Len(jobs) \in 1 .. Len(u) /\ jobs'[k] = u[k - Len(jobs)]
  BY RowsAdded
<1>2. Len(jobs) <= Len(jobs') /\ Len(jobs') \in Nat
  BY <1>1
<1>3. 1 .. Len(jobs) \subseteq 1 .. Len(jobs')
  BY <1>1, <1>2
<1>4. listed' \in Seq(1 .. Len(jobs')) /\ reported' \subseteq 1 .. Len(jobs') /\ lost' \subseteq 1 .. Len(jobs')
  BY <1>3, SeqMonotonic DEF RowsInv, JobTypes
<1>5. x \in ExecType(Len(jobs')) /\ (x.job = 0 <=> x.pc = "idle")
  <2>1. o.job = 0 <=> o.pc = "idle"
    BY DEF RowsInv, JobTypes
  <2> QED
    BY <1>1, <1>2, <2>1, ExecTypeGrows DEF Runs
<1>6. ASSUME NEW j \in 1 .. Len(jobs) PROVE RowOK(o, x, j)
  <2>1. jobs'[j] = jobs[j]
    BY <1>1
  <2>2. Has(o, j) => Has(x, j)
    BY DEF Has, Runs
  <2>3. ~ Reporting(o, j)
    BY DEF Runs, Reporting
  <2> QED
    BY <2>1, <2>2, <2>3 DEF RowOK
<1>7. \A k \in Len(jobs) + 1 .. Len(jobs') : NewRow(jobs'[k]) /\ jobs'[k].attempts = 0 /\ jobs'[k].caller = Worker
  BY <1>1
<1>8. JobStep(e, x)
  BY <1>1, <1>4, <1>5, <1>6, <1>7 DEF JobStep
<1>9. Quiet(e, x)
  BY <1>1, <1>2, <1>7 DEF Quiet, Grown, Runs
<1> QED
  BY <1>8, <1>9 DEF Did

(* EnqueueChildren keeps the rows right: each trace that leaves the list *)
(* has its jobs.                                                         *)
LEMMA EnqueueChildrenStep ==
  ASSUME RowsInv, FileTypes, BoundTypes, NEW e \in Executors, EnqueueChildren(e)
  PROVE  Did(e)
<1> DEFINE o == exec[e]  t == Head(o.todo)  c == Children(t, Mine(e).steps)
<1>1. o.pc = "next" /\ Runs(o.pc) /\ o.pc # "idle" /\ Mine(e).scope = "batch" /\ o.todo # <<>>
  BY DEF EnqueueChildren, Runs
<1>2. UNCHANGED <<listed, reported, lost>> /\ ResultsGrow
  BY SameResults DEF EnqueueChildren, execUnchanged, resultVars
<1>3. faults > 0 => faults' > 0
  BY FaultsCount DEF EnqueueChildren
<1>4. /\ o \in ExecType(Len(jobs)) /\ o.job \in 1 .. Len(jobs) /\ Mine(e) \in JobType /\ Len(jobs) \in Nat
      /\ ExecOK(jobs, observations, findings, logs, e, o)
      /\ AtPC(jobs, observations, findings, logs, e, o)
  BY <1>1, AtWork
<1>5. o.todo \in Seq(Traces) /\ Mine(e).steps \in SUBSET Steps
  BY <1>4 DEF ExecType, JobType
<1>6. /\ t \in Traces /\ Tail(o.todo) \in Seq(Traces)
      /\ ToSet(o.todo) = {t} \cup ToSet(Tail(o.todo))
  BY <1>1, <1>5, Taken
<1>7. /\ c \in Seq(JobType) /\ Len(c) \in Nat
      /\ \A i \in 1 .. Len(c) : NewRow(c[i]) /\ c[i].attempts = 0 /\ c[i].caller = Worker /\ c[i].trace = t
      /\ \A s \in Mine(e).steps : \E i \in 1 .. Len(c) : s \in c[i].steps
  BY <1>5, <1>6, ChildrenOf
<1> HIDE DEF c
<1>8. CASE jobs' = jobs \o c /\ exec' = [exec EXCEPT ![e].todo = Tail(@)]
  <2> DEFINE x == [o EXCEPT !.todo = Tail(o.todo)]
  <2>1. exec' = [exec EXCEPT ![e] = x]
    BY <1>8 DEF RowsInv, JobTypes
  <2>2. /\ x \in ExecType(Len(jobs)) /\ x.pc = "next" /\ x.job = o.job /\ x.outer = o.outer
        /\ x.todo = Tail(o.todo) /\ x.over = o.over
    BY <1>1, <1>4, <1>6 DEF ExecType
  <2> HIDE DEF x
  <2>3. /\ Grown(jobs, jobs') /\ Len(c) \in Nat /\ Len(jobs') = Len(jobs) + Len(c)
        /\ \A k \in 1 .. Len(jobs) : jobs'[k] = jobs[k]
        /\ \A k \in Len(jobs) + 1 .. Len(jobs') : k - Len(jobs) \in 1 .. Len(c) /\ jobs'[k] = c[k - Len(jobs)]
    BY <1>7, <1>8, RowsAdded
  <2>4. jobs'[o.job] = Mine(e)
    BY <1>4, <2>3 DEF Mine
  <2>5. Promise(jobs, observations, findings, o.job, o.over \ ToSet(o.todo))
    BY <1>1, <1>4 DEF AtPC
  <2>6. Promise(jobs', observations', findings', o.job, o.over \ ToSet(o.todo))
    BY <1>2, <1>4, <2>3, <2>5, PromiseKept DEF ResultsGrow
  <2>7. ASSUME NEW s \in Mine(e).steps
        PROVE  \E k \in o.job + 1 .. Len(jobs') : jobs'[k].trace = t /\ s \in jobs'[k].steps
    <3>1. PICK i \in 1 .. Len(c) : s \in c[i].steps
      BY <1>7
    <3>2. /\ Len(jobs) + i \in o.job + 1 .. Len(jobs') /\ Len(jobs) + i \in Len(jobs) + 1 .. Len(jobs')
          /\ (Len(jobs) + i) - Len(jobs) = i
      BY <1>4, <2>3
    <3>3. jobs'[Len(jobs) + i] = c[i]
      BY <2>3, <3>2
    <3> QED
      BY <1>7, <3>1, <3>2, <3>3
  <2>8. Promise(jobs', observations', findings', o.job, x.over \ ToSet(x.todo))
    <3>1. \A v \in x.over \ ToSet(x.todo) : v = t \/ v \in o.over \ ToSet(o.todo)
      BY <1>6, <2>2
    <3> QED
      BY <1>1, <2>4, <2>6, <2>7, <3>1 DEF Promise
  <2>9. o.outer = 0 /\ e \in {Worker, Mine(e).caller}
    BY <1>1, <1>4 DEF AtPC, Mine
  <2>10. ExecOK(jobs', observations', findings', logs', e, x)
    BY <1>1, <2>2, <2>4, <2>8, <2>9 DEF ExecOK, AtPC
  <2>11. Runs(x.pc)
    BY <2>2 DEF Runs
  <2> QED
    BY <1>1, <1>2, <1>3, <1>7, <1>8, <2>1, <2>2, <2>10, <2>11, Leaving
<1>9. ASSUME NEW n \in 0 .. Len(c) - 1, jobs' = jobs \o SubSeq(c, 1, n), ExecTo(e, "fail")
      PROVE  Did(e)
  <2> DEFINE u == SubSeq(c, 1, n)  x == [o EXCEPT !.pc = "fail"]
  <2>1. /\ exec' = [exec EXCEPT ![e] = x] /\ x \in ExecType(Len(jobs))
        /\ x.pc = "fail" /\ x.job = o.job /\ x.outer = o.outer
        /\ x.todo = o.todo /\ x.over = o.over
    BY <1>9, ToPC DEF ExecPC
  <2>2. n \in Int /\ \A i \in 1 .. n : i \in 1 .. Len(c) /\ c[i] \in JobType
    BY <1>7, ElementOfSeq
  <2>3. /\ u \in Seq(JobType) /\ Len(u) = (IF 1 <= n THEN n - 1 + 1 ELSE 0)
        /\ \A i \in 1 .. n - 1 + 1 : u[i] = c[1 + i - 1]
    BY <2>2, SubSeqProperties
  <2>4. Len(u) = n /\ \A i \in 1 .. n : u[i] = c[i]
    BY <1>7, <2>2, <2>3
  <2>5. \A i \in 1 .. Len(u) : NewRow(u[i]) /\ u[i].attempts = 0 /\ u[i].caller = Worker
    BY <1>7, <2>2, <2>4
  <2> HIDE DEF u, x
  <2>6. jobs' = jobs \o u
    BY <1>9 DEF u
  <2>7. Grown(jobs, jobs')
    BY <2>3, <2>6, RowsAdded
  <2>8. ExecOK(jobs, observations, findings, logs, e, x)
    BY <1>1, <1>4, <2>1, FailKnows
  <2>9. x.job = 0 <=> x.pc = "idle"
    BY <1>4, <2>1
  <2>10. ExecOK(jobs', observations', findings', logs', e, x)
    BY <1>2, <2>1, <2>7, <2>8, <2>9, ExecKept DEF ResultsGrow
  <2>11. Runs(x.pc)
    BY <2>1 DEF Runs
  <2> QED
    BY <1>1, <1>2, <1>3, <2>1, <2>3, <2>5, <2>6, <2>10, <2>11, Leaving
<1> QED
  BY <1>8, <1>9 DEF EnqueueChildren, c

-----------------------------------------------------------------------------
(* The steps that begin a job, or make one and take it up. *)

(* e begins its job. *)
Begins(e, x) ==
  /\ exec' = [exec EXCEPT ![e] = x] /\ listed' = listed
  /\ exec[e].pc = "mark" /\ x.pc # "mark" /\ x.job = exec[e].job /\ x.outer = exec[e].outer
  /\ jobs' \in Seq(JobType) /\ Len(jobs') = Len(jobs)
  /\ \A j \in 1 .. Len(jobs) :
       IF j = exec[e].job
       THEN /\ jobs'[j].status = "running" /\ jobs'[j].attempts = jobs[j].attempts + 1
            /\ jobs'[j].caller = jobs[j].caller
       ELSE jobs'[j] = jobs[j]

(* e makes a job and takes it up; it may wait with the one it had. *)
Calls(e, x) ==
  /\ exec' = [exec EXCEPT ![e] = x] /\ listed' = listed
  /\ exec[e].pc # "mark" /\ x.pc = "mark" /\ x.job = Len(jobs) + 1 /\ x.outer \in {0, exec[e].job}
  /\ jobs' \in Seq(JobType) /\ Len(jobs') = Len(jobs) + 1
  /\ \A j \in 1 .. Len(jobs) : jobs'[j] = jobs[j]
  /\ jobs'[Len(jobs) + 1].attempts = 0 /\ jobs'[Len(jobs) + 1].caller = e

(* The first step of a job is one of its scope. *)
LEMMA MarkAnalysisJobRunningStep ==
  ASSUME RowsInv, FileTypes, BoundTypes, NEW e \in Executors, MarkAnalysisJobRunning(e)
  PROVE  Did(e) \/ \E x : JobStep(e, x) /\ Begins(e, x)
<1> DEFINE o == exec[e]
<1>1. o.pc = "mark" /\ ~ Runs(o.pc) /\ o.pc # "idle"
  BY DEF MarkAnalysisJobRunning, Runs
<1>2. UNCHANGED <<listed, reported, lost>> /\ ResultsGrow
  BY SameResults DEF MarkAnalysisJobRunning, execUnchanged, resultVars
<1>3. faults > 0 => faults' > 0
  BY FaultsCount DEF MarkAnalysisJobRunning
<1>4. /\ o \in ExecType(Len(jobs)) /\ o.job \in 1 .. Len(jobs) /\ Mine(e) \in JobType /\ Len(jobs) \in Nat
      /\ Shape(Mine(e))
      /\ ExecOK(jobs, observations, findings, logs, e, o)
      /\ AtPC(jobs, observations, findings, logs, e, o)
  BY <1>1, AtWork
<1>5. jobs \in Seq(JobType) /\ reported \subseteq 1 .. Len(jobs) /\ lost \subseteq 1 .. Len(jobs)
      /\ listed \in Seq(1 .. Len(jobs))
  BY DEF RowsInv, JobTypes
<1>6. CASE UNCHANGED jobs /\ Returned(e, FALSE)
  BY <1>1, <1>2, <1>3, <1>5, <1>6, Leaves
<1>7. CASE /\ jobs' = [jobs EXCEPT ![exec[e].job].status = "running", ![exec[e].job].attempts = @ + 1]
           /\ ExecTo(e, FirstStep(Mine(e)))
  <2> DEFINE row == [Mine(e) EXCEPT !.status = "running", !.attempts = Mine(e).attempts + 1]
             pc == FirstStep(Mine(e))
             x == [o EXCEPT !.pc = pc]
  <2>0. Mine(e).attempts + 1 \in Nat /\ "running" \in Status
    BY <1>4 DEF JobType, Status
  <2>1. /\ row \in JobType /\ row.scope = Mine(e).scope /\ row.trace = Mine(e).trace
        /\ row.steps = Mine(e).steps /\ row.caller = Mine(e).caller
        /\ row.attempts = Mine(e).attempts + 1 /\ row.status = "running"
    BY <1>4, <2>0 DEF JobType
  <2>2. jobs' = [jobs EXCEPT ![o.job] = row]
    BY <1>4, <1>5, <1>7 DEF Mine
  <2> HIDE DEF row
  <2>3. /\ Grown(jobs, jobs') /\ Len(jobs') = Len(jobs)
        /\ \A k \in 1 .. Len(jobs) : jobs'[k] = IF k = o.job THEN row ELSE jobs[k]
    BY <1>4, <2>1, <2>2, RowSet DEF Mine
  <2>4. pc \in {"list", "repair", "parse", "load"} /\ pc \in ExecPC /\ Runs(pc) /\ pc # "mark"
    BY DEF FirstStep, ExecPC, Runs
  <2>5. /\ pc = "list" => Mine(e).scope # "trace"
        /\ pc # "list" => Mine(e).scope = "trace"
        /\ pc = "repair" => Mine(e).steps = {"repair"}
        /\ pc = "load" => "reparse" \notin Mine(e).steps
    BY <1>4 DEF FirstStep, Shape
  <2> HIDE DEF pc
  <2>6. /\ exec' = [exec EXCEPT ![e] = x] /\ x \in ExecType(Len(jobs))
        /\ x.pc = pc /\ x.job = o.job /\ x.outer = o.outer
        /\ x.todo = o.todo /\ x.over = o.over
    BY <1>7, <2>4, ToPC DEF pc
  <2> HIDE DEF x
  <2>7. Mine(e).scope # "trace" => o.outer = 0
    BY <1>4 DEF ExecOK, AtOuter, Mine
  <2>8. AtPC(jobs, observations, findings, logs, e, x)
    BY <1>4, <2>4, <2>5, <2>6, <2>7 DEF AtPC, Mine
  <2>9. x.outer # 0 => AtOuter(jobs, observations, findings, e, x)
    BY <1>4, <2>4, <2>6 DEF ExecOK, AtOuter, Runs
  <2>10. ExecOK(jobs, observations, findings, logs, e, x)
    BY <2>8, <2>9 DEF ExecOK
  <2>11. x.job = 0 <=> x.pc = "idle"
    BY <1>4, <2>4, <2>6 DEF Runs
  <2>12. ExecOK(jobs', observations', findings', logs', e, x)
    BY <1>2, <2>3, <2>6, <2>10, <2>11, ExecKept DEF ResultsGrow
  <2>13. ASSUME NEW j \in 1 .. Len(jobs) PROVE RowOK(o, x, j)
    <3>1. CASE j = o.job
      <4>1. jobs'[j].status = "running" /\ Has(x, j)
        BY <2>1, <2>3, <2>4, <2>6, <3>1 DEF Has, Runs
      <4> QED
        BY <4>1 DEF RowOK
    <3>2. CASE j # o.job
      <4>1. jobs'[j] = jobs[j] /\ ~ Reporting(o, j) /\ (Has(o, j) => Has(x, j))
        BY <2>3, <2>6, <3>2 DEF Reporting, Has
      <4> QED
        BY <4>1 DEF RowOK
    <3> QED
      BY <3>1, <3>2
  <2>14. Len(jobs) + 1 .. Len(jobs') = {}
    BY <1>4, <2>3
  <2>15. JobStep(e, x)
    BY <1>2, <1>3, <1>5, <2>3, <2>6, <2>11, <2>12, <2>13, <2>14 DEF JobStep
  <2>16. Begins(e, x)
    BY <1>1, <1>2, <1>4, <2>1, <2>3, <2>4, <2>6 DEF Begins, Mine, Grown
  <2> QED
    BY <2>15, <2>16
<1> QED
  BY <1>6, <1>7 DEF MarkAnalysisJobRunning

(* A session's job of its own. *)
LEMMA RunChildStep ==
  ASSUME RowsInv, FileTypes, BoundTypes, NEW e \in Executors, RunChild(e)
  PROVE  Did(e) \/ \E x : JobStep(e, x) /\ Calls(e, x)
<1> DEFINE o == exec[e]  t == Head(o.todo)  child == Job("trace", t, Mine(e).steps, e)
<1>1. o.pc = "next" /\ Runs(o.pc) /\ o.pc # "idle" /\ Mine(e).scope = "session" /\ o.todo # <<>>
  BY DEF RunChild, Runs
<1>2. UNCHANGED <<listed, reported, lost>> /\ ResultsGrow
  BY SameResults DEF RunChild, execUnchanged, resultVars
<1>3. faults > 0 => faults' > 0
  BY FaultsCount DEF RunChild
<1>4. /\ o \in ExecType(Len(jobs)) /\ o.job \in 1 .. Len(jobs) /\ Mine(e) \in JobType /\ Len(jobs) \in Nat
      /\ Shape(Mine(e))
      /\ ExecOK(jobs, observations, findings, logs, e, o)
      /\ AtPC(jobs, observations, findings, logs, e, o)
  BY <1>1, AtWork
<1>5. jobs \in Seq(JobType) /\ reported \subseteq 1 .. Len(jobs) /\ lost \subseteq 1 .. Len(jobs)
      /\ listed \in Seq(1 .. Len(jobs)) /\ exec \in [Executors -> ExecType(Len(jobs))]
  BY DEF RowsInv, JobTypes
<1>6. o.todo \in Seq(Traces) /\ o.over \subseteq Traces /\ Mine(e).steps \in SUBSET Steps
  BY <1>4 DEF ExecType, JobType
<1>7. /\ t \in Traces /\ Tail(o.todo) \in Seq(Traces)
      /\ ToSet(o.todo) = {t} \cup ToSet(Tail(o.todo))
  BY <1>1, <1>6, Taken
<1>8. CASE UNCHANGED jobs /\ ExecTo(e, "fail")
  BY <1>1, <1>2, <1>3, <1>8, GoesToFail
<1>9. CASE /\ jobs' = Append(jobs, Job("trace", Head(exec[e].todo), Mine(e).steps, e))
           /\ exec' = [exec EXCEPT ![e] = [pc |-> "mark", job |-> Len(jobs) + 1,
                                        outer |-> @.job, todo |-> Tail(@.todo), over |-> @.over]]
  <2> DEFINE x == [pc |-> "mark", job |-> Len(jobs) + 1, outer |-> o.job,
                   todo |-> Tail(o.todo), over |-> o.over]
  <2>1. /\ child \in JobType /\ child.scope = "trace" /\ child.trace = t /\ child.steps = Mine(e).steps
        /\ child.status = "queued" /\ child.attempts = 0 /\ child.caller = e
    BY <1>6, <1>7 DEF Job, JobType, Scopes, Status
  <2>2. NewRow(child)
    BY <1>1, <1>4, <2>1 DEF NewRow, Shape
  <2> HIDE DEF child
  <2>3. /\ jobs' \in Seq(JobType) /\ Len(jobs') = Len(jobs) + 1
        /\ \A k \in 1 .. Len(jobs) : jobs'[k] = jobs[k]
        /\ jobs'[Len(jobs) + 1] = child
    BY <1>5, <1>9, <2>1, OneMore DEF child
  <2>4. Grown(jobs, jobs')
    BY <1>4, <1>5, <2>3 DEF Grown
  <2>5. exec' = [exec EXCEPT ![e] = x]
    BY <1>9
  <2>6. /\ x.pc = "mark" /\ x.job = Len(jobs) + 1 /\ x.outer = o.job /\ x.todo = Tail(o.todo)
        /\ x.over = o.over /\ x \in ExecType(Len(jobs'))
    BY <1>4, <1>6, <1>7, <2>3 DEF ExecType, ExecPC
  <2> HIDE DEF x
  <2>7. e \in {Worker, Mine(e).caller} /\ o.outer = 0
    BY <1>1, <1>4 DEF AtPC, Mine
  <2>8. Promise(jobs, observations, findings, o.job, o.over \ ToSet(o.todo))
    BY <1>1, <1>4 DEF AtPC
  <2>9. Promise(jobs', observations', findings', o.job, o.over \ ToSet(o.todo))
    BY <1>2, <1>4, <2>4, <2>8, PromiseKept DEF ResultsGrow
  <2>10. x.over \ (ToSet(x.todo) \cup {child.trace}) = o.over \ ToSet(o.todo)
    BY <1>7, <2>1, <2>6
  <2>11. jobs'[o.job] = Mine(e) /\ jobs'[x.job] = child
    BY <1>4, <2>3, <2>6 DEF Mine
  <2>12. AtPC(jobs', observations', findings', logs', e, x)
    BY <2>1, <2>6, <2>11 DEF AtPC
  <2>13. AtOuter(jobs', observations', findings', e, x)
    BY <1>1, <2>1, <2>6, <2>7, <2>9, <2>10, <2>11 DEF AtOuter
  <2>14. ExecOK(jobs', observations', findings', logs', e, x)
    BY <2>12, <2>13 DEF ExecOK
  <2>15. ASSUME NEW j \in 1 .. Len(jobs) PROVE RowOK(o, x, j)
    <3>1. jobs'[j] = jobs[j] /\ ~ Reporting(o, j)
      BY <1>1, <2>3 DEF Reporting
    <3>2. Has(o, j) => Has(x, j)
      BY <2>6, <2>7 DEF Has
    <3> QED
      BY <3>1, <3>2 DEF RowOK
  <2>16. Len(jobs) + 1 .. Len(jobs') = {Len(jobs) + 1}
    BY <1>4, <2>3
  <2>17. 1 .. Len(jobs) \subseteq 1 .. Len(jobs')
    BY <1>4, <2>3
  <2>18. listed' \in Seq(1 .. Len(jobs')) /\ reported' \subseteq 1 .. Len(jobs') /\ lost' \subseteq 1 .. Len(jobs')
    BY <1>2, <1>5, <2>17, SeqMonotonic
  <2>19. x.job = 0 <=> x.pc = "idle"
    BY <1>4, <2>6
  <2>20. JobStep(e, x)
    BY <1>2, <1>3, <2>2, <2>3, <2>4, <2>5, <2>6, <2>14, <2>15, <2>16, <2>18, <2>19 DEF JobStep
  <2>21. Calls(e, x)
    BY <1>1, <1>2, <2>1, <2>3, <2>5, <2>6 DEF Calls
  <2> QED
    BY <2>20, <2>21
<1> QED
  BY <1>8, <1>9 DEF RunChild

(* What the worker, a handler, a caller or a crash makes of the rows. *)

(* An executor that takes up a job of its own. *)
LEMMA StartType ==
  ASSUME NEW n \in Nat, NEW j \in 1 .. n
  PROVE  LET x == [AtRest EXCEPT !.pc = "mark", !.job = j] IN
         x.pc = "mark" /\ x.job = j /\ x.outer = 0 /\ x \in ExecType(n)
<1>1. <<>> \in Seq(Traces) /\ j \in 0 .. n /\ 0 \in 0 .. n
  BY EmptySeq
<1>2. AtRest \in ExecType(n) /\ AtRest.outer = 0
  BY <1>1 DEF AtRest, ExecType, ExecPC
<1>3. "mark" \in ExecPC
  BY DEF ExecPC
<1> QED
  BY <1>1, <1>2, <1>3 DEF ExecType

(* A caller's own job, taken up at once. *)
LEMMA CallStep ==
  ASSUME RowsInv, FileTypes, BoundTypes, NEW h \in Handlers, NEW r \in Requests, Call(h, r)
  PROVE  \E x : JobStep(h, x) /\ Calls(h, x)
<1> DEFINE o == exec[h]  row == Job(r.scope, r.trace, r.steps, h)
           x == [AtRest EXCEPT !.pc = "mark", !.job = Len(jobs) + 1]
<1>1. h \in Executors /\ o.pc = "idle"
  BY DEF Executors, Call
<1>2. UNCHANGED <<listed, reported, lost, faults, observations, findings, logs>> /\ ResultsGrow
  BY SameResults DEF Call, apiUnchanged, resultVars, fileVars
<1>3. jobs \in Seq(JobType) /\ Len(jobs) \in Nat /\ reported \subseteq 1 .. Len(jobs) /\ lost \subseteq 1 .. Len(jobs)
      /\ listed \in Seq(1 .. Len(jobs)) /\ exec \in [Executors -> ExecType(Len(jobs))]
      /\ o.job = 0
  BY <1>1, LenProperties DEF RowsInv, JobTypes
<1>4. o.outer = 0
  BY <1>1 DEF RowsInv, ExecInv, ExecOK, AtOuter
<1>5. r.scope \in Scopes /\ r.trace \in Traces \cup {0} /\ r.steps \in SUBSET Steps
      /\ ((r.scope # "batch" /\ "repair" \in r.steps) => (r.scope = "trace" /\ r.steps = {"repair"}))
  BY JobsAssumption
<1>6. /\ row \in JobType /\ NewRow(row) /\ row.attempts = 0 /\ row.caller = h
  BY <1>1, <1>5 DEF Job, JobType, NewRow, Shape, Status
<1> HIDE DEF row
<1>7. /\ jobs' \in Seq(JobType) /\ Len(jobs') = Len(jobs) + 1
      /\ \A k \in 1 .. Len(jobs) : jobs'[k] = jobs[k]
      /\ jobs'[Len(jobs) + 1] = row
  BY <1>3, <1>6, OneMore DEF Call, row
<1>8. Grown(jobs, jobs')
  BY <1>3, <1>7 DEF Grown
<1>9. exec' = [exec EXCEPT ![h] = x]
  BY DEF Call
<1>10. x.pc = "mark" /\ x.job = Len(jobs) + 1 /\ x.outer = 0 /\ x \in ExecType(Len(jobs'))
  <2>1. Len(jobs') \in Nat /\ Len(jobs) + 1 \in 1 .. Len(jobs')
    BY <1>3, <1>7
  <2> QED
    BY <2>1, StartType
<1> HIDE DEF x
<1>11. ExecOK(jobs', observations', findings', logs', h, x)
  BY <1>6, <1>7, <1>10 DEF ExecOK, AtPC
<1>12. ASSUME NEW j \in 1 .. Len(jobs) PROVE RowOK(o, x, j)
  <2>1. jobs'[j] = jobs[j] /\ ~ Reporting(o, j) /\ ~ Has(o, j)
    BY <1>1, <1>3, <1>4, <1>7 DEF Reporting, Has
  <2> QED
    BY <2>1 DEF RowOK
<1>13. Len(jobs) + 1 .. Len(jobs') = {Len(jobs) + 1} /\ 1 .. Len(jobs) \subseteq 1 .. Len(jobs')
  BY <1>3, <1>7
<1>14. listed' \in Seq(1 .. Len(jobs')) /\ reported' \subseteq 1 .. Len(jobs') /\ lost' \subseteq 1 .. Len(jobs')
  BY <1>2, <1>3, <1>13, SeqMonotonic
<1>15. x.job = 0 <=> x.pc = "idle"
  BY <1>3, <1>10
<1>16. JobStep(h, x)
  BY <1>2, <1>6, <1>7, <1>8, <1>9, <1>10, <1>11, <1>12, <1>13, <1>14, <1>15 DEF JobStep
<1>17. Calls(h, x)
  BY <1>1, <1>2, <1>6, <1>7, <1>9, <1>10 DEF Calls
<1> QED
  BY <1>16, <1>17

(* A job left to the worker. *)
Asks(r) ==
  /\ exec' = exec /\ listed' = listed
  /\ jobs' \in Seq(JobType) /\ Len(jobs') = Len(jobs) + 1
  /\ \A j \in 1 .. Len(jobs) : jobs'[j] = jobs[j]
  /\ jobs'[Len(jobs) + 1].attempts = 0 /\ jobs'[Len(jobs) + 1].caller = Worker
LEMMA AskStep ==
  ASSUME RowsInv, FileTypes, BoundTypes, NEW r \in Requests, Ask(r)
  PROVE  JobStep(Worker, exec[Worker]) /\ Asks(r)
<1> DEFINE row == Job(r.scope, r.trace, r.steps, Worker)
<1>1. UNCHANGED <<exec, listed, reported, lost, faults, observations, findings, logs>> /\ ResultsGrow
  BY SameResults DEF Ask, apiUnchanged, resultVars, fileVars
<1>2. jobs \in Seq(JobType) /\ Len(jobs) \in Nat /\ listed \in Seq(1 .. Len(jobs))
  BY LenProperties DEF RowsInv, JobTypes
<1>3. r.scope \in Scopes /\ r.trace \in Traces \cup {0} /\ r.steps \in SUBSET Steps
      /\ ((r.scope # "batch" /\ "repair" \in r.steps) => (r.scope = "trace" /\ r.steps = {"repair"}))
  BY JobsAssumption
<1>4. /\ row \in JobType /\ NewRow(row) /\ row.attempts = 0 /\ row.caller = Worker
  BY <1>3 DEF Job, JobType, NewRow, Shape, Status, Executors
<1> HIDE DEF row
<1>5. /\ jobs' \in Seq(JobType) /\ Len(jobs') = Len(jobs) + 1
      /\ \A k \in 1 .. Len(jobs) : jobs'[k] = jobs[k]
      /\ jobs'[Len(jobs) + 1] = row
  BY <1>2, <1>4, OneMore DEF Ask, row
<1>6. Grown(jobs, jobs')
  BY <1>2, <1>5 DEF Grown
<1>7. Len(jobs) + 1 .. Len(jobs') = {Len(jobs) + 1} /\ 1 .. Len(jobs) \subseteq 1 .. Len(jobs')
  BY <1>2, <1>5
<1>8. listed' \in Seq(1 .. Len(jobs'))
  BY <1>1, <1>2, <1>7, SeqMonotonic
<1>9. JobStep(Worker, exec[Worker])
  BY <1>1, <1>4, <1>5, <1>6, <1>7, <1>8, Unmoved
<1> QED
  BY <1>1, <1>4, <1>5, <1>9 DEF Asks

(* A cancellation. *)
Cancels(j) ==
  /\ exec' = exec /\ listed' = listed /\ jobs[j].status \notin Ended
  /\ jobs' \in Seq(JobType) /\ Len(jobs') = Len(jobs)
  /\ \A k \in 1 .. Len(jobs) :
       /\ jobs'[k].attempts = jobs[k].attempts /\ jobs'[k].caller = jobs[k].caller
       /\ jobs'[k].status = (IF k = j THEN "canceled" ELSE jobs[k].status)
LEMMA CancelStep ==
  ASSUME RowsInv, FileTypes, BoundTypes, NEW j \in 1 .. Len(jobs), MarkAnalysisJobCanceled(j)
  PROVE  JobStep(Worker, exec[Worker]) /\ Cancels(j)
<1>1. UNCHANGED <<exec, listed, reported, lost, faults, observations, findings, logs>> /\ ResultsGrow
  BY SameResults DEF MarkAnalysisJobCanceled, apiUnchanged, resultVars, fileVars
<1>2. jobs \in Seq(JobType) /\ Len(jobs) \in Nat /\ listed \in Seq(1 .. Len(jobs)) /\ jobs[j] \in JobType
  BY LenProperties, ElementOfSeq DEF RowsInv, JobTypes
<1> DEFINE row == [jobs[j] EXCEPT !.status = "canceled"]
<1>3. /\ row \in JobType /\ row.scope = jobs[j].scope /\ row.trace = jobs[j].trace
      /\ row.steps = jobs[j].steps /\ row.caller = jobs[j].caller
      /\ row.attempts = jobs[j].attempts /\ row.status = "canceled"
  BY <1>2 DEF JobType, Status
<1>4. jobs' = [jobs EXCEPT ![j] = row]
  BY <1>2 DEF MarkAnalysisJobCanceled
<1> HIDE DEF row
<1>5. /\ Grown(jobs, jobs') /\ Len(jobs') = Len(jobs)
      /\ \A k \in 1 .. Len(jobs) : jobs'[k] = IF k = j THEN row ELSE jobs[k]
  BY <1>3, <1>4, RowSet
<1>6. Len(jobs) + 1 .. Len(jobs') = {}
  BY <1>2, <1>5
<1>7. JobStep(Worker, exec[Worker])
  BY <1>1, <1>2, <1>3, <1>5, <1>6, Unmoved
<1>8. jobs[j].status \notin Ended
  BY DEF MarkAnalysisJobCanceled, Ended
<1> QED
  BY <1>1, <1>3, <1>5, <1>7, <1>8 DEF Cancels, Grown

(* The worker's listing takes queued jobs only, each once. *)
LEMMA ListAnalysisJobsStep ==
  ASSUME RowsInv, FileTypes, BoundTypes, ListAnalysisJobs
  PROVE  /\ JobStep(Worker, exec[Worker])
         /\ ToSet(listed') \subseteq Ids(jobs, "queued")
         /\ \A k, l \in 1 .. Len(listed') : listed'[k] = listed'[l] => k = l
<1>1. UNCHANGED <<exec, jobs, reported, lost, faults, observations, findings, logs>> /\ ResultsGrow
  BY SameResults DEF ListAnalysisJobs, execUnchanged, resultVars
<1>2. jobs \in Seq(JobType) /\ Len(jobs) \in Nat
  BY LenProperties DEF RowsInv, JobTypes
<1> DEFINE I == Ids(jobs, "queued")
<1>3. I \subseteq 1 .. Len(jobs) /\ Cardinality(I) \in Nat
  BY <1>2, IdsFinite
<1>4. listed' \in Listings(I)
  BY DEF ListAnalysisJobs, Waiting
<1> HIDE DEF I
<1>5. I \subseteq Int
  BY <1>3
<1>6. /\ listed' \in Seq(I) /\ ToSet(listed') \subseteq I
      /\ \A k, l \in 1 .. Len(listed') : listed'[k] = listed'[l] => k = l
  BY <1>3, <1>4, <1>5, ListingOf
<1>7. listed' \in Seq(1 .. Len(jobs))
  BY <1>3, <1>6, SeqMonotonic
<1>8. Grown(jobs, jobs') /\ Len(jobs') = Len(jobs) /\ jobs' = jobs
  BY <1>1, GrownSelf
<1>9. Len(jobs) + 1 .. Len(jobs') = {}
  BY <1>2, <1>8
<1>10. JobStep(Worker, exec[Worker])
  BY <1>1, <1>7, <1>8, <1>9, Unmoved
<1> QED
  BY <1>6, <1>10 DEF I

(* The worker takes the next of its list. *)
LEMMA TakeAnalysisJobStep ==
  ASSUME RowsInv, FileTypes, BoundTypes, TakeAnalysisJob
  PROVE  \E x : /\ JobStep(Worker, x) /\ exec' = [exec EXCEPT ![Worker] = x]
                /\ x.pc = "mark" /\ x.job = Head(listed) /\ x.outer = 0
<1> DEFINE o == exec[Worker]  x == [AtRest EXCEPT !.pc = "mark", !.job = Head(listed)]
<1>1. Worker \in Executors /\ o.pc = "idle" /\ listed # <<>>
  BY DEF Executors, TakeAnalysisJob
<1>2. UNCHANGED <<jobs, reported, lost, faults, observations, findings, logs>> /\ ResultsGrow
  BY SameResults DEF TakeAnalysisJob, execUnchanged, resultVars
<1>3. jobs \in Seq(JobType) /\ Len(jobs) \in Nat /\ reported \subseteq 1 .. Len(jobs) /\ lost \subseteq 1 .. Len(jobs)
      /\ listed \in Seq(1 .. Len(jobs)) /\ exec \in [Executors -> ExecType(Len(jobs))]
      /\ o.job = 0
  BY <1>1, LenProperties DEF RowsInv, JobTypes
<1>4. o.outer = 0
  BY <1>1 DEF RowsInv, ExecInv, ExecOK, AtOuter
<1>5. Head(listed) \in 1 .. Len(jobs) /\ Tail(listed) \in Seq(1 .. Len(jobs))
  BY <1>1, <1>3, Taken
<1>6. exec' = [exec EXCEPT ![Worker] = x] /\ listed' = Tail(listed)
  BY DEF TakeAnalysisJob
<1>7. x.pc = "mark" /\ x.job = Head(listed) /\ x.outer = 0 /\ x \in ExecType(Len(jobs))
  BY <1>3, <1>5, StartType
<1> HIDE DEF x
<1>8. Grown(jobs, jobs') /\ Len(jobs') = Len(jobs) /\ jobs' = jobs
  BY <1>2, GrownSelf
<1>9. ExecOK(jobs', observations', findings', logs', Worker, x)
  BY <1>7 DEF ExecOK, AtPC
<1>10. ASSUME NEW j \in 1 .. Len(jobs) PROVE RowOK(o, x, j)
  <2>1. jobs'[j] = jobs[j] /\ ~ Reporting(o, j) /\ ~ Has(o, j)
    BY <1>1, <1>3, <1>4, <1>8 DEF Reporting, Has
  <2> QED
    BY <2>1 DEF RowOK
<1>11. Len(jobs) + 1 .. Len(jobs') = {} /\ Head(listed) # 0
  BY <1>3, <1>5, <1>8
<1>12. JobStep(Worker, x)
  BY <1>2, <1>3, <1>5, <1>6, <1>7, <1>8, <1>9, <1>10, <1>11 DEF JobStep
<1> QED
  BY <1>6, <1>7, <1>12

(* A crash: what was in hand is lost, and nobody knows anything. *)
LEMMA CrashKeepsRows ==
  ASSUME RowsInv, FileTypes, Crash
  PROVE  RowsInv'
<1>1. /\ exec' = [e \in Executors |-> AtRest] /\ listed' = <<>>
      /\ UNCHANGED <<jobs, reported, faults, observations, findings, logs>>
      /\ lost' = lost \cup {j \in 1 .. Len(jobs) : Holders(j) # {}}
  BY DEF Crash, resultVars
<1>2. /\ jobs \in Seq(JobType) /\ Len(jobs) \in Nat
      /\ reported \subseteq 1 .. Len(jobs) /\ lost \subseteq 1 .. Len(jobs)
      /\ observations \subseteq Traces /\ findings \subseteq Traces
  BY LenProperties DEF RowsInv, JobTypes
<1>3. AtRest \in ExecType(Len(jobs)) /\ AtRest.job = 0 /\ AtRest.pc = "idle" /\ AtRest.outer = 0
  <2>1. <<>> \in Seq(Traces) /\ 0 \in 0 .. Len(jobs)
    BY <1>2, EmptySeq
  <2> QED
    BY <2>1 DEF AtRest, ExecType, ExecPC
<1>4. \A e \in Executors : exec'[e] = AtRest
  BY <1>1
<1>5. JobTypes'
  <2>1. exec' \in [Executors -> ExecType(Len(jobs'))]
    BY <1>1, <1>3
  <2>2. listed' \in Seq(1 .. Len(jobs'))
    BY <1>1, EmptySeq
  <2>3. \A e \in Executors : exec'[e].job = 0 <=> exec'[e].pc = "idle"
    BY <1>3, <1>4
  <2>4. lost' \subseteq 1 .. Len(jobs')
    BY <1>1, <1>2
  <2> QED
    BY <1>1, <1>2, <2>1, <2>2, <2>3, <2>4 DEF JobTypes
<1>6. JobShape'
  BY <1>1 DEF RowsInv, JobShape
<1>7. ExecInv'
  BY <1>3, <1>4 DEF ExecInv, ExecOK
<1>8. ASSUME NEW j \in 1 .. Len(jobs), NEW e \in Executors, Has(exec[e], j) \/ Reporting(exec[e], j)
      PROVE  j \in lost'
  <2>1. e \in Holders(j)
    BY <1>8 DEF Has, Reporting, Holders
  <2> QED
    BY <1>1, <2>1
<1>9. RunningInv'
  <2>1. ASSUME NEW j \in 1 .. Len(jobs), jobs[j].status = "running" PROVE j \in lost'
    <3>1. (\E e \in Executors : Has(exec[e], j)) \/ j \in lost
      BY <2>1 DEF RowsInv, RunningInv
    <3> QED
      BY <1>1, <1>8, <3>1
  <2> QED
    BY <1>1, <2>1 DEF RunningInv
<1>10. FailedInv'
  <2>1. ASSUME NEW j \in 1 .. Len(jobs), jobs[j].status = "failed"
        PROVE  j \in reported \/ j \in lost' \/ faults > 0
    <3>1. \/ j \in reported \/ j \in lost \/ faults > 0
          \/ \E e \in Executors : Reporting(exec[e], j)
      BY <2>1 DEF RowsInv, FailedInv
    <3> QED
      BY <1>1, <1>8, <3>1
  <2> QED
    BY <1>1, <2>1 DEF FailedInv
<1>11. CompletedInv'
  BY <1>1 DEF RowsInv, CompletedInv
<1> QED
  BY <1>5, <1>6, <1>7, <1>9, <1>10, <1>11 DEF RowsInv

-----------------------------------------------------------------------------
(* How often a job is executed. *)

(* No execution of j becomes possible that was not. *)
LEMMA TriesKept ==
  ASSUME NEW js, NEW ks, NEW ex, NEW ex2, NEW ls, NEW ls2, NEW j, js[j].attempts \in Nat,
         ks[j].attempts = js[j].attempts, ks[j].caller = js[j].caller,
         Pending(ks, ls2, ex2[Worker], j) => Pending(js, ls, ex[Worker], j),
         Calling(ks, ex2, j) => Calling(js, ex, j),
         Tries(js, ex, ls, j) <= Allowed(js, j)
  PROVE  Tries(ks, ex2, ls2, j) <= Allowed(ks, j)
<1>1. CASE Pending(js, ls, ex[Worker], j) /\ Calling(js, ex, j)
  BY <1>1 DEF Tries, Allowed
<1>2. CASE Pending(js, ls, ex[Worker], j) /\ ~ Calling(js, ex, j)
  BY <1>2 DEF Tries, Allowed
<1>3. CASE ~ Pending(js, ls, ex[Worker], j) /\ Calling(js, ex, j)
  BY <1>3 DEF Tries, Allowed
<1>4. CASE ~ Pending(js, ls, ex[Worker], j) /\ ~ Calling(js, ex, j)
  BY <1>4 DEF Tries, Allowed
<1> QED
  BY <1>1, <1>2, <1>3, <1>4

(* A new row is waited for by the worker, and perhaps by its caller. *)
LEMMA TriesNew ==
  ASSUME NEW ks, NEW ex2, NEW ls2, NEW j, ks[j].attempts = 0
  PROVE  Tries(ks, ex2, ls2, j) <= Allowed(ks, j)
<1>1. CASE ks[j].caller = Worker
  BY <1>1 DEF Tries, Allowed, Calling
<1>2. CASE ks[j].caller # Worker
  BY <1>2 DEF Tries, Allowed
<1> QED
  BY <1>1, <1>2

(* The rows' types, for the lemmas that follow. *)
LEMMA RowTypes ==
  ASSUME RowsInv
  PROVE  /\ jobs \in Seq(JobType) /\ Len(jobs) \in Nat /\ listed \in Seq(1 .. Len(jobs))
         /\ exec \in [Executors -> ExecType(Len(jobs))] /\ Worker \in Executors
         /\ \A j \in 1 .. Len(jobs) : jobs[j].attempts \in Nat /\ jobs[j].caller \in Executors
<1>1. /\ jobs \in Seq(JobType) /\ Len(jobs) \in Nat /\ listed \in Seq(1 .. Len(jobs))
      /\ exec \in [Executors -> ExecType(Len(jobs))] /\ Worker \in Executors
  BY LenProperties DEF RowsInv, JobTypes, Executors
<1>2. \A j \in 1 .. Len(jobs) : jobs[j] \in JobType
  BY <1>1, ElementOfSeq
<1> QED
  BY <1>1, <1>2 DEF JobType

(* A quiet step lets no execution begin. *)
LEMMA QuietAttempts ==
  ASSUME RowsInv, AttemptsInv, NEW e \in Executors, NEW x, Quiet(e, x)
  PROVE  AttemptsInv'
<1>1. /\ Len(jobs) \in Nat /\ exec \in [Executors -> ExecType(Len(jobs))] /\ Worker \in Executors
      /\ \A j \in 1 .. Len(jobs) : jobs[j].attempts \in Nat /\ jobs[j].caller \in Executors
  BY RowTypes
<1>2. /\ listed' = listed /\ x.pc # "mark" /\ Len(jobs') \in Nat
      /\ \A f \in Executors : exec'[f] = IF f = e THEN x ELSE exec[f]
  BY <1>1, LenProperties DEF Quiet
<1>3. \A f \in Executors : exec'[f].pc = "mark" => exec'[f] = exec[f]
  BY <1>2
<1>4. ASSUME NEW j \in 1 .. Len(jobs') PROVE Tries(jobs', exec', listed', j) <= Allowed(jobs', j)
  <2>1. CASE j \in 1 .. Len(jobs)
    <3>1. /\ jobs'[j].attempts = jobs[j].attempts /\ jobs'[j].caller = jobs[j].caller
          /\ jobs'[j].status = "queued" => jobs[j].status = "queued"
      BY <2>1 DEF Quiet
    <3>2. Pending(jobs', listed', exec'[Worker], j) => Pending(jobs, listed, exec[Worker], j)
      BY <1>1, <1>2, <1>3, <3>1 DEF Pending
    <3>3. Calling(jobs', exec', j) => Calling(jobs, exec, j)
      BY <1>1, <1>3, <2>1, <3>1 DEF Calling
    <3>4. Tries(jobs, exec, listed, j) <= Allowed(jobs, j)
      BY <2>1 DEF AttemptsInv, Attempts
    <3> QED
      BY <1>1, <2>1, <3>1, <3>2, <3>3, <3>4, TriesKept
  <2>2. CASE j \notin 1 .. Len(jobs)
    <3>1. j \in Len(jobs) + 1 .. Len(jobs')
      BY <1>1, <1>2, <2>2
    <3>2. jobs'[j].attempts = 0
      BY <3>1 DEF Quiet
    <3> QED
      BY <3>2, TriesNew
  <2> QED
    BY <2>1, <2>2
<1>5. exec'[Worker].pc = "mark" => exec'[Worker].job \notin ToSet(listed')
  BY <1>1, <1>2, <1>3 DEF AttemptsInv, Attempts
<1>6. \A k, l \in 1 .. Len(listed') : listed'[k] = listed'[l] => k = l
  BY <1>2 DEF AttemptsInv, Attempts
<1> QED
  BY <1>4, <1>5, <1>6 DEF AttemptsInv, Attempts

(* The execution that begins was possible, and is so no more. *)
LEMMA BeginsAttempts ==
  ASSUME RowsInv, AttemptsInv, NEW e \in Executors, NEW x, Begins(e, x)
  PROVE  AttemptsInv'
<1> DEFINE i == exec[e].job
<1>1. /\ Len(jobs) \in Nat /\ exec \in [Executors -> ExecType(Len(jobs))] /\ Worker \in Executors
      /\ \A j \in 1 .. Len(jobs) : jobs[j].attempts \in Nat /\ jobs[j].caller \in Executors
  BY RowTypes
<1>2. /\ listed' = listed /\ x.pc # "mark" /\ Len(jobs') = Len(jobs) /\ exec[e].pc = "mark"
      /\ \A f \in Executors : exec'[f] = IF f = e THEN x ELSE exec[f]
  BY <1>1 DEF Begins
<1>3. \A f \in Executors : exec'[f].pc = "mark" => exec'[f] = exec[f]
  BY <1>2
<1>4. i \in 1 .. Len(jobs) /\ e \in {Worker, jobs[i].caller}
  <2>1. exec[e].pc # "idle"
    BY <1>2
  <2> QED
    BY <2>1, AtWork DEF AtPC
<1>5. ASSUME NEW j \in 1 .. Len(jobs), j # i PROVE Tries(jobs', exec', listed', j) <= Allowed(jobs', j)
  <2>1. jobs'[j] = jobs[j]
    BY <1>5 DEF Begins
  <2>2. Pending(jobs', listed', exec'[Worker], j) => Pending(jobs, listed, exec[Worker], j)
    BY <1>1, <1>2, <1>3, <2>1 DEF Pending
  <2>3. Calling(jobs', exec', j) => Calling(jobs, exec, j)
    BY <1>1, <1>3, <2>1 DEF Calling
  <2>4. Tries(jobs, exec, listed, j) <= Allowed(jobs, j)
    BY DEF AttemptsInv, Attempts
  <2> QED
    BY <1>1, <2>1, <2>2, <2>3, <2>4, TriesKept
<1>6. Tries(jobs', exec', listed', i) <= Allowed(jobs', i)
  <2>1. /\ jobs'[i].status = "running" /\ jobs'[i].attempts = jobs[i].attempts + 1
        /\ jobs'[i].caller = jobs[i].caller
    BY <1>4 DEF Begins
  <2>2. Pending(jobs', listed', exec'[Worker], i) => Pending(jobs, listed, exec[Worker], i)
    BY <1>1, <1>2, <1>3, <2>1 DEF Pending
  <2>3. Calling(jobs', exec', i) => Calling(jobs, exec, i)
    BY <1>1, <1>3, <1>4, <2>1 DEF Calling
  <2>4. Tries(jobs, exec, listed, i) <= Allowed(jobs, i) /\ jobs[i].attempts \in Nat
    BY <1>1, <1>4 DEF AttemptsInv, Attempts
  <2>5. Allowed(jobs', i) = Allowed(jobs, i) /\ Allowed(jobs, i) \in Nat
    BY <2>1 DEF Allowed
  <2>6. CASE e = Worker
    <3>1. Pending(jobs, listed, exec[Worker], i)
      BY <1>2, <2>6 DEF Pending
    <3>2. ~ Pending(jobs', listed', exec'[Worker], i)
      BY <1>1, <1>2, <2>1, <2>6 DEF Pending, AttemptsInv, Attempts
    <3> QED
      BY <2>1, <2>3, <2>4, <2>5, <3>1, <3>2 DEF Tries
  <2>7. CASE e # Worker
    <3>1. Calling(jobs, exec, i)
      BY <1>2, <1>4, <2>7 DEF Calling
    <3>2. ~ Calling(jobs', exec', i)
      BY <1>2, <1>4, <2>1, <2>7 DEF Calling
    <3> QED
      BY <2>1, <2>2, <2>4, <2>5, <3>1, <3>2 DEF Tries
  <2> QED
    BY <2>6, <2>7
<1>7. exec'[Worker].pc = "mark" => exec'[Worker].job \notin ToSet(listed')
  BY <1>1, <1>2, <1>3 DEF AttemptsInv, Attempts
<1>8. \A k, l \in 1 .. Len(listed') : listed'[k] = listed'[l] => k = l
  BY <1>2 DEF AttemptsInv, Attempts
<1>9. \A j \in 1 .. Len(jobs') : Tries(jobs', exec', listed', j) <= Allowed(jobs', j)
  BY <1>2, <1>5, <1>6
<1> QED
  BY <1>7, <1>8, <1>9 DEF AttemptsInv, Attempts

(* A job that is made and taken up has one execution by its maker to come, *)
(* and being queued one by the worker.                                     *)
LEMMA CallsAttempts ==
  ASSUME RowsInv, AttemptsInv, NEW e \in Executors, NEW x, Calls(e, x)
  PROVE  AttemptsInv'
<1>1. /\ Len(jobs) \in Nat /\ exec \in [Executors -> ExecType(Len(jobs))] /\ Worker \in Executors
      /\ \A j \in 1 .. Len(jobs) : jobs[j].attempts \in Nat /\ jobs[j].caller \in Executors
      /\ listed \in Seq(1 .. Len(jobs))
  BY RowTypes
<1>2. /\ listed' = listed /\ x.job = Len(jobs) + 1 /\ Len(jobs') = Len(jobs) + 1
      /\ \A f \in Executors : exec'[f] = IF f = e THEN x ELSE exec[f]
  BY <1>1 DEF Calls
<1>3. ASSUME NEW j \in 1 .. Len(jobs') PROVE Tries(jobs', exec', listed', j) <= Allowed(jobs', j)
  <2>1. CASE j \in 1 .. Len(jobs)
    <3>1. jobs'[j] = jobs[j] /\ j # Len(jobs) + 1
      BY <1>1, <2>1 DEF Calls
    <3>2. Pending(jobs', listed', exec'[Worker], j) => Pending(jobs, listed, exec[Worker], j)
      BY <1>1, <1>2, <3>1 DEF Pending
    <3>3. Calling(jobs', exec', j) => Calling(jobs, exec, j)
      BY <1>1, <1>2, <2>1, <3>1 DEF Calling
    <3>4. Tries(jobs, exec, listed, j) <= Allowed(jobs, j)
      BY <2>1 DEF AttemptsInv, Attempts
    <3> QED
      BY <1>1, <2>1, <3>1, <3>2, <3>3, <3>4, TriesKept
  <2>2. CASE j \notin 1 .. Len(jobs)
    <3>1. j = Len(jobs) + 1
      BY <1>1, <1>2, <2>2
    <3>2. jobs'[j].attempts = 0
      BY <3>1 DEF Calls
    <3> QED
      BY <3>2, TriesNew
  <2> QED
    BY <2>1, <2>2
<1>4. Len(jobs) + 1 \notin ToSet(listed)
  <2>1. \A k \in 1 .. Len(listed) : listed[k] \in 1 .. Len(jobs)
    BY <1>1, ElementOfSeq
  <2>2. DOMAIN listed = 1 .. Len(listed)
    BY <1>1, LenProperties
  <2> QED
    BY <1>1, <2>1, <2>2 DEF ToSet
<1>5. exec'[Worker].pc = "mark" => exec'[Worker].job \notin ToSet(listed')
  BY <1>1, <1>2, <1>4 DEF AttemptsInv, Attempts
<1>6. \A k, l \in 1 .. Len(listed') : listed'[k] = listed'[l] => k = l
  BY <1>2 DEF AttemptsInv, Attempts
<1> QED
  BY <1>3, <1>5, <1>6 DEF AttemptsInv, Attempts

(* Steps of nobody who executes: a job is left to the worker, *)
LEMMA AsksAttempts ==
  ASSUME RowsInv, AttemptsInv, NEW r, Asks(r)
  PROVE  AttemptsInv'
<1>1. /\ Len(jobs) \in Nat /\ \A j \in 1 .. Len(jobs) : jobs[j].attempts \in Nat
      /\ exec' = exec /\ listed' = listed /\ Len(jobs') = Len(jobs) + 1
  BY RowTypes DEF Asks
<1>2. ASSUME NEW j \in 1 .. Len(jobs') PROVE Tries(jobs', exec', listed', j) <= Allowed(jobs', j)
  <2>1. CASE j \in 1 .. Len(jobs)
    <3>1. jobs'[j] = jobs[j]
      BY <2>1 DEF Asks
    <3>2. Pending(jobs', listed', exec'[Worker], j) => Pending(jobs, listed, exec[Worker], j)
      BY <1>1, <3>1 DEF Pending
    <3>3. Calling(jobs', exec', j) => Calling(jobs, exec, j)
      BY <1>1, <3>1 DEF Calling
    <3>4. Tries(jobs, exec, listed, j) <= Allowed(jobs, j)
      BY <2>1 DEF AttemptsInv, Attempts
    <3> QED
      BY <1>1, <2>1, <3>1, <3>2, <3>3, <3>4, TriesKept
  <2>2. CASE j \notin 1 .. Len(jobs)
    <3>1. j = Len(jobs) + 1
      BY <1>1, <2>2
    <3>2. jobs'[j].attempts = 0
      BY <3>1 DEF Asks
    <3> QED
      BY <3>2, TriesNew
  <2> QED
    BY <2>1, <2>2
<1> QED
  BY <1>1, <1>2 DEF AttemptsInv, Attempts

(* or cancelled, *)
LEMMA CancelsAttempts ==
  ASSUME RowsInv, AttemptsInv, NEW i, Cancels(i)
  PROVE  AttemptsInv'
<1>1. /\ Len(jobs) \in Nat /\ \A j \in 1 .. Len(jobs) : jobs[j].attempts \in Nat
      /\ exec' = exec /\ listed' = listed /\ Len(jobs') = Len(jobs)
  BY RowTypes DEF Cancels
<1>2. ASSUME NEW j \in 1 .. Len(jobs) PROVE Tries(jobs', exec', listed', j) <= Allowed(jobs', j)
  <2>1. /\ jobs'[j].attempts = jobs[j].attempts /\ jobs'[j].caller = jobs[j].caller
        /\ jobs'[j].status = "queued" => jobs[j].status = "queued"
    BY DEF Cancels
  <2>2. Pending(jobs', listed', exec'[Worker], j) => Pending(jobs, listed, exec[Worker], j)
    BY <1>1, <2>1 DEF Pending
  <2>3. Calling(jobs', exec', j) => Calling(jobs, exec, j)
    BY <1>1, <2>1 DEF Calling
  <2>4. Tries(jobs, exec, listed, j) <= Allowed(jobs, j)
    BY DEF AttemptsInv, Attempts
  <2> QED
    BY <1>1, <2>1, <2>2, <2>3, <2>4, TriesKept
<1> QED
  BY <1>1, <1>2 DEF AttemptsInv, Attempts

(* or listed, being queued, *)
LEMMA ListingAttempts ==
  ASSUME RowsInv, AttemptsInv, ListAnalysisJobs, ToSet(listed') \subseteq Ids(jobs, "queued"),
         \A k, l \in 1 .. Len(listed') : listed'[k] = listed'[l] => k = l
  PROVE  AttemptsInv'
<1>1. /\ Len(jobs) \in Nat /\ \A j \in 1 .. Len(jobs) : jobs[j].attempts \in Nat
      /\ exec' = exec /\ jobs' = jobs /\ exec[Worker].pc = "idle"
  BY RowTypes DEF ListAnalysisJobs
<1>2. ASSUME NEW j \in 1 .. Len(jobs) PROVE Tries(jobs', exec', listed', j) <= Allowed(jobs', j)
  <2>1. j \in ToSet(listed') => jobs[j].status = "queued"
    BY DEF Ids
  <2>2. Pending(jobs', listed', exec'[Worker], j) => Pending(jobs, listed, exec[Worker], j)
    BY <1>1, <2>1 DEF Pending
  <2>3. Calling(jobs', exec', j) => Calling(jobs, exec, j)
    BY <1>1 DEF Calling
  <2>4. Tries(jobs, exec, listed, j) <= Allowed(jobs, j)
    BY DEF AttemptsInv, Attempts
  <2> QED
    BY <1>1, <2>2, <2>3, <2>4, TriesKept
<1> QED
  BY <1>1, <1>2 DEF AttemptsInv, Attempts

(* or taken from the list, where it is no more, *)
LEMMA TakingAttempts ==
  ASSUME RowsInv, AttemptsInv, TakeAnalysisJob,
         NEW x, exec' = [exec EXCEPT ![Worker] = x], x.pc = "mark", x.job = Head(listed)
  PROVE  AttemptsInv'
<1>1. /\ Len(jobs) \in Nat /\ \A j \in 1 .. Len(jobs) : jobs[j].attempts \in Nat /\ jobs[j].caller \in Executors
      /\ listed \in Seq(1 .. Len(jobs)) /\ Worker \in Executors
      /\ exec \in [Executors -> ExecType(Len(jobs))]
  BY RowTypes
<1>2. listed # <<>> /\ listed' = Tail(listed) /\ jobs' = jobs
  BY DEF TakeAnalysisJob
<1>3. \A f \in Executors : exec'[f] = IF f = Worker THEN x ELSE exec[f]
  BY <1>1
<1>4. /\ ToSet(listed) = {Head(listed)} \cup ToSet(Tail(listed))
      /\ Head(listed) \notin ToSet(Tail(listed))
      /\ \A k, l \in 1 .. Len(Tail(listed)) : Tail(listed)[k] = Tail(listed)[l] => k = l
  BY <1>1, <1>2, Taken DEF AttemptsInv, Attempts
<1>5. ASSUME NEW j \in 1 .. Len(jobs) PROVE Tries(jobs', exec', listed', j) <= Allowed(jobs', j)
  <2>1. Pending(jobs', listed', exec'[Worker], j) => Pending(jobs, listed, exec[Worker], j)
    BY <1>1, <1>2, <1>3, <1>4 DEF Pending
  <2>2. Calling(jobs', exec', j) => Calling(jobs, exec, j)
    BY <1>1, <1>2, <1>3 DEF Calling
  <2>3. Tries(jobs, exec, listed, j) <= Allowed(jobs, j)
    BY DEF AttemptsInv, Attempts
  <2> QED
    BY <1>1, <1>2, <2>1, <2>2, <2>3, TriesKept
<1>6. exec'[Worker] = x
  BY <1>1, <1>3
<1> QED
  BY <1>2, <1>4, <1>5, <1>6 DEF AttemptsInv, Attempts

(* or everything stops. *)
LEMMA CrashAttempts ==
  ASSUME RowsInv, AttemptsInv, Crash
  PROVE  AttemptsInv'
<1>1. /\ Len(jobs) \in Nat
      /\ \A j \in 1 .. Len(jobs) : jobs[j].attempts \in Nat /\ jobs[j].caller \in Executors
      /\ Worker \in Executors
  BY RowTypes
<1>2. listed' = <<>> /\ jobs' = jobs /\ \A e \in Executors : exec'[e].pc = "idle"
  BY DEF Crash, AtRest
<1>3. ASSUME NEW j \in 1 .. Len(jobs) PROVE Tries(jobs', exec', listed', j) <= Allowed(jobs', j)
  <2>1. Pending(jobs', listed', exec'[Worker], j) => Pending(jobs, listed, exec[Worker], j)
    BY <1>1, <1>2, NothingLeft DEF Pending
  <2>2. ~ Calling(jobs', exec', j)
    BY <1>1, <1>2 DEF Calling
  <2>3. Tries(jobs, exec, listed, j) <= Allowed(jobs, j)
    BY DEF AttemptsInv, Attempts
  <2> QED
    BY <1>1, <1>2, <2>1, <2>2, <2>3, TriesKept
<1>4. Len(listed') = 0
  BY <1>2
<1> QED
  BY <1>1, <1>2, <1>3, <1>4 DEF AttemptsInv, Attempts

-----------------------------------------------------------------------------
(* What ended stays ended. *)

Ends ==
  \A j \in 1 .. Len(jobs) :
    (jobs[j].status \in Ended /\ ~ Held(j)) => (jobs'[j].status = jobs[j].status /\ ~ Held(j)')

(* Nobody takes a job in hand who has it not, and only who has it changes it. *)
LEMMA MoveEnds ==
  ASSUME RowsInv, NEW e \in Executors, NEW x, exec' = [exec EXCEPT ![e] = x],
         \A j \in 1 .. Len(jobs) : j \in {x.job, x.outer} =>
           (j \in {exec[e].job, exec[e].outer} \/ j \in ToSet(listed)),
         ToSet(listed') \subseteq ToSet(listed),
         \A j \in 1 .. Len(jobs) : j # exec[e].job => jobs'[j].status = jobs[j].status
  PROVE  Ends
<1>1. exec \in [Executors -> ExecType(Len(jobs))]
  BY RowTypes
<1>2. \A f \in Executors : exec'[f] = IF f = e THEN x ELSE exec[f]
  BY <1>1
<1>3. ASSUME NEW j \in 1 .. Len(jobs), ~ Held(j)
      PROVE  jobs'[j].status = jobs[j].status /\ ~ Held(j)'
  <2>1. j \notin ToSet(listed) /\ \A f \in Executors : j \notin {exec[f].job, exec[f].outer}
    BY <1>3 DEF Held, Holders
  <2>2. \A f \in Executors : j \notin {exec'[f].job, exec'[f].outer}
    BY <1>2, <2>1
  <2>3. ~ Held(j)'
    BY <2>1, <2>2 DEF Held, Holders
  <2> QED
    BY <2>1, <2>3
<1> QED
  BY <1>3 DEF Ends

(* So it is of a quiet step, *)
LEMMA QuietEnds ==
  ASSUME RowsInv, NEW e \in Executors, NEW x, Quiet(e, x)
  PROVE  Ends
<1>1. \A j \in 1 .. Len(jobs) : j # 0
  OBVIOUS
<1> QED
  BY <1>1, MoveEnds DEF Quiet

(* of the beginning of a job, *)
LEMMA BeginsEnds ==
  ASSUME RowsInv, NEW e \in Executors, NEW x, Begins(e, x)
  PROVE  Ends
  BY MoveEnds DEF Begins

(* of a job made and taken up, *)
LEMMA CallsEnds ==
  ASSUME RowsInv, NEW e \in Executors, NEW x, Calls(e, x)
  PROVE  Ends
<1>1. Len(jobs) \in Nat
  BY RowTypes
<1>2. \A j \in 1 .. Len(jobs) : j # 0 /\ j # Len(jobs) + 1
  BY <1>1
<1> QED
  BY <1>2, MoveEnds DEF Calls

(* of a job taken from the list, *)
LEMMA TakingEnds ==
  ASSUME RowsInv, TakeAnalysisJob,
         NEW x, exec' = [exec EXCEPT ![Worker] = x], x.job = Head(listed), x.outer = 0
  PROVE  Ends
<1>1. /\ listed \in Seq(1 .. Len(jobs)) /\ Worker \in Executors
      /\ exec \in [Executors -> ExecType(Len(jobs))]
  BY RowTypes
<1>2. listed # <<>> /\ listed' = Tail(listed) /\ jobs' = jobs
  BY DEF TakeAnalysisJob
<1>3. ToSet(listed) = {Head(listed)} \cup ToSet(Tail(listed))
  BY <1>1, <1>2, Taken
<1>4. \A j \in 1 .. Len(jobs) : j # 0
  OBVIOUS
<1> QED
  BY <1>1, <1>2, <1>3, <1>4, MoveEnds

(* and of the others. *)
LEMMA OtherEnds ==
  ASSUME RowsInv, exec' = exec,
         \A j \in 1 .. Len(jobs) : jobs[j].status \in Ended =>
           (jobs'[j].status = jobs[j].status /\ (j \in ToSet(listed') => j \in ToSet(listed)))
  PROVE  Ends
<1>1. ASSUME NEW j \in 1 .. Len(jobs), jobs[j].status \in Ended, ~ Held(j)
      PROVE  jobs'[j].status = jobs[j].status /\ ~ Held(j)'
  BY <1>1 DEF Held, Holders
<1> QED
  BY <1>1 DEF Ends
LEMMA CrashEnds ==
  ASSUME Crash
  PROVE  Ends
<1>1. listed' = <<>> /\ jobs' = jobs /\ \A e \in Executors : exec'[e].job = 0 /\ exec'[e].outer = 0
  BY DEF Crash, AtRest
<1>2. \A j \in 1 .. Len(jobs) : ~ Held(j)'
  BY <1>1, NothingLeft DEF Held, Holders
<1> QED
  BY <1>1, <1>2 DEF Ends

-----------------------------------------------------------------------------
(* The files, the index and the parse jobs. *)

(* The parse jobs are of traces. *)
LEMMA ParseRows ==
  ASSUME FilePart
  PROVE  /\ parseJobs \in Seq(ParseType) /\ Len(parseJobs) \in Nat
         /\ \A i \in 1 .. Len(parseJobs) : parseJobs[i] \in ParseType /\ parseJobs[i].trace \in Traces
<1>1. parseJobs \in Seq(ParseType) /\ Len(parseJobs) \in Nat
  BY LenProperties DEF FilePart, FileTypes
<1>2. \A i \in 1 .. Len(parseJobs) : parseJobs[i] \in ParseType
  BY <1>1, ElementOfSeq
<1> QED
  BY <1>1, <1>2 DEF ParseType

(* A step of the others keeps them right when it leaves no file unread but *)
(* in a repair.                                                            *)
LEMMA FilesKept ==
  ASSUME FilePart, UNCHANGED <<recorder, logs, parseJobs, parser, lostParses, reportedParses>>,
         cassette' \in [Traces -> Files], rewritten \subseteq rewritten', rewritten' \subseteq Traces,
         faults > 0 => faults' > 0,
         \A t \in Traces : recorder[t] = "none" => cassette'[t] = cassette[t],
         \A t \in Traces : Written(t) => Written(t)'
  PROVE  FilePart'
<1>1. FileTypes'
  BY DEF FilePart, FileTypes
<1>2. ASSUME NEW i \in 1 .. Len(parseJobs) PROVE parseJobs[i].trace \in Traces
  BY ParseRows
<1>3. FileInv'
  <2>1. ASSUME NEW i \in 1 .. Len(parseJobs) PROVE parseJobs[i].trace \in logs /\ Written(parseJobs[i].trace)'
    <3>1. parseJobs[i].trace \in logs /\ Written(parseJobs[i].trace)
      BY DEF FilePart, FileInv
    <3>2. PICK t \in Traces : t = parseJobs[i].trace
      BY <1>2
    <3>3. Written(t)'
      BY <3>1, <3>2
    <3> QED
      BY <3>1, <3>2, <3>3 DEF Written
  <2>2. ASSUME NEW t \in Traces
        PROVE  /\ recorder[t] = "none" => (t \notin logs /\ cassette'[t] = "none")
               /\ recorder[t] \in {"index", "enqueue"} => Written(t)'
               /\ recorder[t] = "enqueue" => t \in logs
    BY DEF FilePart, FileInv
  <2> QED
    BY <2>1, <2>2 DEF FileInv, Written
<1>4. ParseInv'
  BY DEF FilePart, ParseInv, Excused
<1> QED
  BY <1>1, <1>3, <1>4 DEF FilePart

(* The recorder keeps them right: from here the files are the state. *)
LEMMA PrepareLogFileFiles ==
  ASSUME FilePart, BoundTypes, NEW t \in Traces, PrepareLogFile(t)
  PROVE  FilePart'
<1>1. /\ UNCHANGED <<logs, rewritten, parseJobs, faults, parser, lostParses, reportedParses>>
      /\ recorder[t] = "none"
      /\ recorder' = [recorder EXCEPT ![t] = "write"] /\ cassette' = [cassette EXCEPT ![t] = "partial"]
  BY DEF PrepareLogFile, recorderUnchanged, parserGhosts
<1>2. cassette \in [Traces -> Files] /\ recorder \in [Traces -> RecorderPC]
  BY DEF FilePart, FileTypes
<1>3. FileTypes'
  BY <1>1, <1>2 DEF FilePart, FileTypes, Files, RecorderPC
<1>4. t \notin logs
  BY <1>1 DEF FilePart, FileInv
<1>5. FileInv'
  <2>1. \A i \in 1 .. Len(parseJobs) : parseJobs[i].trace # t
    BY <1>4 DEF FilePart, FileInv
  <2>2. \A u \in Traces : u # t => (cassette'[u] = cassette[u] /\ recorder'[u] = recorder[u])
    BY <1>1, <1>2
  <2>3. recorder'[t] = "write"
    BY <1>1, <1>2
  <2>4. \A i \in 1 .. Len(parseJobs) : parseJobs[i].trace \in Traces
    BY ParseRows
  <2> QED
    BY <1>1, <2>1, <2>2, <2>3, <2>4 DEF FilePart, FileInv, Written
<1>6. ParseInv'
  BY <1>1 DEF FilePart, ParseInv, Excused
<1> QED
  BY <1>3, <1>5, <1>6 DEF FilePart

LEMMA WriteCassetteFiles ==
  ASSUME FilePart, BoundTypes, NEW t \in Traces, WriteCassette(t)
  PROVE  FilePart'
<1>1. /\ UNCHANGED <<logs, rewritten, parseJobs, parser, lostParses, reportedParses>>
      /\ recorder[t] = "write" /\ (faults > 0 => faults' > 0)
      /\ \/ /\ recorder' = [recorder EXCEPT ![t] = "index"] /\ cassette' = [cassette EXCEPT ![t] = "whole"]
         \/ /\ recorder' = [recorder EXCEPT ![t] = "done"] /\ cassette' = cassette
  BY FaultsCount DEF WriteCassette, recorderUnchanged, parserGhosts
<1>2. cassette \in [Traces -> Files] /\ recorder \in [Traces -> RecorderPC]
  BY DEF FilePart, FileTypes
<1>3. FileTypes'
  BY <1>1, <1>2 DEF FilePart, FileTypes, Files, RecorderPC
<1>4. FileInv'
  <2>1. \A u \in Traces : Written(u) => Written(u)'
    BY <1>1, <1>2 DEF Written
  <2>2. \A u \in Traces : u # t => (cassette'[u] = cassette[u] /\ recorder'[u] = recorder[u])
    BY <1>1, <1>2
  <2>3. recorder'[t] = "done" \/ (recorder'[t] = "index" /\ Written(t)')
    BY <1>1, <1>2 DEF Written
  <2>4. \A i \in 1 .. Len(parseJobs) : parseJobs[i].trace \in Traces
    BY ParseRows
  <2> QED
    BY <1>1, <2>1, <2>2, <2>3, <2>4 DEF FilePart, FileInv, Written
<1>5. ParseInv'
  BY <1>1 DEF FilePart, ParseInv, Excused
<1> QED
  BY <1>3, <1>4, <1>5 DEF FilePart

LEMMA IndexTraceFiles ==
  ASSUME FilePart, BoundTypes, NEW t \in Traces, IndexTrace(t)
  PROVE  FilePart'
<1>1. /\ UNCHANGED <<cassette, rewritten, parseJobs, parser, lostParses, reportedParses>>
      /\ recorder[t] = "index" /\ (faults > 0 => faults' > 0)
      /\ \/ recorder' = [recorder EXCEPT ![t] = "enqueue"] /\ logs' = logs \cup {t}
         \/ recorder' = [recorder EXCEPT ![t] = "done"] /\ logs' = logs
  BY FaultsCount DEF IndexTrace, recorderUnchanged, parserGhosts
<1>2. recorder \in [Traces -> RecorderPC]
  BY DEF FilePart, FileTypes
<1>3. FileTypes'
  BY <1>1, <1>2 DEF FilePart, FileTypes, RecorderPC
<1>4. FileInv'
  <2>1. logs \subseteq logs' /\ Written(t)
    BY <1>1 DEF FilePart, FileInv
  <2>2. \A u \in Traces : u # t => (recorder'[u] = recorder[u] /\ (u \in logs' <=> u \in logs))
    BY <1>1, <1>2
  <2>3. recorder'[t] = "done" \/ (recorder'[t] = "enqueue" /\ t \in logs')
    BY <1>1, <1>2
  <2> QED
    BY <1>1, <2>1, <2>2, <2>3 DEF FilePart, FileInv, Written
<1>5. ParseInv'
  BY <1>1 DEF FilePart, ParseInv, Excused
<1> QED
  BY <1>3, <1>4, <1>5 DEF FilePart

LEMMA SyncFiles ==
  ASSUME FilePart, BoundTypes, NEW t \in Traces, Sync(t)
  PROVE  FilePart'
<1>1. /\ UNCHANGED <<cassette, recorder, rewritten, parseJobs, parser, lostParses, reportedParses, faults>>
      /\ cassette[t] = "whole" /\ logs' = logs \cup {t}
  BY DEF Sync, recorderUnchanged, parserGhosts
<1>2. FileTypes'
  BY <1>1 DEF FilePart, FileTypes
<1>3. recorder[t] # "none"
  BY <1>1 DEF FilePart, FileInv
<1>4. FileInv'
  BY <1>1, <1>3 DEF FilePart, FileInv, Written
<1>5. ParseInv'
  BY <1>1 DEF FilePart, ParseInv, Excused
<1> QED
  BY <1>2, <1>4, <1>5 DEF FilePart

(* The job that is enqueued is of a trace that is written and indexed. *)
LEMMA EnqueueParseJobFiles ==
  ASSUME FilePart, BoundTypes, NEW t \in Traces, EnqueueParseJob(t)
  PROVE  FilePart'
<1>1. /\ UNCHANGED <<cassette, logs, rewritten, parser, lostParses, reportedParses>>
      /\ recorder[t] = "enqueue" /\ (faults > 0 => faults' > 0)
      /\ recorder' = [recorder EXCEPT ![t] = "done"]
      /\ parseJobs' = parseJobs \/ parseJobs' = Append(parseJobs, ParseJob(t))
  BY FaultsCount DEF EnqueueParseJob, recorderUnchanged, parserGhosts
<1>2. /\ recorder \in [Traces -> RecorderPC] /\ parseJobs \in Seq(ParseType) /\ Len(parseJobs) \in Nat
      /\ parser \in [pc : ParserPC, job : 0 .. Len(parseJobs), list : Seq(1 .. Len(parseJobs))]
      /\ reportedParses \subseteq 1 .. Len(parseJobs) /\ lostParses \subseteq 1 .. Len(parseJobs)
  BY LenProperties DEF FilePart, FileTypes
<1>3. /\ parseJobs' \in Seq(ParseType) /\ Len(parseJobs') \in Nat /\ Len(parseJobs) <= Len(parseJobs')
      /\ \A i \in 1 .. Len(parseJobs) : parseJobs'[i] = parseJobs[i]
      /\ \A i \in 1 .. Len(parseJobs') : i \notin 1 .. Len(parseJobs) =>
           (parseJobs'[i].trace = t /\ parseJobs'[i].status = "queued")
  <2>1. CASE parseJobs' = parseJobs
    BY <1>2, <2>1
  <2>2. CASE parseJobs' = Append(parseJobs, ParseJob(t))
    <3>1. ParseJob(t) \in ParseType /\ ParseJob(t).trace = t /\ ParseJob(t).status = "queued"
      BY DEF ParseJob, ParseType, ParseStatus
    <3>2. /\ parseJobs' \in Seq(ParseType) /\ Len(parseJobs') = Len(parseJobs) + 1
          /\ \A i \in 1 .. Len(parseJobs) : parseJobs'[i] = parseJobs[i]
          /\ parseJobs'[Len(parseJobs) + 1] = ParseJob(t)
      BY <1>2, <2>2, <3>1, OneMore
    <3>3. \A i \in 1 .. Len(parseJobs') : i \notin 1 .. Len(parseJobs) => i = Len(parseJobs) + 1
      BY <1>2, <3>2
    <3> QED
      BY <1>2, <3>1, <3>2, <3>3
  <2> QED
    BY <1>1, <2>1, <2>2
<1>4. FileTypes'
  <2>1. 1 .. Len(parseJobs) \subseteq 1 .. Len(parseJobs') /\ 0 .. Len(parseJobs) \subseteq 0 .. Len(parseJobs')
    BY <1>2, <1>3
  <2>2. parser.list \in Seq(1 .. Len(parseJobs'))
    BY <1>2, <2>1, SeqMonotonic
  <2>3. parser \in [pc : ParserPC, job : 0 .. Len(parseJobs'), list : Seq(1 .. Len(parseJobs'))]
    BY <1>2, <2>1, <2>2
  <2>4. recorder' \in [Traces -> RecorderPC]
    BY <1>1, <1>2 DEF RecorderPC
  <2> QED
    BY <1>1, <1>2, <1>3, <2>1, <2>3, <2>4 DEF FilePart, FileTypes
<1>5. t \in logs /\ Written(t)
  BY <1>1 DEF FilePart, FileInv
<1>6. FileInv'
  <2>1. ASSUME NEW i \in 1 .. Len(parseJobs') PROVE parseJobs'[i].trace \in logs /\ Written(parseJobs'[i].trace)
    <3>1. CASE i \in 1 .. Len(parseJobs)
      BY <1>3, <3>1 DEF FilePart, FileInv
    <3>2. CASE i \notin 1 .. Len(parseJobs)
      BY <1>3, <1>5, <3>2
    <3> QED
      BY <3>1, <3>2
  <2>2. \A u \in Traces : recorder'[u] = (IF u = t THEN "done" ELSE recorder[u])
    BY <1>1, <1>2
  <2> QED
    BY <1>1, <2>1, <2>2 DEF FilePart, FileInv, Written
<1>7. ParseInv'
  <2>1. ASSUME NEW i \in 1 .. Len(parseJobs'), parseJobs'[i].status # "queued"
        PROVE  i \in 1 .. Len(parseJobs) /\ parseJobs'[i] = parseJobs[i]
    BY <1>3, <2>1
  <2>2. parser.pc = "fail" => parser.job \in 1 .. Len(parseJobs)
    <3>1. parser.job \in 0 .. Len(parseJobs) /\ (parser.job = 0 <=> parser.pc = "idle")
      BY <1>2 DEF FilePart, FileTypes
    <3> QED
      BY <1>2, <3>1
  <2>3. parser.pc = "fail" => (Excused(parser.job) /\ parseJobs'[parser.job] = parseJobs[parser.job])
    BY <1>3, <2>2 DEF FilePart, ParseInv
  <2>4. ASSUME NEW i \in 1 .. Len(parseJobs'), parseJobs'[i].status = "running"
        PROVE  (parser.job = i /\ parser.pc \in {"parse", "save", "done", "fail"}) \/ i \in lostParses
    BY <2>1, <2>4 DEF FilePart, ParseInv
  <2>5. ASSUME NEW i \in 1 .. Len(parseJobs'), parseJobs'[i].status = "failed"
        PROVE  /\ Excused(i) /\ parseJobs'[i] = parseJobs[i]
               /\ \/ i \in reportedParses \/ i \in lostParses \/ faults > 0
                  \/ parser.job = i /\ parser.pc = "report"
    BY <2>1, <2>5 DEF FilePart, ParseInv
  <2> QED
    BY <1>1, <2>3, <2>4, <2>5 DEF ParseInv, Excused
<1> QED
  BY <1>4, <1>6, <1>7 DEF FilePart

(* So does a crash. *)
LEMMA CrashFiles ==
  ASSUME FilePart, Crash
  PROVE  FilePart'
<1>1. /\ UNCHANGED <<cassette, logs, rewritten, parseJobs, reportedParses, faults>>
      /\ parser' = [pc |-> "idle", job |-> 0, list |-> <<>>]
      /\ recorder' = [t \in Traces |-> IF recorder[t] = "none" THEN "none" ELSE "done"]
      /\ lostParses' = lostParses \cup ({parser.job} \ {0})
  BY DEF Crash
<1>2. Len(parseJobs) \in Nat /\ parser.job \in 0 .. Len(parseJobs)
  BY LenProperties DEF FilePart, FileTypes
<1>3. FileTypes'
  <2>1. parser' \in [pc : ParserPC, job : 0 .. Len(parseJobs), list : Seq(1 .. Len(parseJobs))]
        /\ parser'.job = 0 /\ parser'.pc = "idle"
    BY <1>1, <1>2, EmptySeq DEF ParserPC
  <2>2. lostParses' \subseteq 1 .. Len(parseJobs)
    <3>1. lostParses \subseteq 1 .. Len(parseJobs)
      BY DEF FilePart, FileTypes
    <3>2. {parser.job} \ {0} \subseteq 1 .. Len(parseJobs)
      BY <1>2
    <3> QED
      BY <1>1, <3>1, <3>2
  <2>3. recorder' \in [Traces -> RecorderPC]
    BY <1>1 DEF RecorderPC
  <2> QED
    BY <1>1, <2>1, <2>2, <2>3 DEF FilePart, FileTypes
<1>4. FileInv'
  BY <1>1 DEF FilePart, FileInv, Written
<1>5. ParseInv'
  <2>1. lostParses \subseteq lostParses' /\ parser'.pc = "idle"
    BY <1>1
  <2>2. ASSUME NEW i \in 1 .. Len(parseJobs), parser.job = i PROVE i \in lostParses'
    BY <1>1, <2>2
  <2>3. ASSUME NEW i \in 1 .. Len(parseJobs), parseJobs[i].status = "running" PROVE i \in lostParses'
    BY <2>1, <2>2, <2>3 DEF FilePart, ParseInv
  <2>4. ASSUME NEW i \in 1 .. Len(parseJobs), parseJobs[i].status = "failed"
        PROVE  Excused(i) /\ (i \in reportedParses \/ i \in lostParses' \/ faults > 0)
    BY <2>1, <2>2, <2>4 DEF FilePart, ParseInv
  <2> QED
    BY <1>1, <2>1, <2>3, <2>4 DEF ParseInv, Excused
<1> QED
  BY <1>3, <1>4, <1>5 DEF FilePart

(* The parse worker's steps. *)
ParsingPC == {"parse", "save", "done", "fail"}
ParserType == [pc : ParserPC, job : 0 .. Len(parseJobs), list : Seq(1 .. Len(parseJobs))]
ParseRowOK(i) ==
  /\ parseJobs'[i].trace = parseJobs[i].trace
  /\ parseJobs'[i].status = "running" =>
       \/ parser'.job = i /\ parser'.pc \in ParsingPC
       \/ i \in lostParses'
       \/ parseJobs[i].status = "running" /\ ~ (parser.job = i /\ parser.pc \in ParsingPC)
  /\ parseJobs'[i].status = "failed" =>
       \/ /\ Excused(i)
          /\ \/ i \in reportedParses' \/ i \in lostParses' \/ faults' > 0
             \/ parser'.job = i /\ parser'.pc = "report"
       \/ parseJobs[i].status = "failed" /\ ~ (parser.job = i /\ parser.pc = "report")
LEMMA ParserKeeps ==
  ASSUME FilePart, UNCHANGED <<cassette, recorder, logs, rewritten>>, faults > 0 => faults' > 0,
         parseJobs' \in Seq(ParseType), Len(parseJobs') = Len(parseJobs),
         parser' \in ParserType, parser'.job = 0 <=> parser'.pc = "idle",
         lostParses \subseteq lostParses', lostParses' \subseteq 1 .. Len(parseJobs),
         reportedParses \subseteq reportedParses', reportedParses' \subseteq 1 .. Len(parseJobs),
         \A i \in 1 .. Len(parseJobs) : ParseRowOK(i),
         parser'.pc = "fail" => (Excused(parser'.job) \/ faults' > 0)
  PROVE  FilePart'
<1>1. FileTypes'
  BY DEF FilePart, FileTypes, ParserType
<1>2. FileInv'
  <2>1. \A i \in 1 .. Len(parseJobs) : parseJobs'[i].trace = parseJobs[i].trace
    BY DEF ParseRowOK
  <2> QED
    BY <2>1 DEF FilePart, FileInv, Written
<1>3. ASSUME NEW i \in 1 .. Len(parseJobs), Excused(i) PROVE Excused(i)'
  BY <1>3 DEF Excused, ParseRowOK
<1>4. ASSUME NEW i \in 1 .. Len(parseJobs), parseJobs'[i].status = "running"
      PROVE  (parser'.job = i /\ parser'.pc \in ParsingPC) \/ i \in lostParses'
  BY <1>4 DEF ParseRowOK, FilePart, ParseInv, ParsingPC
<1>5. ASSUME NEW i \in 1 .. Len(parseJobs), parseJobs'[i].status = "failed"
      PROVE  /\ Excused(i)'
             /\ \/ i \in reportedParses' \/ i \in lostParses' \/ faults' > 0
                \/ parser'.job = i /\ parser'.pc = "report"
  <2>1. ParseRowOK(i)
    OBVIOUS
  <2>2. CASE parseJobs[i].status = "failed" /\ ~ (parser.job = i /\ parser.pc = "report")
    <3>1. Excused(i) /\ (i \in reportedParses \/ i \in lostParses \/ faults > 0)
      BY <2>2 DEF FilePart, ParseInv
    <3> QED
      BY <1>3, <3>1
  <2>3. CASE /\ Excused(i)
             /\ \/ i \in reportedParses' \/ i \in lostParses' \/ faults' > 0
                \/ parser'.job = i /\ parser'.pc = "report"
    BY <1>3, <2>3
  <2> QED
    BY <1>5, <2>1, <2>2, <2>3 DEF ParseRowOK
<1>6. parser'.pc = "fail" => Excused(parser.job)'
  <2> SUFFICES ASSUME parser'.pc = "fail" PROVE Excused(parser.job)'
    OBVIOUS
  <2>1. CASE faults' > 0
    BY <2>1 DEF Excused
  <2>2. CASE Excused(parser'.job)
    <3>1. Len(parseJobs) \in Nat /\ parser'.job \in 0 .. Len(parseJobs) /\ parser'.job # 0
      BY ParseRows DEF ParserType
    <3>2. PICK i \in 1 .. Len(parseJobs) : i = parser'.job
      BY <3>1
    <3> QED
      BY <1>3, <2>2, <3>2 DEF Excused
  <2> QED
    BY <2>1, <2>2
<1>7. ParseInv'
  BY <1>4, <1>5, <1>6 DEF ParseInv, ParsingPC
<1> QED
  BY <1>1, <1>2, <1>7 DEF FilePart

(* A row of the table is marked. *)
LEMMA ParseMarked ==
  ASSUME FilePart, NEW i \in 1 .. Len(parseJobs), NEW status \in ParseStatus, SetParse(i, status)
  PROVE  /\ parseJobs' \in Seq(ParseType) /\ Len(parseJobs') = Len(parseJobs)
         /\ \A k \in 1 .. Len(parseJobs) :
              /\ parseJobs'[k].trace = parseJobs[k].trace
              /\ parseJobs'[k].status = (IF k = i THEN status ELSE parseJobs[k].status)
<1> DEFINE row == [parseJobs[i] EXCEPT !.status = status]
<1>1. /\ parseJobs \in Seq(ParseType) /\ Len(parseJobs) \in Nat
      /\ \A k \in 1 .. Len(parseJobs) : parseJobs[k] \in ParseType
  BY ParseRows
<1>2. row \in ParseType /\ row.trace = parseJobs[i].trace /\ row.status = status
  BY <1>1 DEF ParseType
<1>3. parseJobs' = [parseJobs EXCEPT ![i] = row]
  BY <1>1 DEF SetParse
<1> HIDE DEF row
<1>4. /\ parseJobs' \in Seq(ParseType) /\ Len(parseJobs') = Len(parseJobs)
      /\ \A k \in 1 .. Len(parseJobs) : parseJobs'[k] = IF k = i THEN row ELSE parseJobs[k]
  BY <1>1, <1>2, <1>3, ExceptSeq
<1> QED
  BY <1>2, <1>4

(* The worker at another pc, and at rest. *)
LEMMA ParserAt ==
  ASSUME FilePart
  PROVE  /\ parser \in ParserType /\ parser.job \in 0 .. Len(parseJobs)
         /\ (parser.job = 0 <=> parser.pc = "idle") /\ parser.list \in Seq(1 .. Len(parseJobs))
         /\ parser.pc # "idle" => parser.job \in 1 .. Len(parseJobs)
         /\ \A pc \in ParserPC : ParserTo(pc) =>
              (parser' \in ParserType /\ parser'.pc = pc /\ parser'.job = parser.job)
         /\ ParserRests => (parser' \in ParserType /\ parser'.pc = "idle" /\ parser'.job = 0)
<1>1. /\ parser \in ParserType /\ parser.job \in 0 .. Len(parseJobs) /\ Len(parseJobs) \in Nat
      /\ (parser.job = 0 <=> parser.pc = "idle") /\ parser.list \in Seq(1 .. Len(parseJobs))
  BY ParseRows DEF FilePart, FileTypes, ParserType
<1>2. parser.pc # "idle" => parser.job \in 1 .. Len(parseJobs)
  BY <1>1
<1>3. \A pc \in ParserPC : ParserTo(pc) =>
        (parser' \in ParserType /\ parser'.pc = pc /\ parser'.job = parser.job)
  BY <1>1 DEF ParserTo, ParserType
<1>4. ParserRests => (parser' \in ParserType /\ parser'.pc = "idle" /\ parser'.job = 0)
  <2>1. 0 \in 0 .. Len(parseJobs) /\ "idle" \in ParserPC
    BY <1>1 DEF ParserPC
  <2>2. parser \in [pc : ParserPC, job : 0 .. Len(parseJobs), list : Seq(1 .. Len(parseJobs))]
    BY <1>1 DEF ParserType
  <2> QED
    BY <2>1, <2>2 DEF ParserRests, ParserType
<1> QED
  BY <1>1, <1>2, <1>3, <1>4

(* A step that changes no row. *)
LEMMA SameRowsParser ==
  ASSUME FilePart, UNCHANGED <<cassette, recorder, logs, rewritten, parseJobs>>,
         faults > 0 => faults' > 0,
         parser' \in ParserType, parser'.job = 0 <=> parser'.pc = "idle",
         lostParses \subseteq lostParses', lostParses' \subseteq 1 .. Len(parseJobs),
         reportedParses \subseteq reportedParses', reportedParses' \subseteq 1 .. Len(parseJobs),
         parser.pc \in ParsingPC =>
           ((parser'.job = parser.job /\ parser'.pc \in ParsingPC) \/ parser.job \in lostParses'),
         parser.pc = "report" => (parser.job \in reportedParses' \/ faults' > 0),
         parser'.pc = "fail" => (Excused(parser'.job) \/ faults' > 0)
  PROVE  FilePart'
<1>1. \A i \in 1 .. Len(parseJobs) : ParseRowOK(i)
  <2> SUFFICES ASSUME NEW i \in 1 .. Len(parseJobs) PROVE ParseRowOK(i)
    OBVIOUS
  <2>1. parseJobs[i].status = "failed" => Excused(i)
    BY DEF FilePart, ParseInv
  <2>2. (parser.job = i /\ parser.pc \in ParsingPC) =>
          ((parser'.job = i /\ parser'.pc \in ParsingPC) \/ i \in lostParses')
    OBVIOUS
  <2>3. (parser.job = i /\ parser.pc = "report") => (i \in reportedParses' \/ faults' > 0)
    OBVIOUS
  <2> QED
    BY <2>1, <2>2, <2>3 DEF ParseRowOK
<1>2. parseJobs' \in Seq(ParseType) /\ Len(parseJobs') = Len(parseJobs)
  BY ParseRows
<1> QED
  BY <1>1, <1>2, ParserKeeps

(* What each of its steps leaves alone. *)
LEMMA ParserFrame ==
  ASSUME FilePart, BoundTypes, Parser
  PROVE  /\ UNCHANGED <<cassette, recorder, logs, rewritten>>
         /\ UNCHANGED <<findings, jobs, exec, listed, reported, lost, asks, crashes>>
         /\ faults > 0 => faults' > 0
         /\ faults' \in 0 .. MaxMishaps
         /\ observations' \subseteq observations \cup Traces /\ observations \subseteq observations'
<1>1. parserUnchanged => /\ UNCHANGED <<cassette, recorder, logs, rewritten>>
                         /\ UNCHANGED <<findings, jobs, exec, listed, reported, lost, asks, crashes>>
  BY DEF parserUnchanged, fileVars, execVars
<1>2. /\ Works => (faults > 0 => faults' > 0) /\ faults' \in 0 .. MaxMishaps
      /\ Fails => (faults > 0 => faults' > 0) /\ faults' \in 0 .. MaxMishaps
      /\ faults' = faults => (faults > 0 => faults' > 0) /\ faults' \in 0 .. MaxMishaps
  BY FaultsCount DEF BoundTypes
<1>3. CASE ListParseJobs \/ TakeParseJob \/ MarkParseJobRunning \/ ParserReads
  BY <1>1, <1>2, <1>3 DEF ListParseJobs, TakeParseJob, MarkParseJobRunning, ParserReads
<1>4. CASE MarkParseJobDone \/ MarkParseJobFailed \/ ReportParseFailure
  BY <1>1, <1>2, <1>4 DEF MarkParseJobDone, MarkParseJobFailed, ReportParseFailure
<1>5. CASE ParserSaves
  <2>1. parser.pc # "idle"
    BY <1>5 DEF ParserSaves
  <2>2. parseJobs[parser.job].trace \in Traces
    BY <2>1, ParserAt, ParseRows
  <2> QED
    BY <1>1, <1>2, <1>5, <2>2 DEF ParserSaves
<1> QED
  BY <1>3, <1>4, <1>5 DEF Parser

(* Each of its steps keeps the parse jobs right. *)
LEMMA ParserFiles ==
  ASSUME FilePart, BoundTypes, Parser
  PROVE  FilePart'
<1>1. UNCHANGED <<cassette, recorder, logs, rewritten>> /\ (faults > 0 => faults' > 0)
  BY ParserFrame
<1>2. /\ parser \in ParserType /\ parser.job \in 0 .. Len(parseJobs)
      /\ (parser.job = 0 <=> parser.pc = "idle") /\ parser.list \in Seq(1 .. Len(parseJobs))
      /\ parser.pc # "idle" => parser.job \in 1 .. Len(parseJobs)
      /\ \A pc \in ParserPC : ParserTo(pc) =>
           (parser' \in ParserType /\ parser'.pc = pc /\ parser'.job = parser.job)
      /\ ParserRests => (parser' \in ParserType /\ parser'.pc = "idle" /\ parser'.job = 0)
  BY ParserAt
<1>3. /\ parseJobs \in Seq(ParseType) /\ Len(parseJobs) \in Nat
      /\ \A i \in 1 .. Len(parseJobs) : parseJobs[i] \in ParseType /\ parseJobs[i].trace \in Traces
  BY ParseRows
<1>4. lostParses \subseteq 1 .. Len(parseJobs) /\ reportedParses \subseteq 1 .. Len(parseJobs)
  BY DEF FilePart, FileTypes
<1>5. /\ "mark" \in ParserPC /\ "parse" \in ParserPC /\ "save" \in ParserPC /\ "done" \in ParserPC
      /\ "fail" \in ParserPC /\ "report" \in ParserPC
      /\ "running" \in ParseStatus /\ "parsed" \in ParseStatus /\ "failed" \in ParseStatus
  BY DEF ParserPC, ParseStatus
<1>6. ASSUME ListParseJobs PROVE FilePart'
  <2> DEFINE I == Ids(parseJobs, "queued")
  <2>1. I \subseteq 1 .. Len(parseJobs) /\ Cardinality(I) \in Nat
    BY <1>3, IdsFinite
  <2>2. PICK list \in Listings(I) : parser' = [parser EXCEPT !.list = list]
    BY <1>6 DEF ListParseJobs
  <2> HIDE DEF I
  <2>3. I \subseteq Int
    BY <1>3, <2>1
  <2>4. list \in Seq(I)
    BY <2>1, <2>2, <2>3, ListingOf
  <2>5. list \in Seq(1 .. Len(parseJobs))
    BY <2>1, <2>4, SeqMonotonic
  <2>6. parser' \in ParserType /\ parser'.pc = parser.pc /\ parser'.job = parser.job
    BY <1>2, <2>2, <2>5 DEF ParserType
  <2>7. parser.pc = "idle" /\ UNCHANGED <<parseJobs, lostParses, reportedParses>>
    BY <1>6 DEF ListParseJobs, parserGhosts
  <2> QED
    BY <1>1, <1>2, <1>4, <2>6, <2>7, SameRowsParser DEF ParsingPC
<1>7. ASSUME TakeParseJob PROVE FilePart'
  <2>1. /\ parser.pc = "idle" /\ parser.list # <<>> /\ UNCHANGED <<parseJobs, lostParses, reportedParses>>
        /\ parser' = [pc |-> "mark", job |-> Head(parser.list), list |-> Tail(parser.list)]
    BY <1>7 DEF TakeParseJob, parserGhosts
  <2>2. Head(parser.list) \in 1 .. Len(parseJobs) /\ Tail(parser.list) \in Seq(1 .. Len(parseJobs))
    BY <1>2, <2>1, Taken
  <2>3. Head(parser.list) \in 0 .. Len(parseJobs) /\ Head(parser.list) # 0
    BY <1>3, <2>2
  <2>4. parser' \in ParserType /\ parser'.pc = "mark" /\ parser'.job # 0
    BY <1>5, <2>1, <2>2, <2>3 DEF ParserType
  <2> QED
    BY <1>1, <1>4, <2>1, <2>4, SameRowsParser DEF ParsingPC
<1>8. ASSUME MarkParseJobRunning PROVE FilePart'
  <2>1. parser.pc = "mark" /\ UNCHANGED <<lostParses, reportedParses>> /\ parser.job \in 1 .. Len(parseJobs)
    BY <1>2, <1>8 DEF MarkParseJobRunning, parserGhosts
  <2>2. CASE UNCHANGED parseJobs /\ ParserRests
    BY <1>1, <1>2, <1>4, <2>1, <2>2, SameRowsParser DEF ParsingPC
  <2>3. CASE SetParse(parser.job, "running") /\ ParserTo("parse")
    <3>1. /\ parseJobs' \in Seq(ParseType) /\ Len(parseJobs') = Len(parseJobs)
          /\ \A k \in 1 .. Len(parseJobs) :
               /\ parseJobs'[k].trace = parseJobs[k].trace
               /\ parseJobs'[k].status = (IF k = parser.job THEN "running" ELSE parseJobs[k].status)
      BY <1>5, <2>1, <2>3, ParseMarked
    <3>2. parser' \in ParserType /\ parser'.pc = "parse" /\ parser'.job = parser.job
      BY <1>2, <1>5, <2>3
    <3>3. \A i \in 1 .. Len(parseJobs) : ParseRowOK(i)
      BY <2>1, <3>1, <3>2 DEF ParseRowOK, ParsingPC
    <3>4. parser'.job = 0 <=> parser'.pc = "idle"
      BY <2>1, <3>2
    <3> QED
      BY <1>1, <1>4, <2>1, <3>1, <3>2, <3>3, <3>4, ParserKeeps
  <2> QED
    BY <1>8, <2>2, <2>3 DEF MarkParseJobRunning
<1>9. ASSUME ParserReads PROVE FilePart'
  <2> DEFINE t == parseJobs[parser.job].trace
  <2>1. parser.pc = "parse" /\ UNCHANGED <<parseJobs, lostParses, reportedParses>> /\ parser.job \in 1 .. Len(parseJobs)
    BY <1>2, <1>9 DEF ParserReads, parserGhosts
  <2>2. t \in logs /\ Written(t)
    BY <2>1 DEF FilePart, FileInv
  <2>3. CASE Readable(t) /\ ParserTo("save")
    <3>1. parser' \in ParserType /\ parser'.pc = "save" /\ parser'.job = parser.job
      BY <1>2, <1>5, <2>3
    <3> QED
      BY <1>1, <1>2, <1>4, <2>1, <3>1, SameRowsParser DEF ParsingPC
  <2>4. CASE ~ Readable(t) /\ ParserTo("fail")
    <3>1. parser' \in ParserType /\ parser'.pc = "fail" /\ parser'.job = parser.job
      BY <1>2, <1>5, <2>4
    <3>2. Excused(parser.job)
      BY <2>2, <2>4 DEF Readable, Excused, Written
    <3> QED
      BY <1>1, <1>2, <1>4, <2>1, <3>1, <3>2, SameRowsParser DEF ParsingPC
  <2> QED
    BY <1>9, <2>3, <2>4 DEF ParserReads
<1>10. ASSUME ParserSaves PROVE FilePart'
  <2>1. parser.pc = "save" /\ UNCHANGED <<parseJobs, lostParses, reportedParses>> /\ parser.job \in 1 .. Len(parseJobs)
    BY <1>2, <1>10 DEF ParserSaves, parserGhosts
  <2>2. CASE ParserTo("done")
    <3>1. parser' \in ParserType /\ parser'.pc = "done" /\ parser'.job = parser.job
      BY <1>2, <1>5, <2>2
    <3> QED
      BY <1>1, <1>2, <1>4, <2>1, <3>1, SameRowsParser DEF ParsingPC
  <2>3. CASE Fails /\ ParserTo("fail")
    <3>1. parser' \in ParserType /\ parser'.pc = "fail" /\ parser'.job = parser.job
      BY <1>2, <1>5, <2>3
    <3>2. faults' > 0
      BY <2>3, FaultsCount
    <3> QED
      BY <1>1, <1>2, <1>4, <2>1, <3>1, <3>2, SameRowsParser DEF ParsingPC
  <2> QED
    BY <1>10, <2>2, <2>3 DEF ParserSaves
<1>11. ASSUME MarkParseJobDone PROVE FilePart'
  <2>1. /\ parser.pc = "done" /\ UNCHANGED reportedParses /\ parser.job \in 1 .. Len(parseJobs)
        /\ parser' \in ParserType /\ parser'.pc = "idle" /\ parser'.job = 0
    BY <1>2, <1>11 DEF MarkParseJobDone
  <2>2. CASE UNCHANGED parseJobs /\ lostParses' = lostParses \cup {parser.job}
    BY <1>1, <1>2, <1>4, <2>1, <2>2, SameRowsParser DEF ParsingPC
  <2>3. CASE SetParse(parser.job, "parsed") /\ UNCHANGED lostParses
    <3>1. /\ parseJobs' \in Seq(ParseType) /\ Len(parseJobs') = Len(parseJobs)
          /\ \A k \in 1 .. Len(parseJobs) :
               /\ parseJobs'[k].trace = parseJobs[k].trace
               /\ parseJobs'[k].status = (IF k = parser.job THEN "parsed" ELSE parseJobs[k].status)
      BY <1>5, <2>1, <2>3, ParseMarked
    <3>2. \A i \in 1 .. Len(parseJobs) : ParseRowOK(i)
      BY <2>1, <3>1 DEF ParseRowOK
    <3> QED
      BY <1>1, <1>4, <2>1, <2>3, <3>1, <3>2, ParserKeeps
  <2> QED
    BY <1>11, <2>2, <2>3 DEF MarkParseJobDone
<1>12. ASSUME MarkParseJobFailed PROVE FilePart'
  <2>1. parser.pc = "fail" /\ UNCHANGED reportedParses /\ parser.job \in 1 .. Len(parseJobs)
    BY <1>2, <1>12 DEF MarkParseJobFailed
  <2>2. CASE UNCHANGED parseJobs /\ ParserRests /\ lostParses' = lostParses \cup {parser.job}
    BY <1>1, <1>2, <1>4, <2>1, <2>2, SameRowsParser DEF ParsingPC
  <2>3. CASE SetParse(parser.job, "failed") /\ ParserTo("report") /\ UNCHANGED lostParses
    <3>1. /\ parseJobs' \in Seq(ParseType) /\ Len(parseJobs') = Len(parseJobs)
          /\ \A k \in 1 .. Len(parseJobs) :
               /\ parseJobs'[k].trace = parseJobs[k].trace
               /\ parseJobs'[k].status = (IF k = parser.job THEN "failed" ELSE parseJobs[k].status)
      BY <1>5, <2>1, <2>3, ParseMarked
    <3>2. parser' \in ParserType /\ parser'.pc = "report" /\ parser'.job = parser.job
      BY <1>2, <1>5, <2>3
    <3>3. Excused(parser.job)
      BY <2>1 DEF FilePart, ParseInv
    <3>4. \A i \in 1 .. Len(parseJobs) : ParseRowOK(i)
      BY <2>1, <3>1, <3>2, <3>3 DEF ParseRowOK
    <3>5. parser'.job = 0 <=> parser'.pc = "idle"
      BY <2>1, <3>2
    <3> QED
      BY <1>1, <1>4, <2>1, <2>3, <3>1, <3>2, <3>4, <3>5, ParserKeeps
  <2> QED
    BY <1>12, <2>2, <2>3 DEF MarkParseJobFailed
<1>13. ASSUME ReportParseFailure PROVE FilePart'
  <2>1. /\ parser.pc = "report" /\ UNCHANGED <<parseJobs, lostParses>> /\ parser.job \in 1 .. Len(parseJobs)
        /\ parser' \in ParserType /\ parser'.pc = "idle" /\ parser'.job = 0
    BY <1>2, <1>13 DEF ReportParseFailure
  <2>2. /\ reportedParses \subseteq reportedParses' /\ reportedParses' \subseteq 1 .. Len(parseJobs)
        /\ parser.job \in reportedParses' \/ faults' > 0
    BY <1>4, <1>13, <2>1, FaultsCount DEF ReportParseFailure
  <2> QED
    BY <1>1, <1>4, <2>1, <2>2, SameRowsParser DEF ParsingPC
<1> QED
  BY <1>6, <1>7, <1>8, <1>9, <1>10, <1>11, <1>12, <1>13 DEF Parser

-----------------------------------------------------------------------------
(* Every step keeps the invariant, and what ended ended. *)

(* A step that touches no job keeps what is true of the jobs. *)
LEMMA BesideKeeps ==
  ASSUME RowsInv, AttemptsInv, UNCHANGED <<exec, jobs, listed, reported, lost>>, ResultsGrow,
         faults > 0 => faults' > 0
  PROVE  RowsInv' /\ AttemptsInv' /\ Ends
<1>1. Grown(jobs, jobs') /\ Len(jobs') = Len(jobs) /\ Len(jobs) \in Nat /\ listed \in Seq(1 .. Len(jobs))
  BY GrownSelf, RowTypes
<1>2. Len(jobs) + 1 .. Len(jobs') = {}
  BY <1>1
<1>3. JobStep(Worker, exec[Worker])
  BY <1>1, <1>2, Unmoved
<1>4. RowsInv'
  BY <1>3, RowTypes, JobStepKeeps
<1>5. AttemptsInv'
  BY DEF AttemptsInv, Attempts, Tries, Pending, Calling, Allowed
<1>6. Ends
  BY OtherEnds
<1> QED
  BY <1>4, <1>5, <1>6

(* The recorder, the sync and the parse worker. *)
LEMMA RecorderKeeps ==
  ASSUME Inv, NEW t \in Traces, Recorder(t) \/ Sync(t)
  PROVE  Inv' /\ Ends
<1>1. FilePart'
  BY PrepareLogFileFiles, WriteCassetteFiles, IndexTraceFiles, EnqueueParseJobFiles, SyncFiles
     DEF Inv, Recorder
<1>2. /\ Works => (faults > 0 => faults' > 0) /\ faults' \in 0 .. MaxMishaps
      /\ Fails => (faults > 0 => faults' > 0) /\ faults' \in 0 .. MaxMishaps
      /\ faults' = faults => (faults > 0 => faults' > 0) /\ faults' \in 0 .. MaxMishaps
  BY FaultsCount DEF Inv, BoundTypes
<1>3. recorderUnchanged =>
        UNCHANGED <<observations, findings, jobs, exec, listed, reported, lost, asks, crashes>>
  BY DEF recorderUnchanged, resultVars, execVars
<1>4. /\ UNCHANGED <<observations, findings, jobs, exec, listed, reported, lost, asks, crashes>>
      /\ (faults > 0 => faults' > 0) /\ faults' \in 0 .. MaxMishaps /\ logs \subseteq logs'
  <2>1. CASE PrepareLogFile(t)
    BY <1>2, <1>3, <2>1 DEF PrepareLogFile
  <2>2. CASE WriteCassette(t)
    BY <1>2, <1>3, <2>2 DEF WriteCassette
  <2>3. CASE IndexTrace(t)
    BY <1>2, <1>3, <2>3 DEF IndexTrace
  <2>4. CASE EnqueueParseJob(t)
    BY <1>2, <1>3, <2>4 DEF EnqueueParseJob
  <2>5. CASE Sync(t)
    BY <1>2, <1>3, <2>5 DEF Sync
  <2> QED
    BY <2>1, <2>2, <2>3, <2>4, <2>5 DEF Recorder
<1>5. ResultsGrow
  BY <1>4 DEF ResultsGrow, Inv, RowsInv, JobTypes
<1>6. RowsInv' /\ AttemptsInv' /\ Ends
  BY <1>4, <1>5, BesideKeeps DEF Inv
<1>7. BoundTypes'
  BY <1>4 DEF Inv, BoundTypes
<1> QED
  BY <1>1, <1>6, <1>7 DEF Inv

LEMMA ParserKeepsInv ==
  ASSUME Inv, Parser
  PROVE  Inv' /\ Ends
<1>1. FilePart' /\ FilePart /\ BoundTypes /\ RowsInv /\ AttemptsInv
  BY ParserFiles DEF Inv
<1>2. /\ UNCHANGED <<cassette, recorder, logs, rewritten>>
      /\ UNCHANGED <<findings, jobs, exec, listed, reported, lost, asks, crashes>>
      /\ (faults > 0 => faults' > 0) /\ faults' \in 0 .. MaxMishaps
      /\ observations' \subseteq observations \cup Traces /\ observations \subseteq observations'
  BY <1>1, ParserFrame
<1>3. ResultsGrow
  BY <1>1, <1>2 DEF ResultsGrow, RowsInv, JobTypes
<1>4. RowsInv' /\ AttemptsInv' /\ Ends
  BY <1>1, <1>2, <1>3, BesideKeeps
<1>5. BoundTypes'
  BY <1>1, <1>2 DEF BoundTypes
<1> QED
  BY <1>1, <1>4, <1>5 DEF Inv

(* Nothing of the files changes. *)
LEMMA SameFiles ==
  ASSUME FilePart, UNCHANGED <<cassette, recorder, logs, rewritten, parseJobs, parser, lostParses, reportedParses>>,
         faults > 0 => faults' > 0
  PROVE  FilePart'
<1>1. cassette' \in [Traces -> Files] /\ rewritten' \subseteq Traces
  BY DEF FilePart, FileTypes
<1>2. \A t \in Traces : Written(t) => Written(t)'
  BY DEF Written
<1> QED
  BY <1>1, <1>2, FilesKept

(* The requests. *)
LEMMA ApiKeeps ==
  ASSUME Inv, \/ \E r \in Requests : Ask(r) \/ \E h \in Handlers : Call(h, r)
              \/ \E j \in 1 .. Len(jobs) : MarkAnalysisJobCanceled(j)
  PROVE  Inv' /\ Ends
<1>1. FilePart /\ FileTypes /\ BoundTypes /\ RowsInv /\ AttemptsInv /\ Worker \in Executors
  BY RowTypes DEF Inv, FilePart
<1>2. apiUnchanged /\ asks' \in 0 .. MaxAsks
  <2>1. MaxAsks \in Nat
    BY JobsAssumption
  <2> QED
    BY <1>1, <2>1 DEF Ask, Call, MarkAnalysisJobCanceled, BoundTypes
<1>3. UNCHANGED <<cassette, recorder, logs, rewritten, parseJobs, parser, lostParses, reportedParses, faults, crashes, listed>>
  BY <1>2 DEF apiUnchanged, fileVars, parseVars, parserGhosts
<1>4. FilePart' /\ BoundTypes'
  BY <1>1, <1>2, <1>3, SameFiles DEF BoundTypes
<1>5. ASSUME NEW r \in Requests, Ask(r) PROVE RowsInv' /\ AttemptsInv' /\ Ends
  <2>1. JobStep(Worker, exec[Worker]) /\ Asks(r)
    BY <1>1, <1>5, AskStep
  <2>2. RowsInv' /\ AttemptsInv'
    BY <1>1, <2>1, JobStepKeeps, AsksAttempts
  <2>3. Ends
    BY <1>1, <2>1, OtherEnds DEF Asks
  <2> QED
    BY <2>2, <2>3
<1>6. ASSUME NEW r \in Requests, NEW h \in Handlers, Call(h, r) PROVE RowsInv' /\ AttemptsInv' /\ Ends
  <2>1. PICK x : JobStep(h, x) /\ Calls(h, x)
    BY <1>1, <1>6, CallStep
  <2>2. h \in Executors
    BY DEF Executors
  <2> QED
    BY <1>1, <2>1, <2>2, JobStepKeeps, CallsAttempts, CallsEnds
<1>7. ASSUME NEW j \in 1 .. Len(jobs), MarkAnalysisJobCanceled(j) PROVE RowsInv' /\ AttemptsInv' /\ Ends
  <2>1. JobStep(Worker, exec[Worker]) /\ Cancels(j)
    BY <1>1, <1>7, CancelStep
  <2>2. RowsInv' /\ AttemptsInv'
    BY <1>1, <2>1, JobStepKeeps, CancelsAttempts
  <2>3. Ends
    BY <1>1, <2>1, OtherEnds DEF Cancels
  <2> QED
    BY <2>2, <2>3
<1> QED
  BY <1>1, <1>4, <1>5, <1>6, <1>7 DEF Inv

(* The worker's list. *)
LEMMA ListKeeps ==
  ASSUME Inv, ListAnalysisJobs \/ TakeAnalysisJob
  PROVE  Inv' /\ Ends
<1>1. FilePart /\ FileTypes /\ BoundTypes /\ RowsInv /\ AttemptsInv /\ Worker \in Executors
  BY RowTypes DEF Inv, FilePart
<1>2. UNCHANGED <<cassette, recorder, logs, rewritten, parseJobs, parser, lostParses, reportedParses, asks, faults, crashes>>
  BY DEF ListAnalysisJobs, TakeAnalysisJob, execUnchanged, parseVars, parserGhosts
<1>3. FilePart' /\ BoundTypes'
  BY <1>1, <1>2, SameFiles DEF BoundTypes
<1>4. CASE ListAnalysisJobs
  <2>1. /\ JobStep(Worker, exec[Worker]) /\ ToSet(listed') \subseteq Ids(jobs, "queued")
        /\ \A k, l \in 1 .. Len(listed') : listed'[k] = listed'[l] => k = l
    BY <1>1, <1>4, ListAnalysisJobsStep
  <2>2. RowsInv' /\ AttemptsInv'
    BY <1>1, <1>4, <2>1, JobStepKeeps, ListingAttempts
  <2>3. exec' = exec /\ jobs' = jobs
    BY <1>4 DEF ListAnalysisJobs
  <2>4. \A j \in ToSet(listed') : jobs[j].status \notin Ended
    BY <2>1 DEF Ids, Ended
  <2>5. Ends
    BY <1>1, <2>3, <2>4, OtherEnds
  <2> QED
    BY <1>3, <2>2, <2>5 DEF Inv
<1>5. CASE TakeAnalysisJob
  <2>1. PICK x : /\ JobStep(Worker, x) /\ exec' = [exec EXCEPT ![Worker] = x]
                 /\ x.pc = "mark" /\ x.job = Head(listed) /\ x.outer = 0
    BY <1>1, <1>5, TakeAnalysisJobStep
  <2> QED
    BY <1>1, <1>3, <1>5, <2>1, JobStepKeeps, TakingAttempts, TakingEnds DEF Inv
<1> QED
  BY <1>4, <1>5

(* The files under the steps of an execution: only a repair touches one. *)
LEMMA ExecuteFiles ==
  ASSUME Inv, NEW e \in Executors, Execute(e) \/ CallerLeft(e)
  PROVE  FilePart' /\ BoundTypes'
<1>1. FilePart /\ FileTypes /\ BoundTypes /\ RowsInv
  BY DEF Inv, FilePart
<1>2. /\ Works => (faults > 0 => faults' > 0) /\ faults' \in 0 .. MaxMishaps
      /\ Fails => (faults > 0 => faults' > 0) /\ faults' \in 0 .. MaxMishaps
      /\ faults' = faults => (faults > 0 => faults' > 0) /\ faults' \in 0 .. MaxMishaps
  BY <1>1, FaultsCount DEF BoundTypes
<1>3. (execUnchanged /\ (Works \/ Fails)) => FilePart' /\ BoundTypes'
  BY <1>1, <1>2, SameFiles DEF execUnchanged, parseVars, parserGhosts, BoundTypes
<1>4. CASE MarkAnalysisJobRunning(e) \/ ListTraces(e) \/ RunChild(e) \/ EnqueueChildren(e) \/ FinishTraces(e)
  BY <1>3, <1>4 DEF MarkAnalysisJobRunning, ListTraces, RunChild, EnqueueChildren, FinishTraces
<1>5. CASE LoadObservation(e) \/ ReparseTrace(e) \/ SaveObservation(e) \/ SaveFindings(e)
           \/ MarkAnalysisJobCompleted(e) \/ ReportFailure(e) \/ CallerLeft(e)
  BY <1>3, <1>5 DEF LoadObservation, ReparseTrace, SaveObservation, SaveFindings,
                    MarkAnalysisJobCompleted, ReportFailure, CallerLeft, Works
<1>6. CASE MarkAnalysisJobFailed(e)
  <2>1. /\ UNCHANGED <<cassette, recorder, logs, rewritten, parseJobs, parser, lostParses, reportedParses, asks, crashes>>
        /\ Works \/ Fails
    BY <1>6 DEF MarkAnalysisJobFailed, parseVars, parserGhosts
  <2> QED
    BY <1>1, <1>2, <2>1, SameFiles DEF BoundTypes
<1>7. CASE RepairUsage(e)
  <2> DEFINE t == Mine(e).trace
  <2>1. /\ UNCHANGED <<recorder, logs, parseJobs, parser, lostParses, reportedParses, asks, crashes>>
        /\ Works \/ Fails
    BY <1>7 DEF RepairUsage, parseVars, parserGhosts
  <2>2. CASE UNCHANGED <<cassette, rewritten>>
    BY <1>1, <1>2, <2>1, <2>2, SameFiles DEF BoundTypes
  <2>3. CASE /\ t \in logs /\ cassette' = [cassette EXCEPT ![t] = "partial"]
             /\ rewritten' = rewritten \cup {t}
    <3>1. t \in Traces /\ cassette \in [Traces -> Files] /\ rewritten \subseteq Traces
      BY <1>1, <2>3 DEF FileTypes
    <3>2. cassette' \in [Traces -> Files] /\ rewritten' \subseteq Traces /\ rewritten \subseteq rewritten'
      BY <2>3, <3>1 DEF Files
    <3>3. recorder[t] # "none"
      BY <1>1, <2>3, <3>1 DEF FilePart, FileInv
    <3>4. \A u \in Traces : u # t => cassette'[u] = cassette[u]
      BY <2>3, <3>1
    <3>5. \A u \in Traces : recorder[u] = "none" => cassette'[u] = cassette[u]
      BY <3>3, <3>4
    <3>6. \A u \in Traces : Written(u) => Written(u)'
      BY <2>3, <3>4 DEF Written
    <3>7. FilePart'
      BY <1>1, <1>2, <2>1, <3>2, <3>5, <3>6, FilesKept
    <3> QED
      BY <1>1, <1>2, <2>1, <3>7 DEF BoundTypes
  <2> QED
    BY <1>7, <2>2, <2>3 DEF RepairUsage
<1>8. CASE RewriteCassette(e)
  <2> DEFINE t == Mine(e).trace
  <2>1. /\ UNCHANGED <<recorder, logs, rewritten, parseJobs, parser, lostParses, reportedParses, asks, crashes>>
        /\ Works \/ Fails
    BY <1>8 DEF RewriteCassette, parseVars, parserGhosts
  <2>2. CASE UNCHANGED cassette
    BY <1>1, <1>2, <2>1, <2>2, SameFiles DEF BoundTypes
  <2>3. CASE cassette' = [cassette EXCEPT ![t] = "whole"]
    <3>1. exec[e].pc = "rewrite" /\ exec[e].pc # "idle"
      BY <1>8 DEF RewriteCassette
    <3>2. t \in logs
      BY <1>1, <3>1, AtWork DEF AtPC, Mine
    <3>3. t \in Traces /\ cassette \in [Traces -> Files] /\ rewritten \subseteq Traces
      BY <1>1, <3>2 DEF FileTypes
    <3>4. cassette' \in [Traces -> Files]
      BY <2>3, <3>3 DEF Files
    <3>5. recorder[t] # "none"
      BY <1>1, <3>2, <3>3 DEF FilePart, FileInv
    <3>6. \A u \in Traces : cassette'[u] = (IF u = t THEN "whole" ELSE cassette[u])
      BY <2>3, <3>3
    <3>7. \A u \in Traces : recorder[u] = "none" => cassette'[u] = cassette[u]
      BY <3>5, <3>6
    <3>8. \A u \in Traces : Written(u) => Written(u)'
      BY <2>1, <3>6 DEF Written
    <3>9. FilePart'
      BY <1>1, <1>2, <2>1, <3>3, <3>4, <3>7, <3>8, FilesKept
    <3> QED
      BY <1>1, <1>2, <2>1, <3>9 DEF BoundTypes
  <2> QED
    BY <1>8, <2>2, <2>3 DEF RewriteCassette
<1> QED
  BY <1>4, <1>5, <1>6, <1>7, <1>8 DEF Execute

(* The steps of an execution. *)
LEMMA ExecuteKeeps ==
  ASSUME Inv, NEW e \in Executors, Execute(e) \/ CallerLeft(e)
  PROVE  Inv' /\ Ends
<1>1. FileTypes /\ BoundTypes /\ RowsInv /\ AttemptsInv
  BY DEF Inv, FilePart
<1>2. FilePart' /\ BoundTypes'
  BY ExecuteFiles
<1>3. \/ Did(e)
      \/ \E x : JobStep(e, x) /\ Begins(e, x)
      \/ \E x : JobStep(e, x) /\ Calls(e, x)
  <2>1. CASE MarkAnalysisJobRunning(e) \/ ListTraces(e) \/ RunChild(e) \/ EnqueueChildren(e) \/ FinishTraces(e)
    BY <1>1, <2>1, MarkAnalysisJobRunningStep, ListTracesStep, RunChildStep, EnqueueChildrenStep,
       FinishTracesStep
  <2>2. CASE RepairUsage(e) \/ RewriteCassette(e) \/ LoadObservation(e) \/ ReparseTrace(e) \/ SaveObservation(e)
    BY <1>1, <2>2, RepairUsageStep, RewriteCassetteStep, LoadObservationStep, ReparseTraceStep,
       SaveObservationStep
  <2>3. CASE SaveFindings(e) \/ MarkAnalysisJobCompleted(e) \/ MarkAnalysisJobFailed(e)
             \/ ReportFailure(e) \/ CallerLeft(e)
    BY <1>1, <2>3, SaveFindingsStep, MarkAnalysisJobCompletedStep, MarkAnalysisJobFailedStep,
       ReportFailureStep, CallerLeftStep
  <2> QED
    BY <2>1, <2>2, <2>3 DEF Execute
<1>4. ASSUME Did(e) PROVE RowsInv' /\ AttemptsInv' /\ Ends
  <2>1. PICK x : JobStep(e, x) /\ Quiet(e, x)
    BY <1>4 DEF Did
  <2> QED
    BY <1>1, <2>1, JobStepKeeps, QuietAttempts, QuietEnds
<1>5. ASSUME NEW x, JobStep(e, x), Begins(e, x) PROVE RowsInv' /\ AttemptsInv' /\ Ends
  BY <1>1, <1>5, JobStepKeeps, BeginsAttempts, BeginsEnds
<1>6. ASSUME NEW x, JobStep(e, x), Calls(e, x) PROVE RowsInv' /\ AttemptsInv' /\ Ends
  BY <1>1, <1>6, JobStepKeeps, CallsAttempts, CallsEnds
<1> QED
  BY <1>2, <1>3, <1>4, <1>5, <1>6 DEF Inv

(* A crash. *)
LEMMA CrashKeeps ==
  ASSUME Inv, Crash
  PROVE  Inv' /\ Ends
<1>1. FilePart /\ FileTypes /\ BoundTypes /\ RowsInv /\ AttemptsInv
  BY DEF Inv, FilePart
<1>2. MaxMishaps \in Nat
  BY JobsAssumption
<1>3. BoundTypes'
  BY <1>1, <1>2 DEF BoundTypes, Crash
<1> QED
  BY <1>1, <1>3, CrashFiles, CrashKeepsRows, CrashAttempts, CrashEnds DEF Inv

(* The invariant holds at the start, *)
LEMMA InitInv ==
  ASSUME Init
  PROVE  Inv
<1>1. /\ <<>> \in Seq(ParseType) /\ <<>> \in Seq(JobType) /\ <<>> \in Seq(Traces)
      /\ <<>> \in Seq(1 .. 0) /\ Len(<<>>) = 0
  BY EmptySeq
<1>2. parseJobs = <<>> /\ jobs = <<>> /\ Len(parseJobs) = 0 /\ Len(jobs) = 0 /\ listed = <<>> /\ Len(listed) = 0
  BY <1>1 DEF Init
<1>3. 1 .. Len(parseJobs) = {} /\ 1 .. Len(jobs) = {}
  BY <1>2
<1>4. AtRest \in ExecType(0) /\ AtRest.job = 0 /\ AtRest.pc = "idle" /\ AtRest.outer = 0
  BY <1>1 DEF AtRest, ExecType, ExecPC
<1>5. \A e \in Executors : exec[e] = AtRest
  BY DEF Init
<1>6. Worker \in Executors
  BY DEF Executors
<1>7. BoundTypes
  BY JobsAssumption DEF BoundTypes, Init
<1>8. FileTypes
  <2>1. parser \in [pc : ParserPC, job : 0 .. Len(parseJobs), list : Seq(1 .. Len(parseJobs))]
        /\ parser.job = 0 /\ parser.pc = "idle"
    BY <1>1, <1>2 DEF Init, ParserPC
  <2> QED
    BY <1>1, <1>2, <2>1 DEF FileTypes, Init, Files, RecorderPC
<1>9. FileInv
  BY <1>3 DEF FileInv, Init
<1>10. ParseInv
  BY <1>3 DEF ParseInv, Init
<1>11. JobTypes
  <2>1. exec \in [Executors -> ExecType(Len(jobs))]
    BY <1>2, <1>4 DEF Init
  <2>2. listed \in Seq(1 .. Len(jobs))
    BY <1>1, <1>2
  <2> QED
    BY <1>1, <1>2, <1>4, <1>5, <2>1, <2>2 DEF JobTypes, Init
<1>12. JobShape /\ RunningInv /\ FailedInv /\ CompletedInv
  BY <1>3 DEF JobShape, RunningInv, FailedInv, CompletedInv
<1>13. ExecInv
  BY <1>4, <1>5 DEF ExecInv, ExecOK
<1>14. AttemptsInv
  BY <1>2, <1>3, <1>4, <1>5, <1>6 DEF AttemptsInv, Attempts
<1> QED
  BY <1>7, <1>8, <1>9, <1>10, <1>11, <1>12, <1>13, <1>14 DEF Inv, FilePart, RowsInv

(* and every step keeps it, and leaves what ended ended. *)
LEMMA NextKeeps ==
  ASSUME Inv, [Next]_vars
  PROVE  Inv' /\ Ends
<1>1. CASE UNCHANGED vars
  <2>1. UNCHANGED <<cassette, recorder, logs, rewritten, observations, findings, parseJobs, parser,
                    lostParses, reportedParses, jobs, exec, listed, reported, lost, asks, faults, crashes>>
    BY <1>1 DEF vars, fileVars, resultVars, parseVars, parserGhosts, execVars
  <2>2. FilePart /\ RowsInv /\ AttemptsInv /\ BoundTypes
    BY DEF Inv
  <2>3. ResultsGrow
    BY <2>1, <2>2 DEF ResultsGrow, RowsInv, JobTypes
  <2>4. FilePart'
    BY <2>1, <2>2, SameFiles
  <2>5. RowsInv' /\ AttemptsInv' /\ Ends
    BY <2>1, <2>2, <2>3, BesideKeeps
  <2> QED
    BY <2>1, <2>2, <2>4, <2>5 DEF Inv, BoundTypes
<1>2. CASE \E t \in Traces : Recorder(t) \/ Sync(t)
  BY <1>2, RecorderKeeps
<1>3. CASE Parser
  BY <1>3, ParserKeepsInv
<1>4. CASE \/ \E r \in Requests : Ask(r) \/ \E h \in Handlers : Call(h, r)
           \/ \E j \in 1 .. Len(jobs) : MarkAnalysisJobCanceled(j)
  BY <1>4, ApiKeeps
<1>5. CASE Work
  <2>1. Worker \in Executors
    BY DEF Executors
  <2> QED
    BY <1>5, <2>1, ListKeeps, ExecuteKeeps DEF Work
<1>6. CASE \E h \in Handlers : Execute(h) \/ CallerLeft(h)
  BY <1>6, ExecuteKeeps DEF Executors
<1>7. CASE Crash
  BY <1>7, CrashKeeps
<1> QED
  BY <1>1, <1>2, <1>3, <1>4, <1>5, <1>6, <1>7 DEF Next

-----------------------------------------------------------------------------
(* The theorems. *)

(* Inv holds in every state the jobs reach, and no step breaks what Ends says. *)
THEOREM Invariance == Spec => []Inv /\ [][Ends]_vars
<1>1. Inv /\ [Next]_vars => Inv' /\ Ends
  BY NextKeeps
<1>2. Init => Inv
  BY InitInv
<1> QED
  BY <1>1, <1>2, PTL DEF Spec

(* Every variable keeps its type: whoever runs a job, a parse or a recording *)
(* leaves rows, hands and files of the forms the code knows.                 *)
THEOREM JobsTypes == Spec => []TypeOK
<1>1. Inv => TypeOK
  BY DEF Inv, BoundTypes, FilePart, FileTypes, RowsInv, JobTypes, JobType, ParseType, ExecType, TypeOK
<1> QED
  BY <1>1, Invariance, PTL

(* A running row has someone who holds it, the worker, the caller or the     *)
(* parser, or the one who held it crashed or could not write its end.        *)
THEOREM RunningIsHeld == Spec => []NoOrphans
<1>1. ASSUME Inv PROVE NoOrphans
  <2>1. ASSUME NEW j \in 1 .. Len(jobs), jobs[j].status = "running"
        PROVE  Holders(j) # {} \/ j \in lost
    BY <1>1, <2>1 DEF Inv, RowsInv, RunningInv, Has, Holders
  <2>2. ASSUME NEW i \in 1 .. Len(parseJobs), parseJobs[i].status = "running"
        PROVE  parser.job = i \/ i \in lostParses
    BY <1>1, <2>2 DEF Inv, FilePart, ParseInv
  <2> QED
    BY <2>1, <2>2 DEF NoOrphans
<1> QED
  BY <1>1, Invariance, PTL

(* A completed row kept its promise: the results of its trace, or of every   *)
(* trace its session had, or a job for each step on each trace of its batch. *)
THEOREM CompletionIsHonest == Spec => []CompletedLeavesResults
<1>1. Inv => CompletedLeavesResults
  BY DEF Inv, RowsInv, CompletedInv, Promise, Of, CompletedLeavesResults
<1> QED
  BY <1>1, Invariance, PTL

(* A failed row has its system event, or someone is about to write it,       *)
(* unless a crash stranded it or a call to the database failed.              *)
THEOREM FailuresAreReported == Spec => []FailedIsReported
<1>1. ASSUME Inv PROVE FailedIsReported
  <2>1. ASSUME NEW j \in 1 .. Len(jobs), jobs[j].status = "failed"
        PROVE  \/ j \in reported \/ j \in lost \/ faults > 0
               \/ \E e \in Holders(j) : exec[e].pc = "report"
    BY <1>1, <2>1 DEF Inv, RowsInv, FailedInv, Reporting, Holders
  <2>2. ASSUME NEW i \in 1 .. Len(parseJobs), parseJobs[i].status = "failed"
        PROVE  \/ i \in reportedParses \/ i \in lostParses \/ faults > 0
               \/ parser.job = i /\ parser.pc = "report"
    BY <1>1, <2>2 DEF Inv, FilePart, ParseInv
  <2> QED
    BY <2>1, <2>2 DEF FailedIsReported
<1> QED
  BY <1>1, Invariance, PTL

(* A row is executed once, or twice when a caller runs what the worker also  *)
(* found queued.                                                             *)
THEOREM ExecutionsAreBounded == Spec => []RunsAtMostOnceEach
<1>1. ASSUME Inv, NEW j \in 1 .. Len(jobs)
      PROVE  jobs[j].attempts <= (IF jobs[j].caller = Worker THEN 1 ELSE 2)
  <2>1. jobs[j].attempts \in Nat
    BY <1>1, RowTypes DEF Inv
  <2>2. Tries(jobs, exec, listed, j) <= Allowed(jobs, j)
    BY <1>1 DEF Inv, AttemptsInv, Attempts
  <2>3. jobs[j].attempts <= Tries(jobs, exec, listed, j)
    BY <2>1 DEF Tries
  <2> QED
    BY <2>1, <2>2, <2>3 DEF Tries, Allowed
<1>2. Inv => RunsAtMostOnceEach
  BY <1>1 DEF RunsAtMostOnceEach
<1> QED
  BY <1>2, Invariance, PTL

(* A recording a parser accepts never ends as a failed parse unless a repair *)
(* rewrote its file or a write failed.                                       *)
THEOREM RecordingsParse == Spec => []ParsableTracesParse
<1>1. Inv => ParsableTracesParse
  BY DEF Inv, FilePart, ParseInv, Excused, ParsableTracesParse
<1> QED
  BY <1>1, Invariance, PTL

(* A row that ended and that nobody has in hand or on a list never changes   *)
(* again.                                                                    *)
THEOREM EndedIsFinal == Spec => EndedStaysEnded
<1>1. Ends => \A j \in 1 .. Len(jobs) :
        jobs[j].status \in Ended /\ ~ Held(j) => jobs'[j].status = jobs[j].status /\ ~ Held(j)'
  BY DEF Ends
<1> QED
  BY <1>1, Invariance, PTL DEF EndedStaysEnded
=============================================================================

--------------------------- MODULE BackgroundJobs ---------------------------
(***************************************************************************)
(* What happens to an exchange after it was proxied: the recorder writes   *)
(* its cassette, indexes it and enqueues a parse job; the parse worker     *)
(* makes an observation of it; analysis jobs parse it again, scan it for   *)
(* findings or repair its usage, alone, by session or by batch, run by the *)
(* analysis worker or by the handler that asked.  All of them meet in the  *)
(* rows of one database, and every update of a job's row is unconditional  *)
(* except a cancellation's.                                                *)
(***************************************************************************)
EXTENDS Integers, Sequences, FiniteSets, SequencesExt

CONSTANTS
  NumTraces,    \* exchanges that are recorded
  Parsable,     \* those whose cassette some parser accepts
  Handlers,     \* handlers that run a job for their caller
  Worker,       \* the analysis worker
  Requests,     \* what callers ask for: records [scope, trace, steps]
  BatchSize,    \* jobs a worker takes from one listing
  MaxAsks,      \* bound: requests made
  MaxMishaps    \* bound: calls that fail, and crashes of the process

Traces == 1 .. NumTraces
Steps == {"repair", "reparse", "scan"}
Scopes == {"trace", "session", "batch"}

ASSUME JobsAssumption ==
  /\ NumTraces \in Nat \ {0} /\ Parsable \subseteq Traces
  /\ Worker \notin Handlers
  /\ Requests \subseteq [scope : Scopes, trace : Traces \cup {0}, steps : SUBSET Steps]
  (* Only a batch is asked for a repair together with other steps; a session for none. *)
  /\ \A r \in Requests : r.scope # "batch" /\ "repair" \in r.steps =>
       r.scope = "trace" /\ r.steps = {"repair"}
  /\ BatchSize \in Nat \ {0}
  /\ MaxAsks \in Nat /\ MaxMishaps \in Nat

Executors == Handlers \cup {Worker}

VARIABLES
  cassette,     \* the file of each trace
  recorder,     \* where the recorder is with each trace
  logs,         \* traces the index has
  observations, \* traces with an observation
  findings,     \* traces whose findings were saved
  parseJobs,    \* parse_jobs, by id
  jobs,         \* analysis_jobs, by id
  parser,       \* the parse worker
  exec,         \* who executes analysis jobs, and where they are in it
  listed,       \* jobs the analysis worker listed and has not begun
  reported,     \* analysis jobs a system event tells the failure of
  lost,         \* analysis jobs in hand at a crash, or whose failure could not be written
  lostParses,   \* and parse jobs
  reportedParses, \* parse jobs a system event tells the failure of
  rewritten,    \* traces whose cassette a repair rewrote
  asks, faults, crashes

fileVars == <<cassette, recorder, logs, rewritten>>
resultVars == <<observations, findings>>
parserGhosts == <<lostParses, reportedParses>>
parseVars == <<parseJobs, parser, parserGhosts>>
execVars == <<jobs, exec, listed, reported>>
vars == <<fileVars, resultVars, parseVars, execVars, lost, asks, faults, crashes>>

Files == {"none", "partial", "whole"}
RecorderPC == {"none", "write", "index", "enqueue", "done"}
ParseStatus == {"queued", "running", "parsed", "failed"}
Status == {"queued", "running", "completed", "failed", "canceled"}
Ended == {"completed", "failed", "canceled"}
ParserPC == {"idle", "mark", "parse", "save", "done", "fail", "report"}
ExecPC == {"idle", "mark", "list", "next", "repair", "rewrite", "load", "parse", "save",
           "scan", "complete", "fail", "report"}

ParseJob(t) == [trace |-> t, status |-> "queued"]
Job(scope, t, steps, caller) ==
  [scope |-> scope, trace |-> t, steps |-> steps, status |-> "queued",
   attempts |-> 0, over |-> {}, caller |-> caller]
AtRest == [pc |-> "idle", job |-> 0, outer |-> 0, todo |-> <<>>, over |-> {}]

Init ==
  /\ cassette = [t \in Traces |-> "none"] /\ recorder = [t \in Traces |-> "none"]
  /\ logs = {} /\ observations = {} /\ findings = {} /\ rewritten = {}
  /\ parseJobs = <<>> /\ jobs = <<>>
  /\ parser = [pc |-> "idle", job |-> 0, list |-> <<>>]
  /\ exec = [e \in Executors |-> AtRest] /\ listed = <<>>
  /\ reported = {} /\ reportedParses = {} /\ lost = {} /\ lostParses = {}
  /\ asks = 0 /\ faults = 0 /\ crashes = 0

(* A call to the database or the file system works, or fails and leaves everything as it was. *)
Works == UNCHANGED faults
Fails == faults + crashes < MaxMishaps /\ faults' = faults + 1

(* The rows of T in some order: each query has its own. *)
Orders(T) == {s \in [1 .. Cardinality(T) -> T] : ToSet(s) = T}
Ids(table, status) == {i \in 1 .. Len(table) : table[i].status = status}
(* What a worker may list of the rows I: the oldest, in order.  The time a *)
(* queued row was updated is the time it was made.                         *)
Listings(I) ==
  LET n == IF Cardinality(I) < BatchSize THEN Cardinality(I) ELSE BatchSize IN
  {s \in [1 .. n -> I] :
     /\ \A k, l \in 1 .. n : k < l => s[k] < s[l]
     /\ \A i \in I \ ToSet(s), k \in 1 .. n : s[k] < i}
(* Who has analysis job j in hand: those who execute it or wait for a child *)
(* job of it, and the worker's list.                                        *)
Holders(j) == {e \in Executors : j \in {exec[e].job, exec[e].outer}}
Held(j) == Holders(j) # {} \/ j \in ToSet(listed)

-----------------------------------------------------------------------------
(* The recorder and the index. *)

recorderUnchanged == UNCHANGED <<rewritten, resultVars, parser, parserGhosts, execVars, lost, asks, crashes>>

PrepareLogFile(t) ==
  /\ recorder[t] = "none"
  /\ recorder' = [recorder EXCEPT ![t] = "write"]
  /\ cassette' = [cassette EXCEPT ![t] = "partial"]
  /\ UNCHANGED <<logs, parseJobs, faults>> /\ recorderUnchanged

(* Mutant: the index row is left to the background sync. *)
MutWriteSkipsIndex(t) ==
  /\ recorder[t] = "write" /\ Works
  /\ recorder' = [recorder EXCEPT ![t] = "enqueue"]
  /\ cassette' = [cassette EXCEPT ![t] = "whole"]
  /\ UNCHANGED <<logs, parseJobs>> /\ recorderUnchanged

(* UpdateLogFile truncates the file and writes the prelude and the payload *)
(* again; until it has, no reader can parse the file.                      *)
WriteCassette(t) ==
  /\ recorder[t] = "write"
  /\ \/ /\ Works
        /\ recorder' = [recorder EXCEPT ![t] = "index"]
        /\ cassette' = [cassette EXCEPT ![t] = "whole"]
     \/ /\ Fails
        /\ recorder' = [recorder EXCEPT ![t] = "done"]
        /\ UNCHANGED cassette
  /\ UNCHANGED <<logs, parseJobs>> /\ recorderUnchanged

IndexTrace(t) ==
  /\ recorder[t] = "index"
  /\ \/ /\ Works
        /\ recorder' = [recorder EXCEPT ![t] = "enqueue"]
        /\ logs' = logs \cup {t}
     \/ /\ Fails
        /\ recorder' = [recorder EXCEPT ![t] = "done"]
        /\ UNCHANGED logs
  /\ UNCHANGED <<cassette, parseJobs>> /\ recorderUnchanged

(* A parse job that cannot be enqueued is a warning in the log. *)
EnqueueParseJob(t) ==
  /\ recorder[t] = "enqueue"
  /\ recorder' = [recorder EXCEPT ![t] = "done"]
  /\ \/ Works /\ parseJobs' = Append(parseJobs, ParseJob(t))
     \/ Fails /\ UNCHANGED parseJobs
  /\ UNCHANGED <<cassette, logs>> /\ recorderUnchanged

Recorder(t) ==
  PrepareLogFile(t) \/ WriteCassette(t) \/ IndexTrace(t) \/ EnqueueParseJob(t)

(* The background sync indexes the whole files the index lacks and skips   *)
(* the others.  It enqueues nothing.                                       *)
Sync(t) ==
  /\ cassette[t] = "whole" /\ t \notin logs
  /\ logs' = logs \cup {t}
  /\ UNCHANGED <<cassette, recorder, parseJobs, faults>> /\ recorderUnchanged

-----------------------------------------------------------------------------
(* The parse worker. *)

ParserTo(pc) == parser' = [parser EXCEPT !.pc = pc]
(* Mutant: the job is not let go. *)
MutParserRests == ParserTo("idle")

ParserRests == parser' = [parser EXCEPT !.pc = "idle", !.job = 0]

SetParse(i, status) == parseJobs' = [parseJobs EXCEPT ![i].status = status]
parserUnchanged ==
  UNCHANGED <<fileVars, findings, execVars, lost, asks, crashes>>

ListParseJobs ==
  /\ parser.pc = "idle" /\ parser.list = <<>> /\ Ids(parseJobs, "queued") # {}
  /\ \E list \in Listings(Ids(parseJobs, "queued")) : parser' = [parser EXCEPT !.list = list]
  /\ UNCHANGED <<parseJobs, observations, parserGhosts, faults>> /\ parserUnchanged

TakeParseJob ==
  /\ parser.pc = "idle" /\ parser.list # <<>>
  /\ parser' = [pc |-> "mark", job |-> Head(parser.list), list |-> Tail(parser.list)]
  /\ UNCHANGED <<parseJobs, observations, parserGhosts, faults>> /\ parserUnchanged

MarkParseJobRunning ==
  /\ parser.pc = "mark"
  /\ \/ Works /\ SetParse(parser.job, "running") /\ ParserTo("parse")
     \/ Fails /\ UNCHANGED parseJobs /\ ParserRests
  /\ UNCHANGED <<observations, parserGhosts>> /\ parserUnchanged

(* ReparseTrace needs the row, the file with its prelude, and a parser. *)
Readable(t) == t \in logs /\ cassette[t] = "whole" /\ t \in Parsable

ParserReads ==
  /\ parser.pc = "parse"
  /\ ParserTo(IF Readable(parseJobs[parser.job].trace) THEN "save" ELSE "fail")
  /\ UNCHANGED <<parseJobs, observations, parserGhosts, faults>> /\ parserUnchanged

ParserSaves ==
  /\ parser.pc = "save"
  /\ \/ /\ Works /\ ParserTo("done")
        /\ observations' = observations \cup {parseJobs[parser.job].trace}
     \/ Fails /\ ParserTo("fail") /\ UNCHANGED observations
  /\ UNCHANGED <<parseJobs, parserGhosts>> /\ parserUnchanged

(* An error of this update is returned, and nothing marks the job failed. *)
MarkParseJobDone ==
  /\ parser.pc = "done"
  /\ \/ Works /\ SetParse(parser.job, "parsed") /\ UNCHANGED lostParses
     \/ Fails /\ UNCHANGED parseJobs /\ lostParses' = lostParses \cup {parser.job}
  /\ ParserRests
  /\ UNCHANGED <<observations, reportedParses>> /\ parserUnchanged

MarkParseJobFailed ==
  /\ parser.pc = "fail"
  /\ \/ Works /\ SetParse(parser.job, "failed") /\ ParserTo("report") /\ UNCHANGED lostParses
     \/ Fails /\ UNCHANGED parseJobs /\ ParserRests /\ lostParses' = lostParses \cup {parser.job}
  /\ UNCHANGED <<observations, reportedParses>> /\ parserUnchanged

ReportParseFailure ==
  /\ parser.pc = "report"
  /\ \/ Works /\ reportedParses' = reportedParses \cup {parser.job}
     \/ Fails /\ UNCHANGED reportedParses
  /\ ParserRests
  /\ UNCHANGED <<parseJobs, lostParses, observations>> /\ parserUnchanged

Parser ==
  \/ ListParseJobs \/ TakeParseJob \/ MarkParseJobRunning \/ ParserReads \/ ParserSaves
  \/ MarkParseJobDone \/ MarkParseJobFailed \/ ReportParseFailure

-----------------------------------------------------------------------------
(* Asking for analysis jobs, and cancelling them. *)

apiUnchanged ==
  UNCHANGED <<fileVars, resultVars, parseVars, listed, reported, lost, faults, crashes>>

(* An asynchronous request leaves the job to the worker. *)
Ask(r) ==
  /\ asks < MaxAsks /\ asks' = asks + 1
  /\ jobs' = Append(jobs, Job(r.scope, r.trace, r.steps, Worker))
  /\ UNCHANGED exec /\ apiUnchanged

(* A synchronous one creates the job queued like any other, then runs it. *)
Call(h, r) ==
  /\ exec[h].pc = "idle"
  /\ asks < MaxAsks /\ asks' = asks + 1
  /\ jobs' = Append(jobs, Job(r.scope, r.trace, r.steps, h))
  /\ exec' = [exec EXCEPT ![h] = [AtRest EXCEPT !.pc = "mark", !.job = Len(jobs) + 1]]
  /\ apiUnchanged

MarkAnalysisJobCanceled(j) ==
  /\ jobs[j].status \in {"queued", "running"}
  /\ jobs' = [jobs EXCEPT ![j].status = "canceled"]
  /\ UNCHANGED <<exec, asks>> /\ apiUnchanged

-----------------------------------------------------------------------------
(* Executing analysis jobs. *)

Mine(e) == jobs[exec[e].job]
ExecTo(e, pc) == exec' = [exec EXCEPT ![e].pc = pc]
SetJob(j, status) == jobs' = [jobs EXCEPT ![j].status = status]
execUnchanged == UNCHANGED <<cassette, recorder, logs, rewritten, parseVars, lost, asks, crashes>>

(* Mutant: the session that waited for the child is forgotten. *)
MutReturned(e, ok) == exec' = [exec EXCEPT ![e] = AtRest]

(* The service call returns: to the session job it was a child of, or out. *)
Returned(e, ok) ==
  exec' = [exec EXCEPT ![e] =
    IF @.outer = 0 THEN AtRest
    ELSE [pc |-> IF ok THEN "next" ELSE "fail", job |-> @.outer,
          outer |-> 0, todo |-> @.todo, over |-> @.over]]

(* Mutants: the listing takes running jobs, or cancelled ones, as well. *)
MutWaitingRunning == Ids(jobs, "queued") \cup Ids(jobs, "running")
MutWaitingCanceled == Ids(jobs, "queued") \cup Ids(jobs, "canceled")

(* What the worker lists. *)
Waiting == Ids(jobs, "queued")

ListAnalysisJobs ==
  /\ exec[Worker].pc = "idle" /\ listed = <<>> /\ Waiting # {}
  /\ listed' \in Listings(Waiting)
  /\ UNCHANGED <<jobs, exec, reported, resultVars, faults>> /\ execUnchanged

(* The row is not read again: the job is run as it was listed. *)
TakeAnalysisJob ==
  /\ exec[Worker].pc = "idle" /\ listed # <<>>
  /\ exec' = [exec EXCEPT ![Worker] = [AtRest EXCEPT !.pc = "mark", !.job = Head(listed)]]
  /\ listed' = Tail(listed)
  /\ UNCHANGED <<jobs, reported, resultVars, faults>> /\ execUnchanged

FirstStep(job) ==
  IF job.scope # "trace" THEN "list"
  ELSE IF "repair" \in job.steps THEN "repair"
  ELSE IF "reparse" \in job.steps THEN "parse" ELSE "load"

MarkAnalysisJobRunning(e) ==
  /\ exec[e].pc = "mark"
  /\ \/ /\ Works
        /\ jobs' = [jobs EXCEPT ![exec[e].job].status = "running", ![exec[e].job].attempts = @ + 1]
        /\ ExecTo(e, FirstStep(Mine(e)))
     \/ Fails /\ UNCHANGED jobs /\ Returned(e, FALSE)
  /\ UNCHANGED <<listed, reported, resultVars>> /\ execUnchanged

(* GetSession and ListTracesBySession, or ListTraceIDs.  A session without *)
(* a trace is not found.                                                   *)
ListTraces(e) ==
  /\ exec[e].pc = "list"
  /\ \/ /\ Works /\ (Mine(e).scope = "session" => logs # {})
        /\ \E todo \in IF Mine(e).scope = "session" /\ Mine(e).steps = {} THEN {<<>>} ELSE Orders(logs) :
             exec' = [exec EXCEPT ![e].pc = "next", ![e].todo = todo, ![e].over = logs]
     \/ /\ \/ Works /\ Mine(e).scope = "session" /\ logs = {}
           \/ Fails
        /\ ExecTo(e, "fail")
  /\ UNCHANGED <<jobs, listed, reported, resultVars>> /\ execUnchanged

(* The caller of a handler may leave between two traces, and before a      *)
(* repair; the worker's context ends with the process only.                *)
CallerLeft(e) ==
  /\ e \in Handlers
  /\ \/ exec[e].pc = "next" /\ exec[e].todo # <<>>
     \/ exec[e].pc = "repair"
  /\ ExecTo(e, "fail")
  /\ UNCHANGED <<jobs, listed, reported, resultVars, faults>> /\ execUnchanged

(* A session job runs a job of its own for the trace, and waits for it. *)
RunChild(e) ==
  /\ exec[e].pc = "next" /\ Mine(e).scope = "session" /\ exec[e].todo # <<>>
  /\ \/ /\ Works
        /\ jobs' = Append(jobs, Job("trace", Head(exec[e].todo), Mine(e).steps, e))
        /\ exec' = [exec EXCEPT ![e] = [pc |-> "mark", job |-> Len(jobs) + 1,
                                        outer |-> @.job, todo |-> Tail(@.todo), over |-> @.over]]
     \/ Fails /\ ExecTo(e, "fail") /\ UNCHANGED jobs
  /\ UNCHANGED <<listed, reported, resultVars>> /\ execUnchanged

(* A batch job leaves one or two queued jobs per trace to the worker. *)
Children(t, steps) ==
  (IF "repair" \in steps THEN <<Job("trace", t, {"repair"}, Worker)>> ELSE <<>>)
  \o (IF steps \ {"repair"} # {} THEN <<Job("trace", t, steps \ {"repair"}, Worker)>> ELSE <<>>)

EnqueueChildren(e) ==
  /\ exec[e].pc = "next" /\ Mine(e).scope = "batch" /\ exec[e].todo # <<>>
  /\ LET children == Children(Head(exec[e].todo), Mine(e).steps) IN
     \/ /\ Works /\ jobs' = jobs \o children
        /\ exec' = [exec EXCEPT ![e].todo = Tail(@)]
     \/ \E n \in 0 .. Len(children) - 1 :
          /\ Fails /\ jobs' = jobs \o SubSeq(children, 1, n)
          /\ ExecTo(e, "fail")
  /\ UNCHANGED <<listed, reported, resultVars>> /\ execUnchanged

(* All traces done: a session saves its analysis run, a batch its summary. *)
FinishTraces(e) ==
  /\ exec[e].pc = "next" /\ exec[e].todo = <<>>
  /\ \/ Works /\ ExecTo(e, "complete")
     \/ Fails /\ Mine(e).scope = "session" /\ ExecTo(e, "fail")
  /\ UNCHANGED <<jobs, listed, reported, resultVars>> /\ execUnchanged

(* Rewriting the cassette truncates the file before it writes it again. *)
RepairUsage(e) ==
  /\ exec[e].pc = "repair"
  /\ LET t == Mine(e).trace IN
     \/ Works /\ t \in logs /\ cassette[t] = "whole" /\ ExecTo(e, "complete")
              /\ UNCHANGED <<cassette, rewritten>>
     \/ Works /\ t \in logs /\ cassette[t] = "whole" /\ e \in Handlers /\ ExecTo(e, "rewrite")
              /\ cassette' = [cassette EXCEPT ![t] = "partial"]
              /\ rewritten' = rewritten \cup {t}
     \/ (Fails \/ (Works /\ ~ (t \in logs /\ cassette[t] = "whole")))
              /\ ExecTo(e, "fail") /\ UNCHANGED <<cassette, rewritten>>
  /\ UNCHANGED <<recorder, logs, parseVars, jobs, listed, reported, resultVars, lost, asks, crashes>>

RewriteCassette(e) ==
  /\ exec[e].pc = "rewrite"
  /\ \/ /\ Works /\ ExecTo(e, "complete")
        /\ cassette' = [cassette EXCEPT ![Mine(e).trace] = "whole"]
     \/ Fails /\ ExecTo(e, "fail") /\ UNCHANGED cassette
  /\ UNCHANGED <<recorder, logs, rewritten, parseVars, jobs, listed, reported, resultVars,
                 lost, asks, crashes>>

(* Mutant: a missing observation ends the job without an error. *)
MutLoadObservation(e) ==
  /\ exec[e].pc = "load" /\ Works
  /\ ExecTo(e, IF Mine(e).trace \in observations THEN "scan" ELSE "complete")
  /\ UNCHANGED <<jobs, listed, reported, resultVars>> /\ execUnchanged

LoadObservation(e) ==
  /\ exec[e].pc = "load"
  /\ \/ Works /\ ExecTo(e, IF Mine(e).trace \in observations THEN "scan" ELSE "fail")
     \/ Fails /\ ExecTo(e, "fail")
  /\ UNCHANGED <<jobs, listed, reported, resultVars>> /\ execUnchanged

ReparseTrace(e) ==
  /\ exec[e].pc = "parse"
  /\ ExecTo(e, IF Readable(Mine(e).trace) THEN "save" ELSE "fail")
  /\ UNCHANGED <<jobs, listed, reported, resultVars, faults>> /\ execUnchanged

SaveObservation(e) ==
  /\ exec[e].pc = "save"
  /\ \/ /\ Works
        /\ ExecTo(e, IF "scan" \in Mine(e).steps THEN "scan" ELSE "complete")
        /\ observations' = observations \cup {Mine(e).trace}
     \/ Fails /\ ExecTo(e, "fail") /\ UNCHANGED observations
  /\ UNCHANGED <<jobs, listed, reported, findings>> /\ execUnchanged

(* Mutant: the error is returned past the deferred handler. *)
MutSaveFindings(e) ==
  /\ exec[e].pc = "scan"
  /\ \/ /\ Works /\ ExecTo(e, "complete")
        /\ findings' = findings \cup {Mine(e).trace}
     \/ Fails /\ Returned(e, FALSE) /\ UNCHANGED findings
  /\ UNCHANGED <<jobs, listed, reported, observations>> /\ execUnchanged

SaveFindings(e) ==
  /\ exec[e].pc = "scan"
  /\ \/ /\ Works /\ ExecTo(e, "complete")
        /\ findings' = findings \cup {Mine(e).trace}
     \/ Fails /\ ExecTo(e, "fail") /\ UNCHANGED findings
  /\ UNCHANGED <<jobs, listed, reported, observations>> /\ execUnchanged

(* The update stores the result too, with the traces it was over. *)
Completed(e) ==
  jobs' = [jobs EXCEPT ![exec[e].job].status = "completed", ![exec[e].job].over = exec[e].over]

(* The row may be marked and the reading of it afterwards fail: then the   *)
(* deferred handler marks the completed job failed.                        *)
MarkAnalysisJobCompleted(e) ==
  /\ exec[e].pc = "complete"
  /\ \/ Works /\ Completed(e) /\ Returned(e, TRUE)
     \/ Fails /\ UNCHANGED jobs /\ ExecTo(e, "fail")
     \/ Fails /\ Completed(e) /\ ExecTo(e, "fail")
  /\ UNCHANGED <<listed, reported, resultVars>> /\ execUnchanged

(* Mutant: no system event for the failure. *)
MutMarkFailed(e) ==
  /\ exec[e].pc = "fail" /\ Works
  /\ SetJob(exec[e].job, "failed") /\ Returned(e, FALSE)
  /\ UNCHANGED <<cassette, recorder, logs, rewritten, parseVars, listed, reported, resultVars,
                 lost, asks, crashes>>

(* The deferred MarkAnalysisJobFailed; its own error is dropped. *)
MarkAnalysisJobFailed(e) ==
  /\ exec[e].pc = "fail"
  /\ \/ Works /\ SetJob(exec[e].job, "failed") /\ ExecTo(e, "report")
              /\ UNCHANGED lost
     \/ Fails /\ UNCHANGED jobs /\ Returned(e, FALSE)
              /\ lost' = lost \cup {exec[e].job}
  /\ UNCHANGED <<cassette, recorder, logs, rewritten, parseVars, listed, reported, resultVars,
                 asks, crashes>>

ReportFailure(e) ==
  /\ exec[e].pc = "report"
  /\ \/ Works /\ reported' = reported \cup {exec[e].job}
     \/ Fails /\ UNCHANGED reported
  /\ Returned(e, FALSE)
  /\ UNCHANGED <<jobs, listed, resultVars>> /\ execUnchanged

Execute(e) ==
  \/ MarkAnalysisJobRunning(e) \/ ListTraces(e) \/ RunChild(e) \/ EnqueueChildren(e)
  \/ FinishTraces(e) \/ RepairUsage(e) \/ RewriteCassette(e) \/ LoadObservation(e)
  \/ ReparseTrace(e) \/ SaveObservation(e) \/ SaveFindings(e)
  \/ MarkAnalysisJobCompleted(e) \/ MarkAnalysisJobFailed(e) \/ ReportFailure(e)

Work == ListAnalysisJobs \/ TakeAnalysisJob \/ Execute(Worker)

-----------------------------------------------------------------------------
(* The process is killed and starts again: what was in hand stays as it is *)
(* in the database and on disk.                                            *)
Crash ==
  /\ faults + crashes < MaxMishaps /\ crashes' = crashes + 1
  /\ exec' = [e \in Executors |-> AtRest] /\ listed' = <<>>
  /\ parser' = [pc |-> "idle", job |-> 0, list |-> <<>>]
  /\ recorder' = [t \in Traces |-> IF recorder[t] = "none" THEN "none" ELSE "done"]
  /\ lost' = lost \cup {j \in 1 .. Len(jobs) : Holders(j) # {}}
  /\ lostParses' = lostParses \cup ({parser.job} \ {0})
  /\ UNCHANGED <<cassette, logs, rewritten, resultVars, parseJobs, reportedParses, jobs,
                 reported, asks, faults>>

Next ==
  \/ \E t \in Traces : Recorder(t) \/ Sync(t)
  \/ Parser
  \/ \E r \in Requests : Ask(r) \/ \E h \in Handlers : Call(h, r)
  \/ \E j \in 1 .. Len(jobs) : MarkAnalysisJobCanceled(j)
  \/ Work
  \/ \E h \in Handlers : Execute(h) \/ CallerLeft(h)
  \/ Crash

Spec == Init /\ [][Next]_vars

(* The workers' loops tick, an executing handler goes on, and the recorder *)
(* finishes the file it began.  Nothing is assumed of callers and crashes. *)
FairSpec ==
  /\ Spec
  /\ WF_vars(Parser) /\ WF_vars(Work)
  /\ \A h \in Handlers : WF_vars(Execute(h))
  /\ \A t \in Traces : WF_vars(recorder[t] # "none" /\ Recorder(t))

-----------------------------------------------------------------------------
TypeOK ==
  /\ cassette \in [Traces -> Files] /\ recorder \in [Traces -> RecorderPC]
  /\ logs \subseteq Traces /\ rewritten \subseteq Traces
  /\ observations \subseteq Traces /\ findings \subseteq Traces
  /\ parseJobs \in Seq([trace : Traces, status : ParseStatus])
  /\ parser \in [pc : ParserPC, job : 0 .. Len(parseJobs), list : Seq(1 .. Len(parseJobs))]
  /\ (parser.job = 0 <=> parser.pc = "idle")
  /\ jobs \in Seq([scope : Scopes, trace : Traces \cup {0}, steps : SUBSET Steps, status : Status,
                   attempts : Nat, over : SUBSET Traces, caller : Executors])
  /\ exec \in [Executors -> [pc : ExecPC, job : 0 .. Len(jobs), outer : 0 .. Len(jobs),
                             todo : Seq(Traces), over : SUBSET Traces]]
  /\ \A e \in Executors : exec[e].job = 0 <=> exec[e].pc = "idle"
  /\ listed \in Seq(1 .. Len(jobs))
  /\ reported \subseteq 1 .. Len(jobs) /\ lost \subseteq 1 .. Len(jobs)
  /\ reportedParses \subseteq 1 .. Len(parseJobs) /\ lostParses \subseteq 1 .. Len(parseJobs)
  /\ asks \in 0 .. MaxAsks /\ faults \in 0 .. MaxMishaps /\ crashes \in 0 .. MaxMishaps

(* A job that is marked running is in somebody's hands, whatever path its  *)
(* execution took, whichever call of it failed and although several may    *)
(* execute it.  What strands a job is a crash, and an error of the update  *)
(* that would have marked it failed (or, a parse job, parsed).             *)
NoOrphans ==
  /\ \A j \in 1 .. Len(jobs) :
       jobs[j].status = "running" => Holders(j) # {} \/ j \in lost
  /\ \A i \in 1 .. Len(parseJobs) :
       parseJobs[i].status = "running" => parser.job = i \/ i \in lostParses

(* What a completed job promised is in the database: the observations and  *)
(* findings of its trace, or of every trace its session had, or a job for  *)
(* each step on each trace of its batch.                                   *)
CompletedLeavesResults ==
  \A j \in 1 .. Len(jobs) : jobs[j].status = "completed" =>
    LET of == IF jobs[j].scope = "trace" THEN {jobs[j].trace} ELSE jobs[j].over IN
    IF jobs[j].scope = "batch"
      THEN \A t \in of : \A s \in jobs[j].steps : \E k \in j + 1 .. Len(jobs) :
             jobs[k].trace = t /\ s \in jobs[k].steps
      ELSE /\ "reparse" \in jobs[j].steps => of \subseteq observations
           /\ "scan" \in jobs[j].steps => of \subseteq findings

(* A failed job has its system event, unless its executor is about to      *)
(* write it or crashed before, as long as no call to the database failed:  *)
(* one that did may be the write of this event.                            *)
FailedIsReported ==
  /\ \A j \in 1 .. Len(jobs) : jobs[j].status = "failed" =>
       \/ j \in reported \/ j \in lost \/ faults > 0
       \/ \E e \in Holders(j) : exec[e].pc = "report"
  /\ \A i \in 1 .. Len(parseJobs) : parseJobs[i].status = "failed" =>
       \/ i \in reportedParses \/ i \in lostParses \/ faults > 0
       \/ parser.job = i /\ parser.pc = "report"

(* The worker runs a job once.  A job whose caller runs it, being queued   *)
(* for a moment, the worker may run as well, and no third execution comes. *)
RunsAtMostOnceEach ==
  \A j \in 1 .. Len(jobs) :
    jobs[j].attempts <= (IF jobs[j].caller = Worker THEN 1 ELSE 2)

(* A recording some parser accepts is parsed at the first attempt: its job *)
(* exists only once the file is whole and indexed.  What may come between  *)
(* is a failed write, or a repair that rewrites the file meanwhile.        *)
ParsableTracesParse ==
  \A i \in 1 .. Len(parseJobs) :
    LET t == parseJobs[i].trace IN
    parseJobs[i].status = "failed" => t \notin Parsable \/ t \in rewritten \/ faults > 0

(* A job that ended, or was cancelled, while nobody had it in hand or on a *)
(* list, is never taken up again.                                          *)
EndedStaysEnded ==
  [][\A j \in 1 .. Len(jobs) :
       jobs[j].status \in Ended /\ ~ Held(j)
         => jobs'[j].status = jobs[j].status /\ ~ Held(j)']_vars

(* When callers stop asking, every job has ended for good, whoever ran it, *)
(* whichever call failed and across a crash: none stays queued, and the    *)
(* only ones that stay running were stranded in one of the two ways.       *)
JobsEnd ==
  <>[](/\ \A j \in 1 .. Len(jobs) :
            jobs[j].status \in Ended \/ (jobs[j].status = "running" /\ j \in lost)
       /\ \A i \in 1 .. Len(parseJobs) :
            \/ parseJobs[i].status \in {"parsed", "failed"}
            \/ parseJobs[i].status = "running" /\ i \in lostParses)
=============================================================================

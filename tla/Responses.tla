----------------------------- MODULE Responses -----------------------------
(***************************************************************************)
(* The local runtime of the Responses API: requests create a response, at  *)
(* once or as a stream, or compact the history of one.  A request reads    *)
(* the history of the response it continues, may replace it by a summary,  *)
(* calls the model, executes the tools the model asks for and calls it     *)
(* again, stores the response, tells the client and settles its audit.     *)
(***************************************************************************)
EXTENDS Integers, Sequences, FiniteSets, SequencesExt

CONSTANTS
  Requests,          \* requests that may arrive
  Shapes,            \* what each may be: records [kind, keep, tools, calls]
  Earlier,           \* responses stored before the process started
  MaxToolIterations, \* how often tools are executed for one request
  MaxCalls,          \* bound: tool calls in one answer of the model
  MaxMishaps         \* bound: failed calls of the database, clients that leave, crashes

Kinds == {"create", "stream", "compact"}
(* "forced": the tool choice names a hosted tool that is not ready.        *)
(* "unknown": a tool that only deferred streams support.  "choice": a      *)
(* tool choice that rules out compaction in an incremental stream.         *)
ToolSets == {"plain", "forced", "unknown", "choice"}

ASSUME ResponsesAssumption ==
  /\ Shapes \in [Requests ->
       SUBSET [kind : Kinds, keep : BOOLEAN, tools : ToolSets, calls : 0 .. MaxCalls]]
  /\ Earlier \in Nat /\ MaxToolIterations \in Nat
  /\ MaxCalls \in Nat /\ MaxMishaps \in Nat
  /\ IsFiniteSet(Requests)

(* No request takes more than one identifier for a summary and one for its *)
(* response; 0 stands for no response.                                     *)
Ids == 1 .. Earlier + 2 * Cardinality(Requests)

VARIABLES
  stored,  \* the responses of the store
  nextId,  \* the next identifier, taken from the clock
  req,     \* each request
  heard,   \* the item events each client received
  answer,  \* what each client was told in the end
  audit,   \* the status of each request's audit row
  gone,    \* requests whose client left
  faults, crashes

vars == <<stored, nextId, req, heard, answer, audit, gone, faults, crashes>>

PCs == {"idle", "load", "summarize", "putSummary", "reload", "call", "tool", "run", "put",
        "complete", "record", "answer", "refuse", "return", "ended"}
Types == {"message", "function_call", "function_call_output", "summary"}
(* An item: the round of the tool loop it comes from, and its number there. *)
Item(type, round, n) == [type |-> type, round |-> round, n |-> n]
Items == [type : Types, round : 0 .. MaxToolIterations, n : 0 .. MaxCalls]

(* A stored response: the one it continues, its items, whether a history   *)
(* starts with it, whose words its own content stands for, and whose words *)
(* the model was given for it.                                             *)
Node(prev, items, cut, covers, knew) ==
  [prev |-> prev, items |-> items, cut |-> cut, covers |-> covers, knew |-> knew]

Unasked == [pc |-> "idle", kind |-> "create", keep |-> FALSE, tools |-> "plain", calls |-> 0,
            long |-> FALSE, prev |-> 0, id |-> 0, round |-> 0, text |-> FALSE,
            todo |-> <<>>, out |-> <<>>]
Returned == [Unasked EXCEPT !.pc = "ended"]

Init ==
  /\ stored = [i \in 1 .. Earlier |->
       Node(i - 1, <<Item("message", 0, 0)>>, FALSE, {i}, 1 .. i - 1)]
  /\ nextId = Earlier + 1
  /\ req = [r \in Requests |-> Unasked]
  /\ heard = [r \in Requests |-> <<>>]
  /\ answer = [r \in Requests |-> "none"] /\ audit = [r \in Requests |-> "none"]
  /\ gone = {} /\ faults = 0 /\ crashes = 0

Works == UNCHANGED faults
Mishaps == faults + crashes + Cardinality(gone)
Fails == Mishaps < MaxMishaps /\ faults' = faults + 1
(* What is sent to a client that left may fail to be written, and a call   *)
(* made for it fail because its context ended.                             *)
Broken(r) == r \in gone /\ UNCHANGED faults

To(r, pc) == req' = [req EXCEPT ![r].pc = pc]
(* An error is on its way out: of all the request had, its response's name *)
(* is what matters now.                                                    *)
Fail(r) == req' = [req EXCEPT ![r] = [Unasked EXCEPT !.pc = "refuse", !.kind = req[r].kind,
                                                     !.keep = req[r].keep, !.id = req[r].id]]

-----------------------------------------------------------------------------
(* The history of a response. *)

(* Back along previous_response_id to the start, to a response that starts *)
(* a history, or to one that is not there: that one first, then the others *)
(* in the order they were made.                                            *)
Back == LET back[i \in Ids \cup {0}] ==
              IF i \notin DOMAIN stored \/ stored[i].cut THEN <<i>>
              ELSE Append(back[stored[i].prev], i)
        IN back

(* Mutant: a response that is missing ends the history like the start. *)
MutFound(i) == TRUE

Found(i) == Head(Back[i]) \in DOMAIN stored \cup {0}

(* Mutant: the history starts after the response that starts it. *)
MutContinuationItems(i) ==
  IF Head(Back[i]) \in DOMAIN stored /\ ~ stored[Head(Back[i])].cut THEN Back[i] ELSE Tail(Back[i])

(* All the walk found: only where it stopped there may be nothing. *)
ContinuationItems(i) == IF Head(Back[i]) \in DOMAIN stored THEN Back[i] ELSE Tail(Back[i])

(* Whose words the history of i holds.  What is stored never changes, so a  *)
(* request that reads it late holds what it read when it arrived.          *)
Words(i) == UNION {stored[j].covers : j \in ToSet(ContinuationItems(i))}

-----------------------------------------------------------------------------
(* Arrival, history, refusals. *)

unstored == UNCHANGED stored
untold == UNCHANGED <<heard, answer, audit>>
steady == UNCHANGED <<gone, crashes>>

(* The history of prev is long or not: what is known of its tokens against *)
(* the context window of the model.  A client names any response it was    *)
(* told of, also one that was never stored.                                *)
Arrive(r, s, prev, long) ==
  /\ req[r].pc = "idle"
  /\ s.kind = "compact" => prev # 0 /\ ~ long
  /\ prev = 0 => ~ long
  /\ req' = [req EXCEPT ![r] = [Unasked EXCEPT !.pc = "load", !.kind = s.kind, !.keep = s.keep,
                            !.tools = s.tools, !.calls = s.calls, !.long = long, !.prev = prev]]
  /\ audit' = [audit EXCEPT ![r] = "accepted"]
  /\ UNCHANGED <<stored, nextId, heard, answer, faults>> /\ steady

(* Create compacts a long history before it looks at the tool choice, and  *)
(* CreateStream after; what an incremental stream cannot do is deferred:   *)
(* the request starts again as a creation.                                 *)
AfterLoad(q) ==
  IF q.kind = "compact" THEN "summarize"
  ELSE IF q.kind = "stream" /\ q.tools = "forced" THEN "refuse"
  ELSE IF q.kind = "stream" /\ (q.tools = "unknown" \/ (q.tools = "choice" /\ q.long)) THEN "load"
  ELSE IF q.long THEN "summarize"
  ELSE IF q.tools = "forced" THEN "refuse" ELSE "call"

(* Mutant: the deferred stream is tried incrementally again. *)
MutKindFor(r, pc) == req[r].kind

KindFor(r, pc) == IF pc = "load" THEN "deferred" ELSE req[r].kind

(* The identifier of the response is taken before the first call of the    *)
(* model.                                                                  *)
Begin(r, pc) ==
  /\ nextId' = IF pc = "call" THEN nextId + 1 ELSE nextId
  /\ req' = [req EXCEPT ![r].pc = pc, ![r].id = IF pc = "call" THEN nextId ELSE 0,
               ![r].prev = IF req[r].pc = "reload" THEN req[r].id ELSE @,
               ![r].kind = KindFor(r, pc),
               ![r].long = @ /\ pc # "call"]

LoadHistory(r) ==
  /\ req[r].pc = "load"
  /\ \/ /\ Works /\ Found(req[r].prev)
        /\ IF AfterLoad(req[r]) = "refuse" THEN Fail(r) /\ UNCHANGED nextId
           ELSE Begin(r, AfterLoad(req[r]))
     \/ Works /\ ~ Found(req[r].prev) /\ Fail(r) /\ UNCHANGED nextId
     \/ (Fails \/ Broken(r)) /\ Fail(r) /\ UNCHANGED nextId
  /\ unstored /\ untold /\ steady

(* Compact: the model's call, the identifier taken before it. *)
Summarize(r) ==
  /\ req[r].pc = "summarize"
  /\ req' = [req EXCEPT ![r].pc = "putSummary", ![r].id = nextId]
  /\ nextId' = nextId + 1
  /\ UNCHANGED <<stored, faults>> /\ untold /\ steady

(* A call of the model fails; so may the one for a summary. *)
ModelFails(r) ==
  /\ req[r].pc \in {"summarize", "call"}
  /\ Fail(r)
  /\ UNCHANGED <<stored, nextId, faults>> /\ untold /\ steady

Add(i, node) == stored' = [j \in DOMAIN stored \cup {i} |-> IF j = i THEN node ELSE stored[j]]

(* A request to compact is done; another reads its history again. *)
PutSummary(r) ==
  /\ req[r].pc = "putSummary"
  /\ LET q == req[r]
         summary == <<Item("summary", 0, 0)>> IN
     \/ /\ Works
        /\ Add(q.id, Node(q.prev, summary, TRUE, Words(q.prev), Words(q.prev)))
        /\ req' = [req EXCEPT ![r].pc = IF q.kind = "compact" THEN "record" ELSE "reload",
                              ![r].out = IF q.kind = "compact" THEN summary ELSE @]
     \/ (Fails \/ Broken(r)) /\ Fail(r) /\ unstored
  /\ UNCHANGED nextId /\ untold /\ steady

(* The response is made to continue the summary. *)
Reload(r) ==
  /\ req[r].pc = "reload"
  /\ \/ Works /\ req[r].tools # "forced" /\ Begin(r, "call")
     \/ /\ (Works /\ req[r].tools = "forced") \/ Fails \/ Broken(r)
        /\ req' = [req EXCEPT ![r] = [Unasked EXCEPT !.pc = "refuse"]] /\ UNCHANGED nextId
  /\ unstored /\ untold /\ steady

-----------------------------------------------------------------------------
(* The tool loop. *)

Streams(r) == req[r].kind = "stream"
Event(what, at, item) == [what |-> what, at |-> at, item |-> item]
Tell(r, events) ==
  heard' = IF Streams(r) THEN [heard EXCEPT ![r] = @ \o events] ELSE heard

Message(r) == Item("message", req[r].round, 0)

(* The first words of an answer: its item is added at the place that       *)
(* follows the output so far.                                              *)
StreamText(r) ==
  /\ req[r].pc = "call" /\ Streams(r) /\ ~ req[r].text
  /\ \/ /\ req' = [req EXCEPT ![r].text = TRUE]
        /\ Tell(r, <<Event("added", Len(req[r].out), Message(r))>>)
     \/ r \in gone /\ Fail(r) /\ UNCHANGED heard
  /\ UNCHANGED <<stored, nextId, answer, audit, faults>> /\ steady

(* The end of the text: an item not begun is added now, with all of it. *)
TextDone(r, text) ==
  IF ~ text THEN <<>>
  ELSE (IF req[r].text THEN <<>> ELSE <<Event("added", Len(req[r].out), Message(r))>>)
       \o <<Event("done", Len(req[r].out), Message(r))>>

(* Mutant: tools are executed once more than allowed. *)
MutRoundsLeft(r) == req[r].round <= MaxToolIterations

RoundsLeft(r) == req[r].round < MaxToolIterations

AfterOutput(q) == IF q.keep THEN "put" ELSE IF q.kind = "stream" THEN "complete" ELSE "record"

(* The answer of the model is complete: n calls of tools, with some text.  *)
(* Calls the client is to execute end the response, and so does an answer  *)
(* without calls; a hosted tool that is not ready, and one round too many, *)
(* are errors.  Text beside calls the server executes is told and dropped. *)
CallModel(r, n, whose, text) ==
  /\ req[r].pc = "call" /\ (req[r].text => text)
  /\ (n = 0) = (whose = "nobody")
  /\ LET q == req[r]
         calls == [k \in 1 .. n |-> Item("function_call", q.round, k)]
         said == IF text THEN <<Message(r)>> ELSE <<>> IN
     \/ /\ Tell(r, TextDone(r, text))
        /\ \/ /\ whose \in {"nobody", "client"}
              /\ req' = [req EXCEPT ![r].out = @ \o calls \o said, ![r].pc = AfterOutput(q)]
           \/ /\ whose = "server" /\ RoundsLeft(r)
              /\ req' = [req EXCEPT ![r].pc = "tool", ![r].round = @ + 1, ![r].text = FALSE,
                           ![r].todo = [k \in 1 .. n |-> Item("function_call_output", q.round, k)]]
           \/ whose = "server" /\ ~ RoundsLeft(r) /\ Fail(r)
           \/ whose = "unready" /\ Fail(r)
     \/ Streams(r) /\ r \in gone /\ Fail(r) /\ UNCHANGED heard
  /\ UNCHANGED <<stored, nextId, answer, audit, faults>> /\ steady

StartTool(r) ==
  /\ req[r].pc = "tool"
  /\ \/ To(r, "run") /\ Tell(r, <<Event("added", Len(req[r].out), Head(req[r].todo))>>)
     \/ Streams(r) /\ r \in gone /\ Fail(r) /\ UNCHANGED heard
  /\ UNCHANGED <<stored, nextId, answer, audit, faults>> /\ steady

(* Mutant: the item is appended before its place is told. *)
MutPlace(r) == Len(req[r].out) + 1

Place(r) == Len(req[r].out)

(* A tool that fails ends the request, and its item is done as failed. *)
ExecuteTool(r) ==
  /\ req[r].pc = "run"
  /\ LET q == req[r] IN
     \/ /\ Tell(r, <<Event("done", Place(r), Head(q.todo))>>)
        /\ req' = [req EXCEPT ![r].out = Append(@, Head(q.todo)), ![r].todo = Tail(@),
                              ![r].pc = IF Len(q.todo) = 1 THEN "call" ELSE "tool"]
     \/ Fail(r) /\ Tell(r, <<Event("failed", Place(r), Head(q.todo))>>)
     \/ r \in gone /\ Fail(r) /\ UNCHANGED heard
  /\ UNCHANGED <<stored, nextId, answer, audit, faults>> /\ steady

-----------------------------------------------------------------------------
(* Storing, telling, settling. *)

AfterPut(q) == IF q.kind = "stream" THEN "complete" ELSE "record"

(* Mutant: an error of the store is only logged. *)
MutPut(r) ==
  /\ req[r].pc = "put"
  /\ LET q == req[r] IN
     /\ To(r, AfterPut(q))
     /\ \/ Works /\ Add(q.id, Node(q.prev, q.out, FALSE, {q.id}, Words(q.prev)))
        \/ (Fails \/ Broken(r)) /\ unstored
  /\ UNCHANGED nextId /\ untold /\ steady

(* One transaction for the response and all its items. *)
Put(r) ==
  /\ req[r].pc = "put"
  /\ LET q == req[r] IN
     \/ Works /\ Add(q.id, Node(q.prev, q.out, FALSE, {q.id}, Words(q.prev))) /\ To(r, AfterPut(q))
     \/ (Fails \/ Broken(r)) /\ Fail(r) /\ unstored
  /\ UNCHANGED nextId /\ untold /\ steady

(* The last event of a stream, before its audit. *)
Complete(r) ==
  /\ req[r].pc = "complete"
  /\ \/ To(r, "record") /\ answer' = [answer EXCEPT ![r] = "completed"]
     \/ r \in gone /\ Fail(r) /\ UNCHANGED answer
  /\ UNCHANGED <<stored, nextId, heard, audit, faults>> /\ steady

(* The update of the audit row; its error is logged. *)
Settle(r, status) ==
  \/ Works /\ audit' = [audit EXCEPT ![r] = status]
  \/ Fails /\ UNCHANGED audit

Record(r) ==
  /\ req[r].pc = "record"
  /\ Settle(r, "completed")
  /\ To(r, IF Streams(r) THEN "return" ELSE "answer")
  /\ UNCHANGED <<stored, nextId, heard, answer>> /\ steady

(* The body, or the events of a deferred stream. *)
Answer(r) ==
  /\ req[r].pc = "answer"
  /\ To(r, "return")
  /\ \/ answer' = [answer EXCEPT ![r] = "completed"]
     \/ r \in gone /\ UNCHANGED answer
  /\ UNCHANGED <<stored, nextId, heard, audit, faults>> /\ steady

(* The client is told, in the stream if it has begun, and the audit row    *)
(* settled: cancelled, when the error is that the context ended.           *)
Refuse(r) ==
  /\ req[r].pc = "refuse"
  /\ To(r, "return")
  /\ \E status \in {"failed"} \cup (IF r \in gone THEN {"cancelled"} ELSE {}) : Settle(r, status)
  /\ \/ answer' = [answer EXCEPT ![r] = "failed"]
     \/ r \in gone /\ UNCHANGED answer
  /\ UNCHANGED <<stored, nextId, heard>> /\ steady

(* The goroutine returns, and nothing of the request is left in memory. *)
Return(r) ==
  /\ req[r].pc = "return"
  /\ req' = [req EXCEPT ![r] = Returned] /\ heard' = [heard EXCEPT ![r] = <<>>]
  /\ UNCHANGED <<stored, nextId, answer, audit, faults>> /\ steady

-----------------------------------------------------------------------------
(* The client leaves; the process is killed, and the store remains. *)

Leave(r) ==
  /\ req[r].pc \notin {"idle", "ended"} /\ r \notin gone /\ Mishaps < MaxMishaps
  /\ gone' = gone \cup {r}
  /\ UNCHANGED <<stored, nextId, req, faults, crashes>> /\ untold

Crash ==
  /\ Mishaps < MaxMishaps /\ crashes' = crashes + 1
  /\ req' = [r \in Requests |-> IF req[r].pc = "idle" THEN Unasked ELSE Returned]
  /\ heard' = [r \in Requests |-> <<>>]
  /\ UNCHANGED <<stored, nextId, answer, audit, gone, faults>>

Serve(r) ==
  \/ LoadHistory(r) \/ Summarize(r) \/ ModelFails(r) \/ PutSummary(r) \/ Reload(r)
  \/ StreamText(r)
  \/ \E n \in 0 .. req[r].calls, whose \in {"nobody", "client", "server", "unready"}, text \in BOOLEAN :
       CallModel(r, n, whose, text)
  \/ StartTool(r) \/ ExecuteTool(r) \/ Put(r) \/ Complete(r) \/ Record(r) \/ Answer(r) \/ Refuse(r)
  \/ Return(r)

Next ==
  \/ \E r \in Requests :
       \/ \E s \in Shapes[r], prev \in 0 .. nextId - 1, long \in BOOLEAN : Arrive(r, s, prev, long)
       \/ Serve(r) \/ Leave(r)
  \/ Crash

Spec == Init /\ [][Next]_vars

(* A request's goroutine goes on; the model and the tools answer or fail.  *)
FairSpec == Spec /\ \A r \in Requests : WF_vars(Serve(r))

-----------------------------------------------------------------------------
TypeOK ==
  /\ DOMAIN stored \subseteq Ids /\ nextId \in Earlier + 1 .. Earlier + 2 * Cardinality(Requests) + 1
  /\ \A i \in DOMAIN stored : stored[i] \in
       [prev : 0 .. i - 1, items : Seq(Items), cut : BOOLEAN, covers : SUBSET Ids, knew : SUBSET Ids]
  /\ req \in [Requests ->
       [pc : PCs, kind : Kinds \cup {"deferred"}, keep : BOOLEAN, tools : ToolSets,
        calls : 0 .. MaxCalls, long : BOOLEAN,
        prev : Ids \cup {0}, id : 0 .. nextId - 1,
        round : 0 .. MaxToolIterations, text : BOOLEAN, todo : Seq(Items), out : Seq(Items)]]
  /\ heard \in [Requests -> Seq([what : {"added", "done", "failed"}, at : Nat, item : Items])]
  /\ answer \in [Requests -> {"none", "completed", "failed"}]
  /\ audit \in [Requests -> {"none", "accepted", "completed", "failed", "cancelled"}]
  /\ gone \subseteq Requests
  /\ faults \in 0 .. MaxMishaps /\ crashes \in 0 .. MaxMishaps

(* The client, the audit row and the store agree on what became of a       *)
(* request, whichever step of it failed: what a client was told is done is *)
(* stored as it was told, if it is to be stored at all; what failed left   *)
(* no response, unless the client had gone; no row stays accepted but      *)
(* after a crash or an error of the database.                              *)
OutcomesAgree ==
  \A r \in Requests : LET q == req[r] IN
    /\ "completed" \in {answer[r], audit[r]} =>
         /\ q.keep => q.id \in DOMAIN stored /\ stored[q.id].items = q.out
         /\ answer[r] # "failed" /\ audit[r] \notin {"failed", "cancelled"}
    /\ "failed" \in {answer[r], audit[r]} /\ q.id \in DOMAIN stored => r \in gone
    /\ q.pc = "ended" /\ audit[r] = "accepted" => faults + crashes > 0

(* All responses a response goes back to, without the summaries. *)
Ancestry == LET ancestry[i \in Ids \cup {0}] ==
                  IF i \notin DOMAIN stored THEN {}
                  ELSE ancestry[stored[i].prev] \cup (IF stored[i].cut THEN {} ELSE {i})
            IN ancestry

(* Nothing is forgotten: the model is given the words of every response    *)
(* that the one it makes goes back to, and no others, in their own words   *)
(* or in those of a summary, across any sequence of continuations and      *)
(* compactions, made for other requests or by an earlier process.          *)
NothingForgotten ==
  /\ \A i \in DOMAIN stored : stored[i].knew = Ancestry[stored[i].prev]
  /\ \A r \in Requests :
       req[r].pc \in {"call", "tool", "run"} => Words(req[r].prev) = Ancestry[req[r].prev]

(* The events of r that added an item that is not done or failed since. *)
Open(r) ==
  {k \in DOMAIN heard[r] : heard[r][k].what = "added" /\
     \A l \in k + 1 .. Len(heard[r]) :
       ~ (heard[r][l].what # "added" /\ heard[r][l].at = heard[r][k].at
          /\ heard[r][l].item = heard[r][k].item)}

(* A stream has one item open at a time, and closes it where it opened it; *)
(* a completed one has none open, and told every tool output it has at the *)
(* place it has it.                                                        *)
StreamCloses ==
  \A r \in Requests :
    /\ Cardinality(Open(r)) <= 1
    /\ Streams(r) /\ answer[r] = "completed" =>
         /\ Open(r) = {}
         /\ \A k \in DOMAIN req[r].out : req[r].out[k].type = "function_call_output" =>
              Event("done", k - 1, req[r].out[k]) \in ToSet(heard[r])

(* Every request comes to an end: the tool loop has no way to go on for    *)
(* ever, whatever the model asks for.                                      *)
RequestsEnd == \A r \in Requests : req[r].pc # "idle" ~> req[r].pc = "ended"

(* The store is the tree of ResponseTree. *)
StoredTree == [i \in DOMAIN stored |-> [prev |-> stored[i].prev, items |-> stored[i].items]]
Tree == INSTANCE ResponseTree WITH Items <- Seq(Items), tree <- StoredTree

ImplementsTree == Tree!Spec
=============================================================================

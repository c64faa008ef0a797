------------------------------- MODULE EventFeed -------------------------------
(***************************************************************************)
(* System events and the streams that tell monitors of them.  A change of  *)
(* the events table and its notification are two steps: the change is made *)
(* in the database, then the subscribers are copied under eventMu, and     *)
(* then, eventMu let go, each is sent a notification unless its channel is *)
(* full.  A stream answers every notification with a new summary of the    *)
(* table, so that what a notification says is of no importance.  Before a  *)
(* change is notified its event is read back, and a summary is read when   *)
(* it is written: where such a read fails, the notification is lost.       *)
(***************************************************************************)
EXTENDS Integers, FiniteSets

CONSTANTS
  Fingerprints,  \* what events are merged by
  Publishers,    \* goroutines that change events
  Background,    \* those of them that no HTTP server recovers from a panic
  Streams,       \* connections to the event stream
  Buffer,        \* notifications a subscriber's channel holds
  DatabaseFails  \* whether the database may fail after a change was made

ASSUME FeedAssumption ==
  /\ Buffer \in Nat \ {0}
  /\ DatabaseFails \in BOOLEAN
  /\ Background \subseteq Publishers
  /\ IsFiniteSet(Fingerprints)

VARIABLES
  events,    \* status of each event, or "absent"
  pub,       \* where each publisher is, and whom it still sends to
  stream,    \* where each stream is
  channel,   \* notifications in its channel
  summary,   \* unread events in the last summary it wrote
  eventSubs, \* streams that are subscribed
  up,        \* whether the process runs
  unheard    \* history: streams a notification was lost to since their last summary

vars == <<events, pub, stream, channel, summary, eventSubs, up, unheard>>
streamVars == <<stream, channel, summary, eventSubs>>

Statuses == {"unread", "read", "resolved", "ignored"}
PubPC == {"idle", "changed", "sending", "panicked"}
StreamPC == {"new", "subscribed", "waiting", "notified", "closed"}
Quiet == [pc |-> "idle", to |-> {}]
NoSummary == -1

Init ==
  /\ events = [f \in Fingerprints |-> "absent"]
  /\ pub = [p \in Publishers |-> Quiet]
  /\ stream = [s \in Streams |-> "new"]
  /\ channel = [s \in Streams |-> 0] /\ summary = [s \in Streams |-> NoSummary]
  /\ eventSubs = {} /\ up = TRUE /\ unheard = {}

Unread == Cardinality({f \in Fingerprints : events[f] = "unread"})

-----------------------------------------------------------------------------
(* Changes of the table, each to be followed by a notification. *)

Change(p, table) ==
  /\ up /\ pub[p].pc = "idle"
  /\ events' = table
  /\ pub' = [pub EXCEPT ![p].pc = "changed"]
  /\ UNCHANGED <<streamVars, up, unheard>>

(* An event that happens again is unread again, unless it is ignored. *)
UpsertSystemEvent(p, f) ==
  Change(p, [events EXCEPT ![f] = IF @ = "ignored" THEN "ignored" ELSE "unread"])

MarkSystemEventRead(p, f) ==
  /\ events[f] # "absent"
  /\ Change(p, [events EXCEPT ![f] = IF @ = "ignored" THEN "ignored" ELSE "read"])

ResolveSystemEvent(p, f) ==
  events[f] # "absent" /\ Change(p, [events EXCEPT ![f] = "resolved"])

IgnoreSystemEvent(p, f) ==
  events[f] # "absent" /\ Change(p, [events EXCEPT ![f] = "ignored"])

(* Mutant: the handler that marks many at once tells nobody. *)
MutMarkAllQuietly(p) ==
  \E matching \in SUBSET {f \in Fingerprints : events[f] = "unread"} :
    /\ up /\ pub[p].pc = "idle" /\ matching # {}
    /\ events' = [f \in Fingerprints |-> IF f \in matching THEN "read" ELSE events[f]]
    /\ UNCHANGED <<pub, streamVars, up, unheard>>

(* The handler marks the unread events that match; none, and nobody is told. *)
MarkAllSystemEventsRead(p) ==
  \E matching \in SUBSET {f \in Fingerprints : events[f] = "unread"} :
    /\ matching # {}
    /\ Change(p, [f \in Fingerprints |-> IF f \in matching THEN "read" ELSE events[f]])

(* The event cannot be read back (notifySystemEventIDChanged and the end   *)
(* of UpsertSystemEvent), or the update took effect and its answer did not *)
(* come: the function returns, and nobody is told.                         *)
NobodyIsTold(p) ==
  /\ up /\ DatabaseFails /\ pub[p].pc = "changed"
  /\ pub' = [pub EXCEPT ![p] = Quiet]
  /\ unheard' = unheard \cup eventSubs
  /\ UNCHANGED <<events, streamVars, up>>

(* The event is read back; notifySystemEventChanged, its critical section. *)
CopySubscribers(p) ==
  /\ up /\ pub[p].pc = "changed"
  /\ pub' = [pub EXCEPT ![p] = IF eventSubs = {} THEN Quiet
                               ELSE [pc |-> "sending", to |-> eventSubs]]
  /\ UNCHANGED <<events, streamVars, up, unheard>>

(* Mutant: the loop does not end. *)
MutAfterSend(p, s) == [pub[p] EXCEPT !.to = @ \ {s}]

AfterSend(p, s) == IF pub[p].to = {s} THEN Quiet ELSE [pub[p] EXCEPT !.to = @ \ {s}]

(* A select with a default: a full channel is passed over. *)
Deliver(s) == channel' = [channel EXCEPT ![s] = IF @ < Buffer THEN @ + 1 ELSE @]

Send(p, s) ==
  /\ up /\ pub[p].pc = "sending" /\ s \in pub[p].to
  /\ stream[s] # "closed"
  /\ Deliver(s)
  /\ pub' = [pub EXCEPT ![p] = AfterSend(p, s)]
  /\ UNCHANGED <<events, stream, summary, eventSubs, up, unheard>>

(* A send to a closed channel panics, with or without a default, and those *)
(* that were still to come get nothing.  The HTTP server recovers a        *)
(* handler's panic; another goroutine's ends the process.                  *)
SendPanics(p, s) ==
  /\ up /\ pub[p].pc = "sending" /\ s \in pub[p].to
  /\ stream[s] = "closed"
  /\ pub' = [pub EXCEPT ![p] = [pc |-> "panicked", to |-> {}]]
  /\ up' = (p \notin Background)
  /\ unheard' = unheard \cup (pub[p].to \cap eventSubs)
  /\ UNCHANGED <<events, streamVars>>

-----------------------------------------------------------------------------
(* The stream's handler. *)

SubscribeSystemEvents(s) ==
  /\ up /\ stream[s] = "new"
  /\ stream' = [stream EXCEPT ![s] = "subscribed"]
  /\ eventSubs' = eventSubs \cup {s}
  /\ UNCHANGED <<events, pub, channel, summary, up, unheard>>

(* The summary a stream begins with, or answers a notification with. *)
WriteSummary(s) ==
  /\ up /\ stream[s] \in {"subscribed", "notified"}
  /\ stream' = [stream EXCEPT ![s] = "waiting"]
  /\ summary' = [summary EXCEPT ![s] = Unread]
  /\ unheard' = unheard \ {s}
  /\ UNCHANGED <<events, pub, channel, eventSubs, up>>

(* The summary cannot be read: an error is written in its place, and the   *)
(* notification is used up.                                                *)
WriteError(s) ==
  /\ up /\ DatabaseFails /\ stream[s] \in {"subscribed", "notified"}
  /\ stream' = [stream EXCEPT ![s] = "waiting"]
  /\ unheard' = unheard \cup {s}
  /\ UNCHANGED <<events, pub, channel, summary, eventSubs, up>>

(* Mutant: a notification is passed on, and no summary follows it. *)
MutReceive(s) ==
  /\ up /\ stream[s] = "waiting" /\ channel[s] > 0
  /\ channel' = [channel EXCEPT ![s] = @ - 1]
  /\ UNCHANGED <<events, pub, stream, summary, eventSubs, up, unheard>>

Receive(s) ==
  /\ up /\ stream[s] = "waiting" /\ channel[s] > 0
  /\ stream' = [stream EXCEPT ![s] = "notified"]
  /\ channel' = [channel EXCEPT ![s] = @ - 1]
  /\ UNCHANGED <<events, pub, summary, eventSubs, up, unheard>>

(* The client leaves: unsubscribe removes the channel and closes it; what  *)
(* is left in it nobody reads.                                             *)
Unsubscribe(s) ==
  /\ up /\ stream[s] = "waiting"
  /\ stream' = [stream EXCEPT ![s] = "closed"]
  /\ eventSubs' = eventSubs \ {s} /\ unheard' = unheard \ {s}
  /\ channel' = [channel EXCEPT ![s] = 0] /\ summary' = [summary EXCEPT ![s] = NoSummary]
  /\ UNCHANGED <<events, pub, up>>

Publish(p) ==
  \/ CopySubscribers(p) \/ NobodyIsTold(p)
  \/ \E s \in Streams : Send(p, s) \/ SendPanics(p, s)

Answer(s) == WriteSummary(s) \/ WriteError(s)

Next ==
  \/ \E p \in Publishers, f \in Fingerprints :
       \/ UpsertSystemEvent(p, f) \/ MarkSystemEventRead(p, f)
       \/ ResolveSystemEvent(p, f) \/ IgnoreSystemEvent(p, f)
  \/ \E p \in Publishers : MarkAllSystemEventsRead(p) \/ Publish(p)
  \/ \E s \in Streams :
       SubscribeSystemEvents(s) \/ Answer(s) \/ Receive(s) \/ Unsubscribe(s)

Spec == Init /\ [][Next]_vars

(* A publisher in its loop and a handler with work to do go on. *)
FairSpec ==
  /\ Spec
  /\ \A p \in Publishers : WF_vars(Publish(p))
  /\ \A s \in Streams : WF_vars(Answer(s) \/ Receive(s))

-----------------------------------------------------------------------------
TypeOK ==
  /\ events \in [Fingerprints -> Statuses \cup {"absent"}]
  /\ pub \in [Publishers -> [pc : PubPC, to : SUBSET Streams]]
  /\ \A p \in Publishers : pub[p].pc = "sending" <=> pub[p].to # {}
  /\ stream \in [Streams -> StreamPC]
  /\ channel \in [Streams -> 0 .. Buffer]
  /\ summary \in [Streams -> 0 .. Cardinality(Fingerprints) \cup {NoSummary}]
  /\ eventSubs = {s \in Streams : stream[s] \in {"subscribed", "waiting", "notified"}}
  /\ up \in BOOLEAN /\ unheard \subseteq eventSubs

(* A notice is on its way to s: in its channel, or with a publisher. *)
NoticeComes(s) ==
  \/ channel[s] > 0
  \/ \E p \in Publishers : pub[p].pc = "changed" \/ s \in pub[p].to

(* A stream that waits while its last summary is not the table's has a     *)
(* notice coming, although full channels drop notices and notices overtake *)
(* each other; the only exceptions are the streams to which a failed read  *)
(* or a panic lost a notice since that summary, and the next summary       *)
(* repairs them.                                                           *)
StaleStreamIsTold ==
  \A s \in Streams : stream[s] = "waiting" /\ summary[s] # Unread
    => NoticeComes(s) \/ s \in unheard

(* The unread badge is driven by the stream (docs/MONITOR_GUIDE.md): while *)
(* the database works, a waiting stream whose summary is not the table's   *)
(* has a notice coming.                                                    *)
EveryStreamIsTold ==
  \A s \in Streams : stream[s] = "waiting" /\ summary[s] # Unread => NoticeComes(s)

(* When the table changes no more, an open stream's last summary is the    *)
(* table's for good, unless the stream is one to which a notice was lost   *)
(* after that summary.                                                     *)
StreamsCatchUp ==
  (<>[][events' = events]_events) =>
    \A s \in Streams :
      <>[](up /\ stream[s] = "waiting" => summary[s] = Unread \/ s \in unheard)
=============================================================================

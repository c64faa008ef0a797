--------------------------- MODULE EventFeedProofs ---------------------------
(***************************************************************************)
(* A waiting stream whose summary is stale has a notice coming, or lost one *)
(* to a failed read or a panic since that summary: for every number of     *)
(* events, publishers and streams and every size of channel.               *)
(***************************************************************************)
EXTENDS EventFeed, FiniteSetTheorems, TLAPS

-----------------------------------------------------------------------------
(* The number of unread events is one a summary may show. *)
LEMMA UnreadRange == Unread \in 0 .. Cardinality(Fingerprints)
<1> DEFINE unread == {f \in Fingerprints : events[f] = "unread"}
<1>1. unread \subseteq Fingerprints
  OBVIOUS
<1>2. /\ IsFiniteSet(unread)
      /\ Cardinality(unread) <= Cardinality(Fingerprints)
  BY <1>1, FeedAssumption, FS_Subset DEF FeedAssumption
<1>3. Cardinality(unread) \in Nat /\ Cardinality(Fingerprints) \in Nat
  BY <1>2, FeedAssumption, FS_CardinalityType DEF FeedAssumption
<1> QED
  BY <1>2, <1>3 DEF Unread

(* What a change of the table keeps, whichever it is. *)
LEMMA ChangeStep ==
  ASSUME TypeOK, StaleStreamIsTold, NEW p \in Publishers,
         NEW table \in [Fingerprints -> Statuses \cup {"absent"}],
         Change(p, table)
  PROVE  TypeOK' /\ StaleStreamIsTold'
<1>1. /\ pub[p].pc = "idle"
      /\ events' = table
      /\ pub' = [pub EXCEPT ![p].pc = "changed"]
      /\ UNCHANGED <<stream, channel, summary, eventSubs, up, unheard>>
  BY DEF Change, streamVars
<1>2. TypeOK'
  BY <1>1 DEF TypeOK, PubPC
<1>3. pub'[p].pc = "changed"
  BY <1>1 DEF TypeOK
<1>4. StaleStreamIsTold'
  BY <1>3 DEF StaleStreamIsTold, NoticeComes
<1> QED
  BY <1>2, <1>4

LEMMA UpsertStep ==
  ASSUME TypeOK, StaleStreamIsTold, NEW p \in Publishers, NEW f \in Fingerprints,
         UpsertSystemEvent(p, f)
  PROVE  TypeOK' /\ StaleStreamIsTold'
<1> DEFINE table == [events EXCEPT ![f] = IF @ = "ignored" THEN "ignored" ELSE "unread"]
<1>1. table \in [Fingerprints -> Statuses \cup {"absent"}]
  BY DEF TypeOK, Statuses
<1>2. Change(p, table)
  BY DEF UpsertSystemEvent
<1> QED
  BY <1>1, <1>2, ChangeStep

LEMMA ReadStep ==
  ASSUME TypeOK, StaleStreamIsTold, NEW p \in Publishers, NEW f \in Fingerprints,
         MarkSystemEventRead(p, f)
  PROVE  TypeOK' /\ StaleStreamIsTold'
<1> DEFINE table == [events EXCEPT ![f] = IF @ = "ignored" THEN "ignored" ELSE "read"]
<1>1. table \in [Fingerprints -> Statuses \cup {"absent"}]
  BY DEF TypeOK, Statuses
<1>2. Change(p, table)
  BY DEF MarkSystemEventRead
<1> QED
  BY <1>1, <1>2, ChangeStep

LEMMA ResolveStep ==
  ASSUME TypeOK, StaleStreamIsTold, NEW p \in Publishers, NEW f \in Fingerprints,
         ResolveSystemEvent(p, f)
  PROVE  TypeOK' /\ StaleStreamIsTold'
<1> DEFINE table == [events EXCEPT ![f] = "resolved"]
<1>1. table \in [Fingerprints -> Statuses \cup {"absent"}]
  BY DEF TypeOK, Statuses
<1>2. Change(p, table)
  BY DEF ResolveSystemEvent
<1> QED
  BY <1>1, <1>2, ChangeStep

LEMMA IgnoreStep ==
  ASSUME TypeOK, StaleStreamIsTold, NEW p \in Publishers, NEW f \in Fingerprints,
         IgnoreSystemEvent(p, f)
  PROVE  TypeOK' /\ StaleStreamIsTold'
<1> DEFINE table == [events EXCEPT ![f] = "ignored"]
<1>1. table \in [Fingerprints -> Statuses \cup {"absent"}]
  BY DEF TypeOK, Statuses
<1>2. Change(p, table)
  BY DEF IgnoreSystemEvent
<1> QED
  BY <1>1, <1>2, ChangeStep

LEMMA MarkAllStep ==
  ASSUME TypeOK, StaleStreamIsTold, NEW p \in Publishers, MarkAllSystemEventsRead(p)
  PROVE  TypeOK' /\ StaleStreamIsTold'
<1>1. PICK matching \in SUBSET {f \in Fingerprints : events[f] = "unread"} :
        Change(p, [f \in Fingerprints |-> IF f \in matching THEN "read" ELSE events[f]])
  BY DEF MarkAllSystemEventsRead
<1> DEFINE table == [f \in Fingerprints |-> IF f \in matching THEN "read" ELSE events[f]]
<1>2. table \in [Fingerprints -> Statuses \cup {"absent"}]
  BY DEF TypeOK, Statuses
<1> QED
  BY <1>1, <1>2, ChangeStep

-----------------------------------------------------------------------------
(* The notification. *)

LEMMA CopyStep ==
  ASSUME TypeOK, StaleStreamIsTold, NEW p \in Publishers, CopySubscribers(p)
  PROVE  TypeOK' /\ StaleStreamIsTold'
<1>1. UNCHANGED <<events, stream, channel, summary, eventSubs, up, unheard>>
  BY DEF CopySubscribers, streamVars
<1>2. Unread' = Unread
  BY <1>1 DEF Unread
<1>3. CASE eventSubs = {}
  <2>1. pub' = [pub EXCEPT ![p] = [pc |-> "idle", to |-> {}]]
    BY <1>3 DEF CopySubscribers, Quiet
  <2>2. TypeOK'
    BY <1>1, <2>1 DEF TypeOK, PubPC
  <2>3. \A s \in Streams : stream'[s] # "waiting"
    BY <1>1, <1>3 DEF TypeOK
  <2> QED
    BY <2>2, <2>3 DEF StaleStreamIsTold
<1>4. CASE eventSubs # {}
  <2>1. pub' = [pub EXCEPT ![p] = [pc |-> "sending", to |-> eventSubs]]
    BY <1>4 DEF CopySubscribers
  <2>2. TypeOK'
    BY <1>1, <1>4, <2>1 DEF TypeOK, PubPC
  <2>3. \A s \in Streams : stream'[s] = "waiting" => s \in pub'[p].to
    BY <1>1, <2>1 DEF TypeOK
  <2> QED
    BY <2>2, <2>3 DEF StaleStreamIsTold, NoticeComes
<1> QED
  BY <1>3, <1>4

LEMMA NobodyStep ==
  ASSUME TypeOK, StaleStreamIsTold, NEW p \in Publishers, NobodyIsTold(p)
  PROVE  TypeOK' /\ StaleStreamIsTold'
<1>1. /\ pub' = [pub EXCEPT ![p] = [pc |-> "idle", to |-> {}]]
      /\ unheard' = unheard \cup eventSubs
      /\ UNCHANGED <<events, stream, channel, summary, eventSubs, up>>
  BY DEF NobodyIsTold, Quiet, streamVars
<1>2. TypeOK'
  BY <1>1 DEF TypeOK, PubPC
<1>3. \A s \in Streams : stream'[s] = "waiting" => s \in unheard'
  BY <1>1 DEF TypeOK
<1> QED
  BY <1>2, <1>3 DEF StaleStreamIsTold

LEMMA SendStep ==
  ASSUME TypeOK, StaleStreamIsTold, NEW p \in Publishers, NEW s \in Streams, Send(p, s)
  PROVE  TypeOK' /\ StaleStreamIsTold'
<1>1. /\ pub[p].pc = "sending" /\ s \in pub[p].to
      /\ channel' = [channel EXCEPT ![s] = IF @ < Buffer THEN @ + 1 ELSE @]
      /\ pub' = [pub EXCEPT ![p] = IF pub[p].to = {s} THEN [pc |-> "idle", to |-> {}]
                                   ELSE [pub[p] EXCEPT !.to = @ \ {s}]]
      /\ UNCHANGED <<events, stream, summary, eventSubs, up, unheard>>
  BY DEF Send, Deliver, AfterSend, Quiet
<1>2. Unread' = Unread
  BY <1>1 DEF Unread
<1>3. channel' \in [Streams -> 0 .. Buffer]
  BY <1>1, FeedAssumption DEF TypeOK, FeedAssumption
<1>4. channel'[s] > 0
  BY <1>1, FeedAssumption DEF TypeOK, FeedAssumption
<1>5. \A r \in Streams : channel[r] > 0 => channel'[r] > 0
  BY <1>1, FeedAssumption DEF TypeOK, FeedAssumption
<1>6. pub' \in [Publishers -> [pc : PubPC, to : SUBSET Streams]]
  BY <1>1 DEF TypeOK, PubPC
<1>7. \A q \in Publishers : pub'[q].pc = "sending" <=> pub'[q].to # {}
  BY <1>1 DEF TypeOK
<1>8. TypeOK'
  BY <1>1, <1>3, <1>6, <1>7 DEF TypeOK
<1>9. \A q \in Publishers : /\ pub[q].pc = "changed" => pub'[q].pc = "changed"
                            /\ \A r \in pub[q].to \ {s} : r \in pub'[q].to
  BY <1>1 DEF TypeOK
<1>10. StaleStreamIsTold'
  <2> SUFFICES ASSUME NEW r \in Streams, stream'[r] = "waiting", summary'[r] # Unread'
               PROVE  NoticeComes(r)' \/ r \in unheard'
    BY DEF StaleStreamIsTold
  <2>1. NoticeComes(r) \/ r \in unheard
    BY <1>1, <1>2 DEF StaleStreamIsTold
  <2>2. CASE r = s
    BY <2>2, <1>4 DEF NoticeComes
  <2>3. CASE r # s /\ NoticeComes(r)
    BY <2>3, <1>5, <1>9 DEF NoticeComes
  <2>4. CASE r \in unheard
    BY <2>4, <1>1
  <2> QED
    BY <2>1, <2>2, <2>3, <2>4
<1> QED
  BY <1>8, <1>10

LEMMA PanicStep ==
  ASSUME TypeOK, StaleStreamIsTold, NEW p \in Publishers, NEW s \in Streams, SendPanics(p, s)
  PROVE  TypeOK' /\ StaleStreamIsTold'
<1>1. /\ pub' = [pub EXCEPT ![p] = [pc |-> "panicked", to |-> {}]]
      /\ up' \in BOOLEAN
      /\ unheard' = unheard \cup (pub[p].to \cap eventSubs)
      /\ UNCHANGED <<events, stream, channel, summary, eventSubs>>
  BY DEF SendPanics, streamVars
<1>2. TypeOK'
  BY <1>1 DEF TypeOK, PubPC
<1>3. Unread' = Unread
  BY <1>1 DEF Unread
<1>4. \A q \in Publishers \ {p} : pub'[q] = pub[q]
  BY <1>1 DEF TypeOK
<1>5. \A r \in Streams : stream[r] = "waiting" /\ r \in pub[p].to => r \in unheard'
  BY <1>1 DEF TypeOK
<1>6. pub[p].pc # "changed"
  BY DEF SendPanics
<1>7. StaleStreamIsTold'
  <2> SUFFICES ASSUME NEW r \in Streams, stream'[r] = "waiting", summary'[r] # Unread'
               PROVE  NoticeComes(r)' \/ r \in unheard'
    BY DEF StaleStreamIsTold
  <2>1. NoticeComes(r) \/ r \in unheard
    BY <1>1, <1>3 DEF StaleStreamIsTold
  <2> QED
    BY <2>1, <1>1, <1>4, <1>5, <1>6 DEF NoticeComes
<1> QED
  BY <1>2, <1>7

-----------------------------------------------------------------------------
(* The streams. *)

LEMMA SubscribeStep ==
  ASSUME TypeOK, StaleStreamIsTold, NEW s \in Streams, SubscribeSystemEvents(s)
  PROVE  TypeOK' /\ StaleStreamIsTold'
<1>1. /\ stream' = [stream EXCEPT ![s] = "subscribed"]
      /\ eventSubs' = eventSubs \cup {s}
      /\ UNCHANGED <<events, pub, channel, summary, up, unheard>>
  BY DEF SubscribeSystemEvents
<1>2. TypeOK'
  BY <1>1 DEF TypeOK, StreamPC
<1>3. Unread' = Unread
  BY <1>1 DEF Unread
<1>4. StaleStreamIsTold'
  BY <1>1, <1>3 DEF TypeOK, StaleStreamIsTold, NoticeComes
<1> QED
  BY <1>2, <1>4

LEMMA SummaryStep ==
  ASSUME TypeOK, StaleStreamIsTold, NEW s \in Streams, WriteSummary(s)
  PROVE  TypeOK' /\ StaleStreamIsTold'
<1>1. /\ stream[s] \in {"subscribed", "notified"}
      /\ stream' = [stream EXCEPT ![s] = "waiting"]
      /\ summary' = [summary EXCEPT ![s] = Unread]
      /\ unheard' = unheard \ {s}
      /\ UNCHANGED <<events, pub, channel, eventSubs, up>>
  BY DEF WriteSummary
<1>2. TypeOK'
  BY <1>1, UnreadRange DEF TypeOK, StreamPC
<1>3. Unread' = Unread
  BY <1>1 DEF Unread
<1>4. StaleStreamIsTold'
  BY <1>1, <1>3 DEF TypeOK, StaleStreamIsTold, NoticeComes
<1> QED
  BY <1>2, <1>4

LEMMA ErrorStep ==
  ASSUME TypeOK, StaleStreamIsTold, NEW s \in Streams, WriteError(s)
  PROVE  TypeOK' /\ StaleStreamIsTold'
<1>1. /\ stream[s] \in {"subscribed", "notified"}
      /\ stream' = [stream EXCEPT ![s] = "waiting"]
      /\ unheard' = unheard \cup {s}
      /\ UNCHANGED <<events, pub, channel, summary, eventSubs, up>>
  BY DEF WriteError
<1>2. TypeOK'
  BY <1>1 DEF TypeOK, StreamPC
<1>3. Unread' = Unread
  BY <1>1 DEF Unread
<1>4. StaleStreamIsTold'
  BY <1>1, <1>3 DEF TypeOK, StaleStreamIsTold, NoticeComes
<1> QED
  BY <1>2, <1>4

LEMMA ReceiveStep ==
  ASSUME TypeOK, StaleStreamIsTold, NEW s \in Streams, Receive(s)
  PROVE  TypeOK' /\ StaleStreamIsTold'
<1>1. /\ stream[s] = "waiting" /\ channel[s] > 0
      /\ stream' = [stream EXCEPT ![s] = "notified"]
      /\ channel' = [channel EXCEPT ![s] = @ - 1]
      /\ UNCHANGED <<events, pub, summary, eventSubs, up, unheard>>
  BY DEF Receive
<1>2. channel' \in [Streams -> 0 .. Buffer]
  BY <1>1, FeedAssumption DEF TypeOK, FeedAssumption
<1>3. TypeOK'
  BY <1>1, <1>2 DEF TypeOK, StreamPC
<1>4. Unread' = Unread
  BY <1>1 DEF Unread
<1>5. StaleStreamIsTold'
  BY <1>1, <1>4 DEF TypeOK, StaleStreamIsTold, NoticeComes
<1> QED
  BY <1>3, <1>5

LEMMA UnsubscribeStep ==
  ASSUME TypeOK, StaleStreamIsTold, NEW s \in Streams, Unsubscribe(s)
  PROVE  TypeOK' /\ StaleStreamIsTold'
<1>1. /\ stream' = [stream EXCEPT ![s] = "closed"]
      /\ eventSubs' = eventSubs \ {s} /\ unheard' = unheard \ {s}
      /\ channel' = [channel EXCEPT ![s] = 0] /\ summary' = [summary EXCEPT ![s] = NoSummary]
      /\ UNCHANGED <<events, pub, up>>
  BY DEF Unsubscribe
<1>2. TypeOK'
  BY <1>1, FeedAssumption DEF TypeOK, StreamPC, FeedAssumption
<1>3. Unread' = Unread
  BY <1>1 DEF Unread
<1>4. StaleStreamIsTold'
  BY <1>1, <1>3 DEF TypeOK, StaleStreamIsTold, NoticeComes
<1> QED
  BY <1>2, <1>4

-----------------------------------------------------------------------------
LEMMA FeedInitially == Init => TypeOK /\ StaleStreamIsTold
<1> SUFFICES ASSUME Init PROVE TypeOK /\ StaleStreamIsTold
  OBVIOUS
<1>1. Cardinality(Fingerprints) \in Nat
  BY FeedAssumption, FS_CardinalityType DEF FeedAssumption
<1>2. TypeOK
  BY <1>1, FeedAssumption DEF Init, TypeOK, Quiet, NoSummary, PubPC, StreamPC, FeedAssumption
<1>3. StaleStreamIsTold
  BY DEF Init, StaleStreamIsTold
<1> QED
  BY <1>2, <1>3

LEMMA FeedKept ==
  TypeOK /\ StaleStreamIsTold /\ [Next]_vars => TypeOK' /\ StaleStreamIsTold'
<1> SUFFICES ASSUME TypeOK, StaleStreamIsTold, [Next]_vars
             PROVE  TypeOK' /\ StaleStreamIsTold'
  OBVIOUS
<1>1. CASE UNCHANGED vars
  <2>1. UNCHANGED <<events, pub, stream, channel, summary, eventSubs, up, unheard>>
    BY <1>1 DEF vars
  <2>2. Unread' = Unread
    BY <2>1 DEF Unread
  <2>3. TypeOK'
    BY <2>1 DEF TypeOK
  <2>4. StaleStreamIsTold'
    BY <2>1, <2>2 DEF StaleStreamIsTold, NoticeComes
  <2> QED
    BY <2>3, <2>4
<1>2. ASSUME NEW p \in Publishers, NEW f \in Fingerprints,
             \/ UpsertSystemEvent(p, f) \/ MarkSystemEventRead(p, f)
             \/ ResolveSystemEvent(p, f) \/ IgnoreSystemEvent(p, f)
      PROVE  TypeOK' /\ StaleStreamIsTold'
  BY <1>2, UpsertStep, ReadStep, ResolveStep, IgnoreStep
<1>3. ASSUME NEW p \in Publishers, MarkAllSystemEventsRead(p)
      PROVE  TypeOK' /\ StaleStreamIsTold'
  BY <1>3, MarkAllStep
<1>4. ASSUME NEW p \in Publishers, Publish(p)
      PROVE  TypeOK' /\ StaleStreamIsTold'
  BY <1>4, CopyStep, NobodyStep, SendStep, PanicStep DEF Publish
<1>5. ASSUME NEW s \in Streams,
             SubscribeSystemEvents(s) \/ Answer(s) \/ Receive(s) \/ Unsubscribe(s)
      PROVE  TypeOK' /\ StaleStreamIsTold'
  BY <1>5, SubscribeStep, SummaryStep, ErrorStep, ReceiveStep, UnsubscribeStep DEF Answer
<1> QED
  BY <1>1, <1>2, <1>3, <1>4, <1>5 DEF Next

(* Channels hold at most Buffer notices and the subscribers are exactly    *)
(* the streams that have not left.                                         *)
THEOREM FeedTypeOK == Spec => []TypeOK
<1> QED
  BY FeedInitially, FeedKept, PTL DEF Spec

(* No stream waits with an old summary and no notice coming, whatever the  *)
(* channels drop and however publishers overtake each other, unless a      *)
(* failed read or a panic lost it a notice since that summary.             *)
THEOREM FeedTells == Spec => []StaleStreamIsTold
<1> QED
  BY FeedInitially, FeedKept, PTL DEF Spec
=============================================================================

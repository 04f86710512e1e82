----------------------------- MODULE EventStream -----------------------------
(***************************************************************************)
(* The decision ledger and its live stream: the ring of eventLedger, the   *)
(* turn-taking of observability.publish, the bounded queues of sseHub      *)
(* (src/observability.go), and the handler of GET /api/events, serveSSE    *)
(* (src/admin.go).                                                         *)
(*                                                                         *)
(* Publishers are the request, prober and transition goroutines; a session *)
(* is one event-stream connection, which serveSSE serves once.  An event   *)
(* is its sequence number.                                                 *)
(***************************************************************************)
EXTENDS Naturals, Sequences, FiniteSets

CONSTANTS Publishers,
          Sessions,
          LedgerCapacity,
          MaxSubscribers,
          SubscriberQueue,
          Cursors,          \* the Last-Event-IDs clients come with, 0 for none
          MaxEvents         \* bound: events published in one behaviour

ASSUME StreamAssumption ==
  /\ LedgerCapacity \in Nat \ {0}
  /\ MaxSubscribers \in Nat \ {0}
  /\ SubscriberQueue \in Nat \ {0}
  /\ Cursors \subseteq Nat
  /\ MaxEvents \in Nat

VARIABLES ledger,        \* entries, start, count, sequence
          nextDelivery,  \* the event whose turn it is to be delivered
          publisher,     \* pc, event, and the queues still to be offered it
          registered,    \* hub.subscribers
          hubClosed,
          retiring,      \* done channels hub.close has yet to close
          queue,         \* each session's buffered channel
          done,          \* each session's done channel is closed
          session,       \* pc, cursor, replay (a snapshot), lastSent
          sent,          \* history: the events each session has written
          lost           \* history: the events each queue had no room for

vars == <<ledger, nextDelivery, publisher, registered, hubClosed, retiring,
          queue, done, session, sent, lost>>
hub == <<registered, hubClosed, retiring>>
channels == <<queue, done>>
history == <<sent, lost>>

Slots == 0 .. LedgerCapacity - 1

\* The events of a snapshot are given as their positions in what the ledger
\* kept; replayed ones are taken out.
Snapshots == [oldest : Nat, latest : Nat, gap : BOOLEAN, kept : Seq(Nat), events : SUBSET Nat]

NoSnapshot == [oldest |-> 0, latest |-> 0, gap |-> FALSE, kept |-> <<>>, events |-> {}]

\* Sequence numbers are numbers, and every goroutine is at one of its steps.
TypeOK ==
  /\ ledger \in [entries : [Slots -> Nat], start : Slots,
                 count : 0 .. LedgerCapacity, sequence : Nat]
  /\ nextDelivery \in Nat \ {0}
  /\ publisher \in [Publishers ->
       [pc : {"idle", "waiting", "sending"}, event : Nat, queues : SUBSET Sessions]]
  /\ registered \subseteq Sessions
  /\ hubClosed \in BOOLEAN
  /\ retiring \subseteq Sessions
  /\ queue \in [Sessions -> Seq(Nat)]
  /\ done \in [Sessions -> BOOLEAN]
  /\ session \in [Sessions ->
       [pc : {"new", "subscribed", "snapshot", "replaying", "streaming",
              "leaving", "closing", "left"},
        cursor : Nat, replay : Snapshots, lastSent : Nat]]
  /\ sent \in [Sessions -> Seq(Nat)]
  /\ lost \in [Sessions -> SUBSET Nat]

Init ==
  /\ ledger = [entries |-> [i \in Slots |-> 0], start |-> 0, count |-> 0, sequence |-> 0]
  /\ nextDelivery = 1
  /\ publisher = [p \in Publishers |-> [pc |-> "idle", event |-> 0, queues |-> {}]]
  /\ registered = {} /\ hubClosed = FALSE /\ retiring = {}
  /\ queue = [c \in Sessions |-> <<>>]
  /\ done = [c \in Sessions |-> FALSE]
  /\ session = [c \in Sessions |->
       [pc |-> "new", cursor |-> 0, replay |-> NoSnapshot, lastSent |-> 0]]
  /\ sent = [c \in Sessions |-> <<>>]
  /\ lost = [c \in Sessions |-> {}]

-----------------------------------------------------------------------------
(* The ledger                                                              *)

\* Mutant: the oldest entry is overwritten but remains the start of the ring.
AppendInPlace(l) ==
  LET s == l.sequence + 1
  IN IF l.count < LedgerCapacity
     THEN [l EXCEPT !.sequence = s, !.count = @ + 1,
                    !.entries[(l.start + l.count) % LedgerCapacity] = s]
     ELSE [l EXCEPT !.sequence = s, !.entries[l.start] = s]

\* eventLedger.append.
append(l) ==
  LET s == l.sequence + 1
  IN IF l.count < LedgerCapacity
     THEN [l EXCEPT !.sequence = s, !.count = @ + 1,
                    !.entries[(l.start + l.count) % LedgerCapacity] = s]
     ELSE [l EXCEPT !.sequence = s, !.entries[l.start] = s,
                    !.start = (@ + 1) % LedgerCapacity]

\* The entries the ledger holds, oldest first.
Retained(l) == [i \in 1 .. l.count |-> l.entries[(l.start + i - 1) % LedgerCapacity]]

snapshotSince(l, after) ==
  IF l.count = 0
  THEN NoSnapshot
  ELSE LET kept == Retained(l)
           oldest == kept[1]
           latest == kept[l.count]
           future == after > latest
           effectiveAfter == IF future THEN oldest - 1 ELSE after
       IN [oldest |-> oldest, latest |-> latest,
           gap |-> future \/ (after # 0 /\ oldest > 1 /\ after < oldest - 1),
           kept |-> kept, events |-> {i \in 1 .. l.count : kept[i] > effectiveAfter}]

-----------------------------------------------------------------------------
(* observability.publish                                                   *)

PublisherStep(p, pc) == publisher' = [publisher EXCEPT ![p].pc = pc]

AppendEvent(p) ==
  /\ publisher[p].pc = "idle"
  /\ ledger.sequence < MaxEvents
  /\ ledger' = append(ledger)
  /\ publisher' = [publisher EXCEPT
       ![p] = [pc |-> "waiting", event |-> ledger'.sequence, queues |-> {}]]
  /\ UNCHANGED <<nextDelivery, hub, channels, session, history>>

MyTurn(p) == publisher[p].event = nextDelivery

\* Under hub.mu: the queues registered now are the ones offered the event.
CollectQueues(p) ==
  /\ publisher[p].pc = "waiting"
  /\ MyTurn(p)
  /\ publisher' = [publisher EXCEPT ![p].pc = "sending", ![p].queues = registered]
  /\ UNCHANGED <<ledger, nextDelivery, hub, channels, session, history>>

\* Mutant: the send waits for room.
BlockingSend(p, c) ==
  /\ publisher[p].pc = "sending"
  /\ c \in publisher[p].queues
  /\ publisher' = [publisher EXCEPT ![p].queues = @ \ {c}]
  /\ Len(queue[c]) < SubscriberQueue
  /\ queue' = [queue EXCEPT ![c] = Append(@, publisher[p].event)]
  /\ UNCHANGED <<ledger, nextDelivery, hub, done, session, history>>

Offer(p, c) ==
  /\ publisher[p].pc = "sending"
  /\ c \in publisher[p].queues
  /\ publisher' = [publisher EXCEPT ![p].queues = @ \ {c}]
  /\ \/ /\ Len(queue[c]) < SubscriberQueue
        /\ queue' = [queue EXCEPT ![c] = Append(@, publisher[p].event)]
        /\ UNCHANGED lost
     \/ /\ Len(queue[c]) >= SubscriberQueue
        /\ lost' = [lost EXCEPT ![c] = @ \cup {publisher[p].event}]
        /\ UNCHANGED queue
  /\ UNCHANGED <<ledger, nextDelivery, hub, done, session, sent>>

PassTurn(p) ==
  /\ publisher[p].pc = "sending"
  /\ publisher[p].queues = {}
  /\ nextDelivery' = nextDelivery + 1
  /\ PublisherStep(p, "idle")
  /\ UNCHANGED <<ledger, hub, channels, session, history>>

-----------------------------------------------------------------------------
(* serveSSE                                                                *)

SessionStep(c, pc) == session' = [session EXCEPT ![c].pc = pc]

RoomForSubscriber == Cardinality(registered) < MaxSubscribers

\* hub.subscribe, for a client whose Last-Event-ID was parsed.
Subscribe(c) ==
  /\ session[c].pc = "new"
  /\ ~ hubClosed /\ RoomForSubscriber
  /\ registered' = registered \cup {c}
  /\ \E after \in Cursors :
       session' = [session EXCEPT ![c].pc = "subscribed", ![c].cursor = after]
  /\ UNCHANGED <<ledger, nextDelivery, publisher, hubClosed, retiring, channels, history>>

\* A 503 response.
Refused(c) ==
  /\ session[c].pc = "new"
  /\ hubClosed \/ ~ RoomForSubscriber
  /\ SessionStep(c, "left")
  /\ UNCHANGED <<ledger, nextDelivery, publisher, hub, channels, history>>

TakeSnapshot(c) ==
  /\ session[c].pc = "subscribed"
  /\ session' = [session EXCEPT
       ![c].pc = "snapshot", ![c].replay = snapshotSince(ledger, session[c].cursor)]
  /\ UNCHANGED <<ledger, nextDelivery, publisher, hub, channels, history>>

\* Mutant: the cursor of the future is kept after its gap was announced.
KeepFutureCursor(after, replay) == after

ResumeAfter(after, replay) ==
  IF replay.gap /\ after > replay.latest THEN replay.oldest - 1 ELSE after

\* The response head and, for replay.gap, the gap event are written.
Announce(c) ==
  /\ session[c].pc = "snapshot"
  /\ session' = [session EXCEPT
       ![c].pc = "replaying",
       ![c].lastSent = ResumeAfter(session[c].cursor, session[c].replay)]
  /\ UNCHANGED <<ledger, nextDelivery, publisher, hub, channels, history>>

\* Mutant: whatever is received is written.
WriteAlways(c, locals, event) ==
  /\ sent' = [sent EXCEPT ![c] = Append(@, event)]
  /\ session' = [session EXCEPT ![c] = [locals EXCEPT !.lastSent = event]]

\* writeSSEEvent, unless the event was written before; locals are the session's
\* but for lastSent.
WriteNew(c, locals, event) ==
  IF event <= session[c].lastSent
  THEN session' = [session EXCEPT ![c] = locals] /\ UNCHANGED sent
  ELSE /\ sent' = [sent EXCEPT ![c] = Append(@, event)]
       /\ session' = [session EXCEPT ![c] = [locals EXCEPT !.lastSent = event]]

\* One turn of the loop over replay.Events, oldest first.
ReplayNext(c) ==
  /\ session[c].pc = "replaying"
  /\ \E i \in session[c].replay.events :
       /\ \A j \in session[c].replay.events : i <= j
       /\ WriteNew(c, [session[c] EXCEPT !.replay.events = @ \ {i}], session[c].replay.kept[i])
  /\ UNCHANGED <<ledger, nextDelivery, publisher, hub, channels, lost>>

ReplayEnds(c) ==
  /\ session[c].pc = "replaying" /\ session[c].replay.events = {}
  /\ SessionStep(c, "streaming")
  /\ UNCHANGED <<ledger, nextDelivery, publisher, hub, channels, history>>

Receive(c) ==
  /\ session[c].pc = "streaming"
  /\ queue[c] # <<>>
  /\ queue' = [queue EXCEPT ![c] = Tail(@)]
  /\ WriteNew(c, session[c], Head(queue[c]))
  /\ UNCHANGED <<ledger, nextDelivery, publisher, hub, done, lost>>

SeeDone(c) ==
  /\ session[c].pc = "streaming"
  /\ done[c]
  /\ SessionStep(c, "leaving")
  /\ UNCHANGED <<ledger, nextDelivery, publisher, hub, channels, history>>

\* The client is gone (a write or a heartbeat fails), or the server stops.
GiveUp(c) ==
  /\ session[c].pc \in {"snapshot", "replaying", "streaming"}
  /\ SessionStep(c, "leaving")
  /\ UNCHANGED <<ledger, nextDelivery, publisher, hub, channels, history>>

\* The deferred hub.unsubscribe.
Unsubscribe(c) ==
  /\ session[c].pc = "leaving"
  /\ registered' = registered \ {c}
  /\ SessionStep(c, IF c \in registered THEN "closing" ELSE "left")
  /\ UNCHANGED <<ledger, nextDelivery, publisher, hubClosed, retiring, channels, history>>

CloseOwnDone(c) ==
  /\ session[c].pc = "closing"
  /\ done' = [done EXCEPT ![c] = TRUE]
  /\ SessionStep(c, "left")
  /\ UNCHANGED <<ledger, nextDelivery, publisher, hub, queue, history>>

-----------------------------------------------------------------------------
(* hub.close                                                               *)

\* Mutant: the subscribers are forgotten without being told.
CloseHubSilently ==
  /\ ~ hubClosed
  /\ hubClosed' = TRUE
  /\ registered' = {}
  /\ UNCHANGED <<ledger, nextDelivery, publisher, retiring, channels, session, history>>

CloseHub ==
  /\ ~ hubClosed
  /\ hubClosed' = TRUE
  /\ retiring' = registered
  /\ registered' = {}
  /\ UNCHANGED <<ledger, nextDelivery, publisher, channels, session, history>>

CloseDone(c) ==
  /\ c \in retiring
  /\ retiring' = retiring \ {c}
  /\ done' = [done EXCEPT ![c] = TRUE]
  /\ UNCHANGED <<ledger, nextDelivery, publisher, registered, hubClosed, queue, session, history>>

-----------------------------------------------------------------------------
Delivering(p) ==
  CollectQueues(p) \/ (\E c \in Sessions : Offer(p, c)) \/ PassTurn(p)

Serving(c) ==
  \/ TakeSnapshot(c) \/ Announce(c) \/ ReplayNext(c) \/ ReplayEnds(c)
  \/ SeeDone(c) \/ Unsubscribe(c) \/ CloseOwnDone(c)

Next ==
  \/ \E p \in Publishers : AppendEvent(p) \/ Delivering(p)
  \/ \E c \in Sessions : Subscribe(c) \/ Refused(c) \/ Serving(c) \/ Receive(c) \/ GiveUp(c) \/ CloseDone(c)
  \/ CloseHub

Spec == Init /\ [][Next]_vars

\* A publisher that has appended is not descheduled for ever, every write of a
\* session returns (it has a deadline), and hub.close completes once called.
\* That a session ever receives from its queue is not assumed: a client may be
\* slow, and select may prefer the done channel.
FairSpec ==
  /\ Spec
  /\ \A p \in Publishers : WF_vars(Delivering(p))
  /\ \A c \in Sessions : WF_vars(Serving(c)) /\ WF_vars(CloseDone(c))

-----------------------------------------------------------------------------
Range(s) == {s[i] : i \in DOMAIN s}

Increasing(s) == \A i, j \in DOMAIN s : i < j => s[i] < s[j]

\* The ring holds the latest events, all of them, oldest first: wrapping around
\* neither reorders nor skips an event.
LedgerContiguous ==
  /\ ledger.count = IF ledger.sequence < LedgerCapacity THEN ledger.sequence ELSE LedgerCapacity
  /\ \A i \in 1 .. ledger.count :
       Retained(ledger)[i] = ledger.sequence - ledger.count + i

\* However publishers race between append and publish, a stream shows each
\* event at most once and in the order of the ledger, replayed events and
\* queued ones together.
StreamInOrder == \A c \in Sessions : Increasing(sent[c]) /\ Increasing(queue[c])

\* What session c need not be sent: the events before the oldest one in the
\* ledger when it was told of a gap or had no cursor, and the events up to its
\* cursor, if these had been published when it came.
Excused(c) ==
  LET s == session[c]
  IN {e \in 1 .. ledger.sequence :
        \/ (s.replay.gap \/ s.cursor = 0) /\ e < s.replay.oldest
        \/ e <= s.cursor /\ s.cursor <= s.replay.latest}

\* Where event e is, if session c has not been kept from it without a word.
Accounted(c, e) == e \in Excused(c) \cup Range(sent[c]) \cup Range(queue[c]) \cup lost[c]

Live(c) == session[c].pc = "streaming" /\ c \in registered

\* What README.md says, "future/expired cursor gaps": a client that comes with
\* the cursor of an event yet to be published is told of a gap, and is sent that
\* event and those before it as they are published.
NothingSkipped == \A c \in Sessions : Live(c) => \A e \in 1 .. nextDelivery - 1 : Accounted(c, e)

\* What serveSSE withholds all the same: an empty ledger tells of no gap, and
\* the events up to the cursor are taken for known (NothingSkipped fails there).
Withheld(c) == IF session[c].replay.latest = 0 THEN 1 .. session[c].cursor ELSE {}

\* An event that was delivered reaches every stream it is owed to, or was
\* counted as dropped, until the hub closes: no event falls between the replay
\* and the live queue, whatever is published while the session subscribes, and
\* none behind a cursor of the future unless the ledger was empty.
NoSilentLoss ==
  \A c \in Sessions : Live(c) =>
    \A e \in 1 .. nextDelivery - 1 : e \in Withheld(c) \/ Accounted(c, e)

\* A done channel is closed once (a second close would panic), although both
\* the session's unsubscribe and hub.close may want to.
DoneClosedOnce ==
  \A c \in Sessions :
    /\ ~ (c \in retiring /\ session[c].pc = "closing")
    /\ c \in retiring \cup registered \/ session[c].pc = "closing" => ~ done[c]

\* What appending, subscribing and closing must keep together: slots stay in the
\* ring, the ring is contiguous, and no channel is closed twice.
HubInv == TypeOK /\ LedgerContiguous /\ DoneClosedOnce

\* A publisher never waits for a client: every published event has its turn,
\* even if no session ever receives again.
PublishersReturn == \A p \in Publishers : publisher[p].pc # "idle" ~> publisher[p].pc = "idle"

\* After hub.close every stream ends.
StreamsEnd == hubClosed ~> (\A c \in Sessions : session[c].pc \in {"new", "left"})
=============================================================================

-------------------------- MODULE EventStreamProofs --------------------------
(***************************************************************************)
(* Proofs about EventStream: the ring of the ledger stays contiguous and   *)
(* no channel is closed twice, every stream is in order, and no event      *)
(* falls between a session's replay and its live queue, for any number of  *)
(* publishers, sessions and events and any capacities.                     *)
(*                                                                         *)
(* The inductive invariant says, beside the three properties: whose turn   *)
(* it is (Turns), how far each queue has got (Queues), what a session has  *)
(* written and what its snapshot holds (Stream), and where every event up  *)
(* to the one being delivered is (Covers).                                 *)
(***************************************************************************)
EXTENDS EventStream, TLAPS

SessionRecords ==
  [pc : {"new", "subscribed", "snapshot", "replaying", "streaming",
         "leaving", "closing", "left"},
   cursor : Nat, replay : Snapshots, lastSent : Nat]

\* Until the ring is full it starts at its first slot.
Ring == LedgerContiguous /\ (ledger.count < LedgerCapacity => ledger.start = 0)

\* A done channel is open while someone may still close it, and only the hub or
\* the session may.
Channels ==
  /\ hubClosed => registered = {}
  /\ ~ hubClosed => retiring = {}
  /\ \A c \in Sessions :
       /\ c \in registered => session[c].pc \notin {"new", "closing", "left"}
       /\ c \in retiring => session[c].pc \notin {"new", "closing"}
       /\ done[c] => c \notin registered \cup retiring /\ session[c].pc \notin {"new", "closing"}

\* Events between the one to be delivered and the last appended belong to one
\* publisher each, and only the event to be delivered is being sent.
Turns ==
  /\ nextDelivery <= ledger.sequence + 1
  /\ \A p \in Publishers : publisher[p].pc # "idle" =>
       /\ nextDelivery <= publisher[p].event
       /\ publisher[p].event <= ledger.sequence
       /\ publisher[p].pc = "sending" => publisher[p].event = nextDelivery
       /\ \A q \in Publishers :
            publisher[q].pc # "idle" /\ publisher[q].event = publisher[p].event => q = p

\* The event being delivered has been offered to c, or c was not there to be
\* offered it.
Passed(c) == \E p \in Publishers : publisher[p].pc = "sending" /\ c \notin publisher[p].queues

\* A queue holds events in order, the one being delivered only if it was offered.
Queues ==
  \A c \in Sessions :
    /\ Increasing(queue[c])
    /\ \A e \in Range(queue[c]) : e <= nextDelivery /\ (e = nextDelivery => Passed(c))

\* What a session's snapshot holds.
SnapshotSound(r) ==
  /\ r.events \subseteq DOMAIN r.kept
  /\ Increasing(r.kept)
  /\ \A e \in Range(r.kept) : e <= r.latest
  /\ r.gap => r.oldest # 0

\* What a session has written is in order and not after lastSent.
Wrote(s, w) ==
  /\ Increasing(w)
  /\ s.pc \in {"new", "subscribed", "snapshot"} => w = <<>>
  /\ \A e \in Range(w) : e <= s.lastSent

\* s need not be sent e: Excused or Withheld, for events yet to come too.
Exempt(s, e) ==
  \/ (s.replay.gap \/ s.cursor = 0) /\ e < s.replay.oldest
  \/ e <= s.cursor /\ (s.cursor <= s.replay.latest \/ s.replay.latest = 0)

\* e is settled for a session s that wrote w and whose queue had no room for l.
Settled(s, w, l, e) == Exempt(s, e) \/ e \in Range(w) \/ e \in l

\* e is in the replay of s, in its queue q, or settled.
Arrived(s, w, q, l, e) == e <= s.replay.latest \/ Settled(s, w, l, e) \/ e \in Range(q)

\* A cursor of the future was told of by a gap, unless the ledger was empty.
Told(s) == s.cursor > s.replay.latest => s.replay.gap \/ s.replay.latest = 0

\* Where the events before n, the one to be delivered, are.
Covers(s, w, q, l, n) ==
  /\ Told(s)
  /\ \A e \in Nat \ {0} : e <= s.replay.latest =>
       Settled(s, w, l, e) \/ \E i \in s.replay.events : e = s.replay.kept[i]
  /\ \A e \in Nat \ {0} : e < n => Arrived(s, w, q, l, e)
  /\ s.pc \in {"replaying", "streaming"} =>
       \A e \in Nat \ {0} : e <= s.lastSent => Settled(s, w, l, e)

Stream(c) ==
  /\ Wrote(session[c], sent[c])
  /\ SnapshotSound(session[c].replay)
  /\ session[c].pc = "streaming" => session[c].replay.events = {}
  /\ c \in registered /\ session[c].pc \in {"snapshot", "replaying", "streaming"} =>
       /\ Covers(session[c], sent[c], queue[c], lost[c], nextDelivery)
       /\ Passed(c) => Arrived(session[c], sent[c], queue[c], lost[c], nextDelivery)

StreamIInv ==
  TypeOK /\ Ring /\ Channels /\ Turns /\ Queues /\ \A c \in Sessions : Stream(c)

-----------------------------------------------------------------------------
(* Sequences of events                                                     *)

\* Appending a later event keeps a sequence in order and adds that event.
LEMMA AppendLater ==
  ASSUME NEW s \in Seq(Nat), NEW e \in Nat, Increasing(s), \A x \in Range(s) : x < e
  PROVE  /\ Append(s, e) \in Seq(Nat)
         /\ Increasing(Append(s, e))
         /\ Range(Append(s, e)) = Range(s) \cup {e}
<1> DEFINE t == Append(s, e)
<1>1. /\ t \in Seq(Nat) /\ Len(t) = Len(s) + 1 /\ Len(s) \in Nat
      /\ DOMAIN s = 1 .. Len(s) /\ DOMAIN t = 1 .. (Len(s) + 1)
      /\ t[Len(s) + 1] = e
  OBVIOUS
<1>2. \A i \in 1 .. Len(s) : t[i] = s[i] /\ s[i] \in Nat /\ s[i] \in Range(s)
  BY <1>1 DEF Range
<1> HIDE DEF t
<1>3. Increasing(t)
  <2> SUFFICES ASSUME NEW i \in DOMAIN t, NEW j \in DOMAIN t, i < j PROVE t[i] < t[j]
    BY DEF Increasing
  <2>1. i \in 1 .. Len(s) /\ (j \in 1 .. Len(s) \/ j = Len(s) + 1)
    BY <1>1
  <2>2. CASE j \in 1 .. Len(s)
    <3>1. s[i] < s[j]
      BY <2>1, <2>2, <1>1 DEF Increasing
    <3> QED BY <3>1, <2>1, <2>2, <1>2
  <2>3. CASE j = Len(s) + 1
    BY <2>1, <2>3, <1>1, <1>2
  <2> QED BY <2>1, <2>2, <2>3
<1>4. Range(t) = Range(s) \cup {e}
  <2>1. \A x \in Range(t) : x \in Range(s) \cup {e}
    <3> SUFFICES ASSUME NEW i \in DOMAIN t PROVE t[i] \in Range(s) \cup {e}
      BY DEF Range
    <3>1. i \in 1 .. Len(s) \/ i = Len(s) + 1
      BY <1>1
    <3> QED BY <3>1, <1>1, <1>2
  <2>2. \A x \in Range(s) : x \in Range(t)
    <3> SUFFICES ASSUME NEW i \in DOMAIN s PROVE s[i] \in Range(t)
      BY DEF Range
    <3>1. i \in DOMAIN t /\ t[i] = s[i]
      BY <1>1, <1>2
    <3> QED BY <3>1 DEF Range
  <2>3. e \in Range(t)
    <3>1. Len(s) + 1 \in DOMAIN t
      BY <1>1
    <3> QED BY <3>1, <1>1 DEF Range
  <2> QED BY <2>1, <2>2, <2>3
<1> QED BY <1>1, <1>3, <1>4 DEF t

\* Taking the first event of a sequence leaves the later ones, in order.
LEMMA TailLater ==
  ASSUME NEW s \in Seq(Nat), s # <<>>, Increasing(s)
  PROVE  /\ Tail(s) \in Seq(Nat) /\ Head(s) \in Nat
         /\ Increasing(Tail(s))
         /\ Range(s) = {Head(s)} \cup Range(Tail(s))
         /\ \A x \in Range(Tail(s)) : x \in Nat /\ Head(s) < x
<1> DEFINE t == Tail(s)
<1>1. /\ t \in Seq(Nat) /\ Len(t) = Len(s) - 1 /\ Len(s) \in Nat \ {0}
      /\ DOMAIN s = 1 .. Len(s) /\ DOMAIN t = 1 .. (Len(s) - 1)
      /\ Head(s) = s[1] /\ Head(s) \in Nat
  OBVIOUS
<1>2. \A i \in 1 .. (Len(s) - 1) : t[i] = s[i + 1] /\ i + 1 \in DOMAIN s /\ s[i + 1] \in Nat
  BY <1>1
<1> HIDE DEF t
<1>3. 1 \in DOMAIN s
  BY <1>1
<1>4. Increasing(t)
  <2> SUFFICES ASSUME NEW i \in DOMAIN t, NEW j \in DOMAIN t, i < j PROVE t[i] < t[j]
    BY DEF Increasing
  <2> i \in 1 .. (Len(s) - 1) /\ j \in 1 .. (Len(s) - 1)
    BY <1>1
  <2>1. i + 1 < j + 1 /\ i + 1 \in DOMAIN s /\ j + 1 \in DOMAIN s
    BY <1>2
  <2>2. s[i + 1] < s[j + 1]
    BY <2>1 DEF Increasing
  <2> QED BY <2>2, <1>1, <1>2
<1>5. \A i \in DOMAIN t : t[i] \in Nat /\ t[i] \in Range(s) /\ Head(s) < t[i]
  <2> TAKE i \in DOMAIN t
  <2> i \in 1 .. (Len(s) - 1)
    BY <1>1
  <2>1. 1 < i + 1 /\ i + 1 \in DOMAIN s /\ t[i] = s[i + 1] /\ s[i + 1] \in Nat
    BY <1>2
  <2>2. s[1] < s[i + 1]
    BY <2>1, <1>3 DEF Increasing
  <2> QED BY <2>1, <2>2, <1>1 DEF Range
<1>6. \A i \in DOMAIN s : s[i] = Head(s) \/ s[i] \in Range(t)
  <2> TAKE i \in DOMAIN s
  <2>1. i = 1 \/ (i - 1 \in DOMAIN t /\ t[i - 1] = s[i])
    BY <1>1, <1>2
  <2> QED BY <2>1, <1>1 DEF Range
<1>7. Head(s) \in Range(s)
  BY <1>1, <1>3 DEF Range
<1>8. Range(s) = {Head(s)} \cup Range(t)
  <2>1. \A x \in Range(s) : x \in {Head(s)} \cup Range(t)
    BY <1>6 DEF Range
  <2>2. \A x \in Range(t) : x \in Range(s)
    BY <1>5 DEF Range
  <2> QED BY <2>1, <2>2, <1>7
<1>9. \A x \in Range(t) : x \in Nat /\ Head(s) < x
  BY <1>5 DEF Range
<1> QED BY <1>1, <1>4, <1>8, <1>9 DEF t

\* Nothing is in the empty sequence.
LEMMA EmptyFacts ==
  /\ <<>> \in Seq(Nat)
  /\ Increasing(<<>>)
  /\ \A x : x \notin Range(<<>>)
BY DEF Increasing, Range

\* The members of a sequence of events are events.
LEMMA RangeIsNat == \A s \in Seq(Nat) : \A x \in Range(s) : x \in Nat
BY DEF Range

-----------------------------------------------------------------------------
(* The ring                                                                *)

\* Slots wrap around once.
LEMMA Wrap ==
  ASSUME NEW x \in Nat, x < 2 * LedgerCapacity
  PROVE  x % LedgerCapacity = IF x < LedgerCapacity THEN x ELSE x - LedgerCapacity
BY StreamAssumption, SMTT(60)

Ledgers == [entries : [Slots -> Nat], start : Slots, count : 0 .. LedgerCapacity, sequence : Nat]

\* Contiguous, of any ledger.
RingOf(l) ==
  /\ l.count = IF l.sequence < LedgerCapacity THEN l.sequence ELSE LedgerCapacity
  /\ \A i \in 1 .. l.count :
       l.entries[(l.start + i - 1) % LedgerCapacity] = l.sequence - l.count + i
  /\ l.count < LedgerCapacity => l.start = 0

\* Ring says that the ledger is such a ring.
LEMMA RingIsRingOf == Ring <=> RingOf(ledger)
BY DEF Ring, RingOf, LedgerContiguous, Retained

\* append on a ring that has room.
LEMMA AppendRoom ==
  ASSUME NEW l \in Ledgers, RingOf(l), l.count < LedgerCapacity
  PROVE  append(l) \in Ledgers /\ RingOf(append(l)) /\ append(l).sequence = l.sequence + 1
<1> LedgerCapacity \in Nat \ {0}
  BY StreamAssumption
<1>1. /\ l.count = l.sequence /\ l.start = 0 /\ l.sequence \in Nat /\ l.count \in Nat
      /\ l.entries \in [Slots -> Nat] /\ l.count + 1 \in 0 .. LedgerCapacity
      /\ l.start \in Slots
  BY DEF RingOf, Ledgers, Slots
<1>2. (l.start + l.count) % LedgerCapacity = l.count /\ l.count \in Slots
  <2>1. l.start + l.count = l.count /\ l.count < 2 * LedgerCapacity /\ l.count \in Slots
    BY <1>1 DEF Slots
  <2>2. l.count % LedgerCapacity = l.count
    BY <1>1, <2>1, Wrap
  <2> QED BY <2>1, <2>2
<1> PICK m : m = append(l)
  OBVIOUS
<1>3. m = [l EXCEPT !.sequence = l.sequence + 1, !.count = @ + 1, !.entries[l.count] = l.sequence + 1]
  BY <1>2 DEF append
<1>4. /\ m \in Ledgers
      /\ m.sequence = l.sequence + 1 /\ m.count = l.count + 1 /\ m.start = l.start
      /\ m.entries = [l.entries EXCEPT ![l.count] = l.sequence + 1]
  <2> PICK f : f = [l.entries EXCEPT ![l.count] = l.sequence + 1]
    OBVIOUS
  <2>1. f \in [Slots -> Nat]
    BY <1>1, <1>2
  <2>2. m = [entries |-> f, start |-> l.start, count |-> l.count + 1, sequence |-> l.sequence + 1]
    BY <1>2, <1>3 DEF Ledgers
  <2>3. m \in Ledgers
    BY <2>1, <2>2, <1>1, <1>2 DEF Ledgers
  <2> QED BY <2>2, <2>3
<1>5. ASSUME NEW i \in 1 .. m.count
      PROVE  m.entries[(m.start + i - 1) % LedgerCapacity] = m.sequence - m.count + i
  <2>1. i \in Nat /\ i - 1 \in Nat /\ i - 1 < LedgerCapacity /\ m.start + i - 1 = i - 1 /\ m.sequence - m.count = 0
    BY <1>1, <1>4
  <2>2. (m.start + i - 1) % LedgerCapacity = i - 1 /\ i - 1 \in Slots
    BY <2>1, Wrap DEF Slots
  <2>3. CASE i = m.count
    <3>1. i - 1 = l.count
      BY <2>3, <1>1, <1>4
    <3>2. m.entries[l.count] = l.sequence + 1
      BY <1>1, <1>2, <1>4
    <3>3. m.entries[(m.start + i - 1) % LedgerCapacity] = l.sequence + 1
      BY <3>1, <3>2, <2>2
    <3>4. m.sequence - m.count + i = l.sequence + 1
      BY <2>3, <1>1, <1>4
    <3> QED BY <3>3, <3>4
  <2>4. CASE i # m.count
    <3>1. i \in 1 .. l.count /\ i - 1 # l.count
      BY <2>4, <1>1, <1>4
    <3>2. l.entries[(l.start + i - 1) % LedgerCapacity] = l.sequence - l.count + i
      BY <3>1 DEF RingOf
    <3>3. l.entries[i - 1] = i
      BY <3>2, <2>2, <2>1, <1>1, <1>4
    <3> QED BY <3>1, <3>3, <2>1, <2>2, <1>1, <1>4
  <2> QED BY <2>3, <2>4
<1>6. /\ m.count = IF m.sequence < LedgerCapacity THEN m.sequence ELSE LedgerCapacity
      /\ m.count < LedgerCapacity => m.start = 0
  BY <1>1, <1>4
<1> QED BY <1>4, <1>5, <1>6 DEF RingOf

\* append on a full ring.
LEMMA AppendFull ==
  ASSUME NEW l \in Ledgers, RingOf(l), ~ (l.count < LedgerCapacity)
  PROVE  append(l) \in Ledgers /\ RingOf(append(l)) /\ append(l).sequence = l.sequence + 1
<1> LedgerCapacity \in Nat \ {0}
  BY StreamAssumption
<1>1. /\ l.count = LedgerCapacity /\ l.sequence \in Nat /\ l.sequence >= LedgerCapacity
      /\ l.entries \in [Slots -> Nat] /\ l.start \in Slots
      /\ l.start \in Nat /\ l.start < LedgerCapacity
  <2>1. /\ l.count \in 0 .. LedgerCapacity /\ l.sequence \in Nat
        /\ l.entries \in [Slots -> Nat] /\ l.start \in Slots
    BY DEF Ledgers
  <2>2. l.start \in Nat /\ l.start < LedgerCapacity
    BY <2>1 DEF Slots
  <2>3. l.count = LedgerCapacity
    BY <2>1
  <2>4. l.sequence >= LedgerCapacity
    BY <2>1, <2>3 DEF RingOf
  <2> QED BY <2>1, <2>2, <2>3, <2>4
<1> DEFINE next == IF l.start + 1 < LedgerCapacity THEN l.start + 1 ELSE 0
<1>2. (l.start + 1) % LedgerCapacity = next /\ next \in Slots
  <2> PICK x \in Nat : x = l.start + 1
    BY <1>1
  <2>1. x < 2 * LedgerCapacity /\ (x < LedgerCapacity \/ x - LedgerCapacity = 0)
    BY <1>1
  <2>2. x % LedgerCapacity = IF x < LedgerCapacity THEN x ELSE x - LedgerCapacity
    BY <2>1, Wrap
  <2>3. x % LedgerCapacity = next
    BY <2>1, <2>2
  <2>4. next \in Slots
    BY <1>1 DEF Slots
  <2> QED BY <2>3, <2>4
<1> PICK m : m = append(l)
  OBVIOUS
<1>3. m = [l EXCEPT !.sequence = l.sequence + 1, !.entries[l.start] = l.sequence + 1,
                    !.start = (@ + 1) % LedgerCapacity]
  BY <1>1 DEF append
<1>4. /\ m \in Ledgers
      /\ m.sequence = l.sequence + 1 /\ m.count = l.count /\ m.start = next
      /\ m.entries = [l.entries EXCEPT ![l.start] = l.sequence + 1]
  <2> PICK f : f = [l.entries EXCEPT ![l.start] = l.sequence + 1]
    OBVIOUS
  <2>1. f \in [Slots -> Nat]
    BY <1>1, <1>2
  <2>2. m = [entries |-> f, start |-> next, count |-> l.count, sequence |-> l.sequence + 1]
    BY <1>2, <1>3 DEF Ledgers
  <2> HIDE DEF next
  <2>3. m \in Ledgers
    BY <2>1, <2>2, <1>1, <1>2 DEF Ledgers
  <2> QED BY <2>2, <2>3
<1>5. ASSUME NEW i \in 1 .. m.count
      PROVE  m.entries[(m.start + i - 1) % LedgerCapacity] = m.sequence - m.count + i
  <2>1. i \in Nat /\ m.start + i - 1 \in Nat /\ m.start + i - 1 < 2 * LedgerCapacity
    BY <1>1, <1>4
  <2> PICK x \in Nat : x = m.start + i - 1
    BY <2>1
  <2>2. x % LedgerCapacity = IF x < LedgerCapacity THEN x ELSE x - LedgerCapacity
    BY <2>1, Wrap
  <2>3. CASE i = m.count
    <3>1. x % LedgerCapacity = l.start
      BY <2>2, <2>3, <1>1, <1>4
    <3> QED BY <3>1, <2>3, <1>1, <1>4
  <2>4. CASE i # m.count
    <3>1. i + 1 \in 1 .. l.count
      BY <2>4, <1>1, <1>4
    <3> PICK y \in Nat : y = l.start + (i + 1) - 1
      BY <2>1, <1>1
    <3>2. y < 2 * LedgerCapacity
      BY <3>1, <1>1
    <3>3. y % LedgerCapacity = IF y < LedgerCapacity THEN y ELSE y - LedgerCapacity
      BY <3>2, Wrap
    <3>4. x % LedgerCapacity = y % LedgerCapacity /\ x % LedgerCapacity # l.start
          /\ x % LedgerCapacity \in Slots
      <4> PICK X, Y : X = x % LedgerCapacity /\ Y = y % LedgerCapacity
        OBVIOUS
      <4>1. /\ X = IF x < LedgerCapacity THEN x ELSE x - LedgerCapacity
            /\ Y = IF y < LedgerCapacity THEN y ELSE y - LedgerCapacity
        BY <2>2, <3>3
      <4>2. /\ x = (IF l.start + 1 < LedgerCapacity THEN l.start + 1 ELSE 0) + i - 1
            /\ y = l.start + i /\ i \in 1 .. (LedgerCapacity - 1)
        BY <3>1, <2>1, <2>4, <1>1, <1>4
      <4>3. X = Y /\ X # l.start /\ X \in 0 .. LedgerCapacity - 1
        BY <4>1, <4>2, <1>1
      <4> QED BY <4>3 DEF Slots
    <3>5. l.entries[y % LedgerCapacity] = l.sequence - l.count + (i + 1)
      BY <3>1 DEF RingOf
    <3>6. m.entries[x % LedgerCapacity] = l.entries[y % LedgerCapacity]
      BY <3>4, <1>1, <1>4
    <3> QED BY <3>5, <3>6, <2>1, <1>1, <1>4
  <2> QED BY <2>3, <2>4
<1>6. /\ m.count = IF m.sequence < LedgerCapacity THEN m.sequence ELSE LedgerCapacity
      /\ m.count < LedgerCapacity => m.start = 0
  BY <1>1, <1>4
<1> QED BY <1>4, <1>5, <1>6 DEF RingOf

\* append keeps the ring.
LEMMA AppendKeepsRing ==
  ASSUME NEW l \in Ledgers, RingOf(l)
  PROVE  append(l) \in Ledgers /\ RingOf(append(l)) /\ append(l).sequence = l.sequence + 1
BY AppendRoom, AppendFull

-----------------------------------------------------------------------------
(* A session's events                                                      *)

\* What is settled stays settled when more is written or dropped.
LEMMA SettledMonotone ==
  ASSUME NEW s, NEW t, NEW w, NEW v, NEW l, NEW k,
         t.cursor = s.cursor, t.replay.gap = s.replay.gap,
         t.replay.oldest = s.replay.oldest, t.replay.latest = s.replay.latest,
         Range(w) \subseteq Range(v), l \subseteq k
  PROVE  \A e : Settled(s, w, l, e) => Settled(t, v, k, e)
BY DEF Settled, Exempt

\* A snapshot of the ledger is sound, and it covers everything appended.
LEMMA SnapshotCovers ==
  ASSUME NEW l \in Ledgers, RingOf(l), NEW after \in Nat
  PROVE  LET r == snapshotSince(l, after)
         IN /\ r \in Snapshots
            /\ SnapshotSound(r)
            /\ r.latest = l.sequence
            /\ after > r.latest => r.gap \/ r.latest = 0
            /\ \A e \in Nat \ {0} : e <= r.latest =>
                 \/ (r.gap \/ after = 0) /\ e < r.oldest
                 \/ e <= after /\ (after <= r.latest \/ r.latest = 0)
                 \/ \E i \in r.events : e = r.kept[i]
<1> LedgerCapacity \in Nat \ {0}
  BY StreamAssumption
<1> PICK r : r = snapshotSince(l, after)
  OBVIOUS
<1>1. CASE l.count = 0
  <2>1. r = NoSnapshot
    BY <1>1 DEF snapshotSince
  <2>2. /\ r.oldest = 0 /\ r.latest = 0 /\ r.gap = FALSE /\ r.kept = <<>> /\ r.events = {}
        /\ r \in Snapshots
    BY <2>1, EmptyFacts DEF NoSnapshot, Snapshots
  <2>3. l.sequence = 0
    BY <1>1 DEF RingOf, Ledgers
  <2>4. SnapshotSound(r)
    BY <2>2, EmptyFacts DEF SnapshotSound
  <2>5. \A e \in Nat \ {0} : ~ (e <= r.latest)
    BY <2>2
  <2> QED BY <2>2, <2>3, <2>4, <2>5
<1>2. CASE l.count # 0
  <2> PICK n \in Nat \ {0} : n = l.count
    BY <1>2 DEF Ledgers
  <2> PICK b \in Nat : b = l.sequence - l.count
    BY DEF RingOf, Ledgers
  <2> PICK kept : kept = Retained(l)
    OBVIOUS
  <2>1. DOMAIN kept = 1 .. n /\ \A i \in 1 .. n : kept[i] = b + i
    BY DEF Retained, RingOf
  <2>2. kept \in Seq(Nat)
    <3>1. kept = [i \in 1 .. n |-> b + i]
      BY <2>1 DEF Retained
    <3>2. \A i \in 1 .. n : b + i \in Nat
      OBVIOUS
    <3> QED BY <3>1, <3>2
  <2>3. kept[1] = b + 1 /\ kept[n] = b + n /\ l.sequence = b + n
    BY <2>1 DEF Ledgers
  <2> PICK oldest, latest, from :
        oldest = kept[1] /\ latest = kept[n] /\ from = IF after > latest THEN oldest - 1 ELSE after
    OBVIOUS
  <2> PICK gap, owed :
        /\ gap = (after > latest \/ (after # 0 /\ oldest > 1 /\ after < oldest - 1))
        /\ owed = {i \in 1 .. n : kept[i] > from}
    OBVIOUS
  <2>4. r = [oldest |-> oldest, latest |-> latest, gap |-> gap, kept |-> kept, events |-> owed]
    BY <1>2, Zenon DEF snapshotSince
  <2>5. /\ r.oldest = b + 1 /\ r.latest = b + n
        /\ r.gap <=> (after > b + n \/ (after # 0 /\ b + 1 > 1 /\ after < b))
        /\ r.kept = kept /\ r.events = {i \in 1 .. n : kept[i] > from}
        /\ from = IF after > b + n THEN b ELSE after
    <3>1. oldest = b + 1 /\ latest = b + n /\ oldest - 1 = b
      BY <2>3
    <3>2. r.oldest = oldest /\ r.latest = latest /\ r.gap = gap /\ r.kept = kept /\ r.events = owed
      BY <2>4
    <3>3. r.gap = (after > latest \/ (after # 0 /\ oldest > 1 /\ after < oldest - 1))
      BY <3>2, Zenon
    <3>4. r.gap <=> (after > b + n \/ (after # 0 /\ b + 1 > 1 /\ after < b))
      BY <3>1, <3>3
    <3> QED BY <3>1, <3>2, <3>4, Zenon
  <2>6. r \in Snapshots
    <3>1. oldest \in Nat /\ latest \in Nat
      BY <2>3
    <3>2. gap \in BOOLEAN
      BY Zenon
    <3>3. owed \in SUBSET Nat
      OBVIOUS
    <3> QED BY <3>1, <3>2, <3>3, <2>2, <2>4 DEF Snapshots
  <2>7. SnapshotSound(r)
    <3>1. r.events \subseteq DOMAIN r.kept
      BY <2>5, <2>1
    <3>2. Increasing(kept)
      BY <2>1 DEF Increasing
    <3>3. \A e \in Range(kept) : e <= b + n
      BY <2>1 DEF Range
    <3> QED BY <3>1, <3>2, <3>3, <2>5 DEF SnapshotSound
  <2>8. ASSUME NEW e \in Nat \ {0}, e <= r.latest
        PROVE  \/ (r.gap \/ after = 0) /\ e < r.oldest
               \/ e <= after /\ ~ (r.gap /\ after > r.latest)
               \/ \E i \in r.events : e = r.kept[i]
    <3>1. CASE e <= b
      <4>1. r.gap <=> (after > b + n \/ (after # 0 /\ b + 1 > 1 /\ after < b))
        BY <2>5
      <4>2. e < r.oldest
        BY <3>1, <2>5
      <4>3. ~ r.gap /\ after # 0 => e <= after
        BY <4>1, <3>1
      <4> QED BY <4>2, <4>3
    <3>2. CASE b < e
      <4>1. CASE e > from
        <5>1. e - b \in 1 .. n /\ kept[e - b] = e
          BY <3>2, <2>8, <2>5, <2>1
        <5>2. e - b \in r.events
          BY <5>1, <4>1, <2>5
        <5> QED BY <5>1, <5>2, <2>5
      <4>2. CASE ~ (e > from)
        BY <3>2, <4>2, <2>5
      <4> QED BY <4>1, <4>2
    <3> QED BY <3>1, <3>2
  <2> QED BY <2>3, <2>5, <2>6, <2>7, <2>8
<1> QED BY <1>1, <1>2

\* Only the pc, lastSent and the remaining replay of a session change once it
\* has its snapshot.
SameReader(s, t) ==
  /\ t.cursor = s.cursor /\ t.replay.gap = s.replay.gap
  /\ t.replay.oldest = s.replay.oldest /\ t.replay.latest = s.replay.latest
  /\ t.replay.kept = s.replay.kept

\* A session s with writes w becomes t with writes v by WriteNew of event x.
Writes(s, t, w, v, x) ==
  \/ x <= s.lastSent /\ t.lastSent = s.lastSent /\ v = w
  \/ ~ (x <= s.lastSent) /\ t.lastSent = x /\ v = Append(w, x)

\* WriteNew keeps the writes in order.
LEMMA WritesInOrder ==
  ASSUME NEW s \in SessionRecords, NEW t \in SessionRecords, NEW w \in Seq(Nat), NEW v,
         NEW x \in Nat, Wrote(s, w), Writes(s, t, w, v, x),
         t.pc \in {"replaying", "streaming"}
  PROVE  /\ v \in Seq(Nat) /\ Wrote(t, v) /\ Range(w) \subseteq Range(v)
         /\ ~ (x <= s.lastSent) => x \in Range(v)
<1>1. s.lastSent \in Nat
  BY DEF SessionRecords
<1>2. CASE x <= s.lastSent /\ t.lastSent = s.lastSent /\ v = w
  BY <1>2 DEF Wrote
<1>3. CASE ~ (x <= s.lastSent) /\ t.lastSent = x /\ v = Append(w, x)
  <2>1. \A e \in Range(w) : e \in Nat /\ e < x
    BY <1>1, <1>3, RangeIsNat DEF Wrote
  <2>2. v \in Seq(Nat) /\ Increasing(v) /\ Range(v) = Range(w) \cup {x}
    BY <2>1, <1>3, AppendLater DEF Wrote
  <2>3. \A e \in Range(v) : e <= t.lastSent
    BY <2>1, <2>2, <1>3
  <2> QED BY <2>2, <2>3, <1>3 DEF Wrote
<1> QED BY <1>2, <1>3 DEF Writes

\* A fresh snapshot covers the events up to the one being delivered.
LEMMA CoversAtSnapshot ==
  ASSUME NEW s, NEW w, NEW q, NEW l, NEW n \in Nat, s.pc = "snapshot",
         s.replay.latest \in Nat, n <= s.replay.latest + 1, Told(s),
         \A e \in Nat \ {0} : e <= s.replay.latest =>
           Exempt(s, e) \/ \E i \in s.replay.events : e = s.replay.kept[i]
  PROVE  Covers(s, w, q, l, n)
BY DEF Covers, Arrived, Settled

\* The cursor a session resumes after settles what comes before it.
LEMMA CoversAtAnnounce ==
  ASSUME NEW s \in SessionRecords, NEW t, NEW w, NEW q, NEW l, NEW n,
         Covers(s, w, q, l, n), SameReader(s, t), t.replay.events = s.replay.events,
         t.lastSent = ResumeAfter(s.cursor, s.replay)
  PROVE  /\ Covers(t, w, q, l, n)
         /\ \A e : Arrived(s, w, q, l, e) => Arrived(t, w, q, l, e)
<1>1. \A e : Settled(s, w, l, e) => Settled(t, w, l, e)
  BY SettledMonotone DEF SameReader
<1>2. /\ s.cursor \in Nat /\ s.replay.oldest \in Nat /\ s.replay.latest \in Nat
      /\ s.replay.gap \in BOOLEAN
  BY DEF SessionRecords, Snapshots
<1>3. \A e : Arrived(s, w, q, l, e) => Arrived(t, w, q, l, e)
  BY <1>1 DEF Arrived, SameReader
<1>4. ASSUME NEW e \in Nat \ {0}, e <= t.lastSent PROVE Exempt(s, e)
  <2>1. Told(s)
    BY DEF Covers
  <2> QED BY <2>1, <1>2, <1>4 DEF ResumeAfter, Exempt, Told
<1>5. \A e \in Nat \ {0} : e <= t.lastSent => Settled(t, w, l, e)
  BY <1>4, <1>1 DEF Settled
<1>6. \A e \in Nat \ {0} : e <= t.replay.latest =>
        Settled(t, w, l, e) \/ \E i \in t.replay.events : e = t.replay.kept[i]
  BY <1>1 DEF Covers, SameReader
<1>7. \A e \in Nat \ {0} : e < n => Arrived(t, w, q, l, e)
  BY <1>3 DEF Covers
<1>8. Told(t)
  BY DEF Covers, SameReader, Told
<1> QED BY <1>3, <1>5, <1>6, <1>7, <1>8 DEF Covers

\* Replaying the next event of the snapshot, or skipping it, loses nothing.
LEMMA CoversAtReplay ==
  ASSUME NEW s \in SessionRecords, NEW t \in SessionRecords, NEW w \in Seq(Nat), NEW v,
         NEW q, NEW l, NEW n, NEW i \in s.replay.events,
         Covers(s, w, q, l, n), SameReader(s, t), SnapshotSound(s.replay), Wrote(s, w),
         s.pc = "replaying", t.pc = "replaying",
         \A j \in s.replay.events : i <= j,
         t.replay.events = s.replay.events \ {i},
         Writes(s, t, w, v, s.replay.kept[i])
  PROVE  /\ Covers(t, v, q, l, n)
         /\ \A e : Arrived(s, w, q, l, e) => Arrived(t, v, q, l, e)
<1> PICK x : x = s.replay.kept[i]
  OBVIOUS
<1>1. /\ s.replay.kept \in Seq(Nat) /\ s.replay.latest \in Nat /\ s.lastSent \in Nat
      /\ \A j \in s.replay.events : j \in DOMAIN s.replay.kept /\ s.replay.kept[j] \in Nat /\ j \in Nat
  <2>1. s.replay \in Snapshots /\ s.lastSent \in Nat
    BY DEF SessionRecords
  <2>2. s.replay.kept \in Seq(Nat) /\ s.replay.latest \in Nat /\ s.replay.events \in SUBSET Nat
    BY <2>1 DEF Snapshots
  <2>3. \A j \in s.replay.events : j \in DOMAIN s.replay.kept
    BY DEF SnapshotSound
  <2> QED BY <2>1, <2>2, <2>3
<1>2. x \in Nat /\ x <= s.replay.latest
  BY <1>1 DEF SnapshotSound, Range
<1>3. v \in Seq(Nat) /\ Range(w) \subseteq Range(v) /\ (~ (x <= s.lastSent) => x \in Range(v))
  BY <1>2, WritesInOrder
<1>4. \A e : Settled(s, w, l, e) => Settled(t, v, l, e)
  BY <1>3, SettledMonotone DEF SameReader
<1>5. \A e : Arrived(s, w, q, l, e) => Arrived(t, v, q, l, e)
  BY <1>4 DEF Arrived, SameReader
<1>6. x # 0 => Settled(t, v, l, x)
  BY <1>2, <1>3, <1>4 DEF Covers, Settled
<1>7. ASSUME NEW e \in Nat \ {0}, e <= t.replay.latest
      PROVE  Settled(t, v, l, e) \/ \E j \in t.replay.events : e = t.replay.kept[j]
  <2>1. Settled(s, w, l, e) \/ \E j \in s.replay.events : e = s.replay.kept[j]
    BY <1>7 DEF Covers, SameReader
  <2>2. CASE Settled(s, w, l, e)
    BY <2>2, <1>4
  <2>3. ASSUME NEW j \in s.replay.events, e = s.replay.kept[j]
        PROVE  Settled(t, v, l, e) \/ \E k \in t.replay.events : e = t.replay.kept[k]
    <3>1. CASE j = i
      BY <3>1, <2>3, <1>6
    <3>2. CASE j # i
      BY <3>2, <2>3 DEF SameReader
    <3> QED BY <3>1, <3>2
  <2> QED BY <2>1, <2>2, <2>3
<1>8. ASSUME NEW e \in Nat \ {0}, e <= t.lastSent PROVE Settled(t, v, l, e)
  <2>1. CASE e <= s.lastSent
    BY <2>1, <1>4 DEF Covers
  <2>2. CASE ~ (e <= s.lastSent)
    <3>1. t.lastSent = x /\ e <= s.replay.latest
      <4>1. t.lastSent = x
        BY <2>2, <1>8 DEF Writes
      <4> QED BY <4>1, <1>1, <1>2, <1>8
    <3>2. Settled(s, w, l, e) \/ \E j \in s.replay.events : e = s.replay.kept[j]
      BY <3>1 DEF Covers
    <3>3. ASSUME NEW j \in s.replay.events, e = s.replay.kept[j]
          PROVE  e = x
      <4>1. i <= j /\ (i < j => x < e)
        <5>1. i \in DOMAIN s.replay.kept /\ j \in DOMAIN s.replay.kept
          BY <1>1
        <5>2. Increasing(s.replay.kept)
          BY DEF SnapshotSound
        <5> QED BY <3>3, <5>1, <5>2 DEF Increasing
      <4> QED BY <4>1, <3>1, <3>3, <1>1, <1>2, <1>8
    <3> QED BY <3>2, <3>3, <1>4, <1>6
  <2> QED BY <2>1, <2>2
<1>9. \A e \in Nat \ {0} : e < n => Arrived(t, v, q, l, e)
  BY <1>5 DEF Covers
<1>10. Told(t)
  BY DEF Covers, SameReader, Told
<1> QED BY <1>5, <1>7, <1>8, <1>9, <1>10 DEF Covers

\* Writing the next event of the queue, or skipping it, loses nothing.
LEMMA CoversAtReceive ==
  ASSUME NEW s \in SessionRecords, NEW t \in SessionRecords, NEW w \in Seq(Nat), NEW v,
         NEW q, NEW r, NEW l, NEW n \in Nat, NEW x \in Nat,
         Covers(s, w, q, l, n), SameReader(s, t), Wrote(s, w),
         s.pc = "streaming", t.pc = "streaming",
         s.replay.events = {}, t.replay.events = {},
         Range(q) = {x} \cup Range(r), \A e \in Range(r) : e \in Nat /\ x < e,
         x <= n, Writes(s, t, w, v, x)
  PROVE  /\ Covers(t, v, r, l, n)
         /\ \A e \in Nat \ {0} : Arrived(s, w, q, l, e) => Arrived(t, v, r, l, e)
<1>1. s.replay.latest \in Nat /\ s.lastSent \in Nat
  BY DEF SessionRecords, Snapshots
<1>3. v \in Seq(Nat) /\ Range(w) \subseteq Range(v) /\ (~ (x <= s.lastSent) => x \in Range(v))
  BY WritesInOrder
<1>4. \A e : Settled(s, w, l, e) => Settled(t, v, l, e)
  BY <1>3, SettledMonotone DEF SameReader
<1>5. x # 0 => Settled(t, v, l, x)
  BY <1>3, <1>4 DEF Covers, Settled
<1>6. \A e \in Nat \ {0} : Arrived(s, w, q, l, e) => Arrived(t, v, r, l, e)
  BY <1>4, <1>5 DEF Arrived, SameReader
<1>7. \A e \in Nat \ {0} : e <= t.replay.latest => Settled(t, v, l, e)
  BY <1>4 DEF Covers, SameReader
<1>8. ASSUME NEW e \in Nat \ {0}, e <= t.lastSent PROVE Settled(t, v, l, e)
  <2>1. CASE e <= s.lastSent
    BY <2>1, <1>4 DEF Covers
  <2>2. CASE ~ (e <= s.lastSent)
    <3>1. t.lastSent = x /\ e <= x
      BY <2>2, <1>1, <1>8 DEF Writes
    <3>2. CASE e = x
      BY <3>2, <1>5
    <3>3. CASE e # x
      <4>1. e < n /\ e < x
        BY <3>1, <3>3
      <4>2. Arrived(t, v, r, l, e)
        BY <4>1, <1>6 DEF Covers
      <4>3. e \notin Range(r)
        BY <4>1
      <4> QED BY <4>2, <4>3, <1>7 DEF Arrived
    <3> QED BY <3>2, <3>3
  <2> QED BY <2>1, <2>2
<1>9. \A e \in Nat \ {0} : e < n => Arrived(t, v, r, l, e)
  BY <1>6 DEF Covers
<1>10. Told(t)
  BY DEF Covers, SameReader, Told
<1> QED BY <1>6, <1>7, <1>8, <1>9, <1>10 DEF Covers

\* A longer queue and more drops cover no less, whatever step the session is at
\* after its replay began.
LEMMA CoversMonotone ==
  ASSUME NEW s, NEW t, NEW w, NEW q, NEW r, NEW l, NEW k, NEW n,
         Covers(s, w, q, l, n), SameReader(s, t), t.replay.events = s.replay.events,
         t.lastSent = s.lastSent,
         s.pc \in {"replaying", "streaming"} \/ t.pc = s.pc,
         Range(q) \subseteq Range(r), l \subseteq k
  PROVE  /\ Covers(t, w, r, k, n)
         /\ \A e : Arrived(s, w, q, l, e) => Arrived(t, w, r, k, e)
<1>1. \A e : Settled(s, w, l, e) => Settled(t, w, k, e)
  BY SettledMonotone DEF SameReader
<1>2. \A e : Arrived(s, w, q, l, e) => Arrived(t, w, r, k, e)
  BY <1>1 DEF Arrived, SameReader
<1>3. \A e \in Nat \ {0} : e <= t.replay.latest =>
        Settled(t, w, k, e) \/ \E i \in t.replay.events : e = t.replay.kept[i]
  BY <1>1 DEF Covers, SameReader
<1>4. \A e \in Nat \ {0} : e < n => Arrived(t, w, r, k, e)
  BY <1>2 DEF Covers
<1>5. t.pc \in {"replaying", "streaming"} =>
        \A e \in Nat \ {0} : e <= t.lastSent => Settled(t, w, k, e)
  BY <1>1 DEF Covers
<1>6. Told(t)
  BY DEF Covers, SameReader, Told
<1> QED BY <1>2, <1>3, <1>4, <1>5, <1>6 DEF Covers

\* Once the event being delivered has arrived, the next one may be.
LEMMA CoversNext ==
  ASSUME NEW s, NEW w, NEW q, NEW l, NEW n \in Nat \ {0},
         Covers(s, w, q, l, n), Arrived(s, w, q, l, n)
  PROVE  Covers(s, w, q, l, n + 1)
<1>1. \A e \in Nat \ {0} : e < n + 1 => e < n \/ e = n
  OBVIOUS
<1>2. \A e \in Nat \ {0} : e < n + 1 => Arrived(s, w, q, l, e)
  BY <1>1 DEF Covers
<1> QED BY <1>2 DEF Covers

-----------------------------------------------------------------------------
(* Steps of one session                                                    *)

PublisherRecords ==
  [pc : {"idle", "waiting", "sending"}, event : Nat, queues : SUBSET Sessions]

\* Session c becomes t, with writes v and queue q; no one else is touched.
Serves(c, t, v, q) ==
  /\ session' = [session EXCEPT ![c] = t]
  /\ sent' = [sent EXCEPT ![c] = v]
  /\ queue' = [queue EXCEPT ![c] = q]
  /\ UNCHANGED <<ledger, nextDelivery, publisher, registered, hubClosed, retiring, done, lost>>

\* What Stream says of session c, of the values it may come to have.
StreamOf(c, s, w, q) ==
  /\ Wrote(s, w)
  /\ SnapshotSound(s.replay)
  /\ s.pc = "streaming" => s.replay.events = {}
  /\ c \in registered /\ s.pc \in {"snapshot", "replaying", "streaming"} =>
       /\ Covers(s, w, q, lost[c], nextDelivery)
       /\ Passed(c) => Arrived(s, w, q, lost[c], nextDelivery)

\* The types of what a session owns.
LEMMA SessionTypes ==
  ASSUME TypeOK, NEW c \in Sessions
  PROVE  /\ session \in [Sessions -> SessionRecords] /\ session[c] \in SessionRecords
         /\ sent[c] \in Seq(Nat) /\ queue[c] \in Seq(Nat) /\ lost[c] \in SUBSET Nat
         /\ queue \in [Sessions -> Seq(Nat)] /\ sent \in [Sessions -> Seq(Nat)]
         /\ done \in [Sessions -> BOOLEAN] /\ lost \in [Sessions -> SUBSET Nat]
BY DEF TypeOK, SessionRecords

\* A session that is not touched keeps its stream.
LEMMA StreamKept ==
  ASSUME NEW c \in Sessions, Stream(c),
         session'[c] = session[c], sent'[c] = sent[c], queue'[c] = queue[c],
         lost'[c] = lost[c], nextDelivery' = nextDelivery,
         c \in registered' => c \in registered /\ (Passed(c)' => Passed(c))
  PROVE  Stream(c)'
BY DEF Stream

\* A step of one session between its subscription and its leaving keeps the
\* invariant if it keeps that session's stream.
LEMMA ServeKeeps ==
  ASSUME StreamIInv, NEW c \in Sessions, NEW t \in SessionRecords, NEW v \in Seq(Nat),
         NEW q \in Seq(Nat), Serves(c, t, v, q), StreamOf(c, t, v, q),
         session[c].pc \notin {"new", "closing"}, t.pc \notin {"new", "closing", "left"},
         Increasing(q), Range(q) \subseteq Range(queue[c])
  PROVE  StreamIInv'
<1> USE DEF StreamIInv
<1>1. /\ session \in [Sessions -> SessionRecords] /\ sent \in [Sessions -> Seq(Nat)]
      /\ queue \in [Sessions -> Seq(Nat)]
  BY DEF TypeOK, SessionRecords
<1>2. /\ session'[c] = t /\ sent'[c] = v /\ queue'[c] = q
      /\ \A d \in Sessions : d # c =>
           session'[d] = session[d] /\ sent'[d] = sent[d] /\ queue'[d] = queue[d]
  BY <1>1 DEF Serves
<1>3. /\ session' \in [Sessions -> SessionRecords] /\ sent' \in [Sessions -> Seq(Nat)]
      /\ queue' \in [Sessions -> Seq(Nat)]
  BY <1>1 DEF Serves
<1>4. /\ ledger' = ledger /\ nextDelivery' = nextDelivery /\ publisher' = publisher
      /\ registered' = registered /\ hubClosed' = hubClosed /\ retiring' = retiring
      /\ done' = done /\ lost' = lost
  BY DEF Serves
<1>5. TypeOK'
  BY <1>3, <1>4 DEF TypeOK, SessionRecords
<1>6. Ring'
  BY <1>4 DEF Ring, LedgerContiguous, Retained
<1>7. Channels'
  <2>1. \A d \in Sessions :
          d = c \/ session'[d] = session[d]
    BY <1>2
  <2> QED BY <2>1, <1>2, <1>4 DEF Channels
<1>8. Turns'
  BY <1>4 DEF Turns
<1>9. Queues'
  <2> SUFFICES ASSUME NEW d \in Sessions
               PROVE  /\ Increasing(queue'[d])
                      /\ \A e \in Range(queue'[d]) : e <= nextDelivery /\ (e = nextDelivery => Passed(d))
    BY <1>4 DEF Queues, Passed
  <2>1. Increasing(queue'[d]) /\ Range(queue'[d]) \subseteq Range(queue[d])
    BY <1>2 DEF Queues
  <2> QED BY <2>1 DEF Queues
<1>10. ASSUME NEW d \in Sessions PROVE Stream(d)'
  <2>1. CASE d = c
    <3>1. Passed(c)' <=> Passed(c)
      BY <1>4 DEF Passed
    <3> QED BY <2>1, <3>1, <1>2, <1>4 DEF Stream, StreamOf
  <2>2. CASE d # c
    BY <2>2, <1>2, <1>4, StreamKept DEF Passed
  <2> QED BY <2>1, <2>2
<1> QED BY <1>5, <1>6, <1>7, <1>8, <1>9, <1>10

\* A step of the session that only moves its pc.
LEMMA StepServes ==
  ASSUME TypeOK, NEW c \in Sessions,
         NEW pc \in {"new", "subscribed", "snapshot", "replaying", "streaming",
                     "leaving", "closing", "left"},
         SessionStep(c, pc)
  PROVE  \E t \in SessionRecords :
           /\ session' = [session EXCEPT ![c] = t]
           /\ t.pc = pc /\ SameReader(session[c], t) /\ t.replay = session[c].replay
           /\ t.lastSent = session[c].lastSent
<1> DEFINE t == [session[c] EXCEPT !.pc = pc]
<1>1. session \in [Sessions -> SessionRecords] /\ session[c] \in SessionRecords
  BY SessionTypes
<1>2. /\ t \in SessionRecords /\ t.pc = pc /\ t.cursor = session[c].cursor
      /\ t.replay = session[c].replay /\ t.lastSent = session[c].lastSent
  BY <1>1 DEF SessionRecords
<1>3. session' = [session EXCEPT ![c] = t]
  BY <1>1 DEF SessionStep
<1> HIDE DEF t
<1> QED BY <1>2, <1>3 DEF SameReader

\* TakeSnapshot: whatever was appended is in the snapshot, whatever is being
\* delivered was appended.
LEMMA SnapshotKeeps ==
  ASSUME StreamIInv, NEW c \in Sessions, TakeSnapshot(c)
  PROVE  StreamIInv'
<1> TypeOK /\ Stream(c) /\ Turns /\ Queues
  BY DEF StreamIInv
<1>1. /\ session \in [Sessions -> SessionRecords] /\ session[c] \in SessionRecords
      /\ sent[c] \in Seq(Nat) /\ queue[c] \in Seq(Nat)
      /\ queue \in [Sessions -> Seq(Nat)] /\ sent \in [Sessions -> Seq(Nat)]
  BY SessionTypes
<1>2. ledger \in Ledgers /\ RingOf(ledger) /\ session[c].cursor \in Nat
  BY <1>1, RingIsRingOf DEF StreamIInv, TypeOK, Ledgers, SessionRecords
<1> PICK r : r = snapshotSince(ledger, session[c].cursor)
  OBVIOUS
<1>3. /\ r \in Snapshots /\ SnapshotSound(r) /\ r.latest = ledger.sequence
      /\ session[c].cursor > r.latest => r.gap \/ r.latest = 0
      /\ \A e \in Nat \ {0} : e <= r.latest =>
           \/ (r.gap \/ session[c].cursor = 0) /\ e < r.oldest
           \/ e <= session[c].cursor /\ (session[c].cursor <= r.latest \/ r.latest = 0)
           \/ \E i \in r.events : e = r.kept[i]
  BY <1>2, SnapshotCovers
<1> DEFINE u == [session[c] EXCEPT !.pc = "snapshot", !.replay = r]
<1>4. /\ u \in SessionRecords /\ u.pc = "snapshot" /\ u.cursor = session[c].cursor
      /\ u.replay = r /\ u.lastSent = session[c].lastSent
  BY <1>1, <1>3 DEF SessionRecords
<1>5. session' = [session EXCEPT ![c] = u]
  BY <1>1 DEF TakeSnapshot
<1> HIDE DEF u
<1> PICK t \in SessionRecords : t = u
  BY <1>4
<1>6. Serves(c, t, sent[c], queue[c])
  BY <1>1, <1>5 DEF TakeSnapshot, Serves, hub, channels, history
<1>7. session[c].pc = "subscribed"
  BY DEF TakeSnapshot
<1>8. Wrote(t, sent[c])
  BY <1>4, <1>7 DEF Stream, Wrote, Increasing
<1>9. /\ ledger.sequence \in Nat /\ nextDelivery \in Nat \ {0} /\ nextDelivery <= ledger.sequence + 1
      /\ Passed(c) => nextDelivery <= ledger.sequence
  <2>1. /\ ledger.sequence \in Nat /\ nextDelivery \in Nat \ {0} /\ nextDelivery <= ledger.sequence + 1
    BY DEF TypeOK, Turns
  <2>2. \A p \in Publishers : publisher[p].pc = "sending" =>
          publisher[p].event = nextDelivery /\ publisher[p].event <= ledger.sequence
    BY DEF Turns
  <2> QED BY <2>1, <2>2 DEF Passed
<1>10. Covers(t, sent[c], queue[c], lost[c], nextDelivery)
  <2>1. \A e \in Nat \ {0} : e <= t.replay.latest =>
          Exempt(t, e) \/ \E i \in t.replay.events : e = t.replay.kept[i]
    BY <1>3, <1>4 DEF Exempt
  <2>2. Told(t)
    BY <1>3, <1>4 DEF Told
  <2> QED BY <2>1, <2>2, <1>3, <1>4, <1>9, CoversAtSnapshot
<1>11. StreamOf(c, t, sent[c], queue[c])
  BY <1>3, <1>4, <1>8, <1>9, <1>10 DEF StreamOf, Arrived
<1> QED BY <1>1, <1>4, <1>6, <1>7, <1>11, ServeKeeps DEF Queues

\* Announce: the cursor the session resumes after is one it is excused up to.
LEMMA AnnounceKeeps ==
  ASSUME StreamIInv, NEW c \in Sessions, Announce(c)
  PROVE  StreamIInv'
<1> TypeOK /\ Stream(c) /\ Queues
  BY DEF StreamIInv
<1>1. /\ session \in [Sessions -> SessionRecords] /\ session[c] \in SessionRecords
      /\ sent[c] \in Seq(Nat) /\ queue[c] \in Seq(Nat)
      /\ queue \in [Sessions -> Seq(Nat)] /\ sent \in [Sessions -> Seq(Nat)]
  BY SessionTypes
<1> PICK last : last = ResumeAfter(session[c].cursor, session[c].replay)
  OBVIOUS
<1>2. last \in Nat
  <2>1. /\ session[c].cursor \in Nat /\ session[c].replay.oldest \in Nat /\ session[c].replay.latest \in Nat
    BY <1>1 DEF SessionRecords, Snapshots
  <2>2. session[c].replay.gap => session[c].replay.oldest # 0
    BY DEF Stream, SnapshotSound
  <2> QED BY <2>1, <2>2 DEF ResumeAfter
<1> DEFINE u == [session[c] EXCEPT !.pc = "replaying", !.lastSent = last]
<1>4. /\ u \in SessionRecords /\ u.pc = "replaying" /\ u.cursor = session[c].cursor
      /\ u.replay = session[c].replay /\ u.lastSent = last
  BY <1>1, <1>2 DEF SessionRecords
<1>5. session' = [session EXCEPT ![c] = u]
  BY <1>1 DEF Announce
<1> HIDE DEF u
<1> PICK t \in SessionRecords : t = u
  BY <1>4
<1>6. Serves(c, t, sent[c], queue[c])
  BY <1>1, <1>5 DEF Announce, Serves, hub, channels, history
<1>7. session[c].pc = "snapshot"
  BY DEF Announce
<1>8. Wrote(t, sent[c])
  BY <1>7, EmptyFacts DEF Stream, Wrote
<1>9. SameReader(session[c], t)
  BY <1>4 DEF SameReader
<1>10. StreamOf(c, t, sent[c], queue[c])
  <2>1. Covers(session[c], sent[c], queue[c], lost[c], nextDelivery) =>
          /\ Covers(t, sent[c], queue[c], lost[c], nextDelivery)
          /\ Arrived(session[c], sent[c], queue[c], lost[c], nextDelivery) =>
               Arrived(t, sent[c], queue[c], lost[c], nextDelivery)
    BY <1>1, <1>4, <1>9, CoversAtAnnounce
  <2> QED BY <2>1, <1>4, <1>7, <1>8 DEF StreamOf, Stream
<1> QED BY <1>1, <1>4, <1>6, <1>7, <1>10, ServeKeeps DEF Queues

\* Session c becomes t, with writes v.
Becomes(c, t, v) == session' = [session EXCEPT ![c] = t] /\ sent' = [sent EXCEPT ![c] = v]

\* So does WriteNew(c, u, x).
Written(c, u, x, t, v) ==
  /\ Becomes(c, t, v)
  /\ Writes(session[c], t, sent[c], v, x)
  /\ t.pc = u.pc /\ t.cursor = u.cursor /\ t.replay = u.replay

\* WriteNew writes the event if it is later than what was written.
LEMMA WriteServes ==
  ASSUME TypeOK, NEW c \in Sessions, NEW u \in SessionRecords, NEW x \in Nat,
         u.lastSent = session[c].lastSent, WriteNew(c, u, x)
  PROVE  \E t \in SessionRecords : \E v \in Seq(Nat) : Written(c, u, x, t, v)
<1>1. /\ session \in [Sessions -> SessionRecords] /\ sent \in [Sessions -> Seq(Nat)]
      /\ sent[c] \in Seq(Nat)
  BY SessionTypes
<1>2. CASE x <= session[c].lastSent
  <2>1. session' = [session EXCEPT ![c] = u] /\ sent' = sent
    BY <1>2 DEF WriteNew
  <2>2. sent' = [sent EXCEPT ![c] = sent[c]]
    BY <2>1, <1>1
  <2>3. Writes(session[c], u, sent[c], sent[c], x)
    BY <1>2 DEF Writes
  <2> QED BY <2>1, <2>2, <2>3, <1>1 DEF Becomes, Written
<1>3. CASE ~ (x <= session[c].lastSent)
  <2> PICK t : t = [u EXCEPT !.lastSent = x]
    OBVIOUS
  <2> PICK v : v = Append(sent[c], x)
    OBVIOUS
  <2>1. session' = [session EXCEPT ![c] = t] /\ sent' = [sent EXCEPT ![c] = v]
    BY <1>1, <1>3 DEF WriteNew
  <2>2. /\ t \in SessionRecords /\ t.lastSent = x
        /\ t.pc = u.pc /\ t.cursor = u.cursor /\ t.replay = u.replay
    BY DEF SessionRecords
  <2>3. v \in Seq(Nat) /\ Writes(session[c], t, sent[c], v, x)
    BY <1>1, <1>3, <2>2 DEF Writes
  <2> QED BY <2>1, <2>2, <2>3 DEF Becomes, Written
<1> QED BY <1>2, <1>3

\* ReplayNext: the oldest event of the replay that is left goes out first.
LEMMA ReplayKeeps ==
  ASSUME StreamIInv, NEW c \in Sessions, ReplayNext(c)
  PROVE  StreamIInv'
<1> TypeOK /\ Stream(c) /\ Queues
  BY DEF StreamIInv
<1>1. /\ session[c] \in SessionRecords /\ sent[c] \in Seq(Nat) /\ queue[c] \in Seq(Nat)
      /\ queue \in [Sessions -> Seq(Nat)]
  BY SessionTypes
<1> PICK i \in session[c].replay.events :
      /\ \A j \in session[c].replay.events : i <= j
      /\ WriteNew(c, [session[c] EXCEPT !.replay.events = @ \ {i}], session[c].replay.kept[i])
  BY DEF ReplayNext
<1> PICK x : x = session[c].replay.kept[i]
  OBVIOUS
<1> PICK u : u = [session[c] EXCEPT !.replay.events = @ \ {i}]
  OBVIOUS
<1>a. WriteNew(c, u, x)
  BY Zenon
<1>2. /\ session[c].pc = "replaying"
      /\ UNCHANGED <<ledger, nextDelivery, publisher, registered, hubClosed, retiring, queue, done, lost>>
  BY DEF ReplayNext, hub, channels
<1>3. x \in Nat
  BY <1>1 DEF Stream, SnapshotSound, SessionRecords, Snapshots
<1>4. /\ u \in SessionRecords /\ u.lastSent = session[c].lastSent
      /\ u.pc = "replaying" /\ SameReader(session[c], u)
      /\ u.replay.events = session[c].replay.events \ {i}
  <2> PICK r : r = [session[c].replay EXCEPT !.events = @ \ {i}]
    OBVIOUS
  <2>1. session[c].replay \in Snapshots /\ session[c].replay.events \in SUBSET Nat
    BY <1>1 DEF SessionRecords, Snapshots
  <2>2. /\ r \in Snapshots /\ r.events = session[c].replay.events \ {i}
        /\ r.gap = session[c].replay.gap /\ r.oldest = session[c].replay.oldest
        /\ r.latest = session[c].replay.latest /\ r.kept = session[c].replay.kept
    BY <2>1 DEF Snapshots
  <2>3. u = [session[c] EXCEPT !.replay = r]
    BY <1>1 DEF SessionRecords
  <2>4. /\ u \in SessionRecords /\ u.lastSent = session[c].lastSent /\ u.pc = session[c].pc
        /\ u.cursor = session[c].cursor /\ u.replay = r
    BY <2>2, <2>3, <1>1 DEF SessionRecords
  <2> QED BY <2>2, <2>4, <1>2 DEF SameReader
<1> PICK t \in SessionRecords, v \in Seq(Nat) : Written(c, u, x, t, v)
  BY <1>a, <1>3, <1>4, WriteServes
<1> /\ Becomes(c, t, v) /\ Writes(session[c], t, sent[c], v, x)
    /\ t.pc = u.pc /\ t.cursor = u.cursor /\ t.replay = u.replay
  BY DEF Written
<1>5. Serves(c, t, v, queue[c])
  BY <1>1, <1>2 DEF Serves, Becomes
<1>6. SameReader(session[c], t) /\ t.pc = "replaying" /\ t.replay.events = session[c].replay.events \ {i}
  BY <1>4 DEF SameReader
<1>7. Wrote(t, v)
  BY <1>1, <1>3, <1>6, WritesInOrder DEF Stream
<1>8. SnapshotSound(t.replay)
  BY <1>6 DEF Stream, SnapshotSound, SameReader
<1>9. Covers(session[c], sent[c], queue[c], lost[c], nextDelivery) =>
        /\ Covers(t, v, queue[c], lost[c], nextDelivery)
        /\ Arrived(session[c], sent[c], queue[c], lost[c], nextDelivery) =>
             Arrived(t, v, queue[c], lost[c], nextDelivery)
  BY <1>1, <1>2, <1>6, CoversAtReplay DEF Stream
<1>10. StreamOf(c, t, v, queue[c])
  BY <1>2, <1>6, <1>7, <1>8, <1>9 DEF StreamOf, Stream
<1> QED BY <1>1, <1>2, <1>5, <1>6, <1>10, ServeKeeps DEF Queues

\* Receive: the queue is behind lastSent or carries on from it.
LEMMA ReceiveKeeps ==
  ASSUME StreamIInv, NEW c \in Sessions, Receive(c)
  PROVE  StreamIInv'
<1> TypeOK /\ Stream(c) /\ Queues
  BY DEF StreamIInv
<1>1. /\ session[c] \in SessionRecords /\ sent[c] \in Seq(Nat) /\ queue[c] \in Seq(Nat)
  BY SessionTypes
<1> PICK x : x = Head(queue[c])
  OBVIOUS
<1> PICK r : r = Tail(queue[c])
  OBVIOUS
<1>2. /\ session[c].pc = "streaming" /\ queue[c] # <<>> /\ WriteNew(c, session[c], x)
      /\ queue' = [queue EXCEPT ![c] = r]
      /\ UNCHANGED <<ledger, nextDelivery, publisher, registered, hubClosed, retiring, done, lost>>
  BY DEF Receive, hub
<1>3. /\ r \in Seq(Nat) /\ x \in Nat /\ Increasing(r) /\ Range(queue[c]) = {x} \cup Range(r)
      /\ \A e \in Range(r) : e \in Nat /\ x < e
  BY <1>1, <1>2, TailLater DEF Queues
<1> PICK u \in SessionRecords : u = session[c]
  BY <1>1
<1>a. WriteNew(c, u, x)
  BY <1>2, Zenon
<1>b. x \in Nat /\ u.lastSent = session[c].lastSent
  BY <1>3
<1>4. x <= nextDelivery /\ nextDelivery \in Nat \ {0}
  BY <1>3 DEF Queues, TypeOK
<1> PICK t \in SessionRecords, v \in Seq(Nat) : Written(c, u, x, t, v)
  BY <1>b, <1>a, WriteServes
<1> /\ Becomes(c, t, v) /\ Writes(session[c], t, sent[c], v, x)
    /\ t.pc = u.pc /\ t.cursor = u.cursor /\ t.replay = u.replay
  BY DEF Written
<1>5. Serves(c, t, v, r)
  BY <1>2 DEF Serves, Becomes
<1>6. SameReader(session[c], t) /\ t.pc = "streaming" /\ t.replay.events = {} /\ session[c].replay.events = {}
  BY <1>2 DEF SameReader, Stream
<1>7. Wrote(t, v)
  BY <1>1, <1>3, <1>6, WritesInOrder DEF Stream
<1>8. Covers(session[c], sent[c], queue[c], lost[c], nextDelivery) =>
        /\ Covers(t, v, r, lost[c], nextDelivery)
        /\ Arrived(session[c], sent[c], queue[c], lost[c], nextDelivery) =>
             Arrived(t, v, r, lost[c], nextDelivery)
  BY <1>1, <1>2, <1>3, <1>4, <1>6, CoversAtReceive DEF Stream
<1>9. StreamOf(c, t, v, r)
  BY <1>2, <1>6, <1>7, <1>8 DEF StreamOf, Stream
<1> QED BY <1>2, <1>3, <1>5, <1>6, <1>9, ServeKeeps

\* ReplayEnds, SeeDone and GiveUp only move the session on.
LEMMA MoveKeeps ==
  ASSUME StreamIInv, NEW c \in Sessions, ReplayEnds(c) \/ SeeDone(c) \/ GiveUp(c)
  PROVE  StreamIInv'
<1> TypeOK /\ Stream(c) /\ Queues
  BY DEF StreamIInv
<1>1. /\ session[c] \in SessionRecords /\ sent[c] \in Seq(Nat) /\ queue[c] \in Seq(Nat)
      /\ queue \in [Sessions -> Seq(Nat)] /\ sent \in [Sessions -> Seq(Nat)]
  BY SessionTypes
<1> PICK pc \in {"streaming", "leaving"} :
      /\ SessionStep(c, pc)
      /\ session[c].pc \in {"snapshot", "replaying", "streaming"}
      /\ pc = "streaming" => session[c].pc = "replaying" /\ session[c].replay.events = {}
  BY DEF ReplayEnds, SeeDone, GiveUp
<1>2. UNCHANGED <<ledger, nextDelivery, publisher, registered, hubClosed, retiring, queue, done, sent, lost>>
  BY DEF ReplayEnds, SeeDone, GiveUp, hub, channels, history
<1> PICK t \in SessionRecords :
      /\ session' = [session EXCEPT ![c] = t]
      /\ t.pc = pc /\ SameReader(session[c], t) /\ t.replay = session[c].replay
      /\ t.lastSent = session[c].lastSent
  BY StepServes
<1>3. Serves(c, t, sent[c], queue[c])
  BY <1>1, <1>2 DEF Serves
<1>4. Wrote(t, sent[c])
  BY DEF Stream, Wrote
<1>5. pc = "streaming" /\ Covers(session[c], sent[c], queue[c], lost[c], nextDelivery) =>
        /\ Covers(t, sent[c], queue[c], lost[c], nextDelivery)
        /\ Arrived(session[c], sent[c], queue[c], lost[c], nextDelivery) =>
             Arrived(t, sent[c], queue[c], lost[c], nextDelivery)
  BY CoversMonotone
<1>6. StreamOf(c, t, sent[c], queue[c])
  BY <1>4, <1>5 DEF StreamOf, Stream
<1> QED BY <1>1, <1>3, <1>6, ServeKeeps DEF Queues

-----------------------------------------------------------------------------
(* Coming and going, and the hub                                           *)

\* Session d is not touched, or it has only subscribed, left or begun to.
Apart(d) ==
  \/ session'[d] = session[d] /\ (d \in registered' => d \in registered)
  \/ /\ session'[d].replay = session[d].replay /\ session'[d].lastSent = session[d].lastSent
     /\ \/ session'[d].pc \in {"closing", "left"}
        \/ session'[d].pc = "subscribed" /\ session[d].pc = "new"

\* Steps of the hub, and of sessions that come or go, keep the invariant if
\* they keep Channels.
LEMMA HubKeeps ==
  ASSUME StreamIInv,
         UNCHANGED <<ledger, nextDelivery, publisher, queue, sent, lost>>,
         session' \in [Sessions -> SessionRecords],
         registered' \subseteq Sessions, retiring' \subseteq Sessions,
         hubClosed' \in BOOLEAN, done' \in [Sessions -> BOOLEAN],
         \A d \in Sessions : Apart(d), Channels'
  PROVE  StreamIInv'
<1> USE DEF StreamIInv
<1>1. TypeOK'
  BY DEF TypeOK, SessionRecords
<1>2. Ring'
  BY DEF Ring, LedgerContiguous, Retained
<1>3. Turns'
  BY DEF Turns
<1>4. Queues'
  BY DEF Queues, Passed
<1>5. ASSUME NEW d \in Sessions PROVE Stream(d)'
  <2> Stream(d) /\ Apart(d)
    OBVIOUS
  <2>1. CASE session'[d] = session[d] /\ (d \in registered' => d \in registered)
    BY <2>1, StreamKept DEF Passed
  <2>2. CASE /\ session'[d].replay = session[d].replay /\ session'[d].lastSent = session[d].lastSent
             /\ \/ session'[d].pc \in {"closing", "left"}
                \/ session'[d].pc = "subscribed" /\ session[d].pc = "new"
    BY <2>2 DEF Stream, Wrote
  <2> QED BY <2>1, <2>2 DEF Apart
<1> QED BY <1>1, <1>2, <1>3, <1>4, <1>5

\* hub.subscribe: the session of a new stream has a done channel of its own.
LEMMA SubscribeKeeps ==
  ASSUME StreamIInv, NEW c \in Sessions, Subscribe(c)
  PROVE  StreamIInv'
<1> TypeOK /\ Channels
  BY DEF StreamIInv
<1>1. session \in [Sessions -> SessionRecords] /\ session[c] \in SessionRecords
  BY SessionTypes
<1> PICK after \in Cursors :
      session' = [session EXCEPT ![c].pc = "subscribed", ![c].cursor = after]
  BY DEF Subscribe
<1>2. /\ session' \in [Sessions -> SessionRecords] /\ session'[c].pc = "subscribed"
      /\ session'[c].replay = session[c].replay /\ session'[c].lastSent = session[c].lastSent
      /\ \A d \in Sessions : d # c => session'[d] = session[d]
  <2> PICK t : t = [session[c] EXCEPT !.pc = "subscribed", !.cursor = after]
    OBVIOUS
  <2>1. /\ t \in SessionRecords /\ t.pc = "subscribed" /\ t.replay = session[c].replay
        /\ t.lastSent = session[c].lastSent
    BY <1>1, StreamAssumption DEF SessionRecords
  <2>2. session' = [session EXCEPT ![c] = t]
    BY <1>1
  <2> QED BY <2>1, <2>2, <1>1
<1>3. /\ session[c].pc = "new" /\ ~ hubClosed /\ registered' = registered \cup {c}
      /\ UNCHANGED <<ledger, nextDelivery, publisher, queue, sent, lost, done, hubClosed, retiring>>
  BY DEF Subscribe, channels, history
<1>4. Channels'
  BY <1>2, <1>3 DEF Channels
<1>5. ASSUME NEW d \in Sessions PROVE Apart(d)
  BY <1>2, <1>3 DEF Apart
<1>6. registered' \subseteq Sessions /\ retiring' \subseteq Sessions
      /\ hubClosed' \in BOOLEAN /\ done' \in [Sessions -> BOOLEAN]
  BY <1>3 DEF TypeOK
<1> QED BY <1>2, <1>3, <1>4, <1>5, <1>6, HubKeeps

\* Refused, Unsubscribe and CloseOwnDone: a session leaves, and closes its done
\* channel only if it found itself registered.
LEMMA LeaveKeeps ==
  ASSUME StreamIInv, NEW c \in Sessions, Refused(c) \/ Unsubscribe(c) \/ CloseOwnDone(c)
  PROVE  StreamIInv'
<1> TypeOK /\ Channels
  BY DEF StreamIInv
<1>1. done \in [Sessions -> BOOLEAN] /\ session \in [Sessions -> SessionRecords]
  BY SessionTypes
<1> PICK pc \in {"closing", "left"} :
      /\ SessionStep(c, pc)
      /\ \/ session[c].pc = "new" /\ pc = "left" /\ UNCHANGED <<registered, done>>
         \/ /\ session[c].pc = "leaving" /\ pc = (IF c \in registered THEN "closing" ELSE "left")
            /\ registered' = registered \ {c} /\ UNCHANGED done
         \/ /\ session[c].pc = "closing" /\ pc = "left" /\ done' = [done EXCEPT ![c] = TRUE]
            /\ UNCHANGED registered
  <2>1. CASE Refused(c)
    BY <2>1 DEF Refused, hub, channels
  <2>2. CASE Unsubscribe(c)
    BY <2>2 DEF Unsubscribe, channels
  <2>3. CASE CloseOwnDone(c)
    BY <2>3 DEF CloseOwnDone, hub
  <2> QED BY <2>1, <2>2, <2>3
<1>2. UNCHANGED <<ledger, nextDelivery, publisher, queue, sent, lost, hubClosed, retiring>>
  BY DEF Refused, Unsubscribe, CloseOwnDone, hub, channels, history
<1> PICK t \in SessionRecords :
      /\ session' = [session EXCEPT ![c] = t]
      /\ t.pc = pc /\ SameReader(session[c], t) /\ t.replay = session[c].replay
      /\ t.lastSent = session[c].lastSent
  BY StepServes
<1>3. /\ session' \in [Sessions -> SessionRecords] /\ session'[c] = t
      /\ \A d \in Sessions : d # c => session'[d] = session[d]
  BY <1>1
<1>4. done' \in [Sessions -> BOOLEAN] /\ \A d \in Sessions : d # c => done'[d] = done[d]
  BY <1>1
<1>5. Channels'
  <2>1. (hubClosed' => registered' = {}) /\ (~ hubClosed' => retiring' = {})
    BY <1>2 DEF Channels
  <2>2. ASSUME NEW d \in Sessions, d # c
        PROVE  /\ d \in registered' => session'[d].pc \notin {"new", "closing", "left"}
               /\ d \in retiring' => session'[d].pc \notin {"new", "closing"}
               /\ done'[d] => d \notin registered' \cup retiring' /\ session'[d].pc \notin {"new", "closing"}
    <3>1. d \in registered' => d \in registered
      OBVIOUS
    <3> QED BY <3>1, <2>2, <1>2, <1>3, <1>4 DEF Channels
  <2>3. /\ c \in registered' => session'[c].pc \notin {"new", "closing", "left"}
        /\ c \in retiring' => session'[c].pc \notin {"new", "closing"}
        /\ done'[c] => c \notin registered' \cup retiring' /\ session'[c].pc \notin {"new", "closing"}
    BY <1>1, <1>2, <1>3 DEF Channels
  <2> QED BY <2>1, <2>2, <2>3 DEF Channels
<1>6. ASSUME NEW d \in Sessions PROVE Apart(d)
  BY <1>3 DEF Apart
<1>7. registered' \subseteq Sessions /\ retiring' \subseteq Sessions /\ hubClosed' \in BOOLEAN
  BY <1>2 DEF TypeOK
<1> QED BY <1>2, <1>3, <1>4, <1>5, <1>6, <1>7, HubKeeps

\* hub.close: the subscribers are handed over to be closed, then closed.
LEMMA CloseKeeps ==
  ASSUME StreamIInv, CloseHub \/ \E c \in Sessions : CloseDone(c)
  PROVE  StreamIInv'
<1> TypeOK /\ Channels
  BY DEF StreamIInv
<1>1. done \in [Sessions -> BOOLEAN] /\ session \in [Sessions -> SessionRecords]
  BY DEF TypeOK, SessionRecords
<1>2. CASE CloseHub
  <2>1. /\ ~ hubClosed /\ hubClosed' = TRUE /\ retiring' = registered /\ registered' = {}
        /\ UNCHANGED <<ledger, nextDelivery, publisher, queue, sent, lost, done, session>>
    BY <1>2 DEF CloseHub, channels, history
  <2>2. Channels'
    BY <2>1 DEF Channels
  <2>3. \A d \in Sessions : Apart(d)
    BY <2>1 DEF Apart
  <2>4. registered' \subseteq Sessions /\ retiring' \subseteq Sessions
        /\ hubClosed' \in BOOLEAN /\ done' \in [Sessions -> BOOLEAN]
    BY <2>1 DEF TypeOK
  <2> QED BY <1>1, <2>1, <2>2, <2>3, <2>4, HubKeeps
<1>3. ASSUME NEW c \in Sessions, CloseDone(c) PROVE StreamIInv'
  <2>1. /\ c \in retiring /\ retiring' = retiring \ {c} /\ done' = [done EXCEPT ![c] = TRUE]
        /\ UNCHANGED <<ledger, nextDelivery, publisher, queue, sent, lost, registered, hubClosed, session>>
    BY <1>3 DEF CloseDone, history
  <2>2. Channels'
    BY <2>1, <1>1 DEF Channels
  <2>3. \A d \in Sessions : Apart(d)
    BY <2>1 DEF Apart
  <2>4. registered' \subseteq Sessions /\ retiring' \subseteq Sessions
        /\ hubClosed' \in BOOLEAN /\ done' \in [Sessions -> BOOLEAN]
    BY <2>1, <1>1 DEF TypeOK
  <2> QED BY <1>1, <2>1, <2>2, <2>3, <2>4, HubKeeps
<1> QED BY <1>2, <1>3

-----------------------------------------------------------------------------
(* Publishers                                                              *)

\* At most one publisher has the turn, and it publishes nextDelivery.
LEMMA OneSender ==
  ASSUME TypeOK, Turns, NEW p \in Publishers, publisher[p].pc # "idle",
         publisher[p].event = nextDelivery
  PROVE  \A q \in Publishers : publisher[q].pc = "sending" => q = p
BY DEF Turns

\* What a step of publisher p to record u leaves of the others.
LEMMA PublisherTypes ==
  ASSUME TypeOK, NEW p \in Publishers, NEW u \in PublisherRecords,
         publisher' = [publisher EXCEPT ![p] = u]
  PROVE  /\ publisher' \in [Publishers -> PublisherRecords] /\ publisher'[p] = u
         /\ \A q \in Publishers : q # p => publisher'[q] = publisher[q]
BY DEF TypeOK, PublisherRecords

\* append takes the next number, and the ring stays contiguous.
LEMMA AppendKeeps ==
  ASSUME StreamIInv, NEW p \in Publishers, AppendEvent(p)
  PROVE  StreamIInv'
<1> USE DEF StreamIInv
<1>1. ledger \in Ledgers /\ RingOf(ledger)
  BY RingIsRingOf DEF TypeOK, Ledgers
<1>2. ledger' \in Ledgers /\ RingOf(ledger') /\ ledger'.sequence = ledger.sequence + 1
  BY <1>1, AppendKeepsRing DEF AppendEvent
<1> PICK u : u = [pc |-> "waiting", event |-> ledger.sequence + 1, queues |-> {}]
  OBVIOUS
<1>3. ledger.sequence \in Nat /\ nextDelivery \in Nat \ {0}
  BY DEF TypeOK
<1>4. u \in PublisherRecords /\ u.pc = "waiting" /\ u.event = ledger.sequence + 1
  BY <1>3 DEF PublisherRecords
<1>5. publisher[p].pc = "idle" /\ publisher' = [publisher EXCEPT ![p] = u]
  BY <1>2 DEF AppendEvent
<1>6. /\ publisher' \in [Publishers -> PublisherRecords] /\ publisher'[p] = u
      /\ \A q \in Publishers : q # p => publisher'[q] = publisher[q]
  BY <1>4, <1>5, PublisherTypes
<1>7. UNCHANGED <<nextDelivery, registered, hubClosed, retiring, queue, done, session, sent, lost>>
  BY DEF AppendEvent, hub, channels, history
<1>8. \A c \in Sessions : Passed(c)' <=> Passed(c)
  BY <1>4, <1>5, <1>6 DEF Passed
<1>9. TypeOK'
  BY <1>2, <1>6, <1>7 DEF TypeOK, Ledgers, PublisherRecords
<1>10. Ring'
  <2>1. RingOf(ledger)' <=> Ring'
    BY RingIsRingOf, PTL
  <2> QED BY <1>2, <2>1 DEF RingOf
<1>11. Channels'
  BY <1>7 DEF Channels
<1>12. Turns'
  <2>1. nextDelivery' <= ledger'.sequence + 1
    BY <1>2, <1>3, <1>7 DEF Turns
  <2>2. ASSUME NEW q \in Publishers
        PROVE  publisher[q].event \in Nat /\ (publisher[q].pc # "idle" => publisher[q].event <= ledger.sequence)
    BY DEF TypeOK, Turns
  <2>3. ASSUME NEW q \in Publishers, publisher'[q].pc # "idle"
        PROVE  /\ nextDelivery <= publisher'[q].event
               /\ publisher'[q].event <= ledger'.sequence
               /\ publisher'[q].pc = "sending" => publisher'[q].event = nextDelivery
               /\ \A r \in Publishers :
                    publisher'[r].pc # "idle" /\ publisher'[r].event = publisher'[q].event => r = q
    <3>1. CASE q = p
      <4>1. \A r \in Publishers : r # p /\ publisher'[r].pc # "idle" => publisher'[r].event # u.event
        BY <2>2, <1>3, <1>4, <1>6
      <4> QED BY <4>1, <3>1, <1>2, <1>3, <1>4, <1>6 DEF Turns
    <3>2. CASE q # p
      <4>1. publisher'[q] = publisher[q] /\ publisher[q].event # u.event
        BY <3>2, <2>2, <2>3, <1>3, <1>4, <1>6
      <4>2. ASSUME NEW r \in Publishers, publisher'[r].pc # "idle", publisher'[r].event = publisher'[q].event
            PROVE  r = q
        <5>1. r # p
          BY <4>1, <4>2, <1>6
        <5> QED BY <5>1, <4>1, <4>2, <2>3, <1>6 DEF Turns
      <4>3. publisher[q].event <= ledger'.sequence
        BY <4>1, <2>2, <2>3, <1>2, <1>3
      <4> QED BY <4>1, <4>2, <4>3, <2>3 DEF Turns
    <3> QED BY <3>1, <3>2
  <2> QED BY <2>1, <2>3, <1>7 DEF Turns
<1>13. Queues'
  BY <1>7, <1>8 DEF Queues
<1>14. ASSUME NEW c \in Sessions PROVE Stream(c)'
  BY <1>7, <1>8, StreamKept
<1> QED BY <1>9, <1>10, <1>11, <1>12, <1>13, <1>14

\* CollectQueues: no one else has the turn, so no queue has the event yet.
LEMMA CollectKeeps ==
  ASSUME StreamIInv, NEW p \in Publishers, CollectQueues(p)
  PROVE  StreamIInv'
<1> USE DEF StreamIInv
<1>1. /\ publisher[p].pc = "waiting" /\ publisher[p].event = nextDelivery
      /\ UNCHANGED <<ledger, nextDelivery, registered, hubClosed, retiring, queue, done, session, sent, lost>>
  BY DEF CollectQueues, MyTurn, hub, channels, history
<1> PICK u : u = [publisher[p] EXCEPT !.pc = "sending", !.queues = registered]
  OBVIOUS
<1>2. publisher \in [Publishers -> PublisherRecords] /\ registered \in SUBSET Sessions
  BY DEF TypeOK, PublisherRecords
<1>3. u \in PublisherRecords /\ u.pc = "sending" /\ u.event = publisher[p].event /\ u.queues = registered
  BY <1>2 DEF PublisherRecords
<1>4. publisher' = [publisher EXCEPT ![p] = u]
  BY <1>2 DEF CollectQueues
<1>5. /\ publisher' \in [Publishers -> PublisherRecords] /\ publisher'[p] = u
      /\ \A q \in Publishers : q # p => publisher'[q] = publisher[q]
  BY <1>3, <1>4, PublisherTypes
<1>6. \A q \in Publishers : publisher[q].pc # "sending"
  BY <1>1, OneSender
<1>7. \A c \in Sessions : ~ Passed(c)
  BY <1>6 DEF Passed
<1>8. \A c \in Sessions : c \in registered => ~ Passed(c)'
  BY <1>3, <1>5, <1>6 DEF Passed
<1>9. TypeOK'
  BY <1>1, <1>5 DEF TypeOK, PublisherRecords
<1>10. Ring'
  BY <1>1 DEF Ring, LedgerContiguous, Retained
<1>11. Channels'
  BY <1>1 DEF Channels
<1>12. Turns'
  <2>1. \A q \in Publishers : /\ publisher'[q].event = publisher[q].event
                              /\ publisher'[q].pc = "idle" <=> publisher[q].pc = "idle"
                              /\ publisher'[q].pc = "sending" => publisher[q].pc = "sending" \/ q = p
    BY <1>1, <1>3, <1>5
  <2> QED BY <2>1, <1>1 DEF Turns
<1>13. Queues'
  BY <1>1, <1>7 DEF Queues
<1>14. ASSUME NEW c \in Sessions PROVE Stream(c)'
  BY <1>1, <1>8, StreamKept
<1> QED BY <1>9, <1>10, <1>11, <1>12, <1>13, <1>14

\* Offer: the event is later than all of the queue, and it goes there or is
\* counted as dropped.
LEMMA OfferKeeps ==
  ASSUME StreamIInv, NEW p \in Publishers, NEW c \in Sessions, Offer(p, c)
  PROVE  StreamIInv'
<1> USE DEF StreamIInv
<1> PICK n \in Nat \ {0} : n = nextDelivery
  BY DEF TypeOK
<1>1. /\ publisher[p].pc = "sending" /\ c \in publisher[p].queues
      /\ UNCHANGED <<ledger, nextDelivery, registered, hubClosed, retiring, done, session, sent>>
  BY DEF Offer, hub
<1>2. publisher[p].event = n
  BY <1>1 DEF Turns
<1> PICK q \in Seq(Nat), k \in SUBSET Nat :
      /\ queue' = [queue EXCEPT ![c] = q] /\ lost' = [lost EXCEPT ![c] = k]
      /\ \/ q = Append(queue[c], n) /\ k = lost[c]
         \/ q = queue[c] /\ k = lost[c] \cup {n}
  <2>1. /\ queue \in [Sessions -> Seq(Nat)] /\ lost \in [Sessions -> SUBSET Nat]
        /\ queue[c] \in Seq(Nat) /\ lost[c] \in SUBSET Nat
        /\ Append(queue[c], n) \in Seq(Nat)
    BY DEF TypeOK
  <2>2. CASE queue' = [queue EXCEPT ![c] = Append(@, publisher[p].event)] /\ lost' = lost
    BY <2>1, <2>2, <1>2
  <2>3. CASE queue' = queue /\ lost' = [lost EXCEPT ![c] = @ \cup {publisher[p].event}]
    BY <2>1, <2>3, <1>2
  <2> QED BY <2>2, <2>3 DEF Offer
<1>3. /\ queue' \in [Sessions -> Seq(Nat)] /\ lost' \in [Sessions -> SUBSET Nat]
      /\ queue'[c] = q /\ lost'[c] = k
      /\ \A d \in Sessions : d # c => queue'[d] = queue[d] /\ lost'[d] = lost[d]
  BY DEF TypeOK
<1> PICK u : u = [publisher[p] EXCEPT !.queues = @ \ {c}]
  OBVIOUS
<1>4. /\ publisher \in [Publishers -> PublisherRecords] /\ publisher[p] \in PublisherRecords
  BY DEF TypeOK, PublisherRecords
<1>5. /\ u \in PublisherRecords /\ u.pc = "sending" /\ u.event = publisher[p].event
      /\ u.queues = publisher[p].queues \ {c}
  BY <1>1, <1>4 DEF PublisherRecords
<1>6. publisher' = [publisher EXCEPT ![p] = u]
  BY <1>4 DEF Offer
<1>7. /\ publisher' \in [Publishers -> PublisherRecords] /\ publisher'[p] = u
      /\ \A r \in Publishers : r # p => publisher'[r] = publisher[r]
  BY <1>5, <1>6, PublisherTypes
<1>8. \A r \in Publishers : publisher[r].pc = "sending" => r = p
  BY <1>1, <1>2, OneSender
<1>9. ~ Passed(c) /\ Passed(c)' /\ \A d \in Sessions : d # c => (Passed(d)' <=> Passed(d))
  BY <1>1, <1>5, <1>7, <1>8 DEF Passed
<1>10. /\ Increasing(q) /\ Range(queue[c]) \subseteq Range(q) /\ lost[c] \subseteq k
       /\ Range(q) \subseteq Range(queue[c]) \cup {n} /\ (n \in Range(q) \/ n \in k)
       /\ \A e \in Range(queue[c]) : e \in Nat /\ e < n
  <2>1. queue[c] \in Seq(Nat) /\ Increasing(queue[c])
    BY DEF TypeOK, Queues
  <2>2. \A e \in Range(queue[c]) : e \in Nat /\ e < n
    <3> TAKE e \in Range(queue[c])
    <3>1. e \in Nat
      BY <2>1, RangeIsNat
    <3>2. e <= n /\ e # n
      BY <1>9 DEF Queues
    <3> QED BY <3>1, <3>2
  <2>3. Increasing(Append(queue[c], n)) /\ Range(Append(queue[c], n)) = Range(queue[c]) \cup {n}
    BY <2>1, <2>2, AppendLater
  <2> QED BY <2>1, <2>2, <2>3
<1>11. TypeOK'
  BY <1>1, <1>3, <1>7 DEF TypeOK, PublisherRecords
<1>12. Ring'
  BY <1>1 DEF Ring, LedgerContiguous, Retained
<1>13. Channels'
  BY <1>1 DEF Channels
<1>14. Turns'
  <2>1. \A r \in Publishers : publisher'[r].event = publisher[r].event /\ publisher'[r].pc = publisher[r].pc
    BY <1>1, <1>5, <1>7
  <2> QED BY <2>1, <1>1 DEF Turns
<1>15. Queues'
  <2> SUFFICES ASSUME NEW d \in Sessions
               PROVE  /\ Increasing(queue'[d])
                      /\ \A e \in Range(queue'[d]) : e <= n /\ (e = n => Passed(d)')
    BY <1>1 DEF Queues
  <2>1. CASE d = c
    BY <2>1, <1>3, <1>9, <1>10
  <2>2. CASE d # c
    BY <2>2, <1>3, <1>9 DEF Queues
  <2> QED BY <2>1, <2>2
<1>16. ASSUME NEW d \in Sessions PROVE Stream(d)'
  <2>1. CASE d = c
    <3>1. SameReader(session[c], session[c])
      BY DEF SameReader
    <3>2. Covers(session[c], sent[c], queue[c], lost[c], n) => Covers(session[c], sent[c], q, k, n)
      BY <3>1, <1>10, CoversMonotone
    <3>3. Arrived(session[c], sent[c], q, k, n)
      BY <1>10 DEF Arrived, Settled
    <3>4. /\ session'[c] = session[c] /\ sent'[c] = sent[c] /\ nextDelivery' = n
          /\ registered' = registered
      BY <1>1
    <3>5. Stream(c)
      OBVIOUS
    <3> QED BY <2>1, <3>2, <3>3, <3>4, <3>5, <1>3 DEF Stream
  <2>2. CASE d # c
    BY <2>2, <1>1, <1>3, <1>9, StreamKept
  <2> QED BY <2>1, <2>2
<1> QED BY <1>11, <1>12, <1>13, <1>14, <1>15, <1>16

\* PassTurn: everyone registered has been offered the event.
LEMMA PassKeeps ==
  ASSUME StreamIInv, NEW p \in Publishers, PassTurn(p)
  PROVE  StreamIInv'
<1> USE DEF StreamIInv
<1> PICK n \in Nat \ {0} : n = nextDelivery
  BY DEF TypeOK
<1>1. /\ publisher[p].pc = "sending" /\ publisher[p].queues = {} /\ nextDelivery' = n + 1
      /\ UNCHANGED <<ledger, registered, hubClosed, retiring, queue, done, session, sent, lost>>
  BY DEF PassTurn, hub, channels, history
<1>2. publisher[p].event = n /\ n <= ledger.sequence /\ ledger.sequence \in Nat
  BY <1>1 DEF Turns, TypeOK
<1> PICK u : u = [publisher[p] EXCEPT !.pc = "idle"]
  OBVIOUS
<1>3. publisher \in [Publishers -> PublisherRecords] /\ publisher[p] \in PublisherRecords
  BY DEF TypeOK, PublisherRecords
<1>4. u \in PublisherRecords /\ u.pc = "idle"
  BY <1>3 DEF PublisherRecords
<1>5. publisher' = [publisher EXCEPT ![p] = u]
  BY <1>3 DEF PassTurn, PublisherStep
<1>6. /\ publisher' \in [Publishers -> PublisherRecords] /\ publisher'[p] = u
      /\ \A r \in Publishers : r # p => publisher'[r] = publisher[r]
  BY <1>4, <1>5, PublisherTypes
<1>7. \A r \in Publishers : publisher[r].pc = "sending" => r = p
  BY <1>1, <1>2, OneSender
<1>8. \A c \in Sessions : Passed(c) /\ ~ Passed(c)'
  BY <1>1, <1>4, <1>6, <1>7 DEF Passed
<1>9. TypeOK'
  BY <1>1, <1>6 DEF TypeOK, PublisherRecords
<1>10. Ring'
  BY <1>1 DEF Ring, LedgerContiguous, Retained
<1>11. Channels'
  BY <1>1 DEF Channels
<1>12. Turns'
  <2>1. nextDelivery' <= ledger'.sequence + 1
    BY <1>1, <1>2
  <2>2. ASSUME NEW q \in Publishers, publisher'[q].pc # "idle"
        PROVE  q # p /\ publisher'[q] = publisher[q] /\ publisher[q].pc # "idle" /\ publisher[q].pc # "sending"
    BY <2>2, <1>4, <1>6, <1>7
  <2>3. ASSUME NEW q \in Publishers, publisher'[q].pc # "idle"
        PROVE  n + 1 <= publisher[q].event /\ publisher[q].event <= ledger.sequence
    <3>1. publisher[q].event \in Nat /\ n <= publisher[q].event /\ publisher[q].event <= ledger.sequence
      BY <2>2, <2>3 DEF Turns, TypeOK
    <3>2. publisher[q].event # n
      BY <2>2, <2>3, <1>1, <1>2 DEF Turns
    <3> QED BY <3>1, <3>2
  <2> QED BY <2>1, <2>2, <2>3, <1>1 DEF Turns
<1>13. Queues'
  <2> SUFFICES ASSUME NEW d \in Sessions
               PROVE  /\ Increasing(queue'[d])
                      /\ \A e \in Range(queue'[d]) : e <= n + 1 /\ e # n + 1
    BY <1>1 DEF Queues
  <2>1. queue'[d] = queue[d] /\ queue[d] \in Seq(Nat)
    BY <1>1 DEF TypeOK
  <2>2. \A e \in Range(queue[d]) : e \in Nat /\ e <= n
    BY <2>1, RangeIsNat DEF Queues
  <2> QED BY <2>1, <2>2 DEF Queues
<1>14. ASSUME NEW c \in Sessions PROVE Stream(c)'
  <2>1. Stream(c) /\ Passed(c) /\ ~ Passed(c)'
    BY <1>8
  <2>2. /\ Covers(session[c], sent[c], queue[c], lost[c], n)
        /\ Arrived(session[c], sent[c], queue[c], lost[c], n)
        => Covers(session[c], sent[c], queue[c], lost[c], n + 1)
    BY CoversNext
  <2> QED BY <2>1, <2>2, <1>1 DEF Stream
<1> QED BY <1>9, <1>10, <1>11, <1>12, <1>13, <1>14

-----------------------------------------------------------------------------
(* The theorems                                                            *)

\* Every step keeps the inductive invariant.
LEMMA StreamStep == StreamIInv /\ [Next]_vars => StreamIInv'
<1> SUFFICES ASSUME StreamIInv, [Next]_vars PROVE StreamIInv'
  OBVIOUS
<1>1. ASSUME NEW p \in Publishers, AppendEvent(p) \/ Delivering(p) PROVE StreamIInv'
  BY <1>1, AppendKeeps, CollectKeeps, OfferKeeps, PassKeeps DEF Delivering
<1>2. ASSUME NEW c \in Sessions, Serving(c) PROVE StreamIInv'
  BY <1>2, SnapshotKeeps, AnnounceKeeps, ReplayKeeps, MoveKeeps, LeaveKeeps DEF Serving
<1>3. ASSUME NEW c \in Sessions,
             Subscribe(c) \/ Refused(c) \/ Receive(c) \/ GiveUp(c) \/ CloseDone(c)
      PROVE  StreamIInv'
  BY <1>3, SubscribeKeeps, LeaveKeeps, ReceiveKeeps, MoveKeeps, CloseKeeps
<1>4. CASE CloseHub
  BY <1>4, CloseKeeps
<1>5. CASE UNCHANGED vars
  <2>1. /\ ledger' = ledger /\ nextDelivery' = nextDelivery /\ publisher' = publisher
        /\ registered' = registered /\ hubClosed' = hubClosed /\ retiring' = retiring
        /\ queue' = queue /\ done' = done /\ session' = session /\ sent' = sent /\ lost' = lost
    BY <1>5 DEF vars
  <2>2. Channels' /\ \A d \in Sessions : Apart(d)
    BY <2>1 DEF StreamIInv, Channels, Apart
  <2>3. TypeOK
    BY DEF StreamIInv
  <2> QED BY <2>1, <2>2, <2>3, HubKeeps DEF TypeOK, SessionRecords
<1> QED BY <1>1, <1>2, <1>3, <1>4, <1>5 DEF Next

\* The invariant holds before anyone has published or subscribed.
LEMMA StreamStart == Init => StreamIInv
<1> SUFFICES ASSUME Init PROVE StreamIInv
  OBVIOUS
<1> LedgerCapacity \in Nat \ {0}
  BY StreamAssumption
<1> PICK s0 : s0 = [pc |-> "new", cursor |-> 0, replay |-> NoSnapshot, lastSent |-> 0]
  OBVIOUS
<1>1. /\ s0 \in SessionRecords /\ s0.pc = "new" /\ s0.replay = NoSnapshot
  BY EmptyFacts DEF SessionRecords, Snapshots, NoSnapshot
<1>2. \A c \in Sessions : session[c] = s0 /\ sent[c] = <<>> /\ queue[c] = <<>>
  BY DEF Init
<1>3. TypeOK
  <2>1. 0 \in Slots /\ 0 \in 0 .. LedgerCapacity
    BY DEF Slots
  <2>2. ledger \in [entries : [Slots -> Nat], start : Slots, count : 0 .. LedgerCapacity, sequence : Nat]
    BY <2>1 DEF Init
  <2>3. session \in [Sessions -> SessionRecords]
    BY <1>1 DEF Init
  <2>4. queue \in [Sessions -> Seq(Nat)] /\ sent \in [Sessions -> Seq(Nat)]
    BY EmptyFacts DEF Init
  <2>5. publisher \in [Publishers -> PublisherRecords]
    BY DEF Init, PublisherRecords
  <2>6. nextDelivery \in Nat \ {0}
    BY DEF Init
  <2>9. registered \subseteq Sessions /\ hubClosed \in BOOLEAN /\ retiring \subseteq Sessions
    BY Zenon DEF Init
  <2>7. done \in [Sessions -> BOOLEAN]
    BY DEF Init
  <2>8. lost \in [Sessions -> SUBSET Nat]
    <3>1. lost = [c \in Sessions |-> {}] /\ {} \in SUBSET Nat
      BY DEF Init
    <3> QED BY <3>1
  <2> QED BY <2>2, <2>3, <2>4, <2>5, <2>6, <2>7, <2>8, <2>9 DEF TypeOK, SessionRecords, PublisherRecords
<1>4. Ring
  BY DEF Init, Ring, LedgerContiguous
<1>5. Channels
  BY DEF Init, Channels
<1>6. Turns
  BY DEF Init, Turns
<1>7. Queues
  BY <1>2, EmptyFacts DEF Queues
<1>8. ASSUME NEW c \in Sessions PROVE Stream(c)
  <2>1. Wrote(session[c], sent[c])
    BY <1>1, <1>2, EmptyFacts DEF Wrote
  <2>2. SnapshotSound(NoSnapshot)
    BY EmptyFacts DEF SnapshotSound, NoSnapshot
  <2> QED BY <2>1, <2>2, <1>1, <1>2 DEF Stream
<1> QED BY <1>3, <1>4, <1>5, <1>6, <1>7, <1>8 DEF StreamIInv

\* The inductive invariant holds throughout.
LEMMA StreamKeeps == Spec => []StreamIInv
BY StreamStart, StreamStep, PTL DEF Spec

\* For every capacity and any number of goroutines, eventLedger.append keeps the
\* ring contiguous and the hub closes no done channel twice.
THEOREM HubCorrect == Spec => []HubInv
<1>1. StreamIInv => HubInv
  <2> SUFFICES ASSUME StreamIInv PROVE HubInv
    OBVIOUS
  <2>1. DoneClosedOnce
    BY DEF StreamIInv, Channels, DoneClosedOnce
  <2> QED BY <2>1 DEF StreamIInv, Ring, HubInv
<1> QED BY <1>1, StreamKeeps, PTL

\* Every stream serveSSE writes is in the order of the ledger and without
\* repetition, and so is every subscriber's queue.
THEOREM StreamsInOrder == Spec => []StreamInOrder
<1>1. StreamIInv => StreamInOrder
  BY DEF StreamIInv, Stream, Wrote, Queues, StreamInOrder
<1> QED BY <1>1, StreamKeeps, PTL

\* No event that was delivered is missed by a live stream it is owed to, unless
\* hub.publish counted it as dropped: the replay and the queue overlap.  Only a
\* cursor brought to an empty ledger withholds events that were not yet published.
THEOREM NothingLostSilently == Spec => []NoSilentLoss
<1>1. StreamIInv => NoSilentLoss
  <2> SUFFICES ASSUME StreamIInv, NEW c \in Sessions,
                      session[c].pc = "streaming", c \in registered,
                      NEW e \in 1 .. nextDelivery - 1
               PROVE  e \in Withheld(c) \/ Accounted(c, e)
    BY DEF NoSilentLoss, Live
  <2>1. /\ Stream(c) /\ nextDelivery \in Nat \ {0} /\ ledger.sequence \in Nat
        /\ nextDelivery <= ledger.sequence + 1
    BY DEF StreamIInv, TypeOK, Turns
  <2>2. e \in Nat \ {0} /\ e < nextDelivery /\ e \in 1 .. ledger.sequence
    BY <2>1
  <2>3. /\ Covers(session[c], sent[c], queue[c], lost[c], nextDelivery)
        /\ session[c].replay.events = {}
    BY <2>1 DEF Stream
  <2>4. Settled(session[c], sent[c], lost[c], e) \/ e \in Range(queue[c])
    BY <2>2, <2>3 DEF Covers, Arrived
  <2>5. Exempt(session[c], e) => e \in Excused(c) \/ e \in Withheld(c)
    <3>1. session[c].cursor \in Nat
      BY DEF StreamIInv, TypeOK
    <3> QED BY <3>1, <2>2 DEF Exempt, Excused, Withheld
  <2> QED BY <2>4, <2>5 DEF Settled, Accounted
<1> QED BY <1>1, StreamKeeps, PTL

=============================================================================

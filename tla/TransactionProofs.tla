-------------------------- MODULE TransactionProofs --------------------------
(***************************************************************************)
(* Theorems about module Transaction, for every finite set of requests,    *)
(* every number of backends, of places and of attempts, both selectors and *)
(* every choice of failures.                                               *)
(***************************************************************************)
EXTENDS Transaction, FiniteSetTheorems, TLAPS

-----------------------------------------------------------------------------
(* What holds of one request.                                              *)

Tx == [pc : Steps, method : Methods \cup {None}, active : Nat, scan : Scans,
       attempt : Nat, attempted : SUBSET Backends, charged : SUBSET Backends,
       backend : Backends \cup {None}, response : Responses,
       lastFailure : Kinds \cup {None}, lastRetryResponse : Responses,
       reply : Responses]

Events == [type : {"started", "selected", "failed", "retry", "completed"},
           attempt : Nat, backend : Backends \cup {None}]

\* The steps between the start of an attempt and its reservation.
Searching == {"started", "picking", "shifting", "scanning"}

Complete(order) == \A b \in Backends : \E k \in Backends : order[k] = b

\* While candidateOrder sorts, no backend gets lost: the order is complete, but
\* for the one that is held in value while there is a hole.  While
\* reserveInOrder scans, what is behind it was tried or attempted.
ScanSound(t) ==
  /\ t.pc = "picking" => Complete(t.scan.order) /\ t.scan.next \in 1 .. BackendCount
  /\ t.pc = "shifting" =>
       /\ t.scan.hole \in Backends /\ t.scan.next \in 1 .. BackendCount - 1
       /\ \A b \in Backends : b # t.scan.value =>
            \E k \in Backends : k # t.scan.hole /\ t.scan.order[k] = b
  /\ t.pc = "scanning" =>
       /\ Complete(t.scan.order) /\ t.scan.next \in 0 .. BackendCount
       /\ \A k \in Backends :
            k < t.scan.next => t.scan.order[k] \in t.scan.tried \cup t.attempted
  /\ t.pc = "unreserved" => t.scan.tried \cup t.attempted = Backends

\* Attempts are numbered up to MaxAttempts, only a GET has a second one, and an
\* answer that no backend gave is not a success and tells of an error.
AttemptSound(t) ==
  /\ t.attempt \in 1 .. MaxAttempts
  /\ t.pc = "arriving" => t.attempt = 1
  /\ t.method # "GET" => t.attempt = 1
  /\ t.pc = "again" => t.method = "GET" /\ t.attempt < MaxAttempts
  /\ t.pc \in {"attempting", "failed", "responded", "again"} => t.backend \in Backends
  /\ t.pc = "responded" => t.response.from = t.backend
  /\ Generated(t.lastRetryResponse) => t.lastRetryResponse = NoResponse
  /\ t.pc \in {"answering", "answered"} /\ Generated(t.reply) =>
       t.reply.status \notin 200 .. 399 /\ t.reply.error

\* The most that an attempt has told when the request is at a step.
Told(pc) ==
  IF pc \in Searching THEN 0
  ELSE IF pc \in {"unreserved", "attempting", "responded"} THEN 1
  ELSE IF pc \in {"failed", "again", "answering"} THEN 2
  ELSE 3

\* The trail of a request is empty before it starts, grows by at most three for
\* each attempt, starts and completes once, and announces a retry only in front
\* of the attempt that follows.
TrailSound(t, e) ==
  /\ t.pc \in {"arriving", "counted"} => e = <<>>
  /\ t.pc \notin {"arriving", "counted"} =>
       Len(e) >= 1 /\ Len(e) <= 3 * t.attempt - 2 + Told(t.pc)
  /\ \A i \in 1 .. Len(e) : e[i].type = "started" => i = 1
  /\ \A i \in 1 .. Len(e) :
       e[i].type = "completed" => i = Len(e) /\ t.pc = "answered"
  /\ \A i \in 1 .. Len(e) : e[i].type = "retry" =>
       IF i < Len(e)
       THEN e[i + 1].attempt = e[i].attempt /\ e[i + 1].type \in {"selected", "failed"}
       ELSE t.pc \in Searching /\ e[i].attempt = t.attempt
  /\ t.pc = "answered" =>
       Len(e) >= 2 /\ e[Len(e)].type = "completed" /\ e[Len(e) - 1].type # "retry"

FailureTold(e, b) == \E i \in 1 .. Len(e) : e[i].type = "failed" /\ e[i].backend = b

\* A failure that counts against a backend is told, or is about to be.
ChargesTold(t, e) ==
  \A b \in t.charged :
    \/ FailureTold(e, b)
    \/ t.pc = "responded" /\ t.backend = b
    \/ t.pc \in {"answering", "answered"} /\ t.reply.from = b

Selected(e) == {i \in 1 .. Len(e) : e[i].type = "selected"}

\* The backends that were selected are the ones excluded from the next selection.
SelectionsTold(t, e) ==
  /\ \A i, j \in Selected(e) : i # j => e[i].backend # e[j].backend
  /\ t.pc # "answered" => \A i \in Selected(e) : e[i].backend \in t.attempted
  /\ t.pc \in {"arriving", "counted"} \cup Searching =>
       Cardinality(Selected(e)) <= t.attempt - 1
  /\ Cardinality(Selected(e)) <= t.attempt

RequestSound(t, e) ==
  /\ ScanSound(t) /\ AttemptSound(t)
  /\ TrailSound(t, e) /\ ChargesTold(t, e) /\ SelectionsTold(t, e)

Shape ==
  /\ sequence \in Backends /\ eligible \subseteq Backends /\ late \subseteq Requests
  /\ tx \in [Requests -> Tx] /\ trail \in [Requests -> Seq(Events)]

-----------------------------------------------------------------------------
(* What the counters say of all of them.                                   *)

Arrived == {r \in Requests : tx[r].pc # "arriving"}

Finished == {r \in Requests : tx[r].pc = "answered"}

Running == {r \in Requests : tx[r].pc \notin {"arriving", "answered"}}

\* These owe an attempt or a refusal.
Unplaced == {r \in Requests : tx[r].pc \in {"counted"} \cup Searching}

Attempting == {r \in Requests : tx[r].pc = "attempting"}

AttemptingAt(b) == {r \in Requests : tx[r].pc = "attempting" /\ tx[r].backend = b}

\* Failures and refusals that may still be, or were, answered by the proxy itself.
Owing == {r \in Requests :
            \/ tx[r].pc \in {"unreserved", "failed"}
            \/ tx[r].pc \in {"answering", "answered"} /\ Generated(tx[r].reply)}

GatewayErrors == {r \in Requests : tx[r].pc = "answered" /\ tx[r].reply.error}

Successes == {r \in Requests : tx[r].pc = "answered" /\ tx[r].reply.status \in 200 .. 399}

\* The requests that will raise the peak above n.
Raising(n) == {r \in Requests : tx[r].pc = "counted" /\ tx[r].active > n}

Places ==
  /\ inFlight \in [Backends -> 0 .. MaxInFlight]
  /\ \A b \in Backends : inFlight[b] = Cardinality(AttemptingAt(b))

Tallies ==
  /\ metrics \in [Counters -> Nat]
  /\ metrics["active"] = Cardinality(Running)
  /\ metrics["requests"] = Cardinality(Arrived)
  /\ metrics["completed"] = Cardinality(Finished)
  /\ metrics["attempts"] + metrics["refused"] + Cardinality(Unplaced) =
       metrics["requests"] + metrics["retries"]
  /\ metrics["failed"] + Cardinality(Attempting) <= metrics["attempts"]
  /\ metrics["gatewayErrors"] = Cardinality(GatewayErrors)
  /\ metrics["successes"] = Cardinality(Successes)
  /\ Cardinality(Owing) <= metrics["failed"] + metrics["refused"]

\* Whatever the peak will be raised to at least, the load is covered by that and
\* the requests that raise it further.
PeakSound ==
  \A n \in Nat : metrics["peak"] <= n =>
    metrics["active"] <= n + Cardinality(Raising(n))

TransactionIInv ==
  /\ Shape
  /\ \A r \in Requests : RequestSound(tx[r], trail[r])
  /\ Places /\ Tallies /\ PeakSound

-----------------------------------------------------------------------------
(* Records of the right kind.                                              *)

ScansOf(Orders) ==
  [order : Orders, next : Nat, hole : Nat, value : Backends, load : Nat,
   tried : SUBSET Backends, stateEligible : BOOLEAN]

\* What the steps of a selection make of its locals s.
Ordered(s, o, n) == [s EXCEPT !.order = o, !.next = n]
Picked(s, v, l, h) == [s EXCEPT !.value = v, !.load = l, !.hole = h]
Shifted(s, o, h) == [s EXCEPT !.order = o, !.hole = h]
Advanced(s, n) == [s EXCEPT !.next = n]
Tried(s, n, T) == [s EXCEPT !.next = n, !.tried = T]
Refused(s, n, T) == [s EXCEPT !.next = n, !.tried = T, !.stateEligible = TRUE]

\* A selection given an order and a position stays one, and so below.
LEMMA ScanOrdered ==
  ASSUME NEW s \in Scans, NEW o \in [Backends -> Backends], NEW n \in Nat
  PROVE  /\ Ordered(s, o, n) \in Scans
         /\ Ordered(s, o, n).order = o
         /\ Ordered(s, o, n).next = n
<1>1. PICK Orders : Orders = [Backends -> Backends]
  OBVIOUS
<1>2. ScansOf(Orders) = Scans
  BY <1>1, Zenon DEF Scans, ScansOf
<1>3. s \in ScansOf(Orders) /\ o \in Orders
  BY <1>1, <1>2
<1> HIDE <1>1
<1>4. /\ Ordered(s, o, n) \in ScansOf(Orders)
      /\ Ordered(s, o, n).order = o
      /\ Ordered(s, o, n).next = n
  BY <1>3, ZenonT(40) DEF ScansOf, Ordered
<1>5. QED
  BY <1>2, <1>4

\* A selection that takes an entry out.
LEMMA ScanPicked ==
  ASSUME NEW s \in Scans, NEW v \in Backends, NEW l \in Nat, NEW h \in Nat
  PROVE  /\ Picked(s, v, l, h) \in Scans
         /\ Picked(s, v, l, h).order = s.order
         /\ Picked(s, v, l, h).next = s.next
         /\ Picked(s, v, l, h).value = v
         /\ Picked(s, v, l, h).hole = h
<1>1. PICK Orders : Orders = [Backends -> Backends]
  OBVIOUS
<1>2. ScansOf(Orders) = Scans
  BY <1>1, Zenon DEF Scans, ScansOf
<1>3. s \in ScansOf(Orders)
  BY <1>1, <1>2
<1> HIDE <1>1
<1>4. /\ Picked(s, v, l, h) \in ScansOf(Orders)
      /\ Picked(s, v, l, h).order = s.order
      /\ Picked(s, v, l, h).next = s.next
      /\ Picked(s, v, l, h).value = v
      /\ Picked(s, v, l, h).hole = h
  BY <1>3, ZenonT(40) DEF ScansOf, Picked
<1>5. QED
  BY <1>2, <1>4

\* A selection that moves an entry, or puts it back.
LEMMA ScanShifted ==
  ASSUME NEW s \in Scans, NEW o \in [Backends -> Backends], NEW h \in Nat
  PROVE  /\ Shifted(s, o, h) \in Scans
         /\ Shifted(s, o, h).order = o
         /\ Shifted(s, o, h).next = s.next
         /\ Shifted(s, o, h).value = s.value
         /\ Shifted(s, o, h).hole = h
<1>1. PICK Orders : Orders = [Backends -> Backends]
  OBVIOUS
<1>2. ScansOf(Orders) = Scans
  BY <1>1, Zenon DEF Scans, ScansOf
<1>3. s \in ScansOf(Orders) /\ o \in Orders
  BY <1>1, <1>2
<1> HIDE <1>1
<1>4. /\ Shifted(s, o, h) \in ScansOf(Orders)
      /\ Shifted(s, o, h).order = o
      /\ Shifted(s, o, h).next = s.next
      /\ Shifted(s, o, h).value = s.value
      /\ Shifted(s, o, h).hole = h
  BY <1>3, ZenonT(40) DEF ScansOf, Shifted
<1>5. QED
  BY <1>2, <1>4

\* A selection that moves on.
LEMMA ScanAdvanced ==
  ASSUME NEW s \in Scans, NEW n \in Nat
  PROVE  /\ Advanced(s, n) \in Scans
         /\ Advanced(s, n).order = s.order
         /\ Advanced(s, n).next = n
         /\ Advanced(s, n).tried = s.tried
<1>1. PICK Orders : Orders = [Backends -> Backends]
  OBVIOUS
<1>2. ScansOf(Orders) = Scans
  BY <1>1, Zenon DEF Scans, ScansOf
<1>3. s \in ScansOf(Orders)
  BY <1>1, <1>2
<1> HIDE <1>1
<1>4. /\ Advanced(s, n) \in ScansOf(Orders)
      /\ Advanced(s, n).order = s.order
      /\ Advanced(s, n).next = n
      /\ Advanced(s, n).tried = s.tried
  BY <1>3 DEF ScansOf, Advanced
<1>5. QED
  BY <1>2, <1>4

\* A selection that has tried a backend.
LEMMA ScanTried ==
  ASSUME NEW s \in Scans, NEW n \in Nat, NEW T \in SUBSET Backends
  PROVE  /\ Tried(s, n, T) \in Scans
         /\ Tried(s, n, T).order = s.order
         /\ Tried(s, n, T).next = n
         /\ Tried(s, n, T).tried = T
<1>1. PICK Orders : Orders = [Backends -> Backends]
  OBVIOUS
<1>2. ScansOf(Orders) = Scans
  BY <1>1, Zenon DEF Scans, ScansOf
<1>3. s \in ScansOf(Orders)
  BY <1>1, <1>2
<1> HIDE <1>1
<1>4. /\ Tried(s, n, T) \in ScansOf(Orders)
      /\ Tried(s, n, T).order = s.order
      /\ Tried(s, n, T).next = n
      /\ Tried(s, n, T).tried = T
  BY <1>3, ZenonT(40) DEF ScansOf, Tried
<1>5. QED
  BY <1>2, <1>4

\* A selection that was refused a place.
LEMMA ScanRefused ==
  ASSUME NEW s \in Scans, NEW n \in Nat, NEW T \in SUBSET Backends
  PROVE  /\ Refused(s, n, T) \in Scans
         /\ Refused(s, n, T).order = s.order
         /\ Refused(s, n, T).next = n
         /\ Refused(s, n, T).tried = T
<1>1. PICK Orders : Orders = [Backends -> Backends]
  OBVIOUS
<1>2. ScansOf(Orders) = Scans
  BY <1>1, Zenon DEF Scans, ScansOf
<1>3. s \in ScansOf(Orders)
  BY <1>1, <1>2
<1> HIDE <1>1
<1>4. /\ Refused(s, n, T) \in ScansOf(Orders)
      /\ Refused(s, n, T).order = s.order
      /\ Refused(s, n, T).next = n
      /\ Refused(s, n, T).tried = T
  BY <1>3, ZenonT(40) DEF ScansOf, Refused
<1>5. QED
  BY <1>2, <1>4

\* No selection is a selection, and no response a response.
LEMMA Nothing == NoScan \in Scans /\ NoResponse \in Responses
<1>1. PICK Orders : Orders = [Backends -> Backends]
  OBVIOUS
<1>2. ScansOf(Orders) = Scans
  BY <1>1, Zenon DEF Scans, ScansOf
<1>3. [b \in Backends |-> b] \in Orders /\ 0 \in Backends
  BY <1>1, TransactionAssumption DEF Backends
<1> HIDE <1>1
<1>4. NoScan \in ScansOf(Orders)
  BY <1>3 DEF ScansOf, NoScan
<1>5. NoResponse \in Responses
  BY DEF NoResponse, Responses
<1>6. QED
  BY <1>2, <1>4, <1>5

\* The fields of a selection and of a request.
LEMMA Fields ==
  /\ \A s \in Scans :
       /\ s.order \in [Backends -> Backends] /\ s.next \in Nat /\ s.hole \in Nat
       /\ s.value \in Backends /\ s.load \in Nat /\ s.tried \subseteq Backends
       /\ s.stateEligible \in BOOLEAN
  /\ \A t \in Tx :
       /\ t.pc \in Steps /\ t.method \in Methods \cup {None} /\ t.active \in Nat
       /\ t.scan \in Scans /\ t.attempt \in Nat /\ t.attempted \subseteq Backends
       /\ t.charged \subseteq Backends /\ t.backend \in Backends \cup {None}
       /\ t.response \in Responses /\ t.lastFailure \in Kinds \cup {None}
       /\ t.lastRetryResponse \in Responses /\ t.reply \in Responses
<1>1. ASSUME NEW s \in Scans
      PROVE  /\ s.order \in [Backends -> Backends] /\ s.next \in Nat /\ s.hole \in Nat
             /\ s.value \in Backends /\ s.load \in Nat /\ s.tried \subseteq Backends
             /\ s.stateEligible \in BOOLEAN
  BY DEF Scans
<1>2. ASSUME NEW t \in Tx
      PROVE  /\ t.pc \in Steps /\ t.method \in Methods \cup {None} /\ t.active \in Nat
             /\ t.scan \in Scans /\ t.attempt \in Nat /\ t.attempted \subseteq Backends
             /\ t.charged \subseteq Backends /\ t.backend \in Backends \cup {None}
             /\ t.response \in Responses /\ t.lastFailure \in Kinds \cup {None}
             /\ t.lastRetryResponse \in Responses /\ t.reply \in Responses
  BY DEF Tx
<1>3. QED
  BY <1>1, <1>2

-----------------------------------------------------------------------------
(* Selecting a backend.                                                    *)

\* Backends are numbered from zero.
LEMMA BackendNumbers == \A k : k \in Backends <=> k \in Nat /\ k < BackendCount
  BY TransactionAssumption DEF Backends

\* candidateOrder starts with a rotation, which leaves out no backend.
LEMMA RotationComplete ==
  ASSUME NEW start \in Backends
  PROVE  /\ [offset \in Backends |-> (start + offset) % BackendCount]
              \in [Backends -> Backends]
         /\ Complete([offset \in Backends |-> (start + offset) % BackendCount])
         /\ NextStart(start) \in Backends
<1>1. BackendCount \in Nat \ {0} /\ start \in Nat /\ start < BackendCount
  BY TransactionAssumption DEF Backends
<1>2. ASSUME NEW x \in Nat, x < 2 * BackendCount
      PROVE  x % BackendCount = IF x < BackendCount THEN x ELSE x - BackendCount
  BY <1>1, <1>2
<1>3. \A k \in Backends : (start + k) % BackendCount \in Backends
  BY <1>1 DEF Backends
<1>4. ASSUME NEW b \in Backends
      PROVE  \E k \in Backends : (start + k) % BackendCount = b
  <2>1. CASE b >= start
    <3>1. b - start \in Backends /\ (start + (b - start)) % BackendCount = b
      BY <1>1, <1>2, <2>1 DEF Backends
    <3>2. QED
      BY <3>1
  <2>2. CASE b < start
    <3>1. /\ b - start + BackendCount \in Backends
          /\ (start + (b - start + BackendCount)) % BackendCount = b
      BY <1>1, <1>2, <2>2 DEF Backends
    <3>2. QED
      BY <3>1
  <2>3. QED
    BY <1>1, <2>1, <2>2 DEF Backends
<1>5. NextStart(start) \in Backends
  BY <1>1 DEF NextStart, Backends
<1>6. QED
  BY <1>3, <1>4, <1>5 DEF Complete

\* A request with another selection, at another step.
Sought(t, s, p) == [t EXCEPT !.scan = s, !.pc = p]

\* The new locals of a request that searches.
LEMMA SearchFields ==
  ASSUME NEW t \in Tx, NEW s \in Scans, NEW p \in Steps
  PROVE  /\ Sought(t, s, p) \in Tx /\ Sought(t, s, p).pc = p
         /\ Sought(t, s, p).scan = s /\ Sought(t, s, p).attempted = t.attempted
  BY ZenonT(40) DEF Tx, Sought

\* A request that searches: only its selection changes.
Searches(r, s, p) ==
  /\ s \in Scans
  /\ tx' = [tx EXCEPT ![r] = Sought(tx[r], s, p)]
  /\ tx[r].pc \in Searching /\ p \in Searching
  /\ UNCHANGED <<eligible, inFlight, late, trail, metrics>>
  /\ sequence' \in Backends
  /\ ScanSound(tx'[r])

\* What is to be shown of a step of the selection.
LEMMA SearchShown ==
  ASSUME Shape, NEW r \in Requests, NEW s \in Scans, NEW p \in Searching,
         tx' = [tx EXCEPT ![r] = Sought(tx[r], s, p)],
         tx[r].pc \in Searching,
         UNCHANGED <<eligible, inFlight, late, trail, metrics>>,
         sequence' \in Backends,
         \A u \in Tx : u.pc = p /\ u.scan = s /\ u.attempted = tx[r].attempted => ScanSound(u)
  PROVE  Searches(r, s, p)
<1>1. p \in Steps /\ tx[r] \in Tx /\ tx'[r] = Sought(tx[r], s, p)
  BY DEF Searching, Steps, Shape
<1>2. /\ tx'[r] \in Tx /\ tx'[r].pc = p /\ tx'[r].scan = s
      /\ tx'[r].attempted = tx[r].attempted
  BY <1>1, SearchFields
<1>3. QED
  BY <1>2 DEF Searches

\* Order begins with a rotation.
LEMMA OrderSearches ==
  ASSUME Shape, NEW r \in Requests, Order(r)
  PROVE  \E s, p : Searches(r, s, p)
<1> DEFINE p == IF Selector = "least-in-flight" THEN "picking" ELSE "scanning"
           n == IF Selector = "least-in-flight" THEN 1 ELSE 0
           o == [offset \in Backends |-> (sequence + offset) % BackendCount]
           s == Ordered(tx[r].scan, o, n)
<1>1. /\ tx[r].pc = "started" /\ sequence' = NextStart(sequence)
      /\ UNCHANGED <<eligible, inFlight, late, trail, metrics>>
  BY DEF Order, At
<1>2. tx \in [Requests -> Tx] /\ tx[r].scan \in Scans /\ sequence \in Backends
  BY Fields DEF Shape
<1>3. tx' = [tx EXCEPT ![r] = Sought(tx[r], s, p)]
  BY <1>2, ZenonT(40) DEF Order, Tx, Sought, Ordered
<1>4. /\ o \in [Backends -> Backends] /\ Complete(o) /\ NextStart(sequence) \in Backends
  BY <1>2, RotationComplete
<1>5. p \in {"picking", "scanning"} /\ n \in 0 .. 1 /\ (p = "picking" <=> n = 1)
  OBVIOUS
<1> HIDE DEF o, p, n
<1>6. s \in Scans /\ s.order = o /\ s.next = n
  BY <1>2, <1>4, <1>5, ScanOrdered
<1> HIDE DEF s
<1>7. \A u \in Tx : u.pc = p /\ u.scan = s /\ u.attempted = tx[r].attempted => ScanSound(u)
  <2> SUFFICES ASSUME NEW u \in Tx, u.pc = p, u.scan = s PROVE ScanSound(u)
    OBVIOUS
  <2>1. BackendCount \in Nat \ {0}
    BY TransactionAssumption
  <2>2. CASE p = "picking"
    BY <1>4, <1>5, <1>6, <2>1, <2>2 DEF ScanSound
  <2>3. CASE p = "scanning"
    BY <1>4, <1>5, <1>6, <2>1, <2>3 DEF ScanSound, Backends
  <2>4. QED
    BY <1>5, <2>2, <2>3
<1>8. p \in Searching /\ tx[r].pc \in Searching
  BY <1>1, <1>5 DEF Searching
<1>9. Searches(r, s, p)
  BY <1>1, <1>3, <1>4, <1>6, <1>7, <1>8, SearchShown
<1>10. QED
  BY <1>9

\* The entry at next is taken out.
LEMMA PickSearches ==
  ASSUME Shape, inFlight \in [Backends -> Nat], NEW r \in Requests, ScanSound(tx[r]), Pick(r)
  PROVE  \E s, p : Searches(r, s, p)
<1> DEFINE q == tx[r].scan
           v == q.order[q.next]
           n == q.next
           l == inFlight[v]
<1>1. /\ tx[r].pc = "picking"
      /\ q.next < BackendCount
      /\ UNCHANGED <<sequence, eligible, inFlight, late, trail, metrics>>
      /\ tx' = [tx EXCEPT ![r].pc = "shifting", ![r].scan.value = v,
                            ![r].scan.load = l, ![r].scan.hole = n]
  BY Zenon DEF Pick, At
<1>2. /\ tx \in [Requests -> Tx] /\ q \in Scans /\ sequence \in Backends
      /\ q.order \in [Backends -> Backends] /\ q.next \in Nat /\ q.hole \in Nat
      /\ q.value \in Backends /\ q.load \in Nat /\ q.tried \subseteq Backends
      /\ BackendCount \in Nat \ {0}
  BY Fields, TransactionAssumption DEF Shape
<1>3. q.next \in 1 .. BackendCount - 1
  BY <1>1, <1>2 DEF ScanSound
<1>4. n \in Backends /\ n \in Nat /\ v \in Backends /\ l \in Nat /\ q.next = n
  <2>1. q.next \in Backends
    BY <1>2, <1>3, BackendNumbers
  <2>2. QED
    BY <1>2, <2>1
<1>5. \A b \in Backends : b # v => \E k \in Backends : k # n /\ q.order[k] = b
  BY <1>1 DEF ScanSound, Complete
<1> HIDE DEF q, v, n, l
<1> DEFINE s == Picked(q, v, l, n)
<1>6. tx' = [tx EXCEPT ![r] = Sought(tx[r], s, "shifting")]
  BY <1>1, <1>2, ZenonT(60) DEF Tx, Sought, Picked, q
<1>7. s \in Scans /\ s.order = q.order /\ s.next = q.next /\ s.value = v /\ s.hole = n
  <2>1. q \in Scans /\ v \in Backends /\ l \in Nat /\ n \in Nat
    BY <1>2, <1>4
  <2>2. QED
    BY <2>1, ScanPicked
<1> HIDE DEF s
<1>8. \A u \in Tx : u.pc = "shifting" /\ u.scan = s /\ u.attempted = tx[r].attempted => ScanSound(u)
  BY <1>2, <1>3, <1>4, <1>5, <1>7 DEF ScanSound
<1>9. "shifting" \in Searching /\ tx[r].pc \in Searching
  BY <1>1 DEF Searching
<1>10. Searches(r, s, "shifting")
  BY <1>1, <1>2, <1>6, <1>7, <1>8, <1>9, SearchShown
<1>11. QED
  BY <1>10

\* The entry before the hole moves into it.
LEMMA ShiftSearches ==
  ASSUME Shape, inFlight \in [Backends -> Nat], NEW r \in Requests, ScanSound(tx[r]), Shift(r)
  PROVE  \E s, p : Searches(r, s, p)
<1> DEFINE q == tx[r].scan
           h == q.hole - 1
           o == [q.order EXCEPT ![q.hole] = q.order[h]]
<1>1. /\ tx[r].pc = "shifting"
      /\ q.hole > 0
      /\ UNCHANGED <<sequence, eligible, inFlight, late, trail, metrics>>
      /\ tx' = [tx EXCEPT ![r].scan.order[q.hole] = q.order[h],
                            ![r].scan.hole = h]
  BY Zenon DEF Shift, At, Busier
<1>2. /\ tx \in [Requests -> Tx] /\ q \in Scans /\ sequence \in Backends
      /\ q.order \in [Backends -> Backends] /\ q.next \in Nat /\ q.hole \in Nat
      /\ q.value \in Backends /\ q.load \in Nat /\ q.tried \subseteq Backends
      /\ BackendCount \in Nat \ {0}
  BY Fields, TransactionAssumption DEF Shape
<1>3. /\ q.hole \in Backends /\ q.next \in 1 .. BackendCount - 1
      /\ h \in Nat /\ h < q.hole
  BY <1>1, <1>2 DEF ScanSound
<1>4. h \in Backends /\ h \in Nat /\ h # q.hole /\ o \in [Backends -> Backends]
  <2>1. h \in Backends /\ h # q.hole
    BY <1>2, <1>3, BackendNumbers
  <2> HIDE DEF h
  <2>2. QED
    BY <1>2, <1>3, <2>1
<1>5. \A b \in Backends : b # q.value => \E k \in Backends : k # h /\ o[k] = b
  <2> HIDE DEF h
  <2> SUFFICES ASSUME NEW b \in Backends, b # q.value
               PROVE  \E k \in Backends : k # h /\ o[k] = b
    OBVIOUS
  <2>1. PICK k \in Backends : k # q.hole /\ q.order[k] = b
    BY <1>1 DEF ScanSound
  <2>2. CASE k = h
    <3>1. q.hole # h /\ o[q.hole] = b
      BY <1>2, <1>3, <1>4, <2>1, <2>2
    <3>2. QED
      BY <1>3, <3>1
  <2>3. CASE k # h
    BY <1>2, <1>3, <1>4, <2>1, <2>3
  <2>4. QED
    BY <2>2, <2>3
<1> HIDE DEF q, o, h
<1> DEFINE s == Shifted(q, o, h)
<1>6. tx' = [tx EXCEPT ![r] = Sought(tx[r], s, "shifting")]
  BY <1>1, <1>2, ZenonT(60) DEF Tx, Sought, Shifted, q, o
<1>7. s \in Scans /\ s.order = o /\ s.next = q.next /\ s.value = q.value /\ s.hole = h
  BY <1>2, <1>3, <1>4, <1>5, ScanShifted
<1> HIDE DEF s
<1>8. \A u \in Tx : u.pc = "shifting" /\ u.scan = s /\ u.attempted = tx[r].attempted => ScanSound(u)
  BY <1>2, <1>3, <1>4, <1>5, <1>7 DEF ScanSound
<1>9. "shifting" \in Searching /\ tx[r].pc \in Searching
  BY <1>1 DEF Searching
<1>10. Searches(r, s, "shifting")
  BY <1>1, <1>2, <1>6, <1>7, <1>8, <1>9, SearchShown
<1>11. QED
  BY <1>10

\* The entry is put into the hole.
LEMMA PlaceSearches ==
  ASSUME Shape, inFlight \in [Backends -> Nat], NEW r \in Requests, ScanSound(tx[r]), Place(r)
  PROVE  \E s, p : Searches(r, s, p)
<1> DEFINE q == tx[r].scan
           n == q.next + 1
           o == [q.order EXCEPT ![q.hole] = q.value]
<1>1. /\ tx[r].pc = "shifting"
      /\ UNCHANGED <<sequence, eligible, inFlight, late, trail, metrics>>
      /\ tx' = [tx EXCEPT ![r].scan.order[q.hole] = q.value, ![r].scan.next = n,
                            ![r].pc = "picking"]
  BY Zenon DEF Place, At
<1>2. /\ tx \in [Requests -> Tx] /\ q \in Scans /\ sequence \in Backends
      /\ q.order \in [Backends -> Backends] /\ q.next \in Nat /\ q.hole \in Nat
      /\ q.value \in Backends /\ q.load \in Nat /\ q.tried \subseteq Backends
      /\ BackendCount \in Nat \ {0}
  BY Fields, TransactionAssumption DEF Shape
<1>3. q.hole \in Backends /\ n \in 1 .. BackendCount /\ n \in Nat
  BY <1>1, <1>2 DEF ScanSound
<1>4. o \in [Backends -> Backends]
  BY <1>2, <1>3
<1>5. Complete(o)
  <2> SUFFICES ASSUME NEW b \in Backends PROVE \E k \in Backends : o[k] = b
    BY DEF Complete
  <2>1. CASE b = q.value
    BY <1>2, <1>3, <2>1
  <2>2. CASE b # q.value
    BY <1>1, <1>2, <1>3, <2>2 DEF ScanSound
  <2>3. QED
    BY <2>1, <2>2
<1> HIDE DEF q, o, n
<1> DEFINE s == Ordered(q, o, n)
<1>6. tx' = [tx EXCEPT ![r] = Sought(tx[r], s, "picking")]
  BY <1>1, <1>2, ZenonT(60) DEF Tx, Sought, Ordered, q, o
<1>7. s \in Scans /\ s.order = o /\ s.next = n
  <2>1. q \in Scans /\ o \in [Backends -> Backends] /\ n \in Nat
    BY <1>2, <1>3, <1>4
  <2>2. QED
    BY <2>1, ScanOrdered
<1> HIDE DEF s
<1>8. \A u \in Tx : u.pc = "picking" /\ u.scan = s /\ u.attempted = tx[r].attempted => ScanSound(u)
  BY <1>2, <1>3, <1>4, <1>5, <1>7 DEF ScanSound
<1>9. "picking" \in Searching /\ tx[r].pc \in Searching
  BY <1>1 DEF Searching
<1>10. Searches(r, s, "picking")
  BY <1>1, <1>2, <1>6, <1>7, <1>8, <1>9, SearchShown
<1>11. QED
  BY <1>10

\* The order is sorted, and the scan of it begins.
LEMMA SortedSearches ==
  ASSUME Shape, inFlight \in [Backends -> Nat], NEW r \in Requests, ScanSound(tx[r]), Sorted(r)
  PROVE  \E s, p : Searches(r, s, p)
<1> DEFINE q == tx[r].scan
<1>1. /\ tx[r].pc = "picking"
      /\ UNCHANGED <<sequence, eligible, inFlight, late, trail, metrics>>
      /\ tx' = [tx EXCEPT ![r].pc = "scanning", ![r].scan.next = 0]
  BY Zenon DEF Sorted, At
<1>2. /\ tx \in [Requests -> Tx] /\ q \in Scans /\ sequence \in Backends
      /\ q.order \in [Backends -> Backends] /\ q.next \in Nat /\ q.hole \in Nat
      /\ q.value \in Backends /\ q.load \in Nat /\ q.tried \subseteq Backends
      /\ BackendCount \in Nat \ {0}
  BY Fields, TransactionAssumption DEF Shape
<1>4. Complete(q.order)
  BY <1>1 DEF ScanSound
<1>5. \A k \in Backends : ~ (k < 0)
  BY BackendNumbers
<1> HIDE DEF q
<1> DEFINE s == Advanced(q, 0)
<1>6. tx' = [tx EXCEPT ![r] = Sought(tx[r], s, "scanning")]
  BY <1>1, <1>2, ZenonT(60) DEF Tx, Sought, Advanced, q
<1>7. s \in Scans /\ s.order = q.order /\ s.next = 0 /\ s.tried = q.tried
  BY <1>2, <1>4, <1>5, ScanAdvanced
<1> HIDE DEF s
<1>8. \A u \in Tx : u.pc = "scanning" /\ u.scan = s /\ u.attempted = tx[r].attempted => ScanSound(u)
  BY <1>2, <1>4, <1>5, <1>7 DEF ScanSound
<1>9. "scanning" \in Searching /\ tx[r].pc \in Searching
  BY <1>1 DEF Searching
<1>10. Searches(r, s, "scanning")
  BY <1>1, <1>2, <1>6, <1>7, <1>8, <1>9, SearchShown
<1>11. QED
  BY <1>10

\* A backend that was attempted is passed over.
LEMMA SkipAttemptedSearches ==
  ASSUME Shape, inFlight \in [Backends -> Nat], NEW r \in Requests, ScanSound(tx[r]), SkipAttempted(r)
  PROVE  \E s, p : Searches(r, s, p)
<1> DEFINE q == tx[r].scan
           n == q.next + 1
           c == Candidate(r)
<1>1. /\ tx[r].pc = "scanning"
      /\ q.next < BackendCount /\ c \in tx[r].attempted
      /\ UNCHANGED <<sequence, eligible, inFlight, late, trail, metrics>>
      /\ tx' = [tx EXCEPT ![r].scan.next = n]
  BY Zenon DEF SkipAttempted, Scanning, At
<1>2. /\ tx \in [Requests -> Tx] /\ q \in Scans /\ sequence \in Backends
      /\ q.order \in [Backends -> Backends] /\ q.next \in Nat /\ q.hole \in Nat
      /\ q.value \in Backends /\ q.load \in Nat /\ q.tried \subseteq Backends
      /\ BackendCount \in Nat \ {0}
  BY Fields, TransactionAssumption DEF Shape
<1>3. n \in 0 .. BackendCount /\ n \in Nat /\ q.tried \in SUBSET Backends
  <2>1. q.next \in Backends
    BY <1>1, <1>2, BackendNumbers
  <2>2. n \in 0 .. BackendCount /\ n \in Nat
    BY <1>1, <1>2 DEF ScanSound
  <2> HIDE DEF n
  <2>3. QED
    BY <1>2, <2>1, <2>2 DEF Candidate
<1>4. Complete(q.order)
  BY <1>1 DEF ScanSound
<1>5. \A k \in Backends : k < n => q.order[k] \in q.tried \cup tx[r].attempted
  <2> SUFFICES ASSUME NEW k \in Backends, k < n
               PROVE  q.order[k] \in q.tried \cup tx[r].attempted
    OBVIOUS
  <2>1. k = q.next \/ k < q.next
    BY <1>2, BackendNumbers
  <2>2. CASE k = q.next
    BY <1>1, <2>2 DEF Candidate
  <2> HIDE DEF n
  <2>3. CASE k < q.next
    BY <1>1, <2>3 DEF ScanSound
  <2>4. QED
    BY <2>1, <2>2, <2>3
<1> HIDE DEF q, n, c
<1> DEFINE s == Advanced(q, n)
<1>6. tx' = [tx EXCEPT ![r] = Sought(tx[r], s, "scanning")]
  BY <1>1, <1>2, ZenonT(60) DEF Tx, Sought, Advanced, q
<1>7. s \in Scans /\ s.order = q.order /\ s.next = n /\ s.tried = q.tried
  BY <1>2, <1>3, <1>4, <1>5, ScanAdvanced
<1> HIDE DEF s
<1>8. \A u \in Tx : u.pc = "scanning" /\ u.scan = s /\ u.attempted = tx[r].attempted => ScanSound(u)
  BY <1>2, <1>3, <1>4, <1>5, <1>7 DEF ScanSound
<1>9. "scanning" \in Searching /\ tx[r].pc \in Searching
  BY <1>1 DEF Searching
<1>10. Searches(r, s, "scanning")
  BY <1>1, <1>2, <1>6, <1>7, <1>8, <1>9, SearchShown
<1>11. QED
  BY <1>10

\* A backend that is not eligible is passed over.
LEMMA SkipIneligibleSearches ==
  ASSUME Shape, inFlight \in [Backends -> Nat], NEW r \in Requests, ScanSound(tx[r]), SkipIneligible(r)
  PROVE  \E s, p : Searches(r, s, p)
<1> DEFINE q == tx[r].scan
           n == q.next + 1
           c == Candidate(r)
           T == q.tried \cup {c}
<1>1. /\ tx[r].pc = "scanning"
      /\ q.next < BackendCount
      /\ UNCHANGED <<sequence, eligible, inFlight, late, trail, metrics>>
      /\ tx' = [tx EXCEPT ![r].scan.next = n, ![r].scan.tried = T]
  BY Zenon DEF SkipIneligible, Skippable, Scanning, At
<1>2. /\ tx \in [Requests -> Tx] /\ q \in Scans /\ sequence \in Backends
      /\ q.order \in [Backends -> Backends] /\ q.next \in Nat /\ q.hole \in Nat
      /\ q.value \in Backends /\ q.load \in Nat /\ q.tried \subseteq Backends
      /\ BackendCount \in Nat \ {0}
  BY Fields, TransactionAssumption DEF Shape
<1>3. n \in 0 .. BackendCount /\ n \in Nat /\ T \in SUBSET Backends
  <2>1. q.next \in Backends
    BY <1>1, <1>2, BackendNumbers
  <2>2. n \in 0 .. BackendCount /\ n \in Nat
    BY <1>1, <1>2 DEF ScanSound
  <2> HIDE DEF n
  <2>3. QED
    BY <1>2, <2>1, <2>2 DEF Candidate
<1>4. Complete(q.order)
  BY <1>1 DEF ScanSound
<1>5. \A k \in Backends : k < n => q.order[k] \in T \cup tx[r].attempted
  <2> SUFFICES ASSUME NEW k \in Backends, k < n
               PROVE  q.order[k] \in T \cup tx[r].attempted
    OBVIOUS
  <2>1. k = q.next \/ k < q.next
    BY <1>2, BackendNumbers
  <2>2. CASE k = q.next
    BY <1>1, <2>2 DEF Candidate
  <2> HIDE DEF n
  <2>3. CASE k < q.next
    BY <1>1, <2>3 DEF ScanSound
  <2>4. QED
    BY <2>1, <2>2, <2>3
<1> HIDE DEF q, n, c, T
<1> DEFINE s == Tried(q, n, T)
<1>6. tx' = [tx EXCEPT ![r] = Sought(tx[r], s, "scanning")]
  BY <1>1, <1>2, ZenonT(60) DEF Tx, Sought, Tried, q
<1>7. s \in Scans /\ s.order = q.order /\ s.next = n /\ s.tried = T
  BY <1>2, <1>3, <1>4, <1>5, ScanTried
<1> HIDE DEF s
<1>8. \A u \in Tx : u.pc = "scanning" /\ u.scan = s /\ u.attempted = tx[r].attempted => ScanSound(u)
  BY <1>2, <1>3, <1>4, <1>5, <1>7 DEF ScanSound
<1>9. "scanning" \in Searching /\ tx[r].pc \in Searching
  BY <1>1 DEF Searching
<1>10. Searches(r, s, "scanning")
  BY <1>1, <1>2, <1>6, <1>7, <1>8, <1>9, SearchShown
<1>11. QED
  BY <1>10

\* A backend that has no place left is passed over.
LEMMA SkipFullSearches ==
  ASSUME Shape, inFlight \in [Backends -> Nat], NEW r \in Requests, ScanSound(tx[r]), SkipFull(r)
  PROVE  \E s, p : Searches(r, s, p)
<1> DEFINE q == tx[r].scan
           n == q.next + 1
           c == Candidate(r)
           T == q.tried \cup {c}
<1>1. /\ tx[r].pc = "scanning"
      /\ q.next < BackendCount
      /\ UNCHANGED <<sequence, eligible, inFlight, late, trail, metrics>>
      /\ tx' = [tx EXCEPT ![r].scan.next = n, ![r].scan.tried = T,
                            ![r].scan.stateEligible = TRUE]
  BY Zenon DEF SkipFull, Skippable, Scanning, At
<1>2. /\ tx \in [Requests -> Tx] /\ q \in Scans /\ sequence \in Backends
      /\ q.order \in [Backends -> Backends] /\ q.next \in Nat /\ q.hole \in Nat
      /\ q.value \in Backends /\ q.load \in Nat /\ q.tried \subseteq Backends
      /\ BackendCount \in Nat \ {0}
  BY Fields, TransactionAssumption DEF Shape
<1>3. n \in 0 .. BackendCount /\ n \in Nat /\ T \in SUBSET Backends
  <2>1. q.next \in Backends
    BY <1>1, <1>2, BackendNumbers
  <2>2. n \in 0 .. BackendCount /\ n \in Nat
    BY <1>1, <1>2 DEF ScanSound
  <2> HIDE DEF n
  <2>3. QED
    BY <1>2, <2>1, <2>2 DEF Candidate
<1>4. Complete(q.order)
  BY <1>1 DEF ScanSound
<1>5. \A k \in Backends : k < n => q.order[k] \in T \cup tx[r].attempted
  <2> SUFFICES ASSUME NEW k \in Backends, k < n
               PROVE  q.order[k] \in T \cup tx[r].attempted
    OBVIOUS
  <2>1. k = q.next \/ k < q.next
    BY <1>2, BackendNumbers
  <2>2. CASE k = q.next
    BY <1>1, <2>2 DEF Candidate
  <2> HIDE DEF n
  <2>3. CASE k < q.next
    BY <1>1, <2>3 DEF ScanSound
  <2>4. QED
    BY <2>1, <2>2, <2>3
<1> HIDE DEF q, n, c, T
<1> DEFINE s == Refused(q, n, T)
<1>6. tx' = [tx EXCEPT ![r] = Sought(tx[r], s, "scanning")]
  BY <1>1, <1>2, ZenonT(60) DEF Tx, Sought, Refused, q
<1>7. s \in Scans /\ s.order = q.order /\ s.next = n /\ s.tried = T
  <2>1. q \in Scans /\ n \in Nat /\ T \in SUBSET Backends
    BY <1>2, <1>3
  <2>2. QED
    BY <2>1, ScanRefused
<1> HIDE DEF s
<1>8. \A u \in Tx : u.pc = "scanning" /\ u.scan = s /\ u.attempted = tx[r].attempted => ScanSound(u)
  BY <1>2, <1>3, <1>4, <1>5, <1>7 DEF ScanSound
<1>9. "scanning" \in Searching /\ tx[r].pc \in Searching
  BY <1>1 DEF Searching
<1>10. Searches(r, s, "scanning")
  BY <1>1, <1>2, <1>6, <1>7, <1>8, <1>9, SearchShown
<1>11. QED
  BY <1>10

-----------------------------------------------------------------------------
(* The other steps of a request.                                           *)

\* What they make of its locals t.
Counted(t, m, a) == [t EXCEPT !.pc = "counted", !.method = m, !.active = a]

Started(t) == [t EXCEPT !.pc = "started", !.active = 0]

Placed(t, b) == [t EXCEPT !.pc = "attempting", !.scan = NoScan, !.backend = b,
                           !.attempted = @ \cup {b}]

Unreserved(t) == [t EXCEPT !.pc = "unreserved"]

Answering(t, a) == [t EXCEPT !.pc = "answering", !.reply = a]

Failed(t, k, C) == [t EXCEPT !.pc = "failed", !.lastFailure = k, !.charged = C]

Responded(t, a, C) == [t EXCEPT !.pc = "responded", !.response = a, !.charged = C]

Buffered(t) == [t EXCEPT !.pc = "again", !.lastRetryResponse = t.response]

Again(t, n) == [t EXCEPT !.pc = "started", !.attempt = n, !.backend = None,
                        !.response = NoResponse]

Answered(t) == [t EXCEPT !.pc = "answered", !.scan = NoScan, !.attempted = {},
                        !.backend = None, !.response = NoResponse, !.lastFailure = None]

\* The locals of a request that counts itself.
LEMMA CountedFields ==
  ASSUME NEW t \in Tx, NEW m \in Methods, NEW a \in Nat
  PROVE  /\ Counted(t, m, a) \in Tx
         /\ Counted(t, m, a).pc = "counted"
         /\ Counted(t, m, a).method = m
         /\ Counted(t, m, a).active = a
         /\ Counted(t, m, a).scan = t.scan
         /\ Counted(t, m, a).attempt = t.attempt
         /\ Counted(t, m, a).attempted = t.attempted
         /\ Counted(t, m, a).charged = t.charged
         /\ Counted(t, m, a).backend = t.backend
         /\ Counted(t, m, a).response = t.response
         /\ Counted(t, m, a).lastRetryResponse = t.lastRetryResponse
         /\ Counted(t, m, a).reply = t.reply
  BY Nothing, ZenonT(40) DEF Tx, Steps, Counted

\* The locals of a request that has raised the peak.
LEMMA StartedFields ==
  ASSUME NEW t \in Tx
  PROVE  /\ Started(t) \in Tx
         /\ Started(t).pc = "started"
         /\ Started(t).method = t.method
         /\ Started(t).active = 0
         /\ Started(t).scan = t.scan
         /\ Started(t).attempt = t.attempt
         /\ Started(t).attempted = t.attempted
         /\ Started(t).charged = t.charged
         /\ Started(t).backend = t.backend
         /\ Started(t).response = t.response
         /\ Started(t).lastRetryResponse = t.lastRetryResponse
         /\ Started(t).reply = t.reply
  BY Nothing, ZenonT(40) DEF Tx, Steps, Started

\* The locals of a request that has reserved a place.
LEMMA PlacedFields ==
  ASSUME NEW t \in Tx, NEW b \in Backends
  PROVE  /\ Placed(t, b) \in Tx
         /\ Placed(t, b).pc = "attempting"
         /\ Placed(t, b).method = t.method
         /\ Placed(t, b).active = t.active
         /\ Placed(t, b).scan = NoScan
         /\ Placed(t, b).attempt = t.attempt
         /\ Placed(t, b).attempted = t.attempted \cup {b}
         /\ Placed(t, b).charged = t.charged
         /\ Placed(t, b).backend = b
         /\ Placed(t, b).response = t.response
         /\ Placed(t, b).lastRetryResponse = t.lastRetryResponse
         /\ Placed(t, b).reply = t.reply
  BY Nothing, ZenonT(40) DEF Tx, Steps, Placed

\* The locals of a request that was refused.
LEMMA UnreservedFields ==
  ASSUME NEW t \in Tx
  PROVE  /\ Unreserved(t) \in Tx
         /\ Unreserved(t).pc = "unreserved"
         /\ Unreserved(t).method = t.method
         /\ Unreserved(t).active = t.active
         /\ Unreserved(t).scan = t.scan
         /\ Unreserved(t).attempt = t.attempt
         /\ Unreserved(t).attempted = t.attempted
         /\ Unreserved(t).charged = t.charged
         /\ Unreserved(t).backend = t.backend
         /\ Unreserved(t).response = t.response
         /\ Unreserved(t).lastRetryResponse = t.lastRetryResponse
         /\ Unreserved(t).reply = t.reply
  BY Nothing DEF Tx, Steps, Unreserved

\* The locals of a request with its answer.
LEMMA AnsweringFields ==
  ASSUME NEW t \in Tx, NEW a \in Responses
  PROVE  /\ Answering(t, a) \in Tx
         /\ Answering(t, a).pc = "answering"
         /\ Answering(t, a).method = t.method
         /\ Answering(t, a).active = t.active
         /\ Answering(t, a).scan = t.scan
         /\ Answering(t, a).attempt = t.attempt
         /\ Answering(t, a).attempted = t.attempted
         /\ Answering(t, a).charged = t.charged
         /\ Answering(t, a).backend = t.backend
         /\ Answering(t, a).response = t.response
         /\ Answering(t, a).lastRetryResponse = t.lastRetryResponse
         /\ Answering(t, a).reply = a
  BY Nothing, ZenonT(40) DEF Tx, Steps, Answering

\* The locals of a request whose attempt failed.
LEMMA FailedFields ==
  ASSUME NEW t \in Tx, NEW k \in Kinds, NEW C \in SUBSET Backends
  PROVE  /\ Failed(t, k, C) \in Tx
         /\ Failed(t, k, C).pc = "failed"
         /\ Failed(t, k, C).method = t.method
         /\ Failed(t, k, C).active = t.active
         /\ Failed(t, k, C).scan = t.scan
         /\ Failed(t, k, C).attempt = t.attempt
         /\ Failed(t, k, C).attempted = t.attempted
         /\ Failed(t, k, C).charged = C
         /\ Failed(t, k, C).backend = t.backend
         /\ Failed(t, k, C).response = t.response
         /\ Failed(t, k, C).lastRetryResponse = t.lastRetryResponse
         /\ Failed(t, k, C).reply = t.reply
  BY Nothing, ZenonT(40) DEF Tx, Steps, Failed

\* The locals of a request with a response.
LEMMA RespondedFields ==
  ASSUME NEW t \in Tx, NEW a \in Responses, NEW C \in SUBSET Backends
  PROVE  /\ Responded(t, a, C) \in Tx
         /\ Responded(t, a, C).pc = "responded"
         /\ Responded(t, a, C).method = t.method
         /\ Responded(t, a, C).active = t.active
         /\ Responded(t, a, C).scan = t.scan
         /\ Responded(t, a, C).attempt = t.attempt
         /\ Responded(t, a, C).attempted = t.attempted
         /\ Responded(t, a, C).charged = C
         /\ Responded(t, a, C).backend = t.backend
         /\ Responded(t, a, C).response = a
         /\ Responded(t, a, C).lastRetryResponse = t.lastRetryResponse
         /\ Responded(t, a, C).reply = t.reply
  BY Nothing, ZenonT(40) DEF Tx, Steps, Responded

\* The locals of a request whose response is to be retried.
LEMMA BufferedFields ==
  ASSUME NEW t \in Tx
  PROVE  /\ Buffered(t) \in Tx
         /\ Buffered(t).pc = "again"
         /\ Buffered(t).method = t.method
         /\ Buffered(t).active = t.active
         /\ Buffered(t).scan = t.scan
         /\ Buffered(t).attempt = t.attempt
         /\ Buffered(t).attempted = t.attempted
         /\ Buffered(t).charged = t.charged
         /\ Buffered(t).backend = t.backend
         /\ Buffered(t).response = t.response
         /\ Buffered(t).lastRetryResponse = t.response
         /\ Buffered(t).reply = t.reply
  BY Nothing, ZenonT(40) DEF Tx, Steps, Buffered

\* The locals of a request that tries again.
LEMMA AgainFields ==
  ASSUME NEW t \in Tx, NEW n \in Nat
  PROVE  /\ Again(t, n) \in Tx
         /\ Again(t, n).pc = "started"
         /\ Again(t, n).method = t.method
         /\ Again(t, n).active = t.active
         /\ Again(t, n).scan = t.scan
         /\ Again(t, n).attempt = n
         /\ Again(t, n).attempted = t.attempted
         /\ Again(t, n).charged = t.charged
         /\ Again(t, n).backend = None
         /\ Again(t, n).response = NoResponse
         /\ Again(t, n).lastRetryResponse = t.lastRetryResponse
         /\ Again(t, n).reply = t.reply
  BY Nothing, ZenonT(40) DEF Tx, Steps, Again

\* The locals of a request that is complete.
LEMMA AnsweredFields ==
  ASSUME NEW t \in Tx
  PROVE  /\ Answered(t) \in Tx
         /\ Answered(t).pc = "answered"
         /\ Answered(t).method = t.method
         /\ Answered(t).active = t.active
         /\ Answered(t).scan = NoScan
         /\ Answered(t).attempt = t.attempt
         /\ Answered(t).attempted = {}
         /\ Answered(t).charged = t.charged
         /\ Answered(t).backend = None
         /\ Answered(t).response = NoResponse
         /\ Answered(t).lastRetryResponse = t.lastRetryResponse
         /\ Answered(t).reply = t.reply
  BY Nothing, ZenonT(40) DEF Tx, Steps, Answered

-----------------------------------------------------------------------------
(* Trails.                                                                 *)

Grows(e, x, f) == f = Append(e, x)

\* An event is appended.
LEMMA Appended ==
  ASSUME NEW e \in Seq(Events), NEW x \in Events, NEW f, Grows(e, x, f)
  PROVE  /\ f \in Seq(Events) /\ Len(e) \in Nat /\ Len(f) = Len(e) + 1
         /\ \A i \in 1 .. Len(e) : f[i] = e[i]
         /\ f[Len(e) + 1] = x
  BY DEF Grows

\* The arithmetic of a trail's length.
LEMMA OneMore ==
  \A n, a, b, p, q \in Nat :
    n <= 3 * a - 2 + p /\ 3 * a + p + 1 <= 3 * b + q => n + 1 <= 3 * b - 2 + q
  OBVIOUS

\* Event x may be told by a request that goes from t to u.
Fits(t, u, x) ==
  /\ x.type = "started" => t.pc \in {"arriving", "counted"}
  /\ x.type = "completed" <=> u.pc = "answered"
  /\ t.pc \in Searching => x.attempt = t.attempt /\ x.type \in {"selected", "failed"}
  /\ x.type = "retry" => u.pc \in Searching /\ x.attempt = u.attempt
  /\ t.pc # "answered" /\ u.pc \notin {"arriving", "counted"}
  /\ u.pc = "answered" => t.pc \notin {"arriving", "counted"} \cup Searching
  /\ t.pc \in {"arriving", "counted"} => u.attempt >= 1
  /\ t.pc \notin {"arriving", "counted"} =>
       3 * t.attempt + Told(t.pc) + 1 <= 3 * u.attempt + Told(u.pc)

\* A trail that grows stays sound, if the event fits where the request is.
LEMMA TrailGrows ==
  ASSUME NEW t \in Tx, NEW u \in Tx, NEW e \in Seq(Events), NEW x \in Events,
         NEW f, Grows(e, x, f), TrailSound(t, e), Fits(t, u, x)
  PROVE  TrailSound(u, f)
<1> DEFINE n == Len(e)
<1>1. /\ n \in Nat /\ Len(f) = n + 1 /\ f[n + 1] = x
      /\ \A i \in 1 .. n : f[i] = e[i]
  BY Appended
<1>2. /\ t.attempt \in Nat /\ u.attempt \in Nat
      /\ Told(t.pc) \in Nat /\ Told(u.pc) \in Nat
  BY Fields DEF Told
<1>3. t.pc \in {"arriving", "counted"} => n = 0
  BY DEF TrailSound
<1>4. t.pc \notin {"arriving", "counted"} => n >= 1 /\ n <= 3 * t.attempt - 2 + Told(t.pc)
  BY DEF TrailSound
<1>5. \A i \in 1 .. n + 1 : i \in 1 .. n \/ i = n + 1
  BY <1>1
<1>6. /\ \A i \in 1 .. n : e[i].type = "started" => i = 1
      /\ \A i \in 1 .. n : e[i].type # "completed"
      /\ \A i \in 1 .. n : e[i].type = "retry" =>
           IF i < n
           THEN e[i + 1].attempt = e[i].attempt /\ e[i + 1].type \in {"selected", "failed"}
           ELSE t.pc \in Searching /\ e[i].attempt = t.attempt
  BY DEF TrailSound, Fits
<1> HIDE DEF n
<1>7. Len(f) >= 1 /\ Len(f) <= 3 * u.attempt - 2 + Told(u.pc)
  <2>1. CASE t.pc \in {"arriving", "counted"}
    <3>1. u.attempt >= 1 /\ n = 0
      BY <1>3, <2>1 DEF Fits
    <3>2. QED
      BY <1>1, <1>2, <3>1
  <2>2. CASE t.pc \notin {"arriving", "counted"}
    <3>1. 3 * t.attempt + Told(t.pc) + 1 <= 3 * u.attempt + Told(u.pc)
      BY <2>2 DEF Fits
    <3>2. n + 1 <= 3 * u.attempt - 2 + Told(u.pc)
      BY <1>1, <1>2, <1>4, <2>2, <3>1, OneMore
    <3>3. QED
      BY <1>1, <3>2
  <2>3. QED
    BY <2>1, <2>2
<1>8. \A i \in 1 .. Len(f) : f[i].type = "started" => i = 1
  BY <1>1, <1>3, <1>5, <1>6 DEF Fits
<1>9. \A i \in 1 .. Len(f) : f[i].type = "completed" => i = Len(f) /\ u.pc = "answered"
  BY <1>1, <1>5, <1>6 DEF Fits
<1>10. ASSUME NEW i \in 1 .. Len(f), f[i].type = "retry"
       PROVE  IF i < Len(f)
              THEN /\ f[i + 1].attempt = f[i].attempt
                   /\ f[i + 1].type \in {"selected", "failed"}
              ELSE u.pc \in Searching /\ f[i].attempt = u.attempt
  <2>1. CASE i = n + 1
    BY <1>1, <1>10, <2>1 DEF Fits
  <2>2. CASE i = n /\ i \in 1 .. n
    BY <1>1, <1>6, <1>10, <2>2 DEF Fits
  <2>3. CASE i < n /\ i \in 1 .. n
    <3>1. i + 1 \in 1 .. n /\ i < Len(f)
      BY <1>1, <2>3
    <3>2. QED
      BY <1>1, <1>6, <1>10, <2>3, <3>1
  <2>4. QED
    BY <1>1, <1>5, <2>1, <2>2, <2>3
<1>11. u.pc = "answered" =>
         Len(f) >= 2 /\ f[Len(f)].type = "completed" /\ f[Len(f) - 1].type # "retry"
  <2> SUFFICES ASSUME u.pc = "answered"
               PROVE  /\ Len(f) >= 2 /\ f[Len(f)].type = "completed"
                      /\ f[Len(f) - 1].type # "retry"
    OBVIOUS
  <2>1. n >= 1 /\ n \in 1 .. n
    BY <1>1, <1>4 DEF Fits
  <2>2. e[n].type # "retry"
    BY <1>1, <1>6, <2>1 DEF Fits
  <2>3. QED
    BY <1>1, <2>1, <2>2 DEF Fits
<1>12. QED
  BY <1>7, <1>8, <1>9, <1>10, <1>11 DEF TrailSound, Fits

\* A request that moves on without telling anything keeps its trail sound.
LEMMA TrailStays ==
  ASSUME NEW t \in Tx, NEW u \in Tx, NEW e \in Seq(Events), TrailSound(t, e),
         t.pc # "answered", u.pc # "answered", u.attempt = t.attempt,
         t.pc \in Searching => u.pc \in Searching,
         t.pc \in {"arriving", "counted"} <=> u.pc \in {"arriving", "counted"},
         Told(t.pc) <= Told(u.pc)
  PROVE  TrailSound(u, e)
<1>1. /\ t.attempt \in Nat /\ Told(t.pc) \in Nat /\ Told(u.pc) \in Nat /\ Len(e) \in Nat
  BY Fields DEF Told
<1>2. u.pc \notin {"arriving", "counted"} =>
        Len(e) >= 1 /\ Len(e) <= 3 * u.attempt - 2 + Told(u.pc)
  BY <1>1 DEF TrailSound
<1>3. QED
  BY <1>2 DEF TrailSound

\* An event that selects nothing leaves what was selected.
LEMMA SelectedStays ==
  ASSUME NEW e \in Seq(Events), NEW x \in Events, x.type # "selected",
         NEW f, Grows(e, x, f)
  PROVE  Selected(f) = Selected(e) /\ \A i \in Selected(e) : f[i] = e[i]
<1>1. /\ Len(e) \in Nat /\ Len(f) = Len(e) + 1 /\ f[Len(e) + 1] = x
      /\ \A i \in 1 .. Len(e) : f[i] = e[i]
  BY Appended
<1>2. \A i : i \in 1 .. Len(f) <=> i \in 1 .. Len(e) \/ i = Len(e) + 1
  BY <1>1
<1>3. QED
  BY <1>1, <1>2 DEF Selected

\* An event that selects adds itself.
LEMMA SelectedGrows ==
  ASSUME NEW e \in Seq(Events), NEW x \in Events, x.type = "selected",
         NEW f, Grows(e, x, f)
  PROVE  /\ Selected(f) = Selected(e) \cup {Len(e) + 1} /\ f[Len(e) + 1] = x
         /\ Len(e) + 1 \notin Selected(e)
         /\ \A i \in Selected(e) : f[i] = e[i]
         /\ Cardinality(Selected(e)) \in Nat
         /\ Cardinality(Selected(f)) = Cardinality(Selected(e)) + 1
<1>1. /\ Len(e) \in Nat /\ Len(f) = Len(e) + 1 /\ f[Len(e) + 1] = x
      /\ \A i \in 1 .. Len(e) : f[i] = e[i]
  BY Appended
<1>2. \A i : i \in 1 .. Len(f) <=> i \in 1 .. Len(e) \/ i = Len(e) + 1
  BY <1>1
<1>3. /\ Selected(f) = Selected(e) \cup {Len(e) + 1}
      /\ \A i \in Selected(e) : f[i] = e[i]
  BY <1>1, <1>2 DEF Selected
<1>4. Len(e) + 1 \notin Selected(e)
  BY <1>1 DEF Selected
<1>5. IsFiniteSet(Selected(e)) /\ Cardinality(Selected(e)) \in Nat
  <2>1. IsFiniteSet(1 .. Len(e)) /\ Selected(e) \subseteq 1 .. Len(e)
    BY <1>1, FS_Interval DEF Selected
  <2>2. QED
    BY <2>1, FS_Subset, FS_CardinalityType
<1>6. Cardinality(Selected(f)) = Cardinality(Selected(e)) + 1
  BY <1>3, <1>4, <1>5, FS_AddElement
<1>7. QED
  BY <1>1, <1>3, <1>4, <1>5, <1>6

Event(type, attempt, backend) ==
  [type |-> type, attempt |-> attempt, backend |-> backend]

\* The fields of an event.
LEMMA EventFields ==
  ASSUME NEW type \in {"started", "selected", "failed", "retry", "completed"},
         NEW n \in Nat, NEW b \in Backends \cup {None}
  PROVE  /\ Event(type, n, b) \in Events /\ Event(type, n, b).type = type
         /\ Event(type, n, b).attempt = n /\ Event(type, n, b).backend = b
  BY DEF Event, Events

\* A failure that was told stays told, and an event may tell one.
LEMMA FailureStaysTold ==
  ASSUME NEW e \in Seq(Events), NEW x \in Events, NEW f, Grows(e, x, f)
  PROVE  /\ \A b : FailureTold(e, b) => FailureTold(f, b)
         /\ x.type = "failed" => FailureTold(f, x.backend)
<1>1. /\ Len(e) \in Nat /\ Len(f) = Len(e) + 1 /\ f[Len(e) + 1] = x
      /\ \A i \in 1 .. Len(e) : f[i] = e[i]
  BY Appended
<1>2. Len(e) + 1 \in 1 .. Len(f) /\ \A i \in 1 .. Len(e) : i \in 1 .. Len(f)
  BY <1>1
<1>3. QED
  BY <1>1, <1>2 DEF FailureTold

-----------------------------------------------------------------------------
(* Every step keeps its request sound.                                     *)

\* A step that selects no backend keeps what is said of the selections.
LEMMA SelectionsStay ==
  ASSUME NEW t \in Tx, NEW u \in Tx, NEW e \in Seq(Events), SelectionsTold(t, e),
         NEW f \in Seq(Events), Selected(f) = Selected(e),
         \A i \in Selected(e) : f[i] = e[i],
         t.pc # "answered", u.pc = "answered" \/ u.attempted = t.attempted,
         \/ /\ u.attempt = t.attempt
            /\ \/ t.pc \in {"arriving", "counted"} \cup Searching
               \/ u.pc \notin {"arriving", "counted"} \cup Searching
         \/ u.attempt = t.attempt + 1
  PROVE  SelectionsTold(u, f)
<1>1. Cardinality(Selected(e)) \in Nat /\ t.attempt \in Nat
  <2>1. Len(e) \in Nat
    OBVIOUS
  <2>2. IsFiniteSet(1 .. Len(e)) /\ Selected(e) \subseteq 1 .. Len(e)
    BY <2>1, FS_Interval DEF Selected
  <2>3. QED
    BY <2>2, Fields, FS_Subset, FS_CardinalityType
<1>2. /\ \A i, j \in Selected(f) : i # j => f[i].backend # f[j].backend
      /\ u.pc # "answered" => \A i \in Selected(f) : f[i].backend \in u.attempted
  BY DEF SelectionsTold
<1>3. /\ u.pc \in {"arriving", "counted"} \cup Searching =>
           Cardinality(Selected(f)) <= u.attempt - 1
      /\ Cardinality(Selected(f)) <= u.attempt
  BY <1>1 DEF SelectionsTold
<1>4. QED
  BY <1>2, <1>3 DEF SelectionsTold

\* CountRequest.
LEMMA CountedSound ==
  ASSUME NEW t \in Tx, NEW e \in Seq(Events), RequestSound(t, e), t.pc = "arriving",
         NEW m \in Methods, NEW a \in Nat
  PROVE  RequestSound(Counted(t, m, a), e)
<1> DEFINE u == Counted(t, m, a)
<1>1. /\ u \in Tx /\ u.pc = "counted" /\ u.method = m /\ u.attempt = t.attempt
      /\ u.attempted = t.attempted /\ u.charged = t.charged
      /\ u.lastRetryResponse = t.lastRetryResponse
  BY CountedFields
<1> HIDE DEF u
<1>2. ScanSound(u) /\ AttemptSound(u)
  BY <1>1 DEF RequestSound, ScanSound, AttemptSound
<1>3. Told(t.pc) = 3 /\ Told(u.pc) = 3
  BY <1>1 DEF Told, Searching
<1>4. TrailSound(u, e)
  BY <1>1, <1>3, TrailStays DEF RequestSound, Searching
<1>5. ChargesTold(u, e)
  BY <1>1 DEF RequestSound, ChargesTold
<1>6. SelectionsTold(u, e)
  BY <1>1, SelectionsStay DEF RequestSound
<1>7. QED
  BY <1>2, <1>4, <1>5, <1>6 DEF RequestSound, u

\* RecordPeak.
LEMMA StartedSound ==
  ASSUME NEW t \in Tx, NEW e \in Seq(Events), RequestSound(t, e),
         t.pc = "counted"
  PROVE  RequestSound(Started(t), Append(e, Event("started", 0, None)))
<1> DEFINE u == Started(t)
           x == Event("started", 0, None)
           f == Append(e, x)
<1>1. /\ u \in Tx /\ u.pc = "started" /\ u.attempt = t.attempt /\ u.method = t.method
      /\ u.attempted = t.attempted /\ u.charged = t.charged
      /\ u.lastRetryResponse = t.lastRetryResponse
  BY StartedFields
<1> HIDE DEF u
<1>2. ScanSound(u)
  BY <1>1 DEF RequestSound, ScanSound
<1>3. AttemptSound(u)
  BY <1>1 DEF RequestSound, AttemptSound
<1>4. Told(t.pc) = 3 /\ Told(u.pc) = 0
  BY <1>1 DEF Told, Searching
<1>5. /\ x \in Events /\ x.type = "started" /\ x.attempt = 0 /\ x.backend = None
  <2>1. 0 \in Nat /\ None \in Backends \cup {None}
    BY Fields
  <2>2. QED
    BY <2>1, EventFields
<1> HIDE DEF x
<1>6. f \in Seq(Events) /\ Grows(e, x, f)
  BY <1>5 DEF Grows
<1> HIDE DEF f
<1>7. TrailSound(u, f)
  <2>1. t.attempt \in 1 .. MaxAttempts /\ MaxAttempts \in Nat /\ TrailSound(t, e)
    BY TransactionAssumption DEF RequestSound, AttemptSound
  <2>2. Fits(t, u, x)
    BY <1>1, <1>4, <1>5, <2>1 DEF Fits, Searching
  <2>3. QED
    BY <1>1, <1>5, <1>6, <2>1, <2>2, TrailGrows
<1>8. ChargesTold(u, f)
  BY <1>1, <1>5, <1>6, FailureStaysTold DEF RequestSound, ChargesTold
<1>9. SelectionsTold(u, f)
  <2>1. Selected(f) = Selected(e) /\ \A i \in Selected(e) : f[i] = e[i]
    BY <1>5, <1>6, SelectedStays
  <2>2. QED
    BY <1>1, <1>6, <2>1, SelectionsStay DEF RequestSound, Searching
<1>10. QED
  BY <1>2, <1>3, <1>7, <1>8, <1>9 DEF RequestSound, u, f, x

\* Reserve.
LEMMA PlacedSound ==
  ASSUME NEW t \in Tx, NEW e \in Seq(Events), RequestSound(t, e),
         t.pc = "scanning", NEW b \in Backends, b \notin t.attempted
  PROVE  RequestSound(Placed(t, b), Append(e, Event("selected", t.attempt, b)))
<1> DEFINE u == Placed(t, b)
           x == Event("selected", t.attempt, b)
           f == Append(e, x)
<1>1. /\ u \in Tx /\ u.pc = "attempting" /\ u.attempt = t.attempt /\ u.method = t.method
      /\ u.attempted = t.attempted \cup {b} /\ u.charged = t.charged /\ u.backend = b
      /\ u.lastRetryResponse = t.lastRetryResponse
  BY PlacedFields
<1> HIDE DEF u
<1>2. ScanSound(u)
  BY <1>1 DEF RequestSound, ScanSound
<1>3. AttemptSound(u)
  BY <1>1 DEF RequestSound, AttemptSound
<1>4. Told(t.pc) = 0 /\ Told(u.pc) = 1
  BY <1>1 DEF Told, Searching
<1>5. /\ x \in Events /\ x.type = "selected" /\ x.attempt = t.attempt /\ x.backend = b
  <2>1. t.attempt \in Nat /\ b \in Backends \cup {None}
    BY Fields
  <2>2. QED
    BY <2>1, EventFields
<1> HIDE DEF x
<1>6. f \in Seq(Events) /\ Grows(e, x, f)
  BY <1>5 DEF Grows
<1> HIDE DEF f
<1>7. TrailSound(u, f)
  <2>1. t.attempt \in 1 .. MaxAttempts /\ MaxAttempts \in Nat /\ TrailSound(t, e)
    BY TransactionAssumption DEF RequestSound, AttemptSound
  <2>2. Fits(t, u, x)
    BY <1>1, <1>4, <1>5, <2>1 DEF Fits, Searching
  <2>3. QED
    BY <1>1, <1>5, <1>6, <2>1, <2>2, TrailGrows
<1>8. ChargesTold(u, f)
  BY <1>1, <1>5, <1>6, FailureStaysTold DEF RequestSound, ChargesTold
<1>9. SelectionsTold(u, f)
  <2>1. /\ Selected(f) = Selected(e) \cup {Len(e) + 1} /\ f[Len(e) + 1] = x
        /\ Len(e) + 1 \notin Selected(e) /\ \A i \in Selected(e) : f[i] = e[i]
        /\ Cardinality(Selected(e)) \in Nat
        /\ Cardinality(Selected(f)) = Cardinality(Selected(e)) + 1
    BY <1>5, <1>6, SelectedGrows
  <2>2. /\ \A i, j \in Selected(e) : i # j => e[i].backend # e[j].backend
        /\ \A i \in Selected(e) : e[i].backend \in t.attempted
        /\ Cardinality(Selected(e)) <= t.attempt - 1
    BY DEF RequestSound, SelectionsTold, Searching
  <2>3. Cardinality(Selected(f)) <= u.attempt
    BY <1>1, <2>1, <2>2, Fields
  <2>4. \A i, j \in Selected(f) : i # j => f[i].backend # f[j].backend
    BY <1>5, <2>1, <2>2
  <2>5. \A i \in Selected(f) : f[i].backend \in u.attempted
    BY <1>1, <1>5, <2>1, <2>2
  <2>6. QED
    BY <1>1, <2>3, <2>4, <2>5 DEF SelectionsTold, Searching
<1>10. QED
  BY <1>2, <1>3, <1>7, <1>8, <1>9 DEF RequestSound, u, f, x

\* NotReserved: a scan that is over has met every backend.
LEMMA UnreservedSound ==
  ASSUME NEW t \in Tx, NEW e \in Seq(Events), RequestSound(t, e),
         t.pc = "scanning", t.scan.next = BackendCount
  PROVE  RequestSound(Unreserved(t), Append(e, Event("failed", t.attempt, None)))
<1> DEFINE u == Unreserved(t)
           x == Event("failed", t.attempt, None)
           f == Append(e, x)
<1>1. /\ u \in Tx /\ u.pc = "unreserved" /\ u.attempt = t.attempt /\ u.method = t.method
      /\ u.attempted = t.attempted /\ u.charged = t.charged /\ u.scan = t.scan
      /\ u.lastRetryResponse = t.lastRetryResponse
  BY UnreservedFields
<1> HIDE DEF u
<1>2. ScanSound(u)
  <2>1. /\ Complete(t.scan.order) /\ t.scan.tried \subseteq Backends
        /\ t.attempted \subseteq Backends
        /\ \A k \in Backends : k < BackendCount =>
             t.scan.order[k] \in t.scan.tried \cup t.attempted
    BY Fields DEF RequestSound, ScanSound
  <2>2. \A k \in Backends : k < BackendCount
    BY BackendNumbers
  <2>3. t.scan.tried \cup t.attempted = Backends
    BY <2>1, <2>2 DEF Complete
  <2>4. QED
    BY <1>1, <2>3 DEF ScanSound
<1>3. AttemptSound(u)
  BY <1>1 DEF RequestSound, AttemptSound
<1>4. Told(t.pc) = 0 /\ Told(u.pc) = 1
  BY <1>1 DEF Told, Searching
<1>5. /\ x \in Events /\ x.type = "failed" /\ x.attempt = t.attempt /\ x.backend = None
  <2>1. t.attempt \in Nat /\ None \in Backends \cup {None}
    BY Fields
  <2>2. QED
    BY <2>1, EventFields
<1> HIDE DEF x
<1>6. f \in Seq(Events) /\ Grows(e, x, f)
  BY <1>5 DEF Grows
<1> HIDE DEF f
<1>7. TrailSound(u, f)
  <2>1. t.attempt \in 1 .. MaxAttempts /\ MaxAttempts \in Nat /\ TrailSound(t, e)
    BY TransactionAssumption DEF RequestSound, AttemptSound
  <2>2. Fits(t, u, x)
    BY <1>1, <1>4, <1>5, <2>1 DEF Fits, Searching
  <2>3. QED
    BY <1>1, <1>5, <1>6, <2>1, <2>2, TrailGrows
<1>8. ChargesTold(u, f)
  BY <1>1, <1>5, <1>6, FailureStaysTold DEF RequestSound, ChargesTold
<1>9. SelectionsTold(u, f)
  <2>1. Selected(f) = Selected(e) /\ \A i \in Selected(e) : f[i] = e[i]
    BY <1>5, <1>6, SelectedStays
  <2>2. QED
    BY <1>1, <1>6, <2>1, SelectionsStay DEF RequestSound, Searching
<1>10. QED
  BY <1>2, <1>3, <1>7, <1>8, <1>9 DEF RequestSound, u, f, x

\* AnswerUnreserved, AnswerFailure and AnswerResponse.
LEMMA AnsweringSound ==
  ASSUME NEW t \in Tx, NEW e \in Seq(Events), RequestSound(t, e),
         t.pc \in {"unreserved", "failed", "responded"}, NEW a \in Responses,
         Generated(a) => a.status \notin 200 .. 399 /\ a.error, t.pc = "responded" => a.from = t.backend
  PROVE  RequestSound(Answering(t, a), e)
<1> DEFINE u == Answering(t, a)
<1>1. /\ u \in Tx /\ u.pc = "answering" /\ u.attempt = t.attempt /\ u.method = t.method
      /\ u.attempted = t.attempted /\ u.charged = t.charged /\ u.reply = a
      /\ u.lastRetryResponse = t.lastRetryResponse
  BY AnsweringFields
<1> HIDE DEF u
<1>2. ScanSound(u)
  BY <1>1 DEF RequestSound, ScanSound
<1>3. AttemptSound(u)
  BY <1>1 DEF RequestSound, AttemptSound
<1>4. Told(t.pc) <= 2 /\ Told(u.pc) = 2
  BY <1>1 DEF Told, Searching
<1>5. TrailSound(u, e)
  BY <1>1, <1>4, TrailStays DEF RequestSound, Searching
<1>6. ChargesTold(u, e)
  BY <1>1 DEF RequestSound, ChargesTold
<1>7. SelectionsTold(u, e)
  BY <1>1, SelectionsStay DEF RequestSound, Searching
<1>8. QED
  BY <1>2, <1>3, <1>5, <1>6, <1>7 DEF RequestSound, u

\* AttemptFails.
LEMMA FailedSound ==
  ASSUME NEW t \in Tx, NEW e \in Seq(Events), RequestSound(t, e),
         t.pc = "attempting", NEW k \in Kinds, NEW C \in SUBSET Backends,
         C \subseteq t.charged \cup {t.backend}
  PROVE  RequestSound(Failed(t, k, C), Append(e, Event("failed", t.attempt, t.backend)))
<1> DEFINE u == Failed(t, k, C)
           x == Event("failed", t.attempt, t.backend)
           f == Append(e, x)
<1>1. /\ u \in Tx /\ u.pc = "failed" /\ u.attempt = t.attempt /\ u.method = t.method
      /\ u.attempted = t.attempted /\ u.charged = C /\ u.backend = t.backend
      /\ u.lastRetryResponse = t.lastRetryResponse
  BY FailedFields
<1> HIDE DEF u
<1>2. ScanSound(u)
  BY <1>1 DEF RequestSound, ScanSound
<1>3. AttemptSound(u)
  BY <1>1 DEF RequestSound, AttemptSound
<1>4. Told(t.pc) = 1 /\ Told(u.pc) = 2
  BY <1>1 DEF Told, Searching
<1>5. /\ x \in Events /\ x.type = "failed" /\ x.attempt = t.attempt /\ x.backend = t.backend
  <2>1. t.attempt \in Nat /\ t.backend \in Backends \cup {None}
    BY Fields
  <2>2. QED
    BY <2>1, EventFields
<1> HIDE DEF x
<1>6. f \in Seq(Events) /\ Grows(e, x, f)
  BY <1>5 DEF Grows
<1> HIDE DEF f
<1>7. TrailSound(u, f)
  <2>1. t.attempt \in 1 .. MaxAttempts /\ MaxAttempts \in Nat /\ TrailSound(t, e)
    BY TransactionAssumption DEF RequestSound, AttemptSound
  <2>2. Fits(t, u, x)
    BY <1>1, <1>4, <1>5, <2>1 DEF Fits, Searching
  <2>3. QED
    BY <1>1, <1>5, <1>6, <2>1, <2>2, TrailGrows
<1>8. ChargesTold(u, f)
  BY <1>1, <1>5, <1>6, FailureStaysTold DEF RequestSound, ChargesTold
<1>9. SelectionsTold(u, f)
  <2>1. Selected(f) = Selected(e) /\ \A i \in Selected(e) : f[i] = e[i]
    BY <1>5, <1>6, SelectedStays
  <2>2. QED
    BY <1>1, <1>6, <2>1, SelectionsStay DEF RequestSound, Searching
<1>10. QED
  BY <1>2, <1>3, <1>7, <1>8, <1>9 DEF RequestSound, u, f, x

\* AttemptResponds.
LEMMA RespondedSound ==
  ASSUME NEW t \in Tx, NEW e \in Seq(Events), RequestSound(t, e),
         t.pc = "attempting", NEW a \in Responses, NEW C \in SUBSET Backends,
         C \subseteq t.charged \cup {t.backend}, a.from = t.backend
  PROVE  RequestSound(Responded(t, a, C), e)
<1> DEFINE u == Responded(t, a, C)
<1>1. /\ u \in Tx /\ u.pc = "responded" /\ u.attempt = t.attempt /\ u.method = t.method
      /\ u.attempted = t.attempted /\ u.charged = C /\ u.backend = t.backend
      /\ u.lastRetryResponse = t.lastRetryResponse /\ u.response = a
  BY RespondedFields
<1> HIDE DEF u
<1>2. ScanSound(u)
  BY <1>1 DEF RequestSound, ScanSound
<1>3. AttemptSound(u)
  BY <1>1 DEF RequestSound, AttemptSound
<1>4. Told(t.pc) = 1 /\ Told(u.pc) = 1
  BY <1>1 DEF Told, Searching
<1>5. TrailSound(u, e)
  BY <1>1, <1>4, TrailStays DEF RequestSound, Searching
<1>6. ChargesTold(u, e)
  BY <1>1 DEF RequestSound, ChargesTold
<1>7. SelectionsTold(u, e)
  BY <1>1, SelectionsStay DEF RequestSound, Searching
<1>8. QED
  BY <1>2, <1>3, <1>5, <1>6, <1>7 DEF RequestSound, u

\* RetryResponse.
LEMMA BufferedSound ==
  ASSUME NEW t \in Tx, NEW e \in Seq(Events), RequestSound(t, e),
         t.pc = "responded", t.method = "GET", t.attempt < MaxAttempts
  PROVE  RequestSound(Buffered(t), Append(e, Event("failed", t.attempt, t.backend)))
<1> DEFINE u == Buffered(t)
           x == Event("failed", t.attempt, t.backend)
           f == Append(e, x)
<1>1. /\ u \in Tx /\ u.pc = "again" /\ u.attempt = t.attempt /\ u.method = t.method
      /\ u.attempted = t.attempted /\ u.charged = t.charged /\ u.backend = t.backend
      /\ u.lastRetryResponse = t.response
  BY BufferedFields
<1> HIDE DEF u
<1>2. ScanSound(u)
  BY <1>1 DEF RequestSound, ScanSound
<1>3. AttemptSound(u)
  BY <1>1, TransactionAssumption DEF RequestSound, AttemptSound, Generated
<1>4. Told(t.pc) = 1 /\ Told(u.pc) = 2
  BY <1>1 DEF Told, Searching
<1>5. /\ x \in Events /\ x.type = "failed" /\ x.attempt = t.attempt /\ x.backend = t.backend
  <2>1. t.attempt \in Nat /\ t.backend \in Backends \cup {None}
    BY Fields
  <2>2. QED
    BY <2>1, EventFields
<1> HIDE DEF x
<1>6. f \in Seq(Events) /\ Grows(e, x, f)
  BY <1>5 DEF Grows
<1> HIDE DEF f
<1>7. TrailSound(u, f)
  <2>1. t.attempt \in 1 .. MaxAttempts /\ MaxAttempts \in Nat /\ TrailSound(t, e)
    BY TransactionAssumption DEF RequestSound, AttemptSound
  <2>2. Fits(t, u, x)
    BY <1>1, <1>4, <1>5, <2>1 DEF Fits, Searching
  <2>3. QED
    BY <1>1, <1>5, <1>6, <2>1, <2>2, TrailGrows
<1>8. ChargesTold(u, f)
  BY <1>1, <1>5, <1>6, FailureStaysTold DEF RequestSound, ChargesTold
<1>9. SelectionsTold(u, f)
  <2>1. Selected(f) = Selected(e) /\ \A i \in Selected(e) : f[i] = e[i]
    BY <1>5, <1>6, SelectedStays
  <2>2. QED
    BY <1>1, <1>6, <2>1, SelectionsStay DEF RequestSound, Searching
<1>10. QED
  BY <1>2, <1>3, <1>7, <1>8, <1>9 DEF RequestSound, u, f, x

\* RetryFailure and TryAgain.
LEMMA AgainSound ==
  ASSUME NEW t \in Tx, NEW e \in Seq(Events), RequestSound(t, e),
         t.pc \in {"failed", "again"}, t.method = "GET", t.attempt < MaxAttempts,
         NEW n \in Nat, n = t.attempt + 1
  PROVE  RequestSound(Again(t, n), Append(e, Event("retry", n, t.backend)))
<1> DEFINE u == Again(t, n)
           x == Event("retry", n, t.backend)
           f == Append(e, x)
<1>1. /\ u \in Tx /\ u.pc = "started" /\ u.attempt = n /\ u.method = t.method
      /\ u.attempted = t.attempted /\ u.charged = t.charged
      /\ u.lastRetryResponse = t.lastRetryResponse
  BY AgainFields
<1> HIDE DEF u
<1>2. ScanSound(u)
  BY <1>1 DEF RequestSound, ScanSound
<1>3. AttemptSound(u)
  BY <1>1, TransactionAssumption DEF RequestSound, AttemptSound
<1>4. Told(t.pc) = 2 /\ Told(u.pc) = 0
  BY <1>1 DEF Told, Searching
<1>5. /\ x \in Events /\ x.type = "retry" /\ x.attempt = n /\ x.backend = t.backend
  <2>1. n \in Nat /\ t.backend \in Backends \cup {None}
    BY Fields
  <2>2. QED
    BY <2>1, EventFields
<1> HIDE DEF x
<1>6. f \in Seq(Events) /\ Grows(e, x, f)
  BY <1>5 DEF Grows
<1> HIDE DEF f
<1>7. TrailSound(u, f)
  <2>1. t.attempt \in 1 .. MaxAttempts /\ MaxAttempts \in Nat /\ TrailSound(t, e)
    BY TransactionAssumption DEF RequestSound, AttemptSound
  <2>2. Fits(t, u, x)
    BY <1>1, <1>4, <1>5, <2>1 DEF Fits, Searching
  <2>3. QED
    BY <1>1, <1>5, <1>6, <2>1, <2>2, TrailGrows
<1>8. ChargesTold(u, f)
  BY <1>1, <1>5, <1>6, FailureStaysTold DEF RequestSound, ChargesTold
<1>9. SelectionsTold(u, f)
  <2>1. Selected(f) = Selected(e) /\ \A i \in Selected(e) : f[i] = e[i]
    BY <1>5, <1>6, SelectedStays
  <2>2. QED
    BY <1>1, <1>6, <2>1, SelectionsStay DEF RequestSound, Searching
<1>10. QED
  BY <1>2, <1>3, <1>7, <1>8, <1>9 DEF RequestSound, u, f, x

\* CompleteRequest.
LEMMA AnsweredSound ==
  ASSUME NEW t \in Tx, NEW e \in Seq(Events), RequestSound(t, e),
         t.pc = "answering"
  PROVE  RequestSound(Answered(t), Append(e, Event("completed", t.attempt, None)))
<1> DEFINE u == Answered(t)
           x == Event("completed", t.attempt, None)
           f == Append(e, x)
<1>1. /\ u \in Tx /\ u.pc = "answered" /\ u.attempt = t.attempt /\ u.method = t.method
      /\ u.charged = t.charged /\ u.reply = t.reply
      /\ u.lastRetryResponse = t.lastRetryResponse
  BY AnsweredFields
<1> HIDE DEF u
<1>2. ScanSound(u)
  BY <1>1 DEF RequestSound, ScanSound
<1>3. AttemptSound(u)
  BY <1>1 DEF RequestSound, AttemptSound
<1>4. Told(t.pc) = 2 /\ Told(u.pc) = 3
  BY <1>1 DEF Told, Searching
<1>5. /\ x \in Events /\ x.type = "completed" /\ x.attempt = t.attempt /\ x.backend = None
  <2>1. t.attempt \in Nat /\ None \in Backends \cup {None}
    BY Fields
  <2>2. QED
    BY <2>1, EventFields
<1> HIDE DEF x
<1>6. f \in Seq(Events) /\ Grows(e, x, f)
  BY <1>5 DEF Grows
<1> HIDE DEF f
<1>7. TrailSound(u, f)
  <2>1. t.attempt \in 1 .. MaxAttempts /\ MaxAttempts \in Nat /\ TrailSound(t, e)
    BY TransactionAssumption DEF RequestSound, AttemptSound
  <2>2. Fits(t, u, x)
    BY <1>1, <1>4, <1>5, <2>1 DEF Fits, Searching
  <2>3. QED
    BY <1>1, <1>5, <1>6, <2>1, <2>2, TrailGrows
<1>8. ChargesTold(u, f)
  BY <1>1, <1>5, <1>6, FailureStaysTold DEF RequestSound, ChargesTold
<1>9. SelectionsTold(u, f)
  <2>1. Selected(f) = Selected(e) /\ \A i \in Selected(e) : f[i] = e[i]
    BY <1>5, <1>6, SelectedStays
  <2>2. QED
    BY <1>1, <1>6, <2>1, SelectionsStay DEF RequestSound, Searching
<1>10. QED
  BY <1>2, <1>3, <1>7, <1>8, <1>9 DEF RequestSound, u, f, x

-----------------------------------------------------------------------------
(* The steps, in terms of the locals and the trail they leave.             *)

\* Request r moves on, to locals u and trail f.
Moves(r, u, f) ==
  /\ tx' = [tx EXCEPT ![r] = u] /\ trail' = [trail EXCEPT ![r] = f]
  /\ UNCHANGED <<sequence, eligible, late>>

\* CountRequest.
LEMMA CountRequestEffect ==
  ASSUME Shape, NEW r \in Requests, RequestSound(tx[r], trail[r]), CountRequest(r)
  PROVE  /\ tx[r].pc = "arriving"
         /\ \E m \in Methods : Moves(r, Counted(tx[r], m, metrics["active"] + 1), trail[r])
         /\ metrics' = [metrics EXCEPT !["requests"] = @ + 1, !["active"] = @ + 1]
         /\ UNCHANGED inFlight
<1>1. tx \in [Requests -> Tx] /\ trail \in [Requests -> Seq(Events)]
  BY DEF Shape
<1>2. /\ tx[r].pc = "arriving" /\ UNCHANGED <<sequence, eligible, inFlight, late, trail>>
      /\ metrics' = [metrics EXCEPT !["requests"] = @ + 1, !["active"] = @ + 1]
  BY Zenon DEF CountRequest, At
<1> DEFINE a == metrics["active"] + 1
<1>3. PICK m \in Methods :
        tx' = [tx EXCEPT ![r].pc = "counted", ![r].method = m, ![r].active = a]
  BY Zenon DEF CountRequest
<1> HIDE DEF a
<1>4. Moves(r, Counted(tx[r], m, a), trail[r])
  BY <1>1, <1>2, <1>3, ZenonT(40) DEF Moves, Tx, Counted
<1>5. QED
  BY <1>2, <1>4 DEF a

\* RecordPeak.
LEMMA RecordPeakEffect ==
  ASSUME Shape, NEW r \in Requests, RequestSound(tx[r], trail[r]), RecordPeak(r)
  PROVE  /\ tx[r].pc = "counted"
         /\ Moves(r, Started(tx[r]),
                  Append(trail[r], Event("started", 0, None)))
         /\ metrics' = [metrics EXCEPT !["peak"] = RaisePeak(@, tx[r].active)]
         /\ UNCHANGED inFlight
<1>1. tx \in [Requests -> Tx] /\ trail \in [Requests -> Seq(Events)]
  BY DEF Shape
<1>2. /\ tx[r].pc = "counted"
      /\ tx' = [tx EXCEPT ![r].pc = "started", ![r].active = 0]
      /\ trail' = [trail EXCEPT ![r] = Append(@, Event("started", 0, None))]
      /\ UNCHANGED <<sequence, eligible, late>>
      /\ metrics' = [metrics EXCEPT !["peak"] = RaisePeak(@, tx[r].active)]
      /\ UNCHANGED inFlight
  BY Zenon DEF RecordPeak, At, Publish, Event
<1>3. Moves(r, Started(tx[r]), Append(trail[r], Event("started", 0, None)))
  BY <1>1, <1>2, ZenonT(40) DEF Moves, Tx, Started
<1>4. QED
  BY <1>2, <1>3

\* NotReserved.
LEMMA NotReservedEffect ==
  ASSUME Shape, NEW r \in Requests, RequestSound(tx[r], trail[r]), NotReserved(r)
  PROVE  /\ tx[r].pc = "scanning" /\ tx[r].scan.next = BackendCount
         /\ Moves(r, Unreserved(tx[r]),
                  Append(trail[r], Event("failed", tx[r].attempt, None)))
         /\ Record("refused") /\ UNCHANGED inFlight
<1>1. tx \in [Requests -> Tx] /\ trail \in [Requests -> Seq(Events)]
  BY DEF Shape
<1>2. /\ tx[r].pc = "scanning" /\ tx[r].scan.next = BackendCount
      /\ tx' = [tx EXCEPT ![r].pc = "unreserved"]
      /\ trail' = [trail EXCEPT ![r] = Append(@, Event("failed", tx[r].attempt, None))]
      /\ UNCHANGED <<sequence, eligible, late>>
      /\ Record("refused") /\ UNCHANGED inFlight
  BY Zenon DEF NotReserved, ScanOver, At, Publish, Event
<1>3. Moves(r, Unreserved(tx[r]), Append(trail[r], Event("failed", tx[r].attempt, None)))
  BY <1>1, <1>2 DEF Moves, Tx, Unreserved
<1>4. QED
  BY <1>2, <1>3

\* RetryResponse.
LEMMA RetryResponseEffect ==
  ASSUME Shape, NEW r \in Requests, RequestSound(tx[r], trail[r]), RetryResponse(r)
  PROVE  /\ tx[r].pc = "responded" /\ tx[r].method = "GET"
         /\ tx[r].attempt < MaxAttempts
         /\ Moves(r, Buffered(tx[r]),
                  Append(trail[r], Event("failed", tx[r].attempt, tx[r].backend)))
         /\ UNCHANGED <<inFlight, metrics>>
<1>1. tx \in [Requests -> Tx] /\ trail \in [Requests -> Seq(Events)]
  BY DEF Shape
<1>2. /\ tx[r].pc = "responded" /\ tx[r].method = "GET"
      /\ tx[r].attempt < MaxAttempts
      /\ tx' = [tx EXCEPT ![r].pc = "again", ![r].lastRetryResponse = tx[r].response]
      /\ trail' = [trail EXCEPT ![r] = Append(@, Event("failed", tx[r].attempt, tx[r].backend))]
      /\ UNCHANGED <<sequence, eligible, late>>
      /\ UNCHANGED <<inFlight, metrics>>
  BY Zenon DEF RetryResponse, canRetryProxyRequest, At, Publish, Event
<1>3. Moves(r, Buffered(tx[r]), Append(trail[r], Event("failed", tx[r].attempt, tx[r].backend)))
  BY <1>1, <1>2, ZenonT(40) DEF Moves, Tx, Buffered
<1>4. QED
  BY <1>2, <1>3

\* CompleteRequest.
LEMMA CompleteRequestEffect ==
  ASSUME Shape, NEW r \in Requests, RequestSound(tx[r], trail[r]), CompleteRequest(r)
  PROVE  /\ tx[r].pc = "answering"
         /\ Moves(r, Answered(tx[r]),
                  Append(trail[r], Event("completed", tx[r].attempt, None)))
         /\ metrics' = completeRequest(metrics, tx[r].reply)
         /\ UNCHANGED inFlight
<1>1. tx \in [Requests -> Tx] /\ trail \in [Requests -> Seq(Events)]
  BY DEF Shape
<1>2. /\ tx[r].pc = "answering"
      /\ tx' = [tx EXCEPT ![r].pc = "answered", ![r].scan = NoScan, ![r].attempted = {},
                            ![r].backend = None, ![r].response = NoResponse,
                            ![r].lastFailure = None]
      /\ trail' = [trail EXCEPT ![r] = Append(@, Event("completed", tx[r].attempt, None))]
      /\ UNCHANGED <<sequence, eligible, late>>
      /\ metrics' = completeRequest(metrics, tx[r].reply)
      /\ UNCHANGED inFlight
  BY Zenon DEF CompleteRequest, At, Publish, Event
<1>3. Moves(r, Answered(tx[r]), Append(trail[r], Event("completed", tx[r].attempt, None)))
  BY <1>1, <1>2, ZenonT(40) DEF Moves, Tx, Answered
<1>4. QED
  BY <1>2, <1>3

\* A reservation takes a place of a backend that was not attempted.
LEMMA ReserveEffect ==
  ASSUME Shape, NEW r \in Requests, RequestSound(tx[r], trail[r]), Reserve(r)
  PROVE  /\ tx[r].pc = "scanning" /\ Record("attempts")
         /\ \E b \in Backends :
              /\ b \notin tx[r].attempted /\ inFlight[b] < MaxInFlight
              /\ inFlight' = [inFlight EXCEPT ![b] = @ + 1]
              /\ Moves(r, Placed(tx[r], b),
                       Append(trail[r], Event("selected", tx[r].attempt, b)))
<1> DEFINE b == Candidate(r)
<1>1. tx \in [Requests -> Tx] /\ trail \in [Requests -> Seq(Events)] /\ tx[r].scan \in Scans
  BY Fields DEF Shape
<1>2. /\ tx[r].pc = "scanning" /\ tx[r].scan.next < BackendCount /\ Record("attempts")
      /\ tx' = [tx EXCEPT ![r].pc = "attempting", ![r].scan = NoScan, ![r].backend = b,
                          ![r].attempted = @ \cup {b}]
      /\ trail' = [trail EXCEPT ![r] = Append(@, Event("selected", tx[r].attempt, b))]
      /\ UNCHANGED <<sequence, eligible, late>>
      /\ b \notin tx[r].attempted /\ inFlight[b] < MaxInFlight
      /\ inFlight' = [inFlight EXCEPT ![b] = @ + 1]
  BY Zenon DEF Reserve, Skippable, Scanning, At, Publish, Event
<1>3. b \in Backends
  <2>1. tx[r].scan.next \in Backends
    BY <1>1, <1>2, Fields, BackendNumbers
  <2>2. QED
    BY <1>1, <2>1, Fields DEF Candidate
<1> HIDE DEF b
<1>4. Moves(r, Placed(tx[r], b), Append(trail[r], Event("selected", tx[r].attempt, b)))
  BY <1>1, <1>2, ZenonT(40) DEF Moves, Tx, Placed
<1>5. QED
  BY <1>2, <1>3, <1>4

\* What an attempt that ended may charge.
LEMMA ChargedBounds ==
  ASSUME NEW r \in Requests, NEW outcome, tx[r] \in Tx, tx[r].backend \in Backends
  PROVE  /\ Charged(r, outcome) \in SUBSET Backends
         /\ Charged(r, outcome) \subseteq tx[r].charged \cup {tx[r].backend}
  BY Fields DEF Charged

\* An attempt that fails gives its place back.
LEMMA AttemptFailsEffect ==
  ASSUME Shape, NEW r \in Requests, RequestSound(tx[r], trail[r]), AttemptFails(r)
  PROVE  /\ tx[r].pc = "attempting" /\ tx[r].backend \in Backends
         /\ Record("failed") /\ GiveBack(r)
         /\ \E k \in Kinds, C \in SUBSET Backends :
              /\ C \subseteq tx[r].charged \cup {tx[r].backend}
              /\ Moves(r, Failed(tx[r], k, C),
                       Append(trail[r], Event("failed", tx[r].attempt, tx[r].backend)))
<1>1. tx \in [Requests -> Tx] /\ trail \in [Requests -> Seq(Events)] /\ tx[r] \in Tx
  BY DEF Shape
<1>2. /\ tx[r].pc = "attempting" /\ Record("failed") /\ GiveBack(r)
      /\ trail' = [trail EXCEPT ![r] =
                     Append(@, Event("failed", tx[r].attempt, tx[r].backend))]
      /\ UNCHANGED <<sequence, eligible, late>>
  BY Zenon DEF AttemptFails, At, Publish, Event
<1>3. tx[r].backend \in Backends
  BY <1>2 DEF RequestSound, AttemptSound
<1>4. PICK k \in PossibleFailures(r) :
        tx' = [tx EXCEPT ![r].pc = "failed", ![r].lastFailure = k,
                         ![r].charged = Charged(r, passiveOutcomeForError(k))]
  BY Zenon DEF AttemptFails
<1>5. k \in Kinds
  BY TransactionAssumption DEF PossibleFailures, Kinds
<1> DEFINE C == Charged(r, passiveOutcomeForError(k))
<1>6. C \in SUBSET Backends /\ C \subseteq tx[r].charged \cup {tx[r].backend}
  BY <1>1, <1>3, ChargedBounds
<1> HIDE DEF C
<1>7. Moves(r, Failed(tx[r], k, C),
            Append(trail[r], Event("failed", tx[r].attempt, tx[r].backend)))
  <2>1. tx' = [tx EXCEPT ![r].pc = "failed", ![r].lastFailure = k, ![r].charged = C]
    BY <1>4 DEF C
  <2>2. QED
    BY <1>1, <1>2, <2>1, ZenonT(40) DEF Moves, Tx, Failed
<1>8. QED
  BY <1>2, <1>3, <1>5, <1>6, <1>7

\* An attempt that gets a response gives its place back.
LEMMA AttemptRespondsEffect ==
  ASSUME Shape, NEW r \in Requests, RequestSound(tx[r], trail[r]), AttemptResponds(r)
  PROVE  /\ tx[r].pc = "attempting" /\ tx[r].backend \in Backends
         /\ UNCHANGED metrics /\ GiveBack(r)
         /\ \E a \in Responses, C \in SUBSET Backends :
              /\ C \subseteq tx[r].charged \cup {tx[r].backend} /\ a.from = tx[r].backend
              /\ Moves(r, Responded(tx[r], a, C), trail[r])
<1>1. tx \in [Requests -> Tx] /\ trail \in [Requests -> Seq(Events)] /\ tx[r] \in Tx
  BY DEF Shape
<1>2. /\ tx[r].pc = "attempting" /\ GiveBack(r)
      /\ UNCHANGED <<sequence, eligible, late, trail, metrics>>
  BY Zenon DEF AttemptResponds, At
<1>3. tx[r].backend \in Backends
  BY <1>2 DEF RequestSound, AttemptSound
<1>4. PICK status \in UpstreamStatuses, slow \in {SlowLatency, FALSE} :
      \E error \in PossibleReports(status) :
        tx' = [tx EXCEPT ![r].pc = "responded",
                         ![r].response = [from |-> tx[r].backend, status |-> status,
                                          error |-> error],
                         ![r].charged = Charged(r, passiveOutcome(status, slow))]
  BY Zenon DEF AttemptResponds
<1>9. PICK error \in PossibleReports(status) :
        tx' = [tx EXCEPT ![r].pc = "responded",
                         ![r].response = [from |-> tx[r].backend, status |-> status,
                                          error |-> error],
                         ![r].charged = Charged(r, passiveOutcome(status, slow))]
  BY <1>4
<1>10. error \in BOOLEAN
  BY <1>9 DEF PossibleReports
<1> DEFINE C == Charged(r, passiveOutcome(status, slow))
           a == [from |-> tx[r].backend, status |-> status, error |-> error]
<1>5. C \in SUBSET Backends /\ C \subseteq tx[r].charged \cup {tx[r].backend}
  BY <1>1, <1>3, ChargedBounds
<1>6. a \in Responses /\ a.from = tx[r].backend
  BY <1>3, <1>10 DEF Responses, Statuses
<1> HIDE DEF C, a
<1>7. Moves(r, Responded(tx[r], a, C), trail[r])
  <2>1. tx' = [tx EXCEPT ![r].pc = "responded", ![r].response = a, ![r].charged = C]
    BY <1>9 DEF C, a
  <2>2. QED
    BY <1>1, <1>2, <2>1, ZenonT(40) DEF Moves, Tx, Responded
<1>8. QED
  BY <1>2, <1>3, <1>5, <1>6, <1>7

\* A generated response is a gateway error.
LEMMA FailureResponse ==
  ASSUME NEW kind
  PROVE  /\ proxyFailureResponse(kind) \in Responses
         /\ proxyFailureResponse(kind).status \notin 200 .. 399
         /\ proxyFailureResponse(kind).error
<1>1. StatusOf(kind) \in {502, 503, 504}
  BY DEF StatusOf
<1>2. QED
  BY <1>1 DEF proxyFailureResponse, Responses, Statuses

\* An answer that is made up is no success, and one to a response is the response.
LEMMA AnswerEffect ==
  ASSUME Shape, NEW r \in Requests, RequestSound(tx[r], trail[r]),
         AnswerUnreserved(r) \/ AnswerFailure(r) \/ AnswerResponse(r)
  PROVE  /\ tx[r].pc \in {"unreserved", "failed", "responded"}
         /\ UNCHANGED <<inFlight, metrics>>
         /\ \E a \in Responses :
              /\ Generated(a) => a.status \notin 200 .. 399 /\ a.error
              /\ tx[r].pc = "responded" => a.from = tx[r].backend /\ ~ Generated(a)
              /\ Moves(r, Answering(tx[r], a), trail[r])
<1>1. tx \in [Requests -> Tx] /\ trail \in [Requests -> Seq(Events)] /\ tx[r] \in Tx
  BY DEF Shape
<1>2. UNCHANGED <<sequence, eligible, inFlight, late, trail, metrics>>
  BY Zenon DEF AnswerUnreserved, AnswerFailure, AnswerResponse
<1>3. ASSUME NEW a \in Responses, Answer(r, a) PROVE Moves(r, Answering(tx[r], a), trail[r])
  BY <1>1, <1>2, <1>3, ZenonT(40) DEF Answer, Moves, Tx, Answering
<1>4. CASE AnswerUnreserved(r)
  <2>1. tx[r].pc = "unreserved"
    BY <1>4 DEF AnswerUnreserved, At
  <2>2. PICK a : /\ Answer(r, a)
                 /\ \/ a = tx[r].lastRetryResponse /\ a # NoResponse
                    \/ \E k : a = proxyFailureResponse(k)
    BY <1>4, Zenon DEF AnswerUnreserved
  <2>3. CASE a = tx[r].lastRetryResponse /\ a # NoResponse
    <3>1. a \in Responses /\ ~ Generated(a)
      BY <1>1, <2>3, Fields DEF RequestSound, AttemptSound
    <3>2. QED
      BY <1>2, <1>3, <2>1, <2>2, <3>1
  <2>4. CASE \E k : a = proxyFailureResponse(k)
    BY <1>2, <1>3, <2>1, <2>2, <2>4, FailureResponse
  <2>5. QED
    BY <2>2, <2>3, <2>4
<1>5. CASE AnswerFailure(r)
  <2>1. tx[r].pc = "failed" /\ Answer(r, proxyFailureResponse(tx[r].lastFailure))
    BY <1>5, Zenon DEF AnswerFailure, At
  <2>2. QED
    BY <1>2, <1>3, <2>1, FailureResponse
<1>6. CASE AnswerResponse(r)
  <2>1. tx[r].pc = "responded" /\ Answer(r, tx[r].response)
    BY <1>6, Zenon DEF AnswerResponse, At
  <2>2. /\ tx[r].response \in Responses /\ tx[r].response.from = tx[r].backend
        /\ ~ Generated(tx[r].response)
    BY <1>1, <2>1, Fields, TransactionAssumption DEF RequestSound, AttemptSound, Generated
  <2>3. QED
    BY <1>2, <1>3, <2>1, <2>2
<1>7. QED
  BY <1>4, <1>5, <1>6

\* A retry begins another attempt.
LEMMA RetryEffect ==
  ASSUME Shape, NEW r \in Requests, RequestSound(tx[r], trail[r]),
         RetryFailure(r) \/ TryAgain(r)
  PROVE  /\ tx[r].pc \in {"failed", "again"} /\ tx[r].method = "GET"
         /\ tx[r].attempt < MaxAttempts /\ tx[r].attempt + 1 \in Nat
         /\ Record("retries") /\ UNCHANGED inFlight
         /\ Moves(r, Again(tx[r], tx[r].attempt + 1),
                  Append(trail[r], Event("retry", tx[r].attempt + 1, tx[r].backend)))
<1> DEFINE n == tx[r].attempt + 1
<1>1. /\ tx \in [Requests -> Tx] /\ trail \in [Requests -> Seq(Events)] /\ tx[r] \in Tx
      /\ tx[r].attempt \in Nat
  BY Fields DEF Shape
<1>2. /\ tx' = [tx EXCEPT ![r].pc = "started", ![r].attempt = n, ![r].backend = None,
                          ![r].response = NoResponse]
      /\ trail' = [trail EXCEPT ![r] = Append(@, Event("retry", n, tx[r].backend))]
      /\ Record("retries") /\ UNCHANGED <<sequence, eligible, inFlight, late>>
  BY Zenon DEF RetryFailure, TryAgain, Publish, Event
<1>3. /\ tx[r].pc \in {"failed", "again"} /\ tx[r].method = "GET"
      /\ tx[r].attempt < MaxAttempts
  <2>1. CASE RetryFailure(r)
    BY <2>1 DEF RetryFailure, At, canRetryProxyRequest
  <2>2. CASE TryAgain(r)
    BY <2>2 DEF TryAgain, At, RequestSound, AttemptSound
  <2>3. QED
    BY <2>1, <2>2
<1>4. n \in Nat
  BY <1>1
<1> HIDE DEF n
<1>5. Moves(r, Again(tx[r], n), Append(trail[r], Event("retry", n, tx[r].backend)))
  BY <1>1, <1>2, <1>4, ZenonT(40) DEF Moves, Tx, Again
<1>6. QED
  BY <1>2, <1>3, <1>4, <1>5 DEF n

\* The locals of a request that searches.
LEMMA SoughtFields ==
  ASSUME NEW t \in Tx, NEW s \in Scans, NEW p \in Steps
  PROVE  /\ Sought(t, s, p) \in Tx
         /\ Sought(t, s, p).pc = p
         /\ Sought(t, s, p).method = t.method
         /\ Sought(t, s, p).active = t.active
         /\ Sought(t, s, p).attempt = t.attempt
         /\ Sought(t, s, p).attempted = t.attempted
         /\ Sought(t, s, p).charged = t.charged
         /\ Sought(t, s, p).backend = t.backend
         /\ Sought(t, s, p).response = t.response
         /\ Sought(t, s, p).lastRetryResponse = t.lastRetryResponse
         /\ Sought(t, s, p).reply = t.reply
  BY ZenonT(40) DEF Tx, Steps, Sought

\* The steps of the selection tell nothing.
LEMMA SoughtSound ==
  ASSUME NEW t \in Tx, NEW e \in Seq(Events), RequestSound(t, e),
         t.pc \in Searching, NEW s \in Scans, NEW p \in Searching,
         ScanSound(Sought(t, s, p))
  PROVE  RequestSound(Sought(t, s, p), e)
<1> DEFINE u == Sought(t, s, p)
<1>1. /\ u \in Tx /\ u.pc = p /\ u.attempt = t.attempt /\ u.method = t.method
      /\ u.attempted = t.attempted /\ u.charged = t.charged /\ u.backend = t.backend
      /\ u.lastRetryResponse = t.lastRetryResponse /\ ScanSound(u)
  <2>1. p \in Steps
    BY DEF Searching, Steps
  <2>2. QED
    BY <2>1, SoughtFields
<1> HIDE DEF u
<1>2. t.pc \notin {"arriving", "counted", "again", "attempting", "failed", "responded",
                   "answering", "answered"}
  BY DEF Searching
<1>3. u.pc \notin {"arriving", "counted", "again", "attempting", "failed", "responded",
                   "answering", "answered"}
  BY <1>1 DEF Searching
<1>4. AttemptSound(u)
  BY <1>1, <1>3 DEF RequestSound, AttemptSound
<1>5. Told(t.pc) = 0 /\ Told(u.pc) = 0
  BY <1>1 DEF Told
<1>6. TrailSound(u, e)
  BY <1>1, <1>2, <1>3, <1>5, TrailStays DEF RequestSound
<1>7. ChargesTold(u, e)
  BY <1>1, <1>2 DEF RequestSound, ChargesTold
<1>8. SelectionsTold(u, e)
  BY <1>1, <1>2, <1>3, SelectionsStay DEF RequestSound
<1>9. QED
  BY <1>1, <1>4, <1>6, <1>7, <1>8 DEF RequestSound, u

-----------------------------------------------------------------------------
(* What one request's step leaves of the others, and of what is counted.   *)

\* A request that moves to sound locals and a sound trail keeps all sound.
LEMMA MovesKeep ==
  ASSUME Shape, \A q \in Requests : RequestSound(tx[q], trail[q]),
         NEW r \in Requests, NEW u \in Tx, NEW f \in Seq(Events), RequestSound(u, f),
         tx' = [tx EXCEPT ![r] = u], trail' = [trail EXCEPT ![r] = f],
         sequence' \in Backends, UNCHANGED <<eligible, late>>
  PROVE  Shape' /\ \A q \in Requests : RequestSound(tx'[q], trail'[q])
<1>1. tx \in [Requests -> Tx] /\ trail \in [Requests -> Seq(Events)]
  BY DEF Shape
<1>2. tx' \in [Requests -> Tx] /\ trail' \in [Requests -> Seq(Events)]
  BY <1>1
<1>3. Shape'
  BY <1>2 DEF Shape
<1>4. ASSUME NEW q \in Requests PROVE RequestSound(tx'[q], trail'[q])
  <2>1. CASE q = r
    <3>1. tx'[q] = u /\ trail'[q] = f
      BY <1>1, <2>1
    <3>2. QED
      BY <3>1
  <2>2. CASE q # r
    <3>1. tx'[q] = tx[q] /\ trail'[q] = trail[q]
      BY <1>1, <2>2
    <3>2. QED
      BY <3>1
  <2>3. QED
    BY <2>1, <2>2
<1>5. QED
  BY <1>3, <1>4

\* The same for Moves.
LEMMA MovesSound ==
  ASSUME TransactionIInv, NEW r \in Requests, NEW u \in Tx, NEW f \in Seq(Events),
         RequestSound(u, f), Moves(r, u, f)
  PROVE  /\ Shape' /\ \A q \in Requests : RequestSound(tx'[q], trail'[q])
         /\ tx' = [tx EXCEPT ![r] = u]
<1>1. /\ Shape /\ \A q \in Requests : RequestSound(tx[q], trail[q])
      /\ tx' = [tx EXCEPT ![r] = u] /\ trail' = [trail EXCEPT ![r] = f]
      /\ UNCHANGED <<eligible, late>> /\ sequence' \in Backends
  BY DEF TransactionIInv, Moves, Shape
<1>2. QED
  BY <1>1, MovesKeep

\* Two sets of requests that differ in one request at most.
LEMMA OneMoves ==
  ASSUME NEW S, NEW T, S \subseteq Requests, T \subseteq Requests, NEW r \in Requests,
         \A q \in Requests : q # r => (q \in S <=> q \in T)
  PROVE  /\ Cardinality(S) \in Nat /\ Cardinality(T) \in Nat
         /\ Cardinality(T) = Cardinality(S) + One(r \in T) - One(r \in S)
         /\ r \in S => Cardinality(S) > 0
<1>1. /\ IsFiniteSet(S) /\ IsFiniteSet(T) /\ Cardinality(S) \in Nat
      /\ Cardinality(T) \in Nat
  BY TransactionAssumption, FS_Subset, FS_CardinalityType
<1>2. CASE r \in S /\ r \in T
  <2>1. S = T
    BY <1>2
  <2>2. Cardinality(S) # 0
    BY <1>1, <1>2, FS_EmptySet
  <2>3. QED
    BY <1>1, <1>2, <2>1, <2>2 DEF One
<1>3. CASE r \notin S /\ r \notin T
  <2>1. S = T
    BY <1>3
  <2>2. QED
    BY <1>1, <1>3, <2>1 DEF One
<1>4. CASE r \in S /\ r \notin T
  <2>1. S = T \cup {r}
    BY <1>4
  <2>2. Cardinality(S) = Cardinality(T) + 1
    BY <1>1, <1>4, <2>1, FS_AddElement
  <2>3. QED
    BY <1>1, <1>4, <2>2 DEF One
<1>5. CASE r \notin S /\ r \in T
  <2>1. T = S \cup {r}
    BY <1>5
  <2>2. Cardinality(T) = Cardinality(S) + 1
    BY <1>1, <1>5, <2>1, FS_AddElement
  <2>3. QED
    BY <1>1, <1>5, <2>2 DEF One
<1>6. QED
  BY <1>2, <1>3, <1>4, <1>5

\* The tests behind the counted sets, of the locals t of a request.
HasArrived(t) == t.pc # "arriving"
IsFinished(t) == t.pc = "answered"
IsRunning(t) == t.pc \notin {"arriving", "answered"}
IsUnplaced(t) == t.pc \in {"counted"} \cup Searching
IsAttempting(t) == t.pc = "attempting"
IsAttemptingAt(t, b) == t.pc = "attempting" /\ t.backend = b
IsOwing(t) == \/ t.pc \in {"unreserved", "failed"}
              \/ t.pc \in {"answering", "answered"} /\ Generated(t.reply)
IsGatewayError(t) == t.pc = "answered" /\ t.reply.error
IsSuccess(t) == t.pc = "answered" /\ t.reply.status \in 200 .. 399
IsRaising(t, n) == t.pc = "counted" /\ t.active > n

\* Request r moves to locals u.
Turns(r, u) == tx' = [tx EXCEPT ![r] = u]

\* The counted sets change by the request that moves, and by no other.
LEMMA CountsMove ==
  ASSUME Shape, NEW r \in Requests, NEW u \in Tx, Turns(r, u)
  PROVE
    /\ Cardinality(Arrived) \in Nat /\ Cardinality(Arrived') \in Nat
    /\ Cardinality(Arrived') = Cardinality(Arrived) + One(HasArrived(u)) - One(HasArrived(tx[r]))
    /\ Cardinality(Finished) \in Nat /\ Cardinality(Finished') \in Nat
    /\ Cardinality(Finished') = Cardinality(Finished) + One(IsFinished(u)) - One(IsFinished(tx[r]))
    /\ Cardinality(Running) \in Nat /\ Cardinality(Running') \in Nat
    /\ Cardinality(Running') = Cardinality(Running) + One(IsRunning(u)) - One(IsRunning(tx[r]))
    /\ Cardinality(Unplaced) \in Nat /\ Cardinality(Unplaced') \in Nat
    /\ Cardinality(Unplaced') = Cardinality(Unplaced) + One(IsUnplaced(u)) - One(IsUnplaced(tx[r]))
    /\ Cardinality(Attempting) \in Nat /\ Cardinality(Attempting') \in Nat
    /\ Cardinality(Attempting') = Cardinality(Attempting) + One(IsAttempting(u)) - One(IsAttempting(tx[r]))
    /\ Cardinality(Owing) \in Nat /\ Cardinality(Owing') \in Nat
    /\ Cardinality(Owing') = Cardinality(Owing) + One(IsOwing(u)) - One(IsOwing(tx[r]))
    /\ Cardinality(GatewayErrors) \in Nat /\ Cardinality(GatewayErrors') \in Nat
    /\ Cardinality(GatewayErrors') = Cardinality(GatewayErrors) + One(IsGatewayError(u)) - One(IsGatewayError(tx[r]))
    /\ Cardinality(Successes) \in Nat /\ Cardinality(Successes') \in Nat
    /\ Cardinality(Successes') = Cardinality(Successes) + One(IsSuccess(u)) - One(IsSuccess(tx[r]))
    /\ IsRunning(tx[r]) => Cardinality(Running) > 0
<1>1. tx'[r] = u /\ \A q \in Requests : q # r => tx'[q] = tx[q]
  BY DEF Shape, Turns
<1>2. /\ Cardinality(Arrived) \in Nat /\ Cardinality(Arrived') \in Nat
      /\ Cardinality(Arrived') = Cardinality(Arrived) + One(HasArrived(u)) - One(HasArrived(tx[r]))
  <2>1. /\ Arrived \subseteq Requests /\ Arrived' \subseteq Requests
        /\ \A q \in Requests : q # r => (q \in Arrived <=> q \in Arrived')
        /\ r \in Arrived <=> HasArrived(tx[r])
        /\ r \in Arrived' <=> HasArrived(u)
    BY <1>1 DEF Arrived, HasArrived
  <2>2. QED
    BY <2>1, OneMoves DEF One
<1>3. /\ Cardinality(Finished) \in Nat /\ Cardinality(Finished') \in Nat
      /\ Cardinality(Finished') = Cardinality(Finished) + One(IsFinished(u)) - One(IsFinished(tx[r]))
  <2>1. /\ Finished \subseteq Requests /\ Finished' \subseteq Requests
        /\ \A q \in Requests : q # r => (q \in Finished <=> q \in Finished')
        /\ r \in Finished <=> IsFinished(tx[r])
        /\ r \in Finished' <=> IsFinished(u)
    BY <1>1 DEF Finished, IsFinished
  <2>2. QED
    BY <2>1, OneMoves DEF One
<1>4. /\ Cardinality(Running) \in Nat /\ Cardinality(Running') \in Nat
      /\ Cardinality(Running') = Cardinality(Running) + One(IsRunning(u)) - One(IsRunning(tx[r]))
      /\ IsRunning(tx[r]) => Cardinality(Running) > 0
  <2>1. /\ Running \subseteq Requests /\ Running' \subseteq Requests
        /\ \A q \in Requests : q # r => (q \in Running <=> q \in Running')
        /\ r \in Running <=> IsRunning(tx[r])
        /\ r \in Running' <=> IsRunning(u)
    BY <1>1 DEF Running, IsRunning
  <2>2. QED
    BY <2>1, OneMoves DEF One
<1>5. /\ Cardinality(Unplaced) \in Nat /\ Cardinality(Unplaced') \in Nat
      /\ Cardinality(Unplaced') = Cardinality(Unplaced) + One(IsUnplaced(u)) - One(IsUnplaced(tx[r]))
  <2>1. /\ Unplaced \subseteq Requests /\ Unplaced' \subseteq Requests
        /\ \A q \in Requests : q # r => (q \in Unplaced <=> q \in Unplaced')
        /\ r \in Unplaced <=> IsUnplaced(tx[r])
        /\ r \in Unplaced' <=> IsUnplaced(u)
    BY <1>1 DEF Unplaced, IsUnplaced
  <2>2. QED
    BY <2>1, OneMoves DEF One
<1>6. /\ Cardinality(Attempting) \in Nat /\ Cardinality(Attempting') \in Nat
      /\ Cardinality(Attempting') = Cardinality(Attempting) + One(IsAttempting(u)) - One(IsAttempting(tx[r]))
  <2>1. /\ Attempting \subseteq Requests /\ Attempting' \subseteq Requests
        /\ \A q \in Requests : q # r => (q \in Attempting <=> q \in Attempting')
        /\ r \in Attempting <=> IsAttempting(tx[r])
        /\ r \in Attempting' <=> IsAttempting(u)
    BY <1>1 DEF Attempting, IsAttempting
  <2>2. QED
    BY <2>1, OneMoves DEF One
<1>7. /\ Cardinality(Owing) \in Nat /\ Cardinality(Owing') \in Nat
      /\ Cardinality(Owing') = Cardinality(Owing) + One(IsOwing(u)) - One(IsOwing(tx[r]))
  <2>1. /\ Owing \subseteq Requests /\ Owing' \subseteq Requests
        /\ \A q \in Requests : q # r => (q \in Owing <=> q \in Owing')
        /\ r \in Owing <=> IsOwing(tx[r])
        /\ r \in Owing' <=> IsOwing(u)
    BY <1>1 DEF Owing, IsOwing
  <2>2. QED
    BY <2>1, OneMoves DEF One
<1>8. /\ Cardinality(GatewayErrors) \in Nat /\ Cardinality(GatewayErrors') \in Nat
      /\ Cardinality(GatewayErrors') = Cardinality(GatewayErrors) + One(IsGatewayError(u)) - One(IsGatewayError(tx[r]))
  <2>1. /\ GatewayErrors \subseteq Requests /\ GatewayErrors' \subseteq Requests
        /\ \A q \in Requests : q # r => (q \in GatewayErrors <=> q \in GatewayErrors')
        /\ r \in GatewayErrors <=> IsGatewayError(tx[r])
        /\ r \in GatewayErrors' <=> IsGatewayError(u)
    BY <1>1 DEF GatewayErrors, IsGatewayError
  <2>2. QED
    BY <2>1, OneMoves DEF One
<1>9. /\ Cardinality(Successes) \in Nat /\ Cardinality(Successes') \in Nat
      /\ Cardinality(Successes') = Cardinality(Successes) + One(IsSuccess(u)) - One(IsSuccess(tx[r]))
  <2>1. /\ Successes \subseteq Requests /\ Successes' \subseteq Requests
        /\ \A q \in Requests : q # r => (q \in Successes <=> q \in Successes')
        /\ r \in Successes <=> IsSuccess(tx[r])
        /\ r \in Successes' <=> IsSuccess(u)
    BY <1>1 DEF Successes, IsSuccess
  <2>2. QED
    BY <2>1, OneMoves DEF One
<1>10. QED
  BY <1>2, <1>3, <1>4, <1>5, <1>6, <1>7, <1>8, <1>9

\* The same for the attempts at one backend.
LEMMA AttemptsMove ==
  ASSUME Shape, NEW r \in Requests, NEW u \in Tx, Turns(r, u), NEW b \in Backends
  PROVE  /\ Cardinality(AttemptingAt(b)) \in Nat /\ Cardinality(AttemptingAt(b)') \in Nat
         /\ Cardinality(AttemptingAt(b)') = Cardinality(AttemptingAt(b))
              + One(IsAttemptingAt(u, b)) - One(IsAttemptingAt(tx[r], b))
         /\ IsAttemptingAt(tx[r], b) => Cardinality(AttemptingAt(b)) > 0
<1>1. tx'[r] = u /\ \A q \in Requests : q # r => tx'[q] = tx[q]
  BY DEF Shape, Turns
<1>2. /\ AttemptingAt(b) \subseteq Requests /\ AttemptingAt(b)' \subseteq Requests
      /\ \A q \in Requests : q # r => (q \in AttemptingAt(b) <=> q \in AttemptingAt(b)')
      /\ r \in AttemptingAt(b) <=> IsAttemptingAt(tx[r], b)
      /\ r \in AttemptingAt(b)' <=> IsAttemptingAt(u, b)
  BY <1>1 DEF AttemptingAt, IsAttemptingAt
<1>3. QED
  BY <1>2, OneMoves DEF One

\* The same for the requests that raise the peak above n.
LEMMA RaisingMoves ==
  ASSUME Shape, NEW r \in Requests, NEW u \in Tx, Turns(r, u), NEW n \in Nat
  PROVE  /\ Cardinality(Raising(n)) \in Nat /\ Cardinality(Raising(n)') \in Nat
         /\ Cardinality(Raising(n)') =
              Cardinality(Raising(n)) + One(IsRaising(u, n)) - One(IsRaising(tx[r], n))
<1>1. tx'[r] = u /\ \A q \in Requests : q # r => tx'[q] = tx[q]
  BY DEF Shape, Turns
<1>2. /\ Raising(n) \subseteq Requests /\ Raising(n)' \subseteq Requests
      /\ \A q \in Requests : q # r => (q \in Raising(n) <=> q \in Raising(n)')
      /\ r \in Raising(n) <=> IsRaising(tx[r], n)
      /\ r \in Raising(n)' <=> IsRaising(u, n)
  BY <1>1 DEF Raising, IsRaising
<1>3. QED
  BY <1>2, OneMoves DEF One

\* Record counts in one counter.
LEMMA RecordCounts ==
  ASSUME NEW c \in Counters, metrics \in [Counters -> Nat], Record(c)
  PROVE  /\ metrics' \in [Counters -> Nat] /\ metrics'[c] = metrics[c] + 1
         /\ \A d \in Counters : d # c => metrics'[d] = metrics[d]
  BY DEF Record

\* What an arrival counts.
LEMMA ArrivalCounts ==
  ASSUME metrics \in [Counters -> Nat],
         metrics' = [metrics EXCEPT !["requests"] = @ + 1, !["active"] = @ + 1]
  PROVE  /\ metrics' \in [Counters -> Nat]
         /\ metrics'["requests"] = metrics["requests"] + 1
         /\ metrics'["active"] = metrics["active"] + 1
         /\ \A d \in Counters : d \notin {"requests", "active"} => metrics'[d] = metrics[d]
<1>1. "requests" \in Counters /\ "active" \in Counters
  BY DEF Counters
<1>2. QED
  BY <1>1

\* What a completion counts.
LEMMA CompletionCounts ==
  ASSUME metrics \in [Counters -> Nat], NEW reply, metrics["active"] > 0,
         metrics' = completeRequest(metrics, reply)
  PROVE  /\ metrics' \in [Counters -> Nat]
         /\ metrics'["completed"] = metrics["completed"] + 1
         /\ metrics'["active"] = metrics["active"] - 1
         /\ metrics'["successes"] = metrics["successes"] + One(reply.status \in 200 .. 399)
         /\ metrics'["gatewayErrors"] = metrics["gatewayErrors"] + One(reply.error)
         /\ \A d \in Counters : d \notin {"completed", "active", "successes", "gatewayErrors"}
              => metrics'[d] = metrics[d]
<1> DEFINE won == One(reply.status \in 200 .. 399)
           lost == One(reply.error)
<1>1. won \in Nat /\ lost \in Nat
  BY DEF One
<1>2. /\ "completed" \in Counters /\ "active" \in Counters
      /\ "successes" \in Counters /\ "gatewayErrors" \in Counters
  BY DEF Counters
<1>3. metrics' = [metrics EXCEPT !["completed"] = @ + 1, !["active"] = @ - 1,
                    !["successes"] = @ + won, !["gatewayErrors"] = @ + lost]
  BY Zenon DEF completeRequest
<1> HIDE DEF won, lost
<1>4. metrics["active"] - 1 \in Nat
  BY <1>2
<1>5. /\ metrics'["completed"] = metrics["completed"] + 1
      /\ metrics'["active"] = metrics["active"] - 1
      /\ metrics'["successes"] = metrics["successes"] + won
      /\ metrics'["gatewayErrors"] = metrics["gatewayErrors"] + lost
  BY <1>2, <1>3
<1>6. \A d \in Counters : d \notin {"completed", "active", "successes", "gatewayErrors"}
        => metrics'[d] = metrics[d]
  BY <1>3
<1>7. /\ metrics["completed"] + 1 \in Nat /\ metrics["successes"] + won \in Nat
      /\ metrics["gatewayErrors"] + lost \in Nat
  BY <1>1, <1>2
<1>8. \A d \in Counters : metrics'[d] \in Nat
  BY <1>4, <1>5, <1>6, <1>7
<1>9. metrics' \in [Counters -> Nat]
  <2>1. metrics' = [d \in Counters |-> metrics'[d]]
    BY <1>3
  <2>2. QED
    BY <1>8, <2>1
<1>10. QED
  BY <1>5, <1>6, <1>9 DEF won, lost

-----------------------------------------------------------------------------
(* Every step keeps the invariant.                                         *)

\* The parts of the invariant that the steps start from.
LEMMA InvariantParts ==
  ASSUME TransactionIInv, NEW r \in Requests
  PROVE  /\ Shape /\ RequestSound(tx[r], trail[r]) /\ tx[r] \in Tx
         /\ trail[r] \in Seq(Events)
         /\ inFlight \in [Backends -> Nat] /\ metrics \in [Counters -> Nat]
         /\ Places /\ Tallies /\ PeakSound
<1>1. Shape /\ RequestSound(tx[r], trail[r]) /\ Places /\ Tallies /\ PeakSound
  BY DEF TransactionIInv
<1>2. tx[r] \in Tx /\ trail[r] \in Seq(Events)
  BY <1>1 DEF Shape
<1>3. inFlight \in [Backends -> Nat]
  BY <1>1, TransactionAssumption DEF Places
<1>4. QED
  BY <1>1, <1>2, <1>3 DEF Tallies

\* A step that begins and ends no attempt leaves the places.
LEMMA PlacesStay ==
  ASSUME TransactionIInv, NEW r \in Requests, NEW u \in Tx, Turns(r, u),
         tx[r].pc # "attempting", u.pc # "attempting", UNCHANGED inFlight
  PROVE  Places'
<1>1. Places /\ Shape
  BY DEF TransactionIInv
<1>2. \A b \in Backends : Cardinality(AttemptingAt(b)') = Cardinality(AttemptingAt(b))
  BY <1>1, AttemptsMove DEF IsAttemptingAt, One
<1>3. QED
  BY <1>1, <1>2 DEF Places

\* A step that ends an attempt at b gives its place back.
LEMMA PlaceReturns ==
  ASSUME TransactionIInv, NEW r \in Requests, NEW u \in Tx, Turns(r, u),
         tx[r].pc = "attempting", tx[r].backend \in Backends, u.pc # "attempting",
         GiveBack(r)
  PROVE  Places'
<1> PICK b \in Backends : b = tx[r].backend
  OBVIOUS
<1>1. /\ Places /\ Shape /\ inFlight' = [inFlight EXCEPT ![b] = @ - 1] /\ b \in Backends
      /\ MaxInFlight \in Nat /\ IsAttemptingAt(tx[r], b)
      /\ \A c \in Backends : c # b => ~ IsAttemptingAt(tx[r], c)
      /\ \A c \in Backends : ~ IsAttemptingAt(u, c)
  BY TransactionAssumption DEF TransactionIInv, GiveBack, IsAttemptingAt
<1>2. /\ Cardinality(AttemptingAt(b)) \in Nat /\ Cardinality(AttemptingAt(b)) > 0
      /\ Cardinality(AttemptingAt(b)') = Cardinality(AttemptingAt(b)) - 1
  BY <1>1, AttemptsMove DEF One
<1>3. \A c \in Backends : c # b =>
        Cardinality(AttemptingAt(c)') = Cardinality(AttemptingAt(c))
  BY <1>1, AttemptsMove DEF One
<1>4. inFlight \in [Backends -> 0 .. MaxInFlight] /\ inFlight[b] = Cardinality(AttemptingAt(b))
  BY <1>1 DEF Places
<1>5. inFlight'[b] = inFlight[b] - 1 /\ inFlight[b] - 1 \in 0 .. MaxInFlight
  BY <1>1, <1>2, <1>4
<1>6. inFlight' \in [Backends -> 0 .. MaxInFlight]
  BY <1>1, <1>4, <1>5
<1>7. \A c \in Backends : inFlight'[c] = Cardinality(AttemptingAt(c)')
  <2>1. \A c \in Backends : inFlight[c] = Cardinality(AttemptingAt(c))
    BY <1>1 DEF Places
  <2>2. \A c \in Backends : c # b => inFlight'[c] = inFlight[c]
    BY <1>1, <1>4
  <2>3. QED
    BY <1>2, <1>3, <1>4, <1>5, <2>1, <2>2
<1>8. QED
  BY <1>6, <1>7 DEF Places

\* A step that reserves takes a place that was free.
LEMMA PlaceTaken ==
  ASSUME TransactionIInv, NEW r \in Requests, NEW u \in Tx, Turns(r, u),
         tx[r].pc # "attempting", u.pc = "attempting", NEW b \in Backends, u.backend = b,
         inFlight[b] < MaxInFlight, inFlight' = [inFlight EXCEPT ![b] = @ + 1]
  PROVE  Places'
<1>1. /\ Places /\ Shape /\ MaxInFlight \in Nat /\ IsAttemptingAt(u, b)
      /\ \A c \in Backends : c # b => ~ IsAttemptingAt(u, c)
      /\ \A c \in Backends : ~ IsAttemptingAt(tx[r], c)
  BY TransactionAssumption DEF TransactionIInv, IsAttemptingAt
<1>2. /\ Cardinality(AttemptingAt(b)) \in Nat
      /\ Cardinality(AttemptingAt(b)') = Cardinality(AttemptingAt(b)) + 1
  BY <1>1, AttemptsMove DEF One
<1>3. \A c \in Backends : c # b =>
        Cardinality(AttemptingAt(c)') = Cardinality(AttemptingAt(c))
  BY <1>1, AttemptsMove DEF One
<1>4. inFlight \in [Backends -> 0 .. MaxInFlight] /\ inFlight[b] = Cardinality(AttemptingAt(b))
  BY <1>1 DEF Places
<1>5. inFlight'[b] = inFlight[b] + 1 /\ inFlight[b] + 1 \in 0 .. MaxInFlight
  BY <1>1, <1>2, <1>4
<1>6. inFlight' \in [Backends -> 0 .. MaxInFlight]
  BY <1>1, <1>4, <1>5
<1>7. \A c \in Backends : inFlight'[c] = Cardinality(AttemptingAt(c)')
  <2>1. \A c \in Backends : inFlight[c] = Cardinality(AttemptingAt(c))
    BY <1>1 DEF Places
  <2>2. \A c \in Backends : c # b => inFlight'[c] = inFlight[c]
    BY <1>1, <1>4
  <2>3. QED
    BY <1>2, <1>3, <1>4, <1>5, <2>1, <2>2
<1>8. QED
  BY <1>6, <1>7 DEF Places

\* A step that is not about the peak or the active requests leaves them covered.
LEMMA PeakStays ==
  ASSUME TransactionIInv, NEW r \in Requests, NEW u \in Tx, Turns(r, u),
         tx[r].pc # "counted", u.pc # "counted", metrics'["peak"] = metrics["peak"],
         metrics'["active"] \in Nat, metrics'["active"] <= metrics["active"]
  PROVE  PeakSound'
<1>1. PeakSound /\ Shape /\ metrics["active"] \in Nat
  BY DEF TransactionIInv, Tallies, Counters
<1>2. \A n \in Nat : /\ Cardinality(Raising(n)) \in Nat
                     /\ Cardinality(Raising(n)') = Cardinality(Raising(n))
  <2> SUFFICES ASSUME NEW n \in Nat
               PROVE  /\ Cardinality(Raising(n)) \in Nat
                      /\ Cardinality(Raising(n)') = Cardinality(Raising(n))
    OBVIOUS
  <2>1. One(IsRaising(u, n)) = 0 /\ One(IsRaising(tx[r], n)) = 0
    BY DEF IsRaising, One
  <2>2. QED
    BY <1>1, <2>1, RaisingMoves
<1>3. QED
  BY <1>1, <1>2 DEF PeakSound

\* A refusal is counted, and owed no more.
LEMMA NotReservedKeeps ==
  ASSUME TransactionIInv, NEW r \in Requests, NotReserved(r)
  PROVE  TransactionIInv'
<1>1. /\ Shape /\ RequestSound(tx[r], trail[r]) /\ tx[r] \in Tx
      /\ trail[r] \in Seq(Events) /\ metrics \in [Counters -> Nat] /\ Tallies
  BY InvariantParts
<1>2. /\ tx[r].pc = "scanning" /\ tx[r].scan.next = BackendCount
      /\ Moves(r, Unreserved(tx[r]), Append(trail[r], Event("failed", tx[r].attempt, None)))
      /\ Record("refused") /\ UNCHANGED inFlight
  BY <1>1, NotReservedEffect
<1> DEFINE u == Unreserved(tx[r])
           f == Append(trail[r], Event("failed", tx[r].attempt, None))
<1>3. u \in Tx /\ u.pc = "unreserved"
  BY <1>1, UnreservedFields
<1>4. f \in Seq(Events) /\ RequestSound(u, f)
  <2>1. Event("failed", tx[r].attempt, None) \in Events
    BY <1>1, <1>2, Fields, EventFields
  <2>2. f \in Seq(Events)
    BY <1>1, <2>1
  <2>3. RequestSound(u, f)
    BY <1>1, <1>2, UnreservedSound
  <2>4. QED
    BY <2>2, <2>3
<1>5. Moves(r, u, f)
  BY <1>2
<1> HIDE DEF u, f
<1>6. /\ Shape' /\ \A q \in Requests : RequestSound(tx'[q], trail'[q])
      /\ Turns(r, u)
  BY <1>3, <1>4, <1>5, MovesSound DEF Turns
<1>7. /\ One(HasArrived(u)) = 1
      /\ One(IsFinished(u)) = 0
      /\ One(IsRunning(u)) = 1
      /\ One(IsUnplaced(u)) = 0
      /\ One(IsAttempting(u)) = 0
      /\ One(IsOwing(u)) = 1
      /\ One(IsGatewayError(u)) = 0
      /\ One(IsSuccess(u)) = 0
  BY <1>2, <1>3 DEF One, HasArrived, IsFinished, IsRunning, IsUnplaced, IsAttempting, IsOwing, IsGatewayError, IsSuccess, Searching
<1>8. /\ One(HasArrived(tx[r])) = 1
      /\ One(IsFinished(tx[r])) = 0
      /\ One(IsRunning(tx[r])) = 1
      /\ One(IsUnplaced(tx[r])) = 1
      /\ One(IsAttempting(tx[r])) = 0
      /\ One(IsOwing(tx[r])) = 0
      /\ One(IsGatewayError(tx[r])) = 0
      /\ One(IsSuccess(tx[r])) = 0
  BY <1>2, <1>3 DEF One, HasArrived, IsFinished, IsRunning, IsUnplaced, IsAttempting, IsOwing, IsGatewayError, IsSuccess, Searching
<1>9. /\ Cardinality(Arrived) \in Nat /\ Cardinality(Arrived') = Cardinality(Arrived)
      /\ Cardinality(Finished) \in Nat /\ Cardinality(Finished') = Cardinality(Finished)
      /\ Cardinality(Running) \in Nat /\ Cardinality(Running') = Cardinality(Running)
      /\ Cardinality(Unplaced) \in Nat /\ Cardinality(Unplaced') = Cardinality(Unplaced) - 1
      /\ Cardinality(Attempting) \in Nat /\ Cardinality(Attempting') = Cardinality(Attempting)
      /\ Cardinality(Owing) \in Nat /\ Cardinality(Owing') = Cardinality(Owing) + 1
      /\ Cardinality(GatewayErrors) \in Nat /\ Cardinality(GatewayErrors') = Cardinality(GatewayErrors)
      /\ Cardinality(Successes) \in Nat /\ Cardinality(Successes') = Cardinality(Successes)
  <2>1. u \in Tx /\ Turns(r, u) /\ Shape
    BY <1>1, <1>3, <1>6
  <2>2. QED
    BY <1>7, <1>8, <2>1, CountsMove
<1>10. /\ metrics' \in [Counters -> Nat]
      /\ metrics["requests"] \in Nat
      /\ metrics["completed"] \in Nat
      /\ metrics["attempts"] \in Nat
      /\ metrics["retries"] \in Nat
      /\ metrics["successes"] \in Nat
      /\ metrics["gatewayErrors"] \in Nat
      /\ metrics["refused"] \in Nat
      /\ metrics["failed"] \in Nat
      /\ metrics["active"] \in Nat
      /\ metrics["peak"] \in Nat
      /\ metrics'["requests"] = metrics["requests"]
      /\ metrics'["completed"] = metrics["completed"]
      /\ metrics'["attempts"] = metrics["attempts"]
      /\ metrics'["retries"] = metrics["retries"]
      /\ metrics'["successes"] = metrics["successes"]
      /\ metrics'["gatewayErrors"] = metrics["gatewayErrors"]
      /\ metrics'["refused"] = metrics["refused"] + 1
      /\ metrics'["failed"] = metrics["failed"]
      /\ metrics'["active"] = metrics["active"]
      /\ metrics'["peak"] = metrics["peak"]
  BY <1>1, <1>2, RecordCounts DEF Counters
<1>11. Tallies'
  <2>1. /\ metrics["active"] = Cardinality(Running)
        /\ metrics["requests"] = Cardinality(Arrived)
        /\ metrics["completed"] = Cardinality(Finished)
        /\ metrics["attempts"] + metrics["refused"] + Cardinality(Unplaced) =
             metrics["requests"] + metrics["retries"]
        /\ metrics["failed"] + Cardinality(Attempting) <= metrics["attempts"]
        /\ metrics["gatewayErrors"] = Cardinality(GatewayErrors)
        /\ metrics["successes"] = Cardinality(Successes)
        /\ Cardinality(Owing) <=
             metrics["failed"] + metrics["refused"]
    BY <1>1 DEF Tallies
  <2>2. /\ metrics'["active"] = Cardinality(Running')
        /\ metrics'["requests"] = Cardinality(Arrived')
        /\ metrics'["completed"] = Cardinality(Finished')
        /\ metrics'["gatewayErrors"] = Cardinality(GatewayErrors')
        /\ metrics'["successes"] = Cardinality(Successes')
    BY <1>9, <1>10, <2>1
  <2>3. metrics'["attempts"] + metrics'["refused"] + Cardinality(Unplaced') =
          metrics'["requests"] + metrics'["retries"]
    BY <1>9, <1>10, <2>1
  <2>4. metrics'["failed"] + Cardinality(Attempting') <= metrics'["attempts"]
    BY <1>9, <1>10, <2>1
  <2>5. Cardinality(Owing') <=
          metrics'["failed"] + metrics'["refused"]
    BY <1>9, <1>10, <2>1
  <2>6. QED
    BY <1>10, <2>2, <2>3, <2>4, <2>5 DEF Tallies
<1>12. Places'
  BY <1>2, <1>3, <1>6, PlacesStay
<1>13. PeakSound'
  BY <1>2, <1>3, <1>6, <1>10, PeakStays
<1>14. QED
  BY <1>6, <1>11, <1>12, <1>13 DEF TransactionIInv

\* A failure gives its place back, and may become a gateway error.
LEMMA AttemptFailsKeeps ==
  ASSUME TransactionIInv, NEW r \in Requests, AttemptFails(r)
  PROVE  TransactionIInv'
<1>1. /\ Shape /\ RequestSound(tx[r], trail[r]) /\ tx[r] \in Tx
      /\ trail[r] \in Seq(Events) /\ metrics \in [Counters -> Nat] /\ Tallies
  BY InvariantParts
<1>2. PICK k \in Kinds, C \in SUBSET Backends :
        /\ tx[r].pc = "attempting" /\ tx[r].backend \in Backends
        /\ Record("failed") /\ GiveBack(r)
        /\ C \subseteq tx[r].charged \cup {tx[r].backend}
        /\ Moves(r, Failed(tx[r], k, C),
                 Append(trail[r], Event("failed", tx[r].attempt, tx[r].backend)))
  BY <1>1, AttemptFailsEffect
<1> DEFINE u == Failed(tx[r], k, C)
           f == Append(trail[r], Event("failed", tx[r].attempt, tx[r].backend))
<1>3. u \in Tx /\ u.pc = "failed"
  BY <1>1, FailedFields
<1>4. f \in Seq(Events) /\ RequestSound(u, f)
  <2>1. Event("failed", tx[r].attempt, tx[r].backend) \in Events
    BY <1>1, <1>2, Fields, EventFields
  <2>2. f \in Seq(Events)
    BY <1>1, <2>1
  <2>3. RequestSound(u, f)
    BY <1>1, <1>2, FailedSound
  <2>4. QED
    BY <2>2, <2>3
<1>5. Moves(r, u, f)
  BY <1>2
<1> HIDE DEF u, f
<1>6. /\ Shape' /\ \A q \in Requests : RequestSound(tx'[q], trail'[q])
      /\ Turns(r, u)
  BY <1>3, <1>4, <1>5, MovesSound DEF Turns
<1>7. /\ One(HasArrived(u)) = 1
      /\ One(IsFinished(u)) = 0
      /\ One(IsRunning(u)) = 1
      /\ One(IsUnplaced(u)) = 0
      /\ One(IsAttempting(u)) = 0
      /\ One(IsOwing(u)) = 1
      /\ One(IsGatewayError(u)) = 0
      /\ One(IsSuccess(u)) = 0
  BY <1>2, <1>3 DEF One, HasArrived, IsFinished, IsRunning, IsUnplaced, IsAttempting, IsOwing, IsGatewayError, IsSuccess, Searching
<1>8. /\ One(HasArrived(tx[r])) = 1
      /\ One(IsFinished(tx[r])) = 0
      /\ One(IsRunning(tx[r])) = 1
      /\ One(IsUnplaced(tx[r])) = 0
      /\ One(IsAttempting(tx[r])) = 1
      /\ One(IsOwing(tx[r])) = 0
      /\ One(IsGatewayError(tx[r])) = 0
      /\ One(IsSuccess(tx[r])) = 0
  BY <1>2, <1>3 DEF One, HasArrived, IsFinished, IsRunning, IsUnplaced, IsAttempting, IsOwing, IsGatewayError, IsSuccess, Searching
<1>9. /\ Cardinality(Arrived) \in Nat /\ Cardinality(Arrived') = Cardinality(Arrived)
      /\ Cardinality(Finished) \in Nat /\ Cardinality(Finished') = Cardinality(Finished)
      /\ Cardinality(Running) \in Nat /\ Cardinality(Running') = Cardinality(Running)
      /\ Cardinality(Unplaced) \in Nat /\ Cardinality(Unplaced') = Cardinality(Unplaced)
      /\ Cardinality(Attempting) \in Nat /\ Cardinality(Attempting') = Cardinality(Attempting) - 1
      /\ Cardinality(Owing) \in Nat /\ Cardinality(Owing') = Cardinality(Owing) + 1
      /\ Cardinality(GatewayErrors) \in Nat /\ Cardinality(GatewayErrors') = Cardinality(GatewayErrors)
      /\ Cardinality(Successes) \in Nat /\ Cardinality(Successes') = Cardinality(Successes)
  <2>1. u \in Tx /\ Turns(r, u) /\ Shape
    BY <1>1, <1>3, <1>6
  <2>2. QED
    BY <1>7, <1>8, <2>1, CountsMove
<1>10. /\ metrics' \in [Counters -> Nat]
      /\ metrics["requests"] \in Nat
      /\ metrics["completed"] \in Nat
      /\ metrics["attempts"] \in Nat
      /\ metrics["retries"] \in Nat
      /\ metrics["successes"] \in Nat
      /\ metrics["gatewayErrors"] \in Nat
      /\ metrics["refused"] \in Nat
      /\ metrics["failed"] \in Nat
      /\ metrics["active"] \in Nat
      /\ metrics["peak"] \in Nat
      /\ metrics'["requests"] = metrics["requests"]
      /\ metrics'["completed"] = metrics["completed"]
      /\ metrics'["attempts"] = metrics["attempts"]
      /\ metrics'["retries"] = metrics["retries"]
      /\ metrics'["successes"] = metrics["successes"]
      /\ metrics'["gatewayErrors"] = metrics["gatewayErrors"]
      /\ metrics'["refused"] = metrics["refused"]
      /\ metrics'["failed"] = metrics["failed"] + 1
      /\ metrics'["active"] = metrics["active"]
      /\ metrics'["peak"] = metrics["peak"]
  BY <1>1, <1>2, RecordCounts DEF Counters
<1>11. Tallies'
  <2>1. /\ metrics["active"] = Cardinality(Running)
        /\ metrics["requests"] = Cardinality(Arrived)
        /\ metrics["completed"] = Cardinality(Finished)
        /\ metrics["attempts"] + metrics["refused"] + Cardinality(Unplaced) =
             metrics["requests"] + metrics["retries"]
        /\ metrics["failed"] + Cardinality(Attempting) <= metrics["attempts"]
        /\ metrics["gatewayErrors"] = Cardinality(GatewayErrors)
        /\ metrics["successes"] = Cardinality(Successes)
        /\ Cardinality(Owing) <=
             metrics["failed"] + metrics["refused"]
    BY <1>1 DEF Tallies
  <2>2. /\ metrics'["active"] = Cardinality(Running')
        /\ metrics'["requests"] = Cardinality(Arrived')
        /\ metrics'["completed"] = Cardinality(Finished')
        /\ metrics'["gatewayErrors"] = Cardinality(GatewayErrors')
        /\ metrics'["successes"] = Cardinality(Successes')
    BY <1>9, <1>10, <2>1
  <2>3. metrics'["attempts"] + metrics'["refused"] + Cardinality(Unplaced') =
          metrics'["requests"] + metrics'["retries"]
    BY <1>9, <1>10, <2>1
  <2>4. metrics'["failed"] + Cardinality(Attempting') <= metrics'["attempts"]
    BY <1>9, <1>10, <2>1
  <2>5. Cardinality(Owing') <=
          metrics'["failed"] + metrics'["refused"]
    BY <1>9, <1>10, <2>1
  <2>6. QED
    BY <1>10, <2>2, <2>3, <2>4, <2>5 DEF Tallies
<1>12. Places'
  BY <1>2, <1>3, <1>6, PlaceReturns
<1>13. PeakSound'
  BY <1>2, <1>3, <1>6, <1>10, PeakStays
<1>14. QED
  BY <1>6, <1>11, <1>12, <1>13 DEF TransactionIInv

\* A response gives its place back.
LEMMA AttemptRespondsKeeps ==
  ASSUME TransactionIInv, NEW r \in Requests, AttemptResponds(r)
  PROVE  TransactionIInv'
<1>1. /\ Shape /\ RequestSound(tx[r], trail[r]) /\ tx[r] \in Tx
      /\ trail[r] \in Seq(Events) /\ metrics \in [Counters -> Nat] /\ Tallies
  BY InvariantParts
<1>2. PICK a \in Responses, C \in SUBSET Backends :
        /\ tx[r].pc = "attempting" /\ tx[r].backend \in Backends
        /\ UNCHANGED metrics /\ GiveBack(r)
        /\ C \subseteq tx[r].charged \cup {tx[r].backend} /\ a.from = tx[r].backend
        /\ Moves(r, Responded(tx[r], a, C), trail[r])
  BY <1>1, AttemptRespondsEffect
<1> DEFINE u == Responded(tx[r], a, C)
           f == trail[r]
<1>3. u \in Tx /\ u.pc = "responded"
  BY <1>1, RespondedFields
<1>4. f \in Seq(Events) /\ RequestSound(u, f)
  BY <1>1, <1>2, RespondedSound
<1>5. Moves(r, u, f)
  BY <1>2
<1> HIDE DEF u, f
<1>6. /\ Shape' /\ \A q \in Requests : RequestSound(tx'[q], trail'[q])
      /\ Turns(r, u)
  BY <1>3, <1>4, <1>5, MovesSound DEF Turns
<1>7. /\ One(HasArrived(u)) = 1
      /\ One(IsFinished(u)) = 0
      /\ One(IsRunning(u)) = 1
      /\ One(IsUnplaced(u)) = 0
      /\ One(IsAttempting(u)) = 0
      /\ One(IsOwing(u)) = 0
      /\ One(IsGatewayError(u)) = 0
      /\ One(IsSuccess(u)) = 0
  BY <1>2, <1>3 DEF One, HasArrived, IsFinished, IsRunning, IsUnplaced, IsAttempting, IsOwing, IsGatewayError, IsSuccess, Searching
<1>8. /\ One(HasArrived(tx[r])) = 1
      /\ One(IsFinished(tx[r])) = 0
      /\ One(IsRunning(tx[r])) = 1
      /\ One(IsUnplaced(tx[r])) = 0
      /\ One(IsAttempting(tx[r])) = 1
      /\ One(IsOwing(tx[r])) = 0
      /\ One(IsGatewayError(tx[r])) = 0
      /\ One(IsSuccess(tx[r])) = 0
  BY <1>2, <1>3 DEF One, HasArrived, IsFinished, IsRunning, IsUnplaced, IsAttempting, IsOwing, IsGatewayError, IsSuccess, Searching
<1>9. /\ Cardinality(Arrived) \in Nat /\ Cardinality(Arrived') = Cardinality(Arrived)
      /\ Cardinality(Finished) \in Nat /\ Cardinality(Finished') = Cardinality(Finished)
      /\ Cardinality(Running) \in Nat /\ Cardinality(Running') = Cardinality(Running)
      /\ Cardinality(Unplaced) \in Nat /\ Cardinality(Unplaced') = Cardinality(Unplaced)
      /\ Cardinality(Attempting) \in Nat /\ Cardinality(Attempting') = Cardinality(Attempting) - 1
      /\ Cardinality(Owing) \in Nat /\ Cardinality(Owing') = Cardinality(Owing)
      /\ Cardinality(GatewayErrors) \in Nat /\ Cardinality(GatewayErrors') = Cardinality(GatewayErrors)
      /\ Cardinality(Successes) \in Nat /\ Cardinality(Successes') = Cardinality(Successes)
  <2>1. u \in Tx /\ Turns(r, u) /\ Shape
    BY <1>1, <1>3, <1>6
  <2>2. QED
    BY <1>7, <1>8, <2>1, CountsMove
<1>10. /\ metrics' \in [Counters -> Nat]
      /\ metrics["requests"] \in Nat
      /\ metrics["completed"] \in Nat
      /\ metrics["attempts"] \in Nat
      /\ metrics["retries"] \in Nat
      /\ metrics["successes"] \in Nat
      /\ metrics["gatewayErrors"] \in Nat
      /\ metrics["refused"] \in Nat
      /\ metrics["failed"] \in Nat
      /\ metrics["active"] \in Nat
      /\ metrics["peak"] \in Nat
      /\ metrics'["requests"] = metrics["requests"]
      /\ metrics'["completed"] = metrics["completed"]
      /\ metrics'["attempts"] = metrics["attempts"]
      /\ metrics'["retries"] = metrics["retries"]
      /\ metrics'["successes"] = metrics["successes"]
      /\ metrics'["gatewayErrors"] = metrics["gatewayErrors"]
      /\ metrics'["refused"] = metrics["refused"]
      /\ metrics'["failed"] = metrics["failed"]
      /\ metrics'["active"] = metrics["active"]
      /\ metrics'["peak"] = metrics["peak"]
  BY <1>1, <1>2 DEF Counters
<1>11. Tallies'
  <2>1. /\ metrics["active"] = Cardinality(Running)
        /\ metrics["requests"] = Cardinality(Arrived)
        /\ metrics["completed"] = Cardinality(Finished)
        /\ metrics["attempts"] + metrics["refused"] + Cardinality(Unplaced) =
             metrics["requests"] + metrics["retries"]
        /\ metrics["failed"] + Cardinality(Attempting) <= metrics["attempts"]
        /\ metrics["gatewayErrors"] = Cardinality(GatewayErrors)
        /\ metrics["successes"] = Cardinality(Successes)
        /\ Cardinality(Owing) <=
             metrics["failed"] + metrics["refused"]
    BY <1>1 DEF Tallies
  <2>2. /\ metrics'["active"] = Cardinality(Running')
        /\ metrics'["requests"] = Cardinality(Arrived')
        /\ metrics'["completed"] = Cardinality(Finished')
        /\ metrics'["gatewayErrors"] = Cardinality(GatewayErrors')
        /\ metrics'["successes"] = Cardinality(Successes')
    BY <1>9, <1>10, <2>1
  <2>3. metrics'["attempts"] + metrics'["refused"] + Cardinality(Unplaced') =
          metrics'["requests"] + metrics'["retries"]
    BY <1>9, <1>10, <2>1
  <2>4. metrics'["failed"] + Cardinality(Attempting') <= metrics'["attempts"]
    BY <1>9, <1>10, <2>1
  <2>5. Cardinality(Owing') <=
          metrics'["failed"] + metrics'["refused"]
    BY <1>9, <1>10, <2>1
  <2>6. QED
    BY <1>10, <2>2, <2>3, <2>4, <2>5 DEF Tallies
<1>12. Places'
  BY <1>2, <1>3, <1>6, PlaceReturns
<1>13. PeakSound'
  BY <1>2, <1>3, <1>6, <1>10, PeakStays
<1>14. QED
  BY <1>6, <1>11, <1>12, <1>13 DEF TransactionIInv

\* A response that is retried counts nothing.
LEMMA RetryResponseKeeps ==
  ASSUME TransactionIInv, NEW r \in Requests, RetryResponse(r)
  PROVE  TransactionIInv'
<1>1. /\ Shape /\ RequestSound(tx[r], trail[r]) /\ tx[r] \in Tx
      /\ trail[r] \in Seq(Events) /\ metrics \in [Counters -> Nat] /\ Tallies
  BY InvariantParts
<1>2. /\ tx[r].pc = "responded" /\ tx[r].method = "GET" /\ tx[r].attempt < MaxAttempts
      /\ Moves(r, Buffered(tx[r]),
               Append(trail[r], Event("failed", tx[r].attempt, tx[r].backend)))
      /\ UNCHANGED <<inFlight, metrics>>
  BY <1>1, RetryResponseEffect
<1> DEFINE u == Buffered(tx[r])
           f == Append(trail[r], Event("failed", tx[r].attempt, tx[r].backend))
<1>3. u \in Tx /\ u.pc = "again"
  BY <1>1, BufferedFields
<1>4. f \in Seq(Events) /\ RequestSound(u, f)
  <2>1. Event("failed", tx[r].attempt, tx[r].backend) \in Events
    BY <1>1, <1>2, Fields, EventFields
  <2>2. f \in Seq(Events)
    BY <1>1, <2>1
  <2>3. RequestSound(u, f)
    BY <1>1, <1>2, BufferedSound
  <2>4. QED
    BY <2>2, <2>3
<1>5. Moves(r, u, f)
  BY <1>2
<1> HIDE DEF u, f
<1>6. /\ Shape' /\ \A q \in Requests : RequestSound(tx'[q], trail'[q])
      /\ Turns(r, u)
  BY <1>3, <1>4, <1>5, MovesSound DEF Turns
<1>7. /\ One(HasArrived(u)) = 1
      /\ One(IsFinished(u)) = 0
      /\ One(IsRunning(u)) = 1
      /\ One(IsUnplaced(u)) = 0
      /\ One(IsAttempting(u)) = 0
      /\ One(IsOwing(u)) = 0
      /\ One(IsGatewayError(u)) = 0
      /\ One(IsSuccess(u)) = 0
  BY <1>2, <1>3 DEF One, HasArrived, IsFinished, IsRunning, IsUnplaced, IsAttempting, IsOwing, IsGatewayError, IsSuccess, Searching
<1>8. /\ One(HasArrived(tx[r])) = 1
      /\ One(IsFinished(tx[r])) = 0
      /\ One(IsRunning(tx[r])) = 1
      /\ One(IsUnplaced(tx[r])) = 0
      /\ One(IsAttempting(tx[r])) = 0
      /\ One(IsOwing(tx[r])) = 0
      /\ One(IsGatewayError(tx[r])) = 0
      /\ One(IsSuccess(tx[r])) = 0
  BY <1>2, <1>3 DEF One, HasArrived, IsFinished, IsRunning, IsUnplaced, IsAttempting, IsOwing, IsGatewayError, IsSuccess, Searching
<1>9. /\ Cardinality(Arrived) \in Nat /\ Cardinality(Arrived') = Cardinality(Arrived)
      /\ Cardinality(Finished) \in Nat /\ Cardinality(Finished') = Cardinality(Finished)
      /\ Cardinality(Running) \in Nat /\ Cardinality(Running') = Cardinality(Running)
      /\ Cardinality(Unplaced) \in Nat /\ Cardinality(Unplaced') = Cardinality(Unplaced)
      /\ Cardinality(Attempting) \in Nat /\ Cardinality(Attempting') = Cardinality(Attempting)
      /\ Cardinality(Owing) \in Nat /\ Cardinality(Owing') = Cardinality(Owing)
      /\ Cardinality(GatewayErrors) \in Nat /\ Cardinality(GatewayErrors') = Cardinality(GatewayErrors)
      /\ Cardinality(Successes) \in Nat /\ Cardinality(Successes') = Cardinality(Successes)
  <2>1. u \in Tx /\ Turns(r, u) /\ Shape
    BY <1>1, <1>3, <1>6
  <2>2. QED
    BY <1>7, <1>8, <2>1, CountsMove
<1>10. /\ metrics' \in [Counters -> Nat]
      /\ metrics["requests"] \in Nat
      /\ metrics["completed"] \in Nat
      /\ metrics["attempts"] \in Nat
      /\ metrics["retries"] \in Nat
      /\ metrics["successes"] \in Nat
      /\ metrics["gatewayErrors"] \in Nat
      /\ metrics["refused"] \in Nat
      /\ metrics["failed"] \in Nat
      /\ metrics["active"] \in Nat
      /\ metrics["peak"] \in Nat
      /\ metrics'["requests"] = metrics["requests"]
      /\ metrics'["completed"] = metrics["completed"]
      /\ metrics'["attempts"] = metrics["attempts"]
      /\ metrics'["retries"] = metrics["retries"]
      /\ metrics'["successes"] = metrics["successes"]
      /\ metrics'["gatewayErrors"] = metrics["gatewayErrors"]
      /\ metrics'["refused"] = metrics["refused"]
      /\ metrics'["failed"] = metrics["failed"]
      /\ metrics'["active"] = metrics["active"]
      /\ metrics'["peak"] = metrics["peak"]
  BY <1>1, <1>2 DEF Counters
<1>11. Tallies'
  <2>1. /\ metrics["active"] = Cardinality(Running)
        /\ metrics["requests"] = Cardinality(Arrived)
        /\ metrics["completed"] = Cardinality(Finished)
        /\ metrics["attempts"] + metrics["refused"] + Cardinality(Unplaced) =
             metrics["requests"] + metrics["retries"]
        /\ metrics["failed"] + Cardinality(Attempting) <= metrics["attempts"]
        /\ metrics["gatewayErrors"] = Cardinality(GatewayErrors)
        /\ metrics["successes"] = Cardinality(Successes)
        /\ Cardinality(Owing) <=
             metrics["failed"] + metrics["refused"]
    BY <1>1 DEF Tallies
  <2>2. /\ metrics'["active"] = Cardinality(Running')
        /\ metrics'["requests"] = Cardinality(Arrived')
        /\ metrics'["completed"] = Cardinality(Finished')
        /\ metrics'["gatewayErrors"] = Cardinality(GatewayErrors')
        /\ metrics'["successes"] = Cardinality(Successes')
    BY <1>9, <1>10, <2>1
  <2>3. metrics'["attempts"] + metrics'["refused"] + Cardinality(Unplaced') =
          metrics'["requests"] + metrics'["retries"]
    BY <1>9, <1>10, <2>1
  <2>4. metrics'["failed"] + Cardinality(Attempting') <= metrics'["attempts"]
    BY <1>9, <1>10, <2>1
  <2>5. Cardinality(Owing') <=
          metrics'["failed"] + metrics'["refused"]
    BY <1>9, <1>10, <2>1
  <2>6. QED
    BY <1>10, <2>2, <2>3, <2>4, <2>5 DEF Tallies
<1>12. Places'
  BY <1>2, <1>3, <1>6, PlacesStay
<1>13. PeakSound'
  BY <1>2, <1>3, <1>6, <1>10, PeakStays
<1>14. QED
  BY <1>6, <1>11, <1>12, <1>13 DEF TransactionIInv

\* A retry owes another attempt or refusal.
LEMMA RetryKeeps ==
  ASSUME TransactionIInv, NEW r \in Requests, RetryFailure(r) \/ TryAgain(r)
  PROVE  TransactionIInv'
<1>1. /\ Shape /\ RequestSound(tx[r], trail[r]) /\ tx[r] \in Tx
      /\ trail[r] \in Seq(Events) /\ metrics \in [Counters -> Nat] /\ Tallies
  BY InvariantParts
<1>2. /\ tx[r].pc \in {"failed", "again"} /\ tx[r].method = "GET"
      /\ tx[r].attempt < MaxAttempts /\ tx[r].attempt + 1 \in Nat
      /\ Record("retries") /\ UNCHANGED inFlight
      /\ Moves(r, Again(tx[r], tx[r].attempt + 1),
               Append(trail[r], Event("retry", tx[r].attempt + 1, tx[r].backend)))
  BY <1>1, RetryEffect
<1> DEFINE n == tx[r].attempt + 1
           gone == One(tx[r].pc = "failed")
<1> DEFINE u == Again(tx[r], n)
           f == Append(trail[r], Event("retry", n, tx[r].backend))
<1>3. u \in Tx /\ u.pc = "started"
  BY <1>1, <1>2, AgainFields
<1>4. f \in Seq(Events) /\ RequestSound(u, f)
  <2>1. Event("retry", n, tx[r].backend) \in Events
    BY <1>1, <1>2, Fields, EventFields
  <2>2. f \in Seq(Events)
    BY <1>1, <2>1
  <2>3. RequestSound(u, f)
    BY <1>1, <1>2, AgainSound
  <2>4. QED
    BY <2>2, <2>3
<1>5. Moves(r, u, f)
  BY <1>2
<1> HIDE DEF u, f
<1>6. /\ Shape' /\ \A q \in Requests : RequestSound(tx'[q], trail'[q])
      /\ Turns(r, u)
  BY <1>3, <1>4, <1>5, MovesSound DEF Turns
<1>7. /\ One(HasArrived(u)) = 1
      /\ One(IsFinished(u)) = 0
      /\ One(IsRunning(u)) = 1
      /\ One(IsUnplaced(u)) = 1
      /\ One(IsAttempting(u)) = 0
      /\ One(IsOwing(u)) = 0
      /\ One(IsGatewayError(u)) = 0
      /\ One(IsSuccess(u)) = 0
  BY <1>2, <1>3 DEF One, HasArrived, IsFinished, IsRunning, IsUnplaced, IsAttempting, IsOwing, IsGatewayError, IsSuccess, Searching
<1>8. /\ One(HasArrived(tx[r])) = 1
      /\ One(IsFinished(tx[r])) = 0
      /\ One(IsRunning(tx[r])) = 1
      /\ One(IsUnplaced(tx[r])) = 0
      /\ One(IsAttempting(tx[r])) = 0
      /\ One(IsOwing(tx[r])) = gone
      /\ One(IsGatewayError(tx[r])) = 0
      /\ One(IsSuccess(tx[r])) = 0
      /\ gone \in 0 .. 1
  BY <1>2, <1>3 DEF One, HasArrived, IsFinished, IsRunning, IsUnplaced, IsAttempting, IsOwing, IsGatewayError, IsSuccess, Searching
<1> HIDE DEF gone
<1>9. /\ Cardinality(Arrived) \in Nat /\ Cardinality(Arrived') = Cardinality(Arrived)
      /\ Cardinality(Finished) \in Nat /\ Cardinality(Finished') = Cardinality(Finished)
      /\ Cardinality(Running) \in Nat /\ Cardinality(Running') = Cardinality(Running)
      /\ Cardinality(Unplaced) \in Nat /\ Cardinality(Unplaced') = Cardinality(Unplaced) + 1
      /\ Cardinality(Attempting) \in Nat /\ Cardinality(Attempting') = Cardinality(Attempting)
      /\ Cardinality(Owing) \in Nat /\ Cardinality(Owing') = Cardinality(Owing) - gone
      /\ Cardinality(GatewayErrors) \in Nat /\ Cardinality(GatewayErrors') = Cardinality(GatewayErrors)
      /\ Cardinality(Successes) \in Nat /\ Cardinality(Successes') = Cardinality(Successes)
  <2>1. u \in Tx /\ Turns(r, u) /\ Shape
    BY <1>1, <1>3, <1>6
  <2>2. QED
    BY <1>7, <1>8, <2>1, CountsMove
<1>10. /\ metrics' \in [Counters -> Nat]
      /\ metrics["requests"] \in Nat
      /\ metrics["completed"] \in Nat
      /\ metrics["attempts"] \in Nat
      /\ metrics["retries"] \in Nat
      /\ metrics["successes"] \in Nat
      /\ metrics["gatewayErrors"] \in Nat
      /\ metrics["refused"] \in Nat
      /\ metrics["failed"] \in Nat
      /\ metrics["active"] \in Nat
      /\ metrics["peak"] \in Nat
      /\ metrics'["requests"] = metrics["requests"]
      /\ metrics'["completed"] = metrics["completed"]
      /\ metrics'["attempts"] = metrics["attempts"]
      /\ metrics'["retries"] = metrics["retries"] + 1
      /\ metrics'["successes"] = metrics["successes"]
      /\ metrics'["gatewayErrors"] = metrics["gatewayErrors"]
      /\ metrics'["refused"] = metrics["refused"]
      /\ metrics'["failed"] = metrics["failed"]
      /\ metrics'["active"] = metrics["active"]
      /\ metrics'["peak"] = metrics["peak"]
  BY <1>1, <1>2, RecordCounts DEF Counters
<1>11. Tallies'
  <2>1. /\ metrics["active"] = Cardinality(Running)
        /\ metrics["requests"] = Cardinality(Arrived)
        /\ metrics["completed"] = Cardinality(Finished)
        /\ metrics["attempts"] + metrics["refused"] + Cardinality(Unplaced) =
             metrics["requests"] + metrics["retries"]
        /\ metrics["failed"] + Cardinality(Attempting) <= metrics["attempts"]
        /\ metrics["gatewayErrors"] = Cardinality(GatewayErrors)
        /\ metrics["successes"] = Cardinality(Successes)
        /\ Cardinality(Owing) <=
             metrics["failed"] + metrics["refused"]
    BY <1>1 DEF Tallies
  <2>2. /\ metrics'["active"] = Cardinality(Running')
        /\ metrics'["requests"] = Cardinality(Arrived')
        /\ metrics'["completed"] = Cardinality(Finished')
        /\ metrics'["gatewayErrors"] = Cardinality(GatewayErrors')
        /\ metrics'["successes"] = Cardinality(Successes')
    BY <1>9, <1>10, <2>1, <1>8
  <2>3. metrics'["attempts"] + metrics'["refused"] + Cardinality(Unplaced') =
          metrics'["requests"] + metrics'["retries"]
    BY <1>9, <1>10, <2>1, <1>8
  <2>4. metrics'["failed"] + Cardinality(Attempting') <= metrics'["attempts"]
    BY <1>9, <1>10, <2>1, <1>8
  <2>5. Cardinality(Owing') <=
          metrics'["failed"] + metrics'["refused"]
    BY <1>9, <1>10, <2>1, <1>8
  <2>6. QED
    BY <1>10, <2>2, <2>3, <2>4, <2>5 DEF Tallies
<1>12. Places'
  BY <1>2, <1>3, <1>6, PlacesStay
<1>13. PeakSound'
  BY <1>2, <1>3, <1>6, <1>10, PeakStays
<1>14. QED
  BY <1>6, <1>11, <1>12, <1>13 DEF TransactionIInv

\* A reservation is an attempt, and takes a place.
LEMMA ReserveKeeps ==
  ASSUME TransactionIInv, NEW r \in Requests, Reserve(r)
  PROVE  TransactionIInv'
<1>1. /\ Shape /\ RequestSound(tx[r], trail[r]) /\ tx[r] \in Tx
      /\ trail[r] \in Seq(Events) /\ metrics \in [Counters -> Nat] /\ Tallies
  BY InvariantParts
<1>2. PICK b \in Backends :
        /\ tx[r].pc = "scanning" /\ Record("attempts")
        /\ b \notin tx[r].attempted /\ inFlight[b] < MaxInFlight
        /\ inFlight' = [inFlight EXCEPT ![b] = @ + 1]
        /\ Moves(r, Placed(tx[r], b), Append(trail[r], Event("selected", tx[r].attempt, b)))
  BY <1>1, ReserveEffect
<1> DEFINE u == Placed(tx[r], b)
           f == Append(trail[r], Event("selected", tx[r].attempt, b))
<1>3. u \in Tx /\ u.pc = "attempting" /\ u.backend = b
  BY <1>1, PlacedFields
<1>4. f \in Seq(Events) /\ RequestSound(u, f)
  <2>1. Event("selected", tx[r].attempt, b) \in Events
    BY <1>1, <1>2, Fields, EventFields
  <2>2. f \in Seq(Events)
    BY <1>1, <2>1
  <2>3. RequestSound(u, f)
    BY <1>1, <1>2, PlacedSound
  <2>4. QED
    BY <2>2, <2>3
<1>5. Moves(r, u, f)
  BY <1>2
<1> HIDE DEF u, f
<1>6. /\ Shape' /\ \A q \in Requests : RequestSound(tx'[q], trail'[q])
      /\ Turns(r, u)
  BY <1>3, <1>4, <1>5, MovesSound DEF Turns
<1>7. /\ One(HasArrived(u)) = 1
      /\ One(IsFinished(u)) = 0
      /\ One(IsRunning(u)) = 1
      /\ One(IsUnplaced(u)) = 0
      /\ One(IsAttempting(u)) = 1
      /\ One(IsOwing(u)) = 0
      /\ One(IsGatewayError(u)) = 0
      /\ One(IsSuccess(u)) = 0
  BY <1>2, <1>3 DEF One, HasArrived, IsFinished, IsRunning, IsUnplaced, IsAttempting, IsOwing, IsGatewayError, IsSuccess, Searching
<1>8. /\ One(HasArrived(tx[r])) = 1
      /\ One(IsFinished(tx[r])) = 0
      /\ One(IsRunning(tx[r])) = 1
      /\ One(IsUnplaced(tx[r])) = 1
      /\ One(IsAttempting(tx[r])) = 0
      /\ One(IsOwing(tx[r])) = 0
      /\ One(IsGatewayError(tx[r])) = 0
      /\ One(IsSuccess(tx[r])) = 0
  BY <1>2, <1>3 DEF One, HasArrived, IsFinished, IsRunning, IsUnplaced, IsAttempting, IsOwing, IsGatewayError, IsSuccess, Searching
<1>9. /\ Cardinality(Arrived) \in Nat /\ Cardinality(Arrived') = Cardinality(Arrived)
      /\ Cardinality(Finished) \in Nat /\ Cardinality(Finished') = Cardinality(Finished)
      /\ Cardinality(Running) \in Nat /\ Cardinality(Running') = Cardinality(Running)
      /\ Cardinality(Unplaced) \in Nat /\ Cardinality(Unplaced') = Cardinality(Unplaced) - 1
      /\ Cardinality(Attempting) \in Nat /\ Cardinality(Attempting') = Cardinality(Attempting) + 1
      /\ Cardinality(Owing) \in Nat /\ Cardinality(Owing') = Cardinality(Owing)
      /\ Cardinality(GatewayErrors) \in Nat /\ Cardinality(GatewayErrors') = Cardinality(GatewayErrors)
      /\ Cardinality(Successes) \in Nat /\ Cardinality(Successes') = Cardinality(Successes)
  <2>1. u \in Tx /\ Turns(r, u) /\ Shape
    BY <1>1, <1>3, <1>6
  <2>2. QED
    BY <1>7, <1>8, <2>1, CountsMove
<1>10. /\ metrics' \in [Counters -> Nat]
      /\ metrics["requests"] \in Nat
      /\ metrics["completed"] \in Nat
      /\ metrics["attempts"] \in Nat
      /\ metrics["retries"] \in Nat
      /\ metrics["successes"] \in Nat
      /\ metrics["gatewayErrors"] \in Nat
      /\ metrics["refused"] \in Nat
      /\ metrics["failed"] \in Nat
      /\ metrics["active"] \in Nat
      /\ metrics["peak"] \in Nat
      /\ metrics'["requests"] = metrics["requests"]
      /\ metrics'["completed"] = metrics["completed"]
      /\ metrics'["attempts"] = metrics["attempts"] + 1
      /\ metrics'["retries"] = metrics["retries"]
      /\ metrics'["successes"] = metrics["successes"]
      /\ metrics'["gatewayErrors"] = metrics["gatewayErrors"]
      /\ metrics'["refused"] = metrics["refused"]
      /\ metrics'["failed"] = metrics["failed"]
      /\ metrics'["active"] = metrics["active"]
      /\ metrics'["peak"] = metrics["peak"]
  BY <1>1, <1>2, RecordCounts DEF Counters
<1>11. Tallies'
  <2>1. /\ metrics["active"] = Cardinality(Running)
        /\ metrics["requests"] = Cardinality(Arrived)
        /\ metrics["completed"] = Cardinality(Finished)
        /\ metrics["attempts"] + metrics["refused"] + Cardinality(Unplaced) =
             metrics["requests"] + metrics["retries"]
        /\ metrics["failed"] + Cardinality(Attempting) <= metrics["attempts"]
        /\ metrics["gatewayErrors"] = Cardinality(GatewayErrors)
        /\ metrics["successes"] = Cardinality(Successes)
        /\ Cardinality(Owing) <=
             metrics["failed"] + metrics["refused"]
    BY <1>1 DEF Tallies
  <2>2. /\ metrics'["active"] = Cardinality(Running')
        /\ metrics'["requests"] = Cardinality(Arrived')
        /\ metrics'["completed"] = Cardinality(Finished')
        /\ metrics'["gatewayErrors"] = Cardinality(GatewayErrors')
        /\ metrics'["successes"] = Cardinality(Successes')
    BY <1>9, <1>10, <2>1
  <2>3. metrics'["attempts"] + metrics'["refused"] + Cardinality(Unplaced') =
          metrics'["requests"] + metrics'["retries"]
    BY <1>9, <1>10, <2>1
  <2>4. metrics'["failed"] + Cardinality(Attempting') <= metrics'["attempts"]
    BY <1>9, <1>10, <2>1
  <2>5. Cardinality(Owing') <=
          metrics'["failed"] + metrics'["refused"]
    BY <1>9, <1>10, <2>1
  <2>6. QED
    BY <1>10, <2>2, <2>3, <2>4, <2>5 DEF Tallies
<1>12. Places'
  BY <1>2, <1>3, <1>6, PlaceTaken
<1>13. PeakSound'
  BY <1>2, <1>3, <1>6, <1>10, PeakStays
<1>14. QED
  BY <1>6, <1>11, <1>12, <1>13 DEF TransactionIInv

\* An answer that no backend gave is owed to a failure or a refusal.
LEMMA AnswerKeeps ==
  ASSUME TransactionIInv, NEW r \in Requests, AnswerUnreserved(r) \/ AnswerFailure(r) \/ AnswerResponse(r)
  PROVE  TransactionIInv'
<1>1. /\ Shape /\ RequestSound(tx[r], trail[r]) /\ tx[r] \in Tx
      /\ trail[r] \in Seq(Events) /\ metrics \in [Counters -> Nat] /\ Tallies
  BY InvariantParts
<1>2. PICK a \in Responses :
        /\ tx[r].pc \in {"unreserved", "failed", "responded"}
        /\ UNCHANGED <<inFlight, metrics>>
        /\ Generated(a) => a.status \notin 200 .. 399 /\ a.error
        /\ tx[r].pc = "responded" => a.from = tx[r].backend /\ ~ Generated(a)
        /\ Moves(r, Answering(tx[r], a), trail[r])
  BY <1>1, AnswerEffect
<1> DEFINE u == Answering(tx[r], a)
           f == trail[r]
<1>3. u \in Tx /\ u.pc = "answering" /\ u.reply = a
  BY <1>1, AnsweringFields
<1>4. f \in Seq(Events) /\ RequestSound(u, f)
  BY <1>1, <1>2, AnsweringSound
<1>5. Moves(r, u, f)
  BY <1>2
<1> HIDE DEF u, f
<1>6. /\ Shape' /\ \A q \in Requests : RequestSound(tx'[q], trail'[q])
      /\ Turns(r, u)
  BY <1>3, <1>4, <1>5, MovesSound DEF Turns
<1>7. /\ One(HasArrived(u)) = 1
      /\ One(IsFinished(u)) = 0
      /\ One(IsRunning(u)) = 1
      /\ One(IsUnplaced(u)) = 0
      /\ One(IsAttempting(u)) = 0
      /\ One(IsOwing(u)) = One(Generated(a))
      /\ One(IsGatewayError(u)) = 0
      /\ One(IsSuccess(u)) = 0
      /\ One(Generated(a)) \in 0 .. 1
  BY <1>2, <1>3 DEF One, HasArrived, IsFinished, IsRunning, IsUnplaced, IsAttempting, IsOwing, IsGatewayError, IsSuccess, Searching
<1>8. /\ One(HasArrived(tx[r])) = 1
      /\ One(IsFinished(tx[r])) = 0
      /\ One(IsRunning(tx[r])) = 1
      /\ One(IsUnplaced(tx[r])) = 0
      /\ One(IsAttempting(tx[r])) = 0
      /\ One(IsOwing(tx[r])) = One(tx[r].pc # "responded")
      /\ One(IsGatewayError(tx[r])) = 0
      /\ One(IsSuccess(tx[r])) = 0
      /\ One(tx[r].pc # "responded") \in 0 .. 1
  BY <1>2, <1>3 DEF One, HasArrived, IsFinished, IsRunning, IsUnplaced, IsAttempting, IsOwing, IsGatewayError, IsSuccess, Searching
<1>9. /\ Cardinality(Arrived) \in Nat /\ Cardinality(Arrived') = Cardinality(Arrived)
      /\ Cardinality(Finished) \in Nat /\ Cardinality(Finished') = Cardinality(Finished)
      /\ Cardinality(Running) \in Nat /\ Cardinality(Running') = Cardinality(Running)
      /\ Cardinality(Unplaced) \in Nat /\ Cardinality(Unplaced') = Cardinality(Unplaced)
      /\ Cardinality(Attempting) \in Nat /\ Cardinality(Attempting') = Cardinality(Attempting)
      /\ Cardinality(Owing) \in Nat /\ Cardinality(Owing') = Cardinality(Owing) + One(Generated(a)) - One(tx[r].pc # "responded")
      /\ Cardinality(GatewayErrors) \in Nat /\ Cardinality(GatewayErrors') = Cardinality(GatewayErrors)
      /\ Cardinality(Successes) \in Nat /\ Cardinality(Successes') = Cardinality(Successes)
  <2>1. u \in Tx /\ Turns(r, u) /\ Shape
    BY <1>1, <1>3, <1>6
  <2>2. QED
    BY <1>7, <1>8, <2>1, CountsMove
<1>10. /\ metrics' \in [Counters -> Nat]
      /\ metrics["requests"] \in Nat
      /\ metrics["completed"] \in Nat
      /\ metrics["attempts"] \in Nat
      /\ metrics["retries"] \in Nat
      /\ metrics["successes"] \in Nat
      /\ metrics["gatewayErrors"] \in Nat
      /\ metrics["refused"] \in Nat
      /\ metrics["failed"] \in Nat
      /\ metrics["active"] \in Nat
      /\ metrics["peak"] \in Nat
      /\ metrics'["requests"] = metrics["requests"]
      /\ metrics'["completed"] = metrics["completed"]
      /\ metrics'["attempts"] = metrics["attempts"]
      /\ metrics'["retries"] = metrics["retries"]
      /\ metrics'["successes"] = metrics["successes"]
      /\ metrics'["gatewayErrors"] = metrics["gatewayErrors"]
      /\ metrics'["refused"] = metrics["refused"]
      /\ metrics'["failed"] = metrics["failed"]
      /\ metrics'["active"] = metrics["active"]
      /\ metrics'["peak"] = metrics["peak"]
  BY <1>1, <1>2 DEF Counters
<1>11. One(Generated(a)) <= One(tx[r].pc # "responded")
  BY <1>2 DEF One
<1>12. Tallies'
  <2>1. /\ metrics["active"] = Cardinality(Running)
        /\ metrics["requests"] = Cardinality(Arrived)
        /\ metrics["completed"] = Cardinality(Finished)
        /\ metrics["attempts"] + metrics["refused"] + Cardinality(Unplaced) =
             metrics["requests"] + metrics["retries"]
        /\ metrics["failed"] + Cardinality(Attempting) <= metrics["attempts"]
        /\ metrics["gatewayErrors"] = Cardinality(GatewayErrors)
        /\ metrics["successes"] = Cardinality(Successes)
        /\ Cardinality(Owing) <=
             metrics["failed"] + metrics["refused"]
    BY <1>1 DEF Tallies
  <2>2. /\ metrics'["active"] = Cardinality(Running')
        /\ metrics'["requests"] = Cardinality(Arrived')
        /\ metrics'["completed"] = Cardinality(Finished')
        /\ metrics'["gatewayErrors"] = Cardinality(GatewayErrors')
        /\ metrics'["successes"] = Cardinality(Successes')
    BY <1>9, <1>10, <1>7, <1>8, <1>11, <2>1
  <2>3. metrics'["attempts"] + metrics'["refused"] + Cardinality(Unplaced') =
          metrics'["requests"] + metrics'["retries"]
    BY <1>9, <1>10, <1>7, <1>8, <1>11, <2>1
  <2>4. metrics'["failed"] + Cardinality(Attempting') <= metrics'["attempts"]
    BY <1>9, <1>10, <1>7, <1>8, <1>11, <2>1
  <2>5. Cardinality(Owing') <=
          metrics'["failed"] + metrics'["refused"]
    BY <1>9, <1>10, <1>7, <1>8, <1>11, <2>1
  <2>6. QED
    BY <1>10, <2>2, <2>3, <2>4, <2>5 DEF Tallies
<1>13. Places'
  BY <1>2, <1>3, <1>6, PlacesStay
<1>14. PeakSound'
  BY <1>2, <1>3, <1>6, <1>10, PeakStays
<1>15. QED
  BY <1>6, <1>12, <1>13, <1>14 DEF TransactionIInv

\* The completion settles what the request was counted for.
LEMMA CompleteRequestKeeps ==
  ASSUME TransactionIInv, NEW r \in Requests, CompleteRequest(r)
  PROVE  TransactionIInv'
<1>1. /\ Shape /\ RequestSound(tx[r], trail[r]) /\ tx[r] \in Tx
      /\ trail[r] \in Seq(Events) /\ metrics \in [Counters -> Nat] /\ Tallies
  BY InvariantParts
<1>2. /\ tx[r].pc = "answering"
      /\ Moves(r, Answered(tx[r]), Append(trail[r], Event("completed", tx[r].attempt, None)))
      /\ metrics' = completeRequest(metrics, tx[r].reply)
      /\ UNCHANGED inFlight
  BY <1>1, CompleteRequestEffect
<1> DEFINE won == One(tx[r].reply.status \in 200 .. 399)
           lost == One(tx[r].reply.error)
           made == One(Generated(tx[r].reply))
<1> DEFINE u == Answered(tx[r])
           f == Append(trail[r], Event("completed", tx[r].attempt, None))
<1>3. u \in Tx /\ u.pc = "answered" /\ u.reply = tx[r].reply
  BY <1>1, AnsweredFields
<1>4. f \in Seq(Events) /\ RequestSound(u, f)
  <2>1. Event("completed", tx[r].attempt, None) \in Events
    BY <1>1, <1>2, Fields, EventFields
  <2>2. f \in Seq(Events)
    BY <1>1, <2>1
  <2>3. RequestSound(u, f)
    BY <1>1, <1>2, AnsweredSound
  <2>4. QED
    BY <2>2, <2>3
<1>5. Moves(r, u, f)
  BY <1>2
<1> HIDE DEF u, f
<1>6. /\ Shape' /\ \A q \in Requests : RequestSound(tx'[q], trail'[q])
      /\ Turns(r, u)
  BY <1>3, <1>4, <1>5, MovesSound DEF Turns
<1>7. /\ One(HasArrived(u)) = 1
      /\ One(IsFinished(u)) = 1
      /\ One(IsRunning(u)) = 0
      /\ One(IsUnplaced(u)) = 0
      /\ One(IsAttempting(u)) = 0
      /\ One(IsOwing(u)) = made
      /\ One(IsGatewayError(u)) = lost
      /\ One(IsSuccess(u)) = won
      /\ lost \in 0 .. 1 /\ won \in 0 .. 1 /\ made \in 0 .. 1
  BY <1>2, <1>3 DEF One, HasArrived, IsFinished, IsRunning, IsUnplaced, IsAttempting, IsOwing, IsGatewayError, IsSuccess, Searching
<1>8. /\ One(HasArrived(tx[r])) = 1
      /\ One(IsFinished(tx[r])) = 0
      /\ One(IsRunning(tx[r])) = 1
      /\ One(IsUnplaced(tx[r])) = 0
      /\ One(IsAttempting(tx[r])) = 0
      /\ One(IsOwing(tx[r])) = made
      /\ One(IsGatewayError(tx[r])) = 0
      /\ One(IsSuccess(tx[r])) = 0
  BY <1>2, <1>3 DEF One, HasArrived, IsFinished, IsRunning, IsUnplaced, IsAttempting, IsOwing, IsGatewayError, IsSuccess, Searching
<1>9. /\ Cardinality(Arrived) \in Nat /\ Cardinality(Arrived') = Cardinality(Arrived)
      /\ Cardinality(Finished) \in Nat /\ Cardinality(Finished') = Cardinality(Finished) + 1
      /\ Cardinality(Running) \in Nat /\ Cardinality(Running') = Cardinality(Running) - 1
      /\ Cardinality(Unplaced) \in Nat /\ Cardinality(Unplaced') = Cardinality(Unplaced)
      /\ Cardinality(Attempting) \in Nat /\ Cardinality(Attempting') = Cardinality(Attempting)
      /\ Cardinality(Owing) \in Nat /\ Cardinality(Owing') = Cardinality(Owing)
      /\ Cardinality(GatewayErrors) \in Nat /\ Cardinality(GatewayErrors') = Cardinality(GatewayErrors) + lost
      /\ Cardinality(Successes) \in Nat /\ Cardinality(Successes') = Cardinality(Successes) + won
  <2>1. u \in Tx /\ Turns(r, u) /\ Shape
    BY <1>1, <1>3, <1>6
  <2> HIDE DEF won, lost, made
  <2>2. QED
    BY <1>7, <1>8, <2>1, CountsMove
<1>10. metrics["active"] > 0 /\ won \in Nat /\ lost \in Nat
  <2>2. u \in Tx /\ Turns(r, u) /\ Shape /\ IsRunning(tx[r])
    BY <1>1, <1>2, <1>3, <1>6 DEF IsRunning
  <2>3. Cardinality(Running) > 0
    BY <2>2, CountsMove
  <2>4. QED
    BY <1>1, <2>3 DEF One, Tallies
<1> HIDE DEF won, lost, made
<1>11. /\ metrics' \in [Counters -> Nat]
      /\ metrics["requests"] \in Nat
      /\ metrics["completed"] \in Nat
      /\ metrics["attempts"] \in Nat
      /\ metrics["retries"] \in Nat
      /\ metrics["successes"] \in Nat
      /\ metrics["gatewayErrors"] \in Nat
      /\ metrics["refused"] \in Nat
      /\ metrics["failed"] \in Nat
      /\ metrics["active"] \in Nat
      /\ metrics["peak"] \in Nat
      /\ metrics'["requests"] = metrics["requests"]
      /\ metrics'["completed"] = metrics["completed"] + 1
      /\ metrics'["attempts"] = metrics["attempts"]
      /\ metrics'["retries"] = metrics["retries"]
      /\ metrics'["successes"] = metrics["successes"] + won
      /\ metrics'["gatewayErrors"] = metrics["gatewayErrors"] + lost
      /\ metrics'["refused"] = metrics["refused"]
      /\ metrics'["failed"] = metrics["failed"]
      /\ metrics'["active"] = metrics["active"] - 1
      /\ metrics'["peak"] = metrics["peak"]
  <2>1. /\ metrics' \in [Counters -> Nat]
        /\ metrics'["completed"] = metrics["completed"] + 1
        /\ metrics'["active"] = metrics["active"] - 1
        /\ metrics'["successes"] = metrics["successes"] + won
        /\ metrics'["gatewayErrors"] = metrics["gatewayErrors"] + lost
        /\ \A d \in Counters : d \notin {"completed", "active", "successes", "gatewayErrors"}
             => metrics'[d] = metrics[d]
    BY <1>1, <1>2, <1>10, CompletionCounts DEF won, lost
  <2>2. QED
    BY <1>1, <2>1 DEF Counters
<1>12. Tallies'
  <2>1. /\ metrics["active"] = Cardinality(Running)
        /\ metrics["requests"] = Cardinality(Arrived)
        /\ metrics["completed"] = Cardinality(Finished)
        /\ metrics["attempts"] + metrics["refused"] + Cardinality(Unplaced) =
             metrics["requests"] + metrics["retries"]
        /\ metrics["failed"] + Cardinality(Attempting) <= metrics["attempts"]
        /\ metrics["gatewayErrors"] = Cardinality(GatewayErrors)
        /\ metrics["successes"] = Cardinality(Successes)
        /\ Cardinality(Owing) <=
             metrics["failed"] + metrics["refused"]
    BY <1>1 DEF Tallies
  <2>2. /\ metrics'["active"] = Cardinality(Running')
        /\ metrics'["requests"] = Cardinality(Arrived')
        /\ metrics'["completed"] = Cardinality(Finished')
        /\ metrics'["gatewayErrors"] = Cardinality(GatewayErrors')
        /\ metrics'["successes"] = Cardinality(Successes')
    BY <1>9, <1>11, <2>1, <1>7, <1>8, <1>10
  <2>3. metrics'["attempts"] + metrics'["refused"] + Cardinality(Unplaced') =
          metrics'["requests"] + metrics'["retries"]
    BY <1>9, <1>11, <2>1, <1>7, <1>8, <1>10
  <2>4. metrics'["failed"] + Cardinality(Attempting') <= metrics'["attempts"]
    BY <1>9, <1>11, <2>1, <1>7, <1>8, <1>10
  <2>5. Cardinality(Owing') <=
          metrics'["failed"] + metrics'["refused"]
    BY <1>9, <1>11, <2>1, <1>7, <1>8, <1>10
  <2>6. QED
    BY <1>11, <2>2, <2>3, <2>4, <2>5 DEF Tallies
<1>13. Places'
  BY <1>2, <1>3, <1>6, PlacesStay
<1>14. PeakSound'
  <2>1. metrics'["active"] \in Nat /\ metrics'["active"] <= metrics["active"]
    BY <1>10, <1>11
  <2>2. QED
    BY <1>2, <1>3, <1>6, <1>11, <2>1, PeakStays
<1>15. QED
  BY <1>6, <1>12, <1>13, <1>14 DEF TransactionIInv

\* What a request raises the peak to covers what it was raised for.
LEMMA RecordPeakKeeps ==
  ASSUME TransactionIInv, NEW r \in Requests, RecordPeak(r)
  PROVE  TransactionIInv'
<1>1. /\ Shape /\ RequestSound(tx[r], trail[r]) /\ tx[r] \in Tx
      /\ trail[r] \in Seq(Events) /\ metrics \in [Counters -> Nat] /\ Tallies
  BY InvariantParts
<1>2. /\ tx[r].pc = "counted"
      /\ Moves(r, Started(tx[r]), Append(trail[r], Event("started", 0, None)))
      /\ metrics' = [metrics EXCEPT !["peak"] = RaisePeak(@, tx[r].active)]
      /\ UNCHANGED inFlight
  BY <1>1, RecordPeakEffect
<1> DEFINE peak == RaisePeak(metrics["peak"], tx[r].active)
<1> DEFINE u == Started(tx[r])
           f == Append(trail[r], Event("started", 0, None))
<1>3. u \in Tx /\ u.pc = "started"
  BY <1>1, StartedFields
<1>4. f \in Seq(Events) /\ RequestSound(u, f)
  <2>1. Event("started", 0, None) \in Events
    BY <1>1, <1>2, Fields, EventFields
  <2>2. f \in Seq(Events)
    BY <1>1, <2>1
  <2>3. RequestSound(u, f)
    BY <1>1, <1>2, StartedSound
  <2>4. QED
    BY <2>2, <2>3
<1>5. Moves(r, u, f)
  BY <1>2
<1> HIDE DEF u, f
<1>6. /\ Shape' /\ \A q \in Requests : RequestSound(tx'[q], trail'[q])
      /\ Turns(r, u)
  BY <1>3, <1>4, <1>5, MovesSound DEF Turns
<1>7. /\ One(HasArrived(u)) = 1
      /\ One(IsFinished(u)) = 0
      /\ One(IsRunning(u)) = 1
      /\ One(IsUnplaced(u)) = 1
      /\ One(IsAttempting(u)) = 0
      /\ One(IsOwing(u)) = 0
      /\ One(IsGatewayError(u)) = 0
      /\ One(IsSuccess(u)) = 0
  BY <1>2, <1>3 DEF One, HasArrived, IsFinished, IsRunning, IsUnplaced, IsAttempting, IsOwing, IsGatewayError, IsSuccess, Searching
<1>8. /\ One(HasArrived(tx[r])) = 1
      /\ One(IsFinished(tx[r])) = 0
      /\ One(IsRunning(tx[r])) = 1
      /\ One(IsUnplaced(tx[r])) = 1
      /\ One(IsAttempting(tx[r])) = 0
      /\ One(IsOwing(tx[r])) = 0
      /\ One(IsGatewayError(tx[r])) = 0
      /\ One(IsSuccess(tx[r])) = 0
  BY <1>2, <1>3 DEF One, HasArrived, IsFinished, IsRunning, IsUnplaced, IsAttempting, IsOwing, IsGatewayError, IsSuccess, Searching
<1>9. /\ Cardinality(Arrived) \in Nat /\ Cardinality(Arrived') = Cardinality(Arrived)
      /\ Cardinality(Finished) \in Nat /\ Cardinality(Finished') = Cardinality(Finished)
      /\ Cardinality(Running) \in Nat /\ Cardinality(Running') = Cardinality(Running)
      /\ Cardinality(Unplaced) \in Nat /\ Cardinality(Unplaced') = Cardinality(Unplaced)
      /\ Cardinality(Attempting) \in Nat /\ Cardinality(Attempting') = Cardinality(Attempting)
      /\ Cardinality(Owing) \in Nat /\ Cardinality(Owing') = Cardinality(Owing)
      /\ Cardinality(GatewayErrors) \in Nat /\ Cardinality(GatewayErrors') = Cardinality(GatewayErrors)
      /\ Cardinality(Successes) \in Nat /\ Cardinality(Successes') = Cardinality(Successes)
  <2>1. u \in Tx /\ Turns(r, u) /\ Shape
    BY <1>1, <1>3, <1>6
  <2>2. QED
    BY <1>7, <1>8, <2>1, CountsMove
<1>10. /\ peak \in Nat /\ metrics["peak"] <= peak /\ tx[r].active <= peak
       /\ metrics' = [metrics EXCEPT !["peak"] = peak] /\ tx[r].active \in Nat
       /\ metrics["peak"] \in Nat
  <2>1. tx[r].active \in Nat /\ metrics["peak"] \in Nat
    BY <1>1, Fields DEF Counters
  <2>2. QED
    BY <1>2, <2>1 DEF RaisePeak
<1> HIDE DEF peak
<1>11. /\ metrics' \in [Counters -> Nat]
      /\ metrics["requests"] \in Nat
      /\ metrics["completed"] \in Nat
      /\ metrics["attempts"] \in Nat
      /\ metrics["retries"] \in Nat
      /\ metrics["successes"] \in Nat
      /\ metrics["gatewayErrors"] \in Nat
      /\ metrics["refused"] \in Nat
      /\ metrics["failed"] \in Nat
      /\ metrics["active"] \in Nat
      /\ metrics["peak"] \in Nat
      /\ metrics'["requests"] = metrics["requests"]
      /\ metrics'["completed"] = metrics["completed"]
      /\ metrics'["attempts"] = metrics["attempts"]
      /\ metrics'["retries"] = metrics["retries"]
      /\ metrics'["successes"] = metrics["successes"]
      /\ metrics'["gatewayErrors"] = metrics["gatewayErrors"]
      /\ metrics'["refused"] = metrics["refused"]
      /\ metrics'["failed"] = metrics["failed"]
      /\ metrics'["active"] = metrics["active"]
      /\ metrics'["peak"] = peak
  BY <1>1, <1>2, <1>10 DEF Counters
<1>12. Tallies'
  <2>1. /\ metrics["active"] = Cardinality(Running)
        /\ metrics["requests"] = Cardinality(Arrived)
        /\ metrics["completed"] = Cardinality(Finished)
        /\ metrics["attempts"] + metrics["refused"] + Cardinality(Unplaced) =
             metrics["requests"] + metrics["retries"]
        /\ metrics["failed"] + Cardinality(Attempting) <= metrics["attempts"]
        /\ metrics["gatewayErrors"] = Cardinality(GatewayErrors)
        /\ metrics["successes"] = Cardinality(Successes)
        /\ Cardinality(Owing) <=
             metrics["failed"] + metrics["refused"]
    BY <1>1 DEF Tallies
  <2>2. /\ metrics'["active"] = Cardinality(Running')
        /\ metrics'["requests"] = Cardinality(Arrived')
        /\ metrics'["completed"] = Cardinality(Finished')
        /\ metrics'["gatewayErrors"] = Cardinality(GatewayErrors')
        /\ metrics'["successes"] = Cardinality(Successes')
    BY <1>9, <1>11, <2>1
  <2>3. metrics'["attempts"] + metrics'["refused"] + Cardinality(Unplaced') =
          metrics'["requests"] + metrics'["retries"]
    BY <1>9, <1>11, <2>1
  <2>4. metrics'["failed"] + Cardinality(Attempting') <= metrics'["attempts"]
    BY <1>9, <1>11, <2>1
  <2>5. Cardinality(Owing') <=
          metrics'["failed"] + metrics'["refused"]
    BY <1>9, <1>11, <2>1
  <2>6. QED
    BY <1>11, <2>2, <2>3, <2>4, <2>5 DEF Tallies
<1>13. Places'
  BY <1>2, <1>3, <1>6, PlacesStay
<1>14. PeakSound'
  <2>1. PeakSound /\ Shape /\ u \in Tx /\ Turns(r, u)
    BY <1>1, <1>3, <1>6, InvariantParts
  <2>2. \A n \in Nat : peak <= n =>
          Cardinality(Raising(n)) \in Nat /\ Cardinality(Raising(n)') = Cardinality(Raising(n))
    BY <1>2, <1>3, <1>10, <2>1, RaisingMoves DEF IsRaising, One
  <2>3. QED
    BY <1>11, <1>10, <2>1, <2>2 DEF PeakSound
<1>15. QED
  BY <1>6, <1>12, <1>13, <1>14 DEF TransactionIInv

\* A request that is counted and has not raised the peak covers itself.
LEMMA CountRequestKeeps ==
  ASSUME TransactionIInv, NEW r \in Requests, CountRequest(r)
  PROVE  TransactionIInv'
<1>1. /\ Shape /\ RequestSound(tx[r], trail[r]) /\ tx[r] \in Tx
      /\ trail[r] \in Seq(Events) /\ metrics \in [Counters -> Nat] /\ Tallies
  BY InvariantParts
<1>2. PICK m \in Methods :
        /\ tx[r].pc = "arriving"
        /\ Moves(r, Counted(tx[r], m, metrics["active"] + 1), trail[r])
        /\ metrics' = [metrics EXCEPT !["requests"] = @ + 1, !["active"] = @ + 1]
        /\ UNCHANGED inFlight
  BY <1>1, CountRequestEffect
<1> DEFINE a == metrics["active"] + 1
<1>3. a \in Nat
  BY <1>1 DEF Counters
<1> HIDE DEF a
<1> DEFINE u == Counted(tx[r], m, a)
           f == trail[r]
<1>4. u \in Tx /\ u.pc = "counted" /\ u.active = a
  BY <1>1, <1>3, CountedFields
<1>5. f \in Seq(Events) /\ RequestSound(u, f)
  BY <1>1, <1>2, <1>3, CountedSound
<1>6. Moves(r, u, f)
  BY <1>2 DEF a
<1> HIDE DEF u, f
<1>7. /\ Shape' /\ \A q \in Requests : RequestSound(tx'[q], trail'[q])
      /\ Turns(r, u)
  BY <1>4, <1>5, <1>6, MovesSound DEF Turns
<1>8. /\ One(HasArrived(u)) = 1
      /\ One(IsFinished(u)) = 0
      /\ One(IsRunning(u)) = 1
      /\ One(IsUnplaced(u)) = 1
      /\ One(IsAttempting(u)) = 0
      /\ One(IsOwing(u)) = 0
      /\ One(IsGatewayError(u)) = 0
      /\ One(IsSuccess(u)) = 0
  BY <1>2, <1>4 DEF One, HasArrived, IsFinished, IsRunning, IsUnplaced, IsAttempting, IsOwing, IsGatewayError, IsSuccess, Searching
<1>9. /\ One(HasArrived(tx[r])) = 0
      /\ One(IsFinished(tx[r])) = 0
      /\ One(IsRunning(tx[r])) = 0
      /\ One(IsUnplaced(tx[r])) = 0
      /\ One(IsAttempting(tx[r])) = 0
      /\ One(IsOwing(tx[r])) = 0
      /\ One(IsGatewayError(tx[r])) = 0
      /\ One(IsSuccess(tx[r])) = 0
  BY <1>2, <1>4 DEF One, HasArrived, IsFinished, IsRunning, IsUnplaced, IsAttempting, IsOwing, IsGatewayError, IsSuccess, Searching
<1>10. /\ Cardinality(Arrived) \in Nat /\ Cardinality(Arrived') = Cardinality(Arrived) + 1
      /\ Cardinality(Finished) \in Nat /\ Cardinality(Finished') = Cardinality(Finished)
      /\ Cardinality(Running) \in Nat /\ Cardinality(Running') = Cardinality(Running) + 1
      /\ Cardinality(Unplaced) \in Nat /\ Cardinality(Unplaced') = Cardinality(Unplaced) + 1
      /\ Cardinality(Attempting) \in Nat /\ Cardinality(Attempting') = Cardinality(Attempting)
      /\ Cardinality(Owing) \in Nat /\ Cardinality(Owing') = Cardinality(Owing)
      /\ Cardinality(GatewayErrors) \in Nat /\ Cardinality(GatewayErrors') = Cardinality(GatewayErrors)
      /\ Cardinality(Successes) \in Nat /\ Cardinality(Successes') = Cardinality(Successes)
  <2>1. u \in Tx /\ Turns(r, u) /\ Shape
    BY <1>1, <1>4, <1>7
  <2>2. QED
    BY <1>8, <1>9, <2>1, CountsMove
<1>11. /\ metrics' \in [Counters -> Nat]
      /\ metrics["requests"] \in Nat
      /\ metrics["completed"] \in Nat
      /\ metrics["attempts"] \in Nat
      /\ metrics["retries"] \in Nat
      /\ metrics["successes"] \in Nat
      /\ metrics["gatewayErrors"] \in Nat
      /\ metrics["refused"] \in Nat
      /\ metrics["failed"] \in Nat
      /\ metrics["active"] \in Nat
      /\ metrics["peak"] \in Nat
      /\ metrics'["requests"] = metrics["requests"] + 1
      /\ metrics'["completed"] = metrics["completed"]
      /\ metrics'["attempts"] = metrics["attempts"]
      /\ metrics'["retries"] = metrics["retries"]
      /\ metrics'["successes"] = metrics["successes"]
      /\ metrics'["gatewayErrors"] = metrics["gatewayErrors"]
      /\ metrics'["refused"] = metrics["refused"]
      /\ metrics'["failed"] = metrics["failed"]
      /\ metrics'["active"] = metrics["active"] + 1
      /\ metrics'["peak"] = metrics["peak"]
  BY <1>1, <1>2, ArrivalCounts DEF Counters
<1>12. Tallies'
  <2>1. /\ metrics["active"] = Cardinality(Running)
        /\ metrics["requests"] = Cardinality(Arrived)
        /\ metrics["completed"] = Cardinality(Finished)
        /\ metrics["attempts"] + metrics["refused"] + Cardinality(Unplaced) =
             metrics["requests"] + metrics["retries"]
        /\ metrics["failed"] + Cardinality(Attempting) <= metrics["attempts"]
        /\ metrics["gatewayErrors"] = Cardinality(GatewayErrors)
        /\ metrics["successes"] = Cardinality(Successes)
        /\ Cardinality(Owing) <=
             metrics["failed"] + metrics["refused"]
    BY <1>1 DEF Tallies
  <2>2. /\ metrics'["active"] = Cardinality(Running')
        /\ metrics'["requests"] = Cardinality(Arrived')
        /\ metrics'["completed"] = Cardinality(Finished')
        /\ metrics'["gatewayErrors"] = Cardinality(GatewayErrors')
        /\ metrics'["successes"] = Cardinality(Successes')
    BY <1>10, <1>11, <2>1
  <2>3. metrics'["attempts"] + metrics'["refused"] + Cardinality(Unplaced') =
          metrics'["requests"] + metrics'["retries"]
    BY <1>10, <1>11, <2>1
  <2>4. metrics'["failed"] + Cardinality(Attempting') <= metrics'["attempts"]
    BY <1>10, <1>11, <2>1
  <2>5. Cardinality(Owing') <=
          metrics'["failed"] + metrics'["refused"]
    BY <1>10, <1>11, <2>1
  <2>6. QED
    BY <1>11, <2>2, <2>3, <2>4, <2>5 DEF Tallies
<1>13. Places'
  BY <1>2, <1>4, <1>7, PlacesStay
<1>14. PeakSound'
  <2>1. PeakSound /\ Shape /\ u \in Tx /\ Turns(r, u)
    BY <1>1, <1>4, <1>7, InvariantParts
  <2>2. \A n \in Nat :
          /\ Cardinality(Raising(n)) \in Nat
          /\ Cardinality(Raising(n)') = Cardinality(Raising(n)) + One(a > n)
    <3> SUFFICES ASSUME NEW n \in Nat
                 PROVE  /\ Cardinality(Raising(n)) \in Nat
                        /\ Cardinality(Raising(n)') = Cardinality(Raising(n)) + One(a > n)
      OBVIOUS
    <3>1. One(IsRaising(u, n)) = One(a > n) /\ One(a > n) \in 0 .. 1
      BY <1>4 DEF IsRaising, One
    <3>2. One(IsRaising(tx[r], n)) = 0
      BY <1>2 DEF IsRaising, One
    <3>3. QED
      BY <2>1, <3>1, <3>2, RaisingMoves
  <2>3. metrics'["active"] = a /\ a = metrics["active"] + 1
    BY <1>11 DEF a
  <2>4. QED
    BY <1>11, <1>3, <2>1, <2>2, <2>3 DEF PeakSound, One
<1>15. QED
  BY <1>7, <1>12, <1>13, <1>14 DEF TransactionIInv

\* The invariant stays where all that it is about does.
LEMMA NothingCounted ==
  ASSUME TransactionIInv, Shape', UNCHANGED <<inFlight, tx, trail, metrics>>
  PROVE  TransactionIInv'
<1>1. /\ Arrived' = Arrived /\ Finished' = Finished /\ Running' = Running
      /\ Unplaced' = Unplaced /\ Attempting' = Attempting
      /\ Owing' = Owing /\ GatewayErrors' = GatewayErrors /\ Successes' = Successes
  BY DEF Arrived, Finished, Running, Unplaced, Attempting, Owing, GatewayErrors, Successes
<1>2. \A b \in Backends : AttemptingAt(b)' = AttemptingAt(b)
  BY DEF AttemptingAt
<1>3. \A n \in Nat : Raising(n)' = Raising(n)
  BY DEF Raising
<1>4. \A r \in Requests : RequestSound(tx'[r], trail'[r])
  BY DEF TransactionIInv
<1>5. Places'
  BY <1>2 DEF TransactionIInv, Places
<1>6. Tallies'
  BY <1>1 DEF TransactionIInv, Tallies
<1>7. PeakSound'
  BY <1>3 DEF TransactionIInv, PeakSound
<1>8. QED
  BY <1>4, <1>5, <1>6, <1>7 DEF TransactionIInv

\* The counted sets tell the steps of the selection apart no more than the
\* counters do.
LEMMA SearchKeeps ==
  ASSUME TransactionIInv, NEW r \in Requests,
         \/ Order(r) \/ Pick(r) \/ Shift(r) \/ Place(r) \/ Sorted(r)
         \/ SkipAttempted(r) \/ SkipIneligible(r) \/ SkipFull(r)
  PROVE  TransactionIInv'
<1>1. /\ Shape /\ RequestSound(tx[r], trail[r]) /\ tx[r] \in Tx
      /\ trail[r] \in Seq(Events) /\ Tallies /\ Places /\ PeakSound
      /\ inFlight \in [Backends -> Nat] /\ ScanSound(tx[r])
      /\ \A q \in Requests : RequestSound(tx[q], trail[q])
  BY InvariantParts DEF RequestSound, TransactionIInv
<1>2. PICK s, p : Searches(r, s, p)
  <2>1. CASE Order(r)
    BY <1>1, <2>1, OrderSearches
  <2>2. CASE Pick(r)
    BY <1>1, <2>2, PickSearches
  <2>3. CASE Shift(r)
    BY <1>1, <2>3, ShiftSearches
  <2>4. CASE Place(r)
    BY <1>1, <2>4, PlaceSearches
  <2>5. CASE Sorted(r)
    BY <1>1, <2>5, SortedSearches
  <2>6. CASE SkipAttempted(r)
    BY <1>1, <2>6, SkipAttemptedSearches
  <2>7. CASE SkipIneligible(r)
    BY <1>1, <2>7, SkipIneligibleSearches
  <2>8. CASE SkipFull(r)
    BY <1>1, <2>8, SkipFullSearches
  <2>9. QED
    BY <2>1, <2>2, <2>3, <2>4, <2>5, <2>6, <2>7, <2>8
<1> DEFINE u == Sought(tx[r], s, p)
           f == trail[r]
<1>3. /\ s \in Scans /\ p \in Searching /\ p \in Steps /\ tx[r].pc \in Searching
      /\ tx' = [tx EXCEPT ![r] = u]
      /\ UNCHANGED <<eligible, inFlight, late, trail, metrics>>
      /\ sequence' \in Backends /\ ScanSound(u)
  <2>1. /\ s \in Scans /\ p \in Searching /\ tx[r].pc \in Searching
        /\ tx' = [tx EXCEPT ![r] = u]
        /\ UNCHANGED <<eligible, inFlight, late, trail, metrics>>
        /\ sequence' \in Backends /\ ScanSound(tx'[r])
    BY <1>2 DEF Searches
  <2> HIDE DEF u
  <2>2. tx'[r] = u
    BY <1>1, <2>1 DEF Shape
  <2>3. p \in Steps
    BY <2>1 DEF Searching, Steps
  <2>4. QED
    BY <2>1, <2>2, <2>3
<1>4. u \in Tx /\ u.pc = p
  BY <1>1, <1>3, SoughtFields
<1>5. RequestSound(u, f)
  BY <1>1, <1>3, SoughtSound
<1>6. trail' = [trail EXCEPT ![r] = f]
  BY <1>1, <1>3 DEF Shape
<1>7. f \in Seq(Events)
  BY <1>1
<1> HIDE DEF u, f
<1>8. /\ Shape' /\ \A q \in Requests : RequestSound(tx'[q], trail'[q])
      /\ Turns(r, u)
  BY <1>1, <1>3, <1>4, <1>5, <1>6, <1>7, MovesKeep DEF Turns
<1>9. /\ tx[r].pc \notin {"arriving", "counted", "unreserved", "attempting", "failed",
                          "answering", "answered"}
      /\ u.pc \notin {"arriving", "counted", "unreserved", "attempting", "failed",
                      "answering", "answered"}
  BY <1>3, <1>4 DEF Searching
<1>10. /\ tx'[r] = u /\ \A q \in Requests : q # r => tx'[q] = tx[q]
  BY <1>1, <1>8 DEF Turns, Shape
<1>11. /\ Arrived' = Arrived /\ Finished' = Finished /\ Running' = Running
       /\ Attempting' = Attempting
  BY <1>9, <1>10 DEF Arrived, Finished, Running, Attempting
<1>12. Owing' = Owing /\ GatewayErrors' = GatewayErrors /\ Successes' = Successes
  BY <1>9, <1>10 DEF Owing, GatewayErrors, Successes
<1>13. Unplaced' = Unplaced
  BY <1>3, <1>4, <1>10 DEF Unplaced
<1>14. Places'
  BY <1>3, <1>4, <1>8, <1>9, PlacesStay
<1>15. Tallies'
  BY <1>1, <1>3, <1>11, <1>12, <1>13 DEF Tallies
<1>16. PeakSound'
  <2>1. \A n \in Nat : Raising(n)' = Raising(n)
    BY <1>9, <1>10 DEF Raising
  <2>2. QED
    BY <1>1, <1>3, <2>1 DEF PeakSound
<1>17. QED
  BY <1>8, <1>14, <1>15, <1>16 DEF TransactionIInv

\* The initial states satisfy the invariant.
LEMMA TransactionInit == Init => TransactionIInv
<1> SUFFICES ASSUME Init PROVE TransactionIInv
  OBVIOUS
<1> DEFINE t == [pc |-> "arriving", method |-> None, active |-> 0,
                 scan |-> NoScan, attempt |-> 1, attempted |-> {}, charged |-> {},
                 backend |-> None, response |-> NoResponse, lastFailure |-> None,
                 lastRetryResponse |-> NoResponse, reply |-> NoResponse]
<1>1. /\ sequence = 0 /\ eligible = Backends /\ inFlight = [b \in Backends |-> 0]
      /\ late = {} /\ tx = [r \in Requests |-> t] /\ trail = [r \in Requests |-> <<>>]
      /\ metrics = [c \in Counters |-> 0]
  BY Zenon DEF Init
<1>2. t \in Tx
  BY Nothing DEF Tx, Steps
<1>3. /\ t.pc = "arriving" /\ t.attempt = 1 /\ t.charged = {}
      /\ t.lastRetryResponse = NoResponse
  OBVIOUS
<1> HIDE DEF t
<1>4. /\ 0 \in Backends /\ MaxAttempts \in Nat \ {0} /\ MaxInFlight \in Nat \ {0}
  BY TransactionAssumption DEF Backends
<1>5. << >> \in Seq(Events)
  OBVIOUS
<1>6. Shape
  BY <1>1, <1>2, <1>4, <1>5 DEF Shape
<1>7. RequestSound(t, << >>)
  <2>1. ScanSound(t) /\ AttemptSound(t)
    BY <1>3, <1>4 DEF ScanSound, AttemptSound
  <2>2. TrailSound(t, << >>)
    BY <1>3 DEF TrailSound
  <2>3. ChargesTold(t, << >>)
    BY <1>3 DEF ChargesTold
  <2>4. PICK e : e = << >>
    OBVIOUS
  <2>5. Selected(e) = {} /\ Cardinality(Selected(e)) = 0
    BY <2>4, FS_EmptySet DEF Selected
  <2> HIDE <2>4
  <2>6. SelectionsTold(t, e)
    BY <1>3, <2>5 DEF SelectionsTold
  <2>7. QED
    BY <2>1, <2>2, <2>3, <2>4, <2>6 DEF RequestSound
<1>8. \A r \in Requests : RequestSound(tx[r], trail[r])
  BY <1>1, <1>7
<1>9. \A r \in Requests : tx[r].pc = "arriving"
  BY <1>1, <1>3
<1>10. Cardinality({}) = 0
  BY FS_EmptySet
<1>11. /\ Arrived = {} /\ Finished = {} /\ Running = {} /\ Unplaced = {}
       /\ Attempting = {} /\ Owing = {} /\ GatewayErrors = {} /\ Successes = {}
       /\ \A b \in Backends : AttemptingAt(b) = {}
       /\ \A n \in Nat : Raising(n) = {}
  BY <1>9 DEF Arrived, Finished, Running, Unplaced, Attempting, Owing, GatewayErrors, Successes,
              AttemptingAt, Raising, Searching
<1>12. Places
  <2>1. inFlight \in [Backends -> 0 .. MaxInFlight] /\ \A b \in Backends : inFlight[b] = 0
    BY <1>1, <1>4
  <2>2. QED
    BY <1>10, <1>11, <2>1 DEF Places
<1>13. /\ metrics \in [Counters -> Nat]
       /\ metrics["requests"] = 0 /\ metrics["completed"] = 0 /\ metrics["attempts"] = 0
       /\ metrics["retries"] = 0 /\ metrics["successes"] = 0
       /\ metrics["gatewayErrors"] = 0 /\ metrics["refused"] = 0
       /\ metrics["failed"] = 0 /\ metrics["active"] = 0 /\ metrics["peak"] = 0
  BY <1>1 DEF Counters
<1>14. Tallies
  BY <1>10, <1>11, <1>13 DEF Tallies
<1>15. PeakSound
  BY <1>10, <1>11, <1>13 DEF PeakSound
<1>16. QED
  BY <1>6, <1>8, <1>12, <1>14, <1>15 DEF TransactionIInv

\* Every step keeps the invariant.
LEMMA TransactionInductive == TransactionIInv /\ [Next]_vars => TransactionIInv'
<1> SUFFICES ASSUME TransactionIInv, [Next]_vars PROVE TransactionIInv'
  OBVIOUS
<1>1. Shape
  BY DEF TransactionIInv
<1>2. CASE ChangeEligibility
  <2>1. eligible' \subseteq Backends /\ UNCHANGED <<sequence, inFlight, late, tx, trail, metrics>>
    BY <1>1, <1>2 DEF ChangeEligibility, Shape
  <2>2. Shape'
    BY <1>1, <2>1 DEF Shape
  <2>3. QED
    BY <2>1, <2>2, NothingCounted
<1>3. ASSUME NEW r \in Requests, Deadline(r) PROVE TransactionIInv'
  <2>1. late' \subseteq Requests /\ UNCHANGED <<sequence, eligible, inFlight, tx, trail, metrics>>
    BY <1>1, <1>3 DEF Deadline, Shape
  <2>2. Shape'
    BY <1>1, <2>1 DEF Shape
  <2>3. QED
    BY <2>1, <2>2, NothingCounted
<1>4. ASSUME NEW r \in Requests, CountRequest(r) PROVE TransactionIInv'
  BY <1>4, CountRequestKeeps
<1>5. ASSUME NEW r \in Requests, Step(r) PROVE TransactionIInv'
  <2>1. CASE RecordPeak(r)
    BY <2>1, RecordPeakKeeps
  <2>2. CASE \/ Order(r) \/ Pick(r) \/ Shift(r) \/ Place(r) \/ Sorted(r)
             \/ SkipAttempted(r) \/ SkipIneligible(r) \/ SkipFull(r)
    BY <2>2, SearchKeeps
  <2>3. CASE Reserve(r)
    BY <2>3, ReserveKeeps
  <2>4. CASE NotReserved(r)
    BY <2>4, NotReservedKeeps
  <2>5. CASE AttemptFails(r)
    BY <2>5, AttemptFailsKeeps
  <2>6. CASE AttemptResponds(r)
    BY <2>6, AttemptRespondsKeeps
  <2>7. CASE AnswerUnreserved(r) \/ AnswerFailure(r) \/ AnswerResponse(r)
    BY <2>7, AnswerKeeps
  <2>8. CASE RetryFailure(r) \/ TryAgain(r)
    BY <2>8, RetryKeeps
  <2>9. CASE RetryResponse(r)
    BY <2>9, RetryResponseKeeps
  <2>10. CASE CompleteRequest(r)
    BY <2>10, CompleteRequestKeeps
  <2>11. QED
    BY <1>5, <2>1, <2>2, <2>3, <2>4, <2>5, <2>6, <2>7, <2>8, <2>9, <2>10, Zenon DEF Step
<1>6. CASE UNCHANGED vars
  <2>1. UNCHANGED <<sequence, eligible, inFlight, late, tx, trail, metrics>>
    BY <1>6 DEF vars
  <2>2. Shape'
    BY <1>1, <2>1 DEF Shape
  <2>3. QED
    BY <2>1, <2>2, NothingCounted
<1>7. QED
  BY <1>2, <1>3, <1>4, <1>5, <1>6, Zenon DEF Next

\* The invariant holds throughout.
LEMMA TransactionInvariant == Spec => []TransactionIInv
<1>1. Init => TransactionIInv
  BY TransactionInit
<1>2. TransactionIInv /\ [Next]_vars => TransactionIInv'
  BY TransactionInductive
<1>3. QED
  BY <1>1, <1>2, PTL DEF Spec

-----------------------------------------------------------------------------
(* What follows from it.                                                   *)

\* The invariant implies the types, the places and the full scan.
LEMMA PlacesFollow == TransactionIInv => PlacesInv
<1> SUFFICES ASSUME TransactionIInv PROVE PlacesInv
  OBVIOUS
<1>1. Shape /\ Places /\ Tallies
  BY DEF TransactionIInv
<1>2. \A r \in Requests : tx[r] \in Tx /\ trail[r] \in Seq(Events)
  BY <1>1 DEF Shape
<1>3. TypeOK
  <2>1. \A r \in Requests :
          tx[r] \in [pc : Steps, method : Methods \cup {None}, active : Nat,
                     scan : Scans, attempt : Nat, attempted : SUBSET Backends,
                     charged : SUBSET Backends,
                     backend : Backends \cup {None}, response : Responses,
                     lastFailure : Kinds \cup {None}, lastRetryResponse : Responses,
                     reply : Responses]
    BY <1>2, Zenon DEF Tx
  <2>2. \A r \in Requests :
          trail[r] \in Seq([type : {"started", "selected", "failed", "retry", "completed"},
                            attempt : Nat, backend : Backends \cup {None}])
    BY <1>2, Zenon DEF Events
  <2>3. /\ sequence \in Backends /\ eligible \subseteq Backends /\ late \subseteq Requests
        /\ inFlight \in [Backends -> 0 .. MaxInFlight] /\ metrics \in [Counters -> Nat]
    BY <1>1 DEF Shape, Places, Tallies
  <2>4. QED
    BY <2>1, <2>2, <2>3, Zenon DEF TypeOK
<1>4. PlacesExact
  <2>1. \A b \in Backends :
          AttemptingAt(b) = {r \in Requests : At(r, "attempting") /\ tx[r].backend = b}
    BY DEF AttemptingAt, At
  <2>2. QED
    BY <1>1, <2>1 DEF PlacesExact, Places
<1>5. FullScan
  BY DEF TransactionIInv, RequestSound, ScanSound, FullScan, At
<1>6. QED
  BY <1>3, <1>4, <1>5 DEF PlacesInv

\* The indices of a trail.
LEMMA TrailIndices ==
  ASSUME TransactionIInv, NEW r \in Requests
  PROVE  /\ tx[r] \in Tx /\ trail[r] \in Seq(Events) /\ Len(trail[r]) \in Nat
         /\ RequestSound(tx[r], trail[r])
         /\ \A type : Indices(r, type) =
              {i \in 1 .. Len(trail[r]) : trail[r][i].type = type}
<1>1. /\ tx[r] \in Tx /\ trail[r] \in Seq(Events) /\ RequestSound(tx[r], trail[r])
  BY DEF TransactionIInv, Shape
<1>2. DOMAIN trail[r] = 1 .. Len(trail[r]) /\ Len(trail[r]) \in Nat
  BY <1>1
<1>3. QED
  BY <1>1, <1>2 DEF Indices

\* The invariant implies that attempts are distinct and few.
LEMMA AttemptsFollow == TransactionIInv => AttemptsBounded
<1> SUFFICES ASSUME TransactionIInv, NEW r \in Requests
             PROVE  /\ \A i, j \in Indices(r, "selected") :
                         i # j => trail[r][i].backend # trail[r][j].backend
                    /\ Cardinality(Indices(r, "selected")) <= MaxAttempts
                    /\ tx[r].method = "POST" => Cardinality(Indices(r, "selected")) <= 1
  BY DEF AttemptsBounded
<1>1. Indices(r, "selected") = Selected(trail[r])
  BY TrailIndices DEF Selected
<1>2. AttemptSound(tx[r]) /\ SelectionsTold(tx[r], trail[r])
  BY TrailIndices DEF RequestSound
<1>3. Cardinality(Selected(trail[r])) \in Nat /\ MaxAttempts \in Nat
  <2>1. IsFiniteSet(1 .. Len(trail[r])) /\ Selected(trail[r]) \subseteq 1 .. Len(trail[r])
    BY TrailIndices, FS_Interval DEF Selected
  <2>2. QED
    BY <2>1, FS_Subset, FS_CardinalityType, TransactionAssumption
<1>4. /\ tx[r].attempt \in 1 .. MaxAttempts
      /\ tx[r].method = "POST" => tx[r].attempt = 1
      /\ Cardinality(Selected(trail[r])) <= tx[r].attempt
      /\ \A i, j \in Selected(trail[r]) : i # j => trail[r][i].backend # trail[r][j].backend
  BY <1>2 DEF AttemptSound, SelectionsTold
<1>5. QED
  BY <1>1, <1>3, <1>4

\* The invariant implies what the ledger tells.
LEMMA TrailFollows == TransactionIInv => TrailTells
<1> SUFFICES ASSUME TransactionIInv, NEW r \in Requests
             PROVE  /\ Len(trail[r]) <= 2 + 3 * MaxAttempts
                    /\ \A i \in Indices(r, "started") : i = 1
                    /\ \A i \in Indices(r, "completed") : i = Len(trail[r]) /\ At(r, "answered")
                    /\ \A i \in Indices(r, "retry") : i < Len(trail[r]) =>
                         /\ trail[r][i + 1].attempt = trail[r][i].attempt
                         /\ trail[r][i + 1].type \in {"selected", "failed"}
                    /\ \A b \in tx[r].charged :
                         \/ \E i \in Indices(r, "failed") : trail[r][i].backend = b
                         \/ At(r, "responded") /\ tx[r].backend = b
                         \/ tx[r].pc \in {"answering", "answered"} /\ tx[r].reply.from = b
                    /\ At(r, "answered") =>
                         /\ Cardinality(Indices(r, "completed")) = 1
                         /\ trail[r][Len(trail[r]) - 1].type # "retry"
  BY Zenon DEF TrailTells
<1> DEFINE t == tx[r]
           e == trail[r]
<1>1. /\ t \in Tx /\ Len(e) \in Nat /\ AttemptSound(t) /\ TrailSound(t, e)
      /\ ChargesTold(t, e)
      /\ \A type : Indices(r, type) = {i \in 1 .. Len(e) : e[i].type = type}
  BY TrailIndices DEF RequestSound
<1>2. Len(e) <= 2 + 3 * MaxAttempts
  <2>1. Told(t.pc) \in 0 .. 3 /\ MaxAttempts \in Nat /\ t.attempt \in 1 .. MaxAttempts
    BY <1>1, TransactionAssumption DEF Told, AttemptSound
  <2>2. CASE t.pc \in {"arriving", "counted"}
    <3>1. Len(e) = 0
      BY <1>1, <2>2 DEF TrailSound
    <3>2. QED
      BY <2>1, <3>1
  <2>3. CASE t.pc \notin {"arriving", "counted"}
    <3>1. Len(e) <= 3 * t.attempt - 2 + Told(t.pc)
      BY <1>1, <2>3 DEF TrailSound
    <3>2. QED
      BY <1>1, <2>1, <3>1
  <2>4. QED
    BY <2>2, <2>3
<1>3. \A i \in Indices(r, "started") : i = 1
  BY <1>1 DEF TrailSound
<1>4. \A i \in Indices(r, "completed") : i = Len(e) /\ At(r, "answered")
  BY <1>1 DEF TrailSound, At
<1>5. \A i \in Indices(r, "retry") : i < Len(e) =>
        e[i + 1].attempt = e[i].attempt /\ e[i + 1].type \in {"selected", "failed"}
  BY <1>1 DEF TrailSound
<1>6. \A b \in t.charged :
        \/ \E i \in Indices(r, "failed") : e[i].backend = b
        \/ At(r, "responded") /\ t.backend = b
        \/ t.pc \in {"answering", "answered"} /\ t.reply.from = b
  BY <1>1 DEF ChargesTold, FailureTold, At
<1>7. ASSUME At(r, "answered")
      PROVE  /\ Cardinality(Indices(r, "completed")) = 1
             /\ e[Len(e) - 1].type # "retry"
  <2>1. /\ Len(e) >= 2 /\ e[Len(e)].type = "completed" /\ e[Len(e) - 1].type # "retry"
    BY <1>1, <1>7 DEF TrailSound, At
  <2>2. Len(e) \in Indices(r, "completed")
    BY <1>1, <2>1
  <2>3. Indices(r, "completed") = {Len(e)}
    BY <1>4, <2>2
  <2>4. QED
    BY <2>1, <2>3, FS_Singleton
<1>8. QED
  BY <1>2, <1>3, <1>4, <1>5, <1>6, <1>7

\* The invariant implies that the counters agree.
LEMMA MetricsFollow == TransactionIInv => MetricsReconcile
<1> SUFFICES ASSUME TransactionIInv PROVE MetricsReconcile
  OBVIOUS
<1>1. /\ metrics \in [Counters -> Nat] /\ PeakSound
      /\ metrics["active"] = Cardinality(Running)
      /\ metrics["requests"] = Cardinality(Arrived)
      /\ metrics["completed"] = Cardinality(Finished)
      /\ metrics["attempts"] + metrics["refused"] + Cardinality(Unplaced) =
           metrics["requests"] + metrics["retries"]
      /\ metrics["failed"] + Cardinality(Attempting) <= metrics["attempts"]
      /\ metrics["gatewayErrors"] = Cardinality(GatewayErrors)
      /\ metrics["successes"] = Cardinality(Successes)
      /\ Cardinality(Owing) <=
           metrics["failed"] + metrics["refused"]
  BY DEF TransactionIInv, Tallies
<1>2. \A c \in Counters : metrics[c] \in Nat
  BY <1>1
<1>3. /\ metrics["active"] \in Nat /\ metrics["peak"] \in Nat /\ metrics["attempts"] \in Nat
      /\ metrics["refused"] \in Nat /\ metrics["requests"] \in Nat
      /\ metrics["retries"] \in Nat /\ metrics["failed"] \in Nat
      /\ metrics["gatewayErrors"] \in Nat
  BY <1>2 DEF Counters
<1>4. metrics["active"] <= metrics["peak"] + Cardinality({r \in Requests : At(r, "counted")})
  <2> DEFINE C == {r \in Requests : At(r, "counted")}
             peak == metrics["peak"]
  <2>1. Raising(peak) \subseteq C /\ IsFiniteSet(C)
    <3>1. Raising(peak) \subseteq C /\ C \subseteq Requests
      BY DEF Raising, At
    <3>2. QED
      BY <3>1, FS_Subset, TransactionAssumption
  <2>2. /\ Cardinality(Raising(peak)) \in Nat /\ Cardinality(C) \in Nat
        /\ Cardinality(Raising(peak)) <= Cardinality(C)
    BY <2>1, FS_Subset, FS_CardinalityType
  <2>3. peak \in Nat /\ peak <= peak
    BY <1>3
  <2> HIDE DEF C, peak
  <2>4. metrics["active"] <= peak + Cardinality(Raising(peak))
    BY <1>1, <2>3 DEF PeakSound, peak
  <2>5. metrics["active"] <= peak + Cardinality(C)
    BY <1>3, <2>2, <2>3, <2>4
  <2>6. QED
    BY <2>5 DEF C, peak
<1>5. ASSUME \A r \in Requests : At(r, "arriving") \/ At(r, "answered")
      PROVE  /\ metrics["active"] = 0 /\ metrics["completed"] = metrics["requests"]
             /\ metrics["attempts"] + metrics["refused"] =
                  metrics["requests"] + metrics["retries"]
             /\ metrics["failed"] <= metrics["attempts"]
  <2>1. \A r \in Requests : tx[r].pc = "arriving" \/ tx[r].pc = "answered"
    BY <1>5 DEF At
  <2>2. Running = {} /\ Unplaced = {} /\ Attempting = {} /\ Arrived = Finished
    BY <2>1 DEF Running, Unplaced, Attempting, Arrived, Finished, Searching
  <2>3. Cardinality({}) = 0
    BY FS_EmptySet
  <2>4. QED
    BY <1>1, <1>3, <2>2, <2>3
<1> DEFINE replies == {r \in Requests : At(r, "answered")}
           generated == {r \in replies : Generated(tx[r].reply)}
           reported == {r \in replies : ~ Generated(tx[r].reply) /\ tx[r].reply.error}
<1>6. GatewayErrors = generated \cup reported
  <2>1. \A r \in generated : tx[r].reply.error
    BY DEF TransactionIInv, RequestSound, AttemptSound, At
  <2>2. QED
    BY <2>1 DEF GatewayErrors, At
<1>7. Successes = {r \in replies : tx[r].reply.status \in 200 .. 399}
  BY DEF Successes, At
<1>8. ASSUME \A r \in Requests : At(r, "arriving") \/ At(r, "answered")
      PROVE  generated = Owing
  BY <1>8 DEF Owing, At
<1> HIDE DEF generated, reported
<1>9. QED
  BY <1>1, <1>4, <1>5, <1>6, <1>7, <1>8 DEF MetricsReconcile, PeakCovers, generated, reported

-----------------------------------------------------------------------------
(* The theorems.                                                           *)

\* For every number of requests, backends and places: a place taken by tryReserve
\* is given back once, so that a backend's load is the number of attempts at it
\* and never above its limit, and a request is refused only after every backend
\* was considered, although candidateOrder sorts by loads that change under it.
THEOREM PlacesKept == Spec => []PlacesInv
<1>1. TransactionIInv => PlacesInv
  BY PlacesFollow
<1>2. QED
  BY <1>1, TransactionInvariant, PTL

\* executeProxyRequest sends a request to distinct backends, to MaxAttempts of
\* them at most, and a request that is not a GET to one.
THEOREM AttemptsAreBounded == Spec => []AttemptsBounded
<1>1. TransactionIInv => AttemptsBounded
  BY AttemptsFollow
<1>2. QED
  BY <1>1, TransactionInvariant, PTL

\* The events of a request start and complete once, keep within the length that
\* the ledger's capacity is computed from, announce each retry just before the
\* attempt, and tell every failure that was charged to a backend.
THEOREM TrailIsTold == Spec => []TrailTells
<1>1. TransactionIInv => TrailTells
  BY TrailFollows
<1>2. QED
  BY <1>1, TransactionInvariant, PTL

\* The published peak covers the load, and whenever no request is under way the
\* proxy's counters agree with each other and with the answers: completeRequest
\* counts every answer of the proxy's own as a gateway error, and beside them
\* the relayed answers whose Proxy-Status told of an error.
THEOREM CountersReconcile == Spec => []MetricsReconcile
<1>1. TransactionIInv => MetricsReconcile
  BY MetricsFollow
<1>2. QED
  BY <1>1, TransactionInvariant, PTL

=============================================================================

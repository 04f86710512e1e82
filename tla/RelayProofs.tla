---------------------------- MODULE RelayProofs ----------------------------
(***************************************************************************)
(* Theorems about module Relay, for all messages that peers may send, in   *)
(* every framing and broken off anywhere, and for every limit of the       *)
(* proxy.  The first part is about messages: the text that a peer sends is *)
(* read as its message, and what the proxy passes on of it is read as that *)
(* message again.  The second part is the inductive invariant: how far     *)
(* each exchange is, on the client's connection and on the upstream's.     *)
(***************************************************************************)
EXTENDS MessageProofs

-----------------------------------------------------------------------------
(* What peers send                                                         *)

\* The fields of a peer's message, its header, and the fields that end at the proxy.
PlainHeader(m) == Join(m.fields, m.hops)

\* With the field that frames the body.
PeerHeader(m, mode, length) == With(PlainHeader(m), mode, length, <<>>)

\* The names that connectionNominations and the fixed list remove.
HopNames(m) == hopByHopFieldSet(connectionNominations(PlainHeader(m)))

\* What the proxy replaces in a request.
Replaced == {"Host", "Forwarded", "X-Anvil-Request-ID"}

\* A message that is well formed, one thing at a time.
LEMMA WellIs ==
  ASSUME NEW m, WellFormed(m)
  PROVE  /\ m.fields \in Seq(Fields) /\ m.hops \in Seq(Fields) /\ m.trailers \in Seq(Fields)
              /\ m.body \in Seq(Symbols)
         /\ PlainHeader(m) \in Seq(Fields) /\ Names(PlainHeader(m)) = Names(m.fields) \cup Names(m.hops)
         /\ Len(PlainHeader(m)) + 1 <= MaxHeaderFields /\ Len(m.fields) + 6 <= MaxHeaderFields
         /\ Len(m.trailers) <= MaxTrailerFields /\ Len(m.body) <= MaxBodyBytes /\ Len(m.body) < MaxChunkCount
         /\ Names(PlainHeader(m)) \cap {"Content-Length", "Transfer-Encoding"} = {}
         /\ validateConnectionFields(PlainHeader(m)) /\ ~ Upgrades(PlainHeader(m))
         /\ Names(m.fields) \cap HopNames(m) = {} /\ Names(m.hops) \subseteq HopNames(m)
         /\ Names(m.trailers) \cap (HopNames(m) \cup Replaced) = {} /\ validateTrailers(m.trailers)
<1> DEFINE h == m.fields \o m.hops
<1>1. h = PlainHeader(m)
  BY DEF PlainHeader, Join
<1>2. m.fields \in Seq(Fields) /\ m.hops \in Seq(Fields) /\ m.trailers \in Seq(Fields) /\ m.body \in Seq(Symbols)
  BY DEF WellFormed
<1>3. PlainHeader(m) \in Seq(Fields) /\ Names(PlainHeader(m)) = Names(m.fields) \cup Names(m.hops)
  BY <1>2, JoinIs DEF PlainHeader
<1>4. LET headers == h
          hop == hopByHopFieldSet(connectionNominations(headers))
      IN /\ Len(headers) + 1 <= MaxHeaderFields /\ Len(m.fields) + 6 <= MaxHeaderFields
         /\ Len(m.trailers) <= MaxTrailerFields
         /\ Len(m.body) <= MaxBodyBytes /\ Len(m.body) < MaxChunkCount
         /\ Names(headers) \cap {"Content-Length", "Transfer-Encoding"} = {}
         /\ validateConnectionFields(headers) /\ ~ Upgrades(headers)
         /\ Names(m.fields) \cap hop = {} /\ Names(m.hops) \subseteq hop
         /\ Names(m.trailers) \cap (hop \cup Replaced) = {}
         /\ validateTrailers(m.trailers)
  BY DEF WellFormed, Replaced
<1> HIDE DEF h
<1>5. HopNames(m) = hopByHopFieldSet(connectionNominations(h))
  BY <1>1 DEF HopNames
<1> QED BY <1>1, <1>2, <1>3, <1>4, <1>5

\* A peer's header.
LEMMA PeerHeaderIs ==
  ASSUME NEW m, WellFormed(m), NEW mode \in {"none", "fixed", "chunked"}, NEW length \in 0 .. MaxBodyBytes
  PROVE  LET g == PeerHeader(m, mode, length)
         IN /\ g \in Seq(Fields) /\ Len(g) <= MaxHeaderFields
            /\ FramedBy(g, mode, IF mode = "fixed" THEN length ELSE 0)
            /\ Names(g) = Names(PlainHeader(m)) \cup Names(FieldOf(mode, length))
            /\ \A S : S \cap {"Content-Length", "Transfer-Encoding"} = {} => Named(g, S) = Named(PlainHeader(m), S)
            /\ \A token : HasToken(g, "Connection", token) <=> HasToken(PlainHeader(m), "Connection", token)
<1> DEFINE h == PlainHeader(m)
           f == FieldOf(mode, length)
           e == <<>>
           g == With(h, mode, length, e)
<1>1. h \in Seq(Fields) /\ Len(h) + 1 <= MaxHeaderFields /\ Names(h) \cap {"Content-Length", "Transfer-Encoding"} = {}
  BY WellIs
<1>2. length \in Nat /\ f \in Seq(Fields) /\ Names(f) \subseteq {"Content-Length", "Transfer-Encoding"}
  BY LimitsAssumption, FieldOfIs
<1>3. e \in Seq(Fields) /\ Len(e) = 0 /\ Names(e) = {} /\ ToSet(e) = {}
  BY NamesNone
<1> HIDE DEF h
<1>4. PeerHeader(m, mode, length) = g
  BY DEF PeerHeader, h
<1> HIDE DEF e
<1>5. /\ g \in Seq(Fields) /\ Len(g) <= Len(h) + 1 + Len(e)
      /\ Names(g) = Names(h) \cup Names(f) \cup Names(e)
      /\ ToSet(g) = ToSet(h) \cup ToSet(f) \cup ToSet(e)
      /\ \A S : Named(g, S) = Join(Join(Named(h, S), Named(f, S)), Named(e, S))
  <2>1. h \in Seq(Fields) /\ e \in Seq(Fields) /\ length \in Nat
    BY <1>1, <1>2, <1>3
  <2> QED BY <2>1, WithIs
<1>6. FramedBy(g, mode, IF mode = "fixed" THEN length ELSE 0)
  BY <1>1, <1>3, FramedWith
<1> HIDE DEF g
<1>7. Len(g) <= MaxHeaderFields
  <2>1. Len(g) \in Nat /\ Len(h) \in Nat /\ MaxHeaderFields \in Nat
    BY <1>1, <1>5, LimitsAssumption
  <2> QED BY <1>1, <1>3, <1>5, <2>1
<1>8. ASSUME NEW S, S \cap {"Content-Length", "Transfer-Encoding"} = {} PROVE Named(g, S) = Named(h, S)
  <2>1. Named(f, S) = <<>>
    <3>1. Names(f) \cap S = {}
      BY <1>2, <1>8
    <3> QED BY <1>2, <3>1, NamedAll
  <2>2. Named(e, S) = <<>>
    BY NamedNone DEF e
  <2>3. Named(h, S) \in Seq(Fields)
    BY <1>1, NamedFields
  <2> QED BY <1>5, <2>1, <2>2, <2>3, JoinNone
<1>9. ASSUME NEW token PROVE HasToken(g, "Connection", token) <=> HasToken(h, "Connection", token)
  <2>1. \A x \in ToSet(f) : x.name # "Connection"
    BY <1>2 DEF Names
  <2> QED BY <1>3, <1>5, <2>1 DEF HasToken
<1> QED BY <1>3, <1>4, <1>5, <1>6, <1>7, <1>8, <1>9 DEF h

\* The tokens of Connection and the names of a peer's header.
LEMMA PeerHeaderValid ==
  ASSUME NEW m, WellFormed(m), NEW mode \in {"none", "fixed", "chunked"}, NEW length \in 0 .. MaxBodyBytes
  PROVE  LET g == PeerHeader(m, mode, length)
         IN /\ validateConnectionFields(g) /\ ~ Upgrades(g)
            /\ validateRequestHeaders(g).verdict = validateRequestHeaders(PlainHeader(m)).verdict
            /\ mode = "none" => Names(g) \cap {"Content-Length", "Transfer-Encoding"} = {}
            /\ hopByHopFieldSet(connectionNominations(g)) = HopNames(m)
<1> DEFINE g == PeerHeader(m, mode, length)
           h == PlainHeader(m)
<1>1. /\ Names(g) = Names(h) \cup Names(FieldOf(mode, length))
      /\ \A token : HasToken(g, "Connection", token) <=> HasToken(h, "Connection", token)
  BY PeerHeaderIs
<1>2. \A S : S \cap {"Content-Length", "Transfer-Encoding"} = {} => Named(g, S) = Named(h, S)
  BY PeerHeaderIs
<1>3. Names(FieldOf(mode, length)) \subseteq {"Content-Length", "Transfer-Encoding"}
  BY FieldOfIs, LimitsAssumption
<1>4. validateConnectionFields(h) /\ ~ Upgrades(h) /\ Names(h) \cap {"Content-Length", "Transfer-Encoding"} = {}
  BY WellIs
<1>5. Values(g, "Host") = Values(h, "Host") /\ Values(g, "Connection") = Values(h, "Connection")
  BY <1>2 DEF Values
<1>6. ("Upgrade" \in Names(g) <=> "Upgrade" \in Names(h)) /\ ("Expect" \in Names(g) <=> "Expect" \in Names(h))
  BY <1>1, <1>3
<1>7. mode = "none" => Names(g) \cap {"Content-Length", "Transfer-Encoding"} = {}
  <2>1. mode = "none" => Names(FieldOf(mode, length)) = {}
    BY NamesNone DEF FieldOf
  <2> QED BY <1>1, <1>4, <2>1
<1>8. HopNames(m) = hopByHopFieldSet(connectionNominations(h))
  BY DEF HopNames
<1> HIDE DEF g, h
<1>9. connectionNominations(g) = connectionNominations(h)
  BY <1>5 DEF connectionNominations
<1>10. (validateConnectionFields(g) <=> validateConnectionFields(h)) /\ (Upgrades(g) <=> Upgrades(h))
  BY <1>1, <1>6 DEF validateConnectionFields, Upgrades
<1>11. validateRequestHeaders(g).verdict = validateRequestHeaders(h).verdict
  BY <1>5, <1>6, <1>10 DEF validateRequestHeaders
<1> QED BY <1>4, <1>7, <1>8, <1>9, <1>10, <1>11 DEF g, h

\* A peer frames its message like that.
PeerFraming(w, m, mode) ==
  /\ mode \in {"none", "fixed", "chunked"} /\ w.body \in Seq(Symbols)
  /\ w.head = PeerHeader(m, mode, Len(m.body)) \o <<EmptyLine>>
  /\ mode # "chunked" => w.body = m.body /\ m.trailers = <<>>
  /\ mode = "chunked" => \A g : g.mode = "chunked" => Frames(g, w.body, m.body, m.trailers)

\* A sequence of some is a sequence of more.
LEMMA SeqSub == ASSUME NEW S, NEW T, S \subseteq T, NEW a \in Seq(S) PROVE a \in Seq(T)
OBVIOUS

\* The end of a peer's header.
LEMMA HeadIs ==
  ASSUME NEW m, WellFormed(m), NEW mode \in {"none", "fixed", "chunked"}
  PROVE  m.fields \o m.hops \o FieldOf(mode, Len(m.body)) \o <<EmptyLine>>
           = PeerHeader(m, mode, Len(m.body)) \o <<EmptyLine>>
<1> DEFINE f == FieldOf(mode, Len(m.body))
<1>1. m.fields \in Seq(Fields) /\ m.hops \in Seq(Fields) /\ Len(m.body) \in Nat
  BY WellIs
<1>2. f \in Seq(Fields)
  BY <1>1, FieldOfIs
<1>3. PeerHeader(m, mode, Len(m.body)) = m.fields \o m.hops \o f \o <<>>
  BY DEF PeerHeader, With, PlainHeader, Join
<1> HIDE DEF f
<1>4. m.fields \o m.hops \o f \o <<>> = m.fields \o m.hops \o f
  BY <1>1, <1>2
<1> QED BY <1>3, <1>4 DEF f

\* Chunks and the last one.
LEMMA InChunksIs ==
  ASSUME NEW c \in Seq(Symbols), NEW t \in Seq(Fields)
  PROVE  c \o <<SizeLine(<<0>>)>> \o t \o <<EmptyLine>> = InChunks(c, t)
<1> DEFINE z == SizeLine(<<0>>)
           e == EmptyLine
<1>1. z \in Symbols /\ e \in Symbols /\ t \in Seq(Symbols)
  BY ZeroLine, SymbolKinds, LastChunkIs
<1>2. InChunks(c, t) = c \o (<<z>> \o t \o <<e>>)
  BY DEF InChunks, LastChunk, ZeroSize
<1> HIDE DEF z, e
<1>3. c \o <<z>> \o t \o <<e>> = c \o (<<z>> \o t \o <<e>>)
  BY <1>1
<1> QED BY <1>2, <1>3 DEF z, e

\* Every way to frame a message that is well formed.
LEMMA PeerFrames ==
  ASSUME NEW m, WellFormed(m), NEW w
  PROVE  /\ w \in BareFraming(m) => PeerFraming(w, m, "none")
         /\ w \in FixedFraming(m) => PeerFraming(w, m, "fixed")
         /\ w \in ChunkedFraming(m) => PeerFraming(w, m, "chunked")
<1>1. /\ m.body \in Seq(Symbols) /\ m.trailers \in Seq(Fields) /\ Len(m.trailers) <= MaxTrailerFields
      /\ Len(m.body) <= MaxBodyBytes /\ Len(m.body) < MaxChunkCount /\ validateTrailers(m.trailers)
  BY WellIs
<1> DEFINE fixed == Framed(m, <<Field("Content-Length", <<>>, Len(m.body))>>, m.body)
           bare == Framed(m, <<>>, m.body)
           H(mode) == PeerHeader(m, mode, Len(m.body)) \o <<EmptyLine>>
<1>2. fixed.head = H("fixed") /\ fixed.body = m.body
  <2>1. m.fields \o m.hops \o FieldOf("fixed", Len(m.body)) \o <<EmptyLine>> = H("fixed")
    BY HeadIs
  <2>2. FieldOf("fixed", Len(m.body)) = <<Field("Content-Length", <<>>, Len(m.body))>>
    BY DEF FieldOf
  <2> QED BY <2>1, <2>2 DEF Framed
<1>3. bare.head = H("none") /\ bare.body = m.body
  <2>1. m.fields \o m.hops \o FieldOf("none", Len(m.body)) \o <<EmptyLine>> = H("none")
    BY HeadIs
  <2>2. FieldOf("none", Len(m.body)) = <<>>
    BY DEF FieldOf
  <2> QED BY <2>1, <2>2 DEF Framed
<1>4. ASSUME w \in ChunkedFraming(m) PROVE PeerFraming(w, m, "chunked")
  <2>1. PICK split \in ChunkSplits(m.body) :
          w = Framed(m, <<Field("Transfer-Encoding", <<"chunked">>, 0)>>,
                     Chunks(split) \o <<SizeLine(<<0>>)>> \o m.trailers \o <<EmptyLine>>)
    BY <1>4 DEF ChunkedFraming
  <2>2. split \in Seq(Pieces) /\ FlattenSeq(split) = m.body /\ Len(split) < MaxChunkCount
    BY <1>1, SplitsAre
  <2>3. \A g : g.mode = "chunked" => Frames(g, InChunks(Chunks(split), m.trailers), m.body, m.trailers)
    BY <1>1, <2>2, FramesSplit
  <2>4. InChunks(Chunks(split), m.trailers) \in Seq(Symbols)
    <3> DEFINE g == [mode |-> "chunked"]
    <3>1. g.mode = "chunked"
      OBVIOUS
    <3> HIDE DEF g
    <3> QED BY <2>3, <3>1 DEF Frames
  <2>5. Chunks(split) \in Seq(Symbols)
    <3>1. split \in Seq(Seq(Symbols))
      <4> DEFINE S == Seq(Symbols)
      <4>1. Pieces \subseteq S
        BY DEF Pieces
      <4> HIDE DEF S
      <4>2. split \in Seq(S)
        BY <2>2, <4>1, SeqSub
      <4> QED BY <4>2 DEF S
    <3>2. EmptyLine \in Symbols
      BY SymbolKinds
    <3> DEFINE p == <<EmptyLine>>
    <3>3. p \in Seq(Symbols)
      BY <3>2
    <3> HIDE DEF p
    <3> QED BY <3>1, <3>3, SplitMore
  <2>6. w.body = InChunks(Chunks(split), m.trailers)
    <3> DEFINE c == Chunks(split)
               text == c \o <<SizeLine(<<0>>)>> \o m.trailers \o <<EmptyLine>>
    <3>1. text = InChunks(c, m.trailers)
      BY <1>1, <2>5, InChunksIs
    <3>2. w.body = text
      <4> HIDE DEF text
      <4> QED BY <2>1 DEF Framed, text
    <3> QED BY <3>1, <3>2
  <2>7. w.head = H("chunked")
    <3>1. m.fields \o m.hops \o FieldOf("chunked", Len(m.body)) \o <<EmptyLine>> = H("chunked")
      BY HeadIs
    <3>2. FieldOf("chunked", Len(m.body)) = <<Field("Transfer-Encoding", <<"chunked">>, 0)>>
      BY DEF FieldOf
    <3> QED BY <2>1, <3>1, <3>2 DEF Framed
  <2> QED BY <2>3, <2>4, <2>6, <2>7 DEF PeerFraming
<1>5. ASSUME w \in FixedFraming(m) PROVE PeerFraming(w, m, "fixed")
  <2>1. w = fixed /\ m.trailers = <<>>
    BY <1>5 DEF FixedFraming
  <2> HIDE DEF fixed
  <2> QED BY <1>1, <1>2, <2>1 DEF PeerFraming
<1>6. ASSUME w \in BareFraming(m) PROVE PeerFraming(w, m, "none")
  <2>1. w = bare /\ m.trailers = <<>>
    BY <1>6 DEF BareFraming
  <2> HIDE DEF bare
  <2> QED BY <1>1, <1>3, <2>1 DEF PeerFraming
<1> QED BY <1>4, <1>5, <1>6

\* A message in the order of its parts.
LEMMA WireOf ==
  ASSUME NEW start \in Symbols, NEW h \in Seq(Fields), NEW text \in Seq(Symbols), NEW head, head = h \o <<EmptyLine>>
  PROVE  <<start>> \o head \o text = Wire(start, h, text)
<1> DEFINE e == EmptyLine
<1>1. e \in Symbols /\ h \in Seq(Symbols)
  <2>1. Fields \subseteq Symbols
    BY DEF Symbols
  <2> QED BY <2>1, SymbolKinds
<1>2. head = h \o <<e>> /\ Wire(start, h, text) = <<start>> \o h \o <<e>> \o text
  BY DEF Wire
<1> HIDE DEF e
<1>3. <<start>> \o (h \o <<e>>) \o text = <<start>> \o h \o <<e>> \o text
  BY <1>1
<1> QED BY <1>2, <1>3

\* What readHTTPRequest makes of a request.
Requested ==
  [method : STRING, target : Nat, headers : Seq(Fields), mode : {"none", "fixed", "chunked"},
   body : Seq(Symbols), trailers : Seq(Fields), keepAlive : BOOLEAN]

\* g is the message m, as it is read from a client.
Brings(g, m, target) ==
  /\ g \in Requested /\ g.method = m.method /\ g.target = target
  /\ g.headers = PeerHeader(m, g.mode, Len(m.body)) /\ g.body = m.body /\ g.trailers = m.trailers
  /\ g.mode # "chunked" => g.trailers = <<>>
  /\ g.mode = "none" => g.body = <<>>

\* However a client frames its request, it is read as that request.
THEOREM RequestTextReads ==
  ASSUME NEW m \in Requests, NEW target \in Nat, NEW text \in RequestTexts(m, target)
  PROVE  \E g : ReadsRequest(text, g) /\ Brings(g, m, target)
<1>1. /\ WellFormed(m) /\ m.method \in STRING /\ (m.method # "POST" => m.body = <<>> /\ m.trailers = <<>>)
      /\ validateRequestHeaders(PlainHeader(m)).verdict = "read"
  BY RelayAssumption DEF PlainHeader, Join
<1>2. /\ m.body \in Seq(Symbols) /\ m.trailers \in Seq(Fields) /\ Len(m.body) \in 0 .. MaxBodyBytes
  BY <1>1, WellIs, LimitsAssumption
<1>3. PICK w \in RequestFramings(m) : text = <<RequestLine(m.method, target)>> \o w.head \o w.body
  BY DEF RequestTexts
<1>4. PICK mode : PeerFraming(w, m, mode) /\ (mode = "none" => m.method # "POST")
  <2>1. CASE m.method = "POST"
    <3>1. w \in FixedFraming(m) \/ w \in ChunkedFraming(m)
      BY <1>3, <2>1 DEF RequestFramings
    <3>2. PeerFraming(w, m, "fixed") \/ PeerFraming(w, m, "chunked")
      BY <1>1, <3>1, PeerFrames
    <3> QED BY <3>2
  <2>2. CASE m.method # "POST"
    <3>1. w \in BareFraming(m)
      BY <1>3, <2>2 DEF RequestFramings
    <3> QED BY <1>1, <2>2, <3>1, PeerFrames
  <2> QED BY <2>1, <2>2
<1>5. mode \in {"none", "fixed", "chunked"} /\ w.body \in Seq(Symbols)
  BY <1>4 DEF PeerFraming
<1> DEFINE h == PeerHeader(m, mode, Len(m.body))
           framing == determineBodyFraming(h)
           start == RequestLine(m.method, target)
           g == RequestFrom(m.method, target, h, mode, m.body, m.trailers)
<1>6. start \in Symbols
  BY <1>1 DEF RequestLine, Symbols
<1>7. h \in Seq(Fields) /\ Len(h) <= MaxHeaderFields /\ FramedBy(h, mode, IF mode = "fixed" THEN Len(m.body) ELSE 0)
  BY <1>1, <1>2, <1>5, PeerHeaderIs
<1>8. validateRequestHeaders(h).verdict = "read"
  BY <1>1, <1>2, <1>5, PeerHeaderValid
<1>9. w.head = h \o <<EmptyLine>>
  BY <1>4 DEF PeerFraming
<1> HIDE DEF h, start
<1>10. text = Wire(start, h, w.body)
  BY <1>3, <1>5, <1>6, <1>7, <1>9, WireOf DEF start
<1>11. framing.verdict = "read" /\ framing.mode = mode /\ (mode = "fixed" => framing.length = Len(m.body))
  BY <1>7 DEF FramedBy
<1> HIDE DEF framing
<1>12. mode # "chunked" => w.body = m.body /\ m.trailers = <<>>
  BY <1>4 DEF PeerFraming
<1>13. mode = "none" => m.body = <<>>
  BY <1>1, <1>4
<1>14. Frames(framing, w.body, m.body, m.trailers)
  <2>1. CASE mode = "none"
    <3>1. w.body = <<>> /\ m.body = <<>> /\ m.trailers = <<>>
      BY <1>12, <1>13, <2>1
    <3> QED BY <1>11, <2>1, <3>1, FramesNone
  <2>2. CASE mode = "fixed"
    <3>1. w.body = m.body /\ m.trailers = <<>>
      BY <1>12, <2>2
    <3> QED BY <1>2, <1>11, <2>2, <3>1, FramesFixed
  <2>3. CASE mode = "chunked"
    BY <1>4, <1>11, <2>3 DEF PeerFraming
  <2> QED BY <1>5, <2>1, <2>2, <2>3
<1>15. ReadsRequest(text, g)
  <2>1. framing.verdict = "read" /\ framing.mode = mode
    BY <1>11
  <2>2. ReadsRequest(Wire(RequestLine(m.method, target), h, w.body),
                     RequestFrom(m.method, target, h, determineBodyFraming(h).mode, m.body, m.trailers))
    BY <1>1, <1>5, <1>7, <1>8, <1>14, <2>1, RequestWire DEF framing
  <2> QED BY <1>10, <2>1, <2>2 DEF start, framing
<1>16. g \in Requested
  BY <1>1, <1>2, <1>5, <1>7 DEF Requested, RequestFrom
<1>17. /\ g.method = m.method /\ g.target = target /\ g.headers = h /\ g.mode = mode
       /\ g.body = m.body /\ g.trailers = m.trailers
  BY DEF RequestFrom
<1> HIDE DEF g
<1>18. Brings(g, m, target)
  BY <1>12, <1>13, <1>16, <1>17 DEF Brings, h
<1> QED BY <1>15, <1>18

\* g is the answer m, as it is read from the upstream.
Gives(g, m, method) ==
  /\ g.status = m.status
  /\ \E mode \in {"none", "fixed", "chunked"} : g.headers = PeerHeader(m, mode, Len(m.body))
  /\ g.mode \in {"none", "fixed", "chunked", "close-delimited"}
  /\ IF responseMustNotHaveBody(method, m.status) THEN g.mode = "none" /\ g.body = <<>> /\ g.trailers = <<>>
     ELSE SameBody(g, m) /\ g.mode # "none" /\ (g.mode # "chunked" => g.trailers = <<>>)

\* Interim responses and 204 have no framing.
Befits(mode, status) == Interim(status) \/ status = 204 => mode = "none"

\* A peer's header that a response may have.
LEMMA PeerNotRefused ==
  ASSUME NEW m, WellFormed(m), NEW mode \in {"none", "fixed", "chunked"}, NEW status \in Nat, status # 101,
         Befits(mode, status)
  PROVE  LET h == PeerHeader(m, mode, Len(m.body))
         IN /\ h \in Seq(Fields) /\ Len(h) <= MaxHeaderFields /\ ~ Refuses(status, h)
            /\ FramedBy(h, mode, IF mode = "fixed" THEN Len(m.body) ELSE 0)
<1> DEFINE h == PeerHeader(m, mode, Len(m.body))
<1>1. Len(m.body) \in 0 .. MaxBodyBytes
  BY WellIs, LimitsAssumption
<1>2. h \in Seq(Fields) /\ Len(h) <= MaxHeaderFields /\ FramedBy(h, mode, IF mode = "fixed" THEN Len(m.body) ELSE 0)
  BY <1>1, PeerHeaderIs
<1>3. /\ validateConnectionFields(h) /\ ~ Upgrades(h)
      /\ mode = "none" => Names(h) \cap {"Content-Length", "Transfer-Encoding"} = {}
  BY <1>1, PeerHeaderValid
<1> HIDE DEF h
<1>4. ~ Refuses(status, h)
  BY <1>3 DEF Refuses, validateResponseFramingHeaders, Befits
<1> QED BY <1>2, <1>4 DEF h

\* An answer without a body.
LEMMA PeerBareRead ==
  ASSUME NEW m, WellFormed(m), NEW mode \in {"none", "fixed", "chunked"}, NEW status \in Nat, status # 101,
         Befits(mode, status),
         NEW method, responseMustNotHaveBody(method, status)
  PROVE  LET h == PeerHeader(m, mode, Len(m.body))
         IN ReadsResponse(Wire(StatusLine(status), h, <<>>), method, ResponseFrom(status, h, "none", <<>>, <<>>))
<1> DEFINE h == PeerHeader(m, mode, Len(m.body))
           framing == determineBodyFraming(h)
           empty == <<>>
<1>1. /\ h \in Seq(Fields) /\ Len(h) <= MaxHeaderFields /\ ~ Refuses(status, h)
      /\ FramedBy(h, mode, IF mode = "fixed" THEN Len(m.body) ELSE 0)
  BY PeerNotRefused
<1> HIDE DEF h
<1>2. framing.verdict = "read"
  BY <1>1 DEF FramedBy
<1>3. ModeOf(status, method, framing.mode) = "none"
  BY DEF ModeOf
<1>4. ResponseFraming(status, method, h).mode = "none"
  BY <1>1, <1>3 DEF ResponseFraming
<1>5. empty \in Seq(Symbols) /\ Frames(ResponseFraming(status, method, h), empty, empty, empty)
  BY <1>4, FramesNone
<1> HIDE DEF empty
<1>6. ReadsResponse(Wire(StatusLine(status), h, empty), method,
        ResponseFrom(status, h, ModeOf(status, method, framing.mode), empty, empty))
  BY <1>1, <1>2, <1>5, ResponseWire
<1> QED BY <1>3, <1>6 DEF h, empty

\* An answer with a body that is framed.
LEMMA PeerFullRead ==
  ASSUME NEW m, WellFormed(m), NEW status \in Nat, NEW method, ~ responseMustNotHaveBody(method, status),
         NEW w, NEW mode \in {"fixed", "chunked"}, PeerFraming(w, m, mode)
  PROVE  LET h == PeerHeader(m, mode, Len(m.body))
         IN ReadsResponse(Wire(StatusLine(status), h, w.body), method,
              ResponseFrom(status, h, mode, m.body, m.trailers))
<1> DEFINE h == PeerHeader(m, mode, Len(m.body))
           framing == determineBodyFraming(h)
           rf == ResponseFraming(status, method, h)
<1>0. status # 101 /\ ~ Interim(status) /\ status # 204
  BY DEF responseMustNotHaveBody, Interim
<1>1. /\ h \in Seq(Fields) /\ Len(h) <= MaxHeaderFields /\ ~ Refuses(status, h)
      /\ FramedBy(h, mode, IF mode = "fixed" THEN Len(m.body) ELSE 0)
  <2>1. Befits(mode, status)
    BY <1>0 DEF Befits
  <2>2. mode \in {"none", "fixed", "chunked"}
    OBVIOUS
  <2> QED BY <1>0, <2>1, <2>2, PeerNotRefused
<1>2. m.body \in Seq(Symbols) /\ w.body \in Seq(Symbols)
  BY WellIs DEF PeerFraming
<1> HIDE DEF h
<1>11. framing = [verdict |-> "read", mode |-> mode, length |-> IF mode = "fixed" THEN Len(m.body) ELSE 0]
  BY <1>1 DEF FramedBy
<1> HIDE DEF framing
<1>3. framing.verdict = "read" /\ framing.mode = mode /\ (mode = "fixed" => framing.length = Len(m.body))
  BY <1>11
<1>4. ModeOf(status, method, framing.mode) = mode
  BY <1>3 DEF ModeOf
<1>5. rf = [framing EXCEPT !.mode = mode]
  BY <1>4 DEF ResponseFraming, framing
<1>6. rf.mode = mode /\ (mode = "fixed" => rf.length = Len(m.body))
  <2> HIDE DEF rf
  <2> QED BY <1>3, <1>5, <1>11
<1> HIDE DEF rf
<1>7. Frames(rf, w.body, m.body, m.trailers)
  <2>1. CASE mode = "fixed"
    <3>1. w.body = m.body /\ m.trailers = <<>>
      BY <2>1 DEF PeerFraming
    <3> QED BY <1>2, <1>6, <2>1, <3>1, FramesFixed
  <2>2. CASE mode = "chunked"
    BY <1>6, <2>2 DEF PeerFraming
  <2> QED BY <2>1, <2>2
<1>8. ReadsResponse(Wire(StatusLine(status), h, w.body), method,
                    ResponseFrom(status, h, ModeOf(status, method, determineBodyFraming(h).mode), m.body, m.trailers))
  BY <1>1, <1>2, <1>3, <1>7, ResponseWire DEF rf, framing
<1> QED BY <1>4, <1>8 DEF h, framing

\* An answer with a body that ends with the connection.
LEMMA PeerReadToEnd ==
  ASSUME NEW m, WellFormed(m), NEW status \in Nat, NEW method, ~ responseMustNotHaveBody(method, status),
         m.trailers = <<>>
  PROVE  LET h == PeerHeader(m, "none", Len(m.body))
         IN ReadToEnd(Wire(StatusLine(status), h, m.body), method,
                      ResponseFrom(status, h, "close-delimited", m.body, m.trailers))
<1> DEFINE none == "none"
           h == PeerHeader(m, none, Len(m.body))
           framing == determineBodyFraming(h)
           rf == ResponseFraming(status, method, h)
           start == StatusLine(status)
           text == Wire(start, h, m.body)
<1>0. status # 101 /\ ~ Interim(status) /\ status # 204 /\ none \in {"none", "fixed", "chunked"} /\ none # "fixed"
  BY DEF responseMustNotHaveBody, Interim
<1>1. /\ h \in Seq(Fields) /\ Len(h) <= MaxHeaderFields /\ ~ Refuses(status, h)
      /\ FramedBy(h, none, IF none = "fixed" THEN Len(m.body) ELSE 0)
  <2>1. Befits(none, status)
    BY <1>0 DEF Befits
  <2> HIDE DEF none
  <2> QED BY <1>0, <2>1, PeerNotRefused
<1>2. m.body \in Seq(Symbols) /\ Len(m.body) <= MaxBodyBytes
  BY WellIs
<1>3. start \in Symbols
  BY DEF StatusLine, Symbols
<1>11. framing = [verdict |-> "read", mode |-> none, length |-> IF none = "fixed" THEN Len(m.body) ELSE 0]
  BY <1>1 DEF FramedBy
<1> HIDE DEF h, framing
<1>4. framing.verdict = "read" /\ ModeOf(status, method, framing.mode) = "close-delimited"
  BY <1>11 DEF ModeOf
<1>5. rf.mode = "close-delimited"
  BY <1>4, <1>11 DEF ResponseFraming, framing
<1> HIDE DEF start, rf, none
<1>6. text \in Seq(Symbols) /\ Len(text) = Len(h) + 2 + Len(m.body)
  BY <1>1, <1>2, <1>3, WireIs
<1>7. ASSUME NEW in, in.symbols = text, in.end = "fin"
      PROVE  readHTTPResponse(in, method) = Taken(text,
               ResponseFrom(status, h, "close-delimited", m.body, m.trailers))
  <2> DEFINE empty == <<>>
  <2>1. empty \in Seq(Symbols) /\ Starts(in, text, empty)
    BY <1>6, <1>7 DEF Starts
  <2> HIDE DEF empty
  <2>2. Holds(in, start, h, m.body, empty)
    BY <1>1, <1>2, <1>3, <2>1, WireIs
  <2>3. PICK pre \in Seq(Symbols) : Precedes(in, pre, m.body, empty) /\ Len(pre) = Len(h) + 2
    BY <1>1, <1>2, <1>3, <2>1, <2>2, WireParts
  <2>4. SubSeq(in.symbols, Len(pre) + 1, Len(in.symbols)) = m.body /\ in.symbols \in Seq(Symbols)
    <3>1. in.symbols = pre \o m.body
      BY <1>2, <2>3 DEF Precedes, empty
    <3> QED BY <1>2, <3>1
  <2>5. readCloseDelimitedBody(in, Len(pre) + 1) = Body(m.body, <<>>, Len(in.symbols) + 1)
    <3>1. ~ Len(m.body) > MaxBodyBytes
      <4>1. Len(m.body) \in Nat /\ MaxBodyBytes \in Nat
        BY <1>2, LimitsAssumption
      <4> QED BY <1>2, <4>1
    <3> QED BY <1>7, <2>4, <3>1 DEF readCloseDelimitedBody
  <2>6. readBody(in, Len(pre) + 1, rf) = readCloseDelimitedBody(in, Len(pre) + 1)
    BY <1>5 DEF readBody
  <2>7. readBody(in, Len(h) + 3, rf) = Body(m.body, m.trailers, Len(text) + 1)
    <3>1. Len(h) + 3 = Len(pre) + 1
      <4>1. Len(h) \in Nat
        BY <1>1
      <4> QED BY <2>3, <4>1
    <3> QED BY <1>7, <2>5, <2>6, <3>1
  <2>8. readHTTPResponse(in, method) =
          [verdict |-> "read", next |-> Len(text) + 1,
           message |-> ResponseFrom(status, h, ModeOf(status, method, determineBodyFraming(h).mode), m.body, m.trailers)]
    <3> HIDE DEF text
    <3> QED BY <1>1, <1>2, <1>4, <2>1, <2>2, <2>7, ResponseStands DEF start, rf, framing
  <2> QED BY <1>4, <2>8 DEF Taken, framing
<1> QED BY <1>6, <1>7 DEF ReadToEnd, h, start, none

\* The messages of the upstream.
Contents == [status : Nat, fields : Seq(Fields), hops : Seq(Fields), body : Seq(Symbols), trailers : Seq(Fields)]

\* Without framing the length of the body does not matter.
LEMMA BareHeader ==
  ASSUME NEW m, NEW n, n.fields = m.fields, n.hops = m.hops, NEW a, NEW b
  PROVE  PeerHeader(n, "none", a) = PeerHeader(m, "none", b)
BY DEF PeerHeader, PlainHeader, With, FieldOf

\* A message that is well formed is well formed without its body.
LEMMA WithoutBody ==
  ASSUME NEW m, NEW n, WellFormed(m), n.fields = m.fields, n.hops = m.hops, n.trailers = m.trailers, n.body = <<>>
  PROVE  WellFormed(n)
<1>1. n.body \in Seq(Symbols) /\ Len(n.body) = 0
  OBVIOUS
<1>2. {MaxBodyBytes, MaxChunkCount} \subseteq Nat /\ MaxChunkCount # 0
  BY LimitsAssumption
<1>3. Len(n.body) <= MaxBodyBytes /\ Len(n.body) < MaxChunkCount
  BY <1>1, <1>2
<1> QED BY <1>1, <1>3 DEF WellFormed

\* The ways to frame a message have a header and a body.
LEMMA FramingsAre ==
  ASSUME NEW m, NEW v \in FixedFraming(m) \cup ChunkedFraming(m) \cup BareFraming(m)
  PROVE  [v EXCEPT !.body = <<>>].head = v.head /\ [v EXCEPT !.body = <<>>].body = <<>>
<1>1. \E head, body : v = [head |-> head, body |-> body]
  BY DEF FixedFraming, ChunkedFraming, BareFraming, Framed
<1> QED BY <1>1

\* How an answer is framed.
AnswerFraming(w, m, method, mode) ==
  /\ mode \in {"none", "fixed", "chunked"} /\ Befits(mode, m.status)
  /\ w.head = PeerHeader(m, mode, Len(m.body)) \o <<EmptyLine>>
  /\ IF responseMustNotHaveBody(method, m.status) THEN w.body = <<>> ELSE PeerFraming(w, m, mode)

\* The ways to frame an answer are those.
LEMMA AnswerFrames ==
  ASSUME NEW m \in Contents, WellFormed(m), NEW method, NEW w \in ResponseFramings(method, m)
  PROVE  \E mode : AnswerFraming(w, m, method, mode)
<1> DEFINE framings == FixedFraming(m) \cup ChunkedFraming(m) \cup BareFraming(m)
<1>1. CASE Interim(m.status) \/ m.status = 204
  <2> DEFINE n == [m EXCEPT !.body = <<>>]
  <2>1. n.fields = m.fields /\ n.hops = m.hops /\ n.trailers = m.trailers /\ n.body = <<>>
    BY DEF Contents
  <2>2. w \in BareFraming(n)
    BY <1>1 DEF ResponseFramings
  <2> HIDE DEF n
  <2>3. WellFormed(n)
    BY <2>1, WithoutBody
  <2>4. PeerFraming(w, n, "none")
    BY <2>2, <2>3, PeerFrames
  <2>5. w.head = PeerHeader(n, "none", Len(n.body)) \o <<EmptyLine>> /\ w.body = <<>>
    BY <2>1, <2>4 DEF PeerFraming
  <2>6. PeerHeader(n, "none", Len(n.body)) = PeerHeader(m, "none", Len(m.body))
    BY <2>1, BareHeader
  <2>7. responseMustNotHaveBody(method, m.status) /\ Befits("none", m.status)
    BY <1>1 DEF responseMustNotHaveBody, Befits
  <2> QED BY <2>5, <2>6, <2>7 DEF AnswerFraming
<1>2. ASSUME ~ (Interim(m.status) \/ m.status = 204), NEW v \in framings
      PROVE  \E mode \in {"none", "fixed", "chunked"} : PeerFraming(v, m, mode) /\ Befits(mode, m.status)
  <2>1. PeerFraming(v, m, "none") \/ PeerFraming(v, m, "fixed") \/ PeerFraming(v, m, "chunked")
    BY <1>2, PeerFrames
  <2>2. \A mode : Befits(mode, m.status)
    BY <1>2 DEF Befits
  <2> QED BY <2>1, <2>2
<1>3. CASE ~ (Interim(m.status) \/ m.status = 204) /\ (method = "HEAD" \/ m.status = 304)
  <2>1. PICK v \in framings : w = [v EXCEPT !.body = <<>>]
    BY <1>3 DEF ResponseFramings
  <2>2. w.head = v.head /\ w.body = <<>>
    BY <2>1, FramingsAre
  <2>3. PICK mode \in {"none", "fixed", "chunked"} : PeerFraming(v, m, mode) /\ Befits(mode, m.status)
    BY <1>2, <1>3
  <2>4. responseMustNotHaveBody(method, m.status)
    BY <1>3 DEF responseMustNotHaveBody
  <2>5. v.head = PeerHeader(m, mode, Len(m.body)) \o <<EmptyLine>>
    BY <2>3 DEF PeerFraming
  <2> QED BY <2>2, <2>3, <2>4, <2>5 DEF AnswerFraming
<1>4. CASE ~ (Interim(m.status) \/ m.status = 204) /\ ~ (method = "HEAD" \/ m.status = 304)
  <2>1. w \in framings
    BY <1>4 DEF ResponseFramings
  <2>3. PICK mode \in {"none", "fixed", "chunked"} : PeerFraming(w, m, mode) /\ Befits(mode, m.status)
    BY <1>2, <1>4, <2>1
  <2>4. ~ responseMustNotHaveBody(method, m.status)
    BY <1>4 DEF responseMustNotHaveBody
  <2>5. w.head = PeerHeader(m, mode, Len(m.body)) \o <<EmptyLine>>
    BY <2>3 DEF PeerFraming
  <2> QED BY <2>3, <2>4, <2>5 DEF AnswerFraming
<1> QED BY <1>1, <1>3, <1>4

\* Without framing, and with a body, the end of the connection is the end.
LEMMA BareCloses ==
  ASSUME NEW m, WellFormed(m), NEW method, ~ responseMustNotHaveBody(method, m.status),
         NEW w, w.head = PeerHeader(m, "none", Len(m.body)) \o <<EmptyLine>>
  PROVE  CloseDelimited(method, m, w)
<1> DEFINE h == PeerHeader(m, "none", Len(m.body))
<1>1. h \in Seq(Fields) /\ Names(h) \cap {"Content-Length", "Transfer-Encoding"} = {}
  <2> DEFINE none == "none"
  <2>1. none \in {"none", "fixed", "chunked"} /\ Len(m.body) \in 0 .. MaxBodyBytes
    BY WellIs, LimitsAssumption
  <2>2. none = "none"
    OBVIOUS
  <2> HIDE DEF none
  <2>3. LET g == PeerHeader(m, none, Len(m.body)) IN g \in Seq(Fields)
    BY <2>1, PeerHeaderIs
  <2>4. LET g == PeerHeader(m, none, Len(m.body)) IN Names(g) \cap {"Content-Length", "Transfer-Encoding"} = {}
    BY <2>1, <2>2, PeerHeaderValid
  <2> QED BY <2>2, <2>3, <2>4
<1> HIDE DEF h
<1>2. {f.name : f \in {g \in ToSet(w.head) : g.kind = "field"}} \subseteq Names(h)
  <2>1. w.head = h \o <<EmptyLine>>
    BY DEF h
  <2>2. ToSet(w.head) \subseteq ToSet(h) \cup {EmptyLine}
    <3>1. EmptyLine \in Symbols /\ h \in Seq(Symbols)
      <4>1. Fields \subseteq Symbols
        BY DEF Symbols
      <4> QED BY <1>1, <4>1, SymbolKinds
    <3> DEFINE e == EmptyLine
    <3>2. e \in Symbols
      BY <3>1
    <3> HIDE DEF e
    <3>3. ToSet(h \o <<e>>) \subseteq ToSet(h) \cup {e}
      BY <3>1, <3>2 DEF ToSet
    <3> QED BY <2>1, <3>3 DEF e
  <2>3. EmptyLine.kind # "field"
    BY DEF EmptyLine
  <2> QED BY <2>2, <2>3 DEF Names
<1> QED BY <1>1, <1>2 DEF CloseDelimited

\* However the upstream frames its answer, it is read as that answer.
THEOREM ResponseTextReads ==
  ASSUME NEW m \in Responses \cup {InterimResponse}, NEW method, NEW w \in ResponseFramings(method, m)
  PROVE  \E g : /\ Gives(g, m, method)
                /\ \/ ReadsResponse(<<StatusLine(m.status)>> \o w.head \o w.body, method, g)
                   \/ /\ CloseDelimited(method, m, w)
                      /\ ReadToEnd(<<StatusLine(m.status)>> \o w.head \o w.body, method, g)
<1>1. WellFormed(m) /\ m \in Contents /\ m.status # 101
  <2>1. WellFormed(m)
    BY RelayAssumption
  <2>2. m \in Contents
    BY RelayAssumption DEF Contents
  <2>3. m.status # 101
    <3>1. m \in Responses => ~ Interim(m.status)
      BY RelayAssumption
    <3>2. InterimResponse.status # 101
      BY RelayAssumption
    <3>3. Interim(101)
      BY DEF Interim
    <3>4. CASE m \in Responses
      BY <3>1, <3>3, <3>4
    <3> QED BY <3>2, <3>4
  <2> QED BY <2>1, <2>2, <2>3
<1>2. PICK mode : AnswerFraming(w, m, method, mode)
  BY <1>1, AnswerFrames
<1> DEFINE h == PeerHeader(m, mode, Len(m.body))
           start == StatusLine(m.status)
           text == <<start>> \o w.head \o w.body
           empty == <<>>
<1>3. mode \in {"none", "fixed", "chunked"} /\ w.head = h \o <<EmptyLine>> /\ Befits(mode, m.status)
        /\ m.status \in Nat
  BY <1>1, <1>2 DEF AnswerFraming, Contents
<1>4. start \in Symbols
  BY <1>3 DEF StatusLine, Symbols
<1>5. h \in Seq(Fields)
  <2>1. Len(m.body) \in 0 .. MaxBodyBytes
    BY <1>1, WellIs, LimitsAssumption
  <2> QED BY <1>1, <1>3, <2>1, PeerHeaderIs
<1> HIDE DEF start, h
<1>6. w.body \in Seq(Symbols)
  <2>1. IF responseMustNotHaveBody(method, m.status) THEN w.body = <<>> ELSE PeerFraming(w, m, mode)
    BY <1>2 DEF AnswerFraming
  <2>2. PeerFraming(w, m, mode) => w.body \in Seq(Symbols)
    BY DEF PeerFraming
  <2>3. <<>> \in Seq(Symbols)
    BY TupleIs
  <2> QED BY <2>1, <2>2, <2>3
<1>7. text = Wire(start, h, w.body)
  BY <1>3, <1>4, <1>5, <1>6, WireOf
<1> HIDE DEF text
<1>8. CASE responseMustNotHaveBody(method, m.status)
  <2> DEFINE g == ResponseFrom(m.status, h, "none", <<>>, <<>>)
  <2>1. w.body = <<>>
    BY <1>2, <1>8 DEF AnswerFraming
  <2>2. ReadsResponse(Wire(StatusLine(m.status), PeerHeader(m, mode, Len(m.body)), <<>>), method,
                      ResponseFrom(m.status, PeerHeader(m, mode, Len(m.body)), "none", <<>>, <<>>))
    BY <1>1, <1>3, <1>8, PeerBareRead
  <2>3. ReadsResponse(text, method, g)
    BY <1>7, <2>1, <2>2 DEF start, h
  <2>4. Gives(g, m, method)
    <3>1. /\ g.status = m.status /\ g.headers = h /\ g.mode = "none" /\ g.body = <<>> /\ g.trailers = <<>>
      BY DEF ResponseFrom
    <3> HIDE DEF g
    <3> QED BY <1>3, <1>8, <3>1 DEF Gives, h
  <2> QED BY <2>3, <2>4 DEF text, start
<1>9. CASE ~ responseMustNotHaveBody(method, m.status) /\ mode # "none"
  <2> DEFINE g == ResponseFrom(m.status, h, mode, m.body, m.trailers)
  <2>1. PeerFraming(w, m, mode) /\ mode \in {"fixed", "chunked"}
    BY <1>2, <1>3, <1>9 DEF AnswerFraming
  <2>2. ReadsResponse(Wire(StatusLine(m.status), PeerHeader(m, mode, Len(m.body)), w.body), method,
                      ResponseFrom(m.status, PeerHeader(m, mode, Len(m.body)), mode, m.body, m.trailers))
    BY <1>1, <1>3, <1>9, <2>1, PeerFullRead
  <2>3. ReadsResponse(text, method, g)
    BY <1>7, <2>2 DEF start, h
  <2>4. Gives(g, m, method)
    <3>1. /\ g.status = m.status /\ g.headers = h /\ g.mode = mode /\ g.body = m.body /\ g.trailers = m.trailers
      BY DEF ResponseFrom
    <3>2. mode # "chunked" => m.trailers = <<>>
      BY <2>1 DEF PeerFraming
    <3> HIDE DEF g
    <3> QED BY <1>3, <1>9, <2>1, <3>1, <3>2 DEF Gives, h, SameBody
  <2> QED BY <2>3, <2>4 DEF text, start
<1>10. CASE ~ responseMustNotHaveBody(method, m.status) /\ mode = "none"
  <2> DEFINE g == ResponseFrom(m.status, h, "close-delimited", m.body, m.trailers)
  <2>1. PeerFraming(w, m, mode)
    BY <1>2, <1>10 DEF AnswerFraming
  <2>2. m.trailers = <<>> /\ w.body = m.body
    BY <1>10, <2>1 DEF PeerFraming
  <2>3. ReadToEnd(Wire(StatusLine(m.status), PeerHeader(m, "none", Len(m.body)), m.body), method,
                  ResponseFrom(m.status, PeerHeader(m, "none", Len(m.body)), "close-delimited", m.body, m.trailers))
    BY <1>1, <1>3, <1>10, <2>2, PeerReadToEnd
  <2>4. ReadToEnd(text, method, g)
    BY <1>7, <1>10, <2>2, <2>3 DEF start, h
  <2>5. Gives(g, m, method)
    <3>1. /\ g.status = m.status /\ g.headers = h /\ g.mode = "close-delimited" /\ g.body = m.body
               /\ g.trailers = m.trailers
      BY DEF ResponseFrom
    <3> HIDE DEF g
    <3> QED BY <1>3, <1>10, <2>2, <3>1 DEF Gives, h, SameBody
  <2>6. CloseDelimited(method, m, w)
    BY <1>1, <1>3, <1>10, BareCloses DEF h
  <2> QED BY <2>4, <2>5, <2>6 DEF text, start
<1> QED BY <1>8, <1>9, <1>10

-----------------------------------------------------------------------------
(* What the proxy passes on                                                *)

\* The fields of m that the proxy passes on, but for the ones in X.
Passed(m, X) == Named(m.fields, STRING \ X)

\* The names of fields are strings.
LEMMA NamesAreStrings == ASSUME NEW a \in Seq(Fields) PROVE Names(a) \subseteq STRING
<1>1. ToSet(a) \subseteq Fields
  BY DEF ToSet
<1> QED BY <1>1 DEF Names, Fields

\* The field that frames a body may be left over.
Leftover(k) == k \in Seq(Fields) /\ Names(k) \subseteq {"Content-Length"}

\* What filterHeaderFields leaves is what the message passes on, and maybe its length.
Stripped(h, m, X) ==
  \E k : Leftover(k) /\ filterHeaderFields(h, HopNames(m) \cup X) = Join(Passed(m, X), k)

\* What is left of a peer's header without the fields of its connection.
LEMMA Strips ==
  ASSUME NEW m, WellFormed(m), NEW mode \in {"none", "fixed", "chunked"}, NEW X, X \subseteq Replaced
  PROVE  Stripped(PeerHeader(m, mode, Len(m.body)), m, X)
<1> DEFINE S == STRING \ (HopNames(m) \cup X)
           f == FieldOf(mode, Len(m.body))
           e == <<>>
           k == Named(f, S)
           h == PlainHeader(m)
<1>1. /\ m.fields \in Seq(Fields) /\ m.hops \in Seq(Fields) /\ h \in Seq(Fields)
      /\ Names(m.fields) \cap HopNames(m) = {} /\ Names(m.hops) \subseteq HopNames(m) /\ Len(m.body) \in Nat
  BY WellIs
<1>2. f \in Seq(Fields) /\ Names(f) \subseteq {"Content-Length", "Transfer-Encoding"}
  BY <1>1, FieldOfIs
<1>3. "Transfer-Encoding" \in HopNames(m)
  BY DEF HopNames, hopByHopFieldSet
<1>4. Leftover(k)
  <2>1. k \in Seq(Fields) /\ Names(k) = Names(f) \cap S
    <3> HIDE DEF f
    <3> QED BY <1>2, NamedFields, NamedMembers
  <2> HIDE DEF k
  <2> QED BY <1>2, <1>3, <2>1 DEF Leftover
<1>5. filterHeaderFields(PeerHeader(m, mode, Len(m.body)), HopNames(m) \cup X) =
        Named(PeerHeader(m, mode, Len(m.body)), S)
  BY DEF filterHeaderFields
<1>6. PeerHeader(m, mode, Len(m.body)) = With(h, mode, Len(m.body), e)
  BY DEF PeerHeader
<1>7. e \in Seq(Fields) /\ Named(e, S) = e
  BY NamedNone
<1> HIDE DEF S, e, h
<1>8. Named(With(h, mode, Len(m.body), e), S) = Join(Join(Named(h, S), k), Named(e, S))
  BY <1>1, <1>7, WithIs
<1>9. Named(h, S) = Join(Named(m.fields, S), Named(m.hops, S))
  <2>1. h = Join(m.fields, m.hops)
    BY DEF h, PlainHeader
  <2>2. m.fields \in Seq(Fields) /\ m.hops \in Seq(Fields)
    BY <1>1
  <2>3. \A R : Named(Join(m.fields, m.hops), R) = Join(Named(m.fields, R), Named(m.hops, R))
    BY <2>2, JoinIs
  <2> QED BY <2>1, <2>3
<1>10. Named(m.hops, S) = <<>>
  BY <1>1, NamedAll DEF S
<1>11. Named(m.fields, S) = Passed(m, X)
  <2> DEFINE T == STRING \ X
  <2>1. Names(m.fields) \cap S = Names(m.fields) \cap T
    BY <1>1 DEF S
  <2> HIDE DEF T
  <2>2. Named(m.fields, S) = Named(m.fields, T)
    BY <1>1, <2>1, NamedSame
  <2> QED BY <2>2 DEF Passed, T
<1>12. Passed(m, X) \in Seq(Fields)
  BY <1>1, NamedFields DEF Passed
<1>13. Named(h, S) = Passed(m, X)
  BY <1>9, <1>10, <1>11, <1>12, JoinNone
<1>14. Join(Join(Named(h, S), k), Named(e, S)) = Join(Passed(m, X), k)
  <2>1. Join(Passed(m, X), k) \in Seq(Fields)
    <3>1. k \in Seq(Fields)
      BY <1>4 DEF Leftover
    <3> QED BY <1>12, <3>1, JoinIs
  <2>2. Join(Join(Passed(m, X), k), <<>>) = Join(Passed(m, X), k)
    BY <2>1, JoinNone
  <2> QED BY <1>7, <1>13, <2>2 DEF e
<1> QED BY <1>4, <1>5, <1>6, <1>8, <1>14 DEF Stripped

\* What is passed on.
LEMMA PassedIs ==
  ASSUME NEW m, WellFormed(m), NEW X
  PROVE  /\ Passed(m, X) \in Seq(Fields) /\ Len(Passed(m, X)) <= Len(m.fields) /\ Len(m.fields) \in Nat
         /\ Names(Passed(m, X)) \subseteq STRING \ X /\ Names(Passed(m, X)) \subseteq Names(m.fields)
         /\ Names(Passed(m, X)) \cap (Additions \cup {"Upgrade"}) = {}
         /\ \A R : Named(Passed(m, X), R) = Named(m.fields, R \ X)
<1>1. /\ m.fields \in Seq(Fields) /\ Names(m.fields) \cap HopNames(m) = {}
      /\ Names(m.fields) \cap {"Content-Length", "Transfer-Encoding"} = {}
  BY WellIs
<1>2. {"Transfer-Encoding", "Trailer", "Connection", "Upgrade"} \subseteq HopNames(m)
  BY DEF HopNames, hopByHopFieldSet
<1> DEFINE S == STRING \ X
<1>3. Names(Named(m.fields, S)) = Names(m.fields) \cap S
  BY <1>1, NamedMembers
<1>4. Named(m.fields, S) \in Seq(Fields) /\ Len(Named(m.fields, S)) <= Len(m.fields)
  BY <1>1, NamedFields, NamedLength
<1>5. ASSUME NEW R PROVE Named(Named(m.fields, S), R) = Named(m.fields, R \ X)
  <2>1. Named(Named(m.fields, S), R) = Named(m.fields, S \cap R)
    BY <1>1, NamedTwice
  <2>2. Names(m.fields) \cap (S \cap R) = Names(m.fields) \cap (R \ X)
    BY <1>1, NamesAreStrings
  <2> DEFINE A == S \cap R
             B == R \ X
  <2> HIDE DEF A, B
  <2>3. Named(m.fields, A) = Named(m.fields, B)
    BY <1>1, <2>2, NamedSame DEF A, B
  <2> QED BY <2>1, <2>3 DEF A, B
<1>6. Passed(m, X) = Named(m.fields, S)
  BY DEF Passed
<1> DEFINE P == Named(m.fields, S)
<1>7. Names(P) \subseteq STRING \ X /\ Names(P) \subseteq Names(m.fields)
  BY <1>3
<1>8. Names(P) \cap (Additions \cup {"Upgrade"}) = {}
  BY <1>1, <1>2, <1>7 DEF Additions
<1>9. Len(m.fields) \in Nat
  BY <1>1
<1> HIDE DEF S
<1> HIDE DEF P
<1>10. /\ P \in Seq(Fields) /\ Len(P) <= Len(m.fields) /\ P = Passed(m, X)
       /\ \A R : Named(P, R) = Named(m.fields, R \ X)
  BY <1>4, <1>5, <1>6 DEF P
<1> QED BY <1>7, <1>8, <1>9, <1>10

\* What the writer keeps of a header that the proxy has completed.
LEMMA WriterKeeps ==
  ASSUME NEW m, WellFormed(m), NEW X, NEW k, Leftover(k),
         NEW x \in Seq(Fields), Names(x) \cap (Additions \cup {"Upgrade"}) = {}
  PROVE  /\ withoutFramingHeaders(Join(Join(Passed(m, X), k), x)) = Join(Passed(m, X), x)
         /\ Join(Passed(m, X), x) \in Seq(Fields) /\ Len(Join(Passed(m, X), x)) <= Len(m.fields) + Len(x)
         /\ Names(Join(Passed(m, X), x)) = Names(Passed(m, X)) \cup Names(x)
         /\ Names(Join(Passed(m, X), x)) \cap (Additions \cup {"Upgrade"}) = {}
         /\ Join(Join(Passed(m, X), k), x) \in Seq(Fields)
         /\ Names(Join(Join(Passed(m, X), k), x)) \cap {"Connection", "Upgrade"} = {}
         /\ \A R : Named(Join(Passed(m, X), x), R) = Join(Named(m.fields, R \ X), Named(x, R))
         /\ ToSet(x) \subseteq ToSet(Join(Passed(m, X), x))
         /\ \A R : "Content-Length" \notin R => Named(Join(Join(Passed(m, X), k), x), R) =
              Named(Join(Passed(m, X), x), R)
         /\ Names(Join(Join(Passed(m, X), k), x)) \subseteq Names(Join(Passed(m, X), x)) \cup {"Content-Length"}
<1> DEFINE p == Passed(m, X)
           pk == Join(p, k)
           all == Join(pk, x)
           out == Join(p, x)
<1>1. /\ p \in Seq(Fields) /\ Len(p) <= Len(m.fields) /\ Len(m.fields) \in Nat
      /\ Names(p) \cap (Additions \cup {"Upgrade"}) = {}
      /\ \A R : Named(p, R) = Named(m.fields, R \ X)
  BY PassedIs
<1>2. k \in Seq(Fields) /\ Names(k) \subseteq {"Content-Length"}
  BY DEF Leftover
<1> HIDE DEF p
<1>3. /\ pk \in Seq(Fields) /\ Names(pk) = Names(p) \cup Names(k)
      /\ \A R : Named(pk, R) = Join(Named(p, R), Named(k, R))
  BY <1>1, <1>2, JoinIs
<1> HIDE DEF pk
<1>4. /\ all \in Seq(Fields) /\ Names(all) = Names(pk) \cup Names(x)
      /\ \A R : Named(all, R) = Join(Named(pk, R), Named(x, R))
  BY <1>3, JoinIs
<1>5. /\ out \in Seq(Fields) /\ Len(out) = Len(p) + Len(x) /\ Names(out) = Names(p) \cup Names(x)
      /\ ToSet(out) = ToSet(p) \cup ToSet(x)
      /\ \A R : Named(out, R) = Join(Named(p, R), Named(x, R))
  BY <1>1, JoinIs
<1> HIDE DEF all, out
<1>6. Len(out) <= Len(m.fields) + Len(x)
  <2>1. Len(p) \in Nat /\ Len(x) \in Nat
    BY <1>1
  <2> QED BY <1>1, <1>5, <2>1
<1>7. ASSUME NEW R, "Content-Length" \notin R PROVE Named(all, R) = Named(out, R)
  <2>1. Named(k, R) = <<>>
    BY <1>2, <1>7, NamedAll
  <2>2. Named(p, R) \in Seq(Fields)
    BY <1>1, NamedFields
  <2>3. Named(pk, R) = Named(p, R)
    BY <1>3, <2>1, <2>2, JoinNone
  <2> QED BY <1>4, <1>5, <2>3
<1>8. withoutFramingHeaders(all) = out
  <2> DEFINE S == STRING \ {"Content-Length", "Transfer-Encoding", "Trailer"}
  <2>1. Named(all, S) = Named(out, S)
    BY <1>7
  <2>2. Names(out) \subseteq S
    BY <1>1, <1>5, NamesAreStrings DEF Additions
  <2> HIDE DEF S
  <2>3. Named(out, S) = out
    BY <1>5, <2>2, NamedAll
  <2> QED BY <2>1, <2>3 DEF withoutFramingHeaders, S
<1>9. Names(all) \cap {"Connection", "Upgrade"} = {}
  BY <1>1, <1>2, <1>3, <1>4 DEF Additions
<1>10. \A R : Named(out, R) = Join(Named(m.fields, R \ X), Named(x, R))
  BY <1>1, <1>5
<1>11. Names(out) \cap (Additions \cup {"Upgrade"}) = {}
  BY <1>1, <1>5
<1>12. Names(all) \subseteq Names(out) \cup {"Content-Length"}
  BY <1>2, <1>3, <1>4, <1>5
<1> QED BY <1>4, <1>5, <1>6, <1>7, <1>8, <1>9, <1>10, <1>11, <1>12 DEF p, pk, all, out

\* The fields that the proxy adds to a request.
HostField == Field("Host", <<"upstream">>, 0)

\* The proxy's mark.
ViaField == Field("Via", <<"anvil">>, 0)

\* Who asked.
ForwardedField == Field("Forwarded", <<"client">>, 0)

\* In the order in which buildUpstreamRequest adds them.
UpstreamFields == <<HostField, ViaField, IdField, ForwardedField>>

\* A field of the proxy's own.
LEMMA OwnField ==
  ASSUME NEW name \in STRING, NEW token \in STRING
  PROVE  Field(name, <<token>>, 0) \in Fields /\ Field(name, <<token>>, 0).name = name
<1> DEFINE tokens == <<token>>
           zero == 0
<1>1. tokens \in Seq(STRING)
  BY TupleIs
<1>3. zero \in Int
  OBVIOUS
<1> HIDE DEF tokens, zero
<1>2. Field(name, tokens, zero) \in Fields /\ Field(name, tokens, zero).name = name
  BY <1>1, <1>3, FieldIs
<1> QED BY <1>2 DEF tokens, zero

\* They are fields, with those names.
LEMMA UpstreamFieldIs ==
  /\ {HostField, ViaField, IdField, ForwardedField} \subseteq Fields
  /\ HostField.name = "Host" /\ ViaField.name = "Via" /\ IdField.name = "X-Anvil-Request-ID"
  /\ ForwardedField.name = "Forwarded"
<1>1. HostField \in Fields /\ HostField.name = "Host"
  BY OwnField, StringAssumption DEF HostField
<1>2. ViaField \in Fields /\ ViaField.name = "Via"
  BY OwnField, StringAssumption DEF ViaField
<1>3. ForwardedField \in Fields /\ ForwardedField.name = "Forwarded"
  BY OwnField, StringAssumption DEF ForwardedField
<1> QED BY <1>1, <1>2, <1>3, OwnFieldsAre

\* Two in a row.
LEMMA Pairs ==
  ASSUME NEW S, NEW a \in S, NEW b \in S, NEW p, NEW q, p = <<a>>, q = <<b>>
  PROVE  p \o q = <<a, b>>
<1>1. p \in Seq(S) /\ q \in Seq(S) /\ Len(p) = 1 /\ Len(q) = 1 /\ p[1] = a /\ q[1] = b
  OBVIOUS
<1>2. p \o q \in Seq(S)
  BY <1>1
<1>5. Len(p \o q) = 2
  BY <1>1
<1>3. (p \o q)[1] = a /\ (p \o q)[2] = b
  BY <1>1
<1> DEFINE x == p \o q
<1>6. x \in Seq(S) /\ Len(x) = 2 /\ x[1] = a /\ x[2] = b
  BY <1>2, <1>3, <1>5
<1> HIDE DEF x
<1>4. x = <<a, b>>
  BY <1>6
<1> QED BY <1>4 DEF x

\* Three.
LEMMA Triples ==
  ASSUME NEW S, NEW a \in S, NEW b \in S, NEW c \in S, NEW p, NEW q, p = <<a>>, q = <<b, c>>
  PROVE  p \o q = <<a, b, c>>
<1>1. p \in Seq(S) /\ q \in Seq(S) /\ Len(p) = 1 /\ Len(q) = 2 /\ p[1] = a /\ q[1] = b /\ q[2] = c
  OBVIOUS
<1>2. p \o q \in Seq(S)
  BY <1>1
<1>5. Len(p \o q) = 3
  BY <1>1
<1>3. (p \o q)[1] = a /\ (p \o q)[2] = b /\ (p \o q)[3] = c
  BY <1>1
<1> DEFINE x == p \o q
<1>6. x \in Seq(S) /\ Len(x) = 3 /\ x[1] = a /\ x[2] = b /\ x[3] = c
  BY <1>2, <1>3, <1>5
<1> HIDE DEF x
<1>4. x = <<a, b, c>>
  BY <1>6
<1> QED BY <1>4 DEF x

\* Four.
LEMMA Quadruples ==
  ASSUME NEW S, NEW a \in S, NEW b \in S, NEW c \in S, NEW d \in S, NEW p, NEW q, p = <<a, b>>, q = <<c, d>>
  PROVE  p \o q = <<a, b, c, d>>
<1>1. p \in Seq(S) /\ q \in Seq(S) /\ Len(p) = 2 /\ Len(q) = 2 /\ p[1] = a /\ p[2] = b /\ q[1] = c /\ q[2] = d
  OBVIOUS
<1>2. p \o q \in Seq(S)
  BY <1>1
<1>5. Len(p \o q) = 4
  BY <1>1
<1>3. (p \o q)[1] = a /\ (p \o q)[2] = b /\ (p \o q)[3] = c /\ (p \o q)[4] = d
  BY <1>1
<1> DEFINE x == p \o q
<1>6. x \in Seq(S) /\ Len(x) = 4 /\ x[1] = a /\ x[2] = b /\ x[3] = c /\ x[4] = d
  BY <1>2, <1>3, <1>5
<1> HIDE DEF x
<1>4. x = <<a, b, c, d>>
  BY <1>6
<1> QED BY <1>4 DEF x

\* Fields in a row are joined.
LEMMA Fours ==
  ASSUME NEW a \in Fields, NEW b \in Fields, NEW c \in Fields, NEW d \in Fields
  PROVE  /\ <<a, b, c, d>> = Join(Join(<<a>>, <<b>>), Join(<<c>>, <<d>>))
         /\ <<b, c, d>> = Join(<<b>>, Join(<<c>>, <<d>>))
<1>1. <<a>> \o <<b>> = <<a, b>> /\ <<c>> \o <<d>> = <<c, d>>
  BY Pairs
<1>2. <<a, b>> \o <<c, d>> = <<a, b, c, d>>
  BY Quadruples
<1>3. <<b>> \o <<c, d>> = <<b, c, d>>
  BY Triples
<1> QED BY <1>1, <1>2, <1>3 DEF Join

\* The fields with one name, of four.
LEMMA UpstreamFieldsAre ==
  /\ UpstreamFields \in Seq(Fields) /\ Len(UpstreamFields) = 4
  /\ Names(UpstreamFields) = {"Host", "Via", "X-Anvil-Request-ID", "Forwarded"}
  /\ Named(UpstreamFields, {"Host"}) = <<HostField>>
  /\ Len(Named(UpstreamFields, {"X-Anvil-Request-ID"})) = 1
<1> DEFINE a == <<HostField>>
           b == <<ViaField>>
           c == <<IdField>>
           d == <<ForwardedField>>
           ab == Join(a, b)
           cd == Join(c, d)
           all == Join(ab, cd)
<1>1. UpstreamFields = all
  <2> DEFINE w == HostField
             x == ViaField
             y == IdField
             z == ForwardedField
  <2>1. w \in Fields /\ x \in Fields /\ y \in Fields /\ z \in Fields
    BY UpstreamFieldIs
  <2> HIDE DEF w, x, y, z
  <2>2. <<w, x, y, z>> = Join(Join(<<w>>, <<x>>), Join(<<y>>, <<z>>))
    <3>1. <<w>> \o <<x>> = <<w, x>> /\ <<y>> \o <<z>> = <<y, z>>
      BY <2>1, Pairs
    <3>2. <<w, x>> \o <<y, z>> = <<w, x, y, z>>
      BY <2>1, Quadruples
    <3> QED BY <3>1, <3>2 DEF Join
  <2> QED BY <2>2 DEF w, x, y, z, UpstreamFields
<1>2. /\ {a, b, c, d} \subseteq Seq(Fields) /\ Len(a) = 1 /\ Len(b) = 1 /\ Len(c) = 1 /\ Len(d) = 1
      /\ Names(a) = {"Host"} /\ Names(b) = {"Via"} /\ Names(c) = {"X-Anvil-Request-ID"} /\ Names(d) = {"Forwarded"}
  <2>1. \A x \in Fields : <<x>> \in Seq(Fields) /\ Len(<<x>>) = 1 /\ Names(<<x>>) = {x.name}
    BY NamesNone
  <2> QED BY <2>1, UpstreamFieldIs
<1>3. ab \in Seq(Fields) /\ Len(ab) = 2 /\ Names(ab) = {"Host", "Via"}
        /\ \A R : Named(ab, R) = Join(Named(a, R), Named(b, R))
  <2> HIDE DEF a, b
  <2>1. /\ ab \in Seq(Fields) /\ Len(ab) = Len(a) + Len(b) /\ Names(ab) = Names(a) \cup Names(b)
        /\ \A R : Named(ab, R) = Join(Named(a, R), Named(b, R))
    BY <1>2, JoinIs
  <2> QED BY <1>2, <2>1
<1>4. cd \in Seq(Fields) /\ Len(cd) = 2 /\ Names(cd) = {"X-Anvil-Request-ID", "Forwarded"}
        /\ \A R : Named(cd, R) = Join(Named(c, R), Named(d, R))
  <2> HIDE DEF c, d
  <2>1. /\ cd \in Seq(Fields) /\ Len(cd) = Len(c) + Len(d) /\ Names(cd) = Names(c) \cup Names(d)
        /\ \A R : Named(cd, R) = Join(Named(c, R), Named(d, R))
    BY <1>2, JoinIs
  <2> QED BY <1>2, <2>1
<1> HIDE DEF a, b, c, d
<1>5. \A R : {Named(a, R), Named(b, R), Named(c, R), Named(d, R)} \subseteq Seq(Fields)
  BY <1>2, NamedFields
<1>6. \A R : /\ Names(a) \subseteq R => Named(a, R) = a
             /\ Names(a) \cap R = {} => Named(a, R) = <<>>
             /\ Names(b) \cap R = {} => Named(b, R) = <<>>
             /\ Names(c) \subseteq R => Named(c, R) = c
             /\ Names(d) \cap R = {} => Named(d, R) = <<>>
             /\ Names(c) \cap R = {} => Named(c, R) = <<>>
  BY <1>2, NamedAll
<1> HIDE DEF ab, cd
<1>7. /\ all \in Seq(Fields) /\ Len(all) = 4 /\ Names(all) = Names(ab) \cup Names(cd)
      /\ \A R : Named(all, R) = Join(Named(ab, R), Named(cd, R))
  <2>1. /\ all \in Seq(Fields) /\ Len(all) = Len(ab) + Len(cd) /\ Names(all) = Names(ab) \cup Names(cd)
        /\ \A R : Named(all, R) = Join(Named(ab, R), Named(cd, R))
    BY <1>3, <1>4, JoinIs
  <2> HIDE DEF all
  <2> QED BY <1>3, <1>4, <2>1
<1> HIDE DEF all
<1>8. <<>> \in Seq(Fields) /\ Join(<<>>, <<>>) = <<>>
  <2> DEFINE e == <<>>
  <2>1. e \in Seq(Fields)
    OBVIOUS
  <2> HIDE DEF e
  <2>2. Join(e, <<>>) = e
    BY <2>1, JoinNone
  <2> QED BY <2>1, <2>2 DEF e
<1>9. Named(all, {"Host"}) = a
  <2>1. Named(a, {"Host"}) = a /\ Named(b, {"Host"}) = <<>> /\ Named(c, {"Host"}) = <<>> /\ Named(d, {"Host"}) = <<>>
    BY <1>2, <1>6
  <2>2. Named(ab, {"Host"}) = a /\ Named(cd, {"Host"}) = <<>>
    BY <1>2, <1>3, <1>4, <1>8, <2>1, JoinNone
  <2> QED BY <1>2, <1>7, <2>2, JoinNone
<1>10. Named(all, {"X-Anvil-Request-ID"}) = c
  <2> DEFINE R == {"X-Anvil-Request-ID"}
  <2>1. Named(a, R) = <<>> /\ Named(b, R) = <<>> /\ Named(c, R) = c /\ Named(d, R) = <<>>
    BY <1>2, <1>6
  <2> HIDE DEF R
  <2>2. Named(ab, R) = <<>> /\ Named(cd, R) = c
    BY <1>2, <1>3, <1>4, <1>8, <2>1, JoinNone
  <2> QED BY <1>2, <1>7, <2>2, JoinNone DEF R
<1>11. Names(all) = {"Host", "Via", "X-Anvil-Request-ID", "Forwarded"}
  BY <1>3, <1>4, <1>7
<1> QED BY <1>1, <1>2, <1>7, <1>9, <1>10, <1>11 DEF a

\* The message that the proxy makes of a request that it has read.
Rebuilt(r, m, mode, target, k) ==
  /\ Leftover(k) /\ r.headers = Join(Join(Passed(m, Replaced), k), UpstreamFields)
  /\ r.method = m.method /\ r.target = target /\ r.mode = mode /\ mode \in {"none", "fixed", "chunked"}
  /\ SameBody(r, m) /\ (mode # "chunked" => m.trailers = <<>>) /\ (mode = "none" => m.body = <<>>)

\* buildUpstreamRequest passes on the method, the target, the body and the fields
\* that are not of the connection, and adds its own.
LEMMA Rebuilds ==
  ASSUME NEW m, WellFormed(m), NEW target, NEW g, Brings(g, m, target)
  PROVE  \E k : Rebuilt(buildUpstreamRequest(g), m, g.mode, target, k)
<1> DEFINE r == buildUpstreamRequest(g)
           remove == hopByHopFieldSet(connectionNominations(g.headers)) \cup Replaced
<1>1. /\ g \in Requested /\ g.method = m.method /\ g.target = target
      /\ g.headers = PeerHeader(m, g.mode, Len(m.body)) /\ g.body = m.body /\ g.trailers = m.trailers
      /\ (g.mode # "chunked" => g.trailers = <<>>) /\ (g.mode = "none" => g.body = <<>>)
  BY DEF Brings
<1>2. g.mode \in {"none", "fixed", "chunked"}
  BY <1>1 DEF Requested
<1>3. /\ r.headers = filterHeaderFields(g.headers, remove) \o UpstreamFields
      /\ r.trailers = filterHeaderFields(g.trailers, remove)
      /\ r.mode = relayedBodyMode(g.mode) /\ r.method = g.method /\ r.target = g.target /\ r.body = g.body
  <2>1. remove = hopByHopFieldSet(connectionNominations(g.headers)) \cup {"Host", "Forwarded", "X-Anvil-Request-ID"}
    BY DEF Replaced
  <2> HIDE DEF remove
  <2>2. r = [g EXCEPT !.headers = filterHeaderFields(g.headers, remove) \o UpstreamFields,
                      !.trailers = filterHeaderFields(g.trailers, remove),
                      !.mode = relayedBodyMode(g.mode), !.keepAlive = TRUE]
    BY <2>1 DEF buildUpstreamRequest, UpstreamFields, HostField, ViaField, IdField, ForwardedField
  <2> HIDE DEF r
  <2> QED BY <1>1, <2>2 DEF Requested
<1> HIDE DEF r
<1>4. hopByHopFieldSet(connectionNominations(g.headers)) = HopNames(m)
  <2>1. Len(m.body) \in 0 .. MaxBodyBytes
    BY WellIs, LimitsAssumption
  <2> QED BY <1>1, <1>2, <2>1, PeerHeaderValid
<1>5. remove = HopNames(m) \cup Replaced
  BY <1>4
<1> HIDE DEF remove
<1>6. PICK k : Leftover(k) /\ filterHeaderFields(g.headers, remove) = Join(Passed(m, Replaced), k)
  <2> DEFINE X == Replaced
             mode == g.mode
  <2>1. X \subseteq Replaced /\ mode \in {"none", "fixed", "chunked"}
    BY <1>2
  <2> HIDE DEF X, mode
  <2>2. Stripped(PeerHeader(m, mode, Len(m.body)), m, X)
    BY <2>1, Strips
  <2> QED BY <1>1, <1>5, <2>2 DEF X, mode, Stripped
<1>7. r.headers = Join(Join(Passed(m, Replaced), k), UpstreamFields)
  BY <1>3, <1>6 DEF Join
<1>8. r.trailers = m.trailers
  <2> DEFINE S == STRING \ remove
  <2>1. m.trailers \in Seq(Fields) /\ Names(m.trailers) \cap (HopNames(m) \cup Replaced) = {}
    BY WellIs
  <2>2. Names(m.trailers) \subseteq S
    BY <1>5, <2>1, NamesAreStrings
  <2>3. filterHeaderFields(g.trailers, remove) = Named(m.trailers, S)
    BY <1>1 DEF filterHeaderFields
  <2> HIDE DEF S
  <2> QED BY <1>3, <2>1, <2>2, <2>3, NamedAll
<1>9. r.mode = g.mode
  BY <1>2, <1>3 DEF relayedBodyMode
<1> QED BY <1>1, <1>2, <1>3, <1>6, <1>7, <1>8, <1>9 DEF Rebuilt, SameBody, r

\* h is the message m, as it is read by the upstream.
HearsMessage(h, m, target) ==
  /\ h.target = target /\ h.method = m.method /\ SameBody(h, m)
  /\ EndToEnd(h.headers) = EndToEnd(m.fields)
  /\ Values(h.headers, "Host") = <<HostField>>
  /\ Len(Values(h.headers, "X-Anvil-Request-ID")) = 1

\* A header that a request may have.
LEMMA ValidRequest ==
  ASSUME NEW x, Values(x, "Host") = <<HostField>>,
           validateConnectionFields(x), ~ Upgrades(x), "Expect" \notin Names(x)
  PROVE  validateRequestHeaders(x).verdict = "read"
<1>1. Len(Values(x, "Host")) = 1
  OBVIOUS
<1> QED BY <1>1 DEF validateRequestHeaders

\* The header that the writer is given, and the one that it keeps.
RelayedHeader(m) == Join(Passed(m, Replaced), UpstreamFields)

\* It fits, names the upstream as its only host, and keeps what is end to end.
LEMMA RelayedHeaderIs ==
  ASSUME NEW m \in Requests
  PROVE  LET h == RelayedHeader(m)
         IN /\ WellFormed(m) /\ h \in Seq(Fields) /\ Len(h) + 2 <= MaxHeaderFields
            /\ Names(h) \cap (Additions \cup {"Upgrade", "Expect"}) = {}
            /\ Named(h, {"Host"}) = <<HostField>>
            /\ Len(Named(h, {"X-Anvil-Request-ID"})) = 1
            /\ EndToEnd(h) = EndToEnd(m.fields)
<1> DEFINE h == RelayedHeader(m)
           p == Passed(m, Replaced)
           R == Replaced
<1>1. WellFormed(m) /\ validateRequestHeaders(PlainHeader(m)).verdict = "read"
  BY RelayAssumption DEF PlainHeader, Join
<1>2. /\ UpstreamFields \in Seq(Fields) /\ Len(UpstreamFields) = 4
      /\ Names(UpstreamFields) = {"Host", "Via", "X-Anvil-Request-ID", "Forwarded"}
      /\ Named(UpstreamFields, {"Host"}) = <<HostField>>
      /\ Len(Named(UpstreamFields, {"X-Anvil-Request-ID"})) = 1
  BY UpstreamFieldsAre
<1>3. /\ Names(m.fields) \subseteq Names(PlainHeader(m)) /\ Len(m.fields) + 6 <= MaxHeaderFields
           /\ m.fields \in Seq(Fields)
  BY <1>1, WellIs
<1>4. "Expect" \notin Names(m.fields)
  <2>1. "Expect" \notin Names(PlainHeader(m))
    BY <1>1 DEF validateRequestHeaders, Error
  <2> QED BY <1>3, <2>1
<1>5. /\ p \in Seq(Fields) /\ Len(p) <= Len(m.fields) /\ Len(m.fields) \in Nat /\ Names(p) \subseteq Names(m.fields)
      /\ Names(p) \cap (Additions \cup {"Upgrade"}) = {} /\ Names(p) \subseteq STRING \ R
  BY <1>1, PassedIs
<1>6. \A S : Named(p, S) = Named(m.fields, S \ R)
  BY <1>1, PassedIs
<1>7. /\ h \in Seq(Fields) /\ Len(h) = Len(p) + Len(UpstreamFields) /\ Names(h) = Names(p) \cup Names(UpstreamFields)
      /\ \A S : Named(h, S) = Join(Named(p, S), Named(UpstreamFields, S))
  BY <1>2, <1>5, JoinIs DEF RelayedHeader
<1> HIDE DEF h, p
<1>8. Len(h) + 2 <= MaxHeaderFields
  <2>1. Len(p) \in Nat /\ Len(h) \in Nat /\ MaxHeaderFields \in Nat
    BY <1>5, <1>7, LimitsAssumption
  <2> QED BY <1>2, <1>3, <1>5, <1>7, <2>1
<1>9. Names(h) \cap (Additions \cup {"Upgrade", "Expect"}) = {}
  BY <1>2, <1>4, <1>5, <1>7 DEF Additions
<1>10. ASSUME NEW S, S \subseteq Replaced PROVE Named(h, S) = Named(UpstreamFields, S)
  <2>1. Named(p, S) = <<>>
    <3>1. Names(p) \cap S = {}
      BY <1>5, <1>10
    <3> QED BY <1>5, <3>1, NamedAll
  <2>2. Named(UpstreamFields, S) \in Seq(Fields)
    BY <1>2, NamedFields
  <2> QED BY <1>7, <2>1, <2>2, JoinNone
<1>11. Named(h, {"Host"}) = <<HostField>> /\ Len(Named(h, {"X-Anvil-Request-ID"})) = 1
  BY <1>2, <1>10 DEF Replaced
<1>12. EndToEnd(h) = EndToEnd(m.fields)
  <2> DEFINE S == STRING \ {"Content-Length", "Transfer-Encoding", "Trailer", "Connection", "Host", "Via",
                            "Forwarded", "X-Anvil-Request-ID", "Proxy-Status"}
  <2>1. Names(UpstreamFields) \cap S = {} /\ S \ R = S
    BY <1>2 DEF Replaced
  <2>2. EndToEnd(h) = Named(h, S) /\ EndToEnd(m.fields) = Named(m.fields, S)
    BY DEF EndToEnd
  <2> HIDE DEF S
  <2>3. Named(UpstreamFields, S) = <<>>
    BY <1>2, <2>1, NamedAll
  <2>4. Named(p, S) = Named(m.fields, S) /\ Named(p, S) \in Seq(Fields)
    <3>1. Named(p, S) = Named(m.fields, S \ R)
      BY <1>6
    <3>2. Named(p, S) \in Seq(Fields)
      BY <1>5, NamedFields
    <3> QED BY <2>1, <3>1, <3>2
  <2> QED BY <1>7, <2>2, <2>3, <2>4, JoinNone
<1> QED BY <1>1, <1>7, <1>8, <1>9, <1>11, <1>12 DEF h

\* The writer refuses no request that the proxy has completed.
LEMMA RelayWritten ==
  ASSUME NEW m \in Requests, NEW target, NEW r, NEW mode, NEW k, Rebuilt(r, m, mode, target, k)
  PROVE  \E d \in Seq(Fields) :
           /\ Len(d) <= 1 /\ Names(d) \subseteq {"Trailer"}
           /\ writeHTTPRequest(r) =
                [verdict |-> "written",
                 symbols |-> Wire(RequestLine(m.method, target), With(RelayedHeader(m), mode, Len(m.body), d),
                                  writeMessageBody(mode, m.body, m.trailers))]
<1> DEFINE h == RelayedHeader(m)
           x == UpstreamFields
<1>1. /\ WellFormed(m) /\ h \in Seq(Fields) /\ Len(h) + 2 <= MaxHeaderFields
      /\ Names(h) \cap (Additions \cup {"Upgrade", "Expect"}) = {}
      /\ Named(h, {"Host"}) = <<HostField>>
  BY RelayedHeaderIs
<1>2. /\ Leftover(k) /\ r.headers = Join(Join(Passed(m, Replaced), k), x)
      /\ r.method = m.method /\ r.target = target /\ r.mode = mode /\ mode \in {"none", "fixed", "chunked"}
      /\ r.body = m.body /\ r.trailers = m.trailers /\ (mode = "none" => m.body = <<>>)
  BY DEF Rebuilt, SameBody
<1>3. x \in Seq(Fields) /\ Names(x) \cap (Additions \cup {"Upgrade"}) = {}
  BY UpstreamFieldsAre DEF Additions
<1>4. m.body \in Seq(Symbols) /\ m.trailers \in Seq(Fields) /\ validateTrailers(m.trailers)
  BY <1>1, WellIs
<1>5. /\ withoutFramingHeaders(r.headers) = h /\ r.headers \in Seq(Fields)
      /\ Names(r.headers) \cap {"Connection", "Upgrade"} = {}
      /\ Named(r.headers, {"Host"}) = Named(h, {"Host"})
      /\ Names(r.headers) \subseteq Names(h) \cup {"Content-Length"}
  <2> DEFINE X == Replaced
             all == Join(Join(Passed(m, X), k), x)
             out == Join(Passed(m, X), x)
  <2> HIDE DEF X, x
  <2>1. /\ withoutFramingHeaders(all) = out /\ all \in Seq(Fields)
        /\ Names(all) \cap {"Connection", "Upgrade"} = {}
        /\ \A R : "Content-Length" \notin R => Named(all, R) = Named(out, R)
        /\ Names(all) \subseteq Names(out) \cup {"Content-Length"}
    BY <1>1, <1>2, <1>3, WriterKeeps
  <2>2. all = r.headers /\ out = h
    BY <1>2 DEF X, RelayedHeader, x
  <2> HIDE DEF all, out
  <2> QED BY <2>1, <2>2
<1>6. validateRequestHeaders(r.headers).verdict = "read"
  <2>1. \A token : ~ HasToken(r.headers, "Connection", token)
    BY <1>5 DEF HasToken, Names
  <2>2. validateConnectionFields(r.headers) /\ ~ Upgrades(r.headers)
    BY <1>5, <2>1 DEF validateConnectionFields, Upgrades
  <2>3. "Expect" \notin Names(r.headers)
    BY <1>1, <1>5
  <2>4. Values(r.headers, "Host") = <<HostField>>
    BY <1>1, <1>5 DEF Values
  <2> QED BY <2>2, <2>3, <2>4, ValidRequest
<1> HIDE DEF h
<1>7. PICK d \in Seq(Fields) : Len(d) <= 1 /\ Names(d) \subseteq {"Trailer"}
        /\ Declaring(h, mode, m.body, m.trailers, d)
  BY <1>1, <1>2, <1>4, Declares
<1>8. writeHTTPRequest(r) =
        Written(RequestLine(r.method, r.target),
          declareFraming(withoutFramingHeaders(r.headers), mode, r.body, r.trailers),
                writeMessageBody(mode, r.body, r.trailers))
  <2>1. (IF r.mode = "none" /\ r.body # <<>> THEN "fixed" ELSE r.mode) = mode
    BY <1>2
  <2>2. mode # "close-delimited" /\ validateTrailers(r.trailers)
    BY <1>2, <1>4
  <2> QED BY <1>6, <2>1, <2>2 DEF writeHTTPRequest
<1>9. declareFraming(h, mode, m.body, m.trailers) = With(h, mode, Len(m.body), d)
  BY <1>7 DEF Declaring
<1>10. writeHTTPRequest(r) =
         Written(RequestLine(m.method, target), With(h, mode, Len(m.body), d),
           writeMessageBody(mode, m.body, m.trailers))
  BY <1>2, <1>5, <1>8, <1>9
<1> QED BY <1>7, <1>10 DEF Written, Wire, h

\* What the proxy passes on is read as the client's request.
THEOREM Relays ==
  ASSUME NEW m \in Requests, NEW target \in Nat, NEW g, Brings(g, m, target)
  PROVE  /\ writeHTTPRequest(buildUpstreamRequest(g)).verdict = "written"
         /\ \E h : /\ ReadsRequest(writeHTTPRequest(buildUpstreamRequest(g)).symbols, h)
                   /\ HearsMessage(h, m, target)
<1> DEFINE r == buildUpstreamRequest(g)
           mode == g.mode
           b == RelayedHeader(m)
           n == Len(m.body)
           text == writeMessageBody(mode, m.body, m.trailers)
           start == RequestLine(m.method, target)
<1>1. /\ WellFormed(m) /\ b \in Seq(Fields) /\ Len(b) + 2 <= MaxHeaderFields
      /\ Names(b) \cap (Additions \cup {"Upgrade", "Expect"}) = {}
      /\ Named(b, {"Host"}) = <<HostField>>
      /\ Len(Named(b, {"X-Anvil-Request-ID"})) = 1 /\ EndToEnd(b) = EndToEnd(m.fields)
  BY RelayedHeaderIs
<1>2. PICK k : Rebuilt(r, m, mode, target, k)
  BY <1>1, Rebuilds
<1> HIDE DEF r, mode
<1>3. PICK d \in Seq(Fields) :
        /\ Len(d) <= 1 /\ Names(d) \subseteq {"Trailer"}
        /\ writeHTTPRequest(r) = [verdict |-> "written", symbols |-> Wire(start, With(b, mode, n, d), text)]
  BY <1>2, RelayWritten
<1>4. mode \in {"none", "fixed", "chunked"} /\ (mode # "chunked" => m.trailers = <<>>)
        /\ (mode = "none" => m.body = <<>>)
  BY <1>2 DEF Rebuilt
<1>5. /\ m.body \in Seq(Symbols) /\ m.trailers \in Seq(Fields) /\ Len(m.trailers) <= MaxTrailerFields
      /\ Len(m.body) <= MaxBodyBytes /\ Len(m.body) < MaxChunkCount /\ validateTrailers(m.trailers)
           /\ n \in 0 .. MaxBodyBytes
  BY <1>1, WellIs, LimitsAssumption
<1>6. m.method \in STRING
  BY RelayAssumption
<1> DEFINE h == With(b, mode, n, d)
<1> HIDE DEF b
<1>7. HeaderFor(h, b, mode, n)
  <2> DEFINE c == <<>>
  <2>1. c \in Closings /\ Join(b, c) = b
    BY <1>1, JoinNone DEF Closings
  <2>2. Names(b) \cap (Additions \cup {"Upgrade"}) = {}
    BY <1>1
  <2> HIDE DEF c
  <2>3. HeaderFor(With(Join(b, c), mode, n, d), b, mode, n)
    BY <1>1, <1>3, <1>4, <1>5, <2>1, <2>2, HeaderIs
  <2> QED BY <2>1, <2>3
<1>8. Len(h) <= MaxHeaderFields
  <2>1. n \in Nat
    BY <1>5
  <2>2. h \in Seq(Fields) /\ Len(h) <= Len(b) + 1 + Len(d)
    <3> HIDE DEF n
    <3> QED BY <1>1, <2>1, WithIs
  <2>3. Len(b) \in Nat /\ Len(d) \in Nat /\ Len(h) \in Nat /\ MaxHeaderFields \in Nat
    BY <1>1, <2>2, LimitsAssumption
  <2> HIDE DEF h
  <2> QED BY <1>1, <1>3, <2>2, <2>3
<1> HIDE DEF h, n
<1>9. /\ h \in Seq(Fields) /\ FramedBy(h, mode, IF mode = "fixed" THEN n ELSE 0)
      /\ validateConnectionFields(h) /\ ~ Upgrades(h) /\ Names(h) \subseteq Names(b) \cup Additions
  BY <1>7 DEF HeaderFor
<1>10. \A S : S \cap Additions = {} => Named(h, S) = Named(b, S)
  BY <1>7 DEF HeaderFor
<1>11. Values(h, "Host") = <<HostField>> /\ Len(Values(h, "X-Anvil-Request-ID")) = 1
  BY <1>1, <1>10 DEF Values, Additions
<1>12. validateRequestHeaders(h).verdict = "read"
  <2>1. "Expect" \notin Names(h)
    BY <1>1, <1>9 DEF Additions
  <2> QED BY <1>9, <1>11, <2>1, ValidRequest
<1> DEFINE framing == determineBodyFraming(h)
<1>13. framing.verdict = "read" /\ framing.mode = mode /\ (mode = "fixed" => framing.length = n)
  BY <1>9 DEF FramedBy
<1>14. Frames(framing, text, m.body, m.trailers)
  <2> HIDE DEF framing
  <2> QED BY <1>4, <1>5, <1>13, BodyWritten DEF n
<1>15. text \in Seq(Symbols)
  BY <1>14 DEF Frames
<1> DEFINE f == RequestFrom(m.method, target, h, mode, m.body, m.trailers)
<1>16. ReadsRequest(Wire(start, h, text), f)
  <2> HIDE DEF text
  <2>1. ReadsRequest(Wire(RequestLine(m.method, target), h, text),
                     RequestFrom(m.method, target, h, determineBodyFraming(h).mode, m.body, m.trailers))
    BY <1>6, <1>8, <1>9, <1>12, <1>13, <1>14, <1>15, RequestWire
  <2> QED BY <1>13, <2>1
<1>17. EndToEnd(h) = EndToEnd(m.fields)
  <2>1. EndToEnd(h) = EndToEnd(b)
    BY <1>7, EndToEndSame
  <2> QED BY <1>1, <2>1
<1>18. HearsMessage(f, m, target)
  <2>1. f.method = m.method /\ f.target = target /\ f.headers = h /\ f.body = m.body /\ f.trailers = m.trailers
    BY DEF RequestFrom
  <2> HIDE DEF f
  <2> QED BY <1>11, <1>17, <2>1 DEF HearsMessage, SameBody
<1>19. writeHTTPRequest(r).verdict = "written" /\ writeHTTPRequest(r).symbols = Wire(start, h, text)
  BY <1>3 DEF h
<1> QED BY <1>16, <1>18, <1>19 DEF r

\* The fields that the proxy adds to a response.
StatusField == Field("Proxy-Status", <<"received-status">>, 0)

\* In the order in which sanitizeUpstreamResponse adds them.
ServerFields == <<ViaField, IdField, StatusField>>

\* They are three fields, with these names, and say that the answer was received.
LEMMA ServerFieldsAre ==
  /\ ServerFields \in Seq(Fields) /\ Len(ServerFields) = 3 /\ StatusField \in ToSet(ServerFields)
  /\ Names(ServerFields) = {"Via", "X-Anvil-Request-ID", "Proxy-Status"}
  /\ HasToken(ServerFields, "Proxy-Status", "received-status")
<1>1. StatusField \in Fields /\ StatusField.name = "Proxy-Status"
  BY OwnField, StringAssumption DEF StatusField
<1>2. ToSet(StatusField.tokens) = {"received-status"}
  <2>1. StatusField.tokens = <<"received-status">>
    BY DEF StatusField, Field
  <2> QED BY <2>1, NamesNone
<1> DEFINE x == ViaField
           y == IdField
           z == StatusField
           p == <<x>>
           q == <<y>>
           r == <<z>>
<1>3. /\ x \in Fields /\ y \in Fields /\ z \in Fields
      /\ x.name = "Via" /\ y.name = "X-Anvil-Request-ID" /\ z.name = "Proxy-Status"
  BY <1>1, UpstreamFieldIs
<1> HIDE DEF x, y, z
<1>4. <<x, y, z>> = Join(p, Join(q, r))
  BY <1>3, Fours
<1>5. /\ {p, q, r} \subseteq Seq(Fields) /\ Len(p) = 1 /\ Len(q) = 1 /\ Len(r) = 1
      /\ Names(p) = {x.name} /\ Names(q) = {y.name} /\ Names(r) = {z.name} /\ ToSet(r) = {z}
  <2>1. \A f \in Fields : <<f>> \in Seq(Fields) /\ Len(<<f>>) = 1 /\ Names(<<f>>) = {f.name} /\ ToSet(<<f>>) = {f}
    BY NamesNone
  <2> QED BY <1>3, <2>1
<1> HIDE DEF p, q, r
<1> DEFINE qr == Join(q, r)
<1>6. qr \in Seq(Fields) /\ Len(qr) = 2 /\ Names(qr) = {y.name, z.name} /\ z \in ToSet(qr)
  <2>1. qr \in Seq(Fields) /\ Len(qr) = Len(q) + Len(r) /\ Names(qr) = Names(q) \cup Names(r)
          /\ ToSet(qr) = ToSet(q) \cup ToSet(r)
    BY <1>5, JoinIs
  <2> HIDE DEF qr
  <2> QED BY <1>5, <2>1
<1> HIDE DEF qr
<1> DEFINE pqr == Join(p, qr)
<1>7. pqr \in Seq(Fields) /\ Len(pqr) = 3 /\ Names(pqr) = {x.name, y.name, z.name} /\ z \in ToSet(pqr)
  <2>1. pqr \in Seq(Fields) /\ Len(pqr) = Len(p) + Len(qr) /\ Names(pqr) = Names(p) \cup Names(qr)
          /\ ToSet(pqr) = ToSet(p) \cup ToSet(qr)
    BY <1>5, <1>6, JoinIs
  <2> HIDE DEF pqr
  <2> QED BY <1>5, <1>6, <2>1
<1>8. ServerFields = pqr
  BY <1>4 DEF ServerFields, x, y, z, pqr, qr
<1> HIDE DEF pqr
<1>9. HasToken(ServerFields, "Proxy-Status", "received-status")
  <2>1. z \in ToSet(ServerFields) /\ z.name = "Proxy-Status" /\ "received-status" \in ToSet(z.tokens)
    BY <1>2, <1>3, <1>7, <1>8 DEF z
  <2> QED BY <2>1 DEF HasToken
<1> QED BY <1>3, <1>7, <1>8, <1>9 DEF z

\* The header that the proxy gives an answer: F is what is left of the upstream's.
LEMMA ServerHeader ==
  ASSUME NEW F \in Seq(Fields), "X-Anvil-Request-ID" \notin Names(F)
  PROVE  Append(replaceHeader(Append(F, ViaField), "X-Anvil-Request-ID", "id"), StatusField) = Join(F, ServerFields)
<1> DEFINE S == STRING \ {"X-Anvil-Request-ID"}
           x == ViaField
           y == IdField
           z == StatusField
           p == <<x>>
           q == <<y>>
           r == <<z>>
<1>1. x \in Fields /\ x.name = "Via" /\ "Via" \in S /\ y \in Fields /\ z \in Fields
  BY OwnField, UpstreamFieldIs, StringAssumption DEF StatusField
<1>9. ServerFields = <<x, y, z>>
  BY DEF ServerFields
<1>10. replaceHeader(Append(F, x), "X-Anvil-Request-ID", "id") = Append(Named(Append(F, x), S), y)
  BY DEF replaceHeader, filterHeaderFields, IdField
<1> HIDE DEF x, y, z
<1>2. Append(F, x) = Join(F, p) /\ p \in Seq(Fields) /\ q \in Seq(Fields) /\ r \in Seq(Fields)
        /\ Join(F, p) \in Seq(Fields)
  BY <1>1 DEF Join
<1>3. Named(Append(F, x), S) = Join(F, p)
  <2>1. Names(F) \subseteq S
    BY NamesAreStrings
  <2>2. Named(p, S) = p
    <3>1. Names(p) = {x.name}
      BY NamesNone
    <3>2. Names(p) \subseteq S
      BY <1>1, <3>1
    <3> HIDE DEF p, S
    <3> QED BY <1>2, <3>2, NamedAll
  <2> HIDE DEF p, S
  <2>3. Named(F, S) = F
    BY <2>1, NamedAll
  <2>4. Named(Join(F, p), S) = Join(Named(F, S), Named(p, S))
    BY <1>2, JoinIs
  <2> QED BY <1>2, <2>2, <2>3, <2>4
<1> DEFINE Fp == Join(F, p)
<1>4. Fp \in Seq(Fields)
  BY <1>2
<1> HIDE DEF Fp
<1>5. Append(Fp, y) = Join(Fp, q) /\ Join(Fp, q) \in Seq(Fields)
  BY <1>1, <1>4 DEF Join
<1> DEFINE Fpq == Join(Fp, q)
<1>6. Fpq \in Seq(Fields)
  BY <1>5
<1> HIDE DEF Fpq
<1>7. Append(Fpq, z) = Join(Fpq, r)
  BY <1>1, <1>6 DEF Join
<1>8. Join(Fpq, r) = Join(F, Join(p, Join(q, r)))
  <2> HIDE DEF p, q, r
  <2>1. Join(Fpq, r) = Join(Fp, Join(q, r))
    BY <1>2, <1>4, JoinThree DEF Fpq
  <2>2. Join(q, r) \in Seq(Fields)
    BY <1>2, JoinIs
  <2>3. Join(Fp, Join(q, r)) = Join(F, Join(p, Join(q, r)))
    <3> DEFINE qr == Join(q, r)
    <3>1. qr \in Seq(Fields)
      BY <2>2
    <3> HIDE DEF qr
    <3>2. Join(Join(F, p), qr) = Join(F, Join(p, qr))
      BY <1>2, <3>1, JoinThree
    <3> QED BY <3>2 DEF Fp, qr
  <2> QED BY <2>1, <2>3
<1>11. <<x, y, z>> = Join(p, Join(q, r))
  BY <1>1, Fours
<1> QED BY <1>3, <1>5, <1>7, <1>8, <1>9, <1>10, <1>11 DEF Fp, Fpq, x, z

\* The names that the proxy drops from an answer.
Renewed == {"X-Anvil-Request-ID"}

\* The response that the proxy makes of an answer that it has read.
Renews(r, m, method, k) ==
  /\ Leftover(k) /\ \E close : r = [status |-> m.status, headers |-> Join(Join(Passed(m, Renewed), k), ServerFields),
                                    mode |-> r.mode, body |-> r.body, trailers |-> r.trailers, close |-> close]
  /\ r.mode \in {"none", "fixed", "chunked"}
  /\ IF responseMustNotHaveBody(method, m.status) THEN r.mode = "none" /\ r.body = <<>> /\ r.trailers = <<>>
     ELSE SameBody(r, m) /\ r.mode # "none" /\ (r.mode # "chunked" => r.trailers = <<>>)

\* sanitizeUpstreamResponse passes on the status, the body and the fields that
\* are not of the connection, and adds its own.
LEMMA Sanitizes ==
  ASSUME NEW m, WellFormed(m), NEW method, NEW g, Gives(g, m, method)
  PROVE  (\E k : Renews(sanitizeUpstreamResponse(g), m, method, k)) /\ sanitizeUpstreamResponse(g).close = FALSE
<1> DEFINE r == sanitizeUpstreamResponse(g)
           remove == hopByHopFieldSet(connectionNominations(g.headers)) \cup {"X-Anvil-Request-ID"}
           F == filterHeaderFields(g.headers, remove)
<1>1. PICK mode \in {"none", "fixed", "chunked"} : g.headers = PeerHeader(m, mode, Len(m.body))
  BY DEF Gives
<1>2. /\ g.status = m.status /\ g.mode \in {"none", "fixed", "chunked", "close-delimited"}
      /\ IF responseMustNotHaveBody(method, m.status) THEN g.mode = "none" /\ g.body = <<>> /\ g.trailers = <<>>
         ELSE SameBody(g, m) /\ g.mode # "none" /\ (g.mode # "chunked" => g.trailers = <<>>)
  BY DEF Gives
<1>3. hopByHopFieldSet(connectionNominations(g.headers)) = HopNames(m)
  <2>1. Len(m.body) \in 0 .. MaxBodyBytes
    BY WellIs, LimitsAssumption
  <2> QED BY <1>1, <2>1, PeerHeaderValid
<1>4. remove = HopNames(m) \cup Renewed /\ Renewed \subseteq Replaced
  BY <1>3 DEF Renewed, Replaced
<1>5. r = [status |-> g.status,
           headers |-> Append(replaceHeader(Append(F, ViaField), "X-Anvil-Request-ID", "id"), StatusField),
           mode |-> relayedBodyMode(g.mode), body |-> g.body,
           trailers |-> filterHeaderFields(g.trailers, remove), close |-> FALSE]
  BY DEF sanitizeUpstreamResponse, ViaField, StatusField
<1> HIDE DEF remove, r
<1>6. PICK k : Leftover(k) /\ F = Join(Passed(m, Renewed), k)
  <2>1. Stripped(PeerHeader(m, mode, Len(m.body)), m, Renewed)
    BY <1>4, Strips
  <2> QED BY <1>1, <1>4, <2>1 DEF Stripped
<1> HIDE DEF F
<1>7. Passed(m, Renewed) \in Seq(Fields) /\ Names(Passed(m, Renewed)) \subseteq STRING \ Renewed
  BY PassedIs
<1>8. F \in Seq(Fields) /\ "X-Anvil-Request-ID" \notin Names(F)
  <2>1. k \in Seq(Fields) /\ Names(k) \subseteq {"Content-Length"}
    BY <1>6 DEF Leftover
  <2> DEFINE p == Passed(m, Renewed)
  <2> HIDE DEF p
  <2>2. p \in Seq(Fields) /\ F = Join(p, k)
    BY <1>6, <1>7 DEF p
  <2>3. F \in Seq(Fields) /\ Names(F) = Names(p) \cup Names(k)
    BY <2>1, <2>2, JoinIs
  <2>4. Names(p) \subseteq STRING \ Renewed
    BY <1>7 DEF p
  <2> QED BY <2>1, <2>3, <2>4 DEF Renewed
<1> DEFINE headers == Append(replaceHeader(Append(F, ViaField), "X-Anvil-Request-ID", "id"), StatusField)
<1>9. headers = Join(Join(Passed(m, Renewed), k), ServerFields)
  BY <1>6, <1>8, ServerHeader
<1> HIDE DEF headers
<1>10. filterHeaderFields(g.trailers, remove) = g.trailers
  <2>1. g.trailers = <<>> \/ g.trailers = m.trailers
    BY <1>2 DEF SameBody
  <2>2. m.trailers \in Seq(Fields) /\ Names(m.trailers) \cap (HopNames(m) \cup Replaced) = {}
    BY WellIs
  <2>3. CASE g.trailers = <<>>
    BY <2>3, NamedNone DEF filterHeaderFields
  <2>4. CASE g.trailers = m.trailers
    <3> DEFINE S == STRING \ remove
    <3>1. Names(m.trailers) \subseteq S
      BY <1>4, <2>2, NamesAreStrings
    <3> HIDE DEF S
    <3>2. Named(m.trailers, S) = m.trailers
      BY <2>2, <3>1, NamedAll
    <3> QED BY <2>4, <3>2 DEF filterHeaderFields, S
  <2> QED BY <2>1, <2>3, <2>4
<1>11. r = [status |-> m.status, headers |-> headers, mode |-> relayedBodyMode(g.mode), body |-> g.body,
            trailers |-> g.trailers, close |-> FALSE]
  BY <1>2, <1>5, <1>10 DEF headers
<1>12. /\ r.mode = relayedBodyMode(g.mode) /\ r.body = g.body /\ r.trailers = g.trailers /\ r.close = FALSE
       /\ r = [status |-> m.status, headers |-> headers, mode |-> r.mode, body |-> r.body,
            trailers |-> r.trailers, close |-> FALSE]
  BY <1>11
<1>13. /\ r.mode \in {"none", "fixed", "chunked"}
       /\ IF responseMustNotHaveBody(method, m.status) THEN r.mode = "none" /\ r.body = <<>> /\ r.trailers = <<>>
          ELSE SameBody(r, m) /\ r.mode # "none" /\ (r.mode # "chunked" => r.trailers = <<>>)
  BY <1>2, <1>12 DEF relayedBodyMode, SameBody
<1>14. Renews(r, m, method, k)
  <2>1. \E close : r = [status |-> m.status, headers |-> Join(Join(Passed(m, Renewed), k), ServerFields),
                        mode |-> r.mode, body |-> r.body, trailers |-> r.trailers, close |-> close]
    BY <1>9, <1>12
  <2> QED BY <1>6, <1>13, <2>1 DEF Renews
<1> QED BY <1>12, <1>14 DEF r

\* The header that the writer keeps of the proxy's.
ServedHeader(m) == Join(Passed(m, Renewed), ServerFields)

\* What the proxy makes of an answer can be sent, and is the right answer.
LEMMA Renewal ==
  ASSUME NEW m \in Responses, NEW s, NEW a, Served(a), a.message = m,
         NEW response, NEW k, Renews(response, m, s.method, k), NEW close \in BOOLEAN,
         NEW r, r = [response EXCEPT !.close = close]
  PROVE  Sendable(r, ServedHeader(m)) /\ Right(r, ServedHeader(m), s, a) /\ WrittenFor(r, s.method, s, a)
<1> DEFINE h == ServedHeader(m)
           X == Renewed
           x == ServerFields
           all == Join(Join(Passed(m, X), k), x)
           p == Passed(m, X)
           noBody == responseMustNotHaveBody(s.method, m.status)
<1>1. WellFormed(m) /\ m.status \in Nat /\ ~ Interim(m.status)
  BY RelayAssumption
<1>2. /\ m.body \in Seq(Symbols) /\ m.trailers \in Seq(Fields) /\ Len(m.trailers) <= MaxTrailerFields
      /\ Len(m.body) <= MaxBodyBytes /\ Len(m.body) < MaxChunkCount /\ validateTrailers(m.trailers)
      /\ m.fields \in Seq(Fields) /\ Len(m.fields) + 6 <= MaxHeaderFields
  BY <1>1, WellIs
<1>3. /\ x \in Seq(Fields) /\ Len(x) = 3 /\ Names(x) = {"Via", "X-Anvil-Request-ID", "Proxy-Status"}
      /\ HasToken(x, "Proxy-Status", "received-status")
  BY ServerFieldsAre
<1>4. Names(x) \cap (Additions \cup {"Upgrade"}) = {}
  BY <1>3 DEF Additions
<1>5. PICK c : response = [status |-> m.status, headers |-> all, mode |-> response.mode, body |-> response.body,
                           trailers |-> response.trailers, close |-> c]
  BY DEF Renews
<1>6. /\ Leftover(k) /\ response.mode \in {"none", "fixed", "chunked"}
      /\ IF noBody THEN response.mode = "none" /\ response.body = <<>> /\ response.trailers = <<>>
         ELSE SameBody(response, m) /\ response.mode # "none"
           /\ (response.mode # "chunked" => response.trailers = <<>>)
  BY DEF Renews
<1> DEFINE mode == response.mode
           body == response.body
           t == response.trailers
<1>7. /\ r = [status |-> m.status, headers |-> all, mode |-> mode, body |-> body, trailers |-> t, close |-> close]
      /\ r.status = m.status /\ r.headers = all /\ r.mode = mode /\ r.body = body /\ r.trailers = t
  <2> HIDE DEF all, mode, body, t
  <2>1. response = [status |-> m.status, headers |-> all, mode |-> mode, body |-> body, trailers |-> t, close |-> c]
    BY <1>5 DEF mode, body, t
  <2>2. r = [status |-> m.status, headers |-> all, mode |-> mode, body |-> body, trailers |-> t, close |-> close]
    BY <2>1
  <2>3. \A q : q = [status |-> m.status, headers |-> all, mode |-> mode, body |-> body,
          trailers |-> t, close |-> close]
               => q.status = m.status /\ q.headers = all /\ q.mode = mode /\ q.body = body /\ q.trailers = t
    OBVIOUS
  <2> QED BY <2>2, <2>3
<1>8. IF noBody THEN mode = "none" /\ body = <<>> /\ t = <<>>
      ELSE body = m.body /\ t = m.trailers /\ mode # "none" /\ (mode # "chunked" => t = <<>>)
  BY <1>6 DEF SameBody
<1>9. mode \in {"none", "fixed", "chunked"}
  BY <1>6
<1> HIDE DEF h, X, x, noBody, mode, body, t
<1>20. x \in Seq(Fields) /\ Leftover(k)
  BY <1>3, <1>6
<1>10. /\ withoutFramingHeaders(all) = h /\ all \in Seq(Fields) /\ h \in Seq(Fields)
       /\ Names(all) \cap {"Connection", "Upgrade"} = {} /\ Len(h) <= Len(m.fields) + Len(x)
       /\ ToSet(x) \subseteq ToSet(h)
  <2> DEFINE out == Join(p, x)
  <2>1. /\ withoutFramingHeaders(all) = out /\ all \in Seq(Fields) /\ out \in Seq(Fields)
        /\ Names(all) \cap {"Connection", "Upgrade"} = {} /\ Len(out) <= Len(m.fields) + Len(x)
        /\ ToSet(x) \subseteq ToSet(out)
    BY <1>1, <1>4, <1>20, WriterKeeps
  <2>2. out = h
    BY DEF h, ServedHeader, X, x
  <2> HIDE DEF all, out
  <2> QED BY <2>1, <2>2
<1>11. \A R : Named(h, R) = Join(Named(m.fields, R \ X), Named(x, R))
  <2>1. p \in Seq(Fields) /\ \A R : Named(p, R) = Named(m.fields, R \ X)
    BY <1>1, PassedIs
  <2> HIDE DEF p
  <2>2. \A R : Named(Join(p, x), R) = Join(Named(p, R), Named(x, R))
    BY <1>20, <2>1, JoinIs
  <2>3. h = Join(p, x)
    BY DEF h, ServedHeader, p, X, x
  <2> QED BY <2>1, <2>2, <2>3
<1> HIDE DEF all, p
<1>12. Len(h) + 3 <= MaxHeaderFields
  <2>1. Len(h) \in Nat /\ Len(m.fields) \in Nat /\ MaxHeaderFields \in Nat
    BY <1>2, <1>10, LimitsAssumption
  <2> QED BY <1>2, <1>3, <1>10, <2>1
<1>13. /\ body \in Seq(Symbols) /\ Len(body) <= MaxBodyBytes /\ Len(body) < MaxChunkCount
       /\ t \in Seq(Fields) /\ Len(t) <= MaxTrailerFields /\ validateTrailers(t)
  <2>1. CASE noBody
    <3> DEFINE e == <<>>
    <3>1. e \in Seq(Symbols) /\ e \in Seq(Fields) /\ Len(e) = 0 /\ Names(e) = {}
      BY NamesNone
    <3>2. body = e /\ t = e
      BY <1>8, <2>1
    <3> HIDE DEF e
    <3>3. MaxBodyBytes \in Nat /\ MaxChunkCount \in Nat /\ MaxChunkCount # 0 /\ MaxTrailerFields \in Nat
      BY LimitsAssumption
    <3>4. validateTrailers(e)
      BY <3>1 DEF validateTrailers
    <3> QED BY <3>1, <3>2, <3>3, <3>4
  <2>2. CASE ~ noBody
    BY <1>2, <1>8, <2>2
  <2> QED BY <2>1, <2>2
<1>14. (mode = "none" => body = <<>>) /\ (mode # "chunked" => t = <<>>)
  BY <1>8
<1>15. r \in Answers
  BY <1>1, <1>7, <1>9, <1>10, <1>13 DEF Answers
<1>16. Sendable(r, h)
  BY <1>1, <1>7, <1>10, <1>12, <1>13, <1>14, <1>15 DEF Sendable
<1>17. EndToEnd(h) = EndToEnd(m.fields)
  <2> DEFINE S == STRING \ {"Content-Length", "Transfer-Encoding", "Trailer", "Connection", "Host", "Via",
                            "Forwarded", "X-Anvil-Request-ID", "Proxy-Status"}
  <2>1. Names(x) \cap S = {} /\ S \ X = S
    BY <1>3 DEF Renewed, X
  <2>2. EndToEnd(h) = Named(h, S) /\ EndToEnd(m.fields) = Named(m.fields, S)
    BY DEF EndToEnd
  <2> HIDE DEF S
  <2>3. Named(x, S) = <<>>
    BY <1>3, <2>1, NamedAll
  <2>4. Named(m.fields, S) \in Seq(Fields)
    BY <1>2, NamedFields
  <2>5. Named(h, S) = Join(Named(m.fields, S), <<>>)
    BY <1>11, <2>1, <2>3
  <2> QED BY <2>2, <2>4, <2>5, JoinNone
<1>18. Right(r, h, s, a)
  <2> SUFFICES ASSUME NEW g, g.status = r.status, EndToEnd(g.headers) = EndToEnd(h), ToSet(h) \subseteq
                        ToSet(g.headers),
                      responseMustNotHaveBody(s.method, r.status) \/ (g.body = r.body /\ g.trailers = r.trailers)
               PROVE  RightAnswer(s, a, g)
    BY DEF Right
  <2>1. g.status = a.message.status /\ EndToEnd(g.headers) = EndToEnd(a.message.fields)
    BY <1>7, <1>17
  <2>2. responseMustNotHaveBody(s.method, g.status) \/ SameBody(g, a.message)
    <3>1. ~ noBody => body = m.body /\ t = m.trailers
      BY <1>8
    <3> QED BY <1>7, <3>1 DEF SameBody, noBody
  <2>3. HasToken(g.headers, "Proxy-Status", "received-status")
    <3>1. ToSet(x) \subseteq ToSet(g.headers)
      BY <1>10
    <3> QED BY <1>3, <3>1 DEF HasToken
  <2> QED BY <2>1, <2>2, <2>3 DEF RightAnswer, Conveyed, Served, Whole
<1>19. WrittenFor(r, s.method, s, a)
  <2>1. a # None
    BY DEF Served
  <2> QED BY <1>7, <2>1 DEF WrittenFor
<1> QED BY <1>16, <1>18, <1>19 DEF h

\* An answer that the proxy has read is passed on as that answer.
THEOREM AnswerConveys ==
  ASSUME NEW m \in Responses, NEW s, NEW a, Served(a), a.message = m, NEW g, Gives(g, m, s.method)
  PROVE  Conveys(sanitizeUpstreamResponse(g), s.method, s, a) /\ sanitizeUpstreamResponse(g).close = FALSE
<1> DEFINE response == sanitizeUpstreamResponse(g)
           h == ServedHeader(m)
<1>1. WellFormed(m)
  BY RelayAssumption
<1>2. (\E k : Renews(response, m, s.method, k)) /\ response.close = FALSE
  BY <1>1, Sanitizes
<1>3. PICK k : Renews(response, m, s.method, k)
  BY <1>2
<1> HIDE DEF response
<1>4. ASSUME NEW close \in BOOLEAN
      PROVE  /\ Sendable([response EXCEPT !.close = close], h)
             /\ Right([response EXCEPT !.close = close], h, s, a)
             /\ WrittenFor([response EXCEPT !.close = close], s.method, s, a)
  <2> DEFINE r == [response EXCEPT !.close = close]
  <2>1. r = [response EXCEPT !.close = close]
    OBVIOUS
  <2> HIDE DEF r
  <2>2. Sendable(r, ServedHeader(m)) /\ Right(r, ServedHeader(m), s, a) /\ WrittenFor(r, s.method, s, a)
    BY <1>3, <2>1, Renewal
  <2> QED BY <2>1, <2>2
<1> HIDE DEF h
<1>5. Conveys(response, s.method, s, a)
  BY <1>4, Conveying
<1> QED BY <1>2, <1>5 DEF response

-----------------------------------------------------------------------------
(* What is under way                                                       *)

\* What a client has sent: the message that is not one has a method.
Exchanges == Requests \cup {[method |-> "GET"]}

\* With its target, whether it is whole, and the method that the answer is for.
SentMessages ==
  [target : Targets, method : {m.method : m \in Exchanges}, message : Exchanges, whole : BOOLEAN]

\* The upstream's answers.
GivenAnswers == {None} \cup [message : Responses \cup {None}, whole : BOOLEAN]

\* x is the request s, or the junk that was sent in its place.
Asks(x, s) ==
  /\ x \in Seq(Symbols)
  /\ IF Whole(s) THEN x \in RequestTexts(s.message, s.target)
     ELSE \E bad \in BadRequests : x = <<RequestLine("POST", s.target)>> \o bad

\* x is what there is of the only request, and nothing follows.
Broken(x, s, n, end) ==
  /\ x \in Seq(Symbols) /\ ~ Whole(s) /\ n = 1 /\ end # "open"
  /\ \A in : in.symbols = x => readHTTPRequest(in).verdict # "read"

\* What is unread of the requests in sq, from the one at j.
First(p, sq, end, j) ==
  IF j <= Len(sq) THEN Asks(p, sq[j]) \/ Broken(p, sq[j], Len(sq), end) ELSE p = <<>>

\* The request after it: a client sends no third.
Second(q, sq, j) == IF j + 1 <= Len(sq) THEN Asks(q, sq[j + 1]) ELSE q = <<>>

\* Both together are what the proxy has not read yet.
Unread(symbols, sq, end, j) ==
  \E p, q : /\ p \in Seq(Symbols) /\ q \in Seq(Symbols) /\ TwoParts(symbols, p, q)
            /\ First(p, sq, end, j) /\ Second(q, sq, j)

\* A request that a client has sent.
Proper(s, i, n, end) ==
  IF Whole(s) THEN s.message \in Requests /\ s.method = s.message.method
  ELSE i = 1 /\ (s.method = "GET" \/ (n = 1 /\ end # "open"))

\* The requests that a client has sent are at most two, for different targets.
Pending(sq, end) ==
  /\ sq \in Seq(SentMessages) /\ Len(sq) <= 2 /\ (Len(sq) = 2 => sq[1].target # sq[2].target)
  /\ \A i \in DOMAIN sq : Proper(sq[i], i, Len(sq), end)

\* A request with a method and a target is a symbol.
LEMMA RequestLineIs == ASSUME NEW t \in Targets PROVE RequestLine("POST", t) \in Symbols
<1>1. "POST" \in STRING
  BY StringAssumption
<1>2. t \in Nat
  BY DEF Targets
<1> DEFINE m == "POST"
<1>3. m \in STRING
  BY <1>1
<1> HIDE DEF m
<1>4. [kind |-> "request", method |-> m, target |-> t] \in [kind : {"request"}, method : STRING, target : Nat]
  BY <1>2, <1>3
<1> QED BY <1>4 DEF RequestLine, Symbols, m

\* The parts of a source after some of it was read.
LEMMA SkipIs ==
  ASSUME NEW source \in Sources, NEW p \in Seq(Symbols), NEW q \in Seq(Symbols), TwoParts(source.symbols, p, q)
  PROVE  Skip(source, Len(p) + 1) \in Sources /\ Skip(source, Len(p) + 1).symbols = q
         /\ Skip(source, Len(p) + 1).end = source.end
<1>1. source = [symbols |-> source.symbols, end |-> source.end] /\ source.end \in Ends
  BY DEF Sources
<1>2. SubSeq(source.symbols, Len(p) + 1, Len(source.symbols)) = q
  <2>1. \A x : x = p \o q => SubSeq(x, Len(p) + 1, Len(x)) = q
    OBVIOUS
  <2> QED BY <2>1 DEF TwoParts
<1>3. Skip(source, Len(p) + 1) = [symbols |-> q, end |-> source.end]
  <2>1. PICK x, e : x = source.symbols /\ e = source.end
    OBVIOUS
  <2>2. source = [symbols |-> x, end |-> e]
    BY <1>1, <2>1
  <2>3. Skip(source, Len(p) + 1) = [source EXCEPT !.symbols = SubSeq(x, Len(p) + 1, Len(x))]
    BY <2>2 DEF Skip
  <2>4. SubSeq(x, Len(p) + 1, Len(x)) = q
    BY <1>2, <2>1
  <2>5. [source EXCEPT !.symbols = q] = [symbols |-> q, end |-> e]
    BY <2>2
  <2> QED BY <2>1, <2>3, <2>4, <2>5
<1> QED BY <1>1, <1>3 DEF Sources

\* The parts of a source after more has arrived.
LEMMA ArriveIs ==
  ASSUME NEW source \in Sources, NEW x \in Seq(Symbols), NEW end \in Ends
  PROVE  Arrive(source, x, end) \in Sources /\ Arrive(source, x, end).symbols = source.symbols \o x
         /\ Arrive(source, x, end).end = end
<1>1. source.symbols \in Seq(Symbols)
  BY DEF Sources
<1>2. source.symbols \o x \in Seq(Symbols)
  BY <1>1
<1> QED BY <1>2 DEF Arrive, Sources

\* Nothing is left after what was read.
LEMMA ReadsAll ==
  /\ \A text, g, in : ReadsRequest(text, g) /\ in.symbols = text => readHTTPRequest(in) = Taken(text, g)
  /\ \A text, method, g, in :
       ReadsResponse(text, method, g) /\ in.symbols = text => readHTTPResponse(in, method) = Taken(text, g)
<1> DEFINE none == <<>>
<1>1. none \in Seq(Symbols) /\ \A text \in Seq(Symbols) : text = text \o none
  OBVIOUS
<1> HIDE DEF none
<1>2. ASSUME NEW text, NEW g, NEW in, ReadsRequest(text, g), in.symbols = text
      PROVE  readHTTPRequest(in) = Taken(text, g)
  BY <1>1, <1>2 DEF ReadsRequest, Starts
<1>3. ASSUME NEW text, NEW method, NEW g, NEW in, ReadsResponse(text, method, g), in.symbols = text
      PROVE  readHTTPResponse(in, method) = Taken(text, g)
  BY <1>1, <1>3 DEF ReadsResponse, Starts
<1> QED BY <1>2, <1>3

\* Nothing is unread after the last request.
LEMMA UnreadNothing ==
  ASSUME NEW symbols, NEW sq \in Seq(SentMessages), NEW end, NEW j \in Nat, j > Len(sq), Unread(symbols, sq, end, j)
  PROVE  symbols = <<>>
<1>1. PICK p, q : /\ p \in Seq(Symbols) /\ q \in Seq(Symbols) /\ TwoParts(symbols, p, q)
                  /\ First(p, sq, end, j) /\ Second(q, sq, j)
  BY DEF Unread
<1>2. Len(sq) \in Nat
  OBVIOUS
<1>3. p = <<>> /\ q = <<>>
  BY <1>1, <1>2 DEF First, Second
<1> QED BY <1>1, <1>3 DEF TwoParts

\* What is not a request, or not a whole one, is not read.
LEMMA UnreadWrong ==
  ASSUME NEW in \in Sources, NEW sq, NEW end, Pending(sq, end), NEW j \in 1 .. Len(sq), ~ Whole(sq[j]),
         Unread(in.symbols, sq, end, j)
  PROVE  readHTTPRequest(in).verdict # "read"
<1>1. PICK p, q : /\ p \in Seq(Symbols) /\ q \in Seq(Symbols) /\ TwoParts(in.symbols, p, q)
                  /\ First(p, sq, end, j) /\ Second(q, sq, j)
  BY DEF Unread
<1>2. /\ sq \in Seq(SentMessages) /\ Len(sq) <= 2 /\ (Len(sq) = 2 => sq[1].target # sq[2].target)
      /\ \A i \in DOMAIN sq : Proper(sq[i], i, Len(sq), end)
  BY DEF Pending
<1>3. Len(sq) \in Nat /\ DOMAIN sq = 1 .. Len(sq)
  BY <1>2
<1>4. j = 1 /\ \A i \in DOMAIN sq : ~ Whole(sq[i]) => i = 1
  BY <1>2, <1>3 DEF Proper
<1>5. \A i \in 1 .. Len(sq) : sq[i].target \in Targets /\ sq[i].target \in {1, 2}
  <2> TAKE i \in 1 .. Len(sq)
  <2>1. sq[i] \in SentMessages
    BY <1>2
  <2> QED BY <2>1 DEF SentMessages, Targets
<1>6. Asks(p, sq[1]) \/ Broken(p, sq[1], Len(sq), end)
  BY <1>1, <1>3, <1>4 DEF First
<1>7. CASE Broken(p, sq[1], Len(sq), end)
  <2>1. Len(sq) = 1 /\ \A x : x.symbols = p => readHTTPRequest(x).verdict # "read"
    BY <1>7 DEF Broken
  <2>2. q = <<>>
    BY <1>1, <1>4, <2>1 DEF Second
  <2>3. in.symbols = p
    BY <1>1, <2>2 DEF TwoParts
  <2> QED BY <2>1, <2>3
<1>8. CASE Asks(p, sq[1])
  <2> DEFINE t == sq[1].target
  <2>1. t \in Targets
    BY <1>3, <1>4, <1>5
  <2>2. PICK bad \in BadRequests : p = <<RequestLine("POST", t)>> \o bad
    BY <1>4, <1>8 DEF Asks
  <2>3. q \in Seq(Symbols)
    BY <1>1
  <2>4. in = [symbols |-> p \o q, end |-> in.end] /\ in.end \in Ends
    <3>1. in = [symbols |-> in.symbols, end |-> in.end] /\ in.end \in Ends
      BY DEF Sources
    <3>2. in.symbols = p \o q
      BY <1>1 DEF TwoParts
    <3> QED BY <3>1, <3>2
  <2>5. readHTTPRequest([symbols |-> <<RequestLine("POST", t)>> \o bad \o q, end |-> in.end]).verdict # "read"
    <3> DEFINE e == in.end
    <3>1. e \in Ends
      BY <2>4
    <3> HIDE DEF e, t
    <3>2. readHTTPRequest([symbols |-> <<RequestLine("POST", t)>> \o bad \o q, end |-> e]).verdict # "read"
      BY <2>1, <2>2, <2>3, <3>1, JunkIs
    <3> QED BY <3>2 DEF e
  <2> QED BY <2>2, <2>4, <2>5
<1> QED BY <1>6, <1>7, <1>8

\* A whole request is read, and leaves what follows it.
LEMMA UnreadWhole ==
  ASSUME NEW in \in Sources, NEW sq, NEW end, Pending(sq, end), NEW j \in 1 .. Len(sq), Whole(sq[j]),
         Unread(in.symbols, sq, end, j)
  PROVE  LET r == readHTTPRequest(in)
             left == Skip(in, r.next)
         IN /\ r.verdict = "read" /\ Brings(r.message, sq[j].message, sq[j].target)
            /\ left \in Sources /\ left.end = in.end /\ Unread(left.symbols, sq, end, j + 1)
<1>1. PICK p, q : /\ p \in Seq(Symbols) /\ q \in Seq(Symbols) /\ TwoParts(in.symbols, p, q)
                  /\ First(p, sq, end, j) /\ Second(q, sq, j)
  BY DEF Unread
<1>2. /\ sq \in Seq(SentMessages) /\ Len(sq) <= 2 /\ \A i \in DOMAIN sq : Proper(sq[i], i, Len(sq), end)
  BY DEF Pending
<1>3. Len(sq) \in Nat /\ j \in DOMAIN sq /\ sq[j] \in SentMessages
  BY <1>2
<1>4. sq[j].message \in Requests /\ sq[j].target \in Nat
  BY <1>2, <1>3 DEF Proper, SentMessages, Targets
<1>5. Asks(p, sq[j])
  BY <1>1, <1>3 DEF First, Broken
<1>6. p \in RequestTexts(sq[j].message, sq[j].target)
  BY <1>5 DEF Asks
<1>7. PICK g : ReadsRequest(p, g) /\ Brings(g, sq[j].message, sq[j].target)
  <2> DEFINE m == sq[j].message
             t == sq[j].target
  <2>1. m \in Requests /\ t \in Nat /\ p \in RequestTexts(m, t)
    BY <1>4, <1>6
  <2> HIDE DEF m, t
  <2>2. \E g : ReadsRequest(p, g) /\ Brings(g, m, t)
    BY <2>1, RequestTextReads
  <2> QED BY <2>2 DEF m, t
<1>8. readHTTPRequest(in) = Taken(p, g)
  BY <1>1, <1>7 DEF ReadsRequest, Starts, TwoParts
<1>9. /\ readHTTPRequest(in).verdict = "read" /\ readHTTPRequest(in).message = g
      /\ readHTTPRequest(in).next = Len(p) + 1
  BY <1>8 DEF Taken
<1>10. Skip(in, Len(p) + 1) \in Sources /\ Skip(in, Len(p) + 1).symbols = q /\ Skip(in, Len(p) + 1).end = in.end
  BY <1>1, SkipIs
<1>11. Unread(q, sq, end, j + 1)
  <2> DEFINE none == <<>>
  <2>1. none \in Seq(Symbols) /\ TwoParts(q, q, none)
    BY <1>1 DEF TwoParts
  <2>2. First(q, sq, end, j + 1)
    BY <1>1, <1>3 DEF First, Second
  <2>3. ~ (j + 1 + 1 <= Len(sq))
    BY <1>2, <1>3
  <2>4. Second(none, sq, j + 1)
    BY <2>3 DEF Second
  <2> HIDE DEF none
  <2> QED BY <1>1, <2>1, <2>2, <2>4 DEF Unread
<1> QED BY <1>7, <1>9, <1>10, <1>11

\* One more request.
LEMMA UnreadMore ==
  ASSUME NEW symbols, NEW sq \in Seq(SentMessages), Len(sq) < 2, NEW j \in 1 .. Len(sq) + 1,
         Unread(symbols, sq, "open", j), NEW s \in SentMessages, NEW x, Asks(x, s)
  PROVE  Unread(symbols \o x, Append(sq, s), "open", j)
<1>1. PICK p, q : /\ p \in Seq(Symbols) /\ q \in Seq(Symbols) /\ TwoParts(symbols, p, q)
                  /\ First(p, sq, "open", j) /\ Second(q, sq, j)
  BY DEF Unread
<1>2. Len(sq) \in Nat /\ x \in Seq(Symbols)
  BY DEF Asks
<1> DEFINE more == Append(sq, s)
<1>3. Len(more) = Len(sq) + 1 /\ more[Len(sq) + 1] = s /\ \A i \in 1 .. Len(sq) : more[i] = sq[i]
  OBVIOUS
<1> DEFINE none == <<>>
<1>4. none \in Seq(Symbols) /\ \A y \in Seq(Symbols) : y \o none = y /\ none \o y = y
  OBVIOUS
<1> HIDE DEF more, none
<1>5. CASE j = Len(sq) + 1
  <2>1. p = none /\ q = none
    BY <1>1, <1>2, <1>5 DEF First, Second, none
  <2>2. TwoParts(symbols \o x, x, none)
    BY <1>1, <1>2, <1>4, <2>1 DEF TwoParts
  <2>3. First(x, more, "open", j)
    BY <1>2, <1>3, <1>5 DEF First
  <2>4. Second(none, more, j)
    BY <1>2, <1>3, <1>5 DEF Second, none
  <2>5. Unread(symbols \o x, more, "open", j)
    BY <1>2, <1>4, <2>2, <2>3, <2>4 DEF Unread
  <2> QED BY <2>5 DEF more
<1>6. CASE j # Len(sq) + 1
  <2>1. j = 1 /\ Len(sq) = 1
    <3> DEFINE n == Len(sq)
    <3>1. n \in Nat /\ n < 2 /\ j \in 1 .. n + 1 /\ j # n + 1
      BY <1>2, <1>6
    <3> HIDE DEF n
    <3>2. j = 1 /\ n = 1
      BY <3>1
    <3> QED BY <3>2 DEF n
  <2>2. q = none
    BY <1>1, <2>1 DEF Second, none
  <2>3. symbols = p
    BY <1>1, <1>4, <2>2 DEF TwoParts
  <2>4. TwoParts(symbols \o x, p, x)
    BY <2>3 DEF TwoParts
  <2>5. Asks(p, sq[1])
    BY <1>1, <2>1 DEF First, Broken
  <2>6. First(p, more, "open", j)
    BY <1>3, <2>1, <2>5 DEF First
  <2>7. Second(x, more, j)
    BY <1>3, <2>1 DEF Second
  <2>8. Unread(symbols \o x, more, "open", j)
    BY <1>1, <1>2, <2>4, <2>6, <2>7 DEF Unread
  <2> QED BY <2>8 DEF more
<1> QED BY <1>5, <1>6

\* The only request, which breaks off.
LEMMA UnreadBroken ==
  ASSUME NEW s \in SentMessages, NEW x, NEW end, Broken(x, s, 1, end), NEW sq, sq = <<s>>
  PROVE  Unread(x, sq, end, 1)
<1>1. Len(sq) = 1 /\ sq[1] = s
  OBVIOUS
<1>2. x \in Seq(Symbols)
  BY DEF Broken
<1> DEFINE none == <<>>
<1>3. none \in Seq(Symbols) /\ TwoParts(x, x, none)
  BY <1>2 DEF TwoParts
<1>4. First(x, sq, end, 1)
  BY <1>1 DEF First
<1>5. Second(none, sq, 1)
  BY <1>1 DEF Second
<1> HIDE DEF none
<1> QED BY <1>2, <1>3, <1>4, <1>5 DEF Unread

\* One answered request less.
LEMMA UnreadTail ==
  ASSUME NEW symbols, NEW sq \in Seq(SentMessages), sq # <<>>, Len(sq) <= 2, NEW end, NEW j \in Nat, j >= 2,
         Unread(symbols, sq, end, j)
  PROVE  Unread(symbols, Tail(sq), end, j - 1)
<1>1. PICK p, q : /\ p \in Seq(Symbols) /\ q \in Seq(Symbols) /\ TwoParts(symbols, p, q)
                  /\ First(p, sq, end, j) /\ Second(q, sq, j)
  BY DEF Unread
<1>2. Len(sq) \in 1 .. 2
  <2> DEFINE n == Len(sq)
  <2>1. n \in Nat /\ n # 0 /\ n <= 2
    OBVIOUS
  <2> HIDE DEF n
  <2>2. n \in 1 .. 2
    BY <2>1
  <2> QED BY <2>2 DEF n
<1> DEFINE less == Tail(sq)
<1>3. Len(less) = Len(sq) - 1 /\ \A i \in 1 .. Len(sq) - 1 : less[i] = sq[i + 1]
  OBVIOUS
<1> HIDE DEF less
<1>4. q = <<>>
  BY <1>1, <1>2 DEF Second
<1>5. Second(q, less, j - 1)
  BY <1>2, <1>3, <1>4 DEF Second
<1>6. First(p, less, end, j - 1)
  <2>1. CASE j = 2 /\ Len(sq) = 2
    <3>1. Asks(p, sq[2])
      BY <1>1, <2>1 DEF First, Broken
    <3>2. less[1] = sq[2] /\ Len(less) = 1 /\ j - 1 = 1
      BY <1>3, <2>1
    <3> QED BY <3>1, <3>2 DEF First
  <2>2. CASE ~ (j = 2 /\ Len(sq) = 2)
    <3>1. j > Len(sq) /\ ~ (j <= Len(sq)) /\ ~ (j - 1 <= Len(less))
      BY <1>2, <1>3, <2>2
    <3>2. p = <<>>
      BY <1>1, <3>1 DEF First
    <3> QED BY <3>1, <3>2 DEF First
  <2> QED BY <2>1, <2>2
<1>7. Unread(symbols, less, end, j - 1)
  BY <1>1, <1>5, <1>6 DEF Unread
<1> QED BY <1>7 DEF less

\* However the connection ends.
LEMMA UnreadEnds ==
  ASSUME NEW symbols, NEW sq, NEW end, NEW j, Unread(symbols, sq, end, j), NEW over, over # "open"
  PROVE  Unread(symbols, sq, over, j)
<1>1. PICK p, q : /\ p \in Seq(Symbols) /\ q \in Seq(Symbols) /\ TwoParts(symbols, p, q)
                  /\ First(p, sq, end, j) /\ Second(q, sq, j)
  BY DEF Unread
<1>2. First(p, sq, over, j)
  BY <1>1 DEF First, Broken
<1> QED BY <1>1, <1>2 DEF Unread

-----------------------------------------------------------------------------

\* What the client can read are the answers to the first k of its requests.
Spoken(symbols, sq, sv, k) ==
  \E p, q : /\ p \in Seq(Symbols) /\ q \in Seq(Symbols) /\ TwoParts(symbols, p, q)
            /\ IF k >= 1 THEN Says(p, sq[1], sv[sq[1].target]) ELSE p = <<>>
            /\ IF k >= 2 THEN Says(q, sq[2], sv[sq[2].target]) ELSE q = <<>>

\* It depends on those answers only.
LEMMA SpokenSame ==
  ASSUME NEW symbols, NEW sq, NEW sv, NEW k \in 0 .. 2, Spoken(symbols, sq, sv, k), NEW tq, NEW tv,
         \A i \in 1 .. k : tq[i] = sq[i] /\ tv[sq[i].target] = sv[sq[i].target]
  PROVE  Spoken(symbols, tq, tv, k)
<1>1. PICK p, q : /\ p \in Seq(Symbols) /\ q \in Seq(Symbols) /\ TwoParts(symbols, p, q)
                  /\ IF k >= 1 THEN Says(p, sq[1], sv[sq[1].target]) ELSE p = <<>>
                  /\ IF k >= 2 THEN Says(q, sq[2], sv[sq[2].target]) ELSE q = <<>>
  BY DEF Spoken
<1>2. k >= 1 => Says(p, tq[1], tv[tq[1].target])
  BY <1>1
<1>3. k >= 2 => Says(q, tq[2], tv[tq[2].target])
  BY <1>1
<1> QED BY <1>1, <1>2, <1>3 DEF Spoken

\* One more answer.
LEMMA SpokenMore ==
  ASSUME NEW symbols, NEW sq, NEW sv, NEW k \in 0 .. 1, Spoken(symbols, sq, sv, k),
         NEW x, Says(x, sq[k + 1], sv[sq[k + 1].target])
  PROVE  Spoken(symbols \o x, sq, sv, k + 1)
<1>1. PICK p, q : /\ p \in Seq(Symbols) /\ q \in Seq(Symbols) /\ TwoParts(symbols, p, q)
                  /\ IF k >= 1 THEN Says(p, sq[1], sv[sq[1].target]) ELSE p = <<>>
                  /\ IF k >= 2 THEN Says(q, sq[2], sv[sq[2].target]) ELSE q = <<>>
  BY DEF Spoken
<1>2. x \in Seq(Symbols)
  BY DEF Says
<1> DEFINE none == <<>>
<1>3. none \in Seq(Symbols) /\ \A y \in Seq(Symbols) : y \o none = y /\ none \o y = y
  OBVIOUS
<1>4. q = none /\ (k = 0 => p = none)
  BY <1>1
<1> HIDE DEF none
<1>5. symbols = p
  BY <1>1, <1>3, <1>4 DEF TwoParts
<1>6. CASE k = 0
  <2>1. TwoParts(symbols \o x, x, none)
    BY <1>2, <1>3, <1>4, <1>5, <1>6 DEF TwoParts
  <2>2. Says(x, sq[1], sv[sq[1].target]) /\ k + 1 = 1
    BY <1>6
  <2> QED BY <1>2, <1>3, <2>1, <2>2 DEF Spoken, none
<1>7. CASE k = 1
  <2>1. TwoParts(symbols \o x, p, x)
    BY <1>5 DEF TwoParts
  <2>2. Says(x, sq[2], sv[sq[2].target]) /\ Says(p, sq[1], sv[sq[1].target]) /\ k + 1 = 2
    BY <1>1, <1>7
  <2> QED BY <1>1, <1>2, <2>1, <2>2 DEF Spoken
<1> QED BY <1>6, <1>7

\* Nothing was said.
LEMMA SpokenNothing ==
  /\ \A sq, sv : Spoken(<<>>, sq, sv, 0)
  /\ \A symbols, sq, sv : Spoken(symbols, sq, sv, 0) => symbols = <<>>
<1> DEFINE none == <<>>
<1>1. none \in Seq(Symbols) /\ TwoParts(none, none, none)
  BY DEF TwoParts
<1>2. ASSUME NEW sq, NEW sv PROVE Spoken(none, sq, sv, 0)
  <2>1. /\ IF 0 >= 1 THEN Says(none, sq[1], sv[sq[1].target]) ELSE none = <<>>
        /\ IF 0 >= 2 THEN Says(none, sq[2], sv[sq[2].target]) ELSE none = <<>>
    OBVIOUS
  <2> HIDE DEF none
  <2> QED BY <1>1, <2>1 DEF Spoken
<1>3. ASSUME NEW symbols, NEW sq, NEW sv, Spoken(symbols, sq, sv, 0) PROVE symbols = <<>>
  BY <1>3 DEF Spoken, TwoParts
<1> QED BY <1>2, <1>3

\* The answer that the client reads, of the ones that it can read.
Parsed(out, s, a, p, q) ==
  \/ \E g : /\ readHTTPResponse(out, s.method) = Taken(p, g) /\ RightAnswer(s, a, g)
  \/ /\ ~ Whole(s) /\ s.method # "GET"
     /\ \E g, l, m : /\ l \in Seq(Symbols) /\ m \in Seq(Symbols) /\ TwoParts(out.symbols, l, m)
                     /\ readHTTPResponse(out, s.method) = Taken(l, g) /\ RightAnswer(s, a, g)
  \/ /\ s.method = "HEAD" /\ a # None /\ a.message.status = 204
     /\ readHTTPResponse(out, s.method).verdict # "read"

\* What the client makes of an answer.
LEMMA SaysRead ==
  ASSUME NEW out, NEW p \in Seq(Symbols), NEW q \in Seq(Symbols), TwoParts(out.symbols, p, q),
         NEW s, NEW a, Says(p, s, a)
  PROVE  Parsed(out, s, a, p, q)
<1>1. CASE \E g : ReadsResponse(p, s.method, g) /\ RightAnswer(s, a, g)
  <2>1. PICK g : ReadsResponse(p, s.method, g) /\ RightAnswer(s, a, g)
    BY <1>1
  <2>2. readHTTPResponse(out, s.method) = Taken(p, g)
    BY <2>1 DEF ReadsResponse, Starts, TwoParts
  <2> QED BY <2>1, <2>2 DEF Parsed
<1>2. CASE /\ ~ Whole(s) /\ s.method # "GET"
           /\ \E g : \E l \in Seq(Symbols), m \in Seq(Symbols) :
                TwoParts(p, l, m) /\ ReadsResponse(l, s.method, g) /\ RightAnswer(s, a, g)
  <2>1. PICK g : \E l \in Seq(Symbols), m \in Seq(Symbols) :
                TwoParts(p, l, m) /\ ReadsResponse(l, s.method, g) /\ RightAnswer(s, a, g)
    BY <1>2
  <2>2. PICK l \in Seq(Symbols), m \in Seq(Symbols) :
                TwoParts(p, l, m) /\ ReadsResponse(l, s.method, g) /\ RightAnswer(s, a, g)
    BY <2>1
  <2>3. m \o q \in Seq(Symbols) /\ (l \o m) \o q = l \o (m \o q)
    OBVIOUS
  <2>4. out.symbols = l \o (m \o q)
    BY <2>2, <2>3 DEF TwoParts
  <2> DEFINE n == m \o q
  <2>5. n \in Seq(Symbols) /\ out.symbols = l \o n
    BY <2>3, <2>4
  <2> HIDE DEF n
  <2>6. readHTTPResponse(out, s.method) = Taken(l, g)
    BY <2>2, <2>5 DEF ReadsResponse, Starts
  <2>7. TwoParts(out.symbols, l, n)
    BY <2>5 DEF TwoParts
  <2> QED BY <1>2, <2>2, <2>5, <2>6, <2>7 DEF Parsed
<1>3. CASE s.method = "HEAD" /\ a # None /\ a.message.status = 204 /\ Refused(p, s.method)
  <2>1. readHTTPResponse(out, s.method).verdict # "read"
    BY <1>3 DEF Refused, Starts, TwoParts
  <2> QED BY <1>3, <2>1 DEF Parsed
<1> QED BY <1>1, <1>2, <1>3 DEF Says, Whole

\* What the client hears of the first of the answers.
LEMMA SpokenHears ==
  ASSUME NEW out, NEW sq, NEW sv, NEW k \in 1 .. 2, Spoken(out.symbols, sq, sv, k)
  PROVE  LET answer == readHTTPResponse(out, sq[1].method)
             s == sq[1]
             a == sv[sq[1].target]
         IN \/ answer.verdict = "read" /\ RightAnswer(s, a, answer.message)
            \/ answer.verdict # "read" /\ s.method = "HEAD" /\ a # None /\ a.message.status = 204
<1>1. PICK p, q : /\ p \in Seq(Symbols) /\ q \in Seq(Symbols) /\ TwoParts(out.symbols, p, q)
                  /\ IF k >= 1 THEN Says(p, sq[1], sv[sq[1].target]) ELSE p = <<>>
  BY DEF Spoken
<1> DEFINE s == sq[1]
           a == sv[sq[1].target]
<1>2. Says(p, s, a)
  BY <1>1
<1> HIDE DEF s, a
<1>3. Parsed(out, s, a, p, q)
  BY <1>1, <1>2, SaysRead
<1>4. \A l, g : Taken(l, g).verdict = "read" /\ Taken(l, g).message = g
  BY DEF Taken
<1>5. \/ readHTTPResponse(out, s.method).verdict = "read"
           /\ RightAnswer(s, a, readHTTPResponse(out, s.method).message)
      \/ readHTTPResponse(out, s.method).verdict # "read" /\ s.method = "HEAD" /\ a # None /\ a.message.status = 204
  BY <1>3, <1>4 DEF Parsed
<1> QED BY <1>5 DEF s, a

\* The client takes the first of the answers.
LEMMA SpokenLess ==
  ASSUME NEW out \in Sources, NEW sq \in Seq(SentMessages), NEW sv, NEW k \in 1 .. Len(sq), Len(sq) <= 2,
         Spoken(out.symbols, sq, sv, k), readHTTPResponse(out, sq[1].method).verdict = "read",
         NEW tv, k = 2 => tv[sq[2].target] = sv[sq[2].target]
  PROVE  LET left == Skip(out, readHTTPResponse(out, sq[1].method).next)
         IN /\ left \in Sources /\ left.end = out.end
            /\ Spoken(left.symbols, Tail(sq), tv, k - 1) \/ (~ Whole(sq[1]) /\ sq[1].method # "GET")
<1>1. PICK p, q : /\ p \in Seq(Symbols) /\ q \in Seq(Symbols) /\ TwoParts(out.symbols, p, q)
                  /\ IF k >= 1 THEN Says(p, sq[1], sv[sq[1].target]) ELSE p = <<>>
                  /\ IF k >= 2 THEN Says(q, sq[2], sv[sq[2].target]) ELSE q = <<>>
  BY DEF Spoken
<1> DEFINE s == sq[1]
           a == sv[sq[1].target]
<1>2. Says(p, s, a)
  BY <1>1
<1>2a. readHTTPResponse(out, s.method).verdict = "read"
  OBVIOUS
<1>2b. k \in 1 .. 2
  OBVIOUS
<1> HIDE DEF s, a
<1>3. Parsed(out, s, a, p, q)
  BY <1>1, <1>2, SaysRead
<1>4. \A l, g : Taken(l, g).next = Len(l) + 1
  BY DEF Taken
<1> DEFINE left == Skip(out, readHTTPResponse(out, s.method).next)
<1>5. CASE \E g : readHTTPResponse(out, s.method) = Taken(p, g)
  <2>1. left = Skip(out, Len(p) + 1)
    BY <1>4, <1>5
  <2>2. left \in Sources /\ left.symbols = q /\ left.end = out.end
    BY <1>1, <2>1, SkipIs
  <2> DEFINE none == <<>>
             less == Tail(sq)
  <2>3. none \in Seq(Symbols) /\ TwoParts(q, q, none) /\ TwoParts(none, none, none)
    BY <1>1 DEF TwoParts
  <2>4. k = 2 => less[1] = sq[2]
    OBVIOUS
  <2>5. k - 1 >= 1 => k = 2 /\ Says(q, less[1], tv[less[1].target])
    BY <1>1, <1>2b, <2>4
  <2>6. ~ (k - 1 >= 1) => q = none
    BY <1>1, <1>2b
  <2> HIDE DEF none, less
  <2>7. Spoken(q, less, tv, k - 1)
    <3>1. IF k - 1 >= 1 THEN Says(q, less[1], tv[less[1].target]) ELSE q = <<>>
      BY <2>5, <2>6 DEF none
    <3>2. IF k - 1 >= 2 THEN Says(none, less[2], tv[less[2].target]) ELSE none = <<>>
      BY <1>2b DEF none
    <3> QED BY <1>1, <2>3, <3>1, <3>2 DEF Spoken
  <2> QED BY <2>2, <2>7 DEF less, s
<1>6. CASE /\ ~ Whole(s) /\ s.method # "GET"
           /\ \E g, l, m : /\ l \in Seq(Symbols) /\ m \in Seq(Symbols) /\ TwoParts(out.symbols, l, m)
                           /\ readHTTPResponse(out, s.method) = Taken(l, g)
  <2>1. PICK g, l, m : /\ l \in Seq(Symbols) /\ m \in Seq(Symbols) /\ TwoParts(out.symbols, l, m)
                       /\ readHTTPResponse(out, s.method) = Taken(l, g)
    BY <1>6
  <2>2. left = Skip(out, Len(l) + 1)
    BY <1>4, <2>1
  <2>3. left \in Sources /\ left.end = out.end
    BY <2>1, <2>2, SkipIs
  <2> QED BY <1>6, <2>3 DEF s
<1>7. \/ \E g : readHTTPResponse(out, s.method) = Taken(p, g)
      \/ /\ ~ Whole(s) /\ s.method # "GET"
         /\ \E g, l, m : /\ l \in Seq(Symbols) /\ m \in Seq(Symbols) /\ TwoParts(out.symbols, l, m)
                         /\ readHTTPResponse(out, s.method) = Taken(l, g)
  BY <1>2a, <1>3 DEF Parsed
<1> QED BY <1>5, <1>6, <1>7

-----------------------------------------------------------------------------
(* Interim responses                                                       *)

\* An interim response.
Pause ==
  Wire(StatusLine(InterimResponse.status), PeerHeader(InterimResponse, "none", Len(InterimResponse.body)), <<>>)

\* What is assumed of it.
LEMMA InterimIs ==
  /\ InterimResponse \in Contents /\ WellFormed(InterimResponse) /\ InterimResponse.status \in Nat
  /\ Interim(InterimResponse.status) /\ InterimResponse.status # 101
  /\ InterimResponse \in Responses \cup {InterimResponse}
<1>1. InterimResponse \in Responses \cup {InterimResponse}
  OBVIOUS
<1>2. InterimResponse \in Contents /\ WellFormed(InterimResponse)
  BY <1>1, RelayAssumption DEF Contents
<1>3. InterimResponse.status \in Nat
  BY <1>2 DEF Contents
<1> QED BY <1>1, <1>2, <1>3, RelayAssumption

\* It is read as such.
LEMMA PauseReads ==
  ASSUME NEW method
  PROVE  Pause \in Seq(Symbols) /\ \E g : ReadsResponse(Pause, method, g) /\ Interim(g.status)
<1> DEFINE m == InterimResponse
           mode == "none"
           status == m.status
           h == PeerHeader(m, mode, Len(m.body))
           g == ResponseFrom(status, h, "none", <<>>, <<>>)
<1>1. WellFormed(m) /\ mode \in {"none", "fixed", "chunked"} /\ status \in Nat /\ status # 101 /\ Interim(status)
  BY InterimIs
<1>2. Befits(mode, status) /\ responseMustNotHaveBody(method, status)
  BY <1>1 DEF Befits, responseMustNotHaveBody
<1>3. ReadsResponse(Wire(StatusLine(status), h, <<>>), method, g)
  <2> HIDE DEF m, mode, status
  <2> QED BY <1>1, <1>2, PeerBareRead
<1>4. g.status = status
  BY DEF ResponseFrom
<1>5. ReadsResponse(Pause, method, g)
  BY <1>3 DEF Pause
<1>6. Pause \in Seq(Symbols)
  BY <1>5 DEF ReadsResponse
<1> HIDE DEF g, status
<1> QED BY <1>1, <1>4, <1>5, <1>6

\* The upstream has one way to send it.
LEMMA PauseIs ==
  ASSUME NEW method, NEW w \in ResponseFramings(method, InterimResponse)
  PROVE  <<StatusLine(InterimResponse.status)>> \o w.head = Pause
<1>1. PICK mode : AnswerFraming(w, InterimResponse, method, mode)
  BY InterimIs, AnswerFrames
<1>2. mode = "none" /\ w.head = PeerHeader(InterimResponse, mode, Len(InterimResponse.body)) \o <<EmptyLine>>
  BY <1>1, InterimIs DEF AnswerFraming, Befits
<1> DEFINE none == <<>>
           start == StatusLine(InterimResponse.status)
           h == PeerHeader(InterimResponse, "none", Len(InterimResponse.body))
<1>3. none \in Seq(Symbols)
  OBVIOUS
<1>4. start \in Symbols
  BY InterimIs DEF StatusLine, Symbols
<1>5. h \in Seq(Fields)
  <2> DEFINE m == InterimResponse
             bare == "none"
             status == m.status
  <2>1. WellFormed(m) /\ bare \in {"none", "fixed", "chunked"} /\ status \in Nat /\ status # 101
    BY InterimIs
  <2>2. Befits(bare, status)
    BY DEF Befits
  <2> HIDE DEF m, bare, status
  <2>3. PeerHeader(m, bare, Len(m.body)) \in Seq(Fields)
    BY <2>1, <2>2, PeerNotRefused
  <2> QED BY <2>3 DEF m, bare
<1>6. w.head = h \o <<EmptyLine>>
  BY <1>2
<1> HIDE DEF none, start, h
<1>7. <<start>> \o w.head \o none = Wire(start, h, none)
  <2> DEFINE head == w.head
  <2>1. head = h \o <<EmptyLine>>
    BY <1>6
  <2> HIDE DEF head
  <2>2. <<start>> \o head \o none = Wire(start, h, none)
    BY <1>3, <1>4, <1>5, <2>1, WireOf
  <2> QED BY <2>2 DEF head
<1>8. <<start>> \o w.head \in Seq(Symbols)
  <2>1. EmptyLine \in Symbols /\ h \in Seq(Symbols)
    <3>1. \A f \in Fields : f \in Symbols
      BY SymbolKinds
    <3> QED BY <1>5, <3>1, SymbolKinds
  <2> HIDE DEF EmptyLine
  <2>2. w.head \in Seq(Symbols)
    BY <1>6, <2>1
  <2> QED BY <1>4, <2>2
<1>9. <<start>> \o w.head \o none = <<start>> \o w.head
  <2>1. \A y \in Seq(Symbols) : y \o none = y
    BY DEF none
  <2> QED BY <1>8, <2>1
<1> QED BY <1>7, <1>9 DEF Pause, none, start, h

-----------------------------------------------------------------------------

\* f is what n interim responses and fewer amount to.
Pauses(f, n) ==
  /\ f \in [0 .. n -> Seq(Symbols)] /\ f[0] = <<>>
  /\ \A i \in 1 .. n : f[i] = Pause \o f[i - 1]

\* symbols are n interim responses, and then tail.
Queue(symbols, n, tail) ==
  /\ tail \in Seq(Symbols)
  /\ \E f : Pauses(f, n) /\ TwoParts(symbols, f[n], tail)

\* No interim response.
LEMMA QueueNone ==
  /\ \A tail \in Seq(Symbols) : Queue(tail, 0, tail)
  /\ \A symbols, tail : Queue(symbols, 0, tail) => symbols = tail /\ tail \in Seq(Symbols)
<1>1. ASSUME NEW tail \in Seq(Symbols) PROVE Queue(tail, 0, tail)
  <2> DEFINE f == [i \in 0 .. 0 |-> <<>>]
  <2>1. f \in [0 .. 0 -> Seq(Symbols)] /\ f[0] = <<>> /\ \A i \in 1 .. 0 : f[i] = Pause \o f[i - 1]
    OBVIOUS
  <2>2. TwoParts(tail, f[0], tail)
    <3>1. \A e : e = <<>> => TwoParts(tail, e, tail)
      BY DEF TwoParts
    <3> QED BY <2>1, <3>1
  <2> HIDE DEF f
  <2> QED BY <2>1, <2>2 DEF Queue, Pauses
<1>2. ASSUME NEW symbols, NEW tail, Queue(symbols, 0, tail) PROVE symbols = tail /\ tail \in Seq(Symbols)
  <2>1. PICK f : Pauses(f, 0) /\ TwoParts(symbols, f[0], tail)
    BY <1>2 DEF Queue
  <2>2. tail \in Seq(Symbols)
    BY <1>2 DEF Queue
  <2>3. \A e : e = <<>> => e \o tail = tail
    BY <2>2
  <2> QED BY <2>1, <2>2, <2>3 DEF Pauses, TwoParts
<1> QED BY <1>1, <1>2

\* The answer comes after them.
LEMMA QueueLast ==
  ASSUME NEW symbols, NEW n, NEW none, none = <<>>, Queue(symbols, n, none), NEW x \in Seq(Symbols), n \in Nat
  PROVE  Queue(symbols \o x, n, x)
<1>1. PICK f : Pauses(f, n) /\ TwoParts(symbols, f[n], none)
  BY DEF Queue
<1>2. f[n] \in Seq(Symbols)
  BY <1>1 DEF Pauses
<1>3. symbols = f[n]
  <2>1. \A y \in Seq(Symbols) : y \o none = y
    OBVIOUS
  <2> QED BY <1>1, <1>2, <2>1 DEF TwoParts
<1>4. TwoParts(symbols \o x, f[n], x)
  BY <1>3 DEF TwoParts
<1> QED BY <1>1, <1>4 DEF Queue

\* One interim response more.
LEMMA QueueMore ==
  ASSUME NEW symbols, NEW n \in Nat, NEW none, none = <<>>, Queue(symbols, n, none)
  PROVE  Queue(symbols \o Pause, n + 1, none)
<1>1. PICK f : Pauses(f, n) /\ TwoParts(symbols, f[n], none)
  BY DEF Queue
<1>2. Pause \in Seq(Symbols)
  BY PauseReads
<1>3. f \in [0 .. n -> Seq(Symbols)] /\ f[0] = <<>> /\ \A i \in 1 .. n : f[i] = Pause \o f[i - 1]
  BY <1>1 DEF Pauses
<1>4. none \in Seq(Symbols) /\ \A y \in Seq(Symbols) : y \o none = y /\ none \o y = y
  OBVIOUS
<1>5. symbols = f[n] /\ f[n] \in Seq(Symbols)
  BY <1>1, <1>3, <1>4 DEF TwoParts
<1> DEFINE p == Pause
           T == {k \in 0 .. n : p \o f[k] = f[k] \o p}
<1>6. p \in Seq(Symbols) /\ \A i \in 1 .. n : f[i] = p \o f[i - 1]
  BY <1>2, <1>3
<1> HIDE DEF p
<1>7. 0 \in T
  <2>1. f[0] = none
    BY <1>3
  <2> QED BY <1>4, <1>6, <2>1
<1>8. ASSUME NEW k \in 0 .. n - 1, k \in T PROVE k + 1 \in T
  <2>1. k + 1 \in 1 .. n /\ k \in 0 .. n /\ k + 1 \in 0 .. n /\ k + 1 - 1 = k
    OBVIOUS
  <2>2. f[k + 1] = p \o f[k]
    BY <1>6, <2>1
  <2>3. f[k] \in Seq(Symbols)
    BY <1>3, <2>1
  <2>4. p \o f[k] = f[k] \o p
    BY <1>8
  <2>5. \A x \in Seq(Symbols) : (p \o x) \o p = p \o (x \o p)
    BY <1>6
  <2>6. (p \o f[k]) \o p = p \o (f[k] \o p)
    BY <2>3, <2>5
  <2>7. p \o f[k + 1] = f[k + 1] \o p
    BY <2>2, <2>4, <2>6
  <2> QED BY <2>1, <2>7
<1>9. 0 .. n \subseteq T
  <2> HIDE DEF T
  <2> QED BY <1>7, <1>8, Induct
<1>10. f[n] \o p = p \o f[n]
  <2>1. n \in T
    BY <1>9
  <2> QED BY <2>1
<1> DEFINE g == [i \in 0 .. n + 1 |-> IF i <= n THEN f[i] ELSE p \o f[n]]
<1>11. p \o f[n] \in Seq(Symbols)
  BY <1>5, <1>6
<1>12. Pauses(g, n + 1)
  <2>1. g \in [0 .. n + 1 -> Seq(Symbols)] /\ g[0] = <<>>
    BY <1>3, <1>11
  <2>2. ASSUME NEW i \in 1 .. n + 1 PROVE g[i] = p \o g[i - 1]
    <3>1. CASE i <= n
      BY <1>6, <3>1
    <3>2. CASE i = n + 1
      BY <3>2
    <3>3. i <= n \/ i = n + 1
      OBVIOUS
    <3> QED BY <3>1, <3>2, <3>3
  <2> HIDE DEF g
  <2> QED BY <2>1, <2>2 DEF Pauses, p
<1>13. g[n + 1] = symbols \o p
  BY <1>5, <1>10
<1>14. TwoParts(symbols \o p, g[n + 1], none)
  <2>1. symbols \o p \in Seq(Symbols)
    BY <1>5, <1>6
  <2> HIDE DEF g
  <2> QED BY <1>4, <1>13, <2>1 DEF TwoParts
<1> HIDE DEF g
<1> QED BY <1>4, <1>12, <1>14 DEF Queue, p

\* What is left after the next interim response.
Onward(in, method, n, tail) ==
  LET r == readHTTPResponse(in, method)
      left == Skip(in, r.next)
  IN /\ r.verdict = "read" /\ Interim(r.message.status)
     /\ left \in Sources /\ left.end = in.end /\ Queue(left.symbols, n, tail)

\* The next interim response is read.
LEMMA QueueNext ==
  ASSUME NEW in \in Sources, NEW n \in Nat, n > 0, NEW tail, Queue(in.symbols, n, tail), NEW method
  PROVE  Onward(in, method, n - 1, tail)
<1>1. PICK f : Pauses(f, n) /\ TwoParts(in.symbols, f[n], tail)
  BY DEF Queue
<1>2. Pause \in Seq(Symbols) /\ tail \in Seq(Symbols)
  BY PauseReads DEF Queue
<1>3. f \in [0 .. n -> Seq(Symbols)] /\ f[0] = <<>> /\ \A i \in 1 .. n : f[i] = Pause \o f[i - 1]
  BY <1>1 DEF Pauses
<1>4. PICK g : ReadsResponse(Pause, method, g) /\ Interim(g.status)
  BY PauseReads
<1> DEFINE p == Pause
           x == f[n - 1]
<1>5. p \in Seq(Symbols) /\ x \in Seq(Symbols) /\ f[n] = p \o x /\ n - 1 \in Nat
  BY <1>2, <1>3
<1>6. in.symbols = (p \o x) \o tail
  BY <1>1, <1>5 DEF TwoParts
<1> HIDE DEF p, x
<1> DEFINE q == x \o tail
<1>7. q \in Seq(Symbols) /\ (p \o x) \o tail = p \o q
  <2>1. p \in Seq(Symbols) /\ x \in Seq(Symbols) /\ tail \in Seq(Symbols)
    BY <1>2, <1>5
  <2> QED BY <2>1, SMTT(20)
<1> HIDE DEF q
<1>8. in.symbols = p \o q
  BY <1>6, <1>7
<1>9. readHTTPResponse(in, method) = Taken(p, g)
  BY <1>4, <1>7, <1>8 DEF ReadsResponse, Starts, p
<1>10. Skip(in, Len(p) + 1) \in Sources /\ Skip(in, Len(p) + 1).symbols = q /\ Skip(in, Len(p) + 1).end = in.end
  BY <1>5, <1>7, <1>8, SkipIs DEF TwoParts
<1> DEFINE h == [i \in 0 .. n - 1 |-> f[i]]
<1>11. Pauses(h, n - 1)
  <2>1. h \in [0 .. n - 1 -> Seq(Symbols)] /\ h[0] = <<>> /\ \A i \in 1 .. n - 1 : h[i] = Pause \o h[i - 1]
    <3>1. h \in [0 .. n - 1 -> Seq(Symbols)]
      BY <1>3
    <3>2. h[0] = <<>>
      BY <1>3
    <3>3. ASSUME NEW i \in 1 .. n - 1 PROVE h[i] = Pause \o h[i - 1]
      <4>1. h[i] = f[i] /\ h[i - 1] = f[i - 1] /\ i \in 1 .. n
        OBVIOUS
      <4> QED BY <1>3, <4>1
    <3> QED BY <3>1, <3>2, <3>3
  <2> HIDE DEF h
  <2> QED BY <2>1 DEF Pauses
<1>12. h[n - 1] = x
  BY <1>5 DEF x
<1>13. TwoParts(q, h[n - 1], tail)
  BY <1>12 DEF TwoParts, q
<1> HIDE DEF h
<1>14. Queue(q, n - 1, tail)
  BY <1>2, <1>11, <1>13 DEF Queue
<1>15. Taken(p, g).verdict = "read" /\ Taken(p, g).message = g /\ Taken(p, g).next = Len(p) + 1
  BY DEF Taken
<1> QED BY <1>4, <1>9, <1>10, <1>14, <1>15 DEF Onward

-----------------------------------------------------------------------------
(* An exchange with the upstream                                           *)

\* A request that the client sent as a whole.
Genuine(s) == Whole(s) /\ s.message \in Requests /\ s.method = s.message.method

\* tail is not read as an answer, however the connection goes on after end.
Unreadable(tail, end, method) ==
  \A in \in Sources :
    in.symbols = tail /\ (in.end = end \/ in.end = "timeout" \/ end = "open")
      => readHTTPResponse(in, method).verdict # "read"

\* tail is the whole answer a to s, after as many interim responses.
Fits(tail, end, s, a) ==
  \E g : /\ Gives(g, a.message, s.method)
         /\ ReadsResponse(tail, s.method, g) \/ (end = "fin" /\ ReadToEnd(tail, s.method, g))

\* It comes through: the interim responses before it are not too many.
Completed(tail, end, s, a, total) ==
  Served(a) /\ a.message \in Responses /\ total <= MaxInformationalResponses /\ Fits(tail, end, s, a)

\* tail is what there is of an answer that does not come through.
Spoilt(tail, end, s, a, total) ==
  ~ Served(a) /\ (total = MaxInformationalResponses + 1 \/ Unreadable(tail, end, s.method))

\* The request s is on its way to the upstream, or it has been read there, or

\* the answer a is on its way, after interim responses of which the proxy has
\* read i.
Passing(fw, bk, up, i, s, a) ==
  /\ up = Idle /\ i = 0 /\ bk.symbols = <<>> /\ a = None
  /\ \E h : ReadsRequest(fw.symbols, h) /\ HearsMessage(h, s.message, s.target)

\* The upstream has read it and may be sending interim responses.
Heeded(fw, bk, up, i, s, a) ==
  /\ fw.symbols = <<>> /\ a = None /\ HearsMessage(up.request, s.message, s.target)
  /\ \E n \in Nat : Queue(bk.symbols, n, <<>>) /\ i + n = up.interim

\* The upstream has answered, or broken off.
Replied(fw, bk, up, i, s, a) ==
  /\ up = Idle /\ fw.symbols = <<>>
  /\ \E n \in Nat, tail \in Seq(Symbols) :
       /\ Queue(bk.symbols, n, tail) /\ i + n <= MaxInformationalResponses + 1
       /\ Completed(tail, bk.end, s, a, i + n) \/ Spoilt(tail, bk.end, s, a, i + n)

\* One of the three.
Underway(fw, bk, up, i, s, a) ==
  Passing(fw, bk, up, i, s, a) \/ Heeded(fw, bk, up, i, s, a) \/ Replied(fw, bk, up, i, s, a)

\* Nothing is read of nothing.
LEMMA EmptyRead ==
  ASSUME NEW in, in.symbols = <<>>
  PROVE  /\ readHTTPRequest(in).verdict # "read"
         /\ \A method : readHTTPResponse(in, method).verdict # "read"
         /\ in.end = "open" => readHTTPRequest(in).verdict = "more"
              /\ \A method : readHTTPResponse(in, method).verdict = "more"
         /\ in.end # "reset" /\ in.end \in Ends => readHTTPRequest(in).verdict \in {"more", "eof", "timeout"}
         /\ in.end = "fin" => \A method : readHTTPResponse(in, method).verdict = "eof"
<1>1. /\ readHTTPRequest(in) = protocolErrorFromRead(in, TRUE, FALSE)
      /\ \A method : readHTTPResponse(in, method) = protocolErrorFromRead(in, TRUE, FALSE)
  BY NothingRead
<1>2. protocolErrorFromRead(in, TRUE, FALSE).verdict # "read"
  BY ReadErrors
<1>3. in.end = "open" => protocolErrorFromRead(in, TRUE, FALSE).verdict = "more"
  BY DEF protocolErrorFromRead, Error
<1>4. in.end # "reset" /\ in.end \in Ends => protocolErrorFromRead(in, TRUE, FALSE).verdict \in {"more", "eof", "timeout"}
  BY DEF protocolErrorFromRead, Error, Ends
<1>5. in.end = "fin" => protocolErrorFromRead(in, TRUE, FALSE).verdict = "eof"
  BY DEF protocolErrorFromRead, Error
<1> QED BY <1>1, <1>2, <1>3, <1>4, <1>5

\* The upstream reads the request.
LEMMA UnderwayRead ==
  ASSUME NEW fw \in Sources, NEW bk, NEW up, NEW i, NEW s, NEW a, Underway(fw, bk, up, i, s, a),
         readHTTPRequest(fw).verdict = "read", NEW on, on = [up EXCEPT !.request = readHTTPRequest(fw).message]
  PROVE  LET left == Skip(fw, readHTTPRequest(fw).next)
         IN /\ left \in Sources /\ left.end = fw.end /\ on = [request |-> on.request, interim |-> 0]
            /\ Underway(left, bk, on, i, s, a)
<1>1. fw.symbols # <<>>
  BY EmptyRead
<1>2. Passing(fw, bk, up, i, s, a)
  BY <1>1 DEF Underway, Heeded, Replied
<1>3. PICK h : ReadsRequest(fw.symbols, h) /\ HearsMessage(h, s.message, s.target)
  BY <1>2 DEF Passing
<1>4. readHTTPRequest(fw) = Taken(fw.symbols, h)
  BY <1>3, ReadsAll
<1>5. readHTTPRequest(fw).message = h /\ readHTTPRequest(fw).next = Len(fw.symbols) + 1
  BY <1>4 DEF Taken
<1> DEFINE none == <<>>
           x == fw.symbols
<1>6. x \in Seq(Symbols)
  BY <1>3 DEF ReadsRequest
<1>7. none \in Seq(Symbols) /\ TwoParts(fw.symbols, x, none)
  BY <1>6 DEF TwoParts
<1> HIDE DEF none, x
<1>8. Skip(fw, Len(x) + 1) \in Sources /\ Skip(fw, Len(x) + 1).symbols = none /\ Skip(fw, Len(x) + 1).end = fw.end
  BY <1>6, <1>7, SkipIs
<1>9. up = Idle /\ i = 0 /\ bk.symbols = <<>> /\ a = None
  BY <1>2 DEF Passing
<1>10. on = [request |-> h, interim |-> 0]
  BY <1>5, <1>9 DEF Idle
<1>11. on.request = h /\ on.interim = 0
  BY <1>10
<1>12. Queue(bk.symbols, 0, <<>>)
  <2> DEFINE e == <<>>
  <2>1. e \in Seq(Symbols) /\ bk.symbols = e
    BY <1>9
  <2> HIDE DEF e
  <2>2. Queue(bk.symbols, 0, e)
    BY <2>1, QueueNone
  <2> QED BY <2>2 DEF e
<1> DEFINE left == Skip(fw, readHTTPRequest(fw).next)
<1>13. left \in Sources /\ left.symbols = <<>> /\ left.end = fw.end
  BY <1>5, <1>8 DEF x, none
<1> HIDE DEF left
<1>14. Heeded(left, bk, on, i, s, a)
  <2>1. \E n \in Nat : Queue(bk.symbols, n, <<>>) /\ i + n = on.interim
    <3> WITNESS 0 \in Nat
    <3> QED BY <1>9, <1>11, <1>12
  <2> QED BY <1>3, <1>9, <1>11, <1>13, <2>1 DEF Heeded
<1> QED BY <1>10, <1>11, <1>13, <1>14 DEF Underway, left

\* What is under way while the upstream has a request.
LEMMA UnderwayDue ==
  ASSUME NEW fw, NEW bk, NEW up, NEW i, NEW s, NEW a, Underway(fw, bk, up, i, s, a), up.request # None
  PROVE  /\ Heeded(fw, bk, up, i, s, a)
         /\ Genuine(s) => up.request.method = s.method /\ up.request.target = s.target
<1>1. up # Idle
  BY DEF Idle
<1>2. Heeded(fw, bk, up, i, s, a)
  BY <1>1 DEF Underway, Passing, Replied
<1> QED BY <1>2 DEF Heeded, HearsMessage, Genuine

\* It sends an interim response.
LEMMA UnderwayPause ==
  ASSUME NEW fw, NEW bk \in Sources, NEW up, NEW i \in Nat, NEW s, NEW a, Underway(fw, bk, up, i, s, a),
         up.request # None, up.interim \in Nat, up = [request |-> up.request, interim |-> up.interim]
  PROVE  /\ Arrive(bk, Pause, "open") \in Sources
         /\ Underway(fw, Arrive(bk, Pause, "open"), [up EXCEPT !.interim = @ + 1], i, s, a)
<1>1. Heeded(fw, bk, up, i, s, a)
  BY UnderwayDue
<1>2. PICK n \in Nat : Queue(bk.symbols, n, <<>>) /\ i + n = up.interim
  BY <1>1 DEF Heeded
<1>3. Pause \in Seq(Symbols)
  BY PauseReads
<1> DEFINE bk2 == Arrive(bk, Pause, "open")
           up2 == [up EXCEPT !.interim = @ + 1]
<1>4. bk2 \in Sources /\ bk2.symbols = bk.symbols \o Pause
  <2> DEFINE end == "open"
  <2>1. end \in Ends
    BY DEF Ends
  <2> HIDE DEF end
  <2>2. Arrive(bk, Pause, end) \in Sources /\ Arrive(bk, Pause, end).symbols = bk.symbols \o Pause
    BY <1>3, <2>1, ArriveIs
  <2> QED BY <2>2 DEF end
<1>5. up2.request = up.request /\ up2.interim = up.interim + 1
  <2>1. PICK r, j : r = up.request /\ j = up.interim
    OBVIOUS
  <2>2. up = [request |-> r, interim |-> j]
    BY <2>1
  <2>3. up2 = [up EXCEPT !.interim = j + 1]
    BY <2>2
  <2>4. [up EXCEPT !.interim = j + 1] = [request |-> r, interim |-> j + 1]
    BY <2>2
  <2> QED BY <2>1, <2>3, <2>4
<1> HIDE DEF bk2, up2
<1>6. Queue(bk2.symbols, n + 1, <<>>)
  <2> DEFINE none == <<>>
  <2>1. none = <<>> /\ Queue(bk.symbols, n, none)
    BY <1>2
  <2> HIDE DEF none
  <2>2. Queue(bk.symbols \o Pause, n + 1, none)
    BY <2>1, QueueMore
  <2> QED BY <1>4, <2>1, <2>2
<1>7. Heeded(fw, bk2, up2, i, s, a)
  <2>1. n + 1 \in Nat /\ i + (n + 1) = up2.interim
    BY <1>2, <1>5
  <2> QED BY <1>1, <1>5, <1>6, <2>1 DEF Heeded
<1> QED BY <1>4, <1>7 DEF Underway, bk2, up2

\* It answers.
LEMMA UnderwayAnswer ==
  ASSUME NEW fw, NEW bk \in Sources, NEW up, NEW i \in Nat, NEW s, NEW a, Underway(fw, bk, up, i, s, a),
         up.request # None, up.interim \in 0 .. MaxInformationalResponses + 1,
         NEW x \in Seq(Symbols), NEW end \in Ends, NEW b,
         \/ Completed(x, end, s, b, up.interim) \/ Spoilt(x, end, s, b, up.interim)
  PROVE  Arrive(bk, x, end) \in Sources /\ Underway(fw, Arrive(bk, x, end), Idle, i, s, b)
<1>1. Heeded(fw, bk, up, i, s, a)
  BY UnderwayDue
<1>2. PICK n \in Nat : Queue(bk.symbols, n, <<>>) /\ i + n = up.interim
  BY <1>1 DEF Heeded
<1> DEFINE bk2 == Arrive(bk, x, end)
<1>3. bk2 \in Sources /\ bk2.symbols = bk.symbols \o x /\ bk2.end = end
  BY ArriveIs
<1> HIDE DEF bk2
<1>4. Queue(bk2.symbols, n, x)
  <2> DEFINE none == <<>>
  <2>1. none = <<>> /\ Queue(bk.symbols, n, none)
    BY <1>2
  <2> HIDE DEF none
  <2>2. Queue(bk.symbols \o x, n, x)
    BY <2>1, QueueLast
  <2> QED BY <1>3, <2>2
<1>5. MaxInformationalResponses \in Nat
  BY RelayAssumption
<1>6. i + n <= MaxInformationalResponses + 1
  BY <1>2, <1>5
<1>7. Completed(x, bk2.end, s, b, i + n) \/ Spoilt(x, bk2.end, s, b, i + n)
  BY <1>2, <1>3
<1>8. Replied(fw, bk2, Idle, i, s, b)
  BY <1>1, <1>4, <1>6, <1>7 DEF Replied, Heeded
<1> QED BY <1>3, <1>8 DEF Underway, bk2

\* What the proxy reads of an answer that is complete, and of one that is not.
LEMMA CompletedRead ==
  ASSUME NEW bk \in Sources, NEW s, NEW a, NEW total, Completed(bk.symbols, bk.end, s, a, total)
  PROVE  LET r == readHTTPResponse(bk, s.method)
             left == Skip(bk, r.next)
         IN /\ r.verdict = "read" /\ Gives(r.message, a.message, s.method)
            /\ left \in Sources /\ left.symbols = <<>> /\ left.end = bk.end
<1> DEFINE x == bk.symbols
           none == <<>>
<1>1. x \in Seq(Symbols)
  BY DEF Sources
<1>2. PICK g : /\ Gives(g, a.message, s.method)
               /\ ReadsResponse(x, s.method, g) \/ (bk.end = "fin" /\ ReadToEnd(x, s.method, g))
  BY DEF Completed, Fits
<1>3. readHTTPResponse(bk, s.method) = Taken(x, g)
  <2>1. CASE ReadsResponse(x, s.method, g)
    BY <2>1, ReadsAll
  <2>2. CASE bk.end = "fin" /\ ReadToEnd(x, s.method, g)
    BY <2>2 DEF ReadToEnd
  <2> QED BY <1>2, <2>1, <2>2
<1>4. none \in Seq(Symbols) /\ TwoParts(bk.symbols, x, none)
  BY <1>1 DEF TwoParts
<1> HIDE DEF none, x
<1>5. Skip(bk, Len(x) + 1) \in Sources /\ Skip(bk, Len(x) + 1).symbols = none /\ Skip(bk, Len(x) + 1).end = bk.end
  BY <1>1, <1>4, SkipIs
<1>6. Taken(x, g).verdict = "read" /\ Taken(x, g).message = g /\ Taken(x, g).next = Len(x) + 1
  BY DEF Taken
<1> QED BY <1>2, <1>3, <1>5, <1>6 DEF none

\* An answer that does not come through is not read, unless the interim responses
\* were too many.
LEMMA SpoiltRead ==
  ASSUME NEW bk \in Sources, NEW s, NEW a, NEW total, Spoilt(bk.symbols, bk.end, s, a, total),
         total # MaxInformationalResponses + 1
  PROVE  readHTTPResponse(bk, s.method).verdict # "read"
BY DEF Spoilt, Unreadable

\* The proxy reads something else than an answer.
LEMMA UnderwayFails ==
  ASSUME NEW fw, NEW bk \in Sources, NEW up, NEW i, NEW s, NEW a, Underway(fw, bk, up, i, s, a),
         readHTTPResponse(bk, s.method).verdict # "read"
  PROVE  ~ Served(a)
<1>1. CASE Passing(fw, bk, up, i, s, a) \/ Heeded(fw, bk, up, i, s, a)
  BY <1>1 DEF Passing, Heeded, Served
<1>2. CASE Replied(fw, bk, up, i, s, a)
  <2>1. PICK n \in Nat, tail \in Seq(Symbols) :
       /\ Queue(bk.symbols, n, tail) /\ i + n <= MaxInformationalResponses + 1
       /\ Completed(tail, bk.end, s, a, i + n) \/ Spoilt(tail, bk.end, s, a, i + n)
    BY <1>2 DEF Replied
  <2>2. ~ (n > 0)
    <3> SUFFICES ASSUME n > 0 PROVE FALSE
      OBVIOUS
    <3>1. Onward(bk, s.method, n - 1, tail)
      <4> DEFINE method == s.method
      <4> HIDE DEF method
      <4>1. Onward(bk, method, n - 1, tail)
        BY <2>1, QueueNext
      <4> QED BY <4>1 DEF method
    <3> QED BY <3>1 DEF Onward
  <2>3. n = 0
    BY <2>2
  <2>4. bk.symbols = tail
    BY <2>1, <2>3, QueueNone
  <2>5. ~ Completed(tail, bk.end, s, a, i + n)
    <3> DEFINE total == i + n
    <3> HIDE DEF total
    <3>1. ~ Completed(tail, bk.end, s, a, total)
      BY <2>4, CompletedRead
    <3> QED BY <3>1 DEF total
  <2> QED BY <2>1, <2>5 DEF Spoilt
<1> QED BY <1>1, <1>2 DEF Underway

\* It reads an interim response.
LEMMA UnderwayInterim ==
  ASSUME NEW fw, NEW bk \in Sources, NEW up, NEW i \in 0 .. MaxInformationalResponses, NEW s, NEW a,
         Underway(fw, bk, up, i, s, a), up.interim \in Nat, \A m \in Responses : ~ Interim(m.status),
         readHTTPResponse(bk, s.method).verdict = "read", Interim(readHTTPResponse(bk, s.method).message.status)
  PROVE  LET left == Skip(bk, readHTTPResponse(bk, s.method).next)
         IN /\ left \in Sources
            /\ i = MaxInformationalResponses => ~ Served(a)
            /\ i < MaxInformationalResponses => Underway(fw, left, up, i + 1, s, a)
<1>0. MaxInformationalResponses \in Nat /\ i \in Nat
  BY RelayAssumption
<1> DEFINE method == s.method
           left == Skip(bk, readHTTPResponse(bk, s.method).next)
<1>1. bk.symbols # <<>>
  BY EmptyRead
<1>2. CASE Heeded(fw, bk, up, i, s, a)
  <2>1. PICK n \in Nat : Queue(bk.symbols, n, <<>>) /\ i + n = up.interim
    BY <1>2 DEF Heeded
  <2> DEFINE none == <<>>
  <2>2. Queue(bk.symbols, n, none) /\ bk.symbols # none
    BY <1>1, <2>1
  <2> HIDE DEF none, method
  <2>3. n > 0
    <3>1. n # 0
      BY <2>2, QueueNone
    <3> QED BY <3>1
  <2>4. Onward(bk, method, n - 1, none)
    BY <2>2, <2>3, QueueNext
  <2>5. left \in Sources /\ left.end = bk.end /\ Queue(left.symbols, n - 1, none)
    BY <2>4 DEF Onward, method
  <2> HIDE DEF left
  <2>6. n - 1 \in Nat /\ i + 1 + (n - 1) = up.interim
    BY <1>0, <2>1, <2>3
  <2>7. Heeded(fw, left, up, i + 1, s, a)
    BY <1>2, <2>5, <2>6 DEF Heeded, none
  <2>8. ~ Served(a)
    BY <1>2 DEF Heeded, Served
  <2> QED BY <2>5, <2>7, <2>8 DEF Underway, left
<1>3. CASE Replied(fw, bk, up, i, s, a)
  <2>1. PICK n \in Nat, tail \in Seq(Symbols) :
       /\ Queue(bk.symbols, n, tail) /\ i + n <= MaxInformationalResponses + 1
       /\ Completed(tail, bk.end, s, a, i + n) \/ Spoilt(tail, bk.end, s, a, i + n)
    BY <1>3 DEF Replied
  <2>2. n > 0
    <3> SUFFICES ASSUME n = 0 PROVE FALSE
      OBVIOUS
    <3>1. bk.symbols = tail
      BY <2>1, QueueNone
    <3> DEFINE total == i + n
    <3>2. total # MaxInformationalResponses + 1
      BY <1>0
    <3>3. Completed(bk.symbols, bk.end, s, a, total) \/ Spoilt(bk.symbols, bk.end, s, a, total)
      BY <2>1, <3>1
    <3> HIDE DEF total
    <3>4. Completed(bk.symbols, bk.end, s, a, total)
      BY <3>2, <3>3, SpoiltRead
    <3>5. Gives(readHTTPResponse(bk, s.method).message, a.message, s.method)
      BY <3>4, CompletedRead
    <3>6. a.message \in Responses
      BY <3>4 DEF Completed
    <3>7. Interim(a.message.status)
      BY <3>5 DEF Gives
    <3> QED BY <3>6, <3>7
  <2> HIDE DEF method
  <2>3. Onward(bk, method, n - 1, tail)
    BY <2>1, <2>2, QueueNext
  <2>4. left \in Sources /\ left.end = bk.end /\ Queue(left.symbols, n - 1, tail)
    BY <2>3 DEF Onward, method
  <2> HIDE DEF left
  <2>5. n - 1 \in Nat /\ i + 1 + (n - 1) = i + n
    BY <1>0, <2>1, <2>2
  <2>6. Replied(fw, left, up, i + 1, s, a)
    <3> DEFINE j == i + 1
               l == n - 1
    <3>1. l \in Nat /\ j + l = i + n
      BY <2>5
    <3> HIDE DEF j, l
    <3>2. Queue(left.symbols, l, tail)
      BY <2>4 DEF l
    <3>3. /\ j + l <= MaxInformationalResponses + 1
          /\ Completed(tail, left.end, s, a, j + l) \/ Spoilt(tail, left.end, s, a, j + l)
      BY <2>1, <2>4, <3>1
    <3>4. Replied(fw, left, up, j, s, a)
      BY <1>3, <3>1, <3>2, <3>3 DEF Replied
    <3> QED BY <3>4 DEF j
  <2>7. i = MaxInformationalResponses => ~ Served(a)
    <3>1. Completed(tail, bk.end, s, a, i + n) => i + n <= MaxInformationalResponses
      BY DEF Completed
    <3>2. i = MaxInformationalResponses => ~ (i + n <= MaxInformationalResponses)
      BY <1>0, <2>2
    <3> QED BY <2>1, <3>1, <3>2 DEF Spoilt
  <2> QED BY <2>4, <2>6, <2>7 DEF Underway, left
<1>4. ~ Passing(fw, bk, up, i, s, a)
  BY <1>1 DEF Passing
<1> QED BY <1>2, <1>3, <1>4 DEF Underway

\* It reads the answer.
LEMMA UnderwayAnswered ==
  ASSUME NEW fw, NEW bk \in Sources, NEW up, NEW i \in 0 .. MaxInformationalResponses, NEW s, NEW a,
         Underway(fw, bk, up, i, s, a),
         readHTTPResponse(bk, s.method).verdict = "read", ~ Interim(readHTTPResponse(bk, s.method).message.status)
  PROVE  LET r == readHTTPResponse(bk, s.method)
             left == Skip(bk, r.next)
         IN /\ up = Idle /\ fw.symbols = <<>>
            /\ Served(a) /\ a.message \in Responses /\ Gives(r.message, a.message, s.method)
            /\ left \in Sources /\ left.symbols = <<>>
<1>0. MaxInformationalResponses \in Nat /\ i \in Nat
  BY RelayAssumption
<1> DEFINE method == s.method
<1>1. bk.symbols # <<>>
  BY EmptyRead
<1>2. \A l, n, tail : ~ Onward(bk, method, n, tail)
  BY DEF Onward
<1>3. ~ Heeded(fw, bk, up, i, s, a)
  <2> SUFFICES ASSUME Heeded(fw, bk, up, i, s, a) PROVE FALSE
    OBVIOUS
  <2>1. PICK n \in Nat : Queue(bk.symbols, n, <<>>)
    BY DEF Heeded
  <2> DEFINE none == <<>>
  <2>2. Queue(bk.symbols, n, none) /\ bk.symbols # none
    BY <1>1, <2>1
  <2> HIDE DEF none, method
  <2>3. n > 0
    <3>1. n # 0
      BY <2>2, QueueNone
    <3> QED BY <3>1
  <2>4. Onward(bk, method, n - 1, none)
    BY <2>2, <2>3, QueueNext
  <2> QED BY <1>2, <2>4
<1>4. ~ Passing(fw, bk, up, i, s, a)
  BY <1>1 DEF Passing
<1>5. Replied(fw, bk, up, i, s, a)
  BY <1>3, <1>4 DEF Underway
<1>6. PICK n \in Nat, tail \in Seq(Symbols) :
       /\ Queue(bk.symbols, n, tail) /\ i + n <= MaxInformationalResponses + 1
       /\ Completed(tail, bk.end, s, a, i + n) \/ Spoilt(tail, bk.end, s, a, i + n)
  BY <1>5 DEF Replied
<1>7. n = 0
  <2> SUFFICES ASSUME n > 0 PROVE FALSE
    OBVIOUS
  <2> HIDE DEF method
  <2>1. Onward(bk, method, n - 1, tail)
    BY <1>6, QueueNext
  <2> QED BY <1>2, <2>1
<1>8. bk.symbols = tail
  BY <1>6, <1>7, QueueNone
<1> DEFINE total == i + n
<1>9. total # MaxInformationalResponses + 1
  BY <1>0, <1>7
<1>10. Completed(bk.symbols, bk.end, s, a, total) \/ Spoilt(bk.symbols, bk.end, s, a, total)
  BY <1>6, <1>8
<1> HIDE DEF total
<1>11. Completed(bk.symbols, bk.end, s, a, total)
  BY <1>9, <1>10, SpoiltRead
<1>12. LET r == readHTTPResponse(bk, s.method)
           left == Skip(bk, r.next)
       IN /\ Gives(r.message, a.message, s.method) /\ left \in Sources /\ left.symbols = <<>>
  BY <1>11, CompletedRead
<1>13. Served(a) /\ a.message \in Responses
  BY <1>11 DEF Completed
<1>14. up = Idle /\ fw.symbols = <<>>
  BY <1>5 DEF Replied
<1> QED BY <1>12, <1>13, <1>14

\* What is under way does not depend on how the connection ends, unless the
\* proxy reads it.
LEMMA UnderwayEnds ==
  ASSUME NEW fw, NEW bk \in Sources, NEW up, NEW i \in Nat, NEW s, NEW a, Underway(fw, bk, up, i, s, a),
         NEW end \in Ends, bk.end = "open" \/ (end = "timeout" /\ readHTTPResponse(bk, s.method).verdict # "read")
  PROVE  /\ [bk EXCEPT !.end = end] \in Sources
         /\ Underway(fw, [bk EXCEPT !.end = end], up, i, s, a)
<1> DEFINE over == [bk EXCEPT !.end = end]
<1>1. over \in Sources /\ over.symbols = bk.symbols /\ over.end = end
  <2>1. PICK x, e : x = bk.symbols /\ e = bk.end
    OBVIOUS
  <2>2. bk = [symbols |-> x, end |-> e] /\ x \in Seq(Symbols)
    BY <2>1 DEF Sources
  <2>3. over = [symbols |-> x, end |-> end]
    BY <2>2
  <2>4. [symbols |-> x, end |-> end] \in Sources
    BY <2>2 DEF Sources
  <2> QED BY <2>1, <2>3, <2>4
<1> HIDE DEF over
<1>2. CASE Passing(fw, bk, up, i, s, a)
  BY <1>1, <1>2 DEF Passing, Underway, over
<1>3. CASE Heeded(fw, bk, up, i, s, a)
  BY <1>1, <1>3 DEF Heeded, Underway, over
<1>4. CASE Replied(fw, bk, up, i, s, a)
  <2>1. PICK n \in Nat, tail \in Seq(Symbols) :
       /\ Queue(bk.symbols, n, tail) /\ i + n <= MaxInformationalResponses + 1
       /\ Completed(tail, bk.end, s, a, i + n) \/ Spoilt(tail, bk.end, s, a, i + n)
    BY <1>4 DEF Replied
  <2> DEFINE total == i + n
  <2>2. Completed(tail, bk.end, s, a, total) => Completed(tail, end, s, a, total)
    <3> SUFFICES ASSUME Completed(tail, bk.end, s, a, total) PROVE Completed(tail, end, s, a, total)
      OBVIOUS
    <3>1. bk.end = "open"
      <4>1. CASE bk.end # "open"
        <5>1. ~ Served(a)
          BY <4>1, UnderwayFails
        <5> QED BY <5>1 DEF Completed
      <4> QED BY <4>1
    <3>2. Fits(tail, end, s, a)
      BY <3>1 DEF Completed, Fits
    <3> QED BY <3>2 DEF Completed
  <2>3. Spoilt(tail, bk.end, s, a, total) => Spoilt(tail, end, s, a, total)
    <3> SUFFICES ASSUME Spoilt(tail, bk.end, s, a, total) PROVE Spoilt(tail, end, s, a, total)
      OBVIOUS
    <3>1. Unreadable(tail, bk.end, s.method) => Unreadable(tail, end, s.method)
      <4> SUFFICES ASSUME Unreadable(tail, bk.end, s.method),
                          NEW in \in Sources, in.symbols = tail, in.end = end \/ in.end = "timeout" \/ end = "open"
                   PROVE  readHTTPResponse(in, s.method).verdict # "read"
        BY DEF Unreadable
      <4>1. in.end = bk.end \/ in.end = "timeout" \/ bk.end = "open"
        OBVIOUS
      <4> QED BY <4>1 DEF Unreadable
    <3> QED BY <3>1 DEF Spoilt
  <2> HIDE DEF total
  <2>4. Completed(tail, over.end, s, a, total) \/ Spoilt(tail, over.end, s, a, total)
    BY <1>1, <2>1, <2>2, <2>3 DEF total
  <2>5. Replied(fw, over, up, i, s, a)
    BY <1>1, <1>4, <2>1, <2>4 DEF Replied, total
  <2> QED BY <1>1, <2>5 DEF Underway, over
<1> QED BY <1>2, <1>3, <1>4 DEF Underway

\* An answer of the upstream's.
LEMMA ServedIs ==
  ASSUME NEW m \in Responses \cup {None}, NEW v \in BOOLEAN, NEW b, b = [message |-> m, whole |-> v]
  PROVE  b \in GivenAnswers /\ b # None /\ b.message = m /\ (Served(b) <=> v)
<1>1. b \in [message : Responses \cup {None}, whole : BOOLEAN]
  OBVIOUS
<1>2. b # None
  BY <1>1, NoneAssumption
<1>3. b.message = m /\ b.whole = v
  OBVIOUS
<1> QED BY <1>1, <1>2, <1>3 DEF GivenAnswers, Served, Whole

\* The text of an answer is symbols.
LEMMA AnswerIs ==
  ASSUME NEW m \in Responses, NEW method, NEW w \in ResponseFramings(method, m)
  PROVE  <<StatusLine(m.status)>> \o w.head \o w.body \in Seq(Symbols)
<1>1. PICK g : \/ ReadsResponse(<<StatusLine(m.status)>> \o w.head \o w.body, method, g)
               \/ ReadToEnd(<<StatusLine(m.status)>> \o w.head \o w.body, method, g)
  <2>1. m \in Responses \cup {InterimResponse}
    OBVIOUS
  <2> QED BY <2>1, ResponseTextReads
<1> QED BY <1>1 DEF ReadsResponse, ReadToEnd

\* The upstream answers.
LEMMA AnswerFits ==
  ASSUME NEW m \in Responses, NEW s, NEW w \in ResponseFramings(s.method, m),
         NEW end, end = (IF CloseDelimited(s.method, m, w) \/ HasToken(m.hops, "Connection", "close")
                         THEN "fin" ELSE "open"),
         NEW total \in 0 .. MaxInformationalResponses + 1,
         NEW v, v = (total <= MaxInformationalResponses), NEW b, b = [message |-> m, whole |-> v]
  PROVE  LET x == <<StatusLine(m.status)>> \o w.head \o w.body
         IN Completed(x, end, s, b, total) \/ Spoilt(x, end, s, b, total)
<1> DEFINE x == <<StatusLine(m.status)>> \o w.head \o w.body
<1>1. PICK g : /\ Gives(g, m, s.method)
               /\ ReadsResponse(x, s.method, g) \/ (CloseDelimited(s.method, m, w) /\ ReadToEnd(x, s.method, g))
  <2> DEFINE method == s.method
  <2>1. m \in Responses \cup {InterimResponse} /\ w \in ResponseFramings(method, m)
    OBVIOUS
  <2> HIDE DEF method
  <2>2. \E g : /\ Gives(g, m, method)
               /\ \/ ReadsResponse(<<StatusLine(m.status)>> \o w.head \o w.body, method, g)
                  \/ /\ CloseDelimited(method, m, w)
                     /\ ReadToEnd(<<StatusLine(m.status)>> \o w.head \o w.body, method, g)
    BY <2>1, ResponseTextReads
  <2> QED BY <2>2 DEF method
<1>2. MaxInformationalResponses \in Nat
  BY RelayAssumption
<1>3. v \in BOOLEAN /\ m \in Responses \cup {None}
  OBVIOUS
<1>4. b.message = m /\ (Served(b) <=> v)
  BY <1>3, ServedIs
<1> HIDE DEF x
<1>5. CASE total <= MaxInformationalResponses
  <2>1. Served(b)
    BY <1>4, <1>5
  <2>2. Fits(x, end, s, b)
    BY <1>1, <1>4 DEF Fits
  <2> QED BY <1>4, <1>5, <2>1, <2>2 DEF Completed, x
<1>6. CASE total = MaxInformationalResponses + 1
  <2>1. ~ (total <= MaxInformationalResponses)
    BY <1>2, <1>6
  <2>2. ~ Served(b)
    BY <1>4, <2>1
  <2> QED BY <1>6, <2>2 DEF Spoilt, x
<1>7. total <= MaxInformationalResponses \/ total = MaxInformationalResponses + 1
  BY <1>2
<1> QED BY <1>5, <1>6, <1>7

\* What does not come through is spoilt.
LEMMA UnreadableSpoils ==
  ASSUME NEW x, NEW end, NEW s, Unreadable(x, end, s.method), NEW m \in Responses \cup {None},
         NEW b, b = [message |-> m, whole |-> FALSE], NEW total
  PROVE  Spoilt(x, end, s, b, total)
<1>1. ~ Served(b)
  <2> DEFINE v == FALSE
  <2>1. v \in BOOLEAN /\ b = [message |-> m, whole |-> v] /\ ~ v
    OBVIOUS
  <2> HIDE DEF v
  <2> QED BY <2>1, ServedIs
<1> QED BY <1>1 DEF Spoilt

\* The parts of an answer.
LEMMA AnswerParts ==
  ASSUME NEW m \in Responses, NEW method, NEW w \in ResponseFramings(method, m)
  PROVE  \E h \in Seq(Fields) : w.head = h \o <<EmptyLine>> /\ w.body \in Seq(Symbols)
<1>1. m \in Contents /\ WellFormed(m)
  BY RelayAssumption DEF Contents
<1>2. PICK mode : AnswerFraming(w, m, method, mode)
  BY <1>1, AnswerFrames
<1>3. PICK h : h = PeerHeader(m, mode, Len(m.body)) /\ w.head = h \o <<EmptyLine>>
  BY <1>2 DEF AnswerFraming
<1>4. h \in Seq(Fields)
  <2> DEFINE length == Len(m.body)
  <2>1. length \in 0 .. MaxBodyBytes
    <3>1. m.body \in Seq(Symbols) /\ Len(m.body) <= MaxBodyBytes /\ MaxBodyBytes \in Nat
      BY <1>1, WellIs, LimitsAssumption
    <3> QED BY <3>1
  <2>2. mode \in {"none", "fixed", "chunked"} /\ h = PeerHeader(m, mode, length)
    BY <1>2, <1>3 DEF AnswerFraming
  <2> HIDE DEF length
  <2> QED BY <1>1, <2>1, <2>2, PeerHeaderIs
<1>5. w.body \in Seq(Symbols)
  <2>1. CASE responseMustNotHaveBody(method, m.status)
    <3>1. w.body = <<>>
      BY <1>2, <2>1 DEF AnswerFraming
    <3>2. \A y : y = <<>> => y \in Seq(Symbols)
      OBVIOUS
    <3> QED BY <3>1, <3>2
  <2>2. CASE ~ responseMustNotHaveBody(method, m.status)
    BY <1>2, <2>2 DEF AnswerFraming, PeerFraming
  <2> QED BY <2>1, <2>2
<1> QED BY <1>3, <1>4, <1>5

\* Where its header ends.
LEMMA AnswerBlock ==
  ASSUME NEW m \in Responses, NEW h \in Seq(Fields), NEW head, head = h \o <<EmptyLine>>, NEW body \in Seq(Symbols),
         NEW on, on.symbols = <<StatusLine(m.status)>> \o head \o body
  PROVE  /\ Len(<<StatusLine(m.status)>> \o head) \in Nat
         /\ BlockAt(on, 2, Len(<<StatusLine(m.status)>> \o head))
<1> DEFINE start == StatusLine(m.status)
           none == <<>>
<1>1. start \in Symbols
  BY RelayAssumption DEF StatusLine, Symbols
<1>2. none \in Seq(Symbols)
  OBVIOUS
<1>3. EmptyLine \in Symbols /\ h \in Seq(Symbols)
  <2>1. \A f \in Fields : f \in Symbols
    BY SymbolKinds
  <2> QED BY <2>1, SymbolKinds
<1>4. Holds(on, start, h, body, none)
  <2> HIDE DEF EmptyLine, start
  <2>1. on.symbols = <<start>> \o head \o body
    BY DEF start
  <2>2. <<start>> \o head = <<start>> \o h \o <<EmptyLine>> /\ <<start>> \o head \in Seq(Symbols)
    BY <1>1, <1>3
  <2> DEFINE y == <<start>> \o h \o <<EmptyLine>>
  <2>3. y \in Seq(Symbols) /\ on.symbols = y \o body
    BY <2>1, <2>2
  <2> HIDE DEF y
  <2>4. y \o body \o none = y \o body
    BY <2>3
  <2>5. on.symbols = y \o body \o none
    BY <2>3, <2>4
  <2> QED BY <2>5 DEF Holds, y
<1>5. Len(<<start>> \o head) = Len(h) + 2
  <2> HIDE DEF EmptyLine, start
  <2> QED BY <1>1, <1>3
<1> HIDE DEF none, start
<1>6. Len(h) + 2 \in Nat /\ BlockAt(on, 2, Len(h) + 2)
  BY <1>1, <1>2, <1>4, WireParts
<1> QED BY <1>5, <1>6 DEF start

\* The upstream breaks off.
LEMMA CutFits ==
  ASSUME NEW m \in Responses, NEW s, NEW w \in ResponseFramings(s.method, m),
         NEW c \in Cuts(<<StatusLine(m.status)>> \o w.head \o w.body), NEW end \in {"fin", "reset"},
         CloseDelimited(s.method, m, w) /\ end = "fin" => Len(c) < Len(<<StatusLine(m.status)>> \o w.head)
  PROVE  c \in Seq(Symbols) /\ Unreadable(c, end, s.method)
<1> DEFINE x == <<StatusLine(m.status)>> \o w.head \o w.body
           method == s.method
<1>1. PICK g : ReadsResponse(x, method, g) \/ (CloseDelimited(method, m, w) /\ ReadToEnd(x, method, g))
  <2>1. m \in Responses \cup {InterimResponse} /\ w \in ResponseFramings(method, m)
    OBVIOUS
  <2> HIDE DEF method
  <2>2. \E g : /\ Gives(g, m, method)
               /\ \/ ReadsResponse(<<StatusLine(m.status)>> \o w.head \o w.body, method, g)
                  \/ /\ CloseDelimited(method, m, w)
                     /\ ReadToEnd(<<StatusLine(m.status)>> \o w.head \o w.body, method, g)
    BY <2>1, ResponseTextReads
  <2> QED BY <2>2
<1>2. x \in Seq(Symbols)
  BY <1>1 DEF ReadsResponse, ReadToEnd
<1>3. Cut(c, x)
  <2>1. c \in Cuts(x)
    OBVIOUS
  <2> HIDE DEF x
  <2> QED BY <1>2, <2>1, CutsAre
<1>4. c \in Seq(Symbols)
  BY <1>3 DEF Cut
<1>5. CASE ReadsResponse(x, method, g)
  <2> SUFFICES ASSUME NEW in \in Sources, in.symbols = c PROVE readHTTPResponse(in, method).verdict # "read"
    BY <1>4 DEF Unreadable
  <2>1. Cut(in.symbols, x)
    BY <1>3
  <2> HIDE DEF x, method
  <2> QED BY <1>5, <2>1, CutResponse
<1>6. CASE CloseDelimited(method, m, w) /\ ReadToEnd(x, method, g)
  <2> DEFINE start == <<StatusLine(m.status)>> \o w.head
  <2>1. \A on : on.symbols = x => Len(start) \in Nat /\ BlockAt(on, 2, Len(start))
    <3> TAKE on
    <3> HAVE on.symbols = x
    <3>1. PICK h \in Seq(Fields) : w.head = h \o <<EmptyLine>> /\ w.body \in Seq(Symbols)
      BY AnswerParts
    <3> DEFINE head == w.head
               body == w.body
    <3>2. head = h \o <<EmptyLine>> /\ body \in Seq(Symbols) /\ on.symbols = <<StatusLine(m.status)>> \o head \o body
      BY <3>1
    <3> HIDE DEF head, body, x, start
    <3>3. /\ Len(<<StatusLine(m.status)>> \o head) \in Nat
          /\ BlockAt(on, 2, Len(<<StatusLine(m.status)>> \o head))
      BY <3>2, AnswerBlock
    <3> QED BY <3>3 DEF head, start
  <2> SUFFICES ASSUME NEW in \in Sources, in.symbols = c, in.end = end \/ in.end = "timeout" \/ end = "open"
               PROVE  readHTTPResponse(in, method).verdict # "read"
    BY <1>4 DEF Unreadable
  <2>3. Cut(in.symbols, x)
    BY <1>3
  <2>4. ASSUME in.end = "fin", NEW e \in Nat, BlockAt(in, 2, e) PROVE FALSE
    <3>1. end = "fin"
      BY <2>4
    <3>2. Len(c) < Len(start)
      BY <1>6, <3>1
    <3> DEFINE on == [symbols |-> x, end |-> "fin"]
    <3>3. on.symbols = x
      OBVIOUS
    <3> HIDE DEF on, x, start
    <3>4. BlockAt(on, 2, e) /\ e <= Len(c)
      <4> DEFINE at == 2
      <4>1. at \in Nat \ {0} /\ BlockAt(in, at, e) /\ Cut(in.symbols, on.symbols)
        BY <2>3, <2>4, <3>3
      <4> HIDE DEF at
      <4>2. BlockAt(on, at, e) /\ e < Len(on.symbols) /\ \A i \in 1 .. e : in.symbols[i] = on.symbols[i]
        BY <4>1, CutBlock
      <4>3. e <= Len(c)
        BY <4>1 DEF BlockAt
      <4> QED BY <4>2, <4>3 DEF at
    <3>5. Len(start) \in Nat /\ BlockAt(on, 2, Len(start))
      BY <2>1, <3>3
    <3>6. Len(c) \in Nat
      BY <1>4
    <3>7. e = Len(start)
      <4> DEFINE d == Len(start)
                 at == 2
      <4>1. d \in Nat /\ at \in Nat /\ BlockAt(on, at, d) /\ BlockAt(on, at, e)
        BY <3>4, <3>5
      <4> HIDE DEF d, at
      <4>2. e = d
        BY <4>1, OneBlock
      <4> QED BY <4>2 DEF d
    <3> QED BY <3>2, <3>4, <3>5, <3>6, <3>7
  <2>5. in.end = "fin" => \A e \in Nat : ~ BlockAt(in, 2, e)
    BY <2>4
  <2> HIDE DEF x, method
  <2> QED BY <1>6, <2>3, <2>5, CutToEnd
<1> QED BY <1>1, <1>4, <1>5, <1>6

\* The upstream sends junk.
LEMMA JunkFits ==
  ASSUME NEW bad \in BadResponses, NEW s, Genuine(s), s.method # "HEAD", NEW end
  PROVE  bad \in Seq(Symbols) /\ Unreadable(bad, end, s.method)
<1>1. bad \in Seq(Symbols)
  BY JunkIs
<1>3. ASSUME NEW in \in Sources, in.symbols = bad PROVE readHTTPResponse(in, s.method).verdict # "read"
  <2>1. PICK e : e = in.end
    OBVIOUS
  <2>2. in = [symbols |-> bad, end |-> e] /\ e \in Ends
    <3>1. in = [symbols |-> in.symbols, end |-> in.end] /\ in.end \in Ends
      BY DEF Sources
    <3> QED BY <1>3, <2>1, <3>1
  <2> QED BY <2>2, JunkIs
<1> QED BY <1>1, <1>3 DEF Unreadable

\* The client breaks off.
LEMMA CutBreaks ==
  ASSUME NEW m \in Requests, NEW t \in Targets, NEW text \in RequestTexts(m, t), NEW c \in Cuts(text),
         NEW end \in {"fin", "reset"}, NEW s, ~ Whole(s)
  PROVE  Broken(c, s, 1, end)
<1>1. t \in Nat
  BY DEF Targets
<1>2. PICK g : ReadsRequest(text, g)
  BY <1>1, RequestTextReads
<1>3. text \in Seq(Symbols)
  BY <1>2 DEF ReadsRequest
<1>4. Cut(c, text)
  BY <1>3, CutsAre
<1>5. ASSUME NEW in, in.symbols = c PROVE readHTTPRequest(in).verdict # "read"
  <2>1. Cut(in.symbols, text)
    BY <1>4, <1>5
  <2> QED BY <1>2, <2>1, CutRequest
<1>6. c \in Seq(Symbols)
  BY <1>4 DEF Cut
<1> QED BY <1>5, <1>6 DEF Broken

-----------------------------------------------------------------------------
(* The inductive invariant                                                 *)

\* The method that an answer of the proxy's is written for.
MethodOf(request) == IF request = None THEN "" ELSE request.method

\* The types of the variables.
Forms ==
  /\ TypeOK
  /\ proxy = [pc |-> proxy.pc, request |-> proxy.request, interim |-> proxy.interim, response |-> proxy.response]
  /\ upstream = [request |-> upstream.request, interim |-> upstream.interim]
  /\ served \in [Targets -> GivenAnswers]

\* What the client waits for, and what has been answered.
Kept ==
  /\ Pending(sent, inbox.end)
  /\ \A t \in Targets : served[t] = None \/ \E i \in DOMAIN sent : sent[i].target = t

\* The proxy has answered the first k requests.
Answered(k) ==
  /\ k \in 0 .. Len(sent)
  /\ Spoken(outbox.symbols, sent, served, k) \/ (sent = <<>> /\ proxy.pc = "closed")
  /\ outbox.end = IF proxy.pc = "closed" THEN "fin" ELSE "open"
  /\ proxy.pc # "closed" => \A i \in 1 .. k : Whole(sent[i])
  /\ proxy.pc # "closed" /\ inbox.end = "reset" => k < Len(sent) /\ ~ Whole(sent[k + 1])
  /\ \A i \in k + 1 .. Len(sent) :
       served[sent[i].target] = None \/ (i = k + 1 /\ proxy.pc \in {"waiting", "responding"})

\* It has read the next one, and is about to answer it.
Asking(k) ==
  /\ Genuine(sent[k + 1]) /\ Brings(proxy.request, sent[k + 1].message, sent[k + 1].target)
  /\ Unread(inbox.symbols, sent, inbox.end, k + 2)

\* The response is for that request, or for what could not be read as one.
Replying(k) ==
  /\ proxy.response.close \in BOOLEAN
  /\ Asking(k) \/ (proxy.request = None /\ ~ Whole(sent[k + 1]) /\ proxy.response.close = TRUE)
  /\ Conveys(proxy.response, MethodOf(proxy.request), sent[k + 1], served[sent[k + 1].target])

\* At every step of the loop, what it holds belongs to the same exchange.
Held(k) ==
  /\ proxy.pc = "reading" => proxy = Reading /\ Unread(inbox.symbols, sent, inbox.end, k + 1)
  /\ proxy.pc \in {"attempting", "waiting"} => k < Len(sent) /\ Asking(k)
  /\ proxy.pc = "responding" => k < Len(sent) /\ Replying(k)

\* Nothing is left on the connection between two exchanges.
Linked(k) ==
  /\ forward.end = "open"
  /\ proxy.pc # "waiting" => link # "busy" /\ forward.symbols = <<>> /\ back.symbols = <<>> /\ upstream = Idle
  /\ proxy.pc = "attempting" => proxy.interim = 0
  /\ proxy.pc = "waiting" =>
       link = "busy" /\ Underway(forward, back, upstream, proxy.interim, sent[k + 1], served[sent[k + 1].target])

\* The loop, the clients and the upstream agree on how far the exchanges are.
Aligned(k) == Answered(k) /\ Held(k) /\ Linked(k)

\* The inductive invariant.
IInv == Forms /\ Kept /\ \E k \in Nat : Aligned(k)

-----------------------------------------------------------------------------

\* The types that the proofs use.
LEMMA FormsAre ==
  ASSUME Forms
  PROVE  /\ inbox \in Sources /\ outbox \in Sources /\ forward \in Sources /\ back \in Sources
         /\ MaxInformationalResponses \in Nat /\ proxy.interim \in 0 .. MaxInformationalResponses
         /\ upstream.interim \in 0 .. MaxInformationalResponses + 1 /\ upstream.interim \in Nat
              /\ proxy.interim \in Nat
         /\ proxy.pc \in {"reading", "attempting", "waiting", "responding", "closed"}
<1>1. MaxInformationalResponses \in Nat
  BY RelayAssumption
<1> QED BY <1>1 DEF Forms, TypeOK

\* What the proofs use of the requests that were sent.
LEMMA KeptAre ==
  ASSUME Kept
  PROVE  /\ sent \in Seq(SentMessages) /\ Len(sent) <= 2 /\ Len(sent) \in 0 .. 2 /\ DOMAIN sent = 1 .. Len(sent)
         /\ Len(sent) = 2 => sent[1].target # sent[2].target
         /\ \A i \in DOMAIN sent : Proper(sent[i], i, Len(sent), inbox.end) /\ sent[i].target \in Targets
<1>1. /\ sent \in Seq(SentMessages) /\ Len(sent) <= 2 /\ (Len(sent) = 2 => sent[1].target # sent[2].target)
      /\ \A i \in DOMAIN sent : Proper(sent[i], i, Len(sent), inbox.end)
  BY DEF Kept, Pending
<1>2. Len(sent) \in Nat /\ DOMAIN sent = 1 .. Len(sent)
  BY <1>1
<1>3. ASSUME NEW i \in DOMAIN sent PROVE sent[i].target \in Targets
  <2>1. sent[i] \in SentMessages
    BY <1>1
  <2> QED BY <2>1 DEF SentMessages
<1> QED BY <1>1, <1>2, <1>3

\* The proxy goes on with what the client has and waits for.
LEMMA AnsweredStays ==
  ASSUME NEW k, Answered(k), UNCHANGED <<outbox, sent, served>>, inbox'.end = inbox.end \/ inbox'.end # "reset",
         proxy.pc # "closed", proxy'.pc # "closed",
         proxy.pc \in {"waiting", "responding"} => proxy'.pc \in {"waiting", "responding"}
  PROVE  Answered(k)'
BY DEF Answered

\* The proxy goes on with the request that it has read.
LEMMA AskingStays ==
  ASSUME NEW k, Asking(k), UNCHANGED <<inbox, sent>>, proxy'.request = proxy.request
  PROVE  Asking(k)'
BY DEF Asking

\* The request that it has read, and its method.
LEMMA AskingIs ==
  ASSUME NEW k, Asking(k)
  PROVE  /\ Genuine(sent[k + 1]) /\ Whole(sent[k + 1]) /\ sent[k + 1].message \in Requests
         /\ sent[k + 1].method = sent[k + 1].message.method
         /\ proxy.request # None /\ proxy.request.method = sent[k + 1].method
         /\ proxy.request.keepAlive \in BOOLEAN /\ MethodOf(proxy.request) = sent[k + 1].method
<1>1. Brings(proxy.request, sent[k + 1].message, sent[k + 1].target) /\ Genuine(sent[k + 1])
  BY DEF Asking
<1>2. proxy.request \in Requested /\ proxy.request.method = sent[k + 1].message.method
  BY <1>1 DEF Brings
<1>3. proxy.request # None
  BY <1>2, NoneAssumption DEF Requested
<1>4. proxy.request.keepAlive \in BOOLEAN
  BY <1>2 DEF Requested
<1>5. Whole(sent[k + 1]) /\ sent[k + 1].message \in Requests /\ sent[k + 1].method = sent[k + 1].message.method
  BY <1>1 DEF Genuine
<1> QED BY <1>1, <1>2, <1>3, <1>4, <1>5 DEF MethodOf

\* The loop and the attempt go on.
Turn(p, a) == [p EXCEPT !.pc = a]

\* With a request.
Taking(p, a, b) == [Turn(p, a) EXCEPT !.request = b]

\* With a response.
Giving(p, a, b) == [Turn(p, a) EXCEPT !.response = b]

\* Their locals.
Formed(p) == p = [pc |-> p.pc, request |-> p.request, interim |-> p.interim, response |-> p.response]

\* What becomes of them.
LEMMA TurnIs ==
  ASSUME Forms, NEW a, NEW p, p = Turn(proxy, a)
  PROVE  p.pc = a /\ p.request = proxy.request /\ p.interim = proxy.interim /\ p.response = proxy.response
           /\ Formed(p)
<1>1. PICK c, r, i, q : c = proxy.pc /\ r = proxy.request /\ i = proxy.interim /\ q = proxy.response
  OBVIOUS
<1>2. proxy = [pc |-> c, request |-> r, interim |-> i, response |-> q]
  BY <1>1 DEF Forms
<1>3. p = [pc |-> a, request |-> r, interim |-> i, response |-> q]
  BY <1>2 DEF Turn
<1> QED BY <1>1, <1>3 DEF Formed

\* A step that also takes a request.
LEMMA TakingIs ==
  ASSUME Forms, NEW a, NEW b, NEW p, p = Taking(proxy, a, b)
  PROVE  p.pc = a /\ p.request = b /\ p.interim = proxy.interim /\ p.response = proxy.response /\ Formed(p)
<1> DEFINE u == Turn(proxy, a)
<1>1. /\ u.pc = a /\ u.request = proxy.request /\ u.interim = proxy.interim /\ u.response = proxy.response
      /\ Formed(u)
  BY TurnIs
<1> HIDE DEF u
<1>2. PICK c, r, i, q : c = u.pc /\ r = u.request /\ i = u.interim /\ q = u.response
  OBVIOUS
<1>3. u = [pc |-> c, request |-> r, interim |-> i, response |-> q]
  BY <1>1, <1>2 DEF Formed
<1>4. p = [pc |-> c, request |-> b, interim |-> i, response |-> q]
  BY <1>3 DEF u, Taking
<1>5. Formed(p)
  BY <1>4 DEF Formed
<1> QED BY <1>1, <1>2, <1>4, <1>5

\* A step that also has a response to write.
LEMMA GivingIs ==
  ASSUME Forms, NEW a, NEW b, NEW p, p = Giving(proxy, a, b)
  PROVE  p.pc = a /\ p.request = proxy.request /\ p.interim = proxy.interim /\ p.response = b /\ Formed(p)
<1> DEFINE u == Turn(proxy, a)
<1>1. /\ u.pc = a /\ u.request = proxy.request /\ u.interim = proxy.interim /\ u.response = proxy.response
      /\ Formed(u)
  BY TurnIs
<1> HIDE DEF u
<1>2. PICK c, r, i, q : c = u.pc /\ r = u.request /\ i = u.interim /\ q = u.response
  OBVIOUS
<1>3. u = [pc |-> c, request |-> r, interim |-> i, response |-> q]
  BY <1>1, <1>2 DEF Formed
<1>4. p = [pc |-> c, request |-> r, interim |-> i, response |-> b]
  BY <1>3 DEF u, Giving
<1>5. Formed(p)
  BY <1>4 DEF Formed
<1> QED BY <1>1, <1>2, <1>4, <1>5

\* The same for the ends of a connection.
LEMMA EndIs ==
  ASSUME NEW source \in Sources, NEW end \in Ends
  PROVE  /\ [source EXCEPT !.end = end] \in Sources /\ [source EXCEPT !.end = end].symbols = source.symbols
         /\ [source EXCEPT !.end = end].end = end
<1>1. PICK x \in Seq(Symbols), e \in Ends : source = [symbols |-> x, end |-> e]
  BY DEF Sources
<1>2. [source EXCEPT !.end = end] = [symbols |-> x, end |-> end]
  BY <1>1
<1> QED BY <1>1, <1>2 DEF Sources

\* The ends that the program knows.
LEMMA EndsAre == {"open", "fin", "reset", "timeout"} = Ends
BY DEF Ends

\* What the client waits for does not depend on how its connection ends.
LEMMA PendingEnds ==
  ASSUME NEW sq, NEW end, Pending(sq, end), NEW over, over # "open"
  PROVE  Pending(sq, over)
<1>1. ASSUME NEW i \in DOMAIN sq PROVE Proper(sq[i], i, Len(sq), over)
  <2>1. Proper(sq[i], i, Len(sq), end)
    BY DEF Pending
  <2> QED BY <2>1 DEF Proper
<1> QED BY <1>1 DEF Pending

\* Between two exchanges the upstream connection stays as it is.
LEMMA LinkedRests ==
  ASSUME NEW k, Linked(k), proxy.pc # "waiting", proxy'.pc # "waiting", UNCHANGED <<forward, back, link, upstream>>,
         proxy'.pc = "attempting" => proxy'.interim = 0, NEW j
  PROVE  Linked(j)'
BY DEF Linked

\* So it does during one, whatever the client does.
LEMMA LinkedStays ==
  ASSUME NEW k, Linked(k), UNCHANGED <<forward, back, link, upstream, proxy>>, NEW j,
         proxy.pc = "waiting" => sent'[j + 1] = sent[k + 1]
           /\ served'[sent[k + 1].target] = served[sent[k + 1].target]
  PROVE  Linked(j)'
BY DEF Linked

\* A connection that is closed is silent.
LEMMA Disconnected ==
  ASSUME Disconnect, proxy'.pc # "waiting", proxy'.pc # "attempting", NEW k
  PROVE  Linked(k)' /\ forward' \in Sources /\ back' \in Sources /\ link' = "none"
         /\ upstream' = [request |-> None, interim |-> 0]
<1>1. Silent \in Sources /\ Silent.symbols = <<>> /\ Silent.end = "open"
  BY EndsAre DEF Silent, Sources
<1>2. forward' = Silent /\ back' = Silent /\ link' = "none" /\ upstream' = Idle
  BY DEF Disconnect
<1> QED BY <1>1, <1>2 DEF Linked, Idle

-----------------------------------------------------------------------------
(* The connection loop reads                                               *)

\* What holds while it reads.
LEMMA ReadingIs ==
  ASSUME Forms, Kept, NEW k \in Nat, Aligned(k), proxy.pc = "reading"
  PROVE  /\ proxy = Reading /\ proxy.request = None /\ proxy.interim = 0
         /\ Unread(inbox.symbols, sent, inbox.end, k + 1)
         /\ k \in 0 .. Len(sent) /\ Len(sent) \in Nat /\ outbox.end = "open"
         /\ Spoken(outbox.symbols, sent, served, k)
         /\ \A i \in k + 1 .. Len(sent) : served[sent[i].target] = None
<1>1. proxy = Reading /\ Unread(inbox.symbols, sent, inbox.end, k + 1)
  BY DEF Aligned, Held
<1>2. proxy.request = None /\ proxy.interim = 0
  BY <1>1 DEF Reading
<1>3. k \in 0 .. Len(sent) /\ outbox.end = "open" /\ Spoken(outbox.symbols, sent, served, k)
  BY DEF Aligned, Answered
<1>4. \A i \in k + 1 .. Len(sent) : served[sent[i].target] = None
  BY DEF Aligned, Answered
<1>5. Len(sent) \in Nat
  BY KeptAre
<1> QED BY <1>1, <1>2, <1>3, <1>4, <1>5

\* The read deadline ends what the client sends, and leaves the exchanges alone.
LEMMA ReadDeadlineKeeps ==
  ASSUME Forms, Kept, NEW k \in Nat, Aligned(k), ReadDeadline
  PROVE  IInv'
<1>1. /\ proxy.pc = "reading" /\ inbox' = [inbox EXCEPT !.end = "timeout"]
      /\ UNCHANGED <<outbox, sent, forward, back, link, upstream, served, proxy>>
  BY DEF ReadDeadline, peer
<1> DEFINE over == "timeout"
<1>2. over \in Ends /\ over # "open" /\ over # "reset"
  BY DEF Ends
<1> HIDE DEF over
<1>3. inbox' \in Sources /\ inbox'.symbols = inbox.symbols /\ inbox'.end = over
  <2>1. [inbox EXCEPT !.end = over] \in Sources /\ [inbox EXCEPT !.end = over].symbols = inbox.symbols
        /\ [inbox EXCEPT !.end = over].end = over
    BY <1>2, FormsAre, EndIs
  <2>2. inbox' = [inbox EXCEPT !.end = over]
    BY <1>1 DEF over
  <2> QED BY <2>1, <2>2
<1>4. Forms'
  BY <1>1, <1>3 DEF Forms, TypeOK
<1>5. Kept'
  <2>1. Pending(sent, over)
    BY <1>2, PendingEnds DEF Kept
  <2> QED BY <1>1, <1>3, <2>1 DEF Kept
<1>6. Answered(k)'
  BY <1>1, <1>2, <1>3, AnsweredStays DEF Aligned
<1>7. Held(k)'
  <2> DEFINE j == k + 1
  <2>1. proxy = Reading /\ Unread(inbox.symbols, sent, inbox.end, j)
    BY <1>1, ReadingIs
  <2> HIDE DEF j
  <2>2. Unread(inbox.symbols, sent, over, j)
    BY <1>2, <2>1, UnreadEnds
  <2>3. Unread(inbox'.symbols, sent', inbox'.end, j)
    BY <1>1, <1>3, <2>2
  <2> QED BY <1>1, <2>1, <2>3 DEF Held, j
<1>8. Linked(k)'
  BY <1>1, LinkedStays DEF Aligned
<1> QED BY <1>4, <1>5, <1>6, <1>7, <1>8 DEF IInv, Aligned

\* The loop reads a request.
LEMMA ReadRequestKeeps ==
  ASSUME Forms, Kept, NEW k \in Nat, Aligned(k), ReadRequest
  PROVE  IInv'
<1> DEFINE n == k + 1
           j == k + 2
           asked == readHTTPRequest(inbox)
           left == Skip(inbox, asked.next)
<1>1. /\ proxy.pc = "reading" /\ asked.verdict = "read" /\ inbox' = left
      /\ proxy' = [proxy EXCEPT !.pc = "attempting", !.request = asked.message]
      /\ UNCHANGED <<outbox, sent, forward, back, link, upstream, served>>
  BY DEF ReadRequest, peer, Asked
<1>2. /\ proxy'.pc = "attempting" /\ proxy'.request = asked.message /\ proxy'.interim = 0
      /\ Formed(proxy')
  <2> DEFINE a == "attempting"
             b == asked.message
  <2>1. proxy' = Taking(proxy, a, b)
    BY <1>1 DEF Taking, Turn
  <2> HIDE DEF a, b
  <2>2. /\ proxy'.pc = a /\ proxy'.request = b /\ proxy'.interim = proxy.interim
        /\ proxy'.response = proxy.response /\ Formed(proxy')
    BY <2>1, TakingIs
  <2>3. proxy.interim = 0
    BY <1>1, ReadingIs
  <2> QED BY <2>2, <2>3 DEF a, b
<1>3. k \in 0 .. Len(sent) /\ Len(sent) \in Nat /\ Unread(inbox.symbols, sent, inbox.end, n)
  BY <1>1, ReadingIs
<1>4. inbox \in Sources /\ sent \in Seq(SentMessages) /\ Pending(sent, inbox.end)
  BY FormsAre, KeptAre DEF Kept
<1>5. n \in Nat /\ n + 1 = j
  OBVIOUS
<1>6. k < Len(sent)
  <2> SUFFICES ASSUME ~ k < Len(sent) PROVE FALSE
    OBVIOUS
  <2>1. n > Len(sent)
    BY <1>3
  <2> HIDE DEF n
  <2>2. inbox.symbols = <<>>
    BY <1>3, <1>4, <1>5, <2>1, UnreadNothing
  <2> QED BY <1>1, <2>2, EmptyRead
<1>7. n \in 1 .. Len(sent)
  BY <1>3, <1>6
<1> HIDE DEF n, asked, left
<1>8. Whole(sent[n])
  <2> SUFFICES ASSUME ~ Whole(sent[n]) PROVE FALSE
    OBVIOUS
  <2>1. readHTTPRequest(inbox).verdict # "read"
    BY <1>3, <1>4, <1>7, UnreadWrong
  <2> QED BY <1>1, <2>1 DEF asked
<1>9. /\ Brings(asked.message, sent[n].message, sent[n].target)
      /\ left \in Sources /\ left.end = inbox.end /\ Unread(left.symbols, sent, inbox.end, n + 1)
  BY <1>3, <1>4, <1>7, <1>8, UnreadWhole DEF asked, left
<1>10. Genuine(sent[n])
  BY <1>7, <1>8, KeptAre DEF Proper, Genuine
<1>11. Forms'
  BY <1>1, <1>2, <1>9 DEF Forms, Formed, TypeOK
<1>12. Kept'
  BY <1>1, <1>9 DEF Kept
<1>13. Answered(k)'
  <2>1. inbox'.end = inbox.end /\ proxy'.pc # "closed" /\ proxy.pc # "closed" /\ proxy.pc # "waiting"
        /\ proxy.pc # "responding"
    BY <1>1, <1>2, <1>9
  <2> QED BY <1>1, <2>1, AnsweredStays DEF Aligned
<1>14. Asking(k)'
  BY <1>1, <1>2, <1>5, <1>9, <1>10 DEF Asking, n, j
<1>15. Held(k)'
  BY <1>1, <1>2, <1>6, <1>14 DEF Held
<1>16. Linked(k)'
  BY <1>1, <1>2, LinkedRests DEF Aligned
<1> QED BY <1>11, <1>12, <1>13, <1>15, <1>16 DEF IInv, Aligned

\* The connection ends.
LEMMA ReadEndsKeeps ==
  ASSUME Forms, Kept, NEW k \in Nat, Aligned(k), ReadEnds
  PROVE  IInv'
<1>1. /\ proxy.pc = "reading" /\ outbox' = [outbox EXCEPT !.end = "fin"]
      /\ proxy' = [proxy EXCEPT !.pc = "closed"]
      /\ UNCHANGED <<inbox, sent, forward, back, link, upstream, served>>
  BY DEF ReadEnds, Close, peer
<1>2. /\ proxy'.pc = "closed" /\ proxy'.interim = 0
      /\ Formed(proxy')
  <2> DEFINE a == "closed"
  <2>1. proxy' = Turn(proxy, a)
    BY <1>1 DEF Turn
  <2> HIDE DEF a
  <2>2. proxy'.pc = a /\ proxy'.interim = proxy.interim /\ Formed(proxy')
    BY <2>1, TurnIs
  <2>3. proxy.interim = 0
    BY <1>1, ReadingIs
  <2> QED BY <2>2, <2>3 DEF a
<1>3. outbox' \in Sources /\ outbox'.symbols = outbox.symbols /\ outbox'.end = "fin"
  BY <1>1, FormsAre, EndsAre, EndIs
<1>4. Forms'
  BY <1>1, <1>2, <1>3 DEF Forms, Formed, TypeOK
<1>5. Kept'
  BY <1>1 DEF Kept
<1>6. Answered(k)'
  <2>1. k \in 0 .. Len(sent) /\ Spoken(outbox.symbols, sent, served, k)
        /\ \A i \in k + 1 .. Len(sent) : served[sent[i].target] = None
    BY <1>1, ReadingIs
  <2> QED BY <1>1, <1>2, <1>3, <2>1 DEF Answered
<1>7. Held(k)'
  BY <1>2 DEF Held
<1>8. Linked(k)'
  BY <1>1, <1>2, LinkedRests DEF Aligned
<1> QED BY <1>4, <1>5, <1>6, <1>7, <1>8 DEF IInv, Aligned

\* What comes is not a request.
LEMMA ReadFailsKeeps ==
  ASSUME Forms, Kept, NEW k \in Nat, Aligned(k), ReadFails
  PROVE  IInv'
<1> DEFINE n == k + 1
           verdict == readHTTPRequest(inbox).verdict
<1>1. /\ proxy.pc = "reading" /\ verdict \notin {"read", "more", "eof", "timeout"}
      /\ proxy' = [proxy EXCEPT !.pc = "responding", !.response = protocolFailureResponse(verdict)]
      /\ UNCHANGED <<inbox, outbox, sent, forward, back, link, upstream, served>>
  BY DEF ReadFails, client, peer, Asked, Unanswered
<1> HIDE DEF verdict
<1>2. /\ proxy'.pc = "responding" /\ proxy'.request = None /\ proxy'.interim = 0
      /\ proxy'.response = protocolFailureResponse(verdict)
      /\ Formed(proxy')
  <2> DEFINE a == "responding"
             b == protocolFailureResponse(verdict)
  <2>1. proxy' = Giving(proxy, a, b)
    BY <1>1 DEF Giving, Turn
  <2> HIDE DEF a, b
  <2>2. /\ proxy'.pc = a /\ proxy'.request = proxy.request /\ proxy'.interim = proxy.interim /\ proxy'.response = b
        /\ Formed(proxy')
    BY <2>1, GivingIs
  <2>3. proxy.interim = 0 /\ proxy.request = None
    BY <1>1, ReadingIs
  <2> QED BY <2>2, <2>3 DEF a, b
<1>3. k \in 0 .. Len(sent) /\ Len(sent) \in Nat /\ Unread(inbox.symbols, sent, inbox.end, n)
      /\ \A i \in n .. Len(sent) : served[sent[i].target] = None
  BY <1>1, ReadingIs
<1>4. inbox \in Sources /\ sent \in Seq(SentMessages) /\ Pending(sent, inbox.end)
  BY FormsAre, KeptAre DEF Kept
<1>5. n \in Nat
  OBVIOUS
<1>6. k < Len(sent)
  <2> SUFFICES ASSUME ~ k < Len(sent) PROVE FALSE
    OBVIOUS
  <2>1. n > Len(sent)
    BY <1>3
  <2> HIDE DEF n
  <2>2. inbox.symbols = <<>>
    BY <1>3, <1>4, <1>5, <2>1, UnreadNothing
  <2>3. inbox.end # "reset"
    BY <1>1, <1>3 DEF Aligned, Answered
  <2>4. inbox.end \in Ends
    BY <1>4 DEF Sources
  <2>5. readHTTPRequest(inbox).verdict \in {"more", "eof", "timeout"}
    BY <2>2, <2>3, <2>4, EmptyRead
  <2> QED BY <1>1, <2>5 DEF verdict
<1>7. n \in 1 .. Len(sent) /\ n \in n .. Len(sent)
  BY <1>3, <1>6
<1> HIDE DEF n
<1>8. ~ Whole(sent[n])
  <2> SUFFICES ASSUME Whole(sent[n]) PROVE FALSE
    OBVIOUS
  <2>1. readHTTPRequest(inbox).verdict = "read"
    BY <1>3, <1>4, <1>7, UnreadWhole
  <2> QED BY <1>1, <2>1 DEF verdict
<1>9. served[sent[n].target] = None
  BY <1>3, <1>7
<1>10. Forms'
  BY <1>1, <1>2 DEF Forms, Formed, TypeOK
<1>11. Kept'
  BY <1>1 DEF Kept
<1>12. Answered(k)'
  <2>1. inbox'.end = inbox.end /\ proxy'.pc # "closed" /\ proxy.pc # "closed" /\ proxy.pc # "waiting"
        /\ proxy.pc # "responding"
    BY <1>1, <1>2
  <2> QED BY <1>1, <2>1, AnsweredStays DEF Aligned
<1>13. Replying(k)'
  <2> DEFINE s == sent[n]
             a == served[sent[n].target]
             none == ""
             r == protocolFailureResponse(verdict)
  <2>1. ~ Whole(s) /\ a = None
    BY <1>8, <1>9
  <2> HIDE DEF s, a
  <2>2. Conveys(r, none, s, a) /\ r.close = TRUE
    BY <2>1, RefusalConveys
  <2> HIDE DEF r
  <2>3. MethodOf(proxy'.request) = none
    BY <1>2 DEF MethodOf
  <2> HIDE DEF none
  <2>4. proxy'.response = r /\ sent' = sent /\ served' = served
    BY <1>1, <1>2 DEF r
  <2>5. Conveys(proxy'.response, MethodOf(proxy'.request), sent'[n], served'[sent'[n].target])
    BY <2>2, <2>3, <2>4 DEF s, a
  <2>6. proxy'.response.close = TRUE /\ ~ Whole(sent'[n])
    BY <1>8, <2>2, <2>4
  <2> QED BY <1>2, <2>5, <2>6 DEF Replying, n
<1>14. Held(k)'
  BY <1>1, <1>2, <1>6, <1>13 DEF Held
<1>15. Linked(k)'
  BY <1>1, <1>2, LinkedRests DEF Aligned
<1> QED BY <1>10, <1>11, <1>12, <1>14, <1>15 DEF IInv, Aligned

\* What holds while the loop is about to answer.
LEMMA ReplyingIs ==
  ASSUME Forms, Kept, NEW k \in Nat, Aligned(k), proxy.pc = "responding"
  PROVE  /\ k \in 0 .. 1 /\ k < Len(sent) /\ Len(sent) \in 0 .. 2 /\ Replying(k) /\ outbox.end = "open"
         /\ proxy.response.close \in BOOLEAN
         /\ Spoken(outbox.symbols, sent, served, k) /\ \A i \in 1 .. k : Whole(sent[i])
         /\ \A i \in k + 2 .. Len(sent) : served[sent[i].target] = None
         /\ inbox.end = "reset" => ~ Whole(sent[k + 1])
<1>1. k < Len(sent) /\ Replying(k)
  BY DEF Aligned, Held
<1>2. Len(sent) \in 0 .. 2
  BY KeptAre
<1>3. /\ outbox.end = "open" /\ \A i \in 1 .. k : Whole(sent[i])
      /\ inbox.end = "reset" => ~ Whole(sent[k + 1])
  BY DEF Aligned, Answered
<1>4. sent # <<>>
  BY <1>1, <1>2
<1>5. Spoken(outbox.symbols, sent, served, k)
  BY <1>4 DEF Aligned, Answered
<1>6. \A i \in k + 2 .. Len(sent) : served[sent[i].target] = None
  <2>1. ASSUME NEW i \in k + 2 .. Len(sent) PROVE served[sent[i].target] = None
    <3>1. i \in k + 1 .. Len(sent) /\ i # k + 1
      BY <1>2
    <3> QED BY <3>1 DEF Aligned, Answered
  <2> QED BY <2>1
<1>7. proxy.response.close \in BOOLEAN
  BY <1>1 DEF Replying
<1> QED BY <1>1, <1>2, <1>3, <1>5, <1>6, <1>7

\* What the loop writes.
Reply(close) == writeHTTPResponse([proxy.response EXCEPT !.close = close], MethodOf(proxy.request))

\* It is the answer to the request.
LEMMA RespondIs ==
  ASSUME Forms, Kept, NEW k \in Nat, Aligned(k), Respond
  PROVE  \E close \in BOOLEAN :
           /\ proxy.request = None => close = TRUE
           /\ Reply(close).verdict = "written"
           /\ Says(Reply(close).symbols, sent[k + 1], served[sent[k + 1].target])
           /\ outbox' = Arrive(outbox, Reply(close).symbols, IF close THEN "fin" ELSE "open")
           /\ proxy' = [Reading EXCEPT !.pc = IF close THEN "closed" ELSE "reading"]
<1> DEFINE close == \/ proxy.request # None /\ ~ proxy.request.keepAlive
                    \/ proxy.response.close
                    \/ HasToken(proxy.response.headers, "Connection", "close")
           encoded == writeHTTPResponse([proxy.response EXCEPT !.close = close], MethodOf(proxy.request))
           fallback == writeHTTPResponse([textResponse(500) EXCEPT !.close = TRUE], MethodOf(proxy.request))
<1>1. proxy.pc = "responding"
  BY DEF Respond
<1>2. Replying(k) /\ proxy.response.close \in BOOLEAN
  BY <1>1, ReplyingIs
<1>3. close \in BOOLEAN
  OBVIOUS
<1>4. proxy.request = None => close = TRUE
  <2>1. proxy.request = None => proxy.response.close = TRUE
    BY <1>2, AskingIs DEF Replying
  <2> QED BY <2>1
<1>5. /\ outbox' = Arrive(outbox, IF encoded.verdict = "refused" THEN fallback.symbols ELSE encoded.symbols,
                          IF close \/ encoded.verdict = "refused" THEN "fin" ELSE "open")
      /\ proxy' = [Reading EXCEPT !.pc = IF close \/ encoded.verdict = "refused" THEN "closed" ELSE "reading"]
  BY DEF Respond, MethodOf
<1> HIDE DEF close
<1>6. encoded.verdict = "written" /\ Says(encoded.symbols, sent[k + 1], served[sent[k + 1].target])
  <2>1. Conveys(proxy.response, MethodOf(proxy.request), sent[k + 1], served[sent[k + 1].target])
    BY <1>2 DEF Replying
  <2> QED BY <1>3, <2>1 DEF Conveys
<1>7. encoded = Reply(close)
  BY DEF Reply
<1> HIDE DEF encoded, fallback
<1>8. encoded.verdict # "refused"
  BY <1>6
<1>9. outbox' = Arrive(outbox, encoded.symbols, IF close THEN "fin" ELSE "open")
  BY <1>5, <1>8
<1>10. proxy' = [Reading EXCEPT !.pc = IF close THEN "closed" ELSE "reading"]
  BY <1>5, <1>8
<1> WITNESS close \in BOOLEAN
<1> QED BY <1>4, <1>6, <1>7, <1>9, <1>10

\* One more request is answered, and the loop reads on or closes.
LEMMA RespondKeeps ==
  ASSUME Forms, Kept, NEW k \in Nat, Aligned(k), Respond
  PROVE  IInv'
<1> DEFINE n == k + 1
           s == sent[n]
           a == served[sent[n].target]
<1>1. proxy.pc = "responding" /\ UNCHANGED <<inbox, sent, forward, back, link, upstream, served>>
  BY DEF Respond, peer
<1>2. /\ k \in 0 .. 1 /\ k < Len(sent) /\ Len(sent) \in 0 .. 2 /\ Replying(k) /\ outbox.end = "open"
      /\ Spoken(outbox.symbols, sent, served, k) /\ \A i \in 1 .. k : Whole(sent[i])
      /\ \A i \in k + 2 .. Len(sent) : served[sent[i].target] = None
      /\ inbox.end = "reset" => ~ Whole(sent[n])
  BY <1>1, ReplyingIs
<1>3. PICK close \in BOOLEAN :
        /\ proxy.request = None => close = TRUE
        /\ Says(Reply(close).symbols, s, a)
        /\ outbox' = Arrive(outbox, Reply(close).symbols, IF close THEN "fin" ELSE "open")
        /\ proxy' = [Reading EXCEPT !.pc = IF close THEN "closed" ELSE "reading"]
  BY RespondIs
<1> DEFINE x == Reply(close).symbols
           pc == IF close THEN "closed" ELSE "reading"
           end == IF close THEN "fin" ELSE "open"
<1>4. outbox' \in Sources /\ outbox'.symbols = outbox.symbols \o x /\ outbox'.end = end
  <2>1. x \in Seq(Symbols)
    BY <1>3 DEF Says
  <2>2. end \in Ends
    BY EndsAre
  <2>3. outbox \in Sources
    BY FormsAre
  <2>4. outbox' = Arrive(outbox, x, end)
    BY <1>3
  <2> HIDE DEF x, end
  <2> QED BY <2>1, <2>2, <2>3, <2>4, ArriveIs
<1>5. /\ proxy'.pc = pc /\ proxy'.interim = 0 /\ Formed(proxy')
      /\ ~ close => proxy' = Reading
  <2>1. Reading = [pc |-> "reading", request |-> None, interim |-> 0, response |-> None]
    BY DEF Reading
  <2>2. [Reading EXCEPT !.pc = pc] = [pc |-> pc, request |-> None, interim |-> 0, response |-> None]
    BY <2>1
  <2> QED BY <1>3, <2>1, <2>2 DEF Formed
<1>6. n \in 0 .. Len(sent) /\ n \in Nat /\ n \in 1 .. 2
  BY <1>2
<1>7. Spoken(outbox'.symbols, sent, served, n)
  <2>1. Says(x, sent[k + 1], served[sent[k + 1].target])
    BY <1>3
  <2> HIDE DEF x, n, s, a
  <2>2. Spoken(outbox.symbols \o x, sent, served, k + 1)
    BY <1>2, <2>1, SpokenMore
  <2> QED BY <1>4, <2>2 DEF n
<1>8. ~ close => Asking(k)
  BY <1>2, <1>3 DEF Replying
<1>9. ~ close => Whole(s) /\ Unread(inbox.symbols, sent, inbox.end, k + 2)
  BY <1>8, AskingIs DEF Asking
<1> HIDE DEF x, s, a
<1>10. MaxInformationalResponses \in Nat /\ 0 \in 0 .. MaxInformationalResponses
  BY FormsAre
<1>11. Forms'
  BY <1>1, <1>4, <1>5, <1>10 DEF Forms, Formed, TypeOK
<1>12. Kept'
  BY <1>1 DEF Kept
<1>13. Answered(n)'
  <2>1. proxy'.pc # "closed" => \A i \in 1 .. n : Whole(sent[i])
    <3> SUFFICES ASSUME proxy'.pc # "closed", NEW i \in 1 .. n PROVE Whole(sent[i])
      OBVIOUS
    <3>1. Whole(s) /\ \A l \in 1 .. k : Whole(sent[l])
      BY <1>2, <1>5, <1>9
    <3>2. i \in 1 .. k \/ i = n
      OBVIOUS
    <3> QED BY <3>1, <3>2 DEF s
  <2>2. proxy'.pc # "closed" => inbox.end # "reset"
    BY <1>2, <1>5, <1>9 DEF s
  <2>3. \A i \in n + 1 .. Len(sent) : served[sent[i].target] = None
    BY <1>2
  <2>4. outbox'.end = IF proxy'.pc = "closed" THEN "fin" ELSE "open"
    BY <1>4, <1>5
  <2> HIDE DEF n
  <2> QED BY <1>1, <1>6, <1>7, <2>1, <2>2, <2>3, <2>4 DEF Answered
<1>14. Held(n)'
  <2>1. n + 1 = k + 2
    OBVIOUS
  <2> HIDE DEF n
  <2>2. proxy'.pc = "reading" => proxy' = Reading /\ Unread(inbox.symbols, sent, inbox.end, n + 1)
    BY <1>5, <1>9, <2>1
  <2> QED BY <1>1, <1>5, <2>2 DEF Held
<1>15. Linked(n)'
  BY <1>1, <1>5, LinkedRests DEF Aligned
<1> QED BY <1>6, <1>11, <1>12, <1>13, <1>14, <1>15 DEF IInv, Aligned

\* What holds during an attempt.
LEMMA AttemptIs ==
  ASSUME Forms, Kept, NEW k \in Nat, Aligned(k), proxy.pc \in {"attempting", "waiting"}
  PROVE  /\ k < Len(sent) /\ Asking(k) /\ sent[k + 1].target \in Targets /\ outbox.end = "open"
         /\ proxy.pc = "attempting" => served[sent[k + 1].target] = None
         /\ proxy.pc = "waiting" => /\ link = "busy"
                                    /\ Underway(forward, back, upstream, proxy.interim, sent[k + 1],
                                                served[sent[k + 1].target])
<1>1. k < Len(sent) /\ Asking(k)
  BY DEF Aligned, Held
<1>2. Len(sent) \in 0 .. 2 /\ DOMAIN sent = 1 .. Len(sent)
  BY KeptAre
<1>3. k + 1 \in DOMAIN sent /\ k + 1 \in k + 1 .. Len(sent)
  BY <1>1, <1>2
<1>4. sent[k + 1].target \in Targets
  BY <1>3, KeptAre
<1>5. outbox.end = "open" /\ (proxy.pc = "attempting" => served[sent[k + 1].target] = None)
  BY <1>3 DEF Aligned, Answered
<1>6. proxy.pc = "waiting" =>
        link = "busy" /\ Underway(forward, back, upstream, proxy.interim, sent[k + 1], served[sent[k + 1].target])
  BY DEF Aligned, Linked
<1> QED BY <1>1, <1>4, <1>5, <1>6

\* The attempt comes to an answer.
LEMMA AttemptEnds ==
  ASSUME Forms, Kept, NEW k \in Nat, Aligned(k), proxy.pc \in {"attempting", "waiting"},
         NEW response, proxy' = Giving(proxy, "responding", response), UNCHANGED <<inbox, outbox, sent, served>>,
         response.close = FALSE,
         Conveys(response, sent[k + 1].method, sent[k + 1], served[sent[k + 1].target]),
         Linked(k)', forward' \in Sources, back' \in Sources, link' \in {"none", "idle", "busy"},
         upstream' = [request |-> None, interim |-> 0]
  PROVE  IInv'
<1> DEFINE a == "responding"
<1>1. /\ proxy'.pc = a /\ proxy'.request = proxy.request /\ proxy'.interim = proxy.interim
      /\ proxy'.response = response /\ Formed(proxy')
  <2>1. proxy' = Giving(proxy, a, response)
    OBVIOUS
  <2> HIDE DEF a
  <2> QED BY <2>1, GivingIs
<1>2. k < Len(sent) /\ Asking(k)
  BY AttemptIs
<1>3. upstream'.request = None /\ upstream'.interim = 0
  OBVIOUS
<1>4. MaxInformationalResponses \in Nat /\ 0 \in 0 .. MaxInformationalResponses + 1
  BY FormsAre
<1>5. Forms'
  BY <1>1, <1>3, <1>4 DEF Forms, Formed, TypeOK
<1>6. Kept'
  BY DEF Kept
<1>7. Answered(k)'
  <2>1. inbox'.end = inbox.end /\ proxy.pc # "closed" /\ proxy'.pc # "closed"
          /\ proxy'.pc \in {"waiting", "responding"}
    BY <1>1
  <2> QED BY <2>1, AnsweredStays DEF Aligned
<1>8. Replying(k)'
  <2>1. Asking(k)'
    BY <1>1, <1>2, AskingStays
  <2>2. MethodOf(proxy'.request) = sent[k + 1].method
    <3>1. MethodOf(proxy.request) = sent[k + 1].method
      BY <1>2, AskingIs
    <3> QED BY <1>1, <3>1
  <2>3. Conveys(proxy'.response, MethodOf(proxy'.request), sent'[k + 1], served'[sent'[k + 1].target])
    BY <1>1, <2>2
  <2> QED BY <1>1, <2>1, <2>3 DEF Replying
<1>9. Held(k)'
  BY <1>1, <1>2, <1>8 DEF Held
<1> QED BY <1>5, <1>6, <1>7, <1>9 DEF IInv, Aligned

\* It fails, and the connection with it.
LEMMA FailKeeps ==
  ASSUME Forms, Kept, NEW k \in Nat, Aligned(k), proxy.pc \in {"attempting", "waiting"},
         NEW kind, Fail(kind), ~ Served(served[sent[k + 1].target]) \/ kind = "canceled"
  PROVE  IInv'
<1> DEFINE response == proxyFailureResponse(kind)
           s == sent[k + 1]
           a == served[sent[k + 1].target]
<1>1. Disconnect /\ proxy' = Giving(proxy, "responding", response) /\ UNCHANGED <<inbox, outbox, sent, served>>
  BY DEF Fail, client, Giving, Turn
<1>2. Asking(k)
  BY AttemptIs
<1>3. Conveys(response, s.method, s, a) /\ response.close = FALSE
  <2>1. Whole(s) /\ (~ Served(a) \/ kind = "canceled")
    BY <1>2, AskingIs
  <2> HIDE DEF s, a
  <2> QED BY <2>1, FailureConveys
<1> HIDE DEF response
<1>4. proxy'.pc = "responding"
  <2> DEFINE c == "responding"
  <2>1. proxy' = Giving(proxy, c, response)
    BY <1>1
  <2> HIDE DEF c
  <2>2. /\ proxy'.pc = c /\ proxy'.request = proxy.request /\ proxy'.interim = proxy.interim
        /\ proxy'.response = response /\ Formed(proxy')
    BY <2>1, GivingIs
  <2> QED BY <2>2 DEF c
<1>5. Linked(k)' /\ forward' \in Sources /\ back' \in Sources /\ link' = "none"
      /\ upstream' = [request |-> None, interim |-> 0]
  BY <1>1, <1>4, Disconnected
<1> QED BY <1>1, <1>3, <1>5, AttemptEnds

\* No connection to the upstream: the proxy answers in its place.
LEMMA DialFailsKeeps ==
  ASSUME Forms, Kept, NEW k \in Nat, Aligned(k), DialFails
  PROVE  IInv'
<1>1. proxy.pc = "attempting" /\ \E kind : Fail(kind)
  BY DEF DialFails
<1>2. ~ Served(served[sent[k + 1].target])
  BY <1>1, AttemptIs DEF Served
<1> QED BY <1>1, <1>2, FailKeeps

\* The request could not be written: the proxy answers in its place.
LEMMA WriteFailsKeeps ==
  ASSUME Forms, Kept, NEW k \in Nat, Aligned(k), WriteFails
  PROVE  IInv'
<1>1. proxy.pc = "attempting" /\ \E kind : Fail(kind)
  BY DEF WriteFails
<1>2. ~ Served(served[sent[k + 1].target])
  BY <1>1, AttemptIs DEF Served
<1> QED BY <1>1, <1>2, FailKeeps

\* What the proxy reads from the upstream is meant for the request.
LEMMA GotIs ==
  ASSUME NEW k, Asking(k)
  PROVE  Got = readHTTPResponse(back, sent[k + 1].method)
BY AskingIs DEF Got

\* What came back was not an answer: the proxy answers in its place, and the
\* connection is not used again.
LEMMA ReadUpstreamFailsKeeps ==
  ASSUME Forms, Kept, NEW k \in Nat, Aligned(k), ReadUpstreamFails
  PROVE  IInv'
<1>1. /\ proxy.pc = "waiting"
      /\ \E kind : Fail(kind) /\ (Got.verdict # "read" \/ kind = "canceled")
  BY DEF ReadUpstreamFails, classifyProxyReadError
<1> DEFINE s == sent[k + 1]
           a == served[sent[k + 1].target]
<1>2. Asking(k) /\ Underway(forward, back, upstream, proxy.interim, s, a)
  BY <1>1, AttemptIs
<1>3. Got = readHTTPResponse(back, s.method)
  BY <1>2, GotIs
<1>4. Got.verdict # "read" => ~ Served(a)
  <2>1. back \in Sources
    BY FormsAre
  <2> HIDE DEF s, a
  <2> QED BY <1>2, <1>3, <2>1, UnderwayFails
<1> QED BY <1>1, <1>4, FailKeeps

\* The request is passed on.
LEMMA SendUpstreamKeeps ==
  ASSUME Forms, Kept, NEW k \in Nat, Aligned(k), SendUpstream
  PROVE  IInv'
<1> DEFINE s == sent[k + 1]
           a == served[sent[k + 1].target]
           x == writeHTTPRequest(buildUpstreamRequest(proxy.request)).symbols
           pc == "waiting"
           end == "open"
<1>1. /\ proxy.pc = "attempting" /\ forward' = Arrive(forward, x, end) /\ link' = "busy"
      /\ proxy' = Turn(proxy, pc) /\ UNCHANGED <<inbox, outbox, sent, back, upstream, served>>
  BY DEF SendUpstream, client, Turn
<1>2. k < Len(sent) /\ Asking(k) /\ s.target \in Targets /\ outbox.end = "open" /\ a = None
  BY <1>1, AttemptIs
<1>3. Genuine(s) /\ s.message \in Requests /\ s.target \in Nat /\ Brings(proxy.request, s.message, s.target)
  <2>1. Genuine(s) /\ Brings(proxy.request, s.message, s.target)
    BY <1>2 DEF Asking
  <2>2. s.message \in Requests
    BY <2>1 DEF Genuine
  <2>3. s.target \in Nat
    BY <1>2 DEF Targets
  <2> QED BY <2>1, <2>2, <2>3
<1>4. PICK h : ReadsRequest(x, h) /\ HearsMessage(h, s.message, s.target)
  <2> DEFINE m == s.message
             t == s.target
             g == proxy.request
  <2>1. m \in Requests /\ t \in Nat /\ Brings(g, m, t)
    BY <1>3
  <2> HIDE DEF m, t, g, s
  <2>2. /\ writeHTTPRequest(buildUpstreamRequest(g)).verdict = "written"
        /\ \E h : ReadsRequest(writeHTTPRequest(buildUpstreamRequest(g)).symbols, h) /\ HearsMessage(h, m, t)
    BY <2>1, Relays
  <2> QED BY <2>2 DEF m, t, g
<1>5. /\ forward.end = "open" /\ forward.symbols = <<>> /\ back.symbols = <<>> /\ upstream = Idle /\ proxy.interim = 0
      /\ forward \in Sources
  BY <1>1, FormsAre DEF Aligned, Linked
<1>6. x \in Seq(Symbols)
  BY <1>4 DEF ReadsRequest
<1>7. end \in Ends
  BY EndsAre
<1> HIDE DEF x, s, a, pc, end
<1>8. forward' \in Sources /\ forward'.symbols = x /\ forward'.end = end
  <2>1. forward' \in Sources /\ forward'.symbols = forward.symbols \o x /\ forward'.end = end
    BY <1>1, <1>5, <1>6, <1>7, ArriveIs
  <2>2. <<>> \o x = x
    BY <1>6
  <2> QED BY <1>5, <2>1, <2>2
<1>9. proxy'.pc = pc /\ proxy'.request = proxy.request /\ proxy'.interim = proxy.interim /\ Formed(proxy')
  BY <1>1, TurnIs
<1>10. Passing(forward', back, upstream, proxy'.interim, s, a)
  BY <1>2, <1>4, <1>5, <1>8, <1>9 DEF Passing
<1>11. Forms'
  BY <1>1, <1>8, <1>9 DEF Forms, Formed, TypeOK, pc
<1>12. Kept'
  BY <1>1 DEF Kept
<1>13. Answered(k)'
  <2>1. inbox'.end = inbox.end /\ proxy.pc # "closed" /\ proxy'.pc # "closed"
          /\ proxy'.pc \in {"waiting", "responding"}
    BY <1>1, <1>9 DEF pc
  <2> QED BY <1>1, <2>1, AnsweredStays DEF Aligned
<1>14. Held(k)'
  <2>1. Asking(k)'
    BY <1>1, <1>2, <1>9, AskingStays
  <2> QED BY <1>1, <1>2, <1>9, <2>1 DEF Held, pc
<1>15. Linked(k)'
  <2>1. Underway(forward', back', upstream', proxy'.interim, sent'[k + 1], served'[sent'[k + 1].target])
    BY <1>1, <1>10 DEF Underway, s, a
  <2> QED BY <1>1, <1>8, <1>9, <2>1 DEF Linked, pc, end
<1> QED BY <1>11, <1>12, <1>13, <1>14, <1>15 DEF IInv, Aligned

-----------------------------------------------------------------------------
(* The proxy waits                                                         *)

\* Requests that wait have targets of their own.
LEMMA TargetsDiffer ==
  ASSUME Kept, NEW i \in 1 .. Len(sent), NEW l \in 1 .. Len(sent), i # l
  PROVE  sent[i].target # sent[l].target
<1> DEFINE n == Len(sent)
<1>1. n \in 0 .. 2 /\ (n = 2 => sent[1].target # sent[2].target)
  BY KeptAre
<1>2. i \in 1 .. n /\ l \in 1 .. n
  OBVIOUS
<1> HIDE DEF n
<1>3. n = 2 /\ ((i = 1 /\ l = 2) \/ (i = 2 /\ l = 1))
  BY <1>1, <1>2
<1> QED BY <1>1, <1>3

\* The exchange goes on.
LEMMA WaitingKeeps ==
  ASSUME Forms, Kept, NEW k \in Nat, Aligned(k), proxy.pc = "waiting", proxy'.pc = "waiting",
         Formed(proxy'), proxy'.request = proxy.request, proxy'.interim \in 0 .. MaxInformationalResponses,
         UNCHANGED <<inbox, outbox, sent, link>>, served' \in [Targets -> GivenAnswers],
         \A t \in Targets : t # sent[k + 1].target => served'[t] = served[t],
         forward' \in Sources, forward'.end = "open", back' \in Sources,
         upstream' = [request |-> upstream'.request, interim |-> upstream'.interim],
         upstream'.interim \in 0 .. MaxInformationalResponses + 1,
         Underway(forward', back', upstream', proxy'.interim, sent[k + 1], served'[sent[k + 1].target])
  PROVE  IInv'
<1>1. k < Len(sent) /\ Asking(k) /\ sent[k + 1].target \in Targets /\ outbox.end = "open" /\ link = "busy"
  BY AttemptIs
<1>2. Len(sent) \in 0 .. 2 /\ DOMAIN sent = 1 .. Len(sent)
  BY KeptAre
<1>3. \A i \in 1 .. Len(sent) : i # k + 1 => served'[sent[i].target] = served[sent[i].target]
  <2>1. ASSUME NEW i \in 1 .. Len(sent), i # k + 1 PROVE served'[sent[i].target] = served[sent[i].target]
    <3> DEFINE l == k + 1
    <3>1. l \in 1 .. Len(sent) /\ i # l
      BY <1>1, <1>2, <2>1
    <3> HIDE DEF l
    <3>2. sent[i].target # sent[l].target
      BY <3>1, TargetsDiffer
    <3>3. sent[i].target \in Targets
      BY <1>2, KeptAre
    <3> QED BY <3>2, <3>3 DEF l
  <2> QED BY <2>1
<1>4. Forms'
  BY <1>1 DEF Forms, Formed, TypeOK
<1>5. Kept'
  <2>1. ASSUME NEW t \in Targets
        PROVE  served'[t] = None \/ \E i \in DOMAIN sent : sent[i].target = t
    <3>1. CASE t = sent[k + 1].target
      <4>1. k + 1 \in DOMAIN sent
        BY <1>1, <1>2
      <4> QED BY <3>1, <4>1
    <3>2. CASE t # sent[k + 1].target
      BY <3>2 DEF Kept
    <3> QED BY <3>1, <3>2
  <2> QED BY <2>1 DEF Kept
<1>6. Answered(k)'
  <2>1. Spoken(outbox.symbols, sent, served', k)
    <3>1. Spoken(outbox.symbols, sent, served, k) /\ k \in 0 .. 2
      <4>1. sent # <<>>
        BY <1>1, <1>2
      <4> QED BY <1>1, <1>2, <4>1 DEF Aligned, Answered
    <3>2. \A i \in 1 .. k : sent[i] = sent[i] /\ served'[sent[i].target] = served[sent[i].target]
      BY <1>1, <1>2, <1>3
    <3> QED BY <3>1, <3>2, SpokenSame
  <2>2. \A i \in k + 1 .. Len(sent) : served'[sent[i].target] = None \/ i = k + 1
    <3>1. ASSUME NEW i \in k + 1 .. Len(sent), i # k + 1 PROVE served'[sent[i].target] = None
      <4>1. i \in 1 .. Len(sent)
        BY <1>2
      <4>2. served[sent[i].target] = None
        BY <3>1 DEF Aligned, Answered
      <4> QED BY <1>3, <3>1, <4>1, <4>2
    <3> QED BY <3>1
  <2>3. k \in 0 .. Len(sent) /\ outbox.end = "open" /\ (\A i \in 1 .. k : Whole(sent[i]))
        /\ (inbox.end = "reset" => k < Len(sent) /\ ~ Whole(sent[k + 1]))
    BY DEF Aligned, Answered
  <2> QED BY <2>1, <2>2, <2>3 DEF Answered
<1>7. Held(k)'
  <2>1. Asking(k)'
    BY <1>1, AskingStays
  <2> QED BY <1>1, <2>1 DEF Held
<1>8. Linked(k)'
  BY <1>1 DEF Linked
<1> QED BY <1>4, <1>5, <1>6, <1>7, <1>8 DEF IInv, Aligned

\* What holds while the proxy waits.
LEMMA WaitingIs ==
  ASSUME Forms, Kept, NEW k \in Nat, Aligned(k), proxy.pc = "waiting"
  PROVE  /\ Asking(k) /\ Genuine(sent[k + 1]) /\ Got = readHTTPResponse(back, sent[k + 1].method)
         /\ sent[k + 1].target \in Targets
         /\ Underway(forward, back, upstream, proxy.interim, sent[k + 1], served[sent[k + 1].target])
         /\ forward \in Sources /\ back \in Sources /\ forward.end = "open" /\ Formed(proxy)
         /\ proxy.interim \in 0 .. MaxInformationalResponses /\ proxy.interim \in Nat
         /\ upstream = [request |-> upstream.request, interim |-> upstream.interim]
         /\ upstream.interim \in 0 .. MaxInformationalResponses + 1 /\ upstream.interim \in Nat
         /\ served \in [Targets -> GivenAnswers]
<1>1. /\ Asking(k) /\ sent[k + 1].target \in Targets
      /\ Underway(forward, back, upstream, proxy.interim, sent[k + 1], served[sent[k + 1].target])
  BY AttemptIs
<1>2. Genuine(sent[k + 1]) /\ Got = readHTTPResponse(back, sent[k + 1].method)
  BY <1>1, AskingIs, GotIs
<1>3. forward.end = "open"
  BY DEF Aligned, Linked
<1>4. /\ forward \in Sources /\ back \in Sources
      /\ proxy.interim \in 0 .. MaxInformationalResponses /\ proxy.interim \in Nat
      /\ upstream.interim \in 0 .. MaxInformationalResponses + 1 /\ upstream.interim \in Nat
  BY FormsAre
<1>5. /\ Formed(proxy) /\ upstream = [request |-> upstream.request, interim |-> upstream.interim]
      /\ served \in [Targets -> GivenAnswers]
  BY DEF Forms, Formed
<1> QED BY <1>1, <1>2, <1>3, <1>4, <1>5

\* The upstream was too slow: it may still answer, but nothing of it is read.
LEMMA DeadlineKeeps ==
  ASSUME Forms, Kept, NEW k \in Nat, Aligned(k), Deadline
  PROVE  IInv'
<1> DEFINE s == sent[k + 1]
           a == served[sent[k + 1].target]
           over == "timeout"
<1>1. /\ proxy.pc = "waiting" /\ Got.verdict # "read" /\ back' = [back EXCEPT !.end = over]
      /\ UNCHANGED <<inbox, outbox, sent, forward, link, upstream, served, proxy>>
  BY DEF Deadline, client
<1>2. /\ Got = readHTTPResponse(back, s.method) /\ Underway(forward, back, upstream, proxy.interim, s, a)
      /\ forward \in Sources /\ back \in Sources /\ forward.end = "open" /\ Formed(proxy)
      /\ proxy.interim \in 0 .. MaxInformationalResponses /\ proxy.interim \in Nat
      /\ upstream = [request |-> upstream.request, interim |-> upstream.interim]
      /\ upstream.interim \in 0 .. MaxInformationalResponses + 1
      /\ served \in [Targets -> GivenAnswers]
  BY <1>1, WaitingIs
<1>3. over \in Ends /\ over = "timeout"
  BY EndsAre
<1> HIDE DEF s, a, over
<1>4. /\ [back EXCEPT !.end = over] \in Sources
      /\ Underway(forward, [back EXCEPT !.end = over], upstream, proxy.interim, s, a)
  BY <1>1, <1>2, <1>3, UnderwayEnds
<1>5. back' \in Sources /\ Underway(forward, back', upstream, proxy.interim, s, a)
  BY <1>1, <1>4
<1> QED BY <1>1, <1>2, <1>5, WaitingKeeps DEF s, a

\* An interim response is counted and dropped.
LEMMA ReadInterimKeeps ==
  ASSUME Forms, Kept, NEW k \in Nat, Aligned(k), ReadInterim
  PROVE  IInv'
<1> DEFINE s == sent[k + 1]
           a == served[sent[k + 1].target]
           r == readHTTPResponse(back, s.method)
           left == Skip(back, r.next)
           i == proxy.interim
<1>1. /\ proxy.pc = "waiting" /\ Got.verdict = "read" /\ Interim(Got.message.status)
      /\ \/ i = MaxInformationalResponses /\ Fail("upstream_protocol")
         \/ /\ i < MaxInformationalResponses
            /\ proxy' = [proxy EXCEPT !.interim = @ + 1] /\ back' = Skip(back, Got.next)
            /\ UNCHANGED <<inbox, outbox, sent, forward, link, upstream, served>>
  BY DEF ReadInterim, client
<1>2. /\ Got = r /\ Underway(forward, back, upstream, i, s, a)
      /\ forward \in Sources /\ back \in Sources /\ forward.end = "open" /\ Formed(proxy)
      /\ i \in 0 .. MaxInformationalResponses /\ i \in Nat
      /\ upstream = [request |-> upstream.request, interim |-> upstream.interim]
      /\ upstream.interim \in 0 .. MaxInformationalResponses + 1 /\ upstream.interim \in Nat
      /\ served \in [Targets -> GivenAnswers]
  BY <1>1, WaitingIs
<1>3. \A m \in Responses : ~ Interim(m.status)
  BY RelayAssumption
<1>4. readHTTPResponse(back, s.method).verdict = "read" /\ Interim(readHTTPResponse(back, s.method).message.status)
  BY <1>1, <1>2
<1> HIDE DEF s, a
<1>5. /\ left \in Sources
      /\ i = MaxInformationalResponses => ~ Served(a)
      /\ i < MaxInformationalResponses => Underway(forward, left, upstream, i + 1, s, a)
  <2> HIDE DEF i
  <2> QED BY <1>2, <1>3, <1>4, UnderwayInterim
<1>6. CASE i = MaxInformationalResponses /\ Fail("upstream_protocol")
  BY <1>1, <1>5, <1>6, FailKeeps DEF a
<1>7. CASE /\ i < MaxInformationalResponses
           /\ proxy' = [proxy EXCEPT !.interim = @ + 1] /\ back' = Skip(back, Got.next)
           /\ UNCHANGED <<inbox, outbox, sent, forward, link, upstream, served>>
  <2>1. proxy'.pc = proxy.pc /\ proxy'.request = proxy.request /\ proxy'.interim = i + 1 /\ Formed(proxy')
    <3>1. PICK c, q, n, b : c = proxy.pc /\ q = proxy.request /\ n = i /\ b = proxy.response
      OBVIOUS
    <3>2. proxy = [pc |-> c, request |-> q, interim |-> n, response |-> b]
      BY <1>2, <3>1 DEF Formed
    <3>3. proxy' = [proxy EXCEPT !.interim = n + 1]
      BY <1>7, <3>2
    <3>4. proxy' = [pc |-> c, request |-> q, interim |-> n + 1, response |-> b]
      BY <3>2, <3>3
    <3>5. Formed(proxy')
      BY <3>4 DEF Formed
    <3> QED BY <3>1, <3>4, <3>5
  <2>2. back' = left
    BY <1>2, <1>7
  <2>3. MaxInformationalResponses \in Nat
    BY FormsAre
  <2>4. proxy'.interim \in 0 .. MaxInformationalResponses
    BY <1>2, <1>7, <2>1, <2>3
  <2>5. Underway(forward, back', upstream, proxy'.interim, s, a)
    BY <1>5, <1>7, <2>1, <2>2
  <2>6. proxy'.pc = "waiting"
    BY <1>1, <2>1
  <2> HIDE DEF i, left
  <2> QED BY <1>1, <1>2, <1>5, <1>7, <2>1, <2>2, <2>4, <2>5, <2>6, WaitingKeeps DEF s, a
<1> QED BY <1>1, <1>6, <1>7

\* The proxy reads the answer.
LEMMA ReadResponseKeeps ==
  ASSUME Forms, Kept, NEW k \in Nat, Aligned(k), ReadResponse
  PROVE  IInv'
<1> DEFINE s == sent[k + 1]
           a == served[sent[k + 1].target]
           r == readHTTPResponse(back, s.method)
           g == r.message
           left == Skip(back, r.next)
           i == proxy.interim
           response == sanitizeUpstreamResponse(g)
<1>1. /\ proxy.pc = "waiting" /\ Got.verdict = "read" /\ ~ Interim(Got.message.status)
      /\ Recycle(Got.message, Got.next)
      /\ proxy' = Giving(proxy, "responding", sanitizeUpstreamResponse(Got.message))
      /\ UNCHANGED <<inbox, outbox, sent, served>>
  BY DEF ReadResponse, client, Giving, Turn
<1>2. /\ Got = r /\ Underway(forward, back, upstream, i, s, a)
      /\ forward \in Sources /\ back \in Sources /\ forward.end = "open"
      /\ i \in 0 .. MaxInformationalResponses
  BY <1>1, WaitingIs
<1>3. readHTTPResponse(back, s.method).verdict = "read" /\ ~ Interim(readHTTPResponse(back, s.method).message.status)
  BY <1>1, <1>2
<1>4. /\ upstream = Idle /\ forward.symbols = <<>>
      /\ Served(a) /\ a.message \in Responses /\ Gives(g, a.message, s.method)
      /\ left \in Sources /\ left.symbols = <<>>
  <2> HIDE DEF i, s, a
  <2> QED BY <1>2, <1>3, UnderwayAnswered
<1>5. Conveys(response, s.method, s, a) /\ response.close = FALSE
  <2> DEFINE m == a.message
  <2>1. m \in Responses /\ Served(a) /\ a.message = m /\ Gives(g, m, s.method)
    BY <1>4
  <2> HIDE DEF m, g, s, a
  <2> QED BY <2>1, AnswerConveys
<1>6. proxy' = Giving(proxy, "responding", response) /\ Recycle(g, r.next)
  BY <1>1, <1>2
<1> HIDE DEF response
<1>7. proxy'.pc = "responding"
  <2> DEFINE c == "responding"
  <2>1. proxy' = Giving(proxy, c, response)
    BY <1>6
  <2> HIDE DEF c
  <2>2. /\ proxy'.pc = c /\ proxy'.request = proxy.request /\ proxy'.interim = proxy.interim
        /\ proxy'.response = response /\ Formed(proxy')
    BY <2>1, GivingIs
  <2> QED BY <2>2 DEF c
<1>8. Linked(k)' /\ forward' \in Sources /\ back' \in Sources /\ link' \in {"none", "idle", "busy"}
      /\ upstream' = [request |-> None, interim |-> 0]
  <2> HIDE DEF g, r
  <2>1. CASE Disconnect
    BY <1>7, <2>1, Disconnected
  <2>2. CASE link' = "idle" /\ back' = Skip(back, r.next) /\ UNCHANGED <<forward, upstream>>
    BY <1>2, <1>4, <1>7, <2>2 DEF Linked, Idle
  <2>3. Disconnect \/ (link' = "idle" /\ back' = Skip(back, r.next) /\ UNCHANGED <<forward, upstream>>)
    BY <1>6 DEF Recycle
  <2> QED BY <2>1, <2>2, <2>3
<1> HIDE DEF g, r, left, i
<1> QED BY <1>1, <1>5, <1>6, <1>8, AttemptEnds

-----------------------------------------------------------------------------
(* The upstream                                                            *)

\* What the upstream reads, or answers, is under way.
LEMMA UpstreamIs ==
  ASSUME Forms, Kept, NEW k \in Nat, Aligned(k), forward.symbols # <<>> \/ upstream.request # None
  PROVE  proxy.pc = "waiting"
<1> SUFFICES ASSUME proxy.pc # "waiting" PROVE FALSE
  OBVIOUS
<1>1. forward.symbols = <<>> /\ upstream = Idle
  BY DEF Aligned, Linked
<1> QED BY <1>1 DEF Idle

\* The upstream reads the request as it was relayed.
LEMMA UpstreamReadsKeeps ==
  ASSUME Forms, Kept, NEW k \in Nat, Aligned(k), UpstreamReads
  PROVE  IInv'
<1> DEFINE s == sent[k + 1]
           a == served[sent[k + 1].target]
           i == proxy.interim
           left == Skip(forward, readHTTPRequest(forward).next)
<1>1. /\ readHTTPRequest(forward).verdict = "read"
      /\ upstream' = [upstream EXCEPT !.request = readHTTPRequest(forward).message] /\ forward' = left
      /\ UNCHANGED <<inbox, outbox, sent, back, link, served, proxy>>
  BY DEF UpstreamReads, client, Heard
<1>2. proxy.pc = "waiting"
  <2>1. forward.symbols # <<>>
    BY <1>1, EmptyRead
  <2> QED BY <2>1, UpstreamIs
<1>3. /\ Underway(forward, back, upstream, i, s, a) /\ forward \in Sources /\ back \in Sources /\ forward.end = "open"
      /\ Formed(proxy) /\ i \in 0 .. MaxInformationalResponses /\ served \in [Targets -> GivenAnswers]
  BY <1>2, WaitingIs
<1>4. /\ left \in Sources /\ left.end = forward.end
      /\ upstream' = [request |-> upstream'.request, interim |-> 0]
      /\ Underway(left, back, upstream', i, s, a)
  <2> DEFINE on == upstream'
             up == upstream
  <2>1. on = [up EXCEPT !.request = readHTTPRequest(forward).message]
    BY <1>1
  <2> HIDE DEF i, s, a, on
  <2>2. /\ left \in Sources /\ left.end = forward.end /\ on = [request |-> on.request, interim |-> 0]
        /\ Underway(left, back, on, i, s, a)
    BY <1>1, <1>3, <2>1, UnderwayRead
  <2> QED BY <2>2 DEF on
<1>5. upstream'.interim = 0
  <2>1. PICK q : q = upstream'.request
    OBVIOUS
  <2>2. upstream' = [request |-> q, interim |-> 0]
    BY <1>4, <2>1
  <2> QED BY <2>2
<1>6. MaxInformationalResponses \in Nat /\ 0 \in 0 .. MaxInformationalResponses + 1
  BY FormsAre
<1>7. /\ upstream' = [request |-> upstream'.request, interim |-> upstream'.interim]
      /\ upstream'.interim \in 0 .. MaxInformationalResponses + 1
  BY <1>4, <1>5, <1>6
<1>8. forward' \in Sources /\ forward'.end = "open" /\ back' \in Sources
      /\ Underway(forward', back', upstream', i, s, a)
  BY <1>1, <1>3, <1>4
<1> HIDE DEF left
<1> QED BY <1>1, <1>2, <1>3, <1>7, <1>8, WaitingKeeps

\* The upstream sends one more interim response.
LEMMA UpstreamPausesKeeps ==
  ASSUME Forms, Kept, NEW k \in Nat, Aligned(k), UpstreamPauses
  PROVE  IInv'
<1> DEFINE s == sent[k + 1]
           a == served[sent[k + 1].target]
           i == proxy.interim
<1>1. /\ upstream.request # None /\ upstream.interim <= MaxInformationalResponses
      /\ upstream' = [upstream EXCEPT !.interim = @ + 1]
      /\ \E w \in ResponseFramings(upstream.request.method, InterimResponse) :
           back' = Arrive(back, <<StatusLine(InterimResponse.status)>> \o w.head, "open")
      /\ UNCHANGED <<inbox, outbox, sent, forward, link, served, proxy>>
  BY DEF UpstreamPauses, Due, client
<1>2. proxy.pc = "waiting"
  BY <1>1, UpstreamIs
<1>3. /\ Underway(forward, back, upstream, i, s, a) /\ forward \in Sources /\ back \in Sources /\ forward.end = "open"
      /\ Formed(proxy) /\ i \in 0 .. MaxInformationalResponses /\ i \in Nat /\ served \in [Targets -> GivenAnswers]
      /\ upstream = [request |-> upstream.request, interim |-> upstream.interim] /\ upstream.interim \in Nat
  BY <1>2, WaitingIs
<1>4. back' = Arrive(back, Pause, "open")
  BY <1>1, PauseIs
<1>5. /\ Arrive(back, Pause, "open") \in Sources
      /\ Underway(forward, Arrive(back, Pause, "open"), [upstream EXCEPT !.interim = @ + 1], i, s, a)
  <2> HIDE DEF i, s, a
  <2> QED BY <1>1, <1>3, UnderwayPause
<1>6. upstream' = [request |-> upstream'.request, interim |-> upstream'.interim]
        /\ upstream'.interim = upstream.interim + 1
  <2>1. PICK q, n : q = upstream.request /\ n = upstream.interim
    OBVIOUS
  <2>2. upstream = [request |-> q, interim |-> n]
    BY <1>3, <2>1
  <2>3. upstream' = [upstream EXCEPT !.interim = n + 1]
    BY <1>1, <2>2
  <2>4. upstream' = [request |-> q, interim |-> n + 1]
    BY <2>2, <2>3
  <2> QED BY <2>1, <2>4
<1>7. MaxInformationalResponses \in Nat
  BY FormsAre
<1>8. upstream'.interim \in 0 .. MaxInformationalResponses + 1
  BY <1>1, <1>3, <1>6, <1>7
<1>9. back' \in Sources /\ Underway(forward', back', upstream', i, s, a)
  BY <1>1, <1>4, <1>5
<1>10. upstream' = [request |-> upstream'.request, interim |-> upstream'.interim]
  BY <1>6
<1> QED BY <1>1, <1>2, <1>3, <1>8, <1>9, <1>10, WaitingKeeps

\* What the upstream sends in answer is the answer, or is not read as one.
LEMMA ServingKeeps ==
  ASSUME Forms, Kept, NEW k \in Nat, Aligned(k), Due,
         NEW m \in Responses \cup {None}, NEW v \in BOOLEAN, NEW x \in Seq(Symbols), NEW end \in Ends,
         NEW b, b = [message |-> m, whole |-> v],
         Completed(x, end, sent[k + 1], b, upstream.interim) \/ Spoilt(x, end, sent[k + 1], b, upstream.interim),
         back' = Arrive(back, x, end), upstream' = Idle, served' = [served EXCEPT ![upstream.request.target] = b],
         UNCHANGED <<inbox, outbox, sent, forward, link, proxy>>
  PROVE  IInv'
<1> DEFINE s == sent[k + 1]
           a == served[sent[k + 1].target]
           i == proxy.interim
<1>1. upstream.request # None
  BY DEF Due
<1>2. proxy.pc = "waiting"
  BY <1>1, UpstreamIs
<1>3. /\ Underway(forward, back, upstream, i, s, a) /\ forward \in Sources /\ back \in Sources /\ forward.end = "open"
      /\ Formed(proxy) /\ i \in 0 .. MaxInformationalResponses /\ i \in Nat /\ served \in [Targets -> GivenAnswers]
      /\ upstream.interim \in 0 .. MaxInformationalResponses + 1 /\ Genuine(s) /\ s.target \in Targets
  BY <1>2, WaitingIs
<1>4. Completed(x, end, s, b, upstream.interim) \/ Spoilt(x, end, s, b, upstream.interim)
  OBVIOUS
<1>5. Arrive(back, x, end) \in Sources /\ Underway(forward, Arrive(back, x, end), Idle, i, s, b)
  <2> HIDE DEF i, s, a
  <2> QED BY <1>1, <1>3, <1>4, UnderwayAnswer
<1>6. upstream.request.target = s.target
  <2> HIDE DEF i, s, a
  <2> QED BY <1>1, <1>3, UnderwayDue
<1>7. b \in GivenAnswers
  BY ServedIs
<1>8. /\ served' \in [Targets -> GivenAnswers] /\ served'[s.target] = b
      /\ \A t \in Targets : t # s.target => served'[t] = served[t]
  <2> HIDE DEF s
  <2> QED BY <1>3, <1>6, <1>7
<1>9. /\ upstream' = [request |-> None, interim |-> 0] /\ upstream'.request = None /\ upstream'.interim = 0
  BY DEF Idle
<1>10. MaxInformationalResponses \in Nat /\ 0 \in 0 .. MaxInformationalResponses + 1
  BY FormsAre
<1>11. /\ upstream' = [request |-> upstream'.request, interim |-> upstream'.interim]
       /\ upstream'.interim \in 0 .. MaxInformationalResponses + 1
  BY <1>9, <1>10
<1>12. back' \in Sources /\ Underway(forward', back', upstream', i, s, served'[s.target])
  BY <1>5, <1>8
<1> QED BY <1>2, <1>3, <1>8, <1>11, <1>12, WaitingKeeps

\* The request that the upstream answers.
LEMMA DueIs ==
  ASSUME Forms, Kept, NEW k \in Nat, Aligned(k), Due
  PROVE  /\ Genuine(sent[k + 1]) /\ upstream.request.method = sent[k + 1].method
         /\ upstream.interim \in 0 .. MaxInformationalResponses + 1
<1> DEFINE s == sent[k + 1]
           a == served[sent[k + 1].target]
           i == proxy.interim
<1>1. upstream.request # None
  BY DEF Due
<1>2. proxy.pc = "waiting"
  BY <1>1, UpstreamIs
<1>3. Underway(forward, back, upstream, i, s, a) /\ Genuine(s)
        /\ upstream.interim \in 0 .. MaxInformationalResponses + 1
  BY <1>2, WaitingIs
<1>4. upstream.request.method = s.method
  <2> HIDE DEF i, s, a
  <2> QED BY <1>1, <1>3, UnderwayDue
<1> QED BY <1>3, <1>4

\* The upstream's answer is on its way, for the request that it has read.
LEMMA UpstreamAnswersKeeps ==
  ASSUME Forms, Kept, NEW k \in Nat, Aligned(k), UpstreamAnswers
  PROVE  IInv'
<1> DEFINE s == sent[k + 1]
           total == upstream.interim
<1>1. Due
  BY DEF UpstreamAnswers
<1>2. Genuine(s) /\ upstream.request.method = s.method /\ total \in 0 .. MaxInformationalResponses + 1
  BY <1>1, DueIs
<1>3. PICK m \in Responses : \E w \in ResponseFramings(upstream.request.method, m) :
        Serving(m, TRUE, <<StatusLine(m.status)>> \o w.head \o w.body,
                IF CloseDelimited(upstream.request.method, m, w) \/ HasToken(m.hops, "Connection", "close")
                THEN "fin" ELSE "open")
  BY DEF UpstreamAnswers
<1>4. PICK w \in ResponseFramings(s.method, m) :
        Serving(m, TRUE, <<StatusLine(m.status)>> \o w.head \o w.body,
                IF CloseDelimited(s.method, m, w) \/ HasToken(m.hops, "Connection", "close") THEN "fin" ELSE "open")
  BY <1>2, <1>3
<1> DEFINE x == <<StatusLine(m.status)>> \o w.head \o w.body
           end == IF CloseDelimited(s.method, m, w) \/ HasToken(m.hops, "Connection", "close") THEN "fin" ELSE "open"
           v == total <= MaxInformationalResponses
           b == [message |-> m, whole |-> v]
<1>5. /\ back' = Arrive(back, x, end) /\ upstream' = Idle
      /\ served' = [served EXCEPT ![upstream.request.target] = b]
      /\ UNCHANGED <<inbox, outbox, sent, forward, link, proxy>>
  BY <1>4 DEF Serving, client
<1>6. x \in Seq(Symbols)
  BY AnswerIs
<1>7. end \in Ends /\ v \in BOOLEAN
  BY EndsAre
<1>8. Completed(x, end, s, b, total) \/ Spoilt(x, end, s, b, total)
  <2> DEFINE method == s.method
  <2>1. v = (total <= MaxInformationalResponses) /\ b = [message |-> m, whole |-> v]
    OBVIOUS
  <2>2. end = IF CloseDelimited(s.method, m, w) \/ HasToken(m.hops, "Connection", "close") THEN "fin" ELSE "open"
    OBVIOUS
  <2> HIDE DEF s, total, v, b, end
  <2> QED BY <1>2, <1>4, <2>1, <2>2, AnswerFits
<1>9. m \in Responses \cup {None} /\ b = [message |-> m, whole |-> v]
  OBVIOUS
<1> HIDE DEF x, end, v, b
<1> QED BY <1>1, <1>5, <1>6, <1>7, <1>8, <1>9, ServingKeeps

\* What does not come through.
LEMMA SpoilingKeeps ==
  ASSUME Forms, Kept, NEW k \in Nat, Aligned(k), Due, NEW m \in Responses \cup {None}, NEW x \in Seq(Symbols),
         NEW end \in Ends, Unreadable(x, end, sent[k + 1].method), Serving(m, FALSE, x, end)
  PROVE  IInv'
<1> DEFINE s == sent[k + 1]
           v == FALSE
           total == upstream.interim
           b == [message |-> m, whole |-> v]
<1>1. /\ back' = Arrive(back, x, end) /\ upstream' = Idle
      /\ served' = [served EXCEPT ![upstream.request.target] = b]
      /\ UNCHANGED <<inbox, outbox, sent, forward, link, proxy>>
  BY DEF Serving, client
<1>2. v \in BOOLEAN /\ b = [message |-> m, whole |-> v]
  OBVIOUS
<1>3. Spoilt(x, end, s, b, total)
  <2>1. Unreadable(x, end, s.method) /\ b = [message |-> m, whole |-> FALSE]
    OBVIOUS
  <2> HIDE DEF s, b, total
  <2> QED BY <2>1, UnreadableSpoils
<1> HIDE DEF v, b
<1> QED BY <1>1, <1>2, <1>3, ServingKeeps

\* An answer that is cut off is not read as one.
LEMMA UpstreamBreaksOffKeeps ==
  ASSUME Forms, Kept, NEW k \in Nat, Aligned(k), UpstreamBreaksOff
  PROVE  IInv'
<1> DEFINE s == sent[k + 1]
<1>1. Due
  BY DEF UpstreamBreaksOff
<1>2. upstream.request.method = s.method
  BY <1>1, DueIs
<1>3. PICK m \in Responses : \E w \in ResponseFramings(s.method, m) :
        \E symbols \in Cuts(<<StatusLine(m.status)>> \o w.head \o w.body), end \in {"fin", "reset"} :
          /\ CloseDelimited(s.method, m, w) /\ end = "fin" => Len(symbols) < Len(<<StatusLine(m.status)>> \o w.head)
          /\ Serving(m, FALSE, symbols, end)
  BY <1>2 DEF UpstreamBreaksOff
<1>4. PICK w \in ResponseFramings(s.method, m) :
        \E symbols \in Cuts(<<StatusLine(m.status)>> \o w.head \o w.body), end \in {"fin", "reset"} :
          /\ CloseDelimited(s.method, m, w) /\ end = "fin" => Len(symbols) < Len(<<StatusLine(m.status)>> \o w.head)
          /\ Serving(m, FALSE, symbols, end)
  BY <1>3
<1>5. PICK c \in Cuts(<<StatusLine(m.status)>> \o w.head \o w.body), end \in {"fin", "reset"} :
        /\ CloseDelimited(s.method, m, w) /\ end = "fin" => Len(c) < Len(<<StatusLine(m.status)>> \o w.head)
        /\ Serving(m, FALSE, c, end)
  BY <1>4
<1>6. c \in Seq(Symbols) /\ Unreadable(c, end, s.method)
  <2> HIDE DEF s
  <2> QED BY <1>4, <1>5, CutFits
<1>7. end \in Ends /\ m \in Responses \cup {None}
  BY EndsAre
<1> QED BY <1>1, <1>5, <1>6, <1>7, SpoilingKeeps

\* Something that is not an answer is not read as one.
LEMMA UpstreamErrsKeeps ==
  ASSUME Forms, Kept, NEW k \in Nat, Aligned(k), UpstreamErrs
  PROVE  IInv'
<1> DEFINE s == sent[k + 1]
<1>1. Due /\ upstream.request.method # "HEAD"
  BY DEF UpstreamErrs
<1>2. Genuine(s) /\ s.method # "HEAD"
  BY <1>1, DueIs
<1>3. PICK bad \in BadResponses : Serving(None, FALSE, bad, "open")
  BY DEF UpstreamErrs
<1> DEFINE end == "open"
<1>4. bad \in Seq(Symbols) /\ Unreadable(bad, end, s.method)
  <2> HIDE DEF s, end
  <2> QED BY <1>2, JunkFits
<1>5. end \in Ends /\ None \in Responses \cup {None}
  BY EndsAre
<1>6. Serving(None, FALSE, bad, end)
  BY <1>3
<1> HIDE DEF end
<1> QED BY <1>1, <1>4, <1>5, <1>6, SpoilingKeeps

\* The connection ends.
LEMMA UpstreamClosesKeeps ==
  ASSUME Forms, Kept, NEW k \in Nat, Aligned(k), UpstreamCloses
  PROVE  IInv'
<1> DEFINE over == "fin"
<1>1. /\ back.end = "open" /\ back' = [back EXCEPT !.end = over]
      /\ UNCHANGED <<inbox, outbox, sent, forward, link, upstream, served, proxy>>
  BY DEF UpstreamCloses, Working, client
<1>2. over \in Ends /\ back \in Sources
  BY EndsAre, FormsAre
<1> HIDE DEF over
<1>3. back' \in Sources /\ back'.symbols = back.symbols
  BY <1>1, <1>2, EndIs
<1>4. CASE proxy.pc = "waiting"
  <2> DEFINE s == sent[k + 1]
             a == served[sent[k + 1].target]
             i == proxy.interim
  <2>1. /\ Underway(forward, back, upstream, i, s, a) /\ forward \in Sources /\ forward.end = "open"
        /\ Formed(proxy) /\ i \in 0 .. MaxInformationalResponses /\ i \in Nat /\ served \in [Targets -> GivenAnswers]
        /\ upstream = [request |-> upstream.request, interim |-> upstream.interim]
        /\ upstream.interim \in 0 .. MaxInformationalResponses + 1
    BY <1>4, WaitingIs
  <2>2. /\ [back EXCEPT !.end = over] \in Sources
        /\ Underway(forward, [back EXCEPT !.end = over], upstream, i, s, a)
    <3> HIDE DEF s, a, i
    <3> QED BY <1>1, <1>2, <2>1, UnderwayEnds
  <2>3. Underway(forward, back', upstream, i, s, a)
    BY <1>1, <2>2
  <2> QED BY <1>1, <1>3, <1>4, <2>1, <2>3, WaitingKeeps
<1>5. CASE proxy.pc # "waiting"
  <2>1. Forms'
    BY <1>1, <1>3 DEF Forms, TypeOK
  <2>2. Kept'
    BY <1>1 DEF Kept
  <2>3. Answered(k)'
    BY <1>1 DEF Aligned, Answered
  <2>4. Held(k)'
    BY <1>1 DEF Aligned, Held, Replying, Asking
  <2>5. Linked(k)'
    BY <1>1, <1>3, <1>5 DEF Aligned, Linked
  <2> QED BY <2>1, <2>2, <2>3, <2>4, <2>5 DEF IInv, Aligned
<1> QED BY <1>4, <1>5

-----------------------------------------------------------------------------
(* The client                                                              *)

\* What was unread from the request at j is unread from the one at l.
Moves(j, l) == Unread(inbox.symbols, sent, inbox.end, j) => Unread(inbox.symbols, sent, inbox.end, l)'

\* What the loop has in hand, when the client moves on.
LEMMA HeldMoves ==
  ASSUME NEW k \in Nat, Held(k), NEW j \in Nat, proxy' = proxy,
         proxy.pc = "reading" => Moves(k + 1, j + 1),
         k < Len(sent) => /\ Moves(k + 2, j + 2) /\ j < Len(sent') /\ sent'[j + 1] = sent[k + 1]
                          /\ served'[sent[k + 1].target] = served[sent[k + 1].target]
  PROVE  Held(j)'
<1>1. k < Len(sent) /\ Asking(k) => Asking(j)'
  BY DEF Asking, Moves
<1>2. k < Len(sent) /\ Replying(k) => Replying(j)'
  BY <1>1 DEF Replying
<1> QED BY <1>1, <1>2 DEF Held, Moves

\* The target of the next request is free.
LEMMA NextTargetIs ==
  ASSUME Forms, Kept, Len(sent) < 2
  PROVE  /\ NextTarget \in Targets /\ served[NextTarget] = None
         /\ \A i \in DOMAIN sent : sent[i].target # NextTarget
<1> DEFINE n == Len(sent)
<1>1. n \in {0, 1} /\ DOMAIN sent = 1 .. n /\ sent \in Seq(SentMessages)
  BY KeptAre
<1>2. NextTarget \in Targets /\ \A i \in DOMAIN sent : sent[i].target # NextTarget
  <2>1. CASE n = 0
    <3>1. sent = <<>> /\ DOMAIN sent = {}
      BY <1>1, <2>1
    <3> QED BY <3>1 DEF NextTarget, Targets
  <2>2. CASE n = 1
    <3>1. sent # <<>> /\ Last(sent) = sent[1] /\ DOMAIN sent = {1}
      BY <1>1, <2>2 DEF Last
    <3>2. sent[1].target \in Targets
      BY <3>1, KeptAre
    <3>3. NextTarget = 3 - sent[1].target
      BY <3>1 DEF NextTarget
    <3> DEFINE t == sent[1].target
    <3>4. t \in 1 .. 2 /\ NextTarget = 3 - t
      BY <3>2, <3>3 DEF Targets
    <3> HIDE DEF t
    <3>5. NextTarget \in 1 .. 2 /\ t # NextTarget
      BY <3>4
    <3> QED BY <3>1, <3>5 DEF Targets, t
  <2> QED BY <1>1, <2>1, <2>2
<1>3. served[NextTarget] = None
  BY <1>2 DEF Kept
<1> QED BY <1>2, <1>3

\* x is a request more, or what there is of the only one.
More(x, s, end) ==
  \A j \in 1 .. Len(sent) + 1 :
    Unread(inbox.symbols, sent, inbox.end, j) => Unread(inbox.symbols \o x, Append(sent, s), end, j)

\* A request that joins the ones before it, and is the next to be read or the one after it.
LEMMA SendingKeeps ==
  ASSUME Forms, Kept, NEW k \in Nat, Aligned(k), ClientMaySend, NEW s \in SentMessages, s.target = NextTarget,
         NEW x \in Seq(Symbols), NEW end \in Ends, inbox' = Arrive(inbox, x, end), sent' = Append(sent, s),
         UNCHANGED <<outbox, forward, back, link, upstream, served, proxy>>,
         Proper(s, Len(sent) + 1, Len(sent) + 1, end), end # "open" => sent = <<>> /\ ~ Whole(s),
         More(x, s, end)
  PROVE  IInv'
<1> DEFINE n == Len(sent)
<1>1. inbox.end = "open" /\ outbox.end = "open" /\ n < 2
  BY DEF ClientMaySend
<1>2. n \in {0, 1} /\ DOMAIN sent = 1 .. n /\ sent \in Seq(SentMessages) /\ n \in Nat
  BY <1>1, KeptAre
<1>3. s.target \in Targets /\ served[s.target] = None /\ \A i \in DOMAIN sent : sent[i].target # s.target
  BY <1>1, NextTargetIs
<1>4. /\ sent' \in Seq(SentMessages) /\ Len(sent') = n + 1 /\ sent'[n + 1] = s
      /\ DOMAIN sent' = 1 .. n + 1 /\ \A i \in 1 .. n : sent'[i] = sent[i]
  BY <1>2
<1>5. inbox' \in Sources /\ inbox'.symbols = inbox.symbols \o x /\ inbox'.end = end
  <2>1. inbox \in Sources
    BY FormsAre
  <2> QED BY <2>1, ArriveIs
<1>6. proxy.pc # "closed"
  BY <1>1 DEF Aligned, Answered
<1>7. k \in 0 .. n
  BY DEF Aligned, Answered
<1> HIDE DEF n
<1>8. Forms'
  BY <1>5 DEF Forms, TypeOK
<1>9. Kept'
  <2>1. \A i \in DOMAIN sent' : Proper(sent'[i], i, n + 1, end)
    <3>1. ASSUME NEW i \in 1 .. n + 1 PROVE Proper(sent'[i], i, n + 1, end)
      <4>1. CASE i = n + 1
        BY <1>4, <4>1 DEF n
      <4>2. CASE i \in 1 .. n
        <5>1. Proper(sent[i], i, n, "open")
          BY <1>1, <1>2, <4>2, KeptAre DEF n
        <5>2. end = "open"
          <6>1. sent # <<>>
            BY <1>2, <4>2
          <6> QED BY <6>1
        <5>3. sent'[i] = sent[i]
          BY <1>4, <4>2
        <5> QED BY <5>1, <5>2, <5>3 DEF Proper
      <4>3. i = n + 1 \/ i \in 1 .. n
        BY <1>2
      <4> QED BY <4>1, <4>2, <4>3
    <3> QED BY <1>4, <3>1
  <2>2. n + 1 = 2 => sent'[1].target # sent'[2].target
    BY <1>2, <1>3, <1>4
  <2>3. Pending(sent', end)
    <3> DEFINE q == sent'
    <3>1. q \in Seq(SentMessages) /\ Len(q) = n + 1 /\ n + 1 <= 2
      BY <1>2, <1>4
    <3>2. (n + 1 = 2 => q[1].target # q[2].target) /\ \A i \in DOMAIN q : Proper(q[i], i, n + 1, end)
      BY <2>1, <2>2
    <3> HIDE DEF q
    <3>3. Pending(q, end)
      BY <3>1, <3>2 DEF Pending
    <3> QED BY <3>3 DEF q
  <2>4. ASSUME NEW t \in Targets PROVE served'[t] = None \/ \E i \in DOMAIN sent' : sent'[i].target = t
    <3>1. CASE served[t] = None
      BY <3>1
    <3>2. CASE \E i \in DOMAIN sent : sent[i].target = t
      <4>1. PICK i \in 1 .. n : sent[i].target = t
        BY <1>2, <3>2
      <4>2. i \in DOMAIN sent' /\ sent'[i].target = t
        BY <1>2, <1>4, <4>1
      <4> QED BY <4>2
    <3> QED BY <3>1, <3>2 DEF Kept
  <2> QED BY <1>5, <2>3, <2>4 DEF Kept
<1>10. Answered(k)'
  <2>1. Spoken(outbox.symbols, sent', served, k)
    <3>1. Spoken(outbox.symbols, sent, served, k) /\ k \in 0 .. 2
      BY <1>2, <1>6, <1>7 DEF Aligned, Answered
    <3>2. \A i \in 1 .. k : sent'[i] = sent[i] /\ served[sent[i].target] = served[sent[i].target]
      BY <1>2, <1>4, <1>7
    <3> DEFINE q == sent'
    <3> HIDE DEF q
    <3>3. \A i \in 1 .. k : q[i] = sent[i] /\ served[sent[i].target] = served[sent[i].target]
      BY <3>2 DEF q
    <3>4. Spoken(outbox.symbols, q, served, k)
      BY <3>1, <3>3, SpokenSame
    <3> QED BY <3>4 DEF q
  <2>2. k \in 0 .. n + 1 /\ \A i \in 1 .. k : Whole(sent'[i])
    <3>1. \A i \in 1 .. k : Whole(sent[i]) /\ sent'[i] = sent[i]
      BY <1>2, <1>4, <1>6, <1>7 DEF Aligned, Answered
    <3> QED BY <1>2, <1>7, <3>1
  <2>3. inbox'.end = "reset" => k < n + 1 /\ ~ Whole(sent'[k + 1])
    <3> SUFFICES ASSUME inbox'.end = "reset" PROVE k < n + 1 /\ ~ Whole(sent'[k + 1])
      OBVIOUS
    <3>1. n = 0 /\ ~ Whole(s)
      BY <1>5 DEF n
    <3> QED BY <1>4, <1>7, <3>1
  <2>4. ASSUME NEW i \in k + 1 .. n + 1
        PROVE  served[sent'[i].target] = None \/ (i = k + 1 /\ proxy.pc \in {"waiting", "responding"})
    <3>1. CASE i = n + 1
      BY <1>3, <1>4, <3>1
    <3>2. CASE i \in k + 1 .. n
      <4>1. sent'[i] = sent[i]
        BY <1>4, <1>7, <3>2
      <4> QED BY <3>2, <4>1 DEF Aligned, Answered, n
    <3>3. i = n + 1 \/ i \in k + 1 .. n
      BY <1>2, <1>7
    <3> QED BY <3>1, <3>2, <3>3
  <2> QED BY <1>1, <1>4, <1>6, <2>1, <2>2, <2>3, <2>4 DEF Answered
<1>11. k < n => sent'[k + 1] = sent[k + 1] /\ k < Len(sent')
  BY <1>2, <1>4, <1>7
<1>12. Held(k)'
  <2>1. Moves(k + 1, k + 1)
    <3>1. k + 1 \in 1 .. n + 1
      BY <1>2, <1>7
    <3> QED BY <1>5, <3>1 DEF More, Moves, n
  <2>2. k < n => Moves(k + 2, k + 2)
    <3> SUFFICES ASSUME k < n PROVE Moves(k + 2, k + 2)
      OBVIOUS
    <3>1. k + 2 \in 1 .. n + 1
      BY <1>2, <1>7
    <3> QED BY <1>5, <3>1 DEF More, Moves, n
  <2> QED BY <1>11, <2>1, <2>2, HeldMoves DEF Aligned, n
<1>13. Linked(k)'
  <2>1. proxy.pc = "waiting" => k < n
    BY DEF Aligned, Held, n
  <2> QED BY <1>11, <2>1, LinkedStays DEF Aligned
<1> QED BY <1>8, <1>9, <1>10, <1>12, <1>13 DEF IInv, Aligned

\* What the client sends, and what it waits for then.
LEMMA SendingIs ==
  ASSUME Forms, Kept, ClientMaySend, NEW m \in Exchanges, NEW whole \in BOOLEAN, NEW x, NEW end,
           Sending(m, whole, x, end)
  PROVE  \E s \in SentMessages :
           /\ s = [target |-> NextTarget, method |-> m.method, message |-> m, whole |-> whole]
           /\ s.target = NextTarget /\ s.method = m.method /\ s.message = m /\ (Whole(s) <=> whole)
           /\ inbox' = Arrive(inbox, x, end) /\ sent' = Append(sent, s)
           /\ UNCHANGED <<outbox, forward, back, link, upstream, served, proxy>>
<1>1. NextTarget \in Targets
  <2>1. Len(sent) < 2
    BY DEF ClientMaySend
  <2> QED BY <2>1, NextTargetIs
<1> DEFINE method == m.method
           t == NextTarget
           s == [target |-> t, method |-> method, message |-> m, whole |-> whole]
<1>2. /\ inbox' = Arrive(inbox, x, end) /\ sent' = Append(sent, s)
      /\ UNCHANGED <<outbox, forward, back, link, upstream, served, proxy>>
  BY DEF Sending, peer
<1>3. method \in {o.method : o \in Exchanges}
  OBVIOUS
<1> HIDE DEF t, method
<1>4. s \in SentMessages /\ s.target = t /\ s.method = method /\ s.message = m /\ (Whole(s) <=> whole)
  BY <1>1, <1>3 DEF SentMessages, t, Whole
<1> HIDE DEF s
<1>5. s = [target |-> NextTarget, method |-> m.method, message |-> m, whole |-> whole]
  BY DEF s, t, method
<1>6. /\ s.target = NextTarget /\ s.method = m.method /\ s.message = m /\ (Whole(s) <=> whole)
      /\ inbox' = Arrive(inbox, x, end) /\ sent' = Append(sent, s)
      /\ UNCHANGED <<outbox, forward, back, link, upstream, served, proxy>>
  BY <1>2, <1>4 DEF t, method
<1> USE <1>4
<1> WITNESS s \in SentMessages
<1> QED BY <1>5, <1>6

\* A whole request.
LEMMA ClientSendsKeeps ==
  ASSUME Forms, Kept, NEW k \in Nat, Aligned(k), ClientSends
  PROVE  IInv'
<1> DEFINE end == "open"
           v == TRUE
<1>1. ClientMaySend /\ v \in BOOLEAN
  BY DEF ClientSends
<1>2. PICK m \in Requests : \E text \in RequestTexts(m, NextTarget) : Sending(m, v, text, end)
  BY DEF ClientSends
<1>3. PICK x \in RequestTexts(m, NextTarget) : Sending(m, v, x, end)
  BY <1>2
<1>4. m \in Exchanges
  BY DEF Exchanges
<1> HIDE DEF v
<1>5. PICK s \in SentMessages :
        /\ s = [target |-> NextTarget, method |-> m.method, message |-> m, whole |-> v]
        /\ s.target = NextTarget /\ s.method = m.method /\ s.message = m /\ (Whole(s) <=> v)
        /\ inbox' = Arrive(inbox, x, end) /\ sent' = Append(sent, s)
        /\ UNCHANGED <<outbox, forward, back, link, upstream, served, proxy>>
  BY <1>1, <1>3, <1>4, SendingIs
<1>6. /\ s.target = NextTarget /\ s.method = m.method /\ s.message = m /\ Whole(s)
      /\ inbox' = Arrive(inbox, x, end) /\ sent' = Append(sent, s)
      /\ UNCHANGED <<outbox, forward, back, link, upstream, served, proxy>>
  BY <1>5 DEF v
<1>7. Asks(x, s)
  <2>1. NextTarget \in Nat
    BY <1>1, NextTargetIs DEF Targets, ClientMaySend
  <2>2. PICK g : ReadsRequest(x, g)
    BY <2>1, RequestTextReads
  <2>3. x \in Seq(Symbols)
    BY <2>2 DEF ReadsRequest
  <2> QED BY <1>6, <2>3 DEF Asks
<1>8. x \in Seq(Symbols) /\ end \in Ends
  BY <1>7, EndsAre DEF Asks
<1>9. Len(sent) < 2 /\ inbox.end = "open" /\ sent \in Seq(SentMessages)
  BY <1>1, KeptAre DEF ClientMaySend
<1>10. More(x, s, end)
  <2>1. ASSUME NEW j \in 1 .. Len(sent) + 1, Unread(inbox.symbols, sent, inbox.end, j)
        PROVE  Unread(inbox.symbols \o x, Append(sent, s), end, j)
    <3> DEFINE y == inbox.symbols
    <3>1. Unread(y, sent, "open", j)
      BY <1>9, <2>1
    <3> HIDE DEF y
    <3>2. Unread(y \o x, Append(sent, s), "open", j)
      BY <1>7, <1>9, <3>1, UnreadMore
    <3> QED BY <3>2 DEF y
  <2> QED BY <2>1 DEF More
<1>11. Proper(s, Len(sent) + 1, Len(sent) + 1, end)
  BY <1>6 DEF Proper
<1> QED BY <1>1, <1>6, <1>8, <1>10, <1>11, SendingKeeps

\* Something that is not a request.
LEMMA ClientErrsKeeps ==
  ASSUME Forms, Kept, NEW k \in Nat, Aligned(k), ClientErrs
  PROVE  IInv'
<1> DEFINE end == "open"
           v == FALSE
           m == [method |-> "GET"]
<1>1. ClientMaySend /\ sent = <<>> /\ v \in BOOLEAN
  BY DEF ClientErrs
<1>2. PICK bad \in BadRequests : Sending(m, v, <<RequestLine("POST", NextTarget)>> \o bad, end)
  BY DEF ClientErrs
<1> DEFINE x == <<RequestLine("POST", NextTarget)>> \o bad
<1>3. m \in Exchanges /\ m.method = "GET"
  BY DEF Exchanges
<1> HIDE DEF v, m
<1>4. PICK s \in SentMessages :
        /\ s = [target |-> NextTarget, method |-> m.method, message |-> m, whole |-> v]
        /\ s.target = NextTarget /\ s.method = m.method /\ s.message = m /\ (Whole(s) <=> v)
        /\ inbox' = Arrive(inbox, x, end) /\ sent' = Append(sent, s)
        /\ UNCHANGED <<outbox, forward, back, link, upstream, served, proxy>>
  <2>1. Sending(m, v, x, end)
    BY <1>2
  <2> HIDE DEF x
  <2> QED BY <1>1, <1>3, <2>1, SendingIs
<1>5. /\ s.target = NextTarget /\ s.method = "GET" /\ ~ Whole(s)
      /\ inbox' = Arrive(inbox, x, end) /\ sent' = Append(sent, s)
      /\ UNCHANGED <<outbox, forward, back, link, upstream, served, proxy>>
  BY <1>3, <1>4 DEF v
<1>6. Len(sent) < 2 /\ inbox.end = "open" /\ sent \in Seq(SentMessages)
  BY <1>1, KeptAre DEF ClientMaySend
<1>7. Asks(x, s)
  <2> DEFINE line == RequestLine("POST", NextTarget)
             start == <<line>>
  <2>1. line \in Symbols
    <3>1. NextTarget \in Targets
      BY <1>6, NextTargetIs
    <3> QED BY <3>1, RequestLineIs
  <2>2. bad \in Seq(Symbols)
    BY JunkIs
  <2> HIDE DEF line
  <2>3. start \o bad \in Seq(Symbols)
    BY <2>1, <2>2
  <2>4. x = start \o bad /\ s.target = NextTarget
    BY <1>5 DEF line
  <2>5. x = <<RequestLine("POST", s.target)>> \o bad
    BY <1>5
  <2> HIDE DEF x, start
  <2> QED BY <1>5, <2>3, <2>4, <2>5 DEF Asks
<1> HIDE DEF x
<1>8. x \in Seq(Symbols) /\ end \in Ends
  BY <1>7, EndsAre DEF Asks
<1>9. More(x, s, end)
  <2>1. ASSUME NEW j \in 1 .. Len(sent) + 1, Unread(inbox.symbols, sent, inbox.end, j)
        PROVE  Unread(inbox.symbols \o x, Append(sent, s), end, j)
    <3> DEFINE y == inbox.symbols
    <3>1. Unread(y, sent, "open", j)
      BY <1>6, <2>1
    <3> HIDE DEF y
    <3>2. Unread(y \o x, Append(sent, s), "open", j)
      BY <1>6, <1>7, <3>1, UnreadMore
    <3> QED BY <3>2 DEF y
  <2> QED BY <2>1 DEF More
<1>10. Proper(s, Len(sent) + 1, Len(sent) + 1, end)
  <2>1. Len(sent) + 1 = 1
    BY <1>1
  <2> QED BY <1>5, <2>1 DEF Proper
<1> QED BY <1>1, <1>5, <1>8, <1>9, <1>10, SendingKeeps

\* A request that is cut off, after which the client sends nothing.
LEMMA ClientBreaksOffKeeps ==
  ASSUME Forms, Kept, NEW k \in Nat, Aligned(k), ClientBreaksOff
  PROVE  IInv'
<1> DEFINE v == FALSE
<1>1. ClientMaySend /\ sent = <<>> /\ v \in BOOLEAN
  BY DEF ClientBreaksOff
<1>2. PICK m \in Requests : \E text \in RequestTexts(m, NextTarget) :
        \E symbols \in Cuts(text), end \in {"fin", "reset"} : Sending(m, v, symbols, end)
  BY DEF ClientBreaksOff
<1>3. PICK text \in RequestTexts(m, NextTarget) :
        \E symbols \in Cuts(text), end \in {"fin", "reset"} : Sending(m, v, symbols, end)
  BY <1>2
<1>4. PICK x \in Cuts(text), end \in {"fin", "reset"} : Sending(m, v, x, end)
  BY <1>3
<1>5. m \in Exchanges
  BY DEF Exchanges
<1> HIDE DEF v
<1>6. PICK s \in SentMessages :
        /\ s = [target |-> NextTarget, method |-> m.method, message |-> m, whole |-> v]
        /\ s.target = NextTarget /\ s.method = m.method /\ s.message = m /\ (Whole(s) <=> v)
        /\ inbox' = Arrive(inbox, x, end) /\ sent' = Append(sent, s)
        /\ UNCHANGED <<outbox, forward, back, link, upstream, served, proxy>>
  BY <1>1, <1>4, <1>5, SendingIs
<1>7. /\ s.target = NextTarget /\ ~ Whole(s)
      /\ inbox' = Arrive(inbox, x, end) /\ sent' = Append(sent, s)
      /\ UNCHANGED <<outbox, forward, back, link, upstream, served, proxy>>
  BY <1>6 DEF v
<1>8. Len(sent) < 2 /\ inbox.end = "open" /\ sent \in Seq(SentMessages)
  BY <1>1, KeptAre DEF ClientMaySend
<1>9. Broken(x, s, 1, end)
  <2> DEFINE t == NextTarget
  <2>1. t \in Targets
    BY <1>8, NextTargetIs
  <2>2. text \in RequestTexts(m, t)
    BY <1>3
  <2> HIDE DEF t
  <2> QED BY <1>4, <1>7, <2>1, <2>2, CutBreaks
<1>10. x \in Seq(Symbols) /\ end \in Ends /\ end # "open"
  BY <1>9, EndsAre DEF Broken
<1>11. More(x, s, end)
  <2>1. ASSUME NEW j \in 1 .. Len(sent) + 1, Unread(inbox.symbols, sent, inbox.end, j)
        PROVE  Unread(inbox.symbols \o x, Append(sent, s), end, j)
    <3>1. j = 1 /\ j > Len(sent) /\ j \in Nat
      BY <1>1
    <3>2. inbox.symbols = <<>>
      BY <1>8, <2>1, <3>1, UnreadNothing
    <3>3. <<>> \o x = x
      BY <1>10
    <3>4. inbox.symbols \o x = x
      BY <3>2, <3>3
    <3> DEFINE q == Append(sent, s)
    <3>5. q = <<s>>
      BY <1>1
    <3> HIDE DEF q
    <3>6. Unread(x, q, end, 1)
      BY <1>9, <3>5, UnreadBroken
    <3> QED BY <3>1, <3>4, <3>6 DEF q
  <2> QED BY <2>1 DEF More
<1>12. Proper(s, Len(sent) + 1, Len(sent) + 1, end)
  <2>1. Len(sent) + 1 = 1
    BY <1>1
  <2> QED BY <1>7, <1>10, <2>1 DEF Proper
<1> QED BY <1>1, <1>7, <1>10, <1>11, <1>12, SendingKeeps

\* A client that sends nothing more.
LEMMA ClientStopsKeeps ==
  ASSUME Forms, Kept, NEW k \in Nat, Aligned(k), ClientStops
  PROVE  IInv'
<1> DEFINE over == "fin"
<1>1. /\ proxy.pc # "closed" /\ inbox' = [inbox EXCEPT !.end = over]
      /\ UNCHANGED <<outbox, sent, forward, back, link, upstream, served, proxy>>
  BY DEF ClientStops, peer
<1>2. over \in Ends /\ over # "open" /\ over # "reset" /\ inbox \in Sources
  BY EndsAre, FormsAre
<1> HIDE DEF over
<1>3. inbox' \in Sources /\ inbox'.symbols = inbox.symbols /\ inbox'.end = over
  BY <1>1, <1>2, EndIs
<1>4. Forms'
  BY <1>1, <1>3 DEF Forms, TypeOK
<1>5. Kept'
  <2>1. Pending(sent, over)
    BY <1>2, PendingEnds DEF Kept
  <2> QED BY <1>1, <1>3, <2>1 DEF Kept
<1>6. Answered(k)'
  BY <1>1, <1>2, <1>3, AnsweredStays DEF Aligned
<1>7. Held(k)'
  <2>1. ASSUME NEW j PROVE Moves(j, j)
    <3>1. ASSUME Unread(inbox.symbols, sent, inbox.end, j) PROVE Unread(inbox.symbols, sent, over, j)
      BY <1>2, <3>1, UnreadEnds
    <3> QED BY <1>1, <1>3, <3>1 DEF Moves
  <2>2. Moves(k + 1, k + 1) /\ Moves(k + 2, k + 2)
    BY <2>1
  <2>3. Held(k)
    BY DEF Aligned
  <2> QED BY <1>1, <2>2, <2>3, HeldMoves
<1>8. Linked(k)'
  BY <1>1, LinkedStays DEF Aligned
<1> QED BY <1>4, <1>5, <1>6, <1>7, <1>8 DEF IInv, Aligned

\* One request less to answer.
LEMMA TailIs ==
  ASSUME Kept, sent # <<>>, NEW q, q = Tail(sent)
  PROVE  /\ q \in Seq(SentMessages) /\ Len(q) = Len(sent) - 1 /\ DOMAIN q = 1 .. Len(sent) - 1
         /\ \A i \in 1 .. Len(sent) - 1 : q[i] = sent[i + 1] /\ i + 1 \in DOMAIN sent
         /\ Pending(q, inbox.end)
<1> DEFINE n == Len(sent)
<1>1. sent \in Seq(SentMessages) /\ n \in 0 .. 2 /\ DOMAIN sent = 1 .. n
  BY KeptAre
<1>2. n \in 1 .. 2
  BY <1>1
<1>3. /\ q \in Seq(SentMessages) /\ Len(q) = n - 1 /\ DOMAIN q = 1 .. n - 1
      /\ \A i \in 1 .. n - 1 : q[i] = sent[i + 1]
  BY <1>1
<1> HIDE DEF n
<1>4. \A i \in 1 .. n - 1 : i + 1 \in 1 .. n
  BY <1>2
<1>5. ASSUME NEW i \in DOMAIN q PROVE Proper(q[i], i, n - 1, inbox.end)
  <2> DEFINE j == i + 1
  <2>1. j \in 1 .. n /\ j # 1 /\ q[i] = sent[j]
    BY <1>2, <1>3, <1>4
  <2> HIDE DEF j
  <2>2. Proper(sent[j], j, n, inbox.end)
    BY <1>1, <2>1, KeptAre DEF n
  <2> QED BY <2>1, <2>2 DEF Proper
<1>6. Len(q) <= 2 /\ Len(q) # 2
  <2> DEFINE l == Len(q)
  <2>1. l = n - 1
    BY <1>3
  <2> HIDE DEF l
  <2>2. l <= 2 /\ l # 2
    BY <1>2, <2>1
  <2> QED BY <2>2 DEF l
<1>7. Pending(q, inbox.end)
  BY <1>3, <1>5, <1>6 DEF Pending
<1> QED BY <1>1, <1>3, <1>4, <1>7 DEF n

\* The client takes an answer.
LEMMA TakesIs ==
  ASSUME Forms, Kept, NEW k \in Nat, Aligned(k), ClientTakes
  PROVE  /\ k \in 1 .. Len(sent) /\ Len(sent) \in 1 .. 2
         /\ outbox' \in Sources /\ outbox'.end = outbox.end
         /\ served' \in [Targets -> GivenAnswers] /\ served'[sent[1].target] = None
         /\ \A t \in Targets : t # sent[1].target => served'[t] = served[t]
         /\ sent' = Tail(sent) /\ UNCHANGED <<inbox, forward, back, link, upstream, proxy>>
         /\ Spoken(outbox'.symbols, sent', served', k - 1) \/ (sent' = <<>> /\ proxy.pc = "closed")
<1> DEFINE n == Len(sent)
           s == sent[1]
           answer == readHTTPResponse(outbox, s.method)
<1>1. sent \in Seq(SentMessages) /\ n \in 0 .. 2 /\ DOMAIN sent = 1 .. n
  BY KeptAre
<1>2. sent # <<>> /\ Head(sent) = sent[1]
  BY <1>1 DEF ClientTakes
<1>3. /\ answer.verdict = "read" /\ outbox' = Skip(outbox, answer.next)
      /\ served' = [served EXCEPT ![s.target] = None]
      /\ sent' = Tail(sent) /\ UNCHANGED <<inbox, forward, back, link, upstream, proxy>>
  BY <1>2 DEF ClientTakes, Answer
<1>4. n \in 1 .. 2
  BY <1>1, <1>2
<1>5. outbox \in Sources /\ served \in [Targets -> GivenAnswers]
  BY FormsAre DEF Forms
<1>6. k \in 0 .. n /\ Spoken(outbox.symbols, sent, served, k)
  BY <1>2 DEF Aligned, Answered
<1>7. k # 0
  <2> SUFFICES ASSUME k = 0 PROVE FALSE
    OBVIOUS
  <2>1. Spoken(outbox.symbols, sent, served, 0)
    BY <1>6
  <2>2. outbox.symbols = <<>>
    BY <2>1, SpokenNothing
  <2>3. readHTTPResponse(outbox, s.method).verdict # "read"
    BY <2>2, EmptyRead
  <2> QED BY <1>3, <2>3
<1>8. k \in 1 .. n
  BY <1>6, <1>7
<1>9. s.target \in Targets
  <2>1. 1 \in DOMAIN sent
    BY <1>1, <1>4
  <2> QED BY <2>1, KeptAre
<1>10. None \in GivenAnswers
  BY DEF GivenAnswers
<1>11. /\ served' \in [Targets -> GivenAnswers] /\ served'[s.target] = None
       /\ \A t \in Targets : t # s.target => served'[t] = served[t]
  <2> HIDE DEF s
  <2> QED BY <1>3, <1>5, <1>9, <1>10
<1>12. k = 2 => served'[sent[2].target] = served[sent[2].target]
  <2> SUFFICES ASSUME k = 2 PROVE served'[sent[2].target] = served[sent[2].target]
    OBVIOUS
  <2>1. 1 \in 1 .. Len(sent) /\ 2 \in 1 .. Len(sent) /\ 2 \in DOMAIN sent
    BY <1>1, <1>8
  <2>2. sent[2].target # sent[1].target
    BY <2>1, TargetsDiffer
  <2>3. sent[2].target \in Targets
    BY <2>1, KeptAre
  <2> QED BY <1>11, <2>2, <2>3
<1> DEFINE left == Skip(outbox, answer.next)
<1>13. /\ left \in Sources /\ left.end = outbox.end
       /\ Spoken(left.symbols, Tail(sent), served', k - 1) \/ (~ Whole(sent[1]) /\ sent[1].method # "GET")
  <2> DEFINE tv == served'
  <2>1. k = 2 => tv[sent[2].target] = served[sent[2].target]
    BY <1>12
  <2>2. readHTTPResponse(outbox, sent[1].method).verdict = "read" /\ Len(sent) <= 2 /\ k \in 1 .. Len(sent)
    BY <1>1, <1>3, <1>8
  <2> HIDE DEF tv
  <2> DEFINE sv == served
             out == outbox
  <2>3. out \in Sources /\ Spoken(out.symbols, sent, sv, k) /\ readHTTPResponse(out, sent[1].method).verdict = "read"
        /\ (k = 2 => tv[sent[2].target] = sv[sent[2].target])
    BY <1>5, <1>6, <2>1, <2>2
  <2> HIDE DEF sv, out
  <2>4. /\ Skip(out, readHTTPResponse(out, sent[1].method).next) \in Sources
        /\ Skip(out, readHTTPResponse(out, sent[1].method).next).end = out.end
        /\ \/ Spoken(Skip(out, readHTTPResponse(out, sent[1].method).next).symbols, Tail(sent), tv, k - 1)
           \/ ~ Whole(sent[1]) /\ sent[1].method # "GET"
    BY <1>1, <2>2, <2>3, SpokenLess, ZenonT(30)
  <2> QED BY <2>4 DEF tv, out
<1> HIDE DEF left, answer
<1>14. ASSUME ~ Whole(sent[1]) /\ sent[1].method # "GET" PROVE sent' = <<>> /\ proxy.pc = "closed"
  <2>1. Proper(sent[1], 1, n, inbox.end)
    <3>1. 1 \in DOMAIN sent
      BY <1>1, <1>4
    <3> QED BY <3>1, KeptAre
  <2>2. n = 1
    BY <1>14, <2>1 DEF Proper
  <2>3. Tail(sent) = <<>>
    <3> DEFINE q == Tail(sent)
    <3>1. q = Tail(sent)
      OBVIOUS
    <3> HIDE DEF q
    <3>2. q \in Seq(SentMessages) /\ Len(q) = n - 1
      BY <1>2, <3>1, TailIs
    <3>3. Len(q) = 0
      BY <2>2, <3>2
    <3>4. q = <<>>
      BY <3>2, <3>3
    <3> QED BY <3>4 DEF q
  <2>4. proxy.pc # "closed" => Whole(sent[1])
    <3>1. 1 \in 1 .. k
      BY <1>8
    <3> QED BY <3>1 DEF Aligned, Answered
  <2> QED BY <1>3, <1>14, <2>3, <2>4
<1>15. outbox' = left
  BY <1>3 DEF left, answer
<1>16. Spoken(outbox'.symbols, sent', served', k - 1) \/ (sent' = <<>> /\ proxy.pc = "closed")
  BY <1>3, <1>13, <1>14, <1>15
<1> QED BY <1>3, <1>4, <1>8, <1>11, <1>13, <1>15, <1>16

\* The first answer is taken with the request that it answers; the others move up.
LEMMA ClientTakesKeeps ==
  ASSUME Forms, Kept, NEW k \in Nat, Aligned(k), ClientTakes
  PROVE  IInv'
<1> DEFINE n == Len(sent)
           q == Tail(sent)
           j == k - 1
           t1 == sent[1].target
<1>1. /\ k \in 1 .. n /\ n \in 1 .. 2 /\ outbox' \in Sources /\ outbox'.end = outbox.end
      /\ served' \in [Targets -> GivenAnswers] /\ served'[t1] = None
      /\ \A t \in Targets : t # t1 => served'[t] = served[t]
      /\ sent' = q /\ UNCHANGED <<inbox, forward, back, link, upstream, proxy>>
      /\ Spoken(outbox'.symbols, sent', served', j) \/ (sent' = <<>> /\ proxy.pc = "closed")
  BY TakesIs
<1>2. /\ q \in Seq(SentMessages) /\ Len(q) = n - 1 /\ DOMAIN q = 1 .. n - 1
      /\ \A i \in 1 .. n - 1 : q[i] = sent[i + 1] /\ i + 1 \in DOMAIN sent
      /\ Pending(q, inbox.end)
  <2>1. sent # <<>>
    BY DEF ClientTakes
  <2> HIDE DEF q
  <2>2. q = Tail(sent)
    BY DEF q
  <2> QED BY <2>1, <2>2, TailIs
<1>3. j \in Nat /\ j + 1 = k /\ j \in 0 .. n - 1 /\ DOMAIN sent = 1 .. n
  BY <1>1, KeptAre
<1> HIDE DEF n, q, j
<1>4. \A i \in 1 .. n - 1 : served'[sent[i + 1].target] = served[sent[i + 1].target]
  <2>1. ASSUME NEW i \in 1 .. n - 1 PROVE served'[sent[i + 1].target] = served[sent[i + 1].target]
    <3> DEFINE l == i + 1
    <3>1. l \in 1 .. n /\ 1 \in 1 .. n /\ l # 1
      BY <1>1
    <3> HIDE DEF l
    <3>2. sent[l].target # t1
      BY <3>1, TargetsDiffer DEF n
    <3>3. sent[l].target \in Targets
      BY <1>3, <3>1, KeptAre
    <3> QED BY <1>1, <3>2, <3>3 DEF l
  <2> QED BY <2>1
<1>5. Forms'
  BY <1>1 DEF Forms, TypeOK
<1>6. Kept'
  <2>1. ASSUME NEW t \in Targets PROVE served'[t] = None \/ \E i \in DOMAIN q : q[i].target = t
    <3>1. CASE t = t1
      BY <1>1, <3>1
    <3>2. CASE t # t1 /\ served[t] = None
      BY <1>1, <3>2
    <3>3. CASE t # t1 /\ \E i \in DOMAIN sent : sent[i].target = t
      <4>1. PICK i \in 1 .. n : sent[i].target = t
        BY <1>3, <3>3
      <4>2. i # 1
        BY <3>3, <4>1
      <4> DEFINE l == i - 1
      <4>3. l \in 1 .. n - 1 /\ l + 1 = i
        BY <1>1, <4>2
      <4> HIDE DEF l
      <4>4. l \in DOMAIN q /\ q[l].target = t
        BY <1>2, <4>1, <4>3
      <4> QED BY <4>4
    <3> QED BY <3>1, <3>2, <3>3 DEF Kept
  <2> QED BY <1>1, <1>2, <2>1 DEF Kept
<1>7. Answered(j)'
  <2>1. outbox.end = (IF proxy.pc = "closed" THEN "fin" ELSE "open")
    BY DEF Aligned, Answered
  <2>2. proxy.pc # "closed" => \A i \in 1 .. j : Whole(q[i])
    <3>1. ASSUME proxy.pc # "closed", NEW i \in 1 .. j PROVE Whole(q[i])
      <4>1. i + 1 \in 1 .. k /\ i \in 1 .. n - 1
        BY <1>1, <1>3
      <4>2. Whole(sent[i + 1])
        BY <3>1, <4>1 DEF Aligned, Answered
      <4> QED BY <1>2, <4>1, <4>2
    <3> QED BY <3>1
  <2>3. proxy.pc # "closed" /\ inbox.end = "reset" => j < n - 1 /\ ~ Whole(q[j + 1])
    <3> SUFFICES ASSUME proxy.pc # "closed" /\ inbox.end = "reset" PROVE j < n - 1 /\ ~ Whole(q[j + 1])
      OBVIOUS
    <3>1. k < n /\ ~ Whole(sent[k + 1])
      BY DEF Aligned, Answered, n
    <3>2. k \in 1 .. n - 1
      BY <1>1, <3>1
    <3>3. q[k] = sent[k + 1]
      BY <1>2, <3>2
    <3> QED BY <1>1, <1>3, <3>1, <3>3
  <2>4. ASSUME NEW i \in j + 1 .. n - 1
        PROVE  served'[q[i].target] = None \/ (i = j + 1 /\ proxy.pc \in {"waiting", "responding"})
    <3>1. i \in 1 .. n - 1 /\ i + 1 \in k + 1 .. n
      BY <1>1, <1>3
    <3>2. served[sent[i + 1].target] = None \/ (i + 1 = k + 1 /\ proxy.pc \in {"waiting", "responding"})
      BY <3>1 DEF Aligned, Answered, n
    <3>3. i + 1 = k + 1 => i = j + 1
      BY <1>3, <3>1
    <3> QED BY <1>2, <1>4, <3>1, <3>2, <3>3
  <2> QED BY <1>1, <1>2, <1>3, <2>1, <2>2, <2>3, <2>4 DEF Answered
<1>8. k < n => q[j + 1] = sent[k + 1] /\ j < Len(q) /\ served'[sent[k + 1].target] = served[sent[k + 1].target]
  <2> SUFFICES ASSUME k < n
               PROVE  q[j + 1] = sent[k + 1] /\ j < Len(q)
                      /\ served'[sent[k + 1].target] = served[sent[k + 1].target]
    OBVIOUS
  <2>1. k \in 1 .. n - 1 /\ j < n - 1
    BY <1>1, <1>3
  <2> QED BY <1>2, <1>3, <1>4, <2>1
<1>9. Held(j)'
  <2>1. ASSUME NEW l \in Nat, l >= 2 PROVE Moves(l, l - 1)
    <3> DEFINE symbols == inbox.symbols
               end == inbox.end
    <3>1. sent \in Seq(SentMessages) /\ Len(sent) <= 2
      BY KeptAre
    <3>2. sent # <<>>
      BY DEF ClientTakes
    <3>3. ASSUME Unread(symbols, sent, end, l) PROVE Unread(symbols, q, end, l - 1)
      <4> HIDE DEF symbols, end
      <4>1. Unread(symbols, Tail(sent), end, l - 1)
        BY <2>1, <3>1, <3>2, <3>3, UnreadTail
      <4> QED BY <4>1 DEF q
    <3> QED BY <1>1, <3>3 DEF Moves
  <2>2. Moves(k + 1, j + 1)
    <3>1. k + 1 \in Nat /\ k + 1 >= 2 /\ (k + 1) - 1 = j + 1
      BY <1>1, <1>3
    <3>2. Moves(k + 1, (k + 1) - 1)
      BY <2>1, <3>1
    <3> QED BY <3>1, <3>2
  <2>3. Moves(k + 2, j + 2)
    <3>1. k + 2 \in Nat /\ k + 2 >= 2 /\ (k + 2) - 1 = j + 2
      BY <1>1, <1>3
    <3>2. Moves(k + 2, (k + 2) - 1)
      BY <2>1, <3>1
    <3> QED BY <3>1, <3>2
  <2>4. Held(k) /\ proxy' = proxy
    BY <1>1 DEF Aligned
  <2>5. k < Len(sent) => /\ Moves(k + 2, j + 2) /\ j < Len(sent') /\ sent'[j + 1] = sent[k + 1]
                         /\ served'[sent[k + 1].target] = served[sent[k + 1].target]
    BY <1>1, <1>8, <2>3 DEF n
  <2> QED BY <1>3, <2>2, <2>4, <2>5, HeldMoves
<1>10. Linked(j)'
  <2>1. proxy.pc = "waiting" => k < n
    BY DEF Aligned, Held, n
  <2>2. proxy.pc = "waiting" => sent'[j + 1] = sent[k + 1] /\ served'[sent[k + 1].target] = served[sent[k + 1].target]
    BY <1>1, <1>8, <2>1
  <2> QED BY <1>1, <2>2, LinkedStays DEF Aligned
<1> QED BY <1>3, <1>5, <1>6, <1>7, <1>9, <1>10 DEF IInv, Aligned

-----------------------------------------------------------------------------
(* The invariant holds                                                     *)

\* Nothing is unread of nothing.
LEMMA UnreadNone == \A end : Unread(<<>>, <<>>, end, 1)
<1> DEFINE none == <<>>
<1>1. none \in Seq(Symbols) /\ TwoParts(none, none, none) /\ Len(none) = 0
  BY DEF TwoParts
<1>2. ASSUME NEW end PROVE First(none, none, end, 1) /\ Second(none, none, 1)
  BY <1>1 DEF First, Second
<1> HIDE DEF none
<1>3. \A end : Unread(none, none, end, 1)
  BY <1>1, <1>2 DEF Unread
<1> QED BY <1>3 DEF none

\* A client and the loop start afresh.
LEMMA Afresh ==
  ASSUME inbox = Silent, outbox = Silent, sent = <<>>, served = [t \in Targets |-> None], proxy = Reading
  PROVE  Kept /\ Answered(0) /\ Held(0)
<1>1. Silent.symbols = <<>> /\ Silent.end = "open"
  BY DEF Silent
<1>2. Reading.pc = "reading"
  BY DEF Reading
<1>3. Kept
  <2>1. Pending(<<>>, "open")
    BY DEF Pending
  <2> QED BY <1>1, <2>1 DEF Kept
<1>4. Answered(0)
  <2>1. Spoken(<<>>, <<>>, served, 0)
    BY SpokenNothing
  <2> QED BY <1>1, <1>2, <2>1 DEF Answered
<1>5. Held(0)
  <2>1. Unread(<<>>, <<>>, "open", 1)
    BY UnreadNone
  <2> QED BY <1>1, <1>2, <2>1 DEF Held
<1> QED BY <1>3, <1>4, <1>5

\* The first client, and no connection to the upstream.
LEMMA InitKeeps == ASSUME Init PROVE IInv
<1>1. /\ inbox = Silent /\ outbox = Silent /\ sent = <<>> /\ forward = Silent /\ back = Silent /\ link = "none"
      /\ upstream = Idle /\ served = [t \in Targets |-> None] /\ proxy = Reading
  BY DEF Init
<1>2. Silent \in Sources /\ Silent.symbols = <<>> /\ Silent.end = "open"
  BY EndsAre DEF Silent, Sources
<1>3. Formed(Reading) /\ Reading.pc = "reading" /\ Reading.interim = 0
  BY DEF Reading, Formed
<1>4. Forms
  <2>1. MaxInformationalResponses \in Nat
    BY RelayAssumption
  <2>2. 0 \in 0 .. MaxInformationalResponses /\ 0 \in 0 .. MaxInformationalResponses + 1
    BY <2>1
  <2>3. served \in [Targets -> GivenAnswers]
    BY <1>1 DEF GivenAnswers
  <2>4. upstream = [request |-> None, interim |-> 0] /\ upstream.interim = 0 /\ upstream.request = None
    BY <1>1 DEF Idle
  <2>5. TypeOK
    BY <1>1, <1>2, <1>3, <2>2, <2>4 DEF TypeOK
  <2>6. upstream = [request |-> upstream.request, interim |-> upstream.interim]
    BY <2>4
  <2> QED BY <1>1, <1>3, <2>3, <2>5, <2>6 DEF Forms, Formed
<1>5. Kept /\ Answered(0) /\ Held(0)
  BY <1>1, Afresh
<1>6. Linked(0)
  BY <1>1, <1>2, <1>3 DEF Linked
<1> QED BY <1>4, <1>5, <1>6 DEF IInv, Aligned

\* The next client.
LEMMA ClientConnectsKeeps ==
  ASSUME Forms, Kept, NEW k \in Nat, Aligned(k), ClientConnects
  PROVE  IInv'
<1>1. /\ proxy.pc = "closed" /\ inbox' = Silent /\ outbox' = Silent /\ sent' = <<>>
      /\ served' = [t \in Targets |-> None] /\ proxy' = Reading
      /\ UNCHANGED <<forward, back, link, upstream>>
  BY DEF ClientConnects
<1>2. Silent \in Sources /\ Silent.symbols = <<>> /\ Silent.end = "open"
  BY EndsAre DEF Silent, Sources
<1>3. Formed(Reading) /\ Reading.pc = "reading" /\ Reading.interim = 0
  BY DEF Reading, Formed
<1>4. Linked(0)'
  BY <1>1, <1>3, LinkedRests DEF Aligned
<1>5. Forms' /\ Kept' /\ Answered(0)' /\ Held(0)'
  <2>1. Forms'
    <3>1. MaxInformationalResponses \in Nat /\ 0 \in 0 .. MaxInformationalResponses
      BY FormsAre
    <3>2. served' \in [Targets -> GivenAnswers]
      BY <1>1 DEF GivenAnswers
    <3> QED BY <1>1, <1>2, <1>3, <3>1, <3>2 DEF Forms, Formed, TypeOK
  <2>2. Kept'
    <3>1. Pending(<<>>, "open")
      BY DEF Pending
    <3> QED BY <1>1, <1>2, <3>1 DEF Kept
  <2>3. Answered(0)'
    <3>1. Spoken(<<>>, <<>>, served', 0)
      BY SpokenNothing
    <3> QED BY <1>1, <1>2, <1>3, <3>1 DEF Answered
  <2>4. Held(0)'
    <3>1. Unread(<<>>, <<>>, "open", 1)
      BY UnreadNone
    <3> QED BY <1>1, <1>2, <1>3, <3>1 DEF Held
  <2> QED BY <2>1, <2>2, <2>3, <2>4
<1> QED BY <1>4, <1>5 DEF IInv, Aligned

\* Nothing happens.
LEMMA StutterKeeps == ASSUME IInv, UNCHANGED vars PROVE IInv'
<1>1. UNCHANGED <<inbox, outbox, forward, back, link, sent, upstream, served, proxy>>
  BY DEF vars
<1>2. PICK k \in Nat : Aligned(k)
  BY DEF IInv
<1>3. Forms' /\ Kept'
  BY <1>1 DEF IInv, Forms, TypeOK, Kept
<1>4. Aligned(k)'
  BY <1>1, <1>2 DEF Aligned, Answered, Held, Asking, Replying, Linked
<1> QED BY <1>3, <1>4 DEF IInv

\* Every step keeps the invariant.
LEMMA NextKeeps == ASSUME IInv, [Next]_vars PROVE IInv'
<1>1. Forms /\ Kept
  BY DEF IInv
<1>2. PICK k \in Nat : Aligned(k)
  BY DEF IInv
<1>3. CASE ReadRequest
  BY <1>1, <1>2, <1>3, ReadRequestKeeps
<1>4. CASE ReadEnds
  BY <1>1, <1>2, <1>4, ReadEndsKeeps
<1>5. CASE ReadFails
  BY <1>1, <1>2, <1>5, ReadFailsKeeps
<1>6. CASE Respond
  BY <1>1, <1>2, <1>6, RespondKeeps
<1>7. CASE SendUpstream
  BY <1>1, <1>2, <1>7, SendUpstreamKeeps
<1>8. CASE DialFails
  BY <1>1, <1>2, <1>8, DialFailsKeeps
<1>9. CASE WriteFails
  BY <1>1, <1>2, <1>9, WriteFailsKeeps
<1>10. CASE Deadline
  BY <1>1, <1>2, <1>10, DeadlineKeeps
<1>11. CASE ReadUpstreamFails
  BY <1>1, <1>2, <1>11, ReadUpstreamFailsKeeps
<1>12. CASE ReadInterim
  BY <1>1, <1>2, <1>12, ReadInterimKeeps
<1>13. CASE ReadResponse
  BY <1>1, <1>2, <1>13, ReadResponseKeeps
<1>14. CASE ReadDeadline
  BY <1>1, <1>2, <1>14, ReadDeadlineKeeps
<1>15. CASE ClientSends
  BY <1>1, <1>2, <1>15, ClientSendsKeeps
<1>16. CASE ClientBreaksOff
  BY <1>1, <1>2, <1>16, ClientBreaksOffKeeps
<1>17. CASE ClientErrs
  BY <1>1, <1>2, <1>17, ClientErrsKeeps
<1>18. CASE ClientStops
  BY <1>1, <1>2, <1>18, ClientStopsKeeps
<1>19. CASE ClientTakes
  BY <1>1, <1>2, <1>19, ClientTakesKeeps
<1>20. CASE ClientConnects
  BY <1>1, <1>2, <1>20, ClientConnectsKeeps
<1>21. CASE UpstreamReads
  BY <1>1, <1>2, <1>21, UpstreamReadsKeeps
<1>22. CASE UpstreamPauses
  BY <1>1, <1>2, <1>22, UpstreamPausesKeeps
<1>23. CASE UpstreamAnswers
  BY <1>1, <1>2, <1>23, UpstreamAnswersKeeps
<1>24. CASE UpstreamBreaksOff
  BY <1>1, <1>2, <1>24, UpstreamBreaksOffKeeps
<1>25. CASE UpstreamErrs
  BY <1>1, <1>2, <1>25, UpstreamErrsKeeps
<1>26. CASE UpstreamCloses
  BY <1>1, <1>2, <1>26, UpstreamClosesKeeps
<1>27. CASE UNCHANGED vars
  BY <1>27, StutterKeeps
<1> QED
  BY <1>3, <1>4, <1>5, <1>6, <1>7, <1>8, <1>9, <1>10, <1>11, <1>12, <1>13, <1>14, <1>15, <1>16, <1>17, <1>18,
     <1>19, <1>20, <1>21, <1>22, <1>23, <1>24, <1>25, <1>26, <1>27 DEF Next, Proxy, Client, Upstream

-----------------------------------------------------------------------------

\* The attempt's locals, and the connection that it returns.
LEMMA KeepsRelayInv == ASSUME IInv PROVE RelayInv
<1>1. TypeOK
  BY DEF IInv, Forms
<1>2. PICK k \in Nat : Aligned(k)
  BY DEF IInv
<1>3. IdleIsAligned
  <2> SUFFICES ASSUME link = "idle" PROVE forward.symbols = <<>> /\ back.symbols = <<>> /\ upstream.request = None
    BY DEF IdleIsAligned
  <2>1. proxy.pc # "waiting"
    BY <1>2 DEF Aligned, Linked
  <2>2. forward.symbols = <<>> /\ back.symbols = <<>> /\ upstream = Idle
    BY <1>2, <2>1 DEF Aligned, Linked
  <2> QED BY <2>2 DEF Idle
<1> QED BY <1>1, <1>3 DEF RelayInv

\* What the upstream hears.
LEMMA KeepsUpstreamHears == ASSUME IInv PROVE UpstreamHears
<1>1. Forms /\ Kept
  BY DEF IInv
<1>2. PICK k \in Nat : Aligned(k)
  BY DEF IInv
<1>3. ASSUME proxy.pc = "attempting"
      PROVE  writeHTTPRequest(buildUpstreamRequest(proxy.request)).verdict = "written"
  <2>1. Asking(k) /\ sent[k + 1].target \in Targets
    BY <1>1, <1>2, <1>3, AttemptIs
  <2> DEFINE m == sent[k + 1].message
             t == sent[k + 1].target
             g == proxy.request
  <2>2. m \in Requests /\ t \in Nat /\ Brings(g, m, t)
    <3>1. m \in Requests
      BY <2>1, AskingIs
    <3>2. t \in Nat
      BY <2>1 DEF Targets
    <3>3. Brings(g, m, t)
      BY <2>1 DEF Asking
    <3> QED BY <3>1, <3>2, <3>3
  <2> HIDE DEF m, t, g
  <2>3. /\ writeHTTPRequest(buildUpstreamRequest(g)).verdict = "written"
        /\ \E h : ReadsRequest(writeHTTPRequest(buildUpstreamRequest(g)).symbols, h) /\ HearsMessage(h, m, t)
    BY <2>2, Relays
  <2> QED BY <2>3 DEF g
<1>4. CASE forward.symbols = <<>>
  <2>1. forward.end = "open"
    BY <1>2 DEF Aligned, Linked
  <2>2. readHTTPRequest(forward).verdict = "more"
    BY <1>4, <2>1, EmptyRead
  <2> QED BY <1>3, <2>2 DEF UpstreamHears, Heard
<1>5. CASE forward.symbols # <<>>
  <2> DEFINE s == sent[k + 1]
  <2>1. proxy.pc = "waiting"
    BY <1>1, <1>2, <1>5, UpstreamIs
  <2>2. Genuine(s) /\ k < Len(sent)
    BY <1>1, <1>2, <2>1, WaitingIs, AttemptIs
  <2>3. Passing(forward, back, upstream, proxy.interim, s, served[s.target])
    <3>1. Underway(forward, back, upstream, proxy.interim, s, served[s.target])
      BY <1>1, <1>2, <2>1, WaitingIs
    <3> QED BY <1>5, <3>1 DEF Underway, Heeded, Replied
  <2>4. PICK h : ReadsRequest(forward.symbols, h) /\ HearsMessage(h, s.message, s.target)
    BY <2>3 DEF Passing
  <2>5. readHTTPRequest(forward) = Taken(forward.symbols, h)
    BY <2>4, ReadsAll
  <2>6. Heard.verdict = "read" /\ Heard.message = h
    BY <2>5 DEF Heard, Taken
  <2>7. s \in ToSet(sent)
    <3>1. Len(sent) \in Nat /\ DOMAIN sent = 1 .. Len(sent)
      BY <1>1, KeptAre
    <3>2. k + 1 \in DOMAIN sent
      BY <2>2, <3>1
    <3> QED BY <3>2 DEF ToSet
  <2>8. /\ s.whole /\ s.target = h.target /\ served[s.target] = None
        /\ h.method = s.message.method /\ SameBody(h, s.message)
        /\ EndToEnd(h.headers) = EndToEnd(s.message.fields)
        /\ Values(h.headers, "Host") = <<Field("Host", <<"upstream">>, 0)>>
        /\ Len(Values(h.headers, "X-Anvil-Request-ID")) = 1
    BY <2>2, <2>3, <2>4 DEF Genuine, Whole, Passing, HearsMessage, HostField
  <2> HIDE DEF s
  <2> QED BY <1>3, <2>6, <2>7, <2>8 DEF UpstreamHears
<1> QED BY <1>4, <1>5

\* What the client hears.
LEMMA KeepsClientHears == ASSUME IInv PROVE ClientHears
<1>1. Forms /\ Kept
  BY DEF IInv
<1>2. PICK k \in Nat : Aligned(k)
  BY DEF IInv
<1> DEFINE s == sent[1]
           a == served[sent[1].target]
           answer == readHTTPResponse(outbox, sent[1].method)
<1> SUFFICES ASSUME sent # <<>>
             PROVE  /\ answer.verdict = "read" => RightAnswer(s, a, answer.message)
                    /\ \/ answer.verdict \in {"read", "more", "eof"}
                       \/ s.method = "HEAD" /\ a # None /\ a.message.status = 204
  <2>1. sent # <<>> => Head(sent) = sent[1]
    BY <1>1, KeptAre
  <2> QED BY <2>1 DEF ClientHears, Answer
<1>3. Len(sent) \in 0 .. 2 /\ k \in 0 .. Len(sent) /\ Spoken(outbox.symbols, sent, served, k)
      /\ outbox.end \in {"open", "fin"}
  BY <1>1, <1>2, KeptAre DEF Aligned, Answered
<1>4. CASE k = 0
  <2>1. outbox.symbols = <<>>
    BY <1>3, <1>4, SpokenNothing
  <2>2. answer.verdict # "read" /\ answer.verdict \in {"more", "eof"}
    <3>1. answer.verdict # "read"
      BY <2>1, EmptyRead
    <3>2. outbox.end = "open" => answer.verdict = "more"
      BY <2>1, EmptyRead
    <3>3. outbox.end = "fin" => answer.verdict = "eof"
      BY <2>1, EmptyRead
    <3> QED BY <1>3, <3>1, <3>2, <3>3
  <2> QED BY <2>2
<1>5. CASE k \in 1 .. 2
  <2>1. \/ answer.verdict = "read" /\ RightAnswer(s, a, answer.message)
        \/ answer.verdict # "read" /\ s.method = "HEAD" /\ a # None /\ a.message.status = 204
    <3> DEFINE sv == served
               out == outbox
    <3>1. Spoken(out.symbols, sent, sv, k)
      BY <1>3
    <3> HIDE DEF sv, out
    <3>2. LET r == readHTTPResponse(out, sent[1].method)
              t == sent[1]
              b == sv[sent[1].target]
          IN \/ r.verdict = "read" /\ RightAnswer(t, b, r.message)
             \/ r.verdict # "read" /\ t.method = "HEAD" /\ b # None /\ b.message.status = 204
      BY <1>5, <3>1, SpokenHears
    <3> QED BY <3>2 DEF sv, out
  <2> QED BY <2>1
<1>6. k = 0 \/ k \in 1 .. 2
  <2> DEFINE n == Len(sent)
  <2>1. n \in 0 .. 2 /\ k \in 0 .. n
    BY <1>3
  <2> HIDE DEF n
  <2> QED BY <2>1
<1> HIDE DEF answer, s, a
<1> QED BY <1>4, <1>5, <1>6

-----------------------------------------------------------------------------

\* The invariant holds.
LEMMA Invariant == Spec => []IInv
BY InitKeeps, NextKeeps, PTL DEF Spec

\* Whatever the peers send and break off, the loop and the attempt keep the types
\* of their locals, and a connection that goes back to the pool has nothing left
\* on it, at either end.
THEOREM IdleConnectionsAligned == Spec => []RelayInv
BY Invariant, KeepsRelayInv, PTL

\* What the upstream reads is a request that a client sent, with its method,
\* target, body and end-to-end fields: never a part of one, or two as one.
THEOREM RequestsPreserved == Spec => []UpstreamHears
BY Invariant, KeepsUpstreamHears, PTL

\* What the client reads is the answer to its oldest request: the upstream's, with
\* its status, body and end-to-end fields, or one of the proxy that says why not: the
\* upstream's comes through unless the attempt's context ended before it was read.
THEOREM AnswersPreserved == Spec => []ClientHears
BY Invariant, KeepsClientHears, PTL
=============================================================================

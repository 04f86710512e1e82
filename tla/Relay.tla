-------------------------------- MODULE Relay --------------------------------
(***************************************************************************)
(* One message through the proxy: a client's bytes are read by the         *)
(* connection loop (src/http_server.go), rebuilt for the upstream by       *)
(* executeProxyAttempt (src/proxy.go), whose answer is read, rebuilt and   *)
(* written back, with the reader and the writer of Message.tla at every    *)
(* end.  There is one attempt per request, and a pool of one upstream      *)
(* connection, which outlives the connections of clients; retries are the  *)
(* matter of Transaction.tla, the pool's of UpstreamPool.tla.              *)
(*                                                                         *)
(* Clients and the upstream are HTTP/1.1 peers: they frame a message in    *)
(* any way they like, send junk, and stop, close or break off anywhere.  A *)
(* peer's message lists the fields meant for the other end apart from the  *)
(* ones of the connection: nothing here has to guess which is which.       *)
(***************************************************************************)
EXTENDS Message

CONSTANTS Requests,         \* messages of clients: method, fields, hops, body, trailers
          Responses,        \* messages of the upstream: status, fields, hops, body, trailers
          RequestFaults,    \* malformed messages of clients, see Spelt
          ResponseFaults,
          InterimResponse,  \* a message with a status of 1xx
          MaxInformationalResponses,
          None

Targets == 1 .. 2

VARIABLES inbox, outbox,   \* the client's connection: sources for the proxy and the client
          forward, back,   \* the upstream connection: sources for the upstream and the proxy
          link,            \* what the proxy does with the upstream connection
          sent,            \* what the client has sent and has no answer to
          upstream,        \* the upstream: the request it answers, its interim responses
          served,          \* the upstream's answer to each of the requests
          proxy            \* the connection loop and the attempt: their locals

vars == <<inbox, outbox, forward, back, link, sent, upstream, served, proxy>>
client == <<inbox, outbox, sent>>
peer == <<forward, back, link, upstream, served>>

Silent == [symbols |-> <<>>, end |-> "open"]
Fields == [kind : {"field"}, name : STRING, tokens : Seq(STRING), number : Int]
Symbols ==
  {EmptyLine, Junk, Byte} \cup Fields \cup [kind : {"size"}, digits : Seq(Nat)]
    \cup [kind : {"request"}, method : STRING, target : Nat] \cup [kind : {"status"}, status : Nat]
Ends == {"open", "fin", "reset", "timeout"}
Sources == [symbols : Seq(Symbols), end : Ends]

Reading == [pc |-> "reading", request |-> None, interim |-> 0, response |-> None]
Idle == [request |-> None, interim |-> 0]

Init ==
  /\ inbox = Silent /\ outbox = Silent /\ sent = <<>>
  /\ forward = Silent /\ back = Silent /\ link = "none"
  /\ upstream = Idle /\ served = [t \in Targets |-> None]
  /\ proxy = Reading

Arrive(source, symbols, end) == [symbols |-> source.symbols \o symbols, end |-> end]
Skip(source, next) == [source EXCEPT !.symbols = SubSeq(@, next, Len(@))]

-----------------------------------------------------------------------------
(* How a peer frames a message                                             *)

ChunkSplits(body) ==
  IF body = <<>> THEN {<<>>} ELSE {<<body>>, [i \in DOMAIN body |-> <<body[i]>>]}

\* A size may have leading zeros.
Chunks(split) ==
  FlattenSeq([i \in DOMAIN split |->
    <<SizeLine(<<0>> \o Numeral[Len(split[i])])>> \o split[i] \o <<EmptyLine>>])

Framed(m, field, body) == [head |-> m.fields \o m.hops \o field \o <<EmptyLine>>, body |-> body]

FixedFraming(m) ==
  IF m.trailers # <<>> THEN {} ELSE {Framed(m, <<Field("Content-Length", <<>>, Len(m.body))>>, m.body)}

ChunkedFraming(m) ==
  {Framed(m, <<Field("Transfer-Encoding", <<"chunked">>, 0)>>,
          Chunks(split) \o <<SizeLine(<<0>>)>> \o m.trailers \o <<EmptyLine>>) :
     split \in ChunkSplits(m.body)}

BareFraming(m) == IF m.trailers # <<>> THEN {} ELSE {Framed(m, <<>>, m.body)}

RequestFramings(m) ==
  IF m.method = "POST" THEN FixedFraming(m) \cup ChunkedFraming(m) ELSE BareFraming(m)

RequestTexts(m, target) ==
  {<<RequestLine(m.method, target)>> \o w.head \o w.body : w \in RequestFramings(m)}

\* An answer without a body may describe the one that it does not have.
ResponseFramings(method, m) ==
  LET framings == FixedFraming(m) \cup ChunkedFraming(m) \cup BareFraming(m)
  IN IF Interim(m.status) \/ m.status = 204 THEN BareFraming([m EXCEPT !.body = <<>>])
     ELSE IF method = "HEAD" \/ m.status = 304 THEN {[w EXCEPT !.body = <<>>] : w \in framings}
     ELSE framings

\* Without framing, and with a body, the end of the connection is the end.
CloseDelimited(method, m, w) ==
  /\ ~ responseMustNotHaveBody(method, m.status)
  /\ {f.name : f \in {g \in ToSet(w.head) : g.kind = "field"}}
       \cap {"Content-Length", "Transfer-Encoding"} = {}

\* What is left of symbols that break off, perhaps in the middle of a line.
Cuts(symbols) ==
  {SubSeq(symbols, 1, n) : n \in 0 .. Len(symbols) - 1}
    \cup {Append(SubSeq(symbols, 1, n), Byte) : n \in 0 .. Len(symbols) - 2}

\* A malformed message: fields, a line that should be empty, and if it is, some
\* chunks of a body and what comes after them.
Spelt(fault) == fault.head \o <<fault.line>> \o Chunks(fault.split) \o fault.tail

BadRequests == {Spelt(fault) : fault \in RequestFaults}
BadResponses == {<<fault.start>> \o Spelt(fault) : fault \in ResponseFaults}

-----------------------------------------------------------------------------
(* The client                                                              *)

NextTarget == IF sent = <<>> THEN 1 ELSE 3 - Last(sent).target

\* A request, perhaps before the answer to the last one.
ClientMaySend == inbox.end = "open" /\ outbox.end = "open" /\ Len(sent) < 2

Sending(m, whole, symbols, end) ==
  /\ inbox' = Arrive(inbox, symbols, end)
  /\ sent' = Append(sent, [target |-> NextTarget, method |-> m.method, message |-> m, whole |-> whole])
  /\ UNCHANGED <<outbox, peer, proxy>>

ClientSends ==
  /\ ClientMaySend
  /\ \E m \in Requests : \E text \in RequestTexts(m, NextTarget) : Sending(m, TRUE, text, "open")

\* Bound: only whole requests are sent ahead.
ClientBreaksOff ==
  /\ ClientMaySend /\ sent = <<>>
  /\ \E m \in Requests : \E text \in RequestTexts(m, NextTarget) :
       \E symbols \in Cuts(text), end \in {"fin", "reset"} : Sending(m, FALSE, symbols, end)

ClientErrs ==
  /\ ClientMaySend /\ sent = <<>>
  /\ \E symbols \in BadRequests :
       Sending([method |-> "GET"], FALSE, <<RequestLine("POST", NextTarget)>> \o symbols, "open")

ClientStops ==
  /\ inbox.end = "open" /\ proxy.pc # "closed"
  /\ inbox' = [inbox EXCEPT !.end = "fin"]
  /\ UNCHANGED <<outbox, sent, peer, proxy>>

\* The answer to the oldest request.
Answer == readHTTPResponse(outbox, Head(sent).method)

ClientTakes ==
  /\ sent # <<>> /\ Answer.verdict = "read"
  /\ outbox' = Skip(outbox, Answer.next)
  /\ served' = [served EXCEPT ![Head(sent).target] = None]
  /\ sent' = Tail(sent)
  /\ UNCHANGED <<inbox, forward, back, link, upstream, proxy>>

\* The next client, on a connection of its own.
ClientConnects ==
  /\ proxy.pc = "closed" /\ (sent = <<>> \/ Answer.verdict # "read")
  /\ inbox' = Silent /\ outbox' = Silent /\ sent' = <<>>
  /\ served' = [t \in Targets |-> None]
  /\ proxy' = Reading
  /\ UNCHANGED <<forward, back, link, upstream>>

-----------------------------------------------------------------------------
(* serveHTTPConnection                                                     *)

Asked == readHTTPRequest(inbox)

ReadRequest ==
  /\ proxy.pc = "reading" /\ Asked.verdict = "read"
  /\ inbox' = Skip(inbox, Asked.next)
  /\ proxy' = [proxy EXCEPT !.pc = "attempting", !.request = Asked.message]
  /\ UNCHANGED <<outbox, sent, peer>>

\* The connection's deadline.
ReadDeadline ==
  /\ proxy.pc = "reading" /\ Asked.verdict = "more"
  /\ inbox' = [inbox EXCEPT !.end = "timeout"]
  /\ UNCHANGED <<outbox, sent, peer, proxy>>

Close == outbox' = [outbox EXCEPT !.end = "fin"]

\* Errors that are io.EOF, or a timeout, get no answer.
Unanswered == {"eof", "incomplete at eof", "timeout"}

ReadEnds ==
  /\ proxy.pc = "reading" /\ Asked.verdict \in Unanswered
  /\ Close /\ proxy' = [proxy EXCEPT !.pc = "closed"]
  /\ UNCHANGED <<inbox, sent, peer>>

textResponse(status) ==
  [status |-> status, headers |-> <<Field("Content-Type", <<"text/plain">>, 0)>>, mode |-> "fixed",
   body |-> <<Byte>>, trailers |-> <<>>, close |-> FALSE]

protocolFailureResponse(verdict) ==
  [textResponse(CASE verdict = "too large" -> 413
                  [] verdict = "coding" -> 501
                  [] verdict = "expect" -> 417
                  [] OTHER -> 400) EXCEPT !.close = TRUE]

ReadFails ==
  /\ proxy.pc = "reading" /\ Asked.verdict \notin {"read", "more"} \cup Unanswered
  /\ proxy' = [proxy EXCEPT !.pc = "responding", !.response = protocolFailureResponse(Asked.verdict)]
  /\ UNCHANGED <<client, peer>>

\* closeAfterResponse and writeBufferedHTTPResponse: what the writer refuses
\* is replaced.  A request that could not be read has no method.
Respond ==
  /\ proxy.pc = "responding"
  /\ LET method   == IF proxy.request = None THEN "" ELSE proxy.request.method
         close    == \/ proxy.request # None /\ ~ proxy.request.keepAlive
                     \/ proxy.response.close
                     \/ HasToken(proxy.response.headers, "Connection", "close")
         encoded  == writeHTTPResponse([proxy.response EXCEPT !.close = close], method)
         fallback == writeHTTPResponse([textResponse(500) EXCEPT !.close = TRUE], method)
         refused  == encoded.verdict = "refused"
         over     == close \/ refused
     IN /\ outbox' = Arrive(outbox, IF refused THEN fallback.symbols ELSE encoded.symbols,
                            IF over THEN "fin" ELSE "open")
        /\ proxy' = [Reading EXCEPT !.pc = IF over THEN "closed" ELSE "reading"]
  /\ UNCHANGED <<inbox, sent, peer>>

-----------------------------------------------------------------------------
(* The headers between the two connections                                 *)

connectionNominations(fields) ==
  UNION {ToSet(f.tokens) : f \in ToSet(Values(fields, "Connection"))} \ {""}

hopByHopFieldSet(nominated) ==
  nominated \cup {"Connection", "Proxy-Connection", "Keep-Alive", "Proxy-Authenticate",
                  "Proxy-Authorization", "TE", "Trailer", "Transfer-Encoding", "Upgrade"}

filterHeaderFields(fields, remove) == Named(fields, STRING \ remove)

replaceHeader(fields, name, value) == Append(filterHeaderFields(fields, {name}), Field(name, <<value>>, 0))

\* The mode in which a body is written after it was read.
relayedBodyMode(mode) == IF mode = "close-delimited" THEN "fixed" ELSE mode

\* A Forwarded field for X-Forwarded-For, -Host and -Proto too.
buildUpstreamRequest(request) ==
  LET remove == hopByHopFieldSet(connectionNominations(request.headers))
                  \cup {"Host", "Forwarded", "X-Anvil-Request-ID"}
  IN [request EXCEPT
       !.headers = filterHeaderFields(@, remove) \o
         <<Field("Host", <<"upstream">>, 0), Field("Via", <<"anvil">>, 0),
           Field("X-Anvil-Request-ID", <<"id">>, 0), Field("Forwarded", <<"client">>, 0)>>,
       !.trailers = filterHeaderFields(@, remove),
       !.mode = relayedBodyMode(@), !.keepAlive = TRUE]

\* With finalizeProxyResponse: Via and Proxy-Status tell it from others.
sanitizeUpstreamResponse(response) ==
  LET remove == hopByHopFieldSet(connectionNominations(response.headers)) \cup {"X-Anvil-Request-ID"}
  IN [status |-> response.status,
      headers |-> Append(replaceHeader(Append(filterHeaderFields(response.headers, remove),
                                              Field("Via", <<"anvil">>, 0)),
                                       "X-Anvil-Request-ID", "id"),
                         Field("Proxy-Status", <<"received-status">>, 0)),
      mode |-> relayedBodyMode(response.mode), body |-> response.body,
      trailers |-> filterHeaderFields(response.trailers, remove), close |-> FALSE]

proxyFailureResponse(kind) ==
  LET text == textResponse(CASE kind = "canceled" -> 503
                             [] kind \in {"dial_timeout", "write_timeout", "upstream_timeout"} -> 504
                             [] OTHER -> 502)
  IN [text EXCEPT !.headers = @ \o <<Field("X-Anvil-Request-ID", <<"id">>, 0),
                                     Field("Proxy-Status", <<"error">>, 0)>>]

-----------------------------------------------------------------------------
(* What peers are assumed to send                                          *)

\* A message keeps to the limits of the proxy, with room for the fields that
\* the proxy adds, and tells the fields of the connection from the others.
WellFormed(m) ==
  LET headers == m.fields \o m.hops
      hop     == hopByHopFieldSet(connectionNominations(headers))
  IN /\ {m.fields, m.hops, m.trailers} \subseteq Seq(Fields) /\ m.body \in Seq(Symbols)
     /\ Len(headers) + 1 <= MaxHeaderFields /\ Len(m.fields) + 6 <= MaxHeaderFields
     /\ Len(m.trailers) <= MaxTrailerFields
     /\ Len(m.body) <= MaxBodyBytes /\ Len(m.body) < MaxChunkCount
     /\ Names(headers) \cap {"Content-Length", "Transfer-Encoding"} = {}
     /\ validateConnectionFields(headers) /\ ~ Upgrades(headers)
     /\ Names(m.fields) \cap hop = {} /\ Names(m.hops) \subseteq hop
     /\ Names(m.trailers) \cap (hop \cup {"Host", "Forwarded", "X-Anvil-Request-ID"}) = {}
     /\ validateTrailers(m.trailers)

ASSUME RelayAssumption ==
  /\ MaxInformationalResponses \in Nat /\ MaxBodyBytes > 0
  /\ Requests \subseteq [method : STRING, fields : Seq(Fields), hops : Seq(Fields),
                         body : Seq(Symbols), trailers : Seq(Fields)]
  /\ Responses \cup {InterimResponse} \subseteq
       [status : Nat, fields : Seq(Fields), hops : Seq(Fields), body : Seq(Symbols), trailers : Seq(Fields)]
  /\ \A m \in Requests \cup Responses \cup {InterimResponse} : WellFormed(m)
  /\ \A m \in Requests :
       /\ validateRequestHeaders(m.fields \o m.hops).verdict = "read"
       /\ m.method # "POST" => m.body = <<>> /\ m.trailers = <<>>
  /\ \A m \in Responses : ~ Interim(m.status)
  /\ Interim(InterimResponse.status) /\ InterimResponse.status # 101

\* The number that digits stand for.
SizeValue(digits) ==
  LET value[n \in 0 .. Len(digits)] == IF n = 0 THEN 0 ELSE value[n - 1] * Base + digits[n]
  IN value[Len(digits)]

\* Two framings, an unknown one, two lengths, none, or one beyond the limit.
Misframed(headers) ==
  LET codings == Values(headers, "Transfer-Encoding")
      lengths == Values(headers, "Content-Length")
  IN \/ codings # <<>> /\ (lengths # <<>> \/ Len(codings) # 1 \/ codings[1].tokens # <<"chunked">>)
     \/ \E l \in ToSet(lengths) : l.number \notin 0 .. MaxBodyBytes \/ l.number # lengths[1].number

\* After these chunks: one too many, no size, a size that is none or beyond the
\* limit, a chunk that goes on after its size, or trailers that are none.
Misplaced(split, tail) ==
  LET size == SizeValue(tail[1].digits)
      trailers == SubSeq(tail, 2, Len(tail) - 1)
  IN /\ Len(split) <= MaxChunkCount /\ <<>> \notin ToSet(split)
     /\ Len(FlattenSeq(split)) <= MaxBodyBytes
     /\ \/ Len(split) = MaxChunkCount
        \/ tail # <<>> /\ tail[1].kind # "size"
        \/ /\ tail # <<>> /\ tail[1].kind = "size"
           /\ \/ tail[1].digits = <<>> \/ ~ (ToSet(tail[1].digits) \subseteq 0 .. Base - 1)
              \/ size > MaxBodyBytes - Len(FlattenSeq(split))
              \/ size > 0 /\ size + 2 <= Len(tail) /\ tail[size + 2] # EmptyLine
              \/ /\ size = 0 /\ Len(tail) > 1 /\ Last(tail) = EmptyLine /\ trailers \in Seq(Fields)
                 /\ Len(trailers) > MaxTrailerFields \/ ~ validateTrailers(trailers)

Unheaded(fault) == Len(fault.head) > MaxHeaderFields \/ fault.line # EmptyLine

MalformedRequest(fault) ==
  LET h == fault.head
  IN \/ Unheaded(fault) \/ Misframed(h)
     \/ Len(Values(h, "Host")) # 1 \/ "Expect" \in Names(h) \/ Upgrades(h) \/ HasToken(h, "Connection", "")
     \/ "Transfer-Encoding" \in Names(h) /\ Misplaced(fault.split, fault.tail)

MalformedResponse(fault) ==
  LET h      == fault.head
      status == fault.start.status
      bare   == Interim(status) \/ status = 204
  IN \/ fault.start.kind # "status" \/ Unheaded(fault) \/ Misframed(h)
     \/ Upgrades(h) \/ HasToken(h, "Connection", "") \/ status = 101
     \/ bare /\ Names(h) \cap {"Content-Length", "Transfer-Encoding"} # {}
     \/ ~ bare /\ status # 304 /\ "Transfer-Encoding" \in Names(h) /\ Misplaced(fault.split, fault.tail)
     \/ /\ ~ bare /\ status # 304 /\ Names(h) \cap {"Content-Length", "Transfer-Encoding"} = {}
        /\ Len(Chunks(fault.split) \o fault.tail) > MaxBodyBytes

\* Malformed messages are, whatever the reader makes of them.
ASSUME FaultAssumption ==
  /\ RequestFaults \subseteq [head : Seq(Fields), line : Symbols \ Fields,
                              split : Seq(Seq(Symbols)), tail : Seq(Symbols)]
  /\ ResponseFaults \subseteq [start : Symbols, head : Seq(Fields), line : Symbols \ Fields,
                               split : Seq(Seq(Symbols)), tail : Seq(Symbols)]
  /\ \A fault \in RequestFaults : MalformedRequest(fault)
  /\ \A fault \in ResponseFaults : MalformedResponse(fault)

\* The names and tokens that the proxy and the peers give are strings: TLC
\* knows, the provers do not.
ASSUME StringAssumption ==
  {"Content-Length", "Transfer-Encoding", "Trailer", "Connection", "Content-Type", "Host", "Via",
   "Forwarded", "X-Anvil-Request-ID", "Proxy-Status", "chunked", "close", "text/plain", "upstream",
   "anvil", "id", "client", "received-status", "error", "POST"} \subseteq STRING

\* None is neither a message nor an answer.
ASSUME NoneAssumption ==
  /\ None \notin [method : STRING, target : Nat, headers : Seq(Fields), mode : {"none", "fixed", "chunked"},
                  body : Seq(Symbols), trailers : Seq(Fields), keepAlive : BOOLEAN]
  /\ None \notin [message : Responses \cup {None}, whole : BOOLEAN]

-----------------------------------------------------------------------------
(* executeProxyAttempt                                                     *)

Disconnect == /\ link' = "none" /\ forward' = Silent /\ back' = Silent /\ upstream' = Idle

\* Mutant: the connection of an attempt that failed goes back to the pool.
FailKeepsConnection(kind) ==
  /\ link' = (IF link = "none" THEN "none" ELSE "idle") /\ UNCHANGED <<forward, back, upstream>>
  /\ proxy' = [proxy EXCEPT !.pc = "responding", !.response = proxyFailureResponse(kind)]
  /\ UNCHANGED <<client, served>>

Fail(kind) ==
  /\ Disconnect
  /\ proxy' = [proxy EXCEPT !.pc = "responding", !.response = proxyFailureResponse(kind)]
  /\ UNCHANGED <<client, served>>

DialFails ==
  /\ proxy.pc = "attempting" /\ link = "none"
  /\ \E kind \in {"dial_failure", "dial_timeout"} : Fail(kind)

\* An idle connection is used as it is: it may have ended, as a new one may, or
\* the context closes it.
WriteFails ==
  /\ proxy.pc = "attempting"
  /\ \E kind \in {"write_failure", "write_timeout"} : Fail(kind)

\* The writer refuses none of these requests (UpstreamHears).
SendUpstream ==
  /\ proxy.pc = "attempting"
  /\ LET encoded == writeHTTPRequest(buildUpstreamRequest(proxy.request))
     IN /\ encoded.verdict = "written"
        /\ forward' = Arrive(forward, encoded.symbols, "open")
  /\ link' = "busy" /\ proxy' = [proxy EXCEPT !.pc = "waiting"]
  /\ UNCHANGED <<client, back, upstream, served>>

Got == readHTTPResponse(back, proxy.request.method)

\* The read deadline of the attempt.
Deadline ==
  /\ proxy.pc = "waiting" /\ Got.verdict = "more"
  /\ back' = [back EXCEPT !.end = "timeout"]
  /\ UNCHANGED <<client, forward, link, upstream, served, proxy>>

classifyProxyReadError(ended, verdict) ==
  CASE ended -> "canceled"
    [] ~ ended /\ verdict = "timeout" -> "upstream_timeout"
    [] ~ ended /\ verdict \in {"incomplete", "incomplete at eof"} -> "upstream_incomplete"
    [] OTHER -> "upstream_protocol"

\* The attempt's context, which has the total deadline, may end at any time, and
\* closes the connection (closeOnContextDone): a read then fails whatever has
\* arrived.
ReadUpstreamFails ==
  /\ proxy.pc = "waiting"
  /\ \E ended \in BOOLEAN :
       /\ ended \/ Got.verdict \notin {"read", "more"}
       /\ Fail(classifyProxyReadError(ended, Got.verdict))

ReadInterim ==
  /\ proxy.pc = "waiting" /\ Got.verdict = "read" /\ Interim(Got.message.status)
  /\ \/ /\ proxy.interim = MaxInformationalResponses
        /\ Fail("upstream_protocol")
     \/ /\ proxy.interim < MaxInformationalResponses
        /\ proxy' = [proxy EXCEPT !.interim = @ + 1]
        /\ back' = Skip(back, Got.next)
        /\ UNCHANGED <<client, forward, link, upstream, served>>

\* recycleConnection, or Close.  Symbols left over in the attempt's reader are
\* lost with it; IdleIsAligned says that there are none.
Recycle(response, next) ==
  IF response.keepAlive /\ response.mode # "close-delimited"
  THEN link' = "idle" /\ back' = Skip(back, next) /\ UNCHANGED <<forward, upstream>>
  ELSE Disconnect

ReadResponse ==
  /\ proxy.pc = "waiting" /\ Got.verdict = "read" /\ ~ Interim(Got.message.status)
  /\ Recycle(Got.message, Got.next)
  /\ proxy' = [proxy EXCEPT !.pc = "responding", !.response = sanitizeUpstreamResponse(Got.message)]
  /\ UNCHANGED <<client, served>>

-----------------------------------------------------------------------------
(* The upstream                                                            *)

Heard == readHTTPRequest(forward)

Working == link # "none" /\ back.end = "open"

\* Bound: the client has taken the last answer before the upstream gives one.
Due == Working /\ upstream.request # None /\ outbox.symbols = <<>>

UpstreamReads ==
  /\ Working /\ upstream.request = None /\ Heard.verdict = "read"
  /\ upstream' = [upstream EXCEPT !.request = Heard.message]
  /\ forward' = Skip(forward, Heard.next)
  /\ UNCHANGED <<client, back, link, served, proxy>>

UpstreamPauses ==
  /\ Due /\ upstream.interim <= MaxInformationalResponses
  /\ upstream' = [upstream EXCEPT !.interim = @ + 1]
  /\ \E w \in ResponseFramings(upstream.request.method, InterimResponse) :
       back' = Arrive(back, <<StatusLine(InterimResponse.status)>> \o w.head, "open")
  /\ UNCHANGED <<client, forward, link, served, proxy>>

\* An answer after too many interim responses is not waited for.
Serving(m, complete, symbols, end) ==
  LET whole == complete /\ upstream.interim <= MaxInformationalResponses
  IN
  /\ back' = Arrive(back, symbols, end)
  /\ upstream' = Idle
  /\ served' = [served EXCEPT ![upstream.request.target] = [message |-> m, whole |-> whole]]
  /\ UNCHANGED <<client, forward, link, proxy>>

UpstreamAnswers ==
  /\ Due
  /\ \E m \in Responses : \E w \in ResponseFramings(upstream.request.method, m) :
       Serving(m, TRUE, <<StatusLine(m.status)>> \o w.head \o w.body,
               IF CloseDelimited(upstream.request.method, m, w) \/ HasToken(m.hops, "Connection", "close")
               THEN "fin" ELSE "open")

\* A body that ends with the connection may break off unnoticed only if the
\* connection is closed in good order.
UpstreamBreaksOff ==
  /\ Due
  /\ \E m \in Responses : \E w \in ResponseFramings(upstream.request.method, m) :
       LET start == <<StatusLine(m.status)>> \o w.head
       IN \E symbols \in Cuts(start \o w.body), end \in {"fin", "reset"} :
            /\ CloseDelimited(upstream.request.method, m, w) /\ end = "fin" => Len(symbols) < Len(start)
            /\ Serving(m, FALSE, symbols, end)

\* Assumed of the upstream: it sends no body with an answer to HEAD.
UpstreamErrs ==
  /\ Due /\ upstream.request.method # "HEAD"
  /\ \E symbols \in BadResponses : Serving(None, FALSE, symbols, "open")

\* Idle connections are closed; so are others, by an upstream that stops.
UpstreamCloses ==
  /\ Working
  /\ back' = [back EXCEPT !.end = "fin"]
  /\ UNCHANGED <<client, forward, link, upstream, served, proxy>>

-----------------------------------------------------------------------------
Proxy ==
  \/ ReadRequest \/ ReadEnds \/ ReadFails \/ Respond \/ SendUpstream \/ DialFails
  \/ WriteFails \/ Deadline \/ ReadUpstreamFails \/ ReadInterim \/ ReadResponse

Client ==
  \/ ClientSends \/ ClientBreaksOff \/ ClientErrs \/ ClientStops \/ ClientTakes \/ ClientConnects

Upstream ==
  \/ UpstreamReads \/ UpstreamPauses \/ UpstreamAnswers \/ UpstreamBreaksOff
  \/ UpstreamErrs \/ UpstreamCloses

Next == Proxy \/ ReadDeadline \/ Client \/ Upstream

Spec == Init /\ [][Next]_vars

-----------------------------------------------------------------------------
TypeOK ==
  /\ {inbox, outbox, forward, back} \subseteq Sources
  /\ link \in {"none", "idle", "busy"}
  /\ proxy.pc \in {"reading", "attempting", "waiting", "responding", "closed"}
  /\ proxy.interim \in 0 .. MaxInformationalResponses
  /\ upstream.interim \in 0 .. MaxInformationalResponses + 1

\* A connection in the pool is between two messages, at both ends: whatever
\* framing the last exchange used, nothing of it is left to be read.
IdleIsAligned ==
  link = "idle" => forward.symbols = <<>> /\ back.symbols = <<>> /\ upstream.request = None

\* What the attempt keeps: its locals, and the connection that it returns.
RelayInv == TypeOK /\ IdleIsAligned

EndToEnd(headers) ==
  Named(headers, STRING \
    {"Content-Length", "Transfer-Encoding", "Trailer", "Connection", "Host", "Via",
     "Forwarded", "X-Anvil-Request-ID", "Proxy-Status"})

SameBody(got, m) == got.body = m.body /\ got.trailers = m.trailers

\* "Preservation of methods, targets, bodies, trailers, and end-to-end headers"
\* (README.md:250): the upstream reads messages that the client sent, whole and
\* unread before, and can read everything that it is sent: no framing of a body
\* makes a part of it a request.  The writer refuses nothing that was read.
UpstreamHears ==
  /\ proxy.pc = "attempting" => writeHTTPRequest(buildUpstreamRequest(proxy.request)).verdict = "written"
  /\ link # "none" =>
    \A heard \in {Heard} :
       /\ heard.verdict \in {"read", "more"}
       /\ heard.verdict = "read" =>
            \E s \in ToSet(sent) :
              /\ s.whole /\ s.target = heard.message.target /\ served[s.target] = None
              /\ heard.message.method = s.message.method /\ SameBody(heard.message, s.message)
              /\ EndToEnd(heard.message.headers) = EndToEnd(s.message.fields)
              /\ Values(heard.message.headers, "Host") = <<Field("Host", <<"upstream">>, 0)>>
              /\ Len(Values(heard.message.headers, "X-Anvil-Request-ID")) = 1

\* The upstream's answer.
Conveyed(s, a, got) ==
  /\ got.status = a.message.status /\ EndToEnd(got.headers) = EndToEnd(a.message.fields)
  /\ responseMustNotHaveBody(s.method, got.status) \/ SameBody(got, a.message)
  /\ HasToken(got.headers, "Proxy-Status", "received-status")

RightAnswer(s, a, got) ==
  LET Failed(statuses) == got.status \in statuses /\ HasToken(got.headers, "Proxy-Status", "error")
  IN IF a # None /\ a.whole THEN Conveyed(s, a, got) \/ Failed({503})
     ELSE IF s.whole THEN Failed({502, 503, 504})
     ELSE got.status \in {400, 413, 417, 501} /\ a = None

\* What the client reads is the upstream's answer to that request if the answer
\* came whole, unless the attempt's context ended first (503), and otherwise an
\* answer of the proxy's that says so: 502, 503 or 504 if the request was whole,
\* 400, 413, 417 or 501 if it was not, which may also get none.  The client can
\* read every answer but a 204 to HEAD, to which the writer gives a length that
\* "1xx and 204 responses cannot declare" (src/http_parser.go:135).
ClientHears ==
  sent # <<>> =>
    LET s == Head(sent)
        a == served[s.target]
    IN \A answer \in {Answer} :
         /\ answer.verdict = "read" => RightAnswer(s, a, answer.message)
         /\ \/ answer.verdict \in {"read", "more", "eof"}
            \/ s.method = "HEAD" /\ a # None /\ a.message.status = 204
=============================================================================

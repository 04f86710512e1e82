------------------------------- MODULE Message -------------------------------
(***************************************************************************)
(* The HTTP/1.1 codec: the reader (src/http_parser.go), the writer         *)
(* (src/http_writer.go) and the types between them.                        *)
(*                                                                         *)
(* Bytes are cut into symbols at the ends of lines: a start line, a field, *)
(* the size line of a chunk, the empty line, a line that is none of these  *)
(* (malformed, or longer than its limit), and a byte that no line may      *)
(* begin with.  Each counts one towards lengths, and a body is made of any *)
(* symbols, lines included: only the framing tells a body from a message.  *)
(* A field is its name and its value, as a list of tokens ("" is not a     *)
(* token) or as a number (negative if it is not one); a list of numbers is *)
(* the field repeated.                                                     *)
(*                                                                         *)
(* A source is the symbols that have arrived and how it goes on: it is     *)
(* open, it ended (fin), it broke (reset), or the deadline has passed.     *)
(***************************************************************************)
EXTENDS Integers, SequencesExt

CONSTANTS MaxHeaderFields, MaxTrailerFields, MaxBodyBytes, MaxChunkCount,
          Base,      \* of chunk sizes, 16 in the code
          MaxUint    \* the largest integer, 2^64 - 1 in the code

ASSUME LimitsAssumption ==
  /\ {MaxHeaderFields, MaxTrailerFields, MaxChunkCount} \subseteq Nat \ {0}
  /\ MaxBodyBytes \in Nat /\ Base \in Nat \ {0, 1} /\ MaxUint \in Nat
  /\ MaxBodyBytes <= MaxUint

RequestLine(method, target) == [kind |-> "request", method |-> method, target |-> target]
StatusLine(status) == [kind |-> "status", status |-> status]
Field(name, tokens, number) ==
  [kind |-> "field", name |-> name, tokens |-> tokens, number |-> number]
SizeLine(digits) == [kind |-> "size", digits |-> digits]
EmptyLine == [kind |-> "empty"]
Junk == [kind |-> "junk"]
Byte == [kind |-> "byte"]

\* The fields with one of these names, in their order.
Named(fields, names) ==
  LET selected[n \in 0 .. Len(fields)] ==
        IF n = 0 THEN <<>>
        ELSE selected[n - 1] \o (IF fields[n].name \in names THEN <<fields[n]>> ELSE <<>>)
  IN selected[Len(fields)]

Values(headers, name) == Named(headers, {name})
Names(headers) == {f.name : f \in ToSet(headers)}
HasToken(headers, name, token) ==
  \E f \in ToSet(headers) : f.name = name /\ token \in ToSet(f.tokens)

\* Results: something was read, up to the symbol at next, or the verdict says
\* why nothing was.  "more" stands for a read that blocks.
Error(kind) == [verdict |-> kind]

\* Op of a result with that verdict; any other result is passed on.  The bound
\* variable makes TLC evaluate the result once.
When(verdict, result, Op(_)) ==
  CHOOSE x \in {IF r.verdict = verdict THEN Op(r) ELSE r : r \in {result}} : TRUE
Then(result, Op(_)) == When("read", result, Op)

-----------------------------------------------------------------------------
(* Lines and blocks of fields                                              *)

\* A source that ends where a line would begin is told apart from one that
\* ends in the middle, and that error too is io.EOF if the read that failed had
\* got no bytes (empty), or was of a line.
protocolErrorFromRead(in, empty, partial) ==
  Error(CASE in.end = "open" -> "more"
          [] in.end = "timeout" -> "timeout"
          [] in.end = "fin" /\ empty -> IF partial THEN "incomplete at eof" ELSE "eof"
          [] OTHER -> "incomplete")

readStrictLine(in, at) ==
  LET end == SelectInSubSeq(in.symbols, at, Len(in.symbols), LAMBDA s : s.kind # "byte")
  IN IF end = 0 THEN protocolErrorFromRead(in, TRUE, at <= Len(in.symbols))
     ELSE [verdict |-> "read", line |-> IF end = at THEN in.symbols[at] ELSE Junk, next |-> end + 1]

\* parseRequestLine and parseStatusLine
readStartLine(in, kind) ==
  Then(readStrictLine(in, 1), LAMBDA r : IF r.line.kind = kind THEN r ELSE Error("bad"))

readHeaderBlock(in, at, maximumFields) ==
  LET stop == SelectInSubSeq(in.symbols, at, Len(in.symbols), LAMBDA s : s.kind # "field")
      end  == IF stop = 0 THEN Len(in.symbols) + 1 ELSE stop
  IN IF end - at > maximumFields THEN Error("bad")
     ELSE Then(readStrictLine(in, end), LAMBDA r :
            IF r.line # EmptyLine THEN Error("bad")
            ELSE [verdict |-> "read", fields |-> SubSeq(in.symbols, at, end - 1), next |-> r.next])

validateConnectionFields(headers) == ~ HasToken(headers, "Connection", "")

Upgrades(headers) == HasToken(headers, "Connection", "upgrade") \/ "Upgrade" \in Names(headers)

validateRequestHeaders(headers) ==
  IF \/ Len(Values(headers, "Host")) # 1
     \/ ~ validateConnectionFields(headers) \/ Upgrades(headers)
  THEN Error("bad")
  ELSE [verdict |-> IF "Expect" \in Names(headers) THEN "expect" ELSE "read"]

Interim(status) == 100 <= status /\ status < 200

validateResponseFramingHeaders(status, headers) ==
  Interim(status) \/ status = 204 =>
    Names(headers) \cap {"Content-Length", "Transfer-Encoding"} = {}

validateTrailers(trailers) ==
  Names(trailers) \cap {"Content-Length", "Transfer-Encoding", "Host", "Connection", "Trailer",
                        "TE", "Upgrade", "Proxy-Connection", "Keep-Alive"} = {}

-----------------------------------------------------------------------------
(* Bodies                                                                  *)

\* A number that is not one, or two that differ: no length.
parseContentLengths(lengths) ==
  IF \E l \in ToSet(lengths) : l.number # lengths[1].number THEN -1 ELSE lengths[1].number

onlyChunkedTransferCoding(codings) == Len(codings) = 1 /\ codings[1].tokens = <<"chunked">>

determineBodyFraming(headers) ==
  LET codings == Values(headers, "Transfer-Encoding")
      lengths == Values(headers, "Content-Length")
      Framing(mode, length) == [verdict |-> "read", mode |-> mode, length |-> length]
      length  == parseContentLengths(lengths)
  IN IF codings # <<>>
     THEN IF lengths # <<>> THEN Error("bad")
          ELSE IF onlyChunkedTransferCoding(codings) THEN Framing("chunked", 0) ELSE Error("coding")
     ELSE IF lengths = <<>> THEN Framing("none", 0)
          ELSE IF length < 0 THEN Error("bad")
          ELSE IF length > MaxBodyBytes THEN Error("too large") ELSE Framing("fixed", length)

Body(body, trailers, next) ==
  [verdict |-> "read", body |-> body, trailers |-> trailers, next |-> next]

readFixedBody(in, at, length) ==
  IF at + length - 1 > Len(in.symbols) THEN protocolErrorFromRead(in, at > Len(in.symbols), TRUE)
  ELSE Body(SubSeq(in.symbols, at, at + length - 1), <<>>, at + length)

readCloseDelimitedBody(in, at) ==
  LET body == SubSeq(in.symbols, at, Len(in.symbols))
  IN IF Len(body) > MaxBodyBytes THEN Error("too large")
     ELSE IF in.end = "fin" THEN Body(body, <<>>, Len(in.symbols) + 1)
     ELSE protocolErrorFromRead(in, FALSE, TRUE)

\* Mutant: sizes wrap around.
parseWrappingSize(digits) ==
  IF digits = <<>> \/ \E d \in ToSet(digits) : d \notin 0 .. Base - 1 THEN -1
  ELSE FoldLeft(LAMBDA size, d : (size * Base + d) % (MaxUint + 1), 0, digits)

\* The size, or -1 if there is none or it does not fit the integer.
parseChunkSizeLine(digits) ==
  LET Shift(size, d) ==
        IF size = -1 \/ d \notin 0 .. Base - 1 \/ size > (MaxUint - d) \div Base THEN -1
        ELSE size * Base + d
      size[n \in 0 .. Len(digits)] == IF n = 0 THEN 0 ELSE Shift(size[n - 1], digits[n])
  IN IF digits = <<>> THEN -1 ELSE size[Len(digits)]

\* One turn of the loop of readChunkedBody, after the chunks read so far.
readChunk(in, soFar) ==
  Then(readStrictLine(in, soFar.next), LAMBDA r :
    LET size == IF r.line.kind = "size" THEN parseChunkSizeLine(r.line.digits) ELSE -1
    IN IF size = -1 THEN Error("bad")
       ELSE IF size = 0 THEN Then(readHeaderBlock(in, r.next, MaxTrailerFields), LAMBDA block :
         IF validateTrailers(block.fields) THEN Body(soFar.body, block.fields, block.next)
         ELSE Error("bad"))
       ELSE IF size > MaxBodyBytes - Len(soFar.body) THEN Error("too large")
       ELSE Then(readFixedBody(in, r.next, size), LAMBDA data :
         IF \/ data.next > Len(in.symbols)
            \/ data.next = Len(in.symbols) /\ in.symbols[data.next] = Byte
         THEN protocolErrorFromRead(in, data.next > Len(in.symbols), TRUE)
         ELSE IF in.symbols[data.next] # EmptyLine THEN Error("bad")
         ELSE [verdict |-> "chunk", body |-> soFar.body \o data.body, next |-> data.next + 1]))

readChunkedBody(in, at) ==
  LET soFar[count \in 0 .. MaxChunkCount] ==
        IF count = 0 THEN [verdict |-> "chunk", body |-> <<>>, next |-> at]
        ELSE When("chunk", soFar[count - 1], LAMBDA chunks : readChunk(in, chunks))
  IN When("chunk", soFar[MaxChunkCount], LAMBDA unfinished : Error("bad"))

readBody(in, at, framing) ==
  CASE framing.mode = "none" -> Body(<<>>, <<>>, at)
    [] framing.mode = "fixed" -> readFixedBody(in, at, framing.length)
    [] framing.mode = "chunked" -> readChunkedBody(in, at)
    [] framing.mode = "close-delimited" -> readCloseDelimitedBody(in, at)

-----------------------------------------------------------------------------
(* Messages                                                                *)

readHTTPRequest(in) ==
  Then(readStartLine(in, "request"), LAMBDA start :
  Then(readHeaderBlock(in, start.next, MaxHeaderFields), LAMBDA block :
  Then(validateRequestHeaders(block.fields), LAMBDA valid :
  Then(determineBodyFraming(block.fields), LAMBDA framing :
  Then(readBody(in, block.next, framing), LAMBDA body :
    [verdict |-> "read", next |-> body.next,
     message |-> [method |-> start.line.method, target |-> start.line.target,
                  headers |-> block.fields, mode |-> framing.mode, body |-> body.body,
                  trailers |-> body.trailers,
                  keepAlive |-> ~ HasToken(block.fields, "Connection", "close")]])))))

\* Mutant: a response to HEAD is thought to have the body it describes.
BodyAfterHead(method, status) == Interim(status) \/ status \in {204, 304}

responseMustNotHaveBody(method, status) ==
  method = "HEAD" \/ Interim(status) \/ status \in {204, 304}

readHTTPResponse(in, method) ==
  Then(readStartLine(in, "status"), LAMBDA start :
  Then(readHeaderBlock(in, start.next, MaxHeaderFields), LAMBDA block :
    LET status == start.line.status
        close  == HasToken(block.fields, "Connection", "close")
    IN IF \/ ~ validateConnectionFields(block.fields)
          \/ ~ validateResponseFramingHeaders(status, block.fields)
          \/ status = 101 \/ Upgrades(block.fields)
       THEN Error("bad")
       ELSE Then(determineBodyFraming(block.fields), LAMBDA framing :
         LET mode == IF responseMustNotHaveBody(method, status) THEN "none"
                     ELSE IF framing.mode = "none" THEN "close-delimited" ELSE framing.mode
         IN Then(readBody(in, block.next, [framing EXCEPT !.mode = mode]), LAMBDA body :
              [verdict |-> "read", next |-> body.next,
               message |-> [status |-> status, headers |-> block.fields, mode |-> mode,
                            body |-> body.body, trailers |-> body.trailers,
                            keepAlive |-> mode # "close-delimited" /\ ~ close]]))))

Numeral[n \in Nat] == IF n < Base THEN <<n>> ELSE Append(Numeral[n \div Base], n % Base)

\* writeMessageBody and chunkedBodyWriter: one chunk, if any, and the last one
writeMessageBody(mode, body, trailers) ==
  CASE mode = "none" -> <<>>
    [] mode = "fixed" -> body
    [] mode = "chunked" ->
         (IF body = <<>> THEN <<>> ELSE <<SizeLine(Numeral[Len(body)])>> \o body \o <<EmptyLine>>)
         \o <<SizeLine(<<0>>)>> \o trailers \o <<EmptyLine>>

withoutFramingHeaders(fields) ==
  Named(fields, STRING \ {"Content-Length", "Transfer-Encoding", "Trailer"})

appendTrailerDeclaration(headers, trailers) ==
  LET names[n \in 0 .. Len(trailers)] ==
        IF n = 0 THEN <<>>
        ELSE LET name == trailers[n].name
             IN names[n - 1] \o (IF Contains(names[n - 1], name) THEN <<>> ELSE <<name>>)
  IN IF trailers = <<>> THEN headers ELSE Append(headers, Field("Trailer", names[Len(trailers)], 0))

declareFraming(headers, mode, body, trailers) ==
  CASE mode = "none" -> headers
    [] mode = "fixed" -> Append(headers, Field("Content-Length", <<>>, Len(body)))
    [] mode = "chunked" ->
         appendTrailerDeclaration(Append(headers, Field("Transfer-Encoding", <<"chunked">>, 0)), trailers)

Written(start, headers, body) ==
  [verdict |-> "written", symbols |-> <<start>> \o headers \o <<EmptyLine>> \o body]

writeHTTPRequest(request) ==
  LET mode == IF request.mode = "none" /\ request.body # <<>> THEN "fixed" ELSE request.mode
  IN IF \/ validateRequestHeaders(request.headers).verdict # "read"
        \/ ~ validateTrailers(request.trailers) \/ mode = "close-delimited"
     THEN Error("refused")
     ELSE Written(RequestLine(request.method, request.target),
                  declareFraming(withoutFramingHeaders(request.headers), mode, request.body, request.trailers),
                  writeMessageBody(mode, request.body, request.trailers))

writeHTTPResponse(response, method) ==
  LET noBody  == responseMustNotHaveBody(method, response.status)
      mode    == IF response.mode = "none" /\ ~ noBody THEN "fixed" ELSE response.mode
      headers == withoutFramingHeaders(response.headers)
      closing == IF response.close /\ ~ HasToken(headers, "Connection", "close")
                 THEN Append(headers, Field("Connection", <<"close">>, 0)) ELSE headers
      framed  == IF ~ noBody THEN mode
                 ELSE IF method = "HEAD" \/ response.status = 304 THEN "fixed" ELSE "none"
  IN IF \/ ~ validateConnectionFields(response.headers) \/ Upgrades(response.headers)
        \/ response.status = 101 \/ ~ validateTrailers(response.trailers)
        \/ mode = "close-delimited"
     THEN Error("refused")
     ELSE Written(StatusLine(response.status),
                  declareFraming(closing, framed, response.body, response.trailers),
                  IF noBody THEN <<>> ELSE writeMessageBody(mode, response.body, response.trailers))
=============================================================================

--------------------------- MODULE HTTPConnection ---------------------------
(***************************************************************************)
(* The loop that serves one connection (src/http_server.go): requests are  *)
(* read, routed by the tree of module Router, handled and answered one     *)
(* after the other, and the loop decides when the connection ends.         *)
(*                                                                         *)
(* What is on the wire is a sequence of responses: the request each one    *)
(* answers, whether it announces the close of the connection, and whether  *)
(* it is complete.  The client sends what it likes, ahead of the answers   *)
(* if it likes.                                                            *)
(***************************************************************************)
EXTENDS Router

CONSTANT MaxRequestsPerConnection

ASSUME ConnectionAssumption == MaxRequestsPerConnection \in Nat \ {0}

VARIABLES ctxDone,   \* the handler's context
          pc,        \* where the loop is
          number,    \* requestNumber
          request,   \* the request it serves
          response,  \* the response to it
          wire,      \* the responses sent
          ended      \* why the connection ended

connection == <<ctxDone, pc, number, request, response, wire, ended>>
vars == <<routes, frozen, connection>>

Requests == [keepAlive : BOOLEAN, resolved : {"handler", "allowed", "nothing"}]

Responses == [status : {200, 400, 404, 405, 500}, close : BOOLEAN, valid : BOOLEAN]

\* The loop is at a step of serveHTTPConnection, within its bounds.
TypeOK ==
  /\ routes \in [Methods -> SUBSET Patterns]
  /\ frozen \in BOOLEAN /\ ctxDone \in BOOLEAN
  /\ pc \in {"new", "checking", "reading", "dispatching", "encoding", "sending", "over"}
  /\ number \in 1 .. MaxRequestsPerConnection
  /\ request \in Requests \cup {None}
  /\ response \in IF pc \in {"encoding", "sending"} THEN Responses ELSE {None}
  /\ wire \in Seq([answers : 1 .. MaxRequestsPerConnection, close : BOOLEAN, whole : BOOLEAN])
  /\ ended \in {"no", "by_client", "by_context", "by_server", "by_error"}

Init ==
  /\ RouterInit
  /\ ctxDone = FALSE /\ pc = "new" /\ number = 1
  /\ request = None /\ response = None
  /\ wire = <<>> /\ ended = "no"

Cancel ==
  /\ ~ ctxDone /\ pc # "new"
  /\ ctxDone' = TRUE
  /\ UNCHANGED <<routes, frozen, pc, number, request, response, wire, ended>>

\* newHTTPConnectionHandler has frozen the tree.
Start ==
  /\ pc = "new" /\ frozen
  /\ pc' = "checking"
  /\ UNCHANGED <<routes, frozen, ctxDone, number, request, response, wire, ended>>

End(why) == pc' = "over" /\ ended' = why

CheckContext ==
  /\ pc = "checking"
  /\ \/ ctxDone /\ End("by_context")
     \/ ~ ctxDone /\ pc' = "reading" /\ UNCHANGED ended
  /\ UNCHANGED <<routes, frozen, ctxDone, number, request, response, wire>>

-----------------------------------------------------------------------------
(* Reading                                                                 *)

ReadRequest ==
  /\ pc = "reading"
  /\ \E keepAlive \in BOOLEAN, m \in RequestMethods, path \in Paths :
       LET resolution == Lookup(m, path)
       IN  request' = [keepAlive |-> keepAlive,
                       resolved  |-> CASE resolution.handler # None -> "handler"
                                       [] resolution.allowed # {} -> "allowed"
                                       [] OTHER -> "nothing"]
  /\ pc' = "dispatching"
  /\ UNCHANGED <<routes, frozen, ctxDone, number, response, wire, ended>>

\* End of file, the read deadline, or any error once the context is done.
ReadEnds ==
  /\ pc = "reading"
  /\ End(IF ctxDone THEN "by_context" ELSE "by_client")
  /\ UNCHANGED <<routes, frozen, ctxDone, number, request, response, wire>>

\* Mutant: a malformed request is skipped.
SkipMalformed ==
  /\ pc = "reading" /\ ~ ctxDone
  /\ pc' = "checking"
  /\ UNCHANGED <<routes, frozen, ctxDone, number, request, response, wire, ended>>

\* protocolFailureResponse, for 413, 417 and 501 too.
ReadFails ==
  /\ pc = "reading" /\ ~ ctxDone
  /\ response' = [status |-> 400, close |-> TRUE, valid |-> TRUE]
  /\ pc' = "encoding"
  /\ UNCHANGED <<routes, frozen, ctxDone, number, request, wire, ended>>

-----------------------------------------------------------------------------
(* dispatchHTTPRequest                                                     *)

\* Mutant: the last request of a connection is answered like the others.
CloseOnRequest(close) == ~ request.keepAlive \/ close

closeAfterResponse(close) ==
  ~ request.keepAlive \/ close \/ number = MaxRequestsPerConnection

Respond(status, close, valid) ==
  /\ response' = [status |-> status, close |-> closeAfterResponse(close), valid |-> valid]
  /\ pc' = "encoding"
  /\ UNCHANGED <<routes, frozen, ctxDone, number, request, wire, ended>>

NoRoute ==
  /\ pc = "dispatching" /\ request.resolved # "handler"
  /\ Respond(IF request.resolved = "allowed" THEN 405 ELSE 404, FALSE, TRUE)

\* Any response, with or without a wish to close; perhaps one that the writer
\* refuses.
HandlerResponds ==
  /\ pc = "dispatching" /\ request.resolved = "handler"
  /\ \E close, valid \in BOOLEAN : Respond(200, close, valid)

\* An error, no response, or a panic.
HandlerFails ==
  /\ pc = "dispatching" /\ request.resolved = "handler"
  /\ Respond(500, TRUE, TRUE)

-----------------------------------------------------------------------------
(* writeBufferedHTTPResponse                                               *)

\* Encoding into memory first: an invalid response is replaced as a whole.
Encode ==
  /\ pc = "encoding"
  /\ response' = IF response.valid THEN response
                 ELSE [status |-> 500, close |-> TRUE, valid |-> TRUE]
  /\ pc' = "sending"
  /\ UNCHANGED <<routes, frozen, ctxDone, number, request, wire, ended>>

Sent(whole) ==
  wire' = Append(wire, [answers |-> number, close |-> response.close, whole |-> whole])

Send ==
  /\ pc = "sending"
  /\ Sent(TRUE)
  /\ IF response.close \/ number = MaxRequestsPerConnection
     THEN End("by_server") /\ UNCHANGED number
     ELSE number' = number + 1 /\ pc' = "checking" /\ UNCHANGED ended
  /\ request' = None /\ response' = None
  /\ UNCHANGED <<routes, frozen, ctxDone>>

\* Mutant: a failed write is tried again.
SendAgain ==
  /\ pc = "sending" /\ Len(wire) < 2 * MaxRequestsPerConnection
  /\ Sent(FALSE)
  /\ UNCHANGED <<routes, frozen, ctxDone, pc, number, request, response, ended>>

\* The client is gone, the deadline passed, or the connection was closed.
SendFails ==
  /\ pc = "sending"
  /\ wire' = wire \/ Sent(FALSE)
  /\ End("by_error")
  /\ request' = None /\ response' = None
  /\ UNCHANGED <<routes, frozen, ctxDone, number>>

-----------------------------------------------------------------------------
Build ==
  /\ \/ Freeze
     \/ \E m \in RouteMethods \cup {AnyMethod}, p \in Patterns : Register(m, p)
  /\ UNCHANGED connection

Loop ==
  \/ CheckContext \/ ReadRequest \/ ReadEnds \/ ReadFails
  \/ NoRoute \/ HandlerResponds \/ HandlerFails
  \/ Encode \/ Send \/ SendFails

Next == Build \/ Start \/ Cancel \/ Loop

Spec == Init /\ [][Next]_vars

\* Reads and writes have deadlines, and handlers return.
FairSpec == Spec /\ WF_vars(Loop)

-----------------------------------------------------------------------------
\* "Static-over-parameter-over-wildcard precedence" (README.md): the search through the
\* tree finds the most specific route of the method, then of any method, and
\* tells 405 with the methods that have one from 404.
RoutesByPriority ==
  pc = "new" /\ frozen =>
    \A m \in RequestMethods, path \in Paths : RightResolution(m, path, Lookup(m, path))

\* Answers are in the order of the requests, one for each, and an answer that
\* was cut off is followed by nothing.
OneAnswerEach ==
  \A i \in DOMAIN wire :
    /\ wire[i].answers = i
    /\ ~ wire[i].whole => i = Len(wire) /\ pc = "over"

\* What the loop keeps: it is within its bounds, and the answers in order.
WireInv == TypeOK /\ OneAnswerEach

\* The loop ends after a response if and only if the response says so: a client
\* that pipelines knows which of its requests were not served.  A connection
\* that ends in a read, or because the server's context has ended, is not
\* announced.
CloseIsAnnounced ==
  /\ \A i \in DOMAIN wire : wire[i].close => i = Len(wire) /\ pc = "over"
  /\ ended = "by_server" => wire # <<>> /\ Last(wire).close

\* A connection ends, however many requests the client has.
ConnectionEnds == pc = "checking" ~> pc = "over"
=============================================================================

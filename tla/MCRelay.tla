------------------------------ MODULE MCRelay ------------------------------
(* Instances of Relay for TLC. *)
EXTENDS Relay

Host == Field("Host", <<"site">>, 0)
Hop == <<Field("Connection", <<"Hop">>, 0), Field("Hop", <<"v">>, 0)>>
Hangup == <<Field("Connection", <<"close">>, 0)>>
Own == Field("Own", <<"v">>, 0)
Digest == Field("Digest", <<"v">>, 0)
Request(method, fields, hops, body, trailers) ==
  [method |-> method, fields |-> <<Host>> \o fields, hops |-> hops, body |-> body, trailers |-> trailers]
Response(status, fields, hops, body, trailers) ==
  [status |-> status, fields |-> fields, hops |-> hops, body |-> body, trailers |-> trailers]

\* A body that looks like a message, and one that looks like the end of one.
Inner == <<EmptyLine, RequestLine("GET", 9)>>
InnerAnswer == <<EmptyLine, StatusLine(200)>>

MCRequests ==
  {Request("GET", <<Own>>, Hop, <<>>, <<>>), Request("HEAD", <<>>, Hangup, <<>>, <<>>),
   Request("POST", <<>>, <<>>, Inner, <<>>), Request("POST", <<>>, <<>>, <<Byte>>, <<Digest>>)}

MCResponses ==
  {Response(200, <<>>, <<>>, InnerAnswer, <<>>), Response(200, <<>>, Hangup, <<Byte>>, <<Digest>>),
   Response(204, <<Own>>, Hop, <<>>, <<>>), Response(304, <<>>, <<>>, <<Byte>>, <<>>)}

Chunked == Field("Transfer-Encoding", <<"chunked">>, 0)
Length(n) == Field("Content-Length", <<>>, n)

Fault(head, split, tail) == [head |-> head, line |-> EmptyLine, split |-> split, tail |-> tail]

\* What may come where a chunk should: nothing that is a size, a size that does
\* not fit, more than the size says, a bad trailer.
Faulty == {<<Junk>>, <<SizeLine(<<1, 0, 0>>), EmptyLine>> \o Inner, <<SizeLine(<<1>>), Byte, Junk>>,
           <<SizeLine(<<0>>), Host, EmptyLine>>}

\* Both framings, two lengths, too long in one and in two chunks, an unknown
\* coding, an expectation, no host, too many fields, a line that is none.
MCRequestFaults ==
  {Fault(<<Host, Chunked, Length(1)>>, <<>>, Inner), Fault(<<Host, Length(0), Length(2)>>, <<>>, Inner),
   Fault(<<Host, Length(3)>>, <<>>, <<Byte>>),
   Fault(<<Host, Chunked>>, <<<<Byte, Byte>>>>, <<SizeLine(<<1>>)>>),
   Fault(<<Host, Field("Transfer-Encoding", <<"gzip", "chunked">>, 0)>>, <<>>, <<>>),
   Fault(<<Host, Field("Expect", <<"100-continue">>, 0)>>, <<>>, <<>>),
   Fault(<<Own>>, <<>>, <<>>), Fault(<<Host>> \o [i \in 1 .. MaxHeaderFields |-> Own], <<>>, <<>>),
   [Fault(<<Host>>, <<>>, Inner) EXCEPT !.line = Junk]}
  \cup {Fault(<<Host, Chunked>>, <<>>, tail) : tail \in Faulty}

Answered(status, fault) == [start |-> StatusLine(status)] @@ fault

MCResponseFaults ==
  {[start |-> Junk] @@ Fault(<<>>, <<>>, <<>>), Answered(204, Fault(<<Length(0)>>, <<>>, <<>>)),
   Answered(200, Fault(<<Chunked, Length(1)>>, <<>>, <<Byte>>)),
   Answered(200, Fault(<<Length(3)>>, <<>>, <<Byte, Byte, Byte>>)),
   Answered(200, Fault(<<>>, <<>>, <<Byte, Byte, Byte>>))}
  \cup {Answered(200, Fault(<<Chunked>>, <<<<Byte>>>>, tail)) : tail \in Faulty}

MCInterimResponse == Response(103, <<Own>>, <<>>, <<>>, <<>>)
=============================================================================

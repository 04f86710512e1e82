---------------------------- MODULE UpstreamPool ----------------------------
(***************************************************************************)
(* The connections of one backend: the idle pool of src/upstream_pool.go,  *)
(* the attempts that take connections out of it and put them back          *)
(* (executeProxyAttempt, src/proxy.go), and the callback that closes an    *)
(* attempt's connection when its context ends (src/context_close.go).      *)
(*                                                                         *)
(* An attempt is one goroutine, its context's callback another.  What goes *)
(* over a connection, and when an idle one has expired, is left open.      *)
(***************************************************************************)
EXTENDS Naturals, Sequences, FiniteSets

CONSTANTS Attempts,             \* request goroutines at this backend
          Conns,                \* sockets the dialer can return
          MaxIdleConnections,
          None                  \* no connection

ASSUME PoolAssumption ==
  /\ MaxIdleConnections \in Nat \ {0}
  /\ None \notin Conns

VARIABLES open,        \* the sockets that are open
          used,        \* the sockets that were ever dialed
          idle,        \* the pool: a stack of sockets
          poolClosed,
          retired,     \* taken out by closeIdleConnections, not yet closed
          stage,       \* where each attempt is
          conn,        \* the socket it works on
          reusable,    \* its deferred Close will not run
          canceled,    \* its context ended
          closer       \* its callback: none, armed, firing, fired

poolVars == <<open, used, idle, poolClosed, retired, stage, conn, reusable,
              canceled, closer>>
pool == <<idle, poolClosed, retired>>

Steps == {"start", "acquiring", "popped", "dialing", "owned", "using",
          "recycling", "joining", "closing"}

\* Every attempt is at a step of executeProxyAttempt, and sockets are sockets.
PoolTypeOK ==
  /\ open \subseteq used /\ used \subseteq Conns
  /\ idle \in Seq(Conns)
  /\ poolClosed \in BOOLEAN
  /\ retired \subseteq Conns
  /\ stage \in [Attempts -> Steps]
  /\ conn \in [Attempts -> Conns \cup {None}]
  /\ reusable \in [Attempts -> BOOLEAN]
  /\ canceled \in [Attempts -> BOOLEAN]
  /\ closer \in [Attempts -> {"none", "armed", "firing", "fired"}]

PoolInit ==
  /\ open = {} /\ used = {}
  /\ idle = <<>> /\ poolClosed = FALSE /\ retired = {}
  /\ stage = [a \in Attempts |-> "start"]
  /\ conn = [a \in Attempts |-> None]
  /\ reusable = [a \in Attempts |-> FALSE]
  /\ canceled = [a \in Attempts |-> FALSE]
  /\ closer = [a \in Attempts |-> "none"]

Goto(a, step) == stage' = [stage EXCEPT ![a] = step]

Return(a) ==
  /\ Goto(a, "start")
  /\ conn' = [conn EXCEPT ![a] = None]
  /\ reusable' = [reusable EXCEPT ![a] = FALSE]
  /\ canceled' = [canceled EXCEPT ![a] = FALSE]
  /\ closer' = [closer EXCEPT ![a] = "none"]

-----------------------------------------------------------------------------
(* acquireConnection                                                       *)

Start(a) ==
  /\ stage[a] = "start"
  /\ Goto(a, "acquiring")
  /\ UNCHANGED <<open, used, pool, conn, reusable, canceled, closer>>

AcquireClosed(a) ==
  /\ stage[a] = "acquiring"
  /\ poolClosed
  /\ Return(a)
  /\ UNCHANGED <<open, used, pool>>

AcquireEmpty(a) ==
  /\ stage[a] = "acquiring"
  /\ ~ poolClosed /\ idle = <<>>
  /\ Goto(a, "dialing")
  /\ UNCHANGED <<open, used, pool, conn, reusable, canceled, closer>>

\* Mutant: the entry handed out stays in the pool.
PopKeepsEntry(a) ==
  /\ stage[a] = "acquiring"
  /\ ~ poolClosed /\ idle # <<>>
  /\ conn' = [conn EXCEPT ![a] = idle[Len(idle)]]
  /\ Goto(a, "popped")
  /\ UNCHANGED <<open, used, pool, reusable, canceled, closer>>

Pop(a) ==
  /\ stage[a] = "acquiring"
  /\ ~ poolClosed /\ idle # <<>>
  /\ conn' = [conn EXCEPT ![a] = idle[Len(idle)]]
  /\ idle' = SubSeq(idle, 1, Len(idle) - 1)
  /\ Goto(a, "popped")
  /\ UNCHANGED <<open, used, poolClosed, retired, reusable, canceled, closer>>

Expired(a) ==
  /\ stage[a] = "popped"
  /\ open' = open \ {conn[a]}
  /\ conn' = [conn EXCEPT ![a] = None]
  /\ Goto(a, "acquiring")
  /\ UNCHANGED <<used, pool, reusable, canceled, closer>>

Fresh(a) ==
  /\ stage[a] = "popped"
  /\ Goto(a, "owned")
  /\ UNCHANGED <<open, used, pool, conn, reusable, canceled, closer>>

Dial(a) ==
  /\ stage[a] = "dialing"
  /\ \E c \in Conns \ used :
       /\ open' = open \cup {c}
       /\ used' = used \cup {c}
       /\ conn' = [conn EXCEPT ![a] = c]
  /\ Goto(a, "owned")
  /\ UNCHANGED <<pool, reusable, canceled, closer>>

DialFails(a) ==
  /\ stage[a] = "dialing"
  /\ Return(a)
  /\ UNCHANGED <<open, used, pool>>

-----------------------------------------------------------------------------
(* executeProxyAttempt and closeOnContextDone                              *)

\* The client left, the retry budget ran out, or the server is shutting down.
\* context.AfterFunc starts the callback of a registered closer.
Cancel(a) ==
  /\ stage[a] # "start" /\ ~ canceled[a]
  /\ canceled' = [canceled EXCEPT ![a] = TRUE]
  /\ closer' = [closer EXCEPT ![a] = IF @ = "armed" THEN "firing" ELSE @]
  /\ UNCHANGED <<open, used, pool, stage, conn, reusable>>

Arm(a) ==
  /\ stage[a] = "owned"
  /\ closer' = [closer EXCEPT ![a] = IF canceled[a] THEN "firing" ELSE "armed"]
  /\ Goto(a, "using")
  /\ UNCHANGED <<open, used, pool, conn, reusable, canceled>>

Fire(a) ==
  /\ closer[a] = "firing"
  /\ open' = open \ {conn[a]}
  /\ closer' = [closer EXCEPT ![a] = "fired"]
  /\ UNCHANGED <<used, pool, stage, conn, reusable, canceled>>

\* A complete keep-alive response needs a socket that was open while it was
\* read; anything else ends the attempt without reuse.
Exchanged(a) ==
  /\ stage[a] = "using"
  /\ conn[a] \in open
  /\ Goto(a, "recycling")
  /\ UNCHANGED <<open, used, pool, conn, reusable, canceled, closer>>

NotReusable(a) ==
  /\ stage[a] = "using"
  /\ Goto(a, "joining")
  /\ UNCHANGED <<open, used, pool, conn, reusable, canceled, closer>>

Room == Len(idle) < MaxIdleConnections

Recycle(a) ==
  /\ stage[a] = "recycling"
  /\ ~ poolClosed /\ Room
  /\ idle' = Append(idle, conn[a])
  /\ reusable' = [reusable EXCEPT ![a] = TRUE]
  /\ Goto(a, "joining")
  /\ UNCHANGED <<open, used, poolClosed, retired, conn, canceled, closer>>

\* Mutant: a connection the pool refuses is dropped, and reported as kept.
RefuseWithoutClose(a) ==
  /\ stage[a] = "recycling"
  /\ poolClosed \/ ~ Room
  /\ reusable' = [reusable EXCEPT ![a] = TRUE]
  /\ Goto(a, "joining")
  /\ UNCHANGED <<open, used, pool, conn, canceled, closer>>

RefuseRecycle(a) ==
  /\ stage[a] = "recycling"
  /\ poolClosed \/ ~ Room
  /\ open' = open \ {conn[a]}
  /\ Goto(a, "joining")
  /\ UNCHANGED <<used, pool, conn, reusable, canceled, closer>>

\* Mutant: the callback is waited for even if it was stopped in time.
JoinStopped(a) ==
  /\ stage[a] = "joining"
  /\ closer[a] = "fired"
  /\ closer' = [closer EXCEPT ![a] = "none"]
  /\ Goto(a, "closing")
  /\ UNCHANGED <<open, used, pool, conn, reusable, canceled>>

\* Mutant: a callback that has started is not waited for.
StopWithoutWaiting(a) ==
  /\ stage[a] = "joining"
  /\ closer' = [closer EXCEPT ![a] = IF @ = "armed" THEN "none" ELSE @]
  /\ Goto(a, "closing")
  /\ UNCHANGED <<open, used, pool, conn, reusable, canceled>>

\* The deferred stopCancellation: either the callback never starts, or it has
\* ended.
Join(a) ==
  /\ stage[a] = "joining"
  /\ closer[a] \in {"armed", "fired"}
  /\ closer' = [closer EXCEPT ![a] = "none"]
  /\ Goto(a, "closing")
  /\ UNCHANGED <<open, used, pool, conn, reusable, canceled>>

\* The deferred Close, which runs last.
DeferredClose(a) ==
  /\ stage[a] = "closing"
  /\ open' = IF reusable[a] THEN open ELSE open \ {conn[a]}
  /\ Return(a)
  /\ UNCHANGED <<used, pool>>

-----------------------------------------------------------------------------
(* closeIdleConnections                                                    *)

ClosePool ==
  /\ ~ poolClosed
  /\ poolClosed' = TRUE
  /\ retired' = {idle[i] : i \in DOMAIN idle}
  /\ idle' = <<>>
  /\ UNCHANGED <<open, used, stage, conn, reusable, canceled, closer>>

CloseRetired ==
  \E c \in retired :
    /\ open' = open \ {c}
    /\ retired' = retired \ {c}
    /\ UNCHANGED <<used, idle, poolClosed, stage, conn, reusable, canceled, closer>>

-----------------------------------------------------------------------------
Attempting(a) ==
  \/ AcquireClosed(a) \/ AcquireEmpty(a) \/ Pop(a) \/ Expired(a) \/ Fresh(a)
  \/ Dial(a) \/ DialFails(a) \/ Arm(a) \/ Fire(a) \/ Exchanged(a)
  \/ NotReusable(a) \/ Recycle(a) \/ RefuseRecycle(a) \/ Join(a) \/ DeferredClose(a)

PoolNext ==
  \/ \E a \in Attempts : Start(a) \/ Cancel(a) \/ Attempting(a)
  \/ ClosePool
  \/ CloseRetired

PoolSpec == PoolInit /\ [][PoolNext]_poolVars

\* An attempt that has started ends: its network operations have deadlines, and
\* a callback that was started runs.  Nobody has to start, cancel or close.
FairPoolSpec ==
  /\ PoolSpec
  /\ \A a \in Attempts : WF_poolVars(Attempting(a))
  /\ WF_poolVars(CloseRetired)

-----------------------------------------------------------------------------
\* The attempt may read and write conn[a] and must see that it is closed or
\* given back.
Owns(a) == /\ stage[a] \in {"popped", "owned", "using", "recycling", "joining", "closing"}
           /\ ~ reusable[a]

Idle == {idle[i] : i \in DOMAIN idle}

\* A socket has one owner: it is in the pool once, or retired, or with one
\* attempt.  Two requests never write to the same connection.
OneOwner ==
  /\ \A i, j \in DOMAIN idle : i # j => idle[i] # idle[j]
  /\ Idle \cap retired = {}
  /\ \A a \in Attempts : Owns(a) => conn[a] \notin Idle \cup retired
  /\ \A a, b \in Attempts : a # b /\ Owns(a) /\ Owns(b) => conn[a] # conn[b]

\* No socket is leaked: one that is open is in the pool, about to be closed by
\* closeIdleConnections, or owned by an attempt whose deferred Close will run.
NoLeak == open \subseteq Idle \cup retired \cup {conn[a] : a \in {b \in Attempts : Owns(b)}}

\* The pool keeps its bound, and nothing returns to a pool that was closed.
PoolBound ==
  /\ Len(idle) <= MaxIdleConnections
  /\ poolClosed => idle = <<>>

\* The callback, too, may close the connection as long as it is armed or runs:
\* it exists from its registration until it was joined, and no attempt goes on
\* to its deferred Close, or returns, while one is left.
CallbackJoined ==
  \A a \in Attempts :
    closer[a] # "none" <=> stage[a] \in {"using", "recycling", "joining"}

\* What recycling, refusing, joining and closing must keep together: a connection
\* has one owner, the pool has its bound, no open socket is forgotten, and no
\* callback outlives its attempt.  A connection that was recycled has two that
\* may close it until the callback is joined: see ClosesOwn.
PoolInv == PoolTypeOK /\ OneOwner /\ PoolBound /\ NoLeak /\ CallbackJoined

\* "Context-triggered connection closers expose a stop-and-join function. Proxy
\* attempts ... invoke that join before releasing connection ownership"
\* (src/ARCHITECTURE.md): no callback closes a connection that another attempt
\* has taken over.
ClosesOwn ==
  \A a, b \in Attempts :
    a # b /\ closer[a] = "firing" /\ Owns(b) => conn[a] # conn[b]

\* After pool.Close every socket is eventually closed, those of attempts that
\* were dialing or exchanging at the time included.
PoolDrains == poolClosed ~> (open = {})
=============================================================================

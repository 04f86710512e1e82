------------------------------- MODULE Router -------------------------------
(***************************************************************************)
(* The route tree of src/router.go: routes are registered until the tree   *)
(* is frozen, and looked up by method and path after that.                 *)
(*                                                                         *)
(* A path is the sequence of its segments, as splitRoutePath makes it; "/" *)
(* is the empty one, and "/a/" ends with an empty segment.  The tree of a  *)
(* method is the set of its patterns that have an endpoint, its nodes are  *)
(* their prefixes, and a handler is known by its method and pattern.       *)
(* Parameters are known by their position, their names are left out.       *)
(***************************************************************************)
EXTENDS Naturals, Sequences, SequencesExt, FiniteSets

CONSTANTS RouteMethods,    \* methods routes are registered for
          RequestMethods,  \* methods requests come with
          AnyMethod,       \* anyMethod
          Texts,           \* segments of patterns and of requests
          Empty,           \* the empty segment
          MaxDepth,        \* bound: segments of a pattern or a path
          MaxRoutes,       \* bound: routes that are registered
          None             \* no endpoint

Methods == RouteMethods \cup RequestMethods \cup {AnyMethod}

Static(text) == [kind |-> "static", text |-> text]

Parameter == [kind |-> "parameter", text |-> Empty]

Wildcard == [kind |-> "wildcard", text |-> Empty]

Segments == {Static(text) : text \in Texts} \cup {Parameter, Wildcard}

\* splitRoutePath: there is no single empty segment, that is "/".
Paths == BoundedSeq(Texts, MaxDepth) \ {<<Empty>>}

\* parseRoutePattern: a wildcard is terminal.
Patterns ==
  {p \in BoundedSeq(Segments, MaxDepth) \ {<<Static(Empty)>>} :
     \A i \in DOMAIN p : p[i] = Wildcard => i = Len(p)}

ASSUME RouterAssumption ==
  /\ AnyMethod \notin RequestMethods
  /\ Empty \in Texts
  /\ MaxDepth \in Nat /\ MaxRoutes \in Nat
  /\ None \notin Patterns /\ None \notin Methods \X Patterns

VARIABLES routes,  \* the patterns of each method that have an endpoint
          frozen

RouterInit ==
  /\ routes = [m \in Methods |-> {}]
  /\ frozen = FALSE

-----------------------------------------------------------------------------
(* Registration.  An error leaves the tree as it was.                      *)

Registered == {r \in Methods \X Patterns : r[2] \in routes[r[1]]}

Register(m, p) ==
  /\ ~ frozen
  /\ p \notin routes[m]
  /\ Cardinality(Registered) < MaxRoutes
  /\ routes' = [routes EXCEPT ![m] = @ \cup {p}]
  /\ UNCHANGED frozen

Freeze ==
  /\ ~ frozen
  /\ \E m \in Methods : routes[m] # {}
  /\ frozen' = TRUE
  /\ UNCHANGED routes

-----------------------------------------------------------------------------
(* Lookup                                                                  *)

Nodes(m) == UNION {{SubSeq(p, 1, i) : i \in 0 .. Len(p)} : p \in routes[m]}

\* Mutant: the first child that fits is never given up.
MatchWithoutBacktracking(m, path) ==
  LET match[node \in Nodes(m)] ==
        LET segment == path[Len(node) + 1]
            Child(s) == Append(node, s)
        IN  CASE Len(node) = Len(path) ->
                   IF node \in routes[m] THEN node ELSE None
              [] Len(node) # Len(path) /\ Child(Static(segment)) \in Nodes(m) ->
                   match[Child(Static(segment))]
              [] Len(node) # Len(path) /\ Child(Static(segment)) \notin Nodes(m)
                   /\ segment # Empty /\ Child(Parameter) \in Nodes(m) ->
                   match[Child(Parameter)]
              [] OTHER -> IF Child(Wildcard) \in routes[m] THEN Child(Wildcard) ELSE None
  IN  IF routes[m] = {} THEN None ELSE match[<<>>]

\* matchRoute: the endpoint's pattern.  At every node the static child is
\* tried first, then the parameter, then the wildcard.
matchRoute(m, path) ==
  LET match[node \in Nodes(m)] ==
        LET segment == path[Len(node) + 1]
            Child(s) == Append(node, s)
            Below(s) == IF Child(s) \in Nodes(m) THEN match[Child(s)] ELSE None
        IN  IF Len(node) = Len(path)
            THEN IF node \in routes[m] THEN node ELSE None
            ELSE IF Below(Static(segment)) # None THEN Below(Static(segment))
            ELSE IF segment # Empty /\ Below(Parameter) # None THEN Below(Parameter)
            ELSE IF Child(Wildcard) \in routes[m] THEN Child(Wildcard)
            ELSE None
  IN  IF routes[m] = {} THEN None ELSE match[<<>>]

\* The handler, or the methods to allow: those of a 405, none of a 404.
Lookup(m, path) ==
  LET Handler(n) == [handler |-> <<n, matchRoute(n, path)>>, allowed |-> {}]
  IN  IF ~ frozen THEN [handler |-> None, allowed |-> {}]
      ELSE IF matchRoute(m, path) # None THEN Handler(m)
      ELSE IF matchRoute(AnyMethod, path) # None THEN Handler(AnyMethod)
      ELSE [handler |-> None,
            allowed |-> {n \in Methods \ {m, AnyMethod} : matchRoute(n, path) # None}]

-----------------------------------------------------------------------------
(* What a route means, without a tree                                      *)

Fits(segment, text) ==
  CASE segment.kind = "static"    -> segment.text = text
    [] segment.kind = "parameter" -> text # Empty
    [] segment.kind = "wildcard"  -> TRUE

Matches(p, path) ==
  /\ \A i \in DOMAIN p : i \in DOMAIN path /\ Fits(p[i], path[i])
  /\ Len(p) = Len(path) \/ (p # <<>> /\ Last(p) = Wildcard)

Rank(segment) == CASE segment.kind = "static" -> 0
                   [] segment.kind = "parameter" -> 1
                   [] segment.kind = "wildcard" -> 2

\* Two patterns that match a path differ first in the kind of a segment.
MoreSpecific(p, q) ==
  \E i \in DOMAIN p \cap DOMAIN q :
    /\ Rank(p[i]) < Rank(q[i])
    /\ \A j \in 1 .. i - 1 : p[j] = q[j]

Candidates(m, path) == {p \in routes[m] : Matches(p, path)}

IsBest(p, m, path) ==
  /\ p \in Candidates(m, path)
  /\ \A q \in Candidates(m, path) \ {p} : MoreSpecific(p, q)

RightResolution(m, path, resolution) ==
  LET found == {n \in {m, AnyMethod} : Candidates(n, path) # {}}
  IN  IF found # {}
      THEN LET n == IF m \in found THEN m ELSE AnyMethod
           IN  /\ resolution.handler # None /\ resolution.handler[1] = n
               /\ IsBest(resolution.handler[2], n, path)
      ELSE /\ resolution.handler = None
           /\ resolution.allowed = {n \in Methods \ {m, AnyMethod} : Candidates(n, path) # {}}
=============================================================================

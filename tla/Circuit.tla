------------------------------ MODULE Circuit ------------------------------
(***************************************************************************)
(* What one backend's circuit breaker promises to everybody who looks at   *)
(* it (README.md, "Resilience core"):                                      *)
(*                                                                         *)
(*     closed -> open -> half-open -> closed/open                          *)
(*                                                                         *)
(* An open circuit stays open for its cooldown.  Elapsed time takes it to  *)
(* half-open and no further: it closes only on the last of                 *)
(* HalfOpenSuccesses successes, all reported since it became half-open.    *)
(* Who reports, and how reports are serialised, is left to the             *)
(* implementation (module Backend).                                        *)
(***************************************************************************)
EXTENDS Integers

CONSTANTS CircuitCooldown,    \* time an open circuit rejects everybody
          HalfOpenSuccesses,  \* successes that close a half-open circuit
          MaxClock            \* bound: the clock stops here

VARIABLES clock, circuit, openedAt, evidence

vars == <<clock, circuit, openedAt, evidence>>

NoTime == -1

Init == /\ clock = 0
        /\ circuit = "closed"
        /\ openedAt = NoTime
        /\ evidence = 0

Tick == /\ clock < MaxClock
        /\ clock' = clock + 1
        /\ UNCHANGED <<circuit, openedAt, evidence>>

\* The cooldown is measured from the time the reporter of the failure read,
\* which is at or before the present.
Open(from) == /\ circuit = from
              /\ circuit' = "open"
              /\ openedAt' \in 0 .. clock
              /\ evidence' = 0
              /\ UNCHANGED clock

Trip == Open("closed")

Reopen == Open("half-open")

Cool == /\ circuit = "open"
        /\ clock >= openedAt + CircuitCooldown
        /\ circuit' = "half-open"
        /\ evidence' = 0
        /\ UNCHANGED <<clock, openedAt>>

Probed == /\ circuit = "half-open"
          /\ evidence + 1 < HalfOpenSuccesses
          /\ evidence' = evidence + 1
          /\ UNCHANGED <<clock, circuit, openedAt>>

Recover == /\ circuit = "half-open"
           /\ evidence + 1 >= HalfOpenSuccesses
           /\ circuit' = "closed"
           /\ openedAt' = NoTime
           /\ evidence' = 0
           /\ UNCHANGED clock

Next == Tick \/ Trip \/ Reopen \/ Cool \/ Probed \/ Recover

Spec == Init /\ [][Next]_vars
=============================================================================

------------------------------ MODULE EdgeClock ------------------------------
(* What the parts of the edge of the APIs share: the clock of the processes, *)
(* and the bounds of a behaviour.                                            *)
EXTENDS Integers, FiniteSets

CONSTANTS
  None,     \* nothing
  Clients,  \* bound: requests at a time
  Micro,    \* units of time in a microsecond, the precision of timestamptz
  Patience, \* the deadline of a request (REQUEST_TIMEOUT)
  Plans     \* bounds: the part that is called, calls, time; the policy in force

Parts == {"limits", "cookies", "human", "players", "pipeline", "lists", "programs", "health", "callers",
          "blobs"}

ASSUME ClockAssumption ==
  /\ IsFiniteSet(Clients) /\ Micro \in Nat \ {0} /\ Patience \in Nat
  /\ \A p \in Plans : /\ p.part \in Parts /\ p.time \in Nat /\ p.calls \in Nat
                      /\ {p.policy.limit, p.policy.period} \subseteq Nat \ {0} /\ p.policy.burst \in Nat

VARIABLES plan, now, left
clock == <<plan, now, left>>

ClockInit == plan \in Plans /\ now = 0 /\ left = plan.calls

(* A call of this part arrives.                                             *)
Arrival(part) == plan.part = part /\ left > 0 /\ left' = left - 1 /\ UNCHANGED <<plan, now>>

(* Time passes while no request, started at one of the moments of since, is *)
(* older than its deadline.                                                 *)
Passes(since) ==
  /\ now < plan.time /\ \A t \in since : now + Micro <= t + Patience
  /\ now' = now + Micro /\ UNCHANGED <<plan, left>>
==============================================================================

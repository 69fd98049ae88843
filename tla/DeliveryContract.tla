-------------------------- MODULE DeliveryContract --------------------------
(***************************************************************************)
(* What the delivery of events promises a subscriber, without outbox,      *)
(* inbox, jobs, relays or crashes: a handler's effect takes place, and     *)
(* takes place again only when the first is older than the retention of    *)
(* marks; a subscriber that follows the latest state never goes back to an *)
(* older version of an aggregate.  Events.tla implements this.             *)
(***************************************************************************)
EXTENDS Naturals, Sequences

CONSTANTS
  Subscribers, Events, Aggregates,
  Latest,       \* subscribers of mode LatestState
  AggregateOf,  \* AggregateOf[e]: the aggregate of an event
  VersionOf,    \* VersionOf[e]: its version
  Retention     \* how long a mark of the inbox is kept

VARIABLES
  applied,  \* applied[s, e]: the times at which s applied e
  latest    \* latest[s, a]: the version of a that s applied last

vars == <<applied, latest>>

Init ==
  /\ applied = [p \in Subscribers \X Events |-> <<>>]
  /\ latest = [k \in Subscribers \X Aggregates |-> 0]

Last(h) == h[Len(h)]

Apply(s, e) ==
  LET h == applied'[<<s, e>>] IN
  /\ h # <<>>
  /\ applied' = [applied EXCEPT ![<<s, e>>] = Append(@, Last(h))]
  /\ applied[<<s, e>>] # <<>> => Last(applied[<<s, e>>]) + Retention < Last(h)
  /\ s \in Latest => latest[<<s, AggregateOf[e]>>] <= VersionOf[e]
  /\ latest' = [latest EXCEPT ![<<s, AggregateOf[e]>>] = VersionOf[e]]

Next == \E s \in Subscribers, e \in Events : Apply(s, e)

Spec == Init /\ [][Next]_vars
=============================================================================

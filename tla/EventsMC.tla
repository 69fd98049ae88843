------------------------------ MODULE EventsMC ------------------------------
(* An instance of Events for TLC: two releases of the worker side by side, *)
(* the newer one with a subscription the older (old and its twin) does not *)
(* know.                                                                   *)
EXTENDS Events

CONSTANTS old, twin, new, roster, stats, joined, left, e1, e2, team

TwoReleases == [w \in Workers |->
  {<<roster, joined>>, <<roster, left>>} \cup (IF w = new THEN {<<stats, left>>} ELSE {})]
Kinds == [e \in Events |-> IF e = e1 THEN joined ELSE left]
OneTeam == [e \in Events |-> team]
Plan(W, E, t, F, n) == [workers |-> W, events |-> E, time |-> t, faults |-> F, replays |-> n]
(* Two relays share the rows; an attempt dies half-way; a relay dies, or    *)
(* stops listening; marks and rows grow old under a replay; a batch fails.  *)
SixPlans ==
  {Plan({old, twin}, {e1, e2}, 1, {}, 0),
   Plan({new}, {e1, e2}, 1, {"crash"}, 0),
   Plan({old, new}, {e2}, 1, {"crash"}, 0),
   Plan({old, new}, {e2}, 1, {"ear"}, 0),
   Plan({new}, {e2}, 3, {}, 1),
   Plan({old}, {e1, e2}, 1, {"batch"}, 0)}
InOrder == [e \in Events |-> IF e = e1 THEN 1 ELSE 2]
=============================================================================

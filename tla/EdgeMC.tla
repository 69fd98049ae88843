------------------------------- MODULE EdgeMC -------------------------------
(* Instances of Edge for TLC: the part that is called, how often, for how   *)
(* long; four policies, two of them with an interval that is not a whole    *)
(* number of microseconds, one with an interval below the age of a request. *)
EXTENDS Edge, TLC

Policy(limit, period, burst) == [limit |-> limit, period |-> period, burst |-> burst]
Uneven == Policy(3, 15, 0)
Single == Policy(1, 12, 1)
Spread == Policy(2, 13, 3)
Brief  == Policy(1, 3, 1)
Plan(part, calls, time, policy) == [part |-> part, calls |-> calls, time |-> time, policy |-> policy]

AllPlans ==
  {Plan("limits", 5, 18, p) : p \in {Uneven, Single, Spread}} \cup
  {Plan("cookies", 3, 6, Single), Plan("cookies", 3, 6, Brief), Plan("human", 6, 12, Single),
   Plan("players", 2, 9, Single), Plan("players", 3, 3, Single),
   Plan("pipeline", 2, 9, Single),
   Plan("lists", 4, 3, Single),
   Plan("programs", 2, 21, Single), Plan("health", 5, 12, Single),
   Plan("callers", 2, 0, Single), Plan("blobs", 3, 0, Single)}
OneSolution == {Plan("human", 3, 12, Single)}
Symmetric == Permutations(Clients)
=============================================================================

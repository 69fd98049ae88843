---------------------------- MODULE StaffAccessMC ----------------------------
(* Instances of StaffAccess for TLC: what may be called, and for how long.  *)
EXTENDS StaffAccess, TLC

CONSTANTS i1, i2

Plan(start, calls, time, at, rotation) ==
  [start |-> start, time |-> time, instances |-> at, operator |-> i1, rotation |-> rotation,
   calls |-> [op \in Ops |-> IF op \in DOMAIN calls THEN calls[op] ELSE 0]]
Stale == Plan("active", [login |-> 2, verify |-> 2, password |-> 1, reset |-> 1, accept |-> 1, disable |-> 1, setup |-> 1], 1, {i1}, "none")
Locks == Plan("active", [unlock |-> 1, login |-> 2, verify |-> 2], 4, {i1}, "none")
Twice == Plan("active", [unlock |-> 3, regenerate |-> 1, others |-> 1, logout |-> 1], 3, {i1}, "none")
First == Plan("invited", [accept |-> 2, setup |-> 2, confirm |-> 2, ack |-> 2, resend |-> 1, disable |-> 1, reset |-> 1], 2, {i1}, "none")
Letters == Plan("invited", [resendself |-> 3, resend |-> 1, accept |-> 1], 5, {i1}, "none")
Rotate == Plan("active", [regenerate |-> 1, reset |-> 1, accept |-> 1, setup |-> 1, confirm |-> 1], 2, {i1, i2}, "careful")
Begins == Plan("invited", [accept |-> 1, setup |-> 2, confirm |-> 1], 2, {i1, i2}, "careful")
Lost == Plan("active", [unlock |-> 2, reset |-> 1, resendself |-> 1, accept |-> 1], 3, {i1}, "lost")
Elsewhere(p) == [p EXCEPT !.operator = i2]
Forgot == Elsewhere(Plan("active", [unlock |-> 1, reset |-> 2, accept |-> 1, setup |-> 1, resend |-> 1], 3, {i1}, "none"))
Forgotten == Elsewhere(Plan("invited", [accept |-> 1, setup |-> 1, confirm |-> 1, resend |-> 2, reset |-> 1], 3, {i1}, "none"))
AllPlans == {Forgot, Forgotten, Stale, Locks, Twice, First, Letters, Rotate, Begins, Lost}
OneTab == Permutations(Tabs)
==============================================================================

-------------------------- MODULE StaffApprovalsMC --------------------------
(* Instances of StaffApprovals for TLC: who is there and what may arrive.  *)
EXTENDS StaffApprovals, TLC

CONSTANTS r1, r2

Asked(op, who, target, to, r) == [op |-> op, who |-> who, target |-> target, to |-> to, req |-> r]
Answer(op, who, r) == Asked(op, who, NoOne, NoOne, r)
Acted(op, who, target) == Asked(op, who, target, NoOne, NoOne)

Start(roles, calls) == [roles |-> roles, calls |-> calls]

(* Two of three owners are to be demoted, each with the other's approval,  *)
(* while the operator resets one and the third, who asked, is locked out.  *)
DemotionCalls ==
  {Asked("role", 2, 1, "moderator", r1), Answer("approve", 3, r1),
   Asked("role", 2, 3, "moderator", r2), Answer("approve", 1, r2),
   Acted("opreset", System, 3), Acted("lockout", System, 2)}

(* An admin is disabled at once and invited again, an owner is to go, and  *)
(* the operator disables owners.                                           *)
ReturnCalls ==
  {Asked("disable", 2, 3, NoOne, r2), Asked("invite", 2, 3, "admin", r1), Answer("approve", 1, r1),
   Asked("disable", 2, 1, NoOne, r2), Answer("reject", 3, r2), Answer("cancel", 2, r2),
   Acted("opdisable", System, 1), Acted("opdisable", System, 2)}

(* Two owners close each other's sessions while one of them is demoted.    *)
CrossedCalls ==
  {Acted("sessions", 1, 2), Acted("sessions", 2, 1),
   Asked("role", 2, 1, "moderator", r1), Answer("approve", 3, r1)}

(* An owner is to be demoted while approving an invitation.                *)
StaleCalls ==
  {Asked("role", 2, 1, "moderator", r1), Answer("approve", 3, r1),
   Asked("invite", 2, 4, "admin", r2), Answer("approve", 1, r2)}

(* The operator disables one owner and resets the other.                   *)
OperatorCalls == {Acted("opdisable", System, 1), Acted("opreset", System, 2)}

ThreeOwners == <<"owner", "owner", "owner">>
Demoted  == Start(ThreeOwners, DemotionCalls)
Returned == Start(<<"owner", "owner", "admin">>, ReturnCalls)
Crossed  == Start(ThreeOwners, CrossedCalls)
AllStarts == {Demoted, Returned, Crossed}
StaleStarts == {Start(<<"owner", "owner", "owner", NoOne>>, StaleCalls)}
OperatorStarts == {Start(<<"owner", "owner">>, OperatorCalls)}

(* Without the count of events, which limits nothing when MaxEnv is at     *)
(* least three times the number of calls.                                  *)
NoCount == <<now, reqs, lock, call, staged, journal, staffVars>>
=============================================================================

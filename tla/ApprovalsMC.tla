---------------------------- MODULE ApprovalsMC ----------------------------
(* Instances of Approvals for TLC.                                         *)
EXTENDS Approvals, TLC

(* Employees and connections are interchangeable (safety runs only).       *)
Symmetric == Permutations(Staff) \cup Permutations(Workers)
=============================================================================

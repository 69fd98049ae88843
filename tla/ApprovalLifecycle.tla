------------------------- MODULE ApprovalLifecycle -------------------------
(***************************************************************************)
(* What the two-person approval service promises, without transactions,   *)
(* locks, clocks or retries: a request is asked for once, is settled once  *)
(* by someone entitled to settle it, and is forgotten only after that.     *)
(* Approvals.tla implements this specification.                            *)
(***************************************************************************)
EXTENDS FiniteSets

CONSTANTS
  Requests,   \* identifiers of requests, never reused
  Staff,      \* employees
  NoOne,      \* "no target" and "not decided"
  System      \* the decider of expiry and of cancellation by the system

VARIABLE row  \* row[r]: what the outside world knows of request r

Settled  == {"executed", "rejected", "cancelled", "expired", "failed"}
Verdicts == [status : Settled, decider : Staff \cup {System}]

Row == [status : {"absent", "pending", "purged"} \cup Settled,
        by : Staff \cup {NoOne}, target : Staff \cup {NoOne},
        decider : Staff \cup {System, NoOne}]

Absent == [status |-> "absent", by |-> NoOne, target |-> NoOne, decider |-> NoOne]

(***************************************************************************)
(* Who may give which verdict.  Execution, its business failure and a      *)
(* rejection need a second pair of hands.                                  *)
(***************************************************************************)
Entitled(q, v) ==
  CASE v.status \in {"executed", "failed", "rejected"} ->
         v.decider \in Staff \ {q.by, q.target}
    [] v.status = "cancelled" -> v.decider \in {q.by, System}
    [] v.status = "expired"   -> v.decider = System

Init == row = [r \in Requests |-> Absent]

Ask(r, s, t) ==
  /\ row[r].status = "absent"
  /\ row' = [row EXCEPT ![r] = [status |-> "pending", by |-> s, target |-> t,
                                decider |-> NoOne]]

(* Request r gets its verdict from someone entitled to give it.            *)
Settles(r) ==
  /\ row[r].status = "pending"
  /\ \E v \in Verdicts :
       /\ Entitled(row[r], v)
       /\ row'[r] = [status |-> v.status, by |-> row[r].by, target |-> row[r].target,
                     decider |-> v.decider]

(* One transaction may settle several requests: a batch of overdue ones,   *)
(* or all those of an initiator who was switched off.                      *)
Settle(R) ==
  /\ row' \in [Requests -> Row]
  /\ \A r \in R : Settles(r)
  /\ \A r \in Requests \ R : row'[r] = row[r]

(* Settled requests are forgotten in batches, and only settled ones.        *)
Forget(R) ==
  /\ \A r \in R : row[r].status \in Settled
  /\ row' = [r \in Requests |->
               IF r \in R THEN [row[r] EXCEPT !.status = "purged"] ELSE row[r]]

Next ==
  \/ \E r \in Requests, s \in Staff, t \in Staff \cup {NoOne} : Ask(r, s, t)
  \/ \E R \in SUBSET Requests : Settle(R)
  \/ \E R \in SUBSET Requests : Forget(R)

Spec == Init /\ [][Next]_row
=============================================================================

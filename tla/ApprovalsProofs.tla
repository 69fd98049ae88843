-------------------------- MODULE ApprovalsProofs --------------------------
(***************************************************************************)
(* Theorems about Approvals for every number of requests, employees and    *)
(* connections and every value of the time constants.                      *)
(*                                                                         *)
(* TwoHands and DecidedOnce speak of committed rows, but a row is written  *)
(* by a Commit that knows nothing of the checks made when the row was      *)
(* locked.  The invariant carries what the checks established: while the   *)
(* approval is under way (Judging), and in the verdict that is staged      *)
(* (StagedRight), which by OneDecider is the only one for its row.         *)
(***************************************************************************)
EXTENDS Approvals, TLAPS

(* A call that locked a row holds it; one that passed the checks is made   *)
(* by a second person and the request is still pending.                    *)
Judging ==
  \A w \in Workers :
    /\ call[w].pc \in {"locked", "check", "exec"} =>
         call[w].req \in Requests /\ call[w].who \in Staff /\ call[w].op \in Ops
         /\ lock[call[w].req] = w
    /\ call[w].pc \in {"check", "exec"} =>
         Pending(call[w].req)
         /\ call[w].who \notin {reqs[call[w].req].by, reqs[call[w].req].target}

(* The verdict d may be given on the row q.                                *)
Right(q, d) ==
  /\ d.status \in {"executed", "rejected", "failed"} => d.decider \in Staff \ {q.by, q.target}
  /\ d.status = "cancelled" => d.decider \in {q.by, System}
  /\ d.status = "expired" => d.decider = System /\ d.at = q.expires /\ q.expires <= now

StagedRight ==
  \A w \in Workers, r \in Requests : staged[w][r] # NoOne => Right(reqs[r], staged[w][r])

(* The settled rows were given their verdicts rightly.                     *)
RowsRight ==
  \A r \in Requests : reqs[r].status \in Settled => Right(reqs[r], reqs[r])

Rest == OneDecider /\ Judging /\ StagedRight /\ RowsRight /\ DecidedOnce
Inv == TypeOK /\ Rest

----------------------------------------------------------------------------
(* A verdict of this moment is a decision, and so is a lapse.              *)
LEMMA VerdictType ==
  ASSUME now \in Nat, NEW st \in Settled, NEW s \in Staff \cup {System}
  PROVE  Verdict(st, s) \in Decision
BY DEF Verdict, Decision

LEMMA LapsedType ==
  ASSUME TypeOK, NEW r \in Requests
  PROVE  Lapsed(r) \in Decision
BY DEF Lapsed, Decision, TypeOK, Row, Settled

(* Moving a call on, staging one verdict or ending a transaction keeps the types.            *)
LEMMA StepType ==
  ASSUME TypeOK, NEW w \in Workers, NEW pc \in Pcs, Step(w, pc)
  PROVE  call' \in [Workers -> Call]
<1>1. [call[w] EXCEPT !.pc = pc] \in Call
  <2>1. call[w] \in Call
    BY DEF TypeOK
  <2> QED BY <2>1 DEF Call, Pcs
<1>2. call' = [call EXCEPT ![w] = [call[w] EXCEPT !.pc = pc]]
  BY DEF Step
<1> QED BY <1>1, <1>2 DEF TypeOK

LEMMA DecideType ==
  ASSUME TypeOK, NEW w \in Workers, NEW r \in Requests, NEW d \in Decision, Decide(w, r, d)
  PROVE  /\ staged' \in [Workers -> [Requests -> Decision \cup {NoOne}]]
         /\ call' \in [Workers -> Call]
BY StepType DEF TypeOK, Decide, Pcs

LEMMA EndTxType ==
  ASSUME TypeOK, NEW w \in Workers, EndTx(w)
  PROVE  /\ lock' \in [Requests -> Workers \cup {NoOne}]
         /\ staged' \in [Workers -> [Requests -> Decision \cup {NoOne}]]
         /\ call' \in [Workers -> Call]
BY DEF TypeOK, EndTx, Nothing, Idle, Call, Pcs

(* Every step keeps the types.  Judging is needed for the rows the calls   *)
(* name: an idle connection names none.                                    *)
LEMMA TypeStep ==
  ASSUME TypeOK, Judging, [Next]_vars
  PROVE  TypeOK'
<1> USE ApprovalsAssumption
<1>1. CASE Tick
  BY <1>1 DEF TypeOK, Tick
<1>2. ASSUME NEW r \in Requests, NEW s \in Staff, NEW t \in Staff \cup {NoOne}, Request(r, s, t)
      PROVE  TypeOK'
  BY <1>2 DEF TypeOK, Request, Row
<1>3. ASSUME NEW w \in Workers, NEW op \in Ops, NEW s \in Staff, NEW r \in Requests,
             NEW may \in BOOLEAN, LockApproval(w, op, s, r, may)
      PROVE  TypeOK'
  BY <1>3 DEF TypeOK, LockApproval, Budget, Call, Pcs
<1>4. ASSUME NEW w \in Workers, NEW s \in Staff, CancelByInitiator(w, s)
      PROVE  TypeOK'
  <2>1. Verdict("cancelled", System) \in Decision
    BY VerdictType DEF TypeOK, Settled
  <2>2. lock' \in [Requests -> Workers \cup {NoOne}] /\ call' \in [Workers -> Call]
    BY <1>4, StepType DEF TypeOK, CancelByInitiator, Pcs
  <2>3. staged' \in [Workers -> [Requests -> Decision \cup {NoOne}]]
    BY <1>4, <2>1 DEF TypeOK, CancelByInitiator
  <2> QED BY <1>4, <2>2, <2>3 DEF TypeOK, CancelByInitiator, Budget
<1>5. ASSUME NEW w \in Workers, Refuse(w) PROVE TypeOK'
  BY <1>5, EndTxType DEF TypeOK, Refuse
<1>6. ASSUME NEW w \in Workers, Overdue(w) PROVE TypeOK'
  <2>1. call[w].req \in Requests
    BY <1>6 DEF Judging, Overdue
  <2> QED BY <1>6, <2>1, LapsedType, DecideType DEF TypeOK, Overdue
<1>7. ASSUME NEW w \in Workers, Accept(w) PROVE TypeOK'
  <2>1. call[w].req \in Requests /\ call[w].who \in Staff /\ call[w].op \in Ops \cup {NoOne}
    BY <1>7 DEF Judging, Accept, TypeOK, Call
  <2>2. /\ Verdict("rejected", call[w].who) \in Decision
        /\ Verdict("cancelled", call[w].who) \in Decision
    BY <2>1, VerdictType DEF TypeOK, Settled
  <2>3. staged' \in [Workers -> [Requests -> Decision \cup {NoOne}]] /\ call' \in [Workers -> Call]
    <3>1. CASE Step(w, "check") /\ UNCHANGED staged
      BY <3>1, StepType DEF TypeOK, Pcs
    <3>2. CASE Decide(w, call[w].req, Verdict("rejected", call[w].who))
      BY <2>1, <2>2, <3>2, DecideType
    <3>3. CASE Decide(w, call[w].req, Verdict("cancelled", call[w].who))
      BY <2>1, <2>2, <3>3, DecideType
    <3>4. call[w].op \in Ops
      BY <1>7 DEF Judging, Accept
    <3> QED BY <1>7, <3>1, <3>2, <3>3, <3>4 DEF Accept, Ops
  <2> QED BY <1>7, <2>3 DEF TypeOK, Accept
<1>8. ASSUME NEW w \in Workers, CheckInitiator(w) PROVE TypeOK'
  <2>1. call[w].req \in Requests /\ Verdict("failed", call[w].who) \in Decision
    BY <1>8, VerdictType DEF Judging, CheckInitiator, TypeOK, Settled
  <2>2. CASE Step(w, "exec") /\ UNCHANGED staged
    BY <1>8, <2>2, StepType DEF TypeOK, CheckInitiator, Pcs
  <2>3. CASE Decide(w, call[w].req, Verdict("failed", call[w].who))
    BY <1>8, <2>1, <2>3, DecideType DEF TypeOK, CheckInitiator
  <2> QED BY <1>8, <2>2, <2>3 DEF CheckInitiator
<1>9. ASSUME NEW w \in Workers, Exec(w) PROVE TypeOK'
  <2>1. call[w].req \in Requests /\ Verdict("executed", call[w].who) \in Decision
    BY <1>9, VerdictType DEF Judging, Exec, TypeOK, Settled
  <2> QED BY <1>9, <2>1, DecideType DEF TypeOK, Exec
<1>10. ASSUME NEW w \in Workers, ExecRefused(w) PROVE TypeOK'
  <2>1. call[w].req \in Requests /\ Verdict("failed", call[w].who) \in Decision
    BY <1>10, VerdictType DEF Judging, ExecRefused, TypeOK, Settled
  <2> QED BY <1>10, <2>1, StepType DEF TypeOK, ExecRefused, Nothing, Pcs
<1>11. ASSUME NEW w \in Workers, DecideFails(w) PROVE TypeOK'
  BY <1>11, EndTxType DEF TypeOK, DecideFails
<1>12. ASSUME NEW w \in Workers, Commit(w) PROVE TypeOK'
  <2>1. reqs' \in [Requests -> Row]
    <3>1. ASSUME NEW r \in Requests, staged[w][r] # NoOne
          PROVE  Apply(reqs[r], staged[w][r]) \in Row
      <4>1. staged[w][r] \in Decision /\ reqs[r] \in Row
        BY <3>1 DEF TypeOK
      <4> QED BY <4>1 DEF Apply, Row, Decision
    <3> QED BY <1>12, <3>1 DEF TypeOK, Commit, Decided
  <2>2. journal' \in [Requests -> Seq(Decision)]
    BY <1>12 DEF TypeOK, Commit, Decided
  <2> QED BY <1>12, <2>1, <2>2, EndTxType DEF TypeOK, Commit
<1>13. ASSUME NEW w \in Workers, ExpireDue(w) PROVE TypeOK'
  <2>1. PICK t \in 0..now : \E B \in SUBSET (Due(t) \cap Takeable(w)) :
          /\ lock' = [r \in Requests |-> IF r \in B THEN w ELSE lock[r]]
          /\ staged' = [staged EXCEPT ![w] =
               [r \in Requests |-> IF r \in B THEN Lapsed(r) ELSE NoOne]]
    BY <1>13 DEF ExpireDue
  <2>2. lock' \in [Requests -> Workers \cup {NoOne}]
    BY <2>1 DEF TypeOK
  <2>3. staged' \in [Workers -> [Requests -> Decision \cup {NoOne}]]
    BY <2>1, LapsedType DEF TypeOK
  <2> QED BY <1>13, <2>2, <2>3, StepType DEF TypeOK, ExpireDue, Pcs
<1>14. ASSUME NEW w \in Workers, Rollback(w) PROVE TypeOK'
  BY <1>14, EndTxType DEF TypeOK, Rollback, Budget
<1>15. CASE PurgeDecided
  <2>1. ASSUME NEW r \in Requests PROVE [reqs[r] EXCEPT !.status = "purged"] \in Row
    <3>1. reqs[r] \in Row
      BY DEF TypeOK
    <3> QED BY <3>1 DEF Row
  <2>2. reqs' \in [Requests -> Row]
    BY <1>15, <2>1 DEF TypeOK, PurgeDecided
  <2> QED BY <1>15, <2>2 DEF TypeOK, PurgeDecided
<1>16. CASE UNCHANGED vars
  BY <1>16 DEF TypeOK, vars
<1> QED BY <1>1, <1>2, <1>3, <1>4, <1>5, <1>6, <1>7, <1>8, <1>9, <1>10, <1>11, <1>12, <1>13,
           <1>14, <1>15, <1>16 DEF Next, Progress

----------------------------------------------------------------------------
(* What leaves rows and journal alone keeps the invariants about them.     *)
LEMMA RowsFrame ==
  ASSUME TypeOK, Rest, UNCHANGED <<reqs, journal>>, now' = now \/ now' = now + 1
  PROVE  RowsRight' /\ DecidedOnce'
<1>1. RowsRight'
  BY DEF Rest, RowsRight, Right, TypeOK, Row
<1>2. DecidedOnce'
  BY DEF Rest, DecidedOnce
<1> QED BY <1>1, <1>2

(* A transaction that ends without a commit.                               *)
LEMMA EndTxKeeps ==
  ASSUME TypeOK, Rest, NEW w \in Workers, EndTx(w), UNCHANGED <<now, reqs, journal>>
  PROVE  Rest'
<1>1. OneDecider'
  BY DEF Rest, OneDecider, EndTx, TypeOK, Nothing, Pending
<1>2. Judging'
  BY DEF Rest, Judging, EndTx, TypeOK, Idle, Pending
<1>3. StagedRight'
  BY DEF Rest, StagedRight, EndTx, TypeOK, Nothing, Right
<1> QED BY <1>1, <1>2, <1>3, RowsFrame DEF Rest

(* A transaction that stages a rightful verdict on the row it holds.       *)
LEMMA DecideKeeps ==
  ASSUME TypeOK, Rest, NEW w \in Workers, NEW r \in Requests, NEW d, Decide(w, r, d),
         lock[r] = w, Pending(r), Right(reqs[r], d), UNCHANGED <<now, reqs, lock, journal>>
  PROVE  Rest'
<1>1. OneDecider'
  BY DEF Rest, OneDecider, Decide, TypeOK, Pending
<1>2. Judging'
  BY DEF Rest, Judging, Decide, Step, TypeOK, Pending
<1>3. StagedRight'
  BY DEF Rest, StagedRight, Decide, TypeOK, Right
<1> QED BY <1>1, <1>2, <1>3, RowsFrame DEF Rest

(* A commit settles its rows by rightful verdicts, once each, and touches  *)
(* no row that another transaction judges or has a verdict on.             *)
LEMMA CommitKeeps ==
  ASSUME TypeOK, Rest, NEW w \in Workers, Commit(w)
  PROVE  Rest'
<1>1. ASSUME NEW r \in Requests, lock[r] # w
      PROVE  reqs'[r] = reqs[r] /\ journal'[r] = journal[r]
  BY <1>1 DEF Commit, Decided, Rest, OneDecider, TypeOK
<1>2. ASSUME NEW v \in Workers, v # w
      PROVE  call'[v] = call[v] /\ staged'[v] = staged[v]
  BY <1>2 DEF Commit, EndTx, TypeOK
<1>3. call'[w] = Idle /\ \A r \in Requests : staged'[w][r] = NoOne
  BY DEF Commit, EndTx, TypeOK, Nothing
<1>4. \A r \in Requests : lock[r] # w => lock'[r] = lock[r]
  BY DEF Commit, EndTx, TypeOK
<1>5. OneDecider'
  BY <1>1, <1>2, <1>3, <1>4 DEF Rest, OneDecider, Pending
<1>6. Judging'
  BY <1>1, <1>2, <1>3, <1>4 DEF Rest, Judging, Pending, Idle
<1>7. now' = now
  BY DEF Commit
<1>8. StagedRight'
  BY <1>1, <1>2, <1>3, <1>7 DEF Rest, OneDecider, StagedRight, Right
<1>9. ASSUME NEW r \in Requests, staged[w][r] # NoOne
      PROVE  /\ reqs'[r] = Apply(reqs[r], staged[w][r])
             /\ journal'[r] = <<staged[w][r]>>
             /\ staged[w][r] \in Decision
             /\ reqs[r] \in Row
  <2>1. staged[w][r] \in Decision /\ reqs[r] \in Row
    BY <1>9 DEF TypeOK
  <2>2. journal[r] = <<>>
    BY <1>9 DEF Rest, OneDecider, DecidedOnce, Pending
  <2> QED BY <1>9, <2>1, <2>2 DEF Commit, Decided, TypeOK
<1>10. ASSUME NEW r \in Requests, staged[w][r] = NoOne
       PROVE  reqs'[r] = reqs[r] /\ journal'[r] = journal[r]
  BY <1>10 DEF Commit, Decided, TypeOK
<1>11. RowsRight'
  <2>1. ASSUME NEW r \in Requests, staged[w][r] # NoOne
        PROVE  Right(reqs[r], reqs[r])'
    <3>1. Right(reqs[r], staged[w][r])
      BY <2>1 DEF Rest, StagedRight
    <3>2. /\ reqs'[r].status = staged[w][r].status /\ reqs'[r].decider = staged[w][r].decider
          /\ reqs'[r].at = staged[w][r].at /\ reqs'[r].by = reqs[r].by
          /\ reqs'[r].target = reqs[r].target /\ reqs'[r].expires = reqs[r].expires
      BY <1>9, <2>1 DEF Apply, Row
    <3> QED BY <1>7, <3>1, <3>2 DEF Right
  <2>2. ASSUME NEW r \in Requests, staged[w][r] = NoOne, reqs'[r].status \in Settled
        PROVE  Right(reqs[r], reqs[r])'
    BY <1>7, <1>10, <2>2 DEF Rest, RowsRight, Right
  <2> QED BY <2>1, <2>2 DEF RowsRight, Settled
<1>12. DecidedOnce'
  <2>1. ASSUME NEW r \in Requests, staged[w][r] # NoOne
        PROVE  /\ reqs'[r].status \in Settled
               /\ journal'[r] = <<[status |-> reqs'[r].status,
                                   decider |-> reqs'[r].decider, at |-> reqs'[r].at]>>
    <3>1. /\ reqs'[r].status = staged[w][r].status /\ reqs'[r].decider = staged[w][r].decider
          /\ reqs'[r].at = staged[w][r].at
      BY <1>9, <2>1 DEF Apply, Row
    <3>2. staged[w][r] = [status |-> staged[w][r].status, decider |-> staged[w][r].decider,
                          at |-> staged[w][r].at]
          /\ staged[w][r].status \in Settled
      BY <1>9, <2>1 DEF Decision
    <3> QED BY <1>9, <2>1, <3>1, <3>2
  <2> QED BY <1>10, <2>1 DEF Rest, DecidedOnce, Settled
<1> QED BY <1>5, <1>6, <1>8, <1>11, <1>12 DEF Rest

----------------------------------------------------------------------------
(* Every step keeps the invariant.                                         *)
LEMMA RestStep ==
  ASSUME TypeOK, Rest, [Next]_vars
  PROVE  Rest'
<1> USE ApprovalsAssumption
<1>1. CASE Tick
  <2>1. OneDecider' /\ Judging'
    BY <1>1 DEF Tick, Rest, OneDecider, Judging, Pending
  <2>2. StagedRight'
    BY <1>1 DEF Tick, Rest, OneDecider, StagedRight, Right, TypeOK, Row
  <2> QED BY <1>1, <2>1, <2>2, RowsFrame DEF Tick, Rest
<1>2. ASSUME NEW r \in Requests, NEW s \in Staff, NEW t \in Staff \cup {NoOne}, Request(r, s, t)
      PROVE  Rest'
  <2>1. \A q \in Requests : q # r => reqs'[q] = reqs[q]
    BY <1>2 DEF Request, TypeOK
  <2>2. reqs[r].status = "absent" /\ reqs'[r].status = "pending"
    BY <1>2 DEF Request, TypeOK
  <2>3. UNCHANGED <<now, lock, call, staged, journal>>
    BY <1>2 DEF Request
  <2>4. \A w \in Workers : staged[w][r] = NoOne
    BY <2>2 DEF Rest, OneDecider, Pending
  <2>5. OneDecider' /\ Judging'
    BY <2>1, <2>2, <2>3, <2>4 DEF Rest, OneDecider, Judging, Pending
  <2>6. StagedRight'
    BY <2>1, <2>3, <2>4 DEF Rest, StagedRight, Right
  <2>7. RowsRight' /\ DecidedOnce'
    <3>1. RowsRight'
      BY <2>1, <2>2, <2>3 DEF Rest, RowsRight, Right, Settled
    <3>2. journal'[r] = <<>>
      BY <2>2, <2>3 DEF Rest, DecidedOnce
    <3>3. \A q \in Requests : q # r => journal'[q] = journal[q] /\ reqs'[q] = reqs[q]
      BY <2>1, <2>3
    <3>4. DecidedOnce'
      BY <2>2, <3>2, <3>3 DEF Rest, DecidedOnce
    <3> QED BY <3>1, <3>4
  <2> QED BY <2>5, <2>6, <2>7 DEF Rest
<1>3. ASSUME NEW w \in Workers, NEW op \in Ops, NEW s \in Staff, NEW r \in Requests,
             NEW may \in BOOLEAN, LockApproval(w, op, s, r, may)
      PROVE  Rest'
  <2>1. OneDecider'
    BY <1>3 DEF LockApproval, Rest, OneDecider, TypeOK, Pending
  <2>2. Judging'
    BY <1>3 DEF LockApproval, Rest, Judging, TypeOK, Pending
  <2>3. StagedRight'
    BY <1>3 DEF LockApproval, Rest, StagedRight, Right
  <2> QED BY <1>3, <2>1, <2>2, <2>3, RowsFrame DEF LockApproval, Rest
<1>4. ASSUME NEW w \in Workers, NEW s \in Staff, CancelByInitiator(w, s)
      PROVE  Rest'
  <2> DEFINE R == {r \in Takeable(w) : Pending(r) /\ reqs[r].by = s /\ staged[w][r] = NoOne}
  <2>1. /\ \A v \in Workers, r \in Requests :
             v # w \/ r \notin R => staged'[v][r] = staged[v][r]
        /\ \A r \in R : staged'[w][r] = Verdict("cancelled", System)
    BY <1>4 DEF CancelByInitiator, TypeOK, Takeable
  <2>2. /\ \A r \in Requests \ R : lock'[r] = lock[r]
        /\ \A r \in R : lock'[r] = w /\ lock[r] \in {NoOne, w} /\ Pending(r) /\ r \in Requests
    BY <1>4 DEF CancelByInitiator, Takeable
  <2>3. UNCHANGED <<now, reqs, journal>>
    BY <1>4 DEF CancelByInitiator
  <2>4. /\ \A v \in Workers : v # w => call'[v] = call[v]
        /\ call'[w] = [call[w] EXCEPT !.pc = IF call[w].pc = "idle" THEN "commit" ELSE "exec"]
        /\ call[w].pc \in {"idle", "exec"}
    BY <1>4 DEF CancelByInitiator, Step, TypeOK
  <2>5. NoOne \notin Workers
    BY DEF ApprovalsAssumption
  <2>6. OneDecider'
    BY <2>1, <2>2, <2>3, <2>5 DEF Rest, OneDecider, Pending
  <2>7. Judging'
    <3>1. ASSUME NEW v \in Workers, v # w
          PROVE  Judging!(v)'
      BY <2>2, <2>3, <2>4, <2>5, <3>1 DEF Rest, Judging, Pending
    <3>2. Judging!(w)'
      BY <2>2, <2>3, <2>4 DEF Rest, Judging, Pending, TypeOK, Call
    <3> QED BY <3>1, <3>2 DEF Judging
  <2>8. StagedRight'
    <3>2. ASSUME NEW v \in Workers, NEW r \in Requests, v # w \/ r \notin R,
                 staged'[v][r] # NoOne
          PROVE  Right(reqs[r], staged[v][r])'
      BY <2>1, <2>3, <3>2 DEF Rest, StagedRight, Right
    <3>3. ASSUME NEW r \in R
          PROVE  Right(reqs[r], staged[w][r])'
      <4>1. staged'[w][r] = Verdict("cancelled", System)
        BY <2>1
      <4> QED BY <4>1 DEF Right, Verdict
    <3> HIDE DEF R
    <3> QED BY <3>2, <3>3 DEF StagedRight
  <2> QED BY <2>3, <2>6, <2>7, <2>8, RowsFrame DEF Rest
<1>5. ASSUME NEW w \in Workers, Refuse(w) PROVE Rest'
  BY <1>5, EndTxKeeps DEF Refuse
<1>6. ASSUME NEW w \in Workers, Overdue(w) PROVE Rest'
  <2>1. call[w].req \in Requests /\ lock[call[w].req] = w /\ Pending(call[w].req)
    BY <1>6 DEF Rest, Judging, Overdue
  <2>2. Right(reqs[call[w].req], Lapsed(call[w].req))
    BY <1>6, <2>1 DEF Right, Lapsed, Overdue, Expired, TypeOK, Row
  <2> QED BY <1>6, <2>1, <2>2, DecideKeeps DEF Overdue
<1>7. ASSUME NEW w \in Workers, Accept(w) PROVE Rest'
  <2>1. /\ call[w].req \in Requests /\ call[w].who \in Staff /\ call[w].op \in Ops
        /\ lock[call[w].req] = w /\ Pending(call[w].req) /\ Entitled(call[w])
    BY <1>7 DEF Rest, Judging, Accept
  <2>2. CASE call[w].op = "approve"
    <3>1. Step(w, "check") /\ UNCHANGED <<now, reqs, lock, staged, journal>>
      BY <1>7, <2>2 DEF Accept
    <3>2. OneDecider' /\ StagedRight'
      BY <3>1 DEF Rest, OneDecider, StagedRight, Pending, Right
    <3>3. Judging'
      BY <2>1, <2>2, <3>1 DEF Rest, Judging, Pending, Step, TypeOK, Call, Entitled
    <3> QED BY <3>1, <3>2, <3>3, RowsFrame DEF Rest
  <2>3. CASE call[w].op = "reject"
    <3>1. Decide(w, call[w].req, Verdict("rejected", call[w].who))
      BY <1>7, <2>3 DEF Accept
    <3>2. Right(reqs[call[w].req], Verdict("rejected", call[w].who))
      BY <2>1, <2>3 DEF Right, Verdict, Entitled
    <3> QED BY <1>7, <2>1, <3>1, <3>2, DecideKeeps DEF Accept
  <2>4. CASE call[w].op = "cancel"
    <3>1. Decide(w, call[w].req, Verdict("cancelled", call[w].who))
      BY <1>7, <2>4 DEF Accept
    <3>2. Right(reqs[call[w].req], Verdict("cancelled", call[w].who))
      BY <2>1, <2>4 DEF Right, Verdict, Entitled
    <3> QED BY <1>7, <2>1, <3>1, <3>2, DecideKeeps DEF Accept
  <2> QED BY <2>1, <2>2, <2>3, <2>4 DEF Ops
<1>8. ASSUME NEW w \in Workers, CheckInitiator(w) PROVE Rest'
  <2>1. /\ call[w].req \in Requests /\ call[w].who \in Staff
        /\ lock[call[w].req] = w /\ Pending(call[w].req)
        /\ call[w].who \notin {reqs[call[w].req].by, reqs[call[w].req].target}
    BY <1>8 DEF Rest, Judging, CheckInitiator
  <2>2. CASE Step(w, "exec") /\ UNCHANGED staged
    <3>1. UNCHANGED <<now, reqs, lock, staged, journal>>
      BY <1>8, <2>2 DEF CheckInitiator
    <3>2. OneDecider' /\ StagedRight'
      BY <3>1 DEF Rest, OneDecider, StagedRight, Pending, Right
    <3>3. Judging'
      <4>1. ASSUME NEW v \in Workers, v # w
            PROVE  Judging!(v)'
        BY <2>2, <3>1, <4>1 DEF Rest, Judging, Pending, Step, TypeOK
      <4>2. /\ call'[w].req = call[w].req /\ call'[w].who = call[w].who
            /\ call'[w].op = call[w].op /\ call[w].op \in Ops
        BY <1>8, <2>2 DEF CheckInitiator, Rest, Judging, Step, TypeOK, Call
      <4> QED BY <2>1, <3>1, <4>1, <4>2 DEF Judging, Pending
    <3> QED BY <3>1, <3>2, <3>3, RowsFrame DEF Rest
  <2>3. CASE Decide(w, call[w].req, Verdict("failed", call[w].who))
    <3>1. Right(reqs[call[w].req], Verdict("failed", call[w].who))
      BY <2>1 DEF Right, Verdict
    <3> QED BY <1>8, <2>1, <2>3, <3>1, DecideKeeps DEF CheckInitiator
  <2> QED BY <1>8, <2>2, <2>3 DEF CheckInitiator
<1>9. ASSUME NEW w \in Workers, Exec(w) PROVE Rest'
  <2>1. /\ call[w].req \in Requests /\ lock[call[w].req] = w /\ Pending(call[w].req)
        /\ Right(reqs[call[w].req], Verdict("executed", call[w].who))
    BY <1>9 DEF Rest, Judging, Exec, Right, Verdict
  <2> QED BY <1>9, <2>1, DecideKeeps DEF Exec
<1>10. ASSUME NEW w \in Workers, ExecRefused(w) PROVE Rest'
  <2> DEFINE c == call[w]
             d == Verdict("failed", c.who)
  <2>1. c.req \in Requests /\ lock[c.req] = w /\ Pending(c.req) /\ Right(reqs[c.req], d)
    BY <1>10 DEF Rest, Judging, ExecRefused, Right, Verdict
  <2>2. /\ \A v \in Workers : v # w => call'[v] = call[v] /\ staged'[v] = staged[v]
        /\ \A r \in Requests : staged'[w][r] = IF r = c.req THEN d ELSE NoOne
        /\ call'[w] = [c EXCEPT !.pc = "commit"]
    BY <1>10 DEF ExecRefused, Nothing, Step, TypeOK
  <2>3. /\ lock'[c.req] = w
        /\ \A r \in Requests : lock[r] # w => lock'[r] = lock[r]
        /\ UNCHANGED <<now, reqs, journal>>
    BY <1>10, <2>1 DEF ExecRefused, TypeOK
  <2>4. OneDecider'
    BY <2>1, <2>2, <2>3 DEF Rest, OneDecider, Pending
  <2>5. Judging'
    <3>1. ASSUME NEW v \in Workers, v # w
          PROVE  Judging!(v)'
      BY <2>2, <2>3, <3>1 DEF Rest, Judging, Pending
    <3>2. call'[w].pc = "commit"
      BY <2>2 DEF TypeOK, Call
    <3> QED BY <3>1, <3>2 DEF Judging
  <2>6. StagedRight'
    BY <2>1, <2>2, <2>3 DEF Rest, StagedRight, Right
  <2> QED BY <2>3, <2>4, <2>5, <2>6, RowsFrame DEF Rest
<1>11. ASSUME NEW w \in Workers, DecideFails(w) PROVE Rest'
  BY <1>11, EndTxKeeps DEF DecideFails
<1>12. ASSUME NEW w \in Workers, Commit(w) PROVE Rest'
  BY <1>12, CommitKeeps
<1>13. ASSUME NEW w \in Workers, ExpireDue(w) PROVE Rest'
  <2>1. PICK t \in 0..now : \E B \in SUBSET (Due(t) \cap Takeable(w)) :
          /\ lock' = [r \in Requests |-> IF r \in B THEN w ELSE lock[r]]
          /\ staged' = [staged EXCEPT ![w] =
               [r \in Requests |-> IF r \in B THEN Lapsed(r) ELSE NoOne]]
    BY <1>13 DEF ExpireDue
  <2>2. PICK B \in SUBSET (Due(t) \cap Takeable(w)) :
          /\ lock' = [r \in Requests |-> IF r \in B THEN w ELSE lock[r]]
          /\ staged' = [staged EXCEPT ![w] =
               [r \in Requests |-> IF r \in B THEN Lapsed(r) ELSE NoOne]]
    BY <2>1
  <2>3. \A r \in B : /\ r \in Requests /\ lock[r] \in {NoOne, w} /\ Pending(r)
                     /\ reqs[r].expires <= t
    BY DEF Due, Takeable
  <2>4. UNCHANGED <<now, reqs, journal>> /\ Step(w, "commit")
    BY <1>13 DEF ExpireDue
  <2>5. NoOne \notin Workers
    BY DEF ApprovalsAssumption
  <2>6. OneDecider'
    BY <2>2, <2>3, <2>4, <2>5 DEF Rest, OneDecider, Pending, TypeOK
  <2>7. Judging'
    BY <2>2, <2>3, <2>4, <2>5 DEF Rest, Judging, Pending, Step, TypeOK, Call
  <2>8. StagedRight'
    <3>1. ASSUME NEW r \in B
          PROVE  Right(reqs[r], Lapsed(r)) /\ r \in Requests
      <4>1. reqs[r].expires \in Nat /\ reqs[r].expires <= now
        BY <2>3 DEF TypeOK, Row
      <4> QED BY <2>3, <4>1 DEF Right, Lapsed
    <3> QED BY <2>2, <2>4, <3>1 DEF Rest, StagedRight, Right, TypeOK
  <2> QED BY <2>4, <2>6, <2>7, <2>8, RowsFrame DEF Rest
<1>14. ASSUME NEW w \in Workers, Rollback(w) PROVE Rest'
  BY <1>14, EndTxKeeps DEF Rollback
<1>15. CASE PurgeDecided
  <2>1. \A r \in Requests :
          \/ reqs'[r] = reqs[r]
          \/ reqs[r].status \in Settled /\ reqs'[r].status = "purged"
    BY <1>15 DEF PurgeDecided, Old, TypeOK, Row
  <2>2. UNCHANGED <<now, lock, call, staged, journal>>
    BY <1>15 DEF PurgeDecided
  <2>3. \A r \in Requests : Pending(r) => reqs'[r] = reqs[r]
    BY <2>1 DEF Pending, Settled
  <2>4. OneDecider'
    BY <2>2, <2>3 DEF Rest, OneDecider, Pending
  <2>5. Judging'
    BY <2>2, <2>3 DEF Rest, Judging, Pending
  <2>6. StagedRight'
    BY <2>2, <2>3 DEF Rest, OneDecider, StagedRight, Right
  <2>7. RowsRight'
    BY <2>1, <2>2 DEF Rest, RowsRight, Right, Settled
  <2>8. DecidedOnce'
    <3>1. ASSUME NEW r \in Requests, reqs[r].status \in Settled, reqs'[r].status = "purged"
          PROVE  Len(journal'[r]) = 1
      <4>1. journal[r] = <<[status |-> reqs[r].status, decider |-> reqs[r].decider,
                            at |-> reqs[r].at]>>
        BY <3>1 DEF Rest, DecidedOnce, Settled
      <4> QED BY <2>2, <4>1
    <3> QED BY <2>1, <2>2, <3>1 DEF Rest, DecidedOnce
  <2> QED BY <2>4, <2>5, <2>6, <2>7, <2>8 DEF Rest
<1>16. CASE UNCHANGED vars
  <2>1. UNCHANGED <<now, reqs, lock, call, staged, journal>>
    BY <1>16 DEF vars
  <2>2. OneDecider' /\ Judging' /\ StagedRight'
    BY <2>1 DEF Rest, OneDecider, Judging, StagedRight, Pending, Right
  <2> QED BY <2>1, <2>2, RowsFrame DEF Rest
<1> QED BY <1>1, <1>2, <1>3, <1>4, <1>5, <1>6, <1>7, <1>8, <1>9, <1>10, <1>11, <1>12, <1>13,
           <1>14, <1>15, <1>16 DEF Next, Progress

----------------------------------------------------------------------------
(* Inv is inductive.                                                       *)
LEMMA InitInv == Init => Inv
<1> SUFFICES ASSUME Init PROVE Inv
  OBVIOUS
<1>1. TypeOK
  BY DEF Init, TypeOK, NoRow, Row, Idle, Call, Nothing, Pcs
<1>2. Rest
  BY DEF Init, Rest, OneDecider, Judging, StagedRight, RowsRight, DecidedOnce, NoRow, Idle,
         Nothing, Settled
<1> QED BY <1>1, <1>2 DEF Inv

LEMMA InvStep == Inv /\ [Next]_vars => Inv'
BY TypeStep, RestStep DEF Inv, Rest

THEOREM Invariance == Spec => []Inv
BY InitInv, InvStep, PTL DEF Spec

(* Every variable keeps its type, for every number of requests, employees  *)
(* and connections.                                                        *)
THEOREM TypeCorrect == Spec => []TypeOK
BY Invariance, PTL DEF Inv

(* Nobody executes, rejects or fails a request of their own or about       *)
(* themselves (Approve and Reject answer ErrSelf under the row's lock).    *)
THEOREM TwoHandsAlways == Spec => []TwoHands
<1>1. Inv => TwoHands
  BY DEF Inv, Rest, RowsRight, Right, TwoHands, Settled
<1> QED BY <1>1, Invariance, PTL

(* No request is decided or recorded twice, whichever transactions race.   *)
THEOREM DecidedOnceAlways == Spec => []DecidedOnce
BY Invariance, PTL DEF Inv, Rest

(* FOR UPDATE and SKIP LOCKED leave one transaction with a verdict per row.*)
THEOREM OneDeciderAlways == Spec => []OneDecider
BY Invariance, PTL DEF Inv, Rest

(* A lapsed request is dated at its deadline, which has come.              *)
THEOREM ExpiresAtDeadlineAlways == Spec => []ExpiresAtDeadline
<1>1. Inv => ExpiresAtDeadline
  BY DEF Inv, Rest, RowsRight, Right, ExpiresAtDeadline, Settled, TypeOK, Row
<1> QED BY <1>1, Invariance, PTL

----------------------------------------------------------------------------
(* The service implements ApprovalLifecycle.  Steps that leave the rows    *)
(* alone stutter; a request asks; a commit settles exactly the rows it had *)
(* a verdict on; a purge forgets.                                          *)
LEMMA InitMaps == Init => Lifecycle!Init
BY DEF Init, Lifecycle!Init, Lifecycle!Absent, rowBar, NoRow

LEMMA RequestMaps ==
  ASSUME TypeOK, NEW r \in Requests, NEW s \in Staff, NEW t \in Staff \cup {NoOne}, Request(r, s, t)
  PROVE  Lifecycle!Ask(r, s, t)
<1>1. rowBar' = [rowBar EXCEPT ![r] = [status |-> "pending", by |-> s, target |-> t,
                                       decider |-> NoOne]]
  BY DEF Request, rowBar, TypeOK
<1>2. rowBar[r].status = "absent"
  BY DEF Request, rowBar
<1> QED BY <1>1, <1>2 DEF Lifecycle!Ask

LEMMA CommitMaps ==
  ASSUME Inv, TypeOK', NEW w \in Workers, Commit(w)
  PROVE  Lifecycle!Settle(Decided(w))
<1>1. rowBar' \in [Requests -> Lifecycle!Row]
  <2>1. ASSUME NEW r \in Requests
        PROVE  [status |-> reqs'[r].status, by |-> reqs'[r].by,
                target |-> reqs'[r].target, decider |-> reqs'[r].decider] \in Lifecycle!Row
    <3>1. reqs'[r] \in Row
      BY DEF TypeOK
    <3> QED BY <3>1 DEF Row, Lifecycle!Row, Settled, Lifecycle!Settled
  <2> QED BY <2>1 DEF rowBar
<1>2. ASSUME NEW r \in Requests \ Decided(w)
      PROVE  rowBar'[r] = rowBar[r]
  BY <1>2 DEF Commit, rowBar, Decided
<1>3. ASSUME NEW r \in Decided(w)
      PROVE  Lifecycle!Settles(r)
  <2> DEFINE d == staged[w][r]
             v == [status |-> d.status, decider |-> d.decider]
  <2>1. r \in Requests /\ d # NoOne
    BY DEF Decided
  <2>2. d \in Decision /\ reqs[r] \in Row
    BY <2>1 DEF Inv, TypeOK
  <2>3. Pending(r) /\ Right(reqs[r], d)
    BY <2>1 DEF Inv, Rest, OneDecider, StagedRight
  <2>4. v \in Lifecycle!Verdicts
    BY <2>2 DEF Decision, Settled, Lifecycle!Verdicts, Lifecycle!Settled
  <2>5. Lifecycle!Entitled(rowBar[r], v)
    <3>1. /\ rowBar[r].by = reqs[r].by /\ rowBar[r].target = reqs[r].target
          /\ v.status = d.status /\ v.decider = d.decider /\ d.status \in Settled
      BY <2>1, <2>2 DEF rowBar, Decision
    <3> HIDE DEF v
    <3> QED BY <2>3, <3>1 DEF Right, Settled, Lifecycle!Entitled
  <2>6. rowBar'[r] = [status |-> v.status, by |-> rowBar[r].by, target |-> rowBar[r].target,
                      decider |-> v.decider]
    <3>1. /\ reqs'[r].status = d.status /\ reqs'[r].decider = d.decider
          /\ reqs'[r].by = reqs[r].by /\ reqs'[r].target = reqs[r].target
      BY <2>1, <2>2 DEF Commit, Apply, Decided, Row
    <3> QED BY <2>1, <3>1 DEF rowBar
  <2>7. rowBar[r].status = "pending"
    BY <2>1, <2>3 DEF rowBar, Pending
  <2> QED BY <2>4, <2>5, <2>6, <2>7 DEF Lifecycle!Settles
<1> QED BY <1>1, <1>2, <1>3 DEF Lifecycle!Settle

LEMMA PurgeMaps ==
  ASSUME Inv, PurgeDecided
  PROVE  \E R \in SUBSET Requests : Lifecycle!Forget(R)
<1>1. PICK t \in 0..now : \E B \in SUBSET Old(t) :
        reqs' = [r \in Requests |->
                   IF r \in B THEN [reqs[r] EXCEPT !.status = "purged"] ELSE reqs[r]]
  BY DEF PurgeDecided
<1>2. PICK B \in SUBSET Old(t) :
        reqs' = [r \in Requests |->
                   IF r \in B THEN [reqs[r] EXCEPT !.status = "purged"] ELSE reqs[r]]
  BY <1>1
<1>3. B \in SUBSET Requests /\ \A r \in B : rowBar[r].status \in Lifecycle!Settled
  BY DEF Old, rowBar, Settled, Lifecycle!Settled
<1>4. rowBar' = [r \in Requests |->
                   IF r \in B THEN [rowBar[r] EXCEPT !.status = "purged"] ELSE rowBar[r]]
  <2>1. ASSUME NEW r \in Requests, r \in B
        PROVE  rowBar'[r] = [rowBar[r] EXCEPT !.status = "purged"]
    <3>1. reqs'[r] = [reqs[r] EXCEPT !.status = "purged"] /\ reqs[r] \in Row
      BY <1>2, <2>1 DEF Inv, TypeOK
    <3>2. /\ reqs'[r].status = "purged" /\ reqs'[r].by = reqs[r].by
          /\ reqs'[r].target = reqs[r].target /\ reqs'[r].decider = reqs[r].decider
      BY <3>1 DEF Row
    <3> QED BY <3>2 DEF rowBar
  <2>2. ASSUME NEW r \in Requests, r \notin B
        PROVE  rowBar'[r] = rowBar[r]
    BY <1>2, <2>2 DEF rowBar
  <2>3. rowBar' = [r \in Requests |-> rowBar'[r]]
    BY DEF rowBar
  <2> QED BY <2>1, <2>2, <2>3
<1> QED BY <1>3, <1>4 DEF Lifecycle!Forget

LEMMA StepMaps ==
  ASSUME Inv, TypeOK', [Next]_vars
  PROVE  [Lifecycle!Next]_rowBar
<1>1. CASE UNCHANGED reqs
  BY <1>1 DEF rowBar
<1>2. ASSUME NEW r \in Requests, NEW s \in Staff, NEW t \in Staff \cup {NoOne}, Request(r, s, t)
      PROVE  Lifecycle!Next
  BY <1>2, RequestMaps DEF Inv, Lifecycle!Next
<1>3. ASSUME NEW w \in Workers, Commit(w)
      PROVE  Lifecycle!Next
  <2>1. Decided(w) \in SUBSET Requests
    BY DEF Decided
  <2> QED BY <1>3, <2>1, CommitMaps DEF Lifecycle!Next
<1>4. CASE PurgeDecided
  BY <1>4, PurgeMaps DEF Lifecycle!Next
<1>5. UNCHANGED reqs \/ PurgeDecided \/ (\E w \in Workers : Commit(w))
      \/ \E r \in Requests, s \in Staff, t \in Staff \cup {NoOne} : Request(r, s, t)
  BY DEF Next, Progress, vars, Tick, LockApproval, CancelByInitiator, Refuse, Overdue, Accept,
         CheckInitiator, Exec, ExecRefused, DecideFails, ExpireDue, Rollback
<1> QED BY <1>1, <1>2, <1>3, <1>4, <1>5

(* The transactions of Approvals implement the lifecycle that readers of   *)
(* the table may rely on (ImplementsLifecycle).                            *)
THEOREM Implementation == Spec => ImplementsLifecycle
<1>1. Inv /\ Inv' /\ [Next]_vars => [Lifecycle!Next]_rowBar
  BY StepMaps DEF Inv
<1> QED BY <1>1, InitMaps, Invariance, PTL DEF Spec, ImplementsLifecycle, Lifecycle!Spec

----------------------------------------------------------------------------
(* A transaction that asked for a row has it under its lock to the end,     *)
(* and a locked row is never gone.                                          *)
Held ==
  \A w \in Workers : call[w].req # NoOne =>
    call[w].req \in Requests /\ lock[call[w].req] = w /\ Exists(call[w].req)

(* A transaction's own step, none of whose rows another one holds.          *)
LEMMA HeldEnd ==
  ASSUME TypeOK, Held, NEW w \in Workers, EndTx(w),
         \A r \in Requests : lock[r] # w => reqs'[r] = reqs[r]
  PROVE  Held'
<1>1. call'[w] = Idle /\ \A v \in Workers \ {w} : call'[v] = call[v]
  BY DEF EndTx, TypeOK
<1>2. \A r \in Requests : lock[r] # w => lock'[r] = lock[r]
  BY DEF EndTx, TypeOK
<1> QED BY <1>1, <1>2 DEF Held, Exists, Idle

LEMMA HeldStep ==
  ASSUME TypeOK, Held, NEW w \in Workers, NEW pc \in Pcs, Step(w, pc), UNCHANGED reqs,
         \A r \in Requests : lock[r] \notin {NoOne, w} => lock'[r] = lock[r],
         \A r \in Requests : lock[r] = w /\ r = call[w].req => lock'[r] = w
  PROVE  Held'
<1>1. \A v \in Workers : call'[v].req = call[v].req
  BY DEF Step, TypeOK, Call
<1> QED BY <1>1, ApprovalsAssumption DEF Held, Exists

LEMMA HeldKept ==
  ASSUME TypeOK, Rest, Held, [Next]_vars
  PROVE  Held'
<1>1. CASE UNCHANGED <<reqs, lock, call>>
  BY <1>1 DEF Held, Exists
<1>2. ASSUME NEW r \in Requests, NEW s \in Staff, NEW t \in Staff \cup {NoOne}, Request(r, s, t)
      PROVE  Held'
  BY <1>2 DEF Request, Held, Exists, TypeOK
<1>3. ASSUME NEW w \in Workers, NEW op \in Ops, NEW s \in Staff, NEW r \in Requests,
             NEW may \in BOOLEAN, LockApproval(w, op, s, r, may)
      PROVE  Held'
  <2>1. /\ call'[w].req = r /\ lock'[r] = w /\ Exists(r) /\ lock[r] = NoOne
        /\ \A v \in Workers \ {w} : call'[v] = call[v]
        /\ \A q \in Requests \ {r} : lock'[q] = lock[q]
        /\ reqs' = reqs
    BY <1>3 DEF LockApproval, TypeOK
  <2> QED BY <2>1, ApprovalsAssumption DEF Held, Exists
<1>4. ASSUME NEW w \in Workers, Refuse(w) \/ DecideFails(w) \/ Rollback(w)
      PROVE  Held'
  BY <1>4, HeldEnd DEF Refuse, DecideFails, Rollback
<1>5. ASSUME NEW w \in Workers, Overdue(w) \/ Accept(w) \/ CheckInitiator(w) \/ Exec(w)
      PROVE  Held'
  <2>1. UNCHANGED <<reqs, lock>>
    BY <1>5 DEF Overdue, Accept, CheckInitiator, Exec
  <2>2. PICK pc \in Pcs : Step(w, pc)
    <3>1. call[w].op \in Ops \/ ~Accept(w)
      BY DEF Accept, Rest, Judging
    <3> QED BY <1>5, <3>1 DEF Overdue, Accept, CheckInitiator, Exec, Decide, Pcs, Ops
  <2> QED BY <2>1, <2>2, HeldStep
<1>6. ASSUME NEW w \in Workers, ExecRefused(w)
      PROVE  Held'
  <2>1. Step(w, "commit") /\ UNCHANGED reqs
        /\ \A r \in Requests : lock[r] # w \/ r = call[w].req => lock'[r] = lock[r]
    BY <1>6 DEF ExecRefused, TypeOK
  <2> QED BY <2>1, HeldStep, ApprovalsAssumption DEF Pcs
<1>7. ASSUME NEW w \in Workers, NEW s \in Staff, CancelByInitiator(w, s)
      PROVE  Held'
  <2>1. PICK pc \in Pcs : Step(w, pc)
    BY <1>7 DEF CancelByInitiator, Pcs
  <2>2. UNCHANGED reqs /\ \A r \in Requests : lock'[r] = lock[r] \/ (r \in Takeable(w) /\ lock'[r] = w)
    BY <1>7 DEF CancelByInitiator, TypeOK
  <2> QED BY <2>1, <2>2, HeldStep DEF Takeable
<1>8. ASSUME NEW w \in Workers, ExpireDue(w)
      PROVE  Held'
  <2>1. Step(w, "commit") /\ UNCHANGED reqs
        /\ \A r \in Requests : lock'[r] = lock[r] \/ (r \in Takeable(w) /\ lock'[r] = w)
    BY <1>8 DEF ExpireDue, TypeOK
  <2> QED BY <2>1, HeldStep DEF Takeable, Pcs
<1>9. ASSUME NEW w \in Workers, Commit(w)
      PROVE  Held'
  <2>1. EndTx(w) /\ \A r \in Requests : lock[r] # w => reqs'[r] = reqs[r]
    BY <1>9 DEF Commit, Decided, Rest, OneDecider, TypeOK
  <2> QED BY <2>1, HeldEnd
<1>10. CASE PurgeDecided
  <2>1. UNCHANGED <<lock, call>> /\ \A r \in Requests : lock[r] # NoOne => reqs'[r] = reqs[r]
    BY <1>10 DEF PurgeDecided, TypeOK
  <2> QED BY <2>1, ApprovalsAssumption DEF Held, Exists
<1>11. CASE Tick
  BY <1>1, <1>11 DEF Tick
<1>12. CASE UNCHANGED vars
  BY <1>1, <1>12 DEF vars
<1> QED BY <1>2, <1>3, <1>4, <1>5, <1>6, <1>7, <1>8, <1>9, <1>10, <1>11, <1>12
        DEF Next, Progress

(* What a transaction read under the row's lock is the committed row until  *)
(* that transaction ends (JudgedAsRead): only a commit, a purge and a       *)
(* request write rows, and none of them a row under another's lock.         *)
THEOREM JudgedAsReadAlways == Spec => JudgedAsRead
<1> DEFINE Kept == \A w \in Workers :
             call[w].req # NoOne /\ call'[w] # Idle => reqs'[call[w].req] = reqs[call[w].req]
<1>1. Init => Held
  BY DEF Init, Held, Idle
<1>2. Inv /\ Held /\ [Next]_vars => Held'
  BY HeldKept DEF Inv
<1>3. Inv /\ Held /\ [Next]_vars => [Kept]_vars
  <2> SUFFICES ASSUME Inv, Held, Next, NEW w \in Workers, call[w].req # NoOne, call'[w] # Idle
               PROVE  reqs'[call[w].req] = reqs[call[w].req]
    OBVIOUS
  <2> DEFINE q == call[w].req
  <2>1. q \in Requests /\ lock[q] = w /\ Exists(q)
    BY DEF Held
  <2>2. CASE UNCHANGED reqs
    BY <2>2
  <2>3. ASSUME NEW r \in Requests, NEW s \in Staff, NEW t \in Staff \cup {NoOne},
               Request(r, s, t)
        PROVE  reqs'[q] = reqs[q]
    BY <2>1, <2>3 DEF Request, Exists, Inv, TypeOK
  <2>4. ASSUME NEW v \in Workers, Commit(v)
        PROVE  reqs'[q] = reqs[q]
    <3>1. call'[v] = Idle
      BY <2>4 DEF Commit, EndTx, Inv, TypeOK
    <3>2. staged[v][q] = NoOne
      BY <2>1, <3>1 DEF Inv, Rest, OneDecider
    <3> QED BY <2>1, <2>4, <3>2 DEF Commit, Decided
  <2>5. CASE PurgeDecided
    BY <2>1, <2>5, ApprovalsAssumption DEF PurgeDecided
  <2>6. UNCHANGED reqs \/ PurgeDecided \/ (\E v \in Workers : Commit(v))
        \/ \E r \in Requests, s \in Staff, t \in Staff \cup {NoOne} : Request(r, s, t)
    BY DEF Next, Progress, Tick, LockApproval, CancelByInitiator, Refuse, Overdue, Accept,
           CheckInitiator, Exec, ExecRefused, DecideFails, ExpireDue, Rollback
  <2> QED BY <2>2, <2>3, <2>4, <2>5, <2>6
<1> QED BY <1>1, <1>2, <1>3, Invariance, PTL DEF Spec, JudgedAsRead

----------------------------------------------------------------------------
(* A transaction before its checks has staged nothing, and one that failed  *)
(* a request has nothing else staged and only its commit left.              *)
Bare(w) == \A r \in Requests : staged[w][r] = NoOne
Lone(w, r) == call[w].pc = "commit" /\ \A q \in Requests : q # r => staged[w][q] = NoOne
Solitary ==
  \A w \in Workers :
    /\ call[w].pc \in {"idle", "locked", "check"} => Bare(w)
    /\ \A r \in Requests : staged[w][r] # NoOne /\ staged[w][r].status = "failed" => Lone(w, r)

(* What leaves the other transactions alone.                                *)
LEMMA SolitaryOther ==
  ASSUME Solitary, NEW w \in Workers,
         \A v \in Workers \ {w} : call'[v] = call[v] /\ staged'[v] = staged[v],
         call'[w].pc \in {"idle", "locked", "check"} => Bare(w)',
         \A r \in Requests : staged'[w][r] # NoOne /\ staged'[w][r].status = "failed" => Lone(w, r)'
  PROVE  Solitary'
BY DEF Solitary, Bare, Lone

LEMMA SolitaryStep ==
  ASSUME TypeOK, Rest, Solitary, [Next]_vars
  PROVE  Solitary'
<1> USE ApprovalsAssumption
<1>1. ASSUME UNCHANGED <<call, staged>> PROVE Solitary'
  BY <1>1 DEF Solitary, Bare, Lone
<1>2. ASSUME NEW w \in Workers, EndTx(w) PROVE Solitary'
  <2>1. call'[w] = Idle /\ (\A r \in Requests : staged'[w][r] = NoOne)
        /\ \A v \in Workers \ {w} : call'[v] = call[v] /\ staged'[v] = staged[v]
    BY <1>2 DEF EndTx, TypeOK, Nothing
  <2> QED BY <2>1, SolitaryOther DEF Bare
(* One verdict more, or none: not a failure unless it is the only one.      *)
<1>3. ASSUME NEW w \in Workers, NEW r \in Requests, NEW d, Decide(w, r, d),
             d.status # "failed" \/ Bare(w),
             \A q \in Requests : staged[w][q] # NoOne => staged[w][q].status # "failed"
      PROVE  Solitary'
  <2>1. call'[w].pc = "commit" /\ \A v \in Workers \ {w} : call'[v] = call[v]
    BY <1>3 DEF Decide, Step, TypeOK, Call
  <2>2. /\ \A v \in Workers \ {w} : staged'[v] = staged[v]
        /\ \A q \in Requests : staged'[w][q] = IF q = r THEN d ELSE staged[w][q]
    BY <1>3 DEF Decide, TypeOK
  <2> QED BY <1>3, <2>1, <2>2, SolitaryOther DEF Bare, Lone
<1>4. ASSUME NEW w \in Workers, NEW pc \in Pcs, Step(w, pc), UNCHANGED staged, call[w].pc # "commit",
             pc \in {"idle", "locked", "check"} => Bare(w)
      PROVE  Solitary'
  <2>1. call'[w].pc = pc /\ \A v \in Workers \ {w} : call'[v] = call[v]
    BY <1>4 DEF Step, TypeOK, Call
  <2>2. \A r \in Requests : staged'[w][r] # NoOne => staged'[w][r].status # "failed"
    BY <1>4 DEF Solitary, Lone
  <2> QED BY <1>4, <2>1, <2>2, SolitaryOther DEF Bare
<1>5. ASSUME NEW w \in Workers, call[w].pc # "commit", NEW r \in Requests, staged[w][r] # NoOne
      PROVE  staged[w][r].status # "failed"
  BY <1>5 DEF Solitary, Lone
<1>6. ASSUME NEW w \in Workers, NEW op \in Ops, NEW s \in Staff, NEW r \in Requests,
             NEW may \in BOOLEAN, LockApproval(w, op, s, r, may)
      PROVE  Solitary'
  <2>1. Bare(w) /\ UNCHANGED staged /\ \A v \in Workers \ {w} : call'[v] = call[v]
    BY <1>6 DEF LockApproval, Solitary
  <2>2. Bare(w)'
    BY <2>1 DEF Bare
  <2> QED BY <2>1, <2>2, SolitaryOther DEF Bare
<1>7. ASSUME NEW w \in Workers, NEW s \in Staff, CancelByInitiator(w, s) PROVE Solitary'
  <2> DEFINE pc == IF call[w].pc = "idle" THEN "commit" ELSE "exec"
  <2>1. call'[w].pc = pc /\ \A v \in Workers \ {w} : call'[v] = call[v] /\ staged'[v] = staged[v]
    BY <1>7 DEF CancelByInitiator, Step, TypeOK, Call
  <2>2. \A r \in Requests : staged'[w][r] = Verdict("cancelled", System) \/ staged'[w][r] = staged[w][r]
    BY <1>7 DEF CancelByInitiator, TypeOK
  <2>3. Verdict("cancelled", System).status = "cancelled"
    BY DEF Verdict
  <2>4. call[w].pc # "commit"
    BY <1>7 DEF CancelByInitiator
  <2>5. \A r \in Requests : staged'[w][r] # NoOne => staged'[w][r].status # "failed"
    BY <1>5, <2>2, <2>3, <2>4
  <2> QED BY <2>1, <2>5, SolitaryOther
<1>8. ASSUME NEW w \in Workers, Overdue(w) PROVE Solitary'
  <2>1. call[w].req \in Requests /\ call[w].pc = "locked"
    BY <1>8 DEF Rest, Judging, Overdue
  <2>2. Lapsed(call[w].req).status # "failed"
    BY DEF Lapsed
  <2> QED BY <1>3, <1>5, <1>8, <2>1, <2>2 DEF Overdue
<1>9. ASSUME NEW w \in Workers, Accept(w) PROVE Solitary'
  <2>1. call[w].req \in Requests /\ call[w].pc = "locked" /\ Bare(w) /\ call[w].op \in Ops
    BY <1>9 DEF Rest, Judging, Accept, Solitary
  <2>2. Verdict("rejected", call[w].who).status # "failed" /\ Verdict("cancelled", call[w].who).status # "failed"
    BY DEF Verdict
  <2>3. CASE Step(w, "check") /\ UNCHANGED staged
    BY <1>4, <2>1, <2>3 DEF Pcs
  <2>4. CASE Decide(w, call[w].req, Verdict("rejected", call[w].who))
    BY <1>3, <1>5, <2>1, <2>2, <2>4
  <2>5. CASE Decide(w, call[w].req, Verdict("cancelled", call[w].who))
    BY <1>3, <1>5, <2>1, <2>2, <2>5
  <2> QED BY <1>9, <2>1, <2>3, <2>4, <2>5 DEF Accept, Ops
<1>10. ASSUME NEW w \in Workers, CheckInitiator(w) PROVE Solitary'
  <2>1. call[w].req \in Requests /\ call[w].pc = "check" /\ Bare(w)
    BY <1>10 DEF Rest, Judging, CheckInitiator, Solitary
  <2>2. CASE Step(w, "exec") /\ UNCHANGED staged
    BY <1>4, <2>1, <2>2 DEF Pcs
  <2>3. CASE Decide(w, call[w].req, Verdict("failed", call[w].who))
    BY <1>3, <1>5, <2>1, <2>3
  <2> QED BY <1>10, <2>2, <2>3 DEF CheckInitiator
<1>11. ASSUME NEW w \in Workers, Exec(w) PROVE Solitary'
  <2>1. call[w].req \in Requests /\ call[w].pc = "exec"
    BY <1>11 DEF Rest, Judging, Exec
  <2>2. Verdict("executed", call[w].who).status # "failed"
    BY DEF Verdict
  <2> QED BY <1>3, <1>5, <1>11, <2>1, <2>2 DEF Exec
<1>12. ASSUME NEW w \in Workers, ExecRefused(w) PROVE Solitary'
  <2>1. call[w].req \in Requests
    BY <1>12 DEF Rest, Judging, ExecRefused
  <2>2. /\ call'[w].pc = "commit" /\ \A v \in Workers \ {w} : call'[v] = call[v] /\ staged'[v] = staged[v]
        /\ \A q \in Requests : q # call[w].req => staged'[w][q] = NoOne
    BY <1>12, <2>1 DEF ExecRefused, Nothing, Step, TypeOK, Call
  <2> QED BY <2>2, SolitaryOther DEF Lone
<1>13. ASSUME NEW w \in Workers, ExpireDue(w) PROVE Solitary'
  <2>1. call'[w].pc = "commit" /\ \A v \in Workers \ {w} : call'[v] = call[v] /\ staged'[v] = staged[v]
    BY <1>13 DEF ExpireDue, Step, TypeOK, Call
  <2>2. \A r \in Requests : staged'[w][r] = Lapsed(r) \/ staged'[w][r] = NoOne
    BY <1>13 DEF ExpireDue, TypeOK
  <2>3. \A r \in Requests : Lapsed(r).status # "failed"
    BY DEF Lapsed
  <2> QED BY <2>1, <2>2, <2>3, SolitaryOther
<1>14. CASE Tick \/ PurgeDecided \/ UNCHANGED vars
  BY <1>1, <1>14 DEF Tick, PurgeDecided, vars
<1>15. ASSUME NEW r \in Requests, NEW s \in Staff, NEW t \in Staff \cup {NoOne}, Request(r, s, t)
       PROVE  Solitary'
  BY <1>1, <1>15 DEF Request
<1>16. ASSUME NEW w \in Workers, Refuse(w) \/ DecideFails(w) \/ Commit(w) \/ Rollback(w) PROVE Solitary'
  BY <1>2, <1>16 DEF Refuse, DecideFails, Commit, Rollback
<1> QED BY <1>6, <1>7, <1>8, <1>9, <1>10, <1>11, <1>12, <1>13, <1>14, <1>15, <1>16 DEF Next, Progress

(* Which rows a step changes, and how.                                      *)
LEMMA FailsAlone ==
  ASSUME TypeOK, Rest, Solitary, [Next]_vars, NEW r \in Requests, NEW q \in Requests,
         reqs[r].status = "pending", reqs'[r].status = "failed", q # r
  PROVE  reqs'[q] = reqs[q]
<1>1. UNCHANGED reqs \/ PurgeDecided \/ (\E w \in Workers : Commit(w))
      \/ \E p \in Requests, s \in Staff, t \in Staff \cup {NoOne} : Request(p, s, t)
  BY DEF Next, Progress, vars, Tick, LockApproval, CancelByInitiator, Refuse, Overdue, Accept,
         CheckInitiator, Exec, ExecRefused, DecideFails, ExpireDue, Rollback
<1>2. ~PurgeDecided
  BY DEF PurgeDecided, TypeOK, Row
<1>3. ASSUME NEW p \in Requests, NEW s \in Staff, NEW t \in Staff \cup {NoOne}, Request(p, s, t) PROVE FALSE
  BY <1>3 DEF Request, TypeOK
<1>4. PICK w \in Workers : Commit(w)
  BY <1>1, <1>2, <1>3
<1>5. r \in Decided(w) /\ reqs'[r] = Apply(reqs[r], staged[w][r])
  BY <1>4 DEF Commit, TypeOK
<1>6. staged[w][r] # NoOne /\ staged[w][r].status = "failed"
  <2>1. reqs[r] \in Row
    BY DEF TypeOK
  <2> QED BY <1>5, <2>1 DEF Apply, Decided, Row
<1>7. staged[w][q] = NoOne
  BY <1>6 DEF Solitary, Lone
<1> QED BY <1>4, <1>7 DEF Commit, Decided, TypeOK

(* A request that failed leaves every other as it was: what the executor    *)
(* cancelled before it refused went with the savepoint (decide).            *)
THEOREM FailedAloneAlways == Spec => FailedAlone
<1>1. Init => Solitary
  BY DEF Init, Solitary, Bare, Nothing
<1>2. Inv /\ Solitary /\ [Next]_vars => Solitary'
  BY SolitaryStep DEF Inv
<1>3. Inv /\ Solitary /\ [Next]_vars =>
        [\A r, q \in Requests :
           reqs[r].status = "pending" /\ reqs'[r].status = "failed" /\ q # r => reqs'[q] = reqs[q]]_vars
  BY FailsAlone DEF Inv
<1> QED BY <1>1, <1>2, <1>3, Invariance, PTL DEF Spec, FailedAlone
=============================================================================
